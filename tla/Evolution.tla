------------------------------- MODULE Evolution -------------------------------
(***************************************************************************)
(* What AuC learns from its runs: the episodes of each role                *)
(* (integration/evolution.py), the counts of how often they were recalled  *)
(* and adopted and the cycle at the end of a run (evolution_loop.py), and  *)
(* the skills drafted from them, which a user promotes (skills.py, the     *)
(* `auc skills` commands in cli.py).  Runs of several processes end side   *)
(* by side in one sandbox.                                                 *)
(*                                                                         *)
(* Abstractions: an episode is the id the code gives it; which episodes a  *)
(* run's text matches is free; all episodes give their skills one name     *)
(* (the name keeps Latin letters and digits only, so that titles in        *)
(* Chinese all become "skill").                                            *)
(***************************************************************************)
EXTENDS Naturals, Sequences, FiniteSets, SequencesExt

CONSTANTS Procs, Roles,
          Cap,          \* the episodes a role keeps (200)
          Enough,       \* the recalls a promotion needs (3)
          MaxEpisodes, MaxRuns,  \* bounds
          None

VARIABLES store,     \* of each role: its evolution.yaml
          stats,     \* evolution-stats.json
          draft, active,  \* the skill of that name: the id of the episode it was made from
          pc, role, ok,   \* a run that has ended: where its cycle is, its role, whether it completed
          read,      \* the episodes it read
          base, held,     \* the counts it loaded, and its own
          pick,      \* the episode to draft a skill from
          runs, made,     \* the runs that ended, the episodes that were made
          total      \* what was recorded under each id

files == <<store, stats, draft, active>>
local == <<pc, role, ok, read, base, held, pick>>
ghosts == <<runs, made, total>>
vars == <<files, local, ghosts>>

Ids == 1..(Cap + 1)
Zero == [recall |-> 0, adopted |-> 0]
NoCounts == [i \in Ids |-> Zero]

Init ==
    /\ store = [r \in Roles |-> << >>] /\ stats = NoCounts
    /\ draft = None /\ active = None
    /\ pc = [p \in Procs |-> "idle"] /\ role \in [Procs -> Roles]
    /\ ok = [p \in Procs |-> FALSE] /\ read = [p \in Procs |-> << >>]
    /\ base = [p \in Procs |-> NoCounts] /\ held = [p \in Procs |-> NoCounts]
    /\ pick = [p \in Procs |-> None]
    /\ runs = 0 /\ made = 0
    /\ total = NoCounts

-------------------------------------------------------------------------------
(* Episodes.                                                                  *)

\* A run ends: memory.remember after one that completed, then the cycle.
RunEnds(p) ==
    /\ pc[p] = "idle" /\ runs < MaxRuns
    /\ runs' = runs + 1
    /\ \E r \in Roles : role' = [role EXCEPT ![p] = r]
    /\ \E o \in BOOLEAN :
         /\ ok' = [ok EXCEPT ![p] = o]
         /\ pc' = [pc EXCEPT ![p] = IF o THEN "remember" ELSE "cycle"]
    /\ UNCHANGED <<files, read, base, held, pick, made, total>>

\* EvolutionStore.load, for the lesson of a run that completed, and for the retrospect at
\* the end of the cycle, whatever became of the run.
Episodes(p) == store[role[p]]
ReadStore(p, from, to) ==
    /\ pc[p] = from /\ pc' = [pc EXCEPT ![p] = to]
    /\ read' = [read EXCEPT ![p] = Episodes(p)]
    /\ UNCHANGED <<files, role, ok, base, held, pick, ghosts>>
Remembers(p) == ReadStore(p, "remember", "add")
Retrospects(p) == ReadStore(p, "retro", "addRetro")

\* The run had no question in words, and there is nothing to keep of it.
NoLesson(p) ==
    /\ pc[p] \in {"remember", "retro"}
    /\ pc' = [pc EXCEPT ![p] = IF @ = "remember" THEN "cycle" ELSE "idle"]
    /\ UNCHANGED <<files, role, ok, read, base, held, pick, ghosts>>

\* add_episode: the id is one more than the length of the list before it is cut.
Added(eps) ==
    LET all == Append(eps, Len(eps) + 1)
    IN  IF Len(all) > Cap THEN Tail(all) ELSE all
WriteStore(p) ==
    /\ pc[p] \in {"add", "addRetro"} /\ made < MaxEpisodes
    /\ store' = [store EXCEPT ![role[p]] = Added(read[p])]
    /\ made' = made + 1
    /\ pc' = [pc EXCEPT ![p] = IF @ = "add" THEN "cycle" ELSE "idle"]
    /\ UNCHANGED <<stats, draft, active, role, ok, read, base, held, pick, runs, total>>

-------------------------------------------------------------------------------
(* run_evolution_cycle.                                                       *)

\* snapshot_episodes; without any there is nothing to count.
Snapshot(p) ==
    /\ pc[p] = "cycle"
    /\ read' = [read EXCEPT ![p] = Episodes(p)]
    /\ pc' = [pc EXCEPT ![p] = IF Episodes(p) = << >> THEN "retro" ELSE "load"]
    /\ UNCHANGED <<files, role, ok, base, held, pick, ghosts>>

\* EvolutionMetrics, then update_from_run: each episode the run's text matches was
\* recalled, and adopted if the run completed.
Counted(counts, hits, p) ==
    [i \in Ids |->
       LET n == Cardinality({k \in hits : read[p][k] = i}) IN
         [recall |-> counts[i].recall + n,
          adopted |-> counts[i].adopted + IF ok[p] THEN n ELSE 0]]
Load(p) ==
    /\ pc[p] = "load"
    /\ base' = [base EXCEPT ![p] = stats]
    /\ \E hits \in SUBSET DOMAIN read[p] :
         /\ held' = [held EXCEPT ![p] = Counted(stats, hits, p)]
         /\ pc' = [pc EXCEPT ![p] = IF hits = {} THEN "draft" ELSE "save"]
    /\ UNCHANGED <<files, role, ok, read, pick, runs, made, total>>

\* save, under the lock between processes: what is on disk now and what this run added.
MutMergedCounts(p) == held[p]
MergedCounts(p) ==
    [i \in Ids |->
       [recall |-> stats[i].recall + (held[p][i].recall - base[p][i].recall),
        adopted |-> stats[i].adopted + (held[p][i].adopted - base[p][i].adopted)]]
Save(p) ==
    /\ pc[p] = "save"
    /\ stats' = MergedCounts(p)
    /\ held' = [held EXCEPT ![p] = MergedCounts(p)]
    /\ total' = [i \in Ids |->
                   [recall |-> total[i].recall + (held[p][i].recall - base[p][i].recall),
                    adopted |-> total[i].adopted + (held[p][i].adopted - base[p][i].adopted)]]
    /\ pc' = [pc EXCEPT ![p] = "draft"]
    /\ UNCHANGED <<store, draft, active, role, ok, read, base, pick, runs, made>>

\* should_promote: recalled often enough, and adopted at least half of the times.
Earned(c) == c.recall >= Enough /\ 2 * c.adopted >= c.recall

\* _draft_promotions: an id that has earned it, of an episode this run read, and no skill
\* or draft of the name.
Candidates(p) == {i \in ToSet(read[p]) : Earned(held[p][i])}
Choose(p) ==
    /\ pc[p] = "draft" /\ draft = None /\ active = None
    /\ \E i \in Candidates(p) : pick' = [pick EXCEPT ![p] = i]
    /\ pc' = [pc EXCEPT ![p] = "write"]
    /\ UNCHANGED <<files, role, ok, read, base, held, ghosts>>
WriteDraft(p) ==
    /\ pc[p] = "write"
    /\ draft' = pick[p] /\ pick' = [pick EXCEPT ![p] = None]
    /\ pc' = [pc EXCEPT ![p] = "draft"]
    /\ UNCHANGED <<store, stats, active, role, ok, read, base, held, ghosts>>
Drafted(p) ==
    /\ pc[p] = "draft"
    /\ draft # None \/ active # None \/ Candidates(p) = {}
    /\ pc' = [pc EXCEPT ![p] = "retro"]
    /\ UNCHANGED <<files, role, ok, read, base, held, pick, ghosts>>

\* The process ends in the middle of it; every file is replaced at once.
Die(p) ==
    /\ pc[p] # "idle" /\ pc' = [pc EXCEPT ![p] = "idle"]
    /\ UNCHANGED <<files, role, ok, read, base, held, pick, ghosts>>

-------------------------------------------------------------------------------
(* auc skills.                                                                *)

\* promote writes the skill and then removes the draft.
Promote ==
    /\ draft # None /\ active' = draft
    /\ UNCHANGED <<store, stats, draft, local, ghosts>>
RemoveDraft ==
    /\ draft # None /\ draft' = None
    /\ UNCHANGED <<store, stats, active, local, ghosts>>
RemoveSkill ==
    /\ active # None /\ active' = None
    /\ UNCHANGED <<store, stats, draft, local, ghosts>>

Next ==
    \/ \E p \in Procs :
         \/ RunEnds(p) \/ Remembers(p) \/ Retrospects(p) \/ NoLesson(p) \/ WriteStore(p)
         \/ Snapshot(p) \/ Load(p) \/ Save(p) \/ Choose(p) \/ WriteDraft(p) \/ Drafted(p)
         \/ Die(p)
    \/ Promote \/ RemoveDraft \/ RemoveSkill
Spec == Init /\ [][Next]_vars

-------------------------------------------------------------------------------
(* Properties.                                                                *)

\* Runs that end side by side, in any order and in any number of processes, lose none of
\* the counts that were saved and count none twice.
CountsAreExact == stats = total
===============================================================================
