------------------------------ MODULE PromptOverlay ------------------------------
(***************************************************************************)
(* The addition to the system prompt that `auc evolve` drafts, applies and *)
(* takes back (prompt_optimizer.py, cli.py): drafts and earlier additions  *)
(* are files named for the second they were written in.                    *)
(*                                                                         *)
(* Abstractions: a text is the number of its proposal; commands are given  *)
(* one at a time, and may die between two of their files; the clock goes   *)
(* forward.  Git, which only records, and the evaluation of a draft, which *)
(* changes nothing, are left out.                                          *)
(***************************************************************************)
EXTENDS Naturals, Sequences, FiniteSets, FiniteSetsExt

CONSTANTS MaxTime, MaxProposals, MaxApplies,  \* bounds
          None

VARIABLES clock, proposed,
          draft,     \* of each second: the draft, a text or None
          active,    \* active.md
          history,   \* of each second: the addition that was replaced in it
          pc, id, text,  \* a command between its files, the draft it applies
          due,       \* texts that were proposed and not taken back
          before,    \* what each addition in force replaced
          calm,      \* no command died
          collided   \* a file was written over another of the same second

vars == <<clock, proposed, draft, active, history, pc, id, text, due, before, calm, collided>>
ghosts == <<due, before, calm, collided>>

Times == 1..MaxTime
NoFiles == [t \in Times |-> None]
Written(files) == {t \in Times : files[t] # None}

Init ==
    /\ clock = 1 /\ proposed = 0
    /\ draft = NoFiles /\ active = None /\ history = NoFiles
    /\ pc = "idle" /\ id = None /\ text = None
    /\ due = {} /\ before = << >> /\ calm = TRUE /\ collided = FALSE

Tick ==
    /\ clock < MaxTime /\ clock' = clock + 1
    /\ UNCHANGED <<proposed, draft, active, history, pc, id, text, ghosts>>

-------------------------------------------------------------------------------
\* A draft is there once its second file is.
Propose ==
    /\ pc = "idle" /\ proposed < MaxProposals
    /\ proposed' = proposed + 1
    /\ draft' = [draft EXCEPT ![clock] = proposed']
    /\ due' = due \cup {proposed'}
    /\ collided' = (collided \/ draft[clock] # None)
    /\ UNCHANGED <<clock, active, history, pc, id, text, before, calm>>

\* apply: the addition in force is kept, replaced, and the draft removed.
MutKept == history
Kept == IF active = None THEN history ELSE [history EXCEPT ![clock] = active]
Apply(t) ==
    /\ pc = "idle" /\ draft[t] # None /\ Len(before) < MaxApplies
    /\ history' = Kept
    /\ collided' = (collided \/ (active # None /\ history[clock] # None))
    /\ pc' = "activate" /\ id' = t /\ text' = draft[t]
    /\ UNCHANGED <<clock, proposed, draft, active, due, before, calm>>
Activate ==
    /\ pc = "activate" /\ pc' = "clean"
    /\ active' = text
    /\ before' = Append(before, active)
    /\ UNCHANGED <<clock, proposed, draft, history, id, text, due, calm, collided>>
Clean ==
    /\ pc = "clean" /\ pc' = "idle"
    /\ draft' = [draft EXCEPT ![id] = None] /\ id' = None /\ text' = None
    /\ UNCHANGED <<clock, proposed, active, history, ghosts>>

\* revert: the latest of the history comes back, and goes from it; without any, there is
\* no addition any more.
Latest == Max(Written(history))
Revert ==
    /\ pc = "idle"
    /\ \/ /\ Written(history) # {}
          /\ active' = history[Latest] /\ pc' = "unlink" /\ id' = Latest
       \/ /\ Written(history) = {} /\ active # None
          /\ active' = None /\ UNCHANGED <<pc, id>>
    /\ due' = due \ {active}
    /\ before' = IF before = << >> THEN before ELSE SubSeq(before, 1, Len(before) - 1)
    /\ UNCHANGED <<clock, proposed, draft, history, text, calm, collided>>
Unlink ==
    /\ pc = "unlink" /\ pc' = "idle"
    /\ history' = [history EXCEPT ![id] = None] /\ id' = None
    /\ UNCHANGED <<clock, proposed, draft, active, text, ghosts>>

Die ==
    /\ pc # "idle" /\ pc' = "idle" /\ id' = None /\ text' = None
    /\ calm' = FALSE
    /\ UNCHANGED <<clock, proposed, draft, active, history, due, before, collided>>

\* The commands of `auc evolve`.
Command == Propose \/ (\E t \in Times : Apply(t)) \/ Revert
Next == Tick \/ Command \/ Activate \/ Clean \/ Unlink \/ Die
Spec == Init /\ [][Next]_vars

-------------------------------------------------------------------------------
(* Properties.                                                                *)

\* The history holds what the additions in force replaced, the latest last; the first of
\* them replaced nothing.
Replaced ==
    \E when \in [2..Len(before) -> Times] :
      /\ \A i, j \in 2..Len(before) : i < j => when[i] < when[j]
      /\ Written(history) = {when[i] : i \in 2..Len(before)}
      /\ \A i \in 2..Len(before) : history[when[i]] = before[i]

\* The docstring at prompt_optimizer.py:7: what was replaced can be brought back.  As long
\* as no command died and no two fell in one second, each revert gives back exactly what
\* the last addition in force replaced; and no text is lost that was not taken back,
\* wherever a command died.
RevertGivesBack ==
    /\ calm /\ ~collided /\ pc = "idle" =>
         IF before = << >> THEN active = None /\ Written(history) = {}
         ELSE active # None /\ before[1] = None /\ Replaced
    /\ ~collided =>
         \A c \in due : c = active \/ \E t \in Times : draft[t] = c \/ history[t] = c
===============================================================================
