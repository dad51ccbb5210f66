------------------------------- MODULE Worktrees -------------------------------
(***************************************************************************)
(* Tasks run in parallel, each in a git worktree of its own                *)
(* (worktree.py, run_parallel; cli.py, auc worktree): the trees are made   *)
(* one after the other, the tasks run in threads, then the branches are    *)
(* merged and the trees removed one after the other.  git is the set of    *)
(* changes that reached the main branch, each task's branch and each       *)
(* worktree.  The process may die at any point and be run again; between   *)
(* runs the user merges, removes and adds worktrees by hand.               *)
(***************************************************************************)
EXTENDS Naturals, FiniteSets, FiniteSetsExt

CONSTANTS Names,       \* sanitized names of tasks, in their order: 1..n
          MaxWorkers,  \* threads of the pool
          MaxRuns      \* bound on the runs

VARIABLES main,      \* changes on the main branch
          merging,   \* the main tree is left in the middle of a merge
          branch,    \* a task's branch: a set of changes, or NoBranch
          tree,      \* the worktrees that exist
          dirty,     \* changes in a worktree that are not committed
          opts,      \* merge and cleanup of this run
          phase,     \* "idle", "create", "work", "merge", "clean"
          at,        \* the task the serial phases are at
          status,    \* of each task: "none", "ready", "busy", "done", "failed", "error"
          merged,    \* whether a task's merge was ok in this run
          runs, died,
          lost       \* history: changes that are nowhere any more

git == <<main, merging, branch, tree, dirty>>
run == <<opts, phase, at, status, merged>>
vars == <<git, run, runs, died, lost>>

Changes == Names \X (1..MaxRuns)
NoBranch == {<<0, 0>>}

Init ==
    /\ main = {} /\ merging = FALSE
    /\ branch = [n \in Names |-> NoBranch]
    /\ tree = {} /\ dirty = [n \in Names |-> {}]
    /\ opts = [merge |-> FALSE, cleanup |-> FALSE]
    /\ phase = "idle" /\ at = 1
    /\ status = [n \in Names |-> "none"]
    /\ merged = {}
    /\ runs = 0 /\ died = FALSE /\ lost = {}

BeginRun ==
    /\ phase = "idle" /\ runs < MaxRuns /\ runs' = runs + 1
    /\ opts' \in [merge : BOOLEAN, cleanup : BOOLEAN]
    /\ phase' = "create" /\ at' = 1
    /\ status' = [n \in Names |-> "none"] /\ merged' = {}
    /\ UNCHANGED <<git, died, lost>>

-------------------------------------------------------------------------------
\* create: git refuses a tree that exists; a branch that exists is taken as it is.
Added(n) == [branch EXCEPT ![n] = IF @ = NoBranch THEN main ELSE @]

Create ==
    /\ phase = "create" /\ at \in Names
    /\ \/ /\ at \notin tree
          /\ tree' = tree \cup {at} /\ branch' = Added(at)
          /\ status' = [status EXCEPT ![at] = "ready"]
       \/ status' = [status EXCEPT ![at] = "error"] /\ UNCHANGED <<tree, branch>>
    /\ at' = at + 1
    /\ UNCHANGED <<main, merging, dirty, opts, phase, merged, runs, died, lost>>

PoolStarts ==
    /\ phase = "create" /\ at \notin Names
    /\ phase' = "work"
    /\ UNCHANGED <<git, opts, at, status, merged, runs, died, lost>>

Busy == {n \in Names : status[n] = "busy"}
TaskStarts(n) ==
    /\ phase = "work" /\ status[n] = "ready" /\ Cardinality(Busy) < MaxWorkers
    /\ status' = [status EXCEPT ![n] = "busy"]
    /\ UNCHANGED <<git, opts, phase, at, merged, runs, died, lost>>

\* The agent of the task edits files; it may commit what it did, or not.
Edit(n) ==
    /\ status[n] = "busy"
    /\ dirty' = [dirty EXCEPT ![n] = @ \cup {<<n, runs>>}]
    /\ UNCHANGED <<main, merging, branch, tree, run, runs, died, lost>>
Commit(n) ==
    /\ status[n] = "busy" /\ dirty[n] # {}
    /\ branch' = [branch EXCEPT ![n] = @ \cup dirty[n]]
    /\ dirty' = [dirty EXCEPT ![n] = {}]
    /\ UNCHANGED <<main, merging, tree, run, runs, died, lost>>

\* _work: the exit code of the task, or an exception.
TaskEnds(n) ==
    /\ status[n] = "busy"
    /\ \E s \in {"done", "failed", "error"} : status' = [status EXCEPT ![n] = s]
    /\ UNCHANGED <<git, opts, phase, at, merged, runs, died, lost>>

PoolEnds ==
    /\ phase = "work" /\ \A n \in Names : status[n] \notin {"ready", "busy"}
    /\ phase' = "merge" /\ at' = 1
    /\ UNCHANGED <<git, opts, status, merged, runs, died, lost>>

-------------------------------------------------------------------------------
\* git merge: nothing to do for a branch that is in main already, which also git
\* reports as a success; otherwise there may be a conflict, which is aborted, and so
\* is what an earlier process left behind.
UpToDate(n) == branch[n] \subseteq main /\ ~merging
CanMerge(n) == branch[n] # NoBranch /\ ~merging

MergeOk(n) == CanMerge(n) /\ main' = main \cup branch[n] /\ UNCHANGED merging
Conflict(n) == ~UpToDate(n) /\ merging' = TRUE /\ UNCHANGED main
MutAbort == merging /\ UNCHANGED merging
Abort == merging /\ merging' = FALSE

MergeTask ==
    /\ phase = "merge" /\ at \in Names
    /\ \/ /\ opts.merge /\ status[at] = "done"
          /\ \/ MergeOk(at) /\ merged' = merged \cup {at} /\ phase' = "clean"
             \/ Conflict(at) /\ phase' = "abort" /\ UNCHANGED merged
       \/ ~(opts.merge /\ status[at] = "done") /\ phase' = "clean"
          /\ UNCHANGED <<main, merging, merged>>
    /\ UNCHANGED <<branch, tree, dirty, opts, at, status, runs, died, lost>>

AbortMerge ==
    /\ phase = "abort" /\ Abort
    /\ phase' = "clean"
    /\ UNCHANGED <<main, branch, tree, dirty, opts, at, status, merged, runs, died, lost>>

MutSafeToCleanup(n) == status[n] = "done"
SafeToCleanup(n) == status[n] = "done" /\ (opts.merge => n \in merged)

\* worktree remove --force
Removed(n) ==
    /\ tree' = tree \ {n}
    /\ dirty' = [dirty EXCEPT ![n] = {}]
    /\ lost' = lost \cup (dirty[n] \ branch[n])

CleanTask ==
    /\ phase = "clean"
    /\ IF opts.cleanup /\ SafeToCleanup(at) THEN Removed(at) ELSE UNCHANGED <<tree, dirty, lost>>
    /\ at' = at + 1 /\ phase' = "merge"
    /\ UNCHANGED <<main, merging, branch, opts, status, merged, runs, died>>

RunEnds ==
    /\ phase = "merge" /\ at \notin Names
    /\ phase' = "idle"
    /\ UNCHANGED <<git, opts, at, status, merged, runs, died, lost>>

Die ==
    /\ phase # "idle" /\ phase' = "idle" /\ died' = TRUE
    /\ status' = [n \in Names |-> IF status[n] = "busy" THEN "error" ELSE status[n]]
    /\ UNCHANGED <<git, opts, at, merged, runs, lost>>

-------------------------------------------------------------------------------
\* auc worktree merge | remove | add, between the runs; remove is forced and what it
\* drops is the user's choice.
UserMerges(n) ==
    /\ phase = "idle" /\ branch[n] # NoBranch
    /\ \/ MergeOk(n)
       \/ ~UpToDate(n) /\ merging' = FALSE /\ UNCHANGED main
    /\ UNCHANGED <<branch, tree, dirty, run, runs, died, lost>>
UserRemoves(n) ==
    /\ phase = "idle" /\ n \in tree
    /\ tree' = tree \ {n} /\ dirty' = [dirty EXCEPT ![n] = {}]
    /\ UNCHANGED <<main, merging, branch, run, runs, died, lost>>
UserAdds(n) ==
    /\ phase = "idle" /\ n \notin tree
    /\ tree' = tree \cup {n} /\ branch' = Added(n)
    /\ UNCHANGED <<main, merging, dirty, run, runs, died, lost>>

Next ==
    \/ BeginRun \/ Create \/ PoolStarts \/ PoolEnds
    \/ MergeTask \/ AbortMerge \/ CleanTask \/ RunEnds \/ Die
    \/ \E n \in Names : \/ TaskStarts(n) \/ Edit(n) \/ Commit(n) \/ TaskEnds(n)
                        \/ UserMerges(n) \/ UserRemoves(n) \/ UserAdds(n)

Spec == Init /\ [][Next]_vars

-------------------------------------------------------------------------------
(* Properties.                                                                *)

\* A task that failed or could not be merged keeps its worktree and what is in it:
\* a run that merges loses nothing that was committed, and what it loses belongs to a
\* task it reports as done and merged.
FailuresKeepTheirTree ==
    [][ \A c \in lost' \ lost : /\ status[at] = "done" /\ c[1] = at
                                /\ opts.merge => branch[at] \subseteq main ]_vars

\* A merge that conflicts leaves the main branch as it was; only a process that died
\* in between leaves it in the middle, and the next merge puts that right.
MainIsWhole ==
    /\ merging => died \/ phase = "abort"
    /\ \A c \in main : \E n \in Names : branch[n] # NoBranch /\ c \in branch[n]

\* worktree.py:259 keeps a tree "so as not to lose work that is not merged".
MergedRunLosesNothing == [][opts.merge => lost' = lost]_vars
===============================================================================
