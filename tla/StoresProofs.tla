----------------------------- MODULE StoresProofs -----------------------------
(***************************************************************************)
(* Proofs about the modules instantiated in MCStores: for every set of     *)
(* tasks, conversations, processes, roles and files, and without the bounds*)
(* of the run.                                                             *)
(***************************************************************************)
EXTENDS MCStores, FiniteSetTheorems, SequenceTheorems, WellFoundedInduction, TLAPS

-------------------------------------------------------------------------------
(* A step of the modules side by side is one of one of them, or none.         *)

LEMMA PartsApart ==
  [Next]_vars =>
    /\ [C!Next]_checkpointVars /\ [W!Next]_worktreeVars /\ [F!Next]_fileVars /\ [R!Next]_replVars
    /\ [S!Next]_settingVars /\ [I!Next]_indexVars /\ [L!Next]_roleVars /\ [O!Next]_overlayVars
BY DEF Next, NextUser, NextSystem, vars, userVars, systemVars

-------------------------------------------------------------------------------
(* Worktrees.                                                                 *)

\* No change is <<0, 0>>, which marks that there is no branch.
Real(s) == <<0, 0>> \notin s
TreesInv ==
    /\ Real(main)
    /\ \A n \in Names : branch[n] = W!NoBranch \/ Real(branch[n])
    /\ \A n \in Names : \A c \in dirty[n] : c[1] = n
    /\ DOMAIN branch = Names /\ DOMAIN dirty = Names /\ DOMAIN status = Names
    \* Threads run in the phase of theirs, and what was merged is not touched after it.
    /\ \A n \in Names : status[n] = "busy" => wphase = "work"
    /\ \A n \in Names : status[n] \in {"ready", "busy"} => branch[n] # W!NoBranch
    /\ wphase \in {"create", "work"} => merged = {}
    /\ wphase \in {"merge", "abort", "clean"} =>
         \A n \in merged \cap Names : branch[n] # W!NoBranch /\ branch[n] \subseteq main
    /\ wphase \in {"abort", "clean"} => wat \in Names
    /\ W!MainIsWhole

LEMMA TreesInit == Init => TreesInv
BY DEF Init, W!Init, TreesInv, Real, W!MainIsWhole

\* A change of a task is none of <<0, 0>>.
LEMMA TasksChange == TreesInv => \A n \in Names : Real(dirty[n])
<1> SUFFICES ASSUME TreesInv, NEW n \in Names, <<0, 0>> \in dirty[n] PROVE FALSE
  BY DEF Real
<1>1. <<0, 0>>[1] = n
  BY DEF TreesInv
<1>2. QED
  BY <1>1, NamesAssumption DEF NamesAssumption

\* A branch that is added or grows stays one.
LEMMA BranchesGrow ==
  ASSUME TreesInv, NEW n \in Names, branch' = W!Added(n), UNCHANGED main
  PROVE  /\ DOMAIN branch' = Names
         /\ \A m \in Names : branch'[m] = W!NoBranch \/ Real(branch'[m])
         /\ \A m \in Names : branch[m] # W!NoBranch => branch'[m] = branch[m]
        /\ branch'[n] # W!NoBranch
BY DEF TreesInv, W!Added, W!NoBranch, Real

LEMMA TreesNext == TreesInv /\ [W!Next]_worktreeVars => TreesInv'
<1> SUFFICES ASSUME TreesInv, [W!Next]_worktreeVars PROVE TreesInv'
  OBVIOUS
<1>1. CASE W!BeginRun
  BY <1>1 DEF W!BeginRun, W!git, TreesInv, Real, W!MainIsWhole
<1>2. CASE W!Create
  <2>1. UNCHANGED <<main, merging, dirty, merged, died>> /\ wphase = "create" /\ wphase' = "create"
    BY <1>2 DEF W!Create
  <2>2. DOMAIN status' = Names /\ \A n \in Names : status'[n] # "busy"
    BY <1>2, <2>1 DEF W!Create, TreesInv
  <2>3. /\ DOMAIN branch' = Names
        /\ \A m \in Names : branch'[m] = W!NoBranch \/ Real(branch'[m])
        /\ \A m \in Names : branch[m] # W!NoBranch => branch'[m] = branch[m]
    <3>1. CASE UNCHANGED branch
      BY <3>1 DEF TreesInv
    <3>2. CASE branch' = W!Added(wat) /\ wat \in Names
      BY <2>1, <3>2, BranchesGrow
    <3>3. QED
      BY <1>2, <3>1, <3>2 DEF W!Create
  <2>4. \A n \in Names : status'[n] = "ready" => branch'[n] # W!NoBranch
    <3>1. CASE UNCHANGED branch /\ status' = [status EXCEPT ![wat] = "error"]
      BY <3>1 DEF TreesInv
    <3>2. CASE branch' = W!Added(wat) /\ wat \in Names /\ status' = [status EXCEPT ![wat] = "ready"]
      <4>1. branch'[wat] # W!NoBranch
        BY <2>1, <3>2, BranchesGrow
      <4>2. \A n \in Names : n # wat => status'[n] = status[n]
        BY <3>2 DEF TreesInv
      <4>3. QED
        BY <2>3, <4>1, <4>2 DEF TreesInv
    <3>3. QED
      BY <1>2, <3>1, <3>2 DEF W!Create
  <2>5. QED
    BY <2>1, <2>2, <2>3, <2>4 DEF TreesInv, Real, W!MainIsWhole
<1>3. CASE W!PoolStarts \/ W!PoolEnds
  BY <1>3 DEF W!PoolStarts, W!PoolEnds, W!git, TreesInv, Real, W!MainIsWhole
<1>4. CASE W!MergeTask
  <2>1. /\ UNCHANGED <<branch, dirty, wat, status, died>> /\ wphase = "merge" /\ wat \in Names
        /\ wphase' \in {"clean", "abort"}
    BY <1>4 DEF W!MergeTask
  <2>2. \/ /\ branch[wat] # W!NoBranch /\ main' = main \cup branch[wat] /\ UNCHANGED merging
           /\ merged' = merged \cup {wat}
        \/ wphase' = "abort" /\ UNCHANGED <<main, merged>>
        \/ UNCHANGED <<main, merging, merged>>
    BY <1>4 DEF W!MergeTask, W!MergeOk, W!CanMerge, W!Conflict
  <2>3. Real(main') /\ \A c \in main' : \E n \in Names : branch[n] # W!NoBranch /\ c \in branch[n]
    BY <2>1, <2>2 DEF TreesInv, W!MainIsWhole, Real
  <2>4. merging' => died' \/ wphase' = "abort"
    BY <2>1, <2>2 DEF TreesInv, W!MainIsWhole
  <2>5. \A n \in merged' \cap Names : branch[n] # W!NoBranch /\ branch[n] \subseteq main'
    BY <2>1, <2>2 DEF TreesInv
  <2>6. QED
    BY <2>1, <2>3, <2>4, <2>5 DEF TreesInv, W!MainIsWhole, Real
<1>5. CASE W!AbortMerge
  BY <1>5 DEF W!AbortMerge, W!Abort, TreesInv, Real, W!MainIsWhole
<1>6. CASE W!CleanTask
  <2>1. /\ UNCHANGED <<main, merging, branch, status, merged, died>>
        /\ wphase = "clean" /\ wphase' = "merge" /\ wat \in Names
    BY <1>6 DEF W!CleanTask, TreesInv
  <2>2. UNCHANGED dirty \/ dirty' = [dirty EXCEPT ![wat] = {}]
    BY <1>6 DEF W!CleanTask, W!Removed
  <2>3. DOMAIN dirty' = Names /\ \A n \in Names : \A c \in dirty'[n] : c[1] = n
    BY <2>1, <2>2 DEF TreesInv
  <2>4. QED
    BY <2>1, <2>3 DEF TreesInv, Real, W!MainIsWhole
<1>7. CASE W!RunEnds
  BY <1>7 DEF W!RunEnds, W!git, TreesInv, Real, W!MainIsWhole
<1>8. CASE W!Die
  BY <1>8 DEF W!Die, W!git, TreesInv, Real, W!MainIsWhole
<1>9. ASSUME NEW n \in Names, W!TaskStarts(n) \/ W!TaskEnds(n) PROVE TreesInv'
  <2>1. /\ UNCHANGED <<main, merging, branch, dirty, wphase, wat, merged, died>>
        /\ wphase = "work" /\ DOMAIN status' = Names
        /\ \A m \in Names : status'[m] \in {"ready", "busy"} => status[m] \in {"ready", "busy"}
    BY <1>9 DEF W!TaskStarts, W!TaskEnds, W!git, TreesInv
  <2>2. QED
    BY <2>1 DEF TreesInv, Real, W!MainIsWhole
<1>10. ASSUME NEW n \in Names, W!Edit(n) PROVE TreesInv'
  <2>1. /\ UNCHANGED <<main, merging, branch, wphase, wat, status, merged, died>>
        /\ dirty' = [dirty EXCEPT ![n] = @ \cup {<<n, runs>>}]
    BY <1>10 DEF W!Edit, W!run
  <2>2. DOMAIN dirty' = Names /\ \A m \in Names : \A c \in dirty'[m] : c[1] = m
    BY <2>1 DEF TreesInv
  <2>3. QED
    BY <2>1, <2>2 DEF TreesInv, Real, W!MainIsWhole
<1>11. ASSUME NEW n \in Names, W!Commit(n) PROVE TreesInv'
  <2>1. /\ UNCHANGED <<main, merging, wphase, wat, status, merged, died>>
        /\ branch' = [branch EXCEPT ![n] = @ \cup dirty[n]]
        /\ dirty' = [dirty EXCEPT ![n] = {}]
        /\ wphase = "work" /\ branch[n] # W!NoBranch
    BY <1>11 DEF W!Commit, W!run, TreesInv
  <2>2. DOMAIN dirty' = Names /\ \A m \in Names : \A c \in dirty'[m] : c[1] = m
    BY <2>1 DEF TreesInv
  <2>3. DOMAIN branch' = Names /\ \A m \in Names : m # n => branch'[m] = branch[m]
    BY <2>1 DEF TreesInv
  <2>4. branch'[n] = branch[n] \cup dirty[n] /\ Real(dirty[n])
    BY <2>1, TasksChange DEF TreesInv
  <2>5. \A m \in Names : branch[m] # W!NoBranch =>
           /\ branch'[m] # W!NoBranch /\ Real(branch'[m]) /\ branch[m] \subseteq branch'[m]
    BY <2>3, <2>4 DEF TreesInv, Real, W!NoBranch
  <2>6. /\ DOMAIN branch' = Names
        /\ \A m \in Names : branch'[m] = W!NoBranch \/ Real(branch'[m])
    BY <2>1, <2>3, <2>5 DEF TreesInv
  <2>7. QED
    BY <2>1, <2>2, <2>3, <2>5, <2>6 DEF TreesInv, Real, W!MainIsWhole
<1>12. ASSUME NEW n \in Names, W!UserMerges(n) PROVE TreesInv'
  <2>1. /\ UNCHANGED <<branch, dirty, wphase, wat, status, merged, died>> /\ wphase = "idle"
        /\ branch[n] # W!NoBranch
        /\ (main' = main \/ main' = main \cup branch[n]) /\ (merging' => merging)
    BY <1>12 DEF W!UserMerges, W!MergeOk, W!run
  <2>2. QED
    BY <2>1 DEF TreesInv, Real, W!MainIsWhole
<1>13. ASSUME NEW n \in Names, W!UserRemoves(n) PROVE TreesInv'
  <2>1. /\ UNCHANGED <<main, merging, branch, wphase, wat, status, merged, died>>
        /\ dirty' = [dirty EXCEPT ![n] = {}]
    BY <1>13 DEF W!UserRemoves, W!run
  <2>2. DOMAIN dirty' = Names /\ \A m \in Names : \A c \in dirty'[m] : c[1] = m
    BY <2>1 DEF TreesInv
  <2>3. QED
    BY <2>1, <2>2 DEF TreesInv, Real, W!MainIsWhole
<1>14. ASSUME NEW n \in Names, W!UserAdds(n) PROVE TreesInv'
  <2>1. /\ UNCHANGED <<main, merging, dirty, wphase, wat, status, merged, died>>
        /\ wphase = "idle" /\ branch' = W!Added(n)
    BY <1>14 DEF W!UserAdds, W!run
  <2>2. /\ DOMAIN branch' = Names
        /\ \A m \in Names : branch'[m] = W!NoBranch \/ Real(branch'[m])
        /\ \A m \in Names : branch[m] # W!NoBranch => branch'[m] = branch[m]
    BY <2>1, BranchesGrow
  <2>3. QED
    BY <2>1, <2>2 DEF TreesInv, Real, W!MainIsWhole
<1>15. CASE UNCHANGED worktreeVars
  BY <1>15 DEF worktreeVars, TreesInv, Real, W!MainIsWhole
<1>16. QED
  BY <1>1, <1>2, <1>3, <1>4, <1>5, <1>6, <1>7, <1>8, <1>9, <1>10, <1>11, <1>12, <1>13, <1>14,
     <1>15 DEF W!Next

\* A merge that conflicts leaves the main branch as it was, every change on it is of some
\* task's branch, and only a process that died leaves it in the middle of a merge:
\* worktree.py and `auc worktree`, for every set of tasks and any number of runs.
THEOREM MainStaysWhole == Spec => []MainIsWhole
<1>1. TreesInv /\ [Next]_vars => TreesInv'
  BY TreesNext, PartsApart
<1>2. TreesInv => MainIsWhole
  BY DEF TreesInv, MainIsWhole
<1>3. QED
  BY TreesInit, <1>1, <1>2, PTL DEF Spec

\* What a step of the worktrees loses.
LEMMA OnlyCleaningLoses ==
  TreesInv /\ [W!Next]_worktreeVars =>
    \A c \in lost' \ lost : /\ status[wat] = "done" /\ c[1] = wat
                            /\ opts.merge => branch[wat] \subseteq main
<1> SUFFICES ASSUME TreesInv, [W!Next]_worktreeVars, NEW c \in lost' \ lost
             PROVE  /\ status[wat] = "done" /\ c[1] = wat
                    /\ opts.merge => branch[wat] \subseteq main
  OBVIOUS
<1>1. W!CleanTask
  BY DEF W!Next, W!BeginRun, W!Create, W!PoolStarts, W!PoolEnds, W!MergeTask, W!AbortMerge,
     W!RunEnds, W!Die, W!TaskStarts, W!Edit, W!Commit, W!TaskEnds, W!UserMerges,
     W!UserRemoves, W!UserAdds, worktreeVars
<1>2. W!SafeToCleanup(wat) /\ W!Removed(wat) /\ wphase = "clean"
  BY <1>1 DEF W!CleanTask
<1>3. wat \in Names /\ c \in dirty[wat]
  BY <1>2 DEF W!Removed, TreesInv
<1>4. status[wat] = "done" /\ (opts.merge => wat \in merged)
  BY <1>2 DEF W!SafeToCleanup
<1>5. QED
  BY <1>2, <1>3, <1>4 DEF TreesInv

\* A task that failed or could not be merged keeps its worktree and what is in it: what a
\* run loses belongs to a task it reports as done, and as merged if it was to merge.  For
\* every set of tasks, any number of threads and runs, and wherever the process died.
THEOREM FailedTasksKeepTheirTree == Spec => FailuresKeepTheirTree
<1>1. TreesInv /\ [Next]_vars => TreesInv'
  BY TreesNext, PartsApart
<1>2. TreesInv /\ [Next]_vars =>
        [\A c \in lost' \ lost : /\ status[wat] = "done" /\ c[1] = wat
                                 /\ opts.merge => branch[wat] \subseteq main]_(W!vars)
  BY OnlyCleaningLoses, PartsApart
<1>3. QED
  BY TreesInit, <1>1, <1>2, PTL DEF Spec, FailuresKeepTheirTree, W!FailuresKeepTheirTree

-------------------------------------------------------------------------------
(* Repl.                                                                      *)

Turns == [text : Messages \cup {NoText}, plan : BOOLEAN]
ReplTypes ==
    /\ history \in Seq(Turns) /\ text \in Messages \cup {NoText} /\ last \in Messages \cup {NoText}
    /\ planMode \in BOOLEAN /\ raised \in BOOLEAN /\ asPlan \in BOOLEAN
PlanInv ==
    /\ ReplTypes
    /\ R!PlanModeEnds
    /\ phase \in {"prompt", "running", "approve", "executing", "over"}
    \* Plan mode outlives a run only if the run raised.
    /\ phase = "prompt" => (planMode => raised)

LEMMA PlanInit == Init => PlanInv
<1> SUFFICES ASSUME Init PROVE PlanInv
  OBVIOUS
<1>1. R!Init
  BY DEF Init
<1>2. \A t \in Messages : R!Turn(t, FALSE) \in Turns
  BY DEF R!Turn, Turns
<1>4. << >> \in Seq(Turns)
  OBVIOUS
<1>3. saved \in Seq(Turns)
  <2>1. saved = << >> \/ \E t \in Messages : saved = <<R!Turn(t, FALSE)>>
    BY <1>1 DEF R!Init
  <2>2. \A x \in Turns : <<x>> \in Seq(Turns)
    OBVIOUS
  <2>3. QED
    BY <1>2, <1>4, <2>1, <2>2
<1>5. ReplTypes
  BY <1>1, <1>3, <1>4 DEF R!Init, ReplTypes
<1>6. QED
  BY <1>1, <1>5 DEF R!Init, R!PlanModeEnds, PlanInv

LEMMA PoppedIsHistory ==
  ASSUME NEW X, NEW h \in Seq(X)
  PROVE  R!Popped(h) \in Seq(X) /\ (h # << >> => Len(R!Popped(h)) = Len(h) - 1)
<1>1. CASE h = << >>
  BY <1>1 DEF R!Popped
<1>2. CASE h # << >>
  <2>1. Len(h) \in Nat /\ Len(h) > 0 /\ \A i \in 1..Len(h) : h[i] \in X
    BY <1>2
  <2> DEFINE n == Len(h) - 1
  <2>0. n \in Nat /\ n \in Int /\ (\A i \in 1..n : h[i] \in X)
    BY <2>1
  <2>2. n \in Nat /\ 1 \in Int /\ n \in Int /\ (\A i \in 1..n : h[i] \in X)
        /\ (IF 1 <= n THEN n - 1 + 1 ELSE 0) = n
    <3> HIDE DEF n
    <3>1. n - 1 + 1 = n /\ (1 <= n \/ n = 0)
      BY <2>0
    <3>2. QED
      BY <2>0, <3>1
  <2> HIDE DEF n
  <2>3. SubSeq(h, 1, n) \in Seq(X) /\ Len(SubSeq(h, 1, n)) = (IF 1 <= n THEN n - 1 + 1 ELSE 0)
    BY <2>2, SubSeqProperties
  <2>4. R!Popped(h) = SubSeq(h, 1, n)
    BY <1>2 DEF R!Popped, R!Front, n
  <2>5. QED
    BY <2>2, <2>3, <2>4 DEF n
<1>3. QED
  BY <1>1, <1>2

LEMMA TurnIsTyped ==
  \A t \in Messages \cup {NoText} : \A p \in BOOLEAN :
    R!Turn(t, p) \in Turns /\ R!Turn(t, p).plan = p
BY DEF R!Turn, Turns

LEMMA LastOfAppend ==
  ASSUME NEW X, NEW h \in Seq(X), NEW x \in X
  PROVE  Append(h, x) \in Seq(X) /\ R!Last(Append(h, x)) = x
BY DEF R!Last

LEMMA PlanNext == PlanInv /\ [R!Next]_replVars => PlanInv'
<1> SUFFICES ASSUME PlanInv, [R!Next]_replVars PROVE PlanInv'
  OBVIOUS
<1>0. R!Popped(history) \in Seq(Turns)
  BY PoppedIsHistory DEF PlanInv, ReplTypes
<1>1. ASSUME NEW t \in Messages \cup {NoText}, NEW h \in Seq(Turns), NEW b \in BOOLEAN,
             R!Begin(t, h, b)
      PROVE  PlanInv'
  BY <1>1 DEF R!Begin, R!copy, PlanInv, ReplTypes, R!PlanModeEnds
<1>2. CASE R!Retry
  BY <1>0, <1>1, <1>2 DEF R!Retry, PlanInv, ReplTypes
<1>3. ASSUME NEW t \in Messages, R!Say(t) \/ R!Plan(t) \/ R!Edit(t) PROVE PlanInv'
  BY <1>0, <1>1, <1>3 DEF R!Say, R!Plan, R!Edit, PlanInv, ReplTypes
<1>4. CASE R!Undo
  BY <1>0, <1>4 DEF R!Undo, R!copy, PlanInv, ReplTypes, R!PlanModeEnds
<1>5. CASE R!Clear
  BY <1>5 DEF R!Clear, PlanInv, ReplTypes, R!PlanModeEnds
<1>6. CASE R!RunReturns
  <2>1. history' \in Seq(Turns) /\ R!Last(history').plan = planMode
    BY <1>6, LastOfAppend, TurnIsTyped DEF R!RunReturns, PlanInv, ReplTypes
  <2>2. planMode' = FALSE /\ raised' = FALSE /\ UNCHANGED <<last, text, asPlan>>
        /\ phase' \in IF planMode THEN {"prompt", "approve"} ELSE {"prompt"}
    BY <1>6 DEF R!RunReturns, R!PlanAfter
  <2>3. R!Last(history)' = R!Last(history')
    BY DEF R!Last
  <2>4. QED
    BY <2>1, <2>2, <2>3 DEF PlanInv, ReplTypes, R!PlanModeEnds
<1>7. CASE R!RunRaises \/ R!CtrlC \/ R!ExecutionRaises \/ R!Exit
  <2>1. UNCHANGED <<history, last, text, planMode, asPlan>> /\ raised' \in BOOLEAN
    BY <1>7 DEF R!RunRaises, R!CtrlC, R!ExecutionRaises, R!Exit, R!session, PlanInv, ReplTypes
  <2>2. ReplTypes' /\ R!Last(history)' = R!Last(history)
    BY <2>1 DEF PlanInv, ReplTypes, R!Last
  <2>3. \/ phase = "running" /\ phase' = "prompt" /\ raised'
        \/ raised' = raised /\ phase' \in {phase, "over"}
        \/ raised' = raised /\ phase = "executing" /\ phase' = "prompt"
    BY <1>7 DEF R!RunRaises, R!CtrlC, R!ExecutionRaises, R!Exit
  <2>4. QED
    BY <2>1, <2>2, <2>3 DEF PlanInv, R!PlanModeEnds
<1>8. ASSUME NEW yes \in BOOLEAN, R!Answer(yes) PROVE PlanInv'
  BY <1>8 DEF R!Answer, R!session, R!copy, PlanInv, ReplTypes, R!PlanModeEnds, R!Last
<1>9. CASE R!ExecutionReturns
  <2>1. history' \in Seq(Turns)
    <3>1. R!Go \in Turns
      BY DEF R!Go, Turns
    <3>2. QED
      BY <1>9, <3>1, LastOfAppend DEF R!ExecutionReturns, PlanInv, ReplTypes
  <2>2. QED
    BY <1>9, <2>1 DEF R!ExecutionReturns, PlanInv, ReplTypes, R!PlanModeEnds
<1>10. CASE UNCHANGED replVars
  BY <1>10 DEF replVars, PlanInv, ReplTypes, R!PlanModeEnds, R!Last
<1>11. QED
  BY <1>2, <1>3, <1>4, <1>5, <1>6, <1>7, <1>8, <1>9, <1>10 DEF R!Next

\* The plan mode of a task ends when its run returned, except after a run that raised, and
\* the approved plan is not itself carried out with the tools of the plan mode: the prompt
\* of cli_ui.py, for any texts and any number of turns.
THEOREM PlanModeIsOver == Spec => []PlanModeEnds
<1>1. PlanInv /\ [Next]_vars => PlanInv'
  BY PlanNext, PartsApart
<1>2. PlanInv => PlanModeEnds
  BY DEF PlanInv, PlanModeEnds
<1>3. QED
  BY PlanInit, <1>1, <1>2, PTL DEF Spec

\* Unless something happened to it since, the last turn is that of the last message.
LastInv ==
    /\ PlanInv
    /\ phase = "running" => text = last
    /\ history # << >> /\ ~rloose => R!Last(history).text = last

LEMMA LastInit == Init => LastInv
BY PlanInit DEF Init, R!Init, LastInv

LEMMA LastNext == LastInv /\ [R!Next]_replVars => LastInv'
<1> SUFFICES ASSUME LastInv, [R!Next]_replVars PROVE LastInv'
  OBVIOUS
<1>1. PlanInv'
  BY PlanNext DEF LastInv
<1>2. ASSUME NEW t, NEW h, NEW b, R!Begin(t, h, b) PROVE LastInv'
  BY <1>1, <1>2 DEF R!Begin, LastInv
<1>3. CASE R!Retry
  BY <1>2, <1>3 DEF R!Retry
<1>4. ASSUME NEW t \in Messages, R!Say(t) \/ R!Plan(t) \/ R!Edit(t) PROVE LastInv'
  BY <1>2, <1>4 DEF R!Say, R!Plan, R!Edit
<1>5. CASE R!Undo \/ R!Clear
  BY <1>1, <1>5 DEF R!Undo, R!Clear, LastInv
<1>6. CASE R!RunReturns
  <2>1. history' = Append(history, R!Turn(text, planMode)) /\ last' = last /\ text = last
        /\ phase' # "running"
    BY <1>6 DEF R!RunReturns, LastInv
  <2>2. R!Last(history') = R!Turn(text, planMode)
    <3>1. R!Turn(text, planMode) \in Turns
      BY TurnIsTyped DEF LastInv, PlanInv, ReplTypes
    <3>2. QED
      BY <2>1, <3>1, LastOfAppend DEF LastInv, PlanInv, ReplTypes
  <2>3. R!Last(history)' = R!Last(history') /\ R!Turn(text, planMode).text = text
    BY DEF R!Last, R!Turn
  <2>4. QED
    BY <1>1, <2>1, <2>2, <2>3 DEF LastInv
<1>7. CASE R!RunRaises \/ R!CtrlC \/ R!ExecutionRaises \/ R!Exit \/ \E yes \in BOOLEAN : R!Answer(yes)
  <2>1. UNCHANGED <<history, last, text, rloose>> /\ (phase' = "running" => phase = "running")
    BY <1>7 DEF R!RunRaises, R!CtrlC, R!ExecutionRaises, R!Exit, R!Answer, R!session
  <2>2. R!Last(history)' = R!Last(history)
    BY <2>1 DEF R!Last
  <2>3. QED
    BY <1>1, <2>1, <2>2 DEF LastInv
<1>8. CASE R!ExecutionReturns
  BY <1>1, <1>8 DEF R!ExecutionReturns, LastInv
<1>9. CASE UNCHANGED replVars
  BY <1>1, <1>9 DEF replVars, LastInv, R!Last
<1>10. QED
  BY <1>3, <1>4, <1>5, <1>6, <1>7, <1>8, <1>9 DEF R!Next

LEMMA OneTurnGoes ==
  LastInv /\ [R!Next]_replVars =>
    (phase = "prompt" /\ phase' = "running" =>
       \/ history' = history
       \/ history' = R!Popped(history) /\ Len(history') = Len(history) - 1
                                       /\ (rloose \/ R!Last(history).text = last))
<1> SUFFICES ASSUME LastInv, [R!Next]_replVars, phase = "prompt", phase' = "running"
             PROVE  \/ history' = history
                    \/ history' = R!Popped(history) /\ Len(history') = Len(history) - 1
                                                    /\ (rloose \/ R!Last(history).text = last)
  OBVIOUS
<1>1. history' = history \/ history' = R!Popped(history)
  BY DEF R!Next, R!Retry, R!Undo, R!Clear, R!Exit, R!CtrlC, R!RunReturns, R!RunRaises,
     R!ExecutionReturns, R!ExecutionRaises, R!Say, R!Plan, R!Edit, R!Answer, R!Begin, replVars
<1>2. CASE history = << >>
  BY <1>1, <1>2 DEF R!Popped
<1>3. CASE history # << >>
  BY <1>1, <1>3, PoppedIsHistory DEF LastInv, PlanInv, ReplTypes
<1>4. QED
  BY <1>2, <1>3

\* What /retry and /edit take back is the turn of the message they replace and no other,
\* unless that turn is gone or the turn of an approved plan came after it: cli_ui.py, for
\* any texts and any number of turns.
THEOREM RetryTakesTheLast == Spec => OnlyTheLastTurnGoes
<1>1. LastInv /\ [Next]_vars => LastInv'
  BY LastNext, PartsApart
<1>2. LastInv /\ [Next]_vars =>
        [phase = "prompt" /\ phase' = "running" =>
           \/ history' = history
           \/ history' = R!Popped(history) /\ Len(history') = Len(history) - 1
                                           /\ (rloose \/ R!Last(history).text = last)]_(R!vars)
  BY OneTurnGoes, PartsApart
<1>3. QED
  BY LastInit, <1>1, <1>2, PTL DEF Spec, OnlyTheLastTurnGoes, R!OnlyTheLastTurnGoes

-------------------------------------------------------------------------------
(* ConversationFiles.                                                         *)

Stored == [msgs : {0, 1}, usage : {0, 1}]
Rows == [Convs -> Stored \cup {Absent}]
Calls == [kind : F!Kinds, conv : Convs]
Busy == {p \in Procs : call[p] # Absent}
Called == {call[p].conv : p \in Busy}
Steady == Convs \ (suspect \cup Called)

\* What a process holds of the file, before and after it has read the index.
Old(p) == IF at[p] = "row" THEN held[p].old ELSE held[p]
HoldsTyped(p) ==
    /\ call[p].kind = "activate" => at[p] \in {"index", "row"}
    /\ call[p].kind # "activate" /\ at[p] # "begin" => Old(p) \in Stored \cup {Absent}
    /\ call[p].kind = "usage" /\ at[p] \in {"index", "row"} => Old(p) # Absent
    /\ at[p] = "row" => held[p].index.row \in Rows
FilesTypes ==
    /\ file \in Rows /\ row \in Rows
    /\ call \in [Procs -> Calls \cup {Absent}]
    /\ at \in [Procs -> {"begin", "file", "index", "row"}]
    /\ DOMAIN held = Procs
    /\ \A p \in Busy : HoldsTyped(p)

\* Calls that overlap are known, and so are the conversations they are for.
Overlaps ==
    /\ together \subseteq Busy
    /\ \A p, q \in Busy : p # q => p \in together
    /\ \A p \in together : call[p].conv \in suspect

\* An index that was read tells what the index says of the conversations at rest.
Fresh(p) ==
    at[p] = "row" =>
      /\ \A d \in Steady : held[p].index.row[d] = row[d]
      /\ held[p].index.active \in Steady => file[held[p].index.active] # Absent

\* A call that meets no other finds what it left.
Undisturbed(p) ==
    LET k == call[p].kind
        c == call[p].conv
    IN  /\ k \in {"usage", "activate"} => file[c] # Absent
        /\ k = "activate" \/ at[p] \in {"begin", "file"} => (c \notin suspect => row[c] = file[c])
        /\ k # "activate" /\ at[p] = "file" => held[p] = file[c]
        /\ at[p] = "row" => held[p].index.row = row /\ held[p].index.active = active
        /\ at[p] \in {"index", "row"} =>
             /\ k = "delete" => file[c] = Absent
             /\ k \in {"create", "save", "append"} => file[c] = F!NewContent(k, Old(p))
             /\ k = "usage" => /\ Old(p) \in Stored /\ file[c] = F!NewContent(k, Old(p))
                               /\ c \notin suspect => row[c] = Old(p)

FilesInv ==
    /\ FilesTypes /\ Overlaps
    /\ \A p \in Busy : Fresh(p)
    /\ \A p \in Busy \ together : Undisturbed(p)
    /\ F!ListShowsTheFiles

LEMMA SteadyShows ==
  F!ListShowsTheFiles <=>
    (\A c \in Steady : row[c] = file[c]) /\ (active \in Steady => file[active] # Absent)
BY DEF F!ListShowsTheFiles, Steady, Called, Busy

LEMMA FilesInit == Init => FilesInv
<1> SUFFICES ASSUME Init PROVE FilesInv
  OBVIOUS
<1>1. F!Init
  BY DEF Init
<1>2. Busy = {} /\ together = {}
  BY <1>1 DEF F!Init, Busy
<1>3. FilesTypes
  BY <1>1, <1>2 DEF F!Init, FilesTypes, Rows
<1>4. F!ListShowsTheFiles
  BY <1>1, AbsentAssumption DEF F!Init, F!ListShowsTheFiles, AbsentAssumption
<1>5. QED
  BY <1>2, <1>3, <1>4 DEF FilesInv, Overlaps

\* What is written is a content.
LEMMA ContentIsTyped ==
  \A k \in {"create", "save", "append", "usage"} : \A old \in Stored \cup {Absent} :
    (k = "usage" => old # Absent) =>
      F!NewContent(k, old) \in Stored /\ F!NewContent(k, old) # Absent
BY AbsentAssumption DEF AbsentAssumption, F!NewContent, F!Grown, Stored

\* Only a call that meets another may be disturbed.
LEMMA OthersMeet ==
  ASSUME FilesInv, NEW p \in Busy, NEW q \in Busy, p # q
  PROVE  p \in together /\ q \in together /\ call[p].conv \in suspect
BY DEF FilesInv, Overlaps

LEMMA FilesBegin ==
  ASSUME FilesInv, NEW p \in Procs, NEW k \in F!Kinds, NEW c \in Convs, F!Begin(p, k, c)
  PROVE  FilesInv'
<1> DEFINE new == [kind |-> k, conv |-> c]
           others == {q \in Procs \ {p} : call[q] # Absent}
<1>1. /\ call[p] = Absent /\ call' = [call EXCEPT ![p] = new]
      /\ at' = [at EXCEPT ![p] = IF k = "activate" THEN "index" ELSE "begin"]
      /\ UNCHANGED <<file, row, active, held>>
      /\ k \in {"usage", "activate"} => file[c] # Absent
  BY DEF F!Begin
<1>2. \/ others = {} /\ UNCHANGED <<together, suspect>>
      \/ /\ together' = together \cup {p} \cup others
         /\ suspect' = suspect \cup {c} \cup {call[q].conv : q \in others}
  BY DEF F!Begin, F!Others
<1>3. FilesTypes /\ Overlaps /\ new \in Calls /\ new # Absent /\ new.kind = k /\ new.conv = c
  BY AbsentAssumption DEF FilesInv, Calls, AbsentAssumption, F!Kinds
<1> HIDE DEF new
<1>4. /\ call' \in [Procs -> Calls \cup {Absent}] /\ call'[p] = new
      /\ \A q \in Procs : q # p => call'[q] = call[q]
      /\ at' \in [Procs -> {"begin", "file", "index", "row"}]
      /\ at'[p] = (IF k = "activate" THEN "index" ELSE "begin")
      /\ \A q \in Procs : q # p => at'[q] = at[q]
  BY <1>1, <1>3 DEF FilesTypes
<1>5. Busy' = Busy \cup {p} /\ p \notin Busy /\ others = Busy
  BY <1>1, <1>3, <1>4 DEF Busy
<1>6. Called' = Called \cup {c}
  BY <1>3, <1>4, <1>5 DEF Called
<1>7. suspect \subseteq suspect' /\ Steady' \subseteq Steady
  BY <1>2, <1>6 DEF Steady
<1>8. FilesTypes'
  <2>1. \A q \in Busy : HoldsTyped(q)'
    BY <1>1, <1>3, <1>4, <1>5 DEF FilesTypes, HoldsTyped, Old, Busy
  <2>2. HoldsTyped(p)'
    BY <1>3, <1>4 DEF HoldsTyped
  <2>3. QED
    BY <1>1, <1>3, <1>4, <1>5, <2>1, <2>2 DEF FilesTypes, Rows
<1>9. Overlaps'
  <2>1. CASE others = {} /\ UNCHANGED <<together, suspect>>
    <3>1. Busy' = {p} /\ together' = {}
      BY <1>3, <1>5, <2>1 DEF Overlaps
    <3>2. QED
      BY <3>1 DEF Overlaps
  <2>2. CASE /\ together' = together \cup {p} \cup others
             /\ suspect' = suspect \cup {c} \cup {call[q].conv : q \in others}
    <3>1. together' = Busy'
      BY <1>3, <1>5, <2>2 DEF Overlaps
    <3>2. \A q \in Busy' : call'[q].conv \in suspect'
      BY <1>3, <1>4, <1>5, <2>2 DEF Busy
    <3>3. QED
      BY <3>1, <3>2 DEF Overlaps
  <2>3. QED
    BY <1>2, <2>1, <2>2
<1>10. ASSUME NEW q \in Busy' PROVE Fresh(q)'
  <2>1. CASE q = p
    BY <1>4, <2>1 DEF Fresh
  <2>2. CASE q \in Busy
    <3>1. q # p /\ q \in Procs /\ Fresh(q)
      BY <1>5, <2>2 DEF FilesInv, Busy
    <3>2. QED
      BY <1>1, <1>4, <1>7, <3>1 DEF Fresh
  <2>3. QED
    BY <1>5, <1>10, <2>1, <2>2
<1>11. ASSUME NEW q \in Busy' \ together' PROVE Undisturbed(q)'
  <2>1. q = p /\ others = {} /\ UNCHANGED <<together, suspect>>
    BY <1>2, <1>5
  <2>2. c \notin suspect => row[c] = file[c]
    <3>1. Called = {}
      BY <1>5, <2>1 DEF Called
    <3>2. QED
      BY <3>1, SteadyShows DEF Steady, FilesInv
  <2>3. QED
    BY <1>1, <1>3, <1>4, <2>1, <2>2 DEF Undisturbed
<1>12. F!ListShowsTheFiles'
  <2>1. (\A d \in Steady : row[d] = file[d]) /\ (active \in Steady => file[active] # Absent)
    BY SteadyShows DEF FilesInv
  <2>2. (\A d \in Steady' : row'[d] = file'[d]) /\ (active' \in Steady' => file'[active'] # Absent)
    BY <1>1, <1>7, <2>1
  <2>3. QED
    BY <2>2 DEF F!ListShowsTheFiles, Steady, Called, Busy
<1>13. QED
  BY <1>8, <1>9, <1>10, <1>11, <1>12 DEF FilesInv

\* A step of a call that only reads.
LEMMA FilesRead ==
  ASSUME FilesInv, NEW p \in Procs, F!Read(p) \/ F!ReadIndex(p)
  PROVE  FilesInv'
<1>1. /\ UNCHANGED <<file, row, active, call, together, suspect>> /\ p \in Busy
      /\ DOMAIN held' = Procs /\ at' \in [Procs -> {"begin", "file", "index", "row"}]
      /\ \A q \in Procs : q # p => at'[q] = at[q] /\ held'[q] = held[q]
  BY DEF F!Read, F!ReadIndex, Busy, FilesInv, FilesTypes
<1>2. \/ at[p] = "begin" /\ at'[p] = "file" /\ held'[p] = file[call[p].conv]
      \/ /\ at[p] = "index" /\ at'[p] = "row"
         /\ held'[p].old = held[p] /\ held'[p].index.row = row /\ held'[p].index.active = active
  BY DEF F!Read, F!ReadIndex, FilesInv, FilesTypes, F!Index
<1>3. Busy' = Busy /\ Called' = Called /\ Steady' = Steady
  BY <1>1 DEF Busy, Called, Steady
<1>4. FilesTypes /\ Overlaps /\ HoldsTyped(p) /\ call[p] \in Calls
  BY <1>1 DEF FilesInv, FilesTypes, Busy
<1>5. file[call[p].conv] \in Stored \cup {Absent}
  BY <1>4 DEF FilesTypes, Rows, Calls
<1>6. HoldsTyped(p)'
  BY <1>1, <1>2, <1>4, <1>5 DEF HoldsTyped, Old, FilesTypes
<1>7. FilesTypes'
  <2>1. \A q \in Busy : q # p => HoldsTyped(q)'
    BY <1>1, <1>4 DEF FilesTypes, HoldsTyped, Old, Busy
  <2>2. QED
    BY <1>1, <1>3, <1>4, <1>6, <2>1 DEF FilesTypes
<1>8. Overlaps'
  BY <1>1, <1>3, <1>4 DEF Overlaps
<1>9. ASSUME NEW q \in Busy' PROVE Fresh(q)'
  <2>1. CASE q # p
    <3>1. Fresh(q) /\ q \in Procs
      BY <1>3 DEF FilesInv, Busy
    <3>2. QED
      BY <1>1, <1>3, <2>1, <3>1 DEF Fresh
  <2>2. CASE q = p
    <3>1. active \in Steady => file[active] # Absent
      BY SteadyShows DEF FilesInv
    <3>2. QED
      BY <1>1, <1>2, <1>3, <2>2, <3>1 DEF Fresh
  <2>3. QED
    BY <2>1, <2>2
<1>10. ASSUME NEW q \in Busy' \ together' PROVE Undisturbed(q)'
  <2>1. q = p /\ Undisturbed(p)
    BY <1>1, <1>3, OthersMeet DEF FilesInv
  <2>2. QED
    BY <1>1, <1>2, <1>4, <2>1 DEF Undisturbed, Old, HoldsTyped
<1>11. F!ListShowsTheFiles'
  BY <1>1 DEF FilesInv, F!ListShowsTheFiles
<1>12. QED
  BY <1>7, <1>8, <1>9, <1>10, <1>11 DEF FilesInv

\* A call that ends or dies leaves the others as they were.
LEMMA FilesLeave ==
  ASSUME FilesInv, NEW p \in Busy, F!Leave(p)
  PROVE  /\ Busy' = Busy \ {p} /\ Called' \subseteq Called
         /\ Called \subseteq Called' \cup {call[p].conv}
         /\ call' \in [Procs -> Calls \cup {Absent}]
         /\ at' \in [Procs -> {"begin", "file", "index", "row"}]
         /\ DOMAIN held' = Procs /\ together' = together \ {p}
         /\ \A q \in Busy \ {p} : call'[q] = call[q] /\ at'[q] = at[q] /\ held'[q] = held[q]
         /\ \A q \in Busy \ {p} : q \in together /\ q \in together' /\ call[p].conv \in suspect
                                  /\ call[q].conv \in suspect
<1>1. /\ call' = [call EXCEPT ![p] = Absent] /\ at' = [at EXCEPT ![p] = "begin"]
      /\ held' = [held EXCEPT ![p] = Absent] /\ together' = together \ {p}
  BY DEF F!Leave
<1>2. FilesTypes /\ p \in Procs
  BY DEF FilesInv, Busy
<1>3. /\ call' \in [Procs -> Calls \cup {Absent}] /\ call'[p] = Absent
      /\ at' \in [Procs -> {"begin", "file", "index", "row"}] /\ DOMAIN held' = Procs
      /\ \A q \in Procs \ {p} : call'[q] = call[q] /\ at'[q] = at[q] /\ held'[q] = held[q]
  BY <1>1, <1>2 DEF FilesTypes
<1>4. Busy' = Busy \ {p}
  BY <1>3 DEF Busy
<1>5. Called' \subseteq Called /\ Called \subseteq Called' \cup {call[p].conv}
  BY <1>3, <1>4 DEF Called, Busy
<1>6. QED
  BY <1>1, <1>3, <1>4, <1>5, OthersMeet DEF Busy

\* What the others hold stays true when a call ends without touching the files.
LEMMA FilesDie ==
  ASSUME FilesInv, NEW p \in Procs, F!Die(p)
  PROVE  FilesInv'
<1>1. p \in Busy /\ F!Leave(p) /\ suspect' = suspect \cup {call[p].conv} /\ UNCHANGED <<file, row, active>>
  BY DEF F!Die, Busy
<1>2. /\ Busy' = Busy \ {p} /\ Called' \subseteq Called
      /\ Called \subseteq Called' \cup {call[p].conv}
      /\ call' \in [Procs -> Calls \cup {Absent}]
      /\ at' \in [Procs -> {"begin", "file", "index", "row"}]
      /\ DOMAIN held' = Procs /\ together' = together \ {p}
      /\ \A q \in Busy \ {p} : call'[q] = call[q] /\ at'[q] = at[q] /\ held'[q] = held[q]
      /\ \A q \in Busy \ {p} : q \in together /\ q \in together' /\ call[p].conv \in suspect
                               /\ call[q].conv \in suspect
  BY <1>1, FilesLeave
<1>3. Steady' \subseteq Steady
  BY <1>1, <1>2 DEF Steady
<1>4. FilesTypes'
  BY <1>1, <1>2 DEF FilesInv, FilesTypes, Rows, HoldsTyped, Old
<1>5. Overlaps'
  BY <1>1, <1>2 DEF FilesInv, Overlaps
<1>6. \A q \in Busy' : Fresh(q)'
  BY <1>1, <1>2, <1>3 DEF FilesInv, Fresh
<1>7. \A q \in Busy' \ together' : Undisturbed(q)'
  BY <1>2
<1>8. F!ListShowsTheFiles'
  <2>1. (\A d \in Steady : row[d] = file[d]) /\ (active \in Steady => file[active] # Absent)
    BY SteadyShows DEF FilesInv
  <2>2. (\A d \in Steady' : row'[d] = file'[d]) /\ (active' \in Steady' => file'[active'] # Absent)
    BY <1>1, <1>3, <2>1
  <2>3. QED
    BY <2>2 DEF F!ListShowsTheFiles, Steady, Called, Busy
<1>9. QED
  BY <1>4, <1>5, <1>6, <1>7, <1>8 DEF FilesInv

LEMMA FilesWrite ==
  ASSUME FilesInv, NEW p \in Procs, F!WriteFile(p)
  PROVE  FilesInv'
<1> DEFINE k == call[p].kind
           c == call[p].conv
<1>1. /\ p \in Busy /\ at[p] = "file" /\ UNCHANGED <<row, active, suspect>>
      /\ k \in F!Kinds /\ k # "activate" /\ c \in Convs
      /\ held[p] \in Stored \cup {Absent}
  BY DEF F!WriteFile, Busy, FilesInv, FilesTypes, HoldsTyped, Old, Calls
<1>2. CASE k = "usage" /\ held[p] = Absent
  <2>1. F!Leave(p) /\ UNCHANGED file
    BY <1>2 DEF F!WriteFile
  <2>2. /\ Busy' = Busy \ {p} /\ Called' \subseteq Called
        /\ Called \subseteq Called' \cup {call[p].conv}
        /\ call' \in [Procs -> Calls \cup {Absent}]
        /\ at' \in [Procs -> {"begin", "file", "index", "row"}]
        /\ DOMAIN held' = Procs /\ together' = together \ {p}
        /\ \A q \in Busy \ {p} : call'[q] = call[q] /\ at'[q] = at[q] /\ held'[q] = held[q]
        /\ \A q \in Busy \ {p} : q \in together /\ q \in together' /\ call[p].conv \in suspect
                                 /\ call[q].conv \in suspect
    BY <1>1, <2>1, FilesLeave
  <2>3. c \in suspect
    BY <1>1, <1>2 DEF FilesInv, Overlaps, Undisturbed
  <2> HIDE DEF c, k
  <2>4. Steady' \subseteq Steady
    BY <1>1, <2>2, <2>3 DEF Steady, c
  <2>5. FilesTypes'
    BY <1>1, <2>1, <2>2 DEF FilesInv, FilesTypes, Rows, HoldsTyped, Old
  <2>6. Overlaps'
    BY <1>1, <2>2 DEF FilesInv, Overlaps
  <2>7. \A q \in Busy' : Fresh(q)'
    BY <1>1, <2>1, <2>2, <2>4 DEF FilesInv, Fresh
  <2>8. \A q \in Busy' \ together' : Undisturbed(q)'
    BY <2>2
  <2>9. F!ListShowsTheFiles'
    <3>1. (\A d \in Steady : row[d] = file[d]) /\ (active \in Steady => file[active] # Absent)
      BY SteadyShows DEF FilesInv
    <3>2. (\A d \in Steady' : row'[d] = file'[d]) /\ (active' \in Steady' => file'[active'] # Absent)
      BY <1>1, <2>1, <2>4, <3>1
    <3>3. QED
      BY <3>2 DEF F!ListShowsTheFiles, Steady, Called, Busy
  <2>10. QED
    BY <2>5, <2>6, <2>7, <2>8, <2>9 DEF FilesInv
<1>3. CASE ~(k = "usage" /\ held[p] = Absent)
  <2> DEFINE new == IF k = "delete" THEN Absent ELSE F!NewContent(k, held[p])
  <2>1. /\ file' = [file EXCEPT ![c] = new] /\ at' = [at EXCEPT ![p] = "index"]
        /\ UNCHANGED <<call, held, together>>
    BY <1>3 DEF F!WriteFile
  <2>2. new \in Stored \cup {Absent} /\ (k # "delete" => new # Absent)
    <3>1. CASE k = "delete"
      BY <3>1
    <3>2. CASE k # "delete"
      <4>1. k \in {"create", "save", "append", "usage"}
        BY <1>1, <3>2 DEF F!Kinds
      <4>2. QED
        BY <1>1, <1>3, <3>2, <4>1, ContentIsTyped
    <3>3. QED
      BY <3>1, <3>2
  <2>3. FilesTypes /\ Overlaps
    BY DEF FilesInv
  <2>4. /\ file' \in Rows /\ file'[c] = new /\ \A d \in Convs : d # c => file'[d] = file[d]
        /\ at' \in [Procs -> {"begin", "file", "index", "row"}] /\ at'[p] = "index"
        /\ \A q \in Procs : q # p => at'[q] = at[q]
    BY <1>1, <2>1, <2>2, <2>3 DEF FilesTypes, Rows
  <2> HIDE DEF new
  <2>5. Busy' = Busy /\ Called' = Called /\ Steady' = Steady /\ c \notin Steady
    BY <1>1, <2>1 DEF Busy, Called, Steady
  <2>6. FilesTypes'
    <3>1. HoldsTyped(p)'
      BY <1>1, <1>3, <2>1, <2>4 DEF HoldsTyped, Old
    <3>2. \A q \in Busy : q # p => HoldsTyped(q)'
      BY <2>1, <2>3, <2>4 DEF FilesTypes, HoldsTyped, Old, Busy
    <3>3. QED
      BY <1>1, <2>1, <2>3, <2>4, <2>5, <3>1, <3>2 DEF FilesTypes
  <2>7. Overlaps'
    BY <1>1, <2>1, <2>3, <2>5 DEF Overlaps
  <2>8. ASSUME NEW q \in Busy' PROVE Fresh(q)'
    <3>1. Fresh(q) /\ q \in Procs
      BY <2>5 DEF FilesInv, Busy
    <3>2. Steady \subseteq Convs
      BY DEF Steady
    <3>3. QED
      BY <1>1, <2>1, <2>4, <2>5, <3>1, <3>2 DEF Fresh
  <2>9. ASSUME NEW q \in Busy' \ together' PROVE Undisturbed(q)'
    <3>1. q = p /\ Undisturbed(p)
      BY <1>1, <2>1, <2>5, OthersMeet DEF FilesInv
    <3>2. k = "usage" => held[p] \in Stored
      BY <1>1, <1>3
    <3>3. (k = "delete" => new = Absent) /\ (k # "delete" => new = F!NewContent(k, held[p]))
      BY DEF new
    <3>4. QED
      BY <1>1, <2>1, <2>2, <2>4, <3>1, <3>2, <3>3 DEF Undisturbed, Old
  <2>10. F!ListShowsTheFiles'
    <3>1. (\A d \in Steady : row[d] = file[d]) /\ (active \in Steady => file[active] # Absent)
      BY SteadyShows DEF FilesInv
    <3>2. (\A d \in Steady' : row'[d] = file'[d]) /\ (active' \in Steady' => file'[active'] # Absent)
      BY <1>1, <2>4, <2>5, <3>1 DEF Steady
    <3>3. QED
      BY <3>2 DEF F!ListShowsTheFiles, Steady, Called, Busy
  <2>11. QED
    BY <2>6, <2>7, <2>8, <2>9, <2>10 DEF FilesInv
<1>4. QED
  BY <1>2, <1>3

\* The conversation to go on with, after a call.
LEMMA ActiveMeans ==
  ASSUME NEW k \in F!Kinds, NEW c \in Convs, NEW i, NEW a \in F!ActiveAfter(k, c, i)
  PROVE  \/ k \in {"create", "save", "activate"} /\ a = c
         \/ k = "delete" /\ i.active = c
            /\ (a = Absent \/ (a \in Convs \ {c} /\ i.row[a] # Absent))
         \/ a = i.active /\ (a = c => k \in {"append", "usage"})
<1>1. CASE k \in {"create", "save", "activate"}
  BY <1>1 DEF F!ActiveAfter
<1>2. CASE k = "delete" /\ i.active = c
  BY <1>2 DEF F!ActiveAfter
<1>3. CASE k \notin {"create", "save", "activate"} /\ ~(k = "delete" /\ i.active = c)
  <2>1. F!ActiveAfter(k, c, i) = {i.active}
    BY <1>3 DEF F!ActiveAfter
  <2>2. QED
    BY <1>3, <2>1 DEF F!Kinds
<1>4. QED
  BY <1>1, <1>2, <1>3

\* The row a call writes that met no other.
LEMMA RowMeans ==
  ASSUME NEW k \in F!Kinds, NEW c \in Convs, NEW old \in Stored \cup {Absent}, NEW i,
         k = "usage" => old \in Stored /\ i.row[c] = old
  PROVE  /\ k = "delete" => F!RowAfter(k, c, old, i) = Absent
         /\ k = "activate" => F!RowAfter(k, c, old, i) = i.row[c]
         /\ k \in {"create", "save", "append", "usage"} =>
              F!RowAfter(k, c, old, i) = F!NewContent(k, old)
<1>1. CASE k = "usage"
  <2>1. old \in Stored /\ old # Absent /\ i.row[c] = old
    BY <1>1, AbsentAssumption DEF AbsentAssumption, Stored
  <2>2. F!NewContent(k, old) = [old EXCEPT !.usage = 1]
    BY <1>1 DEF F!NewContent
  <2>3. F!RowAfter(k, c, old, i) = [old EXCEPT !.usage = F!NewContent(k, old).usage]
    BY <1>1, <2>1 DEF F!RowAfter
  <2>4. QED
    BY <1>1, <2>1, <2>2, <2>3 DEF Stored
<1>2. CASE k # "usage"
  BY <1>2 DEF F!RowAfter, F!Kinds
<1>3. QED
  BY <1>1, <1>2

\* The usage in a row is set, whatever the file held.
LEMMA RowIsTyped ==
  ASSUME NEW c, NEW old \in Stored \cup {Absent}, NEW i, i.row[c] \in Stored \cup {Absent},
         old # Absent
  PROVE  F!RowAfter("usage", c, old, i) \in Stored \cup {Absent}
<1>1. F!NewContent("usage", old).usage = 1
  BY DEF F!NewContent, Stored
<1>2. F!RowAfter("usage", c, old, i) =
        IF i.row[c] = Absent THEN Absent ELSE [i.row[c] EXCEPT !.usage = 1]
  BY <1>1 DEF F!RowAfter
<1>3. QED
  BY <1>2 DEF Stored

LEMMA FilesIndex ==
  ASSUME FilesInv, NEW p \in Procs, F!WriteIndex(p)
  PROVE  FilesInv'
<1> DEFINE k == call[p].kind
           c == call[p].conv
           i == held[p].index
           old == held[p].old
<1>1. /\ p \in Busy /\ at[p] = "row" /\ F!Leave(p) /\ UNCHANGED file
      /\ row' = [i.row EXCEPT ![c] = F!RowAfter(k, c, old, i)]
      /\ active' \in F!ActiveAfter(k, c, i)
      /\ suspect' = suspect \ F!Mended(p)
  BY DEF F!WriteIndex, Busy
<1>2. FilesTypes /\ Overlaps /\ Fresh(p) /\ k \in F!Kinds /\ c \in Convs
      /\ i.row \in Rows /\ (k # "activate" => old \in Stored \cup {Absent})
      /\ (k = "usage" => old # Absent)
  BY <1>1 DEF FilesInv, FilesTypes, Busy, Calls, HoldsTyped, Old
<1>3. /\ Busy' = Busy \ {p} /\ Called' \subseteq Called /\ Called \subseteq Called' \cup {c}
      /\ call' \in [Procs -> Calls \cup {Absent}]
      /\ at' \in [Procs -> {"begin", "file", "index", "row"}]
      /\ DOMAIN held' = Procs /\ together' = together \ {p}
      /\ \A q \in Busy \ {p} : call'[q] = call[q] /\ at'[q] = at[q] /\ held'[q] = held[q]
      /\ \A q \in Busy \ {p} : q \in together /\ q \in together' /\ c \in suspect
                               /\ call[q].conv \in suspect
  BY <1>1, FilesLeave
<1>4. /\ p \in together => suspect' = suspect /\ c \in suspect
      /\ suspect' = suspect \/ (suspect' = suspect \ {c} /\ k \notin {"usage", "activate"})
      /\ \A q \in Busy \ {p} : p \in together
  BY <1>1, <1>2 DEF F!Mended, Overlaps
<1>5. p \notin together => Undisturbed(p)
  BY <1>1 DEF FilesInv
<1> HIDE DEF k, c, i, old
<1>6. Steady' \subseteq Steady \cup {c} /\ (c \in Steady' => p \notin together)
      /\ (p \in together => Steady' \subseteq Steady \ {c})
  BY <1>3, <1>4 DEF Steady
<1>7. /\ \A d \in Convs : d # c => row'[d] = i.row[d]
      /\ row'[c] = F!RowAfter(k, c, old, i)
      /\ \A d \in Steady : i.row[d] = row[d] /\ row[d] = file[d]
      /\ i.active \in Steady => file[i.active] # Absent
  <2>1. DOMAIN i.row = Convs
    BY <1>2 DEF Rows
  <2>2. \A d \in Steady : row[d] = file[d]
    BY SteadyShows DEF FilesInv
  <2>3. QED
    BY <1>1, <1>2, <2>1, <2>2 DEF Fresh, i
<1>8. p \notin together =>
        /\ k \in {"usage", "activate"} => file[c] # Absent
        /\ k = "activate" => (c \notin suspect => row[c] = file[c])
        /\ i.row = row /\ i.active = active
        /\ k = "delete" => file[c] = Absent
        /\ k \in {"create", "save", "append"} => file[c] = F!NewContent(k, old)
        /\ k = "usage" => /\ old \in Stored /\ file[c] = F!NewContent(k, old)
                          /\ c \notin suspect => row[c] = old
  BY <1>1, <1>5 DEF Undisturbed, Old, k, c, i, old
<1>9. ASSUME c \in Steady' PROVE row'[c] = file[c]
  <2>1. p \notin together /\ (k \in {"usage", "activate"} => c \notin suspect)
    BY <1>4, <1>6, <1>9 DEF Steady
  <2>2. CASE k = "activate"
    <3>1. F!RowAfter(k, c, old, i) = i.row[c]
      BY <2>2 DEF F!RowAfter
    <3>2. QED
      BY <1>7, <1>8, <2>1, <2>2, <3>1
  <2>3. CASE k # "activate"
    BY <1>2, <1>7, <1>8, <2>1, <2>3, RowMeans DEF F!Kinds
  <2>4. QED
    BY <2>2, <2>3
<1>10. ASSUME active' \in Steady' PROVE file[active'] # Absent
  <2>1. ASSUME active' = c, k # "delete" PROVE file[active'] # Absent
    <3>1. p \notin together
      BY <1>6, <1>10, <2>1
    <3>2. CASE k \in {"create", "save", "append"}
      BY <1>2, <1>8, <2>1, <3>1, <3>2, ContentIsTyped
    <3>3. CASE k \in {"usage", "activate"}
      BY <1>8, <2>1, <3>1, <3>3
    <3>4. QED
      BY <1>2, <2>1, <3>2, <3>3 DEF F!Kinds
  <2>2. ASSUME active' # c PROVE active' \in Steady /\ active' \in Convs /\ active' # Absent
    BY <1>6, <1>10, <2>2, AbsentAssumption DEF AbsentAssumption, Steady
  <2>3. \/ k \in {"create", "save", "activate"} /\ active' = c
        \/ k = "delete" /\ i.active = c
           /\ (active' = Absent \/ (active' \in Convs \ {c} /\ i.row[active'] # Absent))
        \/ active' = i.active /\ (active' = c => k \in {"append", "usage"})
    BY <1>1, <1>2, ActiveMeans DEF k, c, i
  <2>4. CASE active' = c
    BY <1>2, <2>1, <2>3, <2>4, AbsentAssumption DEF AbsentAssumption
  <2>5. CASE active' # c
    BY <1>7, <2>2, <2>3, <2>5
  <2>6. QED
    BY <2>4, <2>5
<1>11. FilesTypes'
  <2>1. row' \in Rows
    <3>1. i.row[c] \in Stored \cup {Absent}
      BY <1>2 DEF Rows
    <3>2. F!RowAfter(k, c, old, i) \in Stored \cup {Absent}
      <4>1. CASE k = "usage"
        BY <1>2, <3>1, <4>1, RowIsTyped
      <4>2. CASE k \in {"create", "save", "append"}
        BY <1>2, <4>2, ContentIsTyped, RowMeans
      <4>3. CASE k \in {"delete", "activate"}
        BY <3>1, <4>3 DEF F!RowAfter
      <4>4. QED
        BY <1>2, <4>1, <4>2, <4>3 DEF F!Kinds
    <3>3. QED
      BY <1>1, <1>2, <3>2 DEF Rows
  <2>2. QED
    BY <1>1, <1>2, <1>3, <2>1 DEF FilesTypes, HoldsTyped, Old
<1>12. Overlaps'
  BY <1>2, <1>3, <1>4 DEF Overlaps
<1>13. ASSUME NEW q \in Busy' PROVE Fresh(q)'
  <2>1. Fresh(q) /\ p \in together /\ suspect' = suspect
    BY <1>3, <1>4, <1>13 DEF FilesInv
  <2>2. \A d \in Steady' : d \in Steady /\ d # c /\ d \in Convs
    BY <1>6, <2>1 DEF Steady
  <2>3. QED
    BY <1>1, <1>3, <1>7, <1>13, <2>1, <2>2 DEF Fresh
<1>14. \A q \in Busy' \ together' : Undisturbed(q)'
  BY <1>3
<1>15. F!ListShowsTheFiles'
  <2>1. \A d \in Steady' : row'[d] = file'[d]
    <3>1. ASSUME NEW d \in Steady', d # c PROVE row'[d] = file[d]
      BY <1>6, <1>7, <3>1 DEF Steady
    <3>2. QED
      BY <1>1, <1>9, <3>1
  <2>2. active' \in Steady' => file'[active'] # Absent
    BY <1>1, <1>10
  <2>3. QED
    BY <2>1, <2>2 DEF F!ListShowsTheFiles, Steady, Called, Busy
<1>16. QED
  BY <1>11, <1>12, <1>13, <1>14, <1>15 DEF FilesInv

LEMMA FilesNext == FilesInv /\ [F!Next]_fileVars => FilesInv'
<1> SUFFICES ASSUME FilesInv, [F!Next]_fileVars PROVE FilesInv'
  OBVIOUS
<1>1. ASSUME NEW p \in Procs, NEW k \in F!Kinds, NEW c \in Convs, F!Begin(p, k, c)
      PROVE  FilesInv'
  BY <1>1, FilesBegin
<1>2. ASSUME NEW p \in Procs, F!Read(p) \/ F!ReadIndex(p) PROVE FilesInv'
  BY <1>2, FilesRead
<1>3. ASSUME NEW p \in Procs, F!WriteFile(p) PROVE FilesInv'
  BY <1>3, FilesWrite
<1>4. ASSUME NEW p \in Procs, F!WriteIndex(p) PROVE FilesInv'
  BY <1>4, FilesIndex
<1>5. ASSUME NEW p \in Procs, F!Die(p) PROVE FilesInv'
  BY <1>5, FilesDie
<1>6. CASE UNCHANGED fileVars
  BY <1>6 DEF fileVars, FilesInv, FilesTypes, Overlaps, Fresh, Undisturbed, HoldsTyped, Old,
              Busy, Called, Steady, Rows, F!ListShowsTheFiles
<1>7. QED
  BY <1>1, <1>2, <1>3, <1>4, <1>5, <1>6 DEF F!Next

\* ListShowsTheFiles (web/conversations.py): the list of conversations agrees with the files
\* wherever no call is under way, none died and no two met since the last whole save, and the
\* conversation the server goes on with has a file.
THEOREM ListIsTheFiles == Spec => []ListShowsTheFiles
<1>1. FilesInv /\ [Next]_vars => FilesInv'
  BY FilesNext, PartsApart
<1>2. FilesInv => ListShowsTheFiles
  BY DEF FilesInv, ListShowsTheFiles
<1>3. QED
  BY FilesInit, <1>1, <1>2, PTL DEF Spec

-------------------------------------------------------------------------------
(* CodeIndex.                                                                 *)

Entries == [mtime : Nat, text : Nat]
Indexes == [I!Files -> Entries \cup {Nothing}]
IndexTypes ==
    /\ src \in Indexes /\ edits \in Nat
    /\ symbols \in Indexes \cup {Nothing}
    /\ index \in [Procs -> Indexes \cup {Nothing}]
    /\ ipc \in [Procs -> {"idle", "scan", "read", "build", "search", "answer"}]
    /\ \A p \in Procs : ipc[p] # "idle" => index[p] \in Indexes
    /\ \A p \in Procs : ipc[p] = "read" => iat[p] \in [file : I!Files, mtime : Nat]
    /\ DOMAIN iat = Procs /\ DOMAIN kind = Procs /\ DOMAIN changed = Procs
    /\ itodo \in [Procs -> SUBSET I!Files] /\ seen \in [Procs -> SUBSET I!Files]
    /\ DOMAIN vectors = Procs /\ DOMAIN calm = Procs

\* An entry with the time a file has now has its text as well: a file never gets a time again.
Agrees(e, f) ==
    e # Nothing =>
      /\ e.mtime <= edits
      /\ src[f] # Nothing /\ src[f].mtime = e.mtime => src[f].text = e.text
IndexesAgree ==
    /\ \A f \in I!Files : src[f] # Nothing => src[f].mtime <= edits
    /\ symbols # Nothing => \A f \in I!Files : Agrees(symbols[f], f)
    /\ \A p \in Procs : index[p] # Nothing => \A f \in I!Files : Agrees(index[p][f], f)
    /\ \A p \in Procs : ipc[p] = "read" => iat[p].mtime <= edits

\* What a query that nothing came between has found out so far.
Wanted(p) == {f \in I!Handled(p) : src[f] # Nothing}
Truth(p) == [f \in I!Files |-> IF f \in Wanted(p) THEN src[f].text ELSE Nothing]
Parsed(p, f) == index[p][f] # Nothing /\ index[p][f].text = src[f].text
Scans(p) ==
    /\ seen[p] \cup itodo[p] = Wanted(p)
    /\ \A f \in seen[p] : Parsed(p, f) \/ (ipc[p] = "read" /\ f = iat[p].file)
    /\ ipc[p] = "read" => iat[p].file \in seen[p] /\ iat[p].mtime = src[iat[p].file].mtime
Progress(p) ==
    /\ ipc[p] \in {"scan", "read"} => Scans(p)
    /\ ipc[p] \in {"build", "search"} => I!Texts(p) = Truth(p)
    /\ ipc[p] = "search" /\ I!Loaded(p) => vectors[p] = Truth(p)
    /\ ipc[p] = "search" /\ ~I!Loaded(p) => vdisk = Truth(p)
    /\ ipc[p] = "answer" => I!Told(p) = Truth(p)
IndexInv == IndexTypes /\ IndexesAgree /\ \A p \in Procs : calm[p] => Progress(p)

LEMMA IndexInit == Init => IndexInv
<1> SUFFICES ASSUME Init PROVE IndexInv
  OBVIOUS
<1>1. I!Init
  BY DEF Init
<1>2. IndexTypes
  BY <1>1 DEF I!Init, IndexTypes, Entries, Indexes
<1>3. IndexesAgree
  BY <1>1, NothingAssumption DEF I!Init, IndexesAgree, NothingAssumption
<1>4. QED
  BY <1>1, <1>2, <1>3 DEF I!Init, IndexInv

\* The files a process looks for are files.
LEMMA WantedAreFiles == \A p : Wanted(p) \subseteq I!Files
BY DEF Wanted, I!Handled, I!ByTreeSitter, I!Files

\* What is wanted is told apart from what is not there.
LEMMA TruthIsThere == ASSUME IndexTypes, NEW p PROVE Truth(p) # Nothing
<1>1. \A f \in Wanted(p) : src[f].text \in Nat
  <2>1. \A f \in Wanted(p) : f \in I!Files /\ src[f] # Nothing
    BY WantedAreFiles DEF Wanted
  <2>2. QED
    BY <2>1 DEF IndexTypes, Indexes, Entries
<1>2. Truth(p) \in [I!Files -> Nat \cup {Nothing}]
  BY <1>1 DEF Truth
<1>3. QED
  BY <1>2, NothingAssumption DEF NothingAssumption, I!Files

\* A process that a step leaves alone has found out what it had.
LEMMA OthersProgress ==
  ASSUME NEW q, Progress(q), UNCHANGED src,
         ipc'[q] = ipc[q], itodo'[q] = itodo[q], seen'[q] = seen[q], iat'[q] = iat[q],
         index'[q] = index[q], kind'[q] = kind[q], vectors'[q] = vectors[q],
         vdisk' = vdisk \/ ipc[q] # "search" \/ I!Loaded(q)
  PROVE  Progress(q)'
<1>1. Wanted(q)' = Wanted(q)
  BY DEF Wanted, I!Handled, I!ByTreeSitter
<1>2. Truth(q)' = Truth(q)
  BY <1>1 DEF Truth
<1>3. I!Texts(q)' = I!Texts(q) /\ (I!Loaded(q)' <=> I!Loaded(q))
  BY DEF I!Texts, I!Loaded
<1>4. I!Told(q)' = I!Told(q)
  BY <1>3 DEF I!Told
<1>5. \A f : Parsed(q, f)' <=> Parsed(q, f)
  BY DEF Parsed
<1>6. ipc[q] \in {"scan", "read"} => Scans(q)'
  BY <1>1, <1>5 DEF Progress, Scans
<1>7. QED
  BY <1>2, <1>3, <1>4, <1>6 DEF Progress

LEMMA IndexIsThere == Nothing \notin Indexes
BY NothingAssumption DEF NothingAssumption, Indexes, Entries, I!Files

LEMMA IndexQuery ==
  ASSUME IndexInv, NEW p \in Procs, I!Query(p)
  PROVE  IndexInv'
<1>1. /\ UNCHANGED <<symbols, vdisk, vectors, iat, src, edits>>
      /\ index' = [index EXCEPT ![p] =
                     IF @ # Nothing THEN @ ELSE IF symbols = Nothing THEN I!NoFiles ELSE symbols]
      /\ itodo' = [itodo EXCEPT ![p] = Wanted(p)] /\ seen' = [seen EXCEPT ![p] = {}]
      /\ ipc' = [ipc EXCEPT ![p] = "scan"]
      /\ DOMAIN kind' = Procs /\ DOMAIN changed' = Procs /\ DOMAIN calm' = Procs
      /\ \A q \in Procs : q # p => kind'[q] = kind[q] /\ calm'[q] = calm[q]
  <2>1. PICK k : kind' = [kind EXCEPT ![p] = k]
    BY DEF I!Query
  <2>2. /\ UNCHANGED <<symbols, vdisk, vectors, iat, src, edits>>
        /\ index' = [index EXCEPT ![p] =
                       IF @ # Nothing THEN @ ELSE IF symbols = Nothing THEN I!NoFiles ELSE symbols]
        /\ itodo' = [itodo EXCEPT ![p] = Wanted(p)] /\ seen' = [seen EXCEPT ![p] = {}]
        /\ ipc' = [ipc EXCEPT ![p] = "scan"]
        /\ changed' = [changed EXCEPT ![p] = FALSE] /\ calm' = [calm EXCEPT ![p] = TRUE]
    BY DEF I!Query, I!outside, Wanted
  <2>3. DOMAIN kind = Procs /\ DOMAIN changed = Procs /\ DOMAIN calm = Procs
    BY DEF IndexInv, IndexTypes
  <2>4. QED
    BY <2>1, <2>2, <2>3
<1>2. IndexTypes /\ IndexesAgree
  BY DEF IndexInv
<1>3. I!NoFiles \in Indexes /\ \A f \in I!Files : I!NoFiles[f] = Nothing
  BY DEF I!NoFiles, Indexes
<1>4. /\ index'[p] \in Indexes /\ \A f \in I!Files : Agrees(index'[p][f], f)
      /\ \A q \in Procs : q # p => index'[q] = index[q]
      /\ index' \in [Procs -> Indexes \cup {Nothing}]
  BY <1>1, <1>2, <1>3 DEF IndexTypes, IndexesAgree, Agrees
<1>5. /\ ipc'[p] = "scan" /\ itodo'[p] = Wanted(p) /\ seen'[p] = {}
      /\ \A q \in Procs : q # p => ipc'[q] = ipc[q] /\ itodo'[q] = itodo[q] /\ seen'[q] = seen[q]
      /\ ipc' \in [Procs -> {"idle", "scan", "read", "build", "search", "answer"}]
      /\ itodo' \in [Procs -> SUBSET I!Files] /\ seen' \in [Procs -> SUBSET I!Files]
  BY <1>1, <1>2, WantedAreFiles DEF IndexTypes
<1>6. IndexTypes'
  BY <1>1, <1>2, <1>4, <1>5 DEF IndexTypes, I!Files
<1>7. IndexesAgree'
  BY <1>1, <1>2, <1>4, <1>5 DEF IndexesAgree, Agrees, I!Files
<1>8. ASSUME NEW q \in Procs, calm'[q] PROVE Progress(q)'
  <2>1. CASE q = p
    BY <1>1, <1>5, <2>1 DEF Progress, Scans, Wanted, I!Handled, I!ByTreeSitter
  <2>2. CASE q # p
    <3>1. Progress(q)
      BY <1>1, <1>8, <2>2 DEF IndexInv
    <3>2. QED
      BY <1>1, <1>4, <1>5, <2>2, <3>1, OthersProgress
  <2>3. QED
    BY <2>1, <2>2
<1>9. QED
  BY <1>6, <1>7, <1>8 DEF IndexInv

LEMMA IndexStat ==
  ASSUME IndexInv, NEW p \in Procs, NEW f \in I!Files, I!Stat(p, f)
  PROVE  IndexInv'
<1>1. /\ ipc[p] = "scan" /\ f \in itodo[p]
      /\ UNCHANGED <<src, symbols, vdisk, index, vectors, kind, changed, calm, edits>>
      /\ itodo' = [itodo EXCEPT ![p] = @ \ {f}]
  BY DEF I!Stat, I!outside
<1>2. IndexTypes /\ IndexesAgree /\ index[p] \in Indexes
  BY <1>1 DEF IndexInv, IndexTypes
<1>3. src[f] # Nothing => src[f].mtime \in Nat /\ src[f].mtime <= edits
  BY <1>2 DEF IndexTypes, IndexesAgree, Indexes, Entries
<1>4. \/ src[f] = Nothing /\ UNCHANGED <<seen, iat, ipc>>
      \/ /\ src[f] # Nothing /\ seen' = [seen EXCEPT ![p] = @ \cup {f}]
         /\ I!Current(index[p][f], src[f].mtime) /\ UNCHANGED <<iat, ipc>>
      \/ /\ src[f] # Nothing /\ seen' = [seen EXCEPT ![p] = @ \cup {f}]
         /\ iat' = [iat EXCEPT ![p] = [file |-> f, mtime |-> src[f].mtime]]
         /\ ipc' = [ipc EXCEPT ![p] = "read"]
  BY DEF I!Stat
<1>5. /\ itodo'[p] = itodo[p] \ {f}
      /\ src[f] # Nothing => seen'[p] = seen[p] \cup {f}
      /\ ipc'[p] = "read" => iat'[p].file = f /\ iat'[p].mtime = src[f].mtime /\ src[f] # Nothing
                             /\ iat'[p] \in [file : I!Files, mtime : Nat]
      /\ ipc'[p] \in {"scan", "read"} /\ seen'[p] \subseteq I!Files
      /\ src[f] # Nothing => ipc'[p] = "read" \/ I!Current(index[p][f], src[f].mtime)
      /\ \A q \in Procs : q # p => /\ itodo'[q] = itodo[q] /\ seen'[q] = seen[q]
                                   /\ iat'[q] = iat[q] /\ ipc'[q] = ipc[q]
      /\ DOMAIN iat' = Procs
      /\ ipc' \in [Procs -> {"idle", "scan", "read", "build", "search", "answer"}]
      /\ itodo' \in [Procs -> SUBSET I!Files] /\ seen' \in [Procs -> SUBSET I!Files]
  BY <1>1, <1>2, <1>3, <1>4 DEF IndexTypes
<1>6. IndexTypes'
  BY <1>1, <1>2, <1>5 DEF IndexTypes, Indexes, I!Files
<1>7. IndexesAgree'
  <2>1. \A q \in Procs : ipc'[q] = "read" => iat'[q].mtime <= edits
    BY <1>2, <1>3, <1>5 DEF IndexesAgree
  <2>2. QED
    BY <1>1, <1>2, <2>1 DEF IndexesAgree, Agrees, I!Files
<1>8. ASSUME NEW q \in Procs, calm'[q] PROVE Progress(q)'
  <2>1. Progress(q)
    BY <1>1, <1>8 DEF IndexInv
  <2>2. CASE q # p
    BY <1>1, <1>5, <2>1, <2>2, OthersProgress
  <2>3. CASE q = p
    <3>1. /\ seen[p] \cup itodo[p] = Wanted(p) /\ \A g \in seen[p] : Parsed(p, g)
      BY <1>1, <2>1, <2>3 DEF Progress, Scans
    <3>2. src[f] # Nothing /\ Wanted(p)' = Wanted(p)
      BY <1>1, <3>1 DEF Wanted, I!Handled, I!ByTreeSitter
    <3>3. ipc'[p] = "read" \/ Parsed(p, f)
      BY <1>2, <1>5, <3>2, IndexIsThere DEF Parsed, I!Current, IndexesAgree, Agrees
    <3>4. \A g : Parsed(p, g)' <=> Parsed(p, g)
      BY <1>1 DEF Parsed
    <3>5. seen'[p] \cup itodo'[p] = Wanted(p)
      BY <1>1, <1>5, <3>1, <3>2
    <3>6. \A g \in seen'[p] : Parsed(p, g)' \/ (ipc'[p] = "read" /\ g = iat'[p].file)
      BY <1>5, <3>1, <3>2, <3>3, <3>4
    <3>7. Scans(p)'
      BY <1>1, <1>5, <3>2, <3>5, <3>6 DEF Scans
    <3>8. QED
      BY <1>5, <2>3, <3>7 DEF Progress
  <2>4. QED
    BY <2>2, <2>3
<1>9. QED
  BY <1>6, <1>7, <1>8 DEF IndexInv

LEMMA IndexParse ==
  ASSUME IndexInv, NEW p \in Procs, I!Parse(p)
  PROVE  IndexInv'
<1> DEFINE f == iat[p].file
           m == iat[p].mtime
<1>1. /\ ipc[p] = "read" /\ UNCHANGED <<src, symbols, vdisk, vectors, kind, itodo, seen, calm, edits>>
      /\ iat' = [iat EXCEPT ![p] = Nothing] /\ ipc' = [ipc EXCEPT ![p] = "scan"]
  BY DEF I!Parse, I!outside
<1>2. IndexTypes /\ IndexesAgree /\ index[p] \in Indexes /\ f \in I!Files /\ m \in Nat /\ m <= edits
  BY <1>1 DEF IndexInv, IndexTypes, IndexesAgree
<1>3. \/ src[f] = Nothing /\ UNCHANGED <<index, changed>>
      \/ /\ src[f] # Nothing
         /\ index' = [index EXCEPT ![p][f] = I!Entry(m, src[f].text)]
         /\ changed' = [changed EXCEPT ![p] = TRUE]
  BY DEF I!Parse
<1> HIDE DEF f, m
<1>4. src[f] # Nothing => src[f].text \in Nat
  BY <1>2 DEF IndexTypes, Indexes, Entries
<1>5. src[f] # Nothing =>
        /\ I!Entry(m, src[f].text) \in Entries /\ I!Entry(m, src[f].text) # Nothing
        /\ I!Entry(m, src[f].text).mtime = m /\ I!Entry(m, src[f].text).text = src[f].text
  BY <1>2, <1>4, NothingAssumption DEF NothingAssumption, Entries, I!Entry
<1>6. /\ src[f] # Nothing => /\ index'[p][f].mtime = m /\ index'[p][f].text = src[f].text
                             /\ index'[p][f] # Nothing
      /\ \A g \in I!Files : g # f \/ src[f] = Nothing => index'[p][g] = index[p][g]
      /\ index'[p] \in Indexes
      /\ \A q \in Procs : q # p => index'[q] = index[q]
      /\ index' \in [Procs -> Indexes \cup {Nothing}]
      /\ DOMAIN changed' = Procs
  BY <1>2, <1>3, <1>5 DEF IndexTypes, Indexes
<1>7. /\ ipc'[p] = "scan" /\ \A q \in Procs : q # p => ipc'[q] = ipc[q] /\ iat'[q] = iat[q]
      /\ ipc' \in [Procs -> {"idle", "scan", "read", "build", "search", "answer"}]
      /\ DOMAIN iat' = Procs
  BY <1>1, <1>2 DEF IndexTypes
<1>8. IndexTypes'
  BY <1>1, <1>2, <1>6, <1>7 DEF IndexTypes, Indexes, I!Files
<1>9. IndexesAgree'
  <2>1. \A g \in I!Files : Agrees(index'[p][g], g)
    <3>1. ASSUME NEW g \in I!Files, g # f \/ src[f] = Nothing PROVE Agrees(index'[p][g], g)
      <4>1. index'[p][g] = index[p][g]
        BY <1>6, <3>1
      <4>2. index[p] # Nothing
        BY <1>2, IndexIsThere
      <4>3. QED
        BY <1>2, <4>1, <4>2 DEF IndexesAgree
    <3>2. CASE src[f] # Nothing
      BY <1>2, <1>6, <3>1, <3>2 DEF Agrees
    <3>3. QED
      BY <3>1, <3>2
  <2>2. QED
    BY <1>1, <1>2, <1>6, <1>7, <2>1 DEF IndexesAgree, Agrees, I!Files
<1>10. ASSUME NEW q \in Procs, calm'[q] PROVE Progress(q)'
  <2>1. Progress(q)
    BY <1>1, <1>10 DEF IndexInv
  <2>2. CASE q # p
    BY <1>1, <1>6, <1>7, <2>1, <2>2, OthersProgress
  <2>3. CASE q = p
    <3>1. /\ seen[p] \cup itodo[p] = Wanted(p)
          /\ \A g \in seen[p] : Parsed(p, g) \/ g = f
          /\ f \in seen[p]
      BY <1>1, <2>1, <2>3 DEF Progress, Scans, f
    <3>2. Wanted(p)' = Wanted(p) /\ seen[p] \subseteq I!Files /\ src[f] # Nothing
      BY <1>1, <3>1, WantedAreFiles DEF Wanted, I!Handled, I!ByTreeSitter
    <3>3. \A g \in seen[p] : Parsed(p, g)'
      BY <1>1, <1>6, <3>1, <3>2 DEF Parsed
    <3>4. Scans(p)'
      BY <1>1, <1>7, <3>1, <3>2, <3>3 DEF Scans
    <3>5. QED
      BY <1>7, <2>3, <3>4 DEF Progress
  <2>4. QED
    BY <2>2, <2>3
<1>11. QED
  BY <1>8, <1>9, <1>10 DEF IndexInv

\* The texts of an index that has what was found, parsed, and nothing else.
LEMMA SweptTexts ==
  ASSUME IndexTypes, NEW p \in Procs, index[p] \in Indexes,
         seen[p] = Wanted(p), \A f \in seen[p] : Parsed(p, f),
         NEW i, i = I!Swept(p)
  PROVE  [f \in I!Files |-> IF i[f] = Nothing THEN Nothing ELSE i[f].text] = Truth(p)
<1>1. \A f \in I!Files : i[f] = IF f \in seen[p] THEN index[p][f] ELSE Nothing
  BY DEF I!Swept
<1>2. \A f \in I!Files :
        (IF i[f] = Nothing THEN Nothing ELSE i[f].text)
          = IF f \in Wanted(p) THEN src[f].text ELSE Nothing
  BY <1>1 DEF Parsed
<1>3. QED
  BY <1>2 DEF Truth

LEMMA IndexSweep ==
  ASSUME IndexInv, NEW p \in Procs, I!Sweep(p)
  PROVE  IndexInv'
<1>1. /\ ipc[p] = "scan" /\ itodo[p] = {}
      /\ UNCHANGED <<src, vdisk, vectors, kind, itodo, seen, iat, changed, calm, edits>>
      /\ index' = [index EXCEPT ![p] = I!Swept(p)]
      /\ symbols' \in {symbols, I!Swept(p)}
      /\ ipc' = [ipc EXCEPT ![p] = IF kind[p] = "symbols" THEN "answer" ELSE "build"]
  BY DEF I!Sweep
<1>2. IndexTypes /\ IndexesAgree /\ index[p] \in Indexes /\ index[p] # Nothing
  BY <1>1, IndexIsThere DEF IndexInv, IndexTypes
<1>3. I!Swept(p) \in Indexes /\ \A f \in I!Files : Agrees(I!Swept(p)[f], f)
  BY <1>2 DEF I!Swept, Indexes, IndexesAgree, Agrees
<1>4. /\ index'[p] = I!Swept(p) /\ index' \in [Procs -> Indexes \cup {Nothing}]
      /\ ipc'[p] = (IF kind[p] = "symbols" THEN "answer" ELSE "build")
      /\ ipc' \in [Procs -> {"idle", "scan", "read", "build", "search", "answer"}]
      /\ \A q \in Procs : q # p => index'[q] = index[q] /\ ipc'[q] = ipc[q]
  BY <1>1, <1>2, <1>3 DEF IndexTypes
<1>5. IndexTypes'
  BY <1>1, <1>2, <1>3, <1>4 DEF IndexTypes, Indexes, I!Files
<1>6. IndexesAgree'
  <2>1. \A e, f : Agrees(e, f)' <=> Agrees(e, f)
    BY <1>1 DEF Agrees
  <2>2. \A q \in Procs : index'[q] # Nothing => \A f \in I!Files : Agrees(index'[q][f], f)
    BY <1>2, <1>3, <1>4 DEF IndexesAgree
  <2>3. symbols' # Nothing => \A f \in I!Files : Agrees(symbols'[f], f)
    BY <1>1, <1>2, <1>3 DEF IndexesAgree
  <2>4. QED
    BY <1>1, <1>2, <1>4, <2>1, <2>2, <2>3 DEF IndexesAgree, I!Files, Agrees
<1>7. ASSUME NEW q \in Procs, calm'[q] PROVE Progress(q)'
  <2>1. Progress(q)
    BY <1>1, <1>7 DEF IndexInv
  <2>2. CASE q # p
    BY <1>1, <1>4, <2>1, <2>2, OthersProgress
  <2>3. CASE q = p
    <3>1. seen[p] = Wanted(p) /\ \A f \in seen[p] : Parsed(p, f)
      BY <1>1, <2>1, <2>3 DEF Progress, Scans
    <3>2. Truth(p)' = Truth(p)
      BY <1>1 DEF Truth, Wanted, I!Handled, I!ByTreeSitter
    <3>3. I!Texts(p)' = Truth(p)
      BY <1>2, <1>4, <3>1, SweptTexts DEF I!Texts
    <3>4. ipc'[p] = "answer" => I!Told(p)' = Truth(p)
      BY <1>1, <1>4, <3>3 DEF I!Told
    <3>5. QED
      BY <1>4, <2>3, <3>2, <3>3, <3>4 DEF Progress
  <2>4. QED
    BY <2>2, <2>3
<1>8. QED
  BY <1>5, <1>6, <1>7 DEF IndexInv

LEMMA IndexBuild ==
  ASSUME IndexInv, NEW p \in Procs, I!Build(p)
  PROVE  IndexInv'
<1>1. /\ ipc[p] = "build"
      /\ UNCHANGED <<src, symbols, index, kind, itodo, seen, iat, changed, edits>>
      /\ vectors' = [vectors EXCEPT ![p] = IF I!Loaded(p) THEN I!Texts(p) ELSE @]
      /\ ipc' = [ipc EXCEPT ![p] = "search"]
      /\ \/ /\ vdisk' = I!Texts(p)
            /\ calm' = [q \in Procs |-> calm[q] /\ (ipc[q] # "search" \/ I!Loaded(q))]
         \/ calm' = [calm EXCEPT ![p] = @ /\ I!Loaded(p)] /\ UNCHANGED vdisk
  BY DEF I!Build
<1>2. IndexTypes /\ IndexesAgree
  BY DEF IndexInv
<1>3. /\ vectors'[p] = (IF I!Loaded(p) THEN I!Texts(p) ELSE vectors[p]) /\ DOMAIN vectors' = Procs
      /\ ipc'[p] = "search"
      /\ ipc' \in [Procs -> {"idle", "scan", "read", "build", "search", "answer"}]
      /\ \A q \in Procs : q # p => vectors'[q] = vectors[q] /\ ipc'[q] = ipc[q]
  BY <1>1, <1>2 DEF IndexTypes
<1>4. /\ DOMAIN calm' = Procs
      /\ \A q \in Procs : calm'[q] => calm[q] /\ (vdisk' = vdisk \/ ipc[q] # "search" \/ I!Loaded(q))
      /\ calm'[p] => vdisk' = I!Texts(p) \/ I!Loaded(p)
  <2>1. CASE /\ vdisk' = I!Texts(p)
             /\ calm' = [q \in Procs |-> calm[q] /\ (ipc[q] # "search" \/ I!Loaded(q))]
    BY <2>1
  <2>2. CASE calm' = [calm EXCEPT ![p] = @ /\ I!Loaded(p)] /\ UNCHANGED vdisk
    <3>1. DOMAIN calm = Procs
      BY <1>2 DEF IndexTypes
    <3>2. (calm'[p] <=> calm[p] /\ I!Loaded(p)) /\ \A q \in Procs : q # p => calm'[q] = calm[q]
      BY <2>2, <3>1
    <3>3. QED
      BY <2>2, <3>1, <3>2
  <2>3. QED
    BY <1>1, <2>1, <2>2
<1>5. IndexTypes'
  <2>1. \A q \in Procs : ipc'[q] # "idle" => index'[q] \in Indexes
    BY <1>1, <1>2, <1>3 DEF IndexTypes
  <2>2. QED
    BY <1>1, <1>2, <1>3, <1>4, <2>1 DEF IndexTypes, Indexes, I!Files
<1>6. IndexesAgree'
  BY <1>1, <1>2, <1>3 DEF IndexesAgree, Agrees, I!Files
<1>7. ASSUME NEW q \in Procs, calm'[q] PROVE Progress(q)'
  <2>1. Progress(q)
    BY <1>4, <1>7 DEF IndexInv
  <2>2. CASE q # p
    BY <1>1, <1>3, <1>4, <1>7, <2>1, <2>2, OthersProgress
  <2>3. CASE q = p
    <3>1. I!Texts(p) = Truth(p) /\ Truth(p) # Nothing
      BY <1>1, <1>2, <2>1, <2>3, TruthIsThere DEF Progress
    <3>2. Truth(p)' = Truth(p) /\ I!Texts(p)' = I!Texts(p)
      BY <1>1 DEF Truth, Wanted, I!Handled, I!ByTreeSitter, I!Texts
    <3>3. I!Loaded(p)' <=> I!Loaded(p)
      BY <1>3, <3>1 DEF I!Loaded
    <3>4. QED
      BY <1>3, <1>4, <1>7, <2>3, <3>1, <3>2, <3>3 DEF Progress
  <2>4. QED
    BY <2>2, <2>3
<1>8. QED
  BY <1>5, <1>6, <1>7 DEF IndexInv

LEMMA IndexSearch ==
  ASSUME IndexInv, NEW p \in Procs, I!Search(p)
  PROVE  IndexInv'
<1>1. /\ ipc[p] = "search"
      /\ UNCHANGED <<src, symbols, vdisk, index, kind, itodo, seen, iat, changed, calm, edits>>
      /\ vectors' = [vectors EXCEPT ![p] =
                       IF I!Loaded(p) THEN @ ELSE IF vdisk = Nothing THEN I!Texts(p) ELSE vdisk]
      /\ ipc' = [ipc EXCEPT ![p] = "answer"]
  BY DEF I!Search, I!outside
<1>2. IndexTypes /\ IndexesAgree
  BY DEF IndexInv
<1>3. /\ vectors'[p] = (IF I!Loaded(p) THEN vectors[p]
                        ELSE IF vdisk = Nothing THEN I!Texts(p) ELSE vdisk)
      /\ DOMAIN vectors' = Procs /\ ipc'[p] = "answer"
      /\ ipc' \in [Procs -> {"idle", "scan", "read", "build", "search", "answer"}]
      /\ \A q \in Procs : q # p => vectors'[q] = vectors[q] /\ ipc'[q] = ipc[q]
  BY <1>1, <1>2 DEF IndexTypes
<1>4. IndexTypes'
  <2>1. \A q \in Procs : ipc'[q] # "idle" => index'[q] \in Indexes
    BY <1>1, <1>2, <1>3 DEF IndexTypes
  <2>2. QED
    BY <1>1, <1>2, <1>3, <2>1 DEF IndexTypes, Indexes, I!Files
<1>5. IndexesAgree'
  BY <1>1, <1>2, <1>3 DEF IndexesAgree, Agrees, I!Files
<1>6. ASSUME NEW q \in Procs, calm'[q] PROVE Progress(q)'
  <2>1. Progress(q)
    BY <1>1, <1>6 DEF IndexInv
  <2>2. CASE q # p
    BY <1>1, <1>3, <2>1, <2>2, OthersProgress
  <2>3. CASE q = p
    <3>1. I!Texts(p) = Truth(p) /\ vectors'[p] = Truth(p)
      BY <1>1, <1>3, <2>1, <2>3 DEF Progress
    <3>2. Truth(p)' = Truth(p) /\ I!Texts(p)' = I!Texts(p)
      BY <1>1 DEF Truth, Wanted, I!Handled, I!ByTreeSitter, I!Texts
    <3>3. I!Told(p)' = Truth(p)
      BY <3>1, <3>2 DEF I!Told
    <3>4. QED
      BY <1>3, <2>3, <3>2, <3>3 DEF Progress
  <2>4. QED
    BY <2>2, <2>3
<1>7. QED
  BY <1>4, <1>5, <1>6 DEF IndexInv

\* A process that is done with its query, or ends, has nothing left to tell.
LEMMA IndexLeft ==
  ASSUME IndexInv, NEW p \in Procs, I!Answered(p) \/ I!Restart(p)
  PROVE  IndexInv'
<1>1. /\ UNCHANGED <<src, symbols, vdisk, edits>>
      /\ index' \in {index, [index EXCEPT ![p] = Nothing]}
      /\ vectors' \in {vectors, [vectors EXCEPT ![p] = Nothing]}
      /\ ipc' = [ipc EXCEPT ![p] = "idle"] /\ kind' = [kind EXCEPT ![p] = "symbols"]
      /\ iat' \in {iat, [iat EXCEPT ![p] = Nothing]}
      /\ itodo' \in {itodo, [itodo EXCEPT ![p] = {}]} /\ seen' = [seen EXCEPT ![p] = {}]
      /\ changed' = [changed EXCEPT ![p] = FALSE] /\ calm' = [calm EXCEPT ![p] = FALSE]
  BY DEF I!Answered, I!Restart, I!outside
<1>2. IndexTypes /\ IndexesAgree
  BY DEF IndexInv
<1>3. /\ index' \in [Procs -> Indexes \cup {Nothing}] /\ index'[p] \in {index[p], Nothing}
      /\ ipc'[p] = "idle"
      /\ ipc' \in [Procs -> {"idle", "scan", "read", "build", "search", "answer"}]
      /\ itodo' \in [Procs -> SUBSET I!Files] /\ seen' \in [Procs -> SUBSET I!Files]
      /\ DOMAIN vectors' = Procs /\ DOMAIN kind' = Procs /\ DOMAIN iat' = Procs
      /\ DOMAIN changed' = Procs /\ DOMAIN calm' = Procs /\ ~calm'[p]
      /\ \A q \in Procs : q # p =>
           /\ index'[q] = index[q] /\ vectors'[q] = vectors[q] /\ ipc'[q] = ipc[q]
           /\ kind'[q] = kind[q] /\ iat'[q] = iat[q] /\ itodo'[q] = itodo[q]
           /\ seen'[q] = seen[q] /\ calm'[q] = calm[q]
  BY <1>1, <1>2 DEF IndexTypes
<1>4. IndexTypes'
  <2>1. \A q \in Procs : ipc'[q] # "idle" => index'[q] \in Indexes
    BY <1>2, <1>3 DEF IndexTypes
  <2>2. \A q \in Procs : ipc'[q] = "read" => iat'[q] \in [file : I!Files, mtime : Nat]
    BY <1>2, <1>3 DEF IndexTypes
  <2>3. QED
    BY <1>1, <1>2, <1>3, <2>1, <2>2 DEF IndexTypes, Indexes, I!Files
<1>5. IndexesAgree'
  BY <1>1, <1>2, <1>3 DEF IndexesAgree, Agrees, I!Files
<1>6. ASSUME NEW q \in Procs, calm'[q] PROVE Progress(q)'
  BY <1>1, <1>3, <1>6, OthersProgress DEF IndexInv
<1>7. QED
  BY <1>4, <1>5, <1>6 DEF IndexInv

LEMMA IndexEdit ==
  ASSUME IndexInv, NEW f \in I!Files, I!Edit(f)
  PROVE  IndexInv'
<1>1. /\ UNCHANGED <<symbols, vdisk, index, vectors, ipc, kind, itodo, seen, iat, changed>>
      /\ edits' = edits + 1 /\ calm' = [p \in Procs |-> FALSE]
      /\ src' \in {[src EXCEPT ![f] = [mtime |-> edits + 1, text |-> edits + 1]],
                   [src EXCEPT ![f] = Nothing]}
  BY DEF I!Edit
<1>2. IndexTypes /\ IndexesAgree
  BY DEF IndexInv
<1>3. /\ edits' \in Nat /\ edits' > edits /\ src' \in Indexes
      /\ src'[f] = Nothing \/ src'[f].mtime = edits + 1
      /\ \A g \in I!Files : g # f => src'[g] = src[g]
  BY <1>1, <1>2 DEF IndexTypes, Indexes, Entries
<1>4. IndexTypes'
  BY <1>1, <1>2, <1>3 DEF IndexTypes, Indexes, I!Files
<1>5. \A e \in Entries \cup {Nothing}, g \in I!Files : Agrees(e, g) => Agrees(e, g)'
  <2>1. edits \in Nat
    BY <1>2 DEF IndexTypes
  <2>2. QED
    BY <1>1, <1>3, <2>1 DEF Agrees, Entries
<1>6. IndexesAgree'
  <2>1. \A g \in I!Files : src'[g] # Nothing => src'[g].mtime <= edits'
    BY <1>1, <1>2, <1>3 DEF IndexesAgree, IndexTypes, Indexes, Entries
  <2>2. symbols # Nothing => \A g \in I!Files : Agrees(symbols[g], g)'
    <3>1. ASSUME symbols # Nothing, NEW g \in I!Files
          PROVE  symbols[g] \in Entries \cup {Nothing} /\ Agrees(symbols[g], g)
      BY <1>2, <3>1 DEF IndexesAgree, IndexTypes, Indexes
    <3>2. QED
      BY <1>1, <1>5, <3>1 DEF Agrees
  <2>3. ASSUME NEW q \in Procs, index[q] # Nothing, NEW g \in I!Files
        PROVE  Agrees(index[q][g], g)'
    <3>1. index[q][g] \in Entries \cup {Nothing} /\ Agrees(index[q][g], g)
      BY <1>2, <2>3 DEF IndexesAgree, IndexTypes, Indexes
    <3>2. QED
      BY <1>1, <1>5, <3>1 DEF Agrees
  <2>4. \A q \in Procs : ipc[q] = "read" => iat[q].mtime <= edits'
    BY <1>1, <1>2 DEF IndexesAgree, IndexTypes
  <2>5. QED
    BY <1>1, <2>1, <2>2, <2>3, <2>4 DEF IndexesAgree, I!Files, Agrees
<1>7. QED
  BY <1>1, <1>4, <1>6 DEF IndexInv

LEMMA IndexNext == IndexInv /\ [I!Next]_indexVars => IndexInv'
<1> SUFFICES ASSUME IndexInv, [I!Next]_indexVars PROVE IndexInv'
  OBVIOUS
<1>1. CASE \E p \in Procs : \/ I!Query(p) \/ I!Parse(p) \/ I!Sweep(p) \/ I!Build(p) \/ I!Search(p)
                           \/ I!Answered(p) \/ I!Restart(p) \/ \E f \in I!Files : I!Stat(p, f)
  BY <1>1, IndexQuery, IndexParse, IndexSweep, IndexBuild, IndexSearch, IndexLeft, IndexStat
<1>2. CASE \E f \in I!Files : I!Edit(f)
  BY <1>2, IndexEdit
<1>3. CASE UNCHANGED indexVars
  <2>1. IndexTypes' /\ IndexesAgree'
    BY <1>3 DEF indexVars, IndexInv, IndexTypes, IndexesAgree, Agrees, Indexes, I!Files
  <2>2. \A p \in Procs : calm[p] => Progress(p)'
    BY <1>3, OthersProgress DEF indexVars, IndexInv
  <2>3. QED
    BY <1>3, <2>1, <2>2 DEF IndexInv, indexVars
<1>4. QED
  BY <1>1, <1>2, <1>3 DEF I!Next

\* AnswersAreCurrent (code_index.py, index_vector.py): whatever older index a process loaded and
\* whoever saved in between, a query during which no file changed is answered from the files as
\* they are.
THEOREM QueriesTellTheTruth == Spec => []AnswersAreCurrent
<1>1. IndexInv /\ [Next]_vars => IndexInv'
  BY IndexNext, PartsApart
<1>2. IndexInv => AnswersAreCurrent
  <2>1. \A p : Truth(p) = [f \in I!Files |-> IF f \in I!Handled(p) /\ src[f] # Nothing
                                           THEN src[f].text ELSE Nothing]
    BY DEF Truth, Wanted
  <2>2. QED
    BY <2>1 DEF AnswersAreCurrent, I!AnswersAreCurrent, IndexInv, Progress
<1>3. QED
  BY IndexInit, <1>1, <1>2, PTL DEF Spec

-------------------------------------------------------------------------------
(* Settings.                                                                  *)

Keys == {"provider", "anthropic", "openai", "approval"}
LayerTyped(f) == DOMAIN f = S!Layers /\ \A l \in S!Layers : DOMAIN f[l] = Keys
SavedTyped ==
    /\ saving.layer \in {1, 2} /\ saving.provider \in S!Providers /\ saving.choice \in Nat
    /\ sfile[saving.layer].provider = saving.provider
    /\ sfile[saving.layer][saving.provider] = saving.choice
SettingsInv ==
    /\ LayerTyped(sfile) /\ next \in Nat
    /\ pc \in [Requests -> {"idle", "close"}] /\ DOMAIN sheld = Requests
    /\ writer \in Requests \cup {None}
    /\ writer # None =>
         /\ SavedTyped
         /\ pc[writer] = "close" => sheld[writer] = S!Loaded(sfile)
         /\ writer = applied => cfg = S!Loaded(sfile)

LEMMA SettingsInit == Init => SettingsInv
<1> SUFFICES ASSUME Init PROVE SettingsInv
  OBVIOUS
<1>1. S!Init
  BY DEF Init
<1>2. sfile \in [S!Layers -> {S!Empty} \cup
                   {[S!Empty EXCEPT !.provider = p, ![p] = 0] : p \in S!Providers}]
  BY <1>1 DEF S!Init
<1>3. DOMAIN S!Empty = Keys
  BY DEF S!Empty, Keys
<1>4. \A f \in {S!Empty} \cup {[S!Empty EXCEPT !.provider = p, ![p] = 0] : p \in S!Providers} :
        DOMAIN f = Keys
  BY <1>3
<1>5. LayerTyped(sfile)
  BY <1>2, <1>4 DEF LayerTyped
<1>6. QED
  BY <1>1, <1>5 DEF S!Init, SettingsInv

\* The approval setting is no part of what is loaded.
LEMMA ApprovalLoadsNothing ==
  ASSUME NEW f, NEW g,
         \A l \in S!Layers : \A k \in {"provider", "anthropic", "openai"} : f[l][k] = g[l][k]
  PROVE  S!Loaded(f) = S!Loaded(g)
<1>1. ASSUME NEW k \in {"provider", "anthropic", "openai"} PROVE S!Merged(f, k) = S!Merged(g, k)
  <2>1. S!Giving(f, k) = S!Giving(g, k)
    BY DEF S!Giving
  <2>2. S!Giving(f, k) # {} => S!Max(S!Giving(f, k)) \in S!Layers
    <3>1. S!Giving(f, k) \subseteq S!Layers
      BY DEF S!Giving
    <3>2. ASSUME S!Giving(f, k) # {} PROVE S!Max(S!Giving(f, k)) \in S!Giving(f, k)
      <4>1. \E x \in S!Giving(f, k) : \A y \in S!Giving(f, k) : x >= y
        BY <3>1, <3>2 DEF S!Layers
      <4>2. QED
        BY <4>1 DEF S!Max
    <3>3. QED
      BY <3>1, <3>2
  <2>3. QED
    BY <2>1, <2>2 DEF S!Merged
<1>2. QED
  BY <1>1 DEF S!Loaded, S!Provider, S!Choice

LEMMA SettingsNext == SettingsInv /\ [S!Next]_settingVars => SettingsInv'
<1> SUFFICES ASSUME SettingsInv, [S!Next]_settingVars PROVE SettingsInv'
  OBVIOUS
<1>1. ASSUME NEW t \in Requests, NEW l \in S!Layers, NEW p \in S!Providers, S!Save(t, l, p)
      PROVE  SettingsInv'
  <2>1. /\ pc[t] = "idle" /\ l \in {1, 2}
        /\ sfile' = [sfile EXCEPT ![l] = S!Chosen(@, p, next)]
        /\ saving' = [layer |-> l, provider |-> p, choice |-> next] /\ next' = next + 1
        /\ applied' = None
        /\ \/ writer' = None /\ UNCHANGED <<pc, sheld>>
           \/ /\ writer' = t /\ pc' = [pc EXCEPT ![t] = "close"]
              /\ sheld' = [sheld EXCEPT ![t] = S!Loaded(sfile')]
    BY <1>1 DEF S!Save
  <2>2. LayerTyped(sfile) /\ next \in Nat /\ DOMAIN sfile[l] = Keys
    BY DEF SettingsInv, LayerTyped
  <2>3. /\ DOMAIN S!Chosen(sfile[l], p, next) = Keys
        /\ S!Chosen(sfile[l], p, next).provider = p /\ S!Chosen(sfile[l], p, next)[p] = next
    BY <2>2 DEF S!Chosen, Keys, S!Providers
  <2>4. LayerTyped(sfile') /\ sfile'[l] = S!Chosen(sfile[l], p, next)
    BY <2>1, <2>2, <2>3 DEF LayerTyped
  <2>5. SavedTyped'
    BY <2>1, <2>2, <2>3, <2>4 DEF SavedTyped
  <2>6. QED
    BY <2>1, <2>2, <2>4, <2>5 DEF SettingsInv
<1>2. ASSUME NEW t \in Requests, S!Reload(t) PROVE SettingsInv'
  BY <1>2 DEF S!Reload, SettingsInv, SavedTyped
<1>3. ASSUME NEW l \in S!Layers, NEW m, S!SaveApproval(l, m) PROVE SettingsInv'
  <2>1. /\ sfile' = [sfile EXCEPT ![l] = [@ EXCEPT !.approval = m]]
        /\ UNCHANGED <<cfg, running, pc, sheld, cli, next, saving, writer, applied>>
    BY <1>3 DEF S!SaveApproval, S!Approving
  <2>2. LayerTyped(sfile)
    BY DEF SettingsInv
  <2>3. LayerTyped(sfile')
    BY <2>1, <2>2 DEF LayerTyped
  <2>4. \A i \in S!Layers : \A k \in {"provider", "anthropic", "openai"} : sfile'[i][k] = sfile[i][k]
    BY <2>1, <2>2 DEF LayerTyped, Keys
  <2>5. S!Loaded(sfile') = S!Loaded(sfile)
    BY <2>4, ApprovalLoadsNothing
  <2>6. SavedTyped => SavedTyped'
    <3>1. SUFFICES ASSUME SavedTyped PROVE SavedTyped'
      OBVIOUS
    <3>2. /\ saving.layer \in S!Layers
          /\ saving.provider \in {"provider", "anthropic", "openai"}
          /\ "provider" \in {"provider", "anthropic", "openai"}
      BY <3>1 DEF SavedTyped, S!Layers, S!Providers
    <3>3. /\ sfile'[saving.layer][saving.provider] = sfile[saving.layer][saving.provider]
          /\ sfile'[saving.layer]["provider"] = sfile[saving.layer]["provider"]
      BY <2>4, <3>2
    <3>4. QED
      BY <2>1, <3>1, <3>3 DEF SavedTyped
  <2>7. QED
    BY <2>1, <2>3, <2>5, <2>6 DEF SettingsInv
<1>4. CASE S!Run \/ \E l \in S!Layers : S!ReadFile(l)
  BY <1>4 DEF S!Run, S!ReadFile, SettingsInv, SavedTyped
<1>5. DOMAIN S!Empty = Keys
  BY DEF S!Empty, Keys
<1>6. CASE S!WriteFile
  <2>1. PICK l, f : sfile' = [sfile EXCEPT ![l] = f] /\ DOMAIN f = Keys
    <3>1. sfile' = [sfile EXCEPT ![cli.layer] = S!Anew(cli.provider)]
      BY <1>6 DEF S!WriteFile
    <3>2. DOMAIN S!Anew(cli.provider) = Keys
      BY <1>5 DEF S!Anew
    <3>3. QED
      BY <3>1, <3>2
  <2>2. LayerTyped(sfile')
    BY <2>1 DEF SettingsInv, LayerTyped
  <2>3. QED
    BY <1>6, <2>2 DEF S!WriteFile, SettingsInv
<1>7. CASE S!Migrate
  <2>1. PICK f, g : sfile' = [sfile EXCEPT ![0] = f, ![1] = g] /\ DOMAIN f = Keys /\ DOMAIN g = Keys
    <3>1. DOMAIN sfile[0] = Keys
      BY DEF SettingsInv, LayerTyped, S!Layers
    <3> DEFINE p == S!Provider([k \in S!Layers |-> IF k = 0 THEN sfile[0] ELSE S!Empty])
               g == [S!Empty EXCEPT !.provider = p, ![p] = sfile[0][p]]
    <3>2. PICK f \in {S!Empty, sfile[0]} : sfile' = [sfile EXCEPT ![0] = f, ![1] = g]
      BY <1>7 DEF S!Migrate
    <3>3. DOMAIN g = Keys /\ DOMAIN f = Keys
      BY <1>5, <3>1
    <3> HIDE DEF g
    <3>4. QED
      BY <3>2, <3>3
  <2>2. LayerTyped(sfile')
    BY <2>1 DEF SettingsInv, LayerTyped
  <2>3. QED
    BY <1>7, <2>2 DEF S!Migrate, SettingsInv
<1>8. CASE UNCHANGED settingVars
  BY <1>8 DEF settingVars, SettingsInv, SavedTyped
<1>9. QED
  BY <1>1, <1>2, <1>3, <1>4, <1>6, <1>7, <1>8 DEF S!Next

\* A choice saved in the local file, the last of the layers, is the one that counts, if all
\* files speak of one family.
LEMMA LocalFileCounts ==
  ASSUME SettingsInv, SavedTyped, saving.layer = 2, S!OneFamily
  PROVE  S!Loaded(sfile).choice = saving.choice /\ S!Loaded(sfile).provider = saving.provider
<1>1. ASSUME NEW k, sfile[2][k] # None PROVE S!Merged(sfile, k) = sfile[2][k]
  <2>1. 2 \in S!Giving(sfile, k) /\ \A y \in S!Giving(sfile, k) : y \in {0, 1, 2}
    BY <1>1 DEF S!Giving, S!Layers
  <2>2. S!Max(S!Giving(sfile, k)) = 2
    BY <2>1 DEF S!Max
  <2>3. QED
    BY <2>1, <2>2 DEF S!Merged
<1>2. /\ sfile[2].provider = saving.provider /\ sfile[2].provider # None
      /\ sfile[2][saving.provider] = saving.choice /\ saving.choice # None
      /\ saving.provider \in {"anthropic", "openai"}
  BY NoneAssumption DEF NoneAssumption, SavedTyped, S!Providers
<1>3. S!Provider(sfile) = saving.provider
  BY <1>1, <1>2 DEF S!Provider
<1>4. S!Merged(sfile, saving.provider) = saving.choice
  BY <1>1, <1>2
<1>5. saving.provider = "openai" => S!Merged(sfile, "anthropic") = None
  <2>1. ASSUME saving.provider = "openai" PROVE \A l \in S!Layers : sfile[l]["anthropic"] = None
    BY <1>2, <2>1 DEF S!OneFamily, S!Providers, S!Layers
  <2>2. saving.provider = "openai" => S!Giving(sfile, "anthropic") = {}
    BY <2>1 DEF S!Giving
  <2>3. QED
    BY <2>2 DEF S!Merged
<1>6. S!Choice(sfile) = saving.choice
  BY <1>2, <1>4, <1>5 DEF S!Choice
<1>7. QED
  BY <1>3, <1>6 DEF S!Loaded

-------------------------------------------------------------------------------
(* Roles.                                                                     *)

\* What a change has written so far, if nobody came in between.
Written(p) ==
    /\ roleAt[p] \in {"prompt", "active"} /\ job[p].meta # None => meta[job[p].role] = job[p].meta
    /\ roleAt[p] = "active" /\ job[p].prompt # None => prompt[job[p].role] = job[p].prompt
Changing(p) ==
    /\ roleAt[p] \in {"meta", "prompt"} => job[p].meta # None
    /\ roleAt[p] # "idle" /\ job[p].meta # None => job[p].role \in Ids
RolesInv ==
    /\ DOMAIN meta = Ids /\ DOMAIN prompt = Ids /\ legacy \subseteq Ids /\ change \in Nat
    /\ roleAt \in [Procs -> {"idle", "meta", "prompt", "active"}] /\ DOMAIN job = Procs
    /\ \A p \in Procs : Changing(p)
    /\ \A p \in Procs \ clash : Written(p)
    /\ done # None =>
         /\ done.meta # None => meta[done.role] = done.meta /\ done.role \in Ids
         /\ done.prompt # None => prompt[done.role] = done.prompt
         /\ done.active => current = done.role

LEMMA RolesInit == Init => RolesInv
BY DEF Init, L!Init, RolesInv, Written, Changing

\* Whoever is looked up is a role.
LEMMA CatalogOfIds ==
  ASSUME RolesInv
  PROVE  L!Catalog \subseteq Ids /\ (\A name : L!Resolved(name) \in L!Catalog) /\ L!Current \in L!Catalog
BY RolesAssumption DEF RolesAssumption, RolesInv, L!Catalog, L!Resolved, L!Current, L!Folders

LEMMA RolesBegin ==
  ASSUME RolesInv, NEW p \in Procs, NEW where \in {"meta", "active"}, NEW j,
         where = "meta" => j.role \in Ids /\ j.meta # None,
         where = "active" => j.meta = None /\ j.prompt = None,
         L!Begin(p, where, j)
  PROVE  RolesInv'
<1>1. /\ roleAt' = [roleAt EXCEPT ![p] = where] /\ job' = [job EXCEPT ![p] = j]
      /\ UNCHANGED <<meta, prompt, current, legacy, chosen, clash, done>> /\ change' = change + 1
  BY DEF L!Begin, L!settings
<1>2. /\ roleAt'[p] = where /\ job'[p] = j /\ DOMAIN job' = Procs
      /\ roleAt' \in [Procs -> {"idle", "meta", "prompt", "active"}]
      /\ \A q \in Procs : q # p => roleAt'[q] = roleAt[q] /\ job'[q] = job[q]
  BY <1>1 DEF RolesInv
<1>3. \A q \in Procs \ clash : Written(q)'
  BY <1>1, <1>2 DEF RolesInv, Written
<1>4. \A q \in Procs : Changing(q)'
  BY <1>2 DEF RolesInv, Changing
<1>5. QED
  BY <1>1, <1>2, <1>3, <1>4 DEF RolesInv

LEMMA RolesStart ==
  ASSUME RolesInv, NEW p \in Procs,
         \/ \E r \in Ids : L!ToolDefines(p, r) \/ L!PageDefines(p, r)
         \/ \E name \in Ids \cup {Unknown} :
              \/ L!ToolUpdates(p, name) \/ L!PageUpdates(p, name)
              \/ L!ToolSwitches(p, name) \/ L!PageSwitches(p, name)
  PROVE  RolesInv'
<1>1. change \in Nat /\ change # None
  BY NoneAssumption DEF NoneAssumption, RolesInv
<1>2. ASSUME NEW r \in Ids, L!Define(p, r) PROVE RolesInv'
  <2>1. PICK a \in BOOLEAN :
          L!Begin(p, "meta", [role |-> r, meta |-> change, prompt |-> change, active |-> a])
    BY <1>2 DEF L!Define
  <2>2. QED
    BY <1>1, <2>1, RolesBegin
<1>3. ASSUME NEW r \in Ids, L!Update(p, r) PROVE RolesInv'
  <2>1. PICK a \in BOOLEAN, m \in {meta[r], change}, t \in {None, change} :
          L!Begin(p, "meta", [role |-> r, meta |-> m, prompt |-> t, active |-> a])
    BY <1>3 DEF L!Update
  <2>2. m # None
    BY <1>1, <1>3 DEF L!Update
  <2>3. QED
    BY <2>1, <2>2, RolesBegin
<1>4. ASSUME NEW r, L!Switch(p, r) PROVE RolesInv'
  <2> DEFINE j == [role |-> r, meta |-> None, prompt |-> None, active |-> TRUE]
  <2>1. L!Begin(p, "active", j) /\ j.meta = None /\ j.prompt = None
    BY <1>4 DEF L!Switch
  <2> HIDE DEF j
  <2>2. QED
    BY <2>1, RolesBegin
<1>5. CASE \E r \in Ids : L!ToolDefines(p, r) \/ L!PageDefines(p, r)
  BY <1>2, <1>5 DEF L!ToolDefines, L!PageDefines
<1>6. ASSUME NEW name, L!ToolUpdates(p, name) \/ L!PageUpdates(p, name) PROVE RolesInv'
  <2>1. L!Update(p, L!Resolved(name)) \/ (name \in L!Catalog /\ L!Update(p, name))
    BY <1>6 DEF L!ToolUpdates, L!PageUpdates
  <2>2. L!Resolved(name) \in Ids /\ (name \in L!Catalog => name \in Ids)
    BY CatalogOfIds
  <2>3. QED
    BY <1>3, <2>1, <2>2
<1>7. ASSUME NEW name, L!ToolSwitches(p, name) \/ L!PageSwitches(p, name) PROVE RolesInv'
  BY <1>4, <1>7 DEF L!ToolSwitches, L!PageSwitches
<1>8. QED
  BY <1>5, <1>6, <1>7

\* A change goes on, or ends, after it has written one of its files.
LEMMA RolesGo ==
  ASSUME RolesInv, NEW p \in Procs,
         L!WriteMeta(p) \/ L!WritePrompt(p) \/ L!WriteActive(p)
  PROVE  RolesInv'
<1> DEFINE j == job[p]
<1>1. PICK where \in {"prompt", "active", "idle"} :
        /\ L!Goes(p, where) /\ UNCHANGED <<legacy, chosen, change>>
        /\ \/ /\ roleAt[p] = "meta" /\ meta' = [meta EXCEPT ![j.role] = j.meta]
              /\ UNCHANGED <<prompt, current>>
              /\ (where = "idle" => ~j.active) /\ (where # "prompt" => j.prompt = None)
           \/ /\ roleAt[p] = "prompt" /\ prompt' = [prompt EXCEPT ![j.role] = j.prompt]
              /\ UNCHANGED <<meta, current>>
              /\ (where = "idle" => ~j.active) /\ where # "prompt"
           \/ /\ roleAt[p] = "active" /\ current' = j.role
              /\ UNCHANGED <<meta, prompt>> /\ where = "idle"
  BY DEF L!WriteMeta, L!WritePrompt, L!WriteActive, L!settings
<1>2. /\ roleAt' = [roleAt EXCEPT ![p] = where]
      /\ \/ /\ where = "idle" /\ job' = [job EXCEPT ![p] = None]
            /\ clash' = (clash \cup L!Meets(p)) \ {p}
            /\ done' = IF p \in clash THEN None ELSE job[p]
         \/ where # "idle" /\ clash' = clash \cup L!Meets(p) /\ done' = None /\ UNCHANGED job
  BY <1>1 DEF L!Goes, L!Ends
<1>3. /\ DOMAIN meta = Ids /\ DOMAIN prompt = Ids
      /\ Changing(p) /\ (p \notin clash => Written(p))
  BY DEF RolesInv
<1>4. /\ roleAt' \in [Procs -> {"idle", "meta", "prompt", "active"}] /\ roleAt'[p] = where
      /\ DOMAIN job' = Procs /\ (where # "idle" => job'[p] = j)
      /\ \A q \in Procs : q # p => roleAt'[q] = roleAt[q] /\ job'[q] = job[q]
  BY <1>2 DEF RolesInv
<1>5. \A q \in Procs \ clash' : q # p => roleAt[q] = "idle"
  BY <1>2 DEF L!Meets
<1>6. DOMAIN meta' = Ids /\ DOMAIN prompt' = Ids
  BY <1>1, <1>3
<1>7. p \notin clash =>
        /\ j.meta # None => meta'[j.role] = j.meta /\ j.role \in Ids
        /\ where # "prompt" /\ j.prompt # None => prompt'[j.role] = j.prompt
  BY <1>1, <1>3 DEF Written, Changing
<1>8. where = "idle" /\ j.active => current' = j.role
  BY <1>1
<1> HIDE DEF j
<1>9. \A q \in Procs : Changing(q)'
  <2>1. Changing(p)'
    BY <1>1, <1>3, <1>4 DEF Changing, j
  <2>2. \A q \in Procs : q # p => Changing(q)'
    BY <1>4 DEF RolesInv, Changing
  <2>3. QED
    BY <2>1, <2>2
<1>10. \A q \in Procs \ clash' : Written(q)'
  <2>1. ASSUME NEW q \in Procs \ clash' PROVE Written(q)'
    <3>1. CASE q # p
      BY <1>4, <1>5, <3>1 DEF Written
    <3>2. CASE q = p /\ where # "idle"
      <4>1. p \notin clash
        BY <1>2, <2>1, <3>2
      <4>2. QED
        BY <1>4, <1>7, <3>2, <4>1 DEF Written
    <3>3. CASE q = p /\ where = "idle"
      BY <1>4, <3>3 DEF Written
    <3>4. QED
      BY <3>1, <3>2, <3>3
  <2>2. QED
    BY <2>1
<1>11. done' # None =>
         /\ done'.meta # None => meta'[done'.role] = done'.meta /\ done'.role \in Ids
         /\ done'.prompt # None => prompt'[done'.role] = done'.prompt
         /\ done'.active => current' = done'.role
  BY <1>2, <1>7, <1>8 DEF j
<1>12. QED
  BY <1>1, <1>4, <1>6, <1>9, <1>10, <1>11 DEF RolesInv

LEMMA RolesStop ==
  ASSUME RolesInv, (\E p \in Procs : L!Die(p)) \/ (\E r \in Ids : L!Removed(r))
  PROVE  RolesInv'
<1>1. ASSUME NEW p \in Procs, L!Die(p) PROVE RolesInv'
  <2>1. /\ roleAt' = [roleAt EXCEPT ![p] = "idle"] /\ job' = [job EXCEPT ![p] = None]
        /\ clash' = clash \ {p} /\ done' = None
        /\ UNCHANGED <<meta, prompt, current, legacy, chosen, change>>
    BY <1>1 DEF L!Die, L!settings
  <2>2. /\ roleAt' \in [Procs -> {"idle", "meta", "prompt", "active"}] /\ roleAt'[p] = "idle"
        /\ DOMAIN job' = Procs
        /\ \A q \in Procs : q # p => roleAt'[q] = roleAt[q] /\ job'[q] = job[q]
    BY <2>1 DEF RolesInv
  <2>3. \A q \in Procs \ clash' : Written(q)'
    BY <2>1, <2>2 DEF RolesInv, Written
  <2>4. \A q \in Procs : Changing(q)'
    BY <2>2 DEF RolesInv, Changing
  <2>5. QED
    BY <2>1, <2>2, <2>3, <2>4 DEF RolesInv
<1>2. ASSUME NEW r \in Ids, L!Removed(r) PROVE RolesInv'
  <2>1. /\ meta' = [meta EXCEPT ![r] = None] /\ prompt' = [prompt EXCEPT ![r] = None]
        /\ clash' = {q \in Procs : roleAt[q] # "idle"} /\ done' = None
        /\ UNCHANGED <<current, legacy, chosen, roleAt, job, change>>
    BY <1>2 DEF L!Removed, L!settings
  <2>2. \A q \in Procs \ clash' : Written(q)'
    BY <2>1 DEF Written
  <2>3. \A q \in Procs : Changing(q)'
    BY <2>1 DEF RolesInv, Changing
  <2>4. QED
    BY <2>1, <2>2, <2>3 DEF RolesInv
<1>3. QED
  BY <1>1, <1>2

LEMMA RolesNext == RolesInv /\ [L!Next]_roleVars => RolesInv'
<1> SUFFICES ASSUME RolesInv, [L!Next]_roleVars PROVE RolesInv'
  OBVIOUS
<1>1. CASE L!Next
  BY <1>1, RolesStart, RolesGo, RolesStop DEF L!Next
<1>2. CASE UNCHANGED roleVars
  <2>1. \A q \in Procs \ clash' : Written(q)'
    BY <1>2 DEF roleVars, RolesInv, Written
  <2>2. \A q \in Procs : Changing(q)'
    BY <1>2 DEF roleVars, RolesInv, Changing
  <2>3. QED
    BY <1>2, <2>1, <2>2 DEF roleVars, RolesInv
<1>3. QED
  BY <1>1, <1>2

\* SavedIsUsed (config.py, web/model_settings.py; roles/, tools/roles.py): the web session uses
\* what the files say when it took the save that wrote last, and a choice in the local file is the
\* one it uses; a run has a role there is, and one that was written or switched to, with nobody in
\* between, is used as it was written.
THEOREM WhatIsSavedIsUsed == Spec => []SavedIsUsed
<1>1. SettingsInv /\ RolesInv /\ [Next]_vars => SettingsInv' /\ RolesInv'
  BY SettingsNext, RolesNext, PartsApart
<1>2. SettingsInv => S!SavedIsUsed
  BY LocalFileCounts DEF SettingsInv, S!SavedIsUsed
<1>3. RolesInv => L!RoleIsUsed
  <2>1. SUFFICES ASSUME RolesInv PROVE L!RoleIsUsed
    OBVIOUS
  <2>2. done # None /\ done.meta # None /\ done.role \notin legacy => L!Origin(done.role) = "folder"
    BY <2>1 DEF RolesInv, L!Origin, L!Folders
  <2>3. done # None /\ done.active /\ done.role \in L!Catalog => L!Current = done.role
    BY <2>1 DEF RolesInv, L!Current
  <2>4. QED
    BY <2>1, <2>2, <2>3, CatalogOfIds DEF RolesInv, L!RoleIsUsed
<1>4. SettingsInv /\ RolesInv => SavedIsUsed
  BY <1>2, <1>3 DEF SavedIsUsed
<1>5. QED
  BY SettingsInit, RolesInit, <1>1, <1>4, PTL DEF Spec

-------------------------------------------------------------------------------
(* Checkpoints.                                                               *)

\* The entries that say what a file was at a step, the earliest first.
Touches(e, q) == IF e.blob = NoBlob THEN q \in C!Under(e.path) ELSE q = e.path
Since(s, q) == {e \in C!From(s) : Touches(e, q)}
Earliest(e, s, q) == e \in Since(s, q) /\ \A f \in Since(s, q) : e.no <= f.no
Tells(e, d, q) == IF e.blob = NoBlob THEN ~C!IsFile(d, q) ELSE d[q] = e.blob

\* The steps an undo can still give back.
Good(s) == s \in 1..step /\ s <= low /\ s >= cut /\ \A l \in loose : l < s

EntryTyped(e) ==
    /\ e.no \in Nat /\ e.step \in Nat /\ e.step >= cut /\ e.step <= step /\ e.path \in C!Paths
    /\ e.blob = NoBlob \/ (e.blob \in Contents /\ e.blob \in blobs)
UndoTypes ==
    /\ disk \in C!Trees
    /\ step \in Nat \ {0} /\ low \in Nat /\ cut \in 0..step /\ loose \subseteq Nat
    /\ DOMAIN before = 1..step /\ Len(before) = step
    /\ NoBlob \notin blobs /\ IsFiniteSet(manifest) /\ \A e \in manifest : EntryTyped(e)
    /\ cphase \in {"running", "ended", "reverting", "reverted", "raised"}
    /\ cphase = "running" => \A e \in manifest : e.no <= Cardinality(manifest)
    /\ cphase \in {"reverting", "reverted"} => target \in 1..step /\ target >= low
    /\ cphase = "reverting" => todo \subseteq C!From(target)
    /\ cphase = "reverted" => todo = {}

\* A file without an entry since a step is as it was before the step, and the earliest entry
\* of any other tells what that was.
StepKept(s) ==
    \A q \in C!Paths :
      /\ Since(s, q) = {} => C!SameFile(disk, before[s], q)
      /\ \A e \in manifest : Earliest(e, s, q) => Tells(e, before[s], q)

\* An undo goes through the entries from the latest on, and a file it has no entry of before
\* it any more is as it was.
UndoUnderWay ==
    /\ \A e \in C!From(target), x \in todo : e.no < x.no => e \in todo
    /\ Good(target) => \A q \in C!Paths :
         Since(target, q) \cap todo = {} => C!SameFile(disk, before[target], q)

UndoInv ==
    /\ UndoTypes
    /\ \A s \in 1..step : Good(s) => StepKept(s)
    /\ cphase \in {"reverting", "reverted"} => UndoUnderWay

LEMMA UndoInit == Init => UndoInv
<1> SUFFICES ASSUME Init PROVE UndoInv
  OBVIOUS
<1>1. C!Init
  BY DEF Init
<1>2. UndoTypes
  BY <1>1, TreeAssumption, FS_EmptySet DEF C!Init, UndoTypes, TreeAssumption
<1>3. \A s, q : Since(s, q) = {}
  BY <1>1 DEF C!Init, Since, C!From
<1>4. \A q \in C!Paths : C!SameFile(disk, before[1], q)
  BY <1>1 DEF C!Init, C!SameFile
<1>5. \A s \in 1..step : s = 1
  BY <1>1 DEF C!Init
<1>6. \A s \in 1..step : StepKept(s)
  BY <1>3, <1>4, <1>5 DEF StepKept, Earliest
<1>7. QED
  BY <1>1, <1>2, <1>6 DEF C!Init, UndoInv

LEMMA NextStepOfRun ==
  ASSUME UndoInv, C!NextStep
  PROVE  UndoInv'
<1>1. /\ cphase = "running" /\ step' = step + 1 /\ before' = Append(before, disk)
      /\ UNCHANGED <<disk, manifest, blobs, loose, cphase, target, todo, low, cut>>
  BY DEF C!NextStep, C!store, C!undo
<1>2. UndoTypes
  BY DEF UndoInv
<1>3. /\ step' \in Nat \ {0} /\ step < step' /\ DOMAIN before' = 1..step' /\ Len(before') = step'
      /\ before'[step'] = disk /\ \A s \in 1..step : before'[s] = before[s]
  BY <1>1, <1>2 DEF UndoTypes
<1>4. UndoTypes'
  <2>1. \A e \in manifest : EntryTyped(e)'
    BY <1>1, <1>2 DEF UndoTypes, EntryTyped, C!Paths
  <2>2. QED
    BY <1>1, <1>2, <1>3, <2>1 DEF UndoTypes, C!Trees, C!Paths, C!From
<1>5. \A s, q : Since(s, q)' = Since(s, q)
  BY <1>1 DEF Since, Touches, C!From, C!Under, C!Paths
<1>6. ASSUME NEW s \in 1..step', Good(s)' PROVE StepKept(s)'
  <2>1. CASE s \in 1..step
    <3>1. Good(s)
      BY <1>1, <1>6, <2>1 DEF Good
    <3>2. StepKept(s)
      BY <2>1, <3>1 DEF UndoInv
    <3>3. QED
      BY <1>1, <1>3, <1>5, <2>1, <3>2
      DEF StepKept, Earliest, Tells, C!Paths, C!SameFile, C!IsFile
  <2>2. CASE s = step'
    <3>1. \A q : Since(s, q) = {}
      BY <1>1, <1>2, <2>2 DEF Since, C!From, UndoTypes, EntryTyped
    <3>2. QED
      BY <1>1, <1>3, <1>5, <2>2, <3>1 DEF StepKept, Earliest, C!SameFile
  <2>3. QED
    BY <1>1, <1>2, <1>6, <2>1, <2>2 DEF UndoTypes
<1>7. QED
  BY <1>1, <1>4, <1>6 DEF UndoInv

\* A file is there only in a directory.
LEMMA FilesInDir ==
  ASSUME NEW d \in C!Trees
  PROVE  /\ \A q \in C!Paths : C!IsFile(d, q) => d[q] # Absent /\ d[q] # Dir
         /\ \A q \in Inner : C!IsFile(d, q) => d[Top] = Dir
         /\ DOMAIN d = C!Paths
BY TreeAssumption DEF C!Trees, C!Paths, C!IsFile, TreeAssumption

\* Writing and deleting give a tree, and change no other file.
LEMMA WrittenTree ==
  ASSUME NEW d \in C!Trees, NEW p \in C!Paths, NEW c \in Contents, C!CanWrite(d, p)
  PROVE  /\ C!Written(d, p, c) \in C!Trees /\ C!Written(d, p, c)[p] = c
         /\ \A q \in C!Paths : q # p => C!SameFile(C!Written(d, p, c), d, q)
<1> DEFINE e == C!Written(d, p, c)
<1>1. d \in [C!Paths -> Contents \cup {Absent, Dir}] /\ Top \in C!Paths
  BY DEF C!Trees, C!Paths
<1>2. CASE p = Top
  <2>1. e \in [C!Paths -> Contents \cup {Absent, Dir}] /\ e[p] = c /\ \A q \in Inner : e[q] = d[q]
    BY <1>1, <1>2, TreeAssumption DEF C!Written, TreeAssumption, C!Paths
  <2>2. \A q \in Inner : d[q] = Absent
    BY <1>2 DEF C!CanWrite, C!Trees
  <2>3. QED
    BY <1>2, <2>1, <2>2, TreeAssumption DEF C!Trees, C!Paths, C!SameFile, TreeAssumption, C!IsFile
<1>3. CASE p \in Inner
  <2>1. /\ e \in [C!Paths -> Contents \cup {Absent, Dir}] /\ e[p] = c /\ e[Top] = Dir
        /\ \A q \in Inner : q # p => e[q] = d[q]
    BY <1>1, <1>3, TreeAssumption DEF C!Written, TreeAssumption, C!Paths
  <2>2. ~C!IsFile(d, Top) /\ ~C!IsFile(e, Top)
    BY <1>3, <2>1, TreeAssumption DEF C!CanWrite, C!IsFile, TreeAssumption
  <2>3. c # Dir
    BY TreeAssumption DEF TreeAssumption
  <2>4. e \in C!Trees
    BY <1>3, <2>1, <2>3 DEF C!Trees
  <2>5. \A q \in C!Paths : q # p => C!SameFile(e, d, q)
    BY <2>1, <2>2 DEF C!Paths, C!SameFile, C!IsFile
  <2>6. QED
    BY <2>1, <2>4, <2>5
<1>4. QED
  BY <1>2, <1>3 DEF C!Paths

LEMMA DeletedTree ==
  ASSUME NEW d \in C!Trees, NEW p \in C!Paths
  PROVE  /\ C!Deleted(d, p) \in C!Trees
         /\ \A q \in C!Paths : IF q \in C!Under(p) THEN ~C!IsFile(C!Deleted(d, p), q)
                               ELSE C!SameFile(C!Deleted(d, p), d, q)
<1> DEFINE e == C!Deleted(d, p)
<1>1. \A q \in C!Paths : e[q] = IF q \in C!Under(p) THEN Absent ELSE d[q]
  BY DEF C!Deleted
<1>2. d \in [C!Paths -> Contents \cup {Absent, Dir}] /\ e \in [C!Paths -> Contents \cup {Absent, Dir}]
  BY DEF C!Trees, C!Deleted
<1> HIDE DEF e
<1>3. e \in C!Trees
  BY <1>1, <1>2, TreeAssumption DEF C!Trees, C!Paths, C!Under, TreeAssumption
<1>4. \A q \in C!Paths : IF q \in C!Under(p) THEN ~C!IsFile(e, q) ELSE C!SameFile(e, d, q)
  BY <1>1, TreeAssumption DEF C!IsFile, C!SameFile, TreeAssumption
<1>5. QED
  BY <1>3, <1>4 DEF e

\* What a snapshot writes down is what is there.
LEMMA EntriesTell ==
  ASSUME UndoInv, NEW p \in C!Paths
  PROVE  /\ IsFiniteSet(C!Entries(p)) /\ C!Entries(p) # {}
         /\ \A e \in C!Entries(p) :
              /\ e.no = Cardinality(manifest) + 1 /\ e.step = step /\ e.path \in C!Paths
              /\ e.blob = NoBlob \/ e.blob \in Contents
              /\ \A q \in C!Paths : Touches(e, q) => Tells(e, disk, q)
         /\ p \in C!Under(p)
         /\ \A q \in C!Under(p) : C!IsFile(disk, q) \/ C!Targets(p) = {} =>
              \E e \in C!Entries(p) : Touches(e, q)
<1>1. C!Cardinality(manifest) = Cardinality(manifest)
  BY DEF C!Cardinality, Cardinality
<1>2. NoBlob \notin Contents /\ p \in C!Under(p) /\ C!Under(p) \subseteq C!Paths
  BY TreeAssumption DEF TreeAssumption, C!Under, C!Paths
<1>3. \A q, b : /\ C!Entry(q, b).no = Cardinality(manifest) + 1 /\ C!Entry(q, b).step = step
                /\ C!Entry(q, b).path = q /\ C!Entry(q, b).blob = b
  BY <1>1 DEF C!Entry
<1>4. CASE C!Targets(p) = {}
  <2>1. C!Entries(p) = {C!Entry(p, NoBlob)}
    BY <1>4 DEF C!Entries
  <2>2. \A q \in C!Under(p) : ~C!IsFile(disk, q)
    BY <1>4 DEF C!Targets
  <2>3. IsFiniteSet(C!Entries(p))
    BY <2>1, FS_Singleton
  <2>4. QED
    BY <1>2, <1>3, <2>1, <2>2, <2>3 DEF Touches, Tells
<1>5. CASE C!Targets(p) # {}
  <2>1. C!Entries(p) = {C!Entry(q, disk[q]) : q \in C!Targets(p)}
    BY <1>5 DEF C!Entries
  <2>2. \A q \in C!Targets(p) : q \in C!Paths /\ disk[q] \in Contents
    BY <1>2 DEF C!Targets, C!IsFile
  <2>3. IsFiniteSet(C!Entries(p))
    <3>1. IsFiniteSet(C!Paths)
      <4>1. IsFiniteSet(Inner \cup {Top})
        BY TreeAssumption, FS_AddElement DEF TreeAssumption
      <4>2. C!Paths = Inner \cup {Top}
        BY DEF C!Paths
      <4>3. QED
        BY <4>1, <4>2
    <3>2. IsFiniteSet(C!Targets(p))
      BY <2>2, <3>1, FS_Subset
    <3> DEFINE f == [q \in C!Targets(p) |-> C!Entry(q, disk[q])]
    <3>3. f \in Surjection(C!Targets(p), C!Entries(p))
      BY <2>1 DEF Surjection
    <3>4. QED
      BY <3>2, <3>3, FS_Surjection
  <2>4. \A e \in C!Entries(p) : \A q \in C!Paths : Touches(e, q) => Tells(e, disk, q)
    BY <1>2, <1>3, <2>1, <2>2 DEF Touches, Tells
  <2>5. \A e \in C!Entries(p) :
          /\ e.no = Cardinality(manifest) + 1 /\ e.step = step /\ e.path \in C!Paths
          /\ e.blob \in Contents
    BY <1>3, <2>1, <2>2
  <2>6. ASSUME NEW q \in C!Under(p), C!IsFile(disk, q) PROVE \E e \in C!Entries(p) : Touches(e, q)
    <3>1. q \in C!Targets(p)
      BY <2>6 DEF C!Targets
    <3>2. C!Entry(q, disk[q]) \in C!Entries(p) /\ Touches(C!Entry(q, disk[q]), q)
      BY <1>2, <1>3, <2>1, <2>2, <3>1 DEF Touches
    <3>3. QED
      BY <3>2
  <2>7. C!Entries(p) # {}
    BY <1>5, <2>1
  <2>8. QED
    BY <1>2, <1>5, <2>3, <2>4, <2>5, <2>6, <2>7
<1>6. QED
  BY <1>4, <1>5

\* After a snapshot, whole or in part, the earliest entries tell what they told.
LEMMA SnapshotKeeps ==
  ASSUME UndoInv, cphase = "running", NEW p \in C!Paths, NEW es \in SUBSET C!Entries(p),
         C!Record(es), UNCHANGED <<step, before, loose, low, cut>>,
         \A q \in C!Paths : (\A e \in es : ~Touches(e, q)) => C!SameFile(disk', disk, q)
  PROVE  /\ NoBlob \notin blobs' /\ IsFiniteSet(manifest') /\ \A e \in manifest' : EntryTyped(e)'
         /\ es # {} => \A e \in manifest' : e.no <= Cardinality(manifest')
         /\ \A s \in 1..step : Good(s)' => StepKept(s)'
<1>1. /\ manifest' = manifest \cup es
      /\ blobs' = (blobs \cup {e.blob : e \in es}) \ {NoBlob}
  BY DEF C!Record
<1>2. UndoTypes /\ NoBlob \notin Contents
  BY TreeAssumption DEF UndoInv, TreeAssumption
<1>3. /\ IsFiniteSet(es)
      /\ \A e \in es :
           /\ e.no = Cardinality(manifest) + 1 /\ e.step = step /\ e.path \in C!Paths
           /\ e.blob = NoBlob \/ e.blob \in Contents
           /\ \A q \in C!Paths : Touches(e, q) => Tells(e, disk, q)
  BY EntriesTell, FS_Subset
<1>4. /\ IsFiniteSet(manifest') /\ Cardinality(manifest) \in Nat /\ Cardinality(manifest') \in Nat
      /\ \A e \in manifest : e.no <= Cardinality(manifest)
      /\ Cardinality(manifest) <= Cardinality(manifest')
      /\ es # {} => Cardinality(manifest) + 1 <= Cardinality(manifest')
  <2>1. IsFiniteSet(manifest') /\ Cardinality(manifest) \in Nat /\ Cardinality(manifest') \in Nat
    BY <1>1, <1>2, <1>3, FS_Union, FS_CardinalityType DEF UndoTypes
  <2>2. \A e \in manifest : e.no <= Cardinality(manifest) /\ e.no \in Nat
    BY <1>2 DEF UndoTypes, EntryTyped
  <2>3. /\ Cardinality(manifest) <= Cardinality(manifest')
        /\ Cardinality(manifest) = Cardinality(manifest') => manifest = manifest'
    BY <1>1, <2>1, FS_Subset
  <2>4. es # {} => manifest # manifest'
    BY <1>1, <1>3, <2>1, <2>2
  <2>5. QED
    BY <2>1, <2>2, <2>3, <2>4
<1>5. \A e \in manifest' : EntryTyped(e)'
  <2>1. \A e \in manifest : EntryTyped(e)'
    BY <1>1, <1>2 DEF UndoTypes, EntryTyped, C!Paths
  <2>2. \A e \in es : EntryTyped(e)'
    BY <1>1, <1>2, <1>3, <1>4 DEF UndoTypes, EntryTyped, C!Paths
  <2>3. QED
    BY <1>1, <2>1, <2>2
<1>6. es # {} => \A e \in manifest' : e.no <= Cardinality(manifest')
  <2>1. \A e \in manifest : e.no \in Nat
    BY <1>2 DEF UndoTypes, EntryTyped
  <2>2. QED
    BY <1>1, <1>3, <1>4, <2>1
<1>7. ASSUME NEW s \in 1..step, Good(s)' PROVE StepKept(s)'
  <2>1. StepKept(s)
    BY <1>7 DEF Good, UndoInv
  <2>2. \A q : Since(s, q)' = Since(s, q) \cup {e \in es : Touches(e, q)}
    BY <1>1, <1>2, <1>3, <1>7 DEF Since, Touches, C!From, C!Under, C!Paths, UndoTypes
  <2>3. ASSUME NEW q \in C!Paths, Since(s, q)' = {} PROVE C!SameFile(disk', before[s], q)
    <3>1. Since(s, q) = {} /\ \A e \in es : ~Touches(e, q)
      BY <2>2, <2>3
    <3>2. QED
      BY <2>1, <3>1 DEF StepKept, C!SameFile, C!IsFile
  <2>4. ASSUME NEW q \in C!Paths, NEW e \in manifest', e \in Since(s, q)',
               \A f \in Since(s, q)' : e.no <= f.no
        PROVE  Tells(e, before[s], q)
    <3>1. CASE e \in Since(s, q)
      BY <2>1, <2>2, <2>4, <3>1 DEF StepKept, Earliest, Since, C!From
    <3>2. CASE e \notin Since(s, q)
      <4>1. e \in es /\ Touches(e, q)
        BY <2>2, <2>4, <3>2
      <4>2. Since(s, q) = {}
        <5>1. \A f \in Since(s, q) : f.no \in Nat /\ f.no <= Cardinality(manifest)
          BY <1>2, <1>4 DEF Since, C!From, UndoTypes, EntryTyped
        <5>2. QED
          BY <1>3, <1>4, <2>2, <2>4, <4>1, <5>1
      <4>3. C!SameFile(disk, before[s], q)
        BY <2>1, <4>2 DEF StepKept
      <4>4. QED
        BY <1>3, <4>1, <4>3 DEF Tells, C!SameFile, C!IsFile
    <3>3. QED
      BY <3>1, <3>2
  <2>5. \A q \in C!Paths : Since(s, q)' = {} => C!SameFile(disk', before'[s], q)
    BY <2>3
  <2>6. \A q \in C!Paths : \A e \in manifest' : Earliest(e, s, q)' => Tells(e, before'[s], q)
    BY <2>4 DEF Earliest
  <2>7. QED
    BY <2>5, <2>6 DEF StepKept, C!Paths, C!SameFile, C!IsFile, Tells
<1>8. QED
  BY <1>1, <1>4, <1>5, <1>6, <1>7

LEMMA ToolOfRun ==
  ASSUME UndoInv, NEW p \in C!Paths,
         C!DeletePath(p) \/ \E c \in Contents : C!WriteFile(p, c)
  PROVE  UndoInv'
<1>1. /\ cphase = "running" /\ C!Record(C!Entries(p))
      /\ UNCHANGED <<step, before, loose, cphase, target, todo, low, cut>>
  BY DEF C!DeletePath, C!WriteFile, C!Tool, C!runVars, C!undo
<1>2. \/ disk' = C!Deleted(disk, p)
      \/ \E c \in Contents : C!CanWrite(disk, p) /\ disk' = C!Written(disk, p, c)
      \/ disk' = disk
  BY DEF C!DeletePath, C!WriteFile, C!Tool
<1>3. UndoTypes /\ disk \in C!Trees
  BY DEF UndoInv, UndoTypes
<1>4. disk' \in C!Trees
  BY <1>2, <1>3, DeletedTree, WrittenTree
<1>5. ASSUME NEW q \in C!Paths, \A e \in C!Entries(p) : ~Touches(e, q)
      PROVE  C!SameFile(disk', disk, q)
  <2>1. CASE disk' = disk
    BY <2>1 DEF C!SameFile
  <2>2. CASE disk' = C!Deleted(disk, p)
    <3>1. CASE q \in C!Under(p)
      <4>1. ~C!IsFile(disk, q)
        BY <1>5, <3>1, EntriesTell
      <4>2. ~C!IsFile(disk', q)
        BY <1>3, <2>2, <3>1, DeletedTree
      <4>3. QED
        BY <4>1, <4>2 DEF C!SameFile
    <3>2. CASE q \notin C!Under(p)
      BY <1>3, <2>2, <3>2, DeletedTree
    <3>3. QED
      BY <3>1, <3>2
  <2>3. ASSUME NEW c \in Contents, C!CanWrite(disk, p), disk' = C!Written(disk, p, c)
        PROVE  C!SameFile(disk', disk, q)
    <3>1. C!IsFile(disk, p) \/ C!Targets(p) = {}
      <4>1. SUFFICES ASSUME ~C!IsFile(disk, p), NEW f \in C!Targets(p) PROVE FALSE
        OBVIOUS
      <4>2. f \in Inner /\ p = Top /\ C!IsFile(disk, f)
        BY <4>1 DEF C!Targets, C!Under, C!Paths
      <4>3. disk[p] = Dir
        BY <1>3, <4>2, FilesInDir
      <4>4. QED
        BY <2>3, <4>3 DEF C!CanWrite
    <3>2. q # p
      <4>1. \E e \in C!Entries(p) : Touches(e, p)
        BY <3>1, EntriesTell
      <4>2. QED
        BY <1>5, <4>1
    <3>3. QED
      BY <1>3, <2>3, <3>2, WrittenTree
  <2>4. QED
    BY <1>2, <2>1, <2>2, <2>3
<1>6. /\ NoBlob \notin blobs' /\ IsFiniteSet(manifest') /\ \A e \in manifest' : EntryTyped(e)'
      /\ \A e \in manifest' : e.no <= Cardinality(manifest')
      /\ \A s \in 1..step : Good(s)' => StepKept(s)'
  BY <1>1, <1>4, <1>5, SnapshotKeeps, EntriesTell
<1>7. UndoTypes'
  BY <1>1, <1>3, <1>4, <1>6 DEF UndoTypes, C!Trees, C!Paths
<1>8. QED
  BY <1>1, <1>6, <1>7 DEF UndoInv

LEMMA SnapshotCutShort ==
  ASSUME UndoInv, NEW p \in C!Paths, C!DieInSnapshot(p)
  PROVE  UndoInv'
<1>1. PICK es \in SUBSET C!Entries(p) : C!Record(es)
  BY DEF C!DieInSnapshot
<1>2. /\ cphase = "running" /\ cphase' = "ended"
      /\ UNCHANGED <<disk, step, before, loose, target, todo, low, cut>>
  BY DEF C!DieInSnapshot, C!runVars, C!undo
<1>3. UndoTypes
  BY DEF UndoInv
<1>4. disk' \in C!Trees /\ \A q \in C!Paths : C!SameFile(disk', disk, q)
  BY <1>2, <1>3 DEF C!SameFile, UndoTypes
<1>5. /\ NoBlob \notin blobs' /\ IsFiniteSet(manifest') /\ \A e \in manifest' : EntryTyped(e)'
      /\ \A s \in 1..step : Good(s)' => StepKept(s)'
  BY <1>1, <1>2, <1>4, SnapshotKeeps
<1>6. UndoTypes'
  BY <1>2, <1>3, <1>4, <1>5 DEF UndoTypes, C!Trees, C!Paths
<1>7. QED
  BY <1>2, <1>5, <1>6 DEF UndoInv

\* What happens past the checkpoints makes the steps up to now bad; the end of a run nothing.
LEMMA PastCheckpoints ==
  ASSUME UndoInv, C!Unrecorded \/ C!RunEnds
  PROVE  UndoInv'
<1>1. UndoTypes
  BY DEF UndoInv
<1>2. CASE C!Unrecorded
  <2>1. /\ cphase # "reverting" /\ disk' \in C!Trees /\ loose' = loose \cup {step}
        /\ UNCHANGED <<manifest, blobs, step, before, cphase, target, todo, low, cut>>
    BY <1>2 DEF C!Unrecorded, C!store, C!undo
  <2>2. UndoTypes'
    BY <1>1, <2>1 DEF UndoTypes, EntryTyped, C!Trees, C!Paths, C!From
  <2>3. \A s \in 1..step : ~Good(s)'
    BY <1>1, <2>1 DEF Good, UndoTypes
  <2>4. cphase' \in {"reverting", "reverted"} => UndoUnderWay'
    <3>1. SUFFICES ASSUME cphase = "reverted" PROVE UndoUnderWay'
      BY <2>1
    <3>2. todo = {} /\ target \in 1..step
      BY <1>1, <3>1 DEF UndoTypes
    <3>3. QED
      BY <2>1, <2>3, <3>2 DEF UndoUnderWay
  <2>5. QED
    BY <2>1, <2>2, <2>3, <2>4 DEF UndoInv
<1>3. CASE C!RunEnds
  <2>1. /\ cphase' = "ended"
        /\ UNCHANGED <<disk, manifest, blobs, step, before, loose, target, todo, low, cut>>
    BY <1>3 DEF C!RunEnds, C!store, C!runVars, C!undo
  <2>2. UndoTypes'
    BY <1>1, <2>1 DEF UndoTypes, EntryTyped, C!Trees, C!Paths
  <2>3. \A s \in 1..step : Good(s)' => StepKept(s)'
    BY <2>1 DEF UndoInv, Good, StepKept, Earliest, Since, Touches, Tells, C!From, C!Under, C!Paths,
                C!SameFile, C!IsFile
  <2>4. QED
    BY <2>1, <2>2, <2>3 DEF UndoInv
<1>4. QED
  BY <1>2, <1>3

LEMMA UndoBegins ==
  ASSUME UndoInv, NEW s \in 1..step, C!BeginUndo(s)
  PROVE  UndoInv'
<1>1. /\ cphase' = "reverting" /\ target' = s /\ todo' = C!From(s)
      /\ low' = (IF s < low THEN s ELSE low)
      /\ UNCHANGED <<disk, manifest, blobs, step, before, loose, cut>>
  BY DEF C!BeginUndo, C!store, C!runVars
<1>2. UndoTypes
  BY DEF UndoInv
<1>3. low' \in Nat /\ low' <= low /\ s >= low'
  BY <1>1, <1>2 DEF UndoTypes
<1>4. UndoTypes'
  BY <1>1, <1>2, <1>3 DEF UndoTypes, EntryTyped, C!Trees, C!Paths, C!From
<1>5. \A i, q : Since(i, q)' = Since(i, q)
  BY <1>1 DEF Since, Touches, C!From, C!Under, C!Paths
<1>6. ASSUME NEW i \in 1..step, Good(i)' PROVE StepKept(i)'
  <2>1. Good(i)
    BY <1>1, <1>2, <1>3, <1>6 DEF Good, UndoTypes
  <2>2. StepKept(i)
    BY <2>1 DEF UndoInv
  <2>3. QED
    BY <1>1, <1>5, <2>2 DEF StepKept, Earliest, Tells, C!Paths, C!SameFile, C!IsFile
<1>7. UndoUnderWay'
  <2>1. \A e \in C!From(target)', x \in todo' : e.no < x.no => e \in todo'
    BY <1>1 DEF C!From
  <2>2. ASSUME Good(target)', NEW q \in C!Paths, Since(s, q) \cap todo' = {}
        PROVE  C!SameFile(disk, before[s], q)
    <3>1. Since(s, q) = {}
      BY <1>1, <2>2 DEF Since
    <3>2. Good(s)
      BY <1>1, <1>2, <1>3, <2>2 DEF Good, UndoTypes
    <3>3. StepKept(s)
      BY <3>2 DEF UndoInv
    <3>4. QED
      BY <3>1, <3>3 DEF StepKept
  <2>3. Good(target)' => \A q \in C!Paths :
          Since(target, q)' \cap todo' = {} => C!SameFile(disk', before'[target'], q)
    BY <1>1, <1>5, <2>2 DEF Since, C!From, Touches, C!Under, C!Paths
  <2>4. QED
    BY <2>1, <2>3 DEF UndoUnderWay, C!Paths, C!SameFile, C!IsFile
<1>8. QED
  BY <1>1, <1>4, <1>6, <1>7 DEF UndoInv

\* Replaying an entry gives a tree with what the entry tells, and changes no other file.
LEMMA EntryRestores ==
  ASSUME UndoInv, NEW e \in manifest, C!Restored(e)
  PROVE  /\ disk' \in C!Trees
         /\ \A q \in C!Paths : IF Touches(e, q) THEN Tells(e, disk', q)
                                                ELSE C!SameFile(disk', disk, q)
<1>1. EntryTyped(e) /\ disk \in C!Trees /\ NoBlob \notin Contents
  BY TreeAssumption DEF UndoInv, UndoTypes, TreeAssumption
<1>2. CASE e.blob = NoBlob
  <2>1. disk' = C!Deleted(disk, e.path)
    BY <1>2 DEF C!Restored, UndoInv, UndoTypes
  <2>2. QED
    BY <1>1, <1>2, <2>1, DeletedTree DEF Touches, Tells, EntryTyped
<1>3. CASE e.blob # NoBlob
  <2>1. /\ C!CanWrite(disk, e.path) /\ disk' = C!Written(disk, e.path, e.blob)
        /\ e.blob \in Contents /\ e.path \in C!Paths
    BY <1>1, <1>3 DEF C!Restored, EntryTyped
  <2>2. QED
    BY <1>1, <1>3, <2>1, WrittenTree DEF Touches, Tells
<1>4. QED
  BY <1>2, <1>3

\* One entry of an undo.
LEMMA UndoGoesOn ==
  ASSUME UndoInv, cphase = "reverting", NEW x \in C!Latest(todo), C!Restored(x),
         todo' = todo \ {x},
         UNCHANGED <<manifest, blobs, step, before, loose, target, low, cut, cphase>>
  PROVE  UndoInv'
<1>1. UndoTypes /\ UndoUnderWay /\ x \in todo /\ x \in manifest /\ x.step >= target
  BY DEF UndoInv, UndoTypes, C!Latest, C!From
<1>2. /\ disk' \in C!Trees
      /\ \A q \in C!Paths : IF Touches(x, q) THEN Tells(x, disk', q) ELSE C!SameFile(disk', disk, q)
  BY <1>1, EntryRestores
<1>3. UndoTypes'
  BY <1>1, <1>2 DEF UndoTypes, EntryTyped, C!Trees, C!Paths, C!From
<1>4. \A s, q : Since(s, q)' = Since(s, q)
  BY DEF Since, Touches, C!From, C!Under, C!Paths
<1>5. ASSUME NEW s \in 1..step, Good(s)' PROVE StepKept(s)'
  <2>1. Good(s) /\ StepKept(s)
    BY <1>5 DEF Good, UndoInv
  <2>2. x.step >= s
    BY <1>1, <2>1 DEF Good, UndoTypes, EntryTyped
  <2>3. \A q \in C!Paths : Since(s, q) = {} => C!SameFile(disk', disk, q)
    BY <1>1, <1>2, <2>2 DEF Since, C!From
  <2>4. \A q \in C!Paths : Since(s, q) = {} => C!SameFile(disk', before[s], q)
    BY <2>1, <2>3 DEF StepKept, C!SameFile, C!IsFile
  <2>5. QED
    BY <1>4, <2>1, <2>4 DEF StepKept, Earliest, Tells, C!Paths, C!SameFile, C!IsFile
<1>6. \A e \in C!From(target), y \in todo' : e.no < y.no => e \in todo'
  <2>1. SUFFICES ASSUME NEW e \in C!From(target), NEW y \in todo', e.no < y.no PROVE e \in todo'
    OBVIOUS
  <2>2. y.no <= x.no /\ y.no \in Nat /\ x.no \in Nat /\ e.no \in Nat
    BY <1>1, <2>1 DEF C!Latest, C!From, UndoTypes, EntryTyped
  <2>3. e \in todo /\ e # x
    BY <1>1, <2>1, <2>2 DEF UndoUnderWay
  <2>4. QED
    BY <2>3
<1>7. ASSUME Good(target), NEW q \in C!Paths, Since(target, q) \cap todo' = {}
      PROVE  C!SameFile(disk', before[target], q)
  <2>1. StepKept(target)
    BY <1>1, <1>7 DEF UndoInv, UndoTypes
  <2>2. CASE Touches(x, q)
    <3>1. Earliest(x, target, q)
      <4>1. x \in Since(target, q)
        BY <1>1, <2>2 DEF Since, C!From
      <4>2. ASSUME NEW f \in Since(target, q), f.no < x.no PROVE FALSE
        <5>1. f \in todo /\ f # x
          BY <1>1, <4>2 DEF UndoUnderWay, Since, UndoTypes, C!From, EntryTyped
        <5>2. QED
          BY <1>7, <5>1
      <4>3. \A f \in Since(target, q) : f.no \in Nat /\ x.no \in Nat
        BY <1>1 DEF Since, UndoTypes, C!From, EntryTyped
      <4>4. QED
        BY <4>1, <4>2, <4>3 DEF Earliest
    <3>2. Tells(x, before[target], q) /\ Tells(x, disk', q)
      BY <1>1, <1>2, <2>1, <2>2, <3>1 DEF StepKept
    <3>3. QED
      BY <3>2 DEF Tells, C!SameFile
  <2>3. CASE ~Touches(x, q)
    <3>1. Since(target, q) \cap todo = {}
      BY <1>7, <2>3 DEF Since
    <3>2. C!SameFile(disk, before[target], q) /\ C!SameFile(disk', disk, q)
      BY <1>1, <1>2, <1>7, <2>3, <3>1 DEF UndoUnderWay
    <3>3. QED
      BY <3>2 DEF C!SameFile, C!IsFile
  <2>4. QED
    BY <2>2, <2>3
<1>8. UndoUnderWay'
  <2>1. Good(target)' <=> Good(target)
    BY DEF Good
  <2>2. Good(target) => \A q \in C!Paths :
          Since(target, q)' \cap todo' = {} => C!SameFile(disk', before'[target'], q)
    BY <1>4, <1>7 DEF Since, C!From, Touches, C!Under, C!Paths
  <2>3. QED
    BY <1>6, <2>1, <2>2 DEF UndoUnderWay, C!Paths, C!SameFile, C!IsFile, C!From
<1>9. QED
  BY <1>3, <1>5, <1>8 DEF UndoInv

\* An undo that stops, or is at its end.
LEMMA UndoStops ==
  ASSUME UndoInv, cphase = "reverting",
         cphase' \in {"ended", "raised"} \/ (cphase' = "reverted" /\ todo = {}), todo' = {},
         UNCHANGED <<disk, manifest, blobs, step, before, loose, target, low, cut>>
  PROVE  UndoInv'
<1>1. UndoTypes /\ UndoUnderWay
  BY DEF UndoInv
<1>2. UndoTypes'
  BY <1>1 DEF UndoTypes, EntryTyped, C!Trees, C!Paths
<1>3. \A s, q : Since(s, q)' = Since(s, q)
  BY DEF Since, Touches, C!From, C!Under, C!Paths
<1>4. \A s \in 1..step : Good(s)' => StepKept(s)'
  BY <1>3 DEF UndoInv, Good, StepKept, Earliest, Tells, C!Paths, C!SameFile, C!IsFile
<1>5. cphase' = "reverted" => UndoUnderWay'
  <2>1. Good(target)' <=> Good(target)
    BY DEF Good
  <2>2. ASSUME todo = {} PROVE Good(target) => \A q \in C!Paths :
          Since(target, q)' \cap todo' = {} => C!SameFile(disk', before'[target'], q)
    BY <1>1, <2>2 DEF UndoUnderWay, C!SameFile, C!IsFile
  <2>3. QED
    BY <2>1, <2>2 DEF UndoUnderWay, C!Paths, C!SameFile, C!IsFile
<1>6. QED
  BY <1>2, <1>4, <1>5 DEF UndoInv

LEMMA UndoCollects ==
  ASSUME UndoInv, C!Gc
  PROVE  UndoInv'
<1>1. PICK cutoff \in {e.step : e \in manifest} :
        /\ manifest' = C!From(cutoff)
        /\ blobs' = blobs \cap C!Live(C!From(cutoff), manifest \ C!From(cutoff))
        /\ cut' = cutoff
  BY DEF C!Gc
<1>2. cphase = "ended" /\ UNCHANGED <<disk, step, before, loose, cphase, target, todo, low>>
  BY DEF C!Gc, C!runVars, C!undo
<1>3. UndoTypes
  BY DEF UndoInv
<1>4. cutoff \in 0..step /\ cutoff >= cut
  BY <1>1, <1>3 DEF UndoTypes, EntryTyped
<1>5. UndoTypes'
  <2>1. \A e \in manifest' : EntryTyped(e)'
    BY <1>1, <1>2, <1>3, <1>4 DEF UndoTypes, EntryTyped, C!From, C!Live, C!Paths
  <2>2. IsFiniteSet(manifest')
    BY <1>1, <1>3, FS_Subset DEF UndoTypes, C!From
  <2>3. NoBlob \notin blobs'
    BY <1>1, <1>3 DEF UndoTypes
  <2>4. QED
    BY <1>1, <1>2, <1>3, <1>4, <2>1, <2>2, <2>3 DEF UndoTypes, C!Trees, C!Paths
<1>6. ASSUME NEW s \in 1..step, Good(s)' PROVE StepKept(s)'
  <2>1. s >= cutoff /\ Good(s)
    BY <1>1, <1>2, <1>3, <1>4, <1>6 DEF Good, UndoTypes
  <2>2. \A q : Since(s, q)' = Since(s, q)
    BY <1>1, <1>3, <1>4, <2>1 DEF Since, Touches, C!From, C!Under, C!Paths, UndoTypes, EntryTyped
  <2>3. StepKept(s) /\ manifest' \subseteq manifest
    BY <1>1, <2>1 DEF UndoInv, C!From
  <2>4. QED
    BY <1>2, <2>2, <2>3 DEF StepKept, Earliest, Tells, C!Paths, C!SameFile, C!IsFile
<1>7. QED
  BY <1>2, <1>5, <1>6 DEF UndoInv

LEMMA UndoNext == UndoInv /\ [C!Next]_checkpointVars => UndoInv'
<1> SUFFICES ASSUME UndoInv, [C!Next]_checkpointVars PROVE UndoInv'
  OBVIOUS
<1>1. CASE C!NextStep
  BY <1>1, NextStepOfRun
<1>2. CASE C!Unrecorded \/ C!RunEnds
  BY <1>2, PastCheckpoints
<1>3. CASE \E p \in C!Paths : C!DeletePath(p) \/ C!DieInSnapshot(p) \/ \E c \in Contents : C!WriteFile(p, c)
  BY <1>3, ToolOfRun, SnapshotCutShort
<1>4. CASE C!UndoByCommand \/ C!UndoOnPage
  BY <1>4, UndoBegins DEF C!UndoByCommand, C!UndoOnPage
<1>5. CASE C!UndoEntry
  <2>1. /\ cphase = "reverting" /\ UNCHANGED <<manifest, blobs, step, before, loose, target, low, cut>>
        /\ \/ \E x \in C!Latest(todo) : C!Restored(x) /\ todo' = todo \ {x} /\ UNCHANGED cphase
           \/ cphase' = "raised" /\ todo' = {} /\ UNCHANGED disk
    BY <1>5 DEF C!UndoEntry, C!store, C!runVars
  <2>2. QED
    BY <2>1, UndoGoesOn, UndoStops
<1>6. CASE C!UndoEnds \/ C!DieInUndo
  BY <1>6, UndoStops DEF C!UndoEnds, C!DieInUndo, C!store, C!runVars, C!undo
<1>7. CASE C!Gc
  BY <1>7, UndoCollects
<1>8. CASE UNCHANGED checkpointVars
  <2>1. UNCHANGED <<disk, manifest, blobs, step, before, loose, target, todo, low, cut, cphase>>
    BY <1>8 DEF checkpointVars
  <2>2. UndoTypes'
    BY <2>1 DEF UndoInv, UndoTypes, EntryTyped, C!Trees, C!Paths, C!From
  <2>3. \A s \in 1..step : Good(s)' => StepKept(s)'
    BY <2>1 DEF UndoInv, Good, StepKept, Earliest, Since, Touches, Tells, C!From, C!Under, C!Paths,
                C!SameFile, C!IsFile
  <2>4. cphase \in {"reverting", "reverted"} => UndoUnderWay'
    BY <2>1 DEF UndoInv, UndoUnderWay, Good, Since, Touches, C!From, C!Under, C!Paths, C!SameFile,
                C!IsFile
  <2>5. QED
    BY <2>1, <2>2, <2>3, <2>4 DEF UndoInv
<1>9. QED
  BY <1>1, <1>2, <1>3, <1>4, <1>5, <1>6, <1>7, <1>8 DEF C!Next

\* checkpoint.py: an undo that came to its end, with nothing written past the checkpoints, gave
\* back the files as they were before the step.
LEMMA UndoGivesBack == UndoInv => C!UndoRestores
<1> SUFFICES ASSUME UndoInv, cphase = "reverted", target = low, target >= cut,
                    \A s \in loose : s < target
             PROVE  C!SameFiles(disk, before[target])
  BY DEF C!UndoRestores
<1>1. UndoTypes /\ UndoUnderWay /\ todo = {} /\ target \in 1..step
  BY DEF UndoInv, UndoTypes
<1>2. Good(target)
  BY <1>1 DEF Good, UndoTypes
<1>3. QED
  BY <1>1, <1>2 DEF UndoUnderWay, C!SameFiles

-------------------------------------------------------------------------------
(* PromptOverlay.                                                             *)

LEMMA LeastOne ==
  ASSUME NEW ts \in SUBSET Nat, ts # {}
  PROVE  \E x \in ts : \A y \in ts : x <= y
<1>1. PICK x \in ts : \A y \in ts : ~(<<y, x>> \in OpToRel(<, Nat))
  BY NatLessThanWellFounded, WFMin
<1>2. OpToRel(<, Nat) = {p \in Nat \X Nat : p[1] < p[2]}
  BY DEF OpToRel
<1>3. ASSUME NEW y \in ts PROVE x <= y
  <2>1. <<y, x>>[1] = y /\ <<y, x>>[2] = x /\ <<y, x>> \in Nat \X Nat
    OBVIOUS
  <2>2. ~(y < x)
    BY <1>1, <1>2, <2>1
  <2>3. QED
    BY <2>2
<1>4. QED
  BY <1>3

\* The latest of some seconds.
LEMMA LatestOne ==
  ASSUME NEW ts \in SUBSET O!Times, ts # {}
  PROVE  O!Max(ts) \in ts /\ \A y \in ts : O!Max(ts) >= y
<1> DEFINE T == {i \in Nat : \E x \in ts : x + i = MaxTime}
<1>1. MaxTime \in Nat
  BY TreeAssumption DEF TreeAssumption
<1>2. \A x \in ts : x \in Nat /\ x <= MaxTime /\ MaxTime - x \in T
  BY <1>1 DEF O!Times
<1>3. PICK i \in T : \A j \in T : i <= j
  <2>1. T # {}
    BY <1>2
  <2>2. QED
    BY <2>1, LeastOne
<1>4. PICK x \in ts : x + i = MaxTime
  OBVIOUS
<1>5. \A y \in ts : x >= y
  <2>1. ASSUME NEW y \in ts PROVE x >= y
    <3>1. MaxTime - y \in T /\ i <= MaxTime - y /\ i \in Nat /\ x \in Nat /\ y \in Nat
      BY <1>2, <1>3
    <3>2. QED
      BY <1>1, <1>4, <3>1
  <2>2. QED
    BY <2>1
<1>6. QED
  BY <1>5 DEF O!Max

OverlayTypes ==
    /\ clock \in O!Times /\ proposed \in Nat
    /\ draft \in [O!Times -> Nat \cup {None}] /\ replaced \in [O!Times -> Nat \cup {None}]
    /\ overlay \in Nat \cup {None} /\ due \subseteq Nat /\ was \in Seq(Nat \cup {None})
    /\ opc \in {"idle", "activate", "clean", "unlink"}
    /\ opc \in {"activate", "clean"} => id \in O!Times /\ otext \in Nat /\ draft[id] = otext
    /\ opc = "unlink" => id \in O!Times
    /\ \A t \in O!Times : replaced[t] # None => t <= clock

\* No text that is due is lost, also in the middle of a command.
DueIsThere ==
    /\ ~collided => \A c \in due : c = overlay \/ \E t \in O!Times : draft[t] = c \/ replaced[t] = c
    /\ opc = "activate" /\ overlay # None => \E t \in O!Times : replaced[t] = overlay
    /\ opc = "clean" => overlay = otext
    /\ opc = "unlink" => replaced[id] = overlay

\* The history holds these, the latest last.
Holds(b, files) ==
    \E f \in [2..Len(b) -> O!Times] :
      /\ \A i, j \in 2..Len(b) : i < j => f[i] < f[j]
      /\ O!Written(files) = {f[i] : i \in 2..Len(b)}
      /\ \A i \in 2..Len(b) : files[f[i]] = b[i]
Backed(b, files) == b # << >> /\ b[1] = None /\ Holds(b, files)
Restorable ==
    /\ opc = "idle" => IF was = << >> THEN overlay = None /\ O!Written(replaced) = {}
                       ELSE overlay # None /\ Backed(was, replaced)
    /\ opc = "activate" => Backed(Append(was, overlay), replaced)
    /\ opc = "clean" => overlay # None /\ Backed(was, replaced)
    /\ opc = "unlink" => /\ overlay # None /\ was # << >> /\ Backed(Append(was, overlay), replaced)
                         /\ \A t \in O!Written(replaced) : t <= id
OverlayInv == OverlayTypes /\ DueIsThere /\ (ocalm /\ ~collided => Restorable)

LEMMA OverlayInit == Init => OverlayInv
<1> SUFFICES ASSUME Init PROVE OverlayInv
  OBVIOUS
<1>1. O!Init
  BY DEF Init
<1>2. 1 \in O!Times
  BY TreeAssumption DEF TreeAssumption, O!Times
<1>3. OverlayTypes
  BY <1>1, <1>2 DEF O!Init, OverlayTypes, O!NoFiles, O!Times
<1>4. O!Written(replaced) = {}
  BY <1>1 DEF O!Init, O!Written, O!NoFiles
<1>5. QED
  BY <1>1, <1>3, <1>4 DEF O!Init, OverlayInv, DueIsThere, Restorable

LEMMA OverlayProposes ==
  ASSUME OverlayInv, O!Propose
  PROVE  OverlayInv'
<1>1. /\ opc = "idle" /\ proposed' = proposed + 1 /\ draft' = [draft EXCEPT ![clock] = proposed + 1]
      /\ due' = due \cup {proposed + 1} /\ (collided' <=> collided \/ draft[clock] # None)
      /\ UNCHANGED <<clock, overlay, replaced, opc, id, otext, was, ocalm>>
  BY DEF O!Propose
<1>2. OverlayTypes /\ DueIsThere
  BY DEF OverlayInv
<1>3. OverlayTypes'
  BY <1>1, <1>2 DEF OverlayTypes, O!Times
<1>4. DueIsThere'
  <2>1. ASSUME ~collided', NEW c \in due'
        PROVE  c = overlay \/ \E t \in O!Times : draft'[t] = c \/ replaced[t] = c
    <3>1. CASE c = proposed + 1
      BY <1>1, <1>2, <3>1 DEF OverlayTypes
    <3>2. CASE c # proposed + 1
      <4>1. c \in due /\ c # None
        BY <1>1, <1>2, <2>1, <3>2, NoneAssumption DEF OverlayTypes, NoneAssumption
      <4>2. c = overlay \/ \E t \in O!Times : draft[t] = c \/ replaced[t] = c
        BY <1>1, <1>2, <2>1, <4>1 DEF DueIsThere
      <4>3. QED
        BY <1>1, <1>2, <2>1, <4>1, <4>2 DEF OverlayTypes
    <3>3. QED
      BY <3>1, <3>2
  <2>2. QED
    BY <1>1, <2>1 DEF DueIsThere, O!Times
<1>5. ocalm' /\ ~collided' => Restorable'
  BY <1>1 DEF OverlayInv, Restorable, Backed, Holds, O!Written, O!Times
<1>6. QED
  BY <1>3, <1>4, <1>5 DEF OverlayInv

\* What is put into the history now is the latest in it.
LEMMA HoldsMore ==
  ASSUME NEW r \in [O!Times -> Nat \cup {None}], NEW b \in Seq(Nat \cup {None}), b # << >>,
         Holds(b, r), NEW k \in O!Times, r[k] = None, \A t \in O!Written(r) : t <= k,
         NEW v \in Nat
  PROVE  Holds(Append(b, v), [r EXCEPT ![k] = v])
<1> DEFINE n == Len(b) + 1
           c == Append(b, v)
           s == [r EXCEPT ![k] = v]
<1>1. n \in Nat /\ n >= 2 /\ Len(c) = n /\ c[n] = v /\ \A i \in 2..Len(b) : c[i] = b[i]
  OBVIOUS
<1>2. PICK f \in [2..Len(b) -> O!Times] :
        /\ \A i, j \in 2..Len(b) : i < j => f[i] < f[j]
        /\ O!Written(r) = {f[i] : i \in 2..Len(b)}
        /\ \A i \in 2..Len(b) : r[f[i]] = b[i]
  BY DEF Holds
<1> DEFINE g == [i \in 2..n |-> IF i = n THEN k ELSE f[i]]
<1>3. s[k] = v /\ v # None /\ \A t \in O!Times : t # k => s[t] = r[t]
  BY NoneAssumption DEF NoneAssumption
<1>4. \A i \in 2..Len(b) : f[i] \in O!Times /\ f[i] # k /\ f[i] < k
  <2>1. \A i \in 2..Len(b) : f[i] \in O!Written(r) /\ f[i] \in O!Times
    BY <1>2
  <2>2. \A t \in O!Written(r) : t <= k /\ t # k
    BY DEF O!Written
  <2>3. QED
    BY <2>1, <2>2 DEF O!Times
<1>5. /\ g \in [2..n -> O!Times] /\ g[n] = k
      /\ \A i \in 2..n : i # n => i \in 2..Len(b) /\ g[i] = f[i]
  BY <1>1
<1>6. Len(b) \in Nat /\ n = Len(b) + 1
  OBVIOUS
<1>7. n \in 2..n /\ \A i \in 2..Len(b) : i \in 2..n /\ i # n
  BY <1>1, <1>6
<1> HIDE DEF g, c, s, n
<1>8. \A i, j \in 2..n : i < j => g[i] < g[j]
  <2>1. SUFFICES ASSUME NEW i \in 2..n, NEW j \in 2..n, i < j PROVE g[i] < g[j]
    OBVIOUS
  <2>2. i # n
    BY <1>1, <2>1
  <2>3. QED
    BY <1>2, <1>4, <1>5, <2>1, <2>2
<1>9. \A t : t \in O!Written(s) <=> t \in O!Written(r) \/ t = k
  BY <1>3 DEF O!Written
<1>10. O!Written(s) = {g[i] : i \in 2..n}
  <2>1. ASSUME NEW t \in O!Written(s) PROVE \E i \in 2..n : t = g[i]
    <3>1. CASE t = k
      BY <1>5, <1>7, <3>1
    <3>2. CASE t # k
      <4>1. PICK i \in 2..Len(b) : t = f[i]
        BY <1>2, <1>9, <2>1, <3>2
      <4>2. QED
        BY <1>5, <1>7, <4>1
    <3>3. QED
      BY <3>1, <3>2
  <2>2. ASSUME NEW i \in 2..n PROVE g[i] \in O!Written(s)
    <3>1. CASE i = n
      BY <1>5, <1>9, <3>1
    <3>2. CASE i # n
      BY <1>2, <1>5, <1>9, <3>2
    <3>3. QED
      BY <3>1, <3>2
  <2>3. QED
    BY <2>1, <2>2
<1>11. \A i \in 2..n : s[g[i]] = c[i]
  <2>1. ASSUME NEW i \in 2..n, i # n PROVE s[g[i]] = c[i]
    <3>1. i \in 2..Len(b) /\ g[i] = f[i]
      BY <1>5, <2>1
    <3>2. QED
      BY <1>1, <1>2, <1>3, <1>4, <3>1
  <2>2. s[g[n]] = c[n]
    BY <1>1, <1>3, <1>5
  <2>3. QED
    BY <2>1, <2>2
<1>12. Holds(c, s)
  BY <1>1, <1>5, <1>8, <1>10, <1>11 DEF Holds
<1>13. QED
  BY <1>12 DEF c, s

\* The latest in the history is the last of what it holds, and leaves the others.
LEMMA HoldsLess ==
  ASSUME NEW r \in [O!Times -> Nat \cup {None}], NEW b \in Seq(Nat \cup {None}), b # << >>,
         NEW v \in Nat \cup {None}, Holds(Append(b, v), r), NEW k \in O!Written(r), \A t \in O!Written(r) : t <= k
  PROVE  r[k] = v /\ Holds(b, [r EXCEPT ![k] = None])
<1> DEFINE n == Len(b) + 1
           c == Append(b, v)
           s == [r EXCEPT ![k] = None]
<1>1. n \in Nat /\ n >= 2 /\ Len(c) = n /\ c[n] = v /\ \A i \in 2..Len(b) : c[i] = b[i]
  OBVIOUS
<1>2. PICK f \in [2..n -> O!Times] :
        /\ \A i, j \in 2..n : i < j => f[i] < f[j]
        /\ O!Written(r) = {f[i] : i \in 2..n}
        /\ \A i \in 2..n : r[f[i]] = c[i]
  BY <1>1 DEF Holds
<1>3. Len(b) \in Nat /\ n \in 2..n /\ \A i : i \in 2..n <=> i \in 2..Len(b) \/ i = n
  BY <1>1
<1>4. \A i \in 2..Len(b) : i < n
  BY <1>3
<1> HIDE DEF c, n
<1>5. f[n] = k
  <2>1. PICK j \in 2..n : f[j] = k
    BY <1>2
  <2>2. j = n \/ j < n
    BY <1>3, <1>4
  <2>3. f[n] \in O!Times /\ f[j] \in O!Times /\ f[n] \in O!Written(r)
    BY <1>2, <1>3
  <2>4. ~(f[j] < f[n])
    BY <2>1, <2>3 DEF O!Times
  <2>5. QED
    BY <1>2, <1>3, <2>1, <2>2, <2>4
<1>6. \A i \in 2..Len(b) : i \in 2..n /\ f[i] \in O!Times /\ f[i] # k
  BY <1>2, <1>3, <1>4, <1>5 DEF O!Times
<1>7. k \in O!Times /\ s[k] = None /\ \A t \in O!Times : t # k => s[t] = r[t]
  BY DEF O!Written
<1> HIDE DEF s
<1>8. \A t : t \in O!Written(s) <=> t \in O!Written(r) /\ t # k
  BY <1>7 DEF O!Written
<1> DEFINE g == [i \in 2..Len(b) |-> f[i]]
<1>9. g \in [2..Len(b) -> O!Times] /\ \A i \in 2..Len(b) : g[i] = f[i]
  BY <1>6
<1> HIDE DEF g
<1>10. O!Written(s) = {g[i] : i \in 2..Len(b)}
  <2>1. ASSUME NEW t \in O!Written(s) PROVE \E i \in 2..Len(b) : t = g[i]
    <3>1. PICK i \in 2..n : t = f[i] /\ t # k
      BY <1>2, <1>8, <2>1
    <3>2. i \in 2..Len(b)
      BY <1>3, <1>5, <3>1
    <3>3. QED
      BY <1>9, <3>1, <3>2
  <2>2. ASSUME NEW i \in 2..Len(b) PROVE g[i] \in O!Written(s)
    BY <1>2, <1>6, <1>8, <1>9, <2>2
  <2>3. QED
    BY <2>1, <2>2
<1>11. \A i, j \in 2..Len(b) : i < j => g[i] < g[j]
  BY <1>2, <1>3, <1>9
<1>12. \A i \in 2..Len(b) : s[g[i]] = b[i]
  BY <1>1, <1>2, <1>6, <1>7, <1>9
<1>13. Holds(b, s)
  BY <1>9, <1>10, <1>11, <1>12 DEF Holds
<1>14. r[k] = v
  BY <1>1, <1>2, <1>3, <1>5
<1>15. QED
  BY <1>13, <1>14 DEF s

LEMMA OverlayApplies ==
  ASSUME OverlayInv, NEW t \in O!Times, O!Apply(t)
  PROVE  OverlayInv'
<1>1. /\ opc = "idle" /\ draft[t] # None /\ replaced' = O!Kept
      /\ (collided' <=> collided \/ (overlay # None /\ replaced[clock] # None))
      /\ opc' = "activate" /\ id' = t /\ otext' = draft[t]
      /\ UNCHANGED <<clock, proposed, draft, overlay, due, was, ocalm>>
  BY DEF O!Apply
<1>2. OverlayTypes /\ DueIsThere
  BY DEF OverlayInv
<1>3. /\ clock \in O!Times /\ DOMAIN replaced = O!Times
      /\ replaced \in [O!Times -> Nat \cup {None}] /\ overlay \in Nat \cup {None}
      /\ \A s \in O!Times : replaced[s] # None => s <= clock
  BY <1>2 DEF OverlayTypes
<1>4. /\ overlay = None => replaced' = replaced
      /\ overlay # None => replaced' = [replaced EXCEPT ![clock] = overlay]
  BY <1>1 DEF O!Kept
<1>5. OverlayTypes'
  <2>1. replaced' \in [O!Times -> Nat \cup {None}]
    BY <1>3, <1>4
  <2>2. \A s \in O!Times : replaced'[s] # None => s <= clock
    <3>1. ASSUME NEW s \in O!Times, replaced'[s] # None PROVE s = clock \/ replaced[s] # None
      BY <1>3, <1>4, <3>1
    <3>2. clock <= clock
      BY <1>3 DEF O!Times
    <3>3. QED
      BY <1>3, <3>1, <3>2
  <2>3. QED
    BY <1>1, <1>2, <2>1, <2>2 DEF OverlayTypes, O!Times
<1>6. DueIsThere'
  <2>1. overlay # None => \E s \in O!Times : replaced'[s] = overlay
    BY <1>3, <1>4
  <2>2. ASSUME ~collided', NEW c \in due
        PROVE  c = overlay \/ \E s \in O!Times : draft[s] = c \/ replaced'[s] = c
    <3>1. ~collided /\ c # None
      BY <1>1, <1>2, <2>2, NoneAssumption DEF OverlayTypes, NoneAssumption
    <3>2. c = overlay \/ \E s \in O!Times : draft[s] = c \/ replaced[s] = c
      BY <1>2, <3>1 DEF DueIsThere
    <3>3. \A s \in O!Times : replaced[s] = c => replaced'[s] = c
      BY <1>1, <1>3, <1>4, <2>2, <3>1
    <3>4. QED
      BY <3>2, <3>3
  <2>3. QED
    BY <1>1, <2>1, <2>2 DEF DueIsThere, O!Times
<1>7. ASSUME ocalm, ~collided' PROVE Backed(Append(was, overlay), replaced')
  <2>1. /\ ~collided /\ IF was = << >> THEN overlay = None /\ O!Written(replaced) = {}
                        ELSE overlay # None /\ Backed(was, replaced)
    BY <1>1, <1>7 DEF OverlayInv, Restorable
  <2>2. CASE was = << >>
    <3>1. overlay = None /\ O!Written(replaced) = {} /\ replaced' = replaced
      BY <1>4, <2>1, <2>2
    <3>2. Append(was, overlay) = <<None>>
      BY <2>2, <3>1
    <3>3. Len(<<None>>) = 1 /\ <<None>>[1] = None /\ <<None>> # << >>
      OBVIOUS
    <3>4. 2..1 = {}
      OBVIOUS
    <3>5. Holds(<<None>>, replaced)
      <4> DEFINE f == [i \in 2..1 |-> clock]
      <4>1. f \in [2..1 -> O!Times]
        BY <3>4
      <4>2. {f[i] : i \in 2..1} = {}
        BY <3>4
      <4> HIDE DEF f
      <4>3. QED
        BY <3>1, <3>3, <3>4, <4>1, <4>2 DEF Holds
    <3>6. QED
      BY <3>1, <3>2, <3>3, <3>5 DEF Backed
  <2>3. CASE was # << >>
    <3>1. overlay # None /\ was # << >> /\ was[1] = None /\ Holds(was, replaced)
      BY <2>1, <2>3 DEF Backed
    <3>2. replaced' = [replaced EXCEPT ![clock] = overlay] /\ replaced[clock] = None
      BY <1>1, <1>4, <1>7, <3>1
    <3>3. was \in Seq(Nat \cup {None}) /\ overlay \in Nat
      BY <1>2, <3>1 DEF OverlayTypes
    <3>4. \A s \in O!Written(replaced) : s <= clock
      BY <1>3 DEF O!Written
    <3>5. Holds(Append(was, overlay), [replaced EXCEPT ![clock] = overlay])
      BY <1>3, <3>1, <3>2, <3>3, <3>4, HoldsMore
    <3>6. Append(was, overlay) # << >> /\ Append(was, overlay)[1] = None
      BY <3>1, <3>3
    <3>7. QED
      BY <3>2, <3>5, <3>6 DEF Backed
  <2>4. QED
    BY <2>2, <2>3
<1>8. ocalm' /\ ~collided' => Restorable'
  <2>1. ocalm /\ ~collided' => Backed(Append(was', overlay'), replaced')
    BY <1>1, <1>7
  <2>2. ocalm /\ ~collided' => Backed(Append(was, overlay), replaced)'
    BY <2>1 DEF Backed, Holds, O!Written, O!Times
  <2>3. QED
    BY <1>1, <2>2 DEF Restorable
<1>9. QED
  BY <1>5, <1>6, <1>8 DEF OverlayInv

LEMMA OverlayActivates ==
  ASSUME OverlayInv, O!Activate \/ O!Clean
  PROVE  OverlayInv'
<1>1. OverlayTypes /\ DueIsThere
  BY DEF OverlayInv
<1>2. CASE O!Activate
  <2>1. /\ opc = "activate" /\ opc' = "clean" /\ overlay' = otext /\ was' = Append(was, overlay)
        /\ UNCHANGED <<clock, proposed, draft, replaced, id, otext, due, ocalm, collided>>
    BY <1>2 DEF O!Activate
  <2>2. was' \in Seq(Nat \cup {None}) /\ otext \in Nat /\ otext # None /\ id \in O!Times
        /\ draft[id] = otext
    BY <1>1, <2>1, NoneAssumption DEF OverlayTypes, NoneAssumption
  <2>3. OverlayTypes'
    BY <1>1, <2>1, <2>2 DEF OverlayTypes, O!Times
  <2>4. DueIsThere'
    <3>1. ASSUME ~collided, NEW c \in due
          PROVE  c = otext \/ \E t \in O!Times : draft[t] = c \/ replaced[t] = c
      <4>1. c # None
        BY <1>1, <3>1, NoneAssumption DEF OverlayTypes, NoneAssumption
      <4>2. c = overlay \/ \E t \in O!Times : draft[t] = c \/ replaced[t] = c
        BY <1>1, <3>1 DEF DueIsThere
      <4>3. c = overlay => \E t \in O!Times : replaced[t] = c
        BY <1>1, <2>1, <4>1 DEF DueIsThere
      <4>4. QED
        BY <4>2, <4>3
    <3>2. QED
      BY <2>1, <3>1 DEF DueIsThere, O!Times
  <2>5. ocalm' /\ ~collided' => Restorable'
    <3>1. ocalm /\ ~collided => Backed(was', replaced')
      BY <2>1 DEF OverlayInv, Restorable
    <3>2. ocalm /\ ~collided => Backed(was, replaced)'
      BY <3>1 DEF Backed, Holds, O!Written, O!Times
    <3>3. QED
      BY <2>1, <2>2, <3>2 DEF Restorable
  <2>6. QED
    BY <2>3, <2>4, <2>5 DEF OverlayInv
<1>3. CASE O!Clean
  <2>1. /\ opc = "clean" /\ opc' = "idle" /\ draft' = [draft EXCEPT ![id] = None]
        /\ UNCHANGED <<clock, proposed, overlay, replaced, due, was, ocalm, collided>>
    BY <1>3 DEF O!Clean, O!ghosts
  <2>2. id \in O!Times /\ draft[id] = otext /\ overlay = otext
    BY <1>1, <2>1 DEF OverlayTypes, DueIsThere
  <2>3. OverlayTypes'
    BY <1>1, <2>1 DEF OverlayTypes, O!Times
  <2>4. DueIsThere'
    <3>1. ASSUME ~collided, NEW c \in due
          PROVE  c = overlay \/ \E t \in O!Times : draft'[t] = c \/ replaced[t] = c
      <4>1. c = overlay \/ \E t \in O!Times : draft[t] = c \/ replaced[t] = c
        BY <1>1, <3>1 DEF DueIsThere
      <4>2. \A t \in O!Times : draft[t] = c => draft'[t] = c \/ c = overlay
        BY <1>1, <2>1, <2>2 DEF OverlayTypes
      <4>3. QED
        BY <4>1, <4>2
    <3>2. QED
      BY <2>1, <3>1 DEF DueIsThere, O!Times
  <2>5. ocalm' /\ ~collided' => Restorable'
    <3>1. ocalm /\ ~collided => overlay # None /\ Backed(was, replaced)
      BY <2>1 DEF OverlayInv, Restorable
    <3>2. ocalm /\ ~collided => Backed(was, replaced)' /\ was' # << >>
      BY <2>1, <3>1 DEF Backed, Holds, O!Written, O!Times
    <3>3. QED
      BY <2>1, <3>1, <3>2 DEF Restorable
  <2>6. QED
    BY <2>3, <2>4, <2>5 DEF OverlayInv
<1>4. QED
  BY <1>2, <1>3

\* A sequence is what it ends with after the rest.
LEMMA EndOfSeq ==
  ASSUME NEW U, NEW b \in Seq(U), Len(b) >= 2
  PROVE  /\ SubSeq(b, 1, Len(b) - 1) \in Seq(U) /\ SubSeq(b, 1, Len(b) - 1) # << >>
         /\ b[Len(b)] \in U /\ b = Append(SubSeq(b, 1, Len(b) - 1), b[Len(b)])
<1>1. Len(b) \in Nat /\ Len(b) \in 1..Len(b) /\ \A i \in 1..Len(b) : b[i] \in U
  OBVIOUS
<1> DEFINE s == SubSeq(b, 1, Len(b) - 1)
<1>2. s \in Seq(U) /\ Len(s) = Len(b) - 1 /\ \A i \in 1..(Len(b) - 1) : s[i] = b[i]
  BY <1>1
<1> HIDE DEF s
<1>3. s # << >>
  BY <1>1, <1>2
<1>4. Append(s, b[Len(b)]) = b
  <2>1. Append(s, b[Len(b)]) \in Seq(U) /\ Len(Append(s, b[Len(b)])) = Len(b)
    BY <1>1, <1>2
  <2>2. \A i \in 1..Len(b) : Append(s, b[Len(b)])[i] = b[i]
    BY <1>1, <1>2
  <2>3. QED
    BY <2>1, <2>2, SeqEqual
<1>5. QED
  BY <1>1, <1>2, <1>3, <1>4 DEF s

LEMMA OverlayReverts ==
  ASSUME OverlayInv, O!Revert
  PROVE  OverlayInv'
<1>1. /\ opc = "idle" /\ due' = due \ {overlay}
      /\ was' = IF was = << >> THEN was ELSE SubSeq(was, 1, Len(was) - 1)
      /\ UNCHANGED <<clock, proposed, draft, replaced, otext, ocalm, collided>>
  BY DEF O!Revert
<1>2. OverlayTypes /\ DueIsThere
  BY DEF OverlayInv
<1>3. was \in Seq(Nat \cup {None}) /\ was' \in Seq(Nat \cup {None})
  BY <1>1, <1>2 DEF OverlayTypes
<1>4. ASSUME ~collided, NEW c \in due'
      PROVE  \E t \in O!Times : draft[t] = c \/ replaced[t] = c
  BY <1>1, <1>2, <1>4 DEF DueIsThere
<1>5. ASSUME ocalm, ~collided, was # << >>
      PROVE  overlay # None /\ Backed(was, replaced) /\ was[1] = None /\ Holds(was, replaced)
  BY <1>1, <1>5 DEF OverlayInv, Restorable, Backed
<1>6. ASSUME ocalm, ~collided, was # << >>, Len(was) < 2 PROVE O!Written(replaced) = {}
  <2>1. 2..Len(was) = {}
    BY <1>3, <1>6
  <2>2. QED
    BY <1>5, <1>6, <2>1 DEF Holds
<1>7. CASE /\ O!Written(replaced) # {}
           /\ overlay' = replaced[O!Latest] /\ opc' = "unlink" /\ id' = O!Latest
  <2>1. /\ O!Latest \in O!Written(replaced) /\ \A t \in O!Written(replaced) : t <= O!Latest
        /\ O!Latest \in O!Times
    <3>1. O!Written(replaced) \in SUBSET O!Times
      BY DEF O!Written
    <3>2. /\ O!Max(O!Written(replaced)) \in O!Written(replaced)
          /\ \A y \in O!Written(replaced) : O!Max(O!Written(replaced)) >= y
      BY <1>7, <3>1, LatestOne
    <3>3. \A y \in O!Times : \A x \in O!Times : x >= y => y <= x
      BY DEF O!Times
    <3>4. QED
      BY <3>1, <3>2, <3>3 DEF O!Latest
  <2>2. overlay' \in Nat /\ overlay' # None
    BY <1>2, <1>7, <2>1 DEF OverlayTypes, O!Written
  <2>3. OverlayTypes'
    BY <1>1, <1>2, <1>3, <1>7, <2>1, <2>2 DEF OverlayTypes, O!Times
  <2>4. DueIsThere'
    BY <1>1, <1>4, <1>7 DEF DueIsThere, O!Times
  <2>5. ASSUME ocalm, ~collided
        PROVE  was' # << >> /\ Append(was', overlay') = was /\ Backed(was, replaced)
    <3>1. was # << >>
      BY <1>1, <1>7, <2>5 DEF OverlayInv, Restorable
    <3>2. Len(was) >= 2
      BY <1>3, <1>6, <1>7, <2>5, <3>1
    <3>3. /\ was' # << >> /\ was[Len(was)] \in Nat \cup {None}
          /\ was = Append(was', was[Len(was)])
      BY <1>1, <1>3, <3>1, <3>2, EndOfSeq
    <3>4. replaced \in [O!Times -> Nat \cup {None}]
      BY <1>2 DEF OverlayTypes
    <3>5. Holds(Append(was', was[Len(was)]), replaced)
      BY <1>5, <2>5, <3>1, <3>3
    <3>6. replaced[O!Latest] = was[Len(was)]
      BY <1>3, <2>1, <3>3, <3>4, <3>5, HoldsLess
    <3>7. QED
      BY <1>5, <1>7, <2>5, <3>1, <3>3, <3>6
  <2>6. ocalm' /\ ~collided' => Restorable'
    <3>1. ocalm /\ ~collided => Backed(Append(was', overlay'), replaced')
      BY <1>1, <2>5
    <3>2. ocalm /\ ~collided => Backed(Append(was, overlay), replaced)'
      BY <3>1 DEF Backed, Holds, O!Written, O!Times
    <3>3. (\A t \in O!Written(replaced) : t <= id)'
      BY <1>1, <1>7, <2>1 DEF O!Written, O!Times
    <3>4. QED
      BY <1>1, <1>7, <2>2, <2>5, <3>2, <3>3 DEF Restorable
  <2>7. QED
    BY <2>3, <2>4, <2>6 DEF OverlayInv
<1>8. CASE O!Written(replaced) = {} /\ overlay # None /\ overlay' = None /\ UNCHANGED <<opc, id>>
  <2>1. OverlayTypes'
    BY <1>1, <1>2, <1>3, <1>8 DEF OverlayTypes, O!Times
  <2>2. DueIsThere'
    BY <1>1, <1>4, <1>8 DEF DueIsThere, O!Times
  <2>3. ASSUME ocalm, ~collided PROVE was' = << >>
    <3>1. was # << >>
      BY <1>1, <1>8, <2>3 DEF OverlayInv, Restorable
    <3>2. PICK f \in [2..Len(was) -> O!Times] : O!Written(replaced) = {f[i] : i \in 2..Len(was)}
      BY <1>5, <2>3, <3>1 DEF Holds
    <3>3. ~(Len(was) >= 2)
      <4>1. Len(was) >= 2 /\ Len(was) \in Nat => 2 \in 2..Len(was)
        OBVIOUS
      <4>2. Len(was) \in Nat
        BY <1>3
      <4>3. QED
        BY <1>8, <3>2, <4>1, <4>2
    <3>4. Len(was) = 1
      <4>1. Len(was) \in Nat /\ Len(was) # 0
        BY <1>3, <3>1, EmptySeq
      <4>2. PICK n \in Nat : n = Len(was)
        BY <4>1
      <4>3. n # 0 /\ ~(n >= 2)
        BY <3>3, <4>1, <4>2
      <4>4. n = 1
        BY <4>3
      <4>5. QED
        BY <4>2, <4>4
    <3>5. was' = SubSeq(was, 1, 0)
      BY <1>1, <3>1, <3>4
    <3>6. QED
      BY <1>3, <3>5
  <2>4. O!Written(replaced)' = {}
    BY <1>1, <1>8 DEF O!Written, O!Times
  <2>5. ocalm' /\ ~collided' => Restorable'
    BY <1>1, <1>8, <2>3, <2>4 DEF Restorable
  <2>6. QED
    BY <2>1, <2>2, <2>5 DEF OverlayInv
<1>9. QED
  BY <1>7, <1>8 DEF O!Revert

LEMMA OverlayUnlinks ==
  ASSUME OverlayInv, O!Unlink
  PROVE  OverlayInv'
<1>1. /\ opc = "unlink" /\ opc' = "idle" /\ replaced' = [replaced EXCEPT ![id] = None]
      /\ UNCHANGED <<clock, proposed, draft, overlay, due, was, ocalm, collided>>
  BY DEF O!Unlink, O!ghosts
<1>2. OverlayTypes /\ DueIsThere
  BY DEF OverlayInv
<1>3. /\ id \in O!Times /\ replaced[id] = overlay /\ replaced \in [O!Times -> Nat \cup {None}]
      /\ was \in Seq(Nat \cup {None}) /\ overlay \in Nat \cup {None}
  BY <1>1, <1>2 DEF OverlayTypes, DueIsThere
<1>4. OverlayTypes'
  <2>1. replaced' \in [O!Times -> Nat \cup {None}]
    BY <1>1, <1>3
  <2>2. \A t \in O!Times : replaced'[t] # None => replaced[t] # None
    BY <1>1, <1>3
  <2>3. QED
    BY <1>1, <1>2, <2>1, <2>2 DEF OverlayTypes, O!Times
<1>5. DueIsThere'
  <2>1. ASSUME ~collided, NEW c \in due
        PROVE  c = overlay \/ \E t \in O!Times : draft[t] = c \/ replaced'[t] = c
    <3>1. c = overlay \/ \E t \in O!Times : draft[t] = c \/ replaced[t] = c
      BY <1>2, <2>1 DEF DueIsThere
    <3>2. \A t \in O!Times : replaced[t] = c => replaced'[t] = c \/ c = overlay
      BY <1>1, <1>3
    <3>3. QED
      BY <3>1, <3>2
  <2>2. QED
    BY <1>1, <2>1 DEF DueIsThere, O!Times
<1>6. ASSUME ocalm, ~collided PROVE overlay # None /\ was # << >> /\ Backed(was, replaced')
  <2>1. /\ overlay # None /\ was # << >> /\ Backed(Append(was, overlay), replaced)
        /\ \A t \in O!Written(replaced) : t <= id
    BY <1>1, <1>6 DEF OverlayInv, Restorable
  <2>2. Holds(Append(was, overlay), replaced) /\ Append(was, overlay)[1] = None
    BY <2>1 DEF Backed
  <2>3. was[1] = None
    BY <1>3, <2>1, <2>2
  <2>4. id \in O!Written(replaced)
    BY <1>3, <2>1 DEF O!Written
  <2>5. Holds(was, [replaced EXCEPT ![id] = None])
    BY <1>3, <2>1, <2>2, <2>4, HoldsLess
  <2>6. QED
    BY <1>1, <2>1, <2>3, <2>5 DEF Backed
<1>7. ocalm' /\ ~collided' => Restorable'
  <2>1. ocalm /\ ~collided => Backed(was, replaced)'
    <3>1. ocalm /\ ~collided => Backed(was', replaced')
      BY <1>1, <1>6
    <3>2. QED
      BY <3>1 DEF Backed, Holds, O!Written, O!Times
  <2>2. QED
    BY <1>1, <1>6, <2>1 DEF Restorable
<1>8. QED
  BY <1>4, <1>5, <1>7 DEF OverlayInv

LEMMA OverlayNext == OverlayInv /\ [O!Next]_overlayVars => OverlayInv'
<1> SUFFICES ASSUME OverlayInv, [O!Next]_overlayVars PROVE OverlayInv'
  OBVIOUS
<1>1. CASE O!Tick
  <2>1. /\ clock < MaxTime /\ clock' = clock + 1
        /\ UNCHANGED <<proposed, draft, overlay, replaced, opc, id, otext, due, was, ocalm, collided>>
    BY <1>1 DEF O!Tick, O!ghosts
  <2>2. clock \in O!Times /\ clock' \in O!Times /\ \A t \in O!Times : t <= clock => t <= clock'
    BY <2>1, TreeAssumption DEF OverlayInv, OverlayTypes, O!Times, TreeAssumption
  <2>3. OverlayTypes'
    BY <2>1, <2>2 DEF OverlayInv, OverlayTypes, O!Times
  <2>4. DueIsThere'
    BY <2>1 DEF OverlayInv, DueIsThere, O!Times
  <2>5. ocalm' /\ ~collided' => Restorable'
    BY <2>1 DEF OverlayInv, Restorable, Backed, Holds, O!Written, O!Times
  <2>6. QED
    BY <2>3, <2>4, <2>5 DEF OverlayInv
<1>2. CASE O!Die
  <2>1. /\ opc' = "idle" /\ ocalm' = FALSE
        /\ UNCHANGED <<clock, proposed, draft, overlay, replaced, due, was, collided>>
    BY <1>2 DEF O!Die
  <2>2. OverlayTypes' /\ DueIsThere'
    BY <2>1 DEF OverlayInv, OverlayTypes, DueIsThere, O!Times
  <2>3. QED
    BY <2>1, <2>2 DEF OverlayInv
<1>3. CASE UNCHANGED overlayVars
  <2>1. OverlayTypes' /\ DueIsThere'
    BY <1>3 DEF OverlayInv, OverlayTypes, DueIsThere, O!Times, overlayVars
  <2>2. ocalm' /\ ~collided' => Restorable'
    BY <1>3 DEF OverlayInv, Restorable, Backed, Holds, O!Written, O!Times, overlayVars
  <2>3. QED
    BY <2>1, <2>2 DEF OverlayInv
<1>4. QED
  BY <1>1, <1>2, <1>3, OverlayProposes, OverlayApplies, OverlayActivates, OverlayReverts,
     OverlayUnlinks DEF O!Next, O!Command

LEMMA RevertGivesBack == OverlayInv => O!RevertGivesBack
<1> SUFFICES ASSUME OverlayInv PROVE O!RevertGivesBack
  OBVIOUS
<1>1. ASSUME ocalm, ~collided, opc = "idle", was # << >>
      PROVE  overlay # None /\ was[1] = None /\ O!Replaced
  BY <1>1 DEF OverlayInv, Restorable, Backed, Holds, O!Replaced
<1>2. ocalm /\ ~collided /\ opc = "idle" /\ was = << >> => overlay = None /\ O!Written(replaced) = {}
  BY DEF OverlayInv, Restorable
<1>3. ~collided => \A c \in due : c = overlay \/ \E t \in O!Times : draft[t] = c \/ replaced[t] = c
  BY DEF OverlayInv, DueIsThere
<1>4. QED
  BY <1>1, <1>2, <1>3 DEF O!RevertGivesBack

\* An undo that ends gives back the files of its step, and a revert the addition to the
\* prompt that was replaced: for a directory of any files, any contents and any number of
\* entries, proposals and seconds, wherever a command dies (checkpoints.py, cli.py undo,
\* prompt_optimizer.py).
THEOREM UndoGivesBackWhatWas == Spec => []UndoRestores
<1>1. Spec => []UndoInv
  <2>1. UndoInv /\ [Next]_vars => UndoInv'
    BY PartsApart, UndoNext
  <2>2. QED
    BY <2>1, UndoInit, PTL DEF Spec
<1>2. Spec => []OverlayInv
  <2>1. OverlayInv /\ [Next]_vars => OverlayInv'
    BY PartsApart, OverlayNext
  <2>2. QED
    BY <2>1, OverlayInit, PTL DEF Spec
<1>3. UndoInv /\ OverlayInv => UndoRestores
  BY UndoGivesBack, RevertGivesBack DEF UndoRestores
<1>4. QED
  BY <1>1, <1>2, <1>3, PTL
===============================================================================
