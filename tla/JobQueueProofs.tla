---------------------------- MODULE JobQueueProofs ----------------------------
(***************************************************************************)
(* Theorems about JobQueue for any set of jobs, workers and cancellers and *)
(* any number of crashes.  Everything follows from one inductive           *)
(* invariant, IInv: the claim lock makes the claims of a job exclusive     *)
(* (LockInv, HoldInv, PickInv, ExecInv), a job that was claimed is never   *)
(* shown as queued again although cancel writes without the lock           *)
(* (FreshInv), and what the file says about the command is what the        *)
(* command did (CommandInv).                                               *)
(***************************************************************************)
EXTENDS JobQueue, FiniteSetTheorems, TLAPS

\* The claim lock belongs to the worker inside claim_next.
LockInv ==
    \A w \in Workers : wpc[w] \in {"locked", "picked"} <=> lock = w

\* A worker holds a job from its pick to its last save.
HoldInv ==
    \A w \in Workers : wpc[w] \in {"picked"} \cup Executing <=> wjob[w] # None

\* A picked job was never claimed before; a cancel may land on it.
PickInv ==
    \A w \in Workers : wpc[w] = "picked" =>
        /\ file[wjob[w]].status \in {"queued", "cancelled"}
        /\ claims[wjob[w]] = 0

\* An executed job was claimed once, and started once or not yet.
ExecInv ==
    \A w \in Workers : wpc[w] \in Executing =>
        /\ claims[wjob[w]] = 1
        /\ wpc[w] \in {"claimed", "broken"} => launches[wjob[w]] = 0
        /\ wpc[w] \in {"launched", "waiting", "ended", "finish"} => launches[wjob[w]] = 1
        /\ wpc[w] \in {"ended", "finish"} => proc[wjob[w]] # "alive"

\* A job that is still to be claimed.
FreshInv ==
    \A j \in Jobs :
        /\ file[j].status \in {"absent", "queued"} => claims[j] = 0
        /\ claims[j] \in {0, 1}
        /\ launches[j] \in {0, 1}
        /\ launches[j] = 1 => claims[j] = 1

\* The file and the command agree.
CommandInv ==
    \A j \in Jobs :
        /\ proc[j] = "none" <=> launches[j] = 0
        /\ file[j].status = "done" => proc[j] = "ok"

\* What a canceller has in memory is a job that exists.
CopyInv ==
    \A c \in Cancellers : cpc[c] # "idle" =>
        ccopy[c].job \in Jobs /\ file[ccopy[c].job].status # "absent"

\* A job cancelled in the queue is out of every worker's reach.
ShutInv ==
    \A j \in shut : file[j].status = "cancelled" /\ claims[j] = 0 /\ ~Held(j)

\* The type invariant is inductive together with what makes a process in the
\* middle of its work hold a job.
TypeInv == TypeOK /\ HoldInv /\ CopyInv

IInv ==
    /\ LockInv
    /\ PickInv
    /\ ExecInv
    /\ NoDoubleExecution
    /\ FreshInv
    /\ CommandInv
    /\ ShutInv
    /\ RunningHasAWorker

-------------------------------------------------------------------------------
(* Type correctness: the files, the workers' and the cancellers' memory and   *)
(* the history stay in their types through every step of every process.       *)
THEOREM TypeCorrect == Spec => []TypeInv
<1> USE ConstantsAssumption
         DEF TypeInv, TypeOK, HoldInv, CopyInv, FileRecord, Status, TerminalStatuses, WorkerPC, Executing, Copy,
             fileVars, workerVars, cancelVars, historyVars
<1>1. Init => TypeInv
  BY DEF Init, NoCopy
<1>2. TypeInv /\ [Next]_vars => TypeInv'
  <2> SUFFICES ASSUME TypeInv, [Next]_vars PROVE TypeInv'
    OBVIOUS
  <2>1. ASSUME NEW j \in Jobs, Enqueue(j) PROVE TypeInv'
    BY <2>1, FS_CardinalityType, FS_Difference DEF Enqueue, InFile
  <2>2. ASSUME NEW j \in Jobs, CommandEnds(j) PROVE TypeInv'
    BY <2>2 DEF CommandEnds
  <2>3. ASSUME NEW w \in Workers, AcquireLock(w) PROVE TypeInv'
    BY <2>3 DEF AcquireLock, MoveWorker
  <2>4. ASSUME NEW w \in Workers, ClaimNone(w) PROVE TypeInv'
    BY <2>4 DEF ClaimNone, MoveWorker, Unlocked
  <2>5. ASSUME NEW w \in Workers, ClaimPick(w) PROVE TypeInv'
    BY <2>5 DEF ClaimPick, MoveWorker, Claimable, InFile
  <2>6. ASSUME NEW w \in Workers, ClaimSave(w) PROVE TypeInv'
    BY <2>6 DEF ClaimSave, MoveWorker, Unlocked
  <2>7. ASSUME NEW w \in Workers, LaunchFails(w) PROVE TypeInv'
    BY <2>7 DEF LaunchFails, MoveWorker
  <2>8. ASSUME NEW w \in Workers, Launch(w) PROVE TypeInv'
    BY <2>8 DEF Launch, MoveWorker
  <2>9. ASSUME NEW w \in Workers, SavePid(w) PROVE TypeInv'
    BY <2>9 DEF SavePid, MoveWorker
  <2>10. ASSUME NEW w \in Workers, Reap(w) PROVE TypeInv'
    BY <2>10 DEF Reap, MoveWorker
  <2>11. ASSUME NEW w \in Workers, ReadLatest(w) PROVE TypeInv'
    BY <2>11 DEF ReadLatest, MoveWorker
  <2>12. ASSUME NEW w \in Workers, RespectCancel(w) PROVE TypeInv'
    BY <2>12 DEF RespectCancel, MoveWorker, LetGo
  <2>13. ASSUME NEW w \in Workers, Finish(w) PROVE TypeInv'
    BY <2>13 DEF Finish, MoveWorker, LetGo, ExitRecord
  <2>14. ASSUME NEW w \in Workers, FinishBroken(w) PROVE TypeInv'
    BY <2>14 DEF FinishBroken, MoveWorker, LetGo, BrokenRecord
  <2>15. ASSUME NEW w \in Workers, Crash(w) PROVE TypeInv'
    BY <2>15 DEF Crash, LetGo
  <2>16. ASSUME NEW c \in Cancellers, NEW j \in Jobs, CancelRead(c, j) PROVE TypeInv'
    BY <2>16 DEF CancelRead
  <2>17. ASSUME NEW c \in Cancellers, CancelKill(c) PROVE TypeInv'
    BY <2>17 DEF CancelKill
  <2>18. ASSUME NEW c \in Cancellers, CancelSave(c) PROVE TypeInv'
    BY <2>18 DEF CancelSave, CancelRecord, NoCopy
  <2>19. CASE UNCHANGED vars
    BY <2>19 DEF vars
  <2> QED
    BY <2>1, <2>2, <2>3, <2>4, <2>5, <2>6, <2>7, <2>8, <2>9, <2>10, <2>11, <2>12, <2>13, <2>14, <2>15, <2>16, <2>17, <2>18, <2>19 DEF Next, WorkerStep
<1>3. QED
  BY <1>1, <1>2, PTL DEF Spec

-------------------------------------------------------------------------------
(* The inductive invariant.                                                   *)
LEMMA InvInit == Init => IInv
  BY ConstantsAssumption
     DEF Init, IInv, LockInv, PickInv, ExecInv, NoDoubleExecution, FreshInv, CommandInv,
         ShutInv, RunningHasAWorker, Held, Executing

LEMMA InvNext == TypeInv /\ TypeInv' /\ IInv /\ [Next]_vars => IInv'
<1> SUFFICES ASSUME TypeInv, TypeInv', IInv, [Next]_vars PROVE IInv'
  OBVIOUS
<1> USE ConstantsAssumption
         DEF TypeInv, TypeOK, HoldInv, CopyInv, FileRecord, Status, TerminalStatuses, Executing,
             Held, IInv, LockInv, PickInv, ExecInv, NoDoubleExecution, FreshInv, CommandInv,
             ShutInv, RunningHasAWorker, fileVars, workerVars, cancelVars, historyVars
<1>1. ASSUME NEW j \in Jobs, Enqueue(j) PROVE IInv'
  BY <1>1 DEF Enqueue, InFile
<1>2. ASSUME NEW j \in Jobs, CommandEnds(j) PROVE IInv'
  BY <1>2 DEF CommandEnds
<1>3. ASSUME NEW w \in Workers, AcquireLock(w) PROVE IInv'
  BY <1>3 DEF AcquireLock, MoveWorker, LockGranted
<1>4. ASSUME NEW w \in Workers, ClaimNone(w) PROVE IInv'
  BY <1>4 DEF ClaimNone, MoveWorker, Unlocked
<1>5. ASSUME NEW w \in Workers, ClaimPick(w) PROVE IInv'
  BY <1>5 DEF ClaimPick, MoveWorker, Claimable, InFile
<1>6. ASSUME NEW w \in Workers, ClaimSave(w) PROVE IInv'
  <2> DEFINE j == wjob[w]
  <2>1. j \in Jobs /\ claims[j] = 0 /\ launches[j] = 0
    BY <1>6 DEF ClaimSave, MoveWorker
  <2>2. \A v \in Workers : wpc[v] \in Executing => wjob[v] # j
    BY <2>1
  <2>3. claims' = [claims EXCEPT ![j] = 1] /\ file'[j].status = "running"
    BY <1>6, <2>1 DEF ClaimSave
  <2>4. (ExecInv /\ NoDoubleExecution)'
    BY <1>6, <2>1, <2>2, <2>3 DEF ClaimSave, MoveWorker
  <2>5. (LockInv /\ PickInv)'
    BY <1>6, <2>1, <2>3 DEF ClaimSave, MoveWorker, Unlocked
  <2>6. (FreshInv /\ CommandInv /\ ShutInv /\ RunningHasAWorker)'
    BY <1>6, <2>1, <2>3 DEF ClaimSave, MoveWorker
  <2> QED
    BY <2>4, <2>5, <2>6
<1>7. ASSUME NEW w \in Workers, LaunchFails(w) PROVE IInv'
  BY <1>7 DEF LaunchFails, MoveWorker
<1>8. ASSUME NEW w \in Workers, Launch(w) PROVE IInv'
  BY <1>8 DEF Launch, MoveWorker
<1>9. ASSUME NEW w \in Workers, SavePid(w) PROVE IInv'
  BY <1>9 DEF SavePid, MoveWorker
<1>10. ASSUME NEW w \in Workers, Reap(w) PROVE IInv'
  BY <1>10 DEF Reap, MoveWorker
<1>11. ASSUME NEW w \in Workers, ReadLatest(w) PROVE IInv'
  BY <1>11 DEF ReadLatest, MoveWorker
<1>12. ASSUME NEW w \in Workers, RespectCancel(w) PROVE IInv'
  BY <1>12 DEF RespectCancel, MoveWorker, LetGo
<1>13. ASSUME NEW w \in Workers, Finish(w) PROVE IInv'
  BY <1>13 DEF Finish, MoveWorker, LetGo, ExitRecord
<1>14. ASSUME NEW w \in Workers, FinishBroken(w) PROVE IInv'
  BY <1>14 DEF FinishBroken, MoveWorker, LetGo, BrokenRecord
<1>15. ASSUME NEW w \in Workers, Crash(w) PROVE IInv'
  <2>1. LockInv'
    BY <1>15 DEF Crash
  <2>2. RunningHasAWorker'
    <3> SUFFICES ASSUME NEW j \in Jobs, file[j].status = "running", j \notin stranded'
                 PROVE  \E v \in Workers : wjob'[v] = j /\ wpc'[v] \in Executing
      BY <1>15 DEF Crash
    <3>1. PICK v \in Workers : wjob[v] = j /\ wpc[v] \in Executing
      BY <1>15 DEF Crash
    <3>2. v # w
      BY <1>15, <3>1 DEF Crash
    <3> QED
      BY <1>15, <3>1, <3>2 DEF Crash, LetGo
  <2>3. (PickInv /\ ExecInv /\ NoDoubleExecution /\ FreshInv /\ CommandInv /\ ShutInv)'
    BY <1>15 DEF Crash, LetGo
  <2> QED
    BY <2>1, <2>2, <2>3
<1>16. ASSUME NEW c \in Cancellers, NEW j \in Jobs, CancelRead(c, j) PROVE IInv'
  BY <1>16 DEF CancelRead
<1>17. ASSUME NEW c \in Cancellers, CancelKill(c) PROVE IInv'
  BY <1>17 DEF CancelKill
<1>18. ASSUME NEW c \in Cancellers, CancelSave(c) PROVE IInv'
  <2> DEFINE j == ccopy[c].job
  <2>1. j \in Jobs /\ file[j].status # "absent" /\ file'[j].status = "cancelled"
    BY <1>18 DEF CancelSave, CancelRecord
  <2>2. ShutInv'
    BY <1>18, <2>1 DEF CancelSave, CancelRecord
  <2>3. (LockInv /\ PickInv /\ ExecInv /\ NoDoubleExecution)'
    BY <1>18, <2>1 DEF CancelSave
  <2>4. (FreshInv /\ CommandInv /\ RunningHasAWorker)'
    BY <1>18, <2>1 DEF CancelSave, CancelRecord
  <2> QED
    BY <2>2, <2>3, <2>4
<1>19. CASE UNCHANGED vars
  BY <1>19 DEF vars
<1> QED
  BY <1>1, <1>2, <1>3, <1>4, <1>5, <1>6, <1>7, <1>8, <1>9, <1>10, <1>11, <1>12, <1>13, <1>14, <1>15, <1>16, <1>17, <1>18, <1>19 DEF Next, WorkerStep

LEMMA InvHolds == Spec => [](TypeInv /\ IInv)
<1>1. Spec => []TypeInv
  BY TypeCorrect
<1>2. Init => IInv
  BY InvInit
<1>3. TypeInv /\ TypeInv' /\ IInv /\ [Next]_vars => IInv'
  BY InvNext
<1> QED
  BY <1>1, <1>2, <1>3, PTL DEF Spec

-------------------------------------------------------------------------------
(* The properties of JobQueue, for every instance.                            *)

\* The types of the state: files, processes, workers and cancellers.
THEOREM TypeSafe == Spec => []TypeOK
<1>1. TypeInv => TypeOK
  BY DEF TypeInv
<1> QED
  BY <1>1, InvHolds, PTL

\* claim_next's lock does what its docstring says: one worker per job.
THEOREM ExclusiveExecution == Spec => []NoDoubleExecution
<1>1. IInv => NoDoubleExecution
  BY DEF IInv
<1> QED
  BY <1>1, InvHolds, PTL

\* One claim and one start of the command in the whole life of a job.
THEOREM ExecutedAtMostOnce == Spec => []AtMostOnce
<1>1. TypeInv /\ IInv => AtMostOnce
  BY DEF TypeInv, TypeOK, IInv, FreshInv, AtMostOnce
<1> QED
  BY <1>1, InvHolds, PTL

\* cancel on a waiting job is final although it takes no lock.
THEOREM QueueCancelIsFinal == Spec => []CancelledInQueueNeverRuns
<1>1. TypeInv /\ IInv => CancelledInQueueNeverRuns
  BY DEF TypeInv, TypeOK, IInv, FreshInv, CommandInv, ShutInv, CancelledInQueueNeverRuns
<1> QED
  BY <1>1, InvHolds, PTL

\* A running job that nobody runs is the trace of a crash.
THEOREM RunningIsHeld == Spec => []RunningHasAWorker
<1>1. IInv => RunningHasAWorker
  BY DEF IInv
<1> QED
  BY <1>1, InvHolds, PTL

\* No cancel, crash or race makes a job that failed look done.
THEOREM DoneIsTrue == Spec => []DoneMeansExitZero
<1>1. IInv => DoneMeansExitZero
  BY DEF IInv, CommandInv, DoneMeansExitZero
<1> QED
  BY <1>1, InvHolds, PTL

\* An enqueued command is executed once at most, and by one worker only.
THEOREM RunsOnce == Spec => []ExecutedOnce
<1>1. NoDoubleExecution /\ AtMostOnce => ExecutedOnce
  BY DEF ExecutedOnce
<1> QED
  BY <1>1, ExclusiveExecution, ExecutedAtMostOnce, PTL

\* What the queue shows of a job is so.
THEOREM ShownIsTrue == Spec => []StatusIsTrue
<1>1. RunningHasAWorker /\ DoneMeansExitZero => StatusIsTrue
  BY DEF StatusIsTrue
<1> QED
  BY <1>1, RunningIsHeld, DoneIsTrue, PTL

-------------------------------------------------------------------------------
(* The queue implements JobLifecycle under Status_of.                         *)
LEMMA InitRefines == Init => Lifecycle!Init
  BY DEF Init, Lifecycle!Init, Status_of

LEMMA LifecycleStep ==
  ASSUME NEW j \in Jobs,
         \/ Lifecycle!Submit(j) \/ Lifecycle!Admit(j) \/ Lifecycle!Start(j)
         \/ Lifecycle!Report(j) \/ Lifecycle!Withdraw(j)
  PROVE  Lifecycle!Next
  BY DEF Lifecycle!Next

LEMMA StepRefines ==
  TypeInv /\ IInv /\ [Next]_vars => [Lifecycle!Next]_(Lifecycle!vars)
<1> SUFFICES ASSUME TypeInv, IInv, [Next]_vars
             PROVE  [Lifecycle!Next]_(Lifecycle!vars)
  OBVIOUS
<1> USE ConstantsAssumption
         DEF TypeInv, TypeOK, HoldInv, CopyInv, FileRecord, Status, TerminalStatuses, Executing,
             IInv, PickInv, ExecInv, FreshInv, CommandInv, Status_of, Lifecycle!vars,
             fileVars, workerVars, cancelVars, historyVars
<1>1. ASSUME NEW j \in Jobs, Enqueue(j) PROVE Lifecycle!Next
  <2>2. Lifecycle!Submit(j)
    BY <1>1 DEF Enqueue, InFile, Lifecycle!Submit
  <2> QED
    BY <2>2, LifecycleStep
<1>2. ASSUME NEW j \in Jobs, CommandEnds(j) PROVE UNCHANGED Lifecycle!vars
  BY <1>2 DEF CommandEnds
<1>3. ASSUME NEW w \in Workers, AcquireLock(w) PROVE UNCHANGED Lifecycle!vars
  BY <1>3 DEF AcquireLock
<1>4. ASSUME NEW w \in Workers, ClaimNone(w) PROVE UNCHANGED Lifecycle!vars
  BY <1>4 DEF ClaimNone
<1>5. ASSUME NEW w \in Workers, ClaimPick(w) PROVE UNCHANGED Lifecycle!vars
  BY <1>5 DEF ClaimPick
<1>6. ASSUME NEW w \in Workers, ClaimSave(w) PROVE Lifecycle!Next
  <2>1. PICK j \in Jobs : j = wjob[w]
    BY <1>6 DEF ClaimSave, MoveWorker, Unlocked
  <2>2. Lifecycle!Admit(j)
    <3>1. claims[j] = 0 /\ Status_of[j] \in {"queued", "cancelled"}
      BY <1>6, <2>1 DEF ClaimSave, MoveWorker
    <3>2. Status_of' = [Status_of EXCEPT ![j] = "running"]
      BY <1>6, <2>1 DEF ClaimSave
    <3>3. claims' = [claims EXCEPT ![j] = 1]
      BY <1>6, <2>1, <3>1 DEF ClaimSave
    <3> QED
      BY <1>6, <3>1, <3>2, <3>3 DEF ClaimSave, Lifecycle!Admit
  <2> QED
    BY <2>2, LifecycleStep
<1>7. ASSUME NEW w \in Workers, LaunchFails(w) PROVE UNCHANGED Lifecycle!vars
  BY <1>7 DEF LaunchFails
<1>8. ASSUME NEW w \in Workers, Launch(w) PROVE Lifecycle!Next
  <2>1. PICK j \in Jobs : j = wjob[w]
    BY <1>8 DEF Launch, MoveWorker
  <2>2. Lifecycle!Start(j)
    <3>1. claims[j] = 1 /\ launches[j] = 0
      BY <1>8, <2>1 DEF Launch, MoveWorker
    <3>2. launches' = [launches EXCEPT ![j] = 1]
      BY <1>8, <2>1, <3>1 DEF Launch
    <3> QED
      BY <1>8, <3>1, <3>2 DEF Launch, Lifecycle!Start
  <2> QED
    BY <2>2, LifecycleStep
<1>9. ASSUME NEW w \in Workers, SavePid(w) PROVE Lifecycle!Next
  <2>1. PICK j \in Jobs : j = wjob[w]
    BY <1>9 DEF SavePid, MoveWorker
  <2>2. Lifecycle!Report(j)
    BY <1>9, <2>1 DEF SavePid, MoveWorker, Lifecycle!Report
  <2> QED
    BY <2>2, LifecycleStep
<1>10. ASSUME NEW w \in Workers, Reap(w) PROVE UNCHANGED Lifecycle!vars
  BY <1>10 DEF Reap
<1>11. ASSUME NEW w \in Workers, ReadLatest(w) PROVE UNCHANGED Lifecycle!vars
  BY <1>11 DEF ReadLatest
<1>12. ASSUME NEW w \in Workers, RespectCancel(w) PROVE UNCHANGED Lifecycle!vars
  BY <1>12 DEF RespectCancel
<1>13. ASSUME NEW w \in Workers, Finish(w) PROVE Lifecycle!Next
  <2>1. PICK j \in Jobs : j = wjob[w]
    BY <1>13 DEF Finish, MoveWorker, LetGo, ExitRecord
  <2>2. Lifecycle!Report(j)
    BY <1>13, <2>1 DEF Finish, MoveWorker, LetGo, ExitRecord, Lifecycle!Report
  <2> QED
    BY <2>2, LifecycleStep
<1>14. ASSUME NEW w \in Workers, FinishBroken(w) PROVE Lifecycle!Next
  <2>1. PICK j \in Jobs : j = wjob[w]
    BY <1>14 DEF FinishBroken, MoveWorker, LetGo, BrokenRecord
  <2>2. Lifecycle!Report(j)
    BY <1>14, <2>1 DEF FinishBroken, MoveWorker, LetGo, BrokenRecord, Lifecycle!Report
  <2> QED
    BY <2>2, LifecycleStep
<1>15. ASSUME NEW w \in Workers, Crash(w) PROVE UNCHANGED Lifecycle!vars
  BY <1>15 DEF Crash
<1>16. ASSUME NEW c \in Cancellers, NEW j \in Jobs, CancelRead(c, j) PROVE UNCHANGED Lifecycle!vars
  BY <1>16 DEF CancelRead
<1>17. ASSUME NEW c \in Cancellers, CancelKill(c) PROVE UNCHANGED Lifecycle!vars
  BY <1>17 DEF CancelKill
<1>18. ASSUME NEW c \in Cancellers, CancelSave(c) PROVE Lifecycle!Next
  <2>1. PICK j \in Jobs : j = ccopy[c].job
    BY <1>18 DEF CancelSave, CancelRecord
  <2>2. Lifecycle!Withdraw(j)
    BY <1>18, <2>1 DEF CancelSave, CancelRecord, Lifecycle!Withdraw
  <2> QED
    BY <2>2, LifecycleStep
<1>19. CASE UNCHANGED vars
  BY <1>19 DEF vars
<1> QED
  BY <1>1, <1>2, <1>3, <1>4, <1>5, <1>6, <1>7, <1>8, <1>9, <1>10, <1>11, <1>12, <1>13, <1>14, <1>15, <1>16, <1>17, <1>18, <1>19 DEF Next, WorkerStep

\* However many workers, cancels and crashes: the status column and the starts
\* of the commands behave as JobLifecycle says.
THEOREM Refinement == Spec => RefinesLifecycle
<1>1. Init => Lifecycle!Init
  BY InitRefines
<1>2. TypeInv /\ IInv /\ [Next]_vars => [Lifecycle!Next]_(Lifecycle!vars)
  BY StepRefines
<1> QED
  BY <1>1, <1>2, InvHolds, PTL DEF Spec, RefinesLifecycle, Lifecycle!Spec
===============================================================================
