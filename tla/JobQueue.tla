------------------------------- MODULE JobQueue -------------------------------
(***************************************************************************)
(* The multi-process job queue of src/auc/jobs.py.  Every job is one JSON  *)
(* file under .auc/jobs; the processes that touch it share nothing else:   *)
(*                                                                         *)
(*   - `auc chat --background` enqueues (JobStore.enqueue),                *)
(*   - any number of `auc jobs worker` processes claim under the file lock *)
(*     .claim.lock and execute (claim_next, run_job, run_worker),          *)
(*   - `auc jobs cancel` reads, kills and rewrites without the lock        *)
(*     (JobStore.cancel).                                                  *)
(*                                                                         *)
(* A save replaces the whole file by the writer's in-memory copy           *)
(* (atomic_write_text), so a step between a process's read and its save is *)
(* a step on stale data; every read and every save is an action.  A worker *)
(* can be killed at any step (Crash, at most MaxCrashes times).            *)
(*                                                                         *)
(* Abstractions: the scan of the directory in claim_next is one step; a    *)
(* pid is TRUE or FALSE, the pid of the job's own command or none, so pid  *)
(* reuse by the operating system is left out; file-system errors too.      *)
(***************************************************************************)
EXTENDS Naturals, FiniteSets

CONSTANTS Jobs,        \* the job ids
          Workers,     \* the worker processes
          Cancellers,  \* the processes running `auc jobs cancel`
          MaxCrashes,  \* bound on worker crashes
          None         \* no job, no worker

ASSUME ConstantsAssumption ==
    /\ IsFiniteSet(Jobs)
    /\ MaxCrashes \in Nat
    /\ None \notin Jobs
    /\ None \notin Workers

VARIABLES file,      \* the job files: status and whether the pid is recorded
          stamp,     \* created_at of a job, the order of the enqueues
          proc,      \* the command of a job: not started, alive or how it ended
          lock,      \* the holder of .claim.lock
          wpc, wjob, \* where a worker is and the job it holds in memory
          cpc, ccopy,\* where a canceller is and its copy of the job
          crashes,   \* how many workers crashed
          claims, launches, \* history: claims saved and commands started per job
          stranded,  \* history: jobs whose worker crashed while it held them
          shut       \* history: jobs cancelled while still waiting in the queue

fileVars == <<file, stamp>>
workerVars == <<lock, wpc, wjob>>
cancelVars == <<cpc, ccopy>>
historyVars == <<claims, launches, stranded, shut>>
vars == <<fileVars, proc, workerVars, cancelVars, crashes, historyVars>>

TerminalStatuses == {"done", "failed", "cancelled"}
Status == {"absent", "queued", "running"} \cup TerminalStatuses
FileRecord == [status : Status, pid : BOOLEAN]

\* Where a worker is once its claim is saved and until its last save.
Executing == {"claimed", "broken", "launched", "waiting", "ended", "finish"}
WorkerPC == {"idle", "locked", "picked", "down"} \cup Executing

Copy == [job : Jobs \cup {None}, status : Status, pid : BOOLEAN]
NoCopy == [job |-> None, status |-> "absent", pid |-> FALSE]

TypeOK ==
    /\ file \in [Jobs -> FileRecord]
    /\ stamp \in [Jobs -> Nat]
    /\ proc \in [Jobs -> {"none", "alive", "ok", "error", "killed"}]
    /\ lock \in Workers \cup {None}
    /\ wpc \in [Workers -> WorkerPC]
    /\ wjob \in [Workers -> Jobs \cup {None}]
    /\ cpc \in [Cancellers -> {"idle", "kill", "save"}]
    /\ ccopy \in [Cancellers -> Copy]
    /\ crashes \in 0..MaxCrashes
    /\ claims \in [Jobs -> Nat]
    /\ launches \in [Jobs -> Nat]
    /\ stranded \subseteq Jobs
    /\ shut \subseteq Jobs

Init ==
    /\ file = [j \in Jobs |-> [status |-> "absent", pid |-> FALSE]]
    /\ stamp = [j \in Jobs |-> 0]
    /\ proc = [j \in Jobs |-> "none"]
    /\ lock = None
    /\ wpc = [w \in Workers |-> "idle"]
    /\ wjob = [w \in Workers |-> None]
    /\ cpc = [c \in Cancellers |-> "idle"]
    /\ ccopy = [c \in Cancellers |-> NoCopy]
    /\ crashes = 0
    /\ claims = [j \in Jobs |-> 0]
    /\ launches = [j \in Jobs |-> 0]
    /\ stranded = {}
    /\ shut = {}

InFile(s) == {j \in Jobs : file[j].status = s}

-------------------------------------------------------------------------------
(* Small pieces of the actions below, and next to each the mutant of it that  *)
(* a run uses to show that its properties can fail.                           *)

\* file_lock: flock(LOCK_EX) on .claim.lock is granted to one process.
MutNoLock == TRUE
LockGranted == lock = None

\* The lock is released on every way out of claim_next.
MutKeepLock(w) == w
Unlocked(w) == None

\* The jobs claim_next may pick.
MutClaimRunning == InFile("queued") \cup InFile("running")
MutClaimCancelled == InFile("queued") \cup InFile("cancelled")
Claimable == InFile("queued")

\* What run_job saves when the command could not be started.
MutBrokenRecord == [status |-> "running", pid |-> FALSE]
BrokenRecord == [status |-> "failed", pid |-> FALSE]

\* What run_job saves when the command is gone.
MutExitRecord(j) == [status |-> "done", pid |-> TRUE]
MutRawExitRecord(j) == [status |-> proc[j], pid |-> TRUE]
ExitRecord(j) == [status |-> IF proc[j] = "ok" THEN "done" ELSE "failed", pid |-> TRUE]

\* What cancel saves: its copy, as cancelled.
MutCancelRecord(c) == [status |-> ccopy[c].status, pid |-> ccopy[c].pid]
CancelRecord(c) == [status |-> "cancelled", pid |-> ccopy[c].pid]

-------------------------------------------------------------------------------
(* JobStore.enqueue: a new id, created_at taken from the clock, saved queued. *)
Enqueue(j) ==
    /\ file[j].status = "absent"
    /\ file' = [file EXCEPT ![j] = [status |-> "queued", pid |-> FALSE]]
    /\ stamp' = [stamp EXCEPT ![j] = Cardinality(Jobs \ InFile("absent"))]
    /\ UNCHANGED <<proc, workerVars, cancelVars, crashes, historyVars>>

-------------------------------------------------------------------------------
(* A worker: run_worker calls claim_next and then run_job, over and over.     *)

MoveWorker(w, from, to) ==
    /\ wpc[w] = from
    /\ wpc' = [wpc EXCEPT ![w] = to]

\* claim_next enters its critical section.
AcquireLock(w) ==
    /\ LockGranted
    /\ MoveWorker(w, "idle", "locked")
    /\ lock' = w
    /\ UNCHANGED <<fileVars, proc, wjob, cancelVars, crashes, historyVars>>

\* claim_next, nothing queued: release and return None; the loop sleeps.
ClaimNone(w) ==
    /\ Claimable = {}
    /\ MoveWorker(w, "locked", "idle")
    /\ lock' = Unlocked(w)
    /\ UNCHANGED <<fileVars, proc, wjob, cancelVars, crashes, historyVars>>

\* claim_next picks the queued job with the smallest created_at.
ClaimPick(w) ==
    /\ MoveWorker(w, "locked", "picked")
    /\ \E j \in Claimable :
         /\ \A k \in Claimable : stamp[j] <= stamp[k]
         /\ wjob' = [wjob EXCEPT ![w] = j]
    /\ UNCHANGED <<fileVars, proc, lock, cancelVars, crashes, historyVars>>

\* claim_next saves its copy as running, whatever the file holds by now, and
\* leaves the critical section.
ClaimSave(w) ==
    /\ MoveWorker(w, "picked", "claimed")
    /\ file' = [file EXCEPT ![wjob[w]] = [status |-> "running", pid |-> FALSE]]
    /\ lock' = Unlocked(w)
    /\ claims' = [claims EXCEPT ![wjob[w]] = @ + 1]
    /\ UNCHANGED <<stamp, proc, wjob, cancelVars, crashes, launches, stranded, shut>>

\* run_job: build_job_command or Popen raised, so no command was started.
LaunchFails(w) ==
    /\ MoveWorker(w, "claimed", "broken")
    /\ UNCHANGED <<fileVars, proc, lock, wjob, cancelVars, crashes, historyVars>>

\* run_job: Popen started the command.
Launch(w) ==
    /\ MoveWorker(w, "claimed", "launched")
    /\ proc' = [proc EXCEPT ![wjob[w]] = "alive"]
    /\ launches' = [launches EXCEPT ![wjob[w]] = @ + 1]
    /\ UNCHANGED <<fileVars, lock, wjob, cancelVars, crashes, claims, stranded, shut>>

\* run_job: job.pid is saved along with the copy's status, still running.
SavePid(w) ==
    /\ MoveWorker(w, "launched", "waiting")
    /\ file' = [file EXCEPT ![wjob[w]] = [status |-> "running", pid |-> TRUE]]
    /\ UNCHANGED <<stamp, proc, lock, wjob, cancelVars, crashes, historyVars>>

\* run_job: proc.wait() returns once the command is gone.
Reap(w) ==
    /\ MoveWorker(w, "waiting", "ended")
    /\ proc[wjob[w]] # "alive"
    /\ UNCHANGED <<fileVars, proc, lock, wjob, cancelVars, crashes, historyVars>>

\* run_job re-reads the file: not cancelled, so it goes on to its last save.
ReadLatest(w) ==
    /\ MoveWorker(w, "ended", "finish")
    /\ file[wjob[w]].status # "cancelled"
    /\ UNCHANGED <<fileVars, proc, lock, wjob, cancelVars, crashes, historyVars>>

LetGo(w) == wjob' = [wjob EXCEPT ![w] = None]

\* run_job re-reads the file: cancelled in the meantime, so it saves nothing.
RespectCancel(w) ==
    /\ MoveWorker(w, "ended", "idle")
    /\ file[wjob[w]].status = "cancelled"
    /\ LetGo(w)
    /\ UNCHANGED <<fileVars, proc, lock, cancelVars, crashes, historyVars>>

\* run_job saves done for exit code 0 and failed for any other.
Finish(w) ==
    /\ MoveWorker(w, "finish", "idle")
    /\ file' = [file EXCEPT ![wjob[w]] = ExitRecord(wjob[w])]
    /\ LetGo(w)
    /\ UNCHANGED <<stamp, proc, lock, cancelVars, crashes, historyVars>>

\* run_job, except branch: failed is saved without a look at the file.
FinishBroken(w) ==
    /\ MoveWorker(w, "broken", "idle")
    /\ file' = [file EXCEPT ![wjob[w]] = BrokenRecord]
    /\ LetGo(w)
    /\ UNCHANGED <<stamp, proc, lock, cancelVars, crashes, historyVars>>

\* The worker process is killed: the kernel drops its flock, nothing is saved,
\* and nothing in the code looks for the job it held.
Crash(w) ==
    /\ crashes < MaxCrashes
    /\ wpc[w] # "down"
    /\ crashes' = crashes + 1
    /\ wpc' = [wpc EXCEPT ![w] = "down"]
    /\ lock' = IF lock = w THEN None ELSE lock
    /\ stranded' = IF wpc[w] \in Executing THEN stranded \cup {wjob[w]} ELSE stranded
    /\ LetGo(w)
    /\ UNCHANGED <<fileVars, proc, cancelVars, claims, launches, shut>>

-------------------------------------------------------------------------------
(* The command of a job, `auc chat --run-id <id>`, ends by itself.            *)
CommandEnds(j) ==
    /\ proc[j] = "alive"
    /\ \E outcome \in {"ok", "error"} : proc' = [proc EXCEPT ![j] = outcome]
    /\ UNCHANGED <<fileVars, workerVars, cancelVars, crashes, historyVars>>

-------------------------------------------------------------------------------
(* JobStore.cancel, in a process of its own and without the claim lock.       *)

\* get, and the early returns: the job exists and its status is not terminal.
CancelRead(c, j) ==
    /\ cpc[c] = "idle"
    /\ file[j].status \notin TerminalStatuses \cup {"absent"}
    /\ ccopy' = [ccopy EXCEPT ![c] = [job |-> j, status |-> file[j].status, pid |-> file[j].pid]]
    /\ cpc' = [cpc EXCEPT ![c] =
                 IF file[j].status = "running" /\ file[j].pid THEN "kill" ELSE "save"]
    /\ UNCHANGED <<fileVars, proc, workerVars, crashes, historyVars>>

\* os.kill(pid, SIGTERM); a command that is gone already is not an error.
CancelKill(c) ==
    /\ cpc[c] = "kill"
    /\ cpc' = [cpc EXCEPT ![c] = "save"]
    /\ proc' = [proc EXCEPT ![ccopy[c].job] = IF @ = "alive" THEN "killed" ELSE @]
    /\ UNCHANGED <<fileVars, workerVars, ccopy, crashes, historyVars>>

Held(j) == \E w \in Workers : wjob[w] = j

\* The copy read at CancelRead is saved as cancelled.
CancelSave(c) ==
    LET j == ccopy[c].job IN
    /\ cpc[c] = "save"
    /\ cpc' = [cpc EXCEPT ![c] = "idle"]
    /\ file' = [file EXCEPT ![j] = CancelRecord(c)]
    /\ ccopy' = [ccopy EXCEPT ![c] = NoCopy]
    /\ shut' = IF file[j].status = "queued" /\ ~Held(j) THEN shut \cup {j} ELSE shut
    /\ UNCHANGED <<stamp, proc, workerVars, crashes, claims, launches, stranded>>

-------------------------------------------------------------------------------
WorkerStep(w) ==
    \/ AcquireLock(w) \/ ClaimNone(w) \/ ClaimPick(w) \/ ClaimSave(w)
    \/ LaunchFails(w) \/ Launch(w) \/ SavePid(w) \/ Reap(w)
    \/ ReadLatest(w) \/ RespectCancel(w) \/ Finish(w) \/ FinishBroken(w)

Next ==
    \/ \E j \in Jobs : Enqueue(j) \/ CommandEnds(j)
    \/ \E w \in Workers : WorkerStep(w) \/ Crash(w)
    \/ \E c \in Cancellers : (\E j \in Jobs : CancelRead(c, j)) \/ CancelKill(c) \/ CancelSave(c)

Spec == Init /\ [][Next]_vars

\* A worker that is not killed keeps running its loop, and a command ends: an
\* agent run is bounded by LoopConfig.max_steps.  Nothing obliges anybody to
\* enqueue, to cancel or to crash.
Fairness ==
    /\ \A w \in Workers : WF_vars(WorkerStep(w))
    /\ \A j \in Jobs : WF_vars(CommandEnds(j))

FairSpec == Spec /\ Fairness

-------------------------------------------------------------------------------
(* Properties.                                                                *)

\* No two workers ever execute the same job: what claim_next takes the file
\* lock for (jobs.py:159-160).
NoDoubleExecution ==
    \A v, w \in Workers :
        wpc[v] \in Executing /\ wpc[w] \in Executing /\ wjob[v] = wjob[w] => v = w

\* Over the whole life of a job, through every cancel and crash, a worker takes
\* it at most once and its command is started at most once: there is no retry.
AtMostOnce == \A j \in Jobs : claims[j] <= 1 /\ launches[j] <= claims[j]

\* What the queue is for: an enqueued command is executed once, by one worker
\* (jobs.py:3 and the claim of jobs.py:157).
ExecutedOnce == NoDoubleExecution /\ AtMostOnce

\* A job cancelled while it waited, with no worker's claim under way, is never
\* executed afterwards: the unlocked cancel is safe on that side.
CancelledInQueueNeverRuns ==
    \A j \in shut : claims[j] = 0 /\ proc[j] = "none"

\* Only a crash leaves a job running for ever: a job shown as running is held
\* by a worker or its worker crashed on it.
RunningHasAWorker ==
    \A j \in Jobs : file[j].status = "running" =>
        \/ \E w \in Workers : wjob[w] = j /\ wpc[w] \in Executing
        \/ j \in stranded

\* A job is reported done only when its command ended with exit code 0, even
\* when a cancel killed the command in the meantime.
DoneMeansExitZero ==
    \A j \in Jobs : file[j].status = "done" => proc[j] = "ok"

\* What `auc jobs` shows of a job is so: a running one has its worker or lost it in
\* a crash, and one that is done has succeeded.
StatusIsTrue == RunningHasAWorker /\ DoneMeansExitZero

\* The state machine of jobs.py:3: done, failed and cancelled are final.
TerminalIsFinal ==
    [][\A j \in Jobs : file[j].status \in TerminalStatuses => file'[j].status = file[j].status]_file

\* JobStore.cancel's docstring (jobs.py:175): a running job's process is killed
\* and then the job is shown as cancelled.
CancelKillsRunning ==
    [][\A c \in Cancellers :
          CancelSave(c) /\ ccopy[c].status = "running" => proc[ccopy[c].job] # "alive"]_vars

\* A queued job settles, unless a worker crashes on it: with one worker left the
\* queue drains, whatever the cancellers do.
QueuedSettles ==
    \A j \in Jobs :
        file[j].status = "queued" ~> (file[j].status \in TerminalStatuses \/ j \in stranded)

\* The queue keeps the promises of JobLifecycle.
Status_of == [j \in Jobs |-> file[j].status]
Lifecycle == INSTANCE JobLifecycle
               WITH status <- Status_of, admitted <- claims, started <- launches
RefinesLifecycle == Lifecycle!Spec
===============================================================================
