----------------------------- MODULE JobLifecycle -----------------------------
(***************************************************************************)
(* What the background-job queue of auc/jobs.py promises to somebody who   *)
(* only looks at the status column of `auc jobs list` and at how often a   *)
(* job's command is started, however many workers and cancellations race:  *)
(* a job leaves "queued" once and for good, it is admitted by at most one  *)
(* worker, its command is started at most once, and it is reported "done"  *)
(* only when its command was started.                                      *)
(*                                                                         *)
(* The module deliberately does not promise that a terminal status stays:  *)
(* the run job_terminal_is_final of the detailed module shows the code     *)
(* does not keep that.                                                     *)
(***************************************************************************)
EXTENDS Naturals

CONSTANT Jobs

VARIABLES status,    \* the status a reader of the job's file sees
          admitted,  \* how often a worker took the job
          started    \* how often the job's command was started

vars == <<status, admitted, started>>

Settled == {"done", "failed", "cancelled"}
Status == {"absent", "queued", "running"} \cup Settled

TypeOK ==
    /\ status \in [Jobs -> Status]
    /\ admitted \in [Jobs -> {0, 1}]
    /\ started \in [Jobs -> {0, 1}]

Init ==
    /\ status = [j \in Jobs |-> "absent"]
    /\ admitted = [j \in Jobs |-> 0]
    /\ started = [j \in Jobs |-> 0]

Submit(j) ==
    /\ status[j] = "absent"
    /\ status' = [status EXCEPT ![j] = "queued"]
    /\ UNCHANGED <<admitted, started>>

\* A job already withdrawn can still be admitted: the withdrawal lands between
\* the scan of the queue and the save of the claim.
Admit(j) ==
    /\ status[j] \in {"queued", "cancelled"}
    /\ admitted[j] = 0
    /\ status' = [status EXCEPT ![j] = "running"]
    /\ admitted' = [admitted EXCEPT ![j] = 1]
    /\ UNCHANGED started

Start(j) ==
    /\ admitted[j] = 1
    /\ started[j] = 0
    /\ started' = [started EXCEPT ![j] = 1]
    /\ UNCHANGED <<status, admitted>>

\* The worker that admitted the job reports on it.
Report(j) ==
    /\ admitted[j] = 1
    /\ \/ status' = [status EXCEPT ![j] = "failed"]
       \/ /\ started[j] = 1
          /\ \E s \in {"running", "done"} : status' = [status EXCEPT ![j] = s]
    /\ UNCHANGED <<admitted, started>>

Withdraw(j) ==
    /\ status[j] # "absent"
    /\ status' = [status EXCEPT ![j] = "cancelled"]
    /\ UNCHANGED <<admitted, started>>

Next == \E j \in Jobs : Submit(j) \/ Admit(j) \/ Start(j) \/ Report(j) \/ Withdraw(j)

Spec == Init /\ [][Next]_vars
===============================================================================
