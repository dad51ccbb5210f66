----------------------------- MODULE MCBackground -----------------------------
(***************************************************************************)
(* What goes on beside the user, with its liveness: instances of JobQueue, *)
(* Routines and Evolution, side by side.  `part` says which of them moves  *)
(* in a behaviour.                                                         *)
(***************************************************************************)
EXTENDS Naturals, FiniteSets

CONSTANTS Jobs, Workers, Cancellers, MaxCrashes, None,
          RoutineIds, RoutineWorkers, User, Absent, Torn, MaxTime, MaxFaults, MaxEdits,
          Procs, Roles, Cap, Enough, MaxEpisodes, MaxRuns

\* The values that stand for no id, no content and no copy are none, and the user of the
\* commands is no worker.
ASSUME RoutinesAssumption ==
    /\ IsFiniteSet(RoutineWorkers) /\ User \notin RoutineWorkers
    /\ None \notin RoutineIds
    /\ {None, Absent, Torn} \cap [on : BOOLEAN, next : Nat] = {}
ASSUME EvolutionAssumption == Cap \in Nat

VARIABLES part,
          file, stamp, proc, lock, wpc, wjob, cpc, ccopy, crashes, claims, launches, stranded, shut,
          rfile, now, copy, seen, cur, step, fired, twice, used, overlap, faults, edits,
          store, stats, draft, active, pc, role, ok, read, base, held, pick, runs, made, total

queueVars == <<file, stamp, proc, lock, wpc, wjob, cpc, ccopy, crashes, claims, launches,
               stranded, shut>>
timerVars == <<rfile, now, copy, seen, cur, step, fired, twice, used, overlap, faults, edits>>
learnVars == <<store, stats, draft, active, pc, role, ok, read, base, held, pick, runs, made,
               total>>
vars == <<part, queueVars, timerVars, learnVars>>

Queue == INSTANCE JobQueue
Timer == INSTANCE Routines WITH file <- rfile, Workers <- RoutineWorkers
Learn == INSTANCE Evolution

QueueMoves(A) == part = "queue" /\ A /\ UNCHANGED <<part, timerVars, learnVars>>
TimerMoves(A) == part = "timer" /\ A /\ UNCHANGED <<part, queueVars, learnVars>>
LearnMoves(A) == part = "learn" /\ A /\ UNCHANGED <<part, queueVars, timerVars>>

Init == part \in {"queue", "timer", "learn"} /\ Queue!Init /\ Timer!Init /\ Learn!Init
Next == QueueMoves(Queue!Next) \/ TimerMoves(Timer!Next) \/ LearnMoves(Learn!Next)
Spec == Init /\ [][Next]_vars

\* Each part keeps its own fairness in the behaviours in which it moves.
FairSpec ==
    /\ Spec
    /\ \A w \in Workers : WF_vars(QueueMoves(Queue!WorkerStep(w)))
    /\ \A j \in Jobs : WF_vars(QueueMoves(Queue!CommandEnds(j)))
    /\ \A w \in RoutineWorkers : WF_vars(TimerMoves(Timer!WorkerStep(w)))
    /\ WF_vars(TimerMoves(Timer!CommandStep))

\* JobQueue.QueuedSettles: a queued job settles, unless a worker crashes on it.
QueuedSettles == Queue!QueuedSettles
\* Routines.FiresOnce: an occurrence is enqueued once, but for overlaps and faults.
FiresOnce == Timer!FiresOnce
\* Routines.DueIsServed: an occurrence that is due is fired in the end.
DueIsServed == Timer!DueIsServed
\* Evolution.CountsAreExact: no count of a run is lost or counted twice.
CountsAreExact == Learn!CountsAreExact
===============================================================================
