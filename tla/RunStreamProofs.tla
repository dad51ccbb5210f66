---------------------------- MODULE RunStreamProofs ----------------------------
(***************************************************************************)
(* Proofs about RunStream, for every bound on steps, calls and backlog:    *)
(* its types, that no run outlives its stream, that a cancellation is never*)
(* lost and that a reader that stayed gets the status it was shown.        *)
(***************************************************************************)
EXTENDS RunStream, TLAPS

\* A step under way is one of the MaxSteps steps, and the task exists from the
\* moment the generator waits for events.
StepInv == stage \in {"starting", "step"} => step < MaxSteps

\* The queue grows with the run: nothing before it begins, and room for run_end
\* as long as the run goes on.
QueueInv ==
    /\ task \in {"none", "ready"} => queue = <<>>
    /\ stage \in {"starting", "step"} => Len(queue) <= Backlog

TaskInv ==
    /\ task = "none" <=> reader \in {"preparing", "failed"}
    /\ task \in {"none", "ready"} => stage = "starting"
    /\ stage \in {"starting", "step"} <=> outcome = "none"
    /\ task = "done" => stage = "over"
    /\ reader = "waiting" => task \in {"cancelling", "cancelled"}
    /\ reader = "finished" => task \in {"done", "cancelled"}

\* Where a cancellation that came in time is remembered until the run ends.
CancelInv ==
    /\ called /\ outcome = "none" =>
         \/ stopped /\ reader # "preparing"
         \/ reader = "preparing" /\ marked
         \/ reader = "failed"
         \/ task \in {"cancelling", "cancelled"}
    /\ CancelIsHeard

StreamInv == TypeOK /\ StepInv /\ QueueInv /\ TaskInv /\ CancelInv

THEOREM InvInit == StreamInit => StreamInv
<1> SUFFICES ASSUME StreamInit PROVE StreamInv
  OBVIOUS
<1> USE BoundsAssumption DEF BoundsAssumption, StreamInit, Init, Outcomes
<1>1. Flags
  BY DEF Flags
<1>2. TypeOK
  BY <1>1 DEF TypeOK
<1>3. StepInv /\ QueueInv /\ TaskInv /\ CancelInv
  BY DEF StepInv, QueueInv, TaskInv, CancelInv, CancelIsHeard
<1>4. QED
  BY <1>2, <1>3 DEF StreamInv

LEMMA EmitTypes ==
  ASSUME NEW E, NEW e \in E, queue \in Seq(E), Emit(e)
  PROVE  queue' \in Seq(E) /\ Len(queue') <= Len(queue) + 1
BY DEF Emit

THEOREM InvNext == StreamInv /\ [StreamNext]_allVars => StreamInv'
<1> SUFFICES ASSUME StreamInv, [StreamNext]_allVars PROVE StreamInv'
  OBVIOUS
<1> USE BoundsAssumption
      DEF BoundsAssumption, StreamInv, TypeOK, StepInv, QueueInv, TaskInv,
          Outcomes, vars, streamVars, cancelVars, allVars
<1> DEFINE Events == {"event", "run_end"}
<1>1. CASE Prepare
  <2> USE <1>1 DEF Prepare, StartsStopped
  <2>1. Flags'
    BY DEF Flags
  <2>2. UNCHANGED queue
    OBVIOUS
  <2>3. TypeOK'
    BY <2>1, <2>2
  <2>4. StepInv' /\ QueueInv' /\ TaskInv'
    BY <2>2
  <2>5. CancelInv'
    BY DEF Flags, CancelInv, CancelIsHeard
  <2>6. QED
    BY <2>3, <2>4, <2>5
<1>2. CASE PrepareFails
  <2> USE <1>2 DEF PrepareFails
  <2>1. Flags'
    BY DEF Flags
  <2>2. UNCHANGED queue
    OBVIOUS
  <2>3. TypeOK'
    BY <2>1, <2>2
  <2>4. StepInv' /\ QueueInv' /\ TaskInv'
    BY <2>2
  <2>5. CancelInv'
    BY DEF Flags, CancelInv, CancelIsHeard
  <2>6. QED
    BY <2>3, <2>4, <2>5
<1>3. CASE Read
  <2> USE <1>3 DEF Read
  <2>1. Flags'
    BY DEF Flags
  <2>2. queue' \in Seq(Events) /\ Len(queue') <= Len(queue)
    OBVIOUS
  <2>3. TypeOK'
    BY <2>1, <2>2
  <2>4. StepInv' /\ QueueInv' /\ TaskInv'
    BY <2>2
  <2>5. CancelInv'
    BY DEF Flags, CancelInv, CancelIsHeard
  <2>6. QED
    BY <2>3, <2>4, <2>5
<1>4. CASE CloseAfterRunEnd
  <2> USE <1>4 DEF CloseAfterRunEnd, Close, Settle, CancelsTask
  <2>1. Flags'
    BY DEF Flags
  <2>2. UNCHANGED queue
    OBVIOUS
  <2>3. TypeOK'
    BY <2>1, <2>2
  <2>4. StepInv' /\ QueueInv' /\ TaskInv'
    BY <2>2
  <2>5. CancelInv'
    BY DEF Flags, CancelInv, CancelIsHeard
  <2>6. QED
    BY <2>3, <2>4, <2>5
<1>5. CASE Leave
  <2> USE <1>5 DEF Leave, Close, Settle, CancelsTask
  <2>1. Flags'
    BY DEF Flags
  <2>2. UNCHANGED queue
    OBVIOUS
  <2>3. TypeOK'
    BY <2>1, <2>2
  <2>4. StepInv' /\ QueueInv' /\ TaskInv'
    BY <2>2
  <2>5. CancelInv'
    BY DEF Flags, CancelInv, CancelIsHeard
  <2>6. QED
    BY <2>3, <2>4, <2>5
<1>6. CASE TaskCancelled
  <2> USE <1>6 DEF TaskCancelled
  <2>1. Flags'
    BY DEF Flags
  <2>2. UNCHANGED queue
    OBVIOUS
  <2>3. TypeOK'
    BY <2>1, <2>2
  <2>4. StepInv' /\ QueueInv' /\ TaskInv'
    BY <2>2
  <2>5. CancelInv'
    BY DEF Flags, CancelInv, CancelIsHeard
  <2>6. QED
    BY <2>3, <2>4, <2>5
<1>7. CASE Awaited
  <2> USE <1>7 DEF Awaited, Settle
  <2>1. Flags'
    BY DEF Flags
  <2>2. UNCHANGED queue
    OBVIOUS
  <2>3. TypeOK'
    BY <2>1, <2>2
  <2>4. StepInv' /\ QueueInv' /\ TaskInv'
    BY <2>2
  <2>5. CancelInv'
    BY DEF Flags, CancelInv, CancelIsHeard
  <2>6. QED
    BY <2>3, <2>4, <2>5
<1>8. CASE TaskStarts
  <2> USE <1>8 DEF TaskStarts
  <2>1. Flags'
    BY DEF Flags
  <2>2. queue' \in Seq(Events) /\ Len(queue') <= Len(queue) + 1
    <3>1. Emit("event")
      OBVIOUS
    <3>2. QED
      BY <3>1, EmitTypes
  <2>3. TypeOK'
    BY <2>1, <2>2
  <2>4. StepInv' /\ QueueInv' /\ TaskInv'
    BY <2>2
  <2>5. CancelInv'
    BY DEF Flags, CancelInv, CancelIsHeard
  <2>6. QED
    BY <2>3, <2>4, <2>5
<1>9. CASE RunBegins
  <2> USE <1>9 DEF RunBegins, Works, FirstStep
  <2>1. Flags'
    BY DEF Flags
  <2>2. queue' \in Seq(Events) /\ Len(queue') <= Len(queue) + 1
    <3>1. Emit("event")
      OBVIOUS
    <3>2. QED
      BY <3>1, EmitTypes
  <2>3. TypeOK'
    BY <2>1, <2>2
  <2>4. StepInv' /\ QueueInv' /\ TaskInv'
    BY <2>2
  <2>5. CancelInv'
    BY DEF Flags, CancelInv, CancelIsHeard
  <2>6. QED
    BY <2>3, <2>4, <2>5
<1>10. CASE RunGoesOn
  <2> USE <1>10 DEF RunGoesOn, Works, NextStep
  <2>1. Flags'
    BY DEF Flags
  <2>2. queue' \in Seq(Events) /\ Len(queue') <= Len(queue) + 1
    <3>1. Emit("event")
      OBVIOUS
    <3>2. QED
      BY <3>1, EmitTypes
  <2>3. TypeOK'
    BY <2>1, <2>2
  <2>4. StepInv' /\ QueueInv' /\ TaskInv'
    BY <2>2
  <2>5. CancelInv'
    BY DEF Flags, CancelInv, CancelIsHeard
  <2>6. QED
    BY <2>3, <2>4, <2>5
<1>11. CASE ToolCall
  <2> USE <1>11 DEF ToolCall, Works, ToolStart, ToolEnd
  <2>1. Flags'
    BY DEF Flags
  <2>2. queue' \in Seq(Events) /\ Len(queue') <= Len(queue) + 1
    <3>1. Emit("event")
      OBVIOUS
    <3>2. QED
      BY <3>1, EmitTypes
  <2>3. TypeOK'
    BY <2>1, <2>2
  <2>4. StepInv' /\ QueueInv' /\ TaskInv'
    BY <2>2
  <2>5. CancelInv'
    BY DEF Flags, CancelInv, CancelIsHeard
  <2>6. QED
    BY <2>3, <2>4, <2>5
<1>12. CASE ToolDenied
  <2> USE <1>12 DEF ToolDenied, Works, ToolEnd
  <2>1. Flags'
    BY DEF Flags
  <2>2. queue' \in Seq(Events) /\ Len(queue') <= Len(queue) + 1
    <3>1. Emit("event")
      OBVIOUS
    <3>2. QED
      BY <3>1, EmitTypes
  <2>3. TypeOK'
    BY <2>1, <2>2
  <2>4. StepInv' /\ QueueInv' /\ TaskInv'
    BY <2>2
  <2>5. CancelInv'
    BY DEF Flags, CancelInv, CancelIsHeard
  <2>6. QED
    BY <2>3, <2>4, <2>5
<1>13. CASE RunEnds
  <2> USE <1>13 DEF RunEnds, End, OutcomeFits
  <2>1. Flags'
    BY DEF Flags
  <2>2. queue' \in Seq(Events) /\ Len(queue') <= Len(queue) + 1
    <3>1. Emit("run_end")
      OBVIOUS
    <3>2. QED
      BY <3>1, EmitTypes
  <2>3. TypeOK'
    BY <2>1, <2>2
  <2>4. StepInv' /\ QueueInv' /\ TaskInv'
    BY <2>2
  <2>5. CancelInv'
    BY DEF Flags, CancelInv, CancelIsHeard
  <2>6. QED
    BY <2>3, <2>4, <2>5
<1>14. CASE RunReturns
  <2> USE <1>14 DEF RunReturns, Return
  <2>1. Flags'
    BY DEF Flags
  <2>2. UNCHANGED queue
    OBVIOUS
  <2>3. TypeOK'
    BY <2>1, <2>2
  <2>4. StepInv' /\ QueueInv' /\ TaskInv'
    BY <2>2
  <2>5. CancelInv'
    BY DEF Flags, CancelInv, CancelIsHeard
  <2>6. QED
    BY <2>3, <2>4, <2>5
<1>15. CASE Cancel
  <2> USE <1>15 DEF Cancel, Registered
  <2>1. Flags'
    BY DEF Flags
  <2>2. UNCHANGED queue
    OBVIOUS
  <2>3. TypeOK'
    BY <2>1, <2>2
  <2>4. StepInv' /\ QueueInv' /\ TaskInv'
    BY <2>2
  <2>5. CancelInv'
    BY DEF Flags, CancelInv, CancelIsHeard
  <2>6. QED
    BY <2>3, <2>4, <2>5
<1>16. CASE UNCHANGED allVars
  BY <1>16 DEF Flags, CancelInv, CancelIsHeard
<1>17. QED
  BY <1>1, <1>2, <1>3, <1>4, <1>5, <1>6, <1>7, <1>8, <1>9, <1>10, <1>11, <1>12, <1>13,
     <1>14, <1>15, <1>16
  DEF StreamNext, StreamStep

-------------------------------------------------------------------------------
THEOREM Safety == StreamSpec => []StreamInv
<1>1. QED
  BY InvInit, InvNext, PTL DEF StreamSpec

\* The variables of the agent and of its stream stay in their types.
THEOREM StreamTypeCorrect == StreamSpec => []TypeOK
<1>1. StreamInv => TypeOK
  BY DEF StreamInv
<1>2. QED
  BY <1>1, Safety, PTL

\* Whether its reader stays or leaves, a run is over when its generator is: no
\* task of the agent is left behind (agent.py:106-112).
THEOREM NoRunIsLeftBehind == StreamSpec => []NoRunOutlivesItsStream
<1>1. StreamInv => NoRunOutlivesItsStream
  BY DEF StreamInv, TaskInv, NoRunOutlivesItsStream
<1>2. QED
  BY <1>1, Safety, PTL

\* A cancellation called before the status is resolved keeps the run from being
\* reported as completed, even one that comes before the run (agent.py:68-72, 296).
THEOREM CancelIsNeverLost == StreamSpec => []CancelIsHeard
<1>1. StreamInv => CancelIsHeard
  BY DEF StreamInv, CancelInv
<1>2. QED
  BY <1>1, Safety, PTL
-------------------------------------------------------------------------------
(* The result.  Without a run_end hook nobody moves between run_end and the   *)
(* return, so a reader that was handed run_end finds the task done.           *)

\* run_end is on its way to the reader, or has reached it, only once it was emitted.
EndTold ==
    /\ \A i \in DOMAIN queue : queue[i] = "run_end" => stage \in {"ending", "over"}
    /\ reader = "delivered" => stage \in {"ending", "over"}

ResultInv ==
    /\ EndTold
    /\ stage = "over" => task = "done"
    /\ ~hook /\ stage = "ending" => task = "running"
    /\ ~hook /\ reader = "waiting" => left
    /\ ResultIsTheOutcome

LEMMA EmitTells ==
  ASSUME queue \in Seq({"event", "run_end"}), NEW e \in {"event", "run_end"}, Emit(e), EndTold,
         UNCHANGED reader,
         e = "run_end" => stage' \in {"ending", "over"},
         stage \in {"ending", "over"} => stage' \in {"ending", "over"}
  PROVE  EndTold'
<1>1. ASSUME NEW i \in DOMAIN queue', queue'[i] = "run_end"
      PROVE  stage' \in {"ending", "over"}
  <2>1. CASE i \in DOMAIN queue /\ queue'[i] = queue[i]
    BY <1>1, <2>1 DEF EndTold
  <2>2. CASE queue'[i] = e
    BY <1>1, <2>2
  <2>3. (i \in DOMAIN queue /\ queue'[i] = queue[i]) \/ queue'[i] = e
    BY <1>1 DEF Emit
  <2>4. QED
    BY <2>1, <2>2, <2>3
<1>2. QED
  BY <1>1 DEF EndTold

LEMMA ResultNext == StreamInv /\ ResultInv /\ [StreamNext]_allVars => ResultInv'
<1> SUFFICES ASSUME StreamInv, ResultInv, [StreamNext]_allVars PROVE ResultInv'
  OBVIOUS
<1> USE DEF StreamInv, TypeOK, TaskInv, ResultInv, ResultIsTheOutcome, Suspended,
            vars, streamVars, cancelVars, allVars
<1> DEFINE Events == {"event", "run_end"}
<1>1. CASE Prepare
  <2> USE <1>1 DEF Prepare
  <2>1. EndTold'
    BY DEF EndTold
  <2>2. QED
    BY <2>1 DEF EndTold
<1>2. CASE PrepareFails
  <2> USE <1>2 DEF PrepareFails
  <2>1. EndTold'
    BY DEF EndTold
  <2>2. QED
    BY <2>1 DEF EndTold
<1>3. CASE Read
  <2> USE <1>3 DEF Read
  <2>1. EndTold'
    <3>1. queue # <<>> /\ queue' = Tail(queue) /\ UNCHANGED stage
      OBVIOUS
    <3>2. \A i \in DOMAIN queue' : i + 1 \in DOMAIN queue /\ queue'[i] = queue[i + 1]
      BY <3>1
    <3>3. 1 \in DOMAIN queue /\ Head(queue) = queue[1]
      BY <3>1
    <3>4. QED
      BY <3>1, <3>2, <3>3 DEF EndTold
  <2>2. QED
    BY <2>1 DEF EndTold
<1>4. CASE CloseAfterRunEnd
  <2> USE <1>4 DEF CloseAfterRunEnd, Close, Settle, CancelsTask
  <2>1. EndTold'
    BY DEF EndTold
  <2>2. QED
    BY <2>1 DEF EndTold
<1>5. CASE Leave
  <2> USE <1>5 DEF Leave, Close, Settle, CancelsTask
  <2>1. EndTold'
    BY DEF EndTold
  <2>2. QED
    BY <2>1 DEF EndTold
<1>6. CASE TaskCancelled
  <2> USE <1>6 DEF TaskCancelled
  <2>1. EndTold'
    BY DEF EndTold
  <2>2. QED
    BY <2>1 DEF EndTold
<1>7. CASE Awaited
  <2> USE <1>7 DEF Awaited, Settle
  <2>1. EndTold'
    BY DEF EndTold
  <2>2. QED
    BY <2>1 DEF EndTold
<1>8. CASE TaskStarts
  <2> USE <1>8 DEF TaskStarts
  <2>1. EndTold'
    <3>1. Emit("event")
      OBVIOUS
    <3>2. QED
      BY <3>1, EmitTells
  <2>2. QED
    BY <2>1 DEF EndTold
<1>9. CASE RunBegins
  <2> USE <1>9 DEF RunBegins, Works, FirstStep
  <2>1. EndTold'
    <3>1. Emit("event")
      OBVIOUS
    <3>2. QED
      BY <3>1, EmitTells
  <2>2. QED
    BY <2>1 DEF EndTold
<1>10. CASE RunGoesOn
  <2> USE <1>10 DEF RunGoesOn, Works, NextStep
  <2>1. EndTold'
    <3>1. Emit("event")
      OBVIOUS
    <3>2. QED
      BY <3>1, EmitTells
  <2>2. QED
    BY <2>1 DEF EndTold
<1>11. CASE ToolCall
  <2> USE <1>11 DEF ToolCall, Works, ToolStart, ToolEnd
  <2>1. EndTold'
    <3>1. Emit("event")
      OBVIOUS
    <3>2. QED
      BY <3>1, EmitTells
  <2>2. QED
    BY <2>1 DEF EndTold
<1>12. CASE ToolDenied
  <2> USE <1>12 DEF ToolDenied, Works, ToolEnd
  <2>1. EndTold'
    <3>1. Emit("event")
      OBVIOUS
    <3>2. QED
      BY <3>1, EmitTells
  <2>2. QED
    BY <2>1 DEF EndTold
<1>13. CASE RunEnds
  <2> USE <1>13 DEF RunEnds, End
  <2>1. EndTold'
    <3>1. Emit("run_end")
      OBVIOUS
    <3>2. QED
      BY <3>1, EmitTells
  <2>2. QED
    BY <2>1 DEF EndTold
<1>14. CASE RunReturns
  <2> USE <1>14 DEF RunReturns, Return
  <2>1. EndTold'
    BY DEF EndTold
  <2>2. QED
    BY <2>1 DEF EndTold
<1>15. CASE Cancel
  <2> USE <1>15 DEF Cancel
  <2>1. EndTold'
    BY DEF EndTold
  <2>2. QED
    BY <2>1 DEF EndTold
<1>16. CASE UNCHANGED allVars
  BY <1>16 DEF EndTold
<1>17. QED
  BY <1>1, <1>2, <1>3, <1>4, <1>5, <1>6, <1>7, <1>8, <1>9, <1>10, <1>11, <1>12, <1>13,
     <1>14, <1>15, <1>16
  DEF StreamNext, StreamStep

\* A reader that stayed gets, from a run without a run_end hook, the status it was
\* shown: last_run_result is the outcome of run_end (agent.py:106-125).
THEOREM ResultIsTrue == StreamSpec => []ResultIsTheOutcome
<1>1. StreamInit => ResultInv
  BY DEF StreamInit, Init, ResultInv, EndTold, ResultIsTheOutcome
<1>2. ResultInv => ResultIsTheOutcome
  BY DEF ResultInv
<1>3. QED
  BY <1>1, <1>2, ResultNext, Safety, PTL DEF StreamSpec
===============================================================================
