------------------------------- MODULE RunStream -------------------------------
(***************************************************************************)
(* DefaultAgent.run_stream (agent.py): a run, which follows RunProtocol,   *)
(* executes in an asyncio task of its own and puts its events on a queue   *)
(* of the EventBus (events/bus.py); a generator hands them to a reader     *)
(* that may go away at any time, closes the queue, stops the task and      *)
(* records the result of the run in last_run_result.  DefaultAgent.cancel  *)
(* can be called at any time, before the run as well as after it.          *)
(*                                                                         *)
(* Everything runs on one event loop.  A run without a run_end hook does   *)
(* not suspend between the run_end event and its return: Suspended says    *)
(* when the loop may turn to somebody else.  An event on the queue is      *)
(* whether it is run_end.  The queue of the code has no limit; Backlog     *)
(* bounds it here.                                                         *)
(***************************************************************************)
EXTENDS RunProtocol, Sequences

CONSTANT Backlog  \* bound: how far the reader may fall behind

ASSUME BoundsAssumption ==
    /\ MaxSteps \in Nat \ {0}
    /\ MaxCalls \in Nat
    /\ Backlog \in Nat \ {0}

VARIABLES hook,     \* a run_end hook is configured
          task,     \* the task of the run
          queue,    \* the events the reader has not taken yet
          reader,   \* where the generator is
          stopped,  \* ctx.cancelled
          marked,   \* the run's id is in _cancelled_runs
          result,   \* the status of last_run_result
          left,     \* history: the reader went away before run_end reached it
          called    \* history: cancel was called before the status was resolved

streamVars == <<queue, reader, result, left>>
cancelVars == <<stopped, marked, called>>
allVars == <<vars, hook, task, streamVars, cancelVars>>

Flags ==
    /\ hook \in BOOLEAN
    /\ stopped \in BOOLEAN
    /\ marked \in BOOLEAN
    /\ called \in BOOLEAN
    /\ left \in BOOLEAN

TypeOK ==
    /\ stage \in {"starting", "step", "ending", "over"}
    /\ step \in 0..MaxSteps
    /\ open \in 0..MaxCalls
    /\ outcome \in Outcomes \cup {"none"}
    /\ task \in {"none", "ready", "running", "done", "cancelling", "cancelled"}
    /\ queue \in Seq({"event", "run_end"})
    /\ Len(queue) <= Backlog + 1
    /\ reader \in {"preparing", "reading", "delivered", "waiting", "finished", "failed"}
    /\ result \in Outcomes \cup {"none"}
    /\ Flags

StreamInit ==
    /\ Init
    /\ hook \in BOOLEAN
    /\ task = "none"
    /\ queue = <<>>
    /\ reader = "preparing"
    /\ stopped = FALSE /\ marked = FALSE /\ called = FALSE
    /\ result = "none"
    /\ left = FALSE

\* The run is at an await, so that somebody else may move.
MutSuspended == TRUE
Suspended == hook \/ stage # "ending"

\* The queue still hangs on the bus.
Attached == reader \in {"reading", "delivered"}

\* EventBus.emit: the event goes to every queue on the bus.
MutEmitNoEnd(event) == queue' = IF Attached /\ event # "run_end" THEN Append(queue, event) ELSE queue
MutEmitTwice(event) == queue' = IF Attached THEN queue \o <<event, event>> ELSE queue
Emit(event) == queue' = IF Attached THEN Append(queue, event) ELSE queue

\* The finally block of run_stream takes the run off the agent's books.
Settle(s) ==
    /\ reader' = "finished"
    /\ result' = s
    /\ marked' = FALSE

-------------------------------------------------------------------------------
(* The generator.                                                             *)

\* _prepare_context; the context starts out cancelled if the id is marked, and
\* nothing is awaited between that look and the registration of the context.
MutStartsStopped == FALSE
StartsStopped == marked

Prepare ==
    /\ reader = "preparing"
    /\ reader' = "reading"
    /\ task' = "ready"
    /\ stopped' = StartsStopped
    /\ UNCHANGED <<vars, hook, queue, result, left, marked, called>>

\* _prepare_context raises: a context package is required and missing.
PrepareFails ==
    /\ reader = "preparing"
    /\ reader' = "failed"
    /\ UNCHANGED <<vars, hook, task, queue, result, left, cancelVars>>

\* The reader takes the next event; after run_end the generator leaves its loop
\* as soon as the reader comes back for more.
Read ==
    /\ Suspended
    /\ reader = "reading"
    /\ queue # <<>>
    /\ queue' = Tail(queue)
    /\ reader' = IF Head(queue) = "run_end" THEN "delivered" ELSE "reading"
    /\ UNCHANGED <<vars, hook, task, result, left, cancelVars>>

\* The finally block of run_stream: the queue is taken off the bus; a task that
\* is still running is cancelled and awaited.
MutLetsRun == reader' = "finished" /\ result' = "error" /\ UNCHANGED <<task, marked>>
CancelsTask ==
    /\ task' = "cancelling"
    /\ reader' = "waiting"
    /\ UNCHANGED <<result, marked>>

Close ==
    /\ IF task = "done" THEN Settle(outcome) /\ UNCHANGED task ELSE CancelsTask
    /\ UNCHANGED <<vars, hook, queue, stopped, called>>

CloseAfterRunEnd ==
    /\ Suspended
    /\ reader = "delivered"
    /\ Close
    /\ UNCHANGED left

\* The reader goes away: GeneratorExit or a cancelled request.
Leave ==
    /\ Suspended
    /\ reader = "reading"
    /\ Close
    /\ left' = TRUE

\* CancelledError unwinds the task wherever it is: no run_end, no result.
TaskCancelled ==
    /\ task = "cancelling"
    /\ task' = "cancelled"
    /\ UNCHANGED <<vars, hook, streamVars, cancelVars>>

\* Awaiting the cancelled task raises: the result is an error.
Awaited ==
    /\ reader = "waiting"
    /\ task = "cancelled"
    /\ Settle("error")
    /\ UNCHANGED <<vars, hook, task, queue, left, stopped, called>>

-------------------------------------------------------------------------------
(* The run: RunProtocol's steps, each with its event.                         *)

TaskStarts ==
    /\ task = "ready"
    /\ task' = "running"
    /\ Emit("event")
    /\ UNCHANGED <<vars, hook, reader, result, left, cancelVars>>

\* ctx.cancelled is looked at before each step and decides the outcome.
OutcomeFits(s) == stopped <=> s \in {"cancelled", "denied"}

Works(step_taken) ==
    /\ task = "running"
    /\ Suspended
    /\ Len(queue) < Backlog
    /\ step_taken
    /\ Emit("event")
    /\ UNCHANGED <<hook, task, reader, result, left, marked, called>>

RunBegins == Works(~stopped /\ FirstStep /\ UNCHANGED stopped)

RunGoesOn == Works(~stopped /\ NextStep /\ UNCHANGED stopped)

ToolCall == Works((ToolStart \/ ToolEnd) /\ UNCHANGED stopped)

\* An approval is denied.
ToolDenied == Works(stage = "step" /\ ToolEnd /\ stopped' = TRUE)

RunEnds ==
    /\ task = "running"
    /\ \E s \in Outcomes : (OutcomeFits(s) \/ s = "error") /\ End(s)
    /\ Emit("run_end")
    /\ UNCHANGED <<hook, task, reader, result, left, cancelVars>>

RunReturns ==
    /\ task = "running"
    /\ Return
    /\ task' = "done"
    /\ UNCHANGED <<hook, streamVars, cancelVars>>

-------------------------------------------------------------------------------
(* DefaultAgent.cancel: the id is marked, the context too if the run has one. *)
Registered == reader \in {"reading", "delivered", "waiting"}

Cancel ==
    /\ Suspended
    /\ marked' = TRUE
    /\ stopped' = (stopped \/ Registered)
    /\ called' = (called \/ outcome = "none")
    /\ UNCHANGED <<vars, hook, task, streamVars>>

StreamStep ==
    \/ Prepare \/ Read \/ CloseAfterRunEnd \/ TaskCancelled \/ Awaited
    \/ TaskStarts \/ RunBegins \/ RunEnds \/ RunReturns

StreamNext == StreamStep \/ PrepareFails \/ RunGoesOn \/ ToolCall \/ ToolDenied \/ Leave \/ Cancel

StreamSpec == StreamInit /\ [][StreamNext]_allVars

\* The event loop keeps running what is ready and the reader keeps reading; the
\* run may do as many tool calls as it likes but ends (AgentRun, Terminates).
StreamFairSpec ==
    /\ StreamSpec
    /\ WF_allVars(Prepare) /\ WF_allVars(Read) /\ WF_allVars(CloseAfterRunEnd)
    /\ WF_allVars(TaskCancelled) /\ WF_allVars(Awaited) /\ WF_allVars(TaskStarts)
    /\ WF_allVars(RunBegins) /\ SF_allVars(RunEnds) /\ WF_allVars(RunReturns)

-------------------------------------------------------------------------------
(* Properties.                                                                *)

\* Once the generator is through, so is the task of the run: it does not go on
\* changing files for a reader that left.
NoRunOutlivesItsStream == reader = "finished" => task \in {"done", "cancelled"}

\* A reader that stayed gets, without a run_end hook, the status it was shown.
ResultIsTheOutcome == reader = "finished" /\ ~left /\ ~hook => result = outcome

\* A cancel at any moment before the status is resolved, also before the run
\* began, is heard: the run does not complete (agent.py:68-72, 296).
CancelIsHeard == called => outcome \notin {"completed", "max_steps"}

\* The stream of a reader that keeps reading ends, one way or another.
StreamEnds == <>(reader \in {"finished", "failed"})

\* Lifecycle hooks do not block a run (hooks.py:231, base.py:208): the result of
\* a stream read to its end is the outcome, hook or no hook.
HookLeavesResultAlone == reader = "finished" /\ ~left => result = outcome
===============================================================================
