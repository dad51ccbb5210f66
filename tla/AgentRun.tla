------------------------------- MODULE AgentRun -------------------------------
(***************************************************************************)
(* One run of an agent: AgentLoopRunner.run_until_done (loop/base.py), the *)
(* ReActLoop it drives (loop/react.py), the privilege gate every tool call *)
(* goes through (policy/privilege.py) and DefaultAgent.cancel (agent.py).  *)
(*                                                                         *)
(* The code runs on one asyncio loop: an action is what happens between    *)
(* two awaits.  With parallel tool calls (asyncio.gather) the calls of a   *)
(* reply interleave, without they follow each other; a cancellation can    *)
(* arrive at every await.                                                  *)
(*                                                                         *)
(* Abstractions: a message is what kind it is and which step and call it   *)
(* belongs to; the content of a tool result is whether it is an error and  *)
(* whether it holds the word "denied", which resolve_status looks for.     *)
(* The trimming and compaction of the window are ContextWindow's subject:  *)
(* here the window stays below max_window_messages.                        *)
(***************************************************************************)
EXTENDS Naturals, Sequences, FiniteSets

CONSTANTS MaxSteps,  \* LoopConfig.max_steps
          MaxCalls   \* bound: the most tool calls of one reply

ASSUME ConstantsAssumption == MaxSteps \in Nat \ {0} /\ MaxCalls \in Nat \ {0}

VARIABLES parallel,  \* LoopConfig.parallel_tool_calls
          flaky,     \* the approval port may raise (a messenger port may, the web port not)
          phase,     \* where run_until_done is
          steps,     \* ctx.step_index
          calls,     \* the tool calls of the step's reply and how far each got
          window,    \* ctx.window
          cancelled, \* ctx.cancelled
          error,     \* ctx.error is set
          last,      \* the kind of the last reply
          status,    \* the status of the run_end event
          asked,     \* history: agent.cancel was called before the status was resolved
          refused,   \* history: an approval of this run was denied
          spent      \* history: the token budget was exceeded

control == <<parallel, flaky>>
history == <<asked, refused, spent>>
vars == <<control, phase, steps, calls, window, cancelled, error, last, status, history>>

Phases == {"starting", "thinking", "calling", "remembering", "ending", "returned"}
CallPC == {"todo", "gate", "ask", "wait", "invoke", "done", "raised"}
Call == [pc : CallPC, err : BOOLEAN, denied : BOOLEAN]
Message == [kind : {"user", "calls", "result", "answer"}, step : Nat, nth : Nat]
Statuses == {"none", "completed", "max_steps", "cancelled", "denied", "error"}

Running == phase \in {"starting", "thinking", "calling", "remembering"}

Flags ==
    /\ parallel \in BOOLEAN
    /\ flaky \in BOOLEAN
    /\ cancelled \in BOOLEAN
    /\ error \in BOOLEAN
    /\ asked \in BOOLEAN
    /\ refused \in BOOLEAN
    /\ spent \in BOOLEAN

TypeOK ==
    /\ phase \in Phases
    /\ steps \in 0..MaxSteps
    /\ calls \in Seq(Call)
    /\ Len(calls) <= MaxCalls
    /\ window \in Seq(Message)
    /\ last \in {"none", "answer", "silent", "calls"}
    /\ status \in Statuses
    /\ Flags

\* run_start was emitted, its hook is awaited.  A run can be cancelled before it
\* begins: agent.cancel keeps the id of a run it does not know yet.
Init ==
    /\ parallel \in BOOLEAN /\ flaky \in BOOLEAN
    /\ phase = "starting"
    /\ steps = 0
    /\ calls = <<>>
    /\ window = <<[kind |-> "user", step |-> 0, nth |-> 0]>>
    /\ cancelled \in BOOLEAN
    /\ error = FALSE
    /\ last = "none"
    /\ status = "none"
    /\ asked = cancelled
    /\ refused = FALSE
    /\ spent = FALSE

Entry(kind, i) == [kind |-> kind, step |-> steps, nth |-> i]

-------------------------------------------------------------------------------
(* Pieces of the actions, each next to the mutants the runs use.              *)

AllDone == \A i \in DOMAIN calls : calls[i].pc = "done"

\* ReActLoop.should_continue, after the step index was advanced.
MutContinuesForEver(n) == ~cancelled /\ ~(last = "answer")
Continues(n) == ~cancelled /\ ~(last = "answer") /\ n < MaxSteps

\* resolve_status(ctx, last) when n steps were made.
Denied ==
    /\ \E i \in DOMAIN calls : calls[i].err
    /\ \E i \in DOMAIN calls : calls[i].denied

MutResolve(n) ==
    IF error THEN "error"
    ELSE IF last = "answer" THEN "completed"
    ELSE IF cancelled THEN IF Denied THEN "denied" ELSE "cancelled"
    ELSE "max_steps"
Resolve(n) ==
    IF error THEN "error"
    ELSE IF cancelled THEN IF Denied THEN "denied" ELSE "cancelled"
    ELSE IF last = "answer" THEN "completed"
    ELSE "max_steps"

\* What _invoke_all returns to step: the results in the order of the calls.
MutResults == SelectSeq([i \in DOMAIN calls |-> Entry("result", i)],
                        LAMBDA m : ~calls[m.nth].err)
Results == [i \in DOMAIN calls |-> Entry("result", i)]

\* asyncio.gather starts every call at once, the loop one after the other.
Startable(i) == calls[i].pc = "todo" /\ (parallel \/ \A k \in 1..(i - 1) : calls[k].pc = "done")

\* asyncio.gather returns when every call returned.
MutGathered == \E i \in DOMAIN calls : calls[i].pc = "done"
MutGatheredClean == AllDone /\ \A i \in DOMAIN calls : ~calls[i].err
Gathered == AllDone

-------------------------------------------------------------------------------
(* The runner.                                                                *)

\* _end_run: run_end is emitted with its status, then the run_end hook awaited.
EndRun(s) ==
    /\ phase' = "ending"
    /\ status' = s

\* First turn of the loop of run_until_done, not cancelled: step_start.
FirstStep ==
    /\ phase = "starting"
    /\ ~cancelled
    /\ phase' = "thinking"
    /\ UNCHANGED <<control, steps, calls, window, cancelled, error, last, status, history>>

\* First turn of the loop, cancelled before any step.
CancelledAtStart ==
    /\ phase = "starting"
    /\ cancelled
    /\ EndRun(Resolve(steps))
    /\ UNCHANGED <<control, steps, calls, window, cancelled, error, last, history>>

\* The reply takes the run over LoopConfig.max_total_tokens: the run is marked
\* as failed and cancelled, but the step goes on.
Spend ==
    \E over \in BOOLEAN :
        /\ spent' = over
        /\ error' = over
        /\ cancelled' = (cancelled \/ over)

\* The model answers with text and no tool calls.
Answer ==
    /\ phase = "thinking"
    /\ phase' = "remembering"
    /\ Spend
    /\ last' = "answer"
    /\ calls' = <<>>
    /\ window' = Append(window, Entry("answer", 0))
    /\ UNCHANGED <<control, steps, status, asked, refused>>

\* The model answers with neither: nothing is appended, the step is not done.
Silence ==
    /\ phase = "thinking"
    /\ phase' = "remembering"
    /\ Spend
    /\ last' = "silent"
    /\ calls' = <<>>
    /\ UNCHANGED <<control, steps, window, status, asked, refused>>

\* The model asks for n tools; its message enters the window before they run.
CallTools ==
    /\ phase = "thinking"
    /\ phase' = "calling"
    /\ Spend
    /\ last' = "calls"
    /\ \E n \in 1..MaxCalls :
         /\ calls' = [i \in 1..n |-> [pc |-> "todo", err |-> FALSE, denied |-> FALSE]]
         /\ window' = Append(window, Entry("calls", n))
    /\ UNCHANGED <<control, steps, status, asked, refused>>

\* loop.step raised: recall, the model, an approval port or remember.  gather
\* has started every call by the time the first exception reaches it.
StepRaises ==
    /\ \/ phase \in {"thinking", "remembering"}
       \/ /\ phase = "calling"
          /\ \E i \in DOMAIN calls : calls[i].pc = "raised"
          /\ parallel => \A i \in DOMAIN calls : calls[i].pc # "todo"
    /\ error' = TRUE
    /\ EndRun("error")
    /\ UNCHANGED <<control, steps, calls, window, cancelled, last, history>>

\* Every call returned: the results enter the window in the order of the calls.
CollectResults ==
    /\ phase = "calling"
    /\ Gathered
    /\ phase' = "remembering"
    /\ window' = window \o Results
    /\ UNCHANGED <<control, steps, calls, cancelled, error, last, status, history>>

\* step returned: step_end, and either the next step_start or the end.
NextStep ==
    /\ phase = "remembering"
    /\ Continues(steps + 1)
    /\ steps' = steps + 1
    /\ phase' = "thinking"
    /\ UNCHANGED <<control, calls, window, cancelled, error, last, status, history>>

LastStep ==
    /\ phase = "remembering"
    /\ ~Continues(steps + 1)
    /\ steps' = steps + 1
    /\ EndRun(Resolve(steps + 1))
    /\ UNCHANGED <<control, calls, window, cancelled, error, last, history>>

\* The run_end hook is over, run_until_done returns.
Return ==
    /\ phase = "ending"
    /\ phase' = "returned"
    /\ UNCHANGED <<control, steps, calls, window, cancelled, error, last, status, history>>

-------------------------------------------------------------------------------
(* One tool call: ReActLoop._invoke_one and ToolPrivilegeGate.  A call whose  *)
(* sibling raised out of asyncio.gather keeps running.                        *)

MoveCall(i, from, to) ==
    /\ i \in DOMAIN calls
    /\ calls[i].pc = from
    /\ calls' = [calls EXCEPT ![i].pc = to]

\* The call is over with an error or not, and with "denied" in its text or not.
EndCall(i, from, errs) ==
    /\ i \in DOMAIN calls
    /\ calls[i].pc = from
    /\ \E e \in errs, d \in BOOLEAN :
         calls' = [calls EXCEPT ![i] = [pc |-> "done", err |-> e, denied |-> d]]

QuietCall == UNCHANGED <<control, phase, steps, window, error, last, status, asked, spent>>

\* tool_start; arguments that did not parse and unknown tools are tool errors.
RejectCall(i) ==
    /\ phase = "calling" /\ i \in DOMAIN calls /\ Startable(i)
    /\ EndCall(i, "todo", {TRUE})
    /\ QuietCall /\ UNCHANGED <<cancelled, refused>>

\* tool_start; the gate runs the pre_tool_use hook.
StartCall(i) ==
    /\ phase = "calling" /\ i \in DOMAIN calls /\ Startable(i)
    /\ MoveCall(i, "todo", "gate")
    /\ QuietCall /\ UNCHANGED <<cancelled, refused>>

\* The hook, a missing approval port or the sandbox refuses: a tool error.
GateRefuses(i) ==
    /\ EndCall(i, "gate", {TRUE})
    /\ QuietCall /\ UNCHANGED <<cancelled, refused>>

\* No approval needed: snapshot, then the tool runs.
GateAdmits(i) ==
    /\ MoveCall(i, "gate", "invoke")
    /\ QuietCall /\ UNCHANGED <<cancelled, refused>>

\* Approval needed: request_approval is awaited.
GateAsks(i) ==
    /\ MoveCall(i, "gate", "ask")
    /\ QuietCall /\ UNCHANGED <<cancelled, refused>>

\* approval_required, then wait_decision is awaited.
Asked(i) ==
    /\ MoveCall(i, "ask", "wait")
    /\ QuietCall /\ UNCHANGED <<cancelled, refused>>

\* The port raises out of request_approval or wait_decision.
PortRaises(i) ==
    /\ flaky
    /\ MoveCall(i, "ask", "raised") \/ MoveCall(i, "wait", "raised")
    /\ QuietCall /\ UNCHANGED <<cancelled, refused>>

\* approval_granted: snapshot, then the tool runs.
Grant(i) ==
    /\ MoveCall(i, "wait", "invoke")
    /\ QuietCall /\ UNCHANGED <<cancelled, refused>>

\* approval_denied, by the user or by the timeout of the port.
MutDenyCancels == cancelled
DenyCancels == TRUE

Deny(i) ==
    /\ EndCall(i, "wait", {TRUE})
    /\ cancelled' = DenyCancels
    /\ refused' = TRUE
    /\ QuietCall

\* The tool and the post_tool_use hook are over; a tool's exceptions are errors.
InvokeEnds(i) ==
    /\ EndCall(i, "invoke", BOOLEAN)
    /\ QuietCall /\ UNCHANGED <<cancelled, refused>>

CallStep(i) ==
    \/ RejectCall(i) \/ StartCall(i) \/ GateRefuses(i) \/ GateAdmits(i) \/ GateAsks(i)
    \/ Asked(i) \/ PortRaises(i) \/ Grant(i) \/ Deny(i) \/ InvokeEnds(i)

-------------------------------------------------------------------------------
(* DefaultAgent.cancel, at any await of the run.                              *)
Cancel ==
    /\ phase # "returned"
    /\ cancelled' = TRUE
    /\ asked' = (asked \/ Running)
    /\ UNCHANGED <<control, phase, steps, calls, window, error, last, status, refused, spent>>

RunnerStep ==
    \/ FirstStep \/ CancelledAtStart \/ Answer \/ Silence \/ CallTools \/ StepRaises
    \/ CollectResults \/ NextStep \/ LastStep \/ Return

Progress == RunnerStep \/ \E i \in 1..MaxCalls : CallStep(i)

Next == Progress \/ Cancel

Spec == Init /\ [][Next]_vars

\* The event loop keeps running whatever is ready: a model request, a hook and a
\* tool end or time out, and every approval is decided or times out.  Nobody is
\* obliged to cancel.
FairSpec == Spec /\ WF_vars(Progress)
-------------------------------------------------------------------------------
(* Properties.                                                                *)

\* Every message that asks for tools is followed by one result per call, in the
\* order of the calls, and no result stands anywhere else.
PairedAt(p) ==
    /\ window[p].kind = "calls" =>
         \A k \in 1..window[p].nth :
             /\ p + k \in DOMAIN window
             /\ window[p + k] = [kind |-> "result", step |-> window[p].step, nth |-> k]
    /\ window[p].kind = "result" =>
         LET q == p - window[p].nth IN
         q \in DOMAIN window /\ window[q].kind = "calls" /\ window[p].nth <= window[q].nth

Paired == \A p \in DOMAIN window : PairedAt(p)

\* The model never sees, and a run that ends without an error never hands on, a
\* tool call without its result: model providers refuse such a history.  The
\* calls of a step may end in any order and some of them in errors (react.py:137-146).
PairedHistory == phase = "thinking" \/ status \notin {"none", "error"} => Paired

\* Once an approval was denied or the token budget exceeded, the model is not
\* asked again, whatever the other calls of the step do (usage.py:7).
StopIsFinal == refused \/ spent => phase # "thinking"

\* The status of run_end tells how the run went: completed and max_steps only for
\* a run nothing stopped, denied and cancelled only for one somebody stopped.
StatusTellsTheEnd ==
    /\ status = "completed" => ~asked /\ ~refused /\ ~spent /\ window[Len(window)].kind = "answer"
    /\ status = "max_steps" => ~asked /\ ~refused /\ ~spent /\ steps = MaxSteps
    /\ status \in {"denied", "cancelled"} => (asked \/ refused) /\ ~spent

\* Whoever stops a run stops it for good and is told so.
StopIsHonoured == StopIsFinal /\ StatusTellsTheEnd

\* After run_end no tool call of the run is under way and the history it hands on
\* does not change, unless an approval port raised in a parallel step.
QuietAfterEnd ==
    [][~Running /\ ~(parallel /\ flaky /\ status = "error") => UNCHANGED <<calls, window>>]_vars

\* Every run ends: replies without text and without calls, denials, errors and
\* cancellations included.
Terminates == <>(phase = "returned")

\* What architecture.md:234 says of agent.cancel: a run that was cancelled, in
\* which no approval was denied and nothing failed, reports cancelled.
CancelReportsCancelled ==
    status # "none" /\ asked /\ ~refused /\ ~error => status = "cancelled"

\* What loops.md:138 says of parallel calls: a call that fails does not disturb
\* the others, so the run does not end before they returned.
FailureSparesSiblings ==
    status # "none" /\ parallel =>
        \A i \in DOMAIN calls : calls[i].pc \in {"done", "raised"}

\* The events of the run follow RunProtocol.
Stage ==
    CASE phase = "starting" -> "starting"
      [] phase \in {"thinking", "calling", "remembering"} -> "step"
      [] phase = "ending" -> "ending"
      [] phase = "returned" -> "over"
Open == Cardinality({i \in DOMAIN calls : calls[i].pc \notin {"todo", "done"}})
Protocol == INSTANCE RunProtocol
              WITH stage <- Stage, step <- steps, open <- Open, outcome <- status
RefinesProtocol == Protocol!Spec
===============================================================================
