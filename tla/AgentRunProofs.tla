---------------------------- MODULE AgentRunProofs ----------------------------
(***************************************************************************)
(* Proofs about AgentRun, for every max_steps and every number of calls in *)
(* a reply: its types, the properties its run checks, save termination,    *)
(* and that it implements RunProtocol.  The argument rests on where calls  *)
(* can be under way (CallsInv), on what a stop leaves behind (StopInv) and *)
(* on the shape of the window while the calls of a step are out            *)
(* (HistoryInv).                                                           *)
(***************************************************************************)
EXTENDS AgentRun, FiniteSetTheorems, TLAPS

\* What cancelled, error and the history of stops say of each other.
StopInv ==
    /\ status = "none" <=> Running
    /\ Running => steps < MaxSteps
    /\ refused \/ spent => cancelled
    /\ asked /\ Running => cancelled
    /\ Running => (error <=> spent)
    /\ spent => error
    /\ cancelled /\ Running => asked \/ refused \/ spent
    /\ phase = "starting" => ~refused /\ ~spent
    /\ phase = "calling" => last = "calls"
    /\ phase = "remembering" /\ last = "answer" => window[Len(window)].kind = "answer"

\* Calls are under way only in the calling phase, or after a port raised in a
\* parallel step; without gather one call at a time is.
Settled == {"todo", "done", "raised"}
CallsInv ==
    /\ phase # "calling" /\ status # "error" => AllDone
    /\ \A i \in DOMAIN calls : calls[i].pc = "raised" => flaky
    /\ ~parallel =>
         \A j, k \in DOMAIN calls : j < k /\ calls[k].pc # "todo" => calls[j].pc = "done"
    /\ status = "error" /\ ~(parallel /\ flaky) =>
         \A i \in DOMAIN calls : calls[i].pc \in Settled

RunInv == TypeOK /\ StopInv /\ CallsInv /\ StopIsFinal /\ StatusTellsTheEnd

-------------------------------------------------------------------------------
(* What one step of a call does to the sequence of calls.                     *)

LEMMA MoveCallEffect ==
  ASSUME calls \in Seq(Call), NEW i, NEW from, NEW to \in CallPC, MoveCall(i, from, to)
  PROVE  /\ i \in DOMAIN calls
         /\ calls[i].pc = from
         /\ calls' \in Seq(Call)
         /\ Len(calls') = Len(calls)
         /\ DOMAIN calls' = DOMAIN calls
         /\ calls'[i].pc = to
         /\ \A k \in DOMAIN calls : k # i => calls'[k] = calls[k]
<1>1. i \in DOMAIN calls /\ calls[i].pc = from /\ calls' = [calls EXCEPT ![i].pc = to]
  BY DEF MoveCall
<1>2. calls[i] \in Call
  BY <1>1
<1>3. [calls[i] EXCEPT !.pc = to] \in Call /\ [calls[i] EXCEPT !.pc = to].pc = to
  BY <1>2 DEF Call
<1>4. calls' = [calls EXCEPT ![i] = [calls[i] EXCEPT !.pc = to]]
  BY <1>1
<1>5. PICK c \in Call : c.pc = to /\ calls' = [calls EXCEPT ![i] = c]
  BY <1>3, <1>4
<1>6. QED
  BY <1>1, <1>5

LEMMA EndCallEffect ==
  ASSUME calls \in Seq(Call), NEW i, NEW from, NEW errs \in SUBSET BOOLEAN, EndCall(i, from, errs)
  PROVE  /\ i \in DOMAIN calls
         /\ calls[i].pc = from
         /\ calls' \in Seq(Call)
         /\ Len(calls') = Len(calls)
         /\ DOMAIN calls' = DOMAIN calls
         /\ calls'[i].pc = "done"
         /\ \A k \in DOMAIN calls : k # i => calls'[k] = calls[k]
<1>1. PICK e \in errs, d \in BOOLEAN :
        calls' = [calls EXCEPT ![i] = [pc |-> "done", err |-> e, denied |-> d]]
  BY DEF EndCall
<1>2. e \in BOOLEAN
  OBVIOUS
<1>3. [pc |-> "done", err |-> e, denied |-> d] \in Call
  BY <1>2 DEF Call, CallPC
<1>4. i \in DOMAIN calls /\ calls[i].pc = from
  BY DEF EndCall
<1>5. QED
  BY <1>1, <1>3, <1>4

\* A call that moves keeps the order among the calls, and moves only while the
\* step waits for it or after a sibling raised.
LEMMA CallKeepsOrder ==
  ASSUME RunInv, NEW i \in DOMAIN calls,
         calls[i].pc \notin Settled \/ (phase = "calling" /\ Startable(i)),
         DOMAIN calls' = DOMAIN calls,
         calls'[i].pc # "todo",
         calls'[i].pc = "raised" => flaky,
         \A k \in DOMAIN calls : k # i => calls'[k] = calls[k],
         UNCHANGED <<parallel, flaky, phase, status>>
  PROVE  CallsInv' /\ phase \in {"calling", "ending", "returned"}
<1> USE DEF RunInv, TypeOK, Flags, StopInv, Settled, Running
<1>0. DOMAIN calls \subseteq Nat
  BY DEF RunInv, TypeOK
<1>1. phase = "calling" \/ (status = "error" /\ parallel /\ flaky)
  BY DEF CallsInv, AllDone, Startable
<1>2. phase \in {"calling", "ending", "returned"}
  BY <1>1 DEF Phases
<1>3. (phase # "calling" /\ status # "error" => AllDone)'
  BY <1>1
<1>4. (\A k \in DOMAIN calls : calls[k].pc = "raised" => flaky)'
  BY DEF CallsInv
<1>5. (~parallel =>
         \A j, k \in DOMAIN calls : j < k /\ calls[k].pc # "todo" => calls[j].pc = "done")'
  <2> SUFFICES ASSUME ~parallel, NEW j \in DOMAIN calls, NEW k \in DOMAIN calls,
                      j < k, calls'[k].pc # "todo"
               PROVE  calls'[j].pc = "done"
    OBVIOUS
  <2>1. calls[k].pc # "todo" => calls[j].pc = "done"
    BY DEF CallsInv
  <2>2. CASE k = i
    BY <1>0, <2>1, <2>2 DEF Startable
  <2>3. CASE k # i
    BY <1>0, <2>1, <2>3 DEF Startable
  <2>4. QED
    BY <2>2, <2>3
<1>6. (status = "error" /\ ~(parallel /\ flaky) => \A k \in DOMAIN calls : calls[k].pc \in Settled)'
  BY <1>1
<1>7. QED
  BY <1>2, <1>3, <1>4, <1>5, <1>6 DEF CallsInv

-------------------------------------------------------------------------------
LEMMA SpendEffect ==
  ASSUME Spend, cancelled \in BOOLEAN
  PROVE  /\ spent' \in BOOLEAN /\ error' \in BOOLEAN /\ cancelled' \in BOOLEAN
         /\ error' <=> spent'
         /\ cancelled' <=> (cancelled \/ spent')
BY DEF Spend

LEMMA ResolveEffect ==
  ASSUME Flags, NEW n
  PROVE  /\ Resolve(n) \in {"completed", "max_steps", "cancelled", "denied", "error"}
         /\ Resolve(n) = "error" <=> error
         /\ Resolve(n) = "completed" <=> ~error /\ ~cancelled /\ last = "answer"
         /\ Resolve(n) = "max_steps" <=> ~error /\ ~cancelled /\ last # "answer"
         /\ Resolve(n) \in {"cancelled", "denied"} <=> ~error /\ cancelled
BY DEF Resolve, Flags

LEMMA RunInvInit == Init => RunInv
<1> SUFFICES ASSUME Init PROVE RunInv
  OBVIOUS
<1> USE ConstantsAssumption DEF ConstantsAssumption, Init
<1>1. Flags
  BY DEF Flags
<1>2. window \in Seq(Message)
  BY DEF Message
<1>3. TypeOK
  BY <1>1, <1>2 DEF TypeOK, Phases, Statuses
<1>4. StopInv /\ StopIsFinal /\ StatusTellsTheEnd
  BY DEF StopInv, Running, StopIsFinal, StatusTellsTheEnd
<1>5. CallsInv
  BY DEF CallsInv, AllDone
<1>6. QED
  BY <1>3, <1>4, <1>5 DEF RunInv

LEMMA RunInvNext == RunInv /\ [Next]_vars => RunInv'
<1> SUFFICES ASSUME RunInv, [Next]_vars PROVE RunInv'
  OBVIOUS
<1> USE ConstantsAssumption
      DEF ConstantsAssumption, RunInv, TypeOK, Phases, Statuses, vars, control, history
<1>1. CASE FirstStep
  <2> USE <1>1 DEF FirstStep
  <2>1. Flags'
    BY DEF Flags
  <2>4. TypeOK'
    BY <2>1 DEF StopInv, Running
  <2>5. StopInv'
    BY DEF Flags, StopInv, Running
  <2>6. CallsInv'
    BY DEF CallsInv, AllDone, StopInv, Running, Settled
  <2>7. StopIsFinal' /\ StatusTellsTheEnd'
    BY DEF Flags, StopInv, Running, StopIsFinal, StatusTellsTheEnd
  <2>8. QED
    BY <2>4, <2>5, <2>6, <2>7
<1>2. CASE CancelledAtStart
  <2> USE <1>2 DEF CancelledAtStart, EndRun
  <2>0. /\ status' \in {"completed", "max_steps", "cancelled", "denied", "error"}
        /\ status' = "error" <=> error
        /\ status' = "completed" <=> ~error /\ ~cancelled /\ last = "answer"
        /\ status' = "max_steps" <=> ~error /\ ~cancelled /\ last # "answer"
        /\ status' \in {"cancelled", "denied"} <=> ~error /\ cancelled
    BY ResolveEffect DEF Flags, EndRun
  <2>1. Flags'
    BY <2>0 DEF Flags
  <2>4. TypeOK'
    BY <2>1, <2>0 DEF StopInv, Running
  <2>5. StopInv'
    BY <2>0 DEF Flags, StopInv, Running, StopIsFinal
  <2>6. CallsInv'
    BY <2>0 DEF CallsInv, AllDone, StopInv, Running, Settled
  <2>7. StopIsFinal' /\ StatusTellsTheEnd'
    BY <2>0 DEF Flags, StopInv, Running, StopIsFinal, StatusTellsTheEnd
  <2>8. QED
    BY <2>4, <2>5, <2>6, <2>7
<1>3. CASE Answer
  <2> USE <1>3 DEF Answer
  <2>0. /\ spent' \in BOOLEAN /\ error' \in BOOLEAN /\ cancelled' \in BOOLEAN
        /\ error' <=> spent'
        /\ cancelled' <=> (cancelled \/ spent')
    BY SpendEffect DEF Flags
  <2>1. Flags'
    BY <2>0 DEF Flags
  <2>2. /\ window' \in Seq(Message)
        /\ window'[Len(window')].kind = "answer"
    BY DEF Message, Entry
  <2>4. TypeOK'
    BY <2>1, <2>0, <2>2 DEF StopInv, Running
  <2>5. StopInv'
    BY <2>0, <2>2 DEF Flags, StopInv, Running, StopIsFinal
  <2>6. CallsInv'
    BY <2>0, <2>2 DEF CallsInv, AllDone, StopInv, Running, Settled
  <2>7. StopIsFinal' /\ StatusTellsTheEnd'
    BY <2>0, <2>2 DEF Flags, StopInv, Running, StopIsFinal, StatusTellsTheEnd
  <2>8. QED
    BY <2>4, <2>5, <2>6, <2>7
<1>4. CASE Silence
  <2> USE <1>4 DEF Silence
  <2>0. /\ spent' \in BOOLEAN /\ error' \in BOOLEAN /\ cancelled' \in BOOLEAN
        /\ error' <=> spent'
        /\ cancelled' <=> (cancelled \/ spent')
    BY SpendEffect DEF Flags
  <2>1. Flags'
    BY <2>0 DEF Flags
  <2>4. TypeOK'
    BY <2>1, <2>0 DEF StopInv, Running
  <2>5. StopInv'
    BY <2>0 DEF Flags, StopInv, Running, StopIsFinal
  <2>6. CallsInv'
    BY <2>0 DEF CallsInv, AllDone, StopInv, Running, Settled
  <2>7. StopIsFinal' /\ StatusTellsTheEnd'
    BY <2>0 DEF Flags, StopInv, Running, StopIsFinal, StatusTellsTheEnd
  <2>8. QED
    BY <2>4, <2>5, <2>6, <2>7
<1>5. CASE CallTools
  <2> USE <1>5 DEF CallTools
  <2>0. /\ spent' \in BOOLEAN /\ error' \in BOOLEAN /\ cancelled' \in BOOLEAN
        /\ error' <=> spent'
        /\ cancelled' <=> (cancelled \/ spent')
    BY SpendEffect DEF Flags
  <2>1. Flags'
    BY <2>0 DEF Flags
  <2>2. PICK n \in 1..MaxCalls :
          /\ calls' = [i \in 1..n |-> [pc |-> "todo", err |-> FALSE, denied |-> FALSE]]
          /\ window' = Append(window, Entry("calls", n))
    OBVIOUS
  <2>3. /\ window' \in Seq(Message)
        /\ calls' \in Seq(Call) /\ Len(calls') <= MaxCalls
        /\ \A i \in DOMAIN calls' : calls'[i].pc = "todo"
    BY <2>2 DEF Message, Entry, Call, CallPC
  <2>4. TypeOK'
    BY <2>1, <2>0, <2>3 DEF StopInv, Running
  <2>5. StopInv'
    BY <2>0, <2>3 DEF Flags, StopInv, Running, StopIsFinal
  <2>6. CallsInv'
    BY <2>0, <2>3 DEF CallsInv, AllDone, StopInv, Running, Settled
  <2>7. StopIsFinal' /\ StatusTellsTheEnd'
    BY <2>0, <2>3 DEF Flags, StopInv, Running, StopIsFinal, StatusTellsTheEnd
  <2>8. QED
    BY <2>4, <2>5, <2>6, <2>7
<1>6. CASE StepRaises
  <2> USE <1>6 DEF StepRaises, EndRun
  <2>1. Flags'
    BY DEF Flags
  <2>4. TypeOK'
    BY <2>1 DEF StopInv, Running
  <2>5. StopInv'
    BY DEF Flags, StopInv, Running
  <2>6. CallsInv'
    BY DEF CallsInv, AllDone, StopInv, Running, Settled
  <2>7. StopIsFinal' /\ StatusTellsTheEnd'
    BY DEF Flags, StopInv, Running, StopIsFinal, StatusTellsTheEnd
  <2>8. QED
    BY <2>4, <2>5, <2>6, <2>7
<1>7. CASE CollectResults
  <2> USE <1>7 DEF CollectResults, Gathered
  <2>1. Flags'
    BY DEF Flags
  <2>2. window' \in Seq(Message)
    <3>1. DOMAIN calls = 1..Len(calls) /\ Len(calls) \in Nat
      OBVIOUS
    <3>2. \A i \in DOMAIN calls : Entry("result", i) \in Message
      BY <3>1 DEF Entry, Message
    <3>3. Results \in Seq(Message)
      BY <3>1, <3>2 DEF Results
    <3>4. QED
      BY <3>3
  <2>4. TypeOK'
    BY <2>1, <2>2 DEF StopInv, Running
  <2>5. StopInv'
    BY <2>2 DEF Flags, StopInv, Running
  <2>6. CallsInv'
    BY <2>2 DEF CallsInv, AllDone, StopInv, Running, Settled
  <2>7. StopIsFinal' /\ StatusTellsTheEnd'
    BY <2>2 DEF Flags, StopInv, Running, StopIsFinal, StatusTellsTheEnd
  <2>8. QED
    BY <2>4, <2>5, <2>6, <2>7
<1>8. CASE NextStep
  <2> USE <1>8 DEF NextStep, Continues
  <2>1. Flags'
    BY DEF Flags
  <2>4. TypeOK'
    BY <2>1 DEF StopInv, Running
  <2>5. StopInv'
    BY DEF Flags, StopInv, Running
  <2>6. CallsInv'
    BY DEF CallsInv, AllDone, StopInv, Running, Settled
  <2>7. StopIsFinal' /\ StatusTellsTheEnd'
    BY DEF Flags, StopInv, Running, StopIsFinal, StatusTellsTheEnd
  <2>8. QED
    BY <2>4, <2>5, <2>6, <2>7
<1>9. CASE LastStep
  <2> USE <1>9 DEF LastStep, EndRun, Continues
  <2>0. /\ status' \in {"completed", "max_steps", "cancelled", "denied", "error"}
        /\ status' = "error" <=> error
        /\ status' = "completed" <=> ~error /\ ~cancelled /\ last = "answer"
        /\ status' = "max_steps" <=> ~error /\ ~cancelled /\ last # "answer"
        /\ status' \in {"cancelled", "denied"} <=> ~error /\ cancelled
    BY ResolveEffect DEF Flags, EndRun
  <2>1. Flags'
    BY <2>0 DEF Flags
  <2>4. TypeOK'
    BY <2>1, <2>0 DEF StopInv, Running
  <2>5. StopInv'
    BY <2>0 DEF Flags, StopInv, Running, StopIsFinal
  <2>6. CallsInv'
    BY <2>0 DEF CallsInv, AllDone, StopInv, Running, Settled
  <2>7. StopIsFinal' /\ StatusTellsTheEnd'
    BY <2>0 DEF Flags, StopInv, Running, StopIsFinal, StatusTellsTheEnd
  <2>8. QED
    BY <2>4, <2>5, <2>6, <2>7
<1>10. CASE Return
  <2> USE <1>10 DEF Return
  <2>1. Flags'
    BY DEF Flags
  <2>4. TypeOK'
    BY <2>1 DEF StopInv, Running
  <2>5. StopInv'
    BY DEF Flags, StopInv, Running
  <2>6. CallsInv'
    BY DEF CallsInv, AllDone, StopInv, Running, Settled
  <2>7. StopIsFinal' /\ StatusTellsTheEnd'
    BY DEF Flags, StopInv, Running, StopIsFinal, StatusTellsTheEnd
  <2>8. QED
    BY <2>4, <2>5, <2>6, <2>7
<1>11. CASE Cancel
  <2> USE <1>11 DEF Cancel, Running
  <2>1. Flags'
    BY DEF Flags
  <2>4. TypeOK'
    BY <2>1 DEF StopInv, Running
  <2>5. StopInv'
    BY DEF Flags, StopInv, Running
  <2>6. CallsInv'
    BY DEF CallsInv, AllDone, StopInv, Running, Settled
  <2>7. StopIsFinal' /\ StatusTellsTheEnd'
    BY DEF Flags, StopInv, Running, StopIsFinal, StatusTellsTheEnd
  <2>8. QED
    BY <2>4, <2>5, <2>6, <2>7
<1>12. ASSUME NEW i \in 1..MaxCalls, RejectCall(i) PROVE RunInv'
  <2> USE <1>12 DEF RejectCall, QuietCall
  <2>1. EndCall(i, "todo", {TRUE})
    OBVIOUS
  <2>2. /\ i \in DOMAIN calls /\ calls[i].pc = "todo"
        /\ calls' \in Seq(Call) /\ Len(calls') = Len(calls) /\ DOMAIN calls' = DOMAIN calls
        /\ calls'[i].pc = "done"
        /\ \A k \in DOMAIN calls : k # i => calls'[k] = calls[k]
    BY <2>1, EndCallEffect DEF CallPC
  <2>3. CallsInv' /\ phase \in {"calling", "ending", "returned"}
    BY <2>2, CallKeepsOrder DEF Settled
  <2>4. Flags'
    BY DEF Flags
  <2>5. TypeOK'
    BY <2>2, <2>4
  <2>6. StopInv'
    BY <2>3 DEF Flags, StopInv, Running
  <2>7. StopIsFinal' /\ StatusTellsTheEnd'
    BY DEF StopIsFinal, StatusTellsTheEnd
  <2>8. QED
    BY <2>3, <2>5, <2>6, <2>7
<1>13. ASSUME NEW i \in 1..MaxCalls, StartCall(i) PROVE RunInv'
  <2> USE <1>13 DEF StartCall, QuietCall
  <2>1. MoveCall(i, "todo", "gate")
    OBVIOUS
  <2>2. /\ i \in DOMAIN calls /\ calls[i].pc = "todo"
        /\ calls' \in Seq(Call) /\ Len(calls') = Len(calls) /\ DOMAIN calls' = DOMAIN calls
        /\ calls'[i].pc = "gate"
        /\ \A k \in DOMAIN calls : k # i => calls'[k] = calls[k]
    BY <2>1, MoveCallEffect DEF CallPC
  <2>3. CallsInv' /\ phase \in {"calling", "ending", "returned"}
    BY <2>2, CallKeepsOrder DEF Settled
  <2>4. Flags'
    BY DEF Flags
  <2>5. TypeOK'
    BY <2>2, <2>4
  <2>6. StopInv'
    BY <2>3 DEF Flags, StopInv, Running
  <2>7. StopIsFinal' /\ StatusTellsTheEnd'
    BY DEF StopIsFinal, StatusTellsTheEnd
  <2>8. QED
    BY <2>3, <2>5, <2>6, <2>7
<1>14. ASSUME NEW i \in 1..MaxCalls, GateRefuses(i) PROVE RunInv'
  <2> USE <1>14 DEF GateRefuses, QuietCall
  <2>1. EndCall(i, "gate", {TRUE})
    OBVIOUS
  <2>2. /\ i \in DOMAIN calls /\ calls[i].pc = "gate"
        /\ calls' \in Seq(Call) /\ Len(calls') = Len(calls) /\ DOMAIN calls' = DOMAIN calls
        /\ calls'[i].pc = "done"
        /\ \A k \in DOMAIN calls : k # i => calls'[k] = calls[k]
    BY <2>1, EndCallEffect DEF CallPC
  <2>3. CallsInv' /\ phase \in {"calling", "ending", "returned"}
    BY <2>2, CallKeepsOrder DEF Settled
  <2>4. Flags'
    BY DEF Flags
  <2>5. TypeOK'
    BY <2>2, <2>4
  <2>6. StopInv'
    BY <2>3 DEF Flags, StopInv, Running
  <2>7. StopIsFinal' /\ StatusTellsTheEnd'
    BY DEF StopIsFinal, StatusTellsTheEnd
  <2>8. QED
    BY <2>3, <2>5, <2>6, <2>7
<1>15. ASSUME NEW i \in 1..MaxCalls, GateAdmits(i) PROVE RunInv'
  <2> USE <1>15 DEF GateAdmits, QuietCall
  <2>1. MoveCall(i, "gate", "invoke")
    OBVIOUS
  <2>2. /\ i \in DOMAIN calls /\ calls[i].pc = "gate"
        /\ calls' \in Seq(Call) /\ Len(calls') = Len(calls) /\ DOMAIN calls' = DOMAIN calls
        /\ calls'[i].pc = "invoke"
        /\ \A k \in DOMAIN calls : k # i => calls'[k] = calls[k]
    BY <2>1, MoveCallEffect DEF CallPC
  <2>3. CallsInv' /\ phase \in {"calling", "ending", "returned"}
    BY <2>2, CallKeepsOrder DEF Settled
  <2>4. Flags'
    BY DEF Flags
  <2>5. TypeOK'
    BY <2>2, <2>4
  <2>6. StopInv'
    BY <2>3 DEF Flags, StopInv, Running
  <2>7. StopIsFinal' /\ StatusTellsTheEnd'
    BY DEF StopIsFinal, StatusTellsTheEnd
  <2>8. QED
    BY <2>3, <2>5, <2>6, <2>7
<1>16. ASSUME NEW i \in 1..MaxCalls, GateAsks(i) PROVE RunInv'
  <2> USE <1>16 DEF GateAsks, QuietCall
  <2>1. MoveCall(i, "gate", "ask")
    OBVIOUS
  <2>2. /\ i \in DOMAIN calls /\ calls[i].pc = "gate"
        /\ calls' \in Seq(Call) /\ Len(calls') = Len(calls) /\ DOMAIN calls' = DOMAIN calls
        /\ calls'[i].pc = "ask"
        /\ \A k \in DOMAIN calls : k # i => calls'[k] = calls[k]
    BY <2>1, MoveCallEffect DEF CallPC
  <2>3. CallsInv' /\ phase \in {"calling", "ending", "returned"}
    BY <2>2, CallKeepsOrder DEF Settled
  <2>4. Flags'
    BY DEF Flags
  <2>5. TypeOK'
    BY <2>2, <2>4
  <2>6. StopInv'
    BY <2>3 DEF Flags, StopInv, Running
  <2>7. StopIsFinal' /\ StatusTellsTheEnd'
    BY DEF StopIsFinal, StatusTellsTheEnd
  <2>8. QED
    BY <2>3, <2>5, <2>6, <2>7
<1>17. ASSUME NEW i \in 1..MaxCalls, Asked(i) PROVE RunInv'
  <2> USE <1>17 DEF Asked, QuietCall
  <2>1. MoveCall(i, "ask", "wait")
    OBVIOUS
  <2>2. /\ i \in DOMAIN calls /\ calls[i].pc = "ask"
        /\ calls' \in Seq(Call) /\ Len(calls') = Len(calls) /\ DOMAIN calls' = DOMAIN calls
        /\ calls'[i].pc = "wait"
        /\ \A k \in DOMAIN calls : k # i => calls'[k] = calls[k]
    BY <2>1, MoveCallEffect DEF CallPC
  <2>3. CallsInv' /\ phase \in {"calling", "ending", "returned"}
    BY <2>2, CallKeepsOrder DEF Settled
  <2>4. Flags'
    BY DEF Flags
  <2>5. TypeOK'
    BY <2>2, <2>4
  <2>6. StopInv'
    BY <2>3 DEF Flags, StopInv, Running
  <2>7. StopIsFinal' /\ StatusTellsTheEnd'
    BY DEF StopIsFinal, StatusTellsTheEnd
  <2>8. QED
    BY <2>3, <2>5, <2>6, <2>7
<1>18. ASSUME NEW i \in 1..MaxCalls, PortRaises(i) PROVE RunInv'
  <2> USE <1>18 DEF PortRaises, QuietCall
  <2>1. \E from \in {"ask", "wait"} : MoveCall(i, from, "raised")
    OBVIOUS
  <2>2. /\ i \in DOMAIN calls /\ calls[i].pc \in {"ask", "wait"}
        /\ calls' \in Seq(Call) /\ Len(calls') = Len(calls) /\ DOMAIN calls' = DOMAIN calls
        /\ calls'[i].pc = "raised"
        /\ \A k \in DOMAIN calls : k # i => calls'[k] = calls[k]
    BY <2>1, MoveCallEffect DEF CallPC
  <2>3. CallsInv' /\ phase \in {"calling", "ending", "returned"}
    BY <2>2, CallKeepsOrder DEF Settled
  <2>4. Flags'
    BY DEF Flags
  <2>5. TypeOK'
    BY <2>2, <2>4
  <2>6. StopInv'
    BY <2>3 DEF Flags, StopInv, Running
  <2>7. StopIsFinal' /\ StatusTellsTheEnd'
    BY DEF StopIsFinal, StatusTellsTheEnd
  <2>8. QED
    BY <2>3, <2>5, <2>6, <2>7
<1>19. ASSUME NEW i \in 1..MaxCalls, Grant(i) PROVE RunInv'
  <2> USE <1>19 DEF Grant, QuietCall
  <2>1. MoveCall(i, "wait", "invoke")
    OBVIOUS
  <2>2. /\ i \in DOMAIN calls /\ calls[i].pc = "wait"
        /\ calls' \in Seq(Call) /\ Len(calls') = Len(calls) /\ DOMAIN calls' = DOMAIN calls
        /\ calls'[i].pc = "invoke"
        /\ \A k \in DOMAIN calls : k # i => calls'[k] = calls[k]
    BY <2>1, MoveCallEffect DEF CallPC
  <2>3. CallsInv' /\ phase \in {"calling", "ending", "returned"}
    BY <2>2, CallKeepsOrder DEF Settled
  <2>4. Flags'
    BY DEF Flags
  <2>5. TypeOK'
    BY <2>2, <2>4
  <2>6. StopInv'
    BY <2>3 DEF Flags, StopInv, Running
  <2>7. StopIsFinal' /\ StatusTellsTheEnd'
    BY DEF StopIsFinal, StatusTellsTheEnd
  <2>8. QED
    BY <2>3, <2>5, <2>6, <2>7
<1>20. ASSUME NEW i \in 1..MaxCalls, Deny(i) PROVE RunInv'
  <2> USE <1>20 DEF Deny, DenyCancels, QuietCall
  <2>1. EndCall(i, "wait", {TRUE})
    OBVIOUS
  <2>2. /\ i \in DOMAIN calls /\ calls[i].pc = "wait"
        /\ calls' \in Seq(Call) /\ Len(calls') = Len(calls) /\ DOMAIN calls' = DOMAIN calls
        /\ calls'[i].pc = "done"
        /\ \A k \in DOMAIN calls : k # i => calls'[k] = calls[k]
    BY <2>1, EndCallEffect DEF CallPC
  <2>3. CallsInv' /\ phase \in {"calling", "ending", "returned"}
    BY <2>2, CallKeepsOrder DEF Settled
  <2>4. Flags'
    BY DEF Flags
  <2>5. TypeOK'
    BY <2>2, <2>4
  <2>6. StopInv'
    BY <2>3 DEF Flags, StopInv, Running
  <2>7. StopIsFinal' /\ StatusTellsTheEnd'
    <3>1. status \notin {"completed", "max_steps"} /\ phase # "thinking"
      BY <2>2, <2>3 DEF CallsInv, AllDone, StopInv, Running
    <3>2. QED
      BY <3>1 DEF StopIsFinal, StatusTellsTheEnd
  <2>8. QED
    BY <2>3, <2>5, <2>6, <2>7
<1>21. ASSUME NEW i \in 1..MaxCalls, InvokeEnds(i) PROVE RunInv'
  <2> USE <1>21 DEF InvokeEnds, QuietCall
  <2>1. EndCall(i, "invoke", BOOLEAN)
    OBVIOUS
  <2>2. /\ i \in DOMAIN calls /\ calls[i].pc = "invoke"
        /\ calls' \in Seq(Call) /\ Len(calls') = Len(calls) /\ DOMAIN calls' = DOMAIN calls
        /\ calls'[i].pc = "done"
        /\ \A k \in DOMAIN calls : k # i => calls'[k] = calls[k]
    BY <2>1, EndCallEffect DEF CallPC
  <2>3. CallsInv' /\ phase \in {"calling", "ending", "returned"}
    BY <2>2, CallKeepsOrder DEF Settled
  <2>4. Flags'
    BY DEF Flags
  <2>5. TypeOK'
    BY <2>2, <2>4
  <2>6. StopInv'
    BY <2>3 DEF Flags, StopInv, Running
  <2>7. StopIsFinal' /\ StatusTellsTheEnd'
    BY DEF StopIsFinal, StatusTellsTheEnd
  <2>8. QED
    BY <2>3, <2>5, <2>6, <2>7
<1>22. CASE UNCHANGED vars
  BY <1>22 DEF Flags, StopInv, Running, CallsInv, AllDone, Settled, StopIsFinal, StatusTellsTheEnd
<1>23. QED
  BY <1>1, <1>2, <1>3, <1>4, <1>5, <1>6, <1>7, <1>8, <1>9, <1>10, <1>11, <1>12, <1>13,
     <1>14, <1>15, <1>16, <1>17, <1>18, <1>19, <1>20, <1>21, <1>22
  DEF Next, Progress, RunnerStep, CallStep

-------------------------------------------------------------------------------
THEOREM RunInvHolds == Spec => []RunInv
<1>1. QED
  BY RunInvInit, RunInvNext, PTL DEF Spec

\* The variables of a run stay in their types; the step index never exceeds
\* max_steps (base.py:245, react.py:268).
THEOREM RunTypeCorrect == Spec => []TypeOK
<1>1. RunInv => TypeOK
  BY DEF RunInv
<1>2. QED
  BY <1>1, RunInvHolds, PTL

\* A denied approval or an exhausted budget ends the run: the model is not asked
\* again (privilege.py:329, react.py:105-119).
THEOREM StopsForGood == Spec => []StopIsFinal
<1>1. RunInv => StopIsFinal
  BY DEF RunInv
<1>2. QED
  BY <1>1, RunInvHolds, PTL

\* The status of run_end agrees with what happened in the run (base.py:156-171).
THEOREM StatusIsTrue == Spec => []StatusTellsTheEnd
<1>1. RunInv => StatusTellsTheEnd
  BY DEF RunInv
<1>2. QED
  BY <1>1, RunInvHolds, PTL

\* A stop is for good, and the status says so.
THEOREM StopIsKept == Spec => []StopIsHonoured
<1>1. StopIsFinal /\ StatusTellsTheEnd => StopIsHonoured
  BY DEF StopIsHonoured
<1>2. QED
  BY <1>1, StopsForGood, StatusIsTrue, PTL

-------------------------------------------------------------------------------
(* After run_end: no call is in a state from which it can move.               *)
LEMMA QuietStep ==
  RunInv /\ [Next]_vars =>
    (~Running /\ ~(parallel /\ flaky /\ status = "error") => UNCHANGED <<calls, window>>)
<1> SUFFICES ASSUME RunInv, [Next]_vars,
                    ~Running, ~(parallel /\ flaky /\ status = "error")
             PROVE  UNCHANGED <<calls, window>>
  OBVIOUS
<1> USE DEF RunInv, TypeOK, Phases, vars
<1>1. phase \in {"ending", "returned"}
  BY DEF Running
<1>2. \A i \in DOMAIN calls : calls[i].pc \in Settled
  BY <1>1 DEF CallsInv, AllDone, Settled
<1>3. CASE \E i \in 1..MaxCalls : CallStep(i)
  <2>1. PICK i \in 1..MaxCalls : CallStep(i)
    BY <1>3
  <2>2. ~RejectCall(i) /\ ~StartCall(i)
    BY <1>1 DEF RejectCall, StartCall
  <2>3. ~GateRefuses(i) /\ ~GateAdmits(i) /\ ~GateAsks(i)
    BY <1>2 DEF GateRefuses, GateAdmits, GateAsks, MoveCall, EndCall, Settled
  <2>4. ~Asked(i) /\ ~PortRaises(i) /\ ~Grant(i)
    BY <1>2 DEF Asked, PortRaises, Grant, MoveCall, Settled
  <2>5. ~Deny(i) /\ ~InvokeEnds(i)
    BY <1>2 DEF Deny, InvokeEnds, EndCall, Settled
  <2>6. QED
    BY <2>1, <2>2, <2>3, <2>4, <2>5 DEF CallStep
<1>4. CASE RunnerStep
  BY <1>1, <1>4
  DEF RunnerStep, FirstStep, CancelledAtStart, Answer, Silence, CallTools, StepRaises,
      CollectResults, NextStep, LastStep, Return
<1>5. CASE Cancel
  BY <1>5 DEF Cancel
<1>6. QED
  BY <1>3, <1>4, <1>5 DEF Next, Progress

\* What a run hands on does not change any more once run_end is out, unless a
\* port raised in a parallel step (base.py:194-195, react.py:184-185).
THEOREM QuietOnceEnded == Spec => QuietAfterEnd
<1>1. RunInv /\ [Next]_vars =>
        [~Running /\ ~(parallel /\ flaky /\ status = "error") => UNCHANGED <<calls, window>>]_vars
  BY QuietStep
<1>2. QED
  BY <1>1, RunInvHolds, PTL DEF Spec, QuietAfterEnd

-------------------------------------------------------------------------------
(* The shape of the window.                                                   *)

PairedUpTo(n) == \A p \in 1..n : PairedAt(p)

HistoryInv ==
    /\ phase \in {"starting", "thinking", "remembering"} \/ status \notin {"none", "error"} =>
         PairedUpTo(Len(window))
    /\ phase = "calling" =>
         /\ Len(window) > 0
         /\ PairedUpTo(Len(window) - 1)
         /\ window[Len(window)] = [kind |-> "calls", step |-> steps, nth |-> Len(calls)]

\* What follows in the window does not disturb a pair.
Extended ==
    /\ DOMAIN window \subseteq DOMAIN window'
    /\ \A p \in DOMAIN window : window'[p] = window[p]

LEMMA PairedKept ==
  ASSUME Extended
  PROVE  \A p \in DOMAIN window : PairedAt(p) => PairedAt(p)'
<1>1. SUFFICES ASSUME NEW p \in DOMAIN window, PairedAt(p) PROVE PairedAt(p)'
  OBVIOUS
<1>2. window'[p] = window[p]
  BY DEF Extended
<1>3. ASSUME window[p].kind = "calls", NEW k \in 1..window[p].nth
      PROVE  /\ p + k \in DOMAIN window'
             /\ window'[p + k] = [kind |-> "result", step |-> window[p].step, nth |-> k]
  <2>1. /\ p + k \in DOMAIN window
        /\ window[p + k] = [kind |-> "result", step |-> window[p].step, nth |-> k]
    BY <1>1, <1>3 DEF PairedAt
  <2>2. QED
    BY <2>1 DEF Extended
<1>4. ASSUME window[p].kind = "result"
      PROVE  LET q == p - window[p].nth IN
             q \in DOMAIN window' /\ window'[q].kind = "calls" /\ window[p].nth <= window'[q].nth
  BY <1>1, <1>4 DEF PairedAt, Extended
<1>5. QED
  BY <1>2, <1>3, <1>4 DEF PairedAt

LEMMA HistoryInit == Init => HistoryInv
BY DEF Init, HistoryInv, PairedUpTo, PairedAt

LEMMA HistoryNext == RunInv /\ HistoryInv /\ [Next]_vars => HistoryInv'
<1> SUFFICES ASSUME RunInv, HistoryInv, [Next]_vars PROVE HistoryInv'
  OBVIOUS
<1> USE DEF RunInv, TypeOK, vars, control, history
<1>1. CASE Answer
  <2>1. Entry("answer", 0) \in Message /\ Entry("answer", 0).kind = "answer"
    BY DEF Entry, Message
  <2>2. PairedUpTo(Len(window))
    BY <1>1 DEF Answer, HistoryInv
  <2>3. window' = window \o <<Entry("answer", 0)>> /\ phase' = "remembering"
    BY <1>1, <2>1 DEF Answer
  <2>4. PairedUpTo(Len(window))'
    <3>1. Extended /\ DOMAIN window = 1..Len(window)
      BY <2>1, <2>3 DEF Extended
    <3>2. Len(window') = Len(window) + 1 /\ window'[Len(window) + 1].kind = "answer"
      BY <2>1, <2>3
    <3>3. \A p \in 1..Len(window) : PairedAt(p)'
      BY <2>2, <3>1, PairedKept DEF PairedUpTo
    <3>4. QED
      <4>1. SUFFICES ASSUME NEW p \in 1..(Len(window) + 1) PROVE PairedAt(p)'
        BY <3>2 DEF PairedUpTo
      <4>2. p \in 1..Len(window) \/ p = Len(window) + 1
        BY <3>1
      <4>3. p = Len(window) + 1 => PairedAt(p)'
        BY <3>2 DEF PairedAt
      <4>4. QED
        BY <3>3, <4>2, <4>3
  <2>5. QED
    BY <2>3, <2>4 DEF HistoryInv
<1>2. CASE CallTools
  <2>1. PICK n \in 1..MaxCalls :
          /\ calls' = [i \in 1..n |-> [pc |-> "todo", err |-> FALSE, denied |-> FALSE]]
          /\ window' = Append(window, Entry("calls", n))
    BY <1>2 DEF CallTools
  <2>2. Entry("calls", n) \in Message /\ Len(calls') = n
    BY <2>1 DEF Entry, Message
  <2>3. window' = window \o <<Entry("calls", n)>>
    BY <2>1, <2>2
  <2>4. PairedUpTo(Len(window))
    BY <1>2 DEF CallTools, HistoryInv
  <2>5. Extended /\ DOMAIN window = 1..Len(window)
    BY <2>2, <2>3 DEF Extended
  <2>6. Len(window') = Len(window) + 1 /\ window'[Len(window')] = Entry("calls", n)
    BY <2>2, <2>3
  <2>7. \A p \in 1..Len(window) : PairedAt(p)'
    BY <2>4, <2>5, PairedKept DEF PairedUpTo
  <2>8. phase' = "calling" /\ steps' = steps /\ status' = "none"
    BY <1>2 DEF CallTools, StopInv, Running
  <2>9. QED
    BY <2>2, <2>6, <2>7, <2>8 DEF HistoryInv, PairedUpTo, Entry
<1>3. CASE CollectResults
  <2> DEFINE L == Len(window)
  <2>1. DOMAIN calls = 1..Len(calls) /\ Len(calls) \in Nat /\ L \in Nat
    OBVIOUS
  <2>2. /\ Results \in Seq(Message) /\ Len(Results) = Len(calls)
        /\ \A k \in 1..Len(calls) : Results[k] = [kind |-> "result", step |-> steps, nth |-> k]
    BY <2>1 DEF Results, Entry, Message
  <2>3. window' = window \o Results /\ phase' = "remembering"
    BY <1>3 DEF CollectResults
  <2>4. /\ L > 0 /\ PairedUpTo(L - 1)
        /\ window[L] = [kind |-> "calls", step |-> steps, nth |-> Len(calls)]
    BY <1>3 DEF CollectResults, HistoryInv
  <2>5. /\ Len(window') = L + Len(calls)
        /\ \A p \in 1..L : window'[p] = window[p]
        /\ \A k \in 1..Len(calls) :
             window'[L + k] = [kind |-> "result", step |-> steps, nth |-> k]
    <3>0. window \in Seq(Message) /\ Results \in Seq(Message) /\ Len(Results) = Len(calls)
      BY <2>2
    <3>1. Len(window') = L + Len(calls)
      <4>1. Len(window \o Results) = Len(window) + Len(Results)
        BY <3>0
      <4>2. QED
        BY <2>3, <3>0, <4>1
    <3>2. \A p \in 1..L : window'[p] = window[p]
      BY <2>2, <2>3
    <3>3. ASSUME NEW k \in 1..Len(calls) PROVE window'[L + k] = Results[k]
      <4>1. L + k \in 1..(L + Len(Results)) /\ L + k > L /\ (L + k) - L = k
        BY <2>1, <2>2
      <4>2. QED
        BY <2>2, <2>3, <4>1
    <3>4. QED
      BY <2>2, <3>1, <3>2, <3>3
  <2>6. Extended /\ DOMAIN window = 1..L /\ DOMAIN window' = 1..(L + Len(calls))
    BY <2>2, <2>3, <2>5 DEF Extended
  <2>7. \A p \in 1..(L - 1) : PairedAt(p)'
    <3>1. \A p \in 1..(L - 1) : PairedAt(p)
      BY <2>4 DEF PairedUpTo
    <3>2. \A p \in 1..(L - 1) : p \in DOMAIN window
      BY <2>1, <2>6
    <3>3. \A p \in DOMAIN window : PairedAt(p) => PairedAt(p)'
      BY <2>6, PairedKept
    <3>4. QED
      BY <3>1, <3>2, <3>3
  <2>8. ASSUME NEW p \in Nat, p = L PROVE PairedAt(p)'
    <3>1. window'[p] = [kind |-> "calls", step |-> steps, nth |-> Len(calls)]
      BY <2>1, <2>4, <2>5, <2>8
    <3>2. \A k \in 1..Len(calls) :
            /\ p + k \in DOMAIN window'
            /\ window'[p + k] = [kind |-> "result", step |-> steps, nth |-> k]
      BY <2>1, <2>5, <2>6, <2>8
    <3>3. QED
      BY <3>1, <3>2 DEF PairedAt
  <2>9. ASSUME NEW p \in Nat, NEW k \in 1..Len(calls), p = L + k PROVE PairedAt(p)'
    <3>1. /\ window'[p] = [kind |-> "result", step |-> steps, nth |-> k]
          /\ window'[L] = window[L] /\ L \in DOMAIN window' /\ p - k = L
      BY <2>1, <2>4, <2>5, <2>6, <2>9
    <3>2. QED
      BY <2>1, <2>4, <3>1 DEF PairedAt
  <2>10. \A p \in 1..(L + Len(calls)) : PairedAt(p)'
    <3>1. SUFFICES ASSUME NEW p \in 1..(L + Len(calls)) PROVE PairedAt(p)'
      OBVIOUS
    <3>2. CASE p \in 1..(L - 1)
      BY <3>2, <2>7
    <3>3. CASE p = L
      BY <2>1, <3>3, <2>8
    <3>4. CASE p > L
      <4>1. PICK k \in 1..Len(calls) : p = L + k
        <5>1. p - L \in 1..Len(calls) /\ p = L + (p - L)
          BY <2>1, <3>4
        <5>2. QED
          BY <5>1
      <4>2. QED
        BY <2>1, <2>9, <4>1
    <3>5. QED
      BY <2>1, <3>2, <3>3, <3>4
  <2>11. QED
    BY <2>3, <2>5, <2>10 DEF HistoryInv, PairedUpTo
<1>4. CASE UNCHANGED window /\ phase' = phase /\ steps' = steps /\ status' = status
           /\ (phase = "calling" => Len(calls') = Len(calls))
  BY <1>4 DEF HistoryInv, PairedUpTo, PairedAt
<1>5. CASE UNCHANGED window /\ phase' \notin {"calling"}
           /\ (phase' \in {"starting", "thinking", "remembering"} \/ status' \notin {"none", "error"}
                => PairedUpTo(Len(window)))
  BY <1>5 DEF HistoryInv, PairedUpTo, PairedAt
<1>6. ASSUME NEW i \in 1..MaxCalls, CallStep(i) PROVE HistoryInv'
  <2>1. QuietCall
    BY <1>6
    DEF CallStep, RejectCall, StartCall, GateRefuses, GateAdmits, GateAsks, Asked,
        PortRaises, Grant, Deny, InvokeEnds
  <2>2. \/ \E from, to : MoveCall(i, from, to)
        \/ \E from, errs : EndCall(i, from, errs)
    BY <1>6
    DEF CallStep, RejectCall, StartCall, GateRefuses, GateAdmits, GateAsks, Asked,
        PortRaises, Grant, Deny, InvokeEnds
  <2>3. Len(calls') = Len(calls)
    BY <2>2 DEF MoveCall, EndCall
  <2>4. QED
    BY <1>4, <2>1, <2>3 DEF QuietCall
<1>7. CASE Cancel \/ UNCHANGED vars
  BY <1>4, <1>7 DEF Cancel
<1>8. CASE FirstStep \/ Silence \/ NextStep \/ Return
  BY <1>5, <1>8 DEF FirstStep, Silence, NextStep, Return, HistoryInv, StopInv, Running
<1>9. CASE CancelledAtStart \/ LastStep \/ StepRaises
  BY <1>5, <1>9 DEF CancelledAtStart, LastStep, StepRaises, EndRun, HistoryInv
<1>10. QED
  BY <1>1, <1>2, <1>3, <1>6, <1>7, <1>8, <1>9 DEF Next, Progress, RunnerStep

\* Whatever order the calls of a step end in, every message that asks for tools
\* is followed by its results in call order before the model sees the window
\* again and in every run that ends without an error (react.py:137-146).
THEOREM HistoryIsPaired == Spec => []PairedHistory
<1>1. RunInv /\ HistoryInv => PairedHistory
  BY DEF RunInv, TypeOK, HistoryInv, PairedHistory, Paired, PairedUpTo
<1>2. Spec => [](RunInv /\ HistoryInv)
  <2>1. Init => RunInv /\ HistoryInv
    BY RunInvInit, HistoryInit
  <2>2. RunInv /\ HistoryInv /\ [Next]_vars => (RunInv /\ HistoryInv)'
    BY RunInvNext, HistoryNext
  <2>3. QED
    BY <2>1, <2>2, PTL DEF Spec
<1>3. QED
  BY <1>1, <1>2, PTL

-------------------------------------------------------------------------------
(* A run implements RunProtocol.                                              *)

\* The calls between their tool_start and their tool_end.
OpenCalls == {i \in DOMAIN calls : calls[i].pc \notin {"todo", "done"}}

\* Before the first step no tool was called.
StartInv == phase = "starting" => calls = << >>

LEMMA StartNext == StartInv /\ [Next]_vars => StartInv'
<1> SUFFICES ASSUME StartInv, [Next]_vars, phase' = "starting" PROVE phase = "starting" /\ calls' = calls
  BY DEF StartInv
<1>1. ASSUME NEW i \in 1..MaxCalls, CallStep(i) PROVE phase' = phase /\ i \in DOMAIN calls
  BY <1>1 DEF CallStep, RejectCall, StartCall, GateRefuses, GateAdmits, GateAsks, Asked,
              PortRaises, Grant, Deny, InvokeEnds, QuietCall, MoveCall, EndCall
<1>2. RunnerStep => phase' # "starting"
  BY DEF RunnerStep, FirstStep, CancelledAtStart, Answer, Silence, CallTools, StepRaises,
         CollectResults, NextStep, LastStep, Return, EndRun
<1>3. Cancel \/ UNCHANGED vars => phase' = phase /\ calls' = calls
  BY DEF Cancel, vars
<1>4. QED
  BY <1>1, <1>2, <1>3 DEF Next, Progress, StartInv

LEMMA OpenIsFinite ==
  ASSUME TypeOK
  PROVE  /\ IsFiniteSet(OpenCalls) /\ Open = Cardinality(OpenCalls) /\ Open \in Nat
         /\ \A i \in DOMAIN calls : i \notin OpenCalls => Open < MaxCalls
         /\ AllDone => Open = 0
<1>1. DOMAIN calls = 1..Len(calls) /\ Len(calls) \in Nat /\ Len(calls) <= MaxCalls
  BY DEF TypeOK
<1>2. IsFiniteSet(1..Len(calls)) /\ Cardinality(1..Len(calls)) = Len(calls)
  <2>1. 1 \in Int /\ Len(calls) \in Int
    BY <1>1
  <2> DEFINE n == Len(calls)
  <2>2. IsFiniteSet(1..n) /\ Cardinality(1..n) = IF 1 > n THEN 0 ELSE n - 1 + 1
    BY <2>1, FS_Interval
  <2>3. (IF 1 > n THEN 0 ELSE n - 1 + 1) = n
    BY <1>1
  <2>4. QED
    BY <2>2, <2>3
<1>3. OpenCalls \subseteq 1..Len(calls)
  BY <1>1 DEF OpenCalls
<1>4. IsFiniteSet(OpenCalls) /\ Cardinality(OpenCalls) \in Nat
  BY <1>2, <1>3, FS_Subset, FS_CardinalityType
<1>5. ASSUME NEW i \in DOMAIN calls, i \notin OpenCalls PROVE Cardinality(OpenCalls) < MaxCalls
  <2>1. OpenCalls \cup {i} \subseteq 1..Len(calls)
    BY <1>1, <1>3
  <2>2. Cardinality(OpenCalls \cup {i}) = Cardinality(OpenCalls) + 1
    BY <1>4, <1>5, FS_AddElement
  <2>3. Cardinality(OpenCalls \cup {i}) <= Len(calls)
    BY <1>2, <2>1, FS_Subset
  <2>4. QED
    BY <1>1, <1>4, <2>2, <2>3, ConstantsAssumption DEF ConstantsAssumption
<1>6. AllDone => Cardinality(OpenCalls) = 0
  <2>1. AllDone => OpenCalls = {}
    BY DEF AllDone, OpenCalls
  <2>2. QED
    BY <2>1, FS_EmptySet
<1>7. Open = Cardinality(OpenCalls)
  BY DEF Open, OpenCalls
<1>8. QED
  BY <1>4, <1>5, <1>6, <1>7

\* A call that moves opens one, closes one or leaves them as they are.
LEMMA OpenMoves ==
  ASSUME TypeOK, TypeOK', NEW i \in DOMAIN calls, DOMAIN calls' = DOMAIN calls,
         \A k \in DOMAIN calls : k # i => calls'[k] = calls[k]
  PROVE  /\ (i \in OpenCalls <=> i \in OpenCalls') => Open' = Open
         /\ i \notin OpenCalls /\ i \in OpenCalls' => Open' = Open + 1
         /\ i \in OpenCalls /\ i \notin OpenCalls' => Open > 0 /\ Open' = Open - 1
<1>1. /\ IsFiniteSet(OpenCalls) /\ Open = Cardinality(OpenCalls) /\ Open \in Nat
      /\ IsFiniteSet(OpenCalls') /\ Open' = Cardinality(OpenCalls') /\ Open' \in Nat
  <2>1. (IsFiniteSet(OpenCalls) /\ Open = Cardinality(OpenCalls) /\ Open \in Nat)'
    BY OpenIsFinite, PTL
  <2>2. QED
    BY <2>1, OpenIsFinite
<1>2. \A k \in DOMAIN calls : k # i => (k \in OpenCalls <=> k \in OpenCalls')
  BY DEF OpenCalls
<1>3. OpenCalls \subseteq DOMAIN calls /\ OpenCalls' \subseteq DOMAIN calls
  BY DEF OpenCalls
<1>4. CASE i \in OpenCalls <=> i \in OpenCalls'
  <2>1. OpenCalls' = OpenCalls
    BY <1>2, <1>3, <1>4
  <2>2. QED
    BY <1>1, <1>4, <2>1
<1>5. CASE i \notin OpenCalls /\ i \in OpenCalls'
  <2>1. OpenCalls' = OpenCalls \cup {i}
    BY <1>2, <1>3, <1>5
  <2>2. QED
    BY <1>1, <1>5, <2>1, FS_AddElement
<1>6. CASE i \in OpenCalls /\ i \notin OpenCalls'
  <2>1. OpenCalls = OpenCalls' \cup {i}
    BY <1>2, <1>3, <1>6
  <2>2. Cardinality(OpenCalls) = Cardinality(OpenCalls') + 1
    BY <1>1, <1>6, <2>1, FS_AddElement
  <2>3. QED
    BY <1>1, <1>6, <2>2
<1>7. QED
  BY <1>4, <1>5, <1>6

\* A step of a run is one of the protocol, or none of it.
LEMMA ProtocolStep ==
  ASSUME RunInv, RunInv', StartInv, [Next]_vars
  PROVE  [Protocol!Next]_(Protocol!vars)
<1> DEFINE Step == [Protocol!Next]_(Protocol!vars)
<1>1. TypeOK /\ TypeOK' /\ StopInv /\ CallsInv /\ phase \in Phases
  BY DEF RunInv, TypeOK
<1>2. Open \in Nat /\ (AllDone => Open = 0)
  BY <1>1, OpenIsFinite
<1>3. phase \in {"starting", "thinking", "calling", "remembering"} => status = "none"
  BY <1>1 DEF StopInv, Running
<1>4. phase \notin {"calling", "ending", "returned"} => AllDone
  BY <1>1, <1>3 DEF CallsInv, Phases
<1>5. ASSUME UNCHANGED calls PROVE Open' = Open
  BY <1>5 DEF Open
<1>6. CASE FirstStep
  <2>1. /\ phase = "starting" /\ phase' = "thinking" /\ UNCHANGED <<steps, calls, status>>
    BY <1>6 DEF FirstStep
  <2>2. Stage = "starting" /\ Stage' = "step" /\ Open' = Open
    BY <1>5, <2>1 DEF Stage
  <2>3. QED
    BY <2>1, <2>2 DEF Protocol!Next, Protocol!FirstStep
<1>7. CASE CancelledAtStart
  <2>1. /\ phase = "starting" /\ cancelled /\ phase' = "ending" /\ status' = Resolve(steps)
        /\ UNCHANGED <<steps, calls>> /\ calls = << >>
    BY <1>7 DEF CancelledAtStart, EndRun, StartInv
  <2>2. ~error
    BY <1>1, <2>1 DEF StopInv, Running, TypeOK, Flags
  <2>3. ~Denied
    BY <2>1 DEF Denied
  <2>4. status' = "cancelled"
    BY <2>1, <2>2, <2>3 DEF Resolve
  <2>5. Stage = "starting" /\ Stage' = "ending" /\ Open' = Open /\ Open = 0
    BY <1>2, <1>4, <1>5, <2>1 DEF Stage
  <2>6. Protocol!End("cancelled")
    BY <2>1, <2>4, <2>5 DEF Protocol!End
  <2>7. QED
    BY <2>6 DEF Protocol!Next, Protocol!Outcomes
<1>8. CASE Answer \/ Silence \/ CallTools
  <2>1. /\ phase = "thinking" /\ phase' \in {"remembering", "calling"}
        /\ UNCHANGED <<steps, status>>
    BY <1>8 DEF Answer, Silence, CallTools
  <2>2. AllDone' \/ \A i \in DOMAIN calls' : calls'[i].pc = "todo"
    <3>1. CASE Answer \/ Silence
      BY <3>1 DEF Answer, Silence, AllDone
    <3>2. CASE CallTools
      BY <3>2 DEF CallTools
    <3>3. QED
      BY <1>8, <3>1, <3>2
  <2>3. OpenCalls' = {}
    BY <2>2 DEF AllDone, OpenCalls
  <2>4. Open' = 0
    <3>1. Open' = Cardinality(OpenCalls')
      BY DEF Open, OpenCalls
    <3>2. QED
      BY <2>3, <3>1, FS_EmptySet
  <2>5. Stage = "step" /\ Stage' = "step" /\ Open = 0
    BY <1>2, <1>4, <2>1 DEF Stage
  <2>6. QED
    BY <2>1, <2>4, <2>5 DEF Protocol!vars
<1>9. CASE StepRaises
  <2>1. /\ phase \in {"thinking", "remembering", "calling"} /\ phase' = "ending"
        /\ status' = "error" /\ UNCHANGED <<steps, calls>>
    BY <1>9 DEF StepRaises, EndRun
  <2>2. Stage = "step" /\ Stage' = "ending" /\ Open' = Open
    BY <1>5, <2>1 DEF Stage
  <2>3. Protocol!End("error")
    BY <2>1, <2>2 DEF Protocol!End
  <2>4. QED
    BY <2>3 DEF Protocol!Next, Protocol!Outcomes
<1>10. CASE CollectResults
  <2>1. phase = "calling" /\ phase' = "remembering" /\ UNCHANGED <<steps, calls, status>>
    BY <1>10 DEF CollectResults
  <2>2. Stage = "step" /\ Stage' = "step" /\ Open' = Open
    BY <1>5, <2>1 DEF Stage
  <2>3. QED
    BY <2>1, <2>2 DEF Protocol!vars
<1>11. CASE NextStep
  <2>1. /\ phase = "remembering" /\ phase' = "thinking" /\ steps + 1 < MaxSteps
        /\ steps' = steps + 1 /\ UNCHANGED <<calls, status>>
    BY <1>11 DEF NextStep, Continues
  <2>2. Stage = "step" /\ Stage' = "step" /\ Open' = Open /\ Open = 0
    BY <1>2, <1>4, <1>5, <2>1 DEF Stage
  <2>3. QED
    BY <2>1, <2>2 DEF Protocol!Next, Protocol!NextStep
<1>12. CASE LastStep
  <2>1. /\ phase = "remembering" /\ phase' = "ending" /\ ~Continues(steps + 1)
        /\ steps' = steps + 1 /\ status' = Resolve(steps + 1) /\ UNCHANGED calls
    BY <1>12 DEF LastStep, EndRun
  <2>2. Stage = "step" /\ Stage' = "ending" /\ Open' = Open /\ Open = 0
    BY <1>2, <1>4, <1>5, <2>1 DEF Stage
  <2>3. Resolve(steps + 1) \in Protocol!Outcomes
    BY DEF Resolve, Protocol!Outcomes
  <2>4. Resolve(steps + 1) = "max_steps" => steps + 1 >= MaxSteps
    <3>1. steps \in Nat /\ MaxSteps \in Nat
      BY <1>1, ConstantsAssumption DEF TypeOK, ConstantsAssumption
    <3>2. Resolve(steps + 1) = "max_steps" => ~(steps + 1 < MaxSteps)
      BY <2>1 DEF Resolve, Continues
    <3>3. QED
      BY <3>1, <3>2
  <2>5. Protocol!End(Resolve(steps + 1))
    BY <2>1, <2>2, <2>4 DEF Protocol!End
  <2>6. QED
    BY <2>3, <2>5 DEF Protocol!Next
<1>13. CASE Return
  <2>1. phase = "ending" /\ phase' = "returned" /\ UNCHANGED <<steps, calls, status>>
    BY <1>13 DEF Return
  <2>2. Stage = "ending" /\ Stage' = "over" /\ Open' = Open
    BY <1>5, <2>1 DEF Stage
  <2>3. QED
    BY <2>1, <2>2 DEF Protocol!Next, Protocol!Return
\* A call that moves does so in its step, or after a sibling raised.
<1>14. ASSUME NEW i \in 1..MaxCalls, CallStep(i) PROVE Step
  <2>1. UNCHANGED <<phase, steps, status>>
    BY <1>14 DEF CallStep, RejectCall, StartCall, GateRefuses, GateAdmits, GateAsks, Asked,
                 PortRaises, Grant, Deny, InvokeEnds, QuietCall
  <2>2. Stage' = Stage
    BY <2>1 DEF Stage
  <2>3. calls \in Seq(Call)
    BY <1>1 DEF TypeOK
  <2>4. /\ i \in DOMAIN calls /\ DOMAIN calls' = DOMAIN calls
        /\ \A k \in DOMAIN calls : k # i => calls'[k] = calls[k]
        /\ \/ calls[i].pc = "todo" /\ calls'[i].pc = "gate" /\ phase = "calling"
           \/ calls[i].pc = "todo" /\ calls'[i].pc = "done"
           \/ calls[i].pc \in {"gate", "wait", "invoke"} /\ calls'[i].pc = "done"
           \/ /\ calls[i].pc \in {"gate", "ask", "wait"}
              /\ calls'[i].pc \in {"ask", "wait", "invoke", "raised"}
    <3>1. ASSUME NEW from, NEW to \in CallPC, MoveCall(i, from, to)
          PROVE  /\ i \in DOMAIN calls /\ DOMAIN calls' = DOMAIN calls
                 /\ \A k \in DOMAIN calls : k # i => calls'[k] = calls[k]
                 /\ calls[i].pc = from /\ calls'[i].pc = to
      BY <2>3, <3>1, MoveCallEffect
    <3>2. ASSUME NEW from, NEW errs \in SUBSET BOOLEAN, EndCall(i, from, errs)
          PROVE  /\ i \in DOMAIN calls /\ DOMAIN calls' = DOMAIN calls
                 /\ \A k \in DOMAIN calls : k # i => calls'[k] = calls[k]
                 /\ calls[i].pc = from /\ calls'[i].pc = "done"
      BY <2>3, <3>2, EndCallEffect
    <3>3. {"gate", "invoke", "ask", "wait", "raised"} \subseteq CallPC /\ {TRUE} \in SUBSET BOOLEAN
      BY DEF CallPC
    <3>4. CASE RejectCall(i) \/ GateRefuses(i) \/ Deny(i) \/ InvokeEnds(i)
      BY <3>2, <3>3, <3>4 DEF RejectCall, GateRefuses, Deny, InvokeEnds
    <3>5. CASE StartCall(i)
      BY <3>1, <3>3, <3>5 DEF StartCall
    <3>6. CASE GateAdmits(i) \/ GateAsks(i) \/ Asked(i) \/ PortRaises(i) \/ Grant(i)
      BY <3>1, <3>3, <3>6 DEF GateAdmits, GateAsks, Asked, PortRaises, Grant
    <3>7. QED
      BY <1>14, <3>4, <3>5, <3>6 DEF CallStep
  <2>5. /\ i \in OpenCalls <=> calls[i].pc \notin {"todo", "done"}
        /\ i \in OpenCalls' <=> calls'[i].pc \notin {"todo", "done"}
    BY <2>4 DEF OpenCalls
  <2>6. CASE calls[i].pc = "todo" /\ calls'[i].pc = "gate" /\ phase = "calling"
    <3>1. Open < MaxCalls /\ Open' = Open + 1 /\ Stage = "step"
      BY <1>1, <2>4, <2>5, <2>6, OpenIsFinite, OpenMoves DEF Stage
    <3>2. QED
      BY <2>1, <2>2, <3>1 DEF Protocol!Next, Protocol!ToolStart
  <2>7. CASE calls[i].pc \in {"gate", "wait", "invoke"} /\ calls'[i].pc = "done"
    <3>1. Open > 0 /\ Open' = Open - 1
      BY <1>1, <2>4, <2>5, <2>7, OpenMoves
    <3>2. Stage = "step" \/ status = "error"
      <4>1. ~AllDone
        BY <2>4, <2>7 DEF AllDone
      <4>2. phase = "calling" \/ status = "error"
        BY <1>1, <4>1 DEF CallsInv
      <4>3. QED
        BY <4>2 DEF Stage
    <3>3. QED
      BY <2>1, <2>2, <3>1, <3>2 DEF Protocol!Next, Protocol!ToolEnd
  <2>8. CASE i \in OpenCalls <=> i \in OpenCalls'
    <3>1. Open' = Open
      BY <1>1, <2>4, <2>8, OpenMoves
    <3>2. QED
      BY <2>1, <2>2, <3>1 DEF Protocol!vars
  <2>9. QED
    BY <2>4, <2>5, <2>6, <2>7, <2>8
<1>15. CASE Cancel \/ UNCHANGED vars
  <2>1. UNCHANGED <<phase, steps, calls, status>>
    BY <1>15 DEF Cancel, vars
  <2>2. QED
    BY <1>5, <2>1 DEF Protocol!vars, Stage
<1>16. QED
  BY <1>6, <1>7, <1>8, <1>9, <1>10, <1>11, <1>12, <1>13, <1>14, <1>15
     DEF Next, Progress, RunnerStep

\* Every run of an agent follows the protocol its listeners rely on: run_start, steps
\* without a gap, the tool events of a step inside it, one run_end (base.py:225-262,
\* react.py:160-185).
THEOREM RunFollowsProtocol == Spec => RefinesProtocol
<1>1. Init => Protocol!Init /\ StartInv
  <2> SUFFICES ASSUME Init PROVE Protocol!Init /\ StartInv
    OBVIOUS
  <2>1. phase = "starting" /\ steps = 0 /\ calls = << >> /\ status = "none"
    BY DEF Init
  <2>2. OpenCalls = {}
    BY <2>1 DEF OpenCalls
  <2>3. Open = 0
    BY <2>2, FS_EmptySet DEF Open, OpenCalls
  <2>4. QED
    BY <2>1, <2>3 DEF Protocol!Init, Stage, StartInv
<1>2. Spec => []StartInv
  BY <1>1, StartNext, PTL DEF Spec
<1>3. RunInv /\ RunInv' /\ StartInv /\ [Next]_vars => [Protocol!Next]_(Protocol!vars)
  BY ProtocolStep
<1>4. QED
  BY <1>1, <1>2, <1>3, RunInvHolds, PTL DEF Spec, RefinesProtocol, Protocol!Spec
===============================================================================
