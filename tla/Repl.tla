---------------------------------- MODULE Repl ----------------------------------
(***************************************************************************)
(* The interactive chat of the terminal (cli_ui.py, run_interactive_repl;  *)
(* cli.py, _run_chat_turn and _consume_chat_stream): the turns of the      *)
(* conversation, what /undo, /retry, /edit, /clear and /plan make of them, *)
(* the approval of a plan, Ctrl+C, and the copy in the conversation store  *)
(* that --continue goes on from.                                           *)
(*                                                                         *)
(* Abstraction: a turn is the text the user gave and whether the agent was *)
(* restricted to the tools of the plan mode.                               *)
(***************************************************************************)
EXTENDS Naturals, Sequences, SequencesExt

CONSTANTS Texts,     \* what the user may type
          NoText,    \* no message yet
          MaxTurns   \* bound on the turns that are begun

VARIABLES history, last,       \* session.history, session.last_raw_input
          planMode,            \* args._work_mode = "plan"
          phase,               \* "prompt", "running", "approve", "executing", "over"
          text,                \* the message of the run
          interrupts,          \* Ctrl+C in this run
          store, saved,        \* --continue was given; the conversation in the store
          turns,
          asPlan,              \* history: the run was begun by /plan
          raised,              \* history: a run raised and none returned since
          loose                \* history: the last turn is not that of last_raw_input

session == <<history, last, loose>>
copy == <<store, saved>>
vars == <<session, planMode, phase, text, interrupts, copy, turns, asPlan, raised>>

Turn(t, p) == [text |-> t, plan |-> p]
Go == [text |-> NoText, plan |-> FALSE]  \* the turn that carries out an approved plan

Init ==
    /\ store \in BOOLEAN
    /\ saved \in {<<>>} \cup {<<Turn(t, FALSE)>> : t \in Texts}
    /\ history = IF store THEN saved ELSE <<>>
    /\ loose = (history # <<>>)
    /\ last = NoText /\ planMode = FALSE /\ phase = "prompt"
    /\ text = NoText /\ interrupts = 0 /\ turns = 0
    /\ asPlan = FALSE /\ raised = FALSE

\* pop_last_turn: up to the last message of the user.
MutPopped(h) == IF Len(h) <= 2 THEN <<>> ELSE SubSeq(h, 1, Len(h) - 2)
Popped(h) == IF h = <<>> THEN <<>> ELSE Front(h)

\* The end of an iteration of the prompt: text t goes to the agent after history h.
Begin(t, h, mode) ==
    /\ phase = "prompt" /\ turns < MaxTurns
    /\ turns' = turns + 1
    /\ history' = h /\ text' = t /\ last' = t /\ loose' = TRUE
    /\ planMode' = (planMode \/ mode) /\ asPlan' = mode
    /\ phase' = "running" /\ interrupts' = 0
    /\ UNCHANGED <<copy, raised>>

Say(t) == Begin(t, history, FALSE)
Plan(t) == Begin(t, history, TRUE)
Retry == last # NoText /\ Begin(last, Popped(history), FALSE)

\* /edit offers the last text of the history if nothing was typed yet.
Edit(t) == (last # NoText \/ history # <<>>) /\ Begin(t, Popped(history), FALSE)

\* /undo changes only the memory; /clear starts a conversation of its own, and the one
\* before stays in the store.
Undo ==
    /\ phase = "prompt" /\ history # <<>>
    /\ history' = Popped(history) /\ loose' = TRUE
    /\ UNCHANGED <<last, planMode, phase, text, interrupts, copy, turns, asPlan, raised>>
Clear ==
    /\ phase = "prompt"
    /\ history' = <<>> /\ loose' = TRUE
    /\ saved' = IF store THEN <<>> ELSE saved
    /\ UNCHANGED <<last, planMode, phase, text, interrupts, store, turns, asPlan, raised>>

-------------------------------------------------------------------------------
\* _persist, which ignores a store that fails.
Persisted(h) == IF store THEN {saved, h} ELSE {saved}

\* The run returns, completed, failed or cancelled, with the messages it ended on; a
\* reply with a plan block is shown for approval.
MutPlanAfter == planMode
PlanAfter == FALSE
RunReturns ==
    /\ phase = "running"
    /\ history' = Append(history, Turn(text, planMode))
    /\ saved' \in Persisted(history')
    /\ phase' \in IF planMode THEN {"prompt", "approve"} ELSE {"prompt"}
    /\ planMode' = PlanAfter
    /\ loose' = FALSE /\ raised' = FALSE
    /\ UNCHANGED <<last, text, interrupts, store, turns, asPlan>>

\* The run raises: the loop goes on, with the history it had and in the mode it was.
RunRaises ==
    /\ phase = "running"
    /\ phase' = "prompt" /\ raised' = TRUE
    /\ UNCHANGED <<session, planMode, text, interrupts, copy, turns, asPlan>>

\* The first Ctrl+C cancels the run, the second leaves the program.
CtrlC ==
    /\ phase \in {"running", "executing"}
    /\ interrupts' = interrupts + 1
    /\ phase' = IF interrupts = 1 THEN "over" ELSE phase
    /\ UNCHANGED <<session, planMode, text, copy, turns, asPlan, raised>>

Answer(yes) ==
    /\ phase = "approve"
    /\ phase' = IF yes THEN "executing" ELSE "prompt"
    /\ interrupts' = 0
    /\ UNCHANGED <<session, planMode, text, copy, turns, asPlan, raised>>

ExecutionReturns ==
    /\ phase = "executing" /\ phase' = "prompt"
    /\ history' = Append(history, Go) /\ loose' = TRUE
    /\ saved' \in Persisted(history')
    /\ UNCHANGED <<last, planMode, text, interrupts, store, turns, asPlan, raised>>
ExecutionRaises ==
    /\ phase = "executing" /\ phase' = "prompt"
    /\ UNCHANGED <<session, planMode, text, interrupts, copy, turns, asPlan, raised>>

\* /exit, the end of the input, or an exception while the images are prepared.
Exit ==
    /\ phase = "prompt" /\ phase' = "over"
    /\ UNCHANGED <<session, planMode, text, interrupts, copy, turns, asPlan, raised>>

Next ==
    \/ Retry \/ Undo \/ Clear \/ Exit \/ CtrlC
    \/ RunReturns \/ RunRaises \/ ExecutionReturns \/ ExecutionRaises
    \/ \E t \in Texts : Say(t) \/ Plan(t) \/ Edit(t)
    \/ \E yes \in BOOLEAN : Answer(yes)

Spec == Init /\ [][Next]_vars

-------------------------------------------------------------------------------
(* Properties.                                                                *)

\* What /retry and /edit take back is the turn of the message they replace and no
\* other, unless that turn is gone (undone, cleared, or its run raised) or the turn of
\* an approved plan came after it.
OnlyTheLastTurnGoes ==
    [][ phase = "prompt" /\ phase' = "running" =>
        \/ history' = history
        \/ history' = Popped(history) /\ Len(history') = Len(history) - 1
                                      /\ (loose \/ Last(history).text = last) ]_vars

\* The plan mode of a task ends when its run returned: no later message is restricted
\* by it, except after a run that raised, and the approved plan is not itself carried
\* out with the tools of the plan mode.
PlanModeEnds ==
    /\ phase = "running" /\ planMode => asPlan \/ raised
    /\ phase \in {"approve", "executing"} => ~planMode /\ Last(history).plan
===============================================================================
