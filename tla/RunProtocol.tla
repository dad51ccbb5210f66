----------------------------- MODULE RunProtocol -----------------------------
(***************************************************************************)
(* What a run of an agent promises to whoever listens to its event bus     *)
(* (the web server, the terminal printer, the receipt): run_start first,   *)
(* then steps numbered without a gap, the tool_start and tool_end events   *)
(* of a step inside that step, one run_end, and nothing that matters after *)
(* it.  A tool call still under way when the run ends is possible for a    *)
(* run that ends in an error, and only then.                               *)
(***************************************************************************)
EXTENDS Naturals

CONSTANTS MaxSteps,  \* LoopConfig.max_steps
          MaxCalls   \* the most tool calls of one reply

VARIABLES stage,   \* "starting", "step", "ending" (run_end was emitted), "over"
          step,    \* the index of the step under way, the number of steps once ended
          open,    \* tool_start events of the step without their tool_end
          outcome  \* the status of run_end

vars == <<stage, step, open, outcome>>

Outcomes == {"completed", "max_steps", "cancelled", "denied", "error"}

Init ==
    /\ stage = "starting"
    /\ step = 0
    /\ open = 0
    /\ outcome = "none"

FirstStep ==
    /\ stage = "starting"
    /\ stage' = "step"
    /\ UNCHANGED <<step, open, outcome>>

ToolStart ==
    /\ stage = "step"
    /\ open < MaxCalls
    /\ open' = open + 1
    /\ UNCHANGED <<stage, step, outcome>>

\* A tool call that outlives an erroneous run may still end.
ToolEnd ==
    /\ open > 0
    /\ stage = "step" \/ outcome = "error"
    /\ open' = open - 1
    /\ UNCHANGED <<stage, step, outcome>>

NextStep ==
    /\ stage = "step"
    /\ open = 0
    /\ step + 1 < MaxSteps
    /\ step' = step + 1
    /\ UNCHANGED <<stage, open, outcome>>

\* Completed, max_steps and denied need a finished step; cancelled can also be
\* the end of a run that was cancelled before its first step.
End(s) ==
    /\ stage = "step" \/ (stage = "starting" /\ s = "cancelled")
    /\ open = 0 \/ s = "error"
    /\ stage' = "ending"
    /\ outcome' = s
    /\ step' \in {step, step + 1}
    /\ s = "max_steps" => step' >= MaxSteps
    /\ UNCHANGED open

Return ==
    /\ stage = "ending"
    /\ stage' = "over"
    /\ UNCHANGED <<step, open, outcome>>

Next ==
    \/ FirstStep \/ ToolStart \/ ToolEnd \/ NextStep \/ Return
    \/ \E s \in Outcomes : End(s)

Spec == Init /\ [][Next]_vars
===============================================================================
