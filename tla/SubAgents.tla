------------------------------- MODULE SubAgents -------------------------------
(***************************************************************************)
(* Sub-agents (tools/subagent.py): calls of spawn_subagent in one step of  *)
(* a parent run, each supervising the run of a child: the child's end, the *)
(* cancelling of the parent (agent.cancel), the deadline, and the end of   *)
(* the parent's own task when its stream is closed (agent.py, run_stream). *)
(*                                                                         *)
(* Abstractions: a child is running or over, and how it ended; the polls,  *)
(* the deadline and the end of a grace may come at any time; a child that  *)
(* was marked as cancelled stops at a step of its own (AgentRun).          *)
(***************************************************************************)
CONSTANT Children

VARIABLES parent,    \* "runs", "cut" (its task was cancelled) or "over"
          flag,      \* ctx.cancelled of the parent
          late,      \* the children past their deadline
          tool,      \* the calls: "no", "watch", "grace", "force", "result", "error", "killed"
          child,     \* the runs: "no", "runs", "result", "raised", "cut"
          mark       \* whether a child was told to cancel

vars == <<parent, flag, late, tool, child, mark>>

Init ==
    /\ parent = "runs" /\ flag = FALSE /\ late = {}
    /\ tool = [c \in Children |-> "no"] /\ child = [c \in Children |-> "no"]
    /\ mark = [c \in Children |-> FALSE]

-------------------------------------------------------------------------------
\* spawn_subagent: the run of the child becomes a task of its own.
Spawn(c) ==
    /\ parent = "runs" /\ tool[c] = "no"
    /\ tool' = [tool EXCEPT ![c] = "watch"]
    /\ child' = [child EXCEPT ![c] = "runs"]
    /\ UNCHANGED <<parent, flag, late, mark>>

\* The child's run returns, also because it was marked, or raises.
ChildEnds(c) ==
    /\ child[c] = "runs"
    /\ \E end \in {"result", "raised"} : child' = [child EXCEPT ![c] = end]
    /\ UNCHANGED <<parent, flag, late, tool, mark>>

-------------------------------------------------------------------------------
\* A round of _run_child_supervised: the child first, then the parent, then the clock.
Watch(c) ==
    /\ tool[c] = "watch"
    /\ IF child[c] # "runs"
       THEN /\ tool' = [tool EXCEPT ![c] = IF child[c] = "result" THEN "result" ELSE "error"]
            /\ UNCHANGED mark
       ELSE /\ flag \/ c \in late
            /\ tool' = [tool EXCEPT ![c] = "grace"]
            /\ mark' = [mark EXCEPT ![c] = TRUE]
    /\ UNCHANGED <<parent, flag, late, child>>

DeadlinePasses(c) ==
    /\ tool[c] = "watch" /\ c \notin late
    /\ late' = late \cup {c}
    /\ UNCHANGED <<parent, flag, tool, child, mark>>

\* _await_or_force: the child ends in its grace, or its task is cancelled.
MutTooLate(c) == "error"
TooLate(c) == "force"
GraceEnds(c) ==
    /\ tool[c] = "grace"
    /\ tool' = [tool EXCEPT ![c] =
                  CASE child[c] = "result" -> "result"
                    [] child[c] \in {"raised", "cut"} -> "error"
                    [] OTHER -> TooLate(c)]
    /\ UNCHANGED <<parent, flag, late, child, mark>>

\* The cancelled task of the child ends, and the call with an error.
ChildIsCut(c) ==
    /\ tool[c] = "force" /\ child[c] = "runs"
    /\ child' = [child EXCEPT ![c] = "cut"]
    /\ UNCHANGED <<parent, flag, late, tool, mark>>
Forced(c) ==
    /\ tool[c] = "force" /\ child[c] # "runs"
    /\ tool' = [tool EXCEPT ![c] = "error"]
    /\ UNCHANGED <<parent, flag, late, child, mark>>

-------------------------------------------------------------------------------
\* agent.cancel on the parent's run; the calls see it at their next poll.
ParentIsCancelled ==
    /\ parent = "runs" /\ ~flag /\ flag' = TRUE
    /\ UNCHANGED <<parent, late, tool, child, mark>>

\* The stream is closed and run_stream cancels the parent's task: the wait for a child
\* ends with it, but asyncio.wait leaves the child's task running; a grace is cut short.
ParentIsCut ==
    /\ parent = "runs" /\ parent' = "cut"
    /\ tool' = [c \in Children |->
                  CASE tool[c] = "watch" -> "killed" [] tool[c] = "grace" -> "force"
                    [] OTHER -> tool[c]]
    /\ UNCHANGED <<flag, late, child, mark>>

\* The calls of the step are over: the run goes on without them, and ends.
ParentEnds ==
    /\ \/ parent = "runs" /\ \A c \in Children : tool[c] \in {"no", "result", "error"}
       \/ parent = "cut" /\ \/ \E c \in Children : tool[c] = "killed"
                            \/ \A c \in Children : tool[c] # "force"
    /\ parent' = "over"
    /\ UNCHANGED <<flag, late, tool, child, mark>>

Next ==
    \/ \E c \in Children :
         \/ Spawn(c) \/ ChildEnds(c) \/ Watch(c) \/ DeadlinePasses(c)
         \/ GraceEnds(c) \/ ChildIsCut(c) \/ Forced(c)
    \/ ParentIsCancelled \/ ParentIsCut \/ ParentEnds
Spec == Init /\ [][Next]_vars

-------------------------------------------------------------------------------
(* Properties.                                                                *)

\* Whichever of the child's end, the cancelling, the deadline and the closing of the
\* stream came first: a call that returned left no child running, and what it returned
\* is a result only if the child had one; and a child that outlives the parent's run is
\* one whose task is being cancelled, or whose call the closing of the stream ended in
\* its watch, which told the child nothing.
ReturnsWithItsChild ==
    \A c \in Children :
        /\ tool[c] \in {"result", "error"} => child[c] # "runs"
        /\ tool[c] = "result" => child[c] = "result"
        /\ parent = "over" /\ child[c] = "runs" =>
              tool[c] = "force" \/ (tool[c] = "killed" /\ ~mark[c])

\* That the end of the parent ends its children (the docstring of _run_child_supervised)
\* holds of agent.cancel, not of a stream that is closed.
ClosingStopsTheChild ==
    \A c \in Children : parent = "over" /\ child[c] = "runs" => tool[c] = "force"
===============================================================================
