------------------------------ MODULE MCServices ------------------------------
(***************************************************************************)
(* The approval ports and instances of the other modules about what a run  *)
(* calls on, side by side: the model, the context window, sub-agents, MCP  *)
(* servers, commands, the projects it started and the terminal of the page.*)
(* `part` says which of them moves in a behaviour; the others keep one of  *)
(* their initial states.                                                   *)
(***************************************************************************)
EXTENDS ApprovalPorts

CONSTANTS Callers, Models, AutoModel, None, MaxAttempts,
          MaxWindow, Keep, FoldAge, Soft, Hard, Large, ExitCodes, NoCode, MaxMessages, MaxTurns,
          Children,
          Servers, Remote,
          PageRequests, Projects, MaxRuns, Nobody,
          MaxBlocks

\* Nobody is no project and no instance of one.
ASSUME ProjectsAssumption == MaxRuns \in Nat /\ Nobody \notin Projects \cup 1..MaxRuns

\* The servers are known by their places in the settings.
ASSUME ServersAssumption == Servers \subseteq Nat

\* A window of no messages has no limit; the messages kept are a number of them.
ASSUME WindowAssumption == MaxWindow \in Nat /\ Keep \in Nat

VARIABLES part,
          model, served, listed, routed, tried, known, mpc, attempt, request, body,
          shown, pieces, reply,
          window, cphase, turn, next, forgotten, question, ran, receipt,
          parent, flag, late, tool, child, mark,
          web, sameServer, sameTool, phase, cur, session, kept, admits, registry, broken,
          proc, project, status, byProject, rpc, at, server, todo,
          shell, made, buffer, queue, writer, hand, lock, closed, main, page, sent,
          allowed, cshell, background, code, command, timedOut, group, answer

modelVars == <<model, served, listed, routed, tried, known, mpc, attempt, request, body,
               shown, pieces, reply>>
windowVars == <<window, cphase, turn, next, forgotten, question, ran, receipt>>
agentVars == <<parent, flag, late, tool, child, mark>>
mcpVars == <<web, sameServer, sameTool, phase, cur, session, kept, admits, registry, broken>>
projectVars == <<proc, project, status, byProject, rpc, at, server, todo>>
terminalVars == <<shell, made, buffer, queue, writer, hand, lock, closed, main, page, sent>>
commandVars == <<allowed, cshell, background, code, command, timedOut, group, answer>>
withinVars == <<modelVars, windowVars>>
besideVars == <<agentVars, mcpVars, projectVars, terminalVars, commandVars>>
allVars == <<part, vars, withinVars, besideVars>>

M == INSTANCE ModelCall WITH pc <- mpc, Auto <- AutoModel
W == INSTANCE ContextWindow WITH phase <- cphase, asked <- question
S == INSTANCE SubAgents
X == INSTANCE Mcp
P == INSTANCE ProjectRunner WITH pc <- rpc, Requests <- PageRequests
T == INSTANCE Terminal
C == INSTANCE ShellCommand WITH shell <- cshell, tool <- command, late <- timedOut

Parts == {"approvals", "model", "window", "agents", "mcp", "projects", "terminal", "command"}
AllInit ==
    /\ part \in Parts
    /\ Init
    /\ part # "approvals" => port = "none" /\ conf = CHOOSE r \in Requests : TRUE
    /\ M!Init
    /\ part # "model" => model = AutoModel /\ served = {} /\ listed = {AutoModel}
    /\ W!Init
    /\ S!Init
    /\ X!Init
    /\ part # "mcp" => ~web /\ ~sameServer /\ ~sameTool
    /\ P!Init
    /\ T!Init
    /\ C!Init /\ (part = "command" \/ allowed)

NextApproval == part = "approvals" /\ Next /\ UNCHANGED <<part, withinVars, besideVars>>
NextWithin ==
    /\ UNCHANGED <<part, vars, besideVars>>
    /\ \/ part = "model" /\ M!Next /\ UNCHANGED windowVars
       \/ part = "window" /\ W!Next /\ UNCHANGED modelVars
NextBeside ==
    /\ UNCHANGED <<part, vars, withinVars>>
    /\ \/ /\ part = "agents" /\ S!Next
          /\ UNCHANGED <<mcpVars, projectVars, terminalVars, commandVars>>
       \/ /\ part = "mcp" /\ X!Next
          /\ UNCHANGED <<agentVars, projectVars, terminalVars, commandVars>>
       \/ /\ part = "projects" /\ P!Next
          /\ UNCHANGED <<agentVars, mcpVars, terminalVars, commandVars>>
       \/ /\ part = "terminal" /\ T!Next
          /\ UNCHANGED <<agentVars, mcpVars, projectVars, commandVars>>
       \/ /\ part = "command" /\ C!Next
          /\ UNCHANGED <<agentVars, mcpVars, projectVars, terminalVars>>
AllNext == NextApproval \/ NextWithin \/ NextBeside

\* A wait for an answer goes on polling.
AllSpec ==
    /\ AllInit /\ [][AllNext]_allVars
    /\ \A c \in Calls : WF_vars(part = "approvals" /\ Progress(c))

\* ModelCall.OneReply: output and tool calls come whole, from one request.
OneReply == M!OneReply
\* ContextWindow.SentIsWhole: calls and results go to the model together.
SentIsWhole == W!SentIsWhole
\* ContextWindow.OnlyTruncationForgets: compaction loses no message.
OnlyTruncationForgets == W!OnlyTruncationForgets
\* Mcp.NameIsOneTool: a name calls one tool of one server under that server's policy.
NameIsOneTool == X!NameIsOneTool
\* SubAgents.ReturnsWithItsChild, ProjectRunner.NothingIsLeftBehind, ShellCommand and
\* Terminal: what a run or a page started is over when the call that started it has
\* returned, or still known, and gone with the server; and what the page saw of its shell
\* is in order.  A call that was cancelled leaves its command, and in its watch its child;
\* a process that takes no signal may be forgotten.
NothingIsLeftBehind ==
    /\ S!ReturnsWithItsChild /\ P!NothingIsLeftBehind
    /\ C!CommandIsOver
    /\ T!ShellEndsWithItsPage /\ T!OutputInOrder
===============================================================================
