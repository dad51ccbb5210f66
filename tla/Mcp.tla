---------------------------------- MODULE Mcp ----------------------------------
(***************************************************************************)
(* The tools of external MCP servers (integration/mcp.py) in an agent's    *)
(* registry: connecting to the configured servers one after the other,     *)
(* filtering and naming their tools, and the sessions' end, for the        *)
(* command line (cli.py) and the web server (web/server.py).               *)
(*                                                                         *)
(* Abstractions: a policy is the server whose configuration it was made    *)
(* from; a configuration is read once, when its server's turn comes, so    *)
(* that is where it is chosen; names are what they become once the         *)
(* characters a tool's name may not have are replaced, and different names *)
(* may become one.                                                         *)
(***************************************************************************)
EXTENDS Naturals, Sequences

CONSTANTS Servers,   \* by their places in the settings: 1..n
          Remote,    \* the tools' own names
          None

VARIABLES web,       \* whether this is the web server; the command line has no reload
          sameServer, sameTool,  \* whether the names of the servers, of the tools fall together
          phase,     \* "setup", "runs", "closing", "over"
          cur,       \* the server whose turn it is
          session,   \* of each server: "no", "open", "closed"
          kept,      \* the sessions the result of the setup holds, in its order
          admits,    \* the tools a server's rules admit
          registry,  \* name -> the tool and the policy it has
          broken     \* the setup was cut short

vars == <<web, sameServer, sameTool, phase, cur, session, kept, admits, registry, broken>>

\* mcp_tool_name
Name(s, t) == <<IF sameServer THEN None ELSE s, IF sameTool THEN None ELSE t>>
Names == (Servers \cup {None}) \X (Remote \cup {None})
NoTool == [session |-> None, remote |-> None, policy |-> None]

Init ==
    /\ web \in BOOLEAN /\ sameServer \in BOOLEAN /\ sameTool \in BOOLEAN
    /\ phase = "setup" /\ cur = 1
    /\ session = [s \in Servers |-> "no"] /\ kept = << >>
    /\ admits = [s \in Servers |-> {}]
    /\ registry = [n \in Names |-> NoTool]
    /\ broken = FALSE

-------------------------------------------------------------------------------
(* discover_and_register.                                                     *)

Turn(s) == phase = "setup" /\ cur = s

\* A server that is disabled, or cannot be reached.
Skip(s) ==
    /\ Turn(s) /\ session[s] = "no" /\ cur' = cur + 1
    /\ UNCHANGED <<web, sameServer, sameTool, phase, session, kept, admits, registry, broken>>

Connect(s) ==
    /\ Turn(s) /\ session[s] = "no"
    /\ session' = [session EXCEPT ![s] = "open"]
    /\ UNCHANGED <<web, sameServer, sameTool, phase, cur, kept, admits, registry, broken>>

\* Its tools cannot be listed: the session is closed at once.
ListFails(s) ==
    /\ Turn(s) /\ session[s] = "open"
    /\ session' = [session EXCEPT ![s] = "closed"] /\ cur' = cur + 1
    /\ UNCHANGED <<web, sameServer, sameTool, phase, kept, admits, registry, broken>>

\* Tool and policy are entered together.
MutEntry(old, s, t) ==
    [session |-> s, remote |-> t, policy |-> IF old = NoTool THEN s ELSE old.policy]
Entry(old, s, t) == [session |-> s, remote |-> t, policy |-> s]

\* Of the tools it lists, those tool_allowed admits are entered one after the other: under
\* each of their names stands the last that was listed, whatever stood there before.
List(s) ==
    /\ Turn(s) /\ session[s] = "open"
    /\ \E allowed \in SUBSET Remote : \E listed \in SUBSET allowed :
       \E last \in [{Name(s, t) : t \in listed} -> listed] :
         /\ \A n \in DOMAIN last : Name(s, last[n]) = n
         /\ admits' = [admits EXCEPT ![s] = allowed]
         /\ registry' = [n \in Names |-> IF n \in DOMAIN last
                                         THEN Entry(registry[n], s, last[n]) ELSE registry[n]]
    /\ kept' = Append(kept, s) /\ cur' = cur + 1
    /\ UNCHANGED <<web, sameServer, sameTool, phase, session, broken>>

\* The last server had its turn; the agent gets the registry.
SetUp ==
    /\ phase = "setup" /\ cur \notin Servers /\ phase' = "runs"
    /\ UNCHANGED <<web, sameServer, sameTool, cur, session, kept, admits, registry, broken>>

\* The task is cancelled while it waits for a server: what it had connected is in no
\* result.
CutShort ==
    /\ phase = "setup" /\ cur \in Servers
    /\ phase' = "closing" /\ kept' = << >> /\ broken' = TRUE
    /\ UNCHANGED <<web, sameServer, sameTool, cur, session, admits, registry>>

-------------------------------------------------------------------------------
\* A change of the model builds the web page's agent anew (_reload_session_model): with
\* the tools of build_chat_agent, so without these; the sessions stay.
Reload ==
    /\ web /\ phase = "runs"
    /\ registry' = [n \in Names |-> NoTool]
    /\ UNCHANGED <<web, sameServer, sameTool, phase, cur, session, kept, admits, broken>>

\* MCPSetupResult.aclose, at the end of the command and of the web server: a session that
\* cannot be closed does not keep the next from it.
Ends ==
    /\ phase = "runs" /\ phase' = "closing"
    /\ UNCHANGED <<web, sameServer, sameTool, cur, session, kept, admits, registry, broken>>
Close ==
    /\ phase = "closing" /\ kept # << >>
    /\ session' = [session EXCEPT ![Head(kept)] = "closed"] /\ kept' = Tail(kept)
    /\ UNCHANGED <<web, sameServer, sameTool, phase, cur, admits, registry, broken>>
Over ==
    /\ phase = "closing" /\ kept = << >> /\ phase' = "over"
    /\ UNCHANGED <<web, sameServer, sameTool, cur, session, kept, admits, registry, broken>>

Next ==
    \/ \E s \in Servers : Skip(s) \/ Connect(s) \/ ListFails(s) \/ List(s)
    \/ SetUp \/ CutShort \/ Reload \/ Ends \/ Close \/ Over
Spec == Init /\ [][Next]_vars

-------------------------------------------------------------------------------
(* Properties.                                                                *)

\* Whatever names fall together, a name calls one tool of one server, under that server's
\* own policy and admitted by its own rules, in a session that is open while the agent
\* runs; and every session is closed in the end, but for a setup that was cut short.
NameIsOneTool ==
    /\ \A n \in Names : registry[n] # NoTool =>
         /\ registry[n].policy = registry[n].session
         /\ registry[n].remote \in admits[registry[n].session]
         /\ phase = "runs" => session[registry[n].session] = "open"
    /\ phase = "over" /\ ~broken => \A s \in Servers : session[s] # "open"
===============================================================================
