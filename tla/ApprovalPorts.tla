----------------------------- MODULE ApprovalPorts -----------------------------
(***************************************************************************)
(* The tool calls of one run at the privilege gate, and the port through   *)
(* which a person approves them: the web page (web/approval.py and the     *)
(* approve endpoint of web/server.py), Telegram's update feed              *)
(* (integration/telegram.py) or QQ's callback store (integration/qq.py).   *)
(* The calls run in parallel (asyncio.gather), so several waits share one  *)
(* port.  An action is the code between two awaits.                        *)
(*                                                                         *)
(* A person may answer a card as long as it is on the screen, also after   *)
(* the wait is over, and more than once (at most MaxClicks answers).       *)
(* Sending and polling over HTTP may fail; Telegram forgets the updates    *)
(* below the offset of a request it has seen.                              *)
(***************************************************************************)
EXTENDS ToolDecision, FiniteSets

CONSTANTS Calls,      \* the tool calls of the run
          PortKinds,  \* the ports to consider, within {"web", "telegram", "qq", "none"}
          MaxClicks   \* bound on the answers a person gives

VARIABLES port,       \* the port of the gate
          conf,       \* settings, overrides and binding of the request, until the run begins
          mode,       \* the approval mode of the run, Unset until it begins
          pc,         \* where each call is
          must,       \* history: whether a person is to be asked about the call (Demand)
          cards,      \* calls whose card a person has seen
          clicks,     \* history: the answers given to each call, in order
          counted,    \* history: the answer the gate acted on
          swallowed,  \* history: calls one of whose answers another wait consumed
          pending, events,    \* web: _pending (and _events), and the events that are set
          decisions,          \* web, Telegram, QQ: _decisions
          feed, offset, asked, confirmed,  \* Telegram: updates, _offset, per poll, per server
          store               \* QQ: _interaction_store

runVars == <<port, conf, mode>>
portVars == <<pending, events, decisions, feed, offset, asked, confirmed, store>>
history == <<must, clicks, counted, swallowed>>
vars == <<runVars, pc, cards, portVars, history>>

Answers == {"approve", "deny"}
NoConf == [settings |-> Unset]
Requests == [settings : Settings, over : Overrides, local : BOOLEAN]
Waiting == {"waiting", "polling"}

Init ==
    /\ port \in PortKinds
    /\ conf \in Requests
    /\ mode = Unset
    /\ pc = [c \in Calls |-> "todo"]
    /\ cards = {}
    /\ pending = {} /\ events = {}
    /\ decisions = [c \in Calls |-> "none"]
    /\ feed = <<>> /\ offset = 0 /\ confirmed = 0
    /\ asked = [c \in Calls |-> 0]
    /\ store = [c \in Calls |-> "none"]
    /\ must = [c \in Calls |-> "no"]
    /\ clicks = [c \in Calls |-> <<>>]
    /\ counted = [c \in Calls |-> "none"]
    /\ swallowed = {}

Move(c, from, to) == pc[c] = from /\ pc' = [pc EXCEPT ![c] = to]

\* prepare_request resolves the preferences; the run gets them in its metadata.
BeginRun ==
    /\ mode = Unset
    /\ mode' = ResolvePrefs(conf.settings, conf.over, conf.local)
    /\ conf' = NoConf
    /\ UNCHANGED <<port, pc, cards, portVars, history>>

-------------------------------------------------------------------------------
\* The matrix of docs/tool-privilege.md, from the docs alone: what each mode asks a
\* person about.
Matrix == [m \in Modes |->
    CASE m = "ask-every-write" -> {"edit", "state", "danger"}
      [] m = "ask-on-state"    -> {"state", "danger"}
      [] m = "ask-on-danger"   -> {"danger"}
      [] m = "auto-approve"    -> {}]
KindOf(t, level, escalated) ==
    CASE escalated \/ level = "L3" -> "danger"
      [] ~escalated /\ level = "L2" /\ Registered[t].state -> "state"
      [] ~escalated /\ level = "L2" /\ ~Registered[t].state /\ Registered[t].files -> "edit"
      [] OTHER -> "read"

\* The level that counts: .aurules can only raise a tool above the level it is
\* registered with (tool-privilege.md:152, privilege_floor.py:9).
Raised(t, requested) ==
    IF requested = Unset THEN Registered[t].privilege
    ELSE MaxPrivilege(Registered[t].privilege, requested)

\* Only these tools have no floor at their registered level, so that .aurules may
\* lower them all the same.
Unfloored == {"read_file", "git_commit", "git_push"}
Effective(t, requested) ==
    IF t \in Unfloored /\ requested # Unset THEN requested ELSE Raised(t, requested)

\* Whether a person is to be asked: "yes", "no", or "lowered", when the matrix says
\* so and .aurules lowered the tool to a level at which it does not.
Demand(m, t, requested, escalated) ==
    CASE KindOf(t, Effective(t, requested), escalated) \in Matrix[m] -> "yes"
      [] /\ KindOf(t, Effective(t, requested), escalated) \notin Matrix[m]
         /\ KindOf(t, Raised(t, requested), escalated) \in Matrix[m] -> "lowered"
      [] OTHER -> "no"

\* check_and_invoke, up to the request for an approval or to the tool, and whether a
\* person is to be asked: any tool, .aurules override, escalation, end of the hooks and state of the
\* sandbox.
HookRuns == {{"ok"}, {"ok", "timeout"}, {"block"}}
GateEnds ==
    [m \in Modes |-> [hasPort \in BOOLEAN |->
        {<<Verdict(m, Merged(t, requested), hits, off, ends, hasPort, inSandbox),
           Demand(m, t, requested, hits \cap ActiveRules(off) # {})>> :
           t \in Tools, requested \in Privileges \cup {Unset}, off \in BOOLEAN,
           hits \in {{}, {"locked"}, {"open"}}, ends \in HookRuns, inSandbox \in BOOLEAN}]]
Gate(c) ==
    /\ mode # Unset /\ pc[c] = "todo"
    /\ \E end \in GateEnds[mode][port # "none"] :
         pc' = [pc EXCEPT ![c] = end[1]] /\ must' = [must EXCEPT ![c] = end[2]]
    /\ UNCHANGED <<runVars, cards, portVars, clicks, counted, swallowed>>

-------------------------------------------------------------------------------
\* WebApprovalPort.request_approval, then wait_decision without an await between.
WebAsks(c) ==
    /\ port = "web"
    /\ Move(c, "ask", "waiting")
    /\ pending' = pending \cup {c}
    /\ cards' = cards \cup {c}
    /\ UNCHANGED <<runVars, events, decisions, feed, offset, asked, confirmed, store, history>>

\* The messenger ports send a card; the person may see it before the reply is here.
CardSent(c) ==
    /\ port \in {"telegram", "qq"}
    /\ Move(c, "ask", "sending")
    /\ cards' = cards \cup {c}
    /\ UNCHANGED <<runVars, portVars, history>>

\* raise_for_status, or a reply that is not ok: the exception leaves the gate.
SendFails(c) ==
    /\ port \in {"telegram", "qq"}
    /\ \E from \in {"ask", "sending"} : Move(c, from, "raised")
    /\ UNCHANGED <<runVars, cards, portVars, history>>

SendReturns(c) ==
    /\ Move(c, "sending", "waiting")
    /\ UNCHANGED <<runVars, cards, portVars, history>>

-------------------------------------------------------------------------------
\* resolve_pending: the tool is invoked, or the call is an error and the run stops.
After(answer) == IF answer = "approve" THEN "run" ELSE "denied"

\* decide sets the event of the wait.
MutNotified(c) == events
Notified(c) == events \cup {c}

\* POST /api/chat/approve: refused (404) unless the request is pending; an answer
\* that comes before the wait wakes up replaces the one before.
WebClick(c, a) ==
    /\ port = "web" /\ c \in pending
    /\ decisions' = [decisions EXCEPT ![c] = a]
    /\ events' = Notified(c)
    /\ UNCHANGED <<pending, feed, offset, asked, confirmed, store>>

TelegramClick(c, a) ==
    /\ port = "telegram"
    /\ feed' = Append(feed, [call |-> c, answer |-> a])
    /\ UNCHANGED <<pending, events, decisions, offset, asked, confirmed, store>>

\* register_qq_callback: the first decision is locked.
MutLocked(c, a) == a
Locked(c, a) == IF store[c] = "none" THEN a ELSE store[c]
QqClick(c, a) ==
    /\ port = "qq"
    /\ store' = [store EXCEPT ![c] = Locked(c, a)]
    /\ UNCHANGED <<pending, events, decisions, feed, offset, asked, confirmed>>

NumClicks == Cardinality(UNION {{<<c, i>> : i \in DOMAIN clicks[c]} : c \in Calls})

Click(c, a) ==
    /\ c \in cards /\ NumClicks < MaxClicks
    /\ WebClick(c, a) \/ TelegramClick(c, a) \/ QqClick(c, a)
    /\ clicks' = [clicks EXCEPT ![c] = Append(@, a)]
    /\ UNCHANGED <<runVars, pc, cards, must, counted, swallowed>>

\* WebApprovalPort.wait_decision wakes up and consumes the request.
WebWakes(c) ==
    /\ port = "web" /\ c \in events
    /\ Move(c, "waiting", After(decisions[c]))
    /\ pending' = pending \ {c}
    /\ events' = events \ {c}
    /\ counted' = [counted EXCEPT ![c] = decisions[c]]
    /\ UNCHANGED <<runVars, cards, decisions, feed, offset, asked, confirmed, store,
                   must, clicks, swallowed>>

Larger(m, n) == IF m >= n THEN m ELSE n

\* TelegramApprovalPort.wait_decision asks for the updates from _offset on.
PollBegins(c) ==
    /\ port = "telegram"
    /\ Move(c, "waiting", "polling")
    /\ asked' = [asked EXCEPT ![c] = offset]
    /\ confirmed' = Larger(confirmed, offset)
    /\ UNCHANGED <<runVars, cards, pending, events, decisions, feed, offset, store, history>>

\* The updates Telegram still has for this request.
Batch(c) == (Larger(asked[c], confirmed) + 1)..Len(feed)
Own(c) == {k \in Batch(c) : feed[k].call = c}
\* What the loop over the updates passes: up to the first one of this request.
Read(c) == {k \in Batch(c) : \A i \in Own(c) : k <= i}
OthersIn(ks, c) == {feed[k].call : k \in ks} \ {c}

PollFinds(c) ==
    /\ Own(c) # {}
    /\ LET first == CHOOSE k \in Own(c) : \A i \in Own(c) : k <= i
           answer == feed[first].answer
       IN  /\ decisions' = [decisions EXCEPT ![c] = answer]
           /\ counted' = [counted EXCEPT ![c] = answer]
           /\ \E to \in {After(answer), "raised"} : Move(c, "polling", to)
    /\ offset' = CHOOSE n \in {offset} \cup Read(c) : \A k \in {offset} \cup Read(c) : n >= k
    /\ swallowed' = swallowed \cup OthersIn(Read(c), c)
    /\ UNCHANGED <<runVars, cards, pending, events, feed, asked, confirmed, store, must, clicks>>

PollFindsNothing(c) ==
    /\ Own(c) = {}
    /\ Move(c, "polling", "waiting")
    /\ offset' = IF Batch(c) = {} THEN offset ELSE Larger(offset, Len(feed))
    /\ swallowed' = swallowed \cup OthersIn(Batch(c), c)
    /\ UNCHANGED <<runVars, cards, pending, events, decisions, feed, asked, confirmed, store,
                   must, clicks, counted>>

PollFails(c) ==
    /\ Move(c, "polling", "raised")
    /\ UNCHANGED <<runVars, cards, portVars, history>>

\* QQApprovalPort.wait_decision pops the callback of its request.
QqTakes(c) ==
    /\ port = "qq" /\ store[c] # "none"
    /\ Move(c, "waiting", After(store[c]))
    /\ store' = [store EXCEPT ![c] = "none"]
    /\ decisions' = [decisions EXCEPT ![c] = store[c]]
    /\ counted' = [counted EXCEPT ![c] = store[c]]
    /\ UNCHANGED <<runVars, cards, pending, events, feed, offset, asked, confirmed,
                   must, clicks, swallowed>>

\* The deadline passes, perhaps just after the answer: nothing is cleaned up.
Timeout(c) ==
    /\ Move(c, "waiting", "denied")
    /\ UNCHANGED <<runVars, cards, portVars, history>>

InvokeEnds(c) ==
    /\ Move(c, "run", "done")
    /\ UNCHANGED <<runVars, cards, portVars, history>>

\* The reader leaves and the task of the run is cancelled in all its awaits.
Leave ==
    /\ \E c \in Calls : pc[c] \in {"sending", "run"} \cup Waiting
    /\ pc' = [c \in Calls |-> IF pc[c] \in {"sending", "run"} \cup Waiting
                              THEN "killed" ELSE pc[c]]
    /\ UNCHANGED <<runVars, cards, portVars, history>>

Progress(c) == WebWakes(c) \/ PollBegins(c) \/ PollFinds(c) \/ PollFindsNothing(c) \/ QqTakes(c)

Next ==
    \/ BeginRun \/ Leave
    \/ \E c \in Calls :
         \/ Gate(c) \/ WebAsks(c) \/ CardSent(c) \/ SendFails(c) \/ SendReturns(c)
         \/ Progress(c) \/ PollFails(c) \/ Timeout(c) \/ InvokeEnds(c)
         \/ \E a \in Answers : Click(c, a)

Spec == Init /\ [][Next]_vars
\* A wait goes on polling: the event loop runs what is ready.  Nobody has to answer.
FairSpec == Spec /\ \A c \in Calls : WF_vars(Progress(c))

-------------------------------------------------------------------------------
(* Properties.                                                                *)

Approved(c) == counted[c] = "approve" /\ \E i \in DOMAIN clicks[c] : clicks[c][i] = "approve"

\* Whatever was overridden, escalated, hooked, answered late or twice: a call the
\* documented matrix asks about is executed only after a person approved that very
\* call, unless .aurules lowered a tool that has no floor and no rule escalated the
\* call.  A tool with a floor is asked about whatever .aurules say.
NobodyRunsUnasked ==
    \A c \in Calls : pc[c] \in {"run", "done"} /\ must[c] = "yes" => Approved(c)

\* What the docs promise of .aurules (tool-privilege.md:152; a push always needs an
\* approval, git.py:6) leaves out that exception.  It does not hold of the code: an
\* entry for git_push makes a push run unasked.
ProjectOnlyRaises ==
    \A c \in Calls : pc[c] \in {"run", "done"} /\ must[c] # "no" => Approved(c)

\* The first answer to a card counts (qq.py:36): a second click never turns it
\* round, unless another wait took the first one off the shared feed.
FirstAnswerCounts ==
    port \in {"telegram", "qq"} =>
        \A c \in Calls : counted[c] # "none" /\ c \notin swallowed => counted[c] = clicks[c][1]

\* What the request asks for is what the run gets: a mode, no automatic approval,
\* or a level unless the settings approve everything; and everything is approved
\* only on a page bound to this machine.
RequestIsHonoured ==
    conf # NoConf =>
        LET s == conf.settings
            o == conf.over
            m == ResolvePrefs(s, o, conf.local)
        IN  /\ AutoOf(m) => conf.local
            /\ o.auto = "no" => ~AutoOf(m)
            /\ o.mode # Unset /\ o.auto # "yes" /\ ~AutoOf(o.mode) => m = o.mode
            /\ (o.autonomy # Unset /\ o.mode = Unset /\ o.auto # "yes"
                   /\ (o.auto = "no" \/ ~(AutoOf(s.mode) \/ s.auto)))
                   => LevelOf[m] = o.autonomy

\* An answer that nobody else took off the feed ends the wait.
AnswerSettles ==
    \A c \in Calls : clicks[c] # <<>> /\ pc[c] \in Waiting ~> pc[c] \notin Waiting \/ c \in swallowed
===============================================================================
