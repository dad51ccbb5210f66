-------------------------------- MODULE WebChat --------------------------------
(***************************************************************************)
(* The chat of the web UI: one WebSession (web/session.py), one store of   *)
(* conversations (web/conversations.py) and the request handlers of        *)
(* web/server.py that share them.  Handlers run on one event loop, an      *)
(* action is what happens between two awaits.                              *)
(*                                                                         *)
(* A stream is one POST /api/chat/stream with one run of the agent, which  *)
(* is taken as a whole here (RunStream is about its inside).  A message is *)
(* the question or the answer of a stream; conversation ids are numbered   *)
(* in the order they are drawn.  An agent is known by how many times the   *)
(* model settings were changed before it was built; the model client built *)
(* with it has the same number, the temporary client of a stream its name. *)
(* Left out: the calls of a run and their results, the summaries a run     *)
(* puts in place of messages, the roles, images and notes of a request,    *)
(* usage totals and pending_run_conversation_id, which apply_result never  *)
(* falls back on.                                                          *)
(***************************************************************************)
EXTENDS Naturals, Sequences

CONSTANTS Streams,    \* the stream requests
          MaxConvs,   \* bound: conversations ever created
          MaxReloads, \* bound: changes of the model settings
          MaxDetours, \* bound: requests other than streams
          None        \* no stream, no conversation, no client

ASSUME ConstantsAssumption ==
    /\ MaxConvs \in Nat \ {0}
    /\ MaxReloads \in Nat
    /\ MaxDetours \in Nat
    /\ None \notin Nat
    /\ None \notin Streams
    /\ "review" \notin Streams \cup {None}
    /\ Streams \cap Nat = {}

VARIABLES file,     \* the messages in the file of a conversation
          rows,     \* the conversations of index.json, the last saved first
          listed,   \* active_id of index.json
          issued,   \* how many conversation ids were drawn
          active,   \* session.active_conversation_id
          history,  \* session.history
          busy,     \* session.active_run_id: a stream, "review" or None
          agent,    \* session.agent
          last,     \* last_run_result of each agent: its messages, or None
          client,   \* the model client each agent is configured with
          closed,   \* the model clients that were closed
          pc,       \* where the generator of a stream is
          conv,     \* the conversation of the stream's run
          window,   \* the messages the stream's run was given
          runs_on,  \* the agent the stream's run was started on
          prev,     \* the client the stream has to put back
          orphans,  \* streams whose reader left while the run was under way
          review, reload, cutting, \* where the other handlers that await are
          detours,  \* how many requests other than streams were made
          overlapped, \* history: a run was prepared while another was under way
          swapped     \* history: the agent was replaced under a run

storeVars == <<file, rows, listed>>
sessionVars == <<issued, active, history>>
agentVars == <<agent, last, client, closed>>
streamVars == <<pc, conv, window, runs_on, prev, orphans>>
handlerVars == <<review, reload, cutting, detours>>
historyVars == <<overlapped, swapped>>
vars == <<storeVars, sessionVars, busy, agentVars, streamVars, handlerVars, historyVars>>

Convs == 1..MaxConvs
Agents == 0..MaxReloads
Clients == Agents \cup Streams
Message == [by : Streams, kind : {"question", "answer"}]
StreamPC == {"idle", "checked", "preparing", "noted", "running", "live", "saved",
             "ending", "restoring", "over"}

\* A stream between the look at the history and the last line of its generator.
UnderWay(s) == pc[s] \in {"noted", "running", "live", "saved", "ending", "restoring"}

Kept == {rows[i] : i \in DOMAIN rows}

StoreTypes ==
    /\ file \in [Convs -> Seq(Message)]
    /\ rows \in Seq(Convs)
    /\ \A i, j \in DOMAIN rows : rows[i] = rows[j] => i = j
    /\ listed \in Convs \cup {None}
    /\ issued \in Convs
    /\ active \in Convs
    /\ history \in Seq(Message)

AgentTypes ==
    /\ agent \in Agents
    /\ last \in [Agents -> Seq(Message) \cup {None}]
    /\ client \in [Agents -> Clients]
    /\ closed \subseteq Clients

StreamTypes ==
    /\ pc \in [Streams -> StreamPC]
    /\ conv \in [Streams -> Convs \cup {None}]
    /\ window \in [Streams -> Seq(Message)]
    /\ runs_on \in [Streams -> Agents]
    /\ prev \in [Streams -> Clients \cup {None}]
    /\ orphans \subseteq Streams

HandlerTypes ==
    /\ busy \in Streams \cup {"review", None}
    /\ review \in {"idle", "checked", "running"}
    /\ reload \in {"idle", "closing"}
    /\ cutting \in Convs \cup {None}
    /\ detours \in 0..MaxDetours

Flags == overlapped \in BOOLEAN /\ swapped \in BOOLEAN

\* The types of the session, with each conversation in the index once.
TypeOK == StoreTypes /\ AgentTypes /\ StreamTypes /\ HandlerTypes /\ Flags

\* The server starts on conversations without messages, the newest of them active,
\* or creates the first one: get_or_create_active.
Init ==
    /\ file = [c \in Convs |-> <<>>]
    /\ issued \in Convs
    /\ rows = [i \in 1..issued |-> issued + 1 - i]
    /\ listed = issued /\ active = issued /\ history = <<>>
    /\ busy = None
    /\ agent = 0
    /\ last = [a \in Agents |-> None]
    /\ client = [a \in Agents |-> a]
    /\ closed = {}
    /\ pc = [s \in Streams |-> "idle"]
    /\ conv = [s \in Streams |-> None]
    /\ window = [s \in Streams |-> <<>>]
    /\ runs_on = [s \in Streams |-> 0]
    /\ prev = [s \in Streams |-> None]
    /\ orphans = {}
    /\ review = "idle" /\ reload = "idle" /\ cutting = None /\ detours = 0
    /\ overlapped = FALSE /\ swapped = FALSE

-------------------------------------------------------------------------------
(* The store, and the pieces of the handlers that the mutants change.         *)

\* A conversation is in the index once (TypeOK).
Without(c, r) ==
    IF \E i \in DOMAIN r : r[i] = c
    THEN LET at == CHOOSE i \in DOMAIN r : r[i] = c
         IN  SubSeq(r, 1, at - 1) \o SubSeq(r, at + 1, Len(r))
    ELSE r

\* save_messages moves the conversation to the front of the index, or adds it.
MutFront(c) == <<c>> \o rows
Front(c) == <<c>> \o Without(c, rows)

\* WebSession.persist, without its effect on the active id of the index.
Persist(messages) ==
    /\ file' = [file EXCEPT ![active] = messages]
    /\ rows' = Front(active)

\* prepare_request: the history the run is given and the session keeps.
MutAsked(s) == <<[by |-> s, kind |-> "question"]>>
Asked(s) == Append(history, [by |-> s, kind |-> "question"])

\* apply_result: where the result goes, whether that conversation becomes the
\* active one of the index, and what the session's history becomes.
MutTarget(s) == active
Target(s) == conv[s]

MutListedAfter(c) == c
ListedAfter(c) == IF c = active THEN c ELSE listed

MutHistoryAfter(c, messages) == messages
HistoryAfter(c, messages) == IF c = active THEN messages ELSE history

\* The finally block of a stream.
MutFreed == busy
Freed == None

MutRestored(s) == client[agent]
Restored(s) == prev[s]

-------------------------------------------------------------------------------
(* POST /api/chat/stream.                                                     *)

MoveStream(s, from, to) ==
    /\ pc[s] \in from
    /\ pc' = [pc EXCEPT ![s] = to]

\* The busy check; then the body of the request is awaited.
StreamArrives(s) ==
    /\ busy = None
    /\ MoveStream(s, {"idle"}, "checked")
    /\ UNCHANGED <<storeVars, sessionVars, busy, agentVars, conv, window, runs_on, prev,
                   orphans, handlerVars, historyVars>>

\* The body names the active conversation: prepare_request starts, and awaits
\* the description of the images.
BeginPrepare(s) ==
    /\ MoveStream(s, {"checked"}, "preparing")
    /\ UNCHANGED <<storeVars, sessionVars, busy, agentVars, conv, window, runs_on, prev,
                   orphans, handlerVars, historyVars>>

\* prepare_request ends: the question is appended to whatever conversation is
\* active by now, and the notes are sent.
Prepared(s) ==
    /\ MoveStream(s, {"preparing"}, "noted")
    /\ history' = Asked(s)
    /\ Persist(Asked(s))
    /\ listed' = active
    /\ conv' = [conv EXCEPT ![s] = active]
    /\ window' = [window EXCEPT ![s] = Asked(s)]
    /\ overlapped' = (overlapped \/ \E t \in Streams \ {s} : UnderWay(t))
    /\ UNCHANGED <<issued, active, busy, agentVars, runs_on, prev, orphans, handlerVars, swapped>>

\* The model of the request replaces the agent's for this run; run_stream starts
\* on the agent the session has now.
StartRun(s) ==
    /\ MoveStream(s, {"noted"}, "running")
    /\ busy' = None
    /\ runs_on' = [runs_on EXCEPT ![s] = agent]
    /\ \/ UNCHANGED <<prev, client>>
       \/ /\ prev' = [prev EXCEPT ![s] = client[agent]]
          /\ client' = [client EXCEPT ![agent] = s]
    /\ UNCHANGED <<storeVars, sessionVars, agent, last, closed, conv, window, orphans,
                   handlerVars, historyVars>>

\* The run_start event: only now is the session busy.
RunStarts(s) ==
    /\ MoveStream(s, {"running"}, "live")
    /\ busy' = s
    /\ UNCHANGED <<storeVars, sessionVars, agentVars, conv, window, runs_on, prev, orphans,
                   handlerVars, historyVars>>

\* What is left of the messages of a run: before every step the oldest go when
\* there are too many, and a summary of the conversation keeps what stands up to
\* the first question, and the end.  A run of many calls may so lose all of them.
Cuts(m) ==
    {c \in [from : 1..(Len(m) + 1), to : 0..Len(m), rest : 1..(Len(m) + 1)] :
        /\ c.from <= c.to + 1 /\ c.to < c.rest
        /\ \A i \in c.from..c.to : m[i].kind = "question" <=> i = c.to}
Shortened(m) == {SubSeq(m, c.from, c.to) \o SubSeq(m, c.rest, Len(m)) : c \in Cuts(m)}

\* A run ends with an answer or without.
Ended(s, m) == {m, Append(m, [by |-> s, kind |-> "answer"])}
Results(s) == UNION {Ended(s, m) : m \in Shortened(window[s])}

\* The run is over: its agent records the result, and apply_result saves the
\* result of the agent the session has now.
RunEnds(s) ==
    /\ MoveStream(s, {"live"}, "saved")
    /\ \E messages \in Results(s) : last' = [last EXCEPT ![runs_on[s]] = messages]
    /\ LET c == Target(s) IN
       IF last'[agent] = None THEN UNCHANGED <<storeVars, history>>
       ELSE /\ file' = [file EXCEPT ![c] = last'[agent]]
            /\ rows' = Front(c)
            /\ listed' = ListedAfter(c)
            /\ history' = HistoryAfter(c, last'[agent])
    /\ UNCHANGED <<issued, active, busy, agent, client, closed, conv, window, runs_on, prev,
                   orphans, handlerVars, historyVars>>

\* The memory and the evolution cycle are done, the finally block is next.
Remembered(s) ==
    /\ MoveStream(s, {"saved"}, "ending")
    /\ UNCHANGED <<storeVars, sessionVars, busy, agentVars, conv, window, runs_on, prev,
                   orphans, handlerVars, historyVars>>

\* The request is refused (its body is malformed or names another conversation),
\* its preparation raises, or its reader leaves while it is not running.
GiveUp(s) ==
    /\ MoveStream(s, {"checked", "preparing", "noted", "running", "saved"}, "ending")
    /\ UNCHANGED <<storeVars, sessionVars, busy, agentVars, conv, window, runs_on, prev,
                   orphans, handlerVars, historyVars>>

\* The reader leaves during the run: the generator of the run is closed later.
Leave(s) ==
    /\ MoveStream(s, {"running", "live"}, "ending")
    /\ orphans' = orphans \cup {s}
    /\ UNCHANGED <<storeVars, sessionVars, busy, agentVars, conv, window, runs_on, prev,
                   handlerVars, historyVars>>

\* run_stream of such a run stops its task and records an error.
OrphanCloses(s) ==
    /\ s \in orphans
    /\ orphans' = orphans \ {s}
    /\ \E messages \in Shortened(window[s]) : last' = [last EXCEPT ![runs_on[s]] = messages]
    /\ UNCHANGED <<storeVars, sessionVars, busy, agent, client, closed, pc, conv, window,
                   runs_on, prev, handlerVars, historyVars>>

\* The finally block without a model to put back.
EndStream(s) ==
    /\ prev[s] = None
    /\ MoveStream(s, {"ending"}, "over")
    /\ busy' = Freed
    /\ UNCHANGED <<storeVars, sessionVars, agentVars, conv, window, runs_on, prev, orphans,
                   handlerVars, historyVars>>

\* The finally block closes the client of the session's agent and awaits that,
CloseClient(s) ==
    /\ prev[s] # None
    /\ MoveStream(s, {"ending"}, "restoring")
    /\ closed' = closed \cup {client[agent]}
    /\ UNCHANGED <<storeVars, sessionVars, busy, agent, last, client, conv, window, runs_on,
                   prev, orphans, handlerVars, historyVars>>

\* and puts the client of before back into the agent the session has by then.
RestoreClient(s) ==
    /\ MoveStream(s, {"restoring"}, "over")
    /\ client' = [client EXCEPT ![agent] = Restored(s)]
    /\ busy' = Freed
    /\ UNCHANGED <<storeVars, sessionVars, agent, last, closed, conv, window, runs_on, prev,
                   orphans, handlerVars, historyVars>>

StreamStep(s) ==
    \/ BeginPrepare(s) \/ Prepared(s) \/ StartRun(s) \/ RunStarts(s) \/ RunEnds(s)
    \/ Remembered(s) \/ OrphanCloses(s) \/ EndStream(s) \/ CloseClient(s) \/ RestoreClient(s)

-------------------------------------------------------------------------------
(* The other handlers.                                                        *)

Detour ==
    /\ detours < MaxDetours
    /\ detours' = detours + 1

\* POST /api/chat/conversations and /api/chat/clear: WebSession.clear.
NewConversation ==
    /\ Detour
    /\ busy = None
    /\ issued < MaxConvs
    /\ issued' = issued + 1
    /\ file' = [file EXCEPT ![active] = history]
    /\ rows' = <<issued'>> \o Front(active)
    /\ listed' = issued' /\ active' = issued'
    /\ history' = <<>>
    /\ UNCHANGED <<busy, agentVars, streamVars, review, reload, cutting, historyVars>>

\* POST /api/chat/conversations/{c}/switch: the active one is saved, then c loaded.
SwitchTo(c) ==
    /\ active' = c
    /\ listed' = c
    /\ Persist(history)
    /\ history' = file'[c]

Switch(c) ==
    /\ Detour
    /\ busy = None
    /\ c \in Kept
    /\ SwitchTo(c)
    /\ UNCHANGED <<issued, busy, agentVars, streamVars, review, reload, cutting, historyVars>>

\* DELETE /api/chat/conversations/{c}, not the active one.
DeleteOther(c) ==
    /\ Detour
    /\ c \in Kept \ {active}
    /\ file' = [file EXCEPT ![c] = <<>>]
    /\ rows' = Without(c, rows)
    /\ listed' = IF listed # c THEN listed ELSE IF rows' = <<>> THEN None ELSE rows'[1]
    /\ UNCHANGED <<sessionVars, busy, agentVars, streamVars, review, reload, cutting, historyVars>>

\* The active one, with another one left, during a run: switch_conversation
\* raises after the file is gone.
DeleteActiveBusy ==
    /\ Detour
    /\ busy # None
    /\ active \in Kept /\ Kept # {active}
    /\ file' = [file EXCEPT ![active] = <<>>]
    /\ rows' = Without(active, rows)
    /\ listed' = rows'[1]
    /\ UNCHANGED <<sessionVars, busy, agentVars, streamVars, review, reload, cutting, historyVars>>

\* The active one, with another one left: switch_conversation saves the history
\* of the deleted conversation again.
DeleteActive ==
    /\ Detour
    /\ busy = None
    /\ active \in Kept /\ Kept # {active}
    /\ SwitchTo(Without(active, rows)[1])
    /\ UNCHANGED <<issued, busy, agentVars, streamVars, review, reload, cutting, historyVars>>

\* The only one: clear saves it again and creates another; busy is not looked at.
DeleteLast ==
    /\ Detour
    /\ Kept = {active}
    /\ issued < MaxConvs
    /\ issued' = issued + 1
    /\ file' = [file EXCEPT ![active] = history]
    /\ rows' = <<issued', active>>
    /\ listed' = issued' /\ active' = issued'
    /\ history' = <<>>
    /\ busy' = None
    /\ UNCHANGED <<agentVars, streamVars, review, reload, cutting, historyVars>>

\* POST /api/chat/conversations/{c}/truncate: the checks, then the body is awaited.
CutArrives ==
    /\ Detour
    /\ busy = None /\ cutting = None
    /\ cutting' = active
    /\ UNCHANGED <<storeVars, sessionVars, busy, agentVars, streamVars, review, reload, historyVars>>

\* truncate_to_user_turn cuts whatever conversation is active by now.
Cut ==
    /\ cutting # None
    /\ busy = None
    /\ \E i \in DOMAIN history :
         /\ history[i].kind = "question"
         /\ history' = SubSeq(history, 1, i - 1)
         /\ Persist(SubSeq(history, 1, i - 1))
    /\ listed' = active
    /\ cutting' = None
    /\ UNCHANGED <<issued, active, busy, agentVars, streamVars, review, reload, detours, historyVars>>

\* A run began meanwhile, or the index of the turn is not in the history.
CutRefused ==
    /\ cutting # None
    /\ cutting' = None
    /\ UNCHANGED <<storeVars, sessionVars, busy, agentVars, streamVars, review, reload, detours, historyVars>>

\* PUT /api/settings/model: the busy check, then the client is closed ...
ReloadBegins ==
    /\ Detour
    /\ busy = None /\ reload = "idle"
    /\ agent < MaxReloads
    /\ reload' = "closing"
    /\ closed' = closed \cup {client[agent]}
    /\ UNCHANGED <<storeVars, sessionVars, busy, agent, last, client, streamVars, review,
                   cutting, historyVars>>

\* ... which is awaited, and a new agent with a client of its own takes over.
ReloadEnds ==
    /\ reload = "closing"
    /\ reload' = "idle"
    /\ agent' = agent + 1
    /\ swapped' = (swapped \/ \E s \in Streams : pc[s] \in {"running", "live", "saved", "ending", "restoring"})
    /\ UNCHANGED <<storeVars, sessionVars, busy, last, client, closed, streamVars, review,
                   cutting, detours, overlapped>>

\* POST /api/chat/review: the busy check, then the body is awaited.
ReviewArrives ==
    /\ Detour
    /\ busy = None /\ review = "idle"
    /\ review' = "checked"
    /\ UNCHANGED <<storeVars, sessionVars, busy, agentVars, streamVars, reload, cutting, historyVars>>

\* The passes of the review begin, or it ends for want of a target.
ReviewRuns ==
    /\ review = "checked"
    /\ \/ review' = "running" /\ busy' = "review"
       \/ review' = "idle" /\ UNCHANGED busy
    /\ UNCHANGED <<storeVars, sessionVars, agentVars, streamVars, reload, cutting, detours, historyVars>>

ReviewEnds ==
    /\ review = "running"
    /\ review' = "idle"
    /\ busy' = None
    /\ UNCHANGED <<storeVars, sessionVars, agentVars, streamVars, reload, cutting, detours, historyVars>>

-------------------------------------------------------------------------------
HandlerStep ==
    \/ NewConversation \/ DeleteActiveBusy \/ DeleteActive \/ DeleteLast
    \/ CutArrives \/ Cut \/ CutRefused \/ ReloadBegins \/ ReloadEnds
    \/ ReviewArrives \/ ReviewRuns \/ ReviewEnds
    \/ \E c \in Convs : Switch(c) \/ DeleteOther(c)

Next ==
    \/ HandlerStep
    \/ \E s \in Streams : StreamStep(s) \/ StreamArrives(s) \/ GiveUp(s) \/ Leave(s)

Spec == Init /\ [][Next]_vars

-------------------------------------------------------------------------------
(* Properties.                                                                *)

\* What the session holds in memory is what the file of the active conversation
\* says, however the handlers interleave; a deleted one has no file.
MemoryMatchesFile == active \in Kept => file[active] = history

\* The index never points to a conversation that is gone, and it points to the
\* one the session works on unless that one was deleted under it.
SessionIsListed ==
    /\ listed \in Kept \cup {None}
    /\ active \in Kept => listed = active

\* No message ever stands in a conversation its run was not for, through
\* switches, deletions and overlapping streams, unless the agent was replaced
\* under a run (apply_result, session.py:171).
OwnMessages(c, messages) == \A i \in DOMAIN messages : conv[messages[i].by] = c
NoCrossTalk ==
    ~swapped => OwnMessages(active, history) /\ \A c \in Kept : OwnMessages(c, file[c])

\* The same whatever happens: the result of a run is written to the conversation
\* it belongs to (the docstring of apply_result, session.py:171).
ResultGoesHome == \A c \in Kept : OwnMessages(c, file[c])

\* An answer leaves the file of its conversation only by a truncation, by a
\* deletion, or with the result of a run of that conversation that shortened the
\* messages it was given, unless two runs overlapped or the agent was replaced
\* under one.  A result that holds all the run was given takes no answer away, and
\* no result takes one from another conversation.
Answers(messages) == {messages[i] : i \in {k \in DOMAIN messages : messages[k].kind = "answer"}}
SavesLess(s, c) ==
    /\ conv[s] = c /\ pc[s] = "live" /\ pc'[s] = "saved"
    /\ file'[c] \in Results(s) \ Ended(s, window[s])
AnswersStay ==
    [][overlapped' \/ swapped' \/ Cut \/
       \A c \in Kept : c \in Kept' =>
           \/ Answers(file[c]) \subseteq Answers(file'[c])
           \/ \E s \in Streams : SavesLess(s, c)]_vars

\* What a user of the page would expect instead: only a truncation takes an answer
\* out of a conversation.  It does not hold of the code, whose results are the
\* shortened messages (loop/base.py:133, session.py:181).
OnlyCutsForget ==
    [][overlapped' \/ swapped' \/ Cut \/
       \A c \in Kept : c \in Kept' => Answers(file[c]) \subseteq Answers(file'[c])]_vars

\* When no request is under way the agent is configured with its own client, and
\* that is open: a model chosen for one run is put back (server.py:1488).
ModelRestored ==
    (\A s \in Streams : pc[s] \in {"idle", "over"}) /\ reload = "idle" /\ ~overlapped /\ ~swapped
        => client[agent] = agent /\ agent \notin closed

\* The busy flag always names a request that is still going to clear it: refused
\* requests, readers that leave and overlapping streams never leave the session
\* blocked.
BusyIsHeld ==
    /\ busy \in Streams => pc[busy] \in {"live", "saved", "ending", "restoring"}
    /\ busy = "review" => review = "running"
===============================================================================
