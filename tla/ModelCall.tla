------------------------------- MODULE ModelCall -------------------------------
(***************************************************************************)
(* A model call over HTTP (model/openai.py, model/anthropic.py): attempts  *)
(* with backoff, the stream of a reply, the pieces of a tool call, and the *)
(* local choice of a model when the gateway does not know "auto".  The     *)
(* calls of a run and of its sub-agents share one client.                  *)
(*                                                                         *)
(* Abstractions: the answers of the gateway are what the code tells apart; *)
(* the ranking of models is their order; a stream is the requests its text *)
(* comes from and one tool call, of which the arguments arrive in two      *)
(* pieces.                                                                 *)
(***************************************************************************)
EXTENDS Naturals, FiniteSets, FiniteSetsExt

CONSTANTS Callers,
          Models,        \* real models, ranked: 1..n
          Auto, None,    \* the name "auto"; no model, no list, no reply
          MaxAttempts    \* DEFAULT_MAX_ATTEMPTS

VARIABLES model,      \* the configured model; Auto counts for the OpenAI client only
          served,     \* the names the gateway knows
          listed,     \* what it answers when it is asked for its models
          routed, tried, known,  \* the client: _routed_model, _tried_models, _discovered_models
          pc,         \* where a call is: "idle", "sent", "stream", "route", "done", "failed"
          attempt,
          request,    \* requests the call has made
          body,       \* the model of the request
          shown,      \* the requests of which chunks reached the caller
          pieces,     \* the tool call: which requests its pieces come from, and how many
          reply

gateway == <<model, served, listed>>
client == <<routed, tried, known>>
call == <<pc, attempt, request, body, shown, pieces, reply>>
vars == <<gateway, client, call>>

NoPieces == [from |-> {}, n |-> 0, write |-> FALSE]
Names == Models \cup {Auto}

Init ==
    /\ model \in {Auto, 1}
    /\ served \in SUBSET Names
    /\ listed \in {s \in SUBSET Names : s # {}}
    /\ routed = None /\ tried = {} /\ known = None
    /\ pc = [c \in Callers |-> "idle"]
    /\ attempt = [c \in Callers |-> 0] /\ request = [c \in Callers |-> 0]
    /\ body = [c \in Callers |-> None]
    /\ shown = [c \in Callers |-> {}]
    /\ pieces = [c \in Callers |-> NoPieces]
    /\ reply = [c \in Callers |-> None]

\* _effective_model
Effective == IF routed = None THEN model ELSE routed

\* A request goes out: the pieces of an earlier one are local to it and are gone.
Send(c, m, n) ==
    /\ pc' = [pc EXCEPT ![c] = "sent"]
    /\ attempt' = [attempt EXCEPT ![c] = n]
    /\ request' = [request EXCEPT ![c] = @ + 1]
    /\ body' = [body EXCEPT ![c] = m]
    /\ pieces' = [pieces EXCEPT ![c] = NoPieces]

Begin(c) ==
    /\ pc[c] = "idle"
    /\ Send(c, Effective, 1)
    /\ UNCHANGED <<gateway, client, shown, reply>>

\* The call is over, and what it kept for itself is gone.
Over(c, how) ==
    /\ pc' = [pc EXCEPT ![c] = how]
    /\ attempt' = [attempt EXCEPT ![c] = 0] /\ request' = [request EXCEPT ![c] = 0]
    /\ body' = [body EXCEPT ![c] = None]
    /\ pieces' = [pieces EXCEPT ![c] = NoPieces]

Fail(c) ==
    /\ Over(c, "failed")
    /\ UNCHANGED <<gateway, client, shown, reply>>

-------------------------------------------------------------------------------
\* A status of _RETRY_STATUS, a timeout or a lost connection, before or in the stream:
\* another attempt with the same body, unless something was passed on.
MutMayRetry(c) == attempt[c] < MaxAttempts
MayRetry(c) == attempt[c] < MaxAttempts /\ shown[c] = {}
Transient(c) ==
    /\ pc[c] \in {"sent", "stream"}
    /\ IF MayRetry(c)
       THEN Send(c, body[c], attempt[c] + 1) /\ UNCHANGED <<gateway, client, shown, reply>>
       ELSE Fail(c)

\* Any other error of the API, or one in the stream.
Refused(c) == pc[c] \in {"sent", "stream"} /\ Fail(c)

\* The gateway does not know the model: _maybe_local_route, if nothing was passed on.
Unknown(c) ==
    /\ pc[c] = "sent" /\ body[c] \notin served
    /\ IF model = Auto /\ shown[c] = {}
       THEN /\ pc' = [pc EXCEPT ![c] = "route"]
            /\ UNCHANGED <<gateway, client, attempt, request, body, shown, pieces, reply>>
       ELSE Fail(c)

\* discover_models, asked by each call until one has an answer, then rank_models: the
\* first that no call on the client has tried yet.
Discovered == IF known = None THEN listed ELSE known
Ranked == (known' \ {Auto}) \ tried
Route(c) ==
    /\ pc[c] = "route"
    /\ known' = Discovered
    /\ Auto \notin known' /\ Ranked # {}
    /\ routed' = Min(Ranked) /\ tried' = tried \cup {Min(Ranked)}
    /\ Send(c, Min(Ranked), 1)
    /\ UNCHANGED <<gateway, shown, reply>>

\* The list cannot be had, or it leaves nothing to try: the first error stands.
NoRoute(c) ==
    /\ pc[c] = "route"
    /\ \/ known = None /\ UNCHANGED known
       \/ /\ known' = Discovered
          /\ Auto \in known' \/ Ranked = {}
    /\ Over(c, "failed")
    /\ UNCHANGED <<gateway, routed, tried, shown, reply>>

-------------------------------------------------------------------------------
Answered(c) ==
    /\ pc[c] = "sent" /\ body[c] \in served
    /\ pc' = [pc EXCEPT ![c] = "stream"]
    /\ UNCHANGED <<gateway, client, attempt, request, body, shown, pieces, reply>>

\* Text, thinking, usage, the name of the model: passed on at once.
Chunk(c) ==
    /\ pc[c] = "stream"
    /\ shown' = [shown EXCEPT ![c] = @ \cup {request[c]}]
    /\ UNCHANGED <<gateway, client, pc, attempt, request, body, pieces, reply>>

\* A piece of a tool call is kept until the stream ends.
Piece(c) ==
    /\ pc[c] = "stream" /\ pieces[c].n < 2
    /\ \E w \in BOOLEAN :
         /\ pieces[c].n > 0 => w = pieces[c].write
         /\ pieces' = [pieces EXCEPT ![c] =
                         [from |-> @.from \cup {request[c]}, n |-> @.n + 1, write |-> w]]
    /\ UNCHANGED <<gateway, client, pc, attempt, request, body, shown, reply>>

\* safe_parse_tool_input: whole arguments are taken, arguments that were cut off may be
\* closed, but never those of write_file; what cannot be parsed is told to the model.
Parsed(p) ==
    IF p.n = 2 THEN {"whole"} ELSE IF p.write THEN {"error"} ELSE {"closed", "error"}

\* What is left of all that was passed on, and of the tool call, when the stream is over.
Assistant(c, a) ==
    [from |-> shown[c] \cup pieces[c].from, args |-> a, write |-> pieces[c].write,
     cut |-> pieces[c].n = 1]

\* The end of the body counts as the end of the reply, with [DONE] or without.
StreamEnds(c) ==
    /\ pc[c] = "stream"
    /\ Over(c, "done")
    /\ \E a \in IF pieces[c].n = 0 THEN {"none"} ELSE Parsed(pieces[c]) :
         reply' = [reply EXCEPT ![c] = Assistant(c, a)]
    /\ UNCHANGED <<gateway, client, shown>>

Next ==
    \E c \in Callers :
         \/ Begin(c) \/ Transient(c) \/ Refused(c) \/ Unknown(c) \/ Route(c) \/ NoRoute(c)
         \/ Answered(c) \/ Chunk(c) \/ Piece(c) \/ StreamEnds(c)

Spec == Init /\ [][Next]_vars

-------------------------------------------------------------------------------
(* Properties.                                                                *)

\* What a call shows and returns comes from one request: no retry repeats output or joins
\* the pieces of a tool call of two replies; and the arguments of a write_file that were
\* cut off never reach the tool.
OneReply ==
    \A c \in Callers :
        /\ Cardinality(shown[c]) <= 1
        /\ reply[c] # None =>
             /\ Cardinality(reply[c].from) <= 1
             /\ reply[c].write /\ reply[c].cut => reply[c].args = "error"
===============================================================================
