----------------------------- MODULE ContextWindow -----------------------------
(***************************************************************************)
(* The messages of a conversation on their way to the model: the window    *)
(* of a run (context/window.py), which is cut to a number of messages at   *)
(* the top of every step and compacted by size before the model is asked   *)
(* (context/compactor.py), the message list each client makes of it, and   *)
(* the receipt that is read off the window at the end (receipt.py).        *)
(*                                                                         *)
(* Abstractions: a message is its role, the call group it belongs to, its  *)
(* size and, for a result, the exit code its text tells; a summary also    *)
(* knows what it covers.  A group is what a step appends: the reply with   *)
(* its calls, and one result per call (AgentRun).  Every call is a         *)
(* run_command, the only tool a receipt reads from the window; no run      *)
(* changes files, so that a run without commands has no receipt.           *)
(***************************************************************************)
EXTENDS Naturals, Sequences, FiniteSets, FiniteSetsExt, SequencesExt

CONSTANTS MaxWindow,     \* max_window_messages
          Keep,          \* keep_recent_steps
          FoldAge,       \* fold_tool_older_than
          Soft, Hard,    \* token_limit times the two ratios
          Large,         \* the size of a long tool output
          ExitCodes,     \* the exit codes of commands, 0 among them
          NoCode,        \* a result from which no exit code can be read
          MaxMessages,   \* bound on the messages of a conversation
          MaxTurns       \* bound on its turns

VARIABLES window, phase, turn, next, forgotten,
          asked,         \* the question of the last run
          ran,           \* its commands, with how each ended
          receipt        \* what its receipt tells

vars == <<window, phase, turn, next, forgotten, asked, ran, receipt>>
runVars == <<asked, ran, receipt>>

Message(role, id, group, calls, size) ==
    [role |-> role, id |-> id, group |-> group, calls |-> calls, size |-> size,
     code |-> NoCode, covers |-> {}]
NoReceipt == [goal |-> 0, commands |-> {}]

Init ==
    /\ window = << >> /\ phase = "idle" /\ turn = 0 /\ next = 1 /\ forgotten = {}
    /\ asked = 0 /\ ran = {} /\ receipt = NoReceipt

-------------------------------------------------------------------------------
(* Where a list of messages may be cut.                                       *)

\* The result at i stands in the run of results behind the calls it answers.
InGroup(m, i) ==
    /\ m[i].role = "tool"
    /\ \E a \in 1..(i - 1) :
         /\ m[a].role = "assistant" /\ m[a].calls > 0
         /\ \A k \in (a + 1)..i : m[k].role = "tool"

\* group_boundaries: the lengths of the beginnings that split no group.
MutBoundaries(m) == 1..Len(m)
Boundaries(m) == {b \in 1..Len(m) : b = Len(m) \/ ~InGroup(m, b + 1)}

\* drop_oldest_preserving_pairs: how many messages go; all of them when the last group
\* alone is too long.
DropCount(m) ==
    IF MaxWindow = 0 \/ Len(m) <= MaxWindow THEN 0
    ELSE Min({b \in Boundaries(m) : b >= Len(m) - MaxWindow})

Ids(m) == UNION {{m[i].id} \cup m[i].covers : i \in DOMAIN m}

-------------------------------------------------------------------------------
(* Compaction.                                                                *)

Size(m) == SumFunction([i \in DOMAIN m |-> m[i].size])

\* _fold_tools: long results far enough from the end become a line.
Fold(m) ==
    [i \in DOMAIN m |->
        IF m[i].role = "tool" /\ m[i].size = Large /\ i <= Len(m) - FoldAge
        THEN [m[i] EXCEPT !.size = 1, !.code = NoCode]
        ELSE m[i]]

Users(m) == {i \in DOMAIN m : m[i].role = "user"}
FirstUser(m) == Min(Users(m))

\* _summarize: the cut before the recent messages, past results that answer no call.
Ends(m) == {b \in Boundaries(m) : b >= FirstUser(m) /\ b + Keep <= Len(m)}
End(m) == Min({e \in Max(Ends(m))..Len(m) : e = Len(m) \/ m[e + 1].role # "tool"})
CanSummarize(m) ==
    /\ Len(m) > Keep + 2
    /\ Users(m) # {}
    /\ Ends(m) # {} /\ Max(Ends(m)) > FirstUser(m)
    /\ End(m) < Len(m)

\* What comes up to the first message of the user stays, the recent ones stay, and a
\* summary stands between.
MutKept(m) == SubSeq(m, 1, FirstUser(m) - 1)
Kept(m) == SubSeq(m, 1, FirstUser(m))
Summarized(m) ==
    LET gone == SubSeq(m, FirstUser(m) + 1, End(m)) IN
      Kept(m)
      \o <<[Message("system", next, 0, 0, 1) EXCEPT !.covers = Ids(gone)]>>
      \o SubSeq(m, End(m) + 1, Len(m))

-------------------------------------------------------------------------------
\* A message of the user starts a run on what the conversation holds.
Asked ==
    /\ phase = "idle" /\ turn < MaxTurns /\ next < MaxMessages
    /\ window' = Append(window, Message("user", next, 0, 0, 1))
    /\ turn' = turn + 1 /\ next' = next + 1 /\ phase' = "top"
    /\ asked' = next /\ ran' = {} /\ receipt' = NoReceipt
    /\ UNCHANGED forgotten

\* The top of the loop of run_until_done.
Truncate ==
    /\ phase = "top"
    /\ forgotten' = forgotten \cup Ids(SubSeq(window, 1, DropCount(window)))
    /\ window' = SubSeq(window, DropCount(window) + 1, Len(window))
    /\ phase' = "compact"
    /\ UNCHANGED <<turn, next, runVars>>

\* maybe_compact; the model that writes the summary may fail, and may answer nothing.
Compact ==
    /\ phase = "compact" /\ phase' = "sent"
    /\ LET folded == Fold(window) IN
         IF Size(window) <= Soft THEN UNCHANGED <<window, next>>
         ELSE \/ window' = folded /\ UNCHANGED next
              \/ /\ Size(folded) > Hard /\ CanSummarize(folded)
                 /\ window' = Summarized(folded) /\ next' = next + 1
    /\ UNCHANGED <<turn, forgotten, runVars>>

\* A reply with calls and the results of all of them.
Step ==
    /\ phase = "sent"
    /\ \E k \in 1..2 :
         /\ next + k < MaxMessages
         /\ \E size \in [1..k -> {1, Large}], code \in [1..k -> ExitCodes] :
              /\ window' = Append(window, Message("assistant", next, 0, k, 1))
                           \o [i \in 1..k |->
                                [Message("tool", next + i, next, 0, size[i])
                                   EXCEPT !.code = code[i]]]
              /\ ran' = ran \cup {[id |-> next + i, ok |-> code[i] = 0] : i \in 1..k}
         /\ next' = next + k + 1
    /\ phase' = "top"
    /\ UNCHANGED <<turn, forgotten, asked, receipt>>

\* _collect_commands and _first_goal: the commands in the window that answer a call in
\* it, one without an exit code counting as fine, and the first question in it.
Commands(m) ==
    {[id |-> m[i].id, ok |-> m[i].code \in {0, NoCode}] :
       i \in {i \in DOMAIN m : m[i].role = "tool" /\ \E a \in DOMAIN m : m[a].id = m[i].group}}
Goal(m) == IF Users(m) = {} THEN 0 ELSE m[FirstUser(m)].id
Receipt(m) ==
    IF Commands(m) = {} THEN NoReceipt ELSE [goal |-> Goal(m), commands |-> Commands(m)]

\* The last reply; or the last step, a cancelling, or the failure of the call.  Either way
\* the receipt is made from what the window holds.
RunEnds ==
    /\ phase # "idle" /\ phase' = "idle"
    /\ \/ /\ phase = "top" => window[Len(window)].role = "tool"
          /\ UNCHANGED <<window, next>>
       \/ /\ phase = "sent" /\ next < MaxMessages
          /\ window' = Append(window, Message("assistant", next, 0, 0, 1)) /\ next' = next + 1
    /\ receipt' = Receipt(window')
    /\ UNCHANGED <<turn, forgotten, asked, ran>>

Next == Asked \/ Truncate \/ Compact \/ Step \/ RunEnds
Spec == Init /\ [][Next]_vars

-------------------------------------------------------------------------------
(* The message list of the client for Anthropic.                              *)

\* _sanitize_tool_pairing keeps a result behind the reply that asked for it.
KeepsResult(m, i) ==
    \E a \in 1..(i - 1) :
      /\ m[a].role = "assistant" /\ m[a].id = m[i].group
      /\ \A k \in (a + 1)..i : m[k].role = "tool"

\* System messages go to a place of their own, the rest keeps its order.
Sendable(m) == {i \in DOMAIN m : m[i].role # "system" /\ (m[i].role = "tool" => KeepsResult(m, i))}
Place(s, i) == Cardinality({j \in s : j <= i})
Conversation(m) ==
    [k \in 1..Cardinality(Sendable(m)) |-> m[CHOOSE i \in Sendable(m) : Place(Sendable(m), i) = k]]

-------------------------------------------------------------------------------
(* Properties.                                                                *)

\* Whatever was cut, folded and summarised before it, what is sent has every call with
\* all of its results right behind it: the gateway refuses anything else, and the client
\* for Anthropic would silently leave out a result without its call.
SentIsWhole ==
    phase = "sent" =>
      LET sent == Conversation(window) IN
        /\ \A i \in DOMAIN window : window[i].role = "tool" => KeepsResult(window, i)
        /\ \A i \in DOMAIN sent : \A k \in 1..sent[i].calls :
             i + k \in DOMAIN sent /\ sent[i + k].group = sent[i].id

\* Compaction loses nothing: a message is in the window, in what a summary there was
\* made from, or was dropped by the limit on messages; and the first question of the
\* window is never among those a summary stands for.
OnlyTruncationForgets ==
    /\ 1..(next - 1) \subseteq Ids(window) \cup forgotten
    /\ 1 \notin forgotten /\ turn > 0 => \E i \in DOMAIN window : window[i].id = 1

\* What the docstrings at receipt.py:1 and receipt.py:172 promise: the receipt of a run
\* tells the goal and the commands of that run, and which of them failed.
ReceiptTellsTheRun ==
    phase = "idle" /\ turn > 0 =>
      receipt = IF ran = {} THEN NoReceipt ELSE [goal |-> asked, commands |-> ran]
===============================================================================
