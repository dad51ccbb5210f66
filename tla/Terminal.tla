------------------------------- MODULE Terminal -------------------------------
(***************************************************************************)
(* The terminal of the web page (web/pty_terminal.py): a shell on a pseudo *)
(* terminal, what it prints going to the page through a queue and one      *)
(* writer, what the page sends going to the shell, and the end of either.  *)
(*                                                                         *)
(* Abstractions: a block of output is its number; text for the shell and   *)
(* changes of size alter nothing that is kept here; the waits for the      *)
(* shell to end may be over at any time.  The handler's task is cancelled  *)
(* in its loop, if at all, never while it waits for the shell to end.      *)
(***************************************************************************)
EXTENDS Naturals, Sequences

CONSTANT MaxBlocks  \* bound on what the shell prints

VARIABLES shell,    \* "up", "dead"
          made,     \* the blocks it has printed
          buffer,   \* printed and not yet read from the terminal
          queue,    \* send_queue
          writer,   \* "idle", "lock", "send", "over"
          hand,     \* the block the writer holds, or none: 0
          lock,     \* send_lock: "free", "writer", "main"
          closed,
          main,     \* "loop", "lock", "pong", "end", "kill", "over"
          page,     \* "there", "gone"
          sent      \* what reached the page

vars == <<shell, made, buffer, queue, writer, hand, lock, closed, main, page, sent>>
printed == <<shell, made, buffer>>

Init ==
    /\ shell = "up" /\ made = 0 /\ buffer = << >>
    /\ queue = << >> /\ writer = "idle" /\ hand = 0 /\ lock = "free"
    /\ closed = FALSE /\ main = "loop" /\ page = "there" /\ sent = << >>

-------------------------------------------------------------------------------
(* The shell.                                                                 *)

Prints ==
    /\ shell = "up" /\ made < MaxBlocks
    /\ made' = made + 1 /\ buffer' = Append(buffer, made')
    /\ UNCHANGED <<shell, queue, writer, hand, lock, closed, main, page, sent>>
Dies ==
    /\ shell = "up" /\ shell' = "dead"
    /\ UNCHANGED <<made, buffer, queue, writer, hand, lock, closed, main, page, sent>>

\* _on_master_readable; reading past the end of a shell that is gone is an error.
Readable ==
    /\ ~closed
    /\ \/ /\ buffer # << >>
          /\ queue' = Append(queue, Head(buffer)) /\ buffer' = Tail(buffer)
          /\ UNCHANGED closed
       \/ /\ buffer = << >> /\ shell = "dead"
          /\ closed' = TRUE /\ UNCHANGED <<queue, buffer>>
    /\ UNCHANGED <<shell, made, writer, hand, lock, main, page, sent>>

\* _watch_proc, which does not wait for what is left to be read.
WatchEnds ==
    /\ main \in {"loop", "lock", "pong"} /\ shell = "dead" /\ ~closed
    /\ closed' = TRUE
    /\ UNCHANGED <<printed, queue, writer, hand, lock, main, page, sent>>

-------------------------------------------------------------------------------
(* The writer.                                                                *)

MutNextBlock == queue[Len(queue)]
NextBlock == Head(queue)
Take ==
    /\ writer = "idle" /\ queue # << >>
    /\ hand' = NextBlock /\ queue' = Tail(queue)
    /\ writer' = "lock"
    /\ UNCHANGED <<printed, lock, closed, main, page, sent>>
WriterLocks ==
    /\ writer = "lock" /\ lock = "free"
    /\ lock' = "writer" /\ writer' = "send"
    /\ UNCHANGED <<printed, queue, hand, closed, main, page, sent>>

\* The block arrives, or the page is gone and the terminal closes.
Sends ==
    /\ writer = "send" /\ lock' = "free" /\ hand' = 0
    /\ IF page = "there"
       THEN sent' = Append(sent, hand) /\ writer' = "idle" /\ UNCHANGED closed
       ELSE closed' = TRUE /\ writer' = "over" /\ UNCHANGED sent
    /\ UNCHANGED <<printed, queue, main, page>>

\* Nothing came for half a second, and the terminal is closed.
WriterEnds ==
    /\ writer = "idle" /\ queue = << >> /\ closed
    /\ writer' = "over"
    /\ UNCHANGED <<printed, queue, hand, lock, closed, main, page, sent>>

-------------------------------------------------------------------------------
(* bridge_pty_terminal.                                                       *)

\* A ping of the page is answered under the same lock.
Ping ==
    /\ main = "loop" /\ page = "there" /\ main' = "lock"
    /\ UNCHANGED <<printed, queue, writer, hand, lock, closed, page, sent>>
MainLocks ==
    /\ main = "lock" /\ lock = "free"
    /\ lock' = "main" /\ main' = "pong"
    /\ UNCHANGED <<printed, queue, writer, hand, closed, page, sent>>

\* The finally block: nothing is read any more, the writer is cancelled with what it
\* holds, which may or may not have gone out; a shell that is there is told to end.
Leaves ==
    /\ closed' = TRUE
    /\ writer' = "over" /\ hand' = 0 /\ lock' = "free"
    /\ \/ UNCHANGED sent
       \/ writer = "send" /\ page = "there" /\ sent' = Append(sent, hand)
    /\ main' = IF shell = "dead" THEN "over" ELSE "end"
    /\ UNCHANGED <<printed, queue, page>>

Pong ==
    /\ main = "pong"
    /\ IF page = "there"
       THEN /\ main' = "loop" /\ lock' = "free"
            /\ UNCHANGED <<printed, queue, writer, hand, closed, page, sent>>
       ELSE Leaves

\* The terminal is closed, the page is gone, the text cannot be passed on, or the task
\* of the handler is cancelled.
LoopEnds == main = "loop" /\ Leaves

PageGoes ==
    /\ page = "there" /\ main # "over" /\ page' = "gone"
    /\ UNCHANGED <<printed, queue, writer, hand, lock, closed, main, sent>>

\* Two seconds for the shell to end by itself; then it is killed, and waited for.
MutAfterGrace == "over"
AfterGrace == "kill"
GraceEnds ==
    /\ main = "end"
    /\ main' = IF shell = "dead" THEN "over" ELSE AfterGrace
    /\ UNCHANGED <<printed, queue, writer, hand, lock, closed, page, sent>>
Killed ==
    /\ main = "kill" /\ shell = "dead" /\ main' = "over"
    /\ UNCHANGED <<printed, queue, writer, hand, lock, closed, page, sent>>

Next ==
    \/ Prints \/ Dies \/ Readable \/ WatchEnds
    \/ Take \/ WriterLocks \/ Sends \/ WriterEnds
    \/ Ping \/ MainLocks \/ Pong \/ LoopEnds \/ PageGoes \/ GraceEnds \/ Killed
Spec == Init /\ [][Next]_vars

-------------------------------------------------------------------------------
(* Properties.                                                                *)

\* The comment at pty_terminal.py:54: the page gets the output in the order it was printed
\* with nothing left out in between, whatever end comes first, and the lock of a cancelled
\* writer lets the answer to a ping go on.
OutputInOrder ==
    /\ \A i \in DOMAIN sent : sent[i] = i
    /\ lock = "writer" => writer = "send"

\* A terminal that is over leaves no shell behind.
ShellEndsWithItsPage == main = "over" => shell = "dead"
===============================================================================
