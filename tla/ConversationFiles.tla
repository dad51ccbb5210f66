--------------------------- MODULE ConversationFiles ---------------------------
(***************************************************************************)
(* The conversations on disk (web/conversations.py): one file per          *)
(* conversation and an index, each replaced atomically, but neither locked *)
(* nor written together.  The web server and `auc chat --continue` (cli.py)*)
(* use the same directory; each call runs in its process without an await, *)
(* and the process may die between two file operations.                    *)
(*                                                                         *)
(* Abstractions: a conversation is its number of messages and its usage;   *)
(* the order of the rows is left out.                                      *)
(***************************************************************************)
EXTENDS Naturals, FiniteSets

CONSTANTS Convs, Procs,
          Absent,    \* no file, no row, no conversation
          MaxOps,    \* bound on the calls
          MaxDeaths  \* bound on the crashes

VARIABLES file,    \* per conversation: Absent or its content
          row,     \* the index: per conversation Absent or what the list shows
          active,  \* the index: active_id
          call,    \* the call a process is in, or Absent
          at,      \* where it is: "begin", "file", "index", "row"
          held,    \* what it has read: the file's usage, then the index
          ops, deaths,
          together, \* history: processes whose call overlaps another process's
          suspect  \* history: conversations of calls that overlapped or died

vars == <<file, row, active, call, at, held, ops, deaths, together, suspect>>

Kinds == {"create", "save", "append", "usage", "delete", "activate"}
Index == [row |-> row, active |-> active]

Init ==
    /\ file = [c \in Convs |-> Absent] /\ row = [c \in Convs |-> Absent]
    /\ active = Absent
    /\ call = [p \in Procs |-> Absent] /\ at = [p \in Procs |-> "begin"]
    /\ held = [p \in Procs |-> Absent]
    /\ ops = 0 /\ deaths = 0 /\ together = {} /\ suspect = {}

Leave(p) ==
    /\ call' = [call EXCEPT ![p] = Absent]
    /\ at' = [at EXCEPT ![p] = "begin"]
    /\ held' = [held EXCEPT ![p] = Absent]
    /\ together' = together \ {p}

\* Which calls make sense: a new id is fresh; save is also called for a conversation
\* that was deleted meanwhile; usage and switch look for the file first.
Others(p) == {q \in Procs \ {p} : call[q] # Absent}
Begin(p, k, c) ==
    /\ call[p] = Absent /\ ops < MaxOps /\ ops' = ops + 1
    /\ k = "create" => file[c] = Absent /\ row[c] = Absent
                       /\ \A q \in Others(p) : call[q].conv # c
    /\ k \in {"usage", "delete", "activate"} => file[c] # Absent
    /\ call' = [call EXCEPT ![p] = [kind |-> k, conv |-> c]]
    /\ at' = [at EXCEPT ![p] = IF k = "activate" THEN "index" ELSE "begin"]
    /\ IF Others(p) = {} THEN UNCHANGED <<together, suspect>>
       ELSE /\ together' = together \cup {p} \cup Others(p)
            /\ suspect' = suspect \cup {c} \cup {call[q].conv : q \in Others(p)}
    /\ UNCHANGED <<file, row, active, held, deaths>>

\* save_messages takes over the usage of the file it replaces; add_usage its messages.
Read(p) ==
    /\ call[p] # Absent /\ at[p] = "begin"
    /\ held' = [held EXCEPT ![p] = file[call[p].conv]]
    /\ at' = [at EXCEPT ![p] = "file"]
    /\ UNCHANGED <<file, row, active, call, ops, deaths, together, suspect>>

Grown(old) == IF old = Absent THEN [msgs |-> 1, usage |-> 0] ELSE [old EXCEPT !.msgs = 1 - @]
NewContent(k, old) ==
    CASE k = "create" -> [msgs |-> 0, usage |-> 0]
      [] k \in {"save", "append"} -> Grown(old)
      [] k = "usage"  -> [old EXCEPT !.usage = 1]

\* _atomic_write_json or unlink.  add_usage of a file that is gone does nothing.
WriteFile(p) ==
    /\ call[p] # Absent /\ at[p] = "file"
    /\ LET k == call[p].kind
           c == call[p].conv
       IN  IF k = "usage" /\ held[p] = Absent
           THEN Leave(p) /\ UNCHANGED file
           ELSE /\ file' = [file EXCEPT ![c] =
                               IF k = "delete" THEN Absent ELSE NewContent(k, held[p])]
                /\ at' = [at EXCEPT ![p] = "index"]
                /\ UNCHANGED <<call, held, together>>
    /\ UNCHANGED <<row, active, ops, deaths, suspect>>

\* _read_index
ReadIndex(p) ==
    /\ call[p] # Absent /\ at[p] = "index"
    /\ held' = [held EXCEPT ![p] = [old |-> @, index |-> Index]]
    /\ at' = [at EXCEPT ![p] = "row"]
    /\ UNCHANGED <<file, row, active, call, ops, deaths, together, suspect>>

MutRowAfter(k, c, old, i) ==
    IF k = "delete" THEN Absent ELSE IF k = "activate" THEN i.row[c]
    ELSE [NewContent(k, old) EXCEPT !.usage = 0]
RowAfter(k, c, old, i) ==
    CASE k = "delete"   -> Absent
      [] k = "activate" -> i.row[c]
      [] k = "usage"    -> IF i.row[c] = Absent THEN Absent
                           ELSE [i.row[c] EXCEPT !.usage = NewContent(k, old).usage]
      [] OTHER          -> NewContent(k, old)
\* save of another conversation (set_active = False) and usage leave it alone; delete
\* takes the first row that is left.
ActiveAfter(k, c, i) ==
    CASE k \in {"create", "save", "activate"} -> {c}
      [] k = "delete" /\ i.active = c ->
            IF \A d \in Convs \ {c} : i.row[d] = Absent THEN {Absent}
            ELSE {d \in Convs \ {c} : i.row[d] # Absent}
      [] OTHER -> {i.active}

\* A whole row written by a call of its own puts right what was suspect.
Mended(p) ==
    IF p \notin together /\ call[p].kind \notin {"usage", "activate"} THEN {call[p].conv} ELSE {}

\* _write_index: the whole index as it was read, with the one row changed.
WriteIndex(p) ==
    /\ call[p] # Absent /\ at[p] = "row"
    /\ LET k == call[p].kind
           c == call[p].conv
           i == held[p].index
       IN  /\ row' = [i.row EXCEPT ![c] = RowAfter(k, c, held[p].old, i)]
           /\ active' \in ActiveAfter(k, c, i)
    /\ suspect' = suspect \ Mended(p)
    /\ Leave(p)
    /\ UNCHANGED <<file, ops, deaths>>

Die(p) ==
    /\ call[p] # Absent /\ deaths < MaxDeaths /\ deaths' = deaths + 1
    /\ suspect' = suspect \cup {call[p].conv}
    /\ Leave(p)
    /\ UNCHANGED <<file, row, active, ops>>

Next ==
    \E p \in Procs :
        \/ \E k \in Kinds, c \in Convs : Begin(p, k, c)
        \/ Read(p) \/ WriteFile(p) \/ ReadIndex(p) \/ WriteIndex(p) \/ Die(p)

Spec == Init /\ [][Next]_vars

-------------------------------------------------------------------------------
(* Properties.                                                                *)

\* The list shows what is on disk: only a crash in the middle of a call, or two
\* processes at once, set the two apart, and the next save of the conversation puts
\* it right.  The conversation to go on with exists.
ListShowsTheFiles ==
    LET steady == Convs \ (suspect \cup {call[p].conv : p \in {q \in Procs : call[q] # Absent}})
    IN  /\ \A c \in steady : row[c] = file[c]
        /\ active \in steady => file[active] # Absent
===============================================================================
