-------------------------------- MODULE Routines --------------------------------
(***************************************************************************)
(* The scheduled routines of routines.py: one JSON file each, read and     *)
(* rewritten without a lock by the workers that fire them (run_worker,     *)
(* jobs.py) and by the commands of the user (cli.py).  A save truncates    *)
(* the file and then writes it.  A process dies between two file system    *)
(* calls.                                                                  *)
(*                                                                         *)
(* Abstractions: the interval is one unit of time; the order in which a    *)
(* worker takes the due routines is left open; the job that is enqueued is *)
(* the occurrence (next_run) it stands for.                                *)
(***************************************************************************)
EXTENDS Naturals, Sequences, FiniteSets

CONSTANTS RoutineIds, Workers, User,
          None, Absent, Torn,  \* no copy; a file that is not there, that does not parse
          MaxTime,    \* bound on the clock
          MaxFaults,  \* bound on crashes and failed calls
          MaxEdits    \* bound on the commands of the user

VARIABLES file,     \* a routine's file: Absent, Torn or its content
          now,
          copy,     \* the routines a process has read and not yet dealt with
          seen,     \* the time at which a worker looked for due routines
          cur,      \* the routine a process is rewriting, or None
          step,     \* where the process is in it: "fire", "open", "write"
          fired,    \* history: the occurrences enqueued for each routine
          twice,    \* history: the routines of which one was enqueued again
          used,     \* history: the ids that were given out
          overlap,  \* history: routines two processes had in hand, or a fault hit
          faults, edits

vars == <<file, now, copy, seen, cur, step, fired, twice, used, overlap, faults, edits>>

Processes == Workers \cup {User}
Contents == [on : BOOLEAN, next : 0..(MaxTime + 1)]
Empty == [r \in RoutineIds |-> None]

Init ==
    /\ file = [r \in RoutineIds |-> Absent]
    /\ now = 0 /\ faults = 0 /\ edits = 0
    /\ copy = [p \in Processes |-> Empty]
    /\ seen = [w \in Workers |-> 0]
    /\ cur = [p \in Processes |-> None]
    /\ step = [p \in Processes |-> "fire"]
    /\ fired = [r \in RoutineIds |-> {}]
    /\ twice = {}
    /\ used = {}
    /\ overlap = {}

\* list and get skip what they cannot parse.
Readable(r) == file[r] \notin {Absent, Torn}
\* Routine.is_due
MutIsDue(r) == Readable(r) /\ file[r].on /\ file[r].next = now
IsDue(r) == Readable(r) /\ file[r].on /\ file[r].next <= now
Holders(r, c) == {p \in Processes : c[p][r] # None}
Shared(c) == {r \in RoutineIds : Cardinality(Holders(r, c)) > 1}

-------------------------------------------------------------------------------
\* fire_due_routines: due() reads every file once.
Scan(w) ==
    /\ copy[w] = Empty
    /\ \E r \in RoutineIds : IsDue(r)
    /\ copy' = [copy EXCEPT ![w] = [r \in RoutineIds |-> IF IsDue(r) THEN file[r] ELSE None]]
    /\ seen' = [seen EXCEPT ![w] = now]
    /\ overlap' = overlap \cup Shared(copy')
    /\ UNCHANGED <<file, now, cur, step, fired, twice, used, faults, edits>>

\* The job is enqueued before the routine is marked.
Enqueue(w, r) ==
    /\ step[w] = "fire" /\ copy[w][r] # None
    /\ fired' = [fired EXCEPT ![r] = @ \cup {copy[w][r].next}]
    /\ twice' = IF copy[w][r].next \in fired[r] THEN twice \cup {r} ELSE twice
    /\ cur' = [cur EXCEPT ![w] = r]
    /\ step' = [step EXCEPT ![w] = "open"]
    /\ UNCHANGED <<file, now, copy, seen, used, overlap, faults, edits>>

\* save: write_text opens the file, which truncates or creates it ...
Open(p) ==
    /\ step[p] = "open"
    /\ file' = [file EXCEPT ![cur[p]] = Torn]
    /\ step' = [step EXCEPT ![p] = "write"]
    /\ UNCHANGED <<now, copy, seen, cur, fired, twice, used, overlap, faults, edits>>

\* mark_fired: the next occurrence, counted from the time of the scan.
MutMarked(w, c) == c
Marked(w, c) == [c EXCEPT !.next = seen[w] + 1]

Drop(p, r) == [copy EXCEPT ![p][r] = None]
Leave(p) == /\ cur' = [cur EXCEPT ![p] = None]
            /\ step' = [step EXCEPT ![p] = "fire"]

\* ... and writes it.
Write(p) ==
    /\ step[p] = "write"
    /\ LET r == cur[p]
           c == copy[p][r]
       IN  /\ file' = [file EXCEPT ![r] = IF p = User THEN c ELSE Marked(p, c)]
           /\ copy' = Drop(p, r)
    /\ Leave(p)
    /\ UNCHANGED <<now, seen, fired, twice, used, overlap, faults, edits>>

\* enqueue or save raises before it changes anything: the loop goes on with the
\* next routine, a command ends.
Fails(p) ==
    /\ faults < MaxFaults /\ faults' = faults + 1
    /\ \E r \in RoutineIds :
         /\ copy[p][r] # None
         /\ (step[p] = "fire" /\ p # User) \/ (step[p] = "open" /\ cur[p] = r)
         /\ copy' = Drop(p, r)
         /\ overlap' = IF step[p] = "open" THEN overlap \cup {r} ELSE overlap
    /\ Leave(p)
    /\ UNCHANGED <<file, now, seen, fired, twice, used, edits>>

\* The process dies, and a worker starts again.
Crash(p) ==
    /\ faults < MaxFaults /\ faults' = faults + 1
    /\ copy[p] # Empty
    /\ copy' = [copy EXCEPT ![p] = Empty]
    /\ overlap' = overlap \cup {r \in RoutineIds : cur[p] = r}
    /\ Leave(p)
    /\ UNCHANGED <<file, now, seen, fired, twice, used, edits>>

-------------------------------------------------------------------------------
Command == copy[User] = Empty /\ edits < MaxEdits /\ edits' = edits + 1
UserHas(r, c) ==
    /\ copy' = [copy EXCEPT ![User][r] = c]
    /\ cur' = [cur EXCEPT ![User] = r]
    /\ step' = [step EXCEPT ![User] = "open"]
    /\ overlap' = overlap \cup Shared(copy')

\* routines add: a new id, due at once.
Add(r) ==
    /\ Command
    /\ r \notin used /\ used' = used \cup {r}
    /\ UserHas(r, [on |-> TRUE, next |-> now])
    /\ UNCHANGED <<file, now, seen, fired, twice, faults>>

\* routines enable | disable: get, then save.
SetEnabled(r, on) ==
    /\ Command
    /\ Readable(r)
    /\ UserHas(r, [file[r] EXCEPT !.on = on])
    /\ UNCHANGED <<file, now, seen, fired, twice, used, faults>>

\* routines remove: a torn file can be removed as well.
Remove(r) ==
    /\ Command
    /\ file[r] # Absent
    /\ file' = [file EXCEPT ![r] = Absent]
    /\ overlap' = IF Holders(r, copy) = {} THEN overlap ELSE overlap \cup {r}
    /\ UNCHANGED <<now, copy, seen, cur, step, fired, twice, used, faults>>

Tick ==
    /\ now < MaxTime /\ now' = now + 1
    /\ UNCHANGED <<file, copy, seen, cur, step, fired, twice, used, overlap, faults, edits>>

WorkerStep(w) == Scan(w) \/ (\E r \in RoutineIds : Enqueue(w, r)) \/ Open(w) \/ Write(w)

CommandStep == Open(User) \/ Write(User)

Next ==
    \/ Tick \/ CommandStep
    \/ \E w \in Workers : WorkerStep(w)
    \/ \E p \in Processes : Fails(p) \/ Crash(p)
    \/ \E r \in RoutineIds : Add(r) \/ Remove(r) \/ \E on \in BOOLEAN : SetEnabled(r, on)

Spec == Init /\ [][Next]_vars
\* A worker loops over its rounds for ever; a command, once begun, ends.
FairSpec == Spec /\ (\A w \in Workers : WF_vars(WorkerStep(w))) /\ WF_vars(CommandStep)

-------------------------------------------------------------------------------
(* Properties.                                                                *)

\* An occurrence of a routine is enqueued once, unless two processes had the
\* routine in hand at the same time, or a fault fell between the enqueueing and
\* the new next_run.
FiresOnce == twice \subseteq overlap

\* An occurrence that is due is fired in the end, however late, whatever calls failed
\* and whoever crashed, unless the user turned the routine off or removed it, a process
\* died with its file half written, or a second worker that had it in hand moved it on.
DueIsServed ==
    \A r \in RoutineIds, t \in 0..MaxTime :
        (IsDue(r) /\ file[r].next = t) ~>
            (t \in fired[r] \/ ~Readable(r) \/ ~file[r].on \/ file[r].next > t)
===============================================================================
