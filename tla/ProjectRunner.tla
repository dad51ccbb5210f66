----------------------------- MODULE ProjectRunner -----------------------------
(***************************************************************************)
(* The projects the web page runs (web/runner.py and the endpoints for it  *)
(* in web/server.py): starting a server and waiting for it to listen,      *)
(* stopping it, and the end of the web server.  Requests interleave at     *)
(* their awaits.                                                           *)
(*                                                                         *)
(* Abstractions: an instance is known by its process; waits for a process  *)
(* and their timeouts may end at any time; a process may ignore the signal *)
(* to terminate, not the one to kill.  One that changes its user takes no  *)
(* signal any more: sending one raises PermissionError.                    *)
(***************************************************************************)
EXTENDS Naturals, FiniteSets, Functions

CONSTANTS Requests, Projects, MaxRuns, Nobody

VARIABLES proc,       \* "none", "up", "dead", or "apart": it lives and takes no signal
          project,    \* of each process
          status,     \* the instance in _runs: "no", "running", "error"
          byProject,  \* _by_project
          pc, at,     \* what a request does, and to which process
          server,     \* "up", "closing" (stop_all), "down"
          todo        \* stop_all: the instances left

vars == <<proc, project, status, byProject, pc, at, server, todo>>

Runs == 1..MaxRuns
Init ==
    /\ proc = [r \in Runs |-> "none"] /\ project = [r \in Runs |-> Nobody]
    /\ status = [r \in Runs |-> "no"]
    /\ byProject = [p \in Projects |-> Nobody]
    /\ pc = [t \in Requests |-> "idle"] /\ at = [t \in Requests |-> Nobody]
    /\ server = "up" /\ todo = {}

Known == {r \in Runs : status[r] # "no"}
Lives(r) == proc[r] \in {"up", "apart"}
\* get_by_project
IsRunning(p) == byProject[p] # Nobody /\ byProject[p] \in Known /\ status[byProject[p]] = "running"

-------------------------------------------------------------------------------
(* ProjectRunner.start.                                                       *)

\* The next run id.
NewRun(r) == project[r] = Nobody /\ \A s \in Runs : s < r => project[s] # Nobody

\* A project that counts as running is answered with its instance, dead or alive.
MayStart(t, p) == server = "up" /\ pc[t] = "idle" /\ ~IsRunning(p)
Start(t, p, r) ==
    /\ MayStart(t, p) /\ NewRun(r)
    /\ project' = [project EXCEPT ![r] = p]
    /\ proc' = [proc EXCEPT ![r] = "up"]
    /\ at' = [at EXCEPT ![t] = r]
    /\ pc' = [pc EXCEPT ![t] = "wait"]
    /\ UNCHANGED <<status, byProject, server, todo>>

\* A page needs no process; a command that cannot be started is entered as an error.
Preview(t, p, r) ==
    /\ MayStart(t, p) /\ NewRun(r)
    /\ project' = [project EXCEPT ![r] = p]
    /\ status' = [status EXCEPT ![r] = "running"]
    /\ byProject' = [byProject EXCEPT ![p] = r]
    /\ UNCHANGED <<proc, pc, at, server, todo>>
CannotStart(t, p, r) ==
    /\ MayStart(t, p) /\ NewRun(r)
    /\ project' = [project EXCEPT ![r] = p]
    /\ status' = [status EXCEPT ![r] = "error"]
    /\ UNCHANGED <<proc, byProject, pc, at, server, todo>>

\* _wait_for_ready: the port is open; a moment later the instance is entered, whatever
\* became of the process.
PortIsOpen(t) ==
    /\ pc[t] = "wait" /\ Lives(at[t])
    /\ pc' = [pc EXCEPT ![t] = "settle"]
    /\ UNCHANGED <<proc, project, status, byProject, at, server, todo>>
Ready(t) ==
    /\ pc[t] = "settle"
    /\ status' = [status EXCEPT ![at[t]] = "running"]
    /\ byProject' = [byProject EXCEPT ![project[at[t]]] = at[t]]
    /\ pc' = [pc EXCEPT ![t] = "idle"] /\ at' = [at EXCEPT ![t] = Nobody]
    /\ UNCHANGED <<proc, project, server, todo>>

\* It exits, or 20 seconds pass: entered as an error, and terminated if it lives; the
\* request fails when it takes no signal.
NotReady(t) ==
    /\ pc[t] = "wait"
    /\ status' = [status EXCEPT ![at[t]] = "error"]
    /\ IF proc[at[t]] = "up"
       THEN pc' = [pc EXCEPT ![t] = "end"] /\ UNCHANGED at
       ELSE pc' = [pc EXCEPT ![t] = "idle"] /\ at' = [at EXCEPT ![t] = Nobody]
    /\ UNCHANGED <<proc, project, byProject, server, todo>>
StartFailed(t) ==
    /\ pc[t] = "end" /\ proc[at[t]] # "up"
    /\ pc' = [pc EXCEPT ![t] = "idle"] /\ at' = [at EXCEPT ![t] = Nobody]
    /\ UNCHANGED <<proc, project, status, byProject, server, todo>>

-------------------------------------------------------------------------------
(* ProjectRunner.stop.                                                        *)

\* The entries go, the project's whichever instance it names.
Forget(r) ==
    /\ status' = [status EXCEPT ![r] = "no"]
    /\ byProject' = [byProject EXCEPT ![project[r]] = Nobody]

\* By the instance, or by the project's; a process that lives is signalled and waited
\* for, but one that takes no signal is forgotten as one that is over.
Stop(t, r) ==
    /\ server = "up" /\ pc[t] = "idle" /\ r \in Known
    /\ IF proc[r] = "up"
       THEN /\ pc' = [pc EXCEPT ![t] = "stop"] /\ at' = [at EXCEPT ![t] = r]
            /\ UNCHANGED <<status, byProject>>
       ELSE Forget(r) /\ UNCHANGED <<pc, at>>
    /\ UNCHANGED <<proc, project, server, todo>>
Stopped(t) ==
    /\ pc[t] = "stop" /\ proc[at[t]] # "up"
    /\ Forget(at[t])
    /\ pc' = [pc EXCEPT ![t] = "idle"] /\ at' = [at EXCEPT ![t] = Nobody]
    /\ UNCHANGED <<proc, project, server, todo>>

-------------------------------------------------------------------------------
\* Exits by itself, after the signal, or is killed when the wait for that is over.
Dies(r) ==
    /\ Lives(r) /\ proc' = [proc EXCEPT ![r] = "dead"]
    /\ UNCHANGED <<project, status, byProject, pc, at, server, todo>>
ChangesUser(r) ==
    /\ proc[r] = "up" /\ proc' = [proc EXCEPT ![r] = "apart"]
    /\ UNCHANGED <<project, status, byProject, pc, at, server, todo>>

\* The web server ends, when its requests have: stop_all over the instances of that
\* moment, one after the other.
MutToStop == {byProject[p] : p \in Projects} \ {Nobody}
ToStop == Known
Shutdown ==
    /\ server = "up" /\ \A t \in Requests : pc[t] = "idle"
    /\ server' = "closing" /\ todo' = ToStop
    /\ UNCHANGED <<proc, project, status, byProject, pc, at>>
StopNext(r) ==
    /\ server = "closing" /\ r \in todo /\ \A s \in todo : r <= s
    /\ proc[r] # "up"
    /\ Forget(r) /\ todo' = todo \ {r}
    /\ UNCHANGED <<proc, project, pc, at, server>>
Down ==
    /\ server = "closing" /\ todo = {} /\ server' = "down"
    /\ UNCHANGED <<proc, project, status, byProject, pc, at, todo>>

-------------------------------------------------------------------------------
(* The endpoints: a project is run; an instance is stopped, by its id or as   *)
(* that of its project.                                                       *)

RunRequest(t) ==
    \E p \in Projects, r \in Runs : Start(t, p, r) \/ Preview(t, p, r) \/ CannotStart(t, p, r)
StopRequest(t) ==
    \/ \E r \in Known : Stop(t, r)
    \/ \E p \in Projects : byProject[p] # Nobody /\ Stop(t, byProject[p])

Next ==
    \/ \E t \in Requests :
         \/ RunRequest(t) \/ PortIsOpen(t) \/ Ready(t) \/ NotReady(t) \/ StartFailed(t)
         \/ StopRequest(t) \/ Stopped(t)
    \/ \E r \in Runs : Dies(r) \/ ChangesUser(r) \/ StopNext(r)
    \/ Shutdown \/ Down
Spec == Init /\ [][Next]_vars

-------------------------------------------------------------------------------
(* Properties.                                                                *)

\* Two requests may start one project at the same time, a stop may take the project's
\* entry from a newer instance, a start may fail on a process that will not go: still
\* no process that takes signals is left when the web server is down, and none runs that
\* no list shows and no request is about.
InHand(r) == server # "down" /\ (r \in Known \/ \E t \in Requests : at[t] = r)
NothingIsLeftBehind == \A r \in Runs : proc[r] = "up" => InHand(r)

\* The same of every process does not hold: stop forgets one that takes no signal while
\* it lives (runner.py:259 and 267, then 272).
NothingEscapes == \A r \in Runs : Lives(r) => InHand(r)
===============================================================================
