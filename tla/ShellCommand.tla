------------------------------ MODULE ShellCommand ------------------------------
(***************************************************************************)
(* run_command (tools/shell.py): a command in a shell of its own session,  *)
(* the wait for its output and its end, the deadline, and the signal to    *)
(* the group of processes.                                                 *)
(*                                                                         *)
(* Abstractions: the command is its shell and one process it may have left *)
(* in the background, which holds the pipes open; the deadline and the     *)
(* five seconds after it may pass at any time; exit codes are zero or not. *)
(***************************************************************************)
CONSTANT NoCode

VARIABLES allowed,    \* whether signals can be sent (not in some containers)
          shell,      \* "no", "up", "dead"
          background, \* "no", "up", "dead"
          code,       \* the exit code of the shell: NoCode, "zero", "other"
          tool,       \* "idle", "wait", "again", "done", "cut"
          late,       \* timed_out
          group,      \* whether the shell was there when the group was signalled
          answer      \* "none", "ok", "error"

vars == <<allowed, shell, background, code, tool, late, group, answer>>

Init ==
    /\ allowed \in BOOLEAN
    /\ shell = "no" /\ background = "no" /\ code = NoCode
    /\ tool = "idle" /\ late = FALSE /\ group = FALSE /\ answer = "none"

-------------------------------------------------------------------------------
Start ==
    /\ tool = "idle" /\ tool' = "wait" /\ shell' = "up"
    /\ UNCHANGED <<allowed, background, code, late, group, answer>>
\* No such directory, or the shell cannot be started.
CannotStart ==
    /\ tool = "idle" /\ tool' = "done" /\ answer' = "error"
    /\ UNCHANGED <<allowed, shell, background, code, late, group>>

Forks ==
    /\ shell = "up" /\ background = "no" /\ background' = "up"
    /\ UNCHANGED <<allowed, shell, code, tool, late, group, answer>>
ShellExits ==
    /\ shell = "up" /\ shell' = "dead" /\ \E c \in {"zero", "other"} : code' = c
    /\ UNCHANGED <<allowed, background, tool, late, group, answer>>
BackgroundExits ==
    /\ background = "up" /\ background' = "dead"
    /\ UNCHANGED <<allowed, shell, code, tool, late, group, answer>>

\* communicate: the pipes are at their end and the shell is over.
AllOver == shell = "dead" /\ background # "up"

Result == IF code = "zero" /\ ~late THEN "ok" ELSE "error"
Communicates ==
    /\ tool \in {"wait", "again"} /\ AllOver
    /\ tool' = "done" /\ answer' = Result
    /\ UNCHANGED <<allowed, shell, background, code, late, group>>

\* _kill_process_tree: the group of a shell that is there; that of one that has ended can
\* no longer be asked for, and then nothing is killed.
MutGroup == {"shell"}
Group == {"shell", "background"}
Killed(p, state) == IF allowed /\ shell = "up" /\ p \in Group /\ state = "up" THEN "dead" ELSE state
Deadline ==
    /\ tool = "wait" /\ late' = TRUE /\ group' = (shell = "up")
    /\ shell' = Killed("shell", shell) /\ background' = Killed("background", background)
    /\ code' = IF shell' = "dead" /\ shell = "up" THEN "other" ELSE code
    /\ tool' = "again"
    /\ UNCHANGED <<allowed, answer>>

\* Five more seconds for what is left of the output, and no longer.
GivesUp ==
    /\ tool = "again" /\ ~AllOver
    /\ tool' = "done" /\ answer' = "error"
    /\ UNCHANGED <<allowed, shell, background, code, late, group>>

\* The task of the run is cancelled: the command goes on.
Cut ==
    /\ tool \in {"wait", "again"} /\ tool' = "cut"
    /\ UNCHANGED <<allowed, shell, background, code, late, group, answer>>

Next ==
    \/ Start \/ CannotStart \/ Forks \/ ShellExits \/ BackgroundExits
    \/ Communicates \/ Deadline \/ GivesUp \/ Cut
Spec == Init /\ [][Next]_vars

-------------------------------------------------------------------------------
(* Property.                                                                  *)

\* A call that returned, and was not cancelled, left nothing running of a command that ran
\* out of time while its shell was there, and nothing at all if it returned in time, as far
\* as signals can be sent; and it is told as a success only if the shell had ended well
\* before the deadline.
CommandIsOver ==
    /\ tool = "done" /\ allowed /\ (late => group) => shell # "up" /\ background # "up"
    /\ answer = "ok" => shell = "dead" /\ code = "zero" /\ ~late

\* It does not hold of a call that is cancelled: nothing signals the command (shell.py:86).
CutStopsTheCommand == tool = "cut" => shell # "up" /\ background # "up"
===============================================================================
