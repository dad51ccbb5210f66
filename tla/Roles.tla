---------------------------------- MODULE Roles ----------------------------------
(***************************************************************************)
(* The roles an agent can take (roles/, tools/roles.py and the endpoints   *)
(* for them in web/server.py): those of the package, those defined in the  *)
(* sandbox, the current one, and their changes by the tools of runs and    *)
(* the web page, in processes that share the sandbox.                      *)
(*                                                                         *)
(* Abstractions: what role.yaml and prompt.md say is the number of the     *)
(* change it comes from; ids are what they are once they are made valid.   *)
(* The old roles.yaml and the role the settings name do not change, and    *)
(* the settings define no roles of their own.                              *)
(***************************************************************************)
EXTENDS Naturals, FiniteSets

CONSTANTS Procs,
          Ids, Core,   \* ids; Core \subseteq Ids come with the package
          Default,     \* the role there always is, one of Core
          Unknown,     \* an id no role has
          None,
          MaxChanges   \* bound

VARIABLES meta, prompt,  \* role.yaml and prompt.md of each role's folder
          active,        \* .auc/roles/active
          legacy,        \* the roles of roles.yaml
          chosen,        \* the role the settings name
          pc, job,       \* what a process does
          next,          \* the number of the next change
          clash,         \* processes another one, or the user, came in between
          done           \* the last change, if it met no other and none came after it

vars == <<meta, prompt, active, legacy, chosen, pc, job, next, clash, done>>
settings == <<legacy, chosen>>

Init ==
    /\ meta = [r \in Ids |-> None] /\ prompt = [r \in Ids |-> None]
    /\ active = None
    /\ legacy \in {{}, Ids \ Core} /\ chosen \in (Ids \ Core) \cup {None}
    /\ pc = [p \in Procs |-> "idle"] /\ job = [p \in Procs |-> None]
    /\ next = 1 /\ clash = {} /\ done = None

-------------------------------------------------------------------------------
(* The catalogue, read anew by every run and every request.                   *)

\* load_roles_from_directory: the folders with a role.yaml.
Folders == {r \in Ids : meta[r] # None}
Catalog == Core \cup Folders \cup legacy

\* Where a role comes from: roles.yaml before a folder before the package.
MutOrigin(r) == IF r \in Core THEN "package" ELSE IF r \in legacy THEN "legacy" ELSE "folder"
Origin(r) == IF r \in legacy THEN "legacy" ELSE IF r \in Folders THEN "folder" ELSE "package"

\* The role of the active file, if there is such a role; that of the settings; Default.
Current ==
    IF active \in Catalog THEN active
    ELSE IF chosen \in Catalog THEN chosen ELSE Default

\* RoleCatalog.resolve, which takes the current role for an id it does not know, as the
\* tools use it: without the settings.
Resolved(name) ==
    IF name \in Catalog THEN name ELSE IF active \in Catalog THEN active ELSE Default

-------------------------------------------------------------------------------
(* Changes: role.yaml first, then prompt.md, then the active file.            *)

\* Whoever else is in the middle of a change has met this one.
Meets(p) == {q \in Procs \ {p} : pc[q] # "idle"}
Begin(p, where, j) ==
    /\ pc[p] = "idle" /\ next <= MaxChanges /\ next' = next + 1
    /\ pc' = [pc EXCEPT ![p] = where] /\ job' = [job EXCEPT ![p] = j]
    /\ UNCHANGED <<meta, prompt, active, settings, clash, done>>

\* write_role_definition: only where there is none.
Define(p, r) ==
    /\ meta[r] = None
    /\ \E a \in BOOLEAN :
         Begin(p, "meta", [role |-> r, meta |-> next, prompt |-> next, active |-> a])

ToolDefines(p, r) == Define(p, r)
\* The page is told of a role that is there already, or else gets all roles anew.
PageDefines(p, r) == Define(p, r)

\* update_role_definition: the fields that are given, the rest of role.yaml as it is read.
Update(p, r) ==
    /\ meta[r] # None
    /\ \E a \in BOOLEAN, m \in {meta[r], next}, t \in {None, next} :
         Begin(p, "meta", [role |-> r, meta |-> m, prompt |-> t, active |-> a])
\* The tool, for an id that is not known, changes the current role; for none, that of the run.
ToolUpdates(p, name) == Update(p, Resolved(name))
\* PUT /api/roles/{id}, for none of the package's.
PageUpdates(p, name) ==
    /\ name \in Catalog /\ Origin(name) # "package"
    /\ Update(p, name)

\* switch_role and the page's request to activate: the one takes the current role for an
\* id that is not known, the other refuses it.
Switch(p, r) == Begin(p, "active", [role |-> r, meta |-> None, prompt |-> None, active |-> TRUE])
ToolSwitches(p, name) == Switch(p, Resolved(name))
PageSwitches(p, name) == name \in Catalog /\ Switch(p, name)

Ends(p) ==
    /\ job' = [job EXCEPT ![p] = None]
    /\ clash' = (clash \cup Meets(p)) \ {p}
    /\ done' = IF p \in clash THEN None ELSE job[p]
Goes(p, where) ==
    /\ pc' = [pc EXCEPT ![p] = where]
    /\ IF where = "idle" THEN Ends(p)
       ELSE clash' = clash \cup Meets(p) /\ done' = None /\ UNCHANGED job

WriteMeta(p) ==
    /\ pc[p] = "meta"
    /\ meta' = [meta EXCEPT ![job[p].role] = job[p].meta]
    /\ Goes(p, IF job[p].prompt # None THEN "prompt" ELSE IF job[p].active THEN "active" ELSE "idle")
    /\ UNCHANGED <<prompt, active, settings, next>>
WritePrompt(p) ==
    /\ pc[p] = "prompt"
    /\ prompt' = [prompt EXCEPT ![job[p].role] = job[p].prompt]
    /\ Goes(p, IF job[p].active THEN "active" ELSE "idle")
    /\ UNCHANGED <<meta, active, settings, next>>
\* set_active_role.
WriteActive(p) ==
    /\ pc[p] = "active"
    /\ active' = job[p].role
    /\ Goes(p, "idle")
    /\ UNCHANGED <<meta, prompt, settings, next>>

\* The process ends between two files.
Die(p) ==
    /\ pc[p] # "idle"
    /\ pc' = [pc EXCEPT ![p] = "idle"] /\ job' = [job EXCEPT ![p] = None]
    /\ clash' = clash \ {p} /\ done' = None
    /\ UNCHANGED <<meta, prompt, active, settings, next>>

\* The user removes the folder of a role, which may be the current one.
Removed(r) ==
    /\ r \in Folders
    /\ meta' = [meta EXCEPT ![r] = None] /\ prompt' = [prompt EXCEPT ![r] = None]
    /\ clash' = {q \in Procs : pc[q] # "idle"} /\ done' = None
    /\ UNCHANGED <<active, settings, pc, job, next>>

Next ==
    \/ \E p \in Procs :
         \/ \E r \in Ids : ToolDefines(p, r) \/ PageDefines(p, r)
         \/ \E name \in Ids \cup {Unknown} :
              ToolUpdates(p, name) \/ PageUpdates(p, name) \/ ToolSwitches(p, name) \/ PageSwitches(p, name)
         \/ WriteMeta(p) \/ WritePrompt(p) \/ WriteActive(p) \/ Die(p)
    \/ \E r \in Ids : Removed(r)
Spec == Init /\ [][Next]_vars

-------------------------------------------------------------------------------
(* Properties.                                                                *)

\* A role that was defined or changed is used as it was written, text and fields from one
\* change, also in the place of one of the package, and the one switched to is the current
\* one; but for roles.yaml, which comes before a folder.  Whatever was removed, and whoever
\* died where, a run has a role there is.
RoleIsUsed ==
    /\ Current \in Catalog
    /\ done # None =>
         /\ done.meta # None /\ done.role \notin legacy =>
              Origin(done.role) = "folder" /\ meta[done.role] = done.meta
         /\ done.prompt # None => prompt[done.role] = done.prompt
         /\ done.active => active = done.role /\ (done.role \in Catalog => Current = done.role)
===============================================================================
