----------------------------- MODULE ToolDecision -----------------------------
(***************************************************************************)
(* What the privilege gate decides about a tool call before anything is    *)
(* executed: the session's approval preferences (policy/autonomy.py), the  *)
(* policy of the tool after the project's overrides (tools/registry.py),   *)
(* the escalation of dangerous commands (policy/escalation.py), the        *)
(* verdict of the hooks (hooks.py) and their combination                   *)
(* (policy/privilege.py, check_and_invoke).  Pure operators; the state     *)
(* they are used in is ApprovalPorts.                                      *)
(*                                                                         *)
(* Abstractions: which escalation patterns match a call is a set of rule   *)
(* names, a rule is "locked" or "open" according to LOCKED_RULES; a hook   *)
(* process is how it ended.                                                *)
(***************************************************************************)
EXTENDS Naturals, Sequences

Levels == {"confirm-all", "auto-edit", "full-auto"}
Modes == {"ask-every-write", "ask-on-state", "ask-on-danger", "auto-approve"}
Unset == "unset"

\* ApprovalModeSpec: what a mode stands for.
LevelOf == [m \in Modes |->
    CASE m = "ask-every-write" -> "confirm-all"
      [] m = "ask-on-state"    -> "auto-edit"
      [] OTHER                 -> "full-auto"]
AutoOf(m) == m = "auto-approve"
ModeOf == [l \in Levels |->
    CASE l = "confirm-all" -> "ask-every-write"
      [] l = "auto-edit"   -> "ask-on-state"
      [] l = "full-auto"   -> "ask-on-danger"]

\* settings.json: approval.mode, autonomy and approval.auto_approve; a request
\* may override each of the three.  autonomy is taken as normalized.
Settings == [mode : Modes \cup {Unset}, autonomy : Levels \cup {Unset}, auto : BOOLEAN]
Overrides == [mode : Modes \cup {Unset}, autonomy : Levels \cup {Unset},
              auto : {"yes", "no", Unset}]
NoOverride == [mode |-> Unset, autonomy |-> Unset, auto |-> Unset]

Either(a, b, c) == CASE a # Unset -> a [] a = Unset /\ b # Unset -> b [] OTHER -> c

\* auto_approve_permitted, applied last: only a page bound to this machine may
\* approve everything.
MutBindAllows(mode, local) == mode
BindAllows(mode, local) == IF AutoOf(mode) /\ ~local THEN "ask-on-danger" ELSE mode

\* resolve_approval_prefs: the mode, and with it the level and the auto flag,
\* that a run gets.
ResolvePrefs(s, o, local) ==
    LET level  == Either(o.autonomy, s.autonomy, "auto-edit")
        legacy == IF level = "full-auto" /\ s.auto THEN "auto-approve" ELSE ModeOf[level]
        base   == Either(o.mode, s.mode, legacy)
        forced == CASE o.auto = "yes" -> "auto-approve"
                    [] o.auto = "no" /\ AutoOf(base) -> "ask-on-danger"
                    [] OTHER -> base
        chosen == IF o.autonomy # Unset /\ o.mode = Unset /\ ~AutoOf(forced)
                     /\ LevelOf[forced] # o.autonomy
                  THEN ModeOf[o.autonomy] ELSE forced
    IN  BindAllows(chosen, local)

-------------------------------------------------------------------------------
Privileges == {"L1", "L2", "L3"}
Rank == [p \in Privileges |-> CASE p = "L1" -> 1 [] p = "L2" -> 2 [] p = "L3" -> 3]
MaxPrivilege(p, q) == IF Rank[p] >= Rank[q] THEN p ELSE q

\* The tools a chat agent registers, one of each kind; spawn_subagent and the tools of
\* MCP servers are like git_commit: of level 2 and without a floor.
Registered == [
    read_file   |-> [privilege |-> "L1", files |-> FALSE, state |-> FALSE],
    write_file  |-> [privilege |-> "L2", files |-> TRUE,  state |-> FALSE],
    run_command |-> [privilege |-> "L2", files |-> FALSE, state |-> TRUE],
    fetch_url   |-> [privilege |-> "L3", files |-> FALSE, state |-> FALSE],
    git_commit  |-> [privilege |-> "L2", files |-> FALSE, state |-> TRUE],
    git_push    |-> [privilege |-> "L3", files |-> FALSE, state |-> TRUE]]
Tools == DOMAIN Registered

\* MIN_TOOL_PRIVILEGE and floor_privilege.
Floor == [t \in Tools |-> CASE t = "fetch_url" -> "L3"
                            [] t \in {"run_command", "write_file"} -> "L2"
                            [] OTHER -> "L1"]
MutFloored(t, requested) == requested
Floored(t, requested) == MaxPrivilege(requested, Floor[t])

\* merge_tool_policy: what the project's .aurules make of a tool's privilege.
Merged(t, requested) ==
    IF requested = Unset THEN Registered[t]
    ELSE [Registered[t] EXCEPT !.privilege = Floored(t, requested)]

\* merge_escalation_settings: a rule is off or replaced only if it is not locked;
\* check_escalation then looks for a rule that matches the call.
RuleKinds == {"locked", "open"}
ActiveRules(switchedOff) == IF switchedOff THEN {"locked"} ELSE RuleKinds
Escalated(policy, hits, switchedOff) ==
    policy.privilege # "L3" /\ hits \cap ActiveRules(switchedOff) # {}

\* run_tool_hooks for pre_tool_use, hook after hook: an explicit block, an exit
\* with 2, or the timeout of a hook of a level-2 tool ends it with a refusal.
HookEnds == {"ok", "error", "timeout", "block", "exit2"}
HooksRefuse(privilege, ends) ==
    \E e \in ends : e \in {"block", "exit2"} \/ (e = "timeout" /\ privilege = "L2")

\* AutonomyPolicy.requires_approval, with skips_all_approval in front of it.
SkipsAll(mode) == AutoOf(mode) /\ LevelOf[mode] = "full-auto"
MutLevelAsks(mode, policy) == LevelOf[mode] # "full-auto" /\ policy.state
LevelAsks(mode, policy) ==
    CASE LevelOf[mode] = "confirm-all" -> policy.files \/ policy.state
      [] LevelOf[mode] = "auto-edit"   -> policy.state
      [] OTHER                         -> FALSE
RequiresApproval(mode, policy) ==
    /\ ~SkipsAll(mode)
    /\ policy.privilege = "L3" \/ (policy.privilege = "L2" /\ LevelAsks(mode, policy))

\* check_and_invoke up to the call of the tool.
NeedsApproval(mode, policy, escalated) ==
    RequiresApproval(mode, [policy EXCEPT !.privilege = IF escalated THEN "L3" ELSE @])

Verdict(mode, policy, hits, switchedOff, ends, hasPort, inSandbox) ==
    LET asks == NeedsApproval(mode, policy, Escalated(policy, hits, switchedOff)) IN
    CASE HooksRefuse(policy.privilege, ends) -> "refuse"
      [] asks /\ hasPort  -> "ask"
      [] asks /\ ~hasPort -> "refuse"
      [] ~asks /\ policy.privilege = "L2" /\ ~inSandbox -> "refuse"
      [] OTHER -> "run"
===============================================================================
