---------------------------- MODULE ApprovalProofs ----------------------------
(***************************************************************************)
(* Proofs about the privilege gate and the approval ports, for any number  *)
(* of calls and answers: whom the gate asks, whose answer counts, and what *)
(* becomes of the preferences of a request.                                *)
(***************************************************************************)
EXTENDS ApprovalPorts, WellFoundedInduction, TLAPS

-------------------------------------------------------------------------------
(* The preferences of a request.                                              *)

LEMMA ModesAndLevels ==
  /\ \A m \in Modes : LevelOf[m] \in Levels
  /\ \A l \in Levels : ModeOf[l] \in Modes /\ ~AutoOf(ModeOf[l]) /\ LevelOf[ModeOf[l]] = l
  /\ LevelOf["ask-on-danger"] = "full-auto" /\ LevelOf["auto-approve"] = "full-auto"
  /\ Unset \notin Modes /\ Unset \notin Levels
BY DEF Modes, Levels, LevelOf, ModeOf, AutoOf, Unset

\* resolve_approval_prefs, for all settings and overrides.
LEMMA PrefsAreHonoured ==
  ASSUME NEW s \in Settings, NEW o \in Overrides, NEW local \in BOOLEAN
  PROVE  LET m == ResolvePrefs(s, o, local) IN
           /\ m \in Modes
           /\ AutoOf(m) => local
           /\ o.auto = "no" => ~AutoOf(m)
           /\ o.mode # Unset /\ o.auto # "yes" /\ ~AutoOf(o.mode) => m = o.mode
           /\ (o.autonomy # Unset /\ o.mode = Unset /\ o.auto # "yes"
                  /\ (o.auto = "no" \/ ~(AutoOf(s.mode) \/ s.auto)))
                 => LevelOf[m] = o.autonomy
<1> DEFINE level  == Either(o.autonomy, s.autonomy, "auto-edit")
           legacy == IF level = "full-auto" /\ s.auto THEN "auto-approve" ELSE ModeOf[level]
           base   == Either(o.mode, s.mode, legacy)
           forced == CASE o.auto = "yes" -> "auto-approve"
                       [] o.auto = "no" /\ AutoOf(base) -> "ask-on-danger"
                       [] OTHER -> base
           chosen == IF o.autonomy # Unset /\ o.mode = Unset /\ ~AutoOf(forced)
                        /\ LevelOf[forced] # o.autonomy
                     THEN ModeOf[o.autonomy] ELSE forced
           m      == BindAllows(chosen, local)
<1>1. /\ s.mode \in Modes \cup {Unset} /\ s.autonomy \in Levels \cup {Unset} /\ s.auto \in BOOLEAN
      /\ o.mode \in Modes \cup {Unset} /\ o.autonomy \in Levels \cup {Unset}
      /\ o.auto \in {"yes", "no", Unset}
  BY DEF Settings, Overrides
<1>2. level \in Levels /\ (o.autonomy # Unset => level = o.autonomy)
  BY <1>1 DEF Either, Levels
<1>3. legacy \in Modes /\ (~s.auto => ~AutoOf(legacy))
  BY <1>1, <1>2, ModesAndLevels DEF Modes
<1>4. /\ base \in Modes /\ (o.mode # Unset => base = o.mode)
      /\ o.mode = Unset /\ ~AutoOf(s.mode) /\ ~s.auto => ~AutoOf(base)
  <2> HIDE DEF legacy
  <2>1. QED
    BY <1>1, <1>3 DEF Either
<1>5. /\ forced \in Modes
      /\ o.auto = "no" => ~AutoOf(forced)
      /\ o.auto # "yes" /\ ~AutoOf(base) => forced = base
  <2> HIDE DEF base
  <2>1. QED
    BY <1>1, <1>4 DEF Modes, AutoOf, Unset
<1>6. /\ chosen \in Modes
      /\ ~AutoOf(forced) => ~AutoOf(chosen)
      /\ o.mode # Unset => chosen = forced
      /\ o.autonomy # Unset /\ o.mode = Unset /\ ~AutoOf(forced) => LevelOf[chosen] = o.autonomy
  <2> HIDE DEF forced
  <2>1. QED
    BY <1>1, <1>5, ModesAndLevels
<1>7. /\ m \in Modes
      /\ AutoOf(m) => local
      /\ ~AutoOf(chosen) => m = chosen
  <2> HIDE DEF chosen
  <2>1. QED
    BY <1>6 DEF BindAllows, Modes, AutoOf
<1>8. ResolvePrefs(s, o, local) = m
  BY DEF ResolvePrefs
<1> HIDE DEF m, chosen, forced, base, legacy, level
<1>9. o.auto = "no" => ~AutoOf(m)
  BY <1>5, <1>6, <1>7
<1>10. o.mode # Unset /\ o.auto # "yes" /\ ~AutoOf(o.mode) => m = o.mode
  BY <1>4, <1>5, <1>6, <1>7
<1>11. o.autonomy # Unset /\ o.mode = Unset /\ o.auto # "yes"
         /\ (o.auto = "no" \/ ~(AutoOf(s.mode) \/ s.auto)) => LevelOf[m] = o.autonomy
  BY <1>4, <1>5, <1>6, <1>7
<1>12. QED
  BY <1>7, <1>8, <1>9, <1>10, <1>11

\* What a request asks for is what its run gets, for all settings, overrides and bindings
\* (policy/autonomy.py, resolve_approval_prefs and auto_approve_permitted).
THEOREM RequestsAreHonoured == Spec => []RequestIsHonoured
<1> DEFINE Inv == conf \in Requests \cup {NoConf}
<1>1. Init => Inv
  BY DEF Init
<1>2. Inv /\ [Next]_vars => Inv'
  BY DEF Next, vars, runVars, BeginRun, Leave, Gate, WebAsks, CardSent, SendFails, SendReturns,
         Progress, WebWakes, PollBegins, PollFinds, PollFindsNothing, QqTakes, PollFails, Timeout,
         InvokeEnds, Click
<1>3. Inv => RequestIsHonoured
  <2> SUFFICES ASSUME Inv, conf # NoConf
               PROVE  RequestIsHonoured
    BY DEF RequestIsHonoured
  <2>1. conf.settings \in Settings /\ conf.over \in Overrides /\ conf.local \in BOOLEAN
    BY DEF Requests
  <2>2. QED
    BY <2>1, PrefsAreHonoured DEF RequestIsHonoured
<1>4. QED
  BY <1>1, <1>2, <1>3, PTL DEF Spec

-------------------------------------------------------------------------------
(* The gate.                                                                  *)

Policies == [privilege : Privileges, files : BOOLEAN, state : BOOLEAN]
\* KindOf, of a policy.
Kind(p, escalated) ==
    CASE escalated \/ p.privilege = "L3" -> "danger"
      [] ~escalated /\ p.privilege = "L2" /\ p.state -> "state"
      [] ~escalated /\ p.privilege = "L2" /\ ~p.state /\ p.files -> "edit"
      [] OTHER -> "read"

LEMMA RegisteredTypes ==
  ASSUME NEW t \in Tools
  PROVE  /\ Registered[t] \in Policies /\ Floor[t] \in Privileges
         /\ t \notin Unfloored => Floor[t] = Registered[t].privilege
         /\ t \in Unfloored => Floor[t] = "L1"
<1>1. t \in {"read_file", "write_file", "run_command", "fetch_url", "git_commit", "git_push"}
  BY DEF Tools, Registered
<1> USE DEF Registered, Policies, Privileges, Floor, Unfloored, Tools
<1>2. CASE t = "read_file"
  BY <1>2
<1>3. CASE t = "write_file"
  BY <1>3
<1>4. CASE t = "run_command"
  BY <1>4
<1>5. CASE t = "fetch_url"
  BY <1>5
<1>6. CASE t = "git_commit"
  BY <1>6
<1>7. CASE t = "git_push"
  BY <1>7
<1>8. QED
  BY <1>1, <1>2, <1>3, <1>4, <1>5, <1>6, <1>7

\* The floors leave a tool at the level that counts.
LEMMA MergedKind ==
  ASSUME NEW t \in Tools, NEW requested \in Privileges \cup {Unset}, NEW escalated \in BOOLEAN
  PROVE  /\ Merged(t, requested) \in Policies
         /\ KindOf(t, Effective(t, requested), escalated) = Kind(Merged(t, requested), escalated)
<1>1. Registered[t] \in Policies /\ Floor[t] \in Privileges /\ Unset \notin Privileges
  BY RegisteredTypes DEF Privileges, Unset
<1> DEFINE level == Effective(t, requested)
<1>2. CASE requested = Unset
  <2>1. level = Registered[t].privilege /\ Merged(t, requested) = Registered[t]
    BY <1>2 DEF Effective, Raised, Merged
  <2>2. QED
    BY <1>1, <2>1 DEF KindOf, Kind
<1>3. CASE requested \in Privileges
  <2>1. requested # Unset
    BY <1>1, <1>3
  <2>2. Registered[t].privilege \in Privileges
    BY <1>1 DEF Policies
  <2>3. level = Floored(t, requested) /\ level \in Privileges
    <3>1. CASE t \in Unfloored
      <4>1. Floor[t] = "L1" /\ level = requested
        BY <2>1, <3>1, RegisteredTypes DEF Effective
      <4>2. QED
        BY <1>3, <4>1 DEF Floored, MaxPrivilege, Rank, Privileges
    <3>2. CASE t \notin Unfloored
      <4>1. Floor[t] = Registered[t].privilege /\ level = MaxPrivilege(Floor[t], requested)
        BY <2>1, <3>2, RegisteredTypes DEF Effective, Raised
      <4>2. QED
        BY <1>1, <1>3, <4>1 DEF Floored, MaxPrivilege, Rank, Privileges
    <3>3. QED
      BY <3>1, <3>2
  <2> HIDE DEF level
  <2>4. Merged(t, requested) = [Registered[t] EXCEPT !.privilege = level]
    BY <2>1, <2>3 DEF Merged
  <2>5. /\ Merged(t, requested) \in Policies /\ Merged(t, requested).privilege = level
        /\ Merged(t, requested).files = Registered[t].files
        /\ Merged(t, requested).state = Registered[t].state
    BY <1>1, <2>3, <2>4 DEF Policies
  <2>6. KindOf(t, level, escalated) = Kind(Merged(t, requested), escalated)
    BY <2>5 DEF KindOf, Kind
  <2>7. QED
    BY <2>5, <2>6 DEF level
<1>4. QED
  BY <1>2, <1>3

\* A call the matrix asks about is not let through by any mode.
LEMMA MatrixAsks ==
  ASSUME NEW m \in Modes, NEW p \in Policies, NEW escalated \in BOOLEAN, NEW told,
         Kind(p, escalated) \in Matrix[m],
         told <=> p.privilege # "L3" /\ escalated
  PROVE  NeedsApproval(m, p, told)
<1> DEFINE q == [p EXCEPT !.privilege = IF told THEN "L3" ELSE @]
<1>1. /\ q.state = p.state /\ q.files = p.files
      /\ q.privilege = IF told THEN "L3" ELSE p.privilege
  BY DEF Policies
<1>2. NeedsApproval(m, p, told) <=> RequiresApproval(m, q)
  BY DEF NeedsApproval
<1> HIDE DEF q
<1>3. p.privilege \in Privileges /\ p.state \in BOOLEAN /\ p.files \in BOOLEAN
  BY DEF Policies
<1>4. m # "auto-approve" /\ ~SkipsAll(m)
  BY DEF Matrix, Modes, SkipsAll, AutoOf
<1>5. CASE escalated \/ p.privilege = "L3"
  BY <1>1, <1>2, <1>4, <1>5 DEF RequiresApproval
<1>6. CASE ~escalated /\ p.privilege # "L3"
  <2>1. q.privilege = p.privilege /\ p.privilege = "L2" /\ (p.state \/ p.files)
    BY <1>1, <1>3, <1>6 DEF Kind, Matrix, Modes
  <2>2. CASE p.state
    <3>1. m \in {"ask-every-write", "ask-on-state"}
      BY <1>6, <2>1, <2>2 DEF Kind, Matrix, Modes
    <3>2. QED
      BY <1>1, <1>2, <1>4, <2>1, <2>2, <3>1 DEF RequiresApproval, LevelAsks, LevelOf, Modes
  <2>3. CASE ~p.state
    <3>1. m = "ask-every-write" /\ p.files
      BY <1>6, <2>1, <2>3 DEF Kind, Matrix, Modes
    <3>2. QED
      BY <1>1, <1>2, <1>4, <2>1, <2>3, <3>1 DEF RequiresApproval, LevelAsks, LevelOf, Modes
  <2>4. QED
    BY <2>2, <2>3
<1>7. QED
  BY <1>5, <1>6

\* check_and_invoke, for every tool, override, escalation, hook, port and sandbox.
LEMMA GateAsks ==
  ASSUME NEW m \in Modes, NEW hasPort \in BOOLEAN, NEW end \in GateEnds[m][hasPort]
  PROVE  /\ end[1] \in {"run", "ask", "refuse"} /\ end[2] \in {"yes", "no", "lowered"}
         /\ end[2] = "yes" => end[1] # "run"
<1>1. PICK t \in Tools, requested \in Privileges \cup {Unset}, off \in BOOLEAN,
           hits \in {{}, {"locked"}, {"open"}}, ends \in HookRuns, inSandbox \in BOOLEAN :
         end = <<Verdict(m, Merged(t, requested), hits, off, ends, hasPort, inSandbox),
                 Demand(m, t, requested, hits \cap ActiveRules(off) # {})>>
  <2>1. GateEnds[m][hasPort] =
        {<<Verdict(m, Merged(t, requested), hits, off, ends, hasPort, inSandbox),
           Demand(m, t, requested, hits \cap ActiveRules(off) # {})>> :
           t \in Tools, requested \in Privileges \cup {Unset}, off \in BOOLEAN,
           hits \in {{}, {"locked"}, {"open"}}, ends \in HookRuns, inSandbox \in BOOLEAN}
    BY DEF GateEnds
  <2>2. QED
    BY <2>1
<1> DEFINE escalated == hits \cap ActiveRules(off) # {}
           p == Merged(t, requested)
           asks == NeedsApproval(m, p, Escalated(p, hits, off))
           demanded == KindOf(t, Effective(t, requested), escalated) \in Matrix[m]
<1>2. /\ p \in Policies
      /\ KindOf(t, Effective(t, requested), escalated) = Kind(p, escalated)
  BY MergedKind
<1>3. Escalated(p, hits, off) <=> p.privilege # "L3" /\ escalated
  BY DEF Escalated
<1>4. demanded => asks
  BY <1>2, <1>3, MatrixAsks
<1>5. /\ end[1] = Verdict(m, p, hits, off, ends, hasPort, inSandbox)
      /\ end[2] = Demand(m, t, requested, escalated)
  BY <1>1
<1>6. /\ Verdict(m, p, hits, off, ends, hasPort, inSandbox) \in {"run", "ask", "refuse"}
      /\ asks => Verdict(m, p, hits, off, ends, hasPort, inSandbox) # "run"
  <2>1. Verdict(m, p, hits, off, ends, hasPort, inSandbox) =
          CASE HooksRefuse(p.privilege, ends) -> "refuse"
            [] asks /\ hasPort  -> "ask"
            [] asks /\ ~hasPort -> "refuse"
            [] ~asks /\ p.privilege = "L2" /\ ~inSandbox -> "refuse"
            [] OTHER -> "run"
    BY DEF Verdict
  <2> HIDE DEF asks, p
  <2>2. QED
    BY <2>1
<1>7. end[1] \in {"run", "ask", "refuse"} /\ (asks => end[1] # "run")
  <2> HIDE DEF asks, p
  <2>1. QED
    BY <1>5, <1>6
<1>8. end[2] \in {"yes", "no", "lowered"} /\ (end[2] = "yes" => asks)
  <2> DEFINE above == KindOf(t, Raised(t, requested), escalated) \in Matrix[m]
  <2>1. end[2] = CASE demanded -> "yes" [] ~demanded /\ above -> "lowered" [] OTHER -> "no"
    BY <1>5 DEF Demand
  <2> HIDE DEF demanded, above, asks
  <2>2. QED
    BY <1>4, <2>1
<1> HIDE DEF asks
<1>9. QED
  BY <1>7, <1>8

-------------------------------------------------------------------------------
(* Whose answer a call runs on.                                               *)

Gave(c, a) == \E i \in DOMAIN clicks[c] : clicks[c][i] = a
Undecided == {"todo", "ask", "sending", "waiting", "polling"}

Updates == [call : Calls, answer : Answers]
CallTypes ==
    /\ mode \in Modes \cup {Unset} /\ (mode = Unset => conf \in Requests)
    /\ pc \in [Calls -> Undecided \cup {"refuse", "run", "denied", "raised", "done", "killed"}]
    /\ must \in [Calls -> {"yes", "no", "lowered"}]
    /\ counted \in [Calls -> Answers \cup {"none"}]
    /\ clicks \in [Calls -> Seq(Answers)]
PortTypes ==
    /\ decisions \in [Calls -> Answers \cup {"none"}]
    /\ store \in [Calls -> Answers \cup {"none"}]
    /\ feed \in Seq(Updates)
    /\ offset \in Nat /\ confirmed \in Nat /\ asked \in [Calls -> Nat]
    /\ events \subseteq Calls

\* What lies ready for a call are answers a person gave to it.
Ready ==
    /\ port = "web" => \A c \in events : Gave(c, decisions[c])
    /\ \A k \in DOMAIN feed : Gave(feed[k].call, feed[k].answer)
    /\ \A c \in Calls : store[c] # "none" => Gave(c, store[c])
AskedFor(c) ==
    /\ pc[c] = "polling" => port = "telegram"
    /\ counted[c] # "none" => pc[c] \notin Undecided /\ Gave(c, counted[c])
    /\ pc[c] \in {"run", "done"} /\ must[c] = "yes" => counted[c] = "approve"
Asked == \A c \in Calls : AskedFor(c)
AskInv == CallTypes /\ PortTypes /\ Ready /\ Asked

LEMMA ClickAdds ==
  ASSUME CallTypes, NEW c \in Calls, NEW a \in Answers,
         clicks' = [clicks EXCEPT ![c] = Append(@, a)]
  PROVE  /\ clicks' \in [Calls -> Seq(Answers)]
         /\ Gave(c, a)' /\ \A d \in Calls, b \in Answers : Gave(d, b) => Gave(d, b)'
         /\ \A d \in Calls : d # c => clicks'[d] = clicks[d]
         /\ clicks'[c] # << >>
         /\ clicks[c] # << >> => clicks'[c][1] = clicks[c][1]
         /\ clicks[c] = << >> => clicks'[c][1] = a
<1>1. clicks[c] \in Seq(Answers) /\ clicks'[c] = Append(clicks[c], a)
  BY DEF CallTypes
<1>2. /\ \A i \in DOMAIN clicks[c] : i \in DOMAIN clicks'[c] /\ clicks'[c][i] = clicks[c][i]
      /\ Len(clicks[c]) + 1 \in DOMAIN clicks'[c] /\ clicks'[c][Len(clicks[c]) + 1] = a
      /\ clicks'[c] \in Seq(Answers) /\ clicks'[c] # << >>
      /\ clicks[c] # << >> => 1 \in DOMAIN clicks[c]
      /\ clicks[c] = << >> => Len(clicks[c]) = 0
  BY <1>1
<1>3. \A d \in Calls : d # c => clicks'[d] = clicks[d]
  BY DEF CallTypes
<1>4. QED
  BY <1>2, <1>3 DEF CallTypes, Gave

\* Where no answer moves, only the place of a call may change.
LEMMA CallMoves ==
  ASSUME AskInv, NEW c \in Calls, NEW from \in Undecided \cup {"run"},
         NEW to \in Undecided \cup {"denied", "raised", "done"},
         Move(c, from, to), from = "run" <=> to = "done",
         to = "polling" => port = "telegram",
         UNCHANGED <<runVars, feed, store, decisions, events, must, clicks, counted>>,
         offset' \in Nat, confirmed' \in Nat, asked' \in [Calls -> Nat]
  PROVE  AskInv'
<1> USE DEF AskInv, runVars, history
<1>1. CallTypes'
  BY DEF CallTypes, Move, Undecided
<1>2. Ready' /\ PortTypes'
  BY DEF Ready, Gave, PortTypes
<1>3. Asked'
  BY DEF Asked, AskedFor, Gave, CallTypes, Move, Undecided
<1>4. QED
  BY <1>1, <1>2, <1>3

\* A wait ends with an answer that was given to the call.
LEMMA CallIsAnswered ==
  ASSUME AskInv, NEW c \in Calls, NEW a \in Answers, Gave(c, a),
         NEW from \in {"waiting", "polling"}, NEW to \in {After(a), "raised"}, Move(c, from, to),
         counted' = [counted EXCEPT ![c] = a],
         UNCHANGED <<runVars, must, clicks>>
  PROVE  CallTypes' /\ Asked' /\ \A d \in Calls : \A b : Gave(d, b)' <=> Gave(d, b)
<1> USE DEF AskInv, runVars
<1>1. CallTypes'
  BY DEF CallTypes, Move, Undecided, After
<1>2. \A d \in Calls : \A b : Gave(d, b)' <=> Gave(d, b)
  BY DEF Gave
<1>3. to \notin Undecided /\ to # "done" /\ (to = "run" => a = "approve")
  BY DEF After, Undecided, Answers
<1>4. Asked'
  BY <1>2, <1>3 DEF Asked, AskedFor, CallTypes, Move, Undecided
<1>5. QED
  BY <1>1, <1>2, <1>4

LEMMA UpdatesTyped ==
  PortTypes => \A k \in DOMAIN feed :
      k \in 1..Len(feed) /\ feed[k].call \in Calls /\ feed[k].answer \in Answers
<1> SUFFICES ASSUME PortTypes, NEW k \in DOMAIN feed
             PROVE  k \in 1..Len(feed) /\ feed[k].call \in Calls /\ feed[k].answer \in Answers
  OBVIOUS
<1>1. k \in 1..Len(feed) /\ feed[k] \in Updates
  BY DEF PortTypes
<1>2. QED
  BY <1>1 DEF Updates

LEMMA ReadyStays ==
  ASSUME AskInv, UNCHANGED <<port, feed>>, events' \subseteq events,
         \A c \in Calls : \A b : Gave(c, b)' <=> Gave(c, b),
         \A c \in events' : port = "web" => decisions'[c] = decisions[c],
         \A c \in Calls : store'[c] \in {store[c], "none"}
  PROVE  Ready'
<1>1. \A k \in DOMAIN feed : feed[k].call \in Calls
  BY UpdatesTyped DEF AskInv
<1>2. QED
  BY <1>1 DEF AskInv, PortTypes, Ready

LEMMA LeastOne ==
  ASSUME NEW S \in SUBSET Nat, S # {}
  PROVE  \E x \in S : \A y \in S : x <= y
<1>1. PICK x \in S : \A y \in S : ~(<<y, x>> \in OpToRel(<, Nat))
  BY NatLessThanWellFounded, WFMin
<1>2. OpToRel(<, Nat) = {p \in Nat \X Nat : p[1] < p[2]}
  BY DEF OpToRel
<1>3. ASSUME NEW y \in S PROVE x <= y
  <2>1. <<y, x>>[1] = y /\ <<y, x>>[2] = x /\ <<y, x>> \in Nat \X Nat
    OBVIOUS
  <2>2. ~(y < x)
    BY <1>1, <1>2, <2>1
  <2>3. QED
    BY <2>2
<1>4. QED
  BY <1>3

LEMMA GreatestOne ==
  ASSUME NEW n \in Nat, NEW S \in SUBSET (0..n), S # {}
  PROVE  \E x \in S : \A y \in S : x >= y
<1> DEFINE T == {i \in 0..n : n - i \in S}
<1>1. T # {} /\ T \in SUBSET Nat
  <2>1. PICK x \in S : TRUE
    OBVIOUS
  <2>2. n - x \in 0..n /\ n - (n - x) = x
    BY <2>1
  <2>3. n - x \in T
    BY <2>2
  <2>4. T \in SUBSET Nat
    OBVIOUS
  <2>5. QED
    BY <2>3, <2>4
<1>2. PICK i \in T : \A j \in T : i <= j
  BY <1>1, LeastOne
<1>3. ASSUME NEW y \in S PROVE n - i >= y
  <2>1. n - y \in 0..n /\ n - (n - y) = y
    OBVIOUS
  <2>2. i <= n - y
    BY <1>2, <2>1
  <2>3. QED
    BY <2>2
<1>4. QED
  BY <1>2, <1>3

\* What a poll has found is the first update for the call in what Telegram still had.
LEMMA FirstOwn ==
  ASSUME PortTypes, NEW c \in Calls, Own(c) # {}
  PROVE  \E k \in Own(c) :
           /\ k = CHOOSE j \in Own(c) : \A i \in Own(c) : j <= i
           /\ \A i \in Own(c) : k <= i
<1>1. Own(c) \in SUBSET Nat
  BY DEF Own, Batch, Larger, PortTypes
<1>2. QED
  BY <1>1, LeastOne

\* ... and the offset moves to the last update it passed, if that is further.
LEMMA OffsetMoves ==
  ASSUME PortTypes, NEW ks \in SUBSET (1..Len(feed))
  PROVE  LET top == CHOOSE n \in {offset} \cup ks : \A k \in {offset} \cup ks : n >= k
         IN  top \in {offset} \cup ks /\ \A k \in {offset} \cup ks : top >= k
<1>1. offset \in Nat /\ Len(feed) \in Nat
  BY DEF PortTypes
<1> DEFINE S == {offset} \cup ks
<1>2. S \in SUBSET (0..(offset + Len(feed))) /\ offset + Len(feed) \in Nat /\ S # {}
  BY <1>1
<1> HIDE DEF S
<1>3. \E x \in S : \A y \in S : x >= y
  BY <1>2, GreatestOne
<1> USE DEF S
<1>4. QED
  BY <1>3

LEMMA ReadInFeed ==
  ASSUME PortTypes, NEW c \in Calls
  PROVE  Batch(c) \subseteq 1..Len(feed) /\ Own(c) \subseteq Batch(c) /\ Read(c) \subseteq Batch(c)
<1>1. Larger(asked[c], confirmed) \in Nat /\ Len(feed) \in Nat
  BY DEF Larger, PortTypes
<1>2. QED
  BY <1>1 DEF Batch, Own, Read

LEMMA AskNext == AskInv /\ [Next]_vars => AskInv'
<1> SUFFICES ASSUME AskInv, [Next]_vars PROVE AskInv'
  OBVIOUS
<1>1. CASE BeginRun
  <2>1. CallTypes'
    <3>1. conf.settings \in Settings /\ conf.over \in Overrides /\ conf.local \in BOOLEAN
      BY <1>1 DEF AskInv, CallTypes, BeginRun, Requests
    <3>2. mode' \in Modes /\ Unset \notin Modes
      BY <1>1, <3>1, PrefsAreHonoured, ModesAndLevels DEF BeginRun
    <3>3. QED
      BY <1>1, <3>2 DEF AskInv, CallTypes, BeginRun, history
  <2>2. QED
    BY <1>1, <2>1 DEF BeginRun, AskInv, PortTypes, Ready, Asked, AskedFor, Gave, portVars, history
<1>2. CASE Leave
  <2>1. CallTypes'
    BY <1>2 DEF Leave, AskInv, CallTypes, Waiting, Undecided, runVars, history
  <2>2. Asked'
    BY <1>2 DEF Leave, AskInv, CallTypes, Asked, AskedFor, Gave, Waiting, Undecided, runVars, history
  <2>3. QED
    BY <1>2, <2>1, <2>2 DEF Leave, AskInv, PortTypes, Ready, Gave, runVars, portVars, history
<1>3. ASSUME NEW c \in Calls, Gate(c) PROVE AskInv'
  <2>1. mode \in Modes /\ (port # "none") \in BOOLEAN
    BY <1>3 DEF Gate, AskInv, CallTypes
  <2>2. PICK end \in GateEnds[mode][port # "none"] :
           pc' = [pc EXCEPT ![c] = end[1]] /\ must' = [must EXCEPT ![c] = end[2]]
    BY <1>3 DEF Gate
  <2>3. /\ end[1] \in {"run", "ask", "refuse"} /\ end[2] \in {"yes", "no", "lowered"}
        /\ end[2] = "yes" => end[1] # "run"
    BY <2>1, GateAsks
  <2>4. UNCHANGED <<runVars, portVars, clicks, counted>> /\ pc[c] = "todo"
    BY <1>3 DEF Gate
  <2>5. CallTypes'
    BY <2>2, <2>3, <2>4 DEF AskInv, CallTypes, runVars, Undecided
  <2>6. Asked'
    <3>1. ASSUME NEW d \in Calls PROVE AskedFor(d)'
      <4>1. CASE d = c
        BY <2>2, <2>3, <2>4, <4>1 DEF AskInv, Asked, AskedFor, Gave, CallTypes, Undecided, runVars
      <4>2. CASE d # c
        BY <2>2, <2>3, <2>4, <4>2 DEF AskInv, Asked, AskedFor, Gave, CallTypes, Undecided, runVars
      <4>3. QED
        BY <4>1, <4>2
    <3>2. QED
      BY <3>1 DEF Asked
  <2>7. QED
    BY <2>4, <2>5, <2>6 DEF AskInv, PortTypes, Ready, Gave, portVars, runVars
<1>4. ASSUME NEW c \in Calls, WebAsks(c) \/ CardSent(c) \/ SendFails(c) \/ SendReturns(c)
      PROVE  AskInv'
  BY <1>4, CallMoves DEF WebAsks, CardSent, SendFails, SendReturns, Undecided, history, portVars,
     AskInv, PortTypes
<1>5. ASSUME NEW c \in Calls, PollFails(c) \/ Timeout(c) \/ InvokeEnds(c) PROVE AskInv'
  <2>1. /\ UNCHANGED <<runVars, portVars, must, clicks, counted>>
        /\ offset' \in Nat /\ confirmed' \in Nat /\ asked' \in [Calls -> Nat]
    BY <1>5 DEF PollFails, Timeout, InvokeEnds, portVars, history, AskInv, PortTypes
  <2>2. CASE PollFails(c)
    BY <2>1, <2>2, CallMoves DEF PollFails, Undecided, portVars
  <2>3. CASE Timeout(c)
    BY <2>1, <2>3, CallMoves DEF Timeout, Undecided, portVars
  <2>4. CASE InvokeEnds(c)
    BY <2>1, <2>4, CallMoves DEF InvokeEnds, Undecided, portVars
  <2>5. QED
    BY <1>5, <2>2, <2>3, <2>4
<1>6. ASSUME NEW c \in Calls, PollBegins(c) \/ PollFindsNothing(c) PROVE AskInv'
  <2>1. offset' \in Nat /\ confirmed' \in Nat /\ asked' \in [Calls -> Nat]
    BY <1>6 DEF PollBegins, PollFindsNothing, Larger, AskInv, PortTypes
  <2>2. QED
    BY <1>6, <2>1, CallMoves DEF PollBegins, PollFindsNothing, Undecided, history
<1>7. ASSUME NEW c \in Calls, WebWakes(c) PROVE AskInv'
  <2>1. Gave(c, decisions[c]) /\ decisions[c] \in Answers /\ port = "web"
    BY <1>7 DEF WebWakes, AskInv, Ready, Gave, CallTypes
  <2>2. CallTypes' /\ Asked' /\ \A d \in Calls : \A b : Gave(d, b)' <=> Gave(d, b)
    BY <1>7, <2>1, CallIsAnswered DEF WebWakes
  <2>3. QED
    BY <1>7, <2>2, ReadyStays DEF WebWakes, AskInv, PortTypes, runVars
<1>8. ASSUME NEW c \in Calls, PollFinds(c) PROVE AskInv'
  <2>1. PICK k \in Own(c) : k = CHOOSE j \in Own(c) : \A i \in Own(c) : j <= i
    BY <1>8, FirstOwn DEF PollFinds, AskInv
  <2>2. k \in DOMAIN feed /\ feed[k].call = c /\ feed[k].answer \in Answers
    <3>1. k \in (Larger(asked[c], confirmed) + 1)..Len(feed) /\ feed[k].call = c
      BY DEF Own, Batch
    <3>2. Larger(asked[c], confirmed) \in Nat /\ feed \in Seq(Updates)
      BY DEF Larger, AskInv, PortTypes
    <3>3. k \in 1..Len(feed)
      BY <3>1, <3>2
    <3>4. feed[k] \in Updates
      BY <3>2, <3>3
    <3>5. QED
      BY <3>1, <3>3, <3>4 DEF Updates
  <2>3. /\ counted' = [counted EXCEPT ![c] = feed[k].answer]
        /\ decisions' = [decisions EXCEPT ![c] = feed[k].answer]
        /\ \E to \in {After(feed[k].answer), "raised"} : Move(c, "polling", to)
        /\ UNCHANGED <<runVars, events, feed, store, asked, confirmed, must, clicks>>
    BY <1>8, <2>1 DEF PollFinds
  <2>4. Gave(c, feed[k].answer)
    BY <2>2 DEF AskInv, Ready
  <2>5. CallTypes' /\ Asked' /\ \A d \in Calls : \A b : Gave(d, b)' <=> Gave(d, b)
    BY <2>2, <2>3, <2>4, CallIsAnswered
  <2>6. PortTypes'
    <3>1. offset' \in {offset} \cup Read(c) /\ Read(c) \subseteq 1..Len(feed)
      BY <1>8, OffsetMoves, ReadInFeed DEF PollFinds, AskInv
    <3>2. offset' \in Nat
      BY <3>1 DEF AskInv, PortTypes
    <3>3. QED
      BY <2>2, <2>3, <3>2 DEF AskInv, PortTypes
  <2>7. QED
    <3>1. port = "telegram"
      BY <1>8 DEF PollFinds, Move, AskInv, Asked, AskedFor
    <3>2. Ready'
      BY <2>3, <2>5, <3>1, ReadyStays DEF runVars
    <3>3. QED
      BY <2>5, <2>6, <3>2 DEF AskInv
<1>9. ASSUME NEW c \in Calls, QqTakes(c) PROVE AskInv'
  <2>1. Gave(c, store[c]) /\ store[c] \in Answers
    BY <1>9 DEF QqTakes, AskInv, Ready, PortTypes
  <2>2. CallTypes' /\ Asked' /\ \A d \in Calls : \A b : Gave(d, b)' <=> Gave(d, b)
    BY <1>9, <2>1, CallIsAnswered DEF QqTakes
  <2>3. QED
    BY <1>9, <2>2, ReadyStays DEF QqTakes, AskInv, PortTypes, runVars
<1>10. ASSUME NEW c \in Calls, NEW a \in Answers, Click(c, a) PROVE AskInv'
  <2>1. /\ clicks' = [clicks EXCEPT ![c] = Append(@, a)]
        /\ UNCHANGED <<runVars, pc, must, counted, offset, asked, confirmed>>
    BY <1>10 DEF Click, WebClick, TelegramClick, QqClick
  <2>2. /\ clicks' \in [Calls -> Seq(Answers)] /\ Gave(c, a)'
        /\ \A d \in Calls, b \in Answers : Gave(d, b) => Gave(d, b)'
    BY <2>1, ClickAdds DEF AskInv
  <2>3. CallTypes'
    BY <2>1, <2>2 DEF AskInv, CallTypes, runVars
  <2>4. Asked'
    BY <2>1, <2>2 DEF AskInv, CallTypes, Asked, AskedFor, runVars
  <2>5. Ready' /\ PortTypes'
    <3>1. \A d \in Calls : decisions[d] \in Answers \cup {"none"} /\ ~Gave(d, "none")
      BY DEF AskInv, CallTypes, PortTypes, Gave, Answers
    <3>2. \A k \in DOMAIN feed : feed[k].call \in Calls /\ feed[k].answer \in Answers
      BY UpdatesTyped DEF AskInv
    <3>3. CASE WebClick(c, a)
      <4>1. port = "web" /\ decisions' = [decisions EXCEPT ![c] = a] /\ events' = events \cup {c}
            /\ UNCHANGED <<port, feed, store>>
        BY <2>1, <3>3 DEF WebClick, Notified, runVars
      <4>2. PortTypes'
        BY <2>1, <4>1 DEF AskInv, PortTypes
      <4>3. ASSUME NEW d \in events' PROVE Gave(d, decisions[d])'
        <5>1. CASE d = c
          <6>1. decisions'[d] = a
            BY <4>1, <5>1 DEF AskInv, PortTypes
          <6>2. QED
            BY <2>2, <5>1, <6>1 DEF Gave
        <5>2. CASE d # c
          <6>1. d \in Calls /\ decisions'[d] = decisions[d] /\ Gave(d, decisions[d])
            BY <4>1, <5>2 DEF AskInv, PortTypes, Ready
          <6>2. PICK b \in Answers : b = decisions[d]
            BY <3>1, <6>1
          <6>3. Gave(d, b)'
            BY <2>2, <6>1, <6>2
          <6>4. QED
            BY <6>1, <6>2, <6>3 DEF Gave
        <5>3. QED
          BY <5>1, <5>2
      <4>4. \A k \in DOMAIN feed' : Gave(feed[k].call, feed[k].answer)'
        BY <3>2, <4>1, <2>2 DEF AskInv, Ready, Gave
      <4>5. \A d \in Calls : store'[d] # "none" => Gave(d, store[d])'
        BY <4>1, <2>2 DEF AskInv, PortTypes, Ready, Gave
      <4>6. QED
        BY <4>2, <4>3, <4>4, <4>5 DEF Ready
    <3>4. CASE TelegramClick(c, a)
      <4>1. /\ port = "telegram" /\ feed' = Append(feed, [call |-> c, answer |-> a])
            /\ UNCHANGED <<port, decisions, events, store>>
        BY <2>1, <3>4 DEF TelegramClick, runVars
      <4>2. [call |-> c, answer |-> a] \in Updates /\ feed \in Seq(Updates)
        BY DEF Updates, AskInv, PortTypes
      <4>3. feed' \in Seq(Updates) /\ \A k \in DOMAIN feed' :
              \/ k \in DOMAIN feed /\ feed'[k] = feed[k]
              \/ feed'[k] = [call |-> c, answer |-> a]
        BY <4>1, <4>2
      <4>4. PortTypes'
        BY <2>1, <4>1, <4>3 DEF AskInv, PortTypes
      <4>5. ASSUME NEW k \in DOMAIN feed' PROVE Gave(feed[k].call, feed[k].answer)'
        <5>1. CASE k \in DOMAIN feed /\ feed'[k] = feed[k]
          <6>1. PICK d \in Calls, b \in Answers : d = feed[k].call /\ b = feed[k].answer
            BY <3>2, <5>1
          <6>2. Gave(d, b)'
            BY <2>2, <5>1, <6>1 DEF AskInv, Ready
          <6>3. QED
            BY <5>1, <6>1, <6>2 DEF Gave
        <5>2. CASE feed'[k] = [call |-> c, answer |-> a]
          <6>1. feed'[k].call = c /\ feed'[k].answer = a
            BY <5>2
          <6>2. QED
            BY <2>2, <6>1 DEF Gave
        <5>3. QED
          BY <4>3, <5>1, <5>2
      <4>6. \A d \in Calls : store'[d] # "none" => Gave(d, store[d])'
        BY <4>1, <2>2 DEF AskInv, PortTypes, Ready, Gave
      <4>7. QED
        BY <4>1, <4>4, <4>5, <4>6 DEF Ready
    <3>5. CASE QqClick(c, a)
      <4>1. /\ port = "qq" /\ store' = [store EXCEPT ![c] = Locked(c, a)]
            /\ UNCHANGED <<port, decisions, events, feed>>
        BY <2>1, <3>5 DEF QqClick, runVars
      <4>2. PortTypes' /\ store'[c] \in {a, store[c]}
        BY <2>1, <4>1 DEF Locked, AskInv, PortTypes
      <4>3. \A k \in DOMAIN feed' : Gave(feed[k].call, feed[k].answer)'
        BY <3>2, <4>1, <2>2 DEF AskInv, Ready, Gave
      <4>4. ASSUME NEW d \in Calls, store'[d] # "none" PROVE Gave(d, store[d])'
        <5>1. CASE store'[d] = store[d]
          BY <2>2, <4>4, <5>1 DEF AskInv, PortTypes, Ready, Gave
        <5>2. CASE d = c /\ store'[d] = a
          BY <2>2, <5>2 DEF Gave
        <5>3. QED
          BY <4>1, <4>2, <5>1, <5>2 DEF AskInv, PortTypes
      <4>5. QED
        BY <4>1, <4>2, <4>3, <4>4 DEF Ready
    <3>6. QED
      BY <1>10, <3>3, <3>4, <3>5 DEF Click
  <2>8. QED
    BY <2>3, <2>4, <2>5 DEF AskInv
<1>11. CASE UNCHANGED vars
  BY <1>11 DEF vars, runVars, portVars, history, AskInv, CallTypes, PortTypes, Ready, Asked, AskedFor, Gave
<1>12. QED
  BY <1>1, <1>2, <1>3, <1>4, <1>5, <1>6, <1>7, <1>8, <1>9, <1>10, <1>11 DEF Next, Progress

LEMMA AskInit == Init => AskInv
BY DEF Init, AskInv, CallTypes, PortTypes, Ready, Asked, AskedFor, Gave, Undecided, Answers

\* Whatever was overridden, escalated, hooked, answered late or twice, on any port: a call
\* that the documented matrix asks about runs only after a person approved that very call,
\* unless .aurules lowered a tool without a floor (policy/privilege.py, check_and_invoke
\* and resolve_pending; tools/registry.py, merge_tool_policy).
THEOREM NobodyIsRunUnasked == Spec => []NobodyRunsUnasked
<1>1. AskInv => NobodyRunsUnasked
  BY DEF AskInv, Asked, AskedFor, Gave, NobodyRunsUnasked, Approved
<1>2. QED
  BY AskInit, AskNext, <1>1, PTL DEF Spec

-------------------------------------------------------------------------------
(* Which of several answers counts.                                           *)

\* Telegram: what lies below the offset was read by the wait it was for, or by another;
\* and the first update for a call is the first answer to it.
FeedInv ==
    /\ offset <= Len(feed) /\ confirmed <= offset /\ \A c \in Calls : asked[c] <= offset
    /\ \A k \in 1..offset : feed[k].call \in swallowed \/ counted[feed[k].call] # "none"
    /\ \A c \in Calls : clicks[c] # << >> => \E k \in DOMAIN feed : feed[k].call = c
    /\ \A k \in DOMAIN feed :
         (\A i \in 1..(k - 1) : feed[i].call # feed[k].call) =>
            feed[k].answer = clicks[feed[k].call][1]

\* QQ: until the wait takes it, the store keeps the first answer.
StoreInv ==
    \A c \in Calls : counted[c] = "none" =>
        /\ store[c] = "none" => clicks[c] = << >>
        /\ store[c] # "none" => store[c] = clicks[c][1]

FirstInv ==
    /\ AskInv
    /\ port = "telegram" => FeedInv
    /\ port = "qq" => StoreInv
    /\ FirstAnswerCounts

\* An answer that waits in the feed is below the offset of no wait it is for.
LEMMA FirstInFeed ==
  ASSUME PortTypes, FeedInv, NEW c \in Calls, counted[c] = "none", c \notin swallowed,
         NEW k \in Own(c), \A i \in Own(c) : k <= i
  PROVE  feed[k].answer = clicks[c][1]
<1>1. /\ Larger(asked[c], confirmed) \in Nat /\ Larger(asked[c], confirmed) <= offset
      /\ offset \in Nat /\ Len(feed) \in Nat
  BY DEF Larger, PortTypes, FeedInv
<1>2. k \in (Larger(asked[c], confirmed) + 1)..Len(feed) /\ feed[k].call = c
  BY DEF Own, Batch
<1>3. k \in DOMAIN feed /\ k \in Nat
  BY <1>1, <1>2 DEF PortTypes
<1>4. ASSUME NEW i \in 1..(k - 1) PROVE feed[i].call # c
  <2>1. CASE i <= Larger(asked[c], confirmed)
    BY <1>1, <1>3, <2>1 DEF FeedInv
  <2>2. CASE i > Larger(asked[c], confirmed)
    <3>1. i \in (Larger(asked[c], confirmed) + 1)..Len(feed) /\ ~(k <= i)
      BY <1>1, <1>2, <1>3, <2>2
    <3>2. QED
      BY <3>1 DEF Own, Batch
  <2>3. QED
    BY <1>1, <1>3, <2>1, <2>2
<1>5. QED
  BY <1>2, <1>3, <1>4 DEF FeedInv

LEMMA PassedBy ==
  ASSUME PortTypes, FeedInv, NEW c \in Calls, NEW j \in 1..Len(feed), j > offset
  PROVE  j \in Batch(c)
BY DEF Batch, Larger, PortTypes, FeedInv

\* Where nothing is read, answered or counted, nothing changes about it.
LEMMA FirstStays ==
  ASSUME FirstInv, AskInv', UNCHANGED <<port, counted, clicks, swallowed, feed, store>>,
         port = "telegram" => /\ offset' = offset
                              /\ confirmed' <= offset /\ \A c \in Calls : asked'[c] <= offset
  PROVE  FirstInv'
BY DEF FirstInv, FeedInv, StoreInv, FirstAnswerCounts

LEMMA FirstNext == FirstInv /\ AskInv' /\ [Next]_vars => FirstInv'
<1> SUFFICES ASSUME FirstInv, AskInv', [Next]_vars PROVE FirstInv'
  OBVIOUS
<1>0. AskInv
  BY DEF FirstInv
<1>1. CASE BeginRun \/ Leave \/ UNCHANGED vars
  <2>1. UNCHANGED <<port, counted, clicks, swallowed, portVars>>
    BY <1>1 DEF BeginRun, Leave, vars, runVars, portVars, history
  <2>2. QED
    BY <2>1, FirstStays DEF portVars, FirstInv, FeedInv
<1>2. ASSUME NEW c \in Calls,
             \/ Gate(c) \/ WebAsks(c) \/ CardSent(c) \/ SendFails(c) \/ SendReturns(c)
             \/ PollFails(c) \/ Timeout(c) \/ InvokeEnds(c)
      PROVE  FirstInv'
  <2>1. UNCHANGED <<port, counted, clicks, swallowed, feed, store, offset, confirmed, asked>>
    BY <1>2 DEF Gate, WebAsks, CardSent, SendFails, SendReturns, PollFails, Timeout, InvokeEnds,
                runVars, portVars, history
  <2>2. QED
    BY <2>1, FirstStays DEF FirstInv, FeedInv
<1>3. ASSUME NEW c \in Calls, PollBegins(c) PROVE FirstInv'
  <2>1. /\ UNCHANGED <<port, counted, clicks, swallowed, feed, store, offset>> /\ port = "telegram"
        /\ confirmed' = Larger(confirmed, offset) /\ asked' = [asked EXCEPT ![c] = offset]
    BY <1>3 DEF PollBegins, runVars, history
  <2>2. /\ FeedInv /\ offset \in Nat /\ confirmed \in Nat /\ asked \in [Calls -> Nat]
    BY <2>1 DEF FirstInv, AskInv, PortTypes
  <2>3. confirmed' <= offset /\ \A d \in Calls : asked'[d] <= offset
    BY <2>1, <2>2 DEF FeedInv, Larger
  <2>4. QED
    BY <2>1, <2>3, FirstStays
<1>4. ASSUME NEW c \in Calls, WebWakes(c) PROVE FirstInv'
  BY <1>4 DEF WebWakes, FirstInv, FirstAnswerCounts, runVars
<1>5. ASSUME NEW c \in Calls, PollFinds(c) PROVE FirstInv'
  <2> DEFINE k == CHOOSE j \in Own(c) : \A i \in Own(c) : j <= i
  <2>1. k \in Own(c) /\ \A i \in Own(c) : k <= i
    BY <1>0, <1>5, FirstOwn DEF PollFinds, AskInv
  <2> HIDE DEF k
  <2>2. /\ counted' = [counted EXCEPT ![c] = feed[k].answer]
        /\ swallowed' = swallowed \cup OthersIn(Read(c), c)
        /\ pc[c] = "polling" /\ UNCHANGED <<port, feed, store, asked, confirmed, clicks>>
    BY <1>5 DEF PollFinds, Move, runVars, k
  <2>3. port = "telegram" /\ counted[c] = "none" /\ FeedInv
    BY <1>0, <2>2 DEF FirstInv, AskInv, Asked, AskedFor, Undecided
  <2>4. /\ offset' \in {offset} \cup Read(c) /\ \A i \in {offset} \cup Read(c) : offset' >= i
        /\ Read(c) \subseteq 1..Len(feed) /\ Own(c) \subseteq 1..Len(feed)
    BY <1>0, <1>5, OffsetMoves, ReadInFeed DEF PollFinds, AskInv
  <2>5. /\ offset \in Nat /\ Len(feed) \in Nat /\ counted \in [Calls -> Answers \cup {"none"}]
        /\ \A j \in 1..Len(feed) : feed[j].call \in Calls /\ feed[j].answer \in Answers
    BY <1>0, UpdatesTyped DEF AskInv, PortTypes, CallTypes
  <2>6. counted'[c] # "none" /\ \A d \in Calls : d # c => counted'[d] = counted[d]
    BY <2>1, <2>2, <2>4, <2>5 DEF Answers
  <2>7. ASSUME NEW j \in 1..offset' PROVE feed[j].call \in swallowed' \/ counted'[feed[j].call] # "none"
    <3>1. j \in 1..Len(feed)
      BY <2>3, <2>4, <2>5 DEF FeedInv
    <3>2. CASE j <= offset
      BY <2>2, <2>3, <2>5, <2>6, <3>1, <3>2 DEF FeedInv
    <3>3. CASE j > offset
      <4>1. j \in Batch(c)
        BY <1>0, <2>3, <3>1, <3>3, PassedBy DEF AskInv
      <4>2. offset' \in Read(c) /\ offset' \in Nat /\ j <= offset'
        BY <2>4, <2>5, <3>3
      <4>3. \A i \in Own(c) : i \in Nat /\ offset' <= i
        BY <2>4, <4>2 DEF Read
      <4>4. j \in Read(c)
        BY <4>1, <4>2, <4>3 DEF Read
      <4>5. QED
        BY <2>2, <2>6, <4>4 DEF OthersIn
    <3>4. QED
      BY <2>5, <3>2, <3>3
  <2>8. FeedInv'
    <3>1. offset' \in Nat /\ offset <= offset' /\ offset' <= Len(feed)
      BY <2>3, <2>4, <2>5 DEF FeedInv
    <3>2. confirmed' <= offset' /\ \A d \in Calls : asked'[d] <= offset'
      BY <1>0, <2>2, <2>3, <2>5, <3>1 DEF FeedInv, AskInv, PortTypes
    <3>3. QED
      BY <2>2, <2>3, <2>7, <3>1, <3>2 DEF FeedInv
  <2>9. c \notin swallowed => feed[k].answer = clicks[c][1]
    BY <1>0, <2>1, <2>3, FirstInFeed DEF AskInv
  <2>10. FirstAnswerCounts'
    BY <2>2, <2>3, <2>5, <2>6, <2>9 DEF FirstInv, FirstAnswerCounts
  <2>11. QED
    BY <2>2, <2>3, <2>8, <2>10 DEF FirstInv
<1>6. ASSUME NEW c \in Calls, PollFindsNothing(c) PROVE FirstInv'
  <2>1. /\ Own(c) = {} /\ pc[c] = "polling"
        /\ offset' = IF Batch(c) = {} THEN offset ELSE Larger(offset, Len(feed))
        /\ swallowed' = swallowed \cup OthersIn(Batch(c), c)
        /\ UNCHANGED <<port, feed, store, asked, confirmed, clicks, counted>>
    BY <1>6 DEF PollFindsNothing, Move, runVars
  <2>2. port = "telegram" /\ FeedInv /\ offset \in Nat /\ Len(feed) \in Nat
    BY <1>0, <2>1 DEF FirstInv, AskInv, Asked, AskedFor, PortTypes
  <2>3. offset' \in Nat /\ offset <= offset' /\ offset' <= Len(feed)
    BY <2>1, <2>2 DEF Larger, FeedInv
  <2>4. ASSUME NEW j \in 1..offset' PROVE feed[j].call \in swallowed' \/ counted[feed[j].call] # "none"
    <3>1. CASE j <= offset
      BY <2>1, <2>2, <3>1 DEF FeedInv
    <3>2. CASE j > offset
      <4>1. j \in Batch(c) /\ feed[j].call # c
        BY <1>0, <2>1, <2>2, <2>3, <3>2, PassedBy DEF AskInv, Own
      <4>2. QED
        BY <2>1, <4>1 DEF OthersIn
    <3>3. QED
      BY <2>2, <2>3, <3>1, <3>2
  <2>5. confirmed' <= offset' /\ \A d \in Calls : asked'[d] <= offset'
    BY <1>0, <2>1, <2>2, <2>3 DEF FeedInv, AskInv, PortTypes
  <2>6. FeedInv'
    BY <2>1, <2>2, <2>3, <2>4, <2>5 DEF FeedInv
  <2>7. QED
    BY <2>1, <2>2, <2>6 DEF FirstInv, FirstAnswerCounts
<1>7. ASSUME NEW c \in Calls, QqTakes(c) PROVE FirstInv'
  <2>1. /\ port = "qq" /\ store[c] # "none" /\ counted' = [counted EXCEPT ![c] = store[c]]
        /\ store' = [store EXCEPT ![c] = "none"] /\ UNCHANGED <<port, clicks, swallowed>>
        /\ pc[c] = "waiting"
    BY <1>7 DEF QqTakes, Move, runVars
  <2>2. counted[c] = "none" /\ store[c] = clicks[c][1]
    BY <2>1 DEF FirstInv, AskInv, Asked, AskedFor, StoreInv, Undecided
  <2>3. QED
    BY <1>0, <2>1, <2>2 DEF FirstInv, AskInv, CallTypes, PortTypes, StoreInv, FirstAnswerCounts
<1>8. ASSUME NEW c \in Calls, NEW a \in Answers, Click(c, a) PROVE FirstInv'
  <2>1. /\ clicks' = [clicks EXCEPT ![c] = Append(@, a)]
        /\ UNCHANGED <<port, counted, swallowed, offset, asked, confirmed>>
    BY <1>8 DEF Click, WebClick, TelegramClick, QqClick, runVars
  <2>2. /\ \A d \in Calls : d # c => clicks'[d] = clicks[d]
        /\ clicks'[c] # << >>
        /\ clicks[c] # << >> => clicks'[c][1] = clicks[c][1]
        /\ clicks[c] = << >> => clicks'[c][1] = a
    BY <1>0, <2>1, ClickAdds DEF AskInv
  <2>3. \A d \in Calls : clicks[d] # << >> => clicks'[d] # << >> /\ clicks'[d][1] = clicks[d][1]
    BY <2>2
  <2>4. \A d \in Calls, b \in Answers : Gave(d, b) => clicks[d] # << >>
    BY DEF Gave
  <2>5. FirstAnswerCounts'
    <3>1. \A d \in Calls : counted[d] # "none" => clicks[d] # << >>
      BY <1>0, <2>4 DEF AskInv, CallTypes, Asked, AskedFor
    <3>2. QED
      BY <2>1, <2>3, <3>1 DEF FirstInv, FirstAnswerCounts
  <2>6. CASE port = "telegram"
    <3>1. feed' = Append(feed, [call |-> c, answer |-> a]) /\ FeedInv
      BY <1>8, <2>6 DEF Click, WebClick, TelegramClick, QqClick, FirstInv
    <3>2. [call |-> c, answer |-> a] \in Updates /\ feed \in Seq(Updates) /\ offset \in Nat
      BY <1>0 DEF Updates, AskInv, PortTypes
    <3>3. /\ Len(feed) \in Nat /\ Len(feed') = Len(feed) + 1 /\ DOMAIN feed = 1..Len(feed)
          /\ DOMAIN feed' = 1..(Len(feed) + 1) /\ \A j \in 1..Len(feed) : feed'[j] = feed[j]
          /\ feed'[Len(feed) + 1] = [call |-> c, answer |-> a]
      BY <3>1, <3>2
    <3>4. feed'[Len(feed) + 1].call = c /\ feed'[Len(feed) + 1].answer = a
      BY <3>3
    <3>5. \A d \in Calls : clicks'[d] # << >> => \E j \in DOMAIN feed' : feed'[j].call = d
      <4>1. ASSUME NEW d \in Calls, d # c, clicks'[d] # << >>
            PROVE  \E j \in DOMAIN feed' : feed'[j].call = d
        <5>1. PICK j \in DOMAIN feed : feed[j].call = d
          BY <2>2, <3>1, <4>1 DEF FeedInv
        <5>2. j \in DOMAIN feed' /\ feed'[j] = feed[j]
          BY <3>3
        <5>3. QED
          BY <5>1, <5>2
      <4>2. QED
        BY <3>3, <3>4, <4>1
    <3>6. ASSUME NEW j \in DOMAIN feed', \A i \in 1..(j - 1) : feed'[i].call # feed'[j].call
          PROVE  feed'[j].answer = clicks'[feed'[j].call][1]
      <4>1. CASE j \in DOMAIN feed
        <5>1. feed'[j] = feed[j] /\ \A i \in 1..(j - 1) : feed'[i] = feed[i]
          BY <3>3, <4>1
        <5>2. feed[j].answer = clicks[feed[j].call][1]
          BY <3>1, <3>6, <4>1, <5>1 DEF FeedInv
        <5>3. feed[j].call \in Calls /\ clicks[feed[j].call] # << >>
          BY <1>0, <2>4, <4>1, UpdatesTyped DEF AskInv, Ready
        <5>4. QED
          BY <2>3, <5>1, <5>2, <5>3
      <4>2. CASE j = Len(feed) + 1
        <5>1. clicks[c] = << >>
          <6>1. SUFFICES ASSUME clicks[c] # << >> PROVE FALSE
            OBVIOUS
          <6>2. PICK i \in DOMAIN feed : feed[i].call = c
            BY <3>1, <6>1 DEF FeedInv
          <6>3. i \in 1..(j - 1) /\ feed'[i] = feed[i]
            BY <3>3, <4>2
          <6>4. QED
            BY <3>4, <3>6, <4>2, <6>2, <6>3
        <5>2. QED
          BY <2>2, <3>4, <4>2, <5>1
      <4>3. QED
        BY <3>3, <4>1, <4>2
    <3>7. offset' <= Len(feed') /\ \A j \in 1..offset' : feed'[j] = feed[j]
      BY <2>1, <3>1, <3>2, <3>3 DEF FeedInv
    <3>8. FeedInv'
      BY <2>1, <3>1, <3>5, <3>6, <3>7 DEF FeedInv
    <3>9. QED
      BY <2>1, <2>5, <2>6, <3>8 DEF FirstInv
  <2>7. CASE port = "qq"
    <3>1. store' = [store EXCEPT ![c] = IF store[c] = "none" THEN a ELSE store[c]] /\ StoreInv
      BY <1>8, <2>7 DEF Click, WebClick, TelegramClick, QqClick, Locked, FirstInv
    <3>2. a # "none" /\ store \in [Calls -> Answers \cup {"none"}]
      BY <1>0 DEF Answers, AskInv, PortTypes
    <3>3. \A d \in Calls : store[d] # "none" => clicks[d] # << >>
      BY <1>0, <2>4, <3>2 DEF AskInv, Ready
    <3>4. StoreInv'
      BY <2>1, <2>2, <2>3, <3>1, <3>2, <3>3 DEF StoreInv
    <3>5. QED
      BY <2>1, <2>5, <2>7, <3>4 DEF FirstInv
  <2>8. QED
    BY <2>1, <2>5, <2>6, <2>7 DEF FirstInv
<1>9. QED
  BY <1>1, <1>2, <1>3, <1>4, <1>5, <1>6, <1>7, <1>8 DEF Next, Progress

\* The first answer to a card on Telegram or QQ is what its call goes by, however answers,
\* polls and time-outs fall, unless another wait consumed one for this call (telegram.py,
\* wait_decision; qq.py, register_qq_callback).
THEOREM TheFirstAnswerCounts == Spec => []FirstAnswerCounts
<1>1. Init => FirstInv
  BY AskInit DEF Init, FirstInv, FeedInv, StoreInv, FirstAnswerCounts
<1>2. FirstInv /\ [Next]_vars => FirstInv'
  BY AskNext, FirstNext DEF FirstInv
<1>3. FirstInv => FirstAnswerCounts
  BY DEF FirstInv
<1>4. QED
  BY <1>1, <1>2, <1>3, PTL DEF Spec
===============================================================================
