----------------------------- MODULE ServicesProofs -----------------------------
(***************************************************************************)
(* Proofs about the services of a run as MCServices puts them side by side:*)
(* what sub-agents, commands, projects and the terminal leave behind, the  *)
(* calls of a model, the tools of MCP servers and the window of messages.  *)
(***************************************************************************)
EXTENDS MCServices, ApprovalProofs, FiniteSetTheorems, SequenceTheorems

-------------------------------------------------------------------------------
(* Sub-agents.                                                                *)

\* The parent's run ends when its calls have, or was cut: no call is in its watch or in
\* its grace after that, and one that was ended in its watch had told its child nothing.
AgentInv ==
    /\ parent \in {"runs", "cut", "over"}
    /\ mark \in [Children -> BOOLEAN]
    /\ tool \in [Children -> {"no", "watch", "grace", "force", "result", "error", "killed"}]
    /\ child \in [Children -> {"no", "runs", "result", "raised", "cut"}]
    /\ \A c \in Children : tool[c] = "no" => child[c] = "no"
    /\ \A c \in Children : tool[c] \in {"no", "watch", "killed"} => ~mark[c]
    /\ parent # "runs" => \A c \in Children : tool[c] \notin {"watch", "grace"}
    /\ S!ReturnsWithItsChild

LEMMA AgentsNext == AgentInv /\ [S!Next]_agentVars => AgentInv'
<1> SUFFICES ASSUME AgentInv, [S!Next]_agentVars PROVE AgentInv'
  OBVIOUS
<1> USE DEF AgentInv, S!ReturnsWithItsChild
<1>1. ASSUME NEW c \in Children, S!Spawn(c) PROVE AgentInv'
  BY <1>1 DEF S!Spawn
<1>2. ASSUME NEW c \in Children, S!ChildEnds(c) PROVE AgentInv'
  BY <1>2 DEF S!ChildEnds
<1>3. ASSUME NEW c \in Children, S!Watch(c) PROVE AgentInv'
  BY <1>3 DEF S!Watch
<1>4. ASSUME NEW c \in Children, S!DeadlinePasses(c) PROVE AgentInv'
  BY <1>4 DEF S!DeadlinePasses
<1>5. ASSUME NEW c \in Children, S!GraceEnds(c) PROVE AgentInv'
  BY <1>5 DEF S!GraceEnds, S!TooLate
<1>6. ASSUME NEW c \in Children, S!ChildIsCut(c) PROVE AgentInv'
  BY <1>6 DEF S!ChildIsCut
<1>7. ASSUME NEW c \in Children, S!Forced(c) PROVE AgentInv'
  BY <1>7 DEF S!Forced
<1>8. CASE S!ParentIsCancelled \/ S!ParentEnds \/ UNCHANGED agentVars
  BY <1>8 DEF S!ParentIsCancelled, S!ParentEnds, agentVars
<1>9. CASE S!ParentIsCut
  BY <1>9 DEF S!ParentIsCut
<1>10. QED
  BY <1>1, <1>2, <1>3, <1>4, <1>5, <1>6, <1>7, <1>8, <1>9 DEF S!Next

-------------------------------------------------------------------------------
(* Commands.                                                                  *)

\* Where a call stands says what can still be there: after the signal to a group that
\* could be asked for, nothing.
CommandInv ==
    /\ cshell \in {"no", "up", "dead"} /\ background \in {"no", "up", "dead"}
    /\ command \in {"idle", "wait", "again", "done", "cut"}
    /\ allowed \in BOOLEAN /\ timedOut \in BOOLEAN /\ group \in BOOLEAN
    /\ cshell = "no" => background = "no"
    /\ command = "idle" => cshell = "no" /\ ~timedOut
    /\ command = "wait" => cshell # "no" /\ ~timedOut
    /\ command = "again" => cshell # "no" /\ timedOut
    /\ allowed /\ timedOut /\ group => cshell # "up" /\ background # "up"
    /\ command = "done" /\ ~timedOut => cshell # "up" /\ background # "up"
    /\ answer = "ok" => cshell = "dead" /\ code = "zero" /\ ~timedOut /\ command = "done"

LEMMA CommandNext == CommandInv /\ [C!Next]_commandVars => CommandInv'
<1> SUFFICES ASSUME CommandInv, [C!Next]_commandVars PROVE CommandInv'
  OBVIOUS
<1> USE DEF CommandInv
<1>1. CASE C!Start \/ C!CannotStart
  BY <1>1 DEF C!Start, C!CannotStart
<1>2. CASE C!Forks \/ C!ShellExits \/ C!BackgroundExits
  BY <1>2 DEF C!Forks, C!ShellExits, C!BackgroundExits
<1>3. CASE C!Communicates
  BY <1>3 DEF C!Communicates, C!AllOver, C!Result
<1>4. CASE C!Deadline
  BY <1>4 DEF C!Deadline, C!Killed, C!Group
<1>5. CASE C!GivesUp
  BY <1>5 DEF C!GivesUp, C!AllOver
<1>6. CASE C!Cut \/ UNCHANGED commandVars
  BY <1>6 DEF C!Cut, commandVars
<1>7. QED
  BY <1>1, <1>2, <1>3, <1>4, <1>5, <1>6 DEF C!Next

-------------------------------------------------------------------------------
(* Projects.                                                                  *)

Instances == 1..MaxRuns
ProjectTypes ==
    /\ proc \in [Instances -> {"none", "up", "apart", "dead"}]
    /\ project \in [Instances -> Projects \cup {Nobody}]
    /\ status \in [Instances -> {"no", "running", "error"}]
    /\ byProject \in [Projects -> Instances \cup {Nobody}]
    /\ rpc \in [PageRequests -> {"idle", "wait", "settle", "end", "stop"}]
    /\ at \in [PageRequests -> Instances \cup {Nobody}]
    /\ server \in {"up", "closing", "down"}
    /\ todo \subseteq Instances

\* A process that takes signals is somebody's business: a request's, the list's or, once the
\* server closes, that of stop_all.
ProjectInv ==
    /\ ProjectTypes
    /\ \A t \in PageRequests : rpc[t] = "idle" <=> at[t] = Nobody
    /\ server # "up" => \A t \in PageRequests : rpc[t] = "idle"
    /\ \A r \in Instances : project[r] = Nobody => proc[r] = "none"
    /\ server # "up" => \A r \in Instances : proc[r] = "up" => r \in todo
    /\ server = "down" => todo = {}
    /\ P!NothingIsLeftBehind

LEMMA ProjectsNext == ProjectInv /\ [P!Next]_projectVars => ProjectInv'
<1> SUFFICES ASSUME ProjectInv, [P!Next]_projectVars PROVE ProjectInv'
  OBVIOUS
<1> USE ProjectsAssumption
    DEF ProjectsAssumption, ProjectInv, P!NothingIsLeftBehind, P!InHand, P!Known,
        P!Lives, P!Runs, Instances
<1>1. ASSUME NEW t \in PageRequests, NEW p \in Projects, NEW r \in Instances, P!Start(t, p, r)
      PROVE  ProjectInv'
  <2> USE <1>1 DEF P!Start, P!MayStart, P!NewRun, ProjectTypes
  <2>1. ProjectTypes'
    OBVIOUS
  <2>2. (\A u \in PageRequests : rpc[u] = "idle" <=> at[u] = Nobody)'
    OBVIOUS
  <2>3. server' = "up" /\ proc' = [proc EXCEPT ![r] = "up"] /\ UNCHANGED status
    OBVIOUS
  <2>4. (\A q \in Instances : project[q] = Nobody => proc[q] = "none")'
    OBVIOUS
  <2>5. at'[t] = r /\ \A u \in PageRequests : at[u] # Nobody => at'[u] = at[u]
    OBVIOUS
  <2>6. P!NothingIsLeftBehind'
    BY <2>3, <2>5
  <2>7. QED
    BY <2>1, <2>2, <2>3, <2>4, <2>6
<1>2. ASSUME NEW t \in PageRequests, NEW p \in Projects, NEW r \in Instances,
             P!Preview(t, p, r) \/ P!CannotStart(t, p, r)
      PROVE  ProjectInv'
  <2> USE <1>2 DEF P!Preview, P!CannotStart, P!MayStart, P!NewRun, ProjectTypes
  <2>1. CASE P!Preview(t, p, r)
    <3>1. ProjectTypes'
      BY <2>1
    <3>2. QED
      BY <2>1, <3>1
  <2>2. CASE P!CannotStart(t, p, r)
    <3>1. ProjectTypes'
      BY <2>2
    <3>2. QED
      BY <2>2, <3>1
  <2>3. QED
    BY <2>1, <2>2
<1>3. ASSUME NEW t \in PageRequests, P!PortIsOpen(t) PROVE ProjectInv'
  <2>1. ProjectTypes'
    BY <1>3 DEF P!PortIsOpen, ProjectTypes
  <2>2. QED
    BY <1>3, <2>1 DEF P!PortIsOpen, ProjectTypes
<1>4. ASSUME NEW t \in PageRequests, P!Ready(t) PROVE ProjectInv'
  <2>1. ProjectTypes'
    BY <1>4 DEF P!Ready, ProjectTypes
  <2>2. QED
    BY <1>4, <2>1 DEF P!Ready, ProjectTypes
<1>5. ASSUME NEW t \in PageRequests, P!NotReady(t) PROVE ProjectInv'
  <2> USE <1>5 DEF P!NotReady, ProjectTypes
  <2>1. PICK r \in Instances : r = at[t]
    OBVIOUS
  <2>2. ProjectTypes'
    <3>1. CASE proc[at[t]] = "up"
      <4>1. rpc' = [rpc EXCEPT ![t] = "end"] /\ status' = [status EXCEPT ![r] = "error"]
            /\ UNCHANGED <<proc, project, byProject, at, server, todo>>
        BY <3>1, <2>1
      <4>2. QED
        BY <4>1
    <3>2. CASE proc[at[t]] # "up"
      BY <3>2, <2>1
    <3>3. QED
      BY <3>1, <3>2
  <2>3. (\A u \in PageRequests : rpc[u] = "idle" <=> at[u] = Nobody)'
    OBVIOUS
  <2>4. status'[r] = "error" /\ server = "up"
    BY <2>1
  <2>5. \A q \in Instances : status[q] # "no" => status'[q] # "no"
    BY <2>1
  <2>6. \A u \in PageRequests : at'[u] = at[u] \/ at[u] = r
    BY <2>1
  <2>7. P!NothingIsLeftBehind'
    BY <2>4, <2>5, <2>6
  <2>8. QED
    BY <2>2, <2>3, <2>4, <2>7
<1>6. ASSUME NEW t \in PageRequests, P!StartFailed(t) PROVE ProjectInv'
  <2>1. ProjectTypes'
    BY <1>6 DEF P!StartFailed, ProjectTypes
  <2>2. QED
    BY <1>6, <2>1 DEF P!StartFailed, ProjectTypes
<1>7. ASSUME NEW t \in PageRequests, NEW r \in Instances, P!Stop(t, r) PROVE ProjectInv'
  <2> USE <1>7 DEF P!Stop, P!Forget, ProjectTypes
  <2>1. CASE proc[r] = "up"
    <3>1. /\ rpc' = [rpc EXCEPT ![t] = "stop"] /\ at' = [at EXCEPT ![t] = r]
          /\ UNCHANGED <<proc, project, status, byProject, server, todo>>
          /\ server = "up" /\ at[t] = Nobody
      BY <2>1
    <3>2. ProjectTypes'
      BY <3>1
    <3>3. (\A u \in PageRequests : rpc[u] = "idle" <=> at[u] = Nobody)'
      BY <3>1
    <3>4. \A u \in PageRequests : at[u] # Nobody => at'[u] = at[u]
      BY <3>1
    <3>5. P!NothingIsLeftBehind'
      BY <3>1, <3>4
    <3>6. QED
      BY <3>1, <3>2, <3>3, <3>5
  <2>2. CASE proc[r] # "up"
    <3>1. /\ status' = [status EXCEPT ![r] = "no"]
          /\ UNCHANGED <<proc, project, rpc, at, server, todo>> /\ server = "up"
      BY <2>2
    <3>2. byProject' = [byProject EXCEPT ![project[r]] = Nobody]
      BY <2>2
    <3>3. ProjectTypes'
      <4>1. byProject' \in [Projects -> Instances \cup {Nobody}]
        BY <3>2
      <4>2. status' \in [Instances -> {"no", "running", "error"}]
        BY <3>1
      <4>3. QED
        BY <3>1, <4>1, <4>2
    <3>4. P!NothingIsLeftBehind'
      BY <2>2, <3>1
    <3>5. QED
      BY <3>1, <3>3, <3>4
  <2>3. QED
    BY <2>1, <2>2
<1>8. ASSUME NEW t \in PageRequests, P!Stopped(t) PROVE ProjectInv'
  <2>1. ProjectTypes'
    BY <1>8 DEF P!Stopped, P!Forget, ProjectTypes
  <2>2. QED
    BY <1>8, <2>1 DEF P!Stopped, P!Forget, ProjectTypes
<1>9. ASSUME NEW r \in Instances, P!Dies(r) \/ P!ChangesUser(r) PROVE ProjectInv'
  <2>1. ProjectTypes'
    <3>1. CASE P!Dies(r)
      BY <3>1 DEF P!Dies, ProjectTypes
    <3>2. CASE P!ChangesUser(r)
      BY <3>2 DEF P!ChangesUser, ProjectTypes
    <3>3. QED
      BY <1>9, <3>1, <3>2
  <2>2. \A q \in Instances : proc'[q] = "up" => proc[q] = "up"
    <3>1. \A q \in Instances : q # r => proc'[q] = proc[q]
      BY <1>9 DEF P!Dies, P!ChangesUser, ProjectTypes
    <3>2. proc'[r] # "up"
      BY <1>9 DEF P!Dies, P!ChangesUser, ProjectTypes
    <3>3. QED
      BY <3>1, <3>2
  <2>3. \A q \in Instances : project'[q] = Nobody => proc'[q] = "none"
    <3>1. project' = project /\ project[r] # Nobody
      BY <1>9 DEF P!Dies, P!ChangesUser
    <3>2. \A q \in Instances : q # r => proc'[q] = proc[q]
      BY <1>9 DEF P!Dies, P!ChangesUser, ProjectTypes
    <3>3. QED
      BY <3>1, <3>2
  <2>4. QED
    BY <1>9, <2>1, <2>2, <2>3 DEF P!Dies, P!ChangesUser
<1>10. ASSUME NEW r \in Instances, P!StopNext(r) PROVE ProjectInv'
  <2>1. ProjectTypes'
    BY <1>10 DEF P!StopNext, P!Forget, ProjectTypes
  <2>2. QED
    BY <1>10, <2>1 DEF P!StopNext, P!Forget, ProjectTypes
<1>11. CASE P!Shutdown
  <2>1. ProjectTypes'
    BY <1>11 DEF P!Shutdown, P!ToStop, ProjectTypes
  <2>2. QED
    BY <1>11, <2>1 DEF P!Shutdown, P!ToStop, ProjectTypes
<1>12. CASE P!Down \/ UNCHANGED projectVars
  <2>1. ProjectTypes'
    BY <1>12 DEF P!Down, projectVars, ProjectTypes
  <2>2. QED
    BY <1>12, <2>1 DEF P!Down, projectVars, ProjectTypes
<1>13. ASSUME NEW t \in PageRequests, P!StopRequest(t)
       PROVE  \E r \in Instances : P!Stop(t, r)
  BY <1>13 DEF P!StopRequest, ProjectTypes
<1>14. QED
  BY <1>1, <1>2, <1>3, <1>4, <1>5, <1>6, <1>7, <1>8, <1>9, <1>10, <1>11, <1>12, <1>13
  DEF P!Next, P!RunRequest

-------------------------------------------------------------------------------
(* The terminal.                                                              *)

\* Blocks reach the page in the order in which they were printed: sent, then the one in
\* the writer's hand, then the queue, then what was not yet read, as long as there is a
\* writer; without one, nothing more is sent.
Shown == IF hand = 0 THEN Len(sent) ELSE Len(sent) + 1
InLine ==
    /\ hand # 0 => hand = Len(sent) + 1
    /\ \A i \in DOMAIN queue : queue[i] = Shown + i
    /\ \A i \in DOMAIN buffer : buffer[i] = Shown + Len(queue) + i
    /\ made = Shown + Len(queue) + Len(buffer)

TerminalTypes ==
    /\ made \in Nat /\ hand \in Nat
    /\ buffer \in Seq(Nat) /\ queue \in Seq(Nat) /\ sent \in Seq(Nat)
    /\ writer \in {"idle", "lock", "send", "over"}
    /\ lock \in {"free", "writer", "main"}
    /\ main \in {"loop", "lock", "pong", "end", "kill", "over"}

TerminalInv ==
    /\ TerminalTypes
    /\ writer \in {"lock", "send"} <=> hand # 0
    /\ writer # "over" => InLine
    /\ main \in {"end", "kill", "over"} => writer = "over"
    /\ T!OutputInOrder /\ T!ShellEndsWithItsPage

LEMMA AppendAt ==
  \A s \in Seq(Nat), x \in Nat :
      /\ Append(s, x) \in Seq(Nat) /\ Len(Append(s, x)) = Len(s) + 1 /\ Len(s) \in Nat
      /\ \A i \in DOMAIN Append(s, x) :
           \/ i \in DOMAIN s /\ Append(s, x)[i] = s[i]
           \/ i = Len(s) + 1 /\ Append(s, x)[i] = x
OBVIOUS

LEMMA TailAt ==
  \A s \in Seq(Nat) : s # << >> =>
      /\ Tail(s) \in Seq(Nat) /\ Len(s) = Len(Tail(s)) + 1 /\ Len(Tail(s)) \in Nat
      /\ 1 \in DOMAIN s /\ Head(s) = s[1] /\ s[1] \in Nat
      /\ \A i \in DOMAIN Tail(s) : i \in Nat /\ i + 1 \in DOMAIN s /\ Tail(s)[i] = s[i + 1]
OBVIOUS

\* Printing, reading and taking a block keep the line; a block that is sent comes next.
LEMMA PrintsInLine ==
  ASSUME TerminalTypes, InLine, made' = made + 1, buffer' = Append(buffer, made'),
         UNCHANGED <<queue, sent, hand>>
  PROVE  InLine'
<1>1. Shown \in Nat /\ Shown' = Shown
  BY DEF Shown, TerminalTypes
<1>2. made + 1 \in Nat /\ buffer \in Seq(Nat) /\ Len(queue) \in Nat
  BY DEF TerminalTypes
<1>3. /\ Len(buffer') = Len(buffer) + 1 /\ Len(buffer) \in Nat
      /\ \A i \in DOMAIN buffer' :
           \/ i \in DOMAIN buffer /\ buffer'[i] = buffer[i]
           \/ i = Len(buffer) + 1 /\ buffer'[i] = made + 1
  BY <1>2, AppendAt
<1>4. QED
  BY <1>1, <1>2, <1>3 DEF InLine

LEMMA ReadableInLine ==
  ASSUME TerminalTypes, InLine, buffer # << >>,
         queue' = Append(queue, Head(buffer)), buffer' = Tail(buffer),
         UNCHANGED <<made, sent, hand>>
  PROVE  InLine'
<1>1. Shown \in Nat /\ Shown' = Shown
  BY DEF Shown, TerminalTypes
<1>2. buffer \in Seq(Nat) /\ queue \in Seq(Nat)
  BY DEF TerminalTypes
<1>3. /\ Len(buffer) = Len(buffer') + 1 /\ Len(buffer') \in Nat
      /\ 1 \in DOMAIN buffer /\ Head(buffer) = buffer[1] /\ buffer[1] \in Nat
      /\ \A i \in DOMAIN buffer' :
           i \in Nat /\ i + 1 \in DOMAIN buffer /\ buffer'[i] = buffer[i + 1]
  BY <1>2, TailAt
<1>4. /\ Len(queue') = Len(queue) + 1 /\ Len(queue) \in Nat
      /\ \A i \in DOMAIN queue' :
           \/ i \in DOMAIN queue /\ queue'[i] = queue[i]
           \/ i = Len(queue) + 1 /\ queue'[i] = buffer[1]
  BY <1>2, <1>3, AppendAt
<1>5. buffer[1] = Shown + (Len(queue) + 1)
  BY <1>1, <1>3, <1>4 DEF InLine
<1>6. \A i \in DOMAIN queue' : queue'[i] = Shown + i
  BY <1>4, <1>5 DEF InLine
<1>7. \A i \in DOMAIN buffer' : buffer'[i] = Shown + Len(queue') + i
  BY <1>1, <1>3, <1>4 DEF InLine
<1>8. made' = Shown + Len(queue') + Len(buffer')
  BY <1>1, <1>3, <1>4 DEF InLine
<1>9. QED
  BY <1>1, <1>6, <1>7, <1>8 DEF InLine

LEMMA TakeInLine ==
  ASSUME TerminalTypes, InLine, hand = 0, queue # << >>,
         hand' = Head(queue), queue' = Tail(queue), UNCHANGED <<made, sent, buffer>>
  PROVE  InLine' /\ hand' = Len(sent) + 1
<1>1. Len(sent) \in Nat /\ queue \in Seq(Nat) /\ Len(buffer) \in Nat /\ DOMAIN buffer \subseteq Nat
  BY DEF TerminalTypes
<1>2. Shown = Len(sent)
  BY DEF Shown
<1>3. /\ Len(queue) = Len(queue') + 1 /\ Len(queue') \in Nat
      /\ 1 \in DOMAIN queue /\ Head(queue) = queue[1]
      /\ \A i \in DOMAIN queue' : i \in Nat /\ i + 1 \in DOMAIN queue /\ queue'[i] = queue[i + 1]
  BY <1>1, TailAt
<1>4. hand' = Len(sent) + 1
  BY <1>2, <1>3 DEF InLine
<1>5. Shown' = Len(sent) + 1
  BY <1>1, <1>4 DEF Shown
<1>6. QED
  BY <1>1, <1>2, <1>3, <1>4, <1>5 DEF InLine

LEMMA SendsInOrder ==
  ASSUME TerminalTypes, InLine, hand # 0, T!OutputInOrder, sent' = Append(sent, hand)
  PROVE  /\ sent' \in Seq(Nat) /\ Len(sent') = Len(sent) + 1 /\ hand = Len(sent) + 1
         /\ \A i \in DOMAIN sent' : sent'[i] = i
<1>1. sent \in Seq(Nat) /\ hand \in Nat
  BY DEF TerminalTypes
<1>2. /\ sent' \in Seq(Nat) /\ Len(sent') = Len(sent) + 1
      /\ \A i \in DOMAIN sent' :
           \/ i \in DOMAIN sent /\ sent'[i] = sent[i]
           \/ i = Len(sent) + 1 /\ sent'[i] = hand
  BY <1>1, AppendAt
<1>3. hand = Len(sent) + 1
  BY DEF InLine
<1>4. QED
  BY <1>2, <1>3 DEF T!OutputInOrder

LEMMA TerminalNext == TerminalInv /\ [T!Next]_terminalVars => TerminalInv'
<1> SUFFICES ASSUME TerminalInv, [T!Next]_terminalVars PROVE TerminalInv'
  OBVIOUS
<1> USE DEF TerminalInv, T!printed
<1>0. TerminalTypes /\ T!OutputInOrder /\ T!ShellEndsWithItsPage
  OBVIOUS
<1>1. CASE T!Prints
  <2>1. /\ made' = made + 1 /\ buffer' = Append(buffer, made')
        /\ UNCHANGED <<shell, queue, writer, hand, lock, main, sent>>
    BY <1>1 DEF T!Prints
  <2>2. TerminalTypes'
    BY <2>1 DEF TerminalTypes
  <2>3. writer # "over" => InLine'
    BY <2>1, PrintsInLine
  <2>4. QED
    BY <2>1, <2>2, <2>3 DEF T!OutputInOrder, T!ShellEndsWithItsPage
<1>2. CASE T!Dies \/ T!WatchEnds \/ T!WriterLocks \/ T!WriterEnds \/ T!Ping \/ T!MainLocks
           \/ T!PageGoes \/ T!GraceEnds \/ T!Killed
  <2> USE <1>2 DEF T!Dies, T!WatchEnds, T!WriterLocks, T!WriterEnds, T!Ping, T!MainLocks,
                   T!PageGoes, T!GraceEnds, T!Killed, T!AfterGrace
  <2>1. UNCHANGED <<hand, queue, buffer, made, sent>>
    OBVIOUS
  <2>2. TerminalTypes'
    BY <2>1 DEF TerminalTypes
  <2>3. InLine => InLine'
    BY <2>1 DEF InLine, Shown
  <2>4. QED
    BY <2>1, <2>2, <2>3 DEF T!OutputInOrder, T!ShellEndsWithItsPage
<1>3. CASE T!Readable
  <2>1. UNCHANGED <<shell, made, writer, hand, lock, main, sent>>
    BY <1>3 DEF T!Readable
  <2>2. CASE UNCHANGED <<queue, buffer>>
    BY <2>1, <2>2 DEF InLine, Shown, TerminalTypes, T!OutputInOrder, T!ShellEndsWithItsPage
  <2>3. CASE buffer # << >> /\ queue' = Append(queue, Head(buffer)) /\ buffer' = Tail(buffer)
    <3>1. TerminalTypes'
      BY <2>1, <2>3 DEF TerminalTypes
    <3>2. writer # "over" => InLine'
      BY <2>1, <2>3, ReadableInLine
    <3>3. QED
      BY <2>1, <3>1, <3>2 DEF T!OutputInOrder, T!ShellEndsWithItsPage
  <2>4. QED
    BY <1>3, <2>2, <2>3 DEF T!Readable
<1>4. CASE T!Take
  <2>1. /\ writer = "idle" /\ writer' = "lock" /\ hand = 0 /\ queue # << >>
        /\ hand' = Head(queue) /\ queue' = Tail(queue)
        /\ UNCHANGED <<shell, made, buffer, lock, main, sent>>
    BY <1>4 DEF T!Take, T!NextBlock
  <2>2. InLine' /\ hand' = Len(sent) + 1
    BY <2>1, TakeInLine
  <2>3. hand' \in Nat /\ hand' # 0
    BY <2>2 DEF TerminalTypes
  <2>4. TerminalTypes'
    BY <2>1, <2>3 DEF TerminalTypes
  <2>5. QED
    BY <2>1, <2>2, <2>3, <2>4 DEF T!OutputInOrder, T!ShellEndsWithItsPage
<1>5. CASE T!Sends
  <2>1. /\ writer = "send" /\ lock' = "free" /\ hand' = 0 /\ hand # 0
        /\ UNCHANGED <<shell, made, buffer, queue, main>>
    BY <1>5 DEF T!Sends
  <2>2. CASE sent' = Append(sent, hand) /\ writer' = "idle"
    <3>1. /\ sent' \in Seq(Nat) /\ Len(sent') = Len(sent) + 1 /\ hand = Len(sent) + 1
          /\ \A i \in DOMAIN sent' : sent'[i] = i
      BY <2>1, <2>2, SendsInOrder
    <3>2. TerminalTypes'
      BY <2>1, <2>2, <3>1 DEF TerminalTypes
    <3>3. Shown' = Shown
      BY <2>1, <3>1 DEF Shown
    <3>4. InLine'
      BY <2>1, <3>3 DEF InLine
    <3>5. QED
      BY <2>1, <2>2, <3>1, <3>2, <3>4 DEF T!OutputInOrder, T!ShellEndsWithItsPage
  <2>3. CASE writer' = "over" /\ UNCHANGED sent
    <3>1. TerminalTypes'
      BY <2>1, <2>3 DEF TerminalTypes
    <3>2. QED
      BY <2>1, <2>3, <3>1 DEF T!OutputInOrder, T!ShellEndsWithItsPage
  <2>4. QED
    BY <1>5, <2>2, <2>3 DEF T!Sends
<1>6. CASE T!Pong \/ T!LoopEnds
  <2>1. CASE T!Leaves
    <3>1. /\ writer' = "over" /\ hand' = 0 /\ lock' = "free"
          /\ UNCHANGED <<shell, made, buffer, queue>>
          /\ main' = IF shell = "dead" THEN "over" ELSE "end"
      BY <2>1 DEF T!Leaves
    <3>2. sent' \in Seq(Nat) /\ \A i \in DOMAIN sent' : sent'[i] = i
      <4>1. CASE UNCHANGED sent
        BY <4>1 DEF TerminalTypes, T!OutputInOrder
      <4>2. CASE writer = "send" /\ sent' = Append(sent, hand)
        BY <4>2, SendsInOrder
      <4>3. QED
        BY <2>1, <4>1, <4>2 DEF T!Leaves
    <3>3. TerminalTypes'
      BY <3>1, <3>2 DEF TerminalTypes
    <3>4. QED
      BY <3>1, <3>2, <3>3 DEF T!OutputInOrder, T!ShellEndsWithItsPage
  <2>2. CASE main = "pong" /\ main' = "loop" /\ lock' = "free"
             /\ UNCHANGED <<shell, made, buffer, queue, writer, hand, sent>>
    BY <2>2 DEF InLine, Shown, TerminalTypes, T!OutputInOrder, T!ShellEndsWithItsPage
  <2>3. QED
    BY <1>6, <2>1, <2>2 DEF T!Pong, T!LoopEnds
<1>7. CASE UNCHANGED terminalVars
  BY <1>7 DEF terminalVars, InLine, Shown, TerminalTypes, T!OutputInOrder, T!ShellEndsWithItsPage
<1>8. QED
  BY <1>1, <1>2, <1>3, <1>4, <1>5, <1>6, <1>7 DEF T!Next

-------------------------------------------------------------------------------
(* The parts side by side.                                                    *)

\* Whatever part moves, each makes a step of its own or none.
LEMMA PartsApart ==
  [AllNext]_allVars =>
      /\ [S!Next]_agentVars /\ [C!Next]_commandVars
      /\ [P!Next]_projectVars /\ [T!Next]_terminalVars /\ [M!Next]_modelVars
      /\ [X!Next]_mcpVars /\ [W!Next]_windowVars
BY DEF AllNext, NextApproval, NextWithin, NextBeside, allVars, withinVars, besideVars

StartedInv == AgentInv /\ CommandInv /\ ProjectInv /\ TerminalInv

LEMMA StartedInit == AllInit => StartedInv
<1> SUFFICES ASSUME AllInit PROVE StartedInv
  OBVIOUS
<1>1. AgentInv
  BY DEF AllInit, S!Init, AgentInv, S!ReturnsWithItsChild
<1>2. CommandInv
  BY DEF AllInit, C!Init, CommandInv
<1>3. ProjectInv
  BY ProjectsAssumption DEF AllInit, P!Init, ProjectInv, ProjectTypes, ProjectsAssumption,
     P!NothingIsLeftBehind, P!Runs, Instances
<1>4. TerminalInv
  BY DEF AllInit, T!Init, TerminalInv, TerminalTypes, InLine, Shown, T!OutputInOrder,
     T!ShellEndsWithItsPage
<1>5. QED
  BY <1>1, <1>2, <1>3, <1>4 DEF StartedInv

\* What a run or a page started is over when the call that started it has returned, or
\* still known to somebody, and gone with the server; and the page's shell is told in
\* order: subagent.py, shell.py, web/runner.py and web/pty_terminal.py, for any number of
\* children, requests, projects and instances.  Left out are calls that were cancelled
\* (a child left so was told nothing), processes that take no signal, and what a command
\* left in the background of a shell that was over before the deadline.
THEOREM NothingStaysBehind == AllSpec => []NothingIsLeftBehind
<1>1. StartedInv /\ [AllNext]_allVars => StartedInv'
  BY PartsApart, AgentsNext, CommandNext, ProjectsNext, TerminalNext DEF StartedInv
<1>2. StartedInv => NothingIsLeftBehind
  BY DEF StartedInv, AgentInv, CommandInv, ProjectInv, TerminalInv, NothingIsLeftBehind,
     C!CommandIsOver
<1>3. QED
  BY StartedInit, <1>1, <1>2, PTL DEF AllSpec

-------------------------------------------------------------------------------
(* Model calls.                                                               *)

FromOne(s) == \E r \in Nat : s \subseteq {r}
Told(a) == a # None => FromOne(a.from) /\ (a.write /\ a.cut => a.args = "error")

\* Before a stream nothing of a call has been shown; then all there is comes from its
\* request; and what was shown stays when the call is over.
CallInv ==
    /\ mpc \in [Callers -> {"idle", "sent", "stream", "route", "done", "failed"}]
    /\ request \in [Callers -> Nat]
    /\ DOMAIN shown = Callers /\ DOMAIN pieces = Callers /\ DOMAIN reply = Callers
    /\ \A c \in Callers :
         /\ FromOne(shown[c])
         /\ mpc[c] \in {"idle", "sent", "route"} => shown[c] = {}
         /\ mpc[c] \in {"sent", "stream"} =>
              shown[c] \subseteq {request[c]} /\ pieces[c].from \subseteq {request[c]}
         /\ Told(reply[c])

LEMMA OfOne == \A s : FromOne(s) => M!Cardinality(s) <= 1
<1>1. \A s : M!Cardinality(s) = Cardinality(s)
  BY DEF M!Cardinality, Cardinality
<1>2. SUFFICES ASSUME NEW s, FromOne(s) PROVE Cardinality(s) <= 1
  BY <1>1
<1>3. PICK r : s = {} \/ s = {r}
  BY <1>2, Zenon DEF FromOne
<1>4. QED
  BY <1>3, FS_EmptySet, FS_Singleton

\* Another request: nothing has been shown, and the pieces of the last one are gone.
LEMMA SendKeeps ==
  ASSUME CallInv, NEW c \in Callers, shown[c] = {}, NEW m, NEW n, M!Send(c, m, n),
         UNCHANGED <<shown, reply>>
  PROVE  CallInv'
BY DEF CallInv, M!Send, M!NoPieces, Told, FromOne

LEMMA OverKeeps ==
  ASSUME CallInv, NEW c \in Callers, M!Over(c, "failed"), UNCHANGED <<shown, reply>>
  PROVE  CallInv'
BY DEF CallInv, M!Over, Told, FromOne

LEMMA CallsNext == CallInv /\ [M!Next]_modelVars => CallInv'
<1> SUFFICES ASSUME CallInv, [M!Next]_modelVars PROVE CallInv'
  OBVIOUS
<1>1. ASSUME NEW c \in Callers, M!Begin(c) PROVE CallInv'
  <2>1. shown[c] = {}
    BY <1>1 DEF M!Begin, CallInv
  <2>2. QED
    BY <1>1, <2>1, SendKeeps DEF M!Begin
<1>2. ASSUME NEW c \in Callers, M!Transient(c) PROVE CallInv'
  <2>1. CASE M!MayRetry(c)
    BY <1>2, <2>1, SendKeeps DEF M!Transient, M!MayRetry
  <2>2. CASE ~M!MayRetry(c)
    BY <1>2, <2>2, OverKeeps DEF M!Transient, M!Fail
  <2>3. QED
    BY <2>1, <2>2
<1>3. ASSUME NEW c \in Callers, M!Refused(c) \/ M!NoRoute(c) PROVE CallInv'
  BY <1>3, OverKeeps DEF M!Refused, M!NoRoute, M!Fail
<1>4. ASSUME NEW c \in Callers, M!Unknown(c) PROVE CallInv'
  <2>1. CASE M!Fail(c)
    BY <2>1, OverKeeps DEF M!Fail
  <2>2. CASE /\ shown[c] = {} /\ mpc' = [mpc EXCEPT ![c] = "route"]
             /\ UNCHANGED <<request, shown, pieces, reply>>
    BY <2>2 DEF CallInv, Told, FromOne
  <2>3. QED
    BY <1>4, <2>1, <2>2 DEF M!Unknown
<1>5. ASSUME NEW c \in Callers, M!Route(c) PROVE CallInv'
  <2>1. shown[c] = {}
    BY <1>5 DEF M!Route, CallInv
  <2>2. QED
    BY <1>5, <2>1, SendKeeps DEF M!Route
<1>6. ASSUME NEW c \in Callers, M!Answered(c) PROVE CallInv'
  BY <1>6 DEF M!Answered, CallInv, Told, FromOne
<1>7. ASSUME NEW c \in Callers, M!Chunk(c) PROVE CallInv'
  BY <1>7 DEF M!Chunk, CallInv, Told, FromOne
<1>8. ASSUME NEW c \in Callers, M!Piece(c) PROVE CallInv'
  BY <1>8 DEF M!Piece, CallInv, Told, FromOne
<1>9. ASSUME NEW c \in Callers, M!StreamEnds(c) PROVE CallInv'
  <2>1. PICK a \in IF pieces[c].n = 0 THEN {"none"} ELSE M!Parsed(pieces[c]) :
           reply' = [reply EXCEPT ![c] = M!Assistant(c, a)]
    BY <1>9 DEF M!StreamEnds
  <2>2. Told(M!Assistant(c, a))
    <3>1. shown[c] \cup pieces[c].from \subseteq {request[c]} /\ request[c] \in Nat
      BY <1>9 DEF M!StreamEnds, CallInv
    <3>2. pieces[c].n = 1 /\ pieces[c].write => a = "error"
      BY <2>1 DEF M!Parsed
    <3>3. QED
      BY <3>1, <3>2 DEF M!Assistant, Told, FromOne
  <2>3. QED
    BY <1>9, <2>1, <2>2 DEF M!StreamEnds, M!Over, CallInv, FromOne
<1>10. CASE UNCHANGED modelVars
  BY <1>10 DEF modelVars, CallInv, Told, FromOne
<1>11. QED
  BY <1>1, <1>2, <1>3, <1>4, <1>5, <1>6, <1>7, <1>8, <1>9, <1>10 DEF M!Next

\* Whatever attempts, routes and cut streams a call goes through, what it shows and returns
\* comes from one request, and the arguments of a write_file that were cut off never reach
\* the tool (openai.py, anthropic.py; safe_parse_tool_input).
THEOREM OneReplyPerCall == AllSpec => []OneReply
<1>1. AllInit => CallInv
  <2> SUFFICES ASSUME M!Init PROVE CallInv
    BY DEF AllInit
  <2>1. \A r \in Nat : {} \subseteq {r}
    OBVIOUS
  <2>2. QED
    BY <2>1 DEF M!Init, CallInv, Told, FromOne, M!NoPieces
<1>2. CallInv /\ [AllNext]_allVars => CallInv'
  BY PartsApart, CallsNext
<1>3. CallInv => OneReply
  BY OfOne DEF CallInv, Told, OneReply, M!OneReply
<1>4. QED
  BY <1>1, <1>2, <1>3, PTL DEF AllSpec

-------------------------------------------------------------------------------
(* MCP servers.                                                               *)

\* An entry is of a server that had its turn; and an open session is in the result, but
\* for that of the server whose turn it is.
Entered(n) ==
    registry[n] # X!NoTool =>
        /\ registry[n].session \in Servers /\ registry[n].session < cur
        /\ registry[n].policy = registry[n].session
        /\ registry[n].remote \in admits[registry[n].session]
        /\ phase \in {"setup", "runs"} => session[registry[n].session] = "open"
McpInv ==
    /\ phase \in {"setup", "runs", "closing", "over"} /\ cur \in Nat
    /\ session \in [Servers -> {"no", "open", "closed"}]
    /\ kept \in Seq(Servers) /\ DOMAIN admits = Servers
    /\ \A n \in X!Names : Entered(n)
    /\ ~broken => \A s \in Servers : session[s] = "open" =>
         (\E i \in DOMAIN kept : kept[i] = s) \/ (phase = "setup" /\ s = cur)
    /\ phase = "over" => kept = << >>

LEMMA KeptAppend ==
  ASSUME NEW s \in Servers, kept \in Seq(Servers)
  PROVE  /\ Append(kept, s) \in Seq(Servers)
         /\ \A i \in DOMAIN kept : i \in DOMAIN Append(kept, s) /\ Append(kept, s)[i] = kept[i]
         /\ \E i \in DOMAIN Append(kept, s) : Append(kept, s)[i] = s
<1>1. /\ Len(kept) + 1 \in DOMAIN Append(kept, s)
      /\ Append(kept, s)[Len(kept) + 1] = s
  OBVIOUS
<1>2. QED
  BY <1>1

LEMMA KeptTail ==
  ASSUME kept \in Seq(Servers), kept # << >>
  PROVE  /\ Tail(kept) \in Seq(Servers) /\ Head(kept) \in Servers
         /\ \A i \in DOMAIN kept : \/ kept[i] = Head(kept)
                                   \/ \E j \in DOMAIN Tail(kept) : Tail(kept)[j] = kept[i]
<1>1. ASSUME NEW i \in DOMAIN kept, i # 1
      PROVE  i - 1 \in DOMAIN Tail(kept) /\ Tail(kept)[i - 1] = kept[i]
  BY <1>1
<1>2. Tail(kept) \in Seq(Servers) /\ Head(kept) \in Servers /\ Head(kept) = kept[1]
  OBVIOUS
<1>3. ASSUME NEW i \in DOMAIN kept
      PROVE  kept[i] = Head(kept) \/ \E j \in DOMAIN Tail(kept) : Tail(kept)[j] = kept[i]
  <2>1. CASE i = 1
    BY <2>1, <1>2
  <2>2. CASE i # 1
    BY <2>2, <1>1
  <2>3. QED
    BY <2>1, <2>2
<1>4. QED
  BY <1>2, <1>3

LEMMA McpNext == McpInv /\ [X!Next]_mcpVars => McpInv'
<1> SUFFICES ASSUME McpInv, [X!Next]_mcpVars PROVE McpInv'
  OBVIOUS
<1> USE ServersAssumption DEF ServersAssumption, X!Turn
<1>0. \A n \in X!Names : registry[n] # X!NoTool =>
        registry[n].session \in Servers /\ registry[n].session < cur + 1
  <2>1. \A s \in Servers : s < cur => s < cur + 1
    BY DEF McpInv
  <2>2. QED
    BY <2>1 DEF McpInv, Entered
<1>1. ASSUME NEW s \in Servers, X!Skip(s) PROVE McpInv'
  <2>1. \A n \in X!Names : Entered(n)'
    BY <1>0, <1>1 DEF X!Skip, McpInv, Entered, X!Names
  <2>2. QED
    BY <1>1, <2>1 DEF X!Skip, McpInv, X!Names
<1>2. ASSUME NEW s \in Servers, X!Connect(s) PROVE McpInv'
  BY <1>2 DEF X!Connect, McpInv, Entered, X!Names
<1>3. ASSUME NEW s \in Servers, X!ListFails(s) PROVE McpInv'
  BY <1>0, <1>3 DEF X!ListFails, McpInv, Entered, X!Names
<1>4. ASSUME NEW s \in Servers, X!List(s) PROVE McpInv'
  <2>1. PICK rules \in SUBSET Remote : \E listing \in SUBSET rules :
          \E last \in [{X!Name(s, t) : t \in listing} -> listing] :
             /\ admits' = [admits EXCEPT ![s] = rules]
             /\ registry' = [n \in X!Names |-> IF n \in DOMAIN last
                               THEN X!Entry(registry[n], s, last[n]) ELSE registry[n]]
    BY <1>4 DEF X!List
  <2>2. /\ admits' = [admits EXCEPT ![s] = rules]
        /\ \A n \in X!Names :
             registry'[n] = registry[n] \/ \E t \in rules : registry'[n] = X!Entry(registry[n], s, t)
    BY <2>1
  <2>3. /\ cur = s /\ cur' = s + 1 /\ kept' = Append(kept, s)
        /\ phase = "setup" /\ session[s] = "open"
        /\ UNCHANGED <<phase, session, broken>>
    BY <1>4 DEF X!List
  <2>4. \A n \in X!Names : Entered(n)'
    <3>1. ASSUME NEW n \in X!Names, registry'[n] = registry[n] PROVE Entered(n)'
      <4>1. registry[n] # X!NoTool => registry[n].session < cur' /\ registry[n].session # s
        BY <1>0, <2>3 DEF McpInv, Entered
      <4>2. QED
        BY <2>2, <2>3, <3>1, <4>1 DEF McpInv, Entered
    <3>2. ASSUME NEW n \in X!Names, NEW t \in rules, registry'[n] = X!Entry(registry[n], s, t)
          PROVE  Entered(n)'
      BY <1>0, <2>2, <2>3, <3>2 DEF McpInv, Entered, X!Entry
    <3>3. QED
      BY <2>2, <3>1, <3>2
  <2>5. QED
    BY <1>0, <2>2, <2>3, <2>4, KeptAppend DEF McpInv, X!Names
<1>5. CASE X!SetUp \/ X!CutShort \/ X!Ends \/ X!Over
  <2>1. CASE X!SetUp \/ X!Ends
    BY <2>1 DEF X!SetUp, X!Ends, McpInv, Entered, X!Names
  <2>2. CASE X!CutShort
    <3>1. kept' \in Seq(Servers) /\ broken' /\ phase' = "closing"
      BY <2>2 DEF X!CutShort
    <3>2. QED
      BY <2>2, <3>1 DEF X!CutShort, McpInv, Entered, X!Names
  <2>3. CASE X!Over
    BY <2>3 DEF X!Over, McpInv, Entered, X!Names
  <2>4. QED
    BY <1>5, <2>1, <2>2, <2>3
<1>6. CASE X!Reload
  BY <1>6 DEF X!Reload, McpInv, Entered, X!Names
<1>7. CASE X!Close
  BY <1>7, KeptTail DEF X!Close, McpInv, Entered, X!Names
<1>8. CASE UNCHANGED mcpVars
  BY <1>8 DEF mcpVars, McpInv, Entered, X!Names
<1>9. QED
  BY <1>1, <1>2, <1>3, <1>4, <1>5, <1>6, <1>7, <1>8 DEF X!Next

\* Whatever names fall together, for any servers and tools: a name calls one tool of one
\* server under that server's policy and rules, in a session that is open while the agent
\* runs; and the end closes every session, unless the setup was cut short (mcp.py,
\* discover_and_register and MCPSetupResult.aclose).
THEOREM NameCallsOneTool == AllSpec => []NameIsOneTool
<1>1. AllInit => McpInv
  BY ServersAssumption DEF AllInit, X!Init, McpInv, Entered, X!Names
<1>2. McpInv /\ [AllNext]_allVars => McpInv'
  BY PartsApart, McpNext
<1>3. McpInv => NameIsOneTool
  BY DEF McpInv, Entered, NameIsOneTool, X!NameIsOneTool
<1>4. QED
  BY <1>1, <1>2, <1>3, PTL DEF AllSpec

\* The gate and the ports of MCServices are those of ApprovalPorts: what is proved about
\* ApprovalPorts holds beside the other parts.
THEOREM PortsAreApart == AllSpec => Spec
<1>1. AllInit => Init
  BY DEF AllInit
<1>2. [AllNext]_allVars => [Next]_vars
  BY DEF AllNext, NextApproval, NextWithin, NextBeside, allVars
<1>3. QED
  BY <1>1, <1>2, PTL DEF AllSpec, Spec

-------------------------------------------------------------------------------
(* The window: what a list of messages holds.                                 *)

Messages ==
    [role : {"user", "assistant", "tool", "system"}, id : Nat, group : Nat, calls : Nat,
     size : {1, Large}, code : ExitCodes \cup {NoCode}, covers : SUBSET Nat]
Lists == Seq(Messages)

\* What of a message makes up the groups, and what it stands for.
SameGroups(m, n) ==
    m.role = n.role /\ m.id = n.id /\ m.group = n.group /\ m.calls = n.calls /\ m.covers = n.covers

LEMMA MessageIsTyped ==
  ASSUME NEW role \in {"user", "assistant", "tool", "system"}, NEW id \in Nat, NEW g \in Nat,
         NEW calls \in Nat, NEW size \in {1, Large}
  PROVE  LET m == W!Message(role, id, g, calls, size) IN
           /\ m \in Messages
           /\ m.role = role /\ m.id = id /\ m.group = g /\ m.calls = calls /\ m.covers = {}
BY DEF W!Message, Messages

LEMMA MessageFields ==
  \A m \in Messages : m.role \in {"user", "assistant", "tool", "system"} /\ m.id \in Nat
                      /\ m.group \in Nat /\ m.calls \in Nat /\ m.covers \in SUBSET Nat
BY DEF Messages

LEMMA ListIsTyped ==
  ASSUME NEW m \in Lists
  PROVE  Len(m) \in Nat /\ DOMAIN m = 1..Len(m) /\ \A i \in 1..Len(m) : m[i] \in Messages
BY DEF Lists

\* A number stands for a message of the list, or for one a summary in it covers.
StandsAt(x, m) == x = m.id \/ x \in m.covers
LEMMA IdsStand ==
  ASSUME NEW m, NEW x
  PROVE  x \in W!Ids(m) <=> \E i \in DOMAIN m : StandsAt(x, m[i])
BY DEF W!Ids, StandsAt

\* The first and the last of a list.
LEMMA SplitIsTyped ==
  ASSUME NEW m \in Lists, NEW d \in 0..Len(m)
  PROVE  /\ SubSeq(m, 1, d) \in Lists /\ SubSeq(m, d + 1, Len(m)) \in Lists
         /\ Len(SubSeq(m, 1, d)) = d /\ Len(SubSeq(m, d + 1, Len(m))) = Len(m) - d
         /\ \A i \in 1..d : SubSeq(m, 1, d)[i] = m[i]
         /\ \A i \in 1..(Len(m) - d) : SubSeq(m, d + 1, Len(m))[i] = m[d + i]
<1>1. Len(m) \in Nat /\ d \in Nat /\ d <= Len(m) /\ \A i \in 1..Len(m) : m[i] \in Messages
  BY ListIsTyped
<1>2. /\ SubSeq(m, 1, d) \in Seq(Messages) /\ Len(SubSeq(m, 1, d)) = (IF 1 <= d THEN d - 1 + 1 ELSE 0)
      /\ \A i \in 1..(d - 1 + 1) : SubSeq(m, 1, d)[i] = m[1 + i - 1]
  <2>1. \A i \in 1..d : m[i] \in Messages
    BY <1>1
  <2>2. QED
    BY <1>1, <2>1, SubSeqProperties
<1>3. /\ SubSeq(m, d + 1, Len(m)) \in Seq(Messages)
      /\ Len(SubSeq(m, d + 1, Len(m))) = (IF d + 1 <= Len(m) THEN Len(m) - (d + 1) + 1 ELSE 0)
      /\ \A i \in 1..(Len(m) - (d + 1) + 1) : SubSeq(m, d + 1, Len(m))[i] = m[d + 1 + i - 1]
  <2>1. \A i \in (d + 1)..Len(m) : m[i] \in Messages
    BY <1>1
  <2>2. d + 1 \in Int /\ Len(m) \in Int
    BY <1>1
  <2>3. QED
    BY <2>1, <2>2, SubSeqProperties
<1>4. QED
  BY <1>1, <1>2, <1>3 DEF Lists

LEMMA AppendIsTyped ==
  ASSUME NEW m \in Lists, NEW x \in Messages
  PROVE  /\ Append(m, x) \in Lists /\ Len(Append(m, x)) = Len(m) + 1
         /\ \A i \in 1..Len(m) : Append(m, x)[i] = m[i]
         /\ Append(m, x)[Len(m) + 1] = x
BY DEF Lists

LEMMA JoinIsTyped ==
  ASSUME NEW m \in Lists, NEW n \in Lists
  PROVE  /\ m \o n \in Lists /\ Len(m \o n) = Len(m) + Len(n)
         /\ \A i \in 1..Len(m) : (m \o n)[i] = m[i]
         /\ \A i \in 1..Len(n) : (m \o n)[Len(m) + i] = n[i]
<1>1. Len(m) \in Nat /\ Len(n) \in Nat
  BY ListIsTyped
<1>2. /\ m \o n \in Seq(Messages) /\ Len(m \o n) = Len(m) + Len(n)
      /\ \A i \in 1..(Len(m) + Len(n)) : (m \o n)[i] = IF i <= Len(m) THEN m[i] ELSE n[i - Len(m)]
  BY ConcatProperties DEF Lists
<1>3. ASSUME NEW i \in 1..Len(n) PROVE (m \o n)[Len(m) + i] = n[i]
  <2>1. Len(m) + i \in 1..(Len(m) + Len(n)) /\ ~(Len(m) + i <= Len(m)) /\ Len(m) + i - Len(m) = i
    BY <1>1
  <2>2. QED
    BY <1>2, <2>1
<1>4. QED
  BY <1>1, <1>2, <1>3 DEF Lists

-------------------------------------------------------------------------------
(* The window: where it is cut.                                               *)

LEMMA MinIsLeast ==
  ASSUME NEW s \in SUBSET Nat, s # {}
  PROVE  W!Min(s) \in s /\ \A x \in s : W!Min(s) <= x
BY LeastOne DEF W!Min

LEMMA MaxIsGreatest ==
  ASSUME NEW n \in Nat, NEW s \in SUBSET (0..n), s # {}
  PROVE  W!Max(s) \in s /\ \A x \in s : W!Max(s) >= x
BY GreatestOne DEF W!Max

\* A cut splits no group.
CutAt(m, d) == d \in 0..Len(m) /\ (d = 0 \/ d = Len(m) \/ ~W!InGroup(m, d + 1))
LEMMA DropIsACut == \A m \in Lists : CutAt(m, W!DropCount(m))
<1> SUFFICES ASSUME NEW m \in Lists PROVE CutAt(m, W!DropCount(m))
  OBVIOUS
<1>1. Len(m) \in Nat /\ MaxWindow \in Nat
  BY ListIsTyped, WindowAssumption DEF WindowAssumption
<1>2. CASE MaxWindow = 0 \/ Len(m) <= MaxWindow
  BY <1>1, <1>2 DEF W!DropCount, CutAt
<1>3. CASE ~(MaxWindow = 0 \/ Len(m) <= MaxWindow)
  <2> DEFINE bs == {b \in W!Boundaries(m) : b >= Len(m) - MaxWindow}
  <2>1. W!Boundaries(m) \subseteq 1..Len(m) /\ Len(m) \in bs
    BY <1>1, <1>3 DEF W!Boundaries
  <2>2. W!Min(bs) \in bs
    BY <2>1, MinIsLeast
  <2>3. W!DropCount(m) = W!Min(bs)
    BY <1>3 DEF W!DropCount
  <2>4. QED
    BY <1>1, <2>2, <2>3 DEF W!Boundaries, CutAt
<1>4. QED
  BY <1>2, <1>3

\* A summary stands between the first message of the user and the cut.
LEMMA SummaryCuts ==
  ASSUME NEW m \in Lists, W!CanSummarize(m)
  PROVE  /\ W!FirstUser(m) \in 1..Len(m) /\ m[W!FirstUser(m)].role = "user"
         /\ \A i \in 1..Len(m) : m[i].role = "user" => W!FirstUser(m) <= i
         /\ W!End(m) \in 1..Len(m) /\ W!FirstUser(m) < W!End(m) /\ W!End(m) < Len(m)
         /\ m[W!End(m) + 1].role # "tool"
<1>1. Len(m) \in Nat /\ Keep \in Nat /\ DOMAIN m = 1..Len(m)
  BY ListIsTyped, WindowAssumption DEF WindowAssumption
<1>2. W!Users(m) # {} /\ W!Users(m) \in SUBSET Nat /\ W!Users(m) \subseteq 1..Len(m)
  BY <1>1 DEF W!CanSummarize, W!Users
<1>3. W!FirstUser(m) \in W!Users(m) /\ \A i \in W!Users(m) : W!FirstUser(m) <= i
  BY <1>2, MinIsLeast DEF W!FirstUser
<1>4. W!Ends(m) \in SUBSET (0..Len(m)) /\ W!Ends(m) # {}
  <2>1. W!Ends(m) \subseteq W!Boundaries(m) /\ W!Ends(m) # {}
    BY DEF W!CanSummarize, W!Ends
  <2>2. W!Boundaries(m) \subseteq 1..Len(m)
    BY DEF W!Boundaries
  <2>3. QED
    BY <1>1, <2>1, <2>2
<1>5. W!Max(W!Ends(m)) \in W!Ends(m) /\ W!Max(W!Ends(m)) \in 0..Len(m)
  BY <1>1, <1>4, MaxIsGreatest
<1> DEFINE es == {e \in W!Max(W!Ends(m))..Len(m) : e = Len(m) \/ m[e + 1].role # "tool"}
<1>6. es \in SUBSET Nat /\ Len(m) \in es
  BY <1>1, <1>5
<1>7. W!Min(es) \in es /\ W!End(m) = W!Min(es)
  BY <1>6, MinIsLeast DEF W!End
<1>8. W!End(m) < Len(m) /\ W!Max(W!Ends(m)) > W!FirstUser(m)
  BY DEF W!CanSummarize
<1>9. W!FirstUser(m) \in 1..Len(m) /\ m[W!FirstUser(m)].role = "user"
      /\ \A i \in 1..Len(m) : m[i].role = "user" => W!FirstUser(m) <= i
  BY <1>1, <1>3 DEF W!Users
<1>10. W!End(m) \in W!Max(W!Ends(m))..Len(m) /\ W!Max(W!Ends(m)) \in Nat
       /\ (W!End(m) = Len(m) \/ m[W!End(m) + 1].role # "tool")
  <2>1. W!End(m) \in es
    BY <1>7
  <2>2. PICK e \in W!Max(W!Ends(m))..Len(m) :
          e = W!End(m) /\ (e = Len(m) \/ m[e + 1].role # "tool")
    BY <2>1
  <2>3. QED
    BY <1>1, <1>5, <2>2
<1>11. QED
  BY <1>1, <1>8, <1>9, <1>10

LEMMA FunctionIsList ==
  ASSUME NEW n \in Nat, NEW f \in [1..n -> Messages]
  PROVE  f \in Lists /\ Len(f) = n
<1>1. f \in Lists
  BY SeqDef DEF Lists
<1>2. Len(f) \in Nat /\ 1..Len(f) = 1..n
  BY <1>1, ListIsTyped
<1>3. QED
  BY <1>1, <1>2

LEMMA FoldIsTyped ==
  ASSUME NEW m \in Lists
  PROVE  /\ W!Fold(m) \in Lists /\ Len(W!Fold(m)) = Len(m)
         /\ \A i \in 1..Len(m) : SameGroups(W!Fold(m)[i], m[i])
<1>1. Len(m) \in Nat /\ DOMAIN m = 1..Len(m) /\ \A i \in 1..Len(m) : m[i] \in Messages
  BY ListIsTyped
<1>2. \A x \in Messages : LET y == [x EXCEPT !.size = 1, !.code = NoCode] IN
         y \in Messages /\ SameGroups(y, x)
  BY DEF Messages, SameGroups
<1>3. \A i \in 1..Len(m) :
         W!Fold(m)[i] = m[i] \/ W!Fold(m)[i] = [m[i] EXCEPT !.size = 1, !.code = NoCode]
  BY <1>1 DEF W!Fold
<1>4. \A i \in 1..Len(m) : W!Fold(m)[i] \in Messages /\ SameGroups(W!Fold(m)[i], m[i])
  <2>1. \A x : SameGroups(x, x)
    BY DEF SameGroups
  <2>2. QED
    BY <1>1, <1>2, <1>3, <2>1
<1>5. W!Fold(m) = [i \in 1..Len(m) |-> W!Fold(m)[i]]
  BY <1>1 DEF W!Fold
<1>6. W!Fold(m) \in [1..Len(m) -> Messages]
  BY <1>4, <1>5
<1>7. QED
  BY <1>1, <1>4, <1>6, FunctionIsList

LEMMA SummaryIsTyped ==
  ASSUME NEW m \in Lists, W!CanSummarize(m), next \in Nat
  PROVE  LET f == W!FirstUser(m)
             e == W!End(m)
             s == W!Summarized(m)
         IN  /\ s \in Lists /\ Len(s) = f + 1 + (Len(m) - e)
             /\ \A i \in 1..f : s[i] = m[i]
             /\ s[f + 1].role = "system" /\ s[f + 1].calls = 0 /\ s[f + 1].id = next
             /\ s[f + 1].covers = W!Ids(SubSeq(m, f + 1, e))
             /\ \A i \in 1..(Len(m) - e) : s[f + 1 + i] = m[e + i]
<1> DEFINE f == W!FirstUser(m)
           e == W!End(m)
           sum == [W!Message("system", next, 0, 0, 1) EXCEPT !.covers = W!Ids(SubSeq(m, f + 1, e))]
           head == SubSeq(m, 1, f)
           rest == SubSeq(m, e + 1, Len(m))
<1>1. /\ Len(m) \in Nat /\ f \in Nat /\ e \in Nat /\ 1 <= f /\ f < e /\ e < Len(m)
      /\ f \in 0..Len(m) /\ e \in 0..Len(m)
  BY SummaryCuts, ListIsTyped
<1>2. W!Ids(SubSeq(m, f + 1, e)) \in SUBSET Nat
  <2>1. /\ \A i \in DOMAIN SubSeq(m, f + 1, e) : SubSeq(m, f + 1, e)[i] \in Messages
    <3>1. \A i \in (f + 1)..e : m[i] \in Messages
      BY <1>1, ListIsTyped
    <3>2. SubSeq(m, f + 1, e) \in Lists
      BY <1>1, <3>1, SubSeqProperties DEF Lists
    <3>3. QED
      BY <3>2, ListIsTyped
  <2>2. QED
    BY <2>1, MessageFields, IdsStand DEF StandsAt
<1>3. /\ sum \in Messages /\ sum.role = "system" /\ sum.calls = 0 /\ sum.id = next
      /\ sum.covers = W!Ids(SubSeq(m, f + 1, e))
  BY <1>2 DEF Messages, W!Message
<1>4. W!Summarized(m) = head \o <<sum>> \o rest
  BY DEF W!Summarized, W!Kept
<1>5. /\ head \in Lists /\ Len(head) = f /\ \A i \in 1..f : head[i] = m[i]
  BY <1>1, SplitIsTyped
<1>6. rest \in Lists /\ Len(rest) = Len(m) - e /\ \A i \in 1..(Len(m) - e) : rest[i] = m[e + i]
  BY <1>1, SplitIsTyped
<1> HIDE DEF sum, head, rest, f, e
<1>7. <<sum>> \in Lists /\ Len(<<sum>>) = 1 /\ <<sum>>[1] = sum
  BY <1>3 DEF Lists
<1>8. /\ head \o <<sum>> \in Lists /\ Len(head \o <<sum>>) = f + 1
      /\ \A i \in 1..f : (head \o <<sum>>)[i] = m[i]
      /\ (head \o <<sum>>)[f + 1] = sum
  BY <1>1, <1>5, <1>7, JoinIsTyped
<1> DEFINE two == head \o <<sum>>
           all == two \o rest
<1>9. W!Summarized(m) = all
  BY <1>4
<1> HIDE DEF two
<1>10. two \in Lists /\ Len(two) = f + 1 /\ (\A i \in 1..f : two[i] = m[i]) /\ two[f + 1] = sum
  BY <1>8 DEF two
<1>11. /\ all \in Lists /\ Len(all) = f + 1 + (Len(m) - e)
       /\ \A i \in 1..(f + 1) : all[i] = two[i]
       /\ \A i \in 1..(Len(m) - e) : all[f + 1 + i] = rest[i]
  <2>1. /\ two \o rest \in Lists /\ Len(two \o rest) = Len(two) + Len(rest)
        /\ \A i \in 1..Len(two) : (two \o rest)[i] = two[i]
        /\ \A i \in 1..Len(rest) : (two \o rest)[Len(two) + i] = rest[i]
    BY <1>6, <1>10, JoinIsTyped
  <2>2. QED
    BY <1>6, <1>10, <2>1
<1> HIDE DEF all
<1>12. /\ \A i \in 1..f : i \in 1..(f + 1) /\ all[i] = m[i]
       /\ all[f + 1] = sum
       /\ \A i \in 1..(Len(m) - e) : all[f + 1 + i] = m[e + i]
  <2>1. f + 1 \in 1..(f + 1) /\ \A i \in 1..f : i \in 1..(f + 1)
    BY <1>1
  <2>2. QED
    BY <1>6, <1>10, <1>11, <2>1
<1>13. QED
  BY <1>3, <1>9, <1>11, <1>12 DEF f, e

-------------------------------------------------------------------------------
(* The window: what each step makes of it.                                    *)

Begins(m, n) == Len(m) <= Len(n) /\ \A i \in 1..Len(m) : n[i] = m[i]
WindowTypes ==
    /\ window \in Lists /\ next \in Nat \ {0} /\ turn \in Nat
    /\ cphase # "idle" => turn > 0
    /\ turn = 0 => window = << >> /\ next = 1

LEMMA BeginsHolds ==
  ASSUME NEW m \in Lists, NEW n \in Lists, Begins(m, n)
  PROVE  W!Ids(m) \subseteq W!Ids(n)
<1>1. DOMAIN m = 1..Len(m) /\ DOMAIN n = 1..Len(n) /\ Len(m) \in Nat /\ Len(n) \in Nat
  BY ListIsTyped
<1>2. QED
  BY <1>1, IdsStand DEF Begins

\* A message is added at the end.
LEMMA OneMore ==
  ASSUME NEW m \in Lists, NEW x \in Messages, NEW n, n = Append(m, x)
  PROVE  /\ n \in Lists /\ Len(n) = Len(m) + 1 /\ Begins(m, n)
         /\ n[Len(m) + 1] = x
<1>1. /\ n \in Lists /\ Len(n) = Len(m) + 1 /\ n[Len(m) + 1] = x
      /\ \A i \in 1..Len(m) : n[i] = m[i]
  BY AppendIsTyped
<1>2. Len(m) \in Nat
  BY ListIsTyped
<1>3. QED
  BY <1>1, <1>2 DEF Begins

\* A step adds a reply and the results of its calls.
Stepped(m, n, k) ==
    /\ n \in Lists /\ Len(n) = Len(m) + 1 + k /\ Begins(m, n)
    /\ n[Len(m) + 1].role = "assistant" /\ n[Len(m) + 1].id = next /\ n[Len(m) + 1].calls = k
    /\ \A i \in 1..k : /\ n[Len(m) + 1 + i].role = "tool" /\ n[Len(m) + 1 + i].id = next + i
                       /\ n[Len(m) + 1 + i].group = next /\ n[Len(m) + 1 + i].calls = 0

LEMMA StepAdds ==
  ASSUME WindowTypes, W!Step
  PROVE  \E k \in 1..2 : /\ Stepped(window, window', k) /\ next' = next + k + 1
                         /\ UNCHANGED <<turn, forgotten>> /\ cphase = "sent" /\ cphase' = "top"
<1>1. PICK k \in 1..2 : \E size \in [1..k -> {1, Large}], exit \in [1..k -> ExitCodes] :
        /\ window' = Append(window, W!Message("assistant", next, 0, k, 1))
                     \o [i \in 1..k |-> [W!Message("tool", next + i, next, 0, size[i])
                                           EXCEPT !.code = exit[i]]]
        /\ next' = next + k + 1 /\ UNCHANGED <<turn, forgotten>>
        /\ cphase = "sent" /\ cphase' = "top"
  BY DEF W!Step
<1>2. PICK size \in [1..k -> {1, Large}], exit \in [1..k -> ExitCodes] :
        window' = Append(window, W!Message("assistant", next, 0, k, 1))
                  \o [i \in 1..k |-> [W!Message("tool", next + i, next, 0, size[i])
                                        EXCEPT !.code = exit[i]]]
  BY <1>1
<1> DEFINE reply1 == W!Message("assistant", next, 0, k, 1)
           result(i) == [W!Message("tool", next + i, next, 0, size[i]) EXCEPT !.code = exit[i]]
           results == [i \in 1..k |-> result(i)]
           replied == Append(window, reply1)
<1>3. window \in Lists /\ next \in Nat /\ k \in Nat /\ Len(window) \in Nat
  BY ListIsTyped DEF WindowTypes
<1>4. reply1 \in Messages /\ reply1.role = "assistant" /\ reply1.id = next /\ reply1.calls = k
  BY <1>3 DEF W!Message, Messages
<1>5. ASSUME NEW i \in 1..k
      PROVE  /\ result(i) \in Messages /\ result(i).role = "tool" /\ result(i).id = next + i
             /\ result(i).group = next /\ result(i).calls = 0
  <2>1. next + i \in Nat /\ size[i] \in {1, Large} /\ exit[i] \in ExitCodes
    BY <1>3
  <2>2. QED
    BY <1>3, <2>1 DEF W!Message, Messages
<1>6. replied \in Lists /\ Len(replied) = Len(window) + 1 /\ replied[Len(window) + 1] = reply1
      /\ \A i \in 1..Len(window) : replied[i] = window[i]
  BY <1>3, <1>4, AppendIsTyped
<1>7. results \in Lists /\ Len(results) = k /\ \A i \in 1..k : results[i] = result(i)
  <2>1. results \in [1..k -> Messages]
    BY <1>5
  <2>2. QED
    BY <1>3, <2>1, FunctionIsList
<1>8. window' = replied \o results
  BY <1>2
<1> HIDE DEF reply1, result, results, replied
<1>9. /\ window' \in Lists /\ Len(window') = Len(window) + 1 + k
      /\ \A i \in 1..(Len(window) + 1) : window'[i] = replied[i]
      /\ \A i \in 1..k : window'[Len(window) + 1 + i] = results[i]
  BY <1>3, <1>6, <1>7, <1>8, JoinIsTyped
<1>10. Begins(window, window') /\ window'[Len(window) + 1] = reply1
  BY <1>3, <1>6, <1>9 DEF Begins
<1>11. Stepped(window, window', k)
  BY <1>4, <1>5, <1>7, <1>9, <1>10 DEF Stepped
<1>12. QED
  BY <1>1, <1>11

\* A list cut into a beginning and a rest loses nothing.
LEMMA SplitKeeps ==
  ASSUME NEW m \in Lists, NEW d \in 0..Len(m)
  PROVE  W!Ids(m) \subseteq W!Ids(SubSeq(m, 1, d)) \cup W!Ids(SubSeq(m, d + 1, Len(m)))
<1> DEFINE first == SubSeq(m, 1, d)
           rest == SubSeq(m, d + 1, Len(m))
<1>1. /\ first \in Lists /\ rest \in Lists /\ Len(first) = d /\ Len(rest) = Len(m) - d
      /\ \A i \in 1..d : first[i] = m[i]
      /\ \A i \in 1..(Len(m) - d) : rest[i] = m[d + i]
  BY SplitIsTyped
<1> HIDE DEF first, rest
<1>2. Len(m) \in Nat /\ DOMAIN m = 1..Len(m) /\ DOMAIN first = 1..d
      /\ DOMAIN rest = 1..(Len(m) - d)
  BY <1>1, ListIsTyped
<1>3. SUFFICES ASSUME NEW x \in W!Ids(m) PROVE x \in W!Ids(first) \cup W!Ids(rest)
  BY DEF first, rest
<1>4. PICK i \in 1..Len(m) : StandsAt(x, m[i])
  BY <1>2, <1>3, IdsStand
<1>5. CASE i <= d
  <2>1. i \in 1..d
    BY <1>5
  <2>2. QED
    BY <1>1, <1>2, <1>4, <2>1, IdsStand
<1>6. CASE i > d
  <2>1. i - d \in 1..(Len(m) - d) /\ d + (i - d) = i
    BY <1>2, <1>6
  <2>2. rest[i - d] = m[i]
    BY <1>1, <2>1
  <2>3. QED
    BY <1>2, <1>4, <2>1, <2>2, IdsStand
<1>7. QED
  BY <1>2, <1>5, <1>6

\* A folded list stands for what the list stood for.
LEMMA FoldKeeps == \A m \in Lists : W!Ids(m) \subseteq W!Ids(W!Fold(m))
<1> SUFFICES ASSUME NEW m \in Lists, NEW x \in W!Ids(m) PROVE x \in W!Ids(W!Fold(m))
  OBVIOUS
<1>1. DOMAIN m = 1..Len(m) /\ DOMAIN W!Fold(m) = 1..Len(m)
      /\ \A i \in 1..Len(m) : SameGroups(W!Fold(m)[i], m[i])
  BY FoldIsTyped, ListIsTyped
<1>2. PICK i \in 1..Len(m) : StandsAt(x, m[i])
  BY <1>1, IdsStand
<1>3. StandsAt(x, W!Fold(m)[i])
  BY <1>1, <1>2 DEF SameGroups, StandsAt
<1>4. QED
  BY <1>1, <1>3, IdsStand

\* A summary stands for what it was made from.
LEMMA SummaryKeeps ==
  ASSUME NEW m \in Lists, W!CanSummarize(m), next \in Nat
  PROVE  W!Ids(m) \cup {next} \subseteq W!Ids(W!Summarized(m))
<1> DEFINE f == W!FirstUser(m)
           e == W!End(m)
           s == W!Summarized(m)
<1>1. /\ Len(m) \in Nat /\ f \in Nat /\ e \in Nat /\ 1 <= f /\ f < e /\ e < Len(m)
      /\ DOMAIN m = 1..Len(m)
  BY SummaryCuts, ListIsTyped
<1>2. /\ s \in Lists /\ Len(s) = f + 1 + (Len(m) - e)
      /\ \A i \in 1..f : s[i] = m[i]
      /\ s[f + 1].id = next
      /\ s[f + 1].covers = W!Ids(SubSeq(m, f + 1, e))
      /\ \A i \in 1..(Len(m) - e) : s[f + 1 + i] = m[e + i]
  BY SummaryIsTyped
<1> HIDE DEF f, e, s
<1>3. DOMAIN s = 1..(f + 1 + (Len(m) - e)) /\ f + 1 \in DOMAIN s
  <2>1. DOMAIN s = 1..(f + 1 + (Len(m) - e))
    BY <1>2, ListIsTyped
  <2>2. QED
    BY <1>1, <2>1
<1>4. next \in W!Ids(s)
  BY <1>2, <1>3, IdsStand DEF StandsAt
<1>5. ASSUME NEW x \in W!Ids(m) PROVE x \in W!Ids(s)
  <2>1. PICK i \in 1..Len(m) : StandsAt(x, m[i])
    BY <1>1, <1>5, IdsStand
  <2>2. CASE i <= f
    <3>1. i \in 1..f /\ i \in DOMAIN s
      BY <1>1, <1>3, <2>2
    <3>2. QED
      BY <1>2, <2>1, <3>1, IdsStand
  <2>3. CASE f < i /\ i <= e
    <3> DEFINE gone == SubSeq(m, f + 1, e)
    <3>1. \A j \in (f + 1)..e : m[j] \in Messages
      BY <1>1, ListIsTyped
    <3>2. /\ gone \in Seq(Messages) /\ Len(gone) = e - f
          /\ \A j \in 1..(e - f) : gone[j] = m[f + j]
      <4>1. /\ gone \in Seq(Messages)
            /\ Len(gone) = IF f + 1 <= e THEN e - (f + 1) + 1 ELSE 0
            /\ \A j \in 1..(e - (f + 1) + 1) : gone[j] = m[f + 1 + j - 1]
        BY <1>1, <3>1, SubSeqProperties
      <4>2. e - (f + 1) + 1 = e - f /\ f + 1 <= e /\ \A j \in 1..(e - f) : f + 1 + j - 1 = f + j
        BY <1>1
      <4>3. QED
        BY <4>1, <4>2
    <3> HIDE DEF gone
    <3>3. i - f \in 1..(e - f) /\ f + (i - f) = i
      BY <1>1, <2>3
    <3>4. DOMAIN gone = 1..(e - f) /\ gone[i - f] = m[i]
      BY <3>2, <3>3 DEF Lists
    <3>5. x \in W!Ids(gone)
      BY <2>1, <3>3, <3>4, IdsStand
    <3>6. x \in s[f + 1].covers
      BY <1>2, <3>5 DEF gone
    <3>7. QED
      BY <1>3, <3>6, IdsStand DEF StandsAt
  <2>4. CASE e < i
    <3>1. i - e \in 1..(Len(m) - e) /\ e + (i - e) = i /\ f + 1 + (i - e) \in DOMAIN s
      BY <1>1, <1>3, <2>4
    <3>2. s[f + 1 + (i - e)] = m[i]
      BY <1>2, <3>1
    <3>3. QED
      BY <2>1, <3>1, <3>2, IdsStand
  <2>5. QED
    BY <1>1, <2>2, <2>3, <2>4
<1>6. QED
  BY <1>4, <1>5 DEF s

-------------------------------------------------------------------------------
(* The window: compaction forgets nothing.                                    *)

\* Every number given is of a message there, of one a summary covers, or of one dropped.
Accounted == 1..(next - 1) \subseteq W!Ids(window) \cup forgotten
\* Before the first question is dropped it is the first message.
FirstStands ==
    1 \notin forgotten /\ turn > 0 =>
      Len(window) > 0 /\ window[1].id = 1 /\ window[1].role = "user"
KeptInv == WindowTypes /\ Accounted /\ FirstStands

LEMMA KeptAsked == KeptInv /\ W!Asked => KeptInv'
<1> SUFFICES ASSUME KeptInv, W!Asked PROVE KeptInv'
  OBVIOUS
<1>1. /\ window' = Append(window, W!Message("user", next, 0, 0, 1))
      /\ turn' = turn + 1 /\ next' = next + 1 /\ cphase' = "top" /\ forgotten' = forgotten
  BY DEF W!Asked
<1>2. window \in Lists /\ next \in Nat \ {0} /\ turn \in Nat /\ Len(window) \in Nat
  BY ListIsTyped DEF KeptInv, WindowTypes
<1>3. /\ window' \in Lists /\ Len(window') = Len(window) + 1 /\ Begins(window, window')
      /\ window'[Len(window) + 1].role = "user" /\ window'[Len(window) + 1].id = next
  <2> DEFINE x == W!Message("user", next, 0, 0, 1)
  <2>1. x \in Messages /\ x.role = "user" /\ x.id = next
    BY <1>2 DEF W!Message, Messages
  <2>2. window' = Append(window, x)
    BY <1>1
  <2> HIDE DEF x
  <2>3. /\ window' \in Lists /\ Len(window') = Len(window) + 1 /\ Begins(window, window')
        /\ window'[Len(window) + 1] = x
    BY <1>2, <2>1, <2>2, OneMore
  <2>4. QED
    BY <2>1, <2>3
<1>4. WindowTypes'
  BY <1>1, <1>2, <1>3 DEF WindowTypes
<1>5. W!Ids(window) \cup {next} \subseteq W!Ids(window')
  <2>1. Len(window) + 1 \in DOMAIN window'
    BY <1>2, <1>3, ListIsTyped
  <2>2. QED
    BY <1>2, <1>3, <2>1, BeginsHolds, IdsStand DEF StandsAt
<1>6. Accounted'
  <2>1. W!Ids(window)' = W!Ids(window')
    BY DEF W!Ids
  <2>2. 1..(next' - 1) \subseteq 1..(next - 1) \cup {next}
    BY <1>1, <1>2
  <2>3. QED
    BY <1>1, <1>5, <2>1, <2>2 DEF KeptInv, Accounted
<1>7. FirstStands'
  <2>1. CASE turn = 0
    <3>1. Len(window) = 0 /\ next = 1
      BY <2>1 DEF KeptInv, WindowTypes
    <3>2. QED
      BY <1>3, <3>1 DEF FirstStands
  <2>2. CASE turn # 0
    BY <1>1, <1>2, <1>3, <2>2 DEF KeptInv, FirstStands, Begins
  <2>3. QED
    BY <2>1, <2>2
<1>8. QED
  BY <1>4, <1>6, <1>7 DEF KeptInv

LEMMA KeptTruncate == KeptInv /\ W!Truncate => KeptInv'
<1> SUFFICES ASSUME KeptInv, W!Truncate PROVE KeptInv'
  OBVIOUS
<1> DEFINE d == W!DropCount(window)
           first == SubSeq(window, 1, d)
           rest == SubSeq(window, d + 1, Len(window))
<1>1. /\ forgotten' = forgotten \cup W!Ids(first) /\ window' = rest
      /\ turn' = turn /\ next' = next /\ cphase = "top"
  BY DEF W!Truncate, W!runVars
<1>2. window \in Lists /\ next \in Nat \ {0} /\ turn \in Nat /\ turn > 0 /\ Len(window) \in Nat
  BY <1>1, ListIsTyped DEF KeptInv, WindowTypes
<1>3. d \in 0..Len(window)
  BY <1>2, DropIsACut DEF CutAt
<1>4. /\ first \in Lists /\ rest \in Lists /\ Len(first) = d /\ Len(rest) = Len(window) - d
      /\ \A i \in 1..d : first[i] = window[i]
      /\ \A i \in 1..(Len(window) - d) : rest[i] = window[d + i]
  BY <1>2, <1>3, SplitIsTyped
<1>5. W!Ids(window) \subseteq W!Ids(first) \cup W!Ids(rest)
  BY <1>2, <1>3, SplitKeeps
<1> HIDE DEF d, first, rest
<1>6. WindowTypes'
  BY <1>1, <1>2, <1>4 DEF WindowTypes
<1>7. Accounted'
  <2>1. W!Ids(window)' = W!Ids(rest)
    BY <1>1 DEF W!Ids
  <2>2. QED
    BY <1>1, <1>5, <2>1 DEF KeptInv, Accounted
<1>8. FirstStands'
  <2>1. SUFFICES ASSUME 1 \notin forgotten', turn' > 0
                 PROVE  Len(window') > 0 /\ window'[1].id = 1 /\ window'[1].role = "user"
    BY DEF FirstStands
  <2>2. Len(window) > 0 /\ window[1].id = 1 /\ window[1].role = "user"
    BY <1>1, <2>1 DEF KeptInv, FirstStands
  <2>3. CASE d = 0
    <3>1. 1 \in 1..(Len(window) - d) /\ d + 1 = 1
      BY <1>2, <2>2, <2>3
    <3>2. rest[1] = window[1]
      BY <1>4, <3>1
    <3>3. QED
      BY <1>1, <1>2, <1>4, <2>2, <2>3, <3>2
  <2>4. CASE d # 0
    <3>1. 1 \in 1..d /\ DOMAIN first = 1..d
      BY <1>2, <1>3, <1>4, <2>4, ListIsTyped
    <3>2. first[1].id = 1
      BY <1>4, <2>2, <3>1
    <3>3. 1 \in W!Ids(first)
      BY <3>1, <3>2, IdsStand DEF StandsAt
    <3>4. QED
      BY <1>1, <2>1, <3>3
  <2>5. QED
    BY <2>3, <2>4
<1>9. QED
  BY <1>6, <1>7, <1>8 DEF KeptInv

LEMMA KeptCompact == KeptInv /\ W!Compact => KeptInv'
<1> SUFFICES ASSUME KeptInv, W!Compact PROVE KeptInv'
  OBVIOUS
<1> DEFINE folded == W!Fold(window)
<1>1. /\ turn' = turn /\ forgotten' = forgotten /\ cphase = "compact"
      /\ \/ window' = window /\ next' = next
         \/ window' = folded /\ next' = next
         \/ W!CanSummarize(folded) /\ window' = W!Summarized(folded) /\ next' = next + 1
  BY DEF W!Compact, W!runVars
<1>2. window \in Lists /\ next \in Nat \ {0} /\ turn \in Nat /\ turn > 0 /\ Len(window) \in Nat
  BY <1>1, ListIsTyped DEF KeptInv, WindowTypes
<1>3. /\ folded \in Lists /\ Len(folded) = Len(window)
      /\ \A i \in 1..Len(window) : SameGroups(folded[i], window[i])
      /\ W!Ids(window) \subseteq W!Ids(folded)
  BY <1>2, FoldIsTyped, FoldKeeps
<1> HIDE DEF folded
<1>4. CASE window' = window /\ next' = next
  BY <1>1, <1>2, <1>4 DEF KeptInv, WindowTypes, Accounted, FirstStands, W!Ids
<1>5. CASE window' = folded /\ next' = next
  <2>1. WindowTypes'
    BY <1>1, <1>2, <1>3, <1>5 DEF WindowTypes
  <2>2. Accounted'
    <3>1. W!Ids(window)' = W!Ids(folded)
      BY <1>5 DEF W!Ids
    <3>2. QED
      BY <1>1, <1>3, <1>5, <3>1 DEF KeptInv, Accounted
  <2>3. FirstStands'
    BY <1>1, <1>2, <1>3, <1>5 DEF KeptInv, FirstStands, SameGroups
  <2>4. QED
    BY <2>1, <2>2, <2>3 DEF KeptInv
<1>6. CASE W!CanSummarize(folded) /\ window' = W!Summarized(folded) /\ next' = next + 1
  <2> DEFINE s == W!Summarized(folded)
             f == W!FirstUser(folded)
  <2>1. /\ s \in Lists /\ Len(s) = f + 1 + (Len(folded) - W!End(folded))
        /\ \A i \in 1..f : s[i] = folded[i]
    BY <1>2, <1>3, <1>6, SummaryIsTyped
  <2>2. W!Ids(folded) \cup {next} \subseteq W!Ids(s)
    BY <1>2, <1>3, <1>6, SummaryKeeps
  <2>3. /\ f \in 1..Len(folded) /\ W!End(folded) \in Nat /\ W!End(folded) < Len(folded)
        /\ \A i \in 1..Len(folded) : folded[i].role = "user" => f <= i
    BY <1>3, <1>6, SummaryCuts
  <2> HIDE DEF s, f
  <2>4. window' = s
    BY <1>6 DEF s
  <2>5. WindowTypes'
    BY <1>1, <1>2, <1>6, <2>1, <2>4 DEF WindowTypes
  <2>6. Accounted'
    <3>1. W!Ids(window)' = W!Ids(s)
      BY <2>4 DEF W!Ids
    <3>2. 1..(next' - 1) \subseteq 1..(next - 1) \cup {next}
      BY <1>2, <1>6
    <3>3. QED
      BY <1>1, <1>3, <2>2, <3>1, <3>2 DEF KeptInv, Accounted
  <2>7. FirstStands'
    <3>1. SUFFICES ASSUME 1 \notin forgotten', turn' > 0
                   PROVE  Len(window') > 0 /\ window'[1].id = 1 /\ window'[1].role = "user"
      BY DEF FirstStands
    <3>2. Len(window) > 0 /\ window[1].id = 1 /\ window[1].role = "user"
      BY <1>1, <3>1 DEF KeptInv, FirstStands
    <3>3. folded[1].id = 1 /\ folded[1].role = "user" /\ 1 \in 1..Len(folded)
      BY <1>2, <1>3, <3>2 DEF SameGroups
    <3>4. f = 1
      BY <2>3, <3>3
    <3>5. s[1] = folded[1] /\ Len(s) > 0
      BY <1>2, <1>3, <2>1, <2>3, <3>4
    <3>6. QED
      BY <2>4, <3>3, <3>5
  <2>8. QED
    BY <2>5, <2>6, <2>7 DEF KeptInv
<1>7. QED
  BY <1>1, <1>4, <1>5, <1>6

LEMMA KeptStep == KeptInv /\ W!Step => KeptInv'
<1> SUFFICES ASSUME KeptInv, W!Step PROVE KeptInv'
  OBVIOUS
<1>1. PICK k \in 1..2 : /\ Stepped(window, window', k) /\ next' = next + k + 1
                        /\ UNCHANGED <<turn, forgotten>> /\ cphase = "sent" /\ cphase' = "top"
  BY StepAdds DEF KeptInv
<1>2. window \in Lists /\ next \in Nat \ {0} /\ turn \in Nat /\ turn > 0 /\ Len(window) \in Nat
  BY <1>1, ListIsTyped DEF KeptInv, WindowTypes
<1>3. WindowTypes'
  BY <1>1, <1>2 DEF WindowTypes, Stepped
<1>4. Accounted'
  <2>1. W!Ids(window)' = W!Ids(window')
    BY DEF W!Ids
  <2>2. W!Ids(window) \subseteq W!Ids(window') /\ DOMAIN window' = 1..(Len(window) + 1 + k)
    BY <1>1, <1>2, BeginsHolds, ListIsTyped DEF Stepped
  <2>3. next \in W!Ids(window')
    <3>1. Len(window) + 1 \in DOMAIN window' /\ window'[Len(window) + 1].id = next
      BY <1>1, <1>2, <2>2 DEF Stepped
    <3>2. QED
      BY <3>1, IdsStand DEF StandsAt
  <2>4. ASSUME NEW i \in 1..k PROVE next + i \in W!Ids(window')
    <3>1. Len(window) + 1 + i \in DOMAIN window'
      BY <1>1, <1>2, <2>2
    <3>2. window'[Len(window) + 1 + i].id = next + i
      BY <1>1 DEF Stepped
    <3>3. QED
      BY <3>1, <3>2, IdsStand DEF StandsAt
  <2>5. ASSUME NEW x \in 1..(next' - 1)
        PROVE  x \in 1..(next - 1) \/ x = next \/ (x - next \in 1..k /\ x = next + (x - next))
    BY <1>1, <1>2
  <2>6. QED
    BY <1>1, <2>1, <2>2, <2>3, <2>4, <2>5 DEF KeptInv, Accounted
<1>5. FirstStands'
  BY <1>1, <1>2 DEF KeptInv, FirstStands, Stepped, Begins
<1>6. QED
  BY <1>3, <1>4, <1>5 DEF KeptInv

LEMMA KeptEnds == KeptInv /\ W!RunEnds => KeptInv'
<1> SUFFICES ASSUME KeptInv, W!RunEnds PROVE KeptInv'
  OBVIOUS
<1>1. /\ turn' = turn /\ forgotten' = forgotten /\ cphase # "idle" /\ cphase' = "idle"
      /\ \/ window' = window /\ next' = next
         \/ window' = Append(window, W!Message("assistant", next, 0, 0, 1)) /\ next' = next + 1
  BY DEF W!RunEnds
<1>2. window \in Lists /\ next \in Nat \ {0} /\ turn \in Nat /\ turn > 0 /\ Len(window) \in Nat
  BY <1>1, ListIsTyped DEF KeptInv, WindowTypes
<1>3. CASE window' = window /\ next' = next
  BY <1>1, <1>2, <1>3 DEF KeptInv, WindowTypes, Accounted, FirstStands, W!Ids
<1>4. CASE window' = Append(window, W!Message("assistant", next, 0, 0, 1)) /\ next' = next + 1
  <2>1. /\ window' \in Lists /\ Len(window') = Len(window) + 1 /\ Begins(window, window')
        /\ window'[Len(window) + 1].id = next
    <3> DEFINE x == W!Message("assistant", next, 0, 0, 1)
    <3>1. x \in Messages /\ x.id = next
      BY <1>2 DEF W!Message, Messages
    <3>2. window' = Append(window, x)
      BY <1>4
    <3> HIDE DEF x
    <3>3. QED
      BY <1>2, <3>1, <3>2, OneMore
  <2>2. WindowTypes'
    BY <1>1, <1>2, <1>4, <2>1 DEF WindowTypes
  <2>3. W!Ids(window) \cup {next} \subseteq W!Ids(window')
    <3>1. Len(window) + 1 \in DOMAIN window'
      BY <1>2, <2>1, ListIsTyped
    <3>2. QED
      BY <1>2, <2>1, <3>1, BeginsHolds, IdsStand DEF StandsAt
  <2>4. Accounted'
    <3>1. W!Ids(window)' = W!Ids(window')
      BY DEF W!Ids
    <3>2. 1..(next' - 1) \subseteq 1..(next - 1) \cup {next}
      BY <1>2, <1>4
    <3>3. QED
      BY <1>1, <2>3, <3>1, <3>2 DEF KeptInv, Accounted
  <2>5. FirstStands'
    BY <1>1, <1>2, <2>1 DEF KeptInv, FirstStands, Begins
  <2>6. QED
    BY <2>2, <2>4, <2>5 DEF KeptInv
<1>5. QED
  BY <1>1, <1>3, <1>4

LEMMA KeptNext == KeptInv /\ [W!Next]_windowVars => KeptInv'
<1>1. KeptInv /\ UNCHANGED windowVars => KeptInv'
  BY DEF windowVars, KeptInv, WindowTypes, Accounted, FirstStands, W!Ids
<1>2. QED
  BY <1>1, KeptAsked, KeptTruncate, KeptCompact, KeptStep, KeptEnds DEF W!Next

LEMMA KeptInit == AllInit => KeptInv
<1>1. AllInit => window = << >> /\ cphase = "idle" /\ turn = 0 /\ next = 1 /\ forgotten = {}
  BY DEF AllInit, W!Init
<1>2. << >> \in Lists
  BY DEF Lists
<1>3. QED
  BY <1>1, <1>2 DEF KeptInv, WindowTypes, Accounted, FirstStands

LEMMA KeptMeans == KeptInv => OnlyTruncationForgets
<1> SUFFICES ASSUME KeptInv PROVE OnlyTruncationForgets
  OBVIOUS
<1>1. 1 \notin forgotten /\ turn > 0 => \E i \in DOMAIN window : window[i].id = 1
  <2>1. DOMAIN window = 1..Len(window) /\ Len(window) \in Nat
    BY ListIsTyped DEF KeptInv, WindowTypes
  <2>2. QED
    BY <2>1 DEF KeptInv, FirstStands
<1>2. QED
  BY <1>1 DEF KeptInv, Accounted, OnlyTruncationForgets, W!OnlyTruncationForgets

\* Compaction loses nothing: a message is in the window, in what a summary there was made
\* from, or was dropped by the limit on messages; and the first question of the window is
\* never among those a summary stands for (context/compactor.py, context/window.py).  For
\* every limit, every number of messages kept and every size.
THEOREM CompactionKeeps == AllSpec => []OnlyTruncationForgets
<1>1. KeptInv /\ [AllNext]_allVars => KeptInv'
  BY KeptNext, PartsApart
<1>2. QED
  BY KeptInit, <1>1, KeptMeans, PTL DEF AllSpec

-------------------------------------------------------------------------------
(* The window: calls and results stay together.                               *)

\* A result stands behind the reply that asked for it, and a reply has its results behind it.
Asks(m, a, i) == m[a].role = "assistant" /\ m[a].id = m[i].group /\ i <= a + m[a].calls
ResultsStand(m) ==
    \A i \in 1..Len(m) : m[i].role = "tool" => \E a \in 1..(i - 1) : Asks(m, a, i)
CallsAnswered(m) ==
    \A a \in 1..Len(m) : \A k \in 1..m[a].calls :
      a + k <= Len(m) /\ m[a + k].role = "tool" /\ m[a + k].group = m[a].id
CallersAsk(m) == \A a \in 1..Len(m) : m[a].calls > 0 => m[a].role = "assistant"
Whole(m) == ResultsStand(m) /\ CallsAnswered(m) /\ CallersAsk(m)

\* Between a result and its reply there are results only.
LEMMA BetweenAreResults ==
  ASSUME NEW m \in Lists, Whole(m), NEW i \in 1..Len(m), NEW a \in 1..(i - 1), Asks(m, a, i)
  PROVE  \A k \in (a + 1)..i : m[k].role = "tool"
<1>1. Len(m) \in Nat /\ i \in Nat /\ a \in Nat /\ m[a].calls \in Nat /\ a \in 1..Len(m)
      /\ i <= a + m[a].calls
  BY ListIsTyped, MessageFields DEF Asks
<1>2. ASSUME NEW k \in (a + 1)..i PROVE m[k].role = "tool"
  <2>1. k - a \in 1..m[a].calls /\ a + (k - a) = k
    BY <1>1
  <2>2. QED
    BY <1>1, <2>1 DEF Whole, CallsAnswered
<1>3. QED
  BY <1>2

\* In a whole list exactly the results stand in groups.
LEMMA ResultsAreInGroups ==
  ASSUME NEW m \in Lists, Whole(m), NEW i \in 1..Len(m), m[i].role = "tool"
  PROVE  W!InGroup(m, i)
<1>1. PICK a \in 1..(i - 1) : Asks(m, a, i)
  BY DEF Whole, ResultsStand
<1>2. \A k \in (a + 1)..i : m[k].role = "tool"
  BY <1>1, BetweenAreResults
<1>3. m[a].calls > 0 /\ m[a].role = "assistant"
  <2>1. Len(m) \in Nat /\ i \in Nat /\ a \in Nat /\ a < i /\ a \in 1..Len(m)
    BY ListIsTyped
  <2>2. m[a].calls \in Nat
    BY <2>1, ListIsTyped, MessageFields
  <2>3. QED
    BY <1>1, <2>1, <2>2 DEF Asks
<1>4. QED
  BY <1>2, <1>3 DEF W!InGroup

\* A list cut where no result stands is whole on both sides.
LEMMA CutIsWhole ==
  ASSUME NEW m \in Lists, Whole(m), NEW d \in 0..Len(m), d = Len(m) \/ m[d + 1].role # "tool"
  PROVE  Whole(SubSeq(m, 1, d)) /\ Whole(SubSeq(m, d + 1, Len(m)))
<1> DEFINE first == SubSeq(m, 1, d)
           rest == SubSeq(m, d + 1, Len(m))
<1>1. /\ first \in Lists /\ rest \in Lists /\ Len(first) = d /\ Len(rest) = Len(m) - d
      /\ \A i \in 1..d : first[i] = m[i]
      /\ \A i \in 1..(Len(m) - d) : rest[i] = m[d + i]
  BY SplitIsTyped
<1> HIDE DEF first, rest
<1>2. Len(m) \in Nat /\ d \in Nat /\ d <= Len(m) /\ \A i \in 1..Len(m) : m[i].calls \in Nat
  BY ListIsTyped, MessageFields
<1>3. ASSUME NEW a \in 1..d, NEW k \in 1..m[a].calls PROVE a + k <= d
  <2>1. a \in 1..Len(m) /\ m[a].calls \in Nat
    BY <1>2
  <2>2. a + k <= Len(m)
    BY <1>3, <2>1 DEF Whole, CallsAnswered
  <2>3. SUFFICES ASSUME a + k > d PROVE FALSE
    BY <1>2, <2>1
  <2>4. d + 1 - a \in 1..m[a].calls /\ a + (d + 1 - a) = d + 1 /\ d # Len(m)
    BY <1>2, <2>1, <2>2, <2>3
  <2>5. m[d + 1].role = "tool"
    BY <2>1, <2>4 DEF Whole, CallsAnswered
  <2>6. QED
    BY <2>4, <2>5
<1>4. Whole(first)
  <2>1. ResultsStand(first)
    <3>1. ASSUME NEW i \in 1..d, first[i].role = "tool"
          PROVE  \E a \in 1..(i - 1) : Asks(first, a, i)
      <4>1. i \in 1..Len(m) /\ first[i] = m[i]
        BY <1>1, <1>2
      <4>2. PICK a \in 1..(i - 1) : Asks(m, a, i)
        BY <3>1, <4>1 DEF Whole, ResultsStand
      <4>3. a \in 1..d
        BY <1>2
      <4>4. QED
        BY <1>1, <4>1, <4>2, <4>3 DEF Asks
    <3>2. QED
      BY <1>1, <3>1 DEF ResultsStand
  <2>2. CallsAnswered(first)
    <3>1. ASSUME NEW a \in 1..d, NEW k \in 1..first[a].calls
          PROVE  a + k <= d /\ first[a + k].role = "tool" /\ first[a + k].group = first[a].id
      <4>1. a \in 1..Len(m) /\ first[a] = m[a] /\ m[a].calls \in Nat
        BY <1>1, <1>2
      <4>2. a + k <= d /\ a + k \in 1..d
        BY <1>2, <1>3, <4>1
      <4>3. QED
        BY <1>1, <4>1, <4>2 DEF Whole, CallsAnswered
    <3>2. QED
      BY <1>1, <3>1 DEF CallsAnswered
  <2>3. CallersAsk(first)
    BY <1>1, <1>2 DEF Whole, CallersAsk
  <2>4. QED
    BY <2>1, <2>2, <2>3 DEF Whole
<1>5. Whole(rest)
  <2>1. ResultsStand(rest)
    <3>1. ASSUME NEW i \in 1..(Len(m) - d), rest[i].role = "tool"
          PROVE  \E a \in 1..(i - 1) : Asks(rest, a, i)
      <4>1. d + i \in 1..Len(m) /\ rest[i] = m[d + i] /\ i \in Nat
        BY <1>1, <1>2
      <4>2. PICK a \in 1..(d + i - 1) : Asks(m, a, d + i)
        BY <3>1, <4>1 DEF Whole, ResultsStand
      <4>3. a > d
        <5>1. SUFFICES ASSUME a <= d PROVE FALSE
          BY <1>2
        <5>2. d + 1 \in (a + 1)..(d + i) /\ d # Len(m)
          BY <1>2, <4>1, <5>1
        <5>3. m[d + 1].role = "tool"
          BY <4>1, <4>2, <5>2, BetweenAreResults
        <5>4. QED
          BY <5>2, <5>3
      <4>4. a - d \in 1..(i - 1) /\ a - d \in 1..(Len(m) - d) /\ d + (a - d) = a
        BY <1>2, <4>1, <4>3
      <4>5. rest[a - d] = m[a] /\ m[a].calls \in Nat
        BY <1>1, <1>2, <4>4
      <4>6. i <= (a - d) + m[a].calls
        BY <1>2, <4>1, <4>2, <4>5 DEF Asks
      <4>7. Asks(rest, a - d, i)
        BY <4>1, <4>2, <4>5, <4>6 DEF Asks
      <4>8. QED
        BY <4>4, <4>7
    <3>2. QED
      BY <1>1, <3>1 DEF ResultsStand
  <2>2. CallsAnswered(rest)
    <3>1. ASSUME NEW a \in 1..(Len(m) - d), NEW k \in 1..rest[a].calls
          PROVE  /\ a + k <= Len(m) - d
                 /\ rest[a + k].role = "tool" /\ rest[a + k].group = rest[a].id
      <4>1. d + a \in 1..Len(m) /\ rest[a] = m[d + a]
        BY <1>1, <1>2
      <4>2. m[d + a].calls \in Nat
        BY <1>2, <4>1
      <4>3. /\ (d + a) + k <= Len(m)
            /\ m[(d + a) + k].role = "tool" /\ m[(d + a) + k].group = m[d + a].id
        BY <4>1 DEF Whole, CallsAnswered
      <4>4. a + k \in 1..(Len(m) - d) /\ d + (a + k) = (d + a) + k
        BY <1>2, <4>1, <4>2, <4>3
      <4>5. rest[a + k] = m[(d + a) + k]
        BY <1>1, <4>4
      <4>6. QED
        BY <4>1, <4>3, <4>4, <4>5
    <3>2. QED
      BY <1>1, <3>1 DEF CallsAnswered
  <2>3. CallersAsk(rest)
    BY <1>1, <1>2 DEF Whole, CallersAsk
  <2>4. QED
    BY <2>1, <2>2, <2>3 DEF Whole
<1>6. QED
  BY <1>4, <1>5 DEF first, rest

\* Whole lists in a row are one.
LEMMA JoinIsWhole ==
  ASSUME NEW m \in Lists, NEW n \in Lists, Whole(m), Whole(n)
  PROVE  Whole(m \o n)
<1> DEFINE j == m \o n
<1>1. /\ j \in Lists /\ Len(j) = Len(m) + Len(n)
      /\ \A i \in 1..Len(m) : j[i] = m[i]
      /\ \A i \in 1..Len(n) : j[Len(m) + i] = n[i]
  BY JoinIsTyped
<1> HIDE DEF j
<1>2. /\ Len(m) \in Nat /\ Len(n) \in Nat
      /\ \A i \in 1..Len(m) : m[i].calls \in Nat
      /\ \A i \in 1..Len(n) : n[i].calls \in Nat
  BY ListIsTyped, MessageFields
<1>3. ASSUME NEW i \in 1..Len(j)
      PROVE  i \in 1..Len(m) \/ (i - Len(m) \in 1..Len(n) /\ Len(m) + (i - Len(m)) = i)
  BY <1>1, <1>2
<1>4. ResultsStand(j)
  <2>1. ASSUME NEW i \in 1..Len(m), j[i].role = "tool"
        PROVE  \E a \in 1..(i - 1) : Asks(j, a, i)
    <3>1. PICK a \in 1..(i - 1) : Asks(m, a, i)
      BY <1>1, <2>1 DEF Whole, ResultsStand
    <3>2. a \in 1..Len(m)
      BY <1>2
    <3>3. QED
      BY <1>1, <3>1, <3>2 DEF Asks
  <2>2. ASSUME NEW i \in 1..Len(n), j[Len(m) + i].role = "tool"
        PROVE  \E a \in 1..(Len(m) + i - 1) : Asks(j, a, Len(m) + i)
    <3>1. PICK a \in 1..(i - 1) : Asks(n, a, i)
      BY <1>1, <2>2 DEF Whole, ResultsStand
    <3>2. a \in 1..Len(n) /\ Len(m) + a \in 1..(Len(m) + i - 1)
      BY <1>2
    <3>3. Len(m) + i <= Len(m) + a + n[a].calls
      BY <1>2, <3>1, <3>2 DEF Asks
    <3>4. Asks(j, Len(m) + a, Len(m) + i)
      BY <1>1, <3>1, <3>2, <3>3 DEF Asks
    <3>5. QED
      BY <3>2, <3>4
  <2>3. ASSUME NEW i \in 1..Len(j), j[i].role = "tool"
        PROVE  \E a \in 1..(i - 1) : Asks(j, a, i)
    <3>1. CASE i \in 1..Len(m)
      BY <2>1, <2>3, <3>1
    <3>2. CASE i \notin 1..Len(m)
      <4>1. i - Len(m) \in 1..Len(n) /\ Len(m) + (i - Len(m)) = i
        BY <1>3, <3>2
      <4>2. \E a \in 1..(Len(m) + (i - Len(m)) - 1) : Asks(j, a, Len(m) + (i - Len(m)))
        BY <2>2, <2>3, <4>1
      <4>3. QED
        BY <4>1, <4>2
    <3>3. QED
      BY <3>1, <3>2
  <2>4. QED
    BY <2>3 DEF ResultsStand
<1>5. CallsAnswered(j)
  <2>1. ASSUME NEW a \in 1..Len(m), NEW k \in 1..j[a].calls
        PROVE  a + k <= Len(j) /\ j[a + k].role = "tool" /\ j[a + k].group = j[a].id
    <3>1. j[a] = m[a] /\ m[a].calls \in Nat
      BY <1>1, <1>2
    <3>2. a + k <= Len(m) /\ m[a + k].role = "tool" /\ m[a + k].group = m[a].id
      BY <3>1 DEF Whole, CallsAnswered
    <3>3. a + k \in 1..Len(m) /\ a + k <= Len(j)
      BY <1>1, <1>2, <3>1, <3>2
    <3>4. QED
      BY <1>1, <3>1, <3>2, <3>3
  <2>2. ASSUME NEW a \in 1..Len(n), NEW k \in 1..j[Len(m) + a].calls
        PROVE  /\ Len(m) + a + k <= Len(j) /\ j[Len(m) + a + k].role = "tool"
               /\ j[Len(m) + a + k].group = j[Len(m) + a].id
    <3>1. j[Len(m) + a] = n[a] /\ n[a].calls \in Nat
      BY <1>1, <1>2
    <3>2. a + k <= Len(n) /\ n[a + k].role = "tool" /\ n[a + k].group = n[a].id
      BY <3>1 DEF Whole, CallsAnswered
    <3>3. a + k \in 1..Len(n) /\ Len(m) + (a + k) <= Len(j) /\ Len(m) + (a + k) = Len(m) + a + k
      BY <1>1, <1>2, <3>1, <3>2
    <3>4. j[Len(m) + a + k] = n[a + k]
      BY <1>1, <3>3
    <3>5. QED
      BY <3>1, <3>2, <3>3, <3>4
  <2>3. ASSUME NEW a \in 1..Len(j), NEW k \in 1..j[a].calls
        PROVE  a + k <= Len(j) /\ j[a + k].role = "tool" /\ j[a + k].group = j[a].id
    <3>1. CASE a \in 1..Len(m)
      BY <2>1, <2>3, <3>1
    <3>2. CASE a \notin 1..Len(m)
      <4>1. a - Len(m) \in 1..Len(n) /\ Len(m) + (a - Len(m)) = a
        BY <1>3, <3>2
      <4> DEFINE b == a - Len(m)
      <4>2. b \in 1..Len(n) /\ Len(m) + b = a
        BY <4>1
      <4> HIDE DEF b
      <4>3. QED
        BY <2>2, <2>3, <4>2
    <3>3. QED
      BY <3>1, <3>2
  <2>4. QED
    BY <2>3 DEF CallsAnswered
<1>6. CallersAsk(j)
  <2>1. ASSUME NEW a \in 1..Len(j), j[a].calls > 0 PROVE j[a].role = "assistant"
    <3>1. CASE a \in 1..Len(m)
      BY <1>1, <2>1, <3>1 DEF Whole, CallersAsk
    <3>2. CASE a \notin 1..Len(m)
      <4>1. a - Len(m) \in 1..Len(n) /\ Len(m) + (a - Len(m)) = a
        BY <1>3, <3>2
      <4>2. j[a] = n[a - Len(m)]
        BY <1>1, <4>1
      <4>3. QED
        BY <2>1, <4>1, <4>2 DEF Whole, CallersAsk
    <3>3. QED
      BY <3>1, <3>2
  <2>2. QED
    BY <2>1 DEF CallersAsk
<1>7. QED
  BY <1>4, <1>5, <1>6 DEF Whole, j

\* A message that is no result and asks for none.
LEMMA OneIsWhole ==
  ASSUME NEW x \in Messages, x.role # "tool", x.calls = 0
  PROVE  <<x>> \in Lists /\ Whole(<<x>>)
<1>1. <<x>> \in Lists /\ Len(<<x>>) = 1 /\ <<x>>[1] = x
  BY DEF Lists
<1> DEFINE m == <<x>>
<1> HIDE DEF m
<1>2. m \in Lists /\ Len(m) = 1 /\ m[1] = x
  BY <1>1 DEF m
<1>3. Whole(m)
  BY <1>2 DEF Whole, ResultsStand, CallsAnswered, CallersAsk
<1>4. QED
  BY <1>1, <1>3 DEF m

LEMMA AppendIsWhole ==
  ASSUME NEW m \in Lists, Whole(m), NEW x \in Messages, x.role # "tool", x.calls = 0
  PROVE  Whole(Append(m, x))
<1>1. Append(m, x) = m \o <<x>>
  BY AppendIsConcat DEF Lists
<1>2. QED
  BY <1>1, OneIsWhole, JoinIsWhole

\* Folding changes no group.
LEMMA FoldIsWhole == \A m \in Lists : Whole(m) => Whole(W!Fold(m))
<1> SUFFICES ASSUME NEW m \in Lists, Whole(m) PROVE Whole(W!Fold(m))
  OBVIOUS
<1> DEFINE n == W!Fold(m)
<1>1. n \in Lists /\ Len(n) = Len(m) /\ \A i \in 1..Len(m) : SameGroups(n[i], m[i])
  BY FoldIsTyped
<1> HIDE DEF n
<1>2. Len(m) \in Nat /\ \A i \in 1..Len(m) : m[i].calls \in Nat
  BY ListIsTyped, MessageFields
<1>3. ResultsStand(n)
  <2>1. ASSUME NEW i \in 1..Len(m), n[i].role = "tool"
        PROVE  \E a \in 1..(i - 1) : Asks(n, a, i)
    <3>1. PICK a \in 1..(i - 1) : Asks(m, a, i)
      BY <1>1, <2>1 DEF Whole, ResultsStand, SameGroups
    <3>2. a \in 1..Len(m)
      BY <1>2
    <3>3. QED
      BY <1>1, <3>1, <3>2 DEF Asks, SameGroups
  <2>2. QED
    BY <1>1, <2>1 DEF ResultsStand
<1>4. CallsAnswered(n)
  <2>1. ASSUME NEW a \in 1..Len(m), NEW k \in 1..n[a].calls
        PROVE  a + k <= Len(m) /\ n[a + k].role = "tool" /\ n[a + k].group = n[a].id
    <3>1. n[a].calls = m[a].calls /\ n[a].id = m[a].id /\ m[a].calls \in Nat
      BY <1>1, <1>2 DEF SameGroups
    <3>2. a + k <= Len(m) /\ m[a + k].role = "tool" /\ m[a + k].group = m[a].id
      BY <3>1 DEF Whole, CallsAnswered
    <3>3. a + k \in 1..Len(m)
      BY <1>2, <3>1, <3>2
    <3>4. QED
      BY <1>1, <3>1, <3>2, <3>3 DEF SameGroups
  <2>2. QED
    BY <1>1, <2>1 DEF CallsAnswered
<1>5. CallersAsk(n)
  BY <1>1 DEF Whole, CallersAsk, SameGroups
<1>6. QED
  BY <1>3, <1>4, <1>5 DEF Whole, n

\* A summary stands where groups may be cut.
LEMMA SummaryIsWhole ==
  ASSUME NEW m \in Lists, Whole(m), W!CanSummarize(m), next \in Nat
  PROVE  Whole(W!Summarized(m))
<1> DEFINE f == W!FirstUser(m)
           e == W!End(m)
           sum == [W!Message("system", next, 0, 0, 1) EXCEPT !.covers = W!Ids(SubSeq(m, f + 1, e))]
           head == SubSeq(m, 1, f)
           rest == SubSeq(m, e + 1, Len(m))
<1>1. /\ Len(m) \in Nat /\ f \in Nat /\ e \in Nat /\ 1 <= f /\ f < e /\ e < Len(m)
      /\ f \in 0..Len(m) /\ e \in 0..Len(m) /\ f \in 1..Len(m) /\ f + 1 \in 1..Len(m)
      /\ m[f].role = "user" /\ m[e + 1].role # "tool"
  BY SummaryCuts, ListIsTyped
<1>2. m[f + 1].role # "tool"
  <2>1. SUFFICES ASSUME m[f + 1].role = "tool" PROVE FALSE
    OBVIOUS
  <2>2. PICK a \in 1..f : Asks(m, a, f + 1)
    BY <1>1, <2>1 DEF Whole, ResultsStand
  <2>3. a # f
    BY <1>1, <2>2 DEF Asks
  <2>4. a \in 1..(f + 1 - 1) /\ f \in (a + 1)..(f + 1)
    BY <1>1, <2>3
  <2>5. m[f].role = "tool"
    BY <1>1, <2>2, <2>4, BetweenAreResults
  <2>6. QED
    BY <1>1, <2>5
<1>3. Whole(head) /\ Whole(rest) /\ head \in Lists /\ rest \in Lists
  BY <1>1, <1>2, CutIsWhole, SplitIsTyped
<1>4. sum \in Messages /\ sum.role = "system" /\ sum.calls = 0
  <2>1. sum.role = "system" /\ sum.calls = 0 /\ sum.covers = W!Ids(SubSeq(m, f + 1, e))
    BY DEF W!Message
  <2>2. SubSeq(m, f + 1, e) \in Lists
    <3>1. \A i \in (f + 1)..e : m[i] \in Messages
      BY <1>1, ListIsTyped
    <3>2. QED
      BY <1>1, <3>1, SubSeqProperties DEF Lists
  <2>3. W!Ids(SubSeq(m, f + 1, e)) \in SUBSET Nat
    BY <2>2, ListIsTyped, MessageFields, IdsStand DEF StandsAt
  <2>4. sum \in Messages
    BY <2>3 DEF Messages, W!Message
  <2>5. QED
    BY <2>1, <2>4
<1>5. W!Summarized(m) = head \o <<sum>> \o rest
  BY DEF W!Summarized, W!Kept
<1> HIDE DEF head, rest, sum
<1>6. <<sum>> \in Lists /\ Whole(<<sum>>)
  <2>1. sum.role # "tool"
    BY <1>4
  <2>2. QED
    BY <1>4, <2>1, OneIsWhole
<1>7. head \o <<sum>> \in Lists /\ Whole(head \o <<sum>>)
  BY <1>3, <1>6, JoinIsTyped, JoinIsWhole
<1>8. Whole((head \o <<sum>>) \o rest)
  BY <1>3, <1>7, JoinIsWhole
<1>9. QED
  BY <1>5, <1>8

\* A step adds a group.
LEMMA StepIsWhole ==
  ASSUME NEW m \in Lists, Whole(m), next \in Nat, NEW n, NEW k \in 1..2, Stepped(m, n, k)
  PROVE  Whole(n)
<1> DEFINE l == Len(m)
<1>1. /\ n \in Lists /\ Len(n) = l + 1 + k /\ (\A i \in 1..l : n[i] = m[i])
      /\ n[l + 1].role = "assistant" /\ n[l + 1].id = next /\ n[l + 1].calls = k
      /\ \A i \in 1..k : /\ n[l + 1 + i].role = "tool" /\ n[l + 1 + i].id = next + i
                         /\ n[l + 1 + i].group = next /\ n[l + 1 + i].calls = 0
  BY DEF Stepped, Begins
<1>2. l \in Nat /\ k \in Nat /\ \A i \in 1..l : m[i].calls \in Nat
  BY ListIsTyped, MessageFields
<1> HIDE DEF l
<1>3. ASSUME NEW i \in 1..Len(n)
      PROVE  i \in 1..l \/ i = l + 1 \/ (i - (l + 1) \in 1..k /\ l + 1 + (i - (l + 1)) = i)
  BY <1>1, <1>2
<1>4. ResultsStand(n)
  <2>1. ASSUME NEW i \in 1..Len(n), n[i].role = "tool"
        PROVE  \E a \in 1..(i - 1) : Asks(n, a, i)
    <3>1. CASE i \in 1..l
      <4>1. PICK a \in 1..(i - 1) : Asks(m, a, i)
        BY <1>1, <2>1, <3>1 DEF Whole, ResultsStand, l
      <4>2. a \in 1..l
        BY <1>2, <3>1
      <4>3. QED
        BY <1>1, <3>1, <4>1, <4>2 DEF Asks
    <3>2. CASE i \notin 1..l
      <4>1. i # l + 1
        BY <1>1, <2>1
      <4>2. i - (l + 1) \in 1..k /\ l + 1 + (i - (l + 1)) = i
        BY <1>3, <3>2, <4>1
      <4>3. n[i].group = next
        BY <1>1, <4>2
      <4>4. l + 1 \in 1..(i - 1) /\ i <= l + 1 + k
        BY <1>1, <1>2, <4>2
      <4>5. Asks(n, l + 1, i)
        BY <1>1, <4>3, <4>4 DEF Asks
      <4>6. QED
        BY <4>4, <4>5
    <3>3. QED
      BY <3>1, <3>2
  <2>2. QED
    BY <2>1 DEF ResultsStand
<1>5. CallsAnswered(n)
  <2>1. ASSUME NEW a \in 1..Len(n), NEW j \in 1..n[a].calls
        PROVE  a + j <= Len(n) /\ n[a + j].role = "tool" /\ n[a + j].group = n[a].id
    <3>1. CASE a \in 1..l
      <4>1. n[a] = m[a] /\ m[a].calls \in Nat
        BY <1>1, <1>2, <3>1
      <4>2. a + j <= l /\ m[a + j].role = "tool" /\ m[a + j].group = m[a].id
        BY <3>1, <4>1 DEF Whole, CallsAnswered, l
      <4>3. a + j \in 1..l /\ a + j <= Len(n)
        BY <1>1, <1>2, <3>1, <4>1, <4>2
      <4>4. QED
        BY <1>1, <4>1, <4>2, <4>3
    <3>2. CASE a = l + 1
      <4>1. j \in 1..k /\ a + j <= Len(n)
        BY <1>1, <1>2, <3>2
      <4>2. QED
        BY <1>1, <3>2, <4>1
    <3>3. CASE a - (l + 1) \in 1..k /\ l + 1 + (a - (l + 1)) = a
      <4>1. n[a].calls = 0
        BY <1>1, <3>3
      <4>2. QED
        BY <4>1
    <3>4. QED
      BY <1>3, <3>1, <3>2, <3>3
  <2>2. QED
    BY <2>1 DEF CallsAnswered
<1>6. CallersAsk(n)
  <2>1. ASSUME NEW a \in 1..Len(n), n[a].calls > 0 PROVE n[a].role = "assistant"
    <3>1. CASE a \in 1..l
      BY <1>1, <2>1, <3>1 DEF Whole, CallersAsk, l
    <3>2. CASE a = l + 1
      BY <1>1, <3>2
    <3>3. CASE a - (l + 1) \in 1..k /\ l + 1 + (a - (l + 1)) = a
      <4>1. n[a].calls = 0
        BY <1>1, <3>3
      <4>2. QED
        BY <2>1, <4>1
    <3>4. QED
      BY <1>3, <3>1, <3>2, <3>3
  <2>2. QED
    BY <2>1 DEF CallersAsk
<1>7. QED
  BY <1>4, <1>5, <1>6 DEF Whole

WholeInv == KeptInv /\ Whole(window)

LEMMA WholeNext == WholeInv /\ [W!Next]_windowVars => WholeInv'
<1> SUFFICES ASSUME WholeInv, [W!Next]_windowVars PROVE WholeInv'
  OBVIOUS
<1>1. KeptInv' /\ window \in Lists /\ next \in Nat
  BY KeptNext DEF WholeInv, KeptInv, WindowTypes
<1>2. Whole(window)
  BY DEF WholeInv
<1>3. ASSUME NEW role \in {"user", "assistant"}, window' = Append(window, W!Message(role, next, 0, 0, 1))
      PROVE  Whole(window')
  <2> DEFINE x == W!Message(role, next, 0, 0, 1)
  <2>1. x \in Messages /\ x.role # "tool" /\ x.calls = 0
    BY <1>1 DEF W!Message, Messages
  <2>2. window' = Append(window, x)
    BY <1>3
  <2> HIDE DEF x
  <2>3. Whole(Append(window, x))
    BY <1>1, <1>2, <2>1, AppendIsWhole
  <2>4. QED
    BY <2>2, <2>3
<1>4. CASE W!Asked
  <2>1. window' = Append(window, W!Message("user", next, 0, 0, 1))
    BY <1>4 DEF W!Asked
  <2>2. QED
    BY <1>1, <1>3, <2>1 DEF WholeInv
<1>5. CASE W!Truncate
  <2> DEFINE d == W!DropCount(window)
  <2>1. window' = SubSeq(window, d + 1, Len(window))
    BY <1>5 DEF W!Truncate
  <2>2. CutAt(window, d)
    BY <1>1, DropIsACut
  <2> HIDE DEF d
  <2>3. d \in 0..Len(window) /\ (d = Len(window) \/ window[d + 1].role # "tool")
    <3>1. d \in 0..Len(window) /\ Len(window) \in Nat
      BY <1>1, <2>2, ListIsTyped DEF CutAt
    <3>2. SUFFICES ASSUME d # Len(window), window[d + 1].role = "tool" PROVE FALSE
      BY <3>1
    <3>3. d + 1 \in 1..Len(window)
      BY <3>1, <3>2
    <3>4. W!InGroup(window, d + 1)
      BY <1>1, <1>2, <3>2, <3>3, ResultsAreInGroups
    <3>5. d = 0
      BY <2>2, <3>2, <3>4 DEF CutAt
    <3>6. QED
      BY <3>4, <3>5 DEF W!InGroup
  <2>4. Whole(SubSeq(window, d + 1, Len(window)))
    BY <1>1, <1>2, <2>3, CutIsWhole
  <2>5. QED
    BY <1>1, <2>1, <2>4 DEF WholeInv
<1>6. CASE W!Compact
  <2> DEFINE folded == W!Fold(window)
  <2>1. \/ window' = window
        \/ window' = folded
        \/ W!CanSummarize(folded) /\ window' = W!Summarized(folded)
    BY <1>6 DEF W!Compact
  <2>2. folded \in Lists /\ Whole(folded)
    BY <1>1, <1>2, FoldIsTyped, FoldIsWhole
  <2> HIDE DEF folded
  <2>3. ASSUME W!CanSummarize(folded) PROVE Whole(W!Summarized(folded))
    BY <1>1, <2>2, <2>3, SummaryIsWhole
  <2>4. Whole(window')
    BY <1>2, <2>1, <2>2, <2>3
  <2>5. QED
    BY <1>1, <2>4 DEF WholeInv
<1>7. CASE W!Step
  <2>1. PICK k \in 1..2 : Stepped(window, window', k)
    BY <1>7, StepAdds DEF WholeInv, KeptInv
  <2>2. Whole(window')
    BY <1>1, <1>2, <2>1, StepIsWhole
  <2>3. QED
    BY <1>1, <2>2 DEF WholeInv
<1>8. CASE W!RunEnds
  <2>1. window' = window \/ window' = Append(window, W!Message("assistant", next, 0, 0, 1))
    BY <1>8 DEF W!RunEnds
  <2>2. Whole(window')
    BY <1>2, <1>3, <2>1
  <2>3. QED
    BY <1>1, <2>2 DEF WholeInv
<1>9. CASE UNCHANGED windowVars
  <2>1. window' = window
    BY <1>9 DEF windowVars
  <2>2. QED
    BY <1>1, <1>2, <2>1 DEF WholeInv
<1>10. QED
  BY <1>4, <1>5, <1>6, <1>7, <1>8, <1>9 DEF W!Next

LEMMA WholeInit == AllInit => WholeInv
<1>1. AllInit => window = << >>
  BY DEF AllInit, W!Init
<1>2. Len(<< >>) = 0
  OBVIOUS
<1>3. Whole(<< >>)
  BY <1>2 DEF Whole, ResultsStand, CallsAnswered, CallersAsk
<1>4. QED
  BY <1>1, <1>3, KeptInit DEF WholeInv

-------------------------------------------------------------------------------
(* The window: the list a client makes of it.                                 *)

\* The places of the messages that are sent, one after the other.
LEMMA PlaceGrows ==
  ASSUME NEW n \in Nat, NEW s \in SUBSET (1..n)
  PROVE  /\ W!Cardinality(s) \in Nat
         /\ \A i \in Nat : W!Place(s, i) \in Nat
         /\ W!Place(s, 0) = 0 /\ W!Place(s, n) = W!Cardinality(s)
         /\ \A i \in Nat : /\ i + 1 \in s => W!Place(s, i + 1) = W!Place(s, i) + 1
                           /\ i + 1 \notin s => W!Place(s, i + 1) = W!Place(s, i)
<1>0. \A j \in s : j \in Nat /\ j >= 1 /\ j <= n
  OBVIOUS
<1>1. \A t : W!Cardinality(t) = Cardinality(t)
  BY DEF W!Cardinality, Cardinality
<1>2. \A t \in SUBSET s : IsFiniteSet(t) /\ Cardinality(t) \in Nat
  <2>1. IsFiniteSet(1..n)
    BY FS_Interval
  <2>2. \A t \in SUBSET s : IsFiniteSet(t)
    BY <2>1, FS_Subset
  <2>3. QED
    BY <2>2, FS_CardinalityType
<1>3. \A i : W!Place(s, i) = Cardinality({j \in s : j <= i})
  BY <1>1 DEF W!Place
<1>4. \A i \in Nat : W!Place(s, i) \in Nat
  BY <1>2, <1>3
<1>5. W!Place(s, 0) = 0
  <2>1. {j \in s : j <= 0} = {}
    <3>1. \A j \in s : ~(j <= 0)
      BY <1>0
    <3>2. QED
      BY <3>1, Zenon
  <2>2. QED
    BY <1>3, <2>1, FS_EmptySet
<1>6. W!Place(s, n) = W!Cardinality(s)
  <2>1. {j \in s : j <= n} = s
    BY <1>0
  <2>2. QED
    BY <1>1, <1>3, <2>1
<1>7. ASSUME NEW i \in Nat, i + 1 \in s PROVE W!Place(s, i + 1) = W!Place(s, i) + 1
  <2> DEFINE t == {j \in s : j <= i}
  <2>1. {j \in s : j <= i + 1} = t \cup {i + 1} /\ i + 1 \notin t
    <3>1. \A j \in s : (j <= i + 1 <=> j <= i \/ j = i + 1)
      BY <1>0
    <3>2. i + 1 <= i + 1 /\ ~(i + 1 <= i)
      OBVIOUS
    <3>3. \A j : j \in {k \in s : k <= i + 1} <=> j \in t \cup {i + 1}
      BY <1>7, <3>1, <3>2, Zenon
    <3>4. QED
      BY <3>2, <3>3, Zenon
  <2>2. IsFiniteSet(t)
    BY <1>2
  <2>3. Cardinality(t \cup {i + 1}) = Cardinality(t) + 1
    BY <2>1, <2>2, FS_AddElement
  <2>4. QED
    BY <1>3, <2>1, <2>3
<1>8. ASSUME NEW i \in Nat, i + 1 \notin s PROVE W!Place(s, i + 1) = W!Place(s, i)
  <2>1. {j \in s : j <= i + 1} = {j \in s : j <= i}
    <3>1. \A j \in s : (j <= i + 1 <=> j <= i)
      BY <1>0, <1>8
    <3>2. \A j : j \in {k \in s : k <= i + 1} <=> j \in {k \in s : k <= i}
      BY <3>1, Zenon
    <3>3. QED
      BY <3>2, Zenon
  <2>2. QED
    BY <1>3, <2>1
<1>9. W!Cardinality(s) \in Nat
  BY <1>1, <1>2
<1>10. QED
  BY <1>4, <1>5, <1>6, <1>7, <1>8, <1>9

\* Every place is taken.
LEMMA PlaceTaken ==
  ASSUME NEW n \in Nat, NEW s \in SUBSET (1..n), NEW k \in 1..W!Cardinality(s)
  PROVE  \E i \in s : W!Place(s, i) = k
<1>1. /\ W!Cardinality(s) \in Nat /\ k \in Nat /\ k > 0 /\ k <= W!Cardinality(s)
      /\ \A i \in Nat : W!Place(s, i) \in Nat
      /\ W!Place(s, 0) = 0 /\ W!Place(s, n) = W!Cardinality(s)
      /\ \A i \in Nat : /\ i + 1 \in s => W!Place(s, i + 1) = W!Place(s, i) + 1
                        /\ i + 1 \notin s => W!Place(s, i + 1) = W!Place(s, i)
  BY PlaceGrows
<1> DEFINE far == {i \in Nat : W!Place(s, i) >= k}
<1>2. far \in SUBSET Nat /\ n \in far
  BY <1>1
<1>3. PICK x \in far : \A y \in far : x <= y
  BY <1>2, LeastOne
<1>4. x \in Nat /\ x # 0 /\ W!Place(s, x) >= k
  BY <1>1, <1>3
<1>5. x - 1 \in Nat /\ x - 1 \notin far /\ (x - 1) + 1 = x
  <2>1. x - 1 \in Nat /\ (x - 1) + 1 = x /\ ~(x <= x - 1)
    BY <1>4
  <2>2. QED
    BY <1>3, <2>1
<1>6. W!Place(s, x - 1) < k /\ W!Place(s, x - 1) \in Nat
  BY <1>1, <1>5
<1>7. x \in s
  BY <1>1, <1>4, <1>5, <1>6
<1>8. W!Place(s, x) = W!Place(s, x - 1) + 1
  BY <1>1, <1>5, <1>7
<1>9. QED
  BY <1>1, <1>4, <1>6, <1>7, <1>8

\* What stands in a row has places in a row.
LEMMA PlacesInARow ==
  ASSUME NEW n \in Nat, NEW s \in SUBSET (1..n), NEW i \in Nat, NEW c \in Nat,
         \A j \in 1..c : i + j \in s
  PROVE  \A j \in 0..c : W!Place(s, i + j) = W!Place(s, i) + j
<1>1. /\ \A j \in Nat : W!Place(s, j) \in Nat
      /\ \A j \in Nat : j + 1 \in s => W!Place(s, j + 1) = W!Place(s, j) + 1
  BY PlaceGrows
<1> DEFINE bad == {j \in 0..c : W!Place(s, i + j) # W!Place(s, i) + j}
<1>2. SUFFICES ASSUME bad # {} PROVE FALSE
  OBVIOUS
<1>3. PICK x \in bad : \A y \in bad : x <= y
  <2>1. bad \in SUBSET Nat
    OBVIOUS
  <2> HIDE DEF bad
  <2>2. QED
    BY <1>2, <2>1, LeastOne
<1>4. x \in 0..c /\ W!Place(s, i + x) # W!Place(s, i) + x
  BY <1>3
<1>5. x # 0
  <2>1. i + 0 = i /\ W!Place(s, i) + 0 = W!Place(s, i)
    BY <1>1
  <2>2. QED
    BY <1>4, <2>1
<1>6. x - 1 \in 0..c /\ ~(x <= x - 1) /\ x \in 1..c /\ (i + (x - 1)) + 1 = i + x /\ i + (x - 1) \in Nat
  BY <1>4, <1>5
<1>7. W!Place(s, i + (x - 1)) = W!Place(s, i) + (x - 1)
  <2>1. x - 1 \notin bad
    BY <1>3, <1>6
  <2>2. QED
    BY <1>6, <2>1
<1>8. W!Place(s, i + x) = W!Place(s, i + (x - 1)) + 1
  BY <1>1, <1>6
<1>9. QED
  BY <1>1, <1>4, <1>6, <1>7, <1>8

\* Places do not go back, and no two messages have the same.
LEMMA PlaceIsOnes ==
  ASSUME NEW n \in Nat, NEW s \in SUBSET (1..n), NEW i \in s, NEW j \in s,
         W!Place(s, i) = W!Place(s, j)
  PROVE  i = j
<1>1. ASSUME NEW a \in s, NEW b \in s, a < b PROVE W!Place(s, a) < W!Place(s, b)
  <2>1. /\ \A k \in Nat : W!Place(s, k) \in Nat
        /\ \A k \in Nat : /\ k + 1 \in s => W!Place(s, k + 1) = W!Place(s, k) + 1
                          /\ k + 1 \notin s => W!Place(s, k + 1) = W!Place(s, k)
    BY PlaceGrows
  <2> DEFINE bad == {k \in Nat : k >= a /\ W!Place(s, k) < W!Place(s, a)}
  <2>2. bad = {}
    <3>1. SUFFICES ASSUME bad # {} PROVE FALSE
      OBVIOUS
    <3>2. PICK x \in bad : \A y \in bad : x <= y
      BY <3>1, LeastOne
    <3>3. x \in Nat /\ x > a /\ W!Place(s, x) < W!Place(s, a) /\ a \in Nat
      BY <2>1, <3>2
    <3>4. x - 1 \in Nat /\ x - 1 >= a /\ (x - 1) + 1 = x /\ ~(x <= x - 1)
      BY <3>3
    <3>5. x - 1 \notin bad
      BY <3>2, <3>4
    <3>6. W!Place(s, x) >= W!Place(s, x - 1)
      BY <2>1, <3>4
    <3>7. QED
      BY <2>1, <3>3, <3>4, <3>5, <3>6
  <2>3. b - 1 \in Nat /\ b - 1 >= a /\ (b - 1) + 1 = b
    BY <1>1
  <2>4. W!Place(s, b - 1) >= W!Place(s, a)
    BY <2>1, <2>2, <2>3
  <2>5. W!Place(s, b) = W!Place(s, b - 1) + 1
    BY <2>1, <2>3
  <2>6. QED
    BY <2>1, <2>3, <2>4, <2>5
<1>2. i \in Nat /\ j \in Nat
  OBVIOUS
<1>3. W!Place(s, i) \in Nat /\ W!Place(s, j) \in Nat
  BY <1>2, PlaceGrows
<1>4. QED
  BY <1>1, <1>2, <1>3

\* No place is behind the last.
LEMMA PlaceIsBelow ==
  ASSUME NEW n \in Nat, NEW s \in SUBSET (1..n), NEW i \in s
  PROVE  W!Place(s, i) <= W!Cardinality(s)
<1>1. /\ \A k \in Nat : W!Place(s, k) \in Nat
      /\ W!Place(s, n) = W!Cardinality(s)
      /\ \A k \in Nat : /\ k + 1 \in s => W!Place(s, k + 1) = W!Place(s, k) + 1
                        /\ k + 1 \notin s => W!Place(s, k + 1) = W!Place(s, k)
  BY PlaceGrows
<1> DEFINE bad == {k \in Nat : k <= n /\ k >= i /\ W!Place(s, k) < W!Place(s, i)}
<1>2. bad = {}
  <2>1. SUFFICES ASSUME bad # {} PROVE FALSE
    OBVIOUS
  <2>2. PICK x \in bad : \A y \in bad : x <= y
    BY <2>1, LeastOne
  <2>3. x \in Nat /\ x > i /\ x <= n /\ W!Place(s, x) < W!Place(s, i) /\ i \in Nat
    BY <1>1, <2>2
  <2>4. x - 1 \in Nat /\ x - 1 >= i /\ x - 1 <= n /\ (x - 1) + 1 = x /\ ~(x <= x - 1)
    BY <2>3
  <2>5. x - 1 \notin bad
    BY <2>2, <2>4
  <2>6. W!Place(s, x) >= W!Place(s, x - 1)
    BY <1>1, <2>4
  <2>7. QED
    BY <1>1, <2>3, <2>4, <2>5, <2>6
<1>3. n >= i /\ n \notin bad /\ i \in Nat
  BY <1>2
<1>4. QED
  BY <1>1, <1>3

LEMMA WholeMeans == WholeInv => SentIsWhole
<1> SUFFICES ASSUME WholeInv PROVE SentIsWhole
  OBVIOUS
<1> DEFINE n == Len(window)
           s == W!Sendable(window)
           out == W!Conversation(window)
           nth(k) == CHOOSE i \in s : W!Place(s, i) = k
<1>1. window \in Lists /\ Whole(window) /\ n \in Nat /\ DOMAIN window = 1..n
      /\ \A i \in 1..n : window[i].calls \in Nat
  BY ListIsTyped, MessageFields DEF WholeInv, KeptInv, WindowTypes
<1>2. ASSUME NEW i \in 1..n, window[i].role = "tool" PROVE W!KeepsResult(window, i)
  <2>1. PICK a \in 1..(i - 1) : Asks(window, a, i)
    BY <1>1, <1>2 DEF Whole, ResultsStand
  <2>2. \A k \in (a + 1)..i : window[k].role = "tool"
    BY <1>1, <1>2, <2>1, BetweenAreResults 
  <2>3. QED
    BY <2>1, <2>2 DEF Asks, W!KeepsResult
<1>3. s = {i \in 1..n : window[i].role # "system"}
  BY <1>1, <1>2 DEF W!Sendable
<1>4. /\ out = [k \in 1..W!Cardinality(s) |-> window[nth(k)]]
      /\ \A k \in 1..W!Cardinality(s) : nth(k) \in s /\ W!Place(s, nth(k)) = k
  <2>1. s \in SUBSET (1..n)
    BY <1>3
  <2> HIDE DEF s, n
  <2>2. out = [k \in 1..W!Cardinality(s) |-> window[nth(k)]]
    BY DEF W!Conversation, s
  <2>3. ASSUME NEW k \in 1..W!Cardinality(s) PROVE nth(k) \in s /\ W!Place(s, nth(k)) = k
    <3>1. \E i \in s : W!Place(s, i) = k
      BY <1>1, <2>1, PlaceTaken
    <3>2. QED
      BY <3>1
  <2>4. QED
    BY <2>2, <2>3
<1>5. s \in SUBSET (1..n) /\ W!Cardinality(s) \in Nat
  <2>1. s \in SUBSET (1..n)
    BY <1>3
  <2> HIDE DEF s
  <2>2. QED
    BY <1>1, <2>1, PlaceGrows
<1> HIDE DEF s, n, out, nth
<1>6. ASSUME NEW k \in 1..W!Cardinality(s), NEW c \in 1..out[k].calls
      PROVE  k + c \in DOMAIN out /\ out[k + c].group = out[k].id
  <2> DEFINE i == nth(k)
  <2>1. i \in s /\ W!Place(s, i) = k /\ i \in 1..n /\ out[k] = window[i] /\ window[i].calls \in Nat
    BY <1>1, <1>4, <1>5
  <2> HIDE DEF i
  <2>2. ASSUME NEW j \in 1..window[i].calls PROVE i + j \in s /\ window[i + j].group = window[i].id
    <3>1. i + j <= n /\ window[i + j].role = "tool" /\ window[i + j].group = window[i].id
      BY <1>1, <2>1 DEF Whole, CallsAnswered, n
    <3>2. i + j \in 1..n
      BY <1>1, <2>1, <3>1
    <3>3. QED
      BY <1>3, <3>1, <3>2
  <2>3. c \in 1..window[i].calls /\ c \in 0..window[i].calls /\ i \in Nat
    BY <1>6, <2>1
  <2>4. W!Place(s, i + c) = k + c
    <3>1. \A j \in 0..window[i].calls : W!Place(s, i + j) = W!Place(s, i) + j
      BY <1>1, <1>5, <2>1, <2>2, <2>3, PlacesInARow
    <3>2. QED
      BY <2>1, <2>3, <3>1
  <2>5. k + c \in 1..W!Cardinality(s)
    <3>1. W!Place(s, n) = W!Cardinality(s) /\ \A j \in Nat : W!Place(s, j) \in Nat
      BY <1>1, <1>5, PlaceGrows
    <3>2. k + c <= W!Cardinality(s)
      BY <1>1, <1>5, <2>2, <2>3, <2>4, PlaceIsBelow
    <3>3. QED
      BY <1>5, <2>3, <3>2
  <2>6. nth(k + c) = i + c
    <3>1. nth(k + c) \in s /\ W!Place(s, nth(k + c)) = k + c
      BY <1>4, <2>5
    <3>2. QED
      BY <1>1, <1>5, <2>2, <2>3, <2>4, <3>1, PlaceIsOnes
  <2>7. QED
    BY <1>4, <2>1, <2>2, <2>3, <2>5, <2>6
<1>7. QED
  BY <1>1, <1>2, <1>4, <1>6 DEF SentIsWhole, W!SentIsWhole, out

\* Whatever was cut, folded and summarised before it, what is out has every call with all
\* of its results right behind it, and no result without its call: the hosted models refuse
\* anything else (context/window.py, context/compactor.py, model/anthropic.py).  For every
\* limit and every number of messages kept.
THEOREM GroupsAreSentWhole == AllSpec => []SentIsWhole
<1>1. WholeInv /\ [AllNext]_allVars => WholeInv'
  BY WholeNext, PartsApart
<1>2. QED
  BY WholeInit, <1>1, WholeMeans, PTL DEF AllSpec
===============================================================================
