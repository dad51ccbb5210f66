----------------------------- MODULE WebChatProofs -----------------------------
(***************************************************************************)
(* Proofs about WebChat, for any number of streams, conversations, model   *)
(* settings and requests: its types, that memory, files and index agree,   *)
(* that conversations do not mix, that the busy flag is never left, that   *)
(* the model of one run is put back and what takes an answer away.         *)
(***************************************************************************)
EXTENDS WebChat, SequenceTheorems, TLAPS

\* The requests that leave the store and the session's conversation alone.
Quiet == UNCHANGED <<storeVars, sessionVars, conv, window>>

\* The ones that do not.
StoreStep ==
    \/ \E s \in Streams : Prepared(s) \/ RunEnds(s)
    \/ NewConversation \/ DeleteActiveBusy \/ DeleteActive \/ DeleteLast \/ Cut
    \/ \E c \in Convs : Switch(c) \/ DeleteOther(c)

\* Every other request, and every other step of a stream, is quiet.
LEMMA QuietOrStore == [Next]_vars => Quiet \/ StoreStep
<1> SUFFICES ASSUME [Next]_vars, ~StoreStep PROVE Quiet
  OBVIOUS
<1> USE DEF Quiet, streamVars
<1>1. CASE UNCHANGED vars
  BY <1>1 DEF vars
<1>2. CASE CutArrives \/ CutRefused \/ ReloadBegins \/ ReloadEnds \/ ReviewArrives
           \/ ReviewRuns \/ ReviewEnds
  BY <1>2 DEF CutArrives, CutRefused, ReloadBegins, ReloadEnds, ReviewArrives, ReviewRuns,
              ReviewEnds
<1>3. ASSUME NEW s \in Streams,
             \/ StreamArrives(s) \/ BeginPrepare(s) \/ StartRun(s) \/ RunStarts(s)
             \/ Remembered(s) \/ GiveUp(s) \/ Leave(s) \/ OrphanCloses(s) \/ EndStream(s)
             \/ CloseClient(s) \/ RestoreClient(s)
      PROVE  Quiet
  BY <1>3 DEF StreamArrives, BeginPrepare, StartRun, RunStarts, Remembered, GiveUp, Leave,
              OrphanCloses, EndStream, CloseClient, RestoreClient
<1>4. QED
  BY <1>1, <1>2, <1>3 DEF Next, HandlerStep, StreamStep, StoreStep

-------------------------------------------------------------------------------
(* The index is a sequence of conversations without repetition.               *)

Members(r) == {r[i] : i \in DOMAIN r}
Once(r) == \A i, j \in DOMAIN r : r[i] = r[j] => i = j

\* Taking a conversation out of an index leaves the others, in their order.
LEMMA WithoutIsIndex ==
  ASSUME NEW r \in Seq(Convs), Once(r), NEW c
  PROVE  /\ Without(c, r) \in Seq(Convs)
         /\ Once(Without(c, r))
         /\ Members(Without(c, r)) = Members(r) \ {c}
<1>1. CASE ~ \E i \in DOMAIN r : r[i] = c
  BY <1>1 DEF Without, Members
<1>2. CASE \E i \in DOMAIN r : r[i] = c
  <2> DEFINE n == Len(r)
             at == CHOOSE i \in DOMAIN r : r[i] = c
             before == SubSeq(r, 1, at - 1)
             after == SubSeq(r, at + 1, n)
             w == before \o after
  <2>1. n \in Nat /\ DOMAIN r = 1..n
    BY LenProperties
  <2>2. at \in DOMAIN r /\ r[at] = c
    BY <1>2
  <2>3. Without(c, r) = w
    BY <1>2 DEF Without
  <2> HIDE DEF at, n
  <2>4. n \in Int /\ at \in Int /\ 1 <= at /\ at <= n
    BY <2>1, <2>2
  <2>5. \A i \in 1..n : r[i] \in Convs
    BY ElementOfSeq DEF n
  <2>6. /\ before \in Seq(Convs) /\ Len(before) = at - 1
        /\ \A i \in 1..(at - 1) : before[i] = r[i]
    <3>1. /\ before \in Seq(Convs)
          /\ Len(before) = IF 1 <= at - 1 THEN (at - 1) - 1 + 1 ELSE 0
          /\ \A i \in 1..((at - 1) - 1 + 1) : before[i] = r[1 + i - 1]
      BY <2>4, <2>5, SubSeqProperties
    <3> HIDE DEF before
    <3>2. QED
      BY <2>4, <3>1
  <2>7. /\ after \in Seq(Convs) /\ Len(after) = n - at
        /\ \A i \in 1..(n - at) : after[i] = r[at + i]
    <3>1. /\ after \in Seq(Convs)
          /\ Len(after) = IF at + 1 <= n THEN n - (at + 1) + 1 ELSE 0
          /\ \A i \in 1..(n - (at + 1) + 1) : after[i] = r[(at + 1) + i - 1]
      BY <2>4, <2>5, SubSeqProperties
    <3> HIDE DEF after
    <3>2. QED
      BY <2>4, <3>1
  <2> HIDE DEF before, after
  <2>8. /\ w \in Seq(Convs)
        /\ \A i \in 1..(n - 1) : w[i] = IF i < at THEN r[i] ELSE r[i + 1]
    <3>1. /\ w \in Seq(Convs)
          /\ \A i \in 1..(Len(before) + Len(after)) :
               w[i] = IF i <= Len(before) THEN before[i] ELSE after[i - Len(before)]
      BY <2>6, <2>7, ConcatProperties
    <3> HIDE DEF w
    <3>2. QED
      BY <2>4, <2>6, <2>7, <3>1
  <2>9. DOMAIN w = 1..(n - 1)
    <3>1. DOMAIN w = 1..Len(w) /\ Len(w) = Len(before) + Len(after)
      BY <2>6, <2>7, <2>8, ConcatProperties, LenProperties
    <3>2. Len(before) + Len(after) = n - 1
      BY <2>4, <2>6, <2>7
    <3>3. QED
      BY <3>1, <3>2
  <2> HIDE DEF w
  <2>10. \A i, j \in 1..n : r[i] = r[j] => i = j
    BY <2>1 DEF Once
  <2>11. \A i, j \in 1..(n - 1) : w[i] = w[j] => i = j
    BY <2>4, <2>8, <2>10
  <2>12. Once(w)
    BY <2>9, <2>11 DEF Once
  <2>13. \A x : (\E i \in 1..(n - 1) : w[i] = x) <=> x # c /\ \E i \in 1..n : r[i] = x
    <3>1. ASSUME NEW i \in 1..(n - 1) PROVE w[i] # c /\ \E k \in 1..n : r[k] = w[i]
      <4>1. CASE i < at
        BY <4>1, <2>2, <2>4, <2>8, <2>10
      <4>2. CASE ~ (i < at)
        <5>1. w[i] = r[i + 1] /\ i + 1 \in 1..n /\ i + 1 # at
          BY <4>2, <2>4, <2>8
        <5>2. QED
          BY <5>1, <2>2, <2>4, <2>10
      <4>3. QED
        BY <4>1, <4>2
    <3>2. ASSUME NEW i \in 1..n, r[i] # c PROVE \E k \in 1..(n - 1) : w[k] = r[i]
      <4>1. CASE i < at
        BY <4>1, <2>4, <2>8
      <4>2. CASE i > at
        <5>1. i - 1 \in 1..(n - 1) /\ w[i - 1] = r[i]
          BY <4>2, <2>4, <2>8
        <5>2. QED
          BY <5>1
      <4>3. QED
        BY <4>1, <4>2, <3>2, <2>2, <2>4
    <3>3. QED
      BY <3>1, <3>2
  <2>14. Members(w) = Members(r) \ {c}
    BY <2>1, <2>9, <2>13 DEF Members
  <2>15. QED
    BY <2>3, <2>8, <2>12, <2>14
<1>3. QED
  BY <1>1, <1>2

\* The first of an index that is not empty is one of its conversations.
LEMMA FirstOfIndex ==
  \A r \in Seq(Convs) : r # <<>> => r[1] \in Members(r) /\ r[1] \in Convs
<1> SUFFICES ASSUME NEW r \in Seq(Convs), r # <<>> PROVE r[1] \in Members(r) /\ r[1] \in Convs
  OBVIOUS
<1>1. Len(r) \in Nat \ {0}
  BY EmptySeq
<1>2. 1 \in 1..Len(r)
  BY <1>1
<1>3. 1 \in DOMAIN r
  BY <1>2, LenProperties
<1>4. QED
  BY <1>2, <1>3, ElementOfSeq DEF Members

\* Saving a conversation keeps the index one, with the conversation in it.
LEMMA FrontIsIndex ==
  ASSUME NEW r \in Seq(Convs), Once(r), NEW c \in Convs
  PROVE  /\ <<c>> \o Without(c, r) \in Seq(Convs)
         /\ Once(<<c>> \o Without(c, r))
         /\ Members(<<c>> \o Without(c, r)) = Members(r) \cup {c}
<1> DEFINE w == Without(c, r)
           n == Len(w)
           f == <<c>> \o w
<1>1. w \in Seq(Convs) /\ Once(w) /\ Members(w) = Members(r) \ {c}
  BY WithoutIsIndex
<1> HIDE DEF w
<1>2. n \in Nat /\ DOMAIN w = 1..n
  BY <1>1, LenProperties
<1>3. f \in Seq(Convs) /\ \A i \in 1..(n + 1) : f[i] = IF i = 1 THEN c ELSE w[i - 1]
  <2>1. <<c>> \in Seq(Convs) /\ Len(<<c>>) = 1 /\ <<c>>[1] = c
    OBVIOUS
  <2>2. f \in Seq(Convs) /\ \A i \in 1..(1 + n) : f[i] = IF i <= 1 THEN <<c>>[i] ELSE w[i - 1]
    BY <1>1, <2>1, ConcatProperties
  <2> HIDE DEF f, n
  <2>3. QED
    BY <1>2, <2>1, <2>2
<1>4. DOMAIN f = 1..(n + 1)
  <2>1. DOMAIN f = 1..Len(f) /\ Len(f) = Len(<<c>>) + n /\ Len(<<c>>) = 1
    BY <1>1, <1>3, ConcatProperties, LenProperties
  <2>2. QED
    BY <2>1, <1>2
<1> HIDE DEF f, n
<1>5. \A i \in 1..n : w[i] # c
  BY <1>1, <1>2 DEF Members
<1>6. \A i, j \in 1..n : w[i] = w[j] => i = j
  BY <1>1, <1>2 DEF Once
<1>7. n \in Nat
  BY <1>2
<1>8. \A i, j \in 1..(n + 1) : f[i] = f[j] => i = j
  BY <1>3, <1>5, <1>6, <1>7
<1>9. Once(f)
  BY <1>4, <1>8 DEF Once
<1>10. \A x : (\E i \in 1..(n + 1) : f[i] = x) <=> x = c \/ \E i \in 1..n : w[i] = x
  <2>1. ASSUME NEW i \in 1..(n + 1) PROVE f[i] = c \/ \E k \in 1..n : w[k] = f[i]
    BY <1>3, <1>7
  <2>2. ASSUME NEW i \in 1..n PROVE \E k \in 1..(n + 1) : f[k] = w[i]
    <3>1. i + 1 \in 1..(n + 1) /\ f[i + 1] = w[i]
      BY <1>3, <1>7
    <3>2. QED
      BY <3>1
  <2>3. 1 \in 1..(n + 1) /\ f[1] = c
    BY <1>3, <1>7
  <2>4. QED
    BY <2>1, <2>2, <2>3
<1>11. Members(f) = Members(w) \cup {c}
  BY <1>2, <1>4, <1>10 DEF Members
<1>12. QED
  BY <1>1, <1>3, <1>9, <1>11 DEF f, w

-------------------------------------------------------------------------------
(* The inductive invariant.                                                   *)

\* A run has a conversation from the moment its question is in the history, and
\* a stream restores a client only if it replaced one.
RunHasConv ==
    \A s \in Streams :
        /\ pc[s] \in {"idle", "checked", "preparing"} => conv[s] = None
        /\ pc[s] \in {"noted", "running", "live"} => conv[s] \in Convs
        /\ pc[s] = "restoring" => prev[s] # None

\* A new agent that is on its way fits the bound.
ReloadFits == reload = "closing" => agent < MaxReloads

\* A conversation whose id is not drawn yet has nothing in it.
IdsInv ==
    /\ active <= issued
    /\ \A c \in Kept : c <= issued
    /\ \A s \in Streams : conv[s] \in Convs => conv[s] <= issued
    /\ \A c \in Convs : c > issued => file[c] = <<>>

\* Every place from which messages reach a file holds those of one conversation.
OwnBy(cv, c, messages) == \A i \in DOMAIN messages : cv[messages[i].by] = c
Isolation ==
    /\ OwnBy(conv, active, history)
    /\ \A c \in Convs : OwnBy(conv, c, file[c])
    /\ \A s \in Streams : OwnBy(conv, conv[s], window[s])
    /\ \A s \in Streams : conv[s] = None => window[s] = <<>>
    /\ \A s \in Streams : pc[s] \in {"running", "live"} => runs_on[s] = agent

WebInv ==
    /\ TypeOK /\ RunHasConv /\ ReloadFits /\ IdsInv
    /\ MemoryMatchesFile /\ SessionIsListed /\ BusyIsHeld
    /\ (~swapped => Isolation)

\* Conversation ids are numbers, None is not one of them.
LEMMA Ids == Convs = 1..MaxConvs /\ MaxConvs \in Nat \ {0} /\ None \notin Convs /\ Convs \subseteq Nat
BY ConstantsAssumption DEF Convs, ConstantsAssumption

\* A history with one more message holds that message and those of before.
LEMMA MessageAppended ==
  ASSUME NEW h \in Seq(Message), NEW s \in Streams, NEW k \in {"question", "answer"}
  PROVE  /\ Append(h, [by |-> s, kind |-> k]) \in Seq(Message)
         /\ DOMAIN Append(h, [by |-> s, kind |-> k]) = 1..(Len(h) + 1)
         /\ \A i \in DOMAIN Append(h, [by |-> s, kind |-> k]) :
               \/ Append(h, [by |-> s, kind |-> k])[i] = [by |-> s, kind |-> k]
               \/ i \in DOMAIN h /\ Append(h, [by |-> s, kind |-> k])[i] = h[i]
<1> DEFINE x == [by |-> s, kind |-> k]
           a == Append(h, x)
<1>1. x \in Message
  BY DEF Message
<1> HIDE DEF x
<1>2. /\ a \in Seq(Message) /\ Len(a) = Len(h) + 1
      /\ \A i \in 1..Len(h) : a[i] = h[i]
      /\ a[Len(h) + 1] = x
  BY <1>1, AppendProperties
<1>3. DOMAIN a = 1..(Len(h) + 1) /\ DOMAIN h = 1..Len(h) /\ Len(h) \in Nat
  BY <1>2, LenProperties
<1> HIDE DEF a
<1>4. \A i \in 1..(Len(h) + 1) : i = Len(h) + 1 \/ i \in 1..Len(h)
  BY <1>3
<1>5. QED
  BY <1>2, <1>3, <1>4 DEF a, x

\* A truncated history holds messages of before.
LEMMA BeforeCut ==
  ASSUME NEW h \in Seq(Message), NEW i \in DOMAIN h
  PROVE  /\ SubSeq(h, 1, i - 1) \in Seq(Message)
         /\ \A k \in DOMAIN SubSeq(h, 1, i - 1) : k \in DOMAIN h /\ SubSeq(h, 1, i - 1)[k] = h[k]
<1> DEFINE n == Len(h)
           b == SubSeq(h, 1, i - 1)
<1>1. n \in Nat /\ DOMAIN h = 1..n
  BY LenProperties
<1>2. \A k \in 1..n : h[k] \in Message
  BY ElementOfSeq
<1> HIDE DEF n
<1>3. i \in Int /\ 1 <= i /\ i <= n
  BY <1>1
<1>4. /\ b \in Seq(Message)
      /\ Len(b) = IF 1 <= i - 1 THEN (i - 1) - 1 + 1 ELSE 0
      /\ \A k \in 1..((i - 1) - 1 + 1) : b[k] = h[1 + k - 1]
  BY <1>1, <1>2, <1>3, SubSeqProperties
<1>5. DOMAIN b = 1..Len(b)
  BY <1>4, LenProperties
<1> HIDE DEF b
<1>6. Len(b) = i - 1
  BY <1>3, <1>4
<1>7. \A k \in 1..(i - 1) : k \in 1..n /\ b[k] = h[k]
  BY <1>3, <1>4, <1>1
<1>8. QED
  BY <1>1, <1>4, <1>5, <1>6, <1>7 DEF b

\* A part of the messages holds some of them.
LEMMA PieceHolds ==
  ASSUME NEW m \in Seq(Message), NEW a \in 1..(Len(m) + 1), NEW b \in 0..Len(m)
  PROVE  /\ SubSeq(m, a, b) \in Seq(Message)
         /\ \A k \in DOMAIN SubSeq(m, a, b) : \E i \in DOMAIN m : SubSeq(m, a, b)[k] = m[i]
<1> DEFINE n == Len(m)
           p == SubSeq(m, a, b)
<1>1. n \in Nat /\ DOMAIN m = 1..n
  BY LenProperties
<1>2. \A i \in 1..n : m[i] \in Message
  BY ElementOfSeq
<1>3. a \in Int /\ b \in Int /\ 1 <= a /\ b <= n
  BY <1>1
<1>4. \A i \in a..b : m[i] \in Message
  BY <1>1, <1>2, <1>3
<1>5. /\ p \in Seq(Message)
      /\ Len(p) = IF a <= b THEN b - a + 1 ELSE 0
      /\ \A k \in 1..(b - a + 1) : p[k] = m[a + k - 1]
  BY <1>3, <1>4, SubSeqProperties
<1>6. DOMAIN p = 1..Len(p)
  BY <1>5, LenProperties
<1> HIDE DEF n, p
<1>7. \A k \in DOMAIN p : k \in 1..(b - a + 1) /\ a + k - 1 \in 1..n
  <2>1. CASE a <= b
    <3>1. DOMAIN p = 1..(b - a + 1)
      BY <1>5, <1>6, <2>1
    <3>2. QED
      BY <1>1, <1>3, <3>1
  <2>2. CASE ~(a <= b)
    <3>1. DOMAIN p = {}
      BY <1>5, <1>6, <2>2
    <3>2. QED
      BY <3>1
  <2>3. QED
    BY <2>1, <2>2
<1>8. QED
  BY <1>1, <1>5, <1>7 DEF n, p

\* So does what a run leaves of them,
LEMMA ShortenedHolds ==
  ASSUME NEW m \in Seq(Message), NEW w \in Shortened(m)
  PROVE  /\ w \in Seq(Message)
         /\ \A k \in DOMAIN w : \E i \in DOMAIN m : w[k] = m[i]
<1>1. PICK c \in Cuts(m) : w = SubSeq(m, c.from, c.to) \o SubSeq(m, c.rest, Len(m))
  BY DEF Shortened
<1>2. Len(m) \in Nat
  BY LenProperties
<1>3. /\ c.from \in 1..(Len(m) + 1) /\ c.to \in 0..Len(m) /\ c.rest \in 1..(Len(m) + 1)
      /\ Len(m) \in 0..Len(m)
  BY <1>2 DEF Cuts
<1> DEFINE u == SubSeq(m, c.from, c.to)
           v == SubSeq(m, c.rest, Len(m))
<1>4. u \in Seq(Message) /\ \A k \in DOMAIN u : \E i \in DOMAIN m : u[k] = m[i]
  BY <1>3, PieceHolds
<1>5. v \in Seq(Message) /\ \A k \in DOMAIN v : \E i \in DOMAIN m : v[k] = m[i]
  BY <1>3, PieceHolds
<1>6. w = u \o v
  BY <1>1
<1> HIDE DEF u, v
<1>7. /\ w \in Seq(Message) /\ Len(w) = Len(u) + Len(v)
      /\ \A k \in 1..(Len(u) + Len(v)) : w[k] = IF k <= Len(u) THEN u[k] ELSE v[k - Len(u)]
  BY <1>4, <1>5, <1>6, ConcatProperties
<1>8. /\ Len(u) \in Nat /\ Len(v) \in Nat
      /\ DOMAIN u = 1..Len(u) /\ DOMAIN v = 1..Len(v) /\ DOMAIN w = 1..Len(w)
  BY <1>4, <1>5, <1>7, LenProperties
<1>9. ASSUME NEW k \in DOMAIN w PROVE \E i \in DOMAIN m : w[k] = m[i]
  <2>1. k \in 1..(Len(u) + Len(v))
    BY <1>7, <1>8, <1>9
  <2>2. CASE k <= Len(u)
    <3>1. k \in DOMAIN u /\ w[k] = u[k]
      BY <1>7, <1>8, <2>1, <2>2
    <3>2. QED
      BY <1>4, <3>1
  <2>3. CASE ~(k <= Len(u))
    <3>1. k - Len(u) \in DOMAIN v /\ w[k] = v[k - Len(u)]
      BY <1>7, <1>8, <2>1, <2>3
    <3>2. QED
      BY <1>5, <3>1
  <2>4. QED
    BY <2>2, <2>3
<1>10. QED
  BY <1>7, <1>9

\* and its result holds its own answer besides.
LEMMA ResultHolds ==
  ASSUME NEW s \in Streams, window[s] \in Seq(Message), NEW r \in Results(s)
  PROVE  /\ r \in Seq(Message)
         /\ \A k \in DOMAIN r : \/ r[k] = [by |-> s, kind |-> "answer"]
                                \/ \E i \in DOMAIN window[s] : r[k] = window[s][i]
<1>1. PICK w \in Shortened(window[s]) : r \in Ended(s, w)
  BY DEF Results
<1>2. w \in Seq(Message) /\ \A k \in DOMAIN w : \E i \in DOMAIN window[s] : w[k] = window[s][i]
  BY ShortenedHolds
<1> DEFINE x == [by |-> s, kind |-> "answer"]
<1>3. /\ Append(w, x) \in Seq(Message)
      /\ \A k \in DOMAIN Append(w, x) : \/ Append(w, x)[k] = x
                                        \/ k \in DOMAIN w /\ Append(w, x)[k] = w[k]
  BY <1>2, MessageAppended
<1>4. r = w \/ r = Append(w, x)
  BY <1>1 DEF Ended
<1> HIDE DEF x
<1>5. /\ r \in Seq(Message)
      /\ \A k \in DOMAIN r : r[k] = x \/ (k \in DOMAIN w /\ r[k] = w[k])
  BY <1>2, <1>3, <1>4
<1>6. QED
  BY <1>2, <1>5 DEF x

-------------------------------------------------------------------------------
\* The server starts with the invariant.
THEOREM InvInit == Init => WebInv
<1> SUFFICES ASSUME Init PROVE WebInv
  OBVIOUS
<1> USE Ids, ConstantsAssumption DEF ConstantsAssumption, Init
<1>0. issued \in 1..MaxConvs /\ rows \in [1..issued -> 1..issued] /\ Convs = 1..MaxConvs
      /\ DOMAIN rows = 1..issued /\ \A i \in 1..issued : rows[i] = issued + 1 - i
  OBVIOUS
<1>1. StoreTypes
  <2>1. rows \in Seq(Convs)
    BY <1>0
  <2>2. \A i, j \in DOMAIN rows : rows[i] = rows[j] => i = j
    BY <1>0
  <2>3. file \in [Convs -> Seq(Message)] /\ history \in Seq(Message)
    OBVIOUS
  <2>4. QED
    BY <2>1, <2>2, <2>3 DEF StoreTypes
<1>2. AgentTypes /\ StreamTypes /\ HandlerTypes
  BY DEF AgentTypes, StreamTypes, HandlerTypes, Agents, Clients, StreamPC
<1>3. Flags
  BY DEF Flags
<1>4. Kept \subseteq 1..issued /\ issued \in Kept
  <2>1. 1 \in DOMAIN rows /\ rows[1] = issued
    BY <1>0
  <2>2. QED
    BY <1>0, <2>1 DEF Kept
<1>5. RunHasConv /\ ReloadFits /\ IdsInv
  BY <1>0, <1>4 DEF RunHasConv, IdsInv, ReloadFits
<1>6. MemoryMatchesFile /\ SessionIsListed /\ BusyIsHeld
  BY <1>4 DEF MemoryMatchesFile, SessionIsListed, BusyIsHeld
<1>7. Isolation
  <2>1. \A c : OwnBy(conv, c, <<>>)
    BY DEF OwnBy
  <2>2. QED
    BY <2>1 DEF Isolation
<1>8. QED
  BY <1>1, <1>2, <1>3, <1>5, <1>6, <1>7 DEF WebInv, TypeOK

-------------------------------------------------------------------------------
(* The streams: their types and conversations.                                *)

\* Every request keeps the types of the streams and their conversations.
LEMMA StreamsKept ==
  ASSUME TypeOK, RunHasConv, [Next]_vars
  PROVE  StreamTypes' /\ RunHasConv'
<1> USE Ids DEF TypeOK, StoreTypes, AgentTypes, StreamTypes, RunHasConv, StreamPC
<1>1. CASE UNCHANGED streamVars
  BY <1>1 DEF streamVars
<1>2. ASSUME NEW s \in Streams, Prepared(s) PROVE StreamTypes' /\ RunHasConv'
  <2>1. Asked(s) \in Seq(Message)
    BY MessageAppended DEF Asked
  <2>2. QED
    BY <1>2, <2>1 DEF Prepared, MoveStream
<1>3. ASSUME NEW s \in Streams, StartRun(s) PROVE StreamTypes' /\ RunHasConv'
  BY <1>3 DEF StartRun, MoveStream
<1>4. ASSUME NEW s \in Streams,
             \/ StreamArrives(s) \/ BeginPrepare(s) \/ RunStarts(s) \/ RunEnds(s)
             \/ Remembered(s) \/ GiveUp(s) \/ EndStream(s) \/ CloseClient(s) \/ RestoreClient(s)
      PROVE  StreamTypes' /\ RunHasConv'
  <2>1. /\ UNCHANGED <<conv, window, runs_on, prev, orphans>>
        /\ \E to \in StreamPC :
              /\ pc' = [pc EXCEPT ![s] = to]
              /\ to \in {"idle", "checked", "preparing"} => pc[s] \in {"idle", "checked"}
              /\ to \in {"noted", "running", "live"} => pc[s] = "running"
              /\ to = "restoring" => prev[s] # None
    <3> USE DEF MoveStream
    <3>1. CASE StreamArrives(s)
      BY <3>1 DEF StreamArrives
    <3>2. CASE BeginPrepare(s)
      BY <3>2 DEF BeginPrepare
    <3>3. CASE RunStarts(s)
      BY <3>3 DEF RunStarts
    <3>4. CASE RunEnds(s)
      BY <3>4 DEF RunEnds
    <3>5. CASE Remembered(s)
      BY <3>5 DEF Remembered
    <3>6. CASE GiveUp(s)
      BY <3>6 DEF GiveUp
    <3>7. CASE EndStream(s)
      BY <3>7 DEF EndStream
    <3>8. CASE CloseClient(s)
      BY <3>8 DEF CloseClient
    <3>9. CASE RestoreClient(s)
      BY <3>9 DEF RestoreClient
    <3>10. QED
      BY <1>4, <3>1, <3>2, <3>3, <3>4, <3>5, <3>6, <3>7, <3>8, <3>9
  <2>2. PICK to \in StreamPC :
              /\ pc' = [pc EXCEPT ![s] = to]
              /\ to \in {"idle", "checked", "preparing"} => pc[s] \in {"idle", "checked"}
              /\ to \in {"noted", "running", "live"} => pc[s] = "running"
              /\ to = "restoring" => prev[s] # None
    BY <2>1
  <2>3. StreamTypes'
    BY <2>1, <2>2
  <2>4. RunHasConv'
    BY <2>1, <2>2
  <2>5. QED
    BY <2>3, <2>4
<1>5. ASSUME NEW s \in Streams, Leave(s) \/ OrphanCloses(s) PROVE StreamTypes' /\ RunHasConv'
  BY <1>5 DEF Leave, OrphanCloses, MoveStream
<1>6. HandlerStep => UNCHANGED streamVars
  BY DEF HandlerStep, NewConversation, DeleteActiveBusy, DeleteActive, DeleteLast, CutArrives,
         Cut, CutRefused, ReloadBegins, ReloadEnds, ReviewArrives, ReviewRuns, ReviewEnds,
         Switch, DeleteOther, streamVars
<1>7. UNCHANGED vars => UNCHANGED streamVars
  BY DEF vars
<1>8. QED
  BY <1>1, <1>2, <1>3, <1>4, <1>5, <1>6, <1>7 DEF Next, StreamStep

-------------------------------------------------------------------------------
(* The agents, the other handlers and the busy flag.                          *)

\* Every request keeps the agents and their clients what they are.
LEMMA AgentsKept ==
  ASSUME TypeOK, RunHasConv, ReloadFits, [Next]_vars
  PROVE  AgentTypes'
<1> USE ConstantsAssumption
      DEF TypeOK, AgentTypes, StreamTypes, RunHasConv, ConstantsAssumption, Agents, Clients
<1>1. CASE UNCHANGED agentVars
  BY <1>1 DEF agentVars
<1>2. ASSUME NEW s \in Streams, StartRun(s) PROVE AgentTypes'
  <2>1. client' = client \/ client' = [client EXCEPT ![agent] = s]
    BY <1>2 DEF StartRun
  <2>2. UNCHANGED <<agent, last, closed>>
    BY <1>2 DEF StartRun
  <2>3. client' \in [Agents -> Clients]
    <3>1. CASE client' = client
      BY <3>1
    <3>2. CASE client' = [client EXCEPT ![agent] = s]
      BY <3>2
    <3>3. QED
      BY <2>1, <3>1, <3>2
  <2>4. QED
    BY <2>2, <2>3
<1>3. ASSUME NEW s \in Streams, RunEnds(s) PROVE AgentTypes'
  <2>1. Results(s) \subseteq Seq(Message)
    BY ResultHolds
  <2>2. PICK messages \in Seq(Message) : last' = [last EXCEPT ![runs_on[s]] = messages]
    BY <1>3, <2>1 DEF RunEnds
  <2>3. UNCHANGED <<agent, client, closed>>
    BY <1>3 DEF RunEnds
  <2>4. QED
    BY <2>2, <2>3
<1>4. ASSUME NEW s \in Streams, OrphanCloses(s) PROVE AgentTypes'
  <2>1. Shortened(window[s]) \subseteq Seq(Message)
    BY ShortenedHolds
  <2>2. PICK messages \in Seq(Message) : last' = [last EXCEPT ![runs_on[s]] = messages]
    BY <1>4, <2>1 DEF OrphanCloses
  <2>3. UNCHANGED <<agent, client, closed>>
    BY <1>4 DEF OrphanCloses
  <2>4. QED
    BY <2>2, <2>3
<1>5. ASSUME NEW s \in Streams, CloseClient(s) PROVE AgentTypes'
  BY <1>5 DEF CloseClient
<1>6. ASSUME NEW s \in Streams, RestoreClient(s) PROVE AgentTypes'
  BY <1>6 DEF RestoreClient, Restored, MoveStream
<1>7. CASE ReloadBegins
  BY <1>7 DEF ReloadBegins
<1>8. CASE ReloadEnds
  BY <1>8 DEF ReloadEnds, ReloadFits
<1>9. HandlerStep => UNCHANGED agentVars \/ ReloadBegins \/ ReloadEnds
  BY DEF HandlerStep, NewConversation, DeleteActiveBusy, DeleteActive, DeleteLast, CutArrives,
         Cut, CutRefused, ReviewArrives, ReviewRuns, ReviewEnds, Switch, DeleteOther, agentVars
<1>10. ASSUME NEW s \in Streams,
              \/ StreamArrives(s) \/ BeginPrepare(s) \/ Prepared(s) \/ RunStarts(s)
              \/ Remembered(s) \/ GiveUp(s) \/ Leave(s) \/ EndStream(s)
       PROVE  UNCHANGED agentVars
  BY <1>10 DEF StreamArrives, BeginPrepare, Prepared, RunStarts, Remembered, GiveUp, Leave,
               EndStream, agentVars
<1>11. UNCHANGED vars => UNCHANGED agentVars
  BY DEF vars
<1>12. QED
  BY <1>1, <1>2, <1>3, <1>4, <1>5, <1>6, <1>7, <1>8, <1>9, <1>10, <1>11 DEF Next, StreamStep

\* Every request keeps the types of the handlers that await.
LEMMA HandlersKept ==
  ASSUME TypeOK, ReloadFits, [Next]_vars
  PROVE  HandlerTypes' /\ ReloadFits'
<1> USE ConstantsAssumption, Ids
      DEF TypeOK, AgentTypes, HandlerTypes, StoreTypes, ReloadFits, ConstantsAssumption, Agents
<1>1. ASSUME NEW s \in Streams,
             \/ StreamStep(s) \/ StreamArrives(s) \/ GiveUp(s) \/ Leave(s)
      PROVE  UNCHANGED <<handlerVars, agent>> /\ busy' \in {busy, None, s}
  BY <1>1 DEF StreamStep, StreamArrives, BeginPrepare, Prepared, StartRun, RunStarts, RunEnds,
              Remembered, GiveUp, Leave, OrphanCloses, EndStream, CloseClient, RestoreClient,
              Freed, agentVars
<1>2. ASSUME NEW s \in Streams, UNCHANGED <<handlerVars, agent>>, busy' \in {busy, None, s}
      PROVE  HandlerTypes' /\ ReloadFits'
  BY <1>2 DEF handlerVars
<1>3. ASSUME Detour, \/ NewConversation \/ DeleteActiveBusy \/ DeleteActive \/ DeleteLast
                     \/ \E c \in Convs : Switch(c) \/ DeleteOther(c)
      PROVE  HandlerTypes' /\ ReloadFits'
  <2>1. UNCHANGED <<review, reload, cutting, agent>> /\ busy' \in {busy, None}
    BY <1>3 DEF NewConversation, DeleteActiveBusy, DeleteActive, DeleteLast, Switch, DeleteOther,
                agentVars
  <2>2. detours' \in 0..MaxDetours
    BY <1>3 DEF Detour
  <2>3. QED
    BY <2>1, <2>2
<1>4. CASE CutArrives
  BY <1>4 DEF CutArrives, Detour, agentVars
<1>5. CASE Cut
  BY <1>5 DEF Cut, agentVars
<1>6. CASE CutRefused
  BY <1>6 DEF CutRefused, agentVars
<1>7. CASE ReloadBegins
  BY <1>7 DEF ReloadBegins, Detour
<1>8. CASE ReloadEnds
  BY <1>8 DEF ReloadEnds
<1>9. CASE ReviewArrives
  BY <1>9 DEF ReviewArrives, Detour, agentVars
<1>10. CASE ReviewRuns
  BY <1>10 DEF ReviewRuns, agentVars
<1>11. CASE ReviewEnds
  BY <1>11 DEF ReviewEnds, agentVars
<1>12. CASE UNCHANGED vars
  BY <1>12 DEF vars, handlerVars, agentVars
<1>13. CASE HandlerStep
  BY <1>13, <1>3, <1>4, <1>5, <1>6, <1>7, <1>8, <1>9, <1>10, <1>11
     DEF HandlerStep, NewConversation, DeleteActiveBusy, DeleteActive, DeleteLast, Switch,
         DeleteOther
<1>14. QED
  BY <1>1, <1>2, <1>12, <1>13 DEF Next

\* The history flags stay Booleans, and an agent replaced under a run is never
\* taken back.
LEMMA FlagsKept ==
  ASSUME Flags, [Next]_vars
  PROVE  Flags' /\ (~swapped' => ~swapped)
<1>1. ASSUME NEW s \in Streams, Prepared(s) PROVE Flags' /\ (~swapped' => ~swapped)
  <2>1. overlapped' = (overlapped \/ \E t \in Streams \ {s} : UnderWay(t))
    BY <1>1, Zenon DEF Prepared
  <2>2. overlapped' \in BOOLEAN
    BY <2>1, Zenon
  <2>3. swapped' = swapped
    BY <1>1, Zenon DEF Prepared
  <2>4. QED
    BY <2>2, <2>3, Zenon DEF Flags
<1>2. CASE ReloadEnds
  BY <1>2, Zenon DEF ReloadEnds, Flags
<1>3. CASE UNCHANGED historyVars
  BY <1>3 DEF historyVars, Flags
<1>4. HandlerStep => UNCHANGED historyVars \/ ReloadEnds
  BY DEF HandlerStep, NewConversation, DeleteActiveBusy, DeleteActive, DeleteLast, CutArrives,
         Cut, CutRefused, ReloadBegins, ReviewArrives, ReviewRuns, ReviewEnds, Switch, DeleteOther
<1>5. ASSUME NEW s \in Streams,
             \/ StreamStep(s) \/ StreamArrives(s) \/ GiveUp(s) \/ Leave(s)
      PROVE  UNCHANGED historyVars \/ Prepared(s)
  BY <1>5 DEF StreamStep, StreamArrives, BeginPrepare, StartRun, RunStarts, RunEnds,
              Remembered, GiveUp, Leave, OrphanCloses, EndStream, CloseClient, RestoreClient
<1>6. UNCHANGED vars => UNCHANGED historyVars
  BY DEF vars
<1>7. QED
  BY <1>1, <1>2, <1>3, <1>4, <1>5, <1>6 DEF Next

\* The busy flag: set by run_start and by a review, cleared by every stream that ends.
LEMMA BusyKept ==
  ASSUME TypeOK, BusyIsHeld, [Next]_vars
  PROVE  BusyIsHeld'
<1> USE ConstantsAssumption DEF TypeOK, StreamTypes, HandlerTypes, BusyIsHeld, ConstantsAssumption
<1>1. ASSUME UNCHANGED <<pc, review>>, busy' \in {busy, None} PROVE BusyIsHeld'
  BY <1>1
<1>2. ASSUME NEW s \in Streams, Prepared(s) \/ StartRun(s) \/ RunStarts(s) PROVE BusyIsHeld'
  <2>1. CASE Prepared(s)
    <3>1. UNCHANGED <<busy, review>> /\ pc' = [pc EXCEPT ![s] = "noted"] /\ pc[s] = "preparing"
      BY <2>1 DEF Prepared, MoveStream, handlerVars
    <3>2. QED
      BY <3>1
  <2>2. CASE StartRun(s)
    <3>1. busy' = None
      BY <2>2 DEF StartRun
    <3>2. QED
      BY <3>1
  <2>3. CASE RunStarts(s)
    <3>1. busy' = s /\ pc' = [pc EXCEPT ![s] = "live"]
      BY <2>3 DEF RunStarts, MoveStream
    <3>2. QED
      BY <3>1
  <2>4. QED
    BY <1>2, <2>1, <2>2, <2>3
<1>3. ASSUME NEW s \in Streams, EndStream(s) \/ RestoreClient(s) PROVE BusyIsHeld'
  BY <1>3 DEF EndStream, RestoreClient, Freed
<1>4. ASSUME NEW s \in Streams, \/ StreamArrives(s) \/ BeginPrepare(s) \/ RunEnds(s)
                                \/ Remembered(s) \/ GiveUp(s) \/ Leave(s) \/ CloseClient(s)
      PROVE  BusyIsHeld'
  <2>1. UNCHANGED <<busy, review>>
    BY <1>4 DEF StreamArrives, BeginPrepare, RunEnds, Remembered, GiveUp, Leave, CloseClient,
                handlerVars
  <2>2. \/ \E to \in StreamPC : pc' = [pc EXCEPT ![s] = to] /\ pc[s] \in {"idle", "checked"}
        \/ \E to \in {"saved", "ending", "restoring"} : pc' = [pc EXCEPT ![s] = to]
    BY <1>4 DEF StreamArrives, BeginPrepare, RunEnds, Remembered, GiveUp, Leave, CloseClient,
                MoveStream, StreamPC
  <2>3. QED
    BY <2>1, <2>2
<1>5. ASSUME NEW s \in Streams, OrphanCloses(s) PROVE BusyIsHeld'
  BY <1>5 DEF OrphanCloses, handlerVars
<1>6. CASE ReviewArrives \/ ReviewRuns \/ ReviewEnds
  BY <1>6 DEF ReviewArrives, ReviewRuns, ReviewEnds, streamVars
<1>7. HandlerStep => \/ ReviewArrives \/ ReviewRuns \/ ReviewEnds
                     \/ UNCHANGED <<pc, review>> /\ busy' \in {busy, None}
  BY DEF HandlerStep, NewConversation, DeleteActiveBusy, DeleteActive, DeleteLast, CutArrives,
         Cut, CutRefused, ReloadBegins, ReloadEnds, Switch, DeleteOther, streamVars
<1>8. UNCHANGED vars => UNCHANGED <<pc, review, busy>>
  BY DEF vars, streamVars, handlerVars
<1>9. QED
  BY <1>1, <1>2, <1>3, <1>4, <1>5, <1>6, <1>7, <1>8 DEF Next, StreamStep

-------------------------------------------------------------------------------
(* The store and the session.  A step that touches them writes one file, puts *)
(* its conversation in front of the index or takes one out, or moves the      *)
(* session to another conversation.                                           *)

\* What the index and the conversations of a step have to be for the invariant.
StoreInv == StoreTypes /\ IdsInv /\ MemoryMatchesFile /\ SessionIsListed

\* What the index lists are conversations.
LEMMA KeptAreConvs == ASSUME rows \in Seq(Convs) PROVE Kept \subseteq Convs
BY ElementOfSeq, LenProperties DEF Kept

\* Saving messages in a conversation that was drawn, as persist and apply_result do.
LEMMA Saved ==
  ASSUME StoreInv, NEW c \in Convs, c <= issued, NEW messages \in Seq(Message),
         file' = [file EXCEPT ![c] = messages], rows' = Front(c),
         listed' = ListedAfter(c), history' = HistoryAfter(c, messages),
         UNCHANGED <<issued, active>>,
         \A s \in Streams : conv'[s] \in Convs => conv'[s] <= issued
  PROVE  StoreInv'
<1> USE Ids DEF StoreInv, StoreTypes, Front, ListedAfter, HistoryAfter
<1>1. /\ rows' \in Seq(Convs)
      /\ Once(rows')
      /\ Members(rows') = Members(rows) \cup {c}
  BY FrontIsIndex DEF Once
<1>2. Kept' = Kept \cup {c}
  BY <1>1 DEF Kept, Members
<1>3. StoreTypes'
  BY <1>1 DEF Once
<1>4. active' <= issued' /\ \A d \in Kept' : d <= issued'
  BY <1>2 DEF IdsInv
<1>5. \A d \in Convs : d > issued' => file'[d] = <<>>
  <2> SUFFICES ASSUME NEW d \in Convs, d > issued PROVE file'[d] = <<>>
    OBVIOUS
  <2>1. d # c /\ file[d] = <<>>
    BY DEF IdsInv
  <2>2. QED
    BY <2>1
<1>6. IdsInv'
  BY <1>4, <1>5 DEF IdsInv
<1>7. MemoryMatchesFile' /\ SessionIsListed'
  BY <1>2 DEF MemoryMatchesFile, SessionIsListed
<1>8. QED
  BY <1>3, <1>6, <1>7

\* A new conversation, behind which the history of the active one is saved.
LEMMA Created ==
  ASSUME StoreInv, issued < MaxConvs, issued' = issued + 1,
         file' = [file EXCEPT ![active] = history],
         \/ rows' = <<issued + 1>> \o Front(active)
         \/ Kept = {active} /\ rows' = <<issued + 1, active>>,
         listed' = issued + 1, active' = issued + 1, history' = <<>>, UNCHANGED conv
  PROVE  StoreInv'
<1> USE Ids DEF StoreInv, StoreTypes
<1> DEFINE new == issued + 1
<1>1. new \in Convs /\ new > issued /\ new # active /\ new \notin Kept
  BY DEF IdsInv
<1>2. /\ Front(active) \in Seq(Convs)
      /\ Once(Front(active))
      /\ Members(Front(active)) = Members(rows) \cup {active}
  BY FrontIsIndex DEF Front, Once
<1>3. Kept = Members(rows)
  BY DEF Kept, Members
<1> HIDE DEF new
<1>4. /\ rows' \in Seq(Convs)
      /\ Once(rows')
      /\ Members(rows') = Members(rows) \cup {active, new}
  <2>1. CASE rows' = <<new>> \o Front(active)
    <3>1. new \notin Members(Front(active))
      BY <1>1, <1>2, <1>3
    <3>2. Without(new, Front(active)) = Front(active)
      BY <3>1 DEF Without, Members
    <3>3. /\ <<new>> \o Front(active) \in Seq(Convs)
          /\ Once(<<new>> \o Front(active))
          /\ Members(<<new>> \o Front(active)) = Members(Front(active)) \cup {new}
      BY <1>1, <1>2, <3>2, FrontIsIndex
    <3>4. QED
      BY <2>1, <1>2, <3>3
  <2>2. CASE Kept = {active} /\ rows' = <<new, active>>
    <3>1. DOMAIN rows' = {1, 2} /\ rows'[1] = new /\ rows'[2] = active
      BY <2>2
    <3>2. rows' \in Seq(Convs)
      BY <2>2, <1>1
    <3>3. Once(rows')
      BY <3>1, <1>1 DEF Once
    <3>4. Members(rows') = {new, active}
      BY <3>1 DEF Members
    <3>5. QED
      BY <2>2, <1>3, <3>2, <3>3, <3>4
  <2>3. QED
    BY <2>1, <2>2 DEF new
<1>5. Kept' = Kept \cup {active, new}
  BY <1>3, <1>4 DEF Kept, Members
<1>6. issued' = new /\ active' = new /\ listed' = new
  BY DEF new
<1>7. <<>> \in Seq(Message)
  OBVIOUS
<1>8. StoreTypes'
  BY <1>1, <1>4, <1>6, <1>7 DEF Once
<1>9. file'[new] = <<>>
  BY <1>1 DEF IdsInv
<1>10. \A k \in Kept' : k <= issued'
  <2>1. \A k \in Kept : k \in Convs /\ k <= issued
    BY KeptAreConvs DEF IdsInv
  <2>2. active \in Nat /\ issued \in Nat /\ new \in Nat /\ active <= issued /\ issued < new
    BY <1>1 DEF IdsInv
  <2>3. \A k \in Kept : k \in Nat /\ k <= new
    BY <2>1, <2>2
  <2>4. QED
    BY <1>5, <1>6, <2>2, <2>3
<1>11. \A s \in Streams : conv'[s] \in Convs => conv'[s] <= issued'
  BY DEF IdsInv
<1>12. \A c \in Convs : c > issued' => file'[c] = <<>>
  <2> SUFFICES ASSUME NEW c \in Convs, c > issued' PROVE file'[c] = <<>>
    OBVIOUS
  <2>1. c > issued /\ c # active
    BY <1>1, <1>6 DEF IdsInv
  <2>2. QED
    BY <2>1 DEF IdsInv
<1>13. IdsInv'
  BY <1>1, <1>6, <1>10, <1>11, <1>12 DEF IdsInv
<1>14. MemoryMatchesFile' /\ SessionIsListed'
  BY <1>5, <1>6, <1>9 DEF MemoryMatchesFile, SessionIsListed
<1>15. QED
  BY <1>8, <1>13, <1>14

\* Saving the history and moving to a conversation of the index.
LEMMA Switched ==
  ASSUME StoreInv, NEW c \in Kept, SwitchTo(c), UNCHANGED <<issued, conv>>
  PROVE  StoreInv'
<1> USE Ids DEF StoreInv, StoreTypes, SwitchTo, Persist
<1>1. /\ rows' \in Seq(Convs)
      /\ Once(rows')
      /\ Members(rows') = Members(rows) \cup {active}
  BY FrontIsIndex DEF Front, Once
<1>2. Kept' = Kept \cup {active}
  BY <1>1 DEF Kept, Members
<1>3. c \in Convs
  BY ElementOfSeq, LenProperties DEF Kept
<1>4. file' \in [Convs -> Seq(Message)]
  OBVIOUS
<1>5. StoreTypes'
  BY <1>1, <1>3, <1>4 DEF Once
<1>6. IdsInv'
  BY <1>2, <1>3 DEF IdsInv
<1>7. MemoryMatchesFile' /\ SessionIsListed'
  BY <1>2, <1>3 DEF MemoryMatchesFile, SessionIsListed
<1>8. QED
  BY <1>5, <1>6, <1>7

\* Taking a conversation out while the session stays where it is.
LEMMA Deleted ==
  ASSUME StoreInv, NEW c \in Kept, c # active \/ Kept # {active},
         file' = [file EXCEPT ![c] = <<>>], rows' = Without(c, rows),
         listed' = IF listed # c THEN listed ELSE IF rows' = <<>> THEN None ELSE rows'[1],
         UNCHANGED <<sessionVars, conv>>
  PROVE  StoreInv'
<1> USE Ids DEF StoreInv, StoreTypes, sessionVars
<1>1. /\ rows' \in Seq(Convs)
      /\ Once(rows')
      /\ Members(rows') = Members(rows) \ {c}
  BY WithoutIsIndex DEF Once
<1>2. Kept' = Kept \ {c}
  BY <1>1 DEF Kept, Members
<1>3. c \in Convs
  BY ElementOfSeq, LenProperties DEF Kept
<1>4. rows' # <<>> => rows'[1] \in Kept' /\ rows'[1] \in Convs
  BY <1>1, FirstOfIndex DEF Kept, Members
<1>5. file' \in [Convs -> Seq(Message)]
  <2>1. <<>> \in Seq(Message)
    OBVIOUS
  <2>2. QED
    BY <2>1
<1>6. listed' \in Kept' \cup {None} /\ (active \in Kept' => listed' = active)
  BY <1>2, <1>4 DEF SessionIsListed
<1>7. StoreTypes'
  BY <1>1, <1>4, <1>5, <1>6 DEF Once
<1>8. IdsInv'
  BY <1>2, <1>3 DEF IdsInv
<1>9. MemoryMatchesFile'
  BY <1>2 DEF MemoryMatchesFile
<1>10. QED
  BY <1>6, <1>7, <1>8, <1>9 DEF SessionIsListed

\* Every request keeps memory, files and index in agreement.
LEMMA StoreKept ==
  ASSUME WebInv, [Next]_vars
  PROVE  StoreInv'
<1> USE Ids DEF WebInv
<1>1. StoreInv /\ StoreTypes
  BY DEF StoreInv, TypeOK
<1>2. \A s \in Streams : conv[s] \in Convs => conv[s] <= issued
  BY DEF IdsInv
<1>3. active \in Convs /\ active <= issued
  BY <1>1 DEF StoreTypes, IdsInv
<1>4. CASE Quiet
  BY <1>1, <1>4 DEF Quiet, storeVars, sessionVars, StoreInv, StoreTypes, IdsInv, Kept,
                    MemoryMatchesFile, SessionIsListed
<1>5. ASSUME NEW s \in Streams, Prepared(s) PROVE StoreInv'
  <2>1. Asked(s) \in Seq(Message)
    BY <1>1, MessageAppended DEF Asked, StoreTypes
  <2>2. /\ file' = [file EXCEPT ![active] = Asked(s)] /\ rows' = Front(active)
        /\ listed' = ListedAfter(active) /\ history' = HistoryAfter(active, Asked(s))
        /\ UNCHANGED <<issued, active>> /\ conv' = [conv EXCEPT ![s] = active]
    BY <1>5 DEF Prepared, Persist, ListedAfter, HistoryAfter
  <2>3. \A t \in Streams : conv'[t] \in Convs => conv'[t] <= issued
    BY <1>2, <1>3, <2>2 DEF TypeOK, StreamTypes
  <2>4. QED
    BY <1>1, <1>3, <2>1, <2>2, <2>3, Saved
<1>6. ASSUME NEW s \in Streams, RunEnds(s) PROVE StoreInv'
  <2>1. UNCHANGED <<issued, active, conv>>
    BY <1>6 DEF RunEnds
  <2>2. CASE last'[agent] = None
    <3>1. Quiet
      BY <1>6, <2>2, <2>1 DEF RunEnds, Quiet, storeVars, sessionVars
    <3>2. QED
      BY <3>1, <1>4
  <2>3. CASE last'[agent] # None
    <3>1. last'[agent] \in Seq(Message)
      BY <2>3, AgentsKept DEF AgentTypes, TypeOK
    <3>2. PICK messages \in Seq(Message) : messages = last'[agent]
      BY <3>1
    <3>3. conv[s] \in Convs /\ conv[s] <= issued
      BY <1>2, <1>6 DEF RunEnds, MoveStream, RunHasConv
    <3>4. /\ file' = [file EXCEPT ![conv[s]] = messages] /\ rows' = Front(conv[s])
          /\ listed' = ListedAfter(conv[s]) /\ history' = HistoryAfter(conv[s], messages)
      BY <1>6, <2>3, <3>2 DEF RunEnds, Target
    <3>5. QED
      BY <1>1, <1>2, <2>1, <3>3, <3>4, Saved
  <2>4. QED
    BY <2>2, <2>3
<1>7. ASSUME NewConversation \/ DeleteLast PROVE StoreInv'
  <2>1. UNCHANGED conv
    BY <1>7 DEF NewConversation, DeleteLast, streamVars
  <2>2. QED
    BY <1>1, <1>7, <2>1, Created DEF NewConversation, DeleteLast
<1>8. ASSUME NEW c \in Convs, Switch(c) PROVE StoreInv'
  BY <1>1, <1>8, Switched DEF Switch, streamVars
<1>9. ASSUME DeleteActive PROVE StoreInv'
  <2>1. /\ Without(active, rows) \in Seq(Convs)
        /\ Members(Without(active, rows)) = Members(rows) \ {active}
    BY <1>1, WithoutIsIndex DEF StoreTypes, Once
  <2>2. Without(active, rows) # <<>>
    <3>1. Members(rows) \ {active} # {}
      BY <1>9 DEF DeleteActive, Kept, Members
    <3>2. Members(<<>>) = {}
      BY DEF Members
    <3>3. QED
      BY <2>1, <3>1, <3>2
  <2>3. Without(active, rows)[1] \in Kept
    BY <2>1, <2>2, FirstOfIndex DEF Kept, Members
  <2>4. QED
    BY <1>1, <1>9, <2>3, Switched DEF DeleteActive, streamVars
<1>10. ASSUME NEW c \in Convs, DeleteOther(c) PROVE StoreInv'
  BY <1>1, <1>10, Deleted DEF DeleteOther, streamVars
<1>11. ASSUME DeleteActiveBusy PROVE StoreInv'
  <2>1. Members(Without(active, rows)) = Members(rows) \ {active}
    BY <1>1, WithoutIsIndex DEF StoreTypes, Once
  <2>2. Without(active, rows) # <<>>
    <3>1. Members(rows) \ {active} # {}
      BY <1>11 DEF DeleteActiveBusy, Kept, Members
    <3>2. Members(<<>>) = {}
      BY DEF Members
    <3>3. QED
      BY <2>1, <3>1, <3>2
  <2>3. listed = active
    BY <1>11 DEF DeleteActiveBusy, SessionIsListed
  <2>4. QED
    BY <1>1, <1>11, <2>2, <2>3, Deleted DEF DeleteActiveBusy, streamVars
<1>12. ASSUME Cut PROVE StoreInv'
  <2>1. PICK i \in DOMAIN history : /\ history' = SubSeq(history, 1, i - 1)
                                    /\ Persist(SubSeq(history, 1, i - 1))
    BY <1>12 DEF Cut
  <2>2. SubSeq(history, 1, i - 1) \in Seq(Message)
    BY <1>1, BeforeCut DEF StoreTypes
  <2>3. /\ listed' = ListedAfter(active) /\ UNCHANGED <<issued, active, conv>>
        /\ history' = HistoryAfter(active, SubSeq(history, 1, i - 1))
    BY <1>12, <2>1 DEF Cut, ListedAfter, HistoryAfter, streamVars
  <2>4. QED
    BY <1>1, <1>2, <1>3, <2>1, <2>2, <2>3, Saved DEF Persist
<1>13. QED
  BY <1>4, <1>5, <1>6, <1>7, <1>8, <1>9, <1>10, <1>11, <1>12, QuietOrStore DEF StoreStep

-------------------------------------------------------------------------------
(* The isolation of conversations.                                            *)

\* While no agent was replaced under a run, a run is on the agent of the session.
LEMMA RunsOnKept ==
  ASSUME TypeOK, ~swapped', [Next]_vars,
         \A s \in Streams : pc[s] \in {"running", "live"} => runs_on[s] = agent
  PROVE  \A s \in Streams : pc'[s] \in {"running", "live"} => runs_on'[s] = agent'
<1> USE DEF TypeOK, StreamTypes
<1> DEFINE Good == \A s \in Streams : pc'[s] \in {"running", "live"} => runs_on'[s] = agent'
<1>1. ASSUME NEW s \in Streams, StartRun(s) PROVE Good
  <2>1. runs_on' = [runs_on EXCEPT ![s] = agent] /\ agent' = agent /\ pc' = [pc EXCEPT ![s] = "running"]
    BY <1>1 DEF StartRun, MoveStream
  <2>2. QED
    BY <2>1
<1>2. ASSUME NEW s \in Streams, RunStarts(s) PROVE Good
  <2>1. /\ UNCHANGED <<runs_on, agent>> /\ pc' = [pc EXCEPT ![s] = "live"] /\ pc[s] = "running"
    BY <1>2 DEF RunStarts, MoveStream, agentVars
  <2>2. QED
    BY <2>1
<1>3. ASSUME NEW s \in Streams,
             \/ StreamArrives(s) \/ BeginPrepare(s) \/ Prepared(s) \/ RunEnds(s)
             \/ Remembered(s) \/ GiveUp(s) \/ Leave(s) \/ EndStream(s) \/ CloseClient(s)
             \/ RestoreClient(s)
      PROVE  Good
  <2>1. UNCHANGED <<runs_on, agent>>
    BY <1>3 DEF StreamArrives, BeginPrepare, Prepared, RunEnds, Remembered, GiveUp, Leave,
                EndStream, CloseClient, RestoreClient, agentVars
  <2>2. \E to \in StreamPC \ {"running", "live"} : pc' = [pc EXCEPT ![s] = to]
    BY <1>3 DEF StreamArrives, BeginPrepare, Prepared, RunEnds, Remembered, GiveUp, Leave,
                EndStream, CloseClient, RestoreClient, MoveStream, StreamPC
  <2>3. QED
    BY <2>1, <2>2
<1>4. ASSUME NEW s \in Streams, OrphanCloses(s) PROVE Good
  BY <1>4 DEF OrphanCloses
<1>5. ASSUME ReloadEnds PROVE Good
  <2>1. \A s \in Streams : pc[s] \notin {"running", "live"}
    BY <1>5, Zenon DEF ReloadEnds
  <2>2. pc' = pc
    BY <1>5 DEF ReloadEnds, streamVars
  <2>3. QED
    BY <2>1, <2>2
<1>6. HandlerStep => ReloadEnds \/ UNCHANGED <<pc, runs_on, agent>>
  BY DEF HandlerStep, NewConversation, DeleteActiveBusy, DeleteActive, DeleteLast, CutArrives,
         Cut, CutRefused, ReloadBegins, ReviewArrives, ReviewRuns, ReviewEnds, Switch,
         DeleteOther, streamVars, agentVars
<1>7. UNCHANGED vars => UNCHANGED <<pc, runs_on, agent>>
  BY DEF vars, streamVars, agentVars
<1>8. QED
  BY <1>1, <1>2, <1>3, <1>4, <1>5, <1>6, <1>7 DEF Next, StreamStep

\* Every request keeps conversations apart while no agent is replaced under a run.
LEMMA IsolationKept ==
  ASSUME WebInv, [Next]_vars, ~swapped'
  PROVE  Isolation'
<1> USE Ids DEF WebInv
<1>1. Isolation
  BY FlagsKept DEF TypeOK
<1>2. \A s \in Streams : pc'[s] \in {"running", "live"} => runs_on'[s] = agent'
  BY <1>1, RunsOnKept DEF Isolation
<1>3. /\ active \in Convs /\ history \in Seq(Message) /\ file \in [Convs -> Seq(Message)]
      /\ window \in [Streams -> Seq(Message)] /\ conv \in [Streams -> Convs \cup {None}]
      /\ Kept \subseteq Convs
  BY KeptAreConvs DEF TypeOK, StoreTypes, StreamTypes
<1> DEFINE Own == /\ OwnBy(conv', active', history')
                  /\ \A c \in Convs : OwnBy(conv', c, file'[c])
                  /\ \A s \in Streams : OwnBy(conv', conv'[s], window'[s])
                  /\ \A s \in Streams : conv'[s] = None => window'[s] = <<>>
<1>4. SUFFICES Own
  BY <1>2 DEF Isolation
<1>5. OwnBy(conv, active, <<>>) /\ \A c \in Convs : OwnBy(conv, c, <<>>)
  BY DEF OwnBy
<1>6. CASE Quiet /\ UNCHANGED window
  BY <1>1, <1>6 DEF Quiet, storeVars, sessionVars, Isolation
<1>7. ASSUME NEW s \in Streams, Prepared(s) PROVE Own
  <2>1. /\ conv' = [conv EXCEPT ![s] = active] /\ window' = [window EXCEPT ![s] = Asked(s)]
        /\ file' = [file EXCEPT ![active] = Asked(s)] /\ history' = Asked(s) /\ active' = active
    BY <1>7 DEF Prepared, Persist
  <2>2. conv[s] = None
    BY <1>7 DEF Prepared, MoveStream, RunHasConv
  <2>3. ASSUME NEW c \in Convs, NEW m \in Seq(Message), OwnBy(conv, c, m)
        PROVE  OwnBy(conv', c, m)
    <3> SUFFICES ASSUME NEW i \in DOMAIN m PROVE conv'[m[i].by] = c
      BY DEF OwnBy
    <3>1. m[i].by \in Streams
      <4>1. m[i] \in Message
        BY ElementOfSeq, LenProperties
      <4>2. QED
        BY <4>1 DEF Message
    <3>2. conv[m[i].by] = c
      BY <2>3 DEF OwnBy
    <3>3. m[i].by # s
      BY <2>2, <3>2
    <3>4. QED
      BY <1>3, <2>1, <3>1, <3>2, <3>3
  <2>4. OwnBy(conv', active, Asked(s))
    <3>1. OwnBy(conv', active, history)
      BY <1>1, <1>3, <2>3 DEF Isolation
    <3>2. conv'[s] = active
      BY <1>3, <2>1
    <3>3. \A i \in DOMAIN Asked(s) : \/ Asked(s)[i] = [by |-> s, kind |-> "question"]
                                     \/ i \in DOMAIN history /\ Asked(s)[i] = history[i]
      <4>1. "question" \in {"question", "answer"} /\ history \in Seq(Message)
        BY <1>3
      <4>2. \A i \in DOMAIN Append(history, [by |-> s, kind |-> "question"]) :
               \/ Append(history, [by |-> s, kind |-> "question"])[i] = [by |-> s, kind |-> "question"]
               \/ /\ i \in DOMAIN history
                  /\ Append(history, [by |-> s, kind |-> "question"])[i] = history[i]
        BY <4>1, MessageAppended, Zenon
      <4>3. QED
        BY <4>2, Zenon DEF Asked
    <3>4. QED
      BY <3>1, <3>2, <3>3 DEF OwnBy
  <2>5. \A c \in Convs : OwnBy(conv', c, file'[c])
    <3> SUFFICES ASSUME NEW c \in Convs PROVE OwnBy(conv', c, file'[c])
      OBVIOUS
    <3>1. CASE c = active
      BY <1>3, <2>1, <2>4, <3>1
    <3>2. CASE c # active
      <4>1. file'[c] = file[c] /\ file[c] \in Seq(Message)
        BY <1>3, <2>1, <3>2
      <4>2. OwnBy(conv, c, file[c])
        BY <1>1 DEF Isolation
      <4>3. QED
        BY <2>3, <4>1, <4>2
    <3>3. QED
      BY <3>1, <3>2
  <2>6. \A t \in Streams : OwnBy(conv', conv'[t], window'[t])
    <3> SUFFICES ASSUME NEW t \in Streams PROVE OwnBy(conv', conv'[t], window'[t])
      OBVIOUS
    <3>1. CASE t = s
      BY <1>3, <2>1, <2>4, <3>1
    <3>2. CASE t # s /\ conv[t] \in Convs
      <4>1. window'[t] = window[t] /\ window[t] \in Seq(Message) /\ conv'[t] = conv[t]
        BY <1>3, <2>1, <3>2
      <4>2. OwnBy(conv, conv[t], window[t])
        BY <1>1 DEF Isolation
      <4>3. QED
        BY <2>3, <3>2, <4>1, <4>2
    <3>3. CASE t # s /\ conv[t] = None
      <4>1. window'[t] = <<>>
        BY <1>1, <1>3, <2>1, <3>3 DEF Isolation
      <4>2. QED
        BY <4>1 DEF OwnBy
    <3>4. QED
      BY <1>3, <3>1, <3>2, <3>3
  <2>7. \A t \in Streams : conv'[t] = None => window'[t] = <<>>
    BY <1>1, <1>3, <2>1 DEF Isolation
  <2>8. QED
    BY <2>1, <2>4, <2>5, <2>6, <2>7
<1>8. ASSUME NEW s \in Streams, RunEnds(s) PROVE Own
  <2>1. /\ UNCHANGED <<active, conv, window>> /\ pc[s] = "live" /\ agent = runs_on[s]
        /\ conv[s] \in Convs
    BY <1>1, <1>8 DEF RunEnds, MoveStream, RunHasConv, Isolation
  <2>2. PICK messages \in Results(s) : last' = [last EXCEPT ![runs_on[s]] = messages]
    BY <1>8 DEF RunEnds
  <2>3. last'[agent] = messages
    BY <2>1, <2>2 DEF TypeOK, AgentTypes, StreamTypes
  <2>4. OwnBy(conv, conv[s], window[s])
    BY <1>1 DEF Isolation
  <2>5. OwnBy(conv, conv[s], messages)
    <3>1. window[s] \in Seq(Message)
      BY <1>3
    <3>2. \A k \in DOMAIN messages : \/ messages[k] = [by |-> s, kind |-> "answer"]
                                     \/ \E i \in DOMAIN window[s] : messages[k] = window[s][i]
      BY <2>2, <3>1, ResultHolds
    <3>3. QED
      BY <2>4, <3>2 DEF OwnBy
  <2>6. \/ UNCHANGED <<file, history>>
        \/ /\ file' = [file EXCEPT ![conv[s]] = messages]
           /\ history' = IF conv[s] = active THEN messages ELSE history
    BY <1>8, <2>3 DEF RunEnds, Target, HistoryAfter, storeVars
  <2>7. \A c \in Convs : OwnBy(conv, c, file'[c])
    BY <1>1, <1>3, <2>1, <2>5, <2>6 DEF Isolation
  <2>8. OwnBy(conv, active, history')
    BY <1>1, <2>5, <2>6 DEF Isolation
  <2>9. QED
    BY <1>1, <2>1, <2>7, <2>8 DEF Isolation
<1>9. ASSUME UNCHANGED <<conv, window>>,
             \E c \in Convs, m \in {history, <<>>} :
               /\ file' = [file EXCEPT ![c] = m] /\ (m = <<>> \/ c = active)
               /\ \/ history' = <<>>
                  \/ UNCHANGED <<active, history>>
                  \/ active' \in Convs /\ history' = file'[active']
      PROVE  Own
  <2>1. \A c \in Convs : OwnBy(conv, c, file'[c])
    <3>1. PICK c \in Convs, m \in {history, <<>>} :
                 file' = [file EXCEPT ![c] = m] /\ (m = <<>> \/ c = active)
      BY <1>9
    <3>2. OwnBy(conv, c, m)
      BY <1>1, <1>5, <3>1 DEF Isolation
    <3>3. QED
      BY <1>1, <1>3, <3>1, <3>2 DEF Isolation
  <2>2. OwnBy(conv, active', history')
    <3>1. OwnBy(conv, active', <<>>)
      BY DEF OwnBy
    <3>2. QED
      BY <1>1, <1>9, <2>1, <3>1 DEF Isolation
  <2>3. QED
    BY <1>1, <1>9, <2>1, <2>2 DEF Isolation
<1>10. ASSUME Cut PROVE Own
  <2>1. PICK i \in DOMAIN history : /\ history' = SubSeq(history, 1, i - 1)
                                    /\ Persist(SubSeq(history, 1, i - 1))
    BY <1>10 DEF Cut
  <2>2. UNCHANGED <<conv, window, active>>
    BY <1>10 DEF Cut, streamVars
  <2>3. OwnBy(conv, active, SubSeq(history, 1, i - 1))
    BY <1>1, <1>3, BeforeCut DEF OwnBy, Isolation
  <2>4. QED
    BY <1>1, <1>3, <2>1, <2>2, <2>3 DEF Isolation, Persist
<1>11. ASSUME \/ NewConversation \/ DeleteLast \/ DeleteActive \/ DeleteActiveBusy
              \/ \E c \in Convs : Switch(c) \/ DeleteOther(c)
       PROVE  Own
  <2>1. UNCHANGED <<conv, window>>
    BY <1>11 DEF NewConversation, DeleteLast, DeleteActive, DeleteActiveBusy, Switch,
                 DeleteOther, streamVars
  <2>2. active' \in Convs
    BY StoreKept DEF StoreInv, StoreTypes
  <2>3. \E c \in Convs, m \in {history, <<>>} :
               /\ file' = [file EXCEPT ![c] = m] /\ (m = <<>> \/ c = active)
               /\ \/ history' = <<>>
                  \/ UNCHANGED <<active, history>>
                  \/ active' \in Convs /\ history' = file'[active']
    <3>1. CASE NewConversation \/ DeleteLast
      BY <1>3, <3>1 DEF NewConversation, DeleteLast
    <3>2. CASE DeleteActive \/ \E c \in Convs : Switch(c)
      BY <1>3, <2>2, <3>2 DEF DeleteActive, Switch, SwitchTo, Persist
    <3>3. CASE DeleteActiveBusy
      <4>1. file' = [file EXCEPT ![active] = <<>>] /\ UNCHANGED <<active, history>>
        BY <3>3 DEF DeleteActiveBusy, sessionVars
      <4>2. QED
        BY <1>3, <4>1
    <3>4. ASSUME NEW c \in Convs, DeleteOther(c)
          PROVE  file' = [file EXCEPT ![c] = <<>>] /\ UNCHANGED <<active, history>>
      BY <3>4 DEF DeleteOther, sessionVars
    <3>5. CASE \E c \in Convs : DeleteOther(c)
      BY <3>4, <3>5
    <3>6. QED
      BY <1>11, <3>1, <3>2, <3>3, <3>5
  <2>4. QED
    BY <1>9, <2>1, <2>3
<1>12. Quiet => UNCHANGED window
  BY DEF Quiet
<1>13. QED
  BY <1>6, <1>7, <1>8, <1>10, <1>11, <1>12, QuietOrStore DEF StoreStep

-------------------------------------------------------------------------------
(* The results.                                                               *)

\* The invariant is inductive.
THEOREM InvNext == WebInv /\ [Next]_vars => WebInv'
<1> SUFFICES ASSUME WebInv, [Next]_vars PROVE WebInv'
  OBVIOUS
<1>1. TypeOK /\ RunHasConv /\ ReloadFits /\ BusyIsHeld
  BY DEF WebInv
<1>2. StreamTypes' /\ RunHasConv'
  BY <1>1, StreamsKept
<1>3. AgentTypes'
  BY <1>1, AgentsKept
<1>4. HandlerTypes' /\ ReloadFits'
  BY <1>1, HandlersKept
<1>5. Flags'
  BY <1>1, FlagsKept DEF TypeOK
<1>6. BusyIsHeld'
  BY <1>1, BusyKept
<1>7. StoreTypes' /\ IdsInv' /\ MemoryMatchesFile' /\ SessionIsListed'
  BY StoreKept DEF StoreInv
<1>8. ~swapped' => Isolation'
  BY IsolationKept
<1>9. QED
  BY <1>2, <1>3, <1>4, <1>5, <1>6, <1>7, <1>8 DEF WebInv, TypeOK

\* The invariant holds in every reachable state.
THEOREM WebInvariant == Spec => []WebInv
BY InvInit, InvNext, PTL DEF Spec

\* The session, the store and the streams keep their types, and a conversation
\* is in the index once.
THEOREM WebTypeCorrect == Spec => []TypeOK
<1>1. WebInv => TypeOK
  BY DEF WebInv
<1>2. QED
  BY <1>1, WebInvariant, PTL

\* What the session holds in memory is what the file of the active conversation
\* says, between any two requests.
THEOREM MemoryIsTheFile == Spec => []MemoryMatchesFile
<1>1. WebInv => MemoryMatchesFile
  BY DEF WebInv
<1>2. QED
  BY <1>1, WebInvariant, PTL

\* The index points to the conversation the session works on, unless that was
\* deleted under it.
THEOREM SessionStaysListed == Spec => []SessionIsListed
<1>1. WebInv => SessionIsListed
  BY DEF WebInv
<1>2. QED
  BY <1>1, WebInvariant, PTL

\* The busy flag names a request that is going to clear it.
THEOREM BusyIsNeverLeft == Spec => []BusyIsHeld
<1>1. WebInv => BusyIsHeld
  BY DEF WebInv
<1>2. QED
  BY <1>1, WebInvariant, PTL

\* Conversations do not mix as long as no agent is replaced under a run.
THEOREM ConversationsStayApart == Spec => []NoCrossTalk
<1>1. WebInv => NoCrossTalk
  <2> SUFFICES ASSUME WebInv, ~swapped PROVE NoCrossTalk
    BY DEF NoCrossTalk
  <2>1. Isolation /\ Kept \subseteq Convs
    BY KeptAreConvs DEF WebInv, TypeOK, StoreTypes
  <2>2. QED
    BY <2>1 DEF Isolation, OwnBy, NoCrossTalk, OwnMessages
<1>2. QED
  BY <1>1, WebInvariant, PTL

-------------------------------------------------------------------------------
(* The client of the agent, and the answers in the files.                     *)

\* A stream that has asked and is not over; one that has a client to put back.
Asking(s) == conv[s] # None /\ UnderWay(s)
Holding(s) == prev[s] # None /\ pc[s] # "over"

\* Without overlaps one stream at a time asks, and only it holds a client.
OneRun ==
    /\ \A s \in Streams : prev[s] # None =>
         conv[s] # None /\ pc[s] \in {"running", "live", "saved", "ending", "restoring", "over"}
    /\ ~overlapped => \A s, t \in Streams : Asking(s) /\ Asking(t) => s = t

\* The client of the session's agent is its own, or that of the stream that will put it
\* back; it is closed only while another agent is on its way.
ClientInv ==
    ~overlapped /\ ~swapped =>
      /\ \A a \in Agents : a > agent => client[a] = a /\ a \notin closed
      /\ (\A s \in Streams : ~Holding(s)) => client[agent] = agent
      /\ \A s \in Streams : Holding(s) => client[agent] = s /\ prev[s] = agent
      /\ reload = "idle" => agent \notin closed

\* A run was given every answer of its conversation.
AnswersInv ==
    ~overlapped /\ ~swapped =>
      \A s \in Streams : pc[s] \in {"noted", "running", "live"} =>
        /\ Answers(file[conv[s]]) \subseteq Answers(window[s])
        /\ conv[s] = active => Answers(history) \subseteq Answers(window[s])

\* What a stream does is a move of its program counter, with these changes.
StreamMoves(s, to) ==
    /\ pc' = [pc EXCEPT ![s] = to]
    /\ \/ /\ to \in {"checked", "preparing"} /\ pc[s] \in {"idle", "checked"}
          /\ UNCHANGED <<conv, prev, overlapped>>
       \/ /\ to \in {"live", "saved", "ending", "restoring", "over"} /\ pc[s] \notin {"idle", "over"}
          /\ to # "ending" => pc[s] \notin {"checked", "preparing"}
          /\ to = "live" => pc[s] = "running"
          /\ UNCHANGED <<conv, prev, overlapped>>
       \/ /\ to = "noted" /\ pc[s] = "preparing" /\ UNCHANGED prev
          /\ conv' = [conv EXCEPT ![s] = active]
          /\ overlapped' <=> overlapped \/ \E t \in Streams \ {s} : UnderWay(t)
       \/ /\ to = "running" /\ pc[s] = "noted" /\ UNCHANGED <<conv, overlapped>>
          /\ UNCHANGED prev \/ prev' = [prev EXCEPT ![s] = client[agent]]

\* Every step of a stream that moves it is such a move, and nothing else touches these.
LEMMA MovesOrNot ==
  ASSUME [Next]_vars
  PROVE  \/ UNCHANGED <<pc, conv, prev, overlapped>>
         \/ \E s \in Streams, to \in StreamPC : StreamMoves(s, to)
<1>1. ASSUME NEW s \in Streams, Prepared(s) PROVE StreamMoves(s, "noted")
  BY <1>1 DEF Prepared, MoveStream, StreamMoves, agentVars
<1>2. ASSUME NEW s \in Streams, StartRun(s) PROVE StreamMoves(s, "running")
  <2>1. pc[s] = "noted" /\ pc' = [pc EXCEPT ![s] = "running"] /\ UNCHANGED <<conv, overlapped>>
    BY <1>2 DEF StartRun, MoveStream, historyVars
  <2>2. UNCHANGED prev \/ prev' = [prev EXCEPT ![s] = client[agent]]
    BY <1>2 DEF StartRun
  <2>3. QED
    BY <2>1, <2>2 DEF StreamMoves
<1>3. ASSUME NEW s \in Streams, StreamArrives(s) \/ BeginPrepare(s)
      PROVE  \E to \in StreamPC : StreamMoves(s, to)
  BY <1>3 DEF StreamArrives, BeginPrepare, MoveStream, StreamMoves, historyVars, StreamPC
<1>4. ASSUME NEW s \in Streams, RunStarts(s) \/ RunEnds(s) \/ Remembered(s)
      PROVE  \E to \in StreamPC : StreamMoves(s, to)
  BY <1>4 DEF RunStarts, RunEnds, Remembered, MoveStream, StreamMoves, historyVars, StreamPC
<1>5. ASSUME NEW s \in Streams,
             GiveUp(s) \/ Leave(s) \/ EndStream(s) \/ CloseClient(s) \/ RestoreClient(s)
      PROVE  \E to \in StreamPC : StreamMoves(s, to)
  BY <1>5 DEF GiveUp, Leave, EndStream, CloseClient, RestoreClient, MoveStream, StreamMoves,
              historyVars, StreamPC
<1>6. ASSUME NEW s \in Streams, OrphanCloses(s) PROVE UNCHANGED <<pc, conv, prev, overlapped>>
  BY <1>6 DEF OrphanCloses, historyVars
<1>7. HandlerStep => UNCHANGED <<pc, conv, prev, overlapped>>
  BY DEF HandlerStep, NewConversation, DeleteActiveBusy, DeleteActive, DeleteLast, CutArrives,
         Cut, CutRefused, ReloadBegins, ReloadEnds, ReviewArrives, ReviewRuns, ReviewEnds,
         Switch, DeleteOther, streamVars, historyVars
<1>8. UNCHANGED vars => UNCHANGED <<pc, conv, prev, overlapped>>
  BY DEF vars, streamVars, historyVars
<1>9. "noted" \in StreamPC /\ "running" \in StreamPC
  BY DEF StreamPC
<1>10. QED
  BY <1>1, <1>2, <1>3, <1>4, <1>5, <1>6, <1>7, <1>8, <1>9 DEF Next, StreamStep

LEMMA OneRunNext ==
  ASSUME WebInv, OneRun, [Next]_vars
  PROVE  OneRun'
<1>1. /\ pc \in [Streams -> StreamPC] /\ conv \in [Streams -> Convs \cup {None}]
      /\ prev \in [Streams -> Clients \cup {None}] /\ active \in Convs
  BY DEF WebInv, TypeOK, StreamTypes, StoreTypes
<1>2. \A s \in Streams : pc[s] \in {"idle", "checked", "preparing"} => conv[s] = None
  BY DEF WebInv, RunHasConv
<1>3. CASE UNCHANGED <<pc, conv, prev, overlapped>>
  BY <1>3 DEF OneRun, Asking, UnderWay
<1>4. ASSUME NEW s \in Streams, NEW to \in StreamPC, StreamMoves(s, to)
      PROVE  OneRun'
  <2>1. \A t \in Streams \ {s} : pc'[t] = pc[t] /\ conv'[t] = conv[t] /\ prev'[t] = prev[t]
    BY <1>1, <1>4 DEF StreamMoves
  <2>2. pc'[s] = to
    BY <1>1, <1>4 DEF StreamMoves
  <2>3. prev'[s] # None =>
          conv'[s] # None /\ to \in {"running", "live", "saved", "ending", "restoring", "over"}
    <3>1. CASE to = "running" /\ pc[s] = "noted" /\ conv' = conv
      BY <1>1, <3>1, Ids DEF WebInv, RunHasConv
    <3>2. CASE prev' = prev
      <4>1. prev[s] # None => conv[s] # None /\ conv[s] = conv'[s]
        BY <1>1, <1>2, <1>4, <3>2 DEF OneRun, StreamMoves
      <4>2. QED
        BY <1>2, <1>4, <3>2, <4>1 DEF OneRun, StreamMoves
    <3>3. QED
      BY <1>4, <3>1, <3>2 DEF StreamMoves
  <2>4. \A t \in Streams : prev'[t] # None =>
          conv'[t] # None /\ pc'[t] \in {"running", "live", "saved", "ending", "restoring", "over"}
    BY <2>1, <2>2, <2>3 DEF OneRun
  <2>5. ASSUME ~overlapped', NEW t \in Streams, t # s, Asking(t)', Asking(s)'
        PROVE  FALSE
    <3>1. Asking(t)
      BY <2>1, <2>5 DEF Asking, UnderWay
    <3>2. to # "noted" /\ overlapped' = overlapped
      BY <1>4, <2>5, <3>1 DEF StreamMoves, Asking
    <3>3. Asking(s)
      <4>1. conv' = conv /\ conv[s] # None
        BY <1>4, <2>5, <3>2 DEF StreamMoves, Asking
      <4>2. pc[s] \notin {"idle", "checked", "preparing"}
        BY <1>2, <4>1
      <4>3. pc[s] # "over"
        BY <1>4 DEF StreamMoves
      <4>4. QED
        BY <1>1, <4>1, <4>2, <4>3 DEF Asking, UnderWay, StreamPC
    <3>4. QED
      BY <2>5, <3>1, <3>2, <3>3 DEF OneRun
  <2>6. overlapped => overlapped'
    BY <1>4 DEF StreamMoves
  <2>7. ASSUME ~overlapped', NEW t \in Streams, NEW u \in Streams, Asking(t)', Asking(u)'
        PROVE  t = u
    <3>1. CASE t = s \/ u = s
      BY <2>5, <2>7, <3>1
    <3>2. CASE t # s /\ u # s
      BY <2>1, <2>6, <2>7, <3>2 DEF OneRun, Asking, UnderWay
    <3>3. QED
      BY <3>1, <3>2
  <2>8. QED
    BY <2>4, <2>7 DEF OneRun
<1>5. QED
  BY <1>3, <1>4, MovesOrNot

\* What happened is not forgotten.
LEMMA NothingForgotten ==
  ASSUME WebInv, [Next]_vars
  PROVE  (~overlapped' => ~overlapped) /\ (~swapped' => ~swapped)
BY MovesOrNot, FlagsKept DEF WebInv, TypeOK, StreamMoves

\* The steps that leave the agents and their clients alone leave the ones that hold one.
LEMMA HoldersStay ==
  ASSUME WebInv, OneRun, [Next]_vars,
         \A s \in Streams : ~StartRun(s) /\ ~CloseClient(s) /\ ~RestoreClient(s),
         ~ReloadBegins, ~ReloadEnds
  PROVE  /\ UNCHANGED <<agent, client, closed, reload>>
         /\ \A s \in Streams : (Holding(s)' <=> Holding(s)) /\ prev'[s] = prev[s]
<1>1. pc \in [Streams -> StreamPC] /\ prev \in [Streams -> Clients \cup {None}]
  BY DEF WebInv, TypeOK, StreamTypes
<1> DEFINE Same == UNCHANGED <<agent, client, closed, reload>>
           Holders == \A s \in Streams : (Holding(s)' <=> Holding(s)) /\ prev'[s] = prev[s]
<1>2. ASSUME NEW s \in Streams,
             \/ StreamArrives(s) \/ BeginPrepare(s) \/ Prepared(s) \/ RunStarts(s) \/ RunEnds(s)
             \/ Remembered(s) \/ GiveUp(s) \/ Leave(s)
      PROVE  Same /\ Holders
  <2>1. Same /\ UNCHANGED prev
    BY <1>2 DEF StreamArrives, BeginPrepare, Prepared, RunStarts, RunEnds, Remembered, GiveUp,
                Leave, agentVars, handlerVars
  <2>2. \E to \in StreamPC \ {"over"} : pc' = [pc EXCEPT ![s] = to] /\ pc[s] # "over"
    BY <1>2 DEF StreamArrives, BeginPrepare, Prepared, RunStarts, RunEnds, Remembered, GiveUp,
                Leave, MoveStream, StreamPC
  <2>3. QED
    BY <1>1, <2>1, <2>2 DEF Holding
<1>3. ASSUME NEW s \in Streams, EndStream(s) PROVE Same /\ Holders
  <2>1. Same /\ UNCHANGED prev /\ prev[s] = None /\ pc' = [pc EXCEPT ![s] = "over"]
    BY <1>3 DEF EndStream, MoveStream, agentVars, handlerVars
  <2>2. QED
    BY <1>1, <2>1 DEF Holding
<1>4. ASSUME NEW s \in Streams, OrphanCloses(s) PROVE Same /\ Holders
  BY <1>4 DEF OrphanCloses, handlerVars, Holding
<1>5. HandlerStep => Same /\ UNCHANGED <<pc, prev>>
  BY DEF HandlerStep, NewConversation, DeleteActiveBusy, DeleteActive, DeleteLast, CutArrives,
         Cut, CutRefused, ReviewArrives, ReviewRuns, ReviewEnds, Switch, DeleteOther, streamVars,
         agentVars
<1>6. UNCHANGED vars => Same /\ UNCHANGED <<pc, prev>>
  BY DEF vars, streamVars, agentVars, handlerVars
<1>7. UNCHANGED <<pc, prev>> => Holders
  BY DEF Holding
<1> HIDE DEF Holders
<1>8. QED
  BY <1>2, <1>3, <1>4, <1>5, <1>6, <1>7 DEF Next, StreamStep, Holders

\* No client is one of another kind, and none is None.
LEMMA ClientsApart ==
  /\ \A s \in Streams : s \notin Agents /\ s # None
  /\ None \notin Agents /\ Agents \subseteq Nat /\ MaxReloads \in Nat
BY ConstantsAssumption DEF ConstantsAssumption, Agents

LEMMA ClientNext ==
  ASSUME WebInv, OneRun, ClientInv, [Next]_vars, ~overlapped', ~swapped'
  PROVE  ClientInv'
<1> DEFINE Own == /\ \A a \in Agents : a > agent => client[a] = a /\ a \notin closed
                  /\ (\A s \in Streams : ~Holding(s)) => client[agent] = agent
                  /\ \A s \in Streams : Holding(s) => client[agent] = s /\ prev[s] = agent
                  /\ reload = "idle" => agent \notin closed
<1>1. ~overlapped /\ ~swapped /\ Own
  BY NothingForgotten DEF ClientInv
<1>2. /\ agent \in Agents /\ client \in [Agents -> Clients] /\ closed \subseteq Clients
      /\ pc \in [Streams -> StreamPC] /\ prev \in [Streams -> Clients \cup {None}]
      /\ conv \in [Streams -> Convs \cup {None}]
  BY DEF WebInv, TypeOK, AgentTypes, StreamTypes
<1>3. SUFFICES Own'
  BY DEF ClientInv, Agents
<1>4. \A s, t \in Streams : Holding(s) /\ Asking(t) => s = t
  <2>1. \A s \in Streams : Holding(s) => Asking(s)
    BY DEF OneRun, Holding, Asking, UnderWay
  <2>2. QED
    BY <1>1, <2>1 DEF OneRun
<1>5. ASSUME NEW s \in Streams, StartRun(s) PROVE Own'
  <2>1. /\ pc[s] = "noted" /\ pc' = [pc EXCEPT ![s] = "running"]
        /\ UNCHANGED <<agent, closed, reload>>
        /\ \/ UNCHANGED <<prev, client>>
           \/ /\ prev' = [prev EXCEPT ![s] = client[agent]]
              /\ client' = [client EXCEPT ![agent] = s]
    BY <1>5 DEF StartRun, MoveStream, handlerVars
  <2>2. Asking(s) /\ prev[s] = None
    BY <2>1, Ids DEF WebInv, RunHasConv, OneRun, Asking, UnderWay
  <2>3. \A t \in Streams : ~Holding(t)
    BY <1>4, <2>2 DEF Holding
  <2>4. client[agent] = agent
    BY <1>1, <2>3
  <2>5. \A t \in Streams \ {s} : ~Holding(t)'
    BY <1>2, <2>1, <2>3 DEF Holding
  <2>6. CASE UNCHANGED <<prev, client>>
    <3>1. ~Holding(s)'
      BY <2>2, <2>6 DEF Holding
    <3>2. QED
      BY <1>1, <2>1, <2>4, <2>5, <2>6, <3>1 DEF Agents
  <2>7. CASE prev' = [prev EXCEPT ![s] = client[agent]] /\ client' = [client EXCEPT ![agent] = s]
    <3>1. prev'[s] = agent /\ client'[agent] = s /\ prev'[s] # None
      BY <1>2, <2>4, <2>7, ClientsApart
    <3>2. Holding(s)'
      BY <1>2, <2>1, <3>1 DEF Holding
    <3>3. \A a \in Agents : a > agent => client'[a] = client[a]
      BY <1>2, <2>7, ClientsApart
    <3>4. QED
      BY <1>1, <2>1, <2>5, <3>1, <3>2, <3>3 DEF Agents
  <2>8. QED
    BY <2>1, <2>6, <2>7
<1>6. ASSUME NEW s \in Streams, CloseClient(s) PROVE Own'
  <2>1. /\ prev[s] # None /\ pc[s] = "ending" /\ pc' = [pc EXCEPT ![s] = "restoring"]
        /\ closed' = closed \cup {client[agent]} /\ UNCHANGED <<agent, client, prev, reload>>
    BY <1>6 DEF CloseClient, MoveStream, handlerVars
  <2>2. Holding(s)
    BY <2>1 DEF Holding
  <2>3. client[agent] = s /\ s \notin Agents
    BY <1>1, <2>2, ClientsApart
  <2>4. \A t \in Streams : Holding(t)' <=> Holding(t)
    BY <1>2, <2>1 DEF Holding
  <2>5. QED
    BY <1>1, <1>2, <2>1, <2>3, <2>4 DEF Agents
<1>7. ASSUME NEW s \in Streams, RestoreClient(s) PROVE Own'
  <2>1. /\ pc[s] = "restoring" /\ pc' = [pc EXCEPT ![s] = "over"]
        /\ client' = [client EXCEPT ![agent] = prev[s]] /\ UNCHANGED <<agent, closed, prev, reload>>
    BY <1>7 DEF RestoreClient, MoveStream, Restored, handlerVars
  <2>2. Holding(s) /\ Asking(s)
    BY <2>1, Ids DEF WebInv, RunHasConv, OneRun, Holding, Asking, UnderWay
  <2>3. client'[agent] = agent /\ \A a \in Agents : a > agent => client'[a] = client[a]
    BY <1>1, <1>2, <2>1, <2>2, ClientsApart
  <2>4. \A t \in Streams : ~Holding(t)'
    <3>1. ~Holding(s)'
      BY <1>2, <2>1 DEF Holding
    <3>2. \A t \in Streams \ {s} : ~Holding(t)
      BY <1>4, <2>2
    <3>3. QED
      BY <1>2, <2>1, <3>1, <3>2 DEF Holding
  <2>5. QED
    BY <1>1, <2>1, <2>3, <2>4 DEF Agents
<1>8. ASSUME ReloadBegins PROVE Own'
  <2>1. /\ reload' = "closing" /\ closed' = closed \cup {client[agent]}
        /\ UNCHANGED <<agent, client, pc, prev>>
    BY <1>8 DEF ReloadBegins, streamVars
  <2>2. client[agent] \in Streams \cup {agent}
    <3>1. CASE \A s \in Streams : ~Holding(s)
      BY <1>1, <3>1
    <3>2. CASE \E s \in Streams : Holding(s)
      BY <1>1, <3>2
    <3>3. QED
      BY <3>1, <3>2
  <2>3. \A a \in Agents : a > agent => a \notin closed'
    <3>1. \A a \in Agents : a > agent => a # agent /\ a \notin Streams
      BY <1>2, ClientsApart
    <3>2. QED
      BY <1>1, <2>1, <2>2, <3>1
  <2>4. \A s \in Streams : Holding(s)' <=> Holding(s)
    BY <2>1 DEF Holding
  <2>5. QED
    BY <1>1, <2>1, <2>3, <2>4 DEF Agents
<1>9. ASSUME ReloadEnds PROVE Own'
  <2>1. /\ agent' = agent + 1 /\ UNCHANGED <<client, closed, pc, prev>> /\ reload = "closing"
        /\ (swapped' <=> swapped \/ \E s \in Streams :
                           pc[s] \in {"running", "live", "saved", "ending", "restoring"})
    BY <1>9 DEF ReloadEnds, streamVars
  <2>2. agent + 1 \in Agents /\ agent + 1 > agent /\ \A a \in Agents : a > agent + 1 => a > agent
    <3>1. agent < MaxReloads
      BY <2>1 DEF WebInv, ReloadFits
    <3>2. QED
      BY <1>2, <3>1, ClientsApart DEF Agents
  <2>3. \A s \in Streams : ~Holding(s) /\ ~Holding(s)'
    BY <2>1 DEF OneRun, Holding
  <2>4. QED
    BY <1>1, <2>1, <2>2, <2>3 DEF Agents
<1>10. CASE /\ \A s \in Streams : ~StartRun(s) /\ ~CloseClient(s) /\ ~RestoreClient(s)
            /\ ~ReloadBegins /\ ~ReloadEnds
  <2>1. /\ UNCHANGED <<agent, client, closed, reload>>
        /\ \A s \in Streams : (Holding(s)' <=> Holding(s)) /\ prev'[s] = prev[s]
    BY <1>10, HoldersStay
  <2>2. QED
    BY <1>1, <2>1 DEF Agents
<1>11. QED
  BY <1>5, <1>6, <1>7, <1>8, <1>9, <1>10

\* Adding a message loses no answer, cutting a history adds none.
LEMMA AppendedAnswers ==
  ASSUME NEW h \in Seq(Message), NEW x \in Message
  PROVE  Answers(h) \subseteq Answers(Append(h, x))
<1> DEFINE a == Append(h, x)
<1>1. a \in Seq(Message) /\ Len(a) = Len(h) + 1 /\ \A i \in 1..Len(h) : a[i] = h[i]
  BY AppendProperties
<1>2. DOMAIN h = 1..Len(h) /\ DOMAIN a = 1..(Len(h) + 1) /\ Len(h) \in Nat
  BY <1>1, LenProperties
<1> HIDE DEF a
<1>3. \A i \in DOMAIN h : i \in DOMAIN a /\ a[i] = h[i]
  BY <1>1, <1>2
<1>4. Answers(h) \subseteq Answers(a)
  BY <1>3 DEF Answers
<1>5. QED
  BY <1>4 DEF a

LEMMA CutAnswers ==
  ASSUME NEW h \in Seq(Message), NEW i \in DOMAIN h
  PROVE  Answers(SubSeq(h, 1, i - 1)) \subseteq Answers(h)
<1> DEFINE b == SubSeq(h, 1, i - 1)
<1>1. \A k \in DOMAIN b : k \in DOMAIN h /\ b[k] = h[k]
  BY BeforeCut
<1> HIDE DEF b
<1>2. Answers(b) \subseteq Answers(h)
  BY <1>1 DEF Answers
<1>3. QED
  BY <1>2 DEF b

\* Only a stream that prepares begins to have a window.
LEMMA WindowsBegin ==
  ASSUME WebInv, [Next]_vars, NEW s \in Streams, pc'[s] \in {"noted", "running", "live"}
  PROVE  \/ pc[s] \in {"noted", "running", "live"} /\ conv'[s] = conv[s]
         \/ pc[s] = "preparing" /\ conv[s] = None /\ conv'[s] # None
<1>1. /\ pc \in [Streams -> StreamPC] /\ conv \in [Streams -> Convs \cup {None}]
      /\ active \in Convs /\ active # None
  BY Ids DEF WebInv, TypeOK, StreamTypes, StoreTypes
<1>2. pc[s] = "preparing" => conv[s] = None
  BY DEF WebInv, RunHasConv
<1>3. ASSUME NEW t \in Streams, NEW to \in StreamPC, StreamMoves(t, to)
      PROVE  \/ pc[s] \in {"noted", "running", "live"} /\ conv'[s] = conv[s]
             \/ pc[s] = "preparing" /\ conv'[s] # None
  <2>1. CASE t = s
    BY <1>1, <1>3, <2>1 DEF StreamMoves
  <2>2. CASE t # s
    BY <1>1, <1>3, <2>2 DEF StreamMoves
  <2>3. QED
    BY <2>1, <2>2
<1>4. QED
  BY <1>2, <1>3, MovesOrNot

LEMMA AnswersNext ==
  ASSUME WebInv, OneRun, AnswersInv, [Next]_vars, ~overlapped', ~swapped'
  PROVE  AnswersInv'
<1> DEFINE Given(t) == /\ Answers(file[conv[t]]) \subseteq Answers(window[t])
                       /\ conv[t] = active => Answers(history) \subseteq Answers(window[t])
<1>1. /\ ~overlapped /\ ~swapped
      /\ \A t \in Streams : pc[t] \in {"noted", "running", "live"} => Given(t)
  BY NothingForgotten DEF AnswersInv
<1>2. /\ file \in [Convs -> Seq(Message)] /\ history \in Seq(Message) /\ active \in Convs
      /\ conv \in [Streams -> Convs \cup {None}] /\ window \in [Streams -> Seq(Message)]
      /\ pc \in [Streams -> StreamPC]
  BY DEF WebInv, TypeOK, StoreTypes, StreamTypes
<1>3. SUFFICES ASSUME NEW t \in Streams, pc'[t] \in {"noted", "running", "live"}
               PROVE  Given(t)'
  BY DEF AnswersInv
<1>4. Answers(<< >>) = {}
  BY DEF Answers
<1>5. ASSUME NEW s \in Streams, Prepared(s) PROVE Given(t)'
  <2>1. /\ pc' = [pc EXCEPT ![s] = "noted"] /\ history' = Asked(s) /\ active' = active
        /\ conv' = [conv EXCEPT ![s] = active] /\ window' = [window EXCEPT ![s] = Asked(s)]
        /\ file' = [file EXCEPT ![active] = Asked(s)]
        /\ overlapped' = (overlapped \/ \E u \in Streams \ {s} : UnderWay(u))
    BY <1>5 DEF Prepared, MoveStream, Persist
  <2>2. t = s
    <3>1. t # s => UnderWay(t)
      BY <1>2, <1>3, <2>1 DEF UnderWay
    <3>2. QED
      BY <2>1, <3>1
  <2>3. QED
    BY <1>2, <2>1, <2>2
<1>6. ASSUME ~(\E s \in Streams : Prepared(s)) PROVE pc[t] # "preparing" \/ conv'[t] = conv[t]
  <2>1. \A s \in Streams : StreamStep(s) \/ StreamArrives(s) \/ GiveUp(s) \/ Leave(s) => conv' = conv
    BY <1>6 DEF StreamStep, StreamArrives, BeginPrepare, StartRun, RunStarts, RunEnds, Remembered,
                OrphanCloses, EndStream, CloseClient, RestoreClient, GiveUp, Leave
  <2>2. HandlerStep => conv' = conv
    BY DEF HandlerStep, NewConversation, DeleteActiveBusy, DeleteActive, DeleteLast, CutArrives,
           Cut, CutRefused, ReloadBegins, ReloadEnds, ReviewArrives, ReviewRuns, ReviewEnds,
           Switch, DeleteOther, streamVars
  <2>3. UNCHANGED vars => conv' = conv
    BY DEF vars, streamVars
  <2>4. QED
    BY <2>1, <2>2, <2>3 DEF Next
<1>7. ASSUME ~(\E s \in Streams : Prepared(s))
      PROVE  pc[t] \in {"noted", "running", "live"} /\ Given(t) /\ conv[t] \in Convs
  <2>1. pc[t] \in {"noted", "running", "live"}
    BY <1>3, <1>6, <1>7, WindowsBegin
  <2>2. QED
    BY <1>1, <2>1 DEF WebInv, RunHasConv
<1>8. ASSUME NEW s \in Streams, RunEnds(s) PROVE Given(t)'
  <2>1. pc[s] = "live" /\ pc' = [pc EXCEPT ![s] = "saved"] /\ conv' = conv
    BY <1>8 DEF RunEnds, MoveStream
  <2>2. t # s
    BY <1>2, <1>3, <2>1
  <2>3. pc[t] \in {"noted", "running", "live"}
    BY <1>2, <1>3, <2>1, <2>2
  <2>4. Asking(s) /\ Asking(t)
    BY <2>1, <2>3, Ids DEF WebInv, RunHasConv, Asking, UnderWay
  <2>5. QED
    BY <1>1, <2>2, <2>4 DEF OneRun
\* A file is written or deleted, and the history is of a file, or shorter.
<1>9. ASSUME Given(t), conv[t] \in Convs, UNCHANGED <<conv, window>>,
             \E c \in Convs, m \in Seq(Message) :
               /\ file' = [file EXCEPT ![c] = m]
               /\ m = << >> \/ (c = active /\ Answers(m) \subseteq Answers(history))
               /\ \/ history' = << >>
                  \/ history' = file'[active']
                  \/ active' = active /\ Answers(history') \subseteq Answers(history)
      PROVE  Given(t)'
  <2>1. Answers(file'[conv[t]]) \subseteq Answers(window[t])
    <3>1. PICK c \in Convs, m \in Seq(Message) :
               /\ file' = [file EXCEPT ![c] = m]
               /\ m = << >> \/ (c = active /\ Answers(m) \subseteq Answers(history))
      BY <1>9
    <3>2. CASE conv[t] = c
      <4>1. file'[conv[t]] = m
        BY <1>2, <3>1, <3>2
      <4>2. Answers(m) \subseteq Answers(window[t])
        BY <1>4, <1>9, <3>1, <3>2
      <4>3. QED
        BY <4>1, <4>2
    <3>3. CASE conv[t] # c
      <4>1. file'[conv[t]] = file[conv[t]]
        BY <1>2, <1>9, <3>1, <3>3
      <4>2. QED
        BY <1>9, <4>1
    <3>4. QED
      BY <3>2, <3>3
  <2>2. conv[t] = active' => Answers(history') \subseteq Answers(window[t])
    <3>1. CASE history' = << >>
      BY <1>4, <3>1
    <3>2. CASE history' = file'[active']
      BY <2>1, <3>2
    <3>3. CASE active' = active /\ Answers(history') \subseteq Answers(history)
      BY <1>9, <3>3
    <3>4. QED
      BY <1>9, <3>1, <3>2, <3>3
  <2>3. /\ Answers(file[conv[t]])' = Answers(file'[conv[t]])
        /\ Answers(window[t])' = Answers(window[t]) /\ Answers(history)' = Answers(history')
    BY <1>9 DEF Answers
  <2>4. QED
    BY <1>9, <2>1, <2>2, <2>3
<1> DEFINE Rewritten == \E c \in Convs, m \in Seq(Message) :
               /\ file' = [file EXCEPT ![c] = m]
               /\ m = << >> \/ (c = active /\ Answers(m) \subseteq Answers(history))
               /\ \/ history' = << >>
                  \/ history' = file'[active']
                  \/ active' = active /\ Answers(history') \subseteq Answers(history)
<1>10. ASSUME NewConversation \/ DeleteLast PROVE Rewritten /\ UNCHANGED <<conv, window>>
  BY <1>2, <1>10 DEF NewConversation, DeleteLast, streamVars
<1>11. ASSUME DeleteActive \/ \E c \in Convs : Switch(c)
       PROVE  Rewritten /\ UNCHANGED <<conv, window>>
  <2>1. /\ file' = [file EXCEPT ![active] = history] /\ history' = file'[active']
        /\ UNCHANGED <<conv, window>>
    BY <1>11 DEF DeleteActive, Switch, SwitchTo, Persist, streamVars
  <2>2. QED
    BY <1>2, <2>1
<1>12. ASSUME DeleteActiveBusy \/ \E c \in Convs : DeleteOther(c)
       PROVE  Rewritten /\ UNCHANGED <<conv, window>>
  <2>1. /\ \E c \in Convs : file' = [file EXCEPT ![c] = << >>]
        /\ UNCHANGED <<active, history, conv, window>>
    BY <1>2, <1>12 DEF DeleteActiveBusy, DeleteOther, sessionVars, streamVars
  <2>2. << >> \in Seq(Message)
    OBVIOUS
  <2>3. QED
    BY <2>1, <2>2
<1>13. ASSUME Cut PROVE Rewritten /\ UNCHANGED <<conv, window>>
  <2>1. PICK i \in DOMAIN history : /\ history' = SubSeq(history, 1, i - 1)
                                    /\ Persist(SubSeq(history, 1, i - 1))
    BY <1>13 DEF Cut
  <2>2. SubSeq(history, 1, i - 1) \in Seq(Message)
    BY <1>2, BeforeCut
  <2>3. Answers(SubSeq(history, 1, i - 1)) \subseteq Answers(history)
    BY <1>2, CutAnswers
  <2>4. UNCHANGED <<active, conv, window>>
    BY <1>13 DEF Cut, streamVars
  <2>5. file' = [file EXCEPT ![active] = SubSeq(history, 1, i - 1)]
    BY <2>1 DEF Persist
  <2>6. QED
    BY <1>2, <2>1, <2>2, <2>3, <2>4, <2>5
<1> HIDE DEF Rewritten
<1>14. ASSUME Quiet, Given(t) PROVE Given(t)'
  BY <1>14 DEF Quiet, storeVars, sessionVars, Answers
<1> HIDE DEF Given
<1>15. QED
  BY <1>5, <1>7, <1>8, <1>9, <1>10, <1>11, <1>12, <1>13, <1>14, QuietOrStore
     DEF StoreStep, Rewritten

\* A step that is no cut leaves the answers of a conversation in its file, unless it saves
\* the shortened messages of a run.
LEMMA AnswersStayNext ==
  ASSUME WebInv, OneRun, AnswersInv, [Next]_vars, ~overlapped', ~swapped', ~Cut,
         NEW c \in Kept, c \in Kept', ~ \E s \in Streams : SavesLess(s, c)
  PROVE  Answers(file[c]) \subseteq Answers(file'[c])
<1>1. ~overlapped /\ ~swapped
  BY NothingForgotten
<1>2. /\ file \in [Convs -> Seq(Message)] /\ history \in Seq(Message) /\ active \in Convs
      /\ window \in [Streams -> Seq(Message)] /\ rows \in Seq(Convs) /\ Once(rows) /\ c \in Convs
      /\ last \in [Agents -> Seq(Message) \cup {None}] /\ agent \in Agents /\ runs_on \in [Streams -> Agents]
  BY KeptAreConvs DEF WebInv, TypeOK, StoreTypes, StreamTypes, AgentTypes, Once
<1>3. c = active => file[c] = history
  BY DEF WebInv, MemoryMatchesFile
<1>4. CASE file' = file
  BY <1>4
<1>5. ASSUME NEW m, file' = [file EXCEPT ![active] = m], Answers(history) \subseteq Answers(m)
      PROVE  Answers(file[c]) \subseteq Answers(file'[c])
  <2>1. CASE c = active
    BY <1>2, <1>3, <1>5, <2>1
  <2>2. CASE c # active
    <3>1. file'[c] = file[c]
      BY <1>2, <1>5, <2>2
    <3>2. QED
      BY <3>1
  <2>3. QED
    BY <2>1, <2>2
<1>6. ASSUME NEW s \in Streams, Prepared(s) PROVE Answers(file[c]) \subseteq Answers(file'[c])
  <2>1. file' = [file EXCEPT ![active] = Asked(s)]
    BY <1>6 DEF Prepared, Persist
  <2>2. [by |-> s, kind |-> "question"] \in Message
    BY DEF Message
  <2>3. Answers(history) \subseteq Answers(Asked(s))
    BY <1>2, <2>2, AppendedAnswers DEF Asked
  <2>4. QED
    BY <1>5, <2>1, <2>3
<1>7. ASSUME NEW s \in Streams, RunEnds(s) PROVE Answers(file[c]) \subseteq Answers(file'[c])
  <2>1. pc[s] = "live" /\ runs_on[s] = agent
    BY <1>1, <1>7 DEF RunEnds, MoveStream, WebInv, Isolation
  <2>2. PICK messages \in Results(s) : last' = [last EXCEPT ![runs_on[s]] = messages]
    BY <1>7 DEF RunEnds
  <2>3. last'[agent] = messages
    BY <1>2, <2>1, <2>2
  <2>4. \/ file' = file
        \/ file' = [file EXCEPT ![conv[s]] = messages]
    BY <1>7, <2>3 DEF RunEnds, Target, storeVars
  <2>5. Answers(file[conv[s]]) \subseteq Answers(window[s])
    BY <1>1, <2>1 DEF AnswersInv
  <2>6. ASSUME messages \in Ended(s, window[s])
        PROVE  Answers(window[s]) \subseteq Answers(messages)
    <3>1. [by |-> s, kind |-> "answer"] \in Message
      BY DEF Message
    <3>2. Answers(window[s]) \subseteq Answers(Append(window[s], [by |-> s, kind |-> "answer"]))
      BY <1>2, <3>1, AppendedAnswers
    <3>3. QED
      BY <2>6, <3>2 DEF Ended
  <2>7. CASE file' = [file EXCEPT ![conv[s]] = messages] /\ c = conv[s]
    <3>1. file'[c] = messages
      BY <1>2, <2>7
    <3>2. pc'[s] = "saved"
      BY <1>7 DEF RunEnds, MoveStream, WebInv, TypeOK, StreamTypes
    <3>3. messages \in Ended(s, window[s])
      BY <2>1, <2>2, <2>7, <3>1, <3>2 DEF SavesLess
    <3>4. QED
      BY <2>5, <2>6, <2>7, <3>1, <3>3
  <2>8. CASE file' = [file EXCEPT ![conv[s]] = messages] /\ c # conv[s]
    <3>1. file'[c] = file[c]
      BY <1>2, <2>8
    <3>2. QED
      BY <3>1
  <2>9. QED
    BY <1>4, <2>4, <2>7, <2>8
<1>8. ASSUME NewConversation \/ DeleteLast \/ DeleteActive \/ \E d \in Convs : Switch(d)
      PROVE  Answers(file[c]) \subseteq Answers(file'[c])
  <2>1. file' = [file EXCEPT ![active] = history]
    BY <1>8 DEF NewConversation, DeleteLast, DeleteActive, Switch, SwitchTo, Persist
  <2>2. QED
    BY <1>5, <2>1
<1>9. ASSUME NEW d \in Convs, rows' = Without(d, rows), file' = [file EXCEPT ![d] = << >>]
      PROVE  Answers(file[c]) \subseteq Answers(file'[c])
  <2>1. Members(Without(d, rows)) = Members(rows) \ {d}
    BY <1>2, WithoutIsIndex
  <2>2. Kept' = Members(Without(d, rows))
    BY <1>9 DEF Kept, Members
  <2>3. c # d
    BY <2>1, <2>2
  <2>4. file'[c] = file[c]
    BY <1>2, <1>9, <2>3
  <2>5. QED
    BY <2>4
<1>10. ASSUME DeleteActiveBusy \/ \E d \in Convs : DeleteOther(d)
       PROVE  Answers(file[c]) \subseteq Answers(file'[c])
  <2>1. \E d \in Convs : rows' = Without(d, rows) /\ file' = [file EXCEPT ![d] = << >>]
    BY <1>2, <1>10 DEF DeleteActiveBusy, DeleteOther
  <2>2. QED
    BY <1>9, <2>1
<1>11. Quiet => file' = file
  BY DEF Quiet, storeVars
<1>12. QED
  BY <1>4, <1>6, <1>7, <1>8, <1>10, <1>11, QuietOrStore DEF StoreStep

ChatInv == WebInv /\ OneRun /\ ClientInv /\ AnswersInv

LEMMA ChatInit == Init => ChatInv
<1> SUFFICES ASSUME Init PROVE ChatInv
  OBVIOUS
<1>1. WebInv
  BY InvInit
<1>2. OneRun
  BY DEF Init, OneRun, Asking
<1>3. ClientInv
  <2>1. 0 \in Agents /\ \A s \in Streams : prev[s] = None
    BY ClientsApart DEF Init, Agents
  <2>2. client[agent] = agent
    BY <2>1 DEF Init
  <2>3. QED
    BY <2>1, <2>2 DEF Init, ClientInv, Holding
<1>4. AnswersInv
  BY DEF Init, AnswersInv
<1>5. QED
  BY <1>1, <1>2, <1>3, <1>4 DEF ChatInv

LEMMA ChatNext == ChatInv /\ [Next]_vars => ChatInv'
<1> SUFFICES ASSUME ChatInv, [Next]_vars PROVE ChatInv'
  OBVIOUS
<1>1. WebInv' /\ OneRun'
  BY InvNext, OneRunNext DEF ChatInv
<1>2. ClientInv'
  <2>1. ~overlapped' /\ ~swapped' => ClientInv'
    BY ClientNext DEF ChatInv
  <2>2. QED
    BY <2>1 DEF ClientInv
<1>3. AnswersInv'
  <2>1. ~overlapped' /\ ~swapped' => AnswersInv'
    BY AnswersNext DEF ChatInv
  <2>2. QED
    BY <2>1 DEF AnswersInv
<1>4. QED
  BY <1>1, <1>2, <1>3 DEF ChatInv

\* When no request is under way the agent has its own client again, and that is open: the
\* model of one run is put back, whatever streams and settings came before (server.py:1488).
THEOREM ModelIsPutBack == Spec => []ModelRestored
<1>1. ChatInv => ModelRestored
  <2> SUFFICES ASSUME ChatInv, \A s \in Streams : pc[s] \in {"idle", "over"}, reload = "idle",
                      ~overlapped, ~swapped
               PROVE  client[agent] = agent /\ agent \notin closed
    BY DEF ModelRestored
  <2>1. \A s \in Streams : ~Holding(s)
    BY DEF ChatInv, OneRun, Holding
  <2>2. QED
    BY <2>1 DEF ChatInv, ClientInv
<1>2. QED
  BY <1>1, ChatInit, ChatNext, PTL DEF Spec

\* An answer leaves the file of its conversation only by a truncation, with the file, or
\* with the shortened messages of a run of that conversation, while no two runs overlap
\* and no agent is replaced under one.
THEOREM AnswersAreKept == Spec => AnswersStay
<1>1. ChatInv /\ [Next]_vars =>
        [\/ overlapped' \/ swapped' \/ Cut
         \/ \A c \in Kept : c \in Kept' =>
               \/ Answers(file[c]) \subseteq Answers(file'[c])
               \/ \E s \in Streams : SavesLess(s, c)]_vars
  BY AnswersStayNext DEF ChatInv
<1>2. QED
  BY <1>1, ChatInit, ChatNext, PTL DEF Spec, AnswersStay
===============================================================================
