---------------------------- MODULE BackgroundProofs ----------------------------
(***************************************************************************)
(* Proofs about the instances of Routines and Evolution in MCBackground,   *)
(* for every number of workers, routines, runs and episodes: an occurrence *)
(* is enqueued once, and no count of a run is lost or goes back.  What     *)
(* goes on in the other parts leaves their variables alone.                *)
(***************************************************************************)
EXTENDS Sequences, MCBackground, FiniteSetTheorems, TLAPS

-------------------------------------------------------------------------------
(* Routines: types, and what a process has in hand.                           *)

Occurrence == [on : BOOLEAN, next : Nat]
TimerProcesses == RoutineWorkers \cup {User}
Held == Occurrence \cup {None}

TimerTypes ==
    /\ rfile \in [RoutineIds -> Occurrence \cup {Absent, Torn}]
    /\ now \in Nat
    /\ copy \in [TimerProcesses -> [RoutineIds -> Held]]
    /\ seen \in [RoutineWorkers -> Nat]
    /\ cur \in [TimerProcesses -> RoutineIds \cup {None}]
    /\ step \in [TimerProcesses -> {"fire", "open", "write"}]
    /\ fired \in [RoutineIds -> SUBSET Nat]
    /\ twice \subseteq RoutineIds /\ used \subseteq RoutineIds /\ overlap \subseteq RoutineIds

\* A process rewrites a routine it has read; the occurrence a worker has read was due
\* when it looked; an id that was not given out has left no trace.
HandInv ==
    /\ \A p \in TimerProcesses : step[p] = "fire" <=> cur[p] = None
    /\ \A p \in TimerProcesses, r \in RoutineIds : cur[p] = r => copy[p][r] # None
    /\ \A r \in RoutineIds : copy[User][r] # None => cur[User] = r
    /\ \A w \in RoutineWorkers, r \in RoutineIds :
         copy[w][r] # None => copy[w][r].next <= seen[w]
    /\ \A r \in RoutineIds \ used :
         /\ rfile[r] = Absent /\ fired[r] = {}
         /\ \A p \in TimerProcesses : copy[p][r] = None

LEMMA NoOccurrence == \A x \in Occurrence : x # None /\ x # Absent /\ x # Torn
BY RoutinesAssumption DEF RoutinesAssumption, Occurrence

LEMMA TimerInit == Timer!Init => TimerTypes /\ HandInv
<1> USE RoutinesAssumption DEF RoutinesAssumption
<1>1. QED
  BY DEF Timer!Init, TimerTypes, HandInv, Timer!Processes, TimerProcesses, Held, Timer!Empty

LEMMA TimerTypesNext == TimerTypes /\ HandInv /\ [Timer!Next]_timerVars => TimerTypes' /\ HandInv'
<1> SUFFICES ASSUME TimerTypes, HandInv, [Timer!Next]_timerVars PROVE TimerTypes' /\ HandInv'
  OBVIOUS
<1> USE RoutinesAssumption
      DEF RoutinesAssumption, Timer!Processes, TimerProcesses, Held, Timer!Empty
<1>1. CASE Timer!Tick
  BY <1>1 DEF Timer!Tick, TimerTypes, HandInv
<1>2. ASSUME NEW p \in TimerProcesses, Timer!Open(p) PROVE TimerTypes' /\ HandInv'
  <2>1. cur[p] \in RoutineIds
    BY <1>2 DEF Timer!Open, TimerTypes, HandInv
  <2>2. cur[p] \in used
    BY <1>2, <2>1 DEF Timer!Open, TimerTypes, HandInv
  <2>3. TimerTypes'
    BY <1>2, <2>1 DEF Timer!Open, TimerTypes
  <2>4. HandInv'
    BY <1>2, <2>1, <2>2 DEF Timer!Open, TimerTypes, HandInv
  <2>5. QED
    BY <2>3, <2>4
<1>3. ASSUME NEW p \in TimerProcesses, Timer!Write(p) PROVE TimerTypes' /\ HandInv'
  <2> USE <1>3 DEF Timer!Write, Timer!Leave, Timer!Drop, Timer!Marked
  <2>1. cur[p] \in RoutineIds /\ copy[p][cur[p]] \in Occurrence
    BY DEF TimerTypes, HandInv
  <2>2. cur[p] \in used
    BY <2>1 DEF TimerTypes, HandInv
  <2>3. rfile'[cur[p]] \in Occurrence
    BY <2>1 DEF TimerTypes, Occurrence
  <2>4. TimerTypes'
    BY <2>1, <2>3 DEF TimerTypes
  <2>5. HandInv'
    BY <2>1, <2>2 DEF TimerTypes, HandInv
  <2>6. QED
    BY <2>4, <2>5
<1>4. ASSUME NEW w \in RoutineWorkers, Timer!Scan(w) PROVE TimerTypes' /\ HandInv'
  <2> USE <1>4 DEF Timer!Scan, Timer!IsDue, Timer!Readable
  <2>1. \A r \in RoutineIds : copy'[w][r] \in Held /\ (copy'[w][r] # None => copy'[w][r].next <= now)
    BY DEF TimerTypes
  <2>2. TimerTypes'
    BY <2>1 DEF TimerTypes, Timer!Shared
  <2>3. HandInv'
    BY <2>1 DEF TimerTypes, HandInv
  <2>4. QED
    BY <2>2, <2>3
<1>5. ASSUME NEW w \in RoutineWorkers, NEW r \in RoutineIds, Timer!Enqueue(w, r)
      PROVE  TimerTypes' /\ HandInv'
  <2> USE <1>5 DEF Timer!Enqueue
  <2>1. copy[w][r] \in Occurrence /\ r \in used
    BY DEF TimerTypes, HandInv
  <2>2. TimerTypes'
    BY <2>1 DEF TimerTypes, Occurrence
  <2>3. HandInv'
    BY <2>1 DEF TimerTypes, HandInv
  <2>4. QED
    BY <2>2, <2>3
<1>6. ASSUME NEW p \in TimerProcesses, Timer!Fails(p) PROVE TimerTypes' /\ HandInv'
  <2> USE <1>6 DEF Timer!Fails, Timer!Drop, Timer!Leave
  <2>1. PICK r \in RoutineIds : copy' = [copy EXCEPT ![p][r] = None]
                               /\ overlap' \subseteq overlap \cup {r}
                               /\ \/ step[p] = "fire" /\ p # User
                                  \/ cur[p] = r
    OBVIOUS
  <2>2. TimerTypes'
    BY <2>1 DEF TimerTypes
  <2>3. \A q \in TimerProcesses : step'[q] = "fire" <=> cur'[q] = None
    BY DEF TimerTypes, HandInv
  <2>4. \A q \in TimerProcesses, s \in RoutineIds : cur'[q] = s => copy'[q][s] # None
    BY <2>1 DEF TimerTypes, HandInv
  <2>5. \A s \in RoutineIds : copy'[User][s] # None => cur'[User] = s
    BY <2>1 DEF TimerTypes, HandInv
  <2>6. \A w \in RoutineWorkers, s \in RoutineIds :
          copy'[w][s] # None => copy'[w][s].next <= seen'[w]
    BY <2>1 DEF TimerTypes, HandInv
  <2>7. \A q \in TimerProcesses, s \in RoutineIds : copy[q][s] = None => copy'[q][s] = None
    BY <2>1 DEF TimerTypes
  <2>8. QED
    BY <2>2, <2>3, <2>4, <2>5, <2>6, <2>7 DEF HandInv
<1>7. ASSUME NEW p \in TimerProcesses, Timer!Crash(p) PROVE TimerTypes' /\ HandInv'
  BY <1>7 DEF Timer!Crash, Timer!Leave, TimerTypes, HandInv
<1>8. ASSUME NEW r \in RoutineIds, Timer!Add(r) PROVE TimerTypes' /\ HandInv'
  <2> USE <1>8 DEF Timer!Add, Timer!Command, Timer!UserHas
  <2>1. [on |-> TRUE, next |-> now] \in Occurrence
    BY DEF TimerTypes, Occurrence
  <2>2. TimerTypes'
    BY <2>1 DEF TimerTypes, Timer!Shared
  <2>3. HandInv'
    BY <2>1, NoOccurrence DEF TimerTypes, HandInv
  <2>4. QED
    BY <2>2, <2>3
<1>9. ASSUME NEW r \in RoutineIds, Timer!Remove(r) PROVE TimerTypes' /\ HandInv'
  BY <1>9 DEF Timer!Remove, Timer!Command, TimerTypes, HandInv
<1>10. ASSUME NEW r \in RoutineIds, NEW on \in BOOLEAN, Timer!SetEnabled(r, on)
       PROVE  TimerTypes' /\ HandInv'
  <2> USE <1>10 DEF Timer!SetEnabled, Timer!Command, Timer!UserHas, Timer!Readable
  <2>1. [rfile[r] EXCEPT !.on = on] \in Occurrence /\ r \in used
    BY DEF TimerTypes, HandInv, Occurrence
  <2>2. TimerTypes'
    BY <2>1 DEF TimerTypes, Timer!Shared
  <2>3. HandInv'
    BY <2>1, NoOccurrence DEF TimerTypes, HandInv
  <2>4. QED
    BY <2>2, <2>3
<1>11. CASE UNCHANGED timerVars
  BY <1>11 DEF timerVars, TimerTypes, HandInv
<1>12. QED
  BY <1>1, <1>2, <1>3, <1>4, <1>5, <1>6, <1>7, <1>8, <1>9, <1>10, <1>11
  DEF Timer!Next, Timer!CommandStep, Timer!WorkerStep, timerVars, Timer!vars
-------------------------------------------------------------------------------
(* A routine that is in no two hands and that no fault hit goes forward only. *)

Ahead(r) ==
    /\ \A p, q \in TimerProcesses : copy[p][r] # None /\ copy[q][r] # None => p = q
    /\ \A p \in TimerProcesses, t \in fired[r] :
         copy[p][r] # None =>
             \/ t < copy[p][r].next
             \/ t = copy[p][r].next /\ p # User /\ cur[p] = r
    /\ rfile[r] \notin {Absent, Torn} =>
         \/ \A t \in fired[r] : t < rfile[r].next
         \/ \E w \in RoutineWorkers : cur[w] = r

OnceInv == FiresOnce /\ \A r \in RoutineIds \ overlap : Ahead(r)

\* Two processes that hold a routine count as more than one.
LEMMA TwoHolders ==
  \A H \in SUBSET TimerProcesses : \A p, q \in H : p # q => Cardinality(H) > 1
<1> SUFFICES ASSUME NEW H \in SUBSET TimerProcesses, NEW p \in H, NEW q \in H, p # q
             PROVE  Cardinality(H) > 1
  OBVIOUS
<1>1. IsFiniteSet(H)
  <2>1. IsFiniteSet(TimerProcesses)
    BY RoutinesAssumption, FS_AddElement DEF RoutinesAssumption, TimerProcesses
  <2>2. QED
    BY <2>1, FS_Subset
<1>2. Cardinality({p, q}) = 2
  <2>1. Cardinality({p}) = 1 /\ IsFiniteSet({p})
    BY FS_Singleton
  <2>2. Cardinality({p} \cup {q}) = Cardinality({p}) + 1
    BY <2>1, FS_AddElement
  <2>3. {p} \cup {q} = {p, q}
    OBVIOUS
  <2>4. QED
    BY <2>1, <2>2, <2>3
<1>3. Cardinality(H) >= 2
  BY <1>1, <1>2, FS_Subset, FS_CardinalityType
<1>4. QED
  BY <1>1, <1>3, FS_CardinalityType

\* The cardinality the instance names is that of this module.
LEMMA TimerCardinality == \A S : Timer!Cardinality(S) = Cardinality(S)
BY DEF Timer!Cardinality, Cardinality

\* Two processes do not come to hold a routine without Shared's seeing it.
LEMMA SharedIsHeldTwice ==
  ASSUME NEW r \in RoutineIds, r \notin Timer!Shared(copy')
  PROVE  \A p, q \in TimerProcesses : copy'[p][r] # None /\ copy'[q][r] # None => p = q
<1> DEFINE H == {p \in TimerProcesses : copy'[p][r] # None}
<1>1. ~(Cardinality(H) > 1)
  <2>1. ~(Cardinality(Timer!Holders(r, copy')) > 1)
    BY TimerCardinality DEF Timer!Shared
  <2>2. Timer!Holders(r, copy') = H
    BY DEF Timer!Holders, Timer!Processes, TimerProcesses
  <2>3. QED
    BY <2>1, <2>2
<1>2. \A p, q \in H : p = q
  BY <1>1, TwoHolders
<1>3. QED
  BY <1>2

LEMMA OnceNext ==
  TimerTypes /\ HandInv /\ OnceInv /\ [Timer!Next]_timerVars => OnceInv'
<1> SUFFICES ASSUME TimerTypes, HandInv, OnceInv, [Timer!Next]_timerVars PROVE OnceInv'
  OBVIOUS
<1> USE RoutinesAssumption
      DEF RoutinesAssumption, Timer!Processes, TimerProcesses, Timer!Empty, OnceInv,
          FiresOnce, Timer!FiresOnce
<1>1. CASE Timer!Tick
  BY <1>1 DEF Timer!Tick, Ahead
<1>2. ASSUME NEW p \in TimerProcesses, Timer!Open(p) PROVE OnceInv'
  BY <1>2 DEF Timer!Open, TimerTypes, HandInv, Ahead
<1>3. ASSUME NEW p \in TimerProcesses, Timer!Write(p) PROVE OnceInv'
  <2> USE <1>3 DEF Timer!Write, Timer!Leave, Timer!Drop, Timer!Marked
  <2>1. PICK r \in RoutineIds : cur[p] = r /\ copy[p][r] \in Occurrence
    BY DEF TimerTypes, HandInv, Held
  <2>2. FiresOnce'
    OBVIOUS
  <2>3. ASSUME NEW s \in RoutineIds \ overlap, s # r PROVE Ahead(s)'
    BY <2>1, <2>3 DEF TimerTypes, Ahead
  <2>4. ASSUME r \notin overlap PROVE Ahead(r)'
    <3>1. \A q \in TimerProcesses : copy'[q][r] = None
      BY <2>1, <2>4 DEF TimerTypes, Ahead, HandInv
    <3>2. ASSUME NEW t \in fired[r] PROVE t < rfile'[r].next
      <4>1. t < copy[p][r].next \/ (t = copy[p][r].next /\ p # User)
        BY <2>1, <2>4, NoOccurrence DEF Ahead
      <4>2. CASE p = User
        BY <4>1, <4>2, <2>1 DEF TimerTypes
      <4>3. CASE p # User
        <5>1. copy[p][r].next <= seen[p] /\ t \in Nat /\ seen[p] \in Nat
          BY <4>3, <2>1, NoOccurrence DEF TimerTypes, HandInv
        <5>2. rfile'[r].next = seen[p] + 1
          BY <4>3, <2>1 DEF TimerTypes, Occurrence
        <5>3. copy[p][r].next \in Nat
          BY <2>1 DEF Occurrence
        <5>4. QED
          BY <4>1, <5>1, <5>2, <5>3
      <4>4. QED
        BY <4>2, <4>3
    <3>3. QED
      BY <3>1, <3>2 DEF Ahead
  <2>5. QED
    BY <2>2, <2>3, <2>4
<1>4. ASSUME NEW w \in RoutineWorkers, Timer!Scan(w) PROVE OnceInv'
  <2> USE <1>4 DEF Timer!Scan, Timer!IsDue, Timer!Readable
  <2>1. FiresOnce'
    OBVIOUS
  <2>2. ASSUME NEW r \in RoutineIds \ overlap' PROVE Ahead(r)'
    <3>1. \A p, q \in TimerProcesses : copy'[p][r] # None /\ copy'[q][r] # None => p = q
      BY <2>2, SharedIsHeldTwice
    <3>2. \A p \in TimerProcesses : p # w => copy'[p] = copy[p]
      BY DEF TimerTypes
    <3>3. Ahead(r)
      BY <2>2
    <3>4. ASSUME copy'[w][r] # None
          PROVE  rfile[r] \notin {Absent, Torn} /\ copy'[w][r] = rfile[r]
      BY <3>4 DEF TimerTypes
    <3>5. ASSUME copy'[w][r] # None PROVE \A q \in RoutineWorkers : cur[q] # r
      BY <3>1, <3>2, <3>5 DEF TimerTypes, HandInv
    <3>6. QED
      BY <3>1, <3>2, <3>3, <3>4, <3>5 DEF Ahead
  <2>3. QED
    BY <2>1, <2>2
<1>5. ASSUME NEW w \in RoutineWorkers, NEW r \in RoutineIds, Timer!Enqueue(w, r)
      PROVE  OnceInv'
  <2> USE <1>5 DEF Timer!Enqueue
  <2>1. copy[w][r] \in Occurrence /\ cur[w] = None
    BY DEF TimerTypes, HandInv, Held
  <2>2. FiresOnce'
    BY <2>1 DEF TimerTypes, Ahead, Occurrence
  <2>3. ASSUME NEW s \in RoutineIds \ overlap, s # r PROVE Ahead(s)'
    BY <2>1, <2>3 DEF TimerTypes, Ahead
  <2>4. ASSUME r \notin overlap PROVE Ahead(r)'
    <3>1. \A p \in TimerProcesses : copy[p][r] # None => p = w
      BY <2>4 DEF Ahead
    <3>2. fired'[r] = fired[r] \cup {copy[w][r].next}
      BY DEF TimerTypes
    <3>3. cur'[w] = r
      BY DEF TimerTypes
    <3>4. QED
      BY <2>1, <2>4, <3>1, <3>2, <3>3 DEF Ahead
  <2>5. QED
    BY <2>2, <2>3, <2>4
<1>6. ASSUME NEW p \in TimerProcesses, Timer!Fails(p) PROVE OnceInv'
  <2> USE <1>6 DEF Timer!Fails, Timer!Drop, Timer!Leave
  <2>1. PICK r \in RoutineIds : /\ copy' = [copy EXCEPT ![p][r] = None]
                               /\ \/ step[p] = "fire" /\ cur[p] = None
                                  \/ cur[p] = r /\ r \in overlap'
                               /\ overlap \subseteq overlap'
    BY DEF HandInv
  <2>2. \A q \in TimerProcesses, s \in RoutineIds :
          copy'[q][s] # None => copy'[q][s] = copy[q][s]
    BY <2>1 DEF TimerTypes
  <2>3. \A q \in TimerProcesses, s \in RoutineIds \ overlap' : cur[q] = s => cur'[q] = s
    BY <2>1 DEF TimerTypes
  <2>4. ASSUME NEW s \in RoutineIds \ overlap' PROVE Ahead(s)'
    BY <2>1, <2>2, <2>3, <2>4 DEF Ahead
  <2>5. QED
    BY <2>1, <2>4
<1>7. ASSUME NEW p \in TimerProcesses, Timer!Crash(p) PROVE OnceInv'
  <2> USE <1>7 DEF Timer!Crash, Timer!Leave
  <2>2. \A q \in TimerProcesses, s \in RoutineIds :
          copy'[q][s] # None => copy'[q][s] = copy[q][s]
    BY DEF TimerTypes
  <2>3. \A q \in TimerProcesses, s \in RoutineIds \ overlap' : cur[q] = s => cur'[q] = s
    BY DEF TimerTypes
  <2>4. ASSUME NEW s \in RoutineIds \ overlap' PROVE Ahead(s)'
    BY <2>2, <2>3, <2>4 DEF Ahead
  <2>5. QED
    BY <2>4
<1>8. ASSUME NEW r \in RoutineIds, NEW c \in Occurrence, Timer!Command, Timer!UserHas(r, c),
             UNCHANGED <<rfile, fired, twice>>,
             r \notin overlap =>
                 \/ \A t \in fired[r] : t < c.next
                 \/ \E w \in RoutineWorkers : cur[w] = r
      PROVE  OnceInv'
  <2> USE <1>8 DEF Timer!Command, Timer!UserHas
  <2>1. ASSUME NEW s \in RoutineIds \ overlap' PROVE Ahead(s)'
    <3>1. \A p, q \in TimerProcesses : copy'[p][s] # None /\ copy'[q][s] # None => p = q
      BY <2>1, SharedIsHeldTwice
    <3>2. \A p \in TimerProcesses : p # User => copy'[p] = copy[p] /\ cur'[p] = cur[p]
      BY DEF TimerTypes
    <3>3. Ahead(s)
      BY <2>1
    <3>4. s # r => copy'[User][s] = None
      BY DEF TimerTypes
    <3>5. copy'[User][r] = c /\ c # None
      BY NoOccurrence DEF TimerTypes
    <3>6. s = r => \A w \in RoutineWorkers : cur[w] # r
      BY <3>1, <3>2, <3>5 DEF TimerTypes, HandInv
    <3>7. QED
      BY <3>1, <3>2, <3>3, <3>4, <3>5, <3>6 DEF Ahead
  <2>2. QED
    BY <2>1
<1>9. ASSUME NEW r \in RoutineIds, Timer!Add(r) PROVE OnceInv'
  <2> USE <1>9 DEF Timer!Add
  <2>1. [on |-> TRUE, next |-> now] \in Occurrence
    BY DEF TimerTypes, Occurrence
  <2>2. fired[r] = {}
    BY DEF HandInv
  <2>3. QED
    BY <2>1, <2>2, <1>8
<1>10. ASSUME NEW r \in RoutineIds, Timer!Remove(r) PROVE OnceInv'
  BY <1>10 DEF Timer!Remove, Timer!Command, TimerTypes, Ahead
<1>11. ASSUME NEW r \in RoutineIds, NEW on \in BOOLEAN, Timer!SetEnabled(r, on)
       PROVE  OnceInv'
  <2> USE <1>11 DEF Timer!SetEnabled, Timer!Readable
  <2>1. rfile[r] \in Occurrence
    BY DEF TimerTypes
  <2>2. [rfile[r] EXCEPT !.on = on] \in Occurrence /\ [rfile[r] EXCEPT !.on = on].next = rfile[r].next
    BY <2>1 DEF Occurrence
  <2>3. QED
    BY <2>2, <1>8 DEF Ahead
<1>12. CASE UNCHANGED timerVars
  BY <1>12 DEF timerVars, Ahead
<1>13. QED
  BY <1>1, <1>2, <1>3, <1>4, <1>5, <1>6, <1>7, <1>9, <1>10, <1>11, <1>12
  DEF Timer!Next, Timer!CommandStep, Timer!WorkerStep, timerVars, Timer!vars
-------------------------------------------------------------------------------
(* Evolution.                                                                 *)

Count == [recall : Nat, adopted : Nat]
Counts == [Learn!Ids -> Count]
Kept == {s \in Seq(Learn!Ids) : Len(s) <= Cap}

LearnTypes ==
    /\ store \in [Roles -> Kept] /\ read \in [Procs -> Kept]
    /\ stats \in Counts /\ total \in Counts
    /\ base \in [Procs -> Counts] /\ held \in [Procs -> Counts]
    /\ role \in [Procs -> Roles] /\ ok \in [Procs -> BOOLEAN]

\* Between a and b episodes were recalled, and adopted no more often than that.
Grew(a, b) ==
    /\ a.recall <= b.recall /\ a.adopted <= b.adopted
    /\ b.adopted - a.adopted <= b.recall - a.recall

\* The counts a run loaded are behind the file's and behind its own.
GrowthInv ==
    \A p \in Procs, i \in Learn!Ids :
        Grew(base[p][i], stats[i]) /\ Grew(base[p][i], held[p][i])

LearnInv == LearnTypes /\ GrowthInv /\ CountsAreExact

LEMMA LearnInit == Learn!Init => LearnInv
<1> SUFFICES ASSUME Learn!Init PROVE LearnInv
  OBVIOUS
<1> USE EvolutionAssumption DEF EvolutionAssumption, Learn!Init
<1>1. Learn!NoCounts \in Counts /\ << >> \in Kept
  BY DEF Learn!NoCounts, Learn!Zero, Counts, Count, Kept
<1>2. LearnTypes
  BY <1>1 DEF LearnTypes
<1>3. GrowthInv
  BY DEF GrowthInv, Grew, Learn!NoCounts, Learn!Zero
<1>4. QED
  BY <1>2, <1>3 DEF LearnInv, CountsAreExact, Learn!CountsAreExact

\* add_episode keeps a list within the cap.
LEMMA AddedIsKept == \A s \in Kept : Learn!Added(s) \in Kept
<1> SUFFICES ASSUME NEW s \in Kept PROVE Learn!Added(s) \in Kept
  OBVIOUS
<1> DEFINE all == Append(s, Len(s) + 1)
<1> USE EvolutionAssumption DEF EvolutionAssumption, Kept
<1>1. Len(s) \in Nat /\ Len(s) + 1 \in Learn!Ids
  BY DEF Learn!Ids
<1>2. all \in Seq(Learn!Ids) /\ Len(all) = Len(s) + 1
  BY <1>1
<1>3. Tail(all) \in Seq(Learn!Ids) /\ Len(Tail(all)) = Len(s)
  BY <1>1, <1>2
<1>4. Learn!Added(s) = IF Len(all) > Cap THEN Tail(all) ELSE all
  BY DEF Learn!Added
<1>5. QED
  BY <1>1, <1>2, <1>3, <1>4

LEMMA LearnCardinality == \A S : Learn!Cardinality(S) = Cardinality(S)
BY DEF Learn!Cardinality, Cardinality

\* What one run adds to the counts of an id: as many recalls as episodes of that id its
\* text matches, and as many adoptions if it completed.
LEMMA CountedGrows ==
  ASSUME LearnTypes, NEW p \in Procs, NEW hits \in SUBSET DOMAIN read[p]
  PROVE  /\ Learn!Counted(stats, hits, p) \in Counts
         /\ \A i \in Learn!Ids : Grew(stats[i], Learn!Counted(stats, hits, p)[i])
<1> DEFINE n(i) == Cardinality({k \in hits : read[p][k] = i})
           add(i) == IF ok[p] THEN n(i) ELSE 0
<1>1. \A i \in Learn!Ids : n(i) \in Nat /\ add(i) \in Nat /\ add(i) <= n(i)
  <2> SUFFICES ASSUME NEW i \in Learn!Ids PROVE n(i) \in Nat /\ add(i) \in Nat /\ add(i) <= n(i)
    OBVIOUS
  <2>1. read[p] \in Seq(Learn!Ids)
    BY DEF LearnTypes, Kept
  <2>2. IsFiniteSet(1..Len(read[p]))
    BY <2>1, FS_Interval
  <2>3. IsFiniteSet({k \in hits : read[p][k] = i})
    BY <2>1, <2>2, FS_Subset
  <2>4. n(i) \in Nat
    BY <2>3, FS_CardinalityType
  <2>5. QED
    BY <2>4
<1> HIDE DEF n
<1>2. Learn!Counted(stats, hits, p) =
        [i \in Learn!Ids |-> [recall |-> stats[i].recall + n(i), adopted |-> stats[i].adopted + add(i)]]
  BY LearnCardinality DEF Learn!Counted, n
<1> HIDE DEF add
<1>3. \A i \in Learn!Ids : stats[i].recall \in Nat /\ stats[i].adopted \in Nat
  BY DEF LearnTypes, Counts, Count
<1>4. QED
  BY <1>1, <1>2, <1>3 DEF Counts, Count, Grew
LEMMA GrewTransitive ==
  \A a, b, c \in Count : Grew(a, b) /\ Grew(b, c) => Grew(a, c)
BY DEF Count, Grew

LEMMA MergedGrows ==
  ASSUME LearnTypes, GrowthInv, NEW p \in Procs
  PROVE  /\ Learn!MergedCounts(p) \in Counts
         /\ \A i \in Learn!Ids : Grew(stats[i], Learn!MergedCounts(p)[i])
<1> DEFINE merged(i) ==
             [recall |-> stats[i].recall + (held[p][i].recall - base[p][i].recall),
              adopted |-> stats[i].adopted + (held[p][i].adopted - base[p][i].adopted)]
<1>1. ASSUME NEW i \in Learn!Ids PROVE merged(i) \in Count /\ Grew(stats[i], merged(i))
  <2>1. stats[i] \in Count /\ base[p][i] \in Count /\ held[p][i] \in Count
    BY DEF LearnTypes, Counts
  <2>2. Grew(base[p][i], held[p][i])
    BY DEF GrowthInv
  <2>3. QED
    BY <2>1, <2>2 DEF Count, Grew
<1>2. Learn!MergedCounts(p) = [i \in Learn!Ids |-> merged(i)]
  BY DEF Learn!MergedCounts
<1> HIDE DEF merged
<1>3. QED
  BY <1>1, <1>2 DEF Counts

LEMMA LearnNext ==
  LearnInv /\ [Learn!Next]_learnVars =>
      LearnInv' /\ \A i \in Learn!Ids : Grew(stats[i], stats'[i])
<1> SUFFICES ASSUME LearnInv, [Learn!Next]_learnVars
             PROVE  LearnInv' /\ \A i \in Learn!Ids : Grew(stats[i], stats'[i])
  OBVIOUS
<1> USE DEF LearnInv, CountsAreExact, Learn!CountsAreExact,
            Learn!files, Learn!local, Learn!ghosts
<1> DEFINE Goal == LearnInv' /\ \A i \in Learn!Ids : Grew(stats[i], stats'[i])
<1>0. \A i \in Learn!Ids : stats[i] \in Count /\ Grew(stats[i], stats[i])
  BY DEF LearnTypes, Counts, Count, Grew
<1>1. ASSUME NEW p \in Procs, Learn!RunEnds(p) PROVE Goal
  BY <1>0, <1>1 DEF Learn!RunEnds, LearnTypes, GrowthInv
<1>2. ASSUME NEW p \in Procs, Learn!Remembers(p) \/ Learn!Retrospects(p) PROVE Goal
  BY <1>0, <1>2 DEF Learn!Remembers, Learn!Retrospects, Learn!ReadStore, Learn!Episodes,
                    LearnTypes, GrowthInv
<1>3. ASSUME NEW p \in Procs, Learn!NoLesson(p) \/ Learn!Die(p) \/ Learn!Drafted(p) PROVE Goal
  BY <1>0, <1>3 DEF Learn!NoLesson, Learn!Die, Learn!Drafted, LearnTypes, GrowthInv
<1>4. ASSUME NEW p \in Procs, Learn!WriteStore(p) PROVE Goal
  <2>1. Learn!Added(read[p]) \in Kept
    BY AddedIsKept DEF LearnTypes
  <2>2. QED
    BY <1>0, <1>4, <2>1 DEF Learn!WriteStore, LearnTypes, GrowthInv
<1>5. ASSUME NEW p \in Procs, Learn!Snapshot(p) PROVE Goal
  BY <1>0, <1>5 DEF Learn!Snapshot, Learn!Episodes, LearnTypes, GrowthInv
<1>6. ASSUME NEW p \in Procs, Learn!Load(p) PROVE Goal
  <2>1. PICK hits \in SUBSET DOMAIN read[p] :
          held' = [held EXCEPT ![p] = Learn!Counted(stats, hits, p)]
    BY <1>6 DEF Learn!Load
  <2>2. /\ Learn!Counted(stats, hits, p) \in Counts
        /\ \A i \in Learn!Ids : Grew(stats[i], Learn!Counted(stats, hits, p)[i])
    BY CountedGrows
  <2>3. base' = [base EXCEPT ![p] = stats] /\ UNCHANGED <<store, read, stats, total, role, ok>>
    BY <1>6 DEF Learn!Load
  <2>4. LearnTypes'
    BY <2>1, <2>2, <2>3 DEF LearnTypes
  <2>5. GrowthInv'
    BY <1>0, <2>1, <2>2, <2>3 DEF LearnTypes, GrowthInv
  <2>6. QED
    BY <1>0, <2>3, <2>4, <2>5
<1>7. ASSUME NEW p \in Procs, Learn!Save(p) PROVE Goal
  <2> DEFINE M == Learn!MergedCounts(p)
  <2>1. M \in Counts /\ \A i \in Learn!Ids : Grew(stats[i], M[i])
    BY MergedGrows
  <2>2. stats' = M /\ held' = [held EXCEPT ![p] = M] /\ UNCHANGED <<store, read, base, role, ok>>
    BY <1>7 DEF Learn!Save
  <2>3. total' = M
    BY <1>7 DEF Learn!Save, Learn!MergedCounts
  <2> HIDE DEF M
  <2>4. LearnTypes'
    BY <2>1, <2>2, <2>3 DEF LearnTypes
  <2>5. ASSUME NEW q \in Procs, NEW i \in Learn!Ids PROVE Grew(base[q][i], M[i])
    <3>1. base[q][i] \in Count /\ stats[i] \in Count /\ M[i] \in Count
      BY <2>1 DEF LearnTypes, Counts
    <3>2. Grew(base[q][i], stats[i]) /\ Grew(stats[i], M[i])
      BY <2>1 DEF GrowthInv
    <3>3. QED
      BY <3>1, <3>2, GrewTransitive
  <2>6. GrowthInv'
    BY <2>2, <2>5 DEF LearnTypes, GrowthInv
  <2>7. QED
    BY <2>1, <2>2, <2>3, <2>4, <2>6
<1>8. ASSUME NEW p \in Procs, Learn!Choose(p) \/ Learn!WriteDraft(p) PROVE Goal
  BY <1>0, <1>8 DEF Learn!Choose, Learn!WriteDraft, LearnTypes, GrowthInv
<1>9. CASE Learn!Promote \/ Learn!RemoveDraft \/ Learn!RemoveSkill
  BY <1>0, <1>9 DEF Learn!Promote, Learn!RemoveDraft, Learn!RemoveSkill, LearnTypes, GrowthInv
<1>10. CASE UNCHANGED learnVars
  BY <1>0, <1>10 DEF learnVars, LearnTypes, GrowthInv
<1>11. QED
  BY <1>1, <1>2, <1>3, <1>4, <1>5, <1>6, <1>7, <1>8, <1>9, <1>10 DEF Learn!Next

-------------------------------------------------------------------------------
(* The parts side by side.                                                    *)

BackgroundInv == TimerTypes /\ HandInv /\ OnceInv /\ LearnInv

THEOREM BackgroundIsKept == Spec => []BackgroundInv
<1>1. Init => BackgroundInv
  <2> SUFFICES ASSUME Init PROVE BackgroundInv
    OBVIOUS
  <2>1. TimerTypes /\ HandInv /\ LearnInv
    BY TimerInit, LearnInit DEF Init
  <2>2. OnceInv
    BY <2>1 DEF Init, Timer!Init, OnceInv, FiresOnce, Timer!FiresOnce, Ahead, TimerTypes,
                Timer!Processes, TimerProcesses, Timer!Empty
  <2>3. QED
    BY <2>1, <2>2 DEF BackgroundInv
<1>2. BackgroundInv /\ [Next]_vars => BackgroundInv'
  <2> SUFFICES ASSUME BackgroundInv, [Next]_vars PROVE BackgroundInv'
    OBVIOUS
  <2>1. [Timer!Next]_timerVars
    BY DEF Next, QueueMoves, TimerMoves, LearnMoves, vars
  <2>2. [Learn!Next]_learnVars
    BY DEF Next, QueueMoves, TimerMoves, LearnMoves, vars
  <2>3. QED
    BY <2>1, <2>2, TimerTypesNext, OnceNext, LearnNext DEF BackgroundInv
<1>3. QED
  BY <1>1, <1>2, PTL DEF Spec

\* An occurrence of a routine is enqueued once, for any number of workers, commands and
\* faults, unless two processes had the routine in hand or a fault fell between the
\* enqueueing and the new next_run (routines.py, fire_due_routines).
THEOREM OccurrencesFireOnce == Spec => []FiresOnce
<1>1. BackgroundInv => FiresOnce
  BY DEF BackgroundInv, OnceInv
<1>2. QED
  BY <1>1, BackgroundIsKept, PTL

\* The counts in evolution-stats.json are what the runs that saved them recorded, however
\* their loads and saves fall (evolution.py, EvolutionMetrics.save).
THEOREM NoCountIsLost == Spec => []CountsAreExact
<1>1. BackgroundInv => CountsAreExact
  BY DEF BackgroundInv, LearnInv
<1>2. QED
  BY <1>1, BackgroundIsKept, PTL

\* Whatever process saves last, no count goes back, and an episode is adopted no more
\* often than it is recalled: should_promote compares counts that belong together.
CountsOnlyGrow == [][\A i \in Learn!Ids : Grew(stats[i], stats'[i])]_vars
THEOREM CountsNeverGoBack == Spec => CountsOnlyGrow
<1>1. BackgroundInv /\ [Next]_vars => \A i \in Learn!Ids : Grew(stats[i], stats'[i])
  <2> SUFFICES ASSUME BackgroundInv, [Next]_vars
               PROVE  \A i \in Learn!Ids : Grew(stats[i], stats'[i])
    OBVIOUS
  <2>1. [Learn!Next]_learnVars
    BY DEF Next, QueueMoves, TimerMoves, LearnMoves, vars
  <2>2. QED
    BY <2>1, LearnNext DEF BackgroundInv
<1>2. QED
  BY <1>1, BackgroundIsKept, PTL DEF Spec, CountsOnlyGrow
===============================================================================
