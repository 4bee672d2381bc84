---------------------------- MODULE TTLCache_proof ----------------------------
(***************************************************************************)
(* Proofs about TTLCache, for any finite set of keys, any values, lifetime *)
(* and capacity.                                                           *)
(***************************************************************************)
EXTENDS TTLCache, FiniteSetTheorems, TLAPS

USE CacheAssumption

\* Whatever New is given, the capacity is at least one.
LEMMA CapacityType == Capacity \in Nat \ {0}
  BY DEF Capacity

\* Storing an entry keeps the types.
LEMMA StoreType ==
    ASSUME TypeOK, NEW k \in Keys, NEW v \in Values, NEW gone \in SUBSET Keys, Store(k, v, gone)
    PROVE  /\ value' \in [Keys -> Values \cup {None}]
           /\ left' \in [Keys -> -1 .. TTL]
           /\ \A j \in Keys : value'[j] = None => left'[j] = -1
  BY DEF TypeOK, Store, Expired

\* Every step keeps the types.
LEMMA TypeStep == TypeOK /\ [Next]_vars => TypeOK'
<1> SUFFICES ASSUME TypeOK, [Next]_vars PROVE TypeOK'
  OBVIOUS
<1>1. ASSUME NEW k \in Keys, NEW v \in Values, Set(k, v) PROVE TypeOK'
  <2>1. \E gone \in SUBSET Keys : Store(k, v, gone)
    BY <1>1 DEF Set
  <2> QED
    BY <1>1, <2>1, StoreType DEF Set, TypeOK, Expired
<1>2. CASE Tick
  BY <1>2 DEF Tick, Older, TypeOK, Expired
<1>3. CASE Sweep
  BY <1>3 DEF Sweep, TypeOK, Expired
<1>4. CASE Exit
  BY <1>4 DEF Exit, TypeOK, Expired
<1>5. ASSUME NEW p \in Closers, Close(p) \/ Closed(p) PROVE TypeOK'
  <2>1. /\ stop' \in BOOLEAN
        /\ closing' \in [Closers -> {"no", "waiting", "returned"}]
    BY <1>5 DEF Close, Closed, TypeOK
  <2>2. UNCHANGED <<value, left, lastSet, worker>>
    BY <1>5 DEF Close, Closed
  <2> QED
    BY <2>1, <2>2 DEF TypeOK, Expired
<1>6. CASE UNCHANGED vars
  BY <1>6 DEF vars, TypeOK, Expired
<1> QED
  BY <1>1, <1>2, <1>3, <1>4, <1>5, <1>6 DEF Next

\* The cache is type correct.
THEOREM TypeCorrect == Spec => []TypeOK
<1>1. Init => TypeOK
  <2> SUFFICES ASSUME Init PROVE TypeOK
    OBVIOUS
  <2>1. /\ value \in [Keys -> Values \cup {None}]
        /\ lastSet \in [Keys -> Values \cup {None}]
    BY DEF Init
  <2>2. left \in [Keys -> -1 .. TTL]
    BY DEF Init
  <2>3. /\ stop \in BOOLEAN
        /\ worker \in {"running", "exited"}
        /\ closing \in [Closers -> {"no", "waiting", "returned"}]
    BY DEF Init
  <2>4. \A k \in Keys : value[k] = None => Expired(k)
    BY DEF Init, Expired
  <2> QED
    BY <2>1, <2>2, <2>3, <2>4 DEF TypeOK
<1> QED
  BY <1>1, TypeStep, PTL DEF Spec

\* The entries of the map are finitely many.
LEMMA EntriesFinite == IsFiniteSet(Entries) /\ Cardinality(Entries) \in Nat
<1>1. Entries \subseteq Keys
  BY DEF Entries
<1> QED
  BY <1>1, FS_Subset, FS_CardinalityType

\* Fewer entries stay within the capacity.
LEMMA FewerEntries ==
    ASSUME Bounded, Entries' \subseteq Entries
    PROVE  Bounded'
<1>1. IsFiniteSet(Entries') /\ Cardinality(Entries') <= Cardinality(Entries)
  BY EntriesFinite, FS_Subset
<1>2. Cardinality(Entries') \in Nat
  BY <1>1, FS_CardinalityType
<1>3. Capacity' = Capacity
  BY DEF Capacity
<1> QED
  BY <1>1, <1>2, <1>3, EntriesFinite, CapacityType DEF Bounded

\* A Set makes room before it takes it.
LEMMA BoundedStep == TypeOK /\ Bounded /\ [Next]_vars => Bounded'
<1> SUFFICES ASSUME TypeOK, Bounded, [Next]_vars PROVE Bounded'
  OBVIOUS
<1> USE CapacityType, EntriesFinite
<1>1. ASSUME NEW k \in Keys, NEW v \in Values, Set(k, v) PROVE Bounded'
  <2>1. CASE Full(k) /\ Entries # {}
    <3>1. PICK victim \in Keys : Evictable(victim) /\ Store(k, v, {victim})
      BY <1>1, <2>1 DEF Set
    <3>2. victim \in Entries /\ k \notin Entries
      BY <2>1, <3>1 DEF Evictable, Full
    <3>3. Entries' = (Entries \ {victim}) \cup {k}
      BY <3>1, <3>2 DEF Store, Entries
    <3>4. /\ IsFiniteSet(Entries \ {victim})
          /\ Cardinality(Entries \ {victim}) = Cardinality(Entries) - 1
      BY <3>2, FS_RemoveElement
    <3>5. Cardinality((Entries \ {victim}) \cup {k}) = Cardinality(Entries)
      <4> DEFINE Rest == Entries \ {victim}
      <4>1. IsFiniteSet(Rest) /\ Cardinality(Rest) = Cardinality(Entries) - 1 /\ k \notin Rest
        BY <3>2, <3>4
      <4> HIDE DEF Rest
      <4>2. Cardinality(Rest \cup {k}) = Cardinality(Rest) + 1
        BY <4>1, FS_AddElement
      <4>3. Cardinality(Rest \cup {k}) = Cardinality(Entries)
        BY <4>1, <4>2
      <4> QED
        BY <4>3 DEF Rest
    <3> QED
      BY <3>3, <3>5 DEF Bounded, Capacity
  <2>2. CASE k \in Entries
    <3>1. Store(k, v, {})
      BY <1>1, <2>2 DEF Set, Full
    <3>2. Entries' \subseteq Entries
      BY <2>2, <3>1 DEF Store, Entries
    <3> QED
      BY <3>2, FewerEntries
  <2>3. CASE k \notin Entries /\ Cardinality(Entries) < Capacity
    <3>1. Store(k, v, {})
      BY <1>1, <2>3 DEF Set, Full
    <3>2. Entries' = Entries \cup {k}
      BY <3>1 DEF Store, Entries
    <3>3. Cardinality(Entries \cup {k}) = Cardinality(Entries) + 1
      BY <2>3, FS_AddElement
    <3> QED
      BY <2>3, <3>2, <3>3 DEF Bounded, Capacity
  <2>4. CASE k \notin Entries /\ Entries = {} /\ Cardinality(Entries) >= Capacity
    BY <2>4, FS_EmptySet
  <2> QED
    BY <2>1, <2>2, <2>3, <2>4 DEF Full, Capacity
<1>2. CASE Sweep
  <2>1. Entries' \subseteq Entries
    BY <1>2 DEF Sweep, Entries
  <2> QED
    BY <2>1, FewerEntries
<1>3. ASSUME UNCHANGED value PROVE Bounded'
  <2>1. Entries' \subseteq Entries
    BY <1>3 DEF Entries
  <2> QED
    BY <2>1, FewerEntries
<1> QED
  BY <1>1, <1>2, <1>3 DEF Next, Tick, Exit, Close, Closed, vars

\* Whatever is set, and with or without the worker, the map stays within its
\* capacity.
THEOREM StaysBounded == Spec => []Bounded
<1>1. Init => Bounded
  <2> SUFFICES ASSUME Init PROVE Bounded
    OBVIOUS
  <2>1. Entries = {}
    BY DEF Init, Entries
  <2> QED
    BY <2>1, FS_EmptySet, CapacityType DEF Bounded
<1> QED
  BY <1>1, TypeCorrect, BoundedStep, PTL DEF Spec

\* A key loses its live entry to a Set of another key only, and only as the
\* evicted one of a full cache.
EvictsRightly(k) ==
    (Get(k) # None /\ value'[k] = None) =>
        /\ Cardinality(Entries) >= Capacity
        /\ \A j \in Entries : ~Expired(j) /\ left[k] <= left[j]

LEMMA EvictionStep == TypeOK /\ [Next]_vars => \A k \in Keys : EvictsRightly(k)
<1> SUFFICES ASSUME TypeOK, [Next]_vars, NEW k \in Keys,
                    Get(k) # None, value'[k] = None
             PROVE  /\ Cardinality(Entries) >= Capacity
                    /\ \A j \in Entries : ~Expired(j) /\ left[k] <= left[j]
  BY DEF EvictsRightly
<1>1. k \in Entries /\ ~Expired(k) /\ value[k] # None
  BY DEF Get, Entries
<1>2. ASSUME NEW n \in Keys, NEW v \in Values, Set(n, v)
      PROVE  /\ Cardinality(Entries) >= Capacity
             /\ \A j \in Entries : ~Expired(j) /\ left[k] <= left[j]
  <2>1. CASE Full(n) /\ Entries # {}
    <3>1. PICK victim \in Keys : Evictable(victim) /\ Store(n, v, {victim})
      BY <1>2, <2>1 DEF Set
    <3>2. victim = k
      BY <1>1, <3>1 DEF Store
    <3> QED
      BY <1>1, <2>1, <3>1, <3>2 DEF Full, Evictable
  <2>2. CASE ~(Full(n) /\ Entries # {})
    BY <1>1, <1>2, <2>2 DEF Set, Store
  <2> QED
    BY <2>1, <2>2
<1>3. CASE Sweep
  BY <1>1, <1>3 DEF Sweep
<1>4. CASE UNCHANGED value
  BY <1>1, <1>4
<1> QED
  BY <1>2, <1>3, <1>4 DEF Next, Tick, Exit, Close, Closed, vars

\* Only a full cache gives up a live entry for another key, only when nothing
\* in it has expired, and then one that would have expired first.
THEOREM EvictionIsFair == Spec => EvictsOldestLast
<1>1. TypeOK /\ [Next]_vars =>
        [\A k \in Keys :
           (Get(k) # None /\ value'[k] = None) =>
              /\ Cardinality(Entries) >= Capacity
              /\ \A j \in Entries : ~Expired(j) /\ left[k] <= left[j]]_vars
  BY EvictionStep DEF EvictsRightly
<1> QED
  BY <1>1, TypeCorrect, PTL DEF Spec, EvictsOldestLast

(***************************************************************************)
(* Refinement.                                                             *)
(***************************************************************************)
\* Every step of the cache is a Put, a loss or nothing to its clients.
LEMMA LossyStep == TypeOK /\ [Next]_vars => [Lossy!Next]_(Lossy!vars)
<1> SUFFICES ASSUME TypeOK, [Next]_vars PROVE [Lossy!Next]_(Lossy!vars)
  OBVIOUS
<1> DEFINE held == [k \in Keys |-> Get(k)]
<1>1. ASSUME NEW k \in Keys, NEW v \in Values, Set(k, v) PROVE Lossy!Put(k, v)
  <2>1. PICK gone \in SUBSET Keys : Store(k, v, gone) /\ \E lost \in Keys : gone \subseteq {lost}
    BY <1>1 DEF Set
  <2>2. PICK lost \in Keys : gone \subseteq {lost} /\ (gone = {} => lost = k)
    BY <2>1
  <2>3. \A j \in Keys : Get(j)' = IF j = k THEN v ELSE IF j \in gone THEN None ELSE Get(j)
    BY <2>1 DEF Store, Get, Expired, TypeOK
  <2>4. held' = [[held EXCEPT ![lost] = None] EXCEPT ![k] = v]
    BY <2>2, <2>3
  <2> QED
    BY <1>1, <2>4 DEF Set, Lossy!Put
<1>2. CASE Tick
  <2> DEFINE keys == {k \in Keys : left'[k] = -1}
  <2>1. \A k \in Keys : Get(k)' = IF k \in keys THEN None ELSE Get(k)
    BY <1>2 DEF Tick, Older, Get, Expired, TypeOK
  <2>2. Lossy!Lose(keys)
    BY <1>2, <2>1 DEF Tick, Lossy!Lose
  <2> QED
    BY <2>2 DEF Lossy!Next
<1>3. CASE Sweep
  <2>1. \A k \in Keys : Get(k)' = Get(k)
    BY <1>3 DEF Sweep, Get, Expired
  <2> QED
    BY <1>3, <2>1 DEF Sweep, Lossy!vars
<1>4. ASSUME UNCHANGED <<value, left, lastSet>> PROVE UNCHANGED Lossy!vars
  BY <1>4 DEF Lossy!vars, Get, Expired
<1> QED
  BY <1>1, <1>2, <1>3, <1>4 DEF Next, Exit, Close, Closed, vars, Lossy!Next

\* The bounded TTL cache is a lossy cache: its clients get the value last set
\* or nothing, and a Set costs them at most one other live key.
THEOREM CacheIsLossy == Spec => ImplementsLossyCache
<1>1. Init => Lossy!Init
  BY DEF Init, Lossy!Init, Get, Expired
<1> QED
  BY <1>1, LossyStep, TypeCorrect, PTL DEF Spec, ImplementsLossyCache, Lossy!Spec

(***************************************************************************)
(* Close.                                                                  *)
(***************************************************************************)
\* Whoever waits in Close waits for a worker that has been told to stop or has
\* left, and once one Close has returned no worker sweeps the map any more.
CloseStopsWorker ==
    /\ worker = "exited" => stop
    /\ \A p \in Closers : /\ closing[p] = "waiting" => stop
                          /\ closing[p] = "returned" => worker = "exited"

LEMMA CloseStep == TypeOK /\ CloseStopsWorker /\ [Next]_vars => CloseStopsWorker'
<1> SUFFICES ASSUME TypeOK, CloseStopsWorker, [Next]_vars PROVE CloseStopsWorker'
  OBVIOUS
<1> USE DEF TypeOK, CloseStopsWorker
<1>1. ASSUME NEW p \in Closers, Close(p) PROVE CloseStopsWorker'
  BY <1>1 DEF Close
<1>2. ASSUME NEW p \in Closers, Closed(p) PROVE CloseStopsWorker'
  BY <1>2 DEF Closed
<1>3. CASE Exit
  BY <1>3 DEF Exit
<1>4. CASE UNCHANGED <<stop, worker, closing>>
  BY <1>4
<1> QED
  BY <1>1, <1>2, <1>3, <1>4 DEF Next, Set, Tick, Sweep, vars

\* Any number of goroutines may call Close, at any time.
THEOREM CloseIsFinal == Spec => []CloseStopsWorker
<1>1. Init => CloseStopsWorker
  BY DEF Init, CloseStopsWorker
<1> QED
  BY <1>1, CloseStep, TypeCorrect, PTL DEF Spec
=============================================================================
