------------------------------- MODULE TTLCache -------------------------------
(***************************************************************************)
(* pkg/cache: a bounded map with a time to live.  Set and the sweep of the *)
(* cleanup worker hold the write lock, Get the read lock, so each is one   *)
(* step; time passes between any two.  Close stops the worker and waits    *)
(* for it, and may be called by several goroutines.                        *)
(***************************************************************************)
EXTENDS Integers, FiniteSets

CONSTANTS
    Keys, Values,
    None,        \* no value
    TTL,         \* lifetime of an entry in ticks
    MaxEntries,  \* the capacity New is called with
    Closers      \* goroutines that call Close

ASSUME CacheAssumption ==
    /\ IsFiniteSet(Keys)
    /\ None \notin Values
    /\ TTL \in Nat
    /\ MaxEntries \in Int

\* New: a capacity below one is one.
CapacityAsGiven == MaxEntries
Capacity == IF MaxEntries < 1 THEN 1 ELSE MaxEntries

VARIABLES
    value,    \* value[k]: the value of k's entry, None without an entry
    left,     \* left[k]: ticks until k's entry expires, -1 once it has
    lastSet,  \* history: lastSet[k] is the value last set for k
    stop,     \* the stop channel is closed
    worker,   \* the cleanup worker: "running" or "exited" (done is closed)
    closing   \* closing[p]: where Close stands in goroutine p

vars == <<value, left, lastSet, stop, worker, closing>>

Init ==
    /\ value = [k \in Keys |-> None]
    /\ left = [k \in Keys |-> -1]
    /\ lastSet = [k \in Keys |-> None]
    /\ stop = FALSE
    /\ worker = "running"
    /\ closing = [p \in Closers |-> "no"]

Entries == {k \in Keys : value[k] # None}

\* now.After(expiresAt) is strict: in its last tick an entry is still alive.
Expired(k) == left[k] = -1

Get(k) == IF Expired(k) THEN None ELSE value[k]

(***************************************************************************)
(* evictOne walks the map in an arbitrary order: it removes an expired     *)
(* entry if there is one, else one of those that expire first.             *)
(***************************************************************************)
LastTickIsExpired(k) ==
    /\ k \in Entries
    /\ \/ left[k] <= 0
       \/ \A j \in Entries : ~Expired(j) /\ left[k] <= left[j]

Evictable(k) ==
    /\ k \in Entries
    /\ \/ Expired(k)
       \/ \A j \in Entries : ~Expired(j) /\ left[k] <= left[j]

FullOneLate(k) == k \notin Entries /\ Cardinality(Entries) > Capacity
Full(k) == k \notin Entries /\ Cardinality(Entries) >= Capacity

StoreKeepsOld(k, v, gone) ==
    /\ value' = [j \in Keys |-> IF j = k /\ value[k] = None THEN v
                                ELSE IF j \in gone THEN None ELSE value[j]]
    /\ left' = [j \in Keys |-> IF j = k THEN TTL ELSE IF j \in gone THEN -1 ELSE left[j]]

Store(k, v, gone) ==
    /\ value' = [j \in Keys |-> IF j = k THEN v ELSE IF j \in gone THEN None ELSE value[j]]
    /\ left' = [j \in Keys |-> IF j = k THEN TTL ELSE IF j \in gone THEN -1 ELSE left[j]]

Set(k, v) ==
    /\ IF Full(k) /\ Entries # {}
       THEN \E victim \in Keys : Evictable(victim) /\ Store(k, v, {victim})
       ELSE Store(k, v, {})
    /\ lastSet' = [lastSet EXCEPT ![k] = v]
    /\ UNCHANGED <<stop, worker, closing>>

OlderUnclamped(k) == left[k] - 1
Older(k) == IF Expired(k) THEN -1 ELSE left[k] - 1

Tick ==
    /\ \E k \in Keys : ~Expired(k)
    /\ left' = [k \in Keys |-> Older(k)]
    /\ UNCHANGED <<value, lastSet, stop, worker, closing>>

(***************************************************************************)
(* The cleanup worker: on its ticker it sweeps, and it leaves once stop is *)
(* closed; with both ready, select takes either.                           *)
(***************************************************************************)
NeverSweeps == FALSE /\ UNCHANGED vars

Sweep ==
    /\ worker = "running"
    /\ \E k \in Entries : Expired(k)
    /\ value' = [k \in Keys |-> IF Expired(k) THEN None ELSE value[k]]
    /\ UNCHANGED <<left, lastSet, stop, worker, closing>>

NeverExits == FALSE /\ UNCHANGED vars

Exit ==
    /\ worker = "running"
    /\ stop
    /\ worker' = "exited"
    /\ UNCHANGED <<value, left, lastSet, stop, closing>>

\* Close: closeOnce.Do(close(stop)), then receive from done.
Close(p) ==
    /\ closing[p] = "no"
    /\ stop' = TRUE
    /\ closing' = [closing EXCEPT ![p] = "waiting"]
    /\ UNCHANGED <<value, left, lastSet, worker>>

Closed(p) ==
    /\ closing[p] = "waiting"
    /\ worker = "exited"
    /\ closing' = [closing EXCEPT ![p] = "returned"]
    /\ UNCHANGED <<value, left, lastSet, stop, worker>>

Next ==
    \/ \E k \in Keys, v \in Values : Set(k, v)
    \/ Tick
    \/ Sweep
    \/ Exit
    \/ \E p \in Closers : Close(p) \/ Closed(p)

Spec == Init /\ [][Next]_vars

\* The worker and the goroutines in Close are scheduled again and again, and
\* select does not pass over a closed channel for ever.
FairSpec ==
    /\ Spec
    /\ WF_vars(Sweep)
    /\ WF_vars(Exit)
    /\ \A p \in Closers : WF_vars(Closed(p))
-----------------------------------------------------------------------------
\* Every variable has its type; what has no entry has no lifetime left.
TypeOK ==
    /\ value \in [Keys -> Values \cup {None}]
    /\ left \in [Keys -> -1 .. TTL]
    /\ lastSet \in [Keys -> Values \cup {None}]
    /\ stop \in BOOLEAN
    /\ worker \in {"running", "exited"}
    /\ closing \in [Closers -> {"no", "waiting", "returned"}]
    /\ \A k \in Keys : value[k] = None => Expired(k)

\* The map never outgrows its capacity, with or without the worker.
Bounded == Cardinality(Entries) <= Capacity

\* Only a full cache gives up a live entry for another key, be it in its last
\* tick, only when nothing in it has expired, and then one that would have
\* expired first.
EvictsOldestLast ==
    [][\A k \in Keys :
         (Get(k) # None /\ value'[k] = None) =>
            /\ Cardinality(Entries) >= Capacity
            /\ \A j \in Entries : ~Expired(j) /\ left[k] <= left[j]]_vars

\* While the cache is not closed, an expired entry does not stay in memory.
Swept == \A k \in Keys :
    (k \in Entries /\ Expired(k)) ~> (k \notin Entries \/ ~Expired(k) \/ stop)

\* Close returns to everyone who calls it.
CloseReturns == \A p \in Closers : closing[p] = "waiting" ~> closing[p] = "returned"

(***************************************************************************)
(* The cache is a lossy cache: what Get returns is the value last set or   *)
(* nothing, and a Set costs at most one other live key.                    *)
(***************************************************************************)
Lossy == INSTANCE LossyCache WITH held <- [k \in Keys |-> Get(k)]
ImplementsLossyCache == Lossy!Spec
=============================================================================
