------------------------------ MODULE LossyCache ------------------------------
(***************************************************************************)
(* What a cache promises its clients: a key yields the value last set for  *)
(* it or nothing.  It may forget any keys at any time, but setting a key   *)
(* costs the clients at most one other.                                    *)
(***************************************************************************)
CONSTANTS Keys, Values, None

VARIABLES
    lastSet,  \* lastSet[k]: the value last set for k, or None
    held      \* held[k]: what a Get of k returns, None for a miss

vars == <<lastSet, held>>

Init ==
    /\ lastSet = [k \in Keys |-> None]
    /\ held = [k \in Keys |-> None]

Put(k, v) ==
    /\ lastSet' = [lastSet EXCEPT ![k] = v]
    /\ \E lost \in Keys : held' = [[held EXCEPT ![lost] = None] EXCEPT ![k] = v]

Lose(keys) ==
    /\ held' = [k \in Keys |-> IF k \in keys THEN None ELSE held[k]]
    /\ UNCHANGED lastSet

Next ==
    \/ \E k \in Keys, v \in Values : Put(k, v)
    \/ \E keys \in SUBSET Keys : Lose(keys)

Spec == Init /\ [][Next]_vars
=============================================================================
