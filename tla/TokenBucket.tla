----------------------------- MODULE TokenBucket -----------------------------
(***************************************************************************)
(* What a rate limiter promises: a bucket that holds at most Capacity and  *)
(* gains at most Gain per tick of the clock, out of which every admission  *)
(* takes Price.  The promise is an upper bound, so the bucket may also     *)
(* lose what is in it.  An observer counts what is taken, all of it or     *)
(* only the part of one client, since a moment of its choice.              *)
(***************************************************************************)
EXTENDS Integers

CONSTANTS
    Capacity,  \* what the bucket holds, and begins with
    Gain,      \* the most it gains per tick
    Price      \* what an admission takes

VARIABLES
    tokens,  \* what is in the bucket
    taken,   \* what the observer has seen taken
    elapsed  \* ticks since the observer began

vars == <<tokens, taken, elapsed>>

Init ==
    /\ tokens = Capacity
    /\ taken = 0
    /\ elapsed = 0

Take ==
    /\ tokens >= Price
    /\ tokens' = tokens - Price
    /\ taken' \in {taken, taken + Price}
    /\ UNCHANGED elapsed

Observe == taken' = 0 /\ elapsed' = 0

Lose ==
    /\ tokens' \in 0 .. tokens
    /\ UNCHANGED <<taken, elapsed>>

Tick ==
    /\ tokens' \in 0 .. IF tokens + Gain > Capacity THEN Capacity ELSE tokens + Gain
    /\ (elapsed' = elapsed + 1 /\ UNCHANGED taken) \/ Observe

Restart == Observe /\ UNCHANGED tokens

Next == Take \/ Lose \/ Tick \/ Restart

Spec == Init /\ [][Next]_vars
-----------------------------------------------------------------------------
\* Over any stretch of time no more is taken than the bucket holds and what it
\* can have gained; what is left in it counts against that.
WithinRate == taken + tokens <= Capacity + Gain * elapsed
=============================================================================
