---------------------------- MODULE ProviderClient ----------------------------
(***************************************************************************)
(* An enrichment provider's client (pkg/handyapi, pkg/binlist): a circuit  *)
(* breaker in front of a token bucket, shared by all the lookup goroutines *)
(* of an instance.  A call passes allowRequest under the mutex, is on the  *)
(* wire without it, and records its outcome under the mutex again, so      *)
(* outcomes are recorded in any order and after anything.                  *)
(*                                                                         *)
(* Time advances in ticks.  A token is Refill units of credit and a tick   *)
(* earns one unit, up to Burst tokens.                                     *)
(***************************************************************************)
EXTENDS Integers, FiniteSets

CONSTANTS
    Callers,    \* lookup goroutines
    Burst,      \* the limiter's burst
    Refill,     \* ticks per token
    OpenTicks,  \* how long an open circuit stays open
    HandyRules, \* TRUE for HandyAPI, FALSE for binlist.net
    Window      \* bound: the longest stretch of time the history measures

ASSUME ClientAssumption ==
    /\ Burst \in Nat \ {0}
    /\ Refill \in Nat \ {0}
    /\ OpenTicks \in Nat \ {0}
    /\ HandyRules \in BOOLEAN
    /\ Window \in Nat

Capacity == Burst * Refill
Threshold == 3

(***************************************************************************)
(* What can come of a request on the wire, and how it is recorded.  A      *)
(* request whose context is cancelled ends as "transport".  401 and 403    *)
(* count against HandyAPI only, as does a 200 whose body says it failed.   *)
(***************************************************************************)
Outcomes == {"found", "notfound", "ratelimited", "servererror", "transport",
             "garbled", "refused", "unsuccessful", "otherstatus"}
Successes == {"found", "notfound"}
Failures == {"ratelimited", "servererror", "transport", "garbled"}
            \cup (IF HandyRules THEN {"refused", "unsuccessful"} ELSE {})

VARIABLES
    credit,    \* units of credit in the bucket
    openFor,   \* ticks the circuit stays open, 0 when it is closed
    failures,  \* consecutiveFailures
    onWire,    \* callers whose request is on its way
    streak,    \* history: failures recorded since the last success, up to 3
    spent,     \* history: credit spent since the observer's mark
    elapsed    \* history: ticks since the observer's mark

vars == <<credit, openFor, failures, onWire, streak, spent, elapsed>>

Init ==
    /\ credit = Capacity
    /\ openFor = 0
    /\ failures = 0
    /\ onWire = {}
    /\ streak = 0
    /\ spent = 0
    /\ elapsed = 0

AtMost(n, limit) == IF n <= limit THEN n ELSE limit

(***************************************************************************)
(* allowRequest lets the request out: circuit closed, then a token.  When  *)
(* it refuses, it changes nothing.                                         *)
(***************************************************************************)
AllowedWithAnyCredit == openFor = 0 /\ credit > 0
Allowed == openFor = 0 /\ credit >= Refill

Send(c) ==
    /\ c \notin onWire
    /\ Allowed
    /\ credit' = credit - Refill
    /\ onWire' = onWire \cup {c}
    /\ spent' = spent + Refill
    /\ UNCHANGED <<openFor, failures, streak, elapsed>>

\* recordFailure: the third failure in a row opens the circuit.
RecordFailure ==
    /\ IF failures + 1 >= Threshold
       THEN openFor' = OpenTicks /\ failures' = 0
       ELSE failures' = failures + 1 /\ UNCHANGED openFor
    /\ streak' = AtMost(streak + 1, Threshold)

\* recordSuccess, however late it comes.
SuccessKeepsCount ==
    /\ openFor' = 0
    /\ streak' = 0
    /\ UNCHANGED failures

RecordSuccess ==
    /\ failures' = 0
    /\ openFor' = 0
    /\ streak' = 0

Return(c, outcome) ==
    /\ c \in onWire
    /\ onWire' = onWire \ {c}
    /\ \/ outcome \in Failures /\ RecordFailure
       \/ outcome \in Successes /\ RecordSuccess
       \/ /\ outcome \notin Failures \cup Successes
          /\ UNCHANGED <<openFor, failures, streak>>
    /\ UNCHANGED <<credit, spent, elapsed>>

\* One tick of the clock; the observer's window starts again when it is full.
EarnedUncapped == credit + 1
Earned == AtMost(credit + 1, Capacity)

NeverCloser == openFor
CloserToClosed == IF openFor = 0 THEN 0 ELSE openFor - 1

Tick ==
    /\ credit' = Earned
    /\ openFor' = CloserToClosed
    /\ IF elapsed < Window
       THEN elapsed' = elapsed + 1 /\ UNCHANGED spent
       ELSE elapsed' = 0 /\ spent' = 0
    /\ UNCHANGED <<failures, onWire, streak>>

\* The observer starts a new window at any time.
Mark ==
    /\ elapsed' = 0
    /\ spent' = 0
    /\ UNCHANGED <<credit, openFor, failures, onWire, streak>>

Next ==
    \/ \E c \in Callers : Send(c)
    \/ \E c \in Callers, outcome \in Outcomes : Return(c, outcome)
    \/ Tick
    \/ Mark

Spec == Init /\ [][Next]_vars

\* The clock does not stop.  Nothing is assumed of callers and providers.
FairSpec == Spec /\ WF_vars(Tick)
-----------------------------------------------------------------------------
\* Every variable has its type; the count that opens the circuit is never kept.
TypeOK ==
    /\ credit \in 0 .. Capacity
    /\ openFor \in 0 .. OpenTicks
    /\ failures \in 0 .. Threshold - 1
    /\ onWire \subseteq Callers
    /\ streak \in 0 .. Threshold
    /\ spent \in Nat
    /\ elapsed \in 0 .. Window

\* The provider's limit: over any stretch of time no more requests leave than
\* the burst and what the time that passed has earned.
RateBounded == spent + credit <= Capacity + elapsed

\* To the provider the client is a token bucket: the circuit in front of it
\* only keeps requests back.
Bucket == INSTANCE TokenBucket WITH Gain <- 1, Price <- Refill, tokens <- credit, taken <- spent
ImplementsTokenBucket == Bucket!Spec

\* The circuit is open only while the last three recorded outcomes, in the
\* order they were recorded, are failures: one success, however late, closes it.
\* Until then the client has counted exactly the failures since the last one.
OpensOnStreak == streak < Threshold => openFor = 0 /\ failures = streak

\* The client becomes usable again and again: an open circuit closes although
\* late failures may open it again, and the bucket refills.
Recovers == []<>Allowed

\* New's comment: HandyAPI documents seven requests per minute.  A minute is
\* seven refills, so no minute sees more than seven requests.
MinuteCap == elapsed <= 7 * Refill => spent <= 7 * Refill
=============================================================================
