------------------------ MODULE ProviderClient_proof ------------------------
(***************************************************************************)
(* Proofs about ProviderClient, for any burst, refill time, open time,     *)
(* window and set of callers, and for both providers' rules.               *)
(***************************************************************************)
EXTENDS ProviderClient, TLAPS

USE ClientAssumption

\* The bucket holds a whole number of units of credit.
LEMMA CapacityType == Capacity \in Nat
  BY DEF Capacity

\* Every step keeps the types.
LEMMA TypeStep == TypeOK /\ [Next]_vars => TypeOK'
<1> SUFFICES ASSUME TypeOK, [Next]_vars PROVE TypeOK'
  OBVIOUS
<1> USE CapacityType DEF TypeOK, Threshold, AtMost
<1>1. ASSUME NEW c \in Callers, Send(c) PROVE TypeOK'
  BY <1>1 DEF Send, Allowed
<1>2. ASSUME NEW c \in Callers, NEW outcome \in Outcomes, Return(c, outcome)
      PROVE  TypeOK'
  <2>1. CASE RecordFailure
    BY <1>2, <2>1 DEF Return, RecordFailure
  <2>2. CASE RecordSuccess
    BY <1>2, <2>2 DEF Return, RecordSuccess
  <2>3. CASE UNCHANGED <<openFor, failures, streak>>
    BY <1>2, <2>3 DEF Return
  <2> QED
    BY <1>2, <2>1, <2>2, <2>3 DEF Return
<1>3. CASE Tick
  BY <1>3 DEF Tick, Earned, CloserToClosed
<1>4. CASE Mark
  BY <1>4 DEF Mark
<1>5. CASE UNCHANGED vars
  BY <1>5 DEF vars
<1> QED
  BY <1>1, <1>2, <1>3, <1>4, <1>5 DEF Next

\* The client is type correct; the bucket is never overdrawn nor overfull.
THEOREM TypeCorrect == Spec => []TypeOK
<1>1. Init => TypeOK
  BY CapacityType DEF Init, TypeOK, Threshold
<1> QED
  BY <1>1, TypeStep, PTL DEF Spec

\* What leaves is paid from the credit there was or that time has earned.
LEMMA RateStep == TypeOK /\ RateBounded /\ [Next]_vars => RateBounded'
<1> SUFFICES ASSUME TypeOK, RateBounded, [Next]_vars PROVE RateBounded'
  OBVIOUS
<1> USE CapacityType DEF TypeOK, RateBounded
<1>1. ASSUME NEW c \in Callers, Send(c) PROVE RateBounded'
  BY <1>1 DEF Send
<1>2. ASSUME NEW c \in Callers, NEW outcome \in Outcomes, Return(c, outcome)
      PROVE  RateBounded'
  BY <1>2 DEF Return
<1>3. CASE Tick
  BY <1>3 DEF Tick, Earned, AtMost
<1>4. CASE Mark
  BY <1>4 DEF Mark
<1>5. CASE UNCHANGED vars
  BY <1>5 DEF vars
<1> QED
  BY <1>1, <1>2, <1>3, <1>4, <1>5 DEF Next

\* Over any stretch of time, from wherever the observer starts it, the client
\* sends no more than the burst and what that time has earned.
THEOREM RateCorrect == Spec => []RateBounded
<1>1. Init => RateBounded
  BY CapacityType DEF Init, RateBounded
<1> QED
  BY <1>1, TypeCorrect, RateStep, PTL DEF Spec

\* The seven requests of a minute that HandyAPI allows are those the limiter
\* earns; the burst is what a minute may see on top of them, and no more.
MinuteBounded == elapsed <= 7 * Refill => spent <= Capacity + 7 * Refill

THEOREM MinuteCorrect == Spec => []MinuteBounded
<1>1. TypeOK /\ RateBounded => MinuteBounded
  BY CapacityType DEF TypeOK, RateBounded, MinuteBounded
<1> QED
  BY <1>1, TypeCorrect, RateCorrect, PTL

\* The client spends and earns like the bucket; what the circuit and the mutex
\* do in between is not seen.
LEMMA BucketStep == TypeOK /\ [Next]_vars => [Bucket!Next]_(Bucket!vars)
<1> SUFFICES ASSUME TypeOK, [Next]_vars PROVE [Bucket!Next]_(Bucket!vars)
  OBVIOUS
<1> USE CapacityType DEF TypeOK
<1>1. ASSUME NEW c \in Callers, Send(c) PROVE Bucket!Take
  BY <1>1 DEF Send, Allowed, Bucket!Take
<1>2. ASSUME NEW c \in Callers, NEW outcome \in Outcomes, Return(c, outcome)
      PROVE  UNCHANGED Bucket!vars
  BY <1>2 DEF Return, Bucket!vars
<1>3. CASE Tick
  <2>1. credit' = IF credit + 1 > Capacity THEN Capacity ELSE credit + 1
    BY <1>3 DEF Tick, Earned, AtMost
  <2> QED
    BY <1>3, <2>1 DEF Tick, Bucket!Next, Bucket!Tick, Bucket!Observe
<1>4. CASE Mark
  BY <1>4 DEF Mark, Bucket!Next, Bucket!Restart, Bucket!Observe
<1>5. CASE UNCHANGED vars
  BY <1>5 DEF vars, Bucket!vars
<1> QED
  BY <1>1, <1>2, <1>3, <1>4, <1>5 DEF Next, Bucket!Next

\* To the provider the client is a token bucket.
THEOREM ClientIsTokenBucket == Spec => ImplementsTokenBucket
<1>1. Init => Bucket!Init
  BY DEF Init, Bucket!Init
<1> QED
  BY <1>1, TypeCorrect, BucketStep, PTL DEF Spec, ImplementsTokenBucket, Bucket!Spec

\* Whatever order outcomes come back in, until the third failure since the last
\* success the circuit is closed and the count is the number of failures.
LEMMA StreakStep == TypeOK /\ OpensOnStreak /\ [Next]_vars => OpensOnStreak'
<1> SUFFICES ASSUME TypeOK, OpensOnStreak, [Next]_vars PROVE OpensOnStreak'
  OBVIOUS
<1> USE DEF TypeOK, OpensOnStreak, Threshold, AtMost
<1>1. ASSUME NEW c \in Callers, Send(c) PROVE OpensOnStreak'
  BY <1>1 DEF Send
<1>2. ASSUME NEW c \in Callers, NEW outcome \in Outcomes, Return(c, outcome)
      PROVE  OpensOnStreak'
  <2>1. CASE RecordFailure
    BY <2>1 DEF RecordFailure
  <2>2. CASE RecordSuccess
    BY <2>2 DEF RecordSuccess
  <2>3. CASE UNCHANGED <<openFor, failures, streak>>
    BY <2>3
  <2> QED
    BY <1>2, <2>1, <2>2, <2>3 DEF Return
<1>3. CASE Tick
  BY <1>3 DEF Tick, CloserToClosed
<1>4. CASE Mark
  BY <1>4 DEF Mark
<1>5. CASE UNCHANGED vars
  BY <1>5 DEF vars
<1> QED
  BY <1>1, <1>2, <1>3, <1>4, <1>5 DEF Next

\* The circuit is open only after three failures in a row, and counts them.
THEOREM BreakerCorrect == Spec => []OpensOnStreak
<1>1. Init => OpensOnStreak
  BY DEF Init, OpensOnStreak
<1> QED
  BY <1>1, TypeCorrect, StreakStep, PTL DEF Spec

\* And it opens, for the whole time, with the third failure in a row: none is
\* missed, in whatever order the calls on the wire come back.
ThirdFailureOpens == [][streak < Threshold /\ streak' = Threshold => openFor' = OpenTicks]_vars

THEOREM BreakerOpens == Spec => ThirdFailureOpens
<1>1. ASSUME TypeOK, OpensOnStreak, [Next]_vars, streak < Threshold, streak' = Threshold
      PROVE  openFor' = OpenTicks
  <2>1. RecordFailure
    BY <1>1 DEF Next, Send, Return, RecordSuccess, Tick, Mark, vars, TypeOK, Threshold
  <2>2. failures = streak /\ streak + 1 = Threshold
    BY <1>1, <2>1 DEF RecordFailure, OpensOnStreak, AtMost, TypeOK, Threshold
  <2> QED
    BY <2>1, <2>2 DEF RecordFailure, Threshold
<1>2. TypeOK /\ OpensOnStreak /\ [Next]_vars =>
         [streak < Threshold /\ streak' = Threshold => openFor' = OpenTicks]_vars
  BY <1>1
<1> QED
  BY <1>2, TypeCorrect, BreakerCorrect, PTL DEF Spec, ThirdFailureOpens
=============================================================================
