-------------------------- MODULE TokenBucket_proof --------------------------
(***************************************************************************)
(* The rate of a token bucket, for any capacity, gain and price.           *)
(***************************************************************************)
EXTENDS TokenBucket, TLAPS

Parameters == Capacity \in Nat /\ Gain \in Nat /\ Price \in Nat

BucketInv ==
    /\ tokens \in 0 .. Capacity
    /\ taken \in Nat
    /\ elapsed \in Nat
    /\ WithinRate

LEMMA GainStep ==
    ASSUME Parameters, NEW n \in Nat
    PROVE  Gain * (n + 1) = Gain * n + Gain /\ Gain * n \in Nat
  BY SMTT(30) DEF Parameters

\* A new observer has seen nothing, and the bucket holds no more than fits.
LEMMA ObserverStarts ==
    ASSUME Parameters, Observe, tokens' \in 0 .. Capacity
    PROVE  BucketInv'
<1>1. Gain * elapsed' = 0 /\ taken' = 0
  BY DEF Observe, Parameters
<1>2. WithinRate'
  BY <1>1 DEF WithinRate, Parameters
<1> QED
  BY <1>2 DEF Observe, BucketInv

\* What is taken from the bucket, and what it gains, keep a budget.
LEMMA BudgetKept ==
    ASSUME NEW spent \in Nat, NEW left \in Nat, NEW paid \in Nat, NEW then \in Nat,
           NEW budget \in Nat, spent + left <= budget, paid + then <= spent + left
    PROVE  paid + then <= budget
  OBVIOUS

LEMMA BudgetGrows ==
    ASSUME NEW spent \in Nat, NEW left \in Nat, NEW then \in Nat, NEW budget \in Nat,
           NEW gain \in Nat, spent + left <= budget, then <= left + gain
    PROVE  spent + then <= budget + gain
  OBVIOUS

LEMMA Paid ==
    ASSUME NEW left \in Nat, NEW spent \in Nat, NEW price \in Nat, left >= price
    PROVE  /\ left - price \in Nat /\ left - price <= left
           /\ spent + (left - price) <= spent + left
           /\ (spent + price) + (left - price) <= spent + left
           /\ spent + price \in Nat
  OBVIOUS

LEMMA Together ==
    ASSUME NEW spent \in Nat, NEW left \in Nat, NEW then \in Nat, then <= left
    PROVE  spent + then <= spent + left
  OBVIOUS

\* Every step keeps the rate: what is taken has been in the bucket, and the
\* bucket gains no more than the time allows.
LEMMA BucketStep ==
    ASSUME Parameters, BucketInv, [Next]_vars
    PROVE  BucketInv'
<1> DEFINE budget == Capacity + Gain * elapsed
<1>0. /\ tokens \in Nat /\ tokens <= Capacity /\ taken \in Nat /\ elapsed \in Nat
      /\ Capacity \in Nat /\ Gain \in Nat /\ Price \in Nat
  BY DEF BucketInv, Parameters
<1>b. budget \in Nat /\ taken + tokens <= budget
  <2>1. Gain * elapsed \in Nat
    BY <1>0, GainStep
  <2> QED
    BY <1>0, <2>1 DEF BucketInv, WithinRate
<1>1. CASE Take
  <2> HIDE DEF budget
  <2>1. /\ tokens' = tokens - Price /\ tokens >= Price /\ elapsed' = elapsed
        /\ taken' = taken \/ taken' = taken + Price
    BY <1>1 DEF Take
  <2>2. /\ tokens' \in Nat /\ tokens' <= tokens /\ taken' \in Nat
        /\ taken' + tokens' <= taken + tokens
    BY <1>0, <2>1, Paid
  <2>3. tokens' \in 0 .. Capacity
    BY <1>0, <2>2
  <2>4. taken' + tokens' <= budget
    BY <1>0, <1>b, <2>2, BudgetKept
  <2>5. WithinRate'
    BY <2>1, <2>4 DEF WithinRate, budget
  <2> QED
    BY <1>0, <2>1, <2>2, <2>3, <2>5 DEF BucketInv
<1>2. CASE Tick
  <2>1. tokens' \in 0 .. Capacity /\ tokens' \in Nat /\ tokens' <= tokens + Gain
    BY <1>0, <1>2 DEF Tick
  <2>2. CASE elapsed' = elapsed + 1 /\ UNCHANGED taken
    <3> HIDE DEF budget
    <3>1. taken' + tokens' <= budget + Gain
      BY <1>0, <1>b, <2>1, <2>2, BudgetGrows
    <3>2. Capacity + Gain * elapsed' = budget + Gain
      <4>1. Gain * elapsed' = Gain * elapsed + Gain /\ Gain * elapsed \in Nat
        BY <1>0, <2>2, GainStep
      <4> QED
        BY <1>0, <4>1 DEF budget
    <3>3. WithinRate'
      BY <3>1, <3>2 DEF WithinRate
    <3> QED
      BY <1>0, <2>1, <2>2, <3>3 DEF BucketInv
  <2> QED
    BY <1>2, <2>1, <2>2, ObserverStarts DEF Tick
<1>3. CASE Restart
  <2>1. tokens' \in 0 .. Capacity
    BY <1>3 DEF Restart, BucketInv
  <2> QED
    BY <1>3, <2>1, ObserverStarts DEF Restart
<1>4. CASE Lose
  <2> HIDE DEF budget
  <2>1. /\ tokens' \in Nat /\ tokens' <= tokens /\ tokens' \in 0 .. Capacity
        /\ taken' = taken /\ elapsed' = elapsed
    BY <1>0, <1>4 DEF Lose
  <2>2. taken' + tokens' <= budget
    <3>1. taken' \in Nat /\ taken' + tokens' <= taken + tokens
      BY <1>0, <2>1, Together
    <3> QED
      BY <1>0, <1>b, <2>1, <3>1, BudgetKept
  <2>3. WithinRate'
    BY <2>1, <2>2 DEF WithinRate, budget
  <2> QED
    BY <1>0, <2>1, <2>3 DEF BucketInv
<1>5. CASE UNCHANGED vars
  BY <1>5 DEF vars, BucketInv, WithinRate
<1> QED
  BY <1>1, <1>2, <1>3, <1>4, <1>5 DEF Next

\* Whatever is taken when, no stretch of time sees more taken than a full
\* bucket and what the time has gained.
THEOREM BucketKeepsRate == ASSUME Parameters PROVE Spec => []WithinRate
<1>1. Init => BucketInv
  <2>1. Gain * 0 = 0
    BY DEF Parameters
  <2> QED
    BY <2>1 DEF Init, BucketInv, WithinRate, Parameters
<1>2. BucketInv => WithinRate
  BY DEF BucketInv
<1>3. BucketInv /\ [Next]_vars => BucketInv'
  BY BucketStep
<1> QED
  BY <1>1, <1>2, <1>3, PTL DEF Spec
=============================================================================
