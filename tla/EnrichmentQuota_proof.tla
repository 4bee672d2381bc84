------------------------ MODULE EnrichmentQuota_proof ------------------------
(***************************************************************************)
(* Proofs about EnrichmentQuota, for any finite set of callers, any limit  *)
(* and any number of months.                                               *)
(***************************************************************************)
EXTENDS EnrichmentQuota, FiniteSetTheorems, TLAPS

USE QuotaAssumption

\* Every step keeps the types.
LEMMA TypeStep == TypeOK /\ [Next]_vars => TypeOK'
<1> SUFFICES ASSUME TypeOK, [Next]_vars PROVE TypeOK'
  OBVIOUS
<1> USE DEF TypeOK, Stages, Move
<1>1. ASSUME NEW c \in Callers, Begin(c) PROVE TypeOK'
  BY <1>1 DEF Begin
<1>2. ASSUME NEW c \in Callers, Reserve(c) PROVE TypeOK'
  BY <1>2 DEF Reserve, Consume
<1>3. ASSUME NEW c \in Callers, ReserveFails(c) PROVE TypeOK'
  BY <1>3 DEF ReserveFails, Consume
<1>4. ASSUME NEW c \in Callers, Send(c) PROVE TypeOK'
  BY <1>4 DEF Send
<1>5. ASSUME NEW c \in Callers, Denied(c) \/ Refuse(c) \/ Crash(c) PROVE TypeOK'
  BY <1>5 DEF Denied, Refuse, Crash
<1>6. CASE NextMonth
  <2>1. month' \in Months
    BY <1>6 DEF NextMonth, Months
  <2> QED
    BY <1>6, <2>1 DEF NextMonth
<1>7. CASE UNCHANGED vars
  BY <1>7 DEF vars
<1> QED
  BY <1>1, <1>2, <1>3, <1>4, <1>5, <1>6, <1>7 DEF Next, CallerStep

\* The counters and the callers are well typed.
THEOREM TypeCorrect == Spec => []TypeOK
<1>1. Init => TypeOK
  BY DEF Init, TypeOK, Months, Stages
<1> QED
  BY <1>1, TypeStep, PTL DEF Spec

\* There are finitely many holders of reservations for a month.
LEMMA HoldingFinite ==
    ASSUME NEW m
    PROVE  IsFiniteSet(Holding(m)) /\ Cardinality(Holding(m)) \in Nat
<1>1. Holding(m) \subseteq Callers
  BY DEF Holding
<1> QED
  BY <1>1, FS_Subset, FS_CardinalityType

\* A caller that leaves "allowed" is one holder fewer for its month, and any
\* other step than a reservation never makes holders.
LEMMA HoldingShrinks ==
    ASSUME TypeOK, NEW c \in Callers, NEW s \in Stages \ {"allowed"},
           Move(c, s),
           period' = period \/ (stage[c] # "allowed" /\ \E n \in Months : period' = [period EXCEPT ![c] = n])
    PROVE  \A m \in Months :
             /\ Cardinality(Holding(m)') \in Nat
             /\ Cardinality(Holding(m)') =
                  IF stage[c] = "allowed" /\ period[c] = m
                  THEN Cardinality(Holding(m)) - 1 ELSE Cardinality(Holding(m))
<1> SUFFICES ASSUME NEW m \in Months
             PROVE  /\ Cardinality(Holding(m)') \in Nat
                    /\ Cardinality(Holding(m)') =
                         IF stage[c] = "allowed" /\ period[c] = m
                         THEN Cardinality(Holding(m)) - 1 ELSE Cardinality(Holding(m))
  OBVIOUS
<1>1. CASE stage[c] = "allowed" /\ period[c] = m
  <2>1. c \in Holding(m) /\ Holding(m)' = Holding(m) \ {c}
    BY <1>1 DEF Holding, Move, TypeOK
  <2>2. /\ IsFiniteSet(Holding(m) \ {c})
        /\ Cardinality(Holding(m) \ {c}) = Cardinality(Holding(m)) - 1
    BY <2>1, HoldingFinite, FS_RemoveElement
  <2>3. Cardinality(Holding(m) \ {c}) \in Nat
    BY <2>2, FS_CardinalityType
  <2> QED
    BY <1>1, <2>1, <2>2, <2>3
<1>2. CASE ~(stage[c] = "allowed" /\ period[c] = m)
  <2>1. Holding(m)' = Holding(m)
    BY <1>2 DEF Holding, Move, TypeOK
  <2> QED
    BY <1>2, <2>1, HoldingFinite
<1> QED
  BY <1>1, <1>2

\* A reservation makes its caller a holder for the month it computed.
LEMMA HoldingGrows ==
    ASSUME TypeOK, NEW c \in Callers, stage[c] # "allowed", Move(c, "allowed"),
           UNCHANGED period
    PROVE  \A m \in Months :
             Cardinality(Holding(m)') =
               IF period[c] = m THEN Cardinality(Holding(m)) + 1 ELSE Cardinality(Holding(m))
<1> SUFFICES ASSUME NEW m \in Months
             PROVE  Cardinality(Holding(m)') =
                      IF period[c] = m THEN Cardinality(Holding(m)) + 1
                      ELSE Cardinality(Holding(m))
  OBVIOUS
<1>1. CASE period[c] = m
  <2>1. c \notin Holding(m) /\ Holding(m)' = Holding(m) \cup {c}
    BY <1>1 DEF Holding, Move, TypeOK
  <2> QED
    BY <1>1, <2>1, HoldingFinite, FS_AddElement
<1>2. CASE period[c] # m
  <2>1. Holding(m)' = Holding(m)
    BY <1>2 DEF Holding, Move, TypeOK
  <2> QED
    BY <1>2, <2>1
<1> QED
  BY <1>1, <1>2

\* Every step keeps what is sent and what may still be sent within the count.
LEMMA ReservedStep ==
    TypeOK /\ ReservedBeforeSent /\ [Next]_vars => ReservedBeforeSent'
<1> SUFFICES ASSUME TypeOK, ReservedBeforeSent, [Next]_vars PROVE ReservedBeforeSent'
  OBVIOUS
<1> USE DEF TypeOK, Stages
<1>0. \A m \in Months : Cardinality(Holding(m)) \in Nat
  BY HoldingFinite
<1>1. ASSUME NEW c \in Callers, Begin(c) PROVE ReservedBeforeSent'
  <2>1. \A m \in Months : Cardinality(Holding(m)') = Cardinality(Holding(m))
    BY <1>1, HoldingShrinks DEF Begin
  <2> QED
    BY <1>0, <1>1, <2>1 DEF Begin, ReservedBeforeSent
<1>2. ASSUME NEW c \in Callers, Reserve(c) PROVE ReservedBeforeSent'
  <2>1. \A m \in Months :
          Cardinality(Holding(m)') =
            IF period[c] = m THEN Cardinality(Holding(m)) + 1 ELSE Cardinality(Holding(m))
    BY <1>2, HoldingGrows DEF Reserve
  <2> QED
    BY <1>0, <1>2, <2>1 DEF Reserve, Consume, HasRoom, ReservedBeforeSent
<1>3. ASSUME NEW c \in Callers, ReserveFails(c) PROVE ReservedBeforeSent'
  <2>1. \A m \in Months : Cardinality(Holding(m)') = Cardinality(Holding(m))
    BY <1>3, HoldingShrinks DEF ReserveFails
  <2> QED
    BY <1>0, <1>3, <2>1 DEF ReserveFails, Consume, HasRoom, ReservedBeforeSent
<1>4. ASSUME NEW c \in Callers, Send(c) PROVE ReservedBeforeSent'
  <2>1. \A m \in Months :
          Cardinality(Holding(m)') =
            IF period[c] = m THEN Cardinality(Holding(m)) - 1 ELSE Cardinality(Holding(m))
    BY <1>4, HoldingShrinks DEF Send
  <2> QED
    BY <1>0, <1>4, <2>1 DEF Send, ReservedBeforeSent
<1>5. ASSUME NEW c \in Callers, Denied(c) \/ Refuse(c) \/ Crash(c)
      PROVE  ReservedBeforeSent'
  <2>1. \A m \in Months :
          /\ Cardinality(Holding(m)') \in Nat
          /\ Cardinality(Holding(m)') <= Cardinality(Holding(m))
    BY <1>0, <1>5, HoldingShrinks DEF Denied, Refuse, Crash
  <2> QED
    BY <1>0, <1>5, <2>1 DEF Denied, Refuse, Crash, ReservedBeforeSent
<1>6. CASE UNCHANGED <<usage, stage, period, sentFor>>
  <2>1. \A m \in Months : Holding(m)' = Holding(m)
    BY <1>6 DEF Holding
  <2> QED
    BY <1>6, <2>1 DEF ReservedBeforeSent
<1> QED
  BY <1>1, <1>2, <1>3, <1>4, <1>5, <1>6 DEF Next, CallerStep, NextMonth, vars

\* However many instances call and crash, no month's reservations let more
\* requests out than the limit: each is counted before it is sent.
THEOREM QuotaHolds == Spec => []ReservedBeforeSent
<1>1. Init => ReservedBeforeSent
  <2> SUFFICES ASSUME Init PROVE ReservedBeforeSent
    OBVIOUS
  <2>1. \A m \in Months : Holding(m) = {}
    BY DEF Init, Holding
  <2> QED
    BY <2>1, FS_EmptySet DEF Init, ReservedBeforeSent
<1> QED
  BY <1>1, TypeCorrect, ReservedStep, PTL DEF Spec

\* So no month is ever charged more requests than the limit.
THEOREM SentWithinLimit == Spec => [](\A m \in Months : sentFor[m] <= Limit)
<1>1. TypeOK /\ ReservedBeforeSent => \A m \in Months : sentFor[m] <= Limit
  BY HoldingFinite DEF TypeOK, ReservedBeforeSent
<1> QED
  BY <1>1, TypeCorrect, QuotaHolds, PTL
-----------------------------------------------------------------------------
(***************************************************************************)
(* The calendar month.  A caller that is still on its way with the period  *)
(* of an earlier month is a straggler; in the month m it can send once,    *)
(* and then computes a period anew.                                        *)
(***************************************************************************)
Stragglers(m) == {c \in Callers : stage[c] # "idle" /\ period[c] < m}

NeverAhead == \A c \in Callers : stage[c] # "idle" => period[c] <= month

FutureIsQuiet == \A m \in Months : m > month => sentIn[m] = 0

StragglersCovered ==
    \A m \in Months :
        sentIn[m] + Cardinality(Stragglers(m)) <= sentFor[m] + Cardinality(Callers)

CalendarInv == NeverAhead /\ FutureIsQuiet /\ StragglersCovered

\* Sizes of the sets of stragglers.
LEMMA StragglersFinite ==
    /\ Cardinality(Callers) \in Nat
    /\ \A m \in Months : /\ IsFiniteSet(Stragglers(m))
                         /\ Cardinality(Stragglers(m)) \in Nat
                         /\ Cardinality(Stragglers(m)) <= Cardinality(Callers)
<1>1. \A m \in Months : Stragglers(m) \subseteq Callers
  BY DEF Stragglers
<1> QED
  BY <1>1, FS_Subset, FS_CardinalityType

LEMMA FewerStragglers ==
    ASSUME NEW m \in Months, Stragglers(m)' \subseteq Stragglers(m)
    PROVE  /\ Cardinality(Stragglers(m)') \in Nat
           /\ Cardinality(Stragglers(m)') <= Cardinality(Stragglers(m))
  BY StragglersFinite, FS_Subset, FS_CardinalityType

\* A step that sends nothing and makes no straggler of the past keeps the cover.
LEMMA CoverKept ==
    ASSUME TypeOK, CalendarInv, sentIn' = sentIn, sentFor' = sentFor, NEW m \in Months,
           Stragglers(m)' \subseteq Stragglers(m)
    PROVE  sentIn'[m] + Cardinality(Stragglers(m)') <= sentFor'[m] + Cardinality(Callers)
<1>1. sentIn[m] + Cardinality(Stragglers(m)) <= sentFor[m] + Cardinality(Callers)
  BY DEF CalendarInv, StragglersCovered
<1>2. sentIn[m] \in Nat /\ sentFor[m] \in Nat
  BY DEF TypeOK
<1> QED
  BY <1>1, <1>2, FewerStragglers, StragglersFinite

LEMMA CalendarStep == TypeOK /\ CalendarInv /\ [Next]_vars => CalendarInv'
<1> SUFFICES ASSUME TypeOK, CalendarInv, [Next]_vars PROVE CalendarInv'
  OBVIOUS
<1>1. month \in Nat /\ \A m \in Months : m \in Nat
  BY DEF TypeOK, Months
<1>2. ASSUME NEW c \in Callers, Begin(c) PROVE CalendarInv'
  <2>1. /\ stage' = [stage EXCEPT ![c] = "reserve"] /\ period' = [period EXCEPT ![c] = month]
        /\ month' = month /\ sentIn' = sentIn /\ sentFor' = sentFor
    BY <1>2 DEF Begin, Move
  <2>2. NeverAhead' /\ FutureIsQuiet'
    BY <1>1, <2>1 DEF CalendarInv, NeverAhead, FutureIsQuiet, TypeOK
  <2>3. ASSUME NEW m \in Months
        PROVE  sentIn'[m] + Cardinality(Stragglers(m)') <= sentFor'[m] + Cardinality(Callers)
    <3>1. CASE m > month
      <4>1. sentIn'[m] = 0 /\ sentFor'[m] \in Nat
        BY <2>1, <3>1 DEF CalendarInv, FutureIsQuiet, TypeOK
      <4>2. Stragglers(m)' \subseteq Callers
        BY DEF Stragglers
      <4>3. /\ Cardinality(Stragglers(m)') \in Nat
            /\ Cardinality(Stragglers(m)') <= Cardinality(Callers)
        BY <4>2, FS_Subset, FS_CardinalityType
      <4> QED
        BY <4>1, <4>3, StragglersFinite
    <3>2. CASE ~(m > month)
      <4>1. Stragglers(m)' \subseteq Stragglers(m)
        BY <1>1, <2>1, <3>2 DEF Stragglers, TypeOK
      <4> QED
        BY <2>1, <4>1, CoverKept
    <3> QED
      BY <3>1, <3>2
  <2> QED
    BY <2>2, <2>3 DEF CalendarInv, StragglersCovered
<1>3. ASSUME NEW c \in Callers, Reserve(c) \/ Denied(c) \/ ReserveFails(c) \/ Refuse(c) \/ Crash(c)
      PROVE  CalendarInv'
  <2>1. /\ UNCHANGED <<month, period, sentIn, sentFor>> /\ stage[c] # "idle"
        /\ \E s \in Stages : stage' = [stage EXCEPT ![c] = s]
    BY <1>3 DEF Reserve, Denied, ReserveFails, Refuse, Crash, Move, Stages
  <2>2. NeverAhead' /\ FutureIsQuiet'
    BY <2>1 DEF CalendarInv, NeverAhead, FutureIsQuiet, TypeOK
  <2>3. \A m \in Months : Stragglers(m)' \subseteq Stragglers(m)
    BY <2>1 DEF Stragglers, TypeOK
  <2> QED
    BY <2>1, <2>2, <2>3, CoverKept DEF CalendarInv, StragglersCovered
<1>4. ASSUME NEW c \in Callers, Send(c) PROVE CalendarInv'
  <2>1. /\ stage[c] = "allowed" /\ stage' = [stage EXCEPT ![c] = "idle"]
        /\ month' = month /\ period' = period
        /\ sentFor' = [sentFor EXCEPT ![period[c]] = sentFor[period[c]] + 1]
        /\ sentIn' = [sentIn EXCEPT ![month] = sentIn[month] + 1]
    BY <1>4 DEF Send, Move
  <2>2. period[c] \in Months /\ month \in Months /\ period[c] <= month
    BY <2>1 DEF CalendarInv, NeverAhead, TypeOK
  <2>3. NeverAhead' /\ FutureIsQuiet'
    BY <1>1, <2>1, <2>2 DEF CalendarInv, NeverAhead, FutureIsQuiet, TypeOK
  <2>4. ASSUME NEW m \in Months
        PROVE  sentIn'[m] + Cardinality(Stragglers(m)') <= sentFor'[m] + Cardinality(Callers)
    <3>1. /\ sentIn[m] + Cardinality(Stragglers(m)) <= sentFor[m] + Cardinality(Callers)
          /\ sentIn[m] \in Nat /\ sentFor[m] \in Nat
      BY DEF CalendarInv, StragglersCovered, TypeOK
    <3>2. Stragglers(m)' = Stragglers(m) \ {c}
      BY <2>1 DEF Stragglers, TypeOK
    <3>3. /\ Cardinality(Stragglers(m)') \in Nat
          /\ Cardinality(Stragglers(m)') <= Cardinality(Stragglers(m))
      BY <3>2, FewerStragglers
    <3>4. CASE m # month
      <4>1. sentIn'[m] = sentIn[m] /\ sentFor'[m] \in Nat /\ sentFor[m] <= sentFor'[m]
        BY <2>1, <2>2, <3>1, <3>4 DEF TypeOK
      <4> QED
        BY <3>1, <3>3, <4>1, StragglersFinite
    <3>5. CASE m = month /\ period[c] = m
      <4>1. sentIn'[m] = sentIn[m] + 1 /\ sentFor'[m] = sentFor[m] + 1
        BY <2>1, <2>2, <3>5 DEF TypeOK
      <4> QED
        BY <3>1, <3>3, <4>1, StragglersFinite
    <3>6. CASE m = month /\ period[c] # m
      <4>1. sentIn'[m] = sentIn[m] + 1 /\ sentFor'[m] = sentFor[m]
        BY <2>1, <2>2, <3>6 DEF TypeOK
      <4>2. c \in Stragglers(m)
        <5>1. period[c] \in Nat /\ month \in Nat
          BY <1>1, <2>2
        <5>2. period[c] < m
          BY <2>2, <3>6, <5>1
        <5>3. stage[c] # "idle"
          BY <2>1
        <5> QED
          BY <5>2, <5>3 DEF Stragglers
      <4>3. Cardinality(Stragglers(m)') = Cardinality(Stragglers(m)) - 1
        BY <3>2, <4>2, StragglersFinite, FS_RemoveElement
      <4> QED
        BY <3>1, <3>3, <4>1, <4>3, StragglersFinite
    <3> QED
      BY <3>4, <3>5, <3>6
  <2> QED
    BY <2>3, <2>4 DEF CalendarInv, StragglersCovered
<1>5. CASE NextMonth
  <2>1. month' = month + 1 /\ UNCHANGED <<stage, period, sentFor, sentIn>>
    BY <1>5 DEF NextMonth
  <2>2. NeverAhead' /\ FutureIsQuiet'
    BY <1>1, <2>1 DEF CalendarInv, NeverAhead, FutureIsQuiet, TypeOK, Months
  <2>3. \A m \in Months : Stragglers(m)' \subseteq Stragglers(m)
    BY <2>1 DEF Stragglers
  <2> QED
    BY <2>1, <2>2, <2>3, CoverKept DEF CalendarInv, StragglersCovered
<1>6. CASE UNCHANGED vars
  BY <1>6 DEF vars, CalendarInv, NeverAhead, FutureIsQuiet, StragglersCovered, Stragglers
<1> QED
  BY <1>2, <1>3, <1>4, <1>5, <1>6 DEF Next, CallerStep

\* A calendar month sees at most the limit and one request of every caller that
\* crossed its beginning.
THEOREM MonthsAreBounded == Spec => []OvershootBounded
<1>1. Init => CalendarInv
  <2> SUFFICES ASSUME Init PROVE CalendarInv
    OBVIOUS
  <2>1. NeverAhead /\ FutureIsQuiet
    BY DEF Init, NeverAhead, FutureIsQuiet
  <2>2. \A m \in Months : sentIn[m] = 0 /\ sentFor[m] = 0
    BY DEF Init
  <2>3. StragglersCovered
    BY <2>2, StragglersFinite DEF StragglersCovered
  <2> QED
    BY <2>1, <2>3 DEF CalendarInv
<1>2. TypeOK /\ ReservedBeforeSent /\ CalendarInv => OvershootBounded
  <2> SUFFICES ASSUME TypeOK, ReservedBeforeSent, CalendarInv, NEW m \in Months
               PROVE  sentIn[m] <= Limit + Cardinality(Callers)
    BY DEF OvershootBounded
  <2>1. /\ sentIn[m] \in Nat /\ sentFor[m] \in Nat
        /\ sentIn[m] + Cardinality(Stragglers(m)) <= sentFor[m] + Cardinality(Callers)
    BY DEF TypeOK, CalendarInv, StragglersCovered
  <2>2. sentFor[m] <= Limit
    BY HoldingFinite DEF TypeOK, ReservedBeforeSent
  <2> QED
    BY <2>1, <2>2, StragglersFinite
<1> QED
  BY <1>1, <1>2, TypeCorrect, QuotaHolds, CalendarStep, PTL DEF Spec
=============================================================================
