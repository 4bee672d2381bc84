-------------------------- MODULE RateLimiter_proof --------------------------
(***************************************************************************)
(* Proofs about RateLimiter, for any clients, requests, capacities, rates  *)
(* and intervals, whether or not a bucket refills before it is forgotten.  *)
(***************************************************************************)
EXTENDS RateLimiter, FiniteSetTheorems, TLAPS

(***************************************************************************)
(* The inductive invariant.  A client without a place would get a full     *)
(* bucket; a visitor's bucket is full or has gained its rate for as long   *)
(* as it has rested; the client of a request that has taken its bucket was *)
(* seen within a pause; and between cleanups no visitor is older than they *)
(* allow.                                                                  *)
(***************************************************************************)
FullWhenNew == \A c \in Clients \ visitors : credit[c] = ClientBurst

Refilled ==
    \A v \in visitors : credit[v] = ClientBurst \/ ClientRate * Rested(v) <= credit[v]

SeenLately ==
    \A r \in Requests : req[r].stage = "own" =>
        req[r].client \in visitors /\ age[req[r].client] <= Pause

RecentlyCleaned ==
    sinceCleanup <= CleanupEvery =>
        \A v \in visitors : age[v] <= ClientTTL + sinceCleanup

LimiterInv ==
    LimiterTypeOK /\ FullWhenNew /\ Refilled /\ SeenLately /\ RecentlyCleaned

\* The configuration.
LEMMA Configuration ==
    /\ MaxClients \in Nat \ {0} /\ ClientTTL \in Nat \ {0} /\ CleanupEvery \in Nat \ {0}
    /\ ClientBurst \in Nat \ {0} /\ ClientRate \in Nat \ {0}
    /\ GlobalBurst \in Nat \ {0} /\ GlobalRate \in Nat \ {0} /\ Window \in Nat \ {0}
    /\ AgeCap \in Nat /\ Pause \in Nat /\ Pause < ClientTTL
    /\ Watched \in Clients
    /\ IsFiniteSet(Clients)
  BY LimiterAssumption DEF AgeCap

\* Products of natural numbers.
LEMMA Products ==
    ASSUME NEW n \in Nat, NEW a \in Nat, NEW b \in Nat
    PROVE  /\ n * a \in Nat
           /\ n * 0 = 0
           /\ n * (a + 1) = n * a + n
           /\ a <= b => n * a <= n * b
  BY SMTT(30)

\* What the client's own bucket gains: its rate at least, and a burst in the
\* time between its last use and its being forgotten.
LEMMA GainCoversBurst ==
    /\ OwnGain \in Nat /\ ClientRate <= OwnGain /\ OwnGain - ClientRate \in Nat
    /\ ClientBurst <= OwnGain * (ClientTTL - Pause)
<1> DEFINE wait == ClientTTL - Pause
           burst == (ClientBurst + wait - 1) \div wait
<1>1. wait \in Nat \ {0} /\ ClientBurst \in Nat /\ ClientRate \in Nat
  BY Configuration
<1>2. burst \in Nat /\ burst * wait >= ClientBurst
  BY <1>1, SMTT(30)
<1>3. OwnGain = IF burst < ClientRate THEN ClientRate ELSE burst
  BY DEF OwnGain, AtLeast
<1> HIDE DEF wait, burst
<1>4. OwnGain \in Nat /\ ClientRate <= OwnGain /\ burst <= OwnGain
  BY <1>1, <1>2, <1>3
<1>5. burst * wait <= OwnGain * wait
  BY <1>1, <1>2, <1>4, SMTT(30)
<1>6. OwnGain * wait \in Nat /\ burst * wait \in Nat
  BY <1>1, <1>2, <1>4, Products
<1>7. ClientBurst <= OwnGain * wait
  BY <1>1, <1>2, <1>5, <1>6
<1> QED
  BY <1>1, <1>4, <1>7 DEF wait

\* The rate and what being forgotten adds to it make up the gain.
LEMMA GainIsSum ==
    ASSUME NEW n \in Nat
    PROVE  ClientRate * n + (OwnGain - ClientRate) * n = OwnGain * n
  BY GainCoversBurst, Configuration, SMTT(30)

LEMMA EntitledType ==
    ASSUME LimiterTypeOK, NEW c \in Clients
    PROVE  /\ Rested(c) \in Nat /\ (OwnGain - ClientRate) * Rested(c) \in Nat
           /\ credit[c] \in 0 .. ClientBurst /\ credit[c] \in Nat
           /\ Entitled(c) \in 0 .. ClientBurst /\ Entitled(c) \in Nat
           /\ credit[c] <= Entitled(c)
           /\ credit[c] = ClientBurst => Entitled(c) = ClientBurst
           /\ Rested(c) = 0 => Entitled(c) = credit[c]
<1>1. age[c] \in Nat /\ credit[c] \in 0 .. ClientBurst /\ Pause \in Nat /\ ClientBurst \in Nat
  BY Configuration DEF LimiterTypeOK
<1>2. Rested(c) \in Nat
  BY <1>1 DEF Rested
<1>3. /\ (OwnGain - ClientRate) * Rested(c) \in Nat
      /\ (OwnGain - ClientRate) * 0 = 0
  BY <1>2, GainCoversBurst, Products
<1> QED
  BY <1>1, <1>2, <1>3 DEF Entitled, AtMost

\* And after a step.
LEMMA EntitledTypeAfter ==
    ASSUME LimiterTypeOK', NEW c \in Clients
    PROVE  /\ Rested(c)' \in Nat /\ credit'[c] \in 0 .. ClientBurst
           /\ Entitled(c)' \in 0 .. ClientBurst /\ Entitled(c)' \in Nat
           /\ Rested(c)' = 0 => Entitled(c)' = credit'[c]
<1>1. /\ age'[c] \in Nat /\ credit'[c] \in 0 .. ClientBurst /\ Pause \in Nat
      /\ ClientBurst \in Nat
  BY Configuration DEF LimiterTypeOK
<1>2. Rested(c)' \in Nat
  BY <1>1 DEF Rested
<1>3. /\ (OwnGain - ClientRate) * Rested(c)' \in Nat
      /\ (OwnGain - ClientRate) * 0 = 0
  BY <1>2, GainCoversBurst, Products
<1> QED
  BY <1>1, <1>2, <1>3 DEF Entitled, AtMost

\* Whoever is forgotten can count on a full bucket.
LEMMA StaleIsEntitled ==
    ASSUME LimiterInv, NEW v \in Stale
    PROVE  Entitled(v) = ClientBurst
<1>1. v \in visitors /\ v \in Clients /\ age[v] > ClientTTL /\ age[v] \in Nat
  BY Configuration DEF Stale, LimiterInv, LimiterTypeOK
<1>2. Rested(v) \in Nat /\ ClientTTL - Pause <= Rested(v) /\ ClientTTL - Pause \in Nat
  BY <1>1, Configuration DEF Rested
<1>3. /\ ClientBurst <= OwnGain * (ClientTTL - Pause)
      /\ OwnGain * (ClientTTL - Pause) <= OwnGain * Rested(v)
      /\ OwnGain * (ClientTTL - Pause) \in Nat /\ OwnGain * Rested(v) \in Nat
  BY <1>2, GainCoversBurst, Products
<1>4. ClientBurst <= ClientRate * Rested(v) + (OwnGain - ClientRate) * Rested(v)
  BY <1>2, <1>3, GainIsSum, Configuration
<1>5. ClientRate * Rested(v) \in Nat
  BY <1>2, Products, Configuration
<1>6. CASE ClientRate * Rested(v) <= credit[v]
  <2>1. ClientBurst <= credit[v] + (OwnGain - ClientRate) * Rested(v)
    BY <1>1, <1>4, <1>5, <1>6, EntitledType, Configuration DEF LimiterInv
  <2> QED
    BY <1>1, <2>1, EntitledType, Configuration DEF Entitled, AtMost, LimiterInv
<1> QED
  BY <1>1, <1>6, EntitledType DEF LimiterInv, Refilled

\* The number of visitors that are kept, and of them with one more.
LEMMA KeptSize ==
    ASSUME LimiterInv, NEW c \in Clients, HasBucket(c)
    PROVE  /\ Cardinality(Kept \cup {c}) <= MaxClients
           /\ Cardinality(Kept) <= MaxClients
<1>1. IsFiniteSet(visitors) /\ IsFiniteSet(Kept) /\ Kept \subseteq visitors
  BY Configuration, FS_Subset DEF Kept, LimiterInv, LimiterTypeOK
<1>2. Cardinality(Kept) \in Nat /\ Cardinality(visitors) \in Nat
  BY <1>1, FS_CardinalityType
<1>3. Cardinality(Kept) <= Cardinality(visitors) /\ Cardinality(visitors) <= MaxClients
  BY <1>1, FS_Subset DEF LimiterInv, LimiterTypeOK
<1>4. CASE c \in Kept
  <2>1. Kept \cup {c} = Kept
    BY <1>4
  <2> QED
    BY <1>2, <1>3, <2>1, Configuration
<1>5. CASE c \notin Kept
  <2>1. Cardinality(Kept \cup {c}) = Cardinality(Kept) + 1
    BY <1>1, <1>5, FS_AddElement
  <2>2. Cardinality(Kept) < MaxClients
    BY <1>5 DEF HasBucket
  <2> QED
    BY <1>2, <2>1, <2>2, Configuration
<1> QED
  BY <1>4, <1>5

LEMMA OverflowSize ==
    ASSUME LimiterInv, NEW c \in Clients, ~HasBucket(c)
    PROVE  Cardinality(Kept) = MaxClients
<1>1. IsFiniteSet(visitors) /\ IsFiniteSet(Kept) /\ Kept \subseteq visitors
  BY Configuration, FS_Subset DEF Kept, LimiterInv, LimiterTypeOK
<1>2. Cardinality(Kept) \in Nat /\ Cardinality(visitors) \in Nat
  BY <1>1, FS_CardinalityType
<1>3. Cardinality(Kept) <= Cardinality(visitors) /\ Cardinality(visitors) <= MaxClients
  BY <1>1, FS_Subset DEF LimiterInv, LimiterTypeOK
<1> QED
  BY <1>2, <1>3, Configuration DEF HasBucket

\* What clientLimiter leaves in the table, whoever it was called for.
LEMMA TableAfter ==
    ASSUME LimiterInv, NEW r \in Requests, ClientLimiter(r)
    PROVE  /\ req[r].client \in Clients
           /\ visitors' \subseteq Clients /\ Cardinality(visitors') <= MaxClients
           /\ Kept \subseteq visitors' /\ visitors' \subseteq Kept \cup {req[r].client}
           /\ age' \in [Clients -> 0 .. AgeCap]
           /\ \A v \in Kept : age'[v] \in {0, age[v]}
           /\ req[r].client \in visitors' => age'[req[r].client] \in {0, age[req[r].client]}
           /\ req[r].client \notin Kept => age'[req[r].client] = 0
<1>1. req[r].client \in Clients /\ Kept \subseteq visitors /\ visitors \subseteq Clients
  BY DEF LimiterInv, LimiterTypeOK, Kept
<1>2. age \in [Clients -> 0 .. AgeCap] /\ 0 \in 0 .. AgeCap
  BY Configuration DEF LimiterInv, LimiterTypeOK
<1>3. CASE HasBucket(req[r].client)
  <2>1. visitors' = Kept \cup {req[r].client} /\ age' = Seen(req[r].client)
    BY <1>3 DEF ClientLimiter
  <2>2. Cardinality(visitors') <= MaxClients
    BY <1>1, <1>3, <2>1, KeptSize
  <2> QED
    BY <1>1, <1>2, <2>1, <2>2 DEF Seen
<1>4. CASE ~HasBucket(req[r].client)
  <2>1. /\ visitors' = Kept
        /\ age' = [v \in Clients |-> IF v \in Kept THEN age[v] ELSE 0]
    BY <1>4 DEF ClientLimiter
  <2>2. Cardinality(visitors') <= MaxClients
    BY <1>1, <1>4, <2>1, OverflowSize, Configuration
  <2> QED
    BY <1>1, <1>2, <2>1, <2>2
<1> QED
  BY <1>3, <1>4
-----------------------------------------------------------------------------
(***************************************************************************)
(* One lemma per action.                                                   *)
(***************************************************************************)
LEMMA GlobalAllowKeeps ==
    ASSUME LimiterInv, NEW r \in Requests, NEW c \in Clients, GlobalAllow(r, c)
    PROVE  LimiterInv'
<1> USE DEF LimiterInv
<1>1. LimiterTypeOK'
  BY Configuration DEF GlobalAllow, LimiterTypeOK, Stages
<1>2. SeenLately'
  BY DEF GlobalAllow, SeenLately, LimiterTypeOK
<1>3. FullWhenNew' /\ Refilled' /\ RecentlyCleaned'
  BY DEF GlobalAllow, FullWhenNew, Refilled, Rested, RecentlyCleaned
<1> QED
  BY <1>1, <1>2, <1>3

LEMMA ClientLimiterKeeps ==
    ASSUME LimiterInv, NEW r \in Requests, ClientLimiter(r)
    PROVE  LimiterInv'
<1> DEFINE c == req[r].client
<1>1. credit' = [v \in Clients |-> IF v \in Kept THEN credit[v] ELSE ClientBurst]
  BY DEF ClientLimiter
<1>2. UNCHANGED <<global, overflow, elapsed, fromOwn, fromOverflow>>
  BY DEF ClientLimiter
<1>3. PICK stage \in {"own", "overflow"} :
         /\ req' = [req EXCEPT ![r].stage = stage]
         /\ stage = "own" => c \in visitors' /\ age'[c] = 0
  <2>1. CASE HasBucket(c)
    BY <2>1, TableAfter DEF ClientLimiter, Seen
  <2>2. CASE ~HasBucket(c)
    BY <2>2 DEF ClientLimiter
  <2> QED
    BY <2>1, <2>2
<1>4. sinceCleanup \in Nat /\ sinceCleanup' = IF Due THEN 0 ELSE sinceCleanup
  BY Configuration DEF ClientLimiter, LimiterInv, LimiterTypeOK
<1>5. LimiterTypeOK'
  <2>1. req' \in [Requests -> [stage : Stages, client : Clients]]
    BY <1>3 DEF LimiterInv, LimiterTypeOK, Stages
  <2>2. sinceCleanup' \in 0 .. CleanupEvery + 1
    BY <1>4, Configuration DEF LimiterInv, LimiterTypeOK
  <2>3. credit' \in [Clients -> 0 .. ClientBurst]
    BY <1>1, Configuration DEF LimiterInv, LimiterTypeOK
  <2> QED
    BY <1>2, <2>1, <2>2, <2>3, TableAfter DEF LimiterInv, LimiterTypeOK
<1>6. FullWhenNew'
  BY <1>1, TableAfter DEF FullWhenNew
<1>7. Refilled'
  <2> SUFFICES ASSUME NEW v \in visitors', v \in Kept
               PROVE  credit'[v] = ClientBurst \/ ClientRate * Rested(v)' <= credit'[v]
    BY <1>1, TableAfter DEF Refilled
  <2>1. v \in Clients /\ v \in visitors /\ credit'[v] = credit[v] /\ age'[v] \in {0, age[v]}
    BY <1>1, TableAfter DEF Kept
  <2>2. credit[v] = ClientBurst \/ ClientRate * Rested(v) <= credit[v]
    BY <2>1 DEF LimiterInv, Refilled
  <2>3. Rested(v)' \in {0, Rested(v)}
    BY <2>1, Configuration DEF Rested
  <2>4. ClientRate * 0 = 0 /\ credit[v] \in Nat
    BY <2>1, Products, Configuration, EntitledType DEF LimiterInv
  <2> QED
    BY <2>1, <2>2, <2>3, <2>4
<1>8. SeenLately'
  <2> SUFFICES ASSUME NEW q \in Requests, req'[q].stage = "own"
               PROVE  req'[q].client \in visitors' /\ age'[req'[q].client] <= Pause
    BY DEF SeenLately
  <2>1. CASE q = r
    <3>1. req'[q].client = c /\ c \in visitors' /\ age'[c] = 0
      BY <1>3, <2>1 DEF LimiterInv, LimiterTypeOK
    <3> QED
      BY <3>1, Configuration
  <2>2. CASE q # r
    <3>1. req'[q] = req[q] /\ req[q].client \in visitors /\ age[req[q].client] <= Pause
      BY <1>3, <2>2 DEF LimiterInv, LimiterTypeOK, SeenLately
    <3>2. age[req[q].client] \in Nat
      BY <3>1, Configuration DEF LimiterInv, LimiterTypeOK
    <3>3. req[q].client \in Kept
      BY <3>1, <3>2, Configuration DEF Kept, Stale
    <3>4. age'[req[q].client] \in {0, age[req[q].client]}
      BY <3>3, TableAfter
    <3> QED
      BY <3>1, <3>2, <3>3, <3>4, TableAfter, Configuration
  <2> QED
    BY <2>1, <2>2
<1>9. RecentlyCleaned'
  <2>1. sinceCleanup' \in Nat /\ 0 <= ClientTTL + sinceCleanup'
    BY <1>4, Configuration
  <2> SUFFICES ASSUME sinceCleanup' <= CleanupEvery, NEW v \in visitors'
               PROVE  age'[v] <= ClientTTL + sinceCleanup'
    BY DEF RecentlyCleaned
  <2>2. CASE age'[v] = 0
    BY <2>1, <2>2
  <2>3. CASE age'[v] # 0
    <3>1. v \in Kept /\ age'[v] = age[v] /\ age[v] \in Nat
      BY <2>3, TableAfter, Configuration DEF LimiterInv, LimiterTypeOK
    <3>2. CASE Due
      <4>1. ~(age[v] > ClientTTL)
        BY <3>1, <3>2 DEF Kept, Stale
      <4> QED
        BY <1>4, <3>1, <3>2, <4>1, Configuration
    <3>3. CASE ~Due
      <4>1. sinceCleanup <= CleanupEvery /\ sinceCleanup' = sinceCleanup
        BY <1>4, <3>3, Configuration DEF Due
      <4>2. v \in visitors
        BY <3>1 DEF Kept
      <4> QED
        BY <3>1, <4>1, <4>2 DEF LimiterInv, RecentlyCleaned
    <3> QED
      BY <3>2, <3>3
  <2> QED
    BY <2>2, <2>3
<1> QED
  BY <1>5, <1>6, <1>7, <1>8, <1>9 DEF LimiterInv

LEMMA AllowOwnKeeps ==
    ASSUME LimiterInv, NEW r \in Requests, AllowOwn(r)
    PROVE  LimiterInv'
<1> DEFINE c == req[r].client
<1>1. c \in visitors /\ c \in Clients /\ age[c] <= Pause /\ age[c] \in 0 .. AgeCap
  BY DEF AllowOwn, LimiterInv, LimiterTypeOK, SeenLately
<1>2. /\ req' = [req EXCEPT ![r] = NoRequest]
      /\ UNCHANGED <<global, overflow, visitors, age, sinceCleanup, elapsed, fromOverflow>>
  BY DEF AllowOwn
<1>3. \/ UNCHANGED <<credit, fromOwn>>
      \/ /\ credit[c] > 0
         /\ credit' = [credit EXCEPT ![c] = credit[c] - 1]
         /\ fromOwn' = fromOwn + Counted(c)
  BY DEF AllowOwn
<1>4. credit \in [Clients -> 0 .. ClientBurst] /\ fromOwn \in Nat
  BY DEF LimiterInv, LimiterTypeOK
<1>5. credit' \in [Clients -> 0 .. ClientBurst] /\ fromOwn' \in Nat
  BY <1>1, <1>3, <1>4, Configuration DEF Counted
<1>6. LimiterTypeOK'
  <2>1. req' \in [Requests -> [stage : Stages, client : Clients]]
    BY <1>2, Configuration DEF LimiterInv, LimiterTypeOK, Stages, NoRequest
  <2> QED
    BY <1>2, <1>5, <2>1 DEF LimiterInv, LimiterTypeOK
<1>7. FullWhenNew'
  BY <1>1, <1>2, <1>3, <1>4 DEF LimiterInv, FullWhenNew
<1>8. Refilled'
  <2> SUFFICES ASSUME NEW v \in visitors
               PROVE  credit'[v] = ClientBurst \/ ClientRate * Rested(v) <= credit'[v]
    BY <1>2 DEF Refilled, Rested
  <2>1. CASE v = c
    <3>1. Rested(v) = 0 /\ ClientRate * 0 = 0 /\ credit'[v] \in Nat
      BY <1>1, <1>5, <2>1, Products, Configuration DEF Rested
    <3> QED
      BY <3>1
  <2>2. CASE v # c
    BY <1>3, <2>2 DEF LimiterInv, LimiterTypeOK, Refilled
  <2> QED
    BY <2>1, <2>2
<1>9. SeenLately'
  BY <1>2 DEF LimiterInv, LimiterTypeOK, SeenLately, NoRequest
<1>10. RecentlyCleaned'
  BY <1>2 DEF LimiterInv, RecentlyCleaned
<1> QED
  BY <1>6, <1>7, <1>8, <1>9, <1>10 DEF LimiterInv

LEMMA AllowOverflowKeeps ==
    ASSUME LimiterInv, NEW r \in Requests, AllowOverflow(r)
    PROVE  LimiterInv'
<1>1. /\ req' = [req EXCEPT ![r] = NoRequest]
      /\ UNCHANGED <<global, visitors, credit, age, sinceCleanup, elapsed, fromOwn>>
  BY DEF AllowOverflow
<1>2. overflow \in Nat /\ overflow <= ClientBurst /\ fromOverflow \in Nat
  BY Configuration DEF LimiterInv, LimiterTypeOK
<1>3. overflow' \in Nat /\ overflow' <= overflow /\ fromOverflow' \in Nat
  BY <1>2 DEF AllowOverflow, Counted
<1>4. LimiterTypeOK'
  <2>1. req' \in [Requests -> [stage : Stages, client : Clients]]
    BY <1>1, Configuration DEF LimiterInv, LimiterTypeOK, Stages, NoRequest
  <2>2. overflow' \in 0 .. ClientBurst
    BY <1>2, <1>3, Configuration
  <2> QED
    BY <1>1, <1>3, <2>1, <2>2 DEF LimiterInv, LimiterTypeOK
<1>5. SeenLately'
  BY <1>1 DEF LimiterInv, LimiterTypeOK, SeenLately, NoRequest
<1>6. FullWhenNew' /\ Refilled' /\ RecentlyCleaned'
  BY <1>1 DEF LimiterInv, FullWhenNew, Refilled, Rested, RecentlyCleaned
<1> QED
  BY <1>4, <1>5, <1>6 DEF LimiterInv

LEMMA TickKeeps ==
    ASSUME LimiterInv, Tick
    PROVE  LimiterInv'
<1>1. /\ elapsed < Window /\ elapsed' = elapsed + 1
      /\ \A r \in Requests : req[r].stage = "own" => age[req[r].client] < Pause
      /\ UNCHANGED <<visitors, req, fromOwn, fromOverflow>>
  BY DEF Tick
<1>2. /\ overflow \in 0 .. ClientBurst /\ elapsed \in 0 .. Window
      /\ fromOwn \in Nat /\ fromOverflow \in Nat /\ sinceCleanup \in 0 .. CleanupEvery + 1
      /\ \A c \in Clients : credit[c] \in 0 .. ClientBurst /\ age[c] \in 0 .. AgeCap
  BY DEF LimiterInv, LimiterTypeOK
<1>3. /\ overflow' \in 0 .. ClientBurst /\ overflow' <= overflow + ClientRate
      /\ global' \in 0 .. GlobalBurst
      /\ sinceCleanup' \in 0 .. CleanupEvery + 1
      /\ sinceCleanup' <= CleanupEvery => sinceCleanup' = sinceCleanup + 1
  BY <1>2, Configuration DEF Tick, AtMost, LimiterInv, LimiterTypeOK
<1>4. /\ credit' = [c \in Clients |-> AtMost(ClientBurst, credit[c] + ClientRate)]
      /\ age' = [c \in Clients |-> IF c \in visitors THEN AtMost(AgeCap, age[c] + 1) ELSE 0]
  BY DEF Tick
<1>5. \A c \in Clients :
         /\ credit'[c] \in 0 .. ClientBurst
         /\ credit'[c] <= credit[c] + ClientRate
         /\ credit[c] = ClientBurst => credit'[c] = ClientBurst
         /\ credit'[c] = ClientBurst \/ credit'[c] = credit[c] + ClientRate
         /\ age'[c] \in 0 .. AgeCap
         /\ age'[c] <= age[c] + 1
  BY <1>2, <1>4, Configuration DEF AtMost
<1>6. \A c \in Clients : Rested(c) \in Nat /\ Rested(c)' \in Nat /\ Rested(c)' <= Rested(c) + 1
  BY <1>2, <1>5, Configuration DEF Rested
<1>7. LimiterTypeOK'
  <2>1. credit' \in [Clients -> 0 .. ClientBurst] /\ age' \in [Clients -> 0 .. AgeCap]
    BY <1>4, <1>5
  <2>2. elapsed' \in 0 .. Window
    BY <1>1, <1>2, Configuration
  <2> QED
    BY <1>1, <1>3, <2>1, <2>2 DEF LimiterInv, LimiterTypeOK
<1>8. FullWhenNew'
  BY <1>1, <1>5 DEF LimiterInv, FullWhenNew
<1>9. Refilled'
  <2> SUFFICES ASSUME NEW v \in visitors, credit'[v] # ClientBurst
               PROVE  ClientRate * Rested(v)' <= credit'[v]
    BY <1>1 DEF Refilled
  <2>1. v \in Clients
    BY DEF LimiterInv, LimiterTypeOK
  <2>2. credit'[v] = credit[v] + ClientRate /\ ClientRate * Rested(v) <= credit[v]
    BY <1>5, <2>1 DEF LimiterInv, Refilled
  <2>3. /\ Rested(v) \in Nat /\ Rested(v)' \in Nat /\ Rested(v)' <= Rested(v) + 1
        /\ credit[v] \in Nat /\ ClientRate \in Nat
    BY <1>2, <1>6, <2>1, Configuration
  <2>4. /\ ClientRate * Rested(v)' <= ClientRate * (Rested(v) + 1)
        /\ ClientRate * (Rested(v) + 1) = ClientRate * Rested(v) + ClientRate
        /\ ClientRate * Rested(v)' \in Nat /\ ClientRate * Rested(v) \in Nat
    BY <2>3, Products
  <2> QED
    BY <2>2, <2>3, <2>4
<1>10. SeenLately'
  <2> SUFFICES ASSUME NEW r \in Requests, req[r].stage = "own"
               PROVE  req[r].client \in visitors /\ age'[req[r].client] <= Pause
    BY <1>1 DEF SeenLately
  <2>1. req[r].client \in visitors /\ req[r].client \in Clients /\ age[req[r].client] < Pause
    BY <1>1 DEF LimiterInv, LimiterTypeOK, SeenLately
  <2>2. /\ age'[req[r].client] <= age[req[r].client] + 1
        /\ age'[req[r].client] \in Nat /\ age[req[r].client] \in Nat
    BY <1>2, <1>5, <2>1, Configuration
  <2> QED
    BY <2>1, <2>2, Configuration
<1>11. RecentlyCleaned'
  <2> SUFFICES ASSUME sinceCleanup' <= CleanupEvery, NEW v \in visitors
               PROVE  age'[v] <= ClientTTL + sinceCleanup'
    BY <1>1 DEF RecentlyCleaned
  <2>1. v \in Clients
    BY DEF LimiterInv, LimiterTypeOK
  <2>2. sinceCleanup' = sinceCleanup + 1 /\ sinceCleanup <= CleanupEvery
    BY <1>2, <1>3, Configuration
  <2>3. age[v] <= ClientTTL + sinceCleanup /\ age'[v] <= age[v] + 1
    BY <1>5, <2>1, <2>2 DEF LimiterInv, RecentlyCleaned
  <2>4. age[v] \in Nat /\ age'[v] \in Nat /\ sinceCleanup \in Nat
    BY <1>2, <1>5, <2>1, Configuration
  <2> QED
    BY <2>2, <2>3, <2>4, Configuration
<1> QED
  BY <1>7, <1>8, <1>9, <1>10, <1>11 DEF LimiterInv

LEMMA MarkKeeps ==
    ASSUME LimiterInv, Mark
    PROVE  LimiterInv'
  BY Configuration
  DEF Mark, LimiterInv, LimiterTypeOK, FullWhenNew, Refilled, Rested, SeenLately, RecentlyCleaned

LEMMA LimiterInitially ==
    ASSUME LimiterInit
    PROVE  LimiterInv
<1>1. Cardinality(visitors) <= MaxClients
  BY FS_EmptySet, Configuration DEF LimiterInit
<1>2. LimiterTypeOK
  BY <1>1, Configuration DEF LimiterInit, LimiterTypeOK, Stages, NoRequest
<1>3. FullWhenNew /\ Refilled /\ SeenLately /\ RecentlyCleaned
  BY DEF LimiterInit, FullWhenNew, Refilled, SeenLately, RecentlyCleaned, NoRequest
<1> QED
  BY <1>2, <1>3 DEF LimiterInv

LEMMA LimiterStep ==
    ASSUME LimiterInv, [LimiterNext]_limiterVars
    PROVE  LimiterInv'
<1>1. CASE UNCHANGED limiterVars
  BY <1>1 DEF limiterVars, LimiterInv, LimiterTypeOK, FullWhenNew, Refilled, Rested,
     SeenLately, RecentlyCleaned
<1> QED
  BY <1>1, GlobalAllowKeeps, ClientLimiterKeeps, AllowOwnKeeps, AllowOverflowKeeps, TickKeeps,
     MarkKeeps DEF LimiterNext
-----------------------------------------------------------------------------
(***************************************************************************)
(* The theorems.                                                           *)
(***************************************************************************)
THEOREM LimiterInvariant == LimiterSpec => []LimiterInv
  BY LimiterInitially, LimiterStep, PTL DEF LimiterSpec

\* Every variable has its type, and there are never more than MaxClients
\* visitors.
THEOREM LimiterTypes == LimiterSpec => []LimiterTypeOK
<1>1. LimiterInv => LimiterTypeOK
  BY DEF LimiterInv
<1> QED
  BY <1>1, LimiterInvariant, PTL

(***************************************************************************)
(* What the client can count on: it is spent by a request that is admitted *)
(* out of its own bucket, gains no more than the gain allows, and is not   *)
(* increased by anything else, least of all by being forgotten.            *)
(***************************************************************************)
LEMMA EntitledKept ==
    ASSUME LimiterInv, LimiterInv', NEW r \in Requests, ClientLimiter(r), NEW c \in Clients
    PROVE  Entitled(c)' <= Entitled(c)
<1>1. /\ Entitled(c) \in 0 .. ClientBurst /\ Entitled(c)' \in 0 .. ClientBurst
      /\ ClientBurst \in Nat
  BY EntitledType, EntitledTypeAfter, Configuration DEF LimiterInv
<1>2. CASE Entitled(c) = ClientBurst
  BY <1>1, <1>2
<1>3. CASE c \in Kept
  <2>1. credit'[c] = credit[c] /\ age'[c] \in {0, age[c]}
    BY <1>3, TableAfter DEF ClientLimiter
  <2>2. CASE age'[c] = age[c]
    BY <1>1, <2>1, <2>2 DEF Entitled, Rested
  <2>3. CASE age'[c] = 0
    <3>1. Rested(c)' = 0
      BY <2>3, Configuration DEF Rested
    <3>2. Entitled(c)' = credit'[c] /\ credit[c] <= Entitled(c)
      BY <3>1, EntitledType, EntitledTypeAfter DEF LimiterInv
    <3> QED
      BY <2>1, <3>2
  <2> QED
    BY <2>1, <2>2, <2>3
<1>4. CASE c \notin Kept /\ Entitled(c) # ClientBurst
  <2>1. c \in visitors
    BY <1>4, EntitledType DEF LimiterInv, FullWhenNew
  <2> QED
    BY <1>4, <2>1, StaleIsEntitled DEF Kept
<1> QED
  BY <1>2, <1>3, <1>4

LEMMA EntitledGains ==
    ASSUME LimiterInv, LimiterInv', Tick, NEW c \in Clients
    PROVE  Entitled(c)' <= Entitled(c) + OwnGain
<1> DEFINE extra == OwnGain - ClientRate
<1>0. /\ ClientRate \in Nat /\ OwnGain \in Nat /\ extra \in Nat /\ ClientBurst \in Nat
      /\ ClientRate + extra = OwnGain
  BY Configuration, GainCoversBurst
<1>1. /\ credit[c] \in 0 .. ClientBurst /\ credit'[c] \in Nat
      /\ credit'[c] <= credit[c] + ClientRate
  <2>1. credit'[c] = AtMost(ClientBurst, credit[c] + ClientRate)
    BY DEF Tick
  <2> QED
    BY <1>0, <2>1, EntitledType DEF LimiterInv, AtMost
<1>2. Rested(c) \in Nat /\ Rested(c)' \in Nat /\ Rested(c)' <= Rested(c) + 1
  <2>1. age[c] \in 0 .. AgeCap /\ age'[c] \in 0 .. AgeCap
    BY DEF LimiterInv, LimiterTypeOK
  <2>2. age'[c] <= age[c] + 1
    BY <2>1, Configuration DEF Tick, AtMost
  <2> QED
    BY <2>1, <2>2, Configuration DEF Rested
<1> HIDE DEF extra
<1>3. /\ extra * Rested(c)' <= extra * (Rested(c) + 1)
      /\ extra * (Rested(c) + 1) = extra * Rested(c) + extra
      /\ extra * Rested(c) \in Nat /\ extra * Rested(c)' \in Nat
  BY <1>0, <1>2, Products
<1>4. credit'[c] + extra * Rested(c)' <= (credit[c] + extra * Rested(c)) + OwnGain
  BY <1>0, <1>1, <1>3
<1>5. /\ Entitled(c) = AtMost(ClientBurst, credit[c] + extra * Rested(c))
      /\ Entitled(c)' = AtMost(ClientBurst, credit'[c] + extra * Rested(c)')
  BY DEF Entitled, extra
<1> QED
  BY <1>0, <1>1, <1>3, <1>4, <1>5 DEF AtMost

LEMMA EntitledSpent ==
    ASSUME LimiterInv, LimiterInv', NEW r \in Requests, AllowOwn(r), NEW c \in Clients
    PROVE  \/ Entitled(c)' = Entitled(c) /\ (c = req[r].client => fromOwn' = fromOwn)
           \/ /\ c = req[r].client /\ Entitled(c) > 0 /\ Entitled(c)' = Entitled(c) - 1
              /\ fromOwn' = fromOwn + Counted(c)
<1>1. age' = age /\ credit \in [Clients -> 0 .. ClientBurst]
  BY DEF AllowOwn, LimiterInv, LimiterTypeOK
<1>2. Rested(c)' = Rested(c)
  BY <1>1 DEF Rested
<1>3. CASE credit'[c] = credit[c] /\ (c = req[r].client => fromOwn' = fromOwn)
  BY <1>2, <1>3 DEF Entitled
<1>4. CASE /\ c = req[r].client /\ credit[c] > 0
           /\ credit' = [credit EXCEPT ![c] = @ - 1]
           /\ fromOwn' = fromOwn + Counted(c)
  <2>1. Rested(c) = 0
    BY <1>4, Configuration DEF AllowOwn, LimiterInv, LimiterTypeOK, SeenLately, Rested
  <2>2. Entitled(c) = credit[c] /\ Entitled(c)' = credit'[c]
    BY <1>2, <2>1, EntitledType, EntitledTypeAfter DEF LimiterInv
  <2> QED
    BY <1>1, <1>4, <2>2
<1> QED
  BY <1>1, <1>3, <1>4 DEF AllowOwn

(***************************************************************************)
(* The table does not show: what a client gets out of buckets of its own   *)
(* that come and go is what one token bucket could give it, and the shared *)
(* bucket is another.                                                      *)
(***************************************************************************)
LEMMA BucketsStep ==
    ASSUME LimiterInv, LimiterInv', [LimiterNext]_limiterVars
    PROVE  /\ [OwnBucket!Next]_(OwnBucket!vars)
           /\ [SharedBucket!Next]_(SharedBucket!vars)
<1>0. /\ Watched \in Clients /\ ClientBurst \in Nat /\ ClientRate \in Nat /\ OwnGain \in Nat
      /\ Entitled(Watched) \in 0 .. ClientBurst /\ Entitled(Watched)' \in 0 .. ClientBurst
      /\ overflow \in 0 .. ClientBurst /\ fromOwn \in Nat /\ fromOverflow \in Nat
  BY Configuration, GainCoversBurst, EntitledType, EntitledTypeAfter DEF LimiterInv,
     LimiterTypeOK
<1>1. ASSUME UNCHANGED <<overflow, fromOverflow, elapsed>> PROVE UNCHANGED SharedBucket!vars
  BY <1>1 DEF SharedBucket!vars
<1>2. ASSUME UNCHANGED <<credit, age, fromOwn, elapsed>> PROVE UNCHANGED OwnBucket!vars
  BY <1>2 DEF OwnBucket!vars, Entitled, Rested
<1>3. ASSUME NEW r \in Requests, NEW c \in Clients, GlobalAllow(r, c)
      PROVE  UNCHANGED OwnBucket!vars /\ UNCHANGED SharedBucket!vars
  BY <1>1, <1>2, <1>3 DEF GlobalAllow
<1>4. ASSUME NEW r \in Requests, ClientLimiter(r)
      PROVE  OwnBucket!Next /\ UNCHANGED SharedBucket!vars
  <2>1. UNCHANGED <<overflow, fromOverflow, fromOwn, elapsed>>
    BY <1>4 DEF ClientLimiter
  <2>2. Entitled(Watched)' <= Entitled(Watched)
    BY <1>0, <1>4, EntitledKept
  <2>3. OwnBucket!Lose
    BY <1>0, <2>1, <2>2 DEF OwnBucket!Lose
  <2> QED
    BY <1>1, <2>1, <2>3 DEF OwnBucket!Next
<1>5. ASSUME NEW r \in Requests, AllowOwn(r)
      PROVE  [OwnBucket!Next]_(OwnBucket!vars) /\ UNCHANGED SharedBucket!vars
  <2>1. UNCHANGED <<overflow, fromOverflow, elapsed>>
    BY <1>5 DEF AllowOwn
  <2>2. CASE Entitled(Watched)' = Entitled(Watched) /\ fromOwn' = fromOwn
    BY <1>1, <2>1, <2>2 DEF OwnBucket!vars
  <2>3. CASE /\ Entitled(Watched) > 0 /\ Entitled(Watched)' = Entitled(Watched) - 1
             /\ fromOwn' = fromOwn + 1
    <3>1. OwnBucket!Take
      BY <1>0, <2>1, <2>3 DEF OwnBucket!Take
    <3> QED
      BY <1>1, <2>1, <3>1 DEF OwnBucket!Next
  <2>4. req[r].client # Watched => fromOwn' = fromOwn
    BY <1>0, <1>5 DEF AllowOwn, Counted
  <2> QED
    BY <1>0, <1>5, <2>2, <2>3, <2>4, EntitledSpent DEF Counted
<1>6. ASSUME NEW r \in Requests, AllowOverflow(r)
      PROVE  UNCHANGED OwnBucket!vars /\ [SharedBucket!Next]_(SharedBucket!vars)
  <2>1. UNCHANGED OwnBucket!vars
    BY <1>2, <1>6 DEF AllowOverflow
  <2>2. CASE UNCHANGED <<overflow, fromOverflow>>
    BY <1>6, <2>1, <2>2 DEF AllowOverflow, SharedBucket!vars
  <2>3. CASE /\ overflow > 0 /\ overflow' = overflow - 1
             /\ fromOverflow' = fromOverflow + Counted(req[r].client)
    <3>1. SharedBucket!Take
      BY <1>0, <1>6, <2>3 DEF AllowOverflow, Counted, SharedBucket!Take
    <3> QED
      BY <2>1, <3>1 DEF SharedBucket!Next
  <2> QED
    BY <1>6, <2>2, <2>3 DEF AllowOverflow
<1>7. CASE Tick
  <2>1. /\ elapsed' = elapsed + 1 /\ UNCHANGED <<fromOwn, fromOverflow>>
        /\ overflow' = AtMost(ClientBurst, overflow + ClientRate)
    BY <1>7 DEF Tick
  <2>2. Entitled(Watched)' <= Entitled(Watched) + OwnGain
    BY <1>0, <1>7, EntitledGains
  <2>3. OwnBucket!Tick
    BY <1>0, <2>1, <2>2 DEF OwnBucket!Tick
  <2>4. SharedBucket!Tick
    BY <1>0, <2>1 DEF SharedBucket!Tick, AtMost
  <2> QED
    BY <2>3, <2>4 DEF OwnBucket!Next, SharedBucket!Next
<1>8. CASE Mark
  <2>1. UNCHANGED <<credit, age, overflow>>
    BY <1>8 DEF Mark
  <2>2. Entitled(Watched)' = Entitled(Watched)
    BY <2>1 DEF Entitled, Rested
  <2> QED
    BY <1>8, <2>1, <2>2 DEF Mark, OwnBucket!Next, OwnBucket!Restart, OwnBucket!Observe,
       SharedBucket!Next, SharedBucket!Restart, SharedBucket!Observe
<1>9. CASE UNCHANGED limiterVars
  BY <1>1, <1>2, <1>9 DEF limiterVars
<1> QED
  BY <1>3, <1>4, <1>5, <1>6, <1>7, <1>8, <1>9 DEF LimiterNext

THEOREM LimiterIsTokenBuckets == LimiterSpec => ImplementsBuckets
<1>1. LimiterInit => OwnBucket!Init /\ SharedBucket!Init
  <2> SUFFICES ASSUME LimiterInit PROVE OwnBucket!Init /\ SharedBucket!Init
    OBVIOUS
  <2>1. Entitled(Watched) = ClientBurst
    BY LimiterInitially, EntitledType, Configuration DEF LimiterInit, LimiterInv
  <2> QED
    BY <2>1 DEF LimiterInit, OwnBucket!Init, SharedBucket!Init
<1>2. LimiterInv /\ LimiterInv' /\ [LimiterNext]_limiterVars =>
         [OwnBucket!Next]_(OwnBucket!vars) /\ [SharedBucket!Next]_(SharedBucket!vars)
  BY BucketsStep
<1> QED
  BY <1>1, <1>2, LimiterInvariant, PTL
     DEF LimiterSpec, ImplementsBuckets, OwnBucket!Spec, SharedBucket!Spec

(***************************************************************************)
(* So the client gets what token buckets give, for every configuration     *)
(* that loadConfig accepts.                                                *)
(***************************************************************************)
OwnRate == INSTANCE TokenBucket_proof WITH
    Capacity <- ClientBurst, Gain <- OwnGain, Price <- 1,
    tokens <- Entitled(Watched), taken <- fromOwn
SharedRate == INSTANCE TokenBucket_proof WITH
    Capacity <- ClientBurst, Gain <- ClientRate, Price <- 1,
    tokens <- overflow, taken <- fromOverflow

\* No window gives a client more than a burst and its gain out of its own
\* bucket, nor more than a burst and its rate out of the shared one.
THEOREM ClientsAreBounded == LimiterSpec => []IndividualBounded
<1>1. OwnRate!Parameters /\ SharedRate!Parameters
  BY Configuration, GainCoversBurst DEF OwnRate!Parameters, SharedRate!Parameters
<1>2. /\ OwnRate!Spec => []OwnRate!WithinRate
      /\ SharedRate!Spec => []SharedRate!WithinRate
  BY <1>1, OwnRate!BucketKeepsRate, SharedRate!BucketKeepsRate
<1>3. /\ OwnBucket!Init => OwnRate!Init
      /\ [OwnBucket!Next]_(OwnBucket!vars) => [OwnRate!Next]_(OwnRate!vars)
      /\ SharedBucket!Init => SharedRate!Init
      /\ [SharedBucket!Next]_(SharedBucket!vars) => [SharedRate!Next]_(SharedRate!vars)
  BY DEF OwnRate!Init, OwnBucket!Init, OwnRate!Next, OwnBucket!Next, OwnRate!vars, OwnBucket!vars,
     OwnRate!Take, OwnBucket!Take, OwnRate!Lose, OwnBucket!Lose, OwnRate!Tick, OwnBucket!Tick,
     OwnRate!Restart, OwnBucket!Restart, OwnRate!Observe, OwnBucket!Observe,
     SharedRate!Init, SharedBucket!Init, SharedRate!Next, SharedBucket!Next, SharedRate!vars,
     SharedBucket!vars, SharedRate!Take, SharedBucket!Take, SharedRate!Lose, SharedBucket!Lose,
     SharedRate!Tick, SharedBucket!Tick, SharedRate!Restart, SharedBucket!Restart,
     SharedRate!Observe, SharedBucket!Observe
<1>4. LimiterInv /\ OwnRate!WithinRate /\ SharedRate!WithinRate => IndividualBounded
  <2> SUFFICES ASSUME LimiterInv, OwnRate!WithinRate, SharedRate!WithinRate
               PROVE  IndividualBounded
    OBVIOUS
  <2>1. /\ Entitled(Watched) \in Nat /\ overflow \in Nat
        /\ fromOwn \in Nat /\ fromOverflow \in Nat /\ elapsed \in Nat
    BY Configuration, EntitledType DEF LimiterInv, LimiterTypeOK
  <2>2. ClientRate * elapsed \in Nat /\ OwnGain * elapsed \in Nat
    BY <2>1, Configuration, GainCoversBurst, Products
  <2> QED
    BY <2>1, <2>2, Configuration DEF IndividualBounded, OwnRate!WithinRate, SharedRate!WithinRate
<1> QED
  BY <1>2, <1>3, <1>4, LimiterIsTokenBuckets, LimiterInvariant, PTL
     DEF ImplementsBuckets, OwnBucket!Spec, SharedBucket!Spec, OwnRate!Spec, SharedRate!Spec

\* Where a bucket refills in the time before it may be forgotten, being
\* forgotten adds nothing: in every window a client gets no more than the
\* configured burst and rate out of its own bucket.  src/README.md documents
\* these two; the defaults meet the condition, and loadConfig does not check it.
THEOREM RefillingKeepsRate ==
    ASSUME ClientBurst <= ClientRate * (ClientTTL - Pause)
    PROVE  LimiterSpec => [](fromOwn <= ClientBurst + ClientRate * elapsed)
<1>1. OwnGain = ClientRate
  <2> DEFINE wait == ClientTTL - Pause
             burst == (ClientBurst + wait - 1) \div wait
  <2>1. wait \in Nat \ {0} /\ ClientBurst \in Nat /\ ClientRate \in Nat
    BY Configuration
  <2>2. burst \in Nat /\ burst <= ClientRate
    BY <2>1, SMTT(30)
  <2>3. OwnGain = IF burst < ClientRate THEN ClientRate ELSE burst
    BY DEF OwnGain, AtLeast
  <2> HIDE DEF burst
  <2> QED
    BY <2>1, <2>2, <2>3
<1>2. IndividualBounded => fromOwn <= ClientBurst + ClientRate * elapsed
  BY <1>1 DEF IndividualBounded
<1> QED
  BY <1>2, ClientsAreBounded, PTL

\* The shared bucket is for those who find every place taken by a recent client.
THEOREM OverflowIsForCrowds == LimiterSpec => OverflowOnlyWhenCrowded
<1>1. LimiterInv /\ LimiterInv' /\ [LimiterNext]_limiterVars =>
         [\A r \in Requests :
             req[r].stage = "client" /\ req'[r].stage = "overflow" =>
                 /\ Cardinality(visitors') = MaxClients
                 /\ \A v \in visitors' : age'[v] <= ClientTTL + CleanupEvery]_limiterVars
  <2> SUFFICES ASSUME LimiterInv, LimiterInv', LimiterNext, NEW r \in Requests,
                      req[r].stage = "client", req'[r].stage = "overflow"
               PROVE  /\ Cardinality(visitors') = MaxClients
                      /\ \A v \in visitors' : age'[v] <= ClientTTL + CleanupEvery
    OBVIOUS
  <2>1. ClientLimiter(r) /\ ~HasBucket(req[r].client)
    BY DEF LimiterNext, GlobalAllow, ClientLimiter, AllowOwn, AllowOverflow, Tick, Mark,
       NoRequest, LimiterInv, LimiterTypeOK
  <2>2. visitors' = Kept
    BY <2>1 DEF ClientLimiter
  <2>3. Cardinality(visitors') = MaxClients
    BY <2>1, <2>2, OverflowSize DEF LimiterInv, LimiterTypeOK
  <2>4. sinceCleanup' <= CleanupEvery /\ sinceCleanup' \in Nat
    BY <2>1, Configuration DEF ClientLimiter, Due, LimiterInv, LimiterTypeOK
  <2>5. ASSUME NEW v \in visitors' PROVE age'[v] <= ClientTTL + CleanupEvery
    <3>1. age'[v] <= ClientTTL + sinceCleanup'
      BY <2>4 DEF LimiterInv, RecentlyCleaned
    <3>2. age'[v] \in Nat
      BY Configuration DEF LimiterInv, LimiterTypeOK
    <3> QED
      BY <2>4, <3>1, <3>2, Configuration
  <2> QED
    BY <2>3, <2>5
<1> QED
  BY <1>1, LimiterInvariant, PTL DEF LimiterSpec, OverflowOnlyWhenCrowded
=============================================================================
