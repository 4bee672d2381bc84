----------------------------- MODULE RateLimiter -----------------------------
(***************************************************************************)
(* The rate limiter of the public routes (internal/middleware): a global   *)
(* token bucket, one bucket per remote IP for at most MaxClients of them,  *)
(* and one bucket that all further clients share.  The table of visitors   *)
(* has a lock; a bucket taken from it is used after the lock is released.  *)
(* A client nobody has seen for ClientTTL is forgotten by a cleanup that   *)
(* the requests themselves carry out, at most once in CleanupEvery.        *)
(* Time is counted in ticks, and an observer counts what the limiter       *)
(* admits from one client since an arbitrary moment.                       *)
(***************************************************************************)
EXTENDS Integers, FiniteSets

CONSTANTS
    Clients,      \* remote IPs
    Watched,      \* the one the observer counts for
    Requests,     \* requests the middleware handles at the same time
    MaxClients,   \* visitors that have a bucket of their own
    ClientTTL,    \* ticks after which a visitor may be forgotten
    CleanupEvery, \* ticks between two cleanups
    ClientBurst,  \* capacity of a visitor's bucket and of the overflow bucket
    ClientRate,   \* tokens such a bucket gains per tick
    GlobalBurst, GlobalRate, \* the same for the global bucket
    Pause,        \* ticks that may pass between taking a bucket and using it
    Window        \* bound: the longest window the observer measures, in ticks

\* loadConfig rejects what is not positive, and the TTL is ten minutes.
ASSUME LimiterAssumption ==
    /\ Watched \in Clients
    /\ IsFiniteSet(Clients)
    /\ {MaxClients, ClientTTL, CleanupEvery, ClientBurst, ClientRate,
        GlobalBurst, GlobalRate, Window} \subseteq Nat \ {0}
    /\ Pause \in Nat /\ Pause < ClientTTL

VARIABLES
    global,       \* tokens in the global bucket
    overflow,     \* tokens in the bucket that the other clients share
    visitors,     \* the clients with a bucket of their own
    credit,       \* credit[c]: the tokens in it
    age,          \* age[c]: ticks since visitor c was last seen
    sinceCleanup, \* ticks since the last cleanup
    req,          \* req[r]: where a request stands, and its client
    elapsed,      \* history: ticks since the observer began to count
    fromOwn,      \* history: admitted since then from Watched's own bucket
    fromOverflow  \* history: admitted since then from the overflow bucket

limiterVars == <<global, overflow, visitors, credit, age, sinceCleanup, req,
                 elapsed, fromOwn, fromOverflow>>

Stages == {"idle", "client", "own", "overflow"}
NoRequest == [stage |-> "idle", client |-> Watched]

\* Ages saturate where no comparison tells them apart any more.
AgeCap == ClientTTL + CleanupEvery + 1
AtMost(limit, n) == IF n > limit THEN limit ELSE n
AtLeast(limit, n) == IF n < limit THEN limit ELSE n

LimiterInit ==
    /\ global = GlobalBurst
    /\ overflow = ClientBurst
    /\ visitors = {}
    /\ credit = [c \in Clients |-> ClientBurst]
    /\ age = [c \in Clients |-> 0]
    /\ sinceCleanup = 0
    /\ req = [r \in Requests |-> NoRequest]
    /\ elapsed = 0
    /\ fromOwn = 0
    /\ fromOverflow = 0
-----------------------------------------------------------------------------
(***************************************************************************)
(* A request.                                                              *)
(***************************************************************************)
\* It takes a global token first.  Without one it is refused, and nothing has
\* changed.
GlobalAllow(r, c) ==
    /\ req[r].stage = "idle"
    /\ global > 0
    /\ global' = global - 1
    /\ req' = [req EXCEPT ![r] = [stage |-> "client", client |-> c]]
    /\ UNCHANGED <<overflow, visitors, credit, age, sinceCleanup, elapsed, fromOwn, fromOverflow>>

DueAfterTTL == sinceCleanup > ClientTTL
Due == sinceCleanup > CleanupEvery

StaleAtOnce == IF Due THEN visitors ELSE {}
Stale == IF Due THEN {v \in visitors : age[v] > ClientTTL} ELSE {}
Kept == visitors \ Stale

RoomForOneMore(c) == c \in Kept \/ Cardinality(Kept) <= MaxClients
HasBucket(c) == c \in Kept \/ Cardinality(Kept) < MaxClients

\* lastSeen of a visitor that is kept, or of the client at hand.
SeenOnce(c) == [v \in Clients |-> IF v \in Kept THEN age[v] ELSE 0]
Seen(c) == [v \in Clients |-> IF v \in Kept \ {c} THEN age[v] ELSE 0]

\* clientLimiter, under the lock: clean up when due, then the client's own
\* bucket (a full one if it is new) or the overflow bucket.
ClientLimiter(r) ==
    LET c == req[r].client
    IN  /\ req[r].stage = "client"
        /\ sinceCleanup' = IF Due THEN 0 ELSE sinceCleanup
        /\ credit' = [v \in Clients |-> IF v \in Kept THEN credit[v] ELSE ClientBurst]
        /\ \/ /\ HasBucket(c)
              /\ visitors' = Kept \cup {c}
              /\ age' = Seen(c)
              /\ req' = [req EXCEPT ![r].stage = "own"]
           \/ /\ ~HasBucket(c)
              /\ visitors' = Kept
              /\ age' = [v \in Clients |-> IF v \in Kept THEN age[v] ELSE 0]
              /\ req' = [req EXCEPT ![r].stage = "overflow"]
        /\ UNCHANGED <<global, overflow, elapsed, fromOwn, fromOverflow>>

Counted(c) == IF c = Watched THEN 1 ELSE 0

\* Allow on the bucket it was given: a token, or the request is refused.
AllowOwn(r) ==
    LET c == req[r].client
    IN  /\ req[r].stage = "own"
        /\ \/ /\ credit[c] > 0
              /\ credit' = [credit EXCEPT ![c] = @ - 1]
              /\ fromOwn' = fromOwn + Counted(c)
           \/ credit[c] = 0 /\ UNCHANGED <<credit, fromOwn>>
        /\ req' = [req EXCEPT ![r] = NoRequest]
        /\ UNCHANGED <<global, overflow, visitors, age, sinceCleanup, elapsed, fromOverflow>>

AllowOverflow(r) ==
    /\ req[r].stage = "overflow"
    /\ \/ /\ overflow > 0
          /\ overflow' = overflow - 1
          /\ fromOverflow' = fromOverflow + Counted(req[r].client)
       \/ overflow = 0 /\ UNCHANGED <<overflow, fromOverflow>>
    /\ req' = [req EXCEPT ![r] = NoRequest]
    /\ UNCHANGED <<global, visitors, credit, age, sinceCleanup, elapsed, fromOwn>>
-----------------------------------------------------------------------------
(***************************************************************************)
(* Time.  It passes while requests stand anywhere, but a goroutine is not  *)
(* suspended for more than Pause between taking its own bucket and using   *)
(* it, two statements of one expression.                                   *)
(***************************************************************************)
Tick ==
    /\ elapsed < Window
    /\ \A r \in Requests : req[r].stage = "own" => age[req[r].client] < Pause
    /\ elapsed' = elapsed + 1
    /\ global' = AtMost(GlobalBurst, global + GlobalRate)
    /\ overflow' = AtMost(ClientBurst, overflow + ClientRate)
    /\ credit' = [c \in Clients |-> AtMost(ClientBurst, credit[c] + ClientRate)]
    /\ age' = [c \in Clients |-> IF c \in visitors THEN AtMost(AgeCap, age[c] + 1) ELSE 0]
    /\ sinceCleanup' = AtMost(CleanupEvery + 1, sinceCleanup + 1)
    /\ UNCHANGED <<visitors, req, fromOwn, fromOverflow>>

\* The observer begins to count, at any moment.
Mark ==
    /\ elapsed' = 0
    /\ fromOwn' = 0
    /\ fromOverflow' = 0
    /\ UNCHANGED <<global, overflow, visitors, credit, age, sinceCleanup, req>>

LimiterNext ==
    \/ \E r \in Requests :
          \/ \E c \in Clients : GlobalAllow(r, c)
          \/ ClientLimiter(r) \/ AllowOwn(r) \/ AllowOverflow(r)
    \/ Tick \/ Mark

LimiterSpec == LimiterInit /\ [][LimiterNext]_limiterVars
-----------------------------------------------------------------------------
(***************************************************************************)
(* Properties.                                                             *)
(***************************************************************************)
\* Every variable has its type, and the table does not outgrow its limit.
LimiterTypeOK ==
    /\ global \in 0..GlobalBurst
    /\ overflow \in 0..ClientBurst
    /\ visitors \subseteq Clients /\ Cardinality(visitors) <= MaxClients
    /\ credit \in [Clients -> 0..ClientBurst]
    /\ age \in [Clients -> 0..AgeCap]
    /\ sinceCleanup \in 0..CleanupEvery + 1
    /\ req \in [Requests -> [stage : Stages, client : Clients]]
    /\ elapsed \in 0..Window
    /\ fromOwn \in Nat
    /\ fromOverflow \in Nat

(***************************************************************************)
(* A forgotten bucket is made anew and full.  That gives nothing away when *)
(* it would have refilled by then (with the defaults, 10 tokens at 5 a     *)
(* second, it does in 2 seconds); loadConfig does not ask for it, and a    *)
(* client whose bucket is slower gains a burst in the time in which it may *)
(* be forgotten, which is ClientTTL less what passed before its last use.  *)
(***************************************************************************)
OwnGain ==
    LET wait == ClientTTL - Pause
    IN  AtLeast(ClientRate, (ClientBurst + wait - 1) \div wait)

\* In every window a client gets a burst and that gain out of its own bucket,
\* though the bucket is forgotten and made anew meanwhile; and besides no more
\* than a burst and its rate out of the shared one, before or between.
IndividualBounded ==
    /\ fromOwn <= ClientBurst + OwnGain * elapsed
    /\ fromOverflow <= ClientBurst + ClientRate * elapsed

(***************************************************************************)
(* Of the table nothing shows: a client gets no more out of buckets of its *)
(* own than one token bucket would give it that was always there, however  *)
(* often they are forgotten and made anew, and the shared one is another,  *)
(* from which others take too.  The client can count on what its bucket    *)
(* holds and on what being forgotten adds to its rate, for each tick in    *)
(* which the bucket has certainly not been used.                           *)
(***************************************************************************)
Rested(c) == IF age[c] > Pause THEN age[c] - Pause ELSE 0
Entitled(c) == AtMost(ClientBurst, credit[c] + (OwnGain - ClientRate) * Rested(c))

OwnBucket == INSTANCE TokenBucket WITH
    Capacity <- ClientBurst, Gain <- OwnGain, Price <- 1,
    tokens <- Entitled(Watched), taken <- fromOwn
SharedBucket == INSTANCE TokenBucket WITH
    Capacity <- ClientBurst, Gain <- ClientRate, Price <- 1,
    tokens <- overflow, taken <- fromOverflow
ImplementsBuckets == OwnBucket!Spec /\ SharedBucket!Spec

\* A client is sent to the shared bucket only while all the places are taken by
\* clients seen within ClientTTL and one cleanup interval.
OverflowOnlyWhenCrowded ==
    [][\A r \in Requests :
          req[r].stage = "client" /\ req'[r].stage = "overflow" =>
              /\ Cardinality(visitors') = MaxClients
              /\ \A v \in visitors' : age'[v] <= ClientTTL + CleanupEvery]_limiterVars
=============================================================================
