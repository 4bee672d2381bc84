---------------------------- MODULE LookupService ----------------------------
(***************************************************************************)
(* BINService.Lookup: the read-through lookup of a BIN behind two caches,  *)
(* a singleflight group and the enrichment chain, run by the request       *)
(* goroutines of several API instances over one PostgreSQL table, while    *)
(* clients hang up, instances crash and an importer republishes the table. *)
(*                                                                         *)
(* A request goroutine is a slot.  Its steps are the points between which  *)
(* another goroutine can run: each call of a cache, of the singleflight    *)
(* group, of the database or of a provider is one step.                    *)
(***************************************************************************)
EXTENDS BinTable

CONSTANTS
    Instances,        \* API processes
    Slots,            \* request goroutines
    Datasets,         \* what an importer may publish: non-empty sets of BINs
    EnrichEnabled,    \* EnrichmentConfig.Enabled
    HandyConfigured,  \* a HandyAPI key is set
    FaultsAllowed     \* database calls may fail on their own

ASSUME DatasetsAssumption == Datasets \subseteq SUBSET Bins
ASSUME FlagsAssumption ==
    /\ EnrichEnabled \in BOOLEAN
    /\ HandyConfigured \in BOOLEAN
    /\ FaultsAllowed \in BOOLEAN
ASSUME NoneIsNobody == None \notin Slots \cup Instances

VARIABLES
    rows,     \* the bins table
    cache,    \* cache[i][b]: the response instance i has cached, or None
    misses,   \* misses[i]: the BINs instance i remembers as unknown
    flight,   \* flight[i][b]: the slot that leads the flight for b, or None
    req,      \* req[r]: what slot r is doing
    stored,   \* history: every record that was ever a row
    unlisted  \* history: BINs found in neither the table nor the providers

vars == <<rows, cache, misses, flight, req, stored, unlisted>>

(***************************************************************************)
(* The steps only the leader of a flight takes, and all the steps.         *)
(***************************************************************************)
LeaderStages == {"db", "handy", "binlist", "upsert", "setcache", "setmiss", "finish"}
Stages == {"idle", "cache", "misses", "do", "wait", "done"} \cup LeaderStages

(***************************************************************************)
(* The result of a lookup, with the HTTP status the handler maps it to; 0  *)
(* while there is none, with the provider's record that waits for Upsert.  *)
(***************************************************************************)
Statuses == {0, 200, 404, 429, 500, 503}
Reply == [status : Statuses, rec : Record \cup {None}]

Pending(rec) == [status |-> 0, rec |-> rec]
Found(rec) == [status |-> 200, rec |-> rec]
Without(status) == [status |-> status, rec |-> None]

Request == [stage : Stages, at : Instances \cup {None}, key : Bins \cup {None},
            reply : Reply, gone : BOOLEAN]

Idle == [stage |-> "idle", at |-> None, key |-> None,
         reply |-> Without(0), gone |-> FALSE]

Arrived(i, b) == [stage |-> "cache", at |-> i, key |-> b,
                  reply |-> Without(0), gone |-> FALSE]

Leads(r) == req[r].stage \in LeaderStages
Waits(r, i, b) == req[r].stage = "wait" /\ req[r].at = i /\ req[r].key = b

Goto(r, stage) == req' = [req EXCEPT ![r].stage = stage]
Answer(r, stage, reply) == req' = [req EXCEPT ![r].stage = stage, ![r].reply = reply]

\* A call made with the leader's context fails when the leader's client is gone.
MayFail(r) == req[r].gone \/ FaultsAllowed
MaySucceed(r) == ~req[r].gone

Init ==
    /\ rows = EmptyTable
    /\ cache = [i \in Instances |-> [b \in Bins |-> None]]
    /\ misses = [i \in Instances |-> {}]
    /\ flight = [i \in Instances |-> [b \in Bins |-> None]]
    /\ req = [r \in Slots |-> Idle]
    /\ stored = {}
    /\ unlisted = {}
-----------------------------------------------------------------------------
(***************************************************************************)
(* The life of a request outside the flight.                               *)
(***************************************************************************)
UnroutedArrive(r, i, b) ==
    /\ req[r].stage = "idle"
    /\ req' = [req EXCEPT ![r] = Arrived(i, None)]
    /\ UNCHANGED <<rows, cache, misses, flight, stored, unlisted>>

Arrive(r, i, b) ==
    /\ req[r].stage = "idle"
    /\ req' = [req EXCEPT ![r] = Arrived(i, b)]
    /\ UNCHANGED <<rows, cache, misses, flight, stored, unlisted>>

\* The client closes the connection, or shutdown cancels the base context.
HangUp(r) ==
    /\ req[r].stage # "idle"
    /\ ~req[r].gone
    /\ req' = [req EXCEPT ![r].gone = TRUE]
    /\ UNCHANGED <<rows, cache, misses, flight, stored, unlisted>>

CacheGet(r) ==
    /\ req[r].stage = "cache"
    /\ LET hit == cache[req[r].at][req[r].key]
       IN  IF hit # None THEN Answer(r, "done", Found(hit)) ELSE Goto(r, "misses")
    /\ UNCHANGED <<rows, cache, misses, flight, stored, unlisted>>

MissesGet(r) ==
    /\ req[r].stage = "misses"
    /\ IF req[r].key \in misses[req[r].at] THEN Answer(r, "done", Without(404)) ELSE Goto(r, "do")
    /\ UNCHANGED <<rows, cache, misses, flight, stored, unlisted>>

\* singleflight.Group.Do: the first caller for a key leads, the others wait.
EveryCallerLeads(r) ==
    /\ req[r].stage = "do"
    /\ flight' = [flight EXCEPT ![req[r].at][req[r].key] = r]
    /\ Goto(r, "db")
    /\ UNCHANGED <<rows, cache, misses, stored, unlisted>>

Do(r) ==
    /\ req[r].stage = "do"
    /\ IF flight[req[r].at][req[r].key] = None
       THEN /\ flight' = [flight EXCEPT ![req[r].at][req[r].key] = r]
            /\ Goto(r, "db")
       ELSE /\ Goto(r, "wait")
            /\ UNCHANGED flight
    /\ UNCHANGED <<rows, cache, misses, stored, unlisted>>

Respond(r) ==
    /\ req[r].stage = "done"
    /\ req' = [req EXCEPT ![r] = Idle]
    /\ UNCHANGED <<rows, cache, misses, flight, stored, unlisted>>
-----------------------------------------------------------------------------
(***************************************************************************)
(* The flight: the function the leader runs inside group.Do, with the      *)
(* leader's own context.                                                   *)
(***************************************************************************)
GetByBIN(r) ==
    /\ req[r].stage = "db"
    /\ LET rec == RowFor(rows, req[r].key)
       IN  \/ /\ MayFail(r)
              /\ Answer(r, "finish", Without(500))
              /\ UNCHANGED unlisted
           \/ /\ MaySucceed(r) /\ rec # None
              /\ Answer(r, "setcache", Found(rec))
              /\ UNCHANGED unlisted
           \/ /\ MaySucceed(r) /\ rec = None /\ EnrichEnabled
              /\ Goto(r, IF HandyConfigured THEN "handy" ELSE "binlist")
              /\ UNCHANGED unlisted
           \/ /\ MaySucceed(r) /\ rec = None /\ ~EnrichEnabled
              /\ Goto(r, "setmiss")
              /\ unlisted' = unlisted \cup {req[r].key}
    /\ UNCHANGED <<rows, cache, misses, flight, stored>>

\* A valid record of a provider, on its way to the table.
Enriched(r, source) ==
    Answer(r, "upsert", Pending(RecordOf(req[r].key, source)))

(***************************************************************************)
(* The quota reservation and the HandyAPI call: a valid answer is taken;   *)
(* quota refused or unavailable, an error, an unknown BIN and an invalid   *)
(* answer all fall through to binlist.net.                                 *)
(***************************************************************************)
HandyLookup(r) ==
    /\ req[r].stage = "handy"
    /\ \/ MaySucceed(r) /\ Enriched(r, "handy_api")
       \/ Goto(r, "binlist")
    /\ UNCHANGED <<rows, cache, misses, flight, stored, unlisted>>

(***************************************************************************)
(* binlist.net decides the result: its answer, nothing known, rate limited *)
(* (429), or any other error or an invalid answer (503).  Either error can *)
(* come to any leader: limiter and circuit of the client are shared by all *)
(* requests and refuse before they look at the context, and cancelled      *)
(* requests and 429s of others count towards opening the circuit.          *)
(***************************************************************************)
ErrorsAreMisses(r) ==
    /\ req[r].stage = "binlist"
    /\ \/ MaySucceed(r) /\ Enriched(r, "binlist_net") /\ UNCHANGED unlisted
       \/ MaySucceed(r) /\ Goto(r, "setmiss") /\ unlisted' = unlisted \cup {req[r].key}
       \/ Goto(r, "setmiss") /\ UNCHANGED unlisted
    /\ UNCHANGED <<rows, cache, misses, flight, stored>>

BinlistLookup(r) ==
    /\ req[r].stage = "binlist"
    /\ \/ MaySucceed(r) /\ Enriched(r, "binlist_net") /\ UNCHANGED unlisted
       \/ MaySucceed(r) /\ Goto(r, "setmiss") /\ unlisted' = unlisted \cup {req[r].key}
       \/ \E status \in {429, 503} : Answer(r, "finish", Without(status)) /\ UNCHANGED unlisted
    /\ UNCHANGED <<rows, cache, misses, flight, stored>>

Store(rec) ==
    /\ rows' = Upserted(rows, rec)
    /\ stored' = stored \cup {rec}

\* A failed upsert may have been applied: its acknowledgement can be lost.
UpsertErrorIgnored(r) ==
    /\ req[r].stage = "upsert"
    /\ \/ MaySucceed(r) /\ Store(req[r].reply.rec)
       \/ MayFail(r) /\ UNCHANGED <<rows, stored>>
    /\ Answer(r, "setcache", Found(req[r].reply.rec))
    /\ UNCHANGED <<cache, misses, flight, unlisted>>

UpsertErrorKeepsRecord(r) ==
    /\ req[r].stage = "upsert"
    /\ \/ /\ MaySucceed(r)
          /\ Store(req[r].reply.rec)
          /\ Answer(r, "setcache", Found(req[r].reply.rec))
       \/ /\ MayFail(r)
          /\ Store(req[r].reply.rec) \/ UNCHANGED <<rows, stored>>
          /\ Answer(r, "finish", [req[r].reply EXCEPT !.status = 503])
    /\ UNCHANGED <<cache, misses, flight, unlisted>>

Upsert(r) ==
    /\ req[r].stage = "upsert"
    /\ \/ /\ MaySucceed(r)
          /\ Store(req[r].reply.rec)
          /\ Answer(r, "setcache", Found(req[r].reply.rec))
       \/ /\ MayFail(r)
          /\ Store(req[r].reply.rec) \/ UNCHANGED <<rows, stored>>
          /\ Answer(r, "finish", Without(503))
    /\ UNCHANGED <<cache, misses, flight, unlisted>>

SetCacheUnderPrefix(r) ==
    /\ req[r].stage = "setcache"
    /\ cache' = [cache EXCEPT ![req[r].at][PrefixOf[req[r].key]] = req[r].reply.rec]
    /\ Goto(r, "finish")
    /\ UNCHANGED <<rows, misses, flight, stored, unlisted>>

SetCache(r) ==
    /\ req[r].stage = "setcache"
    /\ cache' = [cache EXCEPT ![req[r].at][req[r].key] = req[r].reply.rec]
    /\ Goto(r, "finish")
    /\ UNCHANGED <<rows, misses, flight, stored, unlisted>>

SetMiss(r) ==
    /\ req[r].stage = "setmiss"
    /\ misses' = [misses EXCEPT ![req[r].at] = @ \cup {req[r].key}]
    /\ Answer(r, "finish", Without(404))
    /\ UNCHANGED <<rows, cache, flight, stored, unlisted>>

(***************************************************************************)
(* The flight ends: its key is free again and everyone who waited for it   *)
(* gets the leader's result, in one critical section of the group.         *)
(***************************************************************************)
Delivered(r) ==
    [s \in Slots |->
        IF s = r THEN [req[s] EXCEPT !.stage = "done"]
        ELSE IF Waits(s, req[r].at, req[r].key)
        THEN [req[s] EXCEPT !.stage = "done", !.reply = req[r].reply]
        ELSE req[s]]

WaitersForgotten(r) ==
    /\ req[r].stage = "finish"
    /\ flight' = [flight EXCEPT ![req[r].at][req[r].key] = None]
    /\ Goto(r, "done")
    /\ UNCHANGED <<rows, cache, misses, stored, unlisted>>

Finish(r) ==
    /\ req[r].stage = "finish"
    /\ flight' = [flight EXCEPT ![req[r].at][req[r].key] = None]
    /\ req' = Delivered(r)
    /\ UNCHANGED <<rows, cache, misses, stored, unlisted>>
-----------------------------------------------------------------------------
(***************************************************************************)
(* The surroundings: entries expire or are evicted, the importer publishes *)
(* a dataset, an instance dies and restarts with nothing in memory.        *)
(***************************************************************************)
NeverExpires(i, b) == FALSE

Forget(i, b) ==
    /\ cache[i][b] # None
    /\ cache' = [cache EXCEPT ![i][b] = None]
    /\ UNCHANGED <<rows, misses, flight, req, stored, unlisted>>

ForgetMiss(i, b) ==
    /\ b \in misses[i]
    /\ misses' = [misses EXCEPT ![i] = @ \ {b}]
    /\ UNCHANGED <<rows, cache, flight, req, stored, unlisted>>

Import(dataset) ==
    /\ rows' = Published(rows, dataset)
    /\ stored' = stored \cup RowsIn(rows')
    /\ UNCHANGED <<cache, misses, flight, req, unlisted>>

Crash(i) ==
    /\ cache' = [cache EXCEPT ![i] = [b \in Bins |-> None]]
    /\ misses' = [misses EXCEPT ![i] = {}]
    /\ flight' = [flight EXCEPT ![i] = [b \in Bins |-> None]]
    /\ req' = [r \in Slots |-> IF req[r].at = i THEN Idle ELSE req[r]]
    /\ UNCHANGED <<rows, stored, unlisted>>

LeaderStep(r) ==
    \/ GetByBIN(r) \/ HandyLookup(r) \/ BinlistLookup(r) \/ Upsert(r)
    \/ SetCache(r) \/ SetMiss(r) \/ Finish(r)

RequestStep(r) == CacheGet(r) \/ MissesGet(r) \/ Do(r) \/ Respond(r) \/ LeaderStep(r)

Next ==
    \/ \E r \in Slots, i \in Instances, b \in Bins : Arrive(r, i, b)
    \/ \E r \in Slots : HangUp(r)
    \/ \E r \in Slots : RequestStep(r)
    \/ \E i \in Instances, b \in Bins : Forget(i, b) \/ ForgetMiss(i, b)
    \/ \E dataset \in Datasets : Import(dataset)
    \/ \E i \in Instances : Crash(i)

Spec == Init /\ [][Next]_vars

(***************************************************************************)
(* A running goroutine is scheduled again and every call it makes returns; *)
(* an entry does not outlive its TTL.  Nothing obliges clients to call or  *)
(* hang up, importers to publish or instances to crash.                    *)
(***************************************************************************)
Fairness ==
    /\ \A r \in Slots : WF_vars(RequestStep(r))
    /\ \A i \in Instances, b \in Bins : WF_vars(Forget(i, b)) /\ WF_vars(ForgetMiss(i, b))

FairSpec == Spec /\ Fairness
-----------------------------------------------------------------------------
(***************************************************************************)
(* Properties.                                                             *)
(***************************************************************************)
\* Every variable has its type, a request in progress has an instance and a
\* BIN, and one about to persist or cache a record has the record.
InProgress(r) ==
    /\ req[r].stage # "idle" => req[r].at \in Instances /\ req[r].key \in Bins
    /\ req[r].stage \in {"upsert", "setcache"} => req[r].reply.rec \in Record

TypeOK ==
    /\ rows \in Tables
    /\ cache \in [Instances -> [Bins -> Record \cup {None}]]
    /\ misses \in [Instances -> SUBSET Bins]
    /\ flight \in [Instances -> [Bins -> Slots \cup {None}]]
    /\ req \in [Slots -> Request]
    /\ \A r \in Slots : InProgress(r)
    /\ stored \subseteq Record
    /\ unlisted \subseteq Bins

\* The group's map and the goroutines agree: the slot a flight names leads it,
\* whoever leads is named, and whoever waits waits for a flight.
FlightInv ==
    /\ \A i \in Instances, b \in Bins : flight[i][b] # None =>
            /\ Leads(flight[i][b])
            /\ req[flight[i][b]].at = i /\ req[flight[i][b]].key = b
    /\ \A r \in Slots : Leads(r) => flight[req[r].at][req[r].key] = r
    /\ \A r \in Slots : req[r].stage = "wait" => flight[req[r].at][req[r].key] # None

\* Singleflight: on one instance at most one goroutine at a time works on a BIN,
\* so requests for it that come together share one database read and one chain
\* of providers; one that comes too late for a flight may start the next.
OneFlightPerBIN ==
    \A r, s \in Slots :
        /\ Leads(r) /\ Leads(s)
        /\ req[r].at = req[s].at /\ req[r].key = req[s].key
        => r = s

\* Nobody waits for a flight that has no leader left to end it.
NobodyStranded ==
    \A r \in Slots : req[r].stage = "wait" =>
        \E s \in Slots : /\ Leads(s)
                         /\ req[s].at = req[r].at /\ req[s].key = req[r].key

\* Every record in a cache or in a reply was a row, and so was every row.
StoredInv ==
    /\ RowsIn(rows) \subseteq stored
    /\ \A i \in Instances, b \in Bins : cache[i][b] # None => cache[i][b] \in stored
    /\ \A r \in Slots :
            /\ req[r].stage = "setcache" => req[r].reply.status = 200
            /\ req[r].reply.status = 200 => req[r].reply.rec \in stored

\* An answer with data, whether it comes from a flight of one's own, from
\* another's or from the cache, has been a row of the table: an enrichment
\* that could not be persisted is never served and never cached.
PersistedBeforeAnswered ==
    /\ \A i \in Instances, b \in Bins : cache[i][b] # None => cache[i][b] \in stored
    /\ \A r \in Slots : req[r].stage = "done" /\ req[r].reply.status = 200 => req[r].reply.rec \in stored

\* The record a client gets is the one of the BIN it asked for or of the
\* 6-digit prefix of that BIN, also when another request's flight fetched it.
AnswersRequestedBIN ==
    \A r \in Slots : req[r].stage = "done" /\ req[r].reply.status = 200 =>
        req[r].reply.rec.bin \in {req[r].key, PrefixOf[req[r].key]}

\* 404 means that the table had no row and the last provider (if enrichment
\* is on) did not know the BIN; a failure is never remembered as a miss.
NotFoundIsEarned ==
    /\ \A i \in Instances : misses[i] \subseteq unlisted
    /\ \A r \in Slots : req[r].stage = "done" /\ req[r].reply.status = 404 => req[r].key \in unlisted

\* Every request is answered (or dies with its instance), whoever leads its
\* flight and whatever becomes of the leader's client.
Answered == \A r \in Slots : req[r].stage = "cache" ~> req[r].stage \in {"done", "idle"}

\* Both caches converge: once the row for a BIN stops changing, every answer
\* that is not an error eventually agrees with the table, on every instance.
Agrees(r, rec) ==
    /\ req[r].reply.status = 200 => req[r].reply.rec = rec
    /\ req[r].reply.status = 404 => rec = None

Converges ==
    \A b \in Bins, rec \in Record \cup {None} :
        <>[](RowFor(rows, b) = rec)
            => <>[](\A r \in Slots : req[r].stage = "done" /\ req[r].key = b => Agrees(r, rec))

(***************************************************************************)
(* To the clients all of this is the lookup contract: caches, flights and  *)
(* the chain behind them show in nothing but the answers.                  *)
(***************************************************************************)
Shown(r) == IF req[r].stage = "done" THEN req[r].reply ELSE Without(0)

Contract == INSTANCE LookupContract WITH
    asked <- [r \in Slots |-> req[r].key],
    answer <- [r \in Slots |-> Shown(r)],
    known <- stored
ImplementsContract == Contract!Spec

\* README: 503 means that a provider or the persistence failed.  So where the
\* database does not fail, storing the record of a provider fails for no client
\* that shares the flight and is still there.
LiveClientsServed ==
    [][\A r, s \in Slots :
          /\ req[r].stage = "upsert"
          /\ req'[r].reply.status = 503
          /\ Waits(s, req[r].at, req[r].key)
          => req[s].gone]_vars
=============================================================================
