------------------------ MODULE LookupService_proof ------------------------
(***************************************************************************)
(* Proofs about LookupService, for any sets of instances, slots and BINs,  *)
(* any datasets and both settings of the enrichment chain.                 *)
(***************************************************************************)
EXTENDS LookupService, Integers, TLAPS

USE NoneAssumption, NoneIsNobody

(***************************************************************************)
(* What the operators on tables return.                                    *)
(***************************************************************************)
\* The lookup statement returns a row of the table, or nothing.
LEMMA RowForType ==
    ASSUME NEW tab \in Tables, NEW b \in Bins
    PROVE  RowFor(tab, b) \in RowsIn(tab) \cup {None} /\ RowFor(tab, b) \in Record \cup {None}
  BY PrefixAssumption DEF Tables, RowFor, RowsIn

\* The upsert keeps a table a table.
LEMMA UpsertedType ==
    ASSUME NEW tab \in Tables, NEW rec \in Record
    PROVE  Upserted(tab, rec) \in Tables
  BY DEF Tables, Upserted, Record

\* The publication of a dataset keeps a table a table.
LEMMA PublishedType ==
    ASSUME NEW tab \in Tables, NEW dataset
    PROVE  Published(tab, dataset) \in Tables
  BY DEF Tables, Published, Merged, WithoutStale, RecordOf, Record, Sources

(***************************************************************************)
(* What a step does to the request that takes it.                          *)
(***************************************************************************)
\* Goto moves one request to another stage and changes nothing else of it.
LEMMA GotoEffect ==
    ASSUME req \in [Slots -> Request], NEW r \in Slots, NEW stage \in Stages, Goto(r, stage)
    PROVE  /\ req' \in [Slots -> Request]
           /\ req'[r].stage = stage /\ req'[r].reply = req[r].reply
           /\ req'[r].at = req[r].at /\ req'[r].key = req[r].key
           /\ req'[r].gone = req[r].gone
           /\ \A s \in Slots : s # r => req'[s] = req[s]
  BY DEF Goto, Request

\* Answer also gives the request its reply.
LEMMA AnswerEffect ==
    ASSUME req \in [Slots -> Request], NEW r \in Slots, NEW stage \in Stages,
           NEW reply \in Reply, Answer(r, stage, reply)
    PROVE  /\ req' \in [Slots -> Request]
           /\ req'[r].stage = stage /\ req'[r].reply = reply
           /\ req'[r].at = req[r].at /\ req'[r].key = req[r].key
           /\ req'[r].gone = req[r].gone
           /\ \A s \in Slots : s # r => req'[s] = req[s]
  BY DEF Answer, Request

\* Hanging up leaves a request where it is.
LEMMA HangUpEffect ==
    ASSUME req \in [Slots -> Request], NEW r \in Slots, HangUp(r)
    PROVE  /\ req' \in [Slots -> Request]
           /\ req'[r].stage = req[r].stage /\ req'[r].reply = req[r].reply
           /\ req'[r].at = req[r].at /\ req'[r].key = req[r].key
           /\ req'[r].gone
           /\ \A s \in Slots : s # r => req'[s] = req[s]
  BY DEF HangUp, Request

\* The end of a flight touches its leader and those who wait for it: they are
\* done, with the leader's reply.
LEMMA FinishEffect ==
    ASSUME req \in [Slots -> Request], NEW r \in Slots, Finish(r)
    PROVE  /\ req' \in [Slots -> Request]
           /\ \A s \in Slots :
                /\ req'[s].at = req[s].at /\ req'[s].key = req[s].key
                /\ s = r \/ Waits(s, req[r].at, req[r].key) =>
                      req'[s].stage = "done" /\ req'[s].reply = req[r].reply
                /\ ~(s = r \/ Waits(s, req[r].at, req[r].key)) => req'[s] = req[s]
<1>1. ASSUME NEW s \in Slots
      PROVE  /\ Delivered(r)[s] \in Request
             /\ Delivered(r)[s].at = req[s].at /\ Delivered(r)[s].key = req[s].key
             /\ s = r \/ Waits(s, req[r].at, req[r].key) =>
                   /\ Delivered(r)[s].stage = "done"
                   /\ Delivered(r)[s].reply = req[r].reply
             /\ ~(s = r \/ Waits(s, req[r].at, req[r].key)) => Delivered(r)[s] = req[s]
  <2>1. "done" \in Stages
    BY DEF Stages
  <2>2. CASE s = r
    BY <2>1, <2>2 DEF Delivered, Request
  <2>3. CASE s # r /\ Waits(s, req[r].at, req[r].key)
    BY <2>1, <2>3 DEF Delivered, Request
  <2>4. CASE s # r /\ ~Waits(s, req[r].at, req[r].key)
    BY <2>4 DEF Delivered
  <2> QED
    BY <2>2, <2>3, <2>4
<1> QED
  BY <1>1 DEF Finish, Delivered

\* A new request and an idle slot are requests.
LEMMA FreshRequests ==
    /\ Idle \in Request
    /\ \A i \in Instances, b \in Bins : Arrived(i, b) \in Request
<1>1. Without(0) \in Reply
  BY DEF Without, Reply, Statuses
<1>2. "idle" \in Stages /\ "cache" \in Stages
  BY DEF Stages
<1> QED
  BY <1>1, <1>2 DEF Idle, Arrived, Request

\* The replies the service builds are replies.
LEMMA ReplyType ==
    /\ \A rec \in Record : Pending(rec) \in Reply /\ Found(rec) \in Reply
    /\ \A status \in Statuses : Without(status) \in Reply
  BY DEF Pending, Found, Without, Reply, Statuses

\* The names of the stages and of the statuses.
LEMMA StageNames ==
    /\ {"idle", "cache", "misses", "do", "wait", "done"} \subseteq Stages
    /\ LeaderStages \subseteq Stages
    /\ {"db", "handy", "binlist", "upsert", "setcache", "setmiss", "finish"} = LeaderStages
    /\ {404, 429, 500, 503} \subseteq Statuses
  BY DEF Stages, LeaderStages, Statuses

(***************************************************************************)
(* Type correctness.                                                       *)
(***************************************************************************)
RequestsOK == req \in [Slots -> Request] /\ \A r \in Slots : InProgress(r)

\* A request in progress that moves on, without or with a reply, stays one.
LEMMA GotoRequestsOK ==
    ASSUME RequestsOK, NEW r \in Slots, req[r].stage # "idle",
           NEW stage \in Stages \ {"upsert", "setcache"}, Goto(r, stage)
    PROVE  RequestsOK'
  BY GotoEffect DEF RequestsOK, InProgress

LEMMA AnswerRequestsOK ==
    ASSUME RequestsOK, NEW r \in Slots, req[r].stage # "idle",
           NEW stage \in Stages, NEW reply \in Reply, Answer(r, stage, reply),
           stage \in {"upsert", "setcache"} => reply.rec \in Record
    PROVE  RequestsOK'
  BY AnswerEffect DEF RequestsOK, InProgress

\* A provider's record moves the request on to Upsert.
LEMMA EnrichedRequestsOK ==
    ASSUME RequestsOK, NEW r \in Slots, req[r].stage # "idle",
           NEW source \in Sources, Enriched(r, source)
    PROVE  RequestsOK'
<1>1. RecordOf(req[r].key, source) \in Record
  BY DEF RequestsOK, InProgress, RecordOf, Record
<1>2. Pending(RecordOf(req[r].key, source)).rec \in Record
  BY <1>1 DEF Pending
<1> QED
  BY <1>1, <1>2, ReplyType, AnswerRequestsOK, StageNames DEF Enriched

\* Every step of the service, its clients and the importer keeps the requests
\* well typed.
LEMMA RequestsStep ==
    ASSUME TypeOK, Next
    PROVE  RequestsOK'
<1>0. RequestsOK
  BY DEF TypeOK, RequestsOK
<1> USE <1>0, StageNames
<1>1. ASSUME NEW r \in Slots, NEW i \in Instances, NEW b \in Bins, Arrive(r, i, b)
      PROVE  RequestsOK'
  BY <1>1, FreshRequests DEF Arrive, RequestsOK, InProgress, Arrived
<1>2. ASSUME NEW r \in Slots, HangUp(r) PROVE RequestsOK'
  BY <1>2, HangUpEffect DEF RequestsOK, InProgress
<1>3. ASSUME NEW r \in Slots, CacheGet(r) PROVE RequestsOK'
  <2>1. cache[req[r].at][req[r].key] \in Record \cup {None}
    BY <1>3 DEF CacheGet, TypeOK, RequestsOK, InProgress
  <2>2. CASE cache[req[r].at][req[r].key] = None
    BY <1>3, <2>2, GotoRequestsOK DEF CacheGet
  <2>3. CASE cache[req[r].at][req[r].key] # None
    BY <1>3, <2>1, <2>3, AnswerRequestsOK, ReplyType DEF CacheGet
  <2> QED
    BY <2>2, <2>3
<1>4. ASSUME NEW r \in Slots, MissesGet(r) PROVE RequestsOK'
  BY <1>4, GotoRequestsOK, AnswerRequestsOK, ReplyType DEF MissesGet
<1>5. ASSUME NEW r \in Slots, Do(r) PROVE RequestsOK'
  BY <1>5, GotoRequestsOK DEF Do
<1>6. ASSUME NEW r \in Slots, Respond(r) PROVE RequestsOK'
  BY <1>6, FreshRequests DEF Respond, RequestsOK, InProgress, Idle
<1>7. ASSUME NEW r \in Slots, GetByBIN(r) PROVE RequestsOK'
  <2> DEFINE rec == RowFor(rows, req[r].key)
  <2>1. rec \in Record \cup {None}
    BY <1>7, RowForType DEF GetByBIN, TypeOK, RequestsOK, InProgress
  <2>2. CASE Answer(r, "finish", Without(500))
    BY <1>7, <2>2, AnswerRequestsOK, ReplyType DEF GetByBIN
  <2>3. CASE rec # None /\ Answer(r, "setcache", Found(rec))
    <3>1. Found(rec) \in Reply /\ Found(rec).rec \in Record
      BY <2>1, <2>3, ReplyType DEF Found
    <3> QED
      BY <1>7, <2>3, <3>1, AnswerRequestsOK DEF GetByBIN
  <2>4. CASE \E stage \in {"handy", "binlist", "setmiss"} : Goto(r, stage)
    BY <1>7, <2>4, GotoRequestsOK DEF GetByBIN
  <2> QED
    BY <1>7, <2>2, <2>3, <2>4 DEF GetByBIN
<1>8. ASSUME NEW r \in Slots, HandyLookup(r) PROVE RequestsOK'
  BY <1>8, GotoRequestsOK, EnrichedRequestsOK DEF HandyLookup, Sources
<1>9. ASSUME NEW r \in Slots, BinlistLookup(r) PROVE RequestsOK'
  BY <1>9, GotoRequestsOK, EnrichedRequestsOK, AnswerRequestsOK, ReplyType
     DEF BinlistLookup, Sources
<1>10. ASSUME NEW r \in Slots, Upsert(r) PROVE RequestsOK'
  <2>1. Found(req[r].reply.rec) \in Reply /\ Found(req[r].reply.rec).rec \in Record
    BY <1>10, ReplyType DEF Upsert, RequestsOK, InProgress, Found
  <2> QED
    BY <1>10, <2>1, AnswerRequestsOK, ReplyType DEF Upsert
<1>11. ASSUME NEW r \in Slots, SetCache(r) PROVE RequestsOK'
  BY <1>11, GotoRequestsOK DEF SetCache
<1>12. ASSUME NEW r \in Slots, SetMiss(r) PROVE RequestsOK'
  BY <1>12, AnswerRequestsOK, ReplyType DEF SetMiss
<1>13. ASSUME NEW r \in Slots, Finish(r) PROVE RequestsOK'
  <2>1. \A s \in Slots : Waits(s, req[r].at, req[r].key) => req[s].stage # "idle"
    BY DEF Waits
  <2>2. req[r].stage = "finish"
    BY <1>13 DEF Finish
  <2>3. req' \in [Slots -> Request]
    BY <1>13, FinishEffect DEF RequestsOK
  <2>4. ASSUME NEW s \in Slots PROVE InProgress(s)'
    <3>1. CASE s = r \/ Waits(s, req[r].at, req[r].key)
      BY <1>13, <2>1, <2>2, <3>1, FinishEffect DEF RequestsOK, InProgress
    <3>2. CASE ~(s = r \/ Waits(s, req[r].at, req[r].key))
      BY <1>13, <3>2, FinishEffect DEF RequestsOK, InProgress
    <3> QED
      BY <3>1, <3>2
  <2> QED
    BY <2>3, <2>4 DEF RequestsOK
<1>14. ASSUME NEW i \in Instances, Crash(i) PROVE RequestsOK'
  BY <1>14, FreshRequests DEF Crash, RequestsOK, InProgress, Idle
<1>15. ASSUME UNCHANGED req PROVE RequestsOK'
  BY <1>15 DEF RequestsOK, InProgress
<1> QED
  BY <1>1, <1>2, <1>3, <1>4, <1>5, <1>6, <1>7, <1>8, <1>9, <1>10, <1>11, <1>12,
     <1>13, <1>14, <1>15
     DEF Next, RequestStep, LeaderStep, Forget, ForgetMiss, Import

\* The rest of the state keeps its type too: one step per variable.
LEMMA TypeStep == TypeOK /\ [Next]_vars => TypeOK'
<1> SUFFICES ASSUME TypeOK, Next PROVE TypeOK'
  BY DEF vars, TypeOK, InProgress
<1> USE DEF TypeOK
<1>1. RequestsOK'
  BY RequestsStep
<1>2. rows' \in Tables /\ stored' \in SUBSET Record
  <2>1. ASSUME NEW dataset \in Datasets, Import(dataset)
        PROVE  rows' \in Tables /\ stored' \in SUBSET Record
    <3>1. rows' \in Tables
      BY <2>1, PublishedType DEF Import
    <3>2. RowsIn(rows') \subseteq Record
      BY <3>1 DEF RowsIn, Tables
    <3> QED
      BY <2>1, <3>1, <3>2 DEF Import
  <2>2. ASSUME NEW r \in Slots, Upsert(r)
        PROVE  rows' \in Tables /\ stored' \in SUBSET Record
    BY <2>2, UpsertedType DEF Upsert, Store, InProgress
  <2>3. ASSUME UNCHANGED <<rows, stored>>
        PROVE  rows' \in Tables /\ stored' \in SUBSET Record
    BY <2>3
  <2> QED
    BY <2>1, <2>2, <2>3
       DEF Next, RequestStep, LeaderStep, Arrive, HangUp, CacheGet, MissesGet, Do, Respond,
           GetByBIN, HandyLookup, BinlistLookup, SetCache, SetMiss, Finish,
           Forget, ForgetMiss, Crash
<1>3. cache' \in [Instances -> [Bins -> Record \cup {None}]]
  <2>1. ASSUME NEW r \in Slots, SetCache(r)
        PROVE  cache' \in [Instances -> [Bins -> Record \cup {None}]]
    BY <2>1 DEF SetCache, InProgress
  <2>2. ASSUME NEW i \in Instances, NEW b \in Bins, Forget(i, b)
        PROVE  cache' \in [Instances -> [Bins -> Record \cup {None}]]
    BY <2>2 DEF Forget
  <2>3. ASSUME NEW i \in Instances, Crash(i)
        PROVE  cache' \in [Instances -> [Bins -> Record \cup {None}]]
    BY <2>3 DEF Crash
  <2> HIDE DEF TypeOK
  <2>4. ASSUME UNCHANGED cache
        PROVE  cache' \in [Instances -> [Bins -> Record \cup {None}]]
    BY <2>4 DEF TypeOK
  <2> QED
    BY <2>1, <2>2, <2>3, <2>4
       DEF Next, RequestStep, LeaderStep, Arrive, HangUp, CacheGet, MissesGet, Do, Respond,
           GetByBIN, HandyLookup, BinlistLookup, Upsert, SetMiss, Finish,
           ForgetMiss, Import
<1>4. misses' \in [Instances -> SUBSET Bins]
  <2>1. ASSUME NEW r \in Slots, SetMiss(r)
        PROVE  misses' \in [Instances -> SUBSET Bins]
    BY <2>1 DEF SetMiss, InProgress
  <2>2. ASSUME NEW i \in Instances, NEW b \in Bins, ForgetMiss(i, b)
        PROVE  misses' \in [Instances -> SUBSET Bins]
    BY <2>2 DEF ForgetMiss
  <2>3. ASSUME NEW i \in Instances, Crash(i)
        PROVE  misses' \in [Instances -> SUBSET Bins]
    BY <2>3 DEF Crash
  <2> HIDE DEF TypeOK
  <2>4. ASSUME UNCHANGED misses
        PROVE  misses' \in [Instances -> SUBSET Bins]
    BY <2>4 DEF TypeOK
  <2> QED
    BY <2>1, <2>2, <2>3, <2>4
       DEF Next, RequestStep, LeaderStep, Arrive, HangUp, CacheGet, MissesGet, Do, Respond,
           GetByBIN, HandyLookup, BinlistLookup, Upsert, SetCache, Finish,
           Forget, Import
<1>5. flight' \in [Instances -> [Bins -> Slots \cup {None}]]
  <2>1. ASSUME NEW i \in Instances, NEW b \in Bins, NEW s \in Slots \cup {None},
               flight' = [flight EXCEPT ![i][b] = s]
        PROVE  flight' \in [Instances -> [Bins -> Slots \cup {None}]]
    BY <2>1
  <2>2. ASSUME NEW r \in Slots, Do(r) \/ Finish(r)
        PROVE  flight' \in [Instances -> [Bins -> Slots \cup {None}]]
    <3>1. req[r].at \in Instances /\ req[r].key \in Bins
      BY <2>2 DEF Do, Finish, InProgress
    <3>2. CASE flight' = flight
      BY <3>2
    <3>3. CASE \E s \in Slots \cup {None} :
                 flight' = [flight EXCEPT ![req[r].at][req[r].key] = s]
      BY <2>1, <3>1, <3>3
    <3> QED
      BY <2>2, <3>2, <3>3 DEF Do, Finish
  <2>3. ASSUME NEW i \in Instances, Crash(i)
        PROVE  flight' \in [Instances -> [Bins -> Slots \cup {None}]]
    BY <2>3 DEF Crash
  <2> HIDE DEF TypeOK
  <2>4. ASSUME UNCHANGED flight
        PROVE  flight' \in [Instances -> [Bins -> Slots \cup {None}]]
    BY <2>4 DEF TypeOK
  <2> QED
    BY <2>2, <2>3, <2>4
       DEF Next, RequestStep, LeaderStep, Arrive, HangUp, CacheGet, MissesGet, Respond,
           GetByBIN, HandyLookup, BinlistLookup, Upsert, SetCache, SetMiss,
           Forget, ForgetMiss, Import
<1>6. unlisted' \subseteq Bins
  <2>1. ASSUME NEW r \in Slots, GetByBIN(r) \/ BinlistLookup(r)
        PROVE  unlisted' \subseteq Bins
    BY <2>1 DEF GetByBIN, BinlistLookup, InProgress
  <2> QED
    BY <2>1
       DEF Next, RequestStep, LeaderStep, Arrive, HangUp, CacheGet, MissesGet, Do, Respond,
           HandyLookup, Upsert, SetCache, SetMiss, Finish, Forget, ForgetMiss, Import, Crash
<1> QED
  BY <1>1, <1>2, <1>3, <1>4, <1>5, <1>6 DEF RequestsOK

\* The service is type correct: in particular a request that is being served
\* always has an instance and a BIN, and nothing but a record is persisted.
THEOREM TypeCorrect == Spec => []TypeOK
<1>1. Init => TypeOK
  BY FreshRequests DEF Init, TypeOK, InProgress, Tables, EmptyTable, Idle
<1> QED
  BY <1>1, TypeStep, PTL DEF Spec

(***************************************************************************)
(* Singleflight.                                                           *)
(***************************************************************************)
\* A step that keeps every request in its role, on its instance and its BIN,
\* and leaves the group's map alone keeps the two in agreement.
SameRoles ==
    \A r \in Slots :
        /\ Leads(r)' <=> Leads(r)
        /\ req'[r].stage = "wait" <=> req[r].stage = "wait"
        /\ Leads(r) \/ req[r].stage = "wait" =>
              req'[r].at = req[r].at /\ req'[r].key = req[r].key

LEMMA SameRolesStep ==
    ASSUME TypeOK, FlightInv, SameRoles, UNCHANGED flight
    PROVE  FlightInv'
<1>1. \A i \in Instances, b \in Bins : flight'[i][b] # None =>
         /\ req'[flight'[i][b]].stage \in LeaderStages
         /\ req'[flight'[i][b]].at = i /\ req'[flight'[i][b]].key = b
  <2> SUFFICES ASSUME NEW i \in Instances, NEW b \in Bins, flight[i][b] # None
               PROVE  /\ req'[flight[i][b]].stage \in LeaderStages
                      /\ req'[flight[i][b]].at = i /\ req'[flight[i][b]].key = b
    OBVIOUS
  <2>1. flight[i][b] \in Slots
    BY DEF TypeOK
  <2>2. Leads(flight[i][b]) /\ req[flight[i][b]].at = i /\ req[flight[i][b]].key = b
    BY DEF FlightInv
  <2> QED
    BY <2>1, <2>2 DEF SameRoles, Leads
<1>2. ASSUME NEW r \in Slots, req'[r].stage \in LeaderStages
      PROVE  flight'[req'[r].at][req'[r].key] = r
  BY <1>2 DEF FlightInv, SameRoles, Leads
<1>3. ASSUME NEW r \in Slots, req'[r].stage = "wait"
      PROVE  flight'[req'[r].at][req'[r].key] # None
  BY <1>3 DEF FlightInv, SameRoles
<1> QED
  BY <1>1, <1>2, <1>3 DEF FlightInv, Leads

\* A leader that moves on to another of the leader's stages keeps its role.
LEMMA GotoSameRoles ==
    ASSUME TypeOK, NEW r \in Slots, NEW stage \in Stages, Goto(r, stage),
           stage # "wait", req[r].stage # "wait",
           Leads(r) <=> stage \in LeaderStages
    PROVE  SameRoles
<1>1. req \in [Slots -> Request]
  BY DEF TypeOK
<1> QED
  BY <1>1, GotoEffect DEF SameRoles, Leads

LEMMA AnswerSameRoles ==
    ASSUME TypeOK, NEW r \in Slots, NEW stage \in Stages, NEW reply \in Reply,
           Answer(r, stage, reply), stage # "wait", req[r].stage # "wait",
           Leads(r) <=> stage \in LeaderStages
    PROVE  SameRoles
<1>1. req \in [Slots -> Request]
  BY DEF TypeOK
<1> QED
  BY <1>1, AnswerEffect DEF SameRoles, Leads

LEMMA EnrichedSameRoles ==
    ASSUME TypeOK, NEW r \in Slots, Leads(r), NEW source \in Sources, Enriched(r, source)
    PROVE  SameRoles
<1>1. RecordOf(req[r].key, source) \in Record
  BY DEF TypeOK, InProgress, Leads, LeaderStages, RecordOf, Record
<1>2. Pending(RecordOf(req[r].key, source)) \in Reply
  BY <1>1, ReplyType
<1> QED
  BY <1>2, AnswerSameRoles, StageNames DEF Enriched, Leads, LeaderStages

\* Every step keeps the group's map and the goroutines in agreement.
LEMMA FlightStep == TypeOK /\ FlightInv /\ [Next]_vars => FlightInv'
<1> SUFFICES ASSUME TypeOK, FlightInv, [Next]_vars PROVE FlightInv'
  OBVIOUS
<1>0. req \in [Slots -> Request]
  BY DEF TypeOK
<1> USE <1>0, StageNames
<1>1. ASSUME NEW r \in Slots, NEW i \in Instances, NEW b \in Bins, Arrive(r, i, b)
      PROVE  FlightInv'
  <2>1. SameRoles
    BY <1>1, FreshRequests DEF Arrive, Arrived, SameRoles, Leads, LeaderStages
  <2> QED
    BY <1>1, <2>1, SameRolesStep DEF Arrive
<1>2. ASSUME NEW r \in Slots, HangUp(r) PROVE FlightInv'
  <2>1. SameRoles
    BY <1>2, HangUpEffect DEF SameRoles, Leads
  <2> QED
    BY <1>2, <2>1, SameRolesStep DEF HangUp
<1>3. ASSUME NEW r \in Slots, CacheGet(r) PROVE FlightInv'
  <2>1. cache[req[r].at][req[r].key] \in Record \cup {None}
    BY <1>3 DEF CacheGet, TypeOK, InProgress
  <2>2. SameRoles
    BY <1>3, <2>1, GotoSameRoles, AnswerSameRoles, ReplyType DEF CacheGet, Leads, LeaderStages
  <2> QED
    BY <1>3, <2>2, SameRolesStep DEF CacheGet
<1>4. ASSUME NEW r \in Slots, MissesGet(r) PROVE FlightInv'
  <2>1. SameRoles
    BY <1>4, GotoSameRoles, AnswerSameRoles, ReplyType DEF MissesGet, Leads, LeaderStages
  <2> QED
    BY <1>4, <2>1, SameRolesStep DEF MissesGet
<1>5. ASSUME NEW r \in Slots, Do(r) PROVE FlightInv'
  <2>1. req[r].at \in Instances /\ req[r].key \in Bins /\ req[r].stage = "do"
    BY <1>5 DEF Do, TypeOK, InProgress
  <2>2. CASE flight[req[r].at][req[r].key] = None
    <3>1. Goto(r, "db") /\ flight' = [flight EXCEPT ![req[r].at][req[r].key] = r]
      BY <1>5, <2>2 DEF Do
    <3>2. /\ req'[r].stage = "db" /\ req'[r].at = req[r].at /\ req'[r].key = req[r].key
          /\ \A s \in Slots : s # r => req'[s] = req[s]
      BY <3>1, GotoEffect
    <3>3. \A i \in Instances, b \in Bins :
             flight'[i][b] = IF i = req[r].at /\ b = req[r].key THEN r ELSE flight[i][b]
      BY <2>1, <3>1 DEF TypeOK
    <3>4. \A i \in Instances, b \in Bins : flight[i][b] \in Slots \cup {None}
      BY DEF TypeOK
    <3>5. ~Leads(r) /\ req[r].stage # "wait"
      BY <2>1 DEF Leads, LeaderStages
    <3>6. \A s \in Slots : req[s].stage # "idle" => req[s].at \in Instances /\ req[s].key \in Bins
      BY DEF TypeOK, InProgress
    <3>7. \A i \in Instances, b \in Bins : flight'[i][b] # None =>
             /\ Leads(flight[i][b])'  \/ (i = req[r].at /\ b = req[r].key)
             /\ req'[flight'[i][b]].stage \in LeaderStages
             /\ req'[flight'[i][b]].at = i /\ req'[flight'[i][b]].key = b
      BY <2>1, <3>2, <3>3, <3>4, <3>5 DEF FlightInv, Leads
    <3>8. \A s \in Slots : req'[s].stage \in LeaderStages => flight'[req'[s].at][req'[s].key] = s
      BY <2>1, <2>2, <3>2, <3>3, <3>5, <3>6 DEF FlightInv, Leads, LeaderStages
    <3>9. \A s \in Slots : req'[s].stage = "wait" => flight'[req'[s].at][req'[s].key] # None
      BY <2>1, <3>2, <3>3, <3>6 DEF FlightInv
    <3> QED
      BY <3>7, <3>8, <3>9 DEF FlightInv, Leads
  <2>3. CASE flight[req[r].at][req[r].key] # None
    <3>1. Goto(r, "wait") /\ flight' = flight
      BY <1>5, <2>3 DEF Do
    <3>2. /\ req'[r].stage = "wait" /\ req'[r].at = req[r].at /\ req'[r].key = req[r].key
          /\ \A s \in Slots : s # r => req'[s] = req[s]
      BY <3>1, GotoEffect
    <3>3. \A i \in Instances, b \in Bins : flight[i][b] \in Slots \cup {None}
      BY DEF TypeOK
    <3>4. ~Leads(r)
      BY <2>1 DEF Leads, LeaderStages
    <3> QED
      BY <2>3, <3>1, <3>2, <3>3, <3>4 DEF FlightInv, Leads, LeaderStages
  <2> QED
    BY <2>2, <2>3
<1>6. ASSUME NEW r \in Slots, Respond(r) PROVE FlightInv'
  <2>1. SameRoles
    BY <1>6, FreshRequests DEF Respond, Idle, SameRoles, Leads, LeaderStages
  <2> QED
    BY <1>6, <2>1, SameRolesStep DEF Respond
<1>7. ASSUME NEW r \in Slots, GetByBIN(r) PROVE FlightInv'
  <2>1. RowFor(rows, req[r].key) \in Record \cup {None}
    BY <1>7, RowForType DEF GetByBIN, TypeOK, InProgress
  <2>2. SameRoles
    BY <1>7, <2>1, GotoSameRoles, AnswerSameRoles, ReplyType DEF GetByBIN, Leads, LeaderStages
  <2> QED
    BY <1>7, <2>2, SameRolesStep DEF GetByBIN
<1>8. ASSUME NEW r \in Slots, HandyLookup(r) PROVE FlightInv'
  <2>1. SameRoles
    BY <1>8, GotoSameRoles, EnrichedSameRoles DEF HandyLookup, Leads, LeaderStages, Sources
  <2> QED
    BY <1>8, <2>1, SameRolesStep DEF HandyLookup
<1>9. ASSUME NEW r \in Slots, BinlistLookup(r) PROVE FlightInv'
  <2>1. SameRoles
    BY <1>9, GotoSameRoles, AnswerSameRoles, EnrichedSameRoles, ReplyType
       DEF BinlistLookup, Leads, LeaderStages, Sources
  <2> QED
    BY <1>9, <2>1, SameRolesStep DEF BinlistLookup
<1>10. ASSUME NEW r \in Slots, Upsert(r) PROVE FlightInv'
  <2>1. Found(req[r].reply.rec) \in Reply
    BY <1>10, ReplyType DEF Upsert, TypeOK, InProgress
  <2>2. SameRoles
    BY <1>10, <2>1, AnswerSameRoles, ReplyType DEF Upsert, Leads, LeaderStages
  <2> QED
    BY <1>10, <2>2, SameRolesStep DEF Upsert
<1>11. ASSUME NEW r \in Slots, SetCache(r) PROVE FlightInv'
  <2>1. SameRoles
    BY <1>11, GotoSameRoles DEF SetCache, Leads, LeaderStages
  <2> QED
    BY <1>11, <2>1, SameRolesStep DEF SetCache
<1>12. ASSUME NEW r \in Slots, SetMiss(r) PROVE FlightInv'
  <2>1. SameRoles
    BY <1>12, AnswerSameRoles, ReplyType DEF SetMiss, Leads, LeaderStages
  <2> QED
    BY <1>12, <2>1, SameRolesStep DEF SetMiss
<1>13. ASSUME NEW r \in Slots, Finish(r) PROVE FlightInv'
  <2>1. req[r].at \in Instances /\ req[r].key \in Bins /\ Leads(r)
    BY <1>13 DEF Finish, TypeOK, InProgress, Leads
  <2>2. \A i \in Instances, b \in Bins :
           flight'[i][b] = IF i = req[r].at /\ b = req[r].key THEN None ELSE flight[i][b]
    BY <1>13, <2>1 DEF Finish, TypeOK
  <2>3. \A i \in Instances, b \in Bins : flight[i][b] \in Slots \cup {None}
    BY DEF TypeOK
  <2>4. \A s \in Slots : req[s].stage # "idle" => req[s].at \in Instances /\ req[s].key \in Bins
    BY DEF TypeOK, InProgress
  <2>5. \A s \in Slots :
          /\ req'[s].at = req[s].at /\ req'[s].key = req[s].key
          /\ s = r \/ Waits(s, req[r].at, req[r].key) => req'[s].stage = "done"
          /\ ~(s = r \/ Waits(s, req[r].at, req[r].key)) => req'[s] = req[s]
    BY <1>13, FinishEffect
  <2>6. \A i \in Instances, b \in Bins : flight'[i][b] # None =>
          /\ req'[flight'[i][b]].stage \in LeaderStages
          /\ req'[flight'[i][b]].at = i /\ req'[flight'[i][b]].key = b
    BY <2>1, <2>2, <2>3, <2>5 DEF FlightInv, Leads, Waits, LeaderStages
  <2>7. \A s \in Slots : req'[s].stage \in LeaderStages => flight'[req'[s].at][req'[s].key] = s
    BY <2>1, <2>2, <2>4, <2>5 DEF FlightInv, Leads, LeaderStages
  <2>8. \A s \in Slots : req'[s].stage = "wait" => flight'[req'[s].at][req'[s].key] # None
    BY <2>1, <2>2, <2>4, <2>5 DEF FlightInv, Waits
  <2> QED
    BY <2>6, <2>7, <2>8 DEF FlightInv, Leads
<1>14. ASSUME NEW i \in Instances, Crash(i) PROVE FlightInv'
  <2>1. \A j \in Instances, b \in Bins :
           flight'[j][b] = IF j = i THEN None ELSE flight[j][b]
    BY <1>14 DEF Crash, TypeOK
  <2>2. \A s \in Slots : req'[s] = IF req[s].at = i THEN Idle ELSE req[s]
    BY <1>14 DEF Crash
  <2>3. \A j \in Instances, b \in Bins : flight[j][b] \in Slots \cup {None}
    BY DEF TypeOK
  <2>4. \A s \in Slots : req[s].stage # "idle" => req[s].at \in Instances /\ req[s].key \in Bins
    BY DEF TypeOK, InProgress
  <2> QED
    BY <2>1, <2>2, <2>3, <2>4 DEF FlightInv, Leads, LeaderStages, Idle
<1>15. ASSUME UNCHANGED <<flight, req>> PROVE FlightInv'
  BY <1>15 DEF FlightInv, Leads
<1> QED
  BY <1>1, <1>2, <1>3, <1>4, <1>5, <1>6, <1>7, <1>8, <1>9, <1>10, <1>11, <1>12,
     <1>13, <1>14, <1>15
     DEF Next, RequestStep, LeaderStep, Forget, ForgetMiss, Import, vars

\* The group's map and the goroutines always agree.
THEOREM FlightCorrect == Spec => []FlightInv
<1>1. Init => FlightInv
  BY DEF Init, FlightInv, Idle, Leads, LeaderStages
<1> QED
  BY <1>1, TypeCorrect, FlightStep, PTL DEF Spec

\* On one instance at most one goroutine at a time works on a BIN, and nobody
\* waits for a flight that no goroutine will end.
THEOREM SingleFlight == Spec => [](OneFlightPerBIN /\ NobodyStranded)
<1>1. TypeOK /\ FlightInv => OneFlightPerBIN
  BY DEF FlightInv, OneFlightPerBIN
<1>2. TypeOK /\ FlightInv => NobodyStranded
  <2> SUFFICES ASSUME TypeOK, FlightInv, NEW r \in Slots, req[r].stage = "wait"
               PROVE  \E s \in Slots : /\ Leads(s)
                                       /\ req[s].at = req[r].at /\ req[s].key = req[r].key
    BY DEF NobodyStranded
  <2>1. req[r].at \in Instances /\ req[r].key \in Bins
    BY DEF TypeOK, InProgress
  <2>2. flight[req[r].at][req[r].key] \in Slots
    BY <2>1 DEF TypeOK, FlightInv
  <2> WITNESS flight[req[r].at][req[r].key] \in Slots
  <2> QED
    BY <2>1, <2>2 DEF FlightInv
<1> QED
  BY <1>1, <1>2, TypeCorrect, FlightCorrect, PTL

\* Nobody waits for a flight that has no leader left to end it.
THEOREM NobodyIsStranded == Spec => []NobodyStranded
  BY SingleFlight, PTL

(***************************************************************************)
(* Nothing is answered that was not persisted.                             *)
(***************************************************************************)
\* The lookup statement returns a record only if it is a row.
LEMMA RowForStored ==
    ASSUME TypeOK, StoredInv, NEW b \in Bins, RowFor(rows, b) # None
    PROVE  RowFor(rows, b) \in stored
  BY RowForType DEF TypeOK, StoredInv

\* The upsert adds its record and no other.
LEMMA UpsertedRows ==
    ASSUME NEW tab \in Tables, NEW rec \in Record
    PROVE  RowsIn(Upserted(tab, rec)) \subseteq RowsIn(tab) \cup {rec}
  BY DEF RowsIn, Upserted, Tables

\* What concerns the requests in StoredInv.
RepliesStored ==
    \A r \in Slots :
        /\ req[r].stage = "setcache" => req[r].reply.status = 200
        /\ req[r].reply.status = 200 => req[r].reply.rec \in stored

CachedStored ==
    \A i \in Instances, b \in Bins : cache[i][b] # None => cache[i][b] \in stored

\* Moving on without a reply, or with one that is no record or a stored one.
LEMMA GotoRepliesStored ==
    ASSUME TypeOK, StoredInv, NEW r \in Slots, NEW stage \in Stages \ {"setcache"},
           Goto(r, stage), stored \subseteq stored'
    PROVE  RepliesStored'
<1>1. req \in [Slots -> Request]
  BY DEF TypeOK
<1> QED
  BY <1>1, GotoEffect DEF StoredInv, RepliesStored

LEMMA AnswerRepliesStored ==
    ASSUME TypeOK, StoredInv, NEW r \in Slots, NEW stage \in Stages, NEW reply \in Reply,
           Answer(r, stage, reply), stored \subseteq stored',
           stage = "setcache" => reply.status = 200,
           reply.status = 200 => reply.rec \in stored'
    PROVE  RepliesStored'
<1>1. req \in [Slots -> Request]
  BY DEF TypeOK
<1> QED
  BY <1>1, AnswerEffect DEF StoredInv, RepliesStored

LEMMA FailureRepliesStored ==
    ASSUME TypeOK, StoredInv, NEW r \in Slots, NEW stage \in Stages \ {"setcache"},
           NEW status \in Statuses \ {200}, Answer(r, stage, Without(status)),
           stored \subseteq stored'
    PROVE  RepliesStored'
<1>1. Without(status) \in Reply /\ Without(status).status # 200
  BY ReplyType DEF Without
<1> QED
  BY <1>1, AnswerRepliesStored

LEMMA FoundRepliesStored ==
    ASSUME TypeOK, StoredInv, NEW r \in Slots, NEW stage \in Stages,
           NEW rec \in Record, rec \in stored', Answer(r, stage, Found(rec)),
           stored \subseteq stored'
    PROVE  RepliesStored'
<1>1. Found(rec) \in Reply /\ Found(rec).status = 200 /\ Found(rec).rec = rec
  BY ReplyType DEF Found
<1> QED
  BY <1>1, AnswerRepliesStored

LEMMA EnrichedRepliesStored ==
    ASSUME TypeOK, StoredInv, NEW r \in Slots, Leads(r), NEW source \in Sources,
           Enriched(r, source), stored \subseteq stored'
    PROVE  RepliesStored'
<1>1. RecordOf(req[r].key, source) \in Record
  BY DEF TypeOK, InProgress, Leads, LeaderStages, RecordOf, Record
<1>2. /\ Pending(RecordOf(req[r].key, source)) \in Reply
      /\ Pending(RecordOf(req[r].key, source)).status # 200
  BY <1>1, ReplyType DEF Pending
<1> QED
  BY <1>2, AnswerRepliesStored, StageNames DEF Enriched

\* Every step serves and caches stored records only.
LEMMA StoredStep == TypeOK /\ StoredInv /\ [Next]_vars => StoredInv'
<1> SUFFICES ASSUME TypeOK, StoredInv, [Next]_vars PROVE StoredInv'
  OBVIOUS
<1>0. req \in [Slots -> Request]
  BY DEF TypeOK
<1> USE <1>0, StageNames
<1>a. ASSUME RepliesStored', UNCHANGED <<rows, cache, stored>> PROVE StoredInv'
  BY <1>a DEF StoredInv, RepliesStored
<1>1. ASSUME NEW r \in Slots, NEW i \in Instances, NEW b \in Bins, Arrive(r, i, b)
      PROVE  StoredInv'
  <2>1. RepliesStored'
    BY <1>1 DEF Arrive, Arrived, Without, StoredInv, RepliesStored
  <2> QED
    BY <1>1, <1>a, <2>1 DEF Arrive
<1>2. ASSUME NEW r \in Slots, HangUp(r) PROVE StoredInv'
  <2>1. UNCHANGED <<rows, cache, stored>>
    BY <1>2 DEF HangUp
  <2>2. RepliesStored'
    BY <1>2, <2>1, HangUpEffect DEF StoredInv, RepliesStored
  <2> QED
    BY <1>a, <2>1, <2>2
<1>3. ASSUME NEW r \in Slots, CacheGet(r) PROVE StoredInv'
  <2>1. UNCHANGED <<rows, cache, stored>>
    BY <1>3 DEF CacheGet
  <2>2. req[r].at \in Instances /\ req[r].key \in Bins
    BY <1>3 DEF CacheGet, TypeOK, InProgress
  <2>3. CASE cache[req[r].at][req[r].key] = None
    BY <1>3, <1>a, <2>1, <2>3, GotoRepliesStored DEF CacheGet
  <2>4. CASE cache[req[r].at][req[r].key] # None
    <3>1. cache[req[r].at][req[r].key] \in Record /\ cache[req[r].at][req[r].key] \in stored
      BY <2>2, <2>4 DEF TypeOK, StoredInv
    <3> QED
      BY <1>3, <1>a, <2>1, <2>4, <3>1, FoundRepliesStored DEF CacheGet
  <2> QED
    BY <2>3, <2>4
<1>4. ASSUME NEW r \in Slots, MissesGet(r) PROVE StoredInv'
  <2>1. UNCHANGED <<rows, cache, stored>>
    BY <1>4 DEF MissesGet
  <2>2. RepliesStored'
    BY <1>4, <2>1, GotoRepliesStored, FailureRepliesStored DEF MissesGet
  <2> QED
    BY <1>a, <2>1, <2>2
<1>5. ASSUME NEW r \in Slots, Do(r) PROVE StoredInv'
  BY <1>5, <1>a, GotoRepliesStored DEF Do
<1>6. ASSUME NEW r \in Slots, Respond(r) PROVE StoredInv'
  <2>1. RepliesStored'
    BY <1>6 DEF Respond, Idle, Without, StoredInv, RepliesStored
  <2> QED
    BY <1>6, <1>a, <2>1 DEF Respond
<1>7. ASSUME NEW r \in Slots, GetByBIN(r) PROVE StoredInv'
  <2>1. UNCHANGED <<rows, cache, stored>>
    BY <1>7 DEF GetByBIN
  <2>2. RowFor(rows, req[r].key) # None =>
          RowFor(rows, req[r].key) \in Record /\ RowFor(rows, req[r].key) \in stored
    BY <1>7, RowForType, RowForStored DEF GetByBIN, TypeOK, InProgress
  <2>3. RepliesStored'
    BY <1>7, <2>1, <2>2, GotoRepliesStored, FailureRepliesStored, FoundRepliesStored
       DEF GetByBIN
  <2> QED
    BY <1>a, <2>1, <2>3
<1>8. ASSUME NEW r \in Slots, HandyLookup(r) PROVE StoredInv'
  <2>1. UNCHANGED <<rows, cache, stored>>
    BY <1>8 DEF HandyLookup
  <2>2. RepliesStored'
    BY <1>8, <2>1, GotoRepliesStored, EnrichedRepliesStored DEF HandyLookup, Leads, Sources
  <2> QED
    BY <1>a, <2>1, <2>2
<1>9. ASSUME NEW r \in Slots, BinlistLookup(r) PROVE StoredInv'
  <2>1. UNCHANGED <<rows, cache, stored>>
    BY <1>9 DEF BinlistLookup
  <2>2. RepliesStored'
    BY <1>9, <2>1, GotoRepliesStored, EnrichedRepliesStored, FailureRepliesStored
       DEF BinlistLookup, Leads, Sources
  <2> QED
    BY <1>a, <2>1, <2>2
<1>10. ASSUME NEW r \in Slots, Upsert(r) PROVE StoredInv'
  <2> DEFINE rec == req[r].reply.rec
  <2>1. rec \in Record /\ cache' = cache
    BY <1>10 DEF Upsert, TypeOK, InProgress
  <2>2. Store(rec) \/ UNCHANGED <<rows, stored>>
    BY <1>10 DEF Upsert
  <2>3. stored \subseteq stored' /\ RowsIn(rows') \subseteq stored'
    BY <2>1, <2>2, UpsertedRows DEF Store, TypeOK, StoredInv
  <2>4. RepliesStored'
    <3>1. CASE Store(rec) /\ Answer(r, "setcache", Found(rec))
      BY <2>1, <2>3, <3>1, FoundRepliesStored DEF Store
    <3>2. CASE Answer(r, "finish", Without(503))
      BY <2>3, <3>2, FailureRepliesStored
    <3> QED
      BY <1>10, <3>1, <3>2 DEF Upsert
  <2> QED
    BY <2>1, <2>3, <2>4 DEF StoredInv, RepliesStored
<1>11. ASSUME NEW r \in Slots, SetCache(r) PROVE StoredInv'
  <2>1. UNCHANGED <<rows, stored>>
    BY <1>11 DEF SetCache
  <2>2. RepliesStored'
    BY <1>11, <2>1, GotoRepliesStored DEF SetCache
  <2>3. CachedStored'
    <3>1. req[r].reply.rec \in stored
      BY <1>11 DEF SetCache, StoredInv
    <3>2. req[r].at \in Instances /\ req[r].key \in Bins
      BY <1>11 DEF SetCache, TypeOK, InProgress
    <3> QED
      BY <1>11, <2>1, <3>1, <3>2 DEF SetCache, TypeOK, StoredInv, CachedStored
  <2> QED
    BY <2>1, <2>2, <2>3 DEF StoredInv, RepliesStored, CachedStored
<1>12. ASSUME NEW r \in Slots, SetMiss(r) PROVE StoredInv'
  BY <1>12, <1>a, FailureRepliesStored DEF SetMiss
<1>13. ASSUME NEW r \in Slots, Finish(r) PROVE StoredInv'
  <2>1. UNCHANGED <<rows, cache, stored>>
    BY <1>13 DEF Finish
  <2>2. RepliesStored'
    BY <1>13, <2>1, FinishEffect DEF StoredInv, RepliesStored
  <2> QED
    BY <1>a, <2>1, <2>2
<1>14. ASSUME NEW i \in Instances, NEW b \in Bins, Forget(i, b) PROVE StoredInv'
  <2>1. CachedStored'
    BY <1>14 DEF Forget, TypeOK, StoredInv, CachedStored
  <2> QED
    BY <1>14, <2>1 DEF Forget, StoredInv, CachedStored
<1>15. ASSUME NEW dataset \in Datasets, Import(dataset) PROVE StoredInv'
  BY <1>15 DEF Import, StoredInv
<1>16. ASSUME NEW i \in Instances, Crash(i) PROVE StoredInv'
  <2>1. CachedStored'
    BY <1>16 DEF Crash, TypeOK, StoredInv, CachedStored
  <2>2. RepliesStored'
    BY <1>16 DEF Crash, Idle, Without, StoredInv, RepliesStored
  <2> QED
    BY <1>16, <2>1, <2>2 DEF Crash, StoredInv, CachedStored, RepliesStored
<1>17. ASSUME UNCHANGED <<rows, cache, req, stored>> PROVE StoredInv'
  BY <1>17 DEF StoredInv
<1> QED
  BY <1>1, <1>2, <1>3, <1>4, <1>5, <1>6, <1>7, <1>8, <1>9, <1>10, <1>11, <1>12,
     <1>13, <1>14, <1>15, <1>16, <1>17
     DEF Next, RequestStep, LeaderStep, ForgetMiss, vars

\* Every record in a cache or in a reply was a row.
THEOREM RecordsStored == Spec => []StoredInv
<1>1. Init => StoredInv
  BY DEF Init, StoredInv, Idle, Without, EmptyTable, RowsIn
<1> QED
  BY <1>1, TypeCorrect, StoredStep, PTL DEF Spec

\* An answer with data, own, shared or cached, was a row of the table first.
THEOREM PersistedFirst == Spec => []PersistedBeforeAnswered
<1>1. StoredInv => PersistedBeforeAnswered
  BY DEF StoredInv, PersistedBeforeAnswered
<1> QED
  BY <1>1, RecordsStored, PTL

(***************************************************************************)
(* What is answered fits the question.                                     *)
(***************************************************************************)
RowsFit(tab) == \A b \in Bins : tab[b] # None => tab[b].bin = b

CacheFits ==
    \A i \in Instances, b \in Bins :
        cache[i][b] # None => cache[i][b].bin \in {b, PrefixOf[b]}

\* A request whose result is not found, or about to be, asked for a BIN that
\* neither the table nor the providers had; one that has a record has that of
\* its BIN or of the prefix of its BIN.
Fits(r) ==
    /\ req[r].stage = "setmiss" \/ req[r].reply.status = 404 => req[r].key \in unlisted
    /\ req[r].stage = "upsert" => req[r].reply.rec.bin = req[r].key
    /\ req[r].stage = "setcache" \/ req[r].reply.status = 200 =>
          req[r].reply.rec.bin \in {req[r].key, PrefixOf[req[r].key]}

RepliesFit == \A r \in Slots : Fits(r)

AnswersInv ==
    /\ RowsFit(rows)
    /\ CacheFits
    /\ \A i \in Instances : misses[i] \subseteq unlisted
    /\ RepliesFit

\* The three operators on tables return and keep rows that stand at their BIN.
LEMMA RowForFits ==
    ASSUME NEW tab \in Tables, RowsFit(tab), NEW b \in Bins, RowFor(tab, b) # None
    PROVE  RowFor(tab, b).bin \in {b, PrefixOf[b]}
  BY PrefixAssumption DEF RowsFit, RowFor, Tables

LEMMA UpsertedFits ==
    ASSUME NEW tab \in Tables, RowsFit(tab), NEW rec \in Record
    PROVE  RowsFit(Upserted(tab, rec))
  BY DEF RowsFit, Upserted, Tables

LEMMA PublishedFits ==
    ASSUME NEW tab \in Tables, RowsFit(tab), NEW dataset
    PROVE  RowsFit(Published(tab, dataset))
  BY DEF RowsFit, Published, Merged, WithoutStale, RecordOf, Tables

\* A request that moves on to a stage that promises nothing keeps fitting.
LEMMA GotoFits ==
    ASSUME TypeOK, RepliesFit, NEW r \in Slots,
           NEW stage \in Stages \ {"setmiss", "upsert", "setcache"},
           Goto(r, stage), unlisted \subseteq unlisted'
    PROVE  RepliesFit'
<1>1. req \in [Slots -> Request]
  BY DEF TypeOK
<1> QED
  BY <1>1, GotoEffect DEF RepliesFit, Fits

\* A request that is about to remember a miss needs its BIN to be unlisted.
LEMMA GotoSetMissFits ==
    ASSUME TypeOK, RepliesFit, NEW r \in Slots, Goto(r, "setmiss"),
           unlisted \subseteq unlisted', req[r].key \in unlisted'
    PROVE  RepliesFit'
<1>1. req \in [Slots -> Request]
  BY DEF TypeOK
<1> QED
  BY <1>1, GotoEffect, StageNames DEF RepliesFit, Fits

\* A reply has to fit the request that gets it.
LEMMA AnswerFits ==
    ASSUME TypeOK, RepliesFit, NEW r \in Slots, NEW stage \in Stages \ {"setmiss"},
           NEW reply \in Reply, Answer(r, stage, reply), unlisted \subseteq unlisted',
           reply.status = 404 => req[r].key \in unlisted',
           stage = "upsert" => reply.rec.bin = req[r].key,
           stage = "setcache" \/ reply.status = 200 =>
               reply.rec.bin \in {req[r].key, PrefixOf[req[r].key]}
    PROVE  RepliesFit'
<1>1. req \in [Slots -> Request]
  BY DEF TypeOK
<1> QED
  BY <1>1, AnswerEffect DEF RepliesFit, Fits

LEMMA FailureFits ==
    ASSUME TypeOK, RepliesFit, NEW r \in Slots, NEW stage \in {"done", "finish"},
           NEW status \in {404, 429, 500, 503}, Answer(r, stage, Without(status)),
           unlisted \subseteq unlisted', status = 404 => req[r].key \in unlisted'
    PROVE  RepliesFit'
<1>1. /\ Without(status) \in Reply /\ Without(status).status = status
      /\ stage \in Stages \ {"setmiss"} /\ stage # "upsert" /\ stage # "setcache"
  BY ReplyType, StageNames DEF Without
<1> QED
  BY <1>1, AnswerFits

LEMMA FoundFits ==
    ASSUME TypeOK, RepliesFit, NEW r \in Slots, NEW stage \in {"done", "setcache"},
           NEW rec \in Record, Answer(r, stage, Found(rec)), unlisted \subseteq unlisted',
           rec.bin \in {req[r].key, PrefixOf[req[r].key]}
    PROVE  RepliesFit'
<1>1. /\ Found(rec) \in Reply /\ Found(rec).status = 200 /\ Found(rec).rec = rec
      /\ stage \in Stages \ {"setmiss"} /\ stage # "upsert"
  BY ReplyType, StageNames DEF Found
<1> QED
  BY <1>1, AnswerFits

LEMMA EnrichedFits ==
    ASSUME TypeOK, RepliesFit, NEW r \in Slots, Leads(r), NEW source \in Sources,
           Enriched(r, source), unlisted \subseteq unlisted'
    PROVE  RepliesFit'
<1> DEFINE rec == RecordOf(req[r].key, source)
<1>1. rec \in Record /\ rec.bin = req[r].key
  BY DEF TypeOK, InProgress, Leads, LeaderStages, RecordOf, Record
<1>2. /\ Pending(rec) \in Reply /\ Pending(rec).status = 0 /\ Pending(rec).rec = rec
  BY <1>1, ReplyType DEF Pending
<1>3. Answer(r, "upsert", Pending(rec)) /\ "upsert" \in Stages \ {"setmiss"}
  BY StageNames DEF Enriched
<1> HIDE DEF rec
<1> QED
  BY <1>1, <1>2, <1>3, AnswerFits

\* Every step gives a request only what fits it, and caches it only there.
LEMMA AnswersStep == TypeOK /\ AnswersInv /\ [Next]_vars => AnswersInv'
<1> SUFFICES ASSUME TypeOK, AnswersInv, [Next]_vars PROVE AnswersInv'
  OBVIOUS
<1>0. req \in [Slots -> Request] /\ RepliesFit
  BY DEF TypeOK, AnswersInv
<1> USE <1>0, StageNames
<1>a. ASSUME RepliesFit', UNCHANGED <<rows, cache, misses>>, unlisted \subseteq unlisted'
      PROVE  AnswersInv'
  BY <1>a DEF AnswersInv, RowsFit, CacheFits
<1>1. ASSUME NEW r \in Slots, NEW i \in Instances, NEW b \in Bins, Arrive(r, i, b)
      PROVE  AnswersInv'
  <2>1. RepliesFit'
    BY <1>1 DEF Arrive, Arrived, Without, RepliesFit, Fits
  <2> QED
    BY <1>1, <1>a, <2>1 DEF Arrive
<1>2. ASSUME NEW r \in Slots, HangUp(r) PROVE AnswersInv'
  <2>1. UNCHANGED <<rows, cache, misses, unlisted>>
    BY <1>2 DEF HangUp
  <2>2. RepliesFit'
    BY <1>2, <2>1, HangUpEffect DEF RepliesFit, Fits
  <2> QED
    BY <1>a, <2>1, <2>2
<1>3. ASSUME NEW r \in Slots, CacheGet(r) PROVE AnswersInv'
  <2>1. UNCHANGED <<rows, cache, misses, unlisted>>
    BY <1>3 DEF CacheGet
  <2>2. req[r].at \in Instances /\ req[r].key \in Bins
    BY <1>3 DEF CacheGet, TypeOK, InProgress
  <2>3. CASE cache[req[r].at][req[r].key] = None
    BY <1>3, <1>a, <2>1, <2>3, GotoFits DEF CacheGet
  <2>4. CASE cache[req[r].at][req[r].key] # None
    <3>1. /\ cache[req[r].at][req[r].key] \in Record
          /\ cache[req[r].at][req[r].key].bin \in {req[r].key, PrefixOf[req[r].key]}
      BY <2>2, <2>4 DEF TypeOK, AnswersInv, CacheFits
    <3> QED
      BY <1>3, <1>a, <2>1, <2>4, <3>1, FoundFits DEF CacheGet
  <2> QED
    BY <2>3, <2>4
<1>4. ASSUME NEW r \in Slots, MissesGet(r) PROVE AnswersInv'
  <2>1. UNCHANGED <<rows, cache, misses, unlisted>>
    BY <1>4 DEF MissesGet
  <2>2. req[r].at \in Instances
    BY <1>4 DEF MissesGet, TypeOK, InProgress
  <2>3. req[r].key \in misses[req[r].at] => req[r].key \in unlisted
    BY <2>2 DEF AnswersInv
  <2>4. RepliesFit'
    BY <1>4, <2>1, <2>3, GotoFits, FailureFits DEF MissesGet
  <2> QED
    BY <1>a, <2>1, <2>4
<1>5. ASSUME NEW r \in Slots, Do(r) PROVE AnswersInv'
  BY <1>5, <1>a, GotoFits DEF Do
<1>6. ASSUME NEW r \in Slots, Respond(r) PROVE AnswersInv'
  <2>1. RepliesFit'
    BY <1>6 DEF Respond, Idle, Without, RepliesFit, Fits
  <2> QED
    BY <1>6, <1>a, <2>1 DEF Respond
<1>7. ASSUME NEW r \in Slots, GetByBIN(r) PROVE AnswersInv'
  <2>1. UNCHANGED <<rows, cache, misses>> /\ unlisted \subseteq unlisted'
    BY <1>7 DEF GetByBIN
  <2>2. RowFor(rows, req[r].key) # None =>
          /\ RowFor(rows, req[r].key) \in Record
          /\ RowFor(rows, req[r].key).bin \in {req[r].key, PrefixOf[req[r].key]}
    BY <1>7, RowForType, RowForFits DEF GetByBIN, TypeOK, InProgress, AnswersInv
  <2>3. RepliesFit'
    <3>1. CASE Answer(r, "finish", Without(500))
      BY <2>1, <3>1, FailureFits
    <3>2. CASE /\ RowFor(rows, req[r].key) # None
               /\ Answer(r, "setcache", Found(RowFor(rows, req[r].key)))
      BY <2>1, <2>2, <3>2, FoundFits
    <3>3. CASE Goto(r, "handy") \/ Goto(r, "binlist")
      BY <2>1, <3>3, GotoFits
    <3>4. CASE Goto(r, "setmiss") /\ unlisted' = unlisted \cup {req[r].key}
      BY <2>1, <3>4, GotoSetMissFits
    <3> QED
      BY <1>7, <3>1, <3>2, <3>3, <3>4 DEF GetByBIN
  <2> QED
    BY <1>a, <2>1, <2>3
<1>8. ASSUME NEW r \in Slots, HandyLookup(r) PROVE AnswersInv'
  <2>1. UNCHANGED <<rows, cache, misses, unlisted>>
    BY <1>8 DEF HandyLookup
  <2>2. RepliesFit'
    BY <1>8, <2>1, GotoFits, EnrichedFits DEF HandyLookup, Leads, Sources
  <2> QED
    BY <1>a, <2>1, <2>2
<1>9. ASSUME NEW r \in Slots, BinlistLookup(r) PROVE AnswersInv'
  <2>1. UNCHANGED <<rows, cache, misses>> /\ unlisted \subseteq unlisted'
    BY <1>9 DEF BinlistLookup
  <2>2. RepliesFit'
    BY <1>9, <2>1, GotoSetMissFits, EnrichedFits, FailureFits DEF BinlistLookup, Leads, Sources
  <2> QED
    BY <1>a, <2>1, <2>2
<1>10. ASSUME NEW r \in Slots, Upsert(r) PROVE AnswersInv'
  <2> DEFINE rec == req[r].reply.rec
  <2>1. rec \in Record /\ rec.bin = req[r].key /\ UNCHANGED <<cache, misses, unlisted>>
    BY <1>10 DEF Upsert, TypeOK, InProgress, RepliesFit, Fits
  <2>2. RowsFit(rows')
    BY <1>10, <2>1, UpsertedFits DEF Upsert, Store, TypeOK, AnswersInv
  <2>3. RepliesFit'
    BY <1>10, <2>1, FoundFits, FailureFits DEF Upsert
  <2> QED
    BY <2>1, <2>2, <2>3 DEF AnswersInv, CacheFits
<1>11. ASSUME NEW r \in Slots, SetCache(r) PROVE AnswersInv'
  <2>1. UNCHANGED <<rows, misses, unlisted>>
    BY <1>11 DEF SetCache
  <2>2. RepliesFit'
    BY <1>11, <2>1, GotoFits DEF SetCache
  <2>3. CacheFits'
    <3>1. /\ req[r].at \in Instances /\ req[r].key \in Bins
          /\ req[r].reply.rec.bin \in {req[r].key, PrefixOf[req[r].key]}
      BY <1>11 DEF SetCache, TypeOK, InProgress, RepliesFit, Fits
    <3> QED
      BY <1>11, <3>1 DEF SetCache, TypeOK, AnswersInv, CacheFits
  <2> QED
    BY <2>1, <2>2, <2>3 DEF AnswersInv
<1>12. ASSUME NEW r \in Slots, SetMiss(r) PROVE AnswersInv'
  <2>1. UNCHANGED <<rows, cache, unlisted>>
    BY <1>12 DEF SetMiss
  <2>2. req[r].key \in unlisted
    BY <1>12 DEF SetMiss, RepliesFit, Fits
  <2>3. \A i \in Instances : misses'[i] \subseteq unlisted
    BY <1>12, <2>2 DEF SetMiss, TypeOK, AnswersInv
  <2>4. RepliesFit'
    BY <1>12, <2>1, <2>2, FailureFits DEF SetMiss
  <2> QED
    BY <2>1, <2>3, <2>4 DEF AnswersInv, CacheFits
<1>13. ASSUME NEW r \in Slots, Finish(r) PROVE AnswersInv'
  <2>1. UNCHANGED <<rows, cache, misses, unlisted>>
    BY <1>13 DEF Finish
  <2>2. req[r].stage = "finish"
    BY <1>13 DEF Finish
  <2>3. ASSUME NEW s \in Slots PROVE Fits(s)'
    <3>1. CASE s = r \/ Waits(s, req[r].at, req[r].key)
      <4>1. req[s].key = req[r].key
        BY <3>1 DEF Waits
      <4>2. /\ req'[s].stage = "done" /\ req'[s].reply = req[r].reply
            /\ req'[s].key = req[r].key
        BY <1>13, <3>1, <4>1, FinishEffect
      <4> QED
        BY <2>1, <4>2 DEF RepliesFit, Fits
    <3>2. CASE ~(s = r \/ Waits(s, req[r].at, req[r].key))
      BY <1>13, <2>1, <3>2, FinishEffect DEF RepliesFit, Fits
    <3> QED
      BY <3>1, <3>2
  <2> QED
    BY <1>a, <2>1, <2>3 DEF RepliesFit
<1>14. ASSUME NEW i \in Instances, NEW b \in Bins, Forget(i, b) PROVE AnswersInv'
  <2>1. CacheFits'
    BY <1>14 DEF Forget, TypeOK, AnswersInv, CacheFits
  <2> QED
    BY <1>14, <2>1 DEF Forget, AnswersInv, RepliesFit, Fits
<1>15. ASSUME NEW i \in Instances, NEW b \in Bins, ForgetMiss(i, b) PROVE AnswersInv'
  <2>1. \A j \in Instances : misses'[j] \subseteq unlisted
    BY <1>15 DEF ForgetMiss, TypeOK, AnswersInv
  <2> QED
    BY <1>15, <2>1 DEF ForgetMiss, AnswersInv, CacheFits, RepliesFit, Fits
<1>16. ASSUME NEW dataset \in Datasets, Import(dataset) PROVE AnswersInv'
  <2>1. RowsFit(rows')
    BY <1>16, PublishedFits DEF Import, TypeOK, AnswersInv
  <2> QED
    BY <1>16, <2>1 DEF Import, AnswersInv, CacheFits, RepliesFit, Fits
<1>17. ASSUME NEW i \in Instances, Crash(i) PROVE AnswersInv'
  <2>1. CacheFits' /\ \A j \in Instances : misses'[j] \subseteq unlisted
    BY <1>17 DEF Crash, TypeOK, AnswersInv, CacheFits
  <2>2. RepliesFit'
    BY <1>17 DEF Crash, Idle, Without, RepliesFit, Fits
  <2> QED
    BY <1>17, <2>1, <2>2 DEF Crash, AnswersInv
<1>18. CASE UNCHANGED vars
  BY <1>18 DEF vars, AnswersInv, RowsFit, CacheFits, RepliesFit, Fits
<1> QED
  BY <1>1, <1>2, <1>3, <1>4, <1>5, <1>6, <1>7, <1>8, <1>9, <1>10, <1>11, <1>12,
     <1>13, <1>14, <1>15, <1>16, <1>17, <1>18
     DEF Next, RequestStep, LeaderStep

\* What is answered and remembered always fits the BIN it is for.
THEOREM AnswersFit == Spec => []AnswersInv
<1>1. Init => AnswersInv
  BY DEF Init, AnswersInv, RowsFit, CacheFits, RepliesFit, Fits, Idle, Without, EmptyTable
<1> QED
  BY <1>1, TypeCorrect, AnswersStep, PTL DEF Spec

\* A record that is answered is the one of the BIN asked for or of its prefix.
THEOREM RightBINAnswered == Spec => []AnswersRequestedBIN
<1>1. AnswersInv => AnswersRequestedBIN
  BY DEF AnswersInv, RepliesFit, Fits, AnswersRequestedBIN
<1> QED
  BY <1>1, AnswersFit, PTL

\* Not found is answered and remembered only of a BIN that neither the table
\* nor the providers had; a failure never is.
THEOREM MissesAreEarned == Spec => []NotFoundIsEarned
<1>1. AnswersInv => NotFoundIsEarned
  BY DEF AnswersInv, RepliesFit, Fits, NotFoundIsEarned
<1> QED
  BY <1>1, AnswersFit, PTL

(***************************************************************************)
(* The service implements the contract with its clients.                   *)
(***************************************************************************)
\* An idle slot asks for nothing, and a request with a result has data only if
\* the result is data: nothing of a provider's record is left in a failure.
Settled(r) ==
    /\ req[r].stage = "idle" => req[r].key = None
    /\ req[r].stage \in {"finish", "done"} =>
          /\ req[r].reply.status # 0
          /\ req[r].reply.status # 200 => req[r].reply.rec = None

AllSettled == \A r \in Slots : Settled(r)

LEMMA GotoSettled ==
    ASSUME TypeOK, AllSettled, NEW r \in Slots,
           NEW stage \in Stages \ {"idle", "finish", "done"}, Goto(r, stage)
    PROVE  AllSettled'
<1>1. req \in [Slots -> Request]
  BY DEF TypeOK
<1> QED
  BY <1>1, GotoEffect DEF AllSettled, Settled

LEMMA AnswerSettled ==
    ASSUME TypeOK, AllSettled, NEW r \in Slots, NEW stage \in Stages \ {"idle"}, NEW reply \in Reply,
           Answer(r, stage, reply),
           stage \in {"finish", "done"} =>
               reply.status # 0 /\ (reply.status # 200 => reply.rec = None)
    PROVE  AllSettled'
<1>1. req \in [Slots -> Request]
  BY DEF TypeOK
<1> QED
  BY <1>1, AnswerEffect DEF AllSettled, Settled

LEMMA FailureSettled ==
    ASSUME TypeOK, AllSettled, NEW r \in Slots, NEW stage \in {"finish", "done"},
           NEW status \in {404, 429, 500, 503}, Answer(r, stage, Without(status))
    PROVE  AllSettled'
<1>1. /\ Without(status) \in Reply /\ Without(status).status = status
      /\ Without(status).rec = None /\ stage \in Stages
  BY ReplyType, StageNames DEF Without
<1> QED
  BY <1>1, AnswerSettled

LEMMA FoundSettled ==
    ASSUME TypeOK, AllSettled, NEW r \in Slots, NEW stage \in {"setcache", "done"},
           NEW rec \in Record, Answer(r, stage, Found(rec))
    PROVE  AllSettled'
<1>1. Found(rec) \in Reply /\ Found(rec).status = 200 /\ stage \in Stages
  BY ReplyType, StageNames DEF Found
<1> QED
  BY <1>1, AnswerSettled

LEMMA EnrichedSettled ==
    ASSUME TypeOK, AllSettled, NEW r \in Slots, Leads(r), NEW source \in Sources,
           Enriched(r, source)
    PROVE  AllSettled'
<1>1. RecordOf(req[r].key, source) \in Record
  BY DEF TypeOK, InProgress, Leads, LeaderStages, RecordOf, Record
<1>2. Pending(RecordOf(req[r].key, source)) \in Reply
  BY <1>1, ReplyType
<1> QED
  BY <1>2, AnswerSettled, StageNames DEF Enriched

\* Every step settles what it decides.
LEMMA SettledStep == TypeOK /\ StoredInv /\ AllSettled /\ [Next]_vars => AllSettled'
<1> SUFFICES ASSUME TypeOK, StoredInv, AllSettled, [Next]_vars PROVE AllSettled'
  OBVIOUS
<1>0. req \in [Slots -> Request]
  BY DEF TypeOK
<1> USE <1>0, StageNames
<1>1. ASSUME NEW r \in Slots, NEW i \in Instances, NEW b \in Bins, Arrive(r, i, b)
      PROVE  AllSettled'
  BY <1>1 DEF Arrive, Arrived, AllSettled, Settled
<1>2. ASSUME NEW r \in Slots, HangUp(r) PROVE AllSettled'
  BY <1>2, HangUpEffect DEF AllSettled, Settled
<1>3. ASSUME NEW r \in Slots, CacheGet(r) PROVE AllSettled'
  <2>1. cache[req[r].at][req[r].key] \in Record \cup {None}
    BY <1>3 DEF CacheGet, TypeOK, InProgress
  <2> QED
    BY <1>3, <2>1, GotoSettled, FoundSettled DEF CacheGet
<1>4. ASSUME NEW r \in Slots, MissesGet(r) PROVE AllSettled'
  BY <1>4, GotoSettled, FailureSettled DEF MissesGet
<1>5. ASSUME NEW r \in Slots, Do(r) PROVE AllSettled'
  BY <1>5, GotoSettled DEF Do
<1>6. ASSUME NEW r \in Slots, Respond(r) PROVE AllSettled'
  BY <1>6 DEF Respond, Idle, AllSettled, Settled
<1>7. ASSUME NEW r \in Slots, GetByBIN(r) PROVE AllSettled'
  <2>1. RowFor(rows, req[r].key) \in Record \cup {None}
    BY <1>7, RowForType DEF GetByBIN, TypeOK, InProgress
  <2> QED
    BY <1>7, <2>1, GotoSettled, FailureSettled, FoundSettled DEF GetByBIN
<1>8. ASSUME NEW r \in Slots, HandyLookup(r) PROVE AllSettled'
  BY <1>8, GotoSettled, EnrichedSettled DEF HandyLookup, Leads, Sources
<1>9. ASSUME NEW r \in Slots, BinlistLookup(r) PROVE AllSettled'
  BY <1>9, GotoSettled, EnrichedSettled, FailureSettled DEF BinlistLookup, Leads, Sources
<1>10. ASSUME NEW r \in Slots, Upsert(r) PROVE AllSettled'
  <2>1. req[r].reply.rec \in Record
    BY <1>10 DEF Upsert, TypeOK, InProgress
  <2> QED
    BY <1>10, <2>1, FoundSettled, FailureSettled DEF Upsert
<1>11. ASSUME NEW r \in Slots, SetCache(r) PROVE AllSettled'
  <2>1. req[r].reply.status = 200 /\ Goto(r, "finish")
    BY <1>11 DEF SetCache, StoredInv
  <2> QED
    BY <2>1, GotoEffect DEF AllSettled, Settled
<1>12. ASSUME NEW r \in Slots, SetMiss(r) PROVE AllSettled'
  BY <1>12, FailureSettled DEF SetMiss
<1>13. ASSUME NEW r \in Slots, Finish(r) PROVE AllSettled'
  <2>1. req[r].stage = "finish"
    BY <1>13 DEF Finish
  <2> QED
    BY <1>13, <2>1, FinishEffect DEF AllSettled, Settled
<1>14. ASSUME NEW i \in Instances, Crash(i) PROVE AllSettled'
  BY <1>14 DEF Crash, Idle, AllSettled, Settled
<1>15. ASSUME UNCHANGED req PROVE AllSettled'
  BY <1>15 DEF AllSettled, Settled
<1> QED
  BY <1>1, <1>2, <1>3, <1>4, <1>5, <1>6, <1>7, <1>8, <1>9, <1>10, <1>11, <1>12,
     <1>13, <1>14, <1>15
     DEF Next, RequestStep, LeaderStep, Forget, ForgetMiss, Import, vars

\* So whatever is shown to a client is justified by what is known.
JustlyShown ==
    \A r \in Slots : req[r].stage = "done" =>
        Shown(r) \in Contract!Replies /\ Contract!Justified(req[r].key, Shown(r))

LEMMA ShownIsJust == TypeOK /\ StoredInv /\ AnswersInv /\ AllSettled => JustlyShown
<1> SUFFICES ASSUME TypeOK, StoredInv, AnswersInv, AllSettled,
                    NEW r \in Slots, req[r].stage = "done"
             PROVE  /\ req[r].reply \in Contract!Replies
                    /\ Contract!Justified(req[r].key, req[r].reply)
  BY DEF JustlyShown, Shown
<1>1. req[r].reply \in Reply /\ Settled(r) /\ Fits(r)
  BY DEF TypeOK, Request, AllSettled, AnswersInv, RepliesFit
<1>2. req[r].reply \in Contract!Replies
  BY <1>1 DEF Reply, Statuses, Settled, Contract!Replies
<1>3. CASE req[r].reply.status = 200
  BY <1>1, <1>2, <1>3 DEF Contract!Justified, StoredInv, Fits
<1>4. CASE req[r].reply.status = 404
  BY <1>1, <1>2, <1>4 DEF Contract!Justified, Settled, Fits
<1>5. CASE req[r].reply.status \notin {200, 404}
  BY <1>1, <1>2, <1>5 DEF Contract!Justified, Settled
<1> QED
  BY <1>2, <1>3, <1>4, <1>5

\* A step that shows nobody anything new is, to the clients, at most learning.
LEMMA NothingShown ==
    ASSUME TypeOK', \A r \in Slots : req'[r].key = req[r].key /\ Shown(r)' = Shown(r),
           stored \subseteq stored', unlisted \subseteq unlisted'
    PROVE  Contract!Next
<1>1. stored' \subseteq Record /\ unlisted' \subseteq Bins
  BY DEF TypeOK
<1>2. /\ [r \in Slots |-> req'[r].key] = [r \in Slots |-> req[r].key]
      /\ [r \in Slots |-> Shown(r)'] = [r \in Slots |-> Shown(r)]
  OBVIOUS
<1> QED
  BY <1>1, <1>2 DEF Contract!Next, Contract!Learn

\* A step that shows the same reply to some who asked the same answers them.
LEMMA SomeShown ==
    ASSUME TypeOK, JustlyShown', NEW rs \in SUBSET Slots, NEW s \in rs,
           req[s].key \in Bins,
           \A r \in Slots : req'[r].key = req[r].key,
           \A r \in rs : /\ req[r].key = req[s].key
                         /\ req[r].stage # "done" /\ req'[r].stage = "done"
                         /\ req'[r].reply = req'[s].reply,
           \A r \in Slots \ rs : Shown(r)' = Shown(r),
           UNCHANGED <<stored, unlisted>>
    PROVE  Contract!Next
<1>1. \A r \in rs : Shown(r) = Contract!NoAnswer /\ Shown(r)' = req'[s].reply
  BY DEF Shown, Without, Contract!NoAnswer
<1>2. /\ req'[s].reply \in Contract!Replies
      /\ Contract!Justified(req[s].key, req'[s].reply)
  BY DEF JustlyShown, Shown, Contract!Justified, Contract!Replies
<1>3. PICK b \in Bins, reply \in Contract!Replies :
         b = req[s].key /\ reply = req'[s].reply
  BY <1>2
<1>4. \A r \in Slots : Shown(r)' =
         IF r \in rs THEN reply ELSE [q \in Slots |-> Shown(q)][r]
  BY <1>1, <1>3
<1>5. [r \in Slots |-> Shown(r)'] =
         [r \in Slots |-> IF r \in rs THEN reply ELSE [q \in Slots |-> Shown(q)][r]]
  BY <1>4
<1>6. /\ [r \in Slots |-> req'[r].key] = [r \in Slots |-> req[r].key]
      /\ \A r \in rs : /\ [q \in Slots |-> req[q].key][r] = b
                       /\ [q \in Slots |-> Shown(q)][r] = Contract!NoAnswer
  BY <1>1, <1>3
<1>7. Contract!Justified(b, reply)
  BY <1>2, <1>3
<1>8. Contract!Reply(rs, b)
  BY <1>3, <1>5, <1>6, <1>7 DEF Contract!Reply
<1>9. rs # {}
  OBVIOUS
<1> QED
  BY <1>3, <1>8, <1>9 DEF Contract!Next

\* A step after which some slots are idle and the others as before: they left.
LEMMA SomeLeave ==
    ASSUME NEW rs \in SUBSET Slots,
           \A r \in rs : req'[r] = Idle,
           \A r \in Slots \ rs : req'[r] = req[r],
           UNCHANGED <<stored, unlisted>>
    PROVE  Contract!Next
<1>1. [r \in Slots |-> req'[r].key] =
         [r \in Slots |-> IF r \in rs THEN None ELSE [q \in Slots |-> req[q].key][r]]
  BY DEF Idle
<1>2. [r \in Slots |-> Shown(r)'] =
         [r \in Slots |-> IF r \in rs THEN Contract!NoAnswer
                          ELSE [q \in Slots |-> Shown(q)][r]]
  BY DEF Idle, Shown, Without, Contract!NoAnswer
<1>3. Contract!Leave(rs)
  BY <1>1, <1>2 DEF Contract!Leave
<1> QED
  BY <1>3 DEF Contract!Next

\* To the clients, every step of the service is a step of the contract.
LEMMA ContractStep ==
    TypeOK /\ TypeOK' /\ StoredInv /\ AllSettled /\ JustlyShown' /\ [Next]_vars
        => [Contract!Next]_(Contract!vars)
<1> SUFFICES ASSUME TypeOK, TypeOK', StoredInv, AllSettled, JustlyShown', [Next]_vars
             PROVE  [Contract!Next]_(Contract!vars)
  OBVIOUS
<1>0. req \in [Slots -> Request]
  BY DEF TypeOK
<1> USE <1>0, StageNames
<1>1. ASSUME NEW r \in Slots, NEW i \in Instances, NEW b \in Bins, Arrive(r, i, b)
      PROVE  Contract!Next
  <2>1. req[r].key = None /\ Arrived(i, b).key = b
    BY <1>1 DEF Arrive, Arrived, AllSettled, Settled
  <2>2. [s \in Slots |-> req'[s].key] = [[s \in Slots |-> req[s].key] EXCEPT ![r] = b]
    <3>1. \A s \in Slots : req'[s].key = IF s = r THEN b ELSE req[s].key
      BY <1>1, <2>1 DEF Arrive
    <3>2. [[s \in Slots |-> req[s].key] EXCEPT ![r] = b]
             = [s \in Slots |-> IF s = r THEN b ELSE req[s].key]
      OBVIOUS
    <3> QED
      BY <3>1, <3>2
  <2>3. [s \in Slots |-> Shown(s)'] = [s \in Slots |-> Shown(s)]
    BY <1>1 DEF Arrive, Arrived, Shown
  <2>4. Contract!Ask(r, b)
    BY <1>1, <2>1, <2>2, <2>3 DEF Arrive, Contract!Ask
  <2> QED
    BY <2>4 DEF Contract!Next
<1>2. ASSUME NEW r \in Slots, HangUp(r) PROVE Contract!Next
  <2>1. \A s \in Slots : req'[s].key = req[s].key /\ Shown(s)' = Shown(s)
    BY <1>2, HangUpEffect DEF Shown
  <2> QED
    BY <1>2, <2>1, NothingShown DEF HangUp
<1>3. ASSUME NEW r \in Slots, NEW stage \in Stages \ {"idle", "done"}, req[r].stage # "done",
             Goto(r, stage) \/ \E reply \in Reply : Answer(r, stage, reply),
             stored \subseteq stored', unlisted \subseteq unlisted'
      PROVE  Contract!Next
  <2>1. \A s \in Slots : req'[s].key = req[s].key /\ Shown(s)' = Shown(s)
    BY <1>3, GotoEffect, AnswerEffect DEF Shown
  <2> QED
    BY <1>3, <2>1, NothingShown
<1>4. ASSUME NEW r \in Slots, NEW reply \in Reply, Answer(r, "done", reply),
             req[r].stage \notin {"idle", "done"}, UNCHANGED <<stored, unlisted>>
      PROVE  Contract!Next
  <2>1. /\ \A s \in Slots : req'[s].key = req[s].key
        /\ req'[r].stage = "done"
        /\ \A s \in Slots \ {r} : Shown(s)' = Shown(s)
    BY <1>4, AnswerEffect DEF Shown
  <2>2. req[r].key \in Bins
    BY <1>4 DEF TypeOK, InProgress
  <2> DEFINE rs == {r}
  <2>3. rs \in SUBSET Slots /\ r \in rs /\ \A s \in rs : s = r
    OBVIOUS
  <2>4. /\ \A s \in Slots \ rs : Shown(s)' = Shown(s)
        /\ \A s \in rs : /\ req[s].key = req[r].key
                         /\ req[s].stage # "done" /\ req'[s].stage = "done"
                         /\ req'[s].reply = req'[r].reply
    BY <1>4, <2>1, <2>3
  <2> HIDE DEF rs
  <2> QED
    BY <1>4, <2>1, <2>2, <2>3, <2>4, SomeShown
<1>5. ASSUME NEW r \in Slots, CacheGet(r) PROVE Contract!Next
  <2>1. cache[req[r].at][req[r].key] \in Record \cup {None}
    BY <1>5 DEF CacheGet, TypeOK, InProgress
  <2> QED
    BY <1>5, <1>3, <1>4, <2>1, ReplyType DEF CacheGet
<1>6. ASSUME NEW r \in Slots, MissesGet(r) PROVE Contract!Next
  BY <1>6, <1>3, <1>4, ReplyType DEF MissesGet
<1>7. ASSUME NEW r \in Slots, Do(r) PROVE Contract!Next
  BY <1>7, <1>3 DEF Do
<1>8. ASSUME NEW r \in Slots, Respond(r) PROVE Contract!Next
  <2> DEFINE rs == {r}
  <2>1. /\ rs \in SUBSET Slots /\ UNCHANGED <<stored, unlisted>>
        /\ \A s \in rs : req'[s] = Idle
        /\ \A s \in Slots \ rs : req'[s] = req[s]
    BY <1>8 DEF Respond
  <2> HIDE DEF rs
  <2> QED
    BY <2>1, SomeLeave
<1>9. ASSUME NEW r \in Slots, NEW source \in Sources, Leads(r), Enriched(r, source),
             stored \subseteq stored', unlisted \subseteq unlisted'
      PROVE  Contract!Next
  <2>1. RecordOf(req[r].key, source) \in Record
    BY <1>9 DEF TypeOK, InProgress, Leads, LeaderStages, RecordOf, Record
  <2> QED
    BY <1>9, <1>3, <2>1, ReplyType DEF Enriched, Leads
<1>10. ASSUME NEW r \in Slots, GetByBIN(r) PROVE Contract!Next
  <2>1. RowFor(rows, req[r].key) \in Record \cup {None}
    BY <1>10, RowForType DEF GetByBIN, TypeOK, InProgress
  <2>2. stored \subseteq stored' /\ unlisted \subseteq unlisted'
    BY <1>10 DEF GetByBIN
  <2> QED
    BY <1>10, <1>3, <2>1, <2>2, ReplyType DEF GetByBIN
<1>11. ASSUME NEW r \in Slots, HandyLookup(r) PROVE Contract!Next
  BY <1>11, <1>3, <1>9 DEF HandyLookup, Leads, Sources
<1>12. ASSUME NEW r \in Slots, BinlistLookup(r) PROVE Contract!Next
  <2>1. stored \subseteq stored' /\ unlisted \subseteq unlisted'
    BY <1>12 DEF BinlistLookup
  <2> QED
    BY <1>12, <1>3, <1>9, <2>1, ReplyType DEF BinlistLookup, Leads, Sources
<1>13. ASSUME NEW r \in Slots, Upsert(r) PROVE Contract!Next
  <2>1. req[r].reply.rec \in Record
    BY <1>13 DEF Upsert, TypeOK, InProgress
  <2>2. stored \subseteq stored' /\ unlisted \subseteq unlisted'
    BY <1>13 DEF Upsert, Store
  <2> QED
    BY <1>13, <1>3, <2>1, <2>2, ReplyType DEF Upsert
<1>14. ASSUME NEW r \in Slots, SetCache(r) PROVE Contract!Next
  BY <1>14, <1>3 DEF SetCache
<1>15. ASSUME NEW r \in Slots, SetMiss(r) PROVE Contract!Next
  BY <1>15, <1>3, ReplyType DEF SetMiss
<1>16. ASSUME NEW r \in Slots, Finish(r) PROVE Contract!Next
  <2> DEFINE rs == {s \in Slots : s = r \/ Waits(s, req[r].at, req[r].key)}
  <2>1. rs \in SUBSET Slots /\ r \in rs
    OBVIOUS
  <2>2. req[r].stage = "finish" /\ req[r].key \in Bins
    BY <1>16 DEF Finish, TypeOK, InProgress
  <2>3. \A s \in rs : /\ req[s].key = req[r].key
                      /\ req[s].stage # "done" /\ req'[s].stage = "done"
                      /\ req'[s].reply = req'[r].reply
    BY <1>16, <2>2, FinishEffect DEF Waits
  <2>4. /\ \A s \in Slots : req'[s].key = req[s].key
        /\ \A s \in Slots \ rs : Shown(s)' = Shown(s)
    BY <1>16, FinishEffect DEF Shown
  <2>5. UNCHANGED <<stored, unlisted>>
    BY <1>16 DEF Finish
  <2> HIDE DEF rs
  <2> QED
    BY <2>1, <2>2, <2>3, <2>4, <2>5, SomeShown
<1>17. ASSUME NEW i \in Instances, Crash(i) PROVE Contract!Next
  <2> DEFINE rs == {s \in Slots : req[s].at = i}
  <2>1. /\ rs \in SUBSET Slots /\ UNCHANGED <<stored, unlisted>>
        /\ \A s \in rs : req'[s] = Idle
        /\ \A s \in Slots \ rs : req'[s] = req[s]
    BY <1>17 DEF Crash
  <2> HIDE DEF rs
  <2> QED
    BY <2>1, SomeLeave
<1>18. ASSUME UNCHANGED req, stored \subseteq stored', unlisted \subseteq unlisted'
       PROVE  Contract!Next
  BY <1>18, NothingShown DEF Shown
<1> QED
  BY <1>1, <1>2, <1>5, <1>6, <1>7, <1>8, <1>10, <1>11, <1>12, <1>13, <1>14, <1>15,
     <1>16, <1>17, <1>18
     DEF Next, RequestStep, LeaderStep, Forget, ForgetMiss, Import, vars

\* The service, caches, flights, enrichment chain and instances included, shows
\* its clients nothing that the lookup contract does not allow.
THEOREM LookupImplementsContract == Spec => ImplementsContract
<1>1. Init => Contract!Init /\ AllSettled
  BY DEF Init, Idle, Without, Shown, AllSettled, Settled, Contract!Init, Contract!NoAnswer
<1>2. TypeOK /\ StoredInv /\ AllSettled /\ [Next]_vars => AllSettled'
  BY SettledStep
<1>3. TypeOK /\ StoredInv /\ AnswersInv /\ AllSettled => JustlyShown
  BY ShownIsJust
<1>4. TypeOK /\ TypeOK' /\ StoredInv /\ AllSettled /\ JustlyShown' /\ [Next]_vars
         => [Contract!Next]_(Contract!vars)
  BY ContractStep
<1> QED
  BY <1>1, <1>2, <1>3, <1>4, TypeCorrect, RecordsStored, AnswersFit, PTL
     DEF Spec, ImplementsContract, Contract!Spec
-----------------------------------------------------------------------------
(***************************************************************************)
(* No request runs in circles.                                             *)
(***************************************************************************)
\* How many steps a request can still need, its wait counted as one.
StepsFrom(stage) ==
    CASE stage = "cache" -> 10
      [] stage = "misses" -> 9
      [] stage = "do" -> 8
      [] stage = "db" -> 7
      [] stage = "handy" -> 6
      [] stage = "binlist" -> 5
      [] stage = "upsert" -> 4
      [] stage \in {"setcache", "setmiss"} -> 3
      [] stage \in {"wait", "finish"} -> 2
      [] stage = "done" -> 1
      [] OTHER -> 0
Left(r) == StepsFrom(req[r].stage)

Advances(r) ==
    req[r].stage # "idle" /\ req'[r].stage # req[r].stage => Left(r)' < Left(r)

\* Whatever a step changes of a request in progress, its own step or the end of
\* a flight it waits for, brings the request nearer to its end: no fallback
\* and no failure leads back, so a request takes at most ten steps.
RequestsAdvance == [][\A r \in Slots : Advances(r)]_vars

LEMMA StepNumbers ==
    /\ StepsFrom("cache") = 10 /\ StepsFrom("misses") = 9 /\ StepsFrom("do") = 8
    /\ StepsFrom("db") = 7 /\ StepsFrom("handy") = 6 /\ StepsFrom("binlist") = 5
    /\ StepsFrom("upsert") = 4 /\ StepsFrom("setcache") = 3 /\ StepsFrom("setmiss") = 3
    /\ StepsFrom("wait") = 2 /\ StepsFrom("finish") = 2
    /\ StepsFrom("done") = 1 /\ StepsFrom("idle") = 0
  BY DEF StepsFrom

LEMMA OwnStepAdvances ==
    ASSUME req \in [Slots -> Request], NEW s \in Slots, NEW r \in Slots,
           RequestStep(s), ~Respond(s), ~Finish(s)
    PROVE  Advances(r)
<1> USE StepNumbers DEF Advances, Left
<1>1. CASE r # s
  <2>1. req'[r] = req[r]
    BY <1>1 DEF RequestStep, LeaderStep, CacheGet, MissesGet, Do, GetByBIN, HandyLookup,
                BinlistLookup, Upsert, SetCache, SetMiss, Enriched, Goto, Answer
  <2> QED
    BY <2>1
<1>2. CASE r = s
  <2> USE DEF Goto, Answer, Enriched, Request
  <2>1. CASE CacheGet(r)
    <3>1. req[r].stage = "cache" /\ req'[r].stage \in {"misses", "done"}
      BY <2>1 DEF CacheGet
    <3> QED
      BY <3>1
  <2>2. CASE MissesGet(r) \/ Do(r)
    <3>1. \/ req[r].stage = "misses" /\ req'[r].stage \in {"do", "done"}
          \/ req[r].stage = "do" /\ req'[r].stage \in {"db", "wait"}
      BY <2>2 DEF MissesGet, Do
    <3> QED
      BY <3>1
  <2>3. CASE GetByBIN(r)
    <3>1. /\ req[r].stage = "db"
          /\ req'[r].stage \in {"handy", "binlist", "setcache", "setmiss", "finish"}
      BY <2>3 DEF GetByBIN
    <3> QED
      BY <3>1
  <2>4. CASE HandyLookup(r) \/ BinlistLookup(r)
    <3>1. \/ req[r].stage = "handy" /\ req'[r].stage \in {"upsert", "binlist"}
          \/ req[r].stage = "binlist" /\ req'[r].stage \in {"upsert", "setmiss", "finish"}
      BY <2>4 DEF HandyLookup, BinlistLookup
    <3> QED
      BY <3>1
  <2>5. CASE Upsert(r) \/ SetCache(r) \/ SetMiss(r)
    <3>1. \/ req[r].stage = "upsert" /\ req'[r].stage \in {"setcache", "finish"}
          \/ req[r].stage \in {"setcache", "setmiss"} /\ req'[r].stage = "finish"
      BY <2>5 DEF Upsert, SetCache, SetMiss
    <3> QED
      BY <3>1
  <2> QED
    BY <1>2, <2>1, <2>2, <2>3, <2>4, <2>5 DEF RequestStep, LeaderStep
<1> QED
  BY <1>1, <1>2

THEOREM RequestsGoForward == Spec => RequestsAdvance
<1>1. ASSUME TypeOK, [Next]_vars, NEW r \in Slots PROVE Advances(r)
  <2>0. req \in [Slots -> Request]
    BY <1>1 DEF TypeOK
  <2> USE <2>0, StepNumbers DEF Advances, Left
  <2>1. ASSUME NEW s \in Slots, NEW i \in Instances, NEW b \in Bins, Arrive(s, i, b)
        PROVE  Advances(r)
    BY <2>1 DEF Arrive
  <2>2. ASSUME NEW s \in Slots, HangUp(s) PROVE Advances(r)
    BY <2>2, HangUpEffect
  <2>3. ASSUME NEW s \in Slots, Respond(s) PROVE Advances(r)
    BY <2>3 DEF Respond, Idle
  <2>4. ASSUME NEW s \in Slots, Finish(s) PROVE Advances(r)
    <3>1. req[s].stage = "finish"
      BY <2>4 DEF Finish
    <3> QED
      BY <2>4, <3>1, FinishEffect DEF Waits
  <2>5. ASSUME NEW s \in Slots, RequestStep(s) PROVE Advances(r)
    BY <2>3, <2>4, <2>5, OwnStepAdvances
  <2>6. ASSUME NEW i \in Instances, Crash(i) PROVE Advances(r)
    <3>1. req'[r] = req[r] \/ req'[r].stage = "idle"
      BY <2>6 DEF Crash, Idle
    <3>2. req[r].stage \in Stages
      BY <2>0 DEF Request
    <3>3. \A stage \in Stages : stage # "idle" => StepsFrom(stage) > 0
      BY StepNumbers DEF Stages, LeaderStages
    <3> QED
      BY <3>1, <3>2, <3>3
  <2>7. CASE UNCHANGED req
    BY <2>7
  <2> QED
    BY <1>1, <2>1, <2>2, <2>5, <2>6, <2>7 DEF Next, Forget, ForgetMiss, Import, vars
<1>2. TypeOK /\ [Next]_vars => [\A r \in Slots : Advances(r)]_vars
  BY <1>1
<1> QED
  BY <1>2, TypeCorrect, PTL DEF Spec, RequestsAdvance
=============================================================================
