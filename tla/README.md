# A TLA+ model of beon-bin-api

beon-bin-api answers what is known about a Bank Identification Number (BIN): it
looks in an in-memory cache, in PostgreSQL and, when enrichment is on, at two
external providers whose answers it stores. A separate program, the importer,
republishes the local dataset. This directory holds TLA+ models of the parts
whose correctness depends on interleavings, failures, time and limits, the TLC
configurations that check them on small instances, and TLAPS proofs of the most
important results for every value of the constants.

    tlc -config LookupBurst.cfg MCLookupService.tla     # a run of the table below
    tlapm LookupService_proof.tla                       # a proof module

## The system and its parts

| Part | Code | State it keeps | Operations |
|---|---|---|---|
| Lookup service | `internal/service`, `internal/handler/bin.go` | response cache, negative cache, singleflight group | `Lookup`, `Stats`, `Close` |
| BIN table | `internal/repository/postgres`, `migrations/001` | `bins` | `GetByBIN`, `Upsert`, `Count` |
| HandyAPI quota | `TryConsumeEnrichmentQuota`, `migrations/003` | `enrichment_usage` | reserve one request of a month |
| Provider clients | `pkg/handyapi`, `pkg/binlist` | token bucket, failure count, `openUntil` | `Lookup` |
| TTL cache | `pkg/cache` | map, worker, stop channel | `Set`, `Get`, sweep, `Close` |
| Importer | `cmd/importer`, `DatasetImport` in the repository | staging table, open transaction, `dataset_imports` | begin, stage, commit, roll back, audit |
| Lifecycle and probes | `cmd/api/main.go`, `internal/handler/health.go` | signal context, readiness gauge | start, ready, shut down |
| Rate limiter | `internal/middleware/ratelimit.go` | global bucket, visitor map, overflow bucket | admit a request |
| Migrations | `internal/database` | `schema_migrations` | apply the embedded files once |
| Validation | `pkg/validator`, `validEnrichmentRecord`, `parseRow` | none | pure functions |
| Authentication, request ids, logging, metrics, configuration | the rest | none that a property depends on | |

How they interact. A request goroutine calls the lookup service, which calls its
two caches, joins or leads a singleflight call, reads the table, reserves quota,
calls a provider client and upserts the table. Several API instances share the
table and the quota counter and nothing else, so no cache hears of another
instance's upsert or of an import. The importer shares the table with all of
them. Clients hang up at any time; their context is the leader's context inside
the flight. Shutdown cancels all of them at once.

What is hard, and what makes each part correct:

* **Lookup service.** Interleaved requests for one BIN, a leader whose client
  goes away, failures in the middle of the chain, stale caches. Correct: no two
  unfinished flights of one BIN, nobody stranded, no unpersisted answer, no 404 without cause,
  no foreign record, eventual agreement with the table.
* **Quota.** Concurrent reservations, lost replies, the turn of the month.
  Correct: no request without a reservation; the counter within the limit.
* **Provider clients.** Results recorded out of order, boundary of the bucket.
  Correct: the rate, the meaning of an open circuit, recovery.
* **TTL cache.** The limit, eviction order, the worker's end. Correct: a bounded
  lossy map whose `Close` returns.
* **Importer.** Several statements and a crash between any two, a concurrent
  importer, concurrent upserts, a lost COMMIT acknowledgement. Correct: readers
  see a refresh as one step; the lock is given back.
* **Migrations.** Servers and importers of several builds start together; one
  may fail or die between applying a file and recording it, after it has sent
  COMMIT, or without giving its lock back. Correct: every version takes effect
  once and in order, the record tells the truth, starts do not collide and end.
* **Lifecycle.** Probes and requests against the signal, shutdown against its
  deadline. Correct: a server serves the schema of its own build, stays not ready
  once it says so, but for a probe that the signal overtook, and ends.
* **Rate limiter.** A bucket handed out under a lock and used outside it, a table
  of visitors at its limit, visitors that are forgotten and return. Correct: no
  client gets more than a token bucket gives from a bucket of its own, nor more
  than another gives from the shared one, however often its own is forgotten;
  places become free again.

## Modules

| Module | Models | Built on |
|---|---|---|
| `BinTable` | rows of `bins`, the lookup with its 6-digit fallback, the upsert, the two statements of a publication | |
| `LookupContract` | abstract: what a client of the lookup sees | |
| `LookupService` | `BINService.Lookup` and the handler's status mapping, on several instances; refines `LookupContract` | `BinTable`, `LookupContract` |
| `EnrichmentQuota` | the monthly quota | |
| `TokenBucket` | abstract: the most a bucket gives that holds and gains so much | |
| `ProviderClient` | breaker and token bucket of either client; refines `TokenBucket` | `TokenBucket` |
| `LossyCache` | abstract: a map that may forget | |
| `TTLCache` | `pkg/cache`; refines `LossyCache` | `LossyCache` |
| `DatasetRefresh` | abstract: a refresh in one step | `BinTable` |
| `DatasetImport` | the import transaction; refines `DatasetRefresh` | `BinTable`, `DatasetRefresh` |
| `SchemaHistory` | abstract: a schema that grows by the next version | |
| `Migrations` | start-up migrations of any number of processes; refines `SchemaHistory` | `SchemaHistory` |
| `Lifecycle` | the serving life of an API process: connections, probes, shutdown | |
| `Deployment` | servers and importers on one database: migrate, serve, stop, be killed | `Migrations`, `Lifecycle` |
| `RateLimiter` | global, per-client and overflow buckets, the table of visitors; refines `TokenBucket` twice | `TokenBucket` |
| `MC*` | constants and symmetry for TLC | the module they name |
| `MCApiProcess` | the instance for `Deployment` and `RateLimiter` | `Deployment`, `RateLimiter` |
| `*_proof` | theorems and proofs | the module they name |

A few operators stand beside a definition and vary it the way a slip in the code
would (`EveryCallerLeads` beside `Do`, `CountSkipped` beside `Count`, ...). No
specification uses them; substituting one breaks the property it is listed with
in `PROJECT.json`, which shows that the property depends on that piece of code.

**LookupService.** A slot is a request goroutine; `req[r].stage` names the next
call it makes, and every call of a cache, the group, the table or a provider is
one step, because another goroutine can run between any two. `flight[i][b]` is
the group's map of instance `i`. `Do` joins or leads; the leader goes through
`GetByBIN`, `HandyLookup`, `BinlistLookup`, `Upsert`, `SetCache` or `SetMiss`;
`Finish` ends the flight and delivers its result to everyone who waits, as the
library does in one critical section. `HangUp` makes the calls with the leader's
context fail from then on. A failed upsert may have been applied. `Forget` and
`ForgetMiss` stand for expiry and eviction, `Import` for another process's
publication, `Crash` for the loss of all memory of an instance. To a client all
of it is `LookupContract`: the reply of a request that is done is its answer,
`stored` what is known. A provider step
covers reservation, request and validation: their outcomes are what the chain
branches on, their own state is in `EnrichmentQuota` and `ProviderClient`. A
record is its BIN and its source, which stands for the content. `stored` and
`unlisted` are history.

**EnrichmentQuota.** Computing the period, the reservation statement and the
request are separate steps of a caller. The statement's row lock makes test and
increment one step. It may fail before or after being applied (`ReserveFails`);
`Refuse` is the client's refusal after a reservation, which the code does not
return. `sentFor` and `sentIn` count requests by reserved and by current month.

**ProviderClient.** `Send` is `allowRequest` and the departure of the request;
`Return` records the outcome under the mutex, in any order. Time is in ticks; the
bucket is kept in units of which `Refill` make a token. `HandyRules` selects what
counts as a failure: HandyAPI counts 401, 403 and unsuccessful bodies as well.
`spent` and `elapsed` belong to an observer who starts a window at any time.

**TTLCache.** `Set`, `Get` and a sweep hold the lock, so each is one step.
`left[k]` counts down to -1, an entry at 0 is still alive because `now.After` is
strict. Eviction picks any expired entry or any of those that expire first,
which covers the random order of map iteration. `Get` is a read, the operator
that the refinement maps.

**DatasetImport.** `pc[p]` is where run `p` stands. The files are sequences of
rows, read in batches. `Written(p)` are the rows its transaction has written,
for which an upsert of the API has to wait. `Draft(p)` is what COMMIT publishes.
`Fail` is the error of any statement or a signal, and the acknowledgement of
COMMIT is a step of its own that can be lost. `Kill` is the death of the process,
after which the server rolls back. A run happens once; several runs are several
elements of `Importers`. Dropping the row locks of a transaction that is about to
roll back is sound, as its writes are never seen.

**Migrations.** `pc[p]` is the statement process `p` sends next: wait for the
advisory lock, prepare (create the table, load the embedded files), then for each
file check, apply, insert the row, COMMIT, and finally the deferred unlock. A
build is the sequence of the contents of its versions 1, 2, ...; the checksum of
a file is its content. Only COMMIT changes what others see (`TakeEffect`).
`Fail` is any failing statement; a failed or interrupted COMMIT may have been
carried out. The lock belongs to the session, so a process that dies, gives up
waiting or loses the acknowledgement of its unlock leaves a session behind
(`Abandon`, `ghost`) that keeps the lock until `SessionEnds`. The embedded
versions are numbered without gaps, as the repository's are.

**Lifecycle.** `phase[s]` is where `run` stands after its set-up: serving, signal
received (which cancels the base context of all requests), marked not ready,
draining in `server.Shutdown`, closing. `conn[s][c]` is what the goroutine of a
connection does; a readiness probe that starts after the signal finds its context
cancelled, one that is already pinging may get either result and reports it
later. `SetReady` writes the gauge from probes and from `run` alike. `overlap`
remembers whether such a probe existed when the signal came. `ShutdownReturns` is
both ends of `server.Shutdown`: nobody is left, or the deadline is over and the
server is closed by force. A lookup's own steps are in `LookupService`,
where the cancelled context is `HangUp`.

**Deployment.** A process is launched with some build, migrates, and goes live
only after that; `Kill` may strike anywhere and takes the serving side with it.
A process that is not a server is an importer, which migrates and does its work.

**RateLimiter.** The three steps of a request are its three buckets and lock:
`GlobalAllow`, `ClientLimiter` (all of `clientLimiter`, under the mutex) and
`AllowOwn` or `AllowOverflow`, with other requests and time between them. Time is
in ticks, tokens per tick are whole. Ages saturate above the largest threshold
they are compared with. A forgotten bucket is made anew and full. `OwnGain` is
what a client can gain from that: its rate or, where a bucket refills more slowly
than clients are forgotten, a burst in each time to be forgotten; `Entitled` is
what it can count on, the tokens in its bucket and what being forgotten adds for
the ticks it has rested. `fromOwn` and `fromOverflow` belong to an observer who
counts what one client gets and starts a window at any time.

## What the runs check

| Run | Instance | Question |
|---|---|---|
| `LookupBurst` | 1 instance, 3 requests, 1 BIN, both providers, faults | one unfinished flight at a time, nobody stranded, 404 only when earned |
| `LookupPrefix` | 1 instance, 2 requests, an 8-digit BIN and its prefix, two datasets | right BIN answered, persisted before answered, the client's contract |
| `LookupServes` | 2 instances, 2 requests, 1 BIN, fair | every request answered, answers converge to the table |
| `LookupHangUp` | 1 instance, 2 requests, one provider, the database does not fail | **violated**: a provider's record is stored for all who share its flight |
| `QuotaShared` | 3 callers, limit 2, 3 months | reserved before sent, overshoot per month bounded |
| `QuotaCalendar` | 2 callers, limit 2, 2 months | **violated**: calendar month within the limit |
| `ClientShared` | 4 callers, burst 2, window 5, fair clock | rate, breaker, recovery |
| `ClientMinute` | 2 callers, burst 2, a minute is 14 ticks | **violated**: seven requests per minute |
| `CacheShared` | 3 keys, capacity 2, lifetime 1, 2 closers, fair | capacity, eviction, refinement, sweep, close |
| `ImportShared` | 2 runs, 1 API request, 3 BINs, 6 files, batches of 2, fair | atomic refresh, mirrored dataset, runs end |
| `ProcessShared` | a server and an importer, 3 builds, 2 connections; 2 clients, 1 place, 2 requests; fair | schema and record agree, starts end and do not collide, shutdown ends and stays not ready, the limiter gives no more than token buckets |
| `ImportAudit` | 1 run | **violated**: a run recorded as failed published nothing |

The four violated properties restate a sentence of the repository's own
documentation; `PROJECT.json` quotes each one under `findings` with what the run
shows. In short: a leader's hang-up turns into a 503 for the clients that share
its flight, with database and provider at work; requests reserved in one month
may leave in the next; the burst of the HandyAPI limiter comes on top of seven a
minute; and a lost acknowledgement of COMMIT leaves a live dataset recorded as
failed.

**Bounds and why they suffice.** Two requests are a leader and a follower; a
third adds a second follower and a request that arrives as the flight ends. Two
instances are what it takes for one to be stale against the other. Flights of
different keys meet only through the prefix rule, so two BINs related by it are
enough. Three callers against a limit of two have one too many; three months have
two turns. Four callers can have the three failures that open a circuit and a
success on the wire. Three keys against a capacity of two make an eviction that
has a choice. Two importer runs meet at the lock and follow each other; the six
files are an empty one, one with a bad row, a BIN twice within a batch and across
batches, and two disjoint good ones, so that each makes the other's rows stale.
`LastMonth` and `Window` are the only bounds that cut behaviours off; both end an
observer's horizon and restrict nothing inside it. The runs fix `EnrichEnabled`
to TRUE; the theorems hold for both values.

`ProcessShared` checks the deployment and the rate limiter in one run, as a sum:
a behaviour is one of the deployment or one of the limiter (`part` says which).
They share no variable and no property speaks of both, so every state a property
can tell apart occurs, and their product would only repeat it. A server and an
importer are two processes that start at the same time, and either may start
again with another build; more processes only make the queue for the lock longer.
The builds are an old one, its successor with a second file, and one in which the
first file was edited, which gives an upgrade, a downgrade and a checksum
mismatch. Two connections are a probe and a request, or two probes that
contradict each other. Two clients and one place make one of them use the
overflow bucket; two requests let one run between another's lookup of its bucket
and its use. A lifetime of two ticks, a pause of one and a burst of three refilled
by one a tick are the interesting case: a bucket used as late as it can be is not
full again when it is forgotten, so that forgetting gives tokens away and `OwnGain`
is more than the rate. A global bucket of four and a window of three ticks let a
client use up its bucket, use the first token it regains, be forgotten and use up
the next bucket: seven, where its rate alone would allow six.

**Fairness.** `LookupServes`: a running goroutine is scheduled and its calls
return (the database and HTTP clients have timeouts and contexts), and entries
expire (both caches have a TTL). Nothing makes clients call or hang up, importers
publish or instances crash. `ClientShared`: the clock advances. `CacheShared`:
the worker's ticker fires and its select does not pass over a closed channel for
ever. `ImportShared`: statements of a run that has begun return, and the lock,
once free, is granted to a run that waits; that the wait fails is not assumed.

`ProcessShared`:
statements of a start that holds the lock return; PostgreSQL ends the session of
a process that is gone and, because the queue of an advisory lock is fair, grants
a lock that is free again and again to everybody who goes on waiting (the only
strong fairness); the steps of a shutdown are taken and its timer fires. That
processes start, fail, are killed or are signalled, that clients come and that
handlers return is not assumed, and the rate limiter has no fairness at all.

`ImportShared` and `ImportAudit` do not check for deadlock: when every run has
ended and every BIN has a row, nothing is left to do.

## What is proved

The theorems hold for all values of the constants under the named assumptions of
the modules: `PrefixOf` is idempotent, `None` is neither a record nor a slot, an
instance, an importer or a BIN, a bad row is not a BIN, limits, batch sizes and
buckets are positive, the sets of callers of the quota, of clients and of keys
are finite, servers are processes. All of these are what the code, its
configuration or the environment ensures. One speaks of scheduling: `Tick` assumes
that a goroutine is not suspended for longer than `Pause` between the two calls of
the expression `clientLimiter(...).Allow()`, and `Pause` is less than `ClientTTL`,
ten minutes. That a visitor's bucket refills before it is forgotten is not
assumed: `loadConfig` accepts rates below burst/600 a second, where it does not,
and the theorems on the limiter hold there as well, with `OwnGain`. With the
defaults (10 tokens, 5 a second) `OwnGain` is the rate.

* **LookupService.** `TypeCorrect`; `FlightCorrect` ties the group's map to the
  goroutines (who is named leads, who leads is named, who waits has a flight),
  which is inductive where "one leader per BIN" alone is not: without it a `Do`
  could start a flight beside a leader the map has lost. `SingleFlight` follows.
  `PersistedFirst` needs that table, caches and replies hold stored records, and
  that a leader about to cache has a reply of status 200; the bound on the table
  and the caches is `RecordsStored`. `AnswersFit` carries
  what each stage promises of the reply (a row stands at its BIN, a cached record
  fits its key, a BIN about to be remembered as missing is unlisted) through the
  shared delivery; `RightBINAnswered` and `MissesAreEarned` follow.
  `LookupImplementsContract` puts them together: arrivals, answers (of one request
  or of all that share a flight), departures and crashes map to the steps of the
  contract, imports and upserts to what becomes known, everything else to a
  stutter. It needs one more invariant, that a reply without status 200 never
  carries a record once the request is done or about to finish.
* **EnrichmentQuota.** `QuotaHolds` is inductive once the callers that hold a
  reservation are counted with the requests sent; `SentWithinLimit` follows.
  `MonthsAreBounded` counts stragglers: a caller that still holds a period before
  month m can send once in m, and every Begin makes it current again. So the
  requests of m and its stragglers stay within those reserved for m and the
  number of callers.
* **TokenBucket.** `BucketKeepsRate`: what is taken and what is left stay within
  the capacity and what has been gained, for any parameters. The bucket is an
  upper bound, it may lose what is in it, so what implements it gives no more.
* **ProviderClient.** `RateCorrect` (spent plus credit within capacity plus
  time) and `BreakerCorrect` are inductive with the types: below the threshold the
  counter is the length of the real streak and the circuit is closed.
  `BreakerOpens` is the other direction, every third failure in a row opens it for
  the full time. `ClientIsTokenBucket` shows that mutex, circuit and concurrent
  callers leave a plain token bucket. `MinuteCorrect` is what is true in place of
  the violated `MinuteCap`: seven a minute and the burst.
* **TTLCache.** `StaysBounded` for any `MaxEntries`, also below one, by cases on
  whether the key is new and the map full; `CacheIsLossy` maps a `Set` to a `Put`
  that loses the victim and expiry and sweeps to a loss or a stutter;
  `EvictionIsFair` shows that a live entry is only lost as that victim.
  `CloseIsFinal`: when a `Close` has returned the worker is gone, and whoever
  still waits waits for a worker that has been told to stop.
* **DatasetImport.** The invariant says that the stage is the set of rows read,
  that a run past the count has as many staged BINs as rows, that at COMMIT the
  deleted rows are still the stale ones of the committed table, and that a run
  commits at most once. The third part is the heart: it is stable because
  upserts wait for rows the transaction has written and otherwise never write a
  local row, and because no other run commits. From it follow `SingleWriter`,
  `TableMirrorsDataset`, `EnrichmentIsKept` and `RefreshIsAtomic`, the refinement
  of `DatasetRefresh`. `OneWriter`, the property of `SingleWriter`, has no run of
  its own: the runs check what it is for. `SuccessIsTrue` bounds the violated
  `FailedMeansRolledBack`: exit status 0 always means a published dataset that is
  recorded as such and not as failed.
* **Migrations and Lifecycle** (`Deployment_proof`). The invariant has one holder
  of the lock at most, exactly the process between `Lock` and `Unlock` (or a ghost
  and nobody); the schema is numbered 1, 2, ... without gaps and the record is its
  set; a process in the loop has every earlier file of its build in effect, and
  one in a transaction works on a version nobody has recorded; one that is done has
  all its files in effect. The lock and the worker's position are the heart: they
  place the version it commits right after the schema's last, and without them
  `Record` could meet a recorded version. From it follow `RecordIsTrue`,
  `NoCollision`, and with the serving side `ServingIsMigrated`: the schema a
  server serves begins with the files of its own build, in their order and with
  their contents. So servers of different builds that serve at the same time agree
  on what both embed (`RollingUpdatesAgree`).
  `MigrationsImplementHistory` maps COMMIT, also one carried out for a process
  that failed or died, to an upgrade and all the rest to a stutter.
  `ShutdownStaysNotReady` needs that a probe that may still report success was
  there when the signal came.
* **RateLimiter.** The invariant gives a client without a place a full bucket, a
  visitor one that has refilled since it was last seen, but for a pause, and a
  request with a bucket a visitor seen within a pause. `LimiterIsTokenBuckets` maps
  the tokens of an abstract bucket to `Entitled`: an admission takes one of them
  (its visitor was seen within a pause, so its entitlement is its bucket), a tick
  adds no more than `OwnGain`, and a visitor that may be forgotten is entitled to a
  full bucket already, so that making it anew gives nothing. `ClientsAreBounded`
  follows with `BucketKeepsRate`. `RefillingKeepsRate` names the condition under
  which `OwnGain` is the documented rate. `OverflowIsForCrowds` needs that between
  cleanups nobody grows older than they allow.

Every safety property of a passing run is proved; the properties under fairness
(`Answered`, `Converges`, `Recovers`, `Swept`, `CloseReturns`, `RunsEnd`,
`StartsEnd`, `ShutdownEnds`) are out of the prover's reach and only
model-checked, on the bounds above.

What can be proved of four of them is the part that does not speak of fairness,
for any number of actors and any length of input. It has two halves. A measure:
every step that moves a request (`RequestsGoForward`), a run of the importer
(`RunsGoForward`) or a holder of the migration lock (`StartsGoForward`) takes it
strictly nearer to its end, whatever fails and whoever causes the step, so none of
them can go round in a circle. And the absence of an orphan: whoever waits waits
for somebody who has steps left. That is `NobodyIsStranded` for flights, the two
`LockHoldersEnd` for the importer's and the migrations' lock (the latter with the
second half of `StartsGoForward`: exactly the holders have statements left), and
`CloseIsFinal` for `Close`. What remains to be taken from the runs is that those
steps are in fact taken, which is fairness.

## What the properties do not say

* `NotReadyInShutdown` has an exception that the code has: `src/README.md` says
  that `/api/v1/ready` answers 503 while the process shuts down, which holds of
  every probe that starts after the signal, but a probe that had reached the
  database before may still answer 200 and set the gauge once more.
* At SIGTERM the base context is cancelled (`cmd/api/main.go:97`), and with it every
  request that `Shutdown` then waits for: a graceful shutdown may answer them with
  errors. The models contain it (`HangUp` of every request, `ReadProbe` after the
  signal); no document promises otherwise and no property forbids it.
* `OneFlightPerBIN` does not say that a burst of requests costs one read and one
  provider call: a request that passed both caches before a flight ended starts
  another one after it.
* A client can get its burst twice, from its own bucket and, when its place is
  taken, from the shared one; `IndividualBounded` bounds each of the two.
* The global bucket is drained before a client's own bucket is asked and is not
  given back, so one refused client can use it up. `GlobalAllow` has it; no
  document promises a share of it.
* An older build goes live on a newer schema: `ServesMigrated` says that the
  schema begins with the files the build itself embeds, and of what follows them
  only that nobody refuses to serve it.
* An import may commit between a lookup that found no row and the upsert of the
  provider's record, which then replaces the local row. Both models have the
  interleaving; the statement's ON CONFLICT says that the last writer wins.

## Not modelled

Record contents beyond BIN and source, JSON decoding, wording of errors and
logging have no influence on a decision beyond the outcomes the models
distinguish. Authentication compares a header with configured keys and keeps no
state. Counters and histograms are written once per request and read by nobody
in the program; the readiness gauge is in `Lifecycle`. Configuration and the route
table are built once, before anything runs concurrently; what `loadConfig`
guarantees (positive limits) appears as assumptions. `IsValidBIN` is the constant
`Bins`; the Luhn check has no caller; the field limits of `validEnrichmentRecord`
and `parseRow` are the choice between a valid and an invalid answer or row. These
are pure functions of one string, which table-driven tests reach better than a
model checker. `Stats` and `Count` only read. Scripts are outside the program.

What could be added: the quota composed with the two provider clients, to relate a
reservation to what the client's gate then does, and the import composed with the
lookup's caches in one model instead of `LookupService`'s one-step `Import`
(justified here by the proved refinement of `DatasetRefresh`).
