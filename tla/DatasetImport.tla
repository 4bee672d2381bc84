---------------------------- MODULE DatasetImport ----------------------------
(***************************************************************************)
(* The dataset importer (cmd/importer and the import transaction of the    *)
(* repository): each run reads a CSV in batches into a staging table       *)
(* inside one READ COMMITTED transaction under an advisory lock, checks    *)
(* the row count, merges the stage into bins, deletes stale local rows and *)
(* commits.  Meanwhile API requests that found no row upsert enrichment    *)
(* results, one autocommitted statement each.  Statements fail, runs are   *)
(* killed, and the acknowledgement of COMMIT can be lost.                  *)
(***************************************************************************)
EXTENDS BinTable, Integers, FiniteSets, Sequences

CONSTANTS
    Importers,  \* runs of the importer
    Files,      \* the CSV files they may be given: sequences of rows
    BadRow,     \* a row the reader or parseRow rejects; any other is its BIN
    BatchSize,  \* rows per staging statement
    Requests    \* API requests that may enrich a BIN

ASSUME FilesAssumption ==
    /\ BadRow \notin Bins
    /\ Files \subseteq Seq(Bins \cup {BadRow})
    /\ BatchSize \in Nat \ {0}
ASSUME NoneIsNoImporter == None \notin Importers \cup Bins

VARIABLES
    rows,    \* the committed bins table
    lock,    \* the run that holds the advisory lock, or None
    pc,      \* pc[p]: where run p stands
    file,    \* file[p]: its CSV
    at,      \* at[p]: rows read and staged so far (metadata.RowsRead)
    staged,  \* staged[p]: the BINs in its staging table
    doomed,  \* doomed[p]: the rows its transaction has deleted
    audit,   \* the rows of dataset_imports: run and status
    api,     \* api[r]: the BIN request r is about to upsert, or None
    latest   \* history: the BINs of the dataset committed last

vars == <<rows, lock, pc, file, at, staged, doomed, audit, api, latest>>

InTransaction == {"stage", "merge", "delete", "commit"}
Exited == {"ok", "failed", "killed"}
Stages == {"idle", "begin", "acking", "rollback", "audit"} \cup InTransaction \cup Exited

Init ==
    /\ rows = EmptyTable
    /\ lock = None
    /\ pc = [p \in Importers |-> "idle"]
    /\ file = [p \in Importers |-> <<>>]
    /\ at = [p \in Importers |-> 0]
    /\ staged = [p \in Importers |-> {}]
    /\ doomed = [p \in Importers |-> {}]
    /\ audit = {}
    /\ api = [r \in Requests |-> None]
    /\ latest = {}

Goto(p, stage) == pc' = [pc EXCEPT ![p] = stage]
Released(p) == IF lock = p THEN None ELSE lock

\* The rows the transaction of p has written and nobody else can write until
\* it ends; one that is about to roll back will not have written them.
Written(p) == CASE pc[p] = "delete" -> staged[p]
                [] pc[p] = "commit" -> staged[p] \cup doomed[p]
                [] OTHER -> {}
-----------------------------------------------------------------------------
(***************************************************************************)
(* Before the transaction.                                                 *)
(***************************************************************************)
Start(p, f) ==
    /\ pc[p] = "idle"
    /\ file' = [file EXCEPT ![p] = f]
    /\ Goto(p, "begin")
    /\ UNCHANGED <<rows, lock, at, staged, doomed, audit, api, latest>>

\* Bad arguments, no database, or a file that cannot be read: no attempt is made.
GiveUp(p) ==
    /\ pc[p] = "idle"
    /\ Goto(p, "failed")
    /\ UNCHANGED <<rows, lock, file, at, staged, doomed, audit, api, latest>>

\* BEGIN, then pg_advisory_xact_lock waits for the run that holds the lock.
BeginUnlocked(p) ==
    /\ pc[p] = "begin"
    /\ lock' = p
    /\ Goto(p, "stage")
    /\ UNCHANGED <<rows, file, at, staged, doomed, audit, api, latest>>

Begin(p) ==
    /\ pc[p] = "begin"
    /\ lock = None
    /\ lock' = p
    /\ Goto(p, "stage")
    /\ UNCHANGED <<rows, file, at, staged, doomed, audit, api, latest>>

BeginFails(p) ==
    /\ pc[p] = "begin"
    /\ Goto(p, "audit")
    /\ UNCHANGED <<rows, lock, file, at, staged, doomed, audit, api, latest>>
-----------------------------------------------------------------------------
(***************************************************************************)
(* Inside the transaction.                                                 *)
(***************************************************************************)
Upto(p) == IF at[p] + BatchSize < Len(file[p]) THEN at[p] + BatchSize ELSE Len(file[p])
Batch(p) == at[p] + 1 .. Upto(p)
RowsOfBatch(p) == {file[p][k] : k \in Batch(p)}

\* The reader and parseRow refuse a bad row, PostgreSQL a statement that
\* would write one row twice.
BadRowsStaged(p) == Cardinality(RowsOfBatch(p)) = Cardinality(Batch(p))

BatchStages(p) ==
    /\ BadRow \notin RowsOfBatch(p)
    /\ Cardinality(RowsOfBatch(p)) = Cardinality(Batch(p))

\* A BIN that an earlier batch has staged is staged again without complaint.
Stage(p) ==
    /\ pc[p] = "stage" /\ at[p] < Len(file[p])
    /\ BatchStages(p)
    /\ at' = [at EXCEPT ![p] = Upto(p)]
    /\ staged' = [staged EXCEPT ![p] = @ \cup RowsOfBatch(p)]
    /\ UNCHANGED <<rows, lock, pc, file, doomed, audit, api, latest>>

RejectBatch(p) ==
    /\ pc[p] = "stage" /\ at[p] < Len(file[p])
    /\ ~BatchStages(p)
    /\ Goto(p, "rollback")
    /\ UNCHANGED <<rows, lock, file, at, staged, doomed, audit, api, latest>>

\* End of file: an empty dataset, or one whose staged rows are fewer than the
\* rows read, is refused.
CountSkipped(p) ==
    /\ pc[p] = "stage" /\ at[p] = Len(file[p])
    /\ Goto(p, IF at[p] = 0 THEN "rollback" ELSE "merge")
    /\ UNCHANGED <<rows, lock, file, at, staged, doomed, audit, api, latest>>

Count(p) ==
    /\ pc[p] = "stage" /\ at[p] = Len(file[p])
    /\ Goto(p, IF at[p] = 0 \/ Cardinality(staged[p]) # at[p] THEN "rollback" ELSE "merge")
    /\ UNCHANGED <<rows, lock, file, at, staged, doomed, audit, api, latest>>

Merge(p) ==
    /\ pc[p] = "merge"
    /\ Goto(p, "delete")
    /\ UNCHANGED <<rows, lock, file, at, staged, doomed, audit, api, latest>>

\* The DELETE sees the table as committed when it starts, and its own merge.
DeleteAnySource(p) ==
    /\ pc[p] = "delete"
    /\ doomed' = [doomed EXCEPT ![p] = {b \in Bins \ staged[p] : rows[b] # None}]
    /\ Goto(p, "commit")
    /\ UNCHANGED <<rows, lock, file, at, staged, audit, api, latest>>

Delete(p) ==
    /\ pc[p] = "delete"
    /\ doomed' = [doomed EXCEPT ![p] =
           {b \in Bins \ staged[p] : rows[b] # None /\ rows[b].source = "local"}]
    /\ Goto(p, "commit")
    /\ UNCHANGED <<rows, lock, file, at, staged, audit, api, latest>>

\* The record of success is part of the transaction.  COMMIT publishes what
\* the statements wrote and drops the locks.
Draft(p) ==
    [b \in Bins |-> IF b \in staged[p] THEN RecordOf(b, "local")
                    ELSE IF b \in doomed[p] THEN None ELSE rows[b]]

Commit(p) ==
    /\ pc[p] = "commit"
    /\ rows' = Draft(p)
    /\ audit' = audit \cup {<<p, "succeeded">>}
    /\ lock' = Released(p)
    /\ latest' = staged[p]
    /\ Goto(p, "acking")
    /\ UNCHANGED <<file, at, staged, doomed, api>>

Acknowledged(p) ==
    /\ pc[p] = "acking"
    /\ Goto(p, "ok")
    /\ UNCHANGED <<rows, lock, file, at, staged, doomed, audit, api, latest>>

\* A statement, COMMIT itself or its acknowledgement fails, or a signal
\* cancels the context.
Fail(p) ==
    /\ pc[p] \in InTransaction \cup {"acking"}
    /\ Goto(p, "rollback")
    /\ UNCHANGED <<rows, lock, file, at, staged, doomed, audit, api, latest>>
-----------------------------------------------------------------------------
(***************************************************************************)
(* The deferred clean-up: roll back (nothing, after a COMMIT), then record *)
(* the failure outside the transaction, which may fail as well.            *)
(***************************************************************************)
RollbackKeepsLock(p) ==
    /\ pc[p] = "rollback"
    /\ Goto(p, "audit")
    /\ UNCHANGED <<rows, lock, file, at, staged, doomed, audit, api, latest>>

Rollback(p) ==
    /\ pc[p] = "rollback"
    /\ lock' = Released(p)
    /\ Goto(p, "audit")
    /\ UNCHANGED <<rows, file, at, staged, doomed, audit, api, latest>>

RecordFailure(p) ==
    /\ pc[p] = "audit"
    /\ \/ audit' = audit \cup {<<p, "failed">>}
       \/ UNCHANGED audit
    /\ Goto(p, "failed")
    /\ UNCHANGED <<rows, lock, file, at, staged, doomed, api, latest>>

\* The process dies; the server rolls back and drops its locks.
Kill(p) ==
    /\ pc[p] \notin Exited \cup {"idle"}
    /\ lock' = Released(p)
    /\ Goto(p, "killed")
    /\ UNCHANGED <<rows, file, at, staged, doomed, audit, api, latest>>
-----------------------------------------------------------------------------
(***************************************************************************)
(* The API's side: a request that found no row enriches the BIN, and its   *)
(* upsert waits for a transaction that has written the row.                *)
(***************************************************************************)
Miss(r, b) ==
    /\ api[r] = None
    /\ RowFor(rows, b) = None
    /\ api' = [api EXCEPT ![r] = b]
    /\ UNCHANGED <<rows, lock, pc, file, at, staged, doomed, audit, latest>>

Unlocked(b) == \A p \in Importers : b \notin Written(p)

Enrich(r, source) ==
    /\ api[r] # None
    /\ Unlocked(api[r])
    /\ rows' = Upserted(rows, RecordOf(api[r], source))
    /\ api' = [api EXCEPT ![r] = None]
    /\ UNCHANGED <<lock, pc, file, at, staged, doomed, audit, latest>>

EnrichFails(r) ==
    /\ api[r] # None
    /\ api' = [api EXCEPT ![r] = None]
    /\ UNCHANGED <<rows, lock, pc, file, at, staged, doomed, audit, latest>>

\* A step of a run that has begun.
RunStep(p) ==
    \/ Stage(p) \/ RejectBatch(p) \/ Count(p) \/ Merge(p) \/ Delete(p)
    \/ Commit(p) \/ Acknowledged(p) \/ Fail(p)
    \/ Rollback(p) \/ RecordFailure(p)

Next ==
    \/ \E p \in Importers : (\E f \in Files : Start(p, f)) \/ GiveUp(p)
    \/ \E p \in Importers : Begin(p) \/ BeginFails(p) \/ RunStep(p) \/ Kill(p)
    \/ \E r \in Requests, b \in Bins : Miss(r, b)
    \/ \E r \in Requests, source \in EnrichmentSources : Enrich(r, source)
    \/ \E r \in Requests : EnrichFails(r)

Spec == Init /\ [][Next]_vars

(***************************************************************************)
(* Every statement of a run that has begun returns, and the server grants  *)
(* the advisory lock, once free, to a run that waits.  Nothing makes the   *)
(* wait for the lock fail: it has no timeout.                              *)
(***************************************************************************)
FairSpec == Spec /\ \A p \in Importers : WF_vars(Begin(p)) /\ WF_vars(RunStep(p))
-----------------------------------------------------------------------------
\* Every variable has its type.
TypeOK ==
    /\ rows \in Tables
    /\ lock \in Importers \cup {None}
    /\ pc \in [Importers -> Stages]
    /\ file \in [Importers -> Files \cup {<<>>}]
    /\ at \in [Importers -> Nat]
    /\ staged \in [Importers -> SUBSET Bins]
    /\ doomed \in [Importers -> SUBSET Bins]
    /\ audit \subseteq Importers \X {"succeeded", "failed"}
    /\ api \in [Requests -> Bins \cup {None}]
    /\ latest \subseteq Bins

\* One refresh at a time: a run inside its transaction holds the lock.
OneWriter == \A p \in Importers : pc[p] \in InTransaction => lock = p

\* The local rows of the table are rows of the dataset committed last, and
\* every BIN of that dataset still has a row: no mixture of two datasets, no
\* row of a dataset lost, whatever enrichment wrote during the refresh.
LocalMirrorsDataset ==
    /\ \A b \in Bins : rows[b] # None /\ rows[b].source = "local" => b \in latest
    /\ \A b \in latest : rows[b] # None

\* No step takes the row of an enriched BIN away: the stale delete decides on
\* the row it deletes, also when enrichment replaces rows during the refresh.
EnrichmentSurvives ==
    [][\A b \in Bins :
         (rows[b] # None /\ rows[b].source \in EnrichmentSources) => rows'[b] # None]_vars

\* A run that has started ends, however the runs before it ended: whoever has
\* had the lock gives it back.
RunsEnd == \A p \in Importers : pc[p] = "begin" ~> pc[p] \in Exited

\* README.md: a failure rolls the whole refresh back, so a run recorded as
\* failed has not published its dataset.
FailedMeansRolledBack ==
    \A p \in Importers : <<p, "failed">> \in audit => <<p, "succeeded">> \notin audit

(***************************************************************************)
(* The transaction is one step to every reader of the table.               *)
(***************************************************************************)
Imported == {p \in Importers : <<p, "succeeded">> \in audit}
Refresh == INSTANCE DatasetRefresh WITH imported <- Imported
ImplementsRefresh == Refresh!Spec
=============================================================================
