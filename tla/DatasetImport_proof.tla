------------------------- MODULE DatasetImport_proof -------------------------
(***************************************************************************)
(* Proofs about DatasetImport, for any BINs, files and batch size, and any *)
(* number of importer runs and API requests.                               *)
(***************************************************************************)
EXTENDS DatasetImport, TLAPS

USE FilesAssumption, NoneIsNoImporter, NoneAssumption, PrefixAssumption

Late == {"acking", "rollback", "audit"} \cup Exited

(***************************************************************************)
(* The inductive invariant: the stage holds what has been read, a merge    *)
(* follows a full and matching count, the rows a transaction has deleted   *)
(* are still the stale ones when it commits, and a run commits at most     *)
(* once.                                                                   *)
(***************************************************************************)
StageMatches(p) ==
    /\ at[p] <= Len(file[p])
    /\ staged[p] = Refresh!Rows(file[p], at[p])
    /\ pc[p] \in {"idle", "begin"} => at[p] = 0

Counted(p) ==
    pc[p] \in {"merge", "delete", "commit"} =>
        at[p] = Len(file[p]) /\ at[p] # 0 /\ Cardinality(staged[p]) = at[p]

DoomedIsStale(p) ==
    pc[p] = "commit" =>
        doomed[p] = {b \in Bins \ staged[p] : rows[b] # None /\ rows[b].source = "local"}

CommitsOnce(p) == <<p, "succeeded">> \in audit => pc[p] \in Late

RunInv(p) == StageMatches(p) /\ Counted(p) /\ DoomedIsStale(p) /\ CommitsOnce(p)

RefreshInv ==
    /\ OneWriter
    /\ \A p \in Importers : RunInv(p)
    /\ LocalMirrorsDataset

\* The stage names and the sets of them.
LEMMA StageNames ==
    /\ Stages = {"idle", "begin", "acking", "rollback", "audit", "stage", "merge",
                 "delete", "commit", "ok", "failed", "killed"}
    /\ InTransaction = {"stage", "merge", "delete", "commit"}
    /\ Late = {"acking", "rollback", "audit", "ok", "failed", "killed"}
  BY DEF Stages, InTransaction, Late, Exited

\* A file of any run, with its length and its rows.
LEMMA FileType ==
    ASSUME TypeOK, NEW p \in Importers
    PROVE  /\ file[p] \in Seq(Bins \cup {BadRow})
           /\ Len(file[p]) \in Nat
           /\ at[p] \in Nat
           /\ \A k \in 1 .. Len(file[p]) : file[p][k] \in Bins \cup {BadRow}
<1>1. file[p] \in Files \/ file[p] = <<>>
  BY DEF TypeOK
<1>2. file[p] \in Seq(Bins \cup {BadRow})
  <2>1. <<>> \in Seq(Bins \cup {BadRow})
    OBVIOUS
  <2> QED
    BY <1>1, <2>1
<1>3. at[p] \in Nat
  BY DEF TypeOK
<1> QED
  BY <1>2, <1>3

\* Staging a batch extends the rows that have been read.
LEMMA BatchRows ==
    ASSUME TypeOK, NEW p \in Importers, at[p] < Len(file[p])
    PROVE  /\ Upto(p) \in Nat /\ at[p] < Upto(p) /\ Upto(p) <= Len(file[p])
           /\ Refresh!Rows(file[p], Upto(p)) = Refresh!Rows(file[p], at[p]) \cup RowsOfBatch(p)
           /\ RowsOfBatch(p) \subseteq Bins \cup {BadRow}
<1>1. Upto(p) \in Nat /\ at[p] < Upto(p) /\ Upto(p) <= Len(file[p])
  BY FileType DEF Upto
<1>2. 1 .. Upto(p) = (1 .. at[p]) \cup Batch(p)
  <2>1. at[p] \in Nat
    BY FileType
  <2> QED
    BY <1>1, <2>1 DEF Batch
<1>3. Refresh!Rows(file[p], Upto(p)) = Refresh!Rows(file[p], at[p]) \cup RowsOfBatch(p)
  BY <1>2 DEF Refresh!Rows, RowsOfBatch
<1>4. RowsOfBatch(p) \subseteq Bins \cup {BadRow}
  BY <1>1, FileType DEF RowsOfBatch, Batch
<1> QED
  BY <1>1, <1>3, <1>4

(***************************************************************************)
(* Types.                                                                  *)
(***************************************************************************)
\* Every record the statements write is a record.
LEMMA RecordType ==
    ASSUME NEW b \in Bins, NEW s \in Sources
    PROVE  RecordOf(b, s) \in Record /\ RecordOf(b, s) # None
           /\ RecordOf(b, s).source = s /\ RecordOf(b, s).bin = b
  BY DEF RecordOf, Record

\* What a transaction commits is a table.
LEMMA DraftType == ASSUME TypeOK, NEW p \in Importers PROVE Draft(p) \in Tables
<1>1. "local" \in Sources
  BY DEF Sources
<1> QED
  BY <1>1, RecordType DEF TypeOK, Draft, Tables

\* Every step keeps the types.
LEMMA TypeStep == TypeOK /\ [Next]_vars => TypeOK'
<1> SUFFICES ASSUME TypeOK, [Next]_vars PROVE TypeOK'
  OBVIOUS
<1> USE StageNames
<1>1. ASSUME NEW p \in Importers, NEW f \in Files, Start(p, f) PROVE TypeOK'
  BY <1>1 DEF Start, Goto, TypeOK
<1>2. ASSUME NEW p \in Importers, GiveUp(p) PROVE TypeOK'
  BY <1>2 DEF GiveUp, Goto, TypeOK
<1>3. ASSUME NEW p \in Importers, Begin(p) \/ BeginFails(p) PROVE TypeOK'
  BY <1>3 DEF Begin, BeginFails, Goto, TypeOK
<1>4. ASSUME NEW p \in Importers, Stage(p) PROVE TypeOK'
  <2>1. RowsOfBatch(p) \subseteq Bins /\ Upto(p) \in Nat
    BY <1>4, BatchRows DEF Stage, BatchStages
  <2> QED
    BY <1>4, <2>1 DEF Stage, TypeOK
<1>5. ASSUME NEW p \in Importers, RejectBatch(p) \/ Count(p) \/ Merge(p) \/ Acknowledged(p) \/ Fail(p)
      PROVE  TypeOK'
  <2>1. pc' \in [Importers -> Stages]
    BY <1>5 DEF RejectBatch, Count, Merge, Acknowledged, Fail, Goto, TypeOK
  <2>2. UNCHANGED <<rows, lock, file, at, staged, doomed, audit, api, latest>>
    BY <1>5 DEF RejectBatch, Count, Merge, Acknowledged, Fail
  <2> QED
    BY <2>1, <2>2 DEF TypeOK
<1>6. ASSUME NEW p \in Importers, Delete(p) PROVE TypeOK'
  BY <1>6 DEF Delete, Goto, TypeOK
<1>7. ASSUME NEW p \in Importers, Commit(p) PROVE TypeOK'
  <2>1. rows' \in Tables
    BY <1>7, DraftType DEF Commit
  <2>2. lock' \in Importers \cup {None} /\ pc' \in [Importers -> Stages]
    BY <1>7 DEF Commit, Released, Goto, TypeOK
  <2>3. audit' \subseteq Importers \X {"succeeded", "failed"} /\ latest' \subseteq Bins
    BY <1>7 DEF Commit, TypeOK
  <2> QED
    BY <1>7, <2>1, <2>2, <2>3 DEF Commit, TypeOK
<1>8. ASSUME NEW p \in Importers, Rollback(p) \/ Kill(p) PROVE TypeOK'
  BY <1>8 DEF Rollback, Kill, Released, Goto, TypeOK
<1>9. ASSUME NEW p \in Importers, RecordFailure(p) PROVE TypeOK'
  <2>1. audit' \subseteq Importers \X {"succeeded", "failed"}
    BY <1>9 DEF RecordFailure, TypeOK
  <2> QED
    BY <1>9, <2>1 DEF RecordFailure, Goto, TypeOK
<1>10. ASSUME NEW r \in Requests, NEW b \in Bins, Miss(r, b) PROVE TypeOK'
  BY <1>10 DEF Miss, TypeOK
<1>11. ASSUME NEW r \in Requests, NEW source \in EnrichmentSources, Enrich(r, source) PROVE TypeOK'
  <2>1. api[r] \in Bins /\ source \in Sources
    BY <1>11 DEF Enrich, TypeOK, EnrichmentSources
  <2>2. rows' \in Tables
    BY <1>11, <2>1, RecordType DEF Enrich, Upserted, TypeOK, Tables
  <2>3. api' \in [Requests -> Bins \cup {None}]
    BY <1>11 DEF Enrich, TypeOK
  <2> QED
    BY <1>11, <2>2, <2>3 DEF Enrich, TypeOK
<1>12. ASSUME NEW r \in Requests, EnrichFails(r) PROVE TypeOK'
  BY <1>12 DEF EnrichFails, TypeOK
<1>13. CASE UNCHANGED vars
  BY <1>13 DEF vars, TypeOK
<1> QED
  BY <1>1, <1>2, <1>3, <1>4, <1>5, <1>6, <1>7, <1>8, <1>9, <1>10, <1>11, <1>12, <1>13
  DEF Next, RunStep

\* The importer's state is type correct.
THEOREM TypeCorrect == Spec => []TypeOK
<1>1. Init => TypeOK
  BY StageNames DEF Init, TypeOK, EmptyTable, Tables
<1> QED
  BY <1>1, TypeStep, PTL DEF Spec

(***************************************************************************)
(* The refresh.                                                            *)
(***************************************************************************)
\* Enrichment writes one row, which is then not local, and no row that a
\* transaction has written.
LEMMA EnrichWrites ==
    ASSUME TypeOK, NEW r \in Requests, NEW source \in EnrichmentSources, Enrich(r, source)
    PROVE  /\ api[r] \in Bins
           /\ rows' = [rows EXCEPT ![api[r]] = RecordOf(api[r], source)]
           /\ rows'[api[r]] # None /\ rows'[api[r]].source # "local"
           /\ \A b \in Bins : b # api[r] => rows'[b] = rows[b]
           /\ \A p \in Importers : api[r] \notin Written(p)
<1>1. api[r] \in Bins /\ source \in Sources /\ source # "local"
  BY DEF Enrich, TypeOK, EnrichmentSources
<1>2. rows' = [rows EXCEPT ![api[r]] = RecordOf(api[r], source)]
  BY <1>1, RecordType DEF Enrich, Upserted
<1>3. rows \in [Bins -> Record \cup {None}]
  BY DEF TypeOK, Tables
<1>4. \A p \in Importers : api[r] \notin Written(p)
  BY DEF Enrich, Unlocked
<1> QED
  BY <1>1, <1>2, <1>3, <1>4, RecordType

\* What COMMIT publishes is the merge of the staged dataset without the stale
\* rows, and it leaves local rows of that dataset only.
LEMMA CommitPublishes ==
    ASSUME TypeOK, NEW p \in Importers, pc[p] = "commit", DoomedIsStale(p)
    PROVE  /\ Draft(p) = Published(rows, staged[p])
           /\ \A b \in Bins : Draft(p)[b] # None /\ Draft(p)[b].source = "local" => b \in staged[p]
           /\ \A b \in staged[p] : Draft(p)[b] # None
<1>1. "local" \in Sources /\ staged[p] \subseteq Bins
  BY DEF Sources, TypeOK
<1>2. doomed[p] = {b \in Bins \ staged[p] : rows[b] # None /\ rows[b].source = "local"}
  BY DEF DoomedIsStale
<1>3. ASSUME NEW b \in Bins PROVE Draft(p)[b] = Published(rows, staged[p])[b]
  BY <1>1, <1>2, RecordType DEF Draft, Published, WithoutStale, Merged
<1>4. Draft(p) = Published(rows, staged[p])
  BY <1>3 DEF Draft, Published, WithoutStale
<1>5. \A b \in Bins : Draft(p)[b] # None /\ Draft(p)[b].source = "local" => b \in staged[p]
  BY <1>1, <1>2 DEF Draft
<1>6. \A b \in staged[p] : Draft(p)[b] # None
  BY <1>1, RecordType DEF Draft
<1> QED
  BY <1>4, <1>5, <1>6

\* The steps of a run that change nothing but where it stands, with the rows,
\* the lock and the audit of the others untouched.
LEMMA QuietStep ==
    ASSUME TypeOK, RefreshInv, NEW p \in Importers, NEW stage \in Stages, Goto(p, stage),
           UNCHANGED <<rows, lock, file, at, staged, doomed, audit, latest>>,
           stage \in InTransaction => lock = p,
           stage \in {"merge", "delete", "commit"} =>
               at[p] = Len(file[p]) /\ at[p] # 0 /\ Cardinality(staged[p]) = at[p],
           stage # "commit",
           stage \in {"idle", "begin"} => at[p] = 0,
           pc[p] \in Late => stage \in Late
    PROVE  RefreshInv'
<1>1. /\ pc'[p] = stage
      /\ \A q \in Importers : q # p => pc'[q] = pc[q]
  BY DEF Goto, TypeOK
<1>2. OneWriter'
  BY <1>1 DEF RefreshInv, OneWriter
<1>3. ASSUME NEW q \in Importers PROVE RunInv(q)'
  <2>1. RunInv(q)
    BY DEF RefreshInv
  <2>2. StageMatches(q)'
    BY <1>1, <2>1 DEF RunInv, StageMatches, Refresh!Rows
  <2>3. Counted(q)'
    BY <1>1, <2>1 DEF RunInv, Counted
  <2>4. DoomedIsStale(q)'
    BY <1>1, <2>1 DEF RunInv, DoomedIsStale
  <2>5. CommitsOnce(q)'
    BY <1>1, <2>1 DEF RunInv, CommitsOnce
  <2> QED
    BY <2>2, <2>3, <2>4, <2>5 DEF RunInv
<1>4. LocalMirrorsDataset'
  BY DEF RefreshInv, LocalMirrorsDataset
<1> QED
  BY <1>2, <1>3, <1>4 DEF RefreshInv

\* Every step keeps the invariant.
LEMMA RefreshStep == TypeOK /\ RefreshInv /\ [Next]_vars => RefreshInv'
<1> SUFFICES ASSUME TypeOK, RefreshInv, [Next]_vars PROVE RefreshInv'
  OBVIOUS
<1> USE StageNames
<1>1. ASSUME NEW p \in Importers, NEW f \in Files, Start(p, f) PROVE RefreshInv'
  <2>1. /\ file'[p] = f /\ pc'[p] = "begin" /\ at[p] = 0 /\ f \in Seq(Bins \cup {BadRow})
        /\ \A q \in Importers : q # p => pc'[q] = pc[q] /\ file'[q] = file[q]
        /\ UNCHANGED <<rows, lock, at, staged, doomed, audit, latest>>
    BY <1>1 DEF Start, Goto, TypeOK, RefreshInv, RunInv, StageMatches
  <2>2. staged[p] = {} /\ pc[p] = "idle"
    BY <1>1, <2>1 DEF Start, RefreshInv, RunInv, StageMatches, Refresh!Rows
  <2>3. OneWriter' /\ LocalMirrorsDataset'
    BY <2>1 DEF RefreshInv, OneWriter, LocalMirrorsDataset
  <2>4. StageMatches(p)'
    BY <2>1, <2>2 DEF StageMatches, Refresh!Rows
  <2>5. ASSUME NEW q \in Importers PROVE RunInv(q)'
    <3>1. RunInv(q)
      BY DEF RefreshInv
    <3>2. StageMatches(q)'
      BY <2>1, <2>4, <3>1 DEF RunInv, StageMatches, Refresh!Rows
    <3>3. Counted(q)' /\ DoomedIsStale(q)' /\ CommitsOnce(q)'
      BY <2>1, <2>2, <3>1 DEF RunInv, Counted, DoomedIsStale, CommitsOnce
    <3> QED
      BY <3>2, <3>3 DEF RunInv
  <2> QED
    BY <2>3, <2>5 DEF RefreshInv
<1>2. ASSUME NEW p \in Importers, GiveUp(p) PROVE RefreshInv'
  BY <1>2, QuietStep DEF GiveUp
<1>3. ASSUME NEW p \in Importers, Begin(p) PROVE RefreshInv'
  <2>1. /\ lock' = p /\ pc'[p] = "stage" /\ pc[p] = "begin"
        /\ \A q \in Importers : q # p => pc'[q] = pc[q]
        /\ UNCHANGED <<rows, file, at, staged, doomed, audit, latest>>
    BY <1>3 DEF Begin, Goto, TypeOK
  <2>2. \A q \in Importers : pc[q] \notin InTransaction
    BY <1>3 DEF Begin, RefreshInv, OneWriter
  <2>3. OneWriter' /\ LocalMirrorsDataset'
    BY <2>1, <2>2 DEF RefreshInv, OneWriter, LocalMirrorsDataset
  <2>4. ASSUME NEW q \in Importers PROVE RunInv(q)'
    <3>1. RunInv(q)
      BY DEF RefreshInv
    <3>2. StageMatches(q)'
      BY <2>1, <3>1 DEF RunInv, StageMatches, Refresh!Rows
    <3>3. Counted(q)' /\ DoomedIsStale(q)' /\ CommitsOnce(q)'
      BY <2>1, <3>1 DEF RunInv, Counted, DoomedIsStale, CommitsOnce
    <3> QED
      BY <3>2, <3>3 DEF RunInv
  <2> QED
    BY <2>3, <2>4 DEF RefreshInv
<1>4. ASSUME NEW p \in Importers, BeginFails(p) PROVE RefreshInv'
  BY <1>4, QuietStep DEF BeginFails
<1>5. ASSUME NEW p \in Importers, Stage(p) PROVE RefreshInv'
  <2>1. /\ pc[p] = "stage" /\ at'[p] = Upto(p) /\ staged'[p] = staged[p] \cup RowsOfBatch(p)
        /\ \A q \in Importers : q # p => at'[q] = at[q] /\ staged'[q] = staged[q]
        /\ UNCHANGED <<rows, lock, pc, file, doomed, audit, latest>>
        /\ at[p] < Len(file[p])
    BY <1>5 DEF Stage, TypeOK
  <2>2. OneWriter' /\ LocalMirrorsDataset'
    BY <2>1 DEF RefreshInv, OneWriter, LocalMirrorsDataset
  <2>3. StageMatches(p)'
    <3>1. StageMatches(p)
      BY DEF RefreshInv, RunInv
    <3>2. /\ Upto(p) <= Len(file[p])
          /\ Refresh!Rows(file[p], Upto(p)) = Refresh!Rows(file[p], at[p]) \cup RowsOfBatch(p)
      BY <2>1, BatchRows
    <3>3. staged'[p] = Refresh!Rows(file[p], Upto(p))
      BY <2>1, <3>1, <3>2 DEF StageMatches
    <3>4. at'[p] = Upto(p) /\ file' = file /\ pc' = pc /\ pc[p] = "stage"
      BY <2>1
    <3>5. staged'[p] = Refresh!Rows(file'[p], at'[p])
      BY <3>3, <3>4 DEF Refresh!Rows
    <3> QED
      BY <3>2, <3>4, <3>5 DEF StageMatches, Refresh!Rows
  <2>4. ASSUME NEW q \in Importers PROVE RunInv(q)'
    <3>1. RunInv(q)
      BY DEF RefreshInv
    <3>2. StageMatches(q)'
      BY <2>1, <2>3, <3>1 DEF RunInv, StageMatches, Refresh!Rows
    <3>3. Counted(q)' /\ DoomedIsStale(q)' /\ CommitsOnce(q)'
      BY <2>1, <3>1 DEF RunInv, Counted, DoomedIsStale, CommitsOnce
    <3> QED
      BY <3>2, <3>3 DEF RunInv
  <2> QED
    BY <2>2, <2>4 DEF RefreshInv
<1>6. ASSUME NEW p \in Importers, RejectBatch(p) \/ Fail(p) PROVE RefreshInv'
  <2>1. /\ Goto(p, "rollback")
        /\ UNCHANGED <<rows, lock, file, at, staged, doomed, audit, latest>>
    BY <1>6 DEF RejectBatch, Fail
  <2> QED
    BY <2>1, QuietStep
<1>7. ASSUME NEW p \in Importers, Count(p) PROVE RefreshInv'
  <2>1. lock = p
    BY <1>7 DEF Count, RefreshInv, OneWriter
  <2>2. CASE at[p] = 0 \/ Cardinality(staged[p]) # at[p]
    BY <1>7, <2>2, QuietStep DEF Count
  <2>3. CASE at[p] # 0 /\ Cardinality(staged[p]) = at[p]
    BY <1>7, <2>1, <2>3, QuietStep DEF Count
  <2> QED
    BY <2>2, <2>3
<1>8. ASSUME NEW p \in Importers, Merge(p) PROVE RefreshInv'
  <2>1. lock = p /\ RunInv(p) /\ pc[p] = "merge"
    BY <1>8 DEF Merge, RefreshInv, OneWriter
  <2> QED
    BY <1>8, <2>1, QuietStep DEF Merge, RunInv, Counted
<1>9. ASSUME NEW p \in Importers, Delete(p) PROVE RefreshInv'
  <2>1. /\ pc[p] = "delete" /\ pc'[p] = "commit"
        /\ doomed'[p] = {b \in Bins \ staged[p] : rows[b] # None /\ rows[b].source = "local"}
        /\ \A q \in Importers : q # p => pc'[q] = pc[q] /\ doomed'[q] = doomed[q]
        /\ UNCHANGED <<rows, lock, file, at, staged, audit, latest>>
    BY <1>9 DEF Delete, Goto, TypeOK
  <2>2. OneWriter' /\ LocalMirrorsDataset'
    BY <2>1 DEF RefreshInv, OneWriter, LocalMirrorsDataset
  <2>3. ASSUME NEW q \in Importers PROVE RunInv(q)'
    <3>1. RunInv(q)
      BY DEF RefreshInv
    <3>2. StageMatches(q)'
      BY <2>1, <3>1 DEF RunInv, StageMatches, Refresh!Rows
    <3>3. Counted(q)' /\ CommitsOnce(q)'
      BY <2>1, <3>1 DEF RunInv, Counted, CommitsOnce
    <3>4. DoomedIsStale(q)'
      BY <2>1, <3>1 DEF RunInv, DoomedIsStale
    <3> QED
      BY <3>2, <3>3, <3>4 DEF RunInv
  <2> QED
    BY <2>2, <2>3 DEF RefreshInv
<1>10. ASSUME NEW p \in Importers, Commit(p) PROVE RefreshInv'
  <2>1. /\ pc[p] = "commit" /\ pc'[p] = "acking" /\ rows' = Draft(p) /\ latest' = staged[p]
        /\ audit' = audit \cup {<<p, "succeeded">>} /\ lock = p /\ lock' = None
        /\ \A q \in Importers : q # p => pc'[q] = pc[q]
        /\ UNCHANGED <<file, at, staged, doomed>>
        /\ DoomedIsStale(p)
    BY <1>10 DEF Commit, Goto, Released, TypeOK, RefreshInv, RunInv, OneWriter
  <2>2. LocalMirrorsDataset'
    BY <2>1, CommitPublishes DEF LocalMirrorsDataset
  <2>3. \A q \in Importers : q # p => pc[q] \notin InTransaction
    BY <2>1 DEF RefreshInv, OneWriter
  <2>4. OneWriter'
    BY <2>1, <2>3 DEF OneWriter
  <2>5. ASSUME NEW q \in Importers PROVE RunInv(q)'
    <3>1. RunInv(q)
      BY DEF RefreshInv
    <3>2. StageMatches(q)'
      BY <2>1, <3>1 DEF RunInv, StageMatches, Refresh!Rows
    <3>3. Counted(q)' /\ DoomedIsStale(q)'
      BY <2>1, <2>3, <3>1 DEF RunInv, Counted, DoomedIsStale
    <3>4. CommitsOnce(q)'
      BY <2>1, <3>1 DEF RunInv, CommitsOnce
    <3> QED
      BY <3>2, <3>3, <3>4 DEF RunInv
  <2> QED
    BY <2>2, <2>4, <2>5 DEF RefreshInv
<1>11. ASSUME NEW p \in Importers, Acknowledged(p) PROVE RefreshInv'
  BY <1>11, QuietStep DEF Acknowledged
<1>12. ASSUME NEW p \in Importers, NEW stage \in {"audit", "killed"},
              Goto(p, stage), lock' = Released(p), pc[p] # "idle",
              UNCHANGED <<rows, file, at, staged, doomed, audit, latest>>
       PROVE  RefreshInv'
  <2>1. /\ pc'[p] = stage
        /\ \A q \in Importers : q # p => pc'[q] = pc[q]
        /\ lock # p => lock' = lock
    BY <1>12 DEF Goto, Released, TypeOK
  <2>2. OneWriter' /\ LocalMirrorsDataset'
    BY <1>12, <2>1 DEF RefreshInv, OneWriter, LocalMirrorsDataset
  <2>3. ASSUME NEW q \in Importers PROVE RunInv(q)'
    <3>1. RunInv(q)
      BY DEF RefreshInv
    <3>2. StageMatches(q)'
      BY <1>12, <2>1, <3>1 DEF RunInv, StageMatches, Refresh!Rows
    <3>3. Counted(q)' /\ DoomedIsStale(q)' /\ CommitsOnce(q)'
      BY <1>12, <2>1, <3>1 DEF RunInv, Counted, DoomedIsStale, CommitsOnce
    <3> QED
      BY <3>2, <3>3 DEF RunInv
  <2> QED
    BY <2>2, <2>3 DEF RefreshInv
<1>13. ASSUME NEW p \in Importers, Rollback(p) \/ Kill(p) PROVE RefreshInv'
  BY <1>12, <1>13 DEF Rollback, Kill
<1>14. ASSUME NEW p \in Importers, RecordFailure(p) PROVE RefreshInv'
  <2>1. /\ pc[p] = "audit" /\ pc'[p] = "failed"
        /\ \A q \in Importers : q # p => pc'[q] = pc[q]
        /\ UNCHANGED <<rows, lock, file, at, staged, doomed, latest>>
    BY <1>14 DEF RecordFailure, Goto, TypeOK
  <2>2. \A q \in Importers : <<q, "succeeded">> \in audit' => <<q, "succeeded">> \in audit
    BY <1>14 DEF RecordFailure
  <2>3. OneWriter' /\ LocalMirrorsDataset'
    BY <2>1 DEF RefreshInv, OneWriter, LocalMirrorsDataset
  <2>4. ASSUME NEW q \in Importers PROVE RunInv(q)'
    <3>1. RunInv(q)
      BY DEF RefreshInv
    <3>2. StageMatches(q)'
      BY <2>1, <3>1 DEF RunInv, StageMatches, Refresh!Rows
    <3>3. Counted(q)' /\ DoomedIsStale(q)' /\ CommitsOnce(q)'
      BY <2>1, <2>2, <3>1 DEF RunInv, Counted, DoomedIsStale, CommitsOnce
    <3> QED
      BY <3>2, <3>3 DEF RunInv
  <2> QED
    BY <2>3, <2>4 DEF RefreshInv
<1>15. ASSUME NEW r \in Requests, NEW source \in EnrichmentSources, Enrich(r, source)
       PROVE  RefreshInv'
  <2>1. UNCHANGED <<lock, pc, file, at, staged, doomed, audit, latest>>
    BY <1>15 DEF Enrich
  <2>2. OneWriter' /\ LocalMirrorsDataset'
    BY <1>15, <2>1, EnrichWrites DEF RefreshInv, OneWriter, LocalMirrorsDataset, TypeOK
  <2>3. ASSUME NEW p \in Importers PROVE RunInv(p)'
    <3>1. RunInv(p)
      BY DEF RefreshInv
    <3>2. StageMatches(p)' /\ Counted(p)' /\ CommitsOnce(p)'
      BY <2>1, <3>1 DEF RunInv, StageMatches, Counted, CommitsOnce, Refresh!Rows
    <3>3. ASSUME pc[p] = "commit"
          PROVE  doomed[p] = {b \in Bins \ staged[p] : rows'[b] # None /\ rows'[b].source = "local"}
      <4>1. api[r] \notin staged[p] \cup doomed[p]
        BY <1>15, <3>3, EnrichWrites DEF Written
      <4>2. doomed[p] = {b \in Bins \ staged[p] : rows[b] # None /\ rows[b].source = "local"}
        BY <3>1, <3>3 DEF RunInv, DoomedIsStale
      <4> QED
        BY <1>15, <4>1, <4>2, EnrichWrites
    <3> QED
      BY <2>1, <3>2, <3>3 DEF RunInv, DoomedIsStale
  <2> QED
    BY <2>2, <2>3 DEF RefreshInv
<1>16. ASSUME UNCHANGED <<rows, lock, pc, file, at, staged, doomed, audit, latest>>
       PROVE  RefreshInv'
  <2>1. OneWriter' /\ LocalMirrorsDataset'
    BY <1>16 DEF RefreshInv, OneWriter, LocalMirrorsDataset
  <2>2. ASSUME NEW q \in Importers PROVE RunInv(q)'
    BY <1>16 DEF RefreshInv, RunInv, StageMatches, Counted, DoomedIsStale, CommitsOnce, Refresh!Rows
  <2> QED
    BY <2>1, <2>2 DEF RefreshInv
<1> QED
  BY <1>1, <1>2, <1>3, <1>4, <1>5, <1>6, <1>7, <1>8, <1>9, <1>10, <1>11, <1>13, <1>14, <1>15, <1>16
  DEF Next, RunStep, Miss, EnrichFails, vars

\* The invariant holds of every run of the system.
LEMMA RefreshCorrect == Spec => [](TypeOK /\ RefreshInv)
<1>1. Init => RefreshInv
  <2> SUFFICES ASSUME Init PROVE RefreshInv
    OBVIOUS
  <2>1. OneWriter /\ LocalMirrorsDataset
    BY StageNames DEF Init, OneWriter, LocalMirrorsDataset, EmptyTable
  <2>2. ASSUME NEW p \in Importers PROVE RunInv(p)
    <3>1. StageMatches(p)
      BY DEF Init, StageMatches, Refresh!Rows
    <3>2. Counted(p) /\ DoomedIsStale(p) /\ CommitsOnce(p)
      BY DEF Init, Counted, DoomedIsStale, CommitsOnce
    <3> QED
      BY <3>1, <3>2 DEF RunInv
  <2> QED
    BY <2>1, <2>2 DEF RefreshInv
<1> QED
  BY <1>1, TypeCorrect, RefreshStep, PTL DEF Spec

\* Two refreshes never run at the same time.
THEOREM SingleWriter == Spec => []OneWriter
<1>1. RefreshInv => OneWriter
  BY DEF RefreshInv
<1> QED
  BY <1>1, RefreshCorrect, PTL

\* The local rows are those of the dataset committed last, and every BIN of it
\* has a row.
THEOREM TableMirrorsDataset == Spec => []LocalMirrorsDataset
<1>1. RefreshInv => LocalMirrorsDataset
  BY DEF RefreshInv
<1> QED
  BY <1>1, RefreshCorrect, PTL

\* No refresh takes the row of an enriched BIN away.
THEOREM EnrichmentIsKept == Spec => EnrichmentSurvives
<1>1. TypeOK /\ RefreshInv /\ [Next]_vars =>
        [\A b \in Bins : (rows[b] # None /\ rows[b].source \in EnrichmentSources)
                             => rows'[b] # None]_vars
  <2> SUFFICES ASSUME TypeOK, RefreshInv, [Next]_vars,
                      NEW b \in Bins, rows[b] # None, rows[b].source \in EnrichmentSources
               PROVE  rows'[b] # None
    OBVIOUS
  <2>1. rows[b].source # "local"
    BY DEF EnrichmentSources
  <2>2. ASSUME NEW p \in Importers, Commit(p) PROVE rows'[b] # None
    <3>1. rows' = Draft(p) /\ DoomedIsStale(p) /\ pc[p] = "commit"
      BY <2>2 DEF Commit, RefreshInv, RunInv
    <3>2. b \notin doomed[p]
      BY <2>1, <3>1 DEF DoomedIsStale
    <3>3. \A c \in staged[p] : rows'[c] # None
      BY <3>1, CommitPublishes
    <3> QED
      BY <3>1, <3>2, <3>3 DEF Draft
  <2>3. ASSUME NEW r \in Requests, NEW source \in EnrichmentSources, Enrich(r, source)
        PROVE  rows'[b] # None
    BY <2>3, EnrichWrites
  <2>4. CASE /\ ~\E p \in Importers : Commit(p)
             /\ ~\E r \in Requests, source \in EnrichmentSources : Enrich(r, source)
    <3>1. rows' = rows
      BY <2>4 DEF Next, RunStep, vars, Start, GiveUp, Begin, BeginFails, Stage, RejectBatch,
         Count, Merge, Delete, Acknowledged, Fail, Rollback, RecordFailure, Kill, Miss,
         EnrichFails
    <3> QED
      BY <3>1
  <2> QED
    BY <2>2, <2>3, <2>4
<1> QED
  BY <1>1, RefreshCorrect, PTL DEF Spec, EnrichmentSurvives

(***************************************************************************)
(* Refinement.                                                             *)
(***************************************************************************)
\* A step that leaves the table, the record of successes and the dataset
\* alone is no step of a refresh.
LEMMA Stutter ==
    ASSUME rows' = rows, latest' = latest, audit' = audit
    PROVE  UNCHANGED Refresh!vars
  BY DEF Refresh!vars, Imported

\* The cardinality DatasetRefresh counts with is the one the importer's model
\* counts with.
LEMMA SameCardinality == ASSUME NEW S PROVE Refresh!Cardinality(S) = Cardinality(S)
  BY DEF Cardinality, Refresh!Cardinality

\* Every step is a refresh, an enrichment or nothing.
LEMMA RefinementStep ==
    TypeOK /\ RefreshInv /\ [Next]_vars => [Refresh!Next]_Refresh!vars
<1> SUFFICES ASSUME TypeOK, RefreshInv, [Next]_vars
             PROVE  Refresh!Next \/ UNCHANGED Refresh!vars
  OBVIOUS
<1>1. ASSUME NEW p \in Importers, Commit(p) PROVE Refresh!Next
  <2>1. /\ pc[p] = "commit" /\ rows' = Draft(p) /\ latest' = staged[p]
        /\ audit' = audit \cup {<<p, "succeeded">>}
        /\ RunInv(p)
    BY <1>1 DEF Commit, RefreshInv
  <2>2. /\ at[p] = Len(file[p]) /\ at[p] # 0 /\ Cardinality(staged[p]) = at[p]
        /\ staged[p] = Refresh!Dataset(file[p])
    BY <2>1 DEF RunInv, Counted, StageMatches, Refresh!Dataset
  <2>3. file[p] # <<>>
    BY <2>2
  <2>4. BadRow \notin staged[p] /\ file[p] \in Files
    <3>1. staged[p] \subseteq Bins
      BY DEF TypeOK
    <3>2. file[p] \in Files \cup {<<>>}
      BY DEF TypeOK
    <3> QED
      BY <2>3, <3>1, <3>2
  <2>5. Refresh!Valid(file[p])
    <3>1. Cardinality(Refresh!Dataset(file[p])) = Len(file[p])
      BY <2>2
    <3>2. BadRow \notin Refresh!Dataset(file[p])
      BY <2>2, <2>4
    <3> QED
      BY <2>3, <3>1, <3>2, SameCardinality DEF Refresh!Valid
  <2>6. rows' = Refresh!Published(rows, Refresh!Dataset(file[p]))
    BY <2>1, <2>2, CommitPublishes DEF RunInv,
       Published, WithoutStale, Merged, RecordOf,
       Refresh!Published, Refresh!WithoutStale, Refresh!Merged, Refresh!RecordOf
  <2>7. p \notin Imported
    BY <2>1, StageNames DEF RunInv, CommitsOnce, Imported
  <2>8. Imported' = Imported \cup {p}
    BY <2>1 DEF Imported
  <2>9. Refresh!Publish(p, file[p])
    BY <2>1, <2>2, <2>5, <2>6, <2>7, <2>8 DEF Refresh!Publish
  <2> QED
    BY <2>4, <2>9 DEF Refresh!Next
<1>2. ASSUME NEW r \in Requests, NEW source \in EnrichmentSources, Enrich(r, source)
      PROVE  Refresh!Next
  <2>1. api[r] \in Bins /\ source \in Refresh!EnrichmentSources
    BY <1>2, EnrichWrites
    DEF EnrichmentSources, Sources, Refresh!EnrichmentSources, Refresh!Sources
  <2>2. Imported' = Imported /\ latest' = latest
    BY <1>2 DEF Enrich, Imported
  <2>3. rows' = Refresh!Upserted(rows, Refresh!RecordOf(api[r], source))
    BY <1>2 DEF Enrich, Upserted, RecordOf, Refresh!Upserted, Refresh!RecordOf
  <2>4. Refresh!Enrich(api[r], source)
    BY <2>2, <2>3 DEF Refresh!Enrich
  <2> QED
    BY <2>1, <2>4 DEF Refresh!Next
<1>3. ASSUME NEW p \in Importers, RecordFailure(p) PROVE UNCHANGED Refresh!vars
  <2>1. rows' = rows /\ latest' = latest
    BY <1>3 DEF RecordFailure
  <2>2. Imported' = Imported
    BY <1>3 DEF RecordFailure, Imported
  <2> QED
    BY <2>1, <2>2 DEF Refresh!vars
<1>4. CASE /\ ~\E p \in Importers : Commit(p) \/ RecordFailure(p)
           /\ ~\E r \in Requests, source \in EnrichmentSources : Enrich(r, source)
  <2>1. rows' = rows /\ latest' = latest /\ audit' = audit
    BY <1>4 DEF Next, RunStep, vars, Start, GiveUp, Begin, BeginFails, Stage, RejectBatch,
       Count, Merge, Delete, Acknowledged, Fail, Rollback, Kill, Miss, EnrichFails
  <2> QED
    BY <2>1, Stutter
<1> QED
  BY <1>1, <1>2, <1>3, <1>4

\* To every reader of the table a refresh is one step: a whole dataset, or
\* nothing, however statements fail, runs die and requests enrich rows.
THEOREM RefreshIsAtomic == Spec => ImplementsRefresh
<1>1. Init => Refresh!Init
  BY DEF Init, Refresh!Init, Imported, EmptyTable, Refresh!EmptyTable
<1> QED
  BY <1>1, RefreshCorrect, RefinementStep, PTL DEF Spec, Refresh!Spec, ImplementsRefresh

(***************************************************************************)
(* Progress, but for the fairness: a run that has begun comes nearer to    *)
(* its end with every step, and the lock is held by such a run only.       *)
(***************************************************************************)
Begun(p) == pc[p] \notin {"idle", "begin"}

\* The steps that are left to a run at most.
Left(p) ==
    CASE pc[p] = "stage" -> 7 + Len(file[p]) - at[p]
      [] pc[p] = "merge" -> 6
      [] pc[p] = "delete" -> 5
      [] pc[p] = "commit" -> 4
      [] pc[p] = "acking" -> 3
      [] pc[p] = "rollback" -> 2
      [] pc[p] = "audit" -> 1
      [] OTHER -> 0

Moves(p) == <<pc[p], at[p], staged[p], doomed[p]>>' # <<pc[p], at[p], staged[p], doomed[p]>>

\* No step of the clean-up or of the transaction leads back: whatever fails,
\* a run never stages, merges or commits again.
RunsAdvance == [][\A p \in Importers : Begun(p) /\ Moves(p) => Left(p)' < Left(p)]_vars

\* A run that has begun has steps left exactly until it has ended.
LeftInv ==
    \A p \in Importers :
        /\ Left(p) \in Nat
        /\ Begun(p) => (Left(p) = 0 <=> pc[p] \in Exited)

\* Whoever has the lock is in its transaction, or about to roll it back.
HolderRuns == lock # None => pc[lock] \in InTransaction \cup {"rollback"}

LEMMA LeftType == TypeOK /\ RefreshInv => LeftInv
<1> SUFFICES ASSUME TypeOK, RefreshInv, NEW p \in Importers
             PROVE  /\ Left(p) \in Nat
                    /\ Begun(p) => (Left(p) = 0 <=> pc[p] \in Exited)
  BY DEF LeftInv
<1>1. at[p] \in Nat /\ Len(file[p]) \in Nat /\ at[p] <= Len(file[p]) /\ pc[p] \in Stages
  BY FileType DEF TypeOK, RefreshInv, RunInv, StageMatches
<1>2. CASE pc[p] = "stage"
  BY <1>1, <1>2 DEF Left, Exited
<1>3. CASE pc[p] # "stage"
  BY <1>1, <1>3, StageNames DEF Left, Exited, Begun
<1> QED
  BY <1>2, <1>3

\* What a run can do once it has begun.
LEMMA StepOfRun ==
    ASSUME TypeOK, RefreshInv, NEW p \in Importers, RunStep(p) \/ Kill(p), Begun(p)
    PROVE  Left(p)' < Left(p)
<1>0. at[p] \in Nat /\ Len(file[p]) \in Nat /\ at[p] <= Len(file[p]) /\ pc[p] \in Stages
  BY FileType DEF TypeOK, RefreshInv, RunInv, StageMatches
<1>1. CASE Stage(p)
  <2>1. /\ pc'[p] = "stage" /\ pc[p] = "stage" /\ file'[p] = file[p]
        /\ at'[p] = Upto(p) /\ at[p] < Upto(p) /\ Upto(p) \in Nat
    BY <1>1, BatchRows DEF Stage, TypeOK
  <2> QED
    BY <1>0, <2>1 DEF Left
<1>2. CASE RejectBatch(p) \/ Count(p)
  <2>1. pc[p] = "stage" /\ pc'[p] \in {"rollback", "merge"}
    BY <1>2 DEF RejectBatch, Count, Goto, TypeOK
  <2> QED
    BY <1>0, <2>1 DEF Left
<1>3. CASE Merge(p) \/ Delete(p) \/ Commit(p) \/ Acknowledged(p) \/ Rollback(p)
           \/ RecordFailure(p)
  <2>1. \/ pc[p] = "merge" /\ pc'[p] = "delete"
        \/ pc[p] = "delete" /\ pc'[p] = "commit"
        \/ pc[p] = "commit" /\ pc'[p] = "acking"
        \/ pc[p] = "acking" /\ pc'[p] = "ok"
        \/ pc[p] = "rollback" /\ pc'[p] = "audit"
        \/ pc[p] = "audit" /\ pc'[p] = "failed"
    BY <1>3 DEF Merge, Delete, Commit, Acknowledged, Rollback, RecordFailure, Goto, TypeOK
  <2> QED
    BY <2>1 DEF Left
<1>4. CASE Fail(p)
  <2>1. pc[p] \in {"stage", "merge", "delete", "commit", "acking"} /\ pc'[p] = "rollback"
    BY <1>4, StageNames DEF Fail, Goto, TypeOK
  <2> QED
    BY <1>0, <2>1 DEF Left
<1>5. CASE Kill(p)
  <2>1. /\ pc[p] \in {"stage", "merge", "delete", "commit", "acking", "rollback", "audit"}
        /\ pc'[p] = "killed"
    BY <1>0, <1>5, StageNames DEF Kill, Goto, TypeOK, Begun, Exited
  <2> QED
    BY <1>0, <2>1 DEF Left
<1> QED
  BY <1>1, <1>2, <1>3, <1>4, <1>5 DEF RunStep

\* Nobody else moves a run.
LEMMA OwnSteps ==
    ASSUME TypeOK, Next, NEW p \in Importers, Begun(p), Moves(p)
    PROVE  RunStep(p) \/ Kill(p)
<1>1. ASSUME NEW q \in Importers, q # p,
             (\E f \in Files : Start(q, f)) \/ GiveUp(q) \/ Begin(q) \/ BeginFails(q)
             \/ RunStep(q) \/ Kill(q)
      PROVE  ~Moves(p)
  BY <1>1 DEF Start, GiveUp, Begin, BeginFails, RunStep, Stage, RejectBatch, Count, Merge,
              Delete, Commit, Acknowledged, Fail, Rollback, RecordFailure, Kill, Goto,
              TypeOK, Moves
<1>2. ASSUME (\E r \in Requests, b \in Bins : Miss(r, b))
             \/ (\E r \in Requests, source \in EnrichmentSources : Enrich(r, source))
             \/ (\E r \in Requests : EnrichFails(r))
      PROVE  ~Moves(p)
  BY <1>2 DEF Miss, Enrich, EnrichFails, Moves
<1>3. ~((\E f \in Files : Start(p, f)) \/ GiveUp(p) \/ Begin(p) \/ BeginFails(p))
  BY DEF Begun, Start, GiveUp, Begin, BeginFails
<1> QED
  BY <1>1, <1>2, <1>3 DEF Next

\* Every step of a run that has begun, its death included, brings its end nearer.
THEOREM RunsGoForward == Spec => RunsAdvance
<1>1. TypeOK /\ RefreshInv /\ [Next]_vars =>
         [\A p \in Importers : Begun(p) /\ Moves(p) => Left(p)' < Left(p)]_vars
  BY StepOfRun, OwnSteps
<1> QED
  BY <1>1, TypeCorrect, RefreshCorrect, PTL DEF Spec, RunsAdvance

LEMMA HolderStep == TypeOK /\ HolderRuns /\ [Next]_vars => HolderRuns'
<1> SUFFICES ASSUME TypeOK, HolderRuns, [Next]_vars PROVE HolderRuns'
  OBVIOUS
<1>0. pc \in [Importers -> Stages] /\ lock \in Importers \cup {None} /\ None \notin Importers
  BY DEF TypeOK
<1> USE <1>0, StageNames DEF HolderRuns, Goto
<1>1. ASSUME NEW p \in Importers, (\E f \in Files : Start(p, f)) \/ GiveUp(p) \/ BeginFails(p)
      PROVE  HolderRuns'
  BY <1>1 DEF Start, GiveUp, BeginFails
<1>2. ASSUME NEW p \in Importers, Begin(p) PROVE HolderRuns'
  BY <1>2 DEF Begin
<1>3. ASSUME NEW p \in Importers,
             Stage(p) \/ RejectBatch(p) \/ Count(p) \/ Merge(p) \/ Delete(p) \/ Fail(p)
      PROVE  HolderRuns'
  <2>1. lock' = lock /\ pc'[p] \in InTransaction \cup {"rollback"}
    BY <1>3 DEF Stage, RejectBatch, Count, Merge, Delete, Fail
  <2>2. \A q \in Importers \ {p} : pc'[q] = pc[q]
    BY <1>3 DEF Stage, RejectBatch, Count, Merge, Delete, Fail
  <2> QED
    BY <2>1, <2>2
<1>4. ASSUME NEW p \in Importers, Commit(p) \/ Rollback(p) \/ Kill(p) PROVE HolderRuns'
  <2>1. lock' = Released(p) /\ \A q \in Importers \ {p} : pc'[q] = pc[q]
    BY <1>4 DEF Commit, Rollback, Kill
  <2> QED
    BY <2>1 DEF Released
<1>5. ASSUME NEW p \in Importers, Acknowledged(p) \/ RecordFailure(p) PROVE HolderRuns'
  BY <1>5 DEF Acknowledged, RecordFailure
<1>6. CASE UNCHANGED <<pc, lock>>
  BY <1>6
<1> QED
  BY <1>1, <1>2, <1>3, <1>4, <1>5, <1>6
     DEF Next, RunStep, Miss, Enrich, EnrichFails, vars

\* Whoever waits for the lock waits for a run that has a bounded number of
\* steps left and is not waiting itself: nobody is left behind for ever by a
\* run that failed, was killed or lost the acknowledgement of its COMMIT.
THEOREM LockHoldersEnd == Spec => [](LeftInv /\ HolderRuns)
<1>1. Init => HolderRuns
  BY DEF Init, HolderRuns
<1> QED
  BY <1>1, LeftType, HolderStep, TypeCorrect, RefreshCorrect, PTL DEF Spec

(***************************************************************************)
(* What the exit of a run and its rows in dataset_imports say.             *)
(***************************************************************************)
\* A run that ends without an error has published its dataset and is recorded
\* so, and not as failed.
OkMeansImported ==
    \A p \in Importers :
        pc[p] = "ok" => <<p, "succeeded">> \in audit /\ <<p, "failed">> \notin audit

AuditOf(p) ==
    /\ pc[p] \in {"acking", "ok"} => <<p, "succeeded">> \in audit
    /\ <<p, "failed">> \in audit => pc[p] = "failed"
AuditInv == \A p \in Importers : AuditOf(p)

\* What a step of run p may do to the stages and to the rows of the audit.
AuditStepOf(p) ==
    \/ audit' = audit /\ pc'[p] \notin {"acking", "ok"}
    \/ pc'[p] = "acking" /\ audit' = audit \cup {<<p, "succeeded">>}
    \/ pc[p] = "acking" /\ pc'[p] = "ok" /\ audit' = audit
    \/ pc'[p] = "failed" /\ audit' = audit \cup {<<p, "failed">>}

LEMMA StepOfAudit ==
    TypeOK /\ [Next]_vars =>
        \/ pc' = pc /\ audit' = audit
        \/ \E p \in Importers :
              /\ pc[p] # "failed"
              /\ \A q \in Importers : q # p => pc'[q] = pc[q]
              /\ AuditStepOf(p)
<1> SUFFICES ASSUME TypeOK, [Next]_vars,
                    ~(pc' = pc /\ audit' = audit)
             PROVE  \E p \in Importers :
                       /\ pc[p] # "failed"
                       /\ \A q \in Importers : q # p => pc'[q] = pc[q]
                       /\ AuditStepOf(p)
  OBVIOUS
<1>0. pc \in [Importers -> Stages]
  BY DEF TypeOK
<1>1. PICK p \in Importers :
          \/ \E f \in Files : Start(p, f)
          \/ GiveUp(p) \/ Begin(p) \/ BeginFails(p) \/ Kill(p)
          \/ RejectBatch(p) \/ Count(p) \/ Merge(p) \/ Delete(p)
          \/ Commit(p) \/ Acknowledged(p) \/ Fail(p) \/ Rollback(p) \/ RecordFailure(p)
  BY DEF Next, RunStep, Stage, Miss, Enrich, EnrichFails, vars
<1> WITNESS p \in Importers
<1>2. pc[p] # "failed" /\ \E stage \in Stages : Goto(p, stage)
  BY <1>0, <1>1 DEF Start, GiveUp, Begin, BeginFails, Kill, RejectBatch, Count, Merge, Delete,
                    Commit, Acknowledged, Fail, Rollback, RecordFailure, InTransaction,
                    Exited, Stages
<1>3. \A q \in Importers : q # p => pc'[q] = pc[q]
  BY <1>0, <1>2 DEF Goto
<1>4. AuditStepOf(p)
  <2> USE <1>0 DEF AuditStepOf, Goto
  <2>1. CASE (\E f \in Files : Start(p, f)) \/ GiveUp(p) \/ Begin(p) \/ BeginFails(p) \/ Kill(p)
    BY <2>1 DEF Start, GiveUp, Begin, BeginFails, Kill
  <2>2. CASE RejectBatch(p) \/ Count(p) \/ Merge(p) \/ Delete(p) \/ Fail(p) \/ Rollback(p)
    BY <2>2 DEF RejectBatch, Count, Merge, Delete, Fail, Rollback
  <2>3. CASE Commit(p) \/ Acknowledged(p)
    BY <2>3 DEF Commit, Acknowledged
  <2>4. CASE RecordFailure(p)
    BY <2>4 DEF RecordFailure
  <2> QED
    BY <1>1, <2>1, <2>2, <2>3, <2>4
<1> QED
  BY <1>2, <1>3, <1>4

LEMMA AuditStep == TypeOK /\ AuditInv /\ [Next]_vars => AuditInv'
<1> SUFFICES ASSUME TypeOK, AuditInv, [Next]_vars, NEW q \in Importers PROVE AuditOf(q)'
  BY DEF AuditInv
<1>0. AuditOf(q)
  BY DEF AuditInv
<1>1. CASE pc' = pc /\ audit' = audit
  BY <1>0, <1>1 DEF AuditOf
<1>2. ASSUME NEW p \in Importers, pc[p] # "failed", AuditStepOf(p), p = q PROVE AuditOf(q)'
  BY <1>0, <1>2 DEF AuditOf, AuditStepOf
<1>3. ASSUME NEW p \in Importers, AuditStepOf(p), p # q, pc'[q] = pc[q] PROVE AuditOf(q)'
  BY <1>0, <1>3 DEF AuditOf, AuditStepOf
<1> QED
  BY <1>1, <1>2, <1>3, StepOfAudit

\* Only the failures are ambiguous: exit status 0 is true.
THEOREM SuccessIsTrue == Spec => []OkMeansImported
<1>1. Init => AuditInv
  BY DEF Init, AuditInv, AuditOf
<1>2. AuditInv => OkMeansImported
  BY DEF AuditInv, AuditOf, OkMeansImported
<1> QED
  BY <1>1, <1>2, AuditStep, TypeCorrect, PTL DEF Spec
=============================================================================
