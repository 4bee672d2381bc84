---------------------------- MODULE DatasetRefresh ----------------------------
(***************************************************************************)
(* What the dataset importer promises everyone who reads the bins table: a *)
(* refresh is one step.  At any moment the table is what it was, or it has *)
(* a whole, valid dataset published into it; only enrichment writes single *)
(* rows in between.                                                        *)
(***************************************************************************)
EXTENDS BinTable, Integers, FiniteSets, Sequences

CONSTANTS
    Importers,  \* runs of the importer
    Files,      \* the datasets they may be given: sequences of rows
    BadRow      \* a row parseRow rejects; any other row is its BIN

VARIABLES
    rows,      \* the bins table
    imported,  \* the runs that have published their dataset
    latest     \* the BINs of the dataset published last

vars == <<rows, imported, latest>>

Rows(f, n) == {f[k] : k \in 1 .. n}
Dataset(f) == Rows(f, Len(f))

\* A dataset that may be published has rows, no bad one and no BIN twice.
Valid(f) ==
    /\ f # <<>>
    /\ BadRow \notin Dataset(f)
    /\ Cardinality(Dataset(f)) = Len(f)

Init ==
    /\ rows = EmptyTable
    /\ imported = {}
    /\ latest = {}

Publish(p, f) ==
    /\ p \notin imported
    /\ Valid(f)
    /\ rows' = Published(rows, Dataset(f))
    /\ imported' = imported \cup {p}
    /\ latest' = Dataset(f)

Enrich(b, source) ==
    /\ rows' = Upserted(rows, RecordOf(b, source))
    /\ UNCHANGED <<imported, latest>>

Next ==
    \/ \E p \in Importers, f \in Files : Publish(p, f)
    \/ \E b \in Bins, source \in EnrichmentSources : Enrich(b, source)

Spec == Init /\ [][Next]_vars
=============================================================================
