------------------------------ MODULE BinTable ------------------------------
(***************************************************************************)
(* The bins table of PostgreSQL and the three statements the program runs  *)
(* against its rows: the lookup, the enrichment upsert and the publication *)
(* of a local dataset.  A table is a function from BINs to records, None   *)
(* where there is no row.  The columns are abstracted to the two that the  *)
(* program's decisions depend on: the BIN of the row and its source, which *)
(* also stands for the content (each source has content of its own).       *)
(***************************************************************************)
CONSTANTS
    Bins,       \* the valid BINs: 6 or 8 digits
    PrefixOf,   \* the 6-digit prefix of an 8-digit BIN; a 6-digit BIN itself
    None        \* no row, no record, no slot, no instance

ASSUME PrefixAssumption ==
    /\ PrefixOf \in [Bins -> Bins]
    /\ \A b \in Bins : PrefixOf[PrefixOf[b]] = PrefixOf[b]

Sources == {"local", "handy_api", "binlist_net"}
EnrichmentSources == Sources \ {"local"}

Record == [bin : Bins, source : Sources]

ASSUME NoneAssumption == None \notin Record

Tables == [Bins -> Record \cup {None}]

RecordOf(b, source) == [bin |-> b, source |-> source]

EmptyTable == [b \in Bins |-> None]

RowsIn(rows) == {rows[b] : b \in Bins} \ {None}

(***************************************************************************)
(* SELECT ... WHERE bin = $1 OR (LENGTH($1) = 8 AND bin = LEFT($1, 6))     *)
(* ORDER BY LENGTH(bin) DESC LIMIT 1: the exact row wins, the row of the   *)
(* 6-digit prefix answers for an 8-digit BIN that has none.                *)
(***************************************************************************)
RowFor(rows, b) ==
    IF rows[b] # None THEN rows[b] ELSE rows[PrefixOf[b]]

(***************************************************************************)
(* INSERT ... ON CONFLICT (bin) DO UPDATE: whatever row was there goes.    *)
(***************************************************************************)
Upserted(rows, rec) == [rows EXCEPT ![rec.bin] = rec]

(***************************************************************************)
(* What the import of a dataset (the set of its BINs) commits: the merge   *)
(* writes a local row for every BIN of the dataset, the delete removes the *)
(* local rows the dataset no longer has.                                   *)
(***************************************************************************)
Merged(rows, dataset) ==
    [b \in Bins |-> IF b \in dataset THEN RecordOf(b, "local") ELSE rows[b]]

WithoutStale(rows, dataset) ==
    [b \in Bins |-> IF /\ rows[b] # None
                       /\ rows[b].source = "local"
                       /\ b \notin dataset
                    THEN None ELSE rows[b]]

Published(rows, dataset) == WithoutStale(Merged(rows, dataset), dataset)
=============================================================================
