--------------------------- MODULE MCDatasetImport ---------------------------
(***************************************************************************)
(* The importer for TLC.  b6 is the prefix of the 8-digit BIN b8, c6 is    *)
(* another 6-digit BIN.  The files, in batches of two rows: two good and   *)
(* disjoint datasets, an empty one, one with a bad row, one with a BIN     *)
(* twice in a batch and one with a BIN twice across batches.               *)
(***************************************************************************)
EXTENDS DatasetImport, TLC

CONSTANTS b8, b6, c6

MCBins == {b8, b6, c6}
MCPrefixOf == (b8 :> b6) @@ (b6 :> b6) @@ (c6 :> c6)
GoodFiles == {<<b6, c6>>, <<b8>>}
AllFiles == GoodFiles \cup {<<>>, <<b6, BadRow>>, <<b6, b6>>, <<b8, c6, b8>>}
=============================================================================
