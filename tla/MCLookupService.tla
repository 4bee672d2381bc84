--------------------------- MODULE MCLookupService ---------------------------
(***************************************************************************)
(* Instances of LookupService for TLC.  The slots of a safety run are      *)
(* interchangeable.  b6 stands for a 6-digit BIN, b8 for an 8-digit BIN    *)
(* that begins with it.                                                    *)
(***************************************************************************)
EXTENDS LookupService, TLC

CONSTANTS b6, b8

OneBIN == {b6}
OneBINPrefix == [b \in OneBIN |-> b]
OneBINDatasets == {OneBIN}

TwoBINs == {b6, b8}
TwoBINsPrefix == [b \in TwoBINs |-> b6]
TwoBINsDatasets == {{b6}, {b8}}

SlotSymmetry == Permutations(Slots)
=============================================================================
