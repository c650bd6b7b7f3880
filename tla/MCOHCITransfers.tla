--------------------------- MODULE MCOHCITransfers ---------------------------
(***************************************************************************)
(* Small instances of OHCITransfers.                                       *)
(***************************************************************************)
EXTENDS OHCITransfers, TLC

(* The order of the free list at start is of no interest; TDs are numbers. *)
PoolInOrder == SetToSortSeq(TD, <)

(* Endpoints are alike, and so are transfers.                              *)
Symmetry == Permutations(Endpoint) \cup Permutations(Transfer)
=============================================================================
