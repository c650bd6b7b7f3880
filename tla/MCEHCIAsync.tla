----------------------------- MODULE MCEHCIAsync -----------------------------
(***************************************************************************)
(* Small instances of EHCIAsync.                                           *)
(***************************************************************************)
EXTENDS EHCIAsync, TLC

(* qTDs are numbers, in this order in the free list at the start.          *)
PoolInOrder == SetToSortSeq(QTD, <)
=============================================================================
