-------------------------- MODULE MCOHCIDoneQueue --------------------------
(* Instances of OHCIDoneQueue for TLC. *)
EXTENDS OHCIDoneQueue, TLC

(* TDs are interchangeable; used by the runs without liveness. *)
Symmetric == Permutations(TD)
=============================================================================
