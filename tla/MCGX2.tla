-------------------------------- MODULE MCGX2 --------------------------------
(* GX2 on a small instance.  The clients may be permuted: no action names  *)
(* one.                                                                    *)
EXTENDS GX2, TLC

Symmetry == Permutations(Client)
=============================================================================
