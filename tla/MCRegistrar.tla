---------------------------- MODULE MCRegistrar ----------------------------
(* The instance of the registrar for TLC: more mints than indexes, and     *)
(* supplies on both sides of the overflow.                                 *)
EXTENDS Registrar, TLC

MintSymmetry == Permutations(Mints)
=============================================================================
