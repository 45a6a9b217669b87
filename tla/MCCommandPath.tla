--------------------------- MODULE MCCommandPath ---------------------------
(* The command path for TLC.                                                *)
EXTENDS CommandPath, TLC

SessionSymmetry == Permutations(Sessions)
=============================================================================
