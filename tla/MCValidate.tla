----------------------------- MODULE MCValidate -----------------------------
(* TLC instances of Validate. *)
EXTENDS Validate, TLC

MCSymmetry == Permutations(File)
=============================================================================
