----------------------------- MODULE MCPatchTxn -----------------------------
(* TLC instances of PatchTxn. *)
EXTENDS PatchTxn, TLC

MCFile == 1..2

MCSymmetry == Permutations(Daemon) \cup Permutations(Content)
=============================================================================
