---------------------------- MODULE MCRaSession ----------------------------
(* TLC instances of RaSession. *)
EXTENDS RaSession

MCFile == 1..2

\* "old" holds occurrences of the name, "new" is the same text after the rename.
MCText == {"old", "new"}
MCRenamed == [t \in MCText |-> "new"]

MCSymmetry == Permutations(Caller)
=============================================================================
