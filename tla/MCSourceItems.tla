--------------------------- MODULE MCSourceItems ---------------------------
(* Small instances of SourceItems for TLC. *)
EXTENDS SourceItems, TLC

CONSTANTS i1, i2   \* the two items, interchangeable

Symmetry == Permutations({i1, i2})
=============================================================================
