----------------------------- MODULE MCJobLease -----------------------------
(* Small instances of JobLease for TLC. *)
EXTENDS JobLease, TLC

CONSTANTS w1, w2   \* the two workers, interchangeable

Symmetry == Permutations({w1, w2})
=============================================================================
