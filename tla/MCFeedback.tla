----------------------------- MODULE MCFeedback -----------------------------
(* Small instances of Feedback for TLC: two claims of one parsed file, whose chunk  *)
(* ids are the same, beside the lessons, whose are their own.                       *)
EXTENDS Feedback, TLC

CONSTANTS t1, a1, a2, c1, c2, file, file1, file2

MCTrace  == {t1}
MCActor  == {a1, a2}
MCClient == {c1, c2}
MCClaim  == {file1, file2}
MCNoClaim == {}

MCDocument == Claim \cup Lesson
MCChunkKey == [d \in MCDocument |-> IF d \in Claim THEN file ELSE d]
MCSize     == [d \in MCDocument |-> IF d \in Claim THEN 2 ELSE 1]

Symmetric == Permutations(MCActor) \cup Permutations(MCClient) \cup Permutations(MCClaim)
=============================================================================
