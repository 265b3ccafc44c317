---------------------------- MODULE MCGovernance ----------------------------
(* Small instances of Governance for TLC. *)
EXTENDS Governance, TLC

\* Two ordinary identities, a and b, and the AMBIGUITY identities of disputes on them.
\* Payload "q" needs b; "p" stands alone.
MCIdentity  == {"a", "b", "a?", "b?"}
MCDispute   == {"a?", "b?"}
MCDisputeOf == [j \in {"a", "b"} |-> IF j = "a" THEN "a?" ELSE "b?"]
MCPayload   == {"p", "q"}
MCNeeds     == [x \in MCPayload |-> IF x = "q" THEN {"b"} ELSE {}]

Says(j, x) == [id |-> j, op |-> "CREATE", payload |-> x]
Drops(j)   == [id |-> j, op |-> "REMOVE", payload |-> "p"]

\* What one run may have staged: a fact, two facts, a conflict, removals.
MCCandidateSets ==
  {{Says("a", "p")}, {Says("b", "p")}, {Drops("a")}, {Drops("b")},
   {Says("a", "q"), Says("b", "p")}, {Says("a", "p"), Says("a", "q")}}
=============================================================================
