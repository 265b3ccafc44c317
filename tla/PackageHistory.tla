---------------------------- MODULE PackageHistory ----------------------------
(***************************************************************************)
(* What governance promises to the readers of a Workspace's package: its   *)
(* versions are numbered 1, 2, 3, ..., only the last one is active, and a  *)
(* version that was ever published keeps its contents.  Governance         *)
(* implements it.                                                          *)
(***************************************************************************)
EXTENDS Naturals

CONSTANTS Identity,     \* asset identities: type and canonical key
          MaxBatches    \* bound: proposal batches, so also versions and revisions

VARIABLES published,    \* the numbers of the versions there are
          active,       \* those that a query may be answered from
          contents      \* of every version: the revision number of each of its
                        \* assets, 0 for one it does not have

vars == <<published, active, contents>>

VersionNo == 1 .. MaxBatches
RevNo     == 0 .. MaxBatches

Init == published = {} /\ active = {} /\ contents = [v \in {} |-> 0]

\* The next version takes over from all the versions before it.
Publish(v) ==
  /\ published = 1 .. v - 1
  /\ published' = 1 .. v
  /\ active' = {v}
  /\ contents' \in [1 .. v -> [Identity -> RevNo]]
  /\ \A u \in published : contents'[u] = contents[u]

Next == \E v \in VersionNo : Publish(v)

Spec == Init /\ [][Next]_vars
=============================================================================
