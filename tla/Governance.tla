----------------------------- MODULE Governance -----------------------------
(***************************************************************************)
(* Governance of one Workspace: promotion of a run's candidates into a     *)
(* batch of proposals, the stewards' edits and decisions, and the build of *)
(* a package version when the last proposal of a batch is decided.         *)
(*                                                                         *)
(* promote() and review(), the build included, each run in one transaction *)
(* that starts by locking the Workspace row, so each is one step.  Batches *)
(* overlap freely: several are open at once and their proposals are        *)
(* decided in any order.                                                   *)
(*                                                                         *)
(* An asset_id is kept for its identity for good (UNIQUE on type and key,  *)
(* and a retired asset's id is taken up again), so the identity stands for *)
(* it.  Evidence is left to SourceItems.                                   *)
(***************************************************************************)
EXTENDS Naturals, FiniteSets

CONSTANTS Identity,       \* asset identities: type and canonical key
          Dispute,        \* the identities of AMBIGUITY assets, \subseteq Identity
          DisputeOf,      \* the AMBIGUITY identity for conflicting facts on an identity
          Payload,        \* payloads, compared by semantic hash
          Needs,          \* the identities a payload depends on
          None,
          CandidateSets,  \* the candidates a SUCCESS run may have staged
          MaxBatches      \* bound: proposal batches

ASSUME GovernanceAssumption ==
  /\ Dispute \subseteq Identity
  /\ DisputeOf \in [Identity \ Dispute -> Dispute]
  /\ \A j, k \in Identity \ Dispute : DisputeOf[j] = DisputeOf[k] => j = k
  /\ Needs \in [Payload -> SUBSET Identity]
  /\ None \notin Payload \cup {"CREATE", "UPDATE", "REMOVE"}
  /\ MaxBatches \in Nat \ {0}
  /\ CandidateSets \subseteq
       SUBSET [id : Identity \ Dispute, op : {"CREATE", "UPDATE", "REMOVE"}, payload : Payload]

VARIABLES
  bstatus,                \* proposal_batch.status
  pstatus, pop, reviewed, \* proposal: status, operation, reviewed_payload
  asset,                  \* context_asset: "none", or whether it is_active
  revPayload, revBatch,   \* context_asset_revision: payload, batch it was created from
  vstatus, manifest, vbatch  \* package_version, package_asset

proposalVars == <<bstatus, pstatus, pop, reviewed>>
packageVars  == <<asset, revPayload, revBatch, vstatus, manifest, vbatch>>
vars == <<proposalVars, packageVars>>

BatchId   == 1 .. MaxBatches
VersionNo == 1 .. MaxBatches
RevNo     == 1 .. MaxBatches
BatchStatus    == {"ABSENT", "READY_FOR_REVIEW", "NO_CHANGE", "BUILD_BLOCKED", "PACKAGED"}
ProposalStatus == {"NONE", "PROPOSED", "APPROVED", "REJECTED"}
Operation      == {"CREATE", "UPDATE", "REMOVE"}

TypeOK ==
  /\ bstatus \in [BatchId -> BatchStatus]
  /\ pstatus \in [BatchId -> [Identity -> ProposalStatus]]
  /\ pop \in [BatchId -> [Identity -> Operation \cup {None}]]
  /\ reviewed \in [BatchId -> [Identity -> Payload \cup {None}]]
  /\ \A b \in BatchId, j \in Identity :
       pstatus[b][j] # "NONE" => pop[b][j] # None /\ reviewed[b][j] # None
  /\ asset \in [Identity -> {"none", "active", "retired"}]
  /\ revPayload \in [Identity -> [RevNo -> Payload \cup {None}]]
  /\ revBatch \in [Identity -> [RevNo -> BatchId \cup {0}]]
  /\ vstatus \in [VersionNo -> {"ABSENT", "ACTIVE", "SUPERSEDED"}]
  /\ manifest \in [VersionNo -> [Identity -> RevNo \cup {0}]]
  /\ vbatch \in [VersionNo -> BatchId \cup {0}]

Init ==
  /\ bstatus  = [b \in BatchId |-> "ABSENT"]
  /\ pstatus  = [b \in BatchId |-> [j \in Identity |-> "NONE"]]
  /\ pop      = [b \in BatchId |-> [j \in Identity |-> None]]
  /\ reviewed = [b \in BatchId |-> [j \in Identity |-> None]]
  /\ asset    = [j \in Identity |-> "none"]
  /\ revPayload = [j \in Identity |-> [n \in RevNo |-> None]]
  /\ revBatch   = [j \in Identity |-> [n \in RevNo |-> 0]]
  /\ vstatus  = [v \in VersionNo |-> "ABSENT"]
  /\ manifest = [v \in VersionNo |-> [j \in Identity |-> 0]]
  /\ vbatch   = [v \in VersionNo |-> 0]

-----------------------------------------------------------------------------
(* ContextRepository.active *)

ActiveVersion == {v \in VersionNo : vstatus[v] = "ACTIVE"}

\* The revision of j in the active version, 0 when j is not in it.
Current(j) == IF \E v \in ActiveVersion : TRUE
              THEN manifest[CHOOSE v \in ActiveVersion : TRUE][j] ELSE 0

InForce(j) == Current(j) # 0

CurrentPayload(j) == IF InForce(j) THEN revPayload[j][Current(j)] ELSE None

-----------------------------------------------------------------------------
(* GovernanceRepository.promote *)

\* The candidates on c's identity, with the same operation and payload counted once.
VariantsOf(cands, c) == {d \in cands : d.id = c.id}

\* A group of one variant stands for itself; conflicting ones become an AMBIGUITY
\* whose payload lists the alternatives, in whatever order the rows came.
Merged(cands, alternatives) ==
  {c \in cands : VariantsOf(cands, c) = {c}}
    \cup {[id |-> DisputeOf[c.id], op |-> "CREATE", payload |-> alternatives] :
            c \in {d \in cands : VariantsOf(cands, d) # {d}}}

\* Removing what is not there, or stating what is, proposes nothing.
WorthProposing(c) ==
  IF c.op = "REMOVE" THEN InForce(c.id) ELSE CurrentPayload(c.id) # c.payload

OperationFor(c) ==
  CASE c.op = "REMOVE"                      -> "REMOVE"
    [] c.op # "REMOVE" /\ InForce(c.id)     -> "UPDATE"
    [] c.op # "REMOVE" /\ ~InForce(c.id)    -> "CREATE"

\* The batch of one SUCCESS run; a run that has its batch keeps it.
Promote(b, cands, alternatives) ==
  LET resolved == {c \in Merged(cands, alternatives) : WorthProposing(c)}
      On(j)    == {c \in resolved : c.id = j}
      The(j)   == CHOOSE c \in On(j) : TRUE
  IN  /\ bstatus[b] = "ABSENT"
      /\ \A a \in BatchId : a < b => bstatus[a] # "ABSENT"
      /\ bstatus' = [bstatus EXCEPT ![b] = IF resolved = {} THEN "NO_CHANGE" ELSE "READY_FOR_REVIEW"]
      /\ pstatus' = [pstatus EXCEPT ![b] =
                       [j \in Identity |-> IF On(j) = {} THEN "NONE" ELSE "PROPOSED"]]
      /\ pop' = [pop EXCEPT ![b] =
                   [j \in Identity |-> IF On(j) = {} THEN None ELSE OperationFor(The(j))]]
      /\ reviewed' = [reviewed EXCEPT ![b] =
                        [j \in Identity |-> IF On(j) = {} THEN None ELSE The(j).payload]]
      /\ UNCHANGED packageVars

-----------------------------------------------------------------------------
(* GovernanceRepository.review and PackageBuilder.build *)

\* Reviewable, had the status not been looked at again (a faulty variant).
ReviewableTwice(b, j) == pstatus[b][j] # "NONE"

\* Resolved proposals cannot be changed.
Reviewable(b, j) == pstatus[b][j] = "PROPOSED"

\* Acceptable, had a request without a payload been let through (a faulty variant).
AcceptableEmpty(p) == p \in Payload \cup {None}

\* An edited payload is required.
Acceptable(p) == p \in Payload

\* EDIT replaces the payload, never the identity.
Edit(b, j, p) ==
  /\ Reviewable(b, j) /\ Acceptable(p)
  /\ reviewed' = [reviewed EXCEPT ![b][j] = p]
  /\ UNCHANGED <<bstatus, pstatus, pop, packageVars>>

\* The approved proposals of b once j is decided.
ApprovedWith(b, j, decision) ==
  {k \in Identity : \/ k # j /\ pstatus[b][k] = "APPROVED"
                    \/ k = j /\ decision = "APPROVED"}

(* Below, A is that set: what b's build has to put in force. *)

\* max(revision_no), 0 when the asset has none.
LastRevision(j) ==
  CHOOSE n \in RevNo \cup {0} :
    /\ n # 0 => revPayload[j][n] # None
    /\ \A m \in RevNo : revPayload[j][m] # None => m <= n

\* Effective, had a retired asset started again at revision 1 (a faulty variant).
EffectiveFromOne(b, A, j) ==
  CASE j \notin A                      -> Current(j)
    [] j \in A /\ pop[b][j] = "REMOVE" -> 0
    [] j \in A /\ pop[b][j] = "UPDATE" -> Current(j) + 1
    [] j \in A /\ pop[b][j] = "CREATE" -> 1

\* Effective, had the manifest been started afresh (a faulty variant).
EffectiveDelta(b, A, j) ==
  CASE j \notin A                      -> 0
    [] j \in A /\ pop[b][j] = "REMOVE" -> 0
    [] j \in A /\ pop[b][j] = "UPDATE" -> Current(j) + 1
    [] j \in A /\ pop[b][j] = "CREATE" -> LastRevision(j) + 1

\* The revision of j in the manifest b builds from the active one.
Effective(b, A, j) ==
  CASE j \notin A                      -> Current(j)
    [] j \in A /\ pop[b][j] = "REMOVE" -> 0
    [] j \in A /\ pop[b][j] = "UPDATE" -> Current(j) + 1
    [] j \in A /\ pop[b][j] = "CREATE" -> LastRevision(j) + 1

Changed(b, A) == {j \in A : pop[b][j] # "REMOVE"}

EffectivePayload(b, A, j) == IF j \in Changed(b, A) THEN reviewed[b][j] ELSE CurrentPayload(j)

\* UPDATE and REMOVE find their target still active, CREATE finds its identity free.
TargetsFit(b, A) == \A j \in A : InForce(j) <=> pop[b][j] \in {"UPDATE", "REMOVE"}

\* NeedsMet, had only the changed assets been validated (a faulty variant).
NeedsMetByChanges(b, A) ==
  \A j \in Changed(b, A) : \A k \in Needs[reviewed[b][j]] : Effective(b, A, k) # 0

\* validate_effective, over the whole effective set: dependencies and entity references.
NeedsMet(b, A) ==
  \A j \in Identity : Effective(b, A, j) # 0 =>
    \A k \in Needs[EffectivePayload(b, A, j)] : Effective(b, A, k) # 0

\* validate_effective also checks mappings and SQL against the source schemas of
\* the moment, which may have changed: schemasFit is what it finds.
Valid(b, A, schemasFit) == TargetsFit(b, A) /\ NeedsMet(b, A) /\ schemasFit

NewVersion == IF ActiveVersion = {} THEN 1 ELSE (CHOOSE v \in ActiveVersion : TRUE) + 1

\* The unique constraints that the inserts of a build must meet, or the review is
\* rolled back.
InsertsFit(b, A) ==
  /\ NewVersion \in VersionNo /\ vstatus[NewVersion] = "ABSENT"
  /\ \A j \in Changed(b, A) :
       /\ Effective(b, A, j) \in RevNo /\ revPayload[j][Effective(b, A, j)] = None
       /\ pop[b][j] = "CREATE" => asset[j] # "active"

\* Superseded, had the old version been left as it was (a faulty variant).
SupersededNever(v) == vstatus[v]

Superseded(v) == IF vstatus[v] = "ACTIVE" THEN "SUPERSEDED" ELSE vstatus[v]

Materialize(b, A) ==
  LET new(j, n) == j \in Changed(b, A) /\ n = Effective(b, A, j)
  IN  /\ asset' = [j \in Identity |-> CASE j \in Changed(b, A)     -> "active"
                                        [] j \in A \ Changed(b, A) -> "retired"
                                        [] j \notin A              -> asset[j]]
      /\ revPayload' = [j \in Identity |-> [n \in RevNo |->
                          IF new(j, n) THEN reviewed[b][j] ELSE revPayload[j][n]]]
      /\ revBatch' = [j \in Identity |-> [n \in RevNo |->
                        IF new(j, n) THEN b ELSE revBatch[j][n]]]
      /\ vstatus' = [v \in VersionNo |-> IF v = NewVersion THEN "ACTIVE" ELSE Superseded(v)]
      /\ manifest' = [manifest EXCEPT ![NewVersion] = [j \in Identity |-> Effective(b, A, j)]]
      /\ vbatch' = [vbatch EXCEPT ![NewVersion] = b]

\* Undecided, had all() been written for any() (a faulty variant).
UndecidedIfAll(b, j) ==
  \A k \in Identity : pstatus[b][k] # "NONE" => k # j /\ pstatus[b][k] = "PROPOSED"

\* b is still not decided once j is.
Undecided(b, j) == \E k \in Identity \ {j} : pstatus[b][k] = "PROPOSED"

\* build(): called by the decision on j, does nothing before the last one.
Build(b, A, j, schemasFit) ==
  \/ /\ Undecided(b, j)
     /\ UNCHANGED <<bstatus, packageVars>>
  \/ /\ ~Undecided(b, j) /\ A = {}
     /\ bstatus' = [bstatus EXCEPT ![b] = "NO_CHANGE"]
     /\ UNCHANGED packageVars
  \/ /\ ~Undecided(b, j) /\ A # {} /\ ~Valid(b, A, schemasFit)
     /\ bstatus' = [bstatus EXCEPT ![b] = "BUILD_BLOCKED"]
     /\ UNCHANGED packageVars
  \/ /\ ~Undecided(b, j) /\ A # {} /\ Valid(b, A, schemasFit) /\ InsertsFit(b, A)
     /\ bstatus' = [bstatus EXCEPT ![b] = "PACKAGED"]
     /\ Materialize(b, A)

\* APPROVE or REJECT; a review the database refuses leaves no trace.
Decide(b, j, decision, schemasFit) ==
  /\ Reviewable(b, j)
  /\ pstatus' = [pstatus EXCEPT ![b][j] = decision]
  /\ Build(b, ApprovedWith(b, j, decision), j, schemasFit)
  /\ UNCHANGED <<pop, reviewed>>

-----------------------------------------------------------------------------
\* An AMBIGUITY that promotion makes lists alternatives and depends on nothing.
Alternatives == {p \in Payload : Needs[p] = {}}

Next ==
  \E b \in BatchId :
    \/ \E cands \in CandidateSets, alternatives \in Alternatives : Promote(b, cands, alternatives)
    \/ \E j \in Identity, p \in Payload \cup {None} : Edit(b, j, p)
    \/ \E j \in Identity, decision \in {"APPROVED", "REJECTED"}, schemasFit \in BOOLEAN :
         Decide(b, j, decision, schemasFit)

Spec == Init /\ [][Next]_vars

-----------------------------------------------------------------------------
(* Properties *)

\* A batch is open exactly as long as one of its proposals is undecided, and it has
\* a version, one, exactly if it ends PACKAGED: no batch is built early or twice, and
\* none is left waiting when its last decision has been made.
BatchesEndOnce ==
  \A b \in BatchId :
    /\ bstatus[b] = "READY_FOR_REVIEW" <=> \E j \in Identity : pstatus[b][j] = "PROPOSED"
    /\ Cardinality({v \in VersionNo : vstatus[v] # "ABSENT" /\ vbatch[v] = b})
         = IF bstatus[b] = "PACKAGED" THEN 1 ELSE 0

\* The active manifest, the is_active flags and the revision numbers tell the same
\* story, which is what the builder's choice of revision number and its inserts
\* rely on: an active asset is in the manifest with its latest revision.
ManifestMirrorsAssets ==
  \A j \in Identity :
    /\ asset[j] = "active" <=> InForce(j)
    /\ InForce(j) => Current(j) = LastRevision(j)

\* A build of decided and valid proposals is never refused by the database: no
\* steward is stuck with a proposal whose approval is rolled back each time.
ReviewNeverAborts ==
  \A b \in BatchId, j \in Identity, decision \in {"APPROVED", "REJECTED"} :
    LET A == ApprovedWith(b, j, decision)
    IN  (Reviewable(b, j) /\ ~Undecided(b, j) /\ A # {} /\ Valid(b, A, TRUE)) => InsertsFit(b, A)

\* Every version differs from the one before it by what its batch approved, with the
\* payloads as they were when they were approved, and by nothing else: no approval
\* made in another batch is lost or slipped in, and no later edit shows.
VersionsAreAsApproved ==
  \A v \in VersionNo : vstatus[v] # "ABSENT" =>
    \A j \in Identity :
      LET b      == vbatch[v]
          before == IF v = 1 THEN 0 ELSE manifest[v - 1][j]
          now    == manifest[v][j]
      IN  /\ now # before <=> pstatus[b][j] = "APPROVED"
          /\ now \notin {0, before} =>
               revBatch[j][now] = b /\ revPayload[j][now] = reviewed[b][j]

\* Every version ever active is closed under dependencies.
VersionsAreClosed ==
  \A v \in VersionNo, j \in Identity : manifest[v][j] # 0 =>
    \A k \in Needs[revPayload[j][manifest[v][j]]] : manifest[v][k] # 0

\* The package history is numbered without gaps, has one active version, the last,
\* and never rewrites a manifest.
Published == {v \in VersionNo : vstatus[v] # "ABSENT"}
History == INSTANCE PackageHistory
  WITH published <- Published,
       active    <- {v \in VersionNo : vstatus[v] = "ACTIVE"},
       contents  <- [v \in Published |-> manifest[v]]
ImplementsPackageHistory == History!Spec
=============================================================================
