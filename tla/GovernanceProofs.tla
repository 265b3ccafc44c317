-------------------------- MODULE GovernanceProofs --------------------------
(***************************************************************************)
(* Proofs about Governance, for all identities, payloads, candidates and   *)
(* any number of batches.                                                  *)
(*                                                                         *)
(* Versions are counted against batches: each has a PACKAGED batch of its  *)
(* own (BatchInv), so while a batch is open there is a number left for its *)
(* version; and an asset has no more revisions than there are versions     *)
(* (RevisionInv), so there is one left for its revision.  With the active  *)
(* manifest as the mirror of the assets this is why no build is refused.   *)
(***************************************************************************)
EXTENDS Governance, FiniteSetTheorems, TLAPS

\* The versions that exist are a prefix of the numbers; the last of them is active.
HistoryInv ==
  /\ \A v \in VersionNo : vstatus[v] = "ACTIVE" =>
       \A u \in VersionNo : /\ u < v => vstatus[u] = "SUPERSEDED"
                            /\ u > v => vstatus[u] = "ABSENT"
  /\ ActiveVersion = {} => \A v \in VersionNo : vstatus[v] = "ABSENT"

\* A batch is open while a proposal of it is undecided.
ReviewInv ==
  \A b \in BatchId :
    bstatus[b] = "READY_FOR_REVIEW" <=> \E j \in Identity : pstatus[b][j] = "PROPOSED"

\* The versions and the PACKAGED batches correspond one to one.
BatchInv ==
  /\ \A v \in Published : vbatch[v] \in BatchId /\ bstatus[vbatch[v]] = "PACKAGED"
  /\ \A u, v \in Published : vbatch[u] = vbatch[v] => u = v
  /\ \A b \in BatchId : bstatus[b] = "PACKAGED" => \E v \in Published : vbatch[v] = b

\* The revisions of an asset are numbered without gaps, and not more than versions.
RevisionInv ==
  \A j \in Identity : \E n \in RevNo \cup {0} :
    /\ n # 0 => n \in Published
    /\ \A m \in RevNo : revPayload[j][m] # None <=> m <= n

\* A manifest lists revisions there are; one that was not published lists nothing.
ManifestInv ==
  \A v \in VersionNo, j \in Identity : manifest[v][j] # 0 =>
    v \in Published /\ revPayload[j][manifest[v][j]] # None

IInv ==
  /\ TypeOK /\ HistoryInv /\ ReviewInv /\ BatchInv /\ RevisionInv /\ ManifestInv
  /\ ManifestMirrorsAssets /\ VersionsAreAsApproved /\ VersionsAreClosed

-----------------------------------------------------------------------------
(* What the invariant says of the active version and the last revision *)

\* a is the number of the active version, 0 when there is none.
ActiveIs(a) ==
  /\ a \in VersionNo \cup {0}
  /\ ActiveVersion = (IF a = 0 THEN {} ELSE {a})
  /\ \A v \in VersionNo : v \in Published <=> v <= a
  /\ NewVersion = a + 1
  /\ \A j \in Identity : Current(j) = IF a = 0 THEN 0 ELSE manifest[a][j]

LEMMA ActiveExists == TypeOK /\ HistoryInv => \E a \in VersionNo \cup {0} : ActiveIs(a)
<1> SUFFICES ASSUME TypeOK, HistoryInv PROVE \E a \in VersionNo \cup {0} : ActiveIs(a)
  OBVIOUS
<1>0. MaxBatches \in Nat \ {0}
  BY GovernanceAssumption DEF GovernanceAssumption
<1>1. CASE ActiveVersion = {}
  <2>1. ActiveIs(0)
    BY <1>0, <1>1 DEF ActiveIs, HistoryInv, Published, NewVersion, Current, VersionNo
  <2> QED
    BY <2>1
<1>2. CASE ActiveVersion # {}
  <2>1. PICK a \in VersionNo : vstatus[a] = "ACTIVE"
    BY <1>2 DEF ActiveVersion
  <2>2. \A v \in VersionNo : /\ vstatus[v] # "ABSENT" <=> v <= a
                             /\ vstatus[v] = "ACTIVE" => v = a
    BY <1>0, <2>1 DEF HistoryInv, VersionNo
  <2>3. ActiveVersion = {a}
    BY <2>1, <2>2 DEF ActiveVersion
  <2>4. ActiveIs(a)
    <3>1. a # 0
      BY <1>0 DEF VersionNo
    <3> QED
      BY <2>2, <2>3, <3>1 DEF ActiveIs, Published, NewVersion, Current
  <2> QED
    BY <2>4
<1> QED
  BY <1>1, <1>2

\* The revision numbers that f takes up are 1 .. n.
Filled(f, n) == n \in RevNo \cup {0} /\ \A m \in RevNo : f[m] # None <=> m <= n

LEMMA LastFilled ==
  ASSUME NEW f, NEW n, Filled(f, n)
  PROVE  (CHOOSE k \in RevNo \cup {0} :
            /\ k # 0 => f[k] # None
            /\ \A m \in RevNo : f[m] # None => m <= k) = n
<1>0. MaxBatches \in Nat \ {0}
  BY GovernanceAssumption DEF GovernanceAssumption
<1> DEFINE P(k) == /\ k # 0 => f[k] # None
                   /\ \A m \in RevNo : f[m] # None => m <= k
<1>1. P(n) /\ n \in RevNo \cup {0}
  BY <1>0 DEF Filled, RevNo
<1>2. \A k \in RevNo \cup {0} : P(k) => k = n
  BY <1>0 DEF Filled, RevNo
<1> HIDE DEF P
<1>3. (CHOOSE k \in RevNo \cup {0} : P(k)) = n
  BY <1>1, <1>2
<1> QED
  BY <1>3 DEF P

\* A revision has a number, and no asset has more of them than there are versions.
LEMMA LastExists ==
  ASSUME RevisionInv, NEW j \in Identity
  PROVE  /\ Filled(revPayload[j], LastRevision(j))
         /\ LastRevision(j) # 0 => LastRevision(j) \in Published
<1>1. PICK n \in RevNo \cup {0} : Filled(revPayload[j], n) /\ (n # 0 => n \in Published)
  BY DEF RevisionInv, Filled
<1>2. LastRevision(j) = n
  BY <1>1, LastFilled DEF LastRevision
<1> QED
  BY <1>1, <1>2

-----------------------------------------------------------------------------
(* A build *)

\* The decision on j is the last one on b, and the database takes the build.
Builds(b, j, decision) ==
  LET A == ApprovedWith(b, j, decision)
  IN  /\ Reviewable(b, j) /\ ~Undecided(b, j)
      /\ A # {} /\ Valid(b, A, TRUE) /\ InsertsFit(b, A)
      /\ pstatus' = [pstatus EXCEPT ![b][j] = decision]
      /\ bstatus' = [bstatus EXCEPT ![b] = "PACKAGED"]
      /\ Materialize(b, A)
      /\ UNCHANGED <<pop, reviewed>>

\* The proposals of a batch that is built are well formed.
LEMMA ApprovedTyped ==
  ASSUME TypeOK, NEW b \in BatchId, NEW j \in Identity, NEW decision, Reviewable(b, j),
         NEW k \in ApprovedWith(b, j, decision)
  PROVE  k \in Identity /\ pop[b][k] \in Operation /\ reviewed[b][k] \in Payload
<1>1. k \in Identity /\ pstatus[b][k] # "NONE"
  BY DEF ApprovedWith, Reviewable
<1>2. pop[b][k] # None /\ reviewed[b][k] # None
  BY <1>1 DEF TypeOK
<1>3. pop[b][k] \in Operation \cup {None} /\ reviewed[b][k] \in Payload \cup {None}
  BY <1>1 DEF TypeOK
<1> QED
  BY <1>1, <1>2, <1>3

\* A valid build puts the next revision of what it changes in force, and nothing in
\* the place of what it removes.
LEMMA EffectiveIs ==
  ASSUME TypeOK, RevisionInv, ManifestMirrorsAssets,
         NEW b \in BatchId, NEW j \in Identity, NEW decision, Reviewable(b, j),
         Valid(b, ApprovedWith(b, j, decision), TRUE),
         NEW k \in Identity
  PROVE  LET A == ApprovedWith(b, j, decision)
         IN  /\ k \notin A => k \notin Changed(b, A) /\ Effective(b, A, k) = Current(k)
             /\ k \in A => /\ k \notin Changed(b, A) <=> pop[b][k] = "REMOVE"
                           /\ k \notin Changed(b, A) => Effective(b, A, k) = 0 /\ Current(k) # 0
             /\ k \in Changed(b, A) =>
                  /\ k \in A
                  /\ Effective(b, A, k) = LastRevision(k) + 1
                  /\ Effective(b, A, k) # Current(k)
                  /\ pop[b][k] = "CREATE" => asset[k] # "active"
<1> DEFINE A == ApprovedWith(b, j, decision)
<1>1. CASE k \notin A
  BY <1>1 DEF Changed, Effective
<1>2. CASE k \in A
  <2>1. pop[b][k] \in {"CREATE", "UPDATE", "REMOVE"}
    BY <1>2, ApprovedTyped DEF Operation
  <2>2. Current(k) # 0 <=> pop[b][k] \in {"UPDATE", "REMOVE"}
    BY <1>2 DEF Valid, TargetsFit, InForce
  <2>3. k \in Changed(b, A) <=> pop[b][k] # "REMOVE"
    BY <1>2 DEF Changed
  <2>4. asset[k] = "active" <=> Current(k) # 0
    BY DEF ManifestMirrorsAssets, InForce
  <2>5. Current(k) # 0 => Current(k) = LastRevision(k)
    BY DEF ManifestMirrorsAssets, InForce
  <2>6. LastRevision(k) \in Nat
    BY LastExists, GovernanceAssumption DEF Filled, RevNo, GovernanceAssumption
  <2>7. CASE pop[b][k] = "REMOVE"
    <3>1. Effective(b, A, k) = 0
      BY <1>2, <2>7 DEF Effective
    <3> QED
      BY <1>2, <2>2, <2>3, <2>7, <3>1
  <2>8. CASE pop[b][k] = "UPDATE"
    <3>1. Effective(b, A, k) = Current(k) + 1
      BY <1>2, <2>8 DEF Effective
    <3> QED
      BY <1>2, <2>2, <2>3, <2>5, <2>6, <2>8, <3>1
  <2>9. CASE pop[b][k] = "CREATE"
    <3>1. Effective(b, A, k) = LastRevision(k) + 1
      BY <1>2, <2>9 DEF Effective
    <3> QED
      BY <1>2, <2>2, <2>3, <2>4, <2>6, <2>9, <3>1
  <2> QED
    BY <2>1, <2>7, <2>8, <2>9
<1> QED
  BY <1>1, <1>2

\* What a build leaves behind; a is the version it supersedes.
AfterBuild(b, j, decision, a) ==
  LET A == ApprovedWith(b, j, decision)
  IN  /\ a + 1 \in VersionNo /\ a + 1 \notin Published
      /\ Published' = Published \cup {a + 1}
      /\ \A v \in VersionNo : vstatus'[v] = IF v = a + 1 THEN "ACTIVE"
                                            ELSE IF v <= a THEN "SUPERSEDED" ELSE "ABSENT"
      /\ \A k \in Identity : Current(k)' = Effective(b, A, k)
      /\ \A v \in VersionNo \ {a + 1} : manifest'[v] = manifest[v] /\ vbatch'[v] = vbatch[v]
      /\ \A k \in Identity : manifest'[a + 1][k] = Effective(b, A, k)
      /\ vbatch'[a + 1] = b
      /\ \A k \in Identity, n \in RevNo :
           IF k \in Changed(b, A) /\ n = LastRevision(k) + 1
           THEN revPayload[k][n] = None /\ revPayload'[k][n] = reviewed[b][k] /\ revBatch'[k][n] = b
           ELSE revPayload'[k][n] = revPayload[k][n] /\ revBatch'[k][n] = revBatch[k][n]

LEMMA BuildFacts ==
  ASSUME IInv, NEW b \in BatchId, NEW j \in Identity, NEW decision, Builds(b, j, decision)
  PROVE  \E a \in VersionNo \cup {0} : ActiveIs(a) /\ AfterBuild(b, j, decision, a)
<1> DEFINE A == ApprovedWith(b, j, decision)
<1>0. MaxBatches \in Nat \ {0}
  BY GovernanceAssumption DEF GovernanceAssumption
<1>1. TypeOK /\ HistoryInv /\ RevisionInv /\ ManifestMirrorsAssets
  BY DEF IInv
<1>2. PICK a \in VersionNo \cup {0} : ActiveIs(a)
  BY <1>1, ActiveExists
<1>3. Reviewable(b, j) /\ Valid(b, A, TRUE) /\ InsertsFit(b, A) /\ Materialize(b, A)
  BY DEF Builds
<1>4. a + 1 \in VersionNo /\ NewVersion = a + 1 /\ a + 1 \notin Published
  BY <1>2, <1>3 DEF ActiveIs, InsertsFit, Published
<1>5. \A v \in VersionNo : vstatus'[v] = IF v = a + 1 THEN "ACTIVE"
                                         ELSE IF v <= a THEN "SUPERSEDED" ELSE "ABSENT"
  <2> TAKE v \in VersionNo
  <2>1. vstatus'[v] = IF v = a + 1 THEN "ACTIVE" ELSE Superseded(v)
    BY <1>3, <1>4 DEF Materialize
  <2>2. v \in Published <=> v <= a
    BY <1>2 DEF ActiveIs
  <2>3. vstatus[v] \in {"ABSENT", "ACTIVE", "SUPERSEDED"}
    BY <1>1 DEF TypeOK
  <2> QED
    BY <2>1, <2>2, <2>3 DEF Superseded, Published
<1>6. ActiveVersion' = {a + 1} /\ Published' = Published \cup {a + 1}
  <2>1. \A v \in VersionNo : v \in Published <=> v <= a
    BY <1>2 DEF ActiveIs
  <2>2. \A v \in VersionNo : v \in ActiveVersion' <=> v = a + 1
    BY <1>5 DEF ActiveVersion
  <2>3. \A v \in VersionNo : v \in Published' <=> v = a + 1 \/ v <= a
    BY <1>5 DEF Published
  <2> QED
    BY <1>4, <2>1, <2>2, <2>3 DEF ActiveVersion, Published
<1>7. \A v \in VersionNo \ {a + 1} : manifest'[v] = manifest[v] /\ vbatch'[v] = vbatch[v]
  BY <1>1, <1>3, <1>4 DEF Materialize, TypeOK
<1>8. /\ \A k \in Identity : manifest'[a + 1][k] = Effective(b, A, k)
      /\ vbatch'[a + 1] = b
  BY <1>1, <1>3, <1>4 DEF Materialize, TypeOK
<1>9. \A k \in Identity : Current(k)' = Effective(b, A, k)
  BY <1>6, <1>8 DEF Current
<1>10. \A k \in Identity, n \in RevNo :
         IF k \in Changed(b, A) /\ n = LastRevision(k) + 1
         THEN revPayload[k][n] = None /\ revPayload'[k][n] = reviewed[b][k] /\ revBatch'[k][n] = b
         ELSE revPayload'[k][n] = revPayload[k][n] /\ revBatch'[k][n] = revBatch[k][n]
  <2> TAKE k \in Identity, n \in RevNo
  <2>1. k \in Changed(b, A) => Effective(b, A, k) = LastRevision(k) + 1
    BY <1>1, <1>3, EffectiveIs
  <2>2. k \in Changed(b, A) => revPayload[k][Effective(b, A, k)] = None
    BY <1>3 DEF InsertsFit
  <2>3. revPayload'[k][n] = IF k \in Changed(b, A) /\ n = Effective(b, A, k)
                            THEN reviewed[b][k] ELSE revPayload[k][n]
    BY <1>3 DEF Materialize
  <2>4. revBatch'[k][n] = IF k \in Changed(b, A) /\ n = Effective(b, A, k)
                          THEN b ELSE revBatch[k][n]
    BY <1>3 DEF Materialize
  <2> QED
    BY <2>1, <2>2, <2>3, <2>4
<1> HIDE DEF A
<1>11. AfterBuild(b, j, decision, a)
  BY <1>4, <1>5, <1>6, <1>7, <1>8, <1>9, <1>10 DEF AfterBuild, A
<1> QED
  BY <1>2, <1>11

-----------------------------------------------------------------------------
(* The steps that leave the package alone *)

\* A decision that builds nothing.
Settles(b, j, decision) ==
  /\ Reviewable(b, j)
  /\ pstatus' = [pstatus EXCEPT ![b][j] = decision]
  /\ UNCHANGED <<pop, reviewed, packageVars>>
  /\ \/ Undecided(b, j) /\ UNCHANGED bstatus
     \/ ~Undecided(b, j) /\ \E status \in {"NO_CHANGE", "BUILD_BLOCKED"} :
                              bstatus' = [bstatus EXCEPT ![b] = status]

LEMMA DecideCases ==
  ASSUME NEW b \in BatchId, NEW j \in Identity, NEW decision, NEW schemasFit \in BOOLEAN,
         Decide(b, j, decision, schemasFit)
  PROVE  Settles(b, j, decision) \/ Builds(b, j, decision)
<1> DEFINE A == ApprovedWith(b, j, decision)
<1>1. /\ Reviewable(b, j)
      /\ pstatus' = [pstatus EXCEPT ![b][j] = decision]
      /\ Build(b, A, j, schemasFit)
      /\ UNCHANGED <<pop, reviewed>>
  BY DEF Decide
<1> HIDE DEF A
<1>2. \/ Undecided(b, j) /\ UNCHANGED <<bstatus, packageVars>>
      \/ /\ ~Undecided(b, j) /\ UNCHANGED packageVars
         /\ \E status \in {"NO_CHANGE", "BUILD_BLOCKED"} : bstatus' = [bstatus EXCEPT ![b] = status]
      \/ /\ ~Undecided(b, j) /\ A # {} /\ Valid(b, A, TRUE) /\ InsertsFit(b, A)
         /\ bstatus' = [bstatus EXCEPT ![b] = "PACKAGED"]
         /\ Materialize(b, A)
  BY <1>1 DEF Build, Valid
<1> QED
  BY <1>1, <1>2 DEF Settles, Builds, A

\* Whatever happens to the other batches, the versions stay as they are as long as
\* the batches they were built from do.
LEMMA QuietStep ==
  ASSUME IInv, UNCHANGED packageVars,
         \A c \in BatchId :
           /\ bstatus'[c] = "PACKAGED" <=> bstatus[c] = "PACKAGED"
           /\ bstatus[c] = "PACKAGED" => pstatus'[c] = pstatus[c] /\ reviewed'[c] = reviewed[c]
  PROVE  /\ HistoryInv' /\ BatchInv' /\ RevisionInv' /\ ManifestInv'
         /\ ManifestMirrorsAssets' /\ VersionsAreAsApproved' /\ VersionsAreClosed'
<1>1. UNCHANGED <<asset, revPayload, revBatch, vstatus, manifest, vbatch>>
  BY DEF packageVars
<1>2. ActiveVersion' = ActiveVersion /\ Published' = Published
  BY <1>1 DEF ActiveVersion, Published
<1>3. \A j \in Identity : Current(j)' = Current(j) /\ LastRevision(j)' = LastRevision(j)
  BY <1>1, <1>2 DEF Current, LastRevision
<1>4. HistoryInv'
  BY <1>1, <1>2 DEF IInv, HistoryInv
<1>5. BatchInv'
  <2>1. BatchInv
    BY DEF IInv
  <2> QED
    BY <1>1, <1>2, <2>1 DEF BatchInv
<1>6. RevisionInv'
  BY <1>1, <1>2 DEF IInv, RevisionInv
<1>7. ManifestInv'
  BY <1>1, <1>2 DEF IInv, ManifestInv
<1>8. ManifestMirrorsAssets'
  BY <1>1, <1>3 DEF IInv, ManifestMirrorsAssets, InForce
<1>9. VersionsAreAsApproved'
  <2>1. \A v \in VersionNo : vstatus[v] # "ABSENT" =>
          pstatus'[vbatch[v]] = pstatus[vbatch[v]] /\ reviewed'[vbatch[v]] = reviewed[vbatch[v]]
    BY DEF IInv, BatchInv, Published
  <2>2. VersionsAreAsApproved
    BY DEF IInv
  <2> QED
    BY <1>1, <2>1, <2>2 DEF VersionsAreAsApproved
<1>10. VersionsAreClosed'
  BY <1>1 DEF IInv, VersionsAreClosed
<1> QED
  BY <1>4, <1>5, <1>6, <1>7, <1>8, <1>9, <1>10

LEMMA PromoteStep ==
  ASSUME IInv, NEW b \in BatchId, NEW cands \in CandidateSets, NEW alternatives \in Alternatives,
         Promote(b, cands, alternatives)
  PROVE  IInv'
<1> DEFINE resolved == {c \in Merged(cands, alternatives) : WorthProposing(c)}
           On(j)    == {c \in resolved : c.id = j}
           The(j)   == CHOOSE c \in On(j) : TRUE
<1>0. TypeOK
  BY DEF IInv
<1>1. /\ bstatus[b] = "ABSENT"
      /\ bstatus' = [bstatus EXCEPT ![b] = IF resolved = {} THEN "NO_CHANGE" ELSE "READY_FOR_REVIEW"]
      /\ pstatus' = [pstatus EXCEPT ![b] =
                       [j \in Identity |-> IF On(j) = {} THEN "NONE" ELSE "PROPOSED"]]
      /\ pop' = [pop EXCEPT ![b] =
                   [j \in Identity |-> IF On(j) = {} THEN None ELSE OperationFor(The(j))]]
      /\ reviewed' = [reviewed EXCEPT ![b] =
                        [j \in Identity |-> IF On(j) = {} THEN None ELSE The(j).payload]]
      /\ UNCHANGED packageVars
  BY DEF Promote
<1>2. \A c \in resolved : c.id \in Identity /\ c.payload \in Payload /\ OperationFor(c) \in Operation
  <2> TAKE c \in resolved
  <2>1. \A d \in cands : d.id \in Identity \ Dispute /\ d.payload \in Payload
                         /\ d.op \in {"CREATE", "UPDATE", "REMOVE"}
    BY GovernanceAssumption DEF GovernanceAssumption
  <2>2. alternatives \in Payload
    BY DEF Alternatives
  <2>3. \A d \in cands : DisputeOf[d.id] \in Identity
    BY <2>1, GovernanceAssumption DEF GovernanceAssumption
  <2>4. c \in cands \/ \E d \in cands : c = [id |-> DisputeOf[d.id], op |-> "CREATE", payload |-> alternatives]
    BY DEF Merged
  <2>5. c.id \in Identity /\ c.payload \in Payload
    BY <2>1, <2>2, <2>3, <2>4
  <2> QED
    BY <2>5 DEF OperationFor, Operation
<1>3. \A j \in Identity : On(j) # {} => The(j) \in resolved
  OBVIOUS
<1>4. resolved = {} <=> \A j \in Identity : On(j) = {}
  BY <1>2
<1> HIDE DEF resolved, On, The
<1>5. TypeOK'
  <2>1. bstatus' \in [BatchId -> BatchStatus]
    BY <1>0, <1>1 DEF TypeOK, BatchStatus
  <2>2. pstatus' \in [BatchId -> [Identity -> ProposalStatus]]
    BY <1>0, <1>1 DEF TypeOK, ProposalStatus
  <2>3. [j \in Identity |-> IF On(j) = {} THEN None ELSE OperationFor(The(j))]
          \in [Identity -> Operation \cup {None}]
    BY <1>2, <1>3
  <2>4. pop' \in [BatchId -> [Identity -> Operation \cup {None}]]
    BY <1>0, <1>1, <2>3 DEF TypeOK
  <2>5. [j \in Identity |-> IF On(j) = {} THEN None ELSE The(j).payload]
          \in [Identity -> Payload \cup {None}]
    BY <1>2, <1>3
  <2>6. reviewed' \in [BatchId -> [Identity -> Payload \cup {None}]]
    BY <1>0, <1>1, <2>5 DEF TypeOK
  <2>7. None \notin Operation /\ None \notin Payload
    BY GovernanceAssumption DEF GovernanceAssumption, Operation
  <2>8. \A c \in BatchId, j \in Identity :
          pstatus'[c][j] # "NONE" => pop'[c][j] # None /\ reviewed'[c][j] # None
    <3> SUFFICES ASSUME NEW c \in BatchId, NEW j \in Identity, pstatus'[c][j] # "NONE"
                 PROVE  pop'[c][j] # None /\ reviewed'[c][j] # None
      OBVIOUS
    <3>1. CASE c = b
      <4>1. On(j) # {}
        BY <1>0, <1>1, <3>1 DEF TypeOK
      <4>2. pop'[b][j] = OperationFor(The(j)) /\ reviewed'[b][j] = The(j).payload
        BY <1>0, <1>1, <4>1 DEF TypeOK
      <4> QED
        BY <1>2, <1>3, <2>7, <3>1, <4>1, <4>2
    <3>2. CASE c # b
      <4>1. pstatus'[c] = pstatus[c] /\ pop'[c] = pop[c] /\ reviewed'[c] = reviewed[c]
        BY <1>0, <1>1, <3>2 DEF TypeOK
      <4> QED
        BY <1>0, <4>1 DEF TypeOK
    <3> QED
      BY <3>1, <3>2
  <2>9. UNCHANGED <<asset, revPayload, revBatch, vstatus, manifest, vbatch>>
    BY <1>1 DEF packageVars
  <2> QED
    BY <1>0, <2>1, <2>2, <2>4, <2>6, <2>8, <2>9 DEF TypeOK
<1>6. ReviewInv'
  <2> SUFFICES ASSUME NEW c \in BatchId
               PROVE  bstatus'[c] = "READY_FOR_REVIEW" <=> \E j \in Identity : pstatus'[c][j] = "PROPOSED"
    BY DEF ReviewInv
  <2>1. CASE c = b
    <3>1. bstatus'[b] = "READY_FOR_REVIEW" <=> resolved # {}
      BY <1>0, <1>1 DEF TypeOK
    <3>2. \A j \in Identity : pstatus'[b][j] = "PROPOSED" <=> On(j) # {}
      BY <1>0, <1>1 DEF TypeOK
    <3> QED
      BY <1>4, <2>1, <3>1, <3>2
  <2>2. CASE c # b
    <3>1. bstatus'[c] = bstatus[c] /\ pstatus'[c] = pstatus[c]
      BY <1>0, <1>1, <2>2 DEF TypeOK
    <3> QED
      BY <3>1 DEF IInv, ReviewInv
  <2> QED
    BY <2>1, <2>2
<1>7. \A c \in BatchId :
        /\ bstatus'[c] = "PACKAGED" <=> bstatus[c] = "PACKAGED"
        /\ bstatus[c] = "PACKAGED" => pstatus'[c] = pstatus[c] /\ reviewed'[c] = reviewed[c]
  BY <1>0, <1>1 DEF TypeOK
<1> QED
  BY <1>1, <1>5, <1>6, <1>7, QuietStep DEF IInv

LEMMA EditStep ==
  ASSUME IInv, NEW b \in BatchId, NEW j \in Identity, NEW p, Edit(b, j, p)
  PROVE  IInv'
<1>0. TypeOK
  BY DEF IInv
<1>1. /\ pstatus[b][j] = "PROPOSED" /\ p \in Payload
      /\ reviewed' = [reviewed EXCEPT ![b][j] = p]
      /\ UNCHANGED <<bstatus, pstatus, pop, packageVars>>
  BY DEF Edit, Reviewable, Acceptable
<1>2. p # None
  BY <1>1, GovernanceAssumption DEF GovernanceAssumption
<1>3. bstatus[b] = "READY_FOR_REVIEW"
  BY <1>1 DEF IInv, ReviewInv
<1>4. TypeOK'
  <2>1. reviewed' \in [BatchId -> [Identity -> Payload \cup {None}]]
    BY <1>0, <1>1 DEF TypeOK
  <2>2. \A c \in BatchId, k \in Identity : reviewed'[c][k] = reviewed[c][k] \/ reviewed'[c][k] = p
    BY <1>0, <1>1 DEF TypeOK
  <2>3. UNCHANGED <<asset, revPayload, revBatch, vstatus, manifest, vbatch>>
    BY <1>1 DEF packageVars
  <2> QED
    BY <1>0, <1>1, <1>2, <2>1, <2>2, <2>3 DEF TypeOK
<1>5. ReviewInv'
  BY <1>1 DEF IInv, ReviewInv
<1>6. \A c \in BatchId :
        /\ bstatus'[c] = "PACKAGED" <=> bstatus[c] = "PACKAGED"
        /\ bstatus[c] = "PACKAGED" => pstatus'[c] = pstatus[c] /\ reviewed'[c] = reviewed[c]
  BY <1>0, <1>1, <1>3 DEF TypeOK
<1> QED
  BY <1>1, <1>4, <1>5, <1>6, QuietStep DEF IInv

\* What a decision does to the proposals, whether or not it builds.
LEMMA DecisionFacts ==
  ASSUME TypeOK, ReviewInv, NEW b \in BatchId, NEW j \in Identity,
         NEW decision \in {"APPROVED", "REJECTED"}, Reviewable(b, j),
         pstatus' = [pstatus EXCEPT ![b][j] = decision]
  PROVE  /\ bstatus[b] = "READY_FOR_REVIEW"
         /\ pstatus' \in [BatchId -> [Identity -> ProposalStatus]]
         /\ \A c \in BatchId, k \in Identity : pstatus'[c][k] # "NONE" => pstatus[c][k] # "NONE"
         /\ \A c \in BatchId \ {b} : pstatus'[c] = pstatus[c]
         /\ Undecided(b, j) <=> \E k \in Identity : pstatus'[b][k] = "PROPOSED"
<1>1. pstatus[b][j] = "PROPOSED"
  BY DEF Reviewable
<1>2. pstatus \in [BatchId -> [Identity -> ProposalStatus]]
  BY DEF TypeOK
<1>3. bstatus[b] = "READY_FOR_REVIEW"
  BY <1>1 DEF ReviewInv
<1>4. pstatus' \in [BatchId -> [Identity -> ProposalStatus]]
  BY <1>2 DEF ProposalStatus
<1>5. \A c \in BatchId \ {b} : pstatus'[c] = pstatus[c]
  BY <1>2
<1>6. \A k \in Identity : pstatus'[b][k] = IF k = j THEN decision ELSE pstatus[b][k]
  BY <1>2
<1>7. \A c \in BatchId, k \in Identity : pstatus'[c][k] # "NONE" => pstatus[c][k] # "NONE"
  BY <1>1, <1>5, <1>6
<1>8. Undecided(b, j) <=> \E k \in Identity : pstatus'[b][k] = "PROPOSED"
  BY <1>6 DEF Undecided
<1> QED
  BY <1>3, <1>4, <1>5, <1>7, <1>8

LEMMA SettleStep ==
  ASSUME IInv, NEW b \in BatchId, NEW j \in Identity, NEW decision \in {"APPROVED", "REJECTED"},
         Settles(b, j, decision)
  PROVE  IInv'
<1>0. TypeOK /\ ReviewInv
  BY DEF IInv
<1>1. /\ Reviewable(b, j)
      /\ pstatus' = [pstatus EXCEPT ![b][j] = decision]
      /\ UNCHANGED <<pop, reviewed, packageVars>>
      /\ \/ Undecided(b, j) /\ UNCHANGED bstatus
         \/ ~Undecided(b, j) /\ \E status \in {"NO_CHANGE", "BUILD_BLOCKED"} :
                                  bstatus' = [bstatus EXCEPT ![b] = status]
  BY DEF Settles
<1>2. /\ bstatus[b] = "READY_FOR_REVIEW"
      /\ pstatus' \in [BatchId -> [Identity -> ProposalStatus]]
      /\ \A c \in BatchId, k \in Identity : pstatus'[c][k] # "NONE" => pstatus[c][k] # "NONE"
      /\ \A c \in BatchId \ {b} : pstatus'[c] = pstatus[c]
      /\ Undecided(b, j) <=> \E k \in Identity : pstatus'[b][k] = "PROPOSED"
  BY <1>0, <1>1, DecisionFacts
<1>3. /\ \A c \in BatchId \ {b} : bstatus'[c] = bstatus[c]
      /\ bstatus' \in [BatchId -> BatchStatus]
      /\ bstatus'[b] # "PACKAGED"
      /\ bstatus'[b] = "READY_FOR_REVIEW" <=> Undecided(b, j)
  BY <1>0, <1>1, <1>2 DEF TypeOK, BatchStatus
<1>4. TypeOK'
  <2>1. UNCHANGED <<pop, reviewed, asset, revPayload, revBatch, vstatus, manifest, vbatch>>
    BY <1>1 DEF packageVars
  <2> QED
    BY <1>0, <1>2, <1>3, <2>1 DEF TypeOK
<1>5. ReviewInv'
  BY <1>0, <1>2, <1>3 DEF ReviewInv
<1>6. \A c \in BatchId :
        /\ bstatus'[c] = "PACKAGED" <=> bstatus[c] = "PACKAGED"
        /\ bstatus[c] = "PACKAGED" => pstatus'[c] = pstatus[c] /\ reviewed'[c] = reviewed[c]
  BY <1>1, <1>2, <1>3
<1> QED
  BY <1>1, <1>4, <1>5, <1>6, QuietStep DEF IInv

-----------------------------------------------------------------------------
(* The step that builds *)

LEMMA BuildStep ==
  ASSUME IInv, NEW b \in BatchId, NEW j \in Identity, NEW decision \in {"APPROVED", "REJECTED"},
         Builds(b, j, decision)
  PROVE  IInv'
<1> DEFINE A == ApprovedWith(b, j, decision)
<1>0. MaxBatches \in Nat \ {0}
  BY GovernanceAssumption DEF GovernanceAssumption
<1>1. /\ TypeOK /\ HistoryInv /\ ReviewInv /\ BatchInv /\ RevisionInv /\ ManifestInv
      /\ ManifestMirrorsAssets /\ VersionsAreAsApproved /\ VersionsAreClosed
  BY DEF IInv
<1>2. PICK a \in VersionNo \cup {0} : ActiveIs(a) /\ AfterBuild(b, j, decision, a)
  BY BuildFacts
<1>3. /\ Reviewable(b, j) /\ ~Undecided(b, j)
      /\ Valid(b, A, TRUE) /\ InsertsFit(b, A)
      /\ pstatus' = [pstatus EXCEPT ![b][j] = decision]
      /\ bstatus' = [bstatus EXCEPT ![b] = "PACKAGED"]
      /\ Materialize(b, A)
      /\ UNCHANGED <<pop, reviewed>>
  BY DEF Builds
<1>3a. Reviewable(b, j) /\ pstatus' = [pstatus EXCEPT ![b][j] = decision]
  BY <1>3
<1>4. /\ bstatus[b] = "READY_FOR_REVIEW"
      /\ pstatus' \in [BatchId -> [Identity -> ProposalStatus]]
      /\ \A c \in BatchId, k \in Identity : pstatus'[c][k] # "NONE" => pstatus[c][k] # "NONE"
      /\ \A c \in BatchId \ {b} : pstatus'[c] = pstatus[c]
      /\ Undecided(b, j) <=> \E k \in Identity : pstatus'[b][k] = "PROPOSED"
  BY <1>1, <1>3a, DecisionFacts
<1>4a. \A k \in Identity : k \in A <=> pstatus'[b][k] = "APPROVED"
  BY <1>1, <1>3a DEF ApprovedWith, TypeOK
<1> HIDE DEF A
<1>5. /\ bstatus' \in [BatchId -> BatchStatus]
      /\ bstatus'[b] = "PACKAGED"
      /\ \A c \in BatchId \ {b} : bstatus'[c] = bstatus[c]
  BY <1>1, <1>3 DEF TypeOK, BatchStatus
<1>6. \A k \in Identity :
        /\ k \notin A => k \notin Changed(b, A) /\ Effective(b, A, k) = Current(k)
        /\ k \in A => /\ k \notin Changed(b, A) <=> pop[b][k] = "REMOVE"
                      /\ k \notin Changed(b, A) => Effective(b, A, k) = 0 /\ Current(k) # 0
        /\ k \in Changed(b, A) =>
             /\ k \in A
             /\ Effective(b, A, k) = LastRevision(k) + 1
             /\ Effective(b, A, k) # Current(k)
  BY <1>1, <1>3, EffectiveIs DEF A
<1>7. /\ a + 1 \in VersionNo /\ a + 1 \notin Published
      /\ Published' = Published \cup {a + 1}
      /\ \A v \in VersionNo : vstatus'[v] = IF v = a + 1 THEN "ACTIVE"
                                            ELSE IF v <= a THEN "SUPERSEDED" ELSE "ABSENT"
      /\ \A k \in Identity : Current(k)' = Effective(b, A, k)
      /\ \A v \in VersionNo \ {a + 1} : manifest'[v] = manifest[v] /\ vbatch'[v] = vbatch[v]
      /\ \A k \in Identity : manifest'[a + 1][k] = Effective(b, A, k)
      /\ vbatch'[a + 1] = b
  BY <1>2 DEF AfterBuild, A
<1>8. \A k \in Identity, n \in RevNo :
        IF k \in Changed(b, A) /\ n = LastRevision(k) + 1
        THEN revPayload[k][n] = None /\ revPayload'[k][n] = reviewed[b][k] /\ revBatch'[k][n] = b
        ELSE revPayload'[k][n] = revPayload[k][n] /\ revBatch'[k][n] = revBatch[k][n]
  BY <1>2 DEF AfterBuild, A
<1>9. /\ \A v \in VersionNo : v \in Published <=> v <= a
      /\ \A k \in Identity : Current(k) = IF a = 0 THEN 0 ELSE manifest[a][k]
  BY <1>2 DEF ActiveIs
<1>10. \A k \in Changed(b, A) : /\ k \in Identity /\ reviewed[b][k] \in Payload
                                /\ LastRevision(k) + 1 \in RevNo
  <2> TAKE k \in Changed(b, A)
  <2>1. k \in A
    BY DEF Changed
  <2>2. k \in Identity /\ reviewed[b][k] \in Payload
    BY <1>1, <1>3, <2>1, ApprovedTyped DEF A
  <2>3. Effective(b, A, k) \in RevNo
    BY <1>3 DEF InsertsFit
  <2> QED
    BY <1>6, <2>2, <2>3
<1>11. \A k \in Identity : /\ Filled(revPayload[k], LastRevision(k))
                           /\ LastRevision(k) # 0 => LastRevision(k) \in Published
  BY <1>1, LastExists
<1>12. None \notin Payload
  BY GovernanceAssumption DEF GovernanceAssumption
\* A revision that there was keeps its payload and its batch.
<1>13. \A k \in Identity, n \in RevNo : revPayload[k][n] # None =>
         revPayload'[k][n] = revPayload[k][n] /\ revBatch'[k][n] = revBatch[k][n]
  BY <1>8
<1>14. \A k \in Identity :
         /\ Filled(revPayload'[k], IF k \in Changed(b, A) THEN LastRevision(k) + 1 ELSE LastRevision(k))
         /\ LastRevision(k)' = IF k \in Changed(b, A) THEN LastRevision(k) + 1 ELSE LastRevision(k)
  <2> TAKE k \in Identity
  <2>1. Filled(revPayload'[k], IF k \in Changed(b, A) THEN LastRevision(k) + 1 ELSE LastRevision(k))
    <3>1. CASE k \in Changed(b, A)
      BY <1>0, <1>8, <1>10, <1>11, <1>12, <3>1 DEF Filled, RevNo
    <3>2. CASE k \notin Changed(b, A)
      BY <1>8, <1>11, <3>2 DEF Filled
    <3> QED
      BY <3>1, <3>2
  <2>2. \A n : Filled(revPayload'[k], n) => LastRevision(k)' = n
    BY LastFilled DEF LastRevision
  <2> QED
    BY <2>1, <2>2
<1>15. \A k \in Identity : Effective(b, A, k) \in RevNo \cup {0}
  <2> TAKE k \in Identity
  <2>1. k \notin A => Effective(b, A, k) \in RevNo \cup {0}
    BY <1>1, <1>2, <1>6, <1>9 DEF TypeOK
  <2> QED
    BY <1>6, <1>10, <2>1
<1>16. TypeOK'
  <2>1. asset' \in [Identity -> {"none", "active", "retired"}]
    <3>1. asset' = [k \in Identity |-> CASE k \in Changed(b, A)     -> "active"
                                         [] k \in A \ Changed(b, A) -> "retired"
                                         [] k \notin A              -> asset[k]]
      BY <1>3 DEF Materialize
    <3>2. Changed(b, A) \subseteq A
      BY DEF Changed
    <3> QED
      BY <1>1, <3>1, <3>2 DEF TypeOK
  <2>2. revPayload' \in [Identity -> [RevNo -> Payload \cup {None}]]
    <3>1. revPayload' = [k \in Identity |-> [n \in RevNo |->
                           IF k \in Changed(b, A) /\ n = Effective(b, A, k)
                           THEN reviewed[b][k] ELSE revPayload[k][n]]]
      BY <1>3 DEF Materialize
    <3> QED
      BY <1>1, <1>10, <3>1 DEF TypeOK
  <2>3. revBatch' \in [Identity -> [RevNo -> BatchId \cup {0}]]
    <3>1. revBatch' = [k \in Identity |-> [n \in RevNo |->
                         IF k \in Changed(b, A) /\ n = Effective(b, A, k) THEN b ELSE revBatch[k][n]]]
      BY <1>3 DEF Materialize
    <3> QED
      BY <1>1, <3>1 DEF TypeOK
  <2>4. vstatus' \in [VersionNo -> {"ABSENT", "ACTIVE", "SUPERSEDED"}]
    <3>1. vstatus' = [v \in VersionNo |-> IF v = NewVersion THEN "ACTIVE" ELSE Superseded(v)]
      BY <1>3 DEF Materialize
    <3> QED
      BY <1>1, <3>1 DEF TypeOK, Superseded
  <2>5. manifest' \in [VersionNo -> [Identity -> RevNo \cup {0}]]
    <3>1. manifest' = [manifest EXCEPT ![NewVersion] = [k \in Identity |-> Effective(b, A, k)]]
      BY <1>3 DEF Materialize
    <3>2. [k \in Identity |-> Effective(b, A, k)] \in [Identity -> RevNo \cup {0}]
      BY <1>15
    <3> QED
      BY <1>1, <3>1, <3>2 DEF TypeOK
  <2>6. vbatch' \in [VersionNo -> BatchId \cup {0}]
    BY <1>1, <1>3 DEF TypeOK, Materialize
  <2> QED
    BY <1>1, <1>3, <1>4, <1>5, <2>1, <2>2, <2>3, <2>4, <2>5, <2>6 DEF TypeOK
<1>17. HistoryInv'
  BY <1>0, <1>2, <1>7 DEF HistoryInv, ActiveVersion, VersionNo
<1>18. ReviewInv'
  BY <1>1, <1>3, <1>4, <1>5 DEF ReviewInv
<1>19. BatchInv'
  <2>1. \A v \in Published : v \in VersionNo /\ v # a + 1
    BY <1>7 DEF Published
  <2>2. \A v \in Published : vbatch'[v] = vbatch[v] /\ vbatch[v] \in BatchId /\ vbatch[v] # b
    BY <1>1, <1>4, <1>7, <2>1 DEF BatchInv
  <2>3. \A v \in Published' : vbatch'[v] \in BatchId /\ bstatus'[vbatch'[v]] = "PACKAGED"
    BY <1>1, <1>5, <1>7, <2>2 DEF BatchInv
  <2>4. \A u, v \in Published' : vbatch'[u] = vbatch'[v] => u = v
    BY <1>1, <1>7, <2>2 DEF BatchInv
  <2>5. \A c \in BatchId : bstatus'[c] = "PACKAGED" => \E v \in Published' : vbatch'[v] = c
    <3> SUFFICES ASSUME NEW c \in BatchId, bstatus'[c] = "PACKAGED"
                 PROVE  \E v \in Published' : vbatch'[v] = c
      OBVIOUS
    <3>1. CASE c = b
      BY <1>7, <3>1
    <3>2. CASE c # b
      <4>1. PICK v \in Published : vbatch[v] = c
        BY <1>1, <1>5, <3>2 DEF BatchInv
      <4> QED
        BY <1>7, <2>2, <4>1
    <3> QED
      BY <3>1, <3>2
  <2> QED
    BY <2>3, <2>4, <2>5 DEF BatchInv
<1>20. RevisionInv'
  <2> SUFFICES ASSUME NEW k \in Identity
               PROVE  \E n \in RevNo \cup {0} :
                        /\ n # 0 => n \in Published'
                        /\ \A m \in RevNo : revPayload'[k][m] # None <=> m <= n
    BY DEF RevisionInv
  <2> DEFINE n == IF k \in Changed(b, A) THEN LastRevision(k) + 1 ELSE LastRevision(k)
  <2>1. n \in RevNo \cup {0} /\ \A m \in RevNo : revPayload'[k][m] # None <=> m <= n
    BY <1>14 DEF Filled
  <2>2. n # 0 => n \in Published'
    <3>1. LastRevision(k) <= a
      <4>1. a \in Nat
        BY <1>0, <1>2 DEF VersionNo
      <4>2. LastRevision(k) # 0 => LastRevision(k) \in VersionNo
        BY <1>11 DEF Published
      <4>3. LastRevision(k) # 0 => LastRevision(k) <= a
        BY <1>9, <1>11, <4>2
      <4> QED
        BY <4>1, <4>3
    <3>2. CASE k \in Changed(b, A)
      <4>1. LastRevision(k) + 1 <= a + 1 /\ LastRevision(k) + 1 \in VersionNo
        BY <1>0, <1>2, <1>10, <1>11, <3>1, <3>2 DEF VersionNo, RevNo, Filled
      <4>2. LastRevision(k) + 1 = a + 1 \/ LastRevision(k) + 1 <= a
        BY <1>0, <1>2, <1>11, <4>1 DEF VersionNo, RevNo, Filled
      <4> QED
        BY <1>7, <1>9, <3>2, <4>1, <4>2
    <3>3. CASE k \notin Changed(b, A)
      BY <1>7, <1>11, <3>3
    <3> QED
      BY <3>2, <3>3
  <2> HIDE DEF n
  <2> QED
    BY <2>1, <2>2
\* What a manifest listed keeps its payload and its batch.
<1>21. \A v \in VersionNo, k \in Identity : v # a + 1 /\ manifest[v][k] # 0 =>
         /\ v \in Published /\ manifest'[v][k] = manifest[v][k] /\ manifest[v][k] \in RevNo
         /\ revPayload[k][manifest[v][k]] # None
         /\ revPayload'[k][manifest[v][k]] = revPayload[k][manifest[v][k]]
         /\ revBatch'[k][manifest[v][k]] = revBatch[k][manifest[v][k]]
  BY <1>1, <1>7, <1>13 DEF ManifestInv, TypeOK
\* What is carried over into the new manifest keeps its payload.
<1>22. \A k \in Identity \ Changed(b, A) : Effective(b, A, k) # 0 =>
         /\ Effective(b, A, k) = Current(k) /\ Current(k) \in RevNo
         /\ revPayload[k][Current(k)] # None
         /\ revPayload'[k][Current(k)] = revPayload[k][Current(k)]
  <2> SUFFICES ASSUME NEW k \in Identity \ Changed(b, A), Effective(b, A, k) # 0
               PROVE  /\ Effective(b, A, k) = Current(k) /\ Current(k) \in RevNo
                      /\ revPayload[k][Current(k)] # None
                      /\ revPayload'[k][Current(k)] = revPayload[k][Current(k)]
    OBVIOUS
  <2>1. Effective(b, A, k) = Current(k)
    BY <1>6
  <2>2. a # 0 /\ Current(k) = manifest[a][k]
    BY <1>9, <2>1
  <2>3. a \in VersionNo /\ a # a + 1
    BY <1>0, <1>2, <2>2 DEF VersionNo
  <2> QED
    BY <1>21, <2>1, <2>2, <2>3
\* What is changed is listed with what was approved.
<1>23. \A k \in Changed(b, A) : /\ Effective(b, A, k) \in RevNo
                                /\ revPayload'[k][Effective(b, A, k)] = reviewed[b][k]
                                /\ reviewed[b][k] # None
                                /\ revBatch'[k][Effective(b, A, k)] = b
  BY <1>6, <1>8, <1>10, <1>12
<1>24. ManifestInv'
  <2> SUFFICES ASSUME NEW v \in VersionNo, NEW k \in Identity, manifest'[v][k] # 0
               PROVE  v \in Published' /\ revPayload'[k][manifest'[v][k]] # None
    BY DEF ManifestInv
  <2>1. CASE v = a + 1
    <3>1. manifest'[v][k] = Effective(b, A, k)
      BY <1>7, <2>1
    <3> QED
      BY <1>7, <1>22, <1>23, <2>1, <3>1
  <2>2. CASE v # a + 1
    BY <1>7, <1>21, <2>2
  <2> QED
    BY <2>1, <2>2
<1>25. ManifestMirrorsAssets'
  <2> SUFFICES ASSUME NEW k \in Identity
               PROVE  /\ asset'[k] = "active" <=> Effective(b, A, k) # 0
                      /\ Effective(b, A, k) # 0 => Effective(b, A, k) = LastRevision(k)'
    BY <1>7 DEF ManifestMirrorsAssets, InForce
  <2>1. asset'[k] = CASE k \in Changed(b, A)     -> "active"
                      [] k \in A \ Changed(b, A) -> "retired"
                      [] k \notin A              -> asset[k]
    BY <1>3 DEF Materialize
  <2>2. /\ asset[k] = "active" <=> Current(k) # 0
        /\ Current(k) # 0 => Current(k) = LastRevision(k)
    BY <1>1 DEF ManifestMirrorsAssets, InForce
  <2>3. CASE k \in Changed(b, A)
    <3>1. asset'[k] = "active"
      BY <1>6, <2>1, <2>3
    <3>2. LastRevision(k) + 1 # 0
      BY <1>0, <1>10, <2>3 DEF RevNo
    <3> QED
      BY <1>6, <1>14, <2>3, <3>1, <3>2
  <2>4. CASE k \in A \ Changed(b, A)
    BY <1>6, <2>1, <2>4
  <2>5. CASE k \notin A
    <3>1. k \notin Changed(b, A) /\ asset'[k] = asset[k]
      BY <1>6, <2>1, <2>5
    <3> QED
      BY <1>6, <1>14, <2>2, <2>5, <3>1
  <2> QED
    BY <2>3, <2>4, <2>5
<1>26. VersionsAreAsApproved'
  <2> SUFFICES ASSUME NEW v \in VersionNo, vstatus'[v] # "ABSENT", NEW k \in Identity
               PROVE  LET before == IF v = 1 THEN 0 ELSE manifest'[v - 1][k]
                          now    == manifest'[v][k]
                      IN  /\ now # before <=> pstatus'[vbatch'[v]][k] = "APPROVED"
                          /\ now \notin {0, before} =>
                               /\ revBatch'[k][now] = vbatch'[v]
                               /\ revPayload'[k][now] = reviewed'[vbatch'[v]][k]
    BY DEF VersionsAreAsApproved
  <2>0. a \in Nat
    BY <1>0, <1>2 DEF VersionNo
  <2>1. CASE v = a + 1
    <3>1. manifest'[v][k] = Effective(b, A, k) /\ vbatch'[v] = b
      BY <1>7, <2>1
    <3>2. (IF v = 1 THEN 0 ELSE manifest'[v - 1][k]) = Current(k)
      <4>1. v = 1 <=> a = 0
        BY <2>0, <2>1
      <4>2. v # 1 => v - 1 = a /\ a \in VersionNo /\ a # a + 1
        BY <1>2, <2>0, <2>1
      <4> QED
        BY <1>7, <1>9, <4>1, <4>2
    <3>3. Effective(b, A, k) # Current(k) <=> k \in A
      BY <1>6
    <3>4. Effective(b, A, k) \notin {0, Current(k)} => k \in Changed(b, A)
      BY <1>6
    <3> QED
      BY <1>3, <1>4a, <1>23, <3>1, <3>2, <3>3, <3>4
  <2>2. CASE v # a + 1
    <3>1. v \in Published /\ v <= a
      BY <1>7, <1>9, <2>2 DEF Published
    <3>2. vbatch'[v] = vbatch[v] /\ vbatch[v] \in BatchId /\ vbatch[v] # b
      BY <1>1, <1>4, <1>7, <2>2, <3>1 DEF BatchInv
    <3>3. pstatus'[vbatch[v]] = pstatus[vbatch[v]] /\ reviewed' = reviewed
      BY <1>3, <1>4, <3>2
    <3>4. manifest'[v] = manifest[v]
      BY <1>7, <2>2
    <3>5. v # 1 => manifest'[v - 1] = manifest[v - 1]
      <4>1. v # 1 => v - 1 \in VersionNo /\ v - 1 # a + 1
        BY <1>0, <2>0, <3>1 DEF VersionNo
      <4> QED
        BY <1>7, <4>1
    <3>6. LET before == IF v = 1 THEN 0 ELSE manifest[v - 1][k]
              now    == manifest[v][k]
          IN  /\ now # before <=> pstatus[vbatch[v]][k] = "APPROVED"
              /\ now \notin {0, before} =>
                   revBatch[k][now] = vbatch[v] /\ revPayload[k][now] = reviewed[vbatch[v]][k]
      BY <1>1, <3>1 DEF VersionsAreAsApproved, Published
    <3>7. manifest[v][k] # 0 => /\ revBatch'[k][manifest[v][k]] = revBatch[k][manifest[v][k]]
                                /\ revPayload'[k][manifest[v][k]] = revPayload[k][manifest[v][k]]
      BY <1>21, <2>2
    <3> QED
      BY <3>2, <3>3, <3>4, <3>5, <3>6, <3>7
  <2> QED
    BY <2>1, <2>2
<1>27. VersionsAreClosed'
  <2> SUFFICES ASSUME NEW v \in VersionNo, NEW k \in Identity, manifest'[v][k] # 0,
                      NEW m \in Needs[revPayload'[k][manifest'[v][k]]]
               PROVE  manifest'[v][m] # 0
    BY DEF VersionsAreClosed
  <2>1. CASE v = a + 1
    <3>1. manifest'[v][k] = Effective(b, A, k)
      BY <1>7, <2>1
    <3>2. revPayload'[k][Effective(b, A, k)] = EffectivePayload(b, A, k)
      BY <1>22, <1>23, <3>1 DEF EffectivePayload, CurrentPayload, InForce
    <3>3. EffectivePayload(b, A, k) \in Payload
      BY <1>1, <1>10, <1>15, <1>22, <3>1, <3>2 DEF EffectivePayload, TypeOK
    <3>4. m \in Identity
      BY <3>1, <3>2, <3>3, GovernanceAssumption DEF GovernanceAssumption
    <3>5. Effective(b, A, m) # 0
      BY <1>3, <3>1, <3>2 DEF Valid, NeedsMet
    <3> QED
      BY <1>7, <2>1, <3>4, <3>5
  <2>2. CASE v # a + 1
    BY <1>1, <1>7, <1>21, <2>2 DEF VersionsAreClosed
  <2> QED
    BY <2>1, <2>2
<1> QED
  BY <1>16, <1>17, <1>18, <1>19, <1>20, <1>24, <1>25, <1>26, <1>27 DEF IInv

-----------------------------------------------------------------------------
(* The theorems *)

LEMMA InitIInv == Init => IInv
<1> SUFFICES ASSUME Init PROVE IInv
  OBVIOUS
<1>0. MaxBatches \in Nat \ {0}
  BY GovernanceAssumption DEF GovernanceAssumption
<1>1. TypeOK
  BY DEF Init, TypeOK, BatchStatus, ProposalStatus
<1>2. Published = {} /\ ActiveVersion = {}
  BY DEF Init, Published, ActiveVersion
<1>3. \A j \in Identity : Current(j) = 0
  BY <1>2 DEF Current
<1>4. HistoryInv /\ ReviewInv
  BY DEF Init, HistoryInv, ReviewInv
<1>5. BatchInv
  BY <1>2 DEF Init, BatchInv
<1>6. RevisionInv
  BY <1>0 DEF Init, RevisionInv, RevNo
<1>7. ManifestInv /\ VersionsAreAsApproved /\ VersionsAreClosed
  BY DEF Init, ManifestInv, VersionsAreAsApproved, VersionsAreClosed
<1>8. ManifestMirrorsAssets
  BY <1>3 DEF Init, ManifestMirrorsAssets, InForce
<1> QED
  BY <1>1, <1>4, <1>5, <1>6, <1>7, <1>8 DEF IInv

LEMMA NextIInv == IInv /\ [Next]_vars => IInv'
<1> SUFFICES ASSUME IInv, [Next]_vars PROVE IInv'
  OBVIOUS
<1>1. ASSUME UNCHANGED vars PROVE IInv'
  <2>1. UNCHANGED <<bstatus, pstatus, pop, reviewed, packageVars>>
    BY <1>1 DEF vars, proposalVars
  <2>2. TypeOK' /\ ReviewInv'
    BY <2>1 DEF IInv, TypeOK, ReviewInv, packageVars
  <2> QED
    BY <2>1, <2>2, QuietStep DEF IInv
<1>2. ASSUME NEW b \in BatchId, NEW cands \in CandidateSets, NEW alternatives \in Alternatives,
             Promote(b, cands, alternatives)
      PROVE  IInv'
  BY <1>2, PromoteStep
<1>3. ASSUME NEW b \in BatchId, NEW j \in Identity, NEW p \in Payload \cup {None}, Edit(b, j, p)
      PROVE  IInv'
  BY <1>3, EditStep
<1>4. ASSUME NEW b \in BatchId, NEW j \in Identity, NEW decision \in {"APPROVED", "REJECTED"},
             NEW schemasFit \in BOOLEAN, Decide(b, j, decision, schemasFit)
      PROVE  IInv'
  BY <1>4, DecideCases, SettleStep, BuildStep
<1> QED
  BY <1>1, <1>2, <1>3, <1>4 DEF Next

\* The strengthening is inductive: it holds in every reachable state.
THEOREM Inductive == Spec => []IInv
  BY InitIInv, NextIInv, PTL DEF Spec

\* Type correctness.
THEOREM TypeCorrect == Spec => []TypeOK
<1>1. IInv => TypeOK
  BY DEF IInv
<1> QED
  BY <1>1, Inductive, PTL

\* The manifest of the active version, the is_active flags and the revision numbers
\* never disagree.
THEOREM Mirrored == Spec => []ManifestMirrorsAssets
<1>1. IInv => ManifestMirrorsAssets
  BY DEF IInv
<1> QED
  BY <1>1, Inductive, PTL

\* Every version differs from its predecessor by what its batch approved.
THEOREM AsApproved == Spec => []VersionsAreAsApproved
<1>1. IInv => VersionsAreAsApproved
  BY DEF IInv
<1> QED
  BY <1>1, Inductive, PTL

\* Every version is closed under dependencies.
THEOREM Closed == Spec => []VersionsAreClosed
<1>1. IInv => VersionsAreClosed
  BY DEF IInv
<1> QED
  BY <1>1, Inductive, PTL

LEMMA EndOnce == IInv => BatchesEndOnce
<1> SUFFICES ASSUME IInv, NEW b \in BatchId
             PROVE  Cardinality({v \in VersionNo : vstatus[v] # "ABSENT" /\ vbatch[v] = b})
                      = IF bstatus[b] = "PACKAGED" THEN 1 ELSE 0
  BY DEF BatchesEndOnce, IInv, ReviewInv
<1> DEFINE S == {v \in VersionNo : vstatus[v] # "ABSENT" /\ vbatch[v] = b}
<1>1. BatchInv
  BY DEF IInv
<1>2. \A v : v \in S <=> v \in Published /\ vbatch[v] = b
  BY DEF Published
<1>3. CASE bstatus[b] = "PACKAGED"
  <2>1. PICK v \in Published : vbatch[v] = b
    BY <1>1, <1>3 DEF BatchInv
  <2>2. S = {v}
    BY <1>1, <1>2, <2>1 DEF BatchInv
  <2> QED
    BY <1>3, <2>2, FS_Singleton
<1>4. CASE bstatus[b] # "PACKAGED"
  <2>1. S = {}
    BY <1>1, <1>2, <1>4 DEF BatchInv
  <2> QED
    BY <1>4, <2>1, FS_EmptySet
<1> QED
  BY <1>3, <1>4

\* A batch is open as long as a proposal is, and is built at most once.
THEOREM BatchesEnd == Spec => []BatchesEndOnce
  BY EndOnce, Inductive, PTL

\* While a batch is open there is a number left for its version: the versions there
\* are have batches of their own among the others.
LEMMA NumberLeft ==
  ASSUME IInv, NEW b \in BatchId, bstatus[b] # "PACKAGED", NEW a, ActiveIs(a)
  PROVE  a < MaxBatches
<1>0. MaxBatches \in Nat \ {0}
  BY GovernanceAssumption DEF GovernanceAssumption
<1>1. a \in 0 .. MaxBatches
  BY <1>0 DEF ActiveIs, VersionNo
<1> SUFFICES ASSUME a = MaxBatches PROVE FALSE
  BY <1>0, <1>1
<1>2. \A v \in 1 .. MaxBatches : v \in Published
  BY <1>0 DEF ActiveIs, VersionNo
<1> DEFINE f == [v \in 1 .. MaxBatches |-> vbatch[v]]
           T == (1 .. MaxBatches) \ {b}
<1>3. f \in [1 .. MaxBatches -> T]
  BY <1>2 DEF IInv, BatchInv, BatchId
<1>4. IsFiniteSet(1 .. MaxBatches) /\ Cardinality(1 .. MaxBatches) = MaxBatches
  BY <1>0, FS_Interval
<1>5. IsFiniteSet(T) /\ Cardinality(T) = MaxBatches - 1
  BY <1>4, FS_RemoveElement DEF BatchId
<1>6. Cardinality(T) < Cardinality(1 .. MaxBatches)
  BY <1>0, <1>4, <1>5
<1> HIDE DEF f, T
<1>7. \E u, v \in 1 .. MaxBatches : u # v /\ f[u] = f[v]
  BY <1>3, <1>4, <1>5, <1>6, FS_PigeonHole
<1> QED
  BY <1>2, <1>7 DEF f, IInv, BatchInv

LEMMA InsertsAlwaysFit ==
  ASSUME IInv, NEW b \in BatchId, NEW j \in Identity, NEW decision \in {"APPROVED", "REJECTED"},
         Reviewable(b, j), Valid(b, ApprovedWith(b, j, decision), TRUE)
  PROVE  InsertsFit(b, ApprovedWith(b, j, decision))
<1>0. MaxBatches \in Nat \ {0}
  BY GovernanceAssumption DEF GovernanceAssumption
<1>1. TypeOK /\ HistoryInv /\ ReviewInv /\ RevisionInv /\ ManifestMirrorsAssets
  BY DEF IInv
<1>2. PICK a \in VersionNo \cup {0} : ActiveIs(a)
  BY <1>1, ActiveExists
<1>3. bstatus[b] # "PACKAGED"
  BY <1>1 DEF ReviewInv, Reviewable
<1>4. a \in Nat /\ a < MaxBatches
  BY <1>0, <1>2, <1>3, NumberLeft DEF VersionNo
<1>5. NewVersion \in VersionNo /\ vstatus[NewVersion] = "ABSENT"
  <2>1. NewVersion = a + 1 /\ a + 1 \in VersionNo /\ ~(a + 1 <= a)
    BY <1>0, <1>2, <1>4 DEF ActiveIs, VersionNo
  <2> QED
    BY <1>2, <2>1 DEF ActiveIs, Published
<1> DEFINE A == ApprovedWith(b, j, decision)
<1>6. ASSUME NEW k \in Changed(b, A)
      PROVE  /\ Effective(b, A, k) \in RevNo /\ revPayload[k][Effective(b, A, k)] = None
             /\ pop[b][k] = "CREATE" => asset[k] # "active"
  <2>1. k \in A
    BY DEF Changed
  <2>2. k \in Identity
    BY <1>1, <2>1, ApprovedTyped
  <2>3. /\ Effective(b, A, k) = LastRevision(k) + 1
        /\ pop[b][k] = "CREATE" => asset[k] # "active"
    BY <1>1, <1>6, <2>2, EffectiveIs
  <2>4. /\ Filled(revPayload[k], LastRevision(k))
        /\ LastRevision(k) # 0 => LastRevision(k) \in Published
    BY <1>1, <2>2, LastExists
  <2>5. LastRevision(k) \in Nat /\ LastRevision(k) <= a
    BY <1>0, <1>2, <1>4, <2>4 DEF Filled, RevNo, ActiveIs, Published, VersionNo
  <2>6. LastRevision(k) + 1 \in RevNo /\ ~(LastRevision(k) + 1 <= LastRevision(k))
    BY <1>0, <1>4, <2>5 DEF RevNo
  <2> QED
    BY <2>3, <2>4, <2>6 DEF Filled
<1> QED
  BY <1>5, <1>6 DEF InsertsFit

\* No review that completes a valid batch is refused by a unique constraint.
THEOREM NeverAborts == Spec => []ReviewNeverAborts
<1>1. IInv => ReviewNeverAborts
  BY InsertsAlwaysFit DEF ReviewNeverAborts
<1> QED
  BY <1>1, Inductive, PTL

-----------------------------------------------------------------------------
(* The refinement *)

LEMMA HistoryInit == Init => History!Init
  BY DEF Init, History!Init, Published

LEMMA HistoryStep == IInv /\ [Next]_vars => [History!Next]_(History!vars)
<1> SUFFICES ASSUME IInv, [Next]_vars PROVE [History!Next]_(History!vars)
  OBVIOUS
<1>0. MaxBatches \in Nat \ {0}
  BY GovernanceAssumption DEF GovernanceAssumption
<1>1. ASSUME UNCHANGED packageVars PROVE UNCHANGED History!vars
  BY <1>1 DEF packageVars, History!vars, Published
<1>2. ASSUME NEW b \in BatchId, NEW j \in Identity, NEW decision \in {"APPROVED", "REJECTED"},
             Builds(b, j, decision)
      PROVE  History!Next
  <2>1. IInv'
    BY <1>2, BuildStep
  <2>2. PICK a \in VersionNo \cup {0} : ActiveIs(a) /\ AfterBuild(b, j, decision, a)
    BY <1>2, BuildFacts
  <2>3. a \in Nat /\ a + 1 \in VersionNo /\ Published' = Published \cup {a + 1}
    BY <1>0, <2>2 DEF AfterBuild, VersionNo
  <2>4. Published = 1 .. a
    BY <1>0, <2>2, <2>3 DEF ActiveIs, Published, VersionNo
  <2>5. Published' = 1 .. a + 1
    BY <2>3, <2>4
  <2>6. {v \in VersionNo : vstatus'[v] = "ACTIVE"} = {a + 1}
    BY <2>2, <2>3 DEF AfterBuild
  <2>7. [v \in Published' |-> manifest'[v]] \in [1 .. a + 1 -> [Identity -> 0 .. MaxBatches]]
    <3>1. \A v \in Published' : manifest'[v] \in [Identity -> RevNo \cup {0}]
      BY <2>1 DEF IInv, TypeOK, Published
    <3>2. RevNo \cup {0} = 0 .. MaxBatches
      BY <1>0 DEF RevNo
    <3> QED
      BY <2>5, <3>1, <3>2
  <2>8. \A u \in Published : manifest'[u] = manifest[u] /\ u \in Published'
    BY <2>2, <2>3, <2>4 DEF AfterBuild, Published
  <2>9. a + 1 - 1 = a
    BY <2>3
  <2>10. \A u \in Published : [v \in Published' |-> manifest'[v]][u] = [v \in Published |-> manifest[v]][u]
    BY <2>8
  <2>11. Published = 1 .. (a + 1) - 1
    BY <2>3, <2>4, <2>9
  <2>12. History!Publish(a + 1)
    BY <2>5, <2>6, <2>7, <2>10, <2>11 DEF History!Publish, History!RevNo
  <2> QED
    BY <2>3, <2>12 DEF History!Next, History!VersionNo, VersionNo
<1>3. UNCHANGED packageVars \/ \E b \in BatchId, j \in Identity, decision \in {"APPROVED", "REJECTED"} :
                                 Builds(b, j, decision)
  <2>1. ASSUME UNCHANGED vars PROVE UNCHANGED packageVars
    BY <2>1 DEF vars
  <2>2. ASSUME NEW b \in BatchId, NEW cands \in CandidateSets, NEW alternatives \in Alternatives,
               Promote(b, cands, alternatives)
        PROVE  UNCHANGED packageVars
    BY <2>2 DEF Promote
  <2>3. ASSUME NEW b \in BatchId, NEW j \in Identity, NEW p \in Payload \cup {None}, Edit(b, j, p)
        PROVE  UNCHANGED packageVars
    BY <2>3 DEF Edit
  <2>4. ASSUME NEW b \in BatchId, NEW j \in Identity, NEW decision \in {"APPROVED", "REJECTED"},
               NEW schemasFit \in BOOLEAN, Decide(b, j, decision, schemasFit)
        PROVE  UNCHANGED packageVars \/ Builds(b, j, decision)
    <3>1. Settles(b, j, decision) \/ Builds(b, j, decision)
      BY <2>4, DecideCases
    <3>2. Settles(b, j, decision) => UNCHANGED packageVars
      BY DEF Settles
    <3> QED
      BY <3>1, <3>2
  <2> QED
    BY <2>1, <2>2, <2>3, <2>4 DEF Next
<1> QED
  BY <1>1, <1>2, <1>3

\* Governance implements the package history.
THEOREM Implementation == Spec => ImplementsPackageHistory
<1>1. Spec => History!Init /\ [][History!Next]_(History!vars)
  BY HistoryInit, HistoryStep, Inductive, PTL DEF Spec
<1> QED
  BY <1>1 DEF ImplementsPackageHistory, History!Spec
=============================================================================
