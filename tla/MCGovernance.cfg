SPECIFICATION Spec
CONSTANTS
  Identity <- MCIdentity
  Dispute <- MCDispute
  DisputeOf <- MCDisputeOf
  Payload <- MCPayload
  Needs <- MCNeeds
  None = None
  CandidateSets <- MCCandidateSets
  MaxBatches = 3
INVARIANTS
  TypeOK
  BatchesEndOnce
  ManifestMirrorsAssets
  ReviewNeverAborts
  VersionsAreAsApproved
  VersionsAreClosed
PROPERTIES
  ImplementsPackageHistory
CHECK_DEADLOCK FALSE
