SPECIFICATION Spec
CONSTANTS
  Identity <- MCIdentity
  Kind <- MCKind
  KeyOf <- MCKeyOf
  Payload <- MCPayload
  Batches <- MCBatches
  MaxVersions = 3
  MaxSeeds = 2
  MaxHops = 2
  None = None
INVARIANTS
  TypeOK
  ProjectionIsExact
  ExpansionIsOfItsVersion
CHECK_DEADLOCK FALSE
