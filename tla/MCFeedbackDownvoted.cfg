SPECIFICATION Spec
CONSTANTS
  t1 = t1
  a1 = a1
  a2 = a2
  c1 = c1
  c2 = c2
  file = file
  file1 = file1
  file2 = file2
  None = None
  Trace <- MCTrace
  Actor <- MCActor
  Client <- MCClient
  Document <- MCDocument
  Claim <- MCNoClaim
  ChunkKey <- MCChunkKey
  Size <- MCSize
  MaxIndexed = 2
  MaxSubmits = 3
SYMMETRY Symmetric
INVARIANT
  DownvotedIsNeverPositive
CHECK_DEADLOCK FALSE
