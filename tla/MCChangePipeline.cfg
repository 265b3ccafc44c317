\* Two document stores that share an adapter and a database, with edits between listing
\* and fetch.
SPECIFICATION Spec
CONSTANTS
  docs = docs
  notes = notes
  tables = tables
  None = None
  Sources = {docs, notes, tables}
  Objects = {"a", "b"}
  MaxRev = 2
  Structured = {tables}
  Incremental = {"google-drive"}
  AdapterOf <- MCAdapter
  FileOf <- MCFile
  Blank = {1}
  Sensitive = {2}
  MaxEdits = 2
  MaxCalls = 3
  MaxFaults = 2
SYMMETRY Symmetric
INVARIANTS
  TypeOK
  CursorFollowsHandoffs
  OutcomesAreHonest
PROPERTY
  NeverHandedTwice
\* The numbers of edits, calls and faults are bounded.
CHECK_DEADLOCK FALSE
