SPECIFICATION Spec
CONSTANTS
  Clients = {c1}
  Columns <- AccountColumns
  Kind <- AccountKind
  Immutable = {"username"}
  Key = "username"
  Zero = zero
  Values = {zero, v}
  Null = Null
  Peers = {t}
  NoPeer = NoPeer
  Configs <- AccountConfigs
  MaxRows = 2
  MaxBulk = 2
  MaxEdits = 1
  MaxJobs = 3
INVARIANTS TypeOK BulkIsComplete
PROPERTIES UneditedSaveIsHarmless AllowlistFrames ImmutableKept
CHECK_DEADLOCK FALSE
