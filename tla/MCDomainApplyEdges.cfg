SPECIFICATION Spec
CONSTANTS
  Clients = {c1}
  Columns <- UserColumns
  Kind <- UserKind
  Immutable = {"username"}
  Key = "username"
  Zero = zero
  Values = {zero, v}
  Null = Null
  Peers = {t}
  NoPeer = NoPeer
  Configs <- UserConfigs
  MaxRows = 1
  MaxBulk = 1
  MaxEdits = 1
  MaxJobs = 3
CHECK_DEADLOCK FALSE
PROPERTIES AllowlistKeepsEdges
