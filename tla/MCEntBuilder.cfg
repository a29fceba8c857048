SPECIFICATION Spec
CONSTANTS
  Zero = zero
  Null = Null
  Default = v
  Tracked <- Followed
  Databases <- InitialDatabases
  Structs <- SomeStructs
  Configs <- SomeConfigs
  Selections <- SomeSelections
  Named = {1, 2, 3}
  Dialects <- SomeDialects
  MaxRows = 4
  MaxCalls = 3
  MaxSaves = 2
  MaxBulk = 2
INVARIANT ReferencesHold
PROPERTIES PromiseKept NoTheft HooksSeeEveryChange
CHECK_DEADLOCK FALSE
