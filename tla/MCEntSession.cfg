SPECIFICATION SessionSpec
CONSTANTS
  Zero = zero
  Null = Null
  Default = v
  Tracked = {}
  Clients = {c1, c2}
  Databases <- InitialDatabases
  c1 = c1
  c2 = c2
  Options <- SomeOptions
  Dialect <- SomeDialect
  Withs <- SomeWiths
  MaxReads = 2
  MaxWrites = 2
  MaxEdits = 2
INVARIANT EdgesWereTrue
PROPERTY LetGo
CHECK_DEADLOCK FALSE
