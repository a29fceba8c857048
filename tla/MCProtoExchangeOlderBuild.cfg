SPECIFICATION Spec
CONSTANTS
    Name <- AccountNames
    Id = "id"
    Rank <- AccountRank
    Kind <- AccountKind
    Versions <- AccountVersions
    Values = {zero, epoch, v}
    Zero = zero
    Null = null
    Epoch = epoch
    Enumeration <- Statuses
    active = active
    gone = gone
    pending = pending
    Clients = {c1}
    MaxBuilds = 3
    MaxEdits = 2
    MaxPuts = 2
INVARIANT NeverPanics
CHECK_DEADLOCK FALSE
