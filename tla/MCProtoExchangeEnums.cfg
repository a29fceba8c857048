SPECIFICATION Spec
CONSTANTS
    Name <- StatusNames
    Id = "id"
    Rank <- StatusRank
    Kind <- StatusKind
    Versions <- StatusVersions
    Values = {zero, epoch, v}
    Zero = zero
    Null = null
    Epoch = epoch
    Enumeration <- Statuses
    active = active
    gone = gone
    pending = pending
    Clients = {c1}
    MaxBuilds = 3
    MaxEdits = 2
    MaxPuts = 2
PROPERTY MeaningKept
CHECK_DEADLOCK FALSE
