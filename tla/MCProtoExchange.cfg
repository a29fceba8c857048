SPECIFICATION Spec
CONSTANTS
    Name <- UserNames
    Id = "id"
    Rank <- UserRank
    Kind <- UserKind
    Versions <- UserVersions
    Values = {zero, epoch, v}
    Zero = zero
    Null = null
    Epoch = epoch
    Enumeration <- Statuses
    active = active
    gone = gone
    pending = pending
    Clients = {c1, c2}
    MaxBuilds = 3
    MaxEdits = 2
    MaxPuts = 2
SYMMETRY ClientSymmetry
INVARIANT TypeOK
PROPERTIES LandsWhereMeant MaskedEditsArrive AbsentSurvives RoundTrip
CHECK_DEADLOCK FALSE
