CONSTANTS
    MaxDepth = 3
    MaxListValues = 2
    Selector = {"org", "age"}
    Allowed <- MCAllowed
    Cell <- MCCell
    Texts <- MCTexts
    Leaves <- MCLeaves
    Callbacks <- MCCallbacks
    Scopes <- MCScopes
    MaxSteps = 3
SPECIFICATION Spec
INVARIANTS FailsClosed WalkKeepsMeaning PruneIsExact FindIsComplete RoundTrip ScopeHolds
CHECK_DEADLOCK FALSE
