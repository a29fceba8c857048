CONSTANTS
    id = id
    age = age
    zip = zip
    user = user
    Name <- MCName
    Id = id
    Rank <- MCRank
    Entity = {user}
    FieldLists <- MCFieldLists
    NotAnnotated = NotAnnotated
    MaxEdits = 3
    MaxFaults = 2
SPECIFICATION FairSpec
INVARIANTS TypeOK NoRebinding NumbersRemembered IInv
PROPERTIES StableNumbers ImplementsRegistry Converges
