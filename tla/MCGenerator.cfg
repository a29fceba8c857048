SPECIFICATION FairSpec
CONSTANTS
    Entities <- Two
    Define <- Examples
    Schemas <- ExampleSchemas
    NotAnnotated <- Unknown
    Missing = missing
    Torn = torn
    NoBulk <- Opted
    Imports = TRUE
    Acronyms = {"api", "id", "url", "uuid"}
    Numbered = {"2"}
    MaxEdits = 2
    MaxStops = 2
INVARIANTS EntFindsDomain MappersCompile LeftOutIsTold
PROPERTY Converges
