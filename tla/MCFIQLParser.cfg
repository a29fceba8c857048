CONSTANTS
    MaxDepth = 2
    MaxListValues = 2
    Selector = {"age"}
    MaxChunks = 4
    MaxNesting = 7
    Texts <- MCTexts
SPECIFICATION FairSpec
INVARIANTS TypeOK StackBounded RecognisesGrammar
PROPERTIES Terminates
CHECK_DEADLOCK FALSE
