CONSTANTS
    Declared <- MCDeclared
    Meaning <- MCMeaning
    Texts <- MCTexts
    MaxListValues = 2
    MaxEdits = 1
SPECIFICATION Spec
INVARIANTS AnsweredIffGranted ListsPartition NullTestsApply
CHECK_DEADLOCK FALSE
