SPECIFICATION FairSpec
CONSTANTS
    UpdateCap = 1
    TextCap = 2
    PressCap = 1
    MaxTexts = 4
    MaxPresses = 2
    MaxQuestions = 1
    MaxRestarts = 1
CHECK_DEADLOCK FALSE
INVARIANTS
    TypeOK
    HeardInOrder
    RecentKept
PROPERTIES
    TextIsHeard
