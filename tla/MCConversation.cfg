SPECIFICATION FairSpec
CONSTANTS
    Incidents = {i1, i2, i3}
    MaxOpen = 3
    MaxAttempts = 2
    MaxCalls = 2
    MaxMessages = 5
INVARIANTS
    TypeOK
    EveryCallIsAnswered
    SentAsSaid
    OpenIsTold
PROPERTIES
    RequestEnds
