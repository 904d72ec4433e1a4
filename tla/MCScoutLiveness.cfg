SPECIFICATION FairSpec
CONSTANTS
    Incidents = {i1, i2}
    MaxOpen = 1
    ChanCap = 1
    Closings <- TheClosings
    MaxMishaps = 1
PROPERTIES
    QueuedHasItsTurn
    ClosedIsDropped
