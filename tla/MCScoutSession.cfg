SPECIFICATION Spec
CONSTANTS
    Incidents = {i1, i2, i3}
    MaxOpen = 2
    ChanCap = 2
    Closings <- TheClosings
    MaxMishaps = 1
INVARIANTS
    TypeOK
    OpenIsClaimed
    QueuedIsArriving
    ClaimedIsHeld
PROPERTY
    FinishedStays
