SPECIFICATION FairSpec
CONSTANTS
    Changes = {c1, c2}
    NoChange = none
    Incidents = {i1}
    ChanCap = 1
    MaxProposals = 3
    MaxPresses = 3
    MaxRestarts = 1
INVARIANTS
    TypeOK
    OneProcessAppliesApproved
PROPERTY
    AnswerIsRead
\* Once the human has pressed the last button, a question stays open for good.
CHECK_DEADLOCK FALSE
