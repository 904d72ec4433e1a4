SPECIFICATION Spec
CONSTANTS
    Changes = {c1, c2}
    NoChange = none
    Incidents = {i1}
    ChanCap = 1
    MaxProposals = 2
    MaxPresses = 2
    MaxRestarts = 1
INVARIANT
    AppliedWasApproved
