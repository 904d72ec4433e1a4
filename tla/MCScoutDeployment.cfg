SPECIFICATION FairSpec
CONSTANTS
    Images = {v1, v2}
    FirstImage = v1
    MaxEdits = 2
    MaxTouches = 1
    MaxMishaps = 2
CHECK_DEADLOCK FALSE
INVARIANTS
    TypeOK
    ScoutIsAlone
PROPERTIES
    OthersKept
    DeploymentSettles
