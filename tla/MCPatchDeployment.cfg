SPECIFICATION Spec
CONSTANTS
    a = a
    b = b
    Lines = {a, b}
    Initial <- TheSpecs
    Patches <- ThePatches
    Context = 1
    MaxReplicas = 1
    MaxPolls = 1
    MaxChanges = 2
CHECK_DEADLOCK FALSE
INVARIANTS
    TypeOK
    DiffIsRight
    CompleteIsComplete
PROPERTIES
    VerificationEnds
