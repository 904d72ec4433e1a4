SPECIFICATION FairSpec
CONSTANTS
    Policies = {p1, p2}
    Specs <- TheSpecs
    NoSpec = NoSpec
    Pod = Pod
    Deployment = Deployment
    Secret = Secret
    OOM = OOM
    Pending = Pending
    pod1 = pod1
    Envelope = {Pod, Deployment}
    Objects = {pod1}
    KindOf <- TheKinds
    MaxEdits = 3
    MaxMishaps = 1
CHECK_DEADLOCK FALSE
INVARIANTS
    TypeOK
    RegistryFollowsPolicies
PROPERTIES
    OneOnceShown
    PoliciesSettle
    MatchIsRaised
