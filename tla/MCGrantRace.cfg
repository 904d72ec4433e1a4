SPECIFICATION Spec
CONSTANTS
    Incidents = {i1}
    NoIncident = none
    Roles <- TheRoles
    Bindable <- TheBindable
    Policies <- ThePolicies
    Scoped <- TheScoped
    Outcomes <- TheOutcomes
    MaxLives = 2
    MaxMishaps = 0
INVARIANT
    LiveIsGranted
\* The detector has nothing to raise any more: the system may come to rest.
CHECK_DEADLOCK FALSE
