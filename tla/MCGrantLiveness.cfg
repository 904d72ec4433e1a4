SPECIFICATION FairSpec
CONSTANTS
    Incidents = {i1}
    NoIncident = none
    Roles <- TheRoles
    Bindable <- TheBindable
    Policies <- ThePolicies
    Scoped <- TheScoped
    Outcomes <- TheOutcomes
    MaxLives = 1
    MaxMishaps = 1
PROPERTIES
    EndedGrantGoes
    EveryIncidentDispatched
    DeletionCompletes
\* The detector has nothing to raise any more: the system may come to rest.
CHECK_DEADLOCK FALSE
