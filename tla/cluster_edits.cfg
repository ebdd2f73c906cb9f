SPECIFICATION Spec
CONSTANTS
    Absent = Absent
    Specs <- EditedSpecs
    MaxReplicas = 2
    MaxUid = 1
    MaxGen = 3
    MaxFail = 0
    MaxCrash = 0
    MaxDrift = 0
    MaxFlap = 0
    MaxToggle = 0
CHECK_DEADLOCK FALSE
CONSTRAINT Undeleted
INVARIANTS
    ObservedMeansApplied
    DependenciesFirst
    BackendReadyMeansDeployed
    UnsupportedStaysUnobserved
PROPERTIES
    ObservedNeverRegresses
    SteadyState
