SPECIFICATION Spec
CONSTANTS
    Absent = Absent
    Specs <- BackendSpecs
    MaxReplicas = 2
    MaxUid = 1
    MaxGen = 2
    MaxFail = 0
    MaxCrash = 0
    MaxDrift = 0
    MaxFlap = 0
    MaxToggle = 0
CHECK_DEADLOCK FALSE
INVARIANTS
    BackendReadyMeansRunning
