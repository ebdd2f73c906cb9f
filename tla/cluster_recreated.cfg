SPECIFICATION Spec
CONSTANTS
    Absent = Absent
    Specs <- RecreatedSpecs
    MaxReplicas = 2
    MaxUid = 2
    MaxGen = 1
    MaxFail = 1
    MaxCrash = 0
    MaxDrift = 1
    MaxFlap = 1
    MaxToggle = 0
CHECK_DEADLOCK FALSE
CONSTRAINTS
    FirstIsDisturbed
    SecondStays
INVARIANTS
    TypeOK
    ConvergenceInv
    NoLostWakeup
    FinalizerFirst
    FirstGenerationExact
