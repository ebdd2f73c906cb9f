SPECIFICATION Spec
CONSTANTS
    Absent = Absent
    Clusters = {"a"}
    Rival = "a"
    Specs <- DisturbedSpecs
    MaxReplicas = 1
    MaxUid = 1
    MaxGen = 1
    MaxFail = 1
    MaxChurn = 1
    MaxCrash = 1
    MaxDrift = 1
    MaxFlap = 1
    MaxToggle = 2
CHECK_DEADLOCK FALSE
INVARIANTS
    TypeOK
    NoLostWakeup
