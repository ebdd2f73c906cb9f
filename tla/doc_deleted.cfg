SPECIFICATION FairSpec
CONSTANTS
    Absent = Absent
    Clusters = {"a"}
    Rival = Absent
    Specs <- RefusedSpec
    MaxReplicas = 2
    MaxUid = 1
    MaxGen = 1
    MaxFail = 0
    MaxChurn = 1
    MaxCrash = 0
    MaxDrift = 0
    MaxFlap = 0
    MaxToggle = 2
CHECK_DEADLOCK FALSE
PROPERTIES
    EventuallyDeleted
