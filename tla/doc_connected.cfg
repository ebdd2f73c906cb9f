SPECIFICATION FairSpec
CONSTANTS
    Absent = Absent
    Clusters = {"a", "b"}
    Rival = Absent
    Specs <- MovedSpecs
    MaxReplicas = 2
    MaxUid = 1
    MaxGen = 2
    MaxFail = 0
    MaxChurn = 2
    MaxCrash = 0
    MaxDrift = 0
    MaxFlap = 0
    MaxToggle = 0
CHECK_DEADLOCK FALSE
PROPERTIES
    EventuallyConnected
