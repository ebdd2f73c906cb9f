SPECIFICATION FairSpec
CONSTANTS
    Absent = Absent
    Specs <- LiveSpecs
    MaxReplicas = 2
    MaxUid = 1
    MaxGen = 2
    MaxFail = 1
    MaxCrash = 1
    MaxDrift = 0
    MaxFlap = 0
    MaxToggle = 1
CHECK_DEADLOCK FALSE
INVARIANTS
    NoLostWakeup
    MonitorFollows
PROPERTIES
    EventuallyConverges
    EventuallyCollected
    ReadyIsObservedGeneration
