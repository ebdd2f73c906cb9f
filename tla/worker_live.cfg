SPECIFICATION FairSpec
CONSTANTS
    Absent = Absent
    Clusters = {"a", "b"}
    Rival = "b"
    Specs <- LiveSpecs
    MaxReplicas = 2
    MaxUid = 1
    MaxGen = 2
    MaxFail = 1
    MaxChurn = 2
    MaxCrash = 0
    MaxDrift = 0
    MaxFlap = 0
    MaxToggle = 0
CHECK_DEADLOCK FALSE
INVARIANTS
    ObservedMeansApplied
    NoLostWakeup
    FinalizerFirst
PROPERTIES
    NeverStolen
    EventuallyReconciled
    EventuallyCollected
    SteadyState
    ReadyIsObservedGeneration
