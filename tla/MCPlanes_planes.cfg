SPECIFICATION Spec
CONSTANTS
    Parts = {"host", "soft", "waste", "health"}
    HostNodes = {1, 2}
    HostBands <- TheHostBands
    Charters <- TheCharters
    HostNeeds = {100, 250}
    MaxHostMoves = 1
    MaxHostFaults = 1
    SoftPods = {1, 2}
    SoftCfgs <- TheSoftCfgs
    Readings <- TheReadings
    MaxContainers = 2
    MaxSoftFaults = 1
    PodSets <- ThePodSets
    Grace = 1
    Dilution = 3
    MaxIntervals = 3
    StuckAfter = 2
    Outcomes = {"rest", "carve", "throttled", "conflict", "blind", "noLimit", "incapable", "noTarget", "suspended"}
INVARIANT StuckEarned
PROPERTIES IdleIsMeasured PlanesServe
