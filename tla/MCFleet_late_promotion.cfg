SPECIFICATION Spec
CONSTANTS
    Parts = {"database"}
    PoolSpecs <- ThePools
    Demands = {1, 3}
    MaxMoves = 2
    MaxFaults = 1
    MaxNode = 3
    Window = 2
    MaxStuck = 2
    TaintNodes = {1}
    ClaimPools = {"a"}
    NamedTargets = {}
    SelectedTargets = {1}
    Components = {"agent"}
    Catalogued = {"agent"}
    MinStable = 1
    GuardDryRun = FALSE
    GateShadow = FALSE
    MaxPodMoves = 2
    MaxLost = 1
    Pods = {p1, p2}
    PodCfg <- ThePodCfg
    Templates <- TheTemplates
    Decay = 75
    Uses = {2, 9}
    MaxFailures = 1
    MaxRecreations = 1
    MaxUseMoves = 2
    Replicas = {1, 2, 3}
    Overlays <- TheOverlays
    MaxSignals = 2
    Commits = {1}
    Jobs = {1, 2}
    MaxStarts = 2
    MaxDispatches = 2
    History = 4
    MaxAutoRetries = 1
    Floor = 2
    Multiplier = 3
    LongestWake = 1
    MaxCiFaults = 1
    Heartbeat = 2
    MaxDecisions = 2
    MaxStoreFaults = 1
    Workloads = {1, 2}
    NsOf <- TheNamespaces
    Include = {"apps"}
    Exclude = {"kube-system"}
    Kinds <- TheKinds
    InitialIntent = "calibrateThenWrite"
    NeverArm = {"Memory"}
    Shapes <- TheShapes
    MaxPolicyEvents = 2
    AppBands <- TheKnobs
    BootValue = 5
    AppLoads = {2, 9}
    MaxAppMoves = 2
    MaxAppFaults = 2
INVARIANTS PrimaryKept
CHECK_DEADLOCK FALSE
