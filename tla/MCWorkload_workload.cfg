SPECIFICATION Spec
CONSTANTS
    Parts = {"breath", "request"}
    LifecycleConfig <- TheLifecycle
    Needs = {1, 5}
    LiveGate = {TRUE, FALSE}
    Signals <- TheSignals
    Driver = "typed"
    RequestConfigs <- TheRequestBands
    StartPods <- ThePods
    Postures <- ThePostures
    Demands = {1, 3}
    Limits = {3, 4}
INVARIANTS ResizeLegal
PROPERTIES DescentProven WorkloadRests
CHECK_DEADLOCK FALSE
