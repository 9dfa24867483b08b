SPECIFICATION Spec
CONSTANTS
    Parts = {"breath"}
    LifecycleConfig <- TheLifecycle
    Needs = {1, 5}
    LiveGate = {TRUE, FALSE}
    Signals <- TheSignals
    Driver = "persisted"
    RequestConfigs <- TheRequestBands
    StartPods <- ThePods
    Postures <- ThePostures
    Demands = {1, 3}
    Limits = {3, 4}
PROPERTIES NeverStuck
CHECK_DEADLOCK FALSE
