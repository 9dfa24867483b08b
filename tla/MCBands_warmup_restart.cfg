SPECIFICATION FaultsSpec
CONSTANTS
    Cfg <- WarmBand
    Dir = "Bidirectional"
    ReclaimPolicy = "Enabled"
    BoundIntro = "Forbidden"
    FieldLayout = "PodResize"
    Resource = "cpu"
    Policy = "RestartFreeOnly"
    CooldownSecs = 0
    MaxStaleness = 0
    Decay = 75
    Lookahead = 0
    Demands = {1}
    LiveRequest = 0
    TemplateLimit = 8
    OtherLimits = {12}
    ForceLimits = {}
    Faults = {"recreate"}
    Window = 0
    MaxNow = 4
PROPERTIES ShrinkAfterWarmup
CHECK_DEADLOCK FALSE
