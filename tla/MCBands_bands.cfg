SPECIFICATION BandsSpec
CONSTANTS
    Cfg <- CpuBand
    Dir = "Bidirectional"
    ReclaimPolicy = "Enabled"
    BoundIntro = "Forbidden"
    FieldLayout = "PodResize"
    Resource = "cpu"
    Policy = "RestartFreeOnly"
    CooldownSecs = 0
    MaxStaleness = 0
    Decay = 75
    Lookahead = 1
    Demands = {1, 8}
    LiveRequest = 3
    TemplateLimit = 10
    OtherLimits = {}
    ForceLimits = {4}
    Faults = {"demand", "patchFails", "applyFails", "crash", "watchLag"}
    Window = 0
    MaxNow = 0
INVARIANTS ShrinkCoversPeak ShrinkCoversWindow UntrustedNeverShrinks
PROPERTIES NoStarve CooldownSpacing LimitSettles OutgrownRelieved
CHECK_DEADLOCK FALSE
