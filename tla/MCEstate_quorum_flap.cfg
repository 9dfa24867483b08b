SPECIFICATION EstateSpec
CONSTANTS
    Parts = {"replica"}
    Bands <- SteadyQuorums
    Loads = {2000}
    Reclaims = {1}
    OtherCounts = {7}
    Pins = {1, 4}
    LawCfgs <- TheLawCfgs
    LawLoads = {1, 9, 17, 25, 40, 47, 70}
    Gain = 70
    MaxStep = 25
    Slice = 4
    Increment = 5
    Backoff = 50
    Headrooms = {0, 3}
    MaxGrowSteps = 16
    MaxLawMoves = 2
    TunedCfgs <- TheTunedCfgs
    Scores = {0, 1}
    MaxEdits = 2
    Volumes = {1, 2}
    Targets = {11, 14}
    StepAbs = 2
    MaxFlips = 1
    Entries = {1, 2, 3}
    Dims = {"storage", "cpu"}
    Parents = {0, 1, 9}
    DemandVectors <- TheDemandVectors
    Declared <- TheDeclared
    Observed = {9, 12}
    Setpoint = 80
    MaxQEdits = 1
    MaxQFaults = 1
    Formas = {"node-pool", "volume"}
    Zones <- TheZones
    Prices = {2, 3}
    Latencies = {5, 20}
    Risks = {0, 4}
    MaxTicks = 1
    Requests <- TheRequests
    ClusterNodes <- TheNodes
    MaxClusterNodes = 3
    MaxNodesPerStep = 12
    Grain = 4
    MaxCapMoves = 1
PROPERTIES NoQuorumFlap
CHECK_DEADLOCK FALSE
