------------------------------- MODULE MCFleet ------------------------------
(***************************************************************************)
(* Instances for TLC of what a fleet is made of: the nodes of a pool and   *)
(* their taints, the pods of one band, a replicated database, the CI       *)
(* watcher, the decision log, a discovery policy and the knobs of an       *)
(* application.  They share no state: each is explored on its own, while   *)
(* the others rest in an initial state.                                    *)
(***************************************************************************)
EXTENDS NodePool, NodeTaints, PodResize, DatabaseFailover, RetiradaCi, DecisionLog,
        PolicyEnrollment, AppPlane

CONSTANT Parts      \* the parts of this run
VARIABLE part       \* the part that is explored

TheBand == [grow_above |-> 80, shrink_below |-> 60, setpoint |-> 80,
            grow_factor |-> 125, shrink_factor |-> 80,
            floor_bytes |-> 1, ceiling_bytes |-> 3, request_floor_bytes |-> 0,
            warmup_seconds |-> 0, metric_missing_policy |-> "Trust"]

TheGroup == [desired |-> 2, max |-> 2, min |-> 1, active |-> TRUE]

Pool(backend) ==
    [backend |-> backend, live |-> TRUE, band |-> TheBand, nodegroup |-> TheGroup,
     start |-> 2, predictive |-> FALSE, horizon |-> 1, runners |-> 0]

ThePools == {[Pool("EksNodegroup") EXCEPT !.runners = 1],
             [Pool("Karpenter") EXCEPT !.runners = 1],
             [Pool("Kwok") EXCEPT !.predictive = TRUE],
             Pool("Sim"),
             [Pool("Karpenter") EXCEPT !.live = FALSE],
             Pool("KubeObserve")}

\* A Karpenter pool that was scaled to zero.
ZeroPools == {[Pool("Karpenter") EXCEPT !.band.floor_bytes = 0, !.start = 0]}

FleetCfg(floor) ==
    [grow_above |-> 85, shrink_below |-> 70, setpoint |-> 80,
     grow_factor |-> 125, shrink_factor |-> 90,
     floor_bytes |-> floor, ceiling_bytes |-> 12, request_floor_bytes |-> 0,
     warmup_seconds |-> 0, metric_missing_policy |-> "RestoreHeadroom"]

ThePodCfg    == FleetCfg(2)
TheTemplates == {[qos |-> "Burstable", limit |-> 10, request |-> 4],
                 [qos |-> "Guaranteed", limit |-> 6, request |-> 6]}

TheOverlays ==
    {<<>>, [spot |-> "SpotEvenPrimary"], [replica |-> "NeverScale"],
     [failover |-> "NoFailover"], [spot |-> "NoSpot", failover |-> "NoFailover"]}

TheNamespaces == [w \in Workloads |-> "apps"]
TheKinds      == [w \in Workloads |-> IF w = 1 THEN "Deployment" ELSE "DaemonSet"]
TheShapes     == {{"Memory", "Replica"}, {"RequestCpu", "RequestMemory"}}

Knob(kind, reload, policy) ==
    [kind |-> kind, reload |-> reload, protocol |-> "Redis", linked |-> TRUE, cfg |-> FleetCfg(3),
     dir |-> "Bidirectional", policy |-> policy, force |-> NoPeak, suspended |-> FALSE, cooldown |-> 1, decay |-> 75]
TheKnobs ==
    {Knob("ConfigReload", "Sighup", "AllowConditional"), Knob("ConfigReload", "Restart", "AllowRestart"),
     Knob("ApiCall", "Reload", "RestartFreeOnly"), Knob("KubeParam", "Reload", "AllowConditional"),
     Knob("Jmx", "Reload", "RestartFreeOnly"), [Knob("AppRpc", "Reload", "RestartFreeOnly") EXCEPT !.force = 9],
     [Knob("Jmx", "Reload", "RestartFreeOnly") EXCEPT !.linked = FALSE]}

ResizeRests   == template = CHOOSE t \in Templates : TRUE
RestingShapes == [w \in Workloads |-> [live |-> TRUE, uid |-> 1, declares |-> {"Memory", "Replica"}, hpa |-> FALSE]]

Init ==
    /\ part \in Parts
    /\ part = "pool" \/ (cr = (CHOOSE c \in PoolSpecs : ~c.live) /\ demand = CHOOSE d \in Demands : TRUE)
    /\ part = "pods" \/ (ResizeRests /\ ruse = [p \in Pods |-> CHOOSE u \in Uses : TRUE])
    /\ part = "database" \/ (engine = "MySql" /\ members = Replicas)
    /\ part = "retirada" \/ honoured = TRUE
    /\ part = "log" \/ (dtier = "InMemory" /\ dfirst = ZERO)
    /\ part = "policy" \/ (workload = RestingShapes /\ psettings = [suspend |-> TRUE, plan_only |-> TRUE])
    /\ part = "app" \/ (aband = Knob("ApiCall", "Reload", "RestartFreeOnly") /\ awindow = FALSE
                        /\ aload = CHOOSE u \in AppLoads : TRUE)
    /\ PoolInit /\ TaintsInit /\ ResizeInit /\ DatabaseInit /\ RetiradaInit /\ LogInit /\ PolicyInit /\ AppInit
    /\ part = "database" \/ perm = default_permutation("MySql")
    /\ part = "log" \/ dstanding = CHOOSE s \in NoCounts : TRUE

Next ==
    \/ /\ part = "pool" /\ PoolNext
       /\ UNCHANGED <<part, taint_vars, resize_vars, database_vars, retirada_vars, log_vars, policy_vars, app_vars>>
    \/ /\ part = "taints" /\ TaintsNext
       /\ UNCHANGED <<part, pool_vars, resize_vars, database_vars, retirada_vars, log_vars, policy_vars, app_vars>>
    \/ /\ part = "pods" /\ ResizeNext
       /\ UNCHANGED <<part, pool_vars, taint_vars, database_vars, retirada_vars, log_vars, policy_vars, app_vars>>
    \/ /\ part = "database" /\ DatabaseNext
       /\ UNCHANGED <<part, pool_vars, taint_vars, resize_vars, retirada_vars, log_vars, policy_vars, app_vars>>
    \/ /\ part = "retirada" /\ RetiradaNext
       /\ UNCHANGED <<part, pool_vars, taint_vars, resize_vars, database_vars, log_vars, policy_vars, app_vars>>
    \/ /\ part = "log" /\ LogNext
       /\ UNCHANGED <<part, pool_vars, taint_vars, resize_vars, database_vars, retirada_vars, policy_vars, app_vars>>
    \/ /\ part = "policy" /\ PolicyNext
       /\ UNCHANGED <<part, pool_vars, taint_vars, resize_vars, database_vars, retirada_vars, log_vars, app_vars>>
    \/ /\ part = "app" /\ AppNext
       /\ UNCHANGED <<part, pool_vars, taint_vars, resize_vars, database_vars, retirada_vars, log_vars, policy_vars>>

fleet_vars == <<part, pool_vars, taint_vars, resize_vars, database_vars, retirada_vars, log_vars, policy_vars, app_vars>>

Spec ==
    /\ Init /\ [][Next]_fleet_vars
    /\ WF_pool_vars(part = "pool" /\ Tick)
    /\ \A n \in Nodes : /\ WF_pool_vars(part = "pool" /\ Joins(n))
                        /\ WF_pool_vars(part = "pool" /\ Gone(n))
                        /\ WF_pool_vars(part = "pool" /\ ScaleIn(n))
    /\ WF_pool_vars(part = "pool" /\ ScaleOut) /\ WF_pool_vars(part = "pool" /\ UpdateDone)
    /\ WF_taint_vars(part = "taints" /\ GuardTick) /\ WF_taint_vars(part = "taints" /\ GatePass)
    /\ \A p \in ClaimPools : WF_taint_vars(part = "taints" /\ ClaimTick(p))
    /\ \A n \in TaintNodes, c \in Components : WF_taint_vars(part = "taints" /\ PodMatures(n, c))
    /\ WF_retirada_vars(part = "retirada" /\ (BeginPass \/ ListJobs \/ Inspect \/ dispatch \/ Proceed))
    /\ WF_log_vars(part = "log" /\ \E entry \in NoCounts : LogTick(entry)) /\ WF_log_vars(part = "log" /\ append)
    /\ WF_log_vars(part = "log" /\ PatchCounters) /\ WF_log_vars(part = "log" /\ LogClock)
    /\ WF_policy_vars(part = "policy" /\ ReadAutoscalers) /\ WF_policy_vars(part = "policy" /\ ReadShapes)
    /\ WF_policy_vars(part = "policy" /\ ListBands({}))   /\ WF_policy_vars(part = "policy" /\ Materialize)
    /\ WF_policy_vars(part = "policy" /\ Retire)          /\ WF_policy_vars(part = "policy" /\ Report)
    /\ WF_policy_vars(part = "policy" /\ GarbageCollect)
    /\ WF_app_vars(part = "app" /\ AppSecond)
    /\ []<>(part # "app" \/ ajob.pc = "idle") /\ []<>(part # "app" \/ ajob.pc # "idle")

\* A pool short of nodes for its demand gets them (NodeProvedor::grow, the
\* cloud's delays and the EKS maximum between), and one that can get no further
\* says so in its status (flap).
PoolServed   == DemandServed /\ WedgeSurfaces

\* The three writers of a node's taints end up right, whatever stale list they
\* wrote in between: a mature node loses its startup taint for good, a guarded
\* one has the guard's for good, and an intruder that stays is reported.
TaintsSettle == BreathedIsReleased /\ <>[](part = "taints" => Isolated)

\* The fleet's loops get there, through everything that fails half way: a
\* starved job is retried, a status left behind catches up with the log, an
\* active policy's bands become the warranted ones, an outgrown knob that its
\* process takes without a reload is raised.
FleetConverges == StarvedRetried /\ CountsCatchUp /\ PolicyConverges /\ KnobRelieved
=============================================================================
