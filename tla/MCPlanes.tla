----------------------------- MODULE MCPlanes -------------------------------
(***************************************************************************)
(* Instances for TLC of the planes beside the vertical band, and of the    *)
(* verdicts that are told and never acted on: a node's cost and a band's   *)
(* health.  They share no state: each is explored on its own, while the    *)
(* others rest in an initial state.                                        *)
(***************************************************************************)
EXTENDS HostPlane, SoftCarve, NodeWaste, BandHealth

CONSTANT Parts      \* the parts of this run
VARIABLE part       \* the part that is explored

\* Host bands: a cpu quota with its rounding, a pinned cgroup limit.
HostCfg ==
    [grow_above |-> 85, shrink_below |-> 60, setpoint |-> 75,
     grow_factor |-> 125, shrink_factor |-> 80,
     floor_bytes |-> 100, ceiling_bytes |-> 300, request_floor_bytes |-> 0,
     warmup_seconds |-> 0, metric_missing_policy |-> "RestoreHeadroom"]
TheHostBand(knob) ==
    [knob |-> knob, cfg |-> HostCfg, dir |-> "Bidirectional", live |-> TRUE,
     suspended |-> FALSE, force |-> Unset, cooldown |-> 1, decay |-> 50]
TheHostBands == {TheHostBand("CgroupCpuQuota"),
                 [TheHostBand("CgroupProperty") EXCEPT !.force = 200]}
OpenCharter == [enrolled |-> TRUE, write_enabled |-> TRUE, wall |-> 300]
TheCharters == {OpenCharter, [OpenCharter EXCEPT !.write_enabled = FALSE, !.wall = 200]}

TheSoftCfgs == {[HostCfg EXCEPT !.floor_bytes = 2, !.ceiling_bytes = 16]}
TheReadings == {[used |-> 4, peak |-> 8, cap |-> 12], [used |-> 14, peak |-> 14, cap |-> 16]}

Pod(stateful, phase) ==
    [daemonset |-> FALSE, stateful |-> stateful, phase |-> phase, terminating |-> FALSE]
ThePodSets == {{}, {Pod(FALSE, "Running")}, {Pod(TRUE, "Running")}, {Pod(FALSE, "Failed")}}

Init ==
    /\ HostInit /\ SoftInit /\ WasteInit /\ HealthInit
    /\ part \in Parts
    /\ charter = [n \in HostNodes |-> OpenCharter]
    /\ part # "host" => hband = CHOOSE b \in HostBands : b.force # Unset
    /\ \A n, m \in HostNodes : n < m => need[n] > need[m]
    /\ part # "soft" => /\ sband = [cfg |-> CHOOSE c \in SoftCfgs : TRUE, shadow |-> FALSE, suspended |-> FALSE]
                        /\ switch = "off"
    /\ part # "waste" => held = {} /\ prev = 0 /\ ~resident
    /\ part # "health" => outcome = "rest"

Next ==
    \/ part = "host"   /\ HostNext   /\ UNCHANGED <<part, soft_vars, waste_vars, health_vars>>
    \/ part = "soft"   /\ SoftNext   /\ UNCHANGED <<part, host_vars, waste_vars, health_vars>>
    \/ part = "waste"  /\ WasteNext  /\ UNCHANGED <<part, host_vars, soft_vars, health_vars>>
    \/ part = "health" /\ HealthNext /\ UNCHANGED <<part, host_vars, soft_vars, waste_vars>>

\* HostFairness, SoftFairness and HealthFairness, each for its own part.
Fairness ==
    /\ WF_host_vars(part = "host" /\ HostSecond)
    /\ \A n \in HostNodes :
         /\ SF_host_vars(part = "host" /\ hstatus.cool = 0 /\ HostRead(n))
         /\ WF_host_vars(part = "host" /\ (HostApply(n) \/ HostPatch(n)))
    /\ \A p \in SoftPods :
         /\ WF_soft_vars(part = "soft" /\ Dispatch(p))
         /\ WF_soft_vars(part = "soft" /\ ContainerStarts(p))
         /\ WF_soft_vars(part = "soft" /\ AgentTick(p))
    /\ WF_health_vars(part = "health" /\ JudgeTick)
    /\ SF_health_vars(part = "health" /\ HealthPatched)
    /\ SF_health_vars(part = "health" /\ HealthSecond)

Spec == Init /\ [][Next]_<<part, host_vars, soft_vars, waste_vars, health_vars>> /\ Fairness

\* What the planes owe in the end: an outgrown lever is
\* raised, a soft carve reaches its container, and a live band that does not
\* come to rest is called stuck.
PlanesServe == HostRelief /\ SoftReaches /\ StuckTold
=============================================================================
