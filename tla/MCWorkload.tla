----------------------------- MODULE MCWorkload ------------------------------
(***************************************************************************)
(* Instances for TLC of what a workload's own tick decides beside its      *)
(* limit: its lifecycle breath and its requests.  They share no state:     *)
(* each is explored on its own, while the other rests in an initial state. *)
(***************************************************************************)
EXTENDS LifecycleBreath, RequestBand

CONSTANT Parts      \* the parts of this run
VARIABLE part       \* the part that is explored

\* The default lifecycle over a small range of limits and short timers.
TheLifecycle ==
    [steady |-> [grow_above |-> 85, shrink_below |-> 70, setpoint |-> 80,
                 grow_factor |-> 125, shrink_factor |-> 90,
                 floor_bytes |-> 2, ceiling_bytes |-> 16, request_floor_bytes |-> 0,
                 warmup_seconds |-> 1, metric_missing_policy |-> "RestoreHeadroom"],
     expansion_factor |-> 200, settle_step_factor |-> 70, idle_below |-> 70,
     idle_to_zero_secs |-> 1, expansion_max_secs |-> 2, settle_max_secs |-> 2]

\* A quiet workload whose readings can be trusted, and what may be read instead.
Quiet == [used |-> 1, ready |-> "unknown", load |-> "quiet", health |-> "ok",
          schedule |-> "unknown", over_budget |-> FALSE, dependencies |-> FALSE]

TheSignals ==
    {Quiet,
     [Quiet EXCEPT !.load = "active"],
     [Quiet EXCEPT !.used = None],
     [Quiet EXCEPT !.used = 0, !.load = "active"],
     [Quiet EXCEPT !.health = "oom", !.load = "active"],
     [Quiet EXCEPT !.schedule = "off"],
     [Quiet EXCEPT !.schedule = "on", !.load = "active"],
     [Quiet EXCEPT !.over_budget = TRUE, !.load = "active"],
     [Quiet EXCEPT !.dependencies = TRUE]}

TheCfg == [grow_above |-> 85, shrink_below |-> 70, setpoint |-> 80,
           grow_factor |-> 125, shrink_factor |-> 90,
           floor_bytes |-> 1, ceiling_bytes |-> 8, request_floor_bytes |-> 0,
           warmup_seconds |-> 0, metric_missing_policy |-> "RestoreHeadroom"]

Burstable ==
    [container |-> "app", resource |-> "memory", cfg |-> TheCfg, headroom |-> 15,
     requests_floor |-> 2, per_node |-> 4, durability |-> "Committed",
     workload_class |-> "unset", qos_target |-> "unset", markers |-> {<<"app", "memory">>}]

\* A band that says nothing, one that promotes its pod, one without a
\* manifest, and one whose class would take the reservation away.
TheRequestBands ==
    {Burstable,
     [Burstable EXCEPT !.qos_target = "Guaranteed", !.markers = Scalars],
     [Burstable EXCEPT !.durability = "Ephemeral", !.markers = {}],
     [Burstable EXCEPT !.workload_class = "Batch"]}

\* A posture that leaves the class to the band, and one that pins the target.
ThePostures ==
    {[workload_class |-> "Standard", qos_target |-> "unset"],
     [workload_class |-> "unset", qos_target |-> "Guaranteed"]}

Block(mreq, mlim, creq, clim) ==
    [request |-> [r \in RequestResource |-> IF r = "memory" THEN mreq ELSE creq],
     limit   |-> [r \in RequestResource |-> IF r = "memory" THEN mlim ELSE clim]]

\* A small reservation under a wide limit beside a sidecar of each class, and a
\* pod that declares nothing.
ThePods ==
    {[c \in Container |-> IF c = "app" THEN Block(1, 4, 1, 1) ELSE Block(1, 1, 1, 1)],
     [c \in Container |-> IF c = "app" THEN Block(1, 4, 1, 1) ELSE Block(1, 2, 1, 1)],
     [c \in Container |-> Block(0, 0, 0, 0)]}

Init ==
    /\ BreathInit /\ RequestInit
    /\ part \in Parts
    /\ part # "breath"  => need = 1 /\ signals = [Quiet EXCEPT !.used = None]
    /\ part # "request" => /\ request_band = Burstable /\ demand = 1 /\ posture = [workload_class |-> "Standard", qos_target |-> "unset"]
                           /\ pod = [c \in Container |-> IF c = "app" THEN Block(1, 4, 1, 1) ELSE Block(1, 2, 1, 1)]

Next ==
    \/ part = "breath"  /\ BreathNext  /\ UNCHANGED <<part, request_vars>>
    \/ part = "request" /\ RequestNext /\ UNCHANGED <<part, breath_vars>>

Spec ==
    /\ Init /\ [][Next]_<<part, breath_vars, request_vars>>
    /\ WF_breath_vars(part = "breath" /\ LifecycleTick)
    /\ WF_breath_vars(part = "breath" /\ Aging)
    /\ WF_breath_vars(part = "breath" /\ ShadowConfirmed)
    /\ WF_request_vars(part = "request" /\ BandStep)
    /\ WF_request_vars(part = "request" /\ Rollout)

\* What a workload comes to: no phase of its breath is a trap, and its requests
\* reach the target class or a plan that says why they cannot.
WorkloadRests == NeverStuck /\ GapCloses
=============================================================================
