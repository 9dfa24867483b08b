------------------------------ MODULE MCBands ------------------------------
(***************************************************************************)
(* Bands for TLC: the kinds of band one controller serves.  A behaviour of *)
(* BandsSpec is one band of one kind, chosen by scenario, with the events  *)
(* that are hard for that kind.  The band of the cfg itself is the one     *)
(* whose calls fail (FaultsSpec); the others replace the constants they    *)
(* name.  The disturbances of the last kind come to an end, so that what   *)
(* the loop must get to can be asked of it.                                *)
(***************************************************************************)
EXTENDS BandLoop

\* The default dead band over a small range of capacities.
DefaultBand(floor, ceiling, warmup, missing) ==
    [grow_above |-> 85, shrink_below |-> 70, setpoint |-> 80,
     grow_factor |-> 125, shrink_factor |-> 90,
     floor_bytes |-> floor, ceiling_bytes |-> ceiling, request_floor_bytes |-> 0,
     warmup_seconds |-> warmup, metric_missing_policy |-> missing]

CpuBand     == DefaultBand(2, 12, 0, "RestoreHeadroom")
HoldBand    == DefaultBand(2, 12, 0, "Hold")
WarmBand    == DefaultBand(2, 12, 2, "RestoreHeadroom")

VARIABLE scenario

\* An in-place resized cpu band under a degraded and a late metrics pipeline,
\* with the history of its samples.
Spikes == INSTANCE BandLoop WITH
    Demands <- {1, 5, 8}, Window <- 3, MaxNow <- 1, Lookahead <- 0,
    Faults <- {"demand", "zeroMetric", "staleMetric"}

\* A throttled, crash-looping, re-created or scaled-away workload, and an
\* operator who pins its limit.
Distress == INSTANCE BandLoop WITH
    ForceLimits <- {4}, Lookahead <- 0,
    Faults <- {"demand", "throttle", "crashLoop", "force", "scaleToZero", "recreate"}

\* A pod template another field manager writes as well.
Shared == INSTANCE BandLoop WITH
    FieldLayout <- "PodTemplate", Policy <- "AllowRestart", Cfg <- HoldBand,
    BoundIntro <- "Allowed", OtherLimits <- {0, 6, 14}, Lookahead <- 0,
    Faults <- {"demand", "otherWriter", "missingMetric"}

\* A pod template that may not be restarted, with a limit over the ceiling
\* and an operator's pin among the reasons to write it.
Held == INSTANCE BandLoop WITH
    FieldLayout <- "PodTemplate", Policy <- "RestartFreeOnly", BoundIntro <- "Allowed",
    OtherLimits <- {0, 14}, ForceLimits <- {4}, Lookahead <- 0,
    Faults <- {"demand", "force", "zeroMetric"}

\* A band with a warmup and a cooldown that is suspended and held in shadow.
Paced == INSTANCE BandLoop WITH
    Cfg <- WarmBand, CooldownSecs <- 2, MaxNow <- 6, Lookahead <- 0,
    Faults <- {"demand", "gate", "suspend"}

\* A grow-only storage claim whose storage class may refuse to expand.
Claim == INSTANCE BandLoop WITH
    Dir <- "GrowOnly", FieldLayout <- "PvcRequest", Resource <- "storage",
    OtherLimits <- {4, 14}, Window <- 1, MaxNow <- 1, Lookahead <- 0,
    Faults <- {"demand", "missingMetric", "applyFails", "incapable"}

\* A cpu band that crashes, lost patches, restarts and another manager disturb.
Disturbed == INSTANCE BandLoop WITH
    Demands <- {1, 7}, OtherLimits <- {1, 14}, ForceLimits <- {}, Lookahead <- 0,
    Faults <- {"demand", "crash", "patchFails", "otherWriter", "scaleToZero", "recreate"}

Scenarios == {"faults", "spikes", "distress", "shared", "held", "paced", "claim", "disturbed"}

BandsInit ==
    /\ scenario \in Scenarios
    /\ CASE scenario = "faults"    -> Init
         [] scenario = "spikes"    -> Spikes!Init
         [] scenario = "distress"  -> Distress!Init
         [] scenario = "shared"    -> Shared!Init
         [] scenario = "held"      -> Held!Init
         [] scenario = "paced"     -> Paced!Init
         [] scenario = "claim"     -> Claim!Init
         [] scenario = "disturbed" -> Disturbed!Init

BandsNext ==
    \/ scenario = "faults"    /\ Next          /\ UNCHANGED scenario
    \/ scenario = "spikes"    /\ Spikes!Next   /\ UNCHANGED scenario
    \/ scenario = "distress"  /\ Distress!Next /\ UNCHANGED scenario
    \/ scenario = "shared"    /\ Shared!Next   /\ UNCHANGED scenario
    \/ scenario = "held"      /\ Held!Next     /\ UNCHANGED scenario
    \/ scenario = "paced"     /\ Paced!Next    /\ UNCHANGED scenario
    \/ scenario = "claim"     /\ Claim!Next    /\ UNCHANGED scenario
    \/ scenario = "disturbed" /\ Disturbed!DisturbedNext /\ UNCHANGED scenario

BandsSpec ==
    /\ BandsInit /\ [][BandsNext]_<<vars, scenario>>
    /\ WF_pc(scenario = "disturbed" /\ Disturbed!TickGoesOn)
    /\ WF_vars(scenario = "disturbed" /\ Disturbed!Scrape)

\* The band of the cfg alone.
FaultsSpec ==
    /\ scenario = "faults" /\ Init
    /\ [][Next /\ UNCHANGED scenario]_<<vars, scenario>>

-----------------------------------------------------------------------------
\* Two writes the law decides on the paced band are at least one cooldown
\* apart, though the cooldown is read back from the band's own status.
CooldownSpacing == [][scenario = "paced" => ~Paced!WritesTooSoon]_vars

\* Once crashes, lost patches, restarts, the other writer and the workload let
\* it be, the limit of the disturbed band comes to rest inside the dead band:
\* the grows and shrinks of decide_with do not chase each other.
LimitSettles == scenario = "disturbed" => Disturbed!Settles

\* The disturbed band's workload does not stay above grow_above: a limit that
\* decide_with can still raise is raised, over ticks that fail and cooldowns.
OutgrownRelieved == scenario = "disturbed" => Disturbed!ReliefComes
=============================================================================
