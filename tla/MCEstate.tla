------------------------------ MODULE MCEstate ------------------------------
(***************************************************************************)
(* Instances for TLC of what is decided beside one vertical band: the      *)
(* count of replicas (one band per topology, each with the events that are *)
(* hard for it), the laws a carve may be decided by, the tuner, the        *)
(* storage carve, the fair shares of a pool, the zone's auction and the    *)
(* capacity raise.  They share no state: each is explored on its own,      *)
(* while the others rest in an initial state.                              *)
(***************************************************************************)
EXTENDS ReplicaBand, ControlLaws, Lapidar, StorageCarve, Quinhao, Leilao, CapacityRaise

CONSTANT Parts      \* the parts of this run
VARIABLE part       \* the part that is explored

\* The defaults of the band, over a small range of counts.
ReplicaCfg(topology, copies, floor, ceiling, signal) ==
    [floor |-> floor, ha_floor |-> None, ceiling |-> ceiling,
     signal |-> signal, target |-> 600,
     tolerance_up |-> 10, tolerance_down |-> 20,
     max_scale_up_pct |-> 100, max_scale_up_pods |-> 1,
     max_scale_down_pct |-> 10, max_scale_down_pods |-> 1,
     topology |-> topology, copies |-> copies,
     kind |-> IF topology = "NonPersistent" THEN "Deployment" ELSE "StatefulSet"]

\* A stateless band on the utilization of one replica, read from samples that
\* lag behind the band's own carves.
Stateless ==
    [cfgs |-> {ReplicaCfg("NonPersistent", 0, 2, 6, "Utilization")}, start |-> {1, 4, 8},
     cooldown |-> 2, staleness |-> 1, shed |-> TRUE, faults |-> {"load"}, max_now |-> 6]

\* One on a total, with node reclaims, another scaler and an operator.
Contended ==
    [cfgs |-> {[ReplicaCfg("NonPersistent", 0, 2, 6, "RequestRate") EXCEPT !.ha_floor = 3]},
     start |-> {0, 2}, cooldown |-> 0, staleness |-> 0, shed |-> FALSE,
     faults |-> {"load", "reclaim", "otherScaler", "gate", "force"}, max_now |-> 0]

\* Primaries with read replicas, and a backlog as the signal.
Primaries ==
    [cfgs |-> {ReplicaCfg("MasterSlave", 2, 1, 6, "QueueDepth")}, start |-> {2, 5},
     cooldown |-> 1, staleness |-> 1, shed |-> TRUE,
     faults |-> {"load", "badMetric", "suspend", "applyFails"}, max_now |-> 2]

\* Replicas that hold data, reclaimed, with a controller that fails.
Data ==
    [cfgs |-> {ReplicaCfg("Persistent", 3, 2, 6, "RequestRate"),
               ReplicaCfg("Persistent", 3, 2, 4, "RequestRate")},
     start |-> {3, 6}, cooldown |-> 1, staleness |-> 1, shed |-> TRUE,
     faults |-> {"load", "reclaim", "patchFails", "crash"}, max_now |-> 2]

\* A quorum whose floor and ceiling are no rungs, pinned and edited, on a
\* lagging pipeline.
Quorum ==
    [cfgs |-> {ReplicaCfg("FullyDistributed", 0, 4, 8, "RequestRate"),
               ReplicaCfg("FullyDistributed", 0, 4, 4, "RequestRate"),
               ReplicaCfg("FullyDistributed", 0, 2, 2, "RequestRate")},
     start |-> {2, 7}, cooldown |-> 1, staleness |-> 1, shed |-> TRUE,
     faults |-> {"load", "lag", "reclaim", "force"}, max_now |-> 2]

\* A quorum of three or more under steady work, with nothing going wrong.
SteadyQuorums ==
    {[cfgs |-> {ReplicaCfg("FullyDistributed", 0, 3, 7, "RequestRate")}, start |-> {3},
      cooldown |-> 2, staleness |-> 1, shed |-> TRUE, faults |-> {}, max_now |-> 4]}

TheBands == {Stateless, Contended, Primaries, Data, Quorum}

Cfg(shrink, floor) ==
    [grow_above |-> 85, shrink_below |-> shrink, setpoint |-> 80,
     grow_factor |-> 125, shrink_factor |-> 90,
     floor_bytes |-> floor, ceiling_bytes |-> 60, request_floor_bytes |-> 0,
     warmup_seconds |-> 0, metric_missing_policy |-> "RestoreHeadroom"]

TheLawCfgs   == {Cfg(70, 12), Cfg(0, 12)}
TheTunedCfgs == {Cfg(70, 12), Cfg(0, 12), [Cfg(76, 12) EXCEPT !.setpoint = 78, !.grow_above = 80]}

D(w, lo, hi, want) == [weight |-> w, min |-> lo, max |-> hi, demand |-> want]
V(s, c) == [storage |-> s, cpu |-> c]

TheDemandVectors ==
    {V(Even, Absent), V(D(1, 3, 6, 5), D(1, 0, Unbounded, 2)),
     V(D(2, 0, 4, Unbounded), D(1, 1, 3, 3)), V(D(1, 2, Unbounded, 0), Absent)}
TheDeclared == [storage |-> 5, cpu |-> 4]

TheZones ==
    [formas : {{"node-pool", "volume"}}, dims : {{"memory", "replica", "request"}, {"cpu", "storage"}},
     gated_dims : {{"memory"}, {"cpu"}, {}}, pick : PickPolicy, deadline : {10}, risk_weight : {0, 1}]

RestingVolume == [owned |-> TRUE, role |-> "SaasState", consumers |-> 0,
                  attached |-> FALSE, resizing |-> FALSE, size |-> 10]

Service == [cpu |-> 10, mem |-> 14, lim |-> 20, min |-> 2, max |-> 4, mem_pct |-> 50, cpu_pct |-> 70]
Pool(name, covers, max, fixed) == [name |-> name, covers |-> covers, max_nodes |-> max, in_module |-> fixed]
Request(kind, to, pools, labelled, p95, db, ratio) ==
    [raise |-> <<kind, to>>, sizing |-> Service, pools |-> pools, labelled |-> labelled,
     p95 |-> p95, db |-> db, policy |-> [step |-> 200, ratio |-> ratio, surge |-> 25]]
TheRequests ==
    {Request("MemoryRequest", 41, <<Pool(1, {1}, 2, FALSE), Pool(2, {2}, 1, TRUE)>>, FALSE, 0, 0, 0),
     Request("CpuRequest", 33, <<Pool(0, {1, 2}, 1, FALSE)>>, TRUE, 4, 0, 150),
     Request("MinReplicas", 4, <<Pool(1, {1}, 1, FALSE)>>, TRUE, 0, 5, 0),
     Request("MinReplicas", 3, <<Pool(0, {1, 2}, 1, FALSE)>>, FALSE, 0, 0, 0),
     Request("MaxReplicas", 6, <<Pool(1, {1}, 2, FALSE), Pool(2, {2}, 1, TRUE)>>, TRUE, 0, 0, 0)}
TheNodes ==
    <<[pool |-> 1, cpu |-> 60, mem |-> 60, busy_cpu |-> 10, busy_mem |-> 10],
      [pool |-> 2, cpu |-> 50, mem |-> 80, busy_cpu |-> 20, busy_mem |-> 10]>>

EstateInit ==
    /\ part \in Parts
    /\ part = "replica" \/ (band = Stateless /\ load = 0 /\ replicas = 4)
    /\ part = "laws" \/ (law = "Band" /\ lcfg = Cfg(0, 12) /\ lused = 1 /\ llimit = 12)
    /\ part = "tune" \/ tspec = Cfg(0, 12)
    /\ part = "carve" \/ volume = [v \in Volumes |-> RestingVolume]
    /\ part = "quinhao" \/ claims = [e \in Entries |-> [id |-> e, parent |-> IF e = 3 THEN 9 ELSE Root, demand |-> V(Even, Absent)]]
    /\ part = "leilao" \/ zone = CHOOSE z \in Zones : validate_zone(z)
    /\ part = "raise" \/ creq = Request("CpuRequest", 33, <<Pool(0, {1, 2}, 1, FALSE)>>, TRUE, 4, 0, 150)
    /\ Init /\ LawInit /\ TuneInit /\ CarveInit /\ QuinhaoInit /\ LeilaoInit /\ CapacityInit
    /\ part = "raise" \/ cplaced = <<1, 1>>
    /\ \A v \in Volumes : ~volume[v].attached /\ volume[v].role # "Unknown"
    /\ claims[1].parent = Root /\ claims[2].parent = Root

EstateNext ==
    \/ /\ part = "replica" /\ Next
       /\ UNCHANGED <<part, law_vars, tune_vars, carve_vars, quinhao_vars, leilao_vars, capacity_vars>>
    \/ /\ part = "laws" /\ LawNext
       /\ UNCHANGED <<part, vars, tune_vars, carve_vars, quinhao_vars, leilao_vars, capacity_vars>>
    \/ /\ part = "tune" /\ TuneNext
       /\ UNCHANGED <<part, vars, law_vars, carve_vars, quinhao_vars, leilao_vars, capacity_vars>>
    \/ /\ part = "carve" /\ CarveNext
       /\ UNCHANGED <<part, vars, law_vars, tune_vars, quinhao_vars, leilao_vars, capacity_vars>>
    \/ /\ part = "quinhao" /\ QuinhaoNext
       /\ UNCHANGED <<part, vars, law_vars, tune_vars, carve_vars, leilao_vars, capacity_vars>>
    \/ /\ part = "leilao" /\ LeilaoNext
       /\ UNCHANGED <<part, vars, law_vars, tune_vars, carve_vars, quinhao_vars, capacity_vars>>
    \/ /\ part = "raise" /\ CapacityNext
       /\ UNCHANGED <<part, vars, law_vars, tune_vars, carve_vars, quinhao_vars, leilao_vars>>

estate_vars == <<part, vars, law_vars, tune_vars, carve_vars, quinhao_vars, leilao_vars, capacity_vars>>

EstateSpec ==
    /\ EstateInit /\ [][EstateNext]_estate_vars
    /\ WF_pc(part = "replica" /\ TickGoesOn) /\ WF_vars(part = "replica" /\ Scrape)
    /\ WF_now(part = "replica" /\ Tick)
    /\ WF_law_vars(part = "laws" /\ LawTick)
    /\ WF_capacity_vars(part = "raise" /\ Asks) /\ WF_capacity_vars(part = "raise" /\ Lands)
    /\ []<>~casking

\* What is decided comes to an end: a law rests where its detector asks for no
\* less and its workload for no more, and a raise reaches its target or a
\* refusal, whatever the cluster did in between.
EstateSettles == []NeverOverProvisions /\ LawRests /\ RaiseEnds
=============================================================================
