------------------------------ MODULE MCGuards ------------------------------
(***************************************************************************)
(* Instances for TLC of the mechanisms that stand between a decision and   *)
(* its effect: the bulkhead and the spend-rate breaker in front of         *)
(* provisioning, the drift tracker behind it, a band's promotion gate.     *)
(* They share no state: each is explored on its own, while the others rest *)
(* in an initial state.                                                    *)
(***************************************************************************)
EXTENDS Bulkhead, SpendRateBreaker, NodeFleet, PromotionGate

VARIABLE part       \* the mechanism that is explored

Parts == {"permits", "spend", "sweep", "promote"}

Init == /\ BulkheadInit /\ SpendInit /\ FleetInit /\ GateInit
        /\ part \in Parts
        /\ part # "promote" => health = "stale" /\ spec = Authored

Next == \/ part = "permits" /\ BulkheadNext /\ UNCHANGED <<part, spend_vars, fleet_vars, gate_vars>>
        \/ part = "spend"   /\ SpendNext    /\ UNCHANGED <<part, bulkhead_vars, fleet_vars, gate_vars>>
        \/ part = "sweep"   /\ FleetNext    /\ UNCHANGED <<part, bulkhead_vars, spend_vars, gate_vars>>
        \/ part = "promote" /\ GateNext     /\ UNCHANGED <<part, bulkhead_vars, spend_vars, fleet_vars>>

\* The fairness of FleetFairSpec and GateFairSpec, each in its own part.
Fairness ==
    /\ WF_fleet_vars(part = "sweep" /\ TrackerStep)
    /\ \A n \in Nodes : WF_fleet_vars(part = "sweep" /\ Commit(n))
    /\ WF_gate_vars(part = "promote" /\ Reconcile)
    /\ SF_gate_vars(part = "promote" /\ PatchStatus) /\ SF_gate_vars(part = "promote" /\ Tick)

Spec == Init /\ [][Next]_<<part, bulkhead_vars, spend_vars, fleet_vars, gate_vars>> /\ Fairness

\* What an aborted or reaped node left running is swept in the end, and a
\* calibrating band is promoted in the end.
GuardsServe == NoStraggler /\ PromotionComes
=============================================================================
