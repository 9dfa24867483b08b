------------------------------ MODULE NodePool ------------------------------
(***************************************************************************)
(* The node-provisioning loop of one BreatheCloudPool: the controller's    *)
(* reconcile_cloud_pool (breathe-controller/src/node_forma.rs), the forma  *)
(* tick it runs (breathe-provision), the predictor and the auctioneer that *)
(* decide it (breathe-auction), and the executors that realize it:         *)
(* Karpenter NodeClaims, an EKS managed nodegroup, fake kwok nodes, the    *)
(* simulator and the observe-only default.                                 *)
(*                                                                         *)
(* Around the loop the cluster moves on its own: instances boot, drain and *)
(* join, the auto scaling group follows the nodegroup's desired size,      *)
(* demand changes, and CI jobs start and end on the nodes.  A tick is cut  *)
(* at every await between reading which nodes are busy and acting on it:   *)
(* jobs start and end, and instances are scaled in, between any two of     *)
(* them.                                                                   *)
(*                                                                         *)
(* Demand is counted in nodes (the pods' requests over the mean            *)
(* allocatable).  The admission gate every new unit passes checks only     *)
(* that this mean is at least one, which it always is, so the units        *)
(* admitted are the units requested and are not modelled.                  *)
(***************************************************************************)
EXTENDS BandLaw, Sequences, FiniteSets

CONSTANTS
    PoolSpecs,      \* the pools under study: backend, gate, band and nodegroup
    Demands,        \* demands, in nodes, that the workload may have
    MaxMoves,       \* changes of demand
    MaxFaults,      \* failed calls
    MaxNode,        \* nodes that exist at once
    Window,         \* samples the forecaster keeps (6 in the controller)
    MaxStuck        \* MAX_CONSECUTIVE_STUCK_TICKS

Nodes == 1..MaxNode

VARIABLES
    cr,             \* the pool's spec
    node,           \* node -> its phase
    busy,           \* nodes running a CI job that must not be interrupted
    ng,             \* the managed nodegroup's scaling configuration
    protected,      \* instances the auto scaling group may not scale in
    demand, moves,  \* current demand, and its remaining changes
    history,        \* the forecaster's samples, oldest first
    pc, sample,     \* where the tick is, and the capacity it observed first
    seen, listed,   \* nodes the tick read as busy; instances or claims it listed
    cut, victims,   \* claims a shrink takes; those selected and not yet deleted
    status,         \* the object's status, read back by the next tick
    faults,         \* remaining failed calls
    fresh,          \* of those seen by this tick, busy ever since
    kept            \* of those seen and then covered, busy ever since

pool_vars == <<cr, node, busy, ng, protected, demand, moves, history, pc, sample,
               seen, listed, cut, victims, status, faults, fresh, kept>>

\* What one tick remembers of its readings.
readings == <<seen, listed, cut, victims, fresh>>

None  == -1
Phase == {"absent", "booting", "ready", "draining"}
Backend == {"KubeObserve", "Kwok", "Karpenter", "EksNodegroup", "Sim"}

NodegroupState == [desired : Nat, max : Nat, min : Nat, active : BOOLEAN]

\* live is the two-key gate: writeEnabled and not dryRun.
CloudPoolSpec ==
    [backend : Backend, live : BOOLEAN, band : BandConfig, nodegroup : NodegroupState,
     start : Nat, predictive : BOOLEAN, horizon : Nat, runners : Nat]

CloudPoolStatus ==
    [phase : {"", "Held", "Growing", "Shrinking", "EnvelopeExhausted", "Error"},
     capacity : Nodes \cup {0, None}, stuck : 0..MaxStuck, flap : BOOLEAN]

PoolTypeOK ==
    /\ cr \in PoolSpecs \cap CloudPoolSpec
    /\ node \in [Nodes -> Phase]
    /\ busy \subseteq Nodes /\ protected \subseteq Nodes
    /\ seen \subseteq Nodes /\ listed \subseteq Nodes /\ victims \subseteq Nodes
    /\ fresh \subseteq seen /\ kept \subseteq busy /\ cut \in Nat
    /\ ng \in NodegroupState
    /\ demand \in Demands /\ moves \in 0..MaxMoves /\ faults \in 0..MaxFaults
    /\ history \in UNION {[1..k -> Demands \cup {0, 1}] : k \in 0..Window}
    /\ pc \in {"idle", "reading", "listing", "protecting", "releasing", "synced",
              "choosing", "deleting"}
    /\ sample \in Nodes \cup {0, None}
    /\ status \in CloudPoolStatus

(***************************************************************************)
(* Observation.  A deleted NodeClaim's node is Ready until it is gone; the *)
(* simulator's draining nodes stop counting at once.                       *)
(***************************************************************************)
Ready    == {n \in Nodes : \/ node[n] = "ready"
                           \/ node[n] = "draining" /\ cr.backend # "Sim"}
Booked   == {n \in Nodes : node[n] \in {"booting", "ready"}}
Existing == {n \in Nodes : node[n] # "absent"}
capacity == Cardinality(Ready)

\* With no nodes there is no per-node size to divide by: any demand reads as
\* one node.  The kwok and simulated pools have a fixed node size.
used == IF capacity > 0 \/ cr.backend \in {"Kwok", "Sim"} THEN demand
        ELSE IF demand > 0 THEN 1 ELSE 0

(***************************************************************************)
(* Prediction and decision.                                                *)
(***************************************************************************)
\* The forecaster's window after one more sample.
pushed(h, s) == LET all == Append(h, s)
                IN IF Len(all) > Window THEN Tail(all) ELSE all

\* LinearTrendPrevisor: never below the current sample.  (A rising trend is
\* the only one whose division can matter, and it is exact division of
\* non-negative numbers.)
predict(h) ==
    IF Len(h) < 2 \/ h[Len(h)] < h[1] THEN h[Len(h)]
    ELSE h[Len(h)] + ((h[Len(h)] - h[1]) * cr.horizon) \div (Len(h) - 1)

\* BandLeiloeiro over the free function decide, whose peak is its sample.
decide(predicted, cap) == decide_with(predicted, predicted, cap, cr.band)

DecisaoForma(predicted, cap) ==
    LET d == decide(predicted, cap)
    IN CASE d.kind = "Grow"      -> [kind |-> "Crescer", delta |-> d.to - d.from]
         [] d.kind = "Shrink"    -> [kind |-> "Encolher", delta |-> d.from - d.to]
         [] d.kind = "AtCeiling" ->
              [kind |-> "EnvelopeExausto",
               delta |-> Larger(DivCeil(predicted, cr.band.setpoint), cap) - cap]
         [] OTHER                -> [kind |-> "Manter", delta |-> 0]

(***************************************************************************)
(* The nodegroup's clamps.                                                 *)
(***************************************************************************)
clamp_grow(desired, n, max)   == Larger(Smaller(desired + n, max) - desired, 0)
clamp_shrink(desired, n, min) == Larger(desired - Larger(Larger(desired - n, 0), min), 0)

\* Mutant: the maximum's step rounds down.
grown_max_size_rounding_down(g, n) ==
    IF g.desired + n <= g.max \/ g.max >= cr.band.ceiling_bytes THEN g.max
    ELSE Smaller(MulFloor(g.max, cr.band.grow_factor), cr.band.ceiling_bytes)

\* The nodegroup's own maximum breathes toward the pool's ceiling ...
grown_max_size(g, n) ==
    IF g.desired + n <= g.max \/ g.max >= cr.band.ceiling_bytes THEN g.max
    ELSE Smaller(Larger(MulCeil(g.max, cr.band.grow_factor), g.max + 1),
                 cr.band.ceiling_bytes)

\* ... and back toward its floor, never below what is desired.
shrunk_max_size(g, post) ==
    Smaller(g.max, Larger(Larger(MulFloor(g.max, cr.band.shrink_factor),
                                 cr.band.floor_bytes), post))

\* UpdateNodegroupConfig is accepted only while the nodegroup is ACTIVE.
nodegroup_is_active(g) == g.active

(***************************************************************************)
(* Status.  A failed patch leaves the previous one for the next tick.      *)
(***************************************************************************)

\* flap_status, and the merge patch that leaves a capacity it could not
\* observe as it was.
flap_status(phase, cap) ==
    LET progress == cap # None /\ status.capacity # None /\ cap > status.capacity
        n == IF status.phase # "Growing" \/ progress THEN 0
             ELSE Smaller(status.stuck + 1, MaxStuck)
    IN [phase |-> phase, capacity |-> IF cap = None THEN status.capacity ELSE cap,
        stuck |-> IF phase = "Growing" THEN n ELSE 0,
        flap |-> phase = "Growing" /\ n >= MaxStuck]

\* Of the calls made, some may fail as long as the budget lasts.
Calls(ok, patched) ==
    LET failed == (IF ok THEN 0 ELSE 1) + (IF patched THEN 0 ELSE 1)
    IN failed <= faults /\ faults' = faults - failed

\* The end of a tick; a failed patch is not fatal.
patch_status(phase, patched) ==
    /\ pc' = "idle" /\ sample' = None
    /\ status' = IF patched THEN flap_status(phase, sample) ELSE status

PoolInit ==
    /\ cr \in PoolSpecs
    /\ node = [n \in Nodes |-> IF n <= cr.start THEN "ready" ELSE "absent"]
    /\ busy = {} /\ protected = {} /\ kept = {}
    /\ seen = {} /\ listed = {} /\ cut = 0 /\ victims = {} /\ fresh = {}
    /\ ng = cr.nodegroup
    /\ demand \in Demands /\ moves = MaxMoves /\ faults = MaxFaults
    /\ history = <<>>
    /\ pc = "idle" /\ sample = None
    /\ status = [phase |-> "", capacity |-> None, stuck |-> 0, flap |-> FALSE]

(***************************************************************************)
(* A tick first observes for its status.  A live managed nodegroup then    *)
(* brings the scale-in protection of its instances up to date, one call    *)
(* after the other; the first that fails ends the synchronization, and the *)
(* tick goes on.  (Of the other pools only a nodegroup in shadow reads     *)
(* these sets, to log them.)                                               *)
(***************************************************************************)
ClusterIdle == UNCHANGED <<cr, node, busy, ng, demand, moves>>

Forget == seen' = {} /\ listed' = {} /\ cut' = 0 /\ victims' = {} /\ fresh' = {}

ObservePool(ok) ==
    /\ pc = "idle" /\ Calls(ok, TRUE)
    /\ pc' = IF cr.backend = "EksNodegroup" /\ cr.live THEN "reading" ELSE "synced"
    /\ sample' = IF ok THEN capacity ELSE None
    /\ ClusterIdle /\ UNCHANGED <<protected, history, status, kept, readings>>

\* describe_nodegroup and observe_busy_nodes.
ReadBusy ==
    /\ pc = "reading" /\ pc' = "listing"
    /\ seen' = busy /\ fresh' = busy
    /\ ClusterIdle
    /\ UNCHANGED <<protected, history, sample, status, faults, kept, listed, cut, victims>>

\* Mutant: everything protected is released, for the next tick to protect anew.
to_release_all(now_busy, now_protected) == now_protected

to_protect(now_busy, now_protected) == now_busy \ now_protected
to_release(now_busy, now_protected) == now_protected \ now_busy

\* What remains to be done once protected and released have their say.
ListProtected ==
    /\ pc = "listing"
    /\ pc' = IF to_protect(seen, protected) # {} THEN "protecting"
             ELSE IF to_release(seen, protected) # {} THEN "releasing" ELSE "synced"
    /\ IF pc' = "synced" THEN Forget
       ELSE listed' = protected /\ UNCHANGED <<seen, cut, victims, fresh>>
    /\ kept' = kept \cup (fresh \cap protected)
    /\ ClusterIdle /\ UNCHANGED <<protected, history, sample, status, faults>>

\* set_instance_protection(true), which comes before ...
Protect ==
    /\ pc = "protecting"
    /\ protected' = protected \cup to_protect(seen, listed)
    /\ kept' = kept \cup fresh
    /\ IF to_release(seen, listed) # {} THEN pc' = "releasing" /\ UNCHANGED readings
       ELSE pc' = "synced" /\ Forget
    /\ ClusterIdle /\ UNCHANGED <<history, sample, status, faults>>

\* ... set_instance_protection(false).
Release ==
    /\ pc = "releasing" /\ pc' = "synced" /\ Forget
    /\ protected' = protected \ to_release(seen, listed)
    /\ ClusterIdle /\ UNCHANGED <<history, sample, status, faults, kept>>

\* One of these calls fails.  What was asked of the auto scaling group may
\* have been done all the same.
SyncFails ==
    /\ pc \in {"reading", "listing", "protecting", "releasing"} /\ Calls(FALSE, TRUE)
    /\ pc' = "synced" /\ Forget
    /\ protected' \in {protected}
         \cup (IF pc = "protecting" THEN {protected \cup to_protect(seen, listed)} ELSE {})
         \cup (IF pc = "releasing" THEN {protected \ to_release(seen, listed)} ELSE {})
    /\ ClusterIdle /\ UNCHANGED <<history, sample, status, kept>>

sync_instance_protection == ReadBusy \/ ListProtected \/ Protect \/ Release \/ SyncFails

(***************************************************************************)
(* Then reconcile_forma.                                                   *)
(***************************************************************************)
\* The observe-only executor never acts, the others only behind a live gate.
Actuates == cr.live /\ cr.backend # "KubeObserve"

FirstAbsent(k) == {n \in Nodes : /\ node[n] = "absent"
                                 /\ Cardinality({m \in 1..n : node[m] = "absent"}) <= k}
FirstOf(S, k)  == {n \in S : Cardinality({m \in S : m <= n}) <= k}

\* provision(n), executor by executor; failing units are left to a later tick.
\* Kwok mints nodes, Karpenter mints claims and the simulator starts booting.
MintNodes(n, ok) ==
    /\ node' = [m \in Nodes |-> IF ok /\ m \in FirstAbsent(n) THEN "booting" ELSE node[m]]
    /\ UNCHANGED ng

EksProvision(n, ok) ==
    \E max \in {grown_max_size(ng, n)} :
       /\ ng' = IF ok /\ nodegroup_is_active(ng)
                   /\ (clamp_grow(ng.desired, n, max) # 0 \/ max # ng.max)
                THEN [ng EXCEPT !.desired = @ + clamp_grow(ng.desired, n, max),
                                !.max = max, !.active = FALSE]
                ELSE ng
       /\ UNCHANGED node

provision(n, ok) ==
    \/ ~Actuates /\ UNCHANGED <<node, ng>>
    \/ Actuates /\ cr.backend \in {"Kwok", "Karpenter", "Sim"} /\ MintNodes(n, ok)
    \/ Actuates /\ cr.backend = "EksNodegroup" /\ EksProvision(n, ok)

\* deprovision(n), executor by executor.  Kwok deletes its first nodes.
KwokDeprovision(n, ok) ==
    /\ node' = [m \in Nodes |-> IF ok /\ m \in FirstOf(Existing, n) THEN "absent" ELSE node[m]]
    /\ UNCHANGED ng

SimDeprovision(n, ok) ==
    /\ node' = [m \in Nodes |-> IF ok /\ m \in FirstOf(Ready, n) THEN "draining" ELSE node[m]]
    /\ UNCHANGED ng

EksDeprovision(n, ok) ==
    \E d \in {clamp_shrink(ng.desired, n, ng.min)} :
       /\ ng' = IF ok /\ nodegroup_is_active(ng) /\ d # 0
                THEN [ng EXCEPT !.desired = @ - d, !.active = FALSE,
                                !.max = shrunk_max_size(ng, ng.desired - d)]
                ELSE ng
       /\ UNCHANGED node

\* A Karpenter shrink only lists its claims at first, deleted ones included;
\* without the list the tick is over.
deprovision(n, ok) ==
    \/ (~Actuates \/ cr.backend = "Karpenter") /\ UNCHANGED <<node, ng>>
    \/ Actuates /\ cr.backend = "Kwok" /\ KwokDeprovision(n, ok)
    \/ Actuates /\ cr.backend = "Sim" /\ SimDeprovision(n, ok)
    \/ Actuates /\ cr.backend = "EksNodegroup" /\ EksDeprovision(n, ok)

\* cloud_pool_status: the phase a tick publishes.
cloud_pool_status(kind) ==
    CASE kind = "Manter" -> "Held" [] kind = "EnvelopeExausto" -> "EnvelopeExhausted"
      [] kind = "Crescer" -> "Growing" [] kind = "Encolher" -> "Shrinking"

ListsClaims(ok) == Actuates /\ cr.backend = "Karpenter" /\ ok

ActTick(ok, patched) ==
    /\ pc = "synced" /\ Calls(ok, patched)
    /\ \E h \in {IF cr.predictive THEN pushed(history, used) ELSE <<used>>} :
       \E d \in {DecisaoForma(predict(h), capacity)} :
         /\ history' = IF cr.predictive THEN h ELSE history
         /\ \/ /\ d.kind \in {"Manter", "EnvelopeExausto"} /\ ok
               /\ patch_status(cloud_pool_status(d.kind), patched)
               /\ UNCHANGED <<node, ng, readings>>
            \/ /\ d.kind = "Crescer"
               /\ provision(d.delta, ok)
               /\ patch_status(cloud_pool_status(d.kind), patched)
               /\ UNCHANGED readings
            \/ /\ d.kind = "Encolher" /\ ~ListsClaims(ok)
               /\ deprovision(d.delta, ok)
               /\ patch_status(cloud_pool_status(d.kind), patched)
               /\ UNCHANGED readings
            \/ /\ d.kind = "Encolher" /\ ListsClaims(ok) /\ patched
               /\ deprovision(d.delta, ok)
               /\ pc' = "choosing" /\ listed' = Existing /\ cut' = d.delta
               /\ UNCHANGED <<sample, status, seen, victims, fresh>>
    /\ UNCHANGED <<cr, busy, protected, demand, moves, kept>>

\* The observation inside reconcile_forma fails: hold and surface.
ObserveError ==
    /\ pc = "synced" /\ Calls(FALSE, TRUE)
    /\ patch_status("Error", TRUE)
    /\ ClusterIdle /\ UNCHANGED <<protected, history, kept, readings>>

(***************************************************************************)
(* A Karpenter shrink goes on: it reads the busy nodes, selects among the  *)
(* claims it listed before, and deletes them one by one.  Without a        *)
(* reading of the busy nodes no claim is spared.                           *)
(***************************************************************************)
\* The first claims by name that are not busy.
Selected(claims, n, now_busy) == FirstOf(claims \ now_busy, n)

KarpenterSelects(ok) ==
    /\ pc = "choosing" /\ pc' = "deleting" /\ Calls(ok, TRUE)
    /\ victims' = Selected(listed, cut, IF ok THEN busy ELSE {})
    /\ listed' = {} /\ cut' = 0
    /\ kept' = IF ok THEN busy ELSE {}
    /\ ClusterIdle /\ UNCHANGED <<protected, history, sample, status, seen, fresh>>

\* delete_nodeclaim; a failure is not fatal, a claim already gone is one.
DeleteClaim(ok) ==
    /\ pc = "deleting" /\ Calls(ok, TRUE)
    /\ \E n \in FirstOf(victims, 1) :
         /\ node' = IF ok /\ n \in Existing
                    THEN [node EXCEPT ![n] = IF @ = "booting" THEN "absent" ELSE "draining"]
                    ELSE node
         /\ victims' = victims \ {n}
    /\ UNCHANGED <<cr, busy, ng, protected, demand, moves, history, pc, sample, status,
                   kept, seen, listed, cut, fresh>>

KarpenterEnds(patched) ==
    /\ pc = "deleting" /\ victims = {} /\ Calls(TRUE, patched)
    /\ patch_status("Shrinking", patched)
    /\ ClusterIdle /\ UNCHANGED <<protected, history, kept, readings>>

KarpenterDeprovision ==
    \/ \E ok \in BOOLEAN : KarpenterSelects(ok) \/ DeleteClaim(ok)
    \/ \E patched \in BOOLEAN : KarpenterEnds(patched)

\* The controller restarts in the middle of a tick; its forecaster forgets.
Restart ==
    /\ faults > 0 /\ faults' = faults - 1
    /\ pc # "idle" /\ pc' = "idle" /\ sample' = None /\ Forget /\ history' = <<>>
    /\ ClusterIdle /\ UNCHANGED <<protected, status, kept>>

(***************************************************************************)
(* The cluster and the cloud.                                              *)
(***************************************************************************)
ControllerIdle == UNCHANGED <<cr, pc, sample, cut, victims, status, faults, history>>
ReadingsStand  == UNCHANGED <<seen, listed, fresh>>

Joins(n) == /\ node[n] = "booting" /\ node' = [node EXCEPT ![n] = "ready"]
            /\ UNCHANGED <<busy, ng, protected, demand, moves, kept>> /\ ControllerIdle /\ ReadingsStand

\* A drained node disappears, and whatever still ran on it.
Gone(n) == /\ node[n] = "draining" /\ node' = [node EXCEPT ![n] = "absent"]
           /\ busy' = busy \ {n} /\ kept' = kept \ {n} /\ protected' = protected \ {n}
           /\ fresh' = fresh \ {n}
           /\ UNCHANGED <<ng, demand, moves, seen, listed>> /\ ControllerIdle

ScaleOut == /\ cr.backend = "EksNodegroup" /\ Cardinality(Booked) < ng.desired
            /\ \E n \in FirstAbsent(1) : node' = [node EXCEPT ![n] = "booting"]
            /\ UNCHANGED <<busy, ng, protected, demand, moves, kept>> /\ ControllerIdle /\ ReadingsStand

\* The group picks any instance that is not protected, blind to pods.  Its
\* identifier, wherever a tick still holds it, names nothing from then on.
ScaleIn(n) == /\ cr.backend = "EksNodegroup" /\ Cardinality(Booked) > ng.desired
              /\ n \in Booked \ protected
              /\ node' = [node EXCEPT ![n] = "absent"]
              /\ busy' = busy \ {n} /\ kept' = kept \ {n} /\ fresh' = fresh \ {n}
              /\ seen' = seen \ {n} /\ listed' = listed \ {n}
              /\ UNCHANGED <<ng, protected, demand, moves>> /\ ControllerIdle

UpdateDone == /\ ~ng.active /\ ng' = [ng EXCEPT !.active = TRUE]
              /\ UNCHANGED <<node, busy, protected, demand, moves, kept>> /\ ControllerIdle /\ ReadingsStand

JobStarts(n) == /\ n <= cr.runners /\ node[n] = "ready" /\ n \notin busy /\ busy' = busy \cup {n}
                /\ UNCHANGED <<node, ng, protected, demand, moves, kept>> /\ ControllerIdle /\ ReadingsStand

JobEnds(n) == /\ n \in busy /\ busy' = busy \ {n} /\ kept' = kept \ {n} /\ fresh' = fresh \ {n}
              /\ UNCHANGED <<node, ng, protected, demand, moves, seen, listed>> /\ ControllerIdle

DemandMoves == /\ moves > 0 /\ moves' = moves - 1
               /\ demand' \in Demands \ {demand}
               /\ UNCHANGED <<node, busy, ng, protected, kept>> /\ ControllerIdle /\ ReadingsStand

Tick == \/ \E ok \in BOOLEAN : ObservePool(ok)
        \/ sync_instance_protection
        \/ \E ok, patched \in BOOLEAN : ActTick(ok, patched)
        \/ KarpenterDeprovision \/ ObserveError

PoolNext ==
    \/ Tick \/ Restart
    \/ \E n \in Nodes : Joins(n) \/ Gone(n) \/ ScaleIn(n) \/ JobStarts(n) \/ JobEnds(n)
    \/ ScaleOut \/ UpdateDone \/ DemandMoves

\* The controller requeues every pool forever; the cloud boots, drains and
\* follows the desired size in the end.  Jobs, demand and faults owe nothing.
PoolFairness ==
    /\ WF_pool_vars(Tick)
    /\ \A n \in Nodes : WF_pool_vars(Joins(n)) /\ WF_pool_vars(Gone(n)) /\ WF_pool_vars(ScaleIn(n))
    /\ WF_pool_vars(ScaleOut) /\ WF_pool_vars(UpdateDone)

PoolSpec == PoolInit /\ [][PoolNext]_pool_vars /\ PoolFairness

(***************************************************************************)
(* Properties.                                                             *)
(***************************************************************************)
\* A CI job is not killed by a shrink that has taken note of it.  A node that
\* a reading found busy, and that has been busy ever since, is safe
\*   - from the auto scaling group's blind scale-in, once the protection that
\*     the reading calls for is in place, through every later tick's protecting
\*     and releasing (sync_instance_protection);
\*   - from the Karpenter shrink that made the reading, whose claims were
\*     listed before it and are deleted one by one after it (deprovision).
\* A job that starts after the reading is not covered, nor is one whose node
\* the group takes between the reading and the call that protects it: the
\* code leaves both windows open.
BusySurvives ==
    [][\A n \in kept : node[n] = "ready" => node'[n] = "ready"]_pool_vars

\* A pool never falls behind for good: whatever was failed, forgotten by a
\* restart or still booting, the nodes cover the demand again and again, as
\* long as the demand fits the pool's ceiling and its floor is above zero.
Short == /\ Actuates /\ cr.band.floor_bytes > 0
         /\ \A d \in Demands : d <= cr.band.ceiling_bytes
         /\ capacity < demand
DemandServed == []<>~Short

\* A pool that keeps asking for nodes it never gets says so: if its phase
\* stays Growing while its capacity stands still, the flap is flagged
\* (flap_status).
Wedged == status.phase = "Growing" /\ capacity = status.capacity
WedgeSurfaces == []<>(Wedged => status.flap)

\* What CloudPoolSpec and the Karpenter executor say of a pool of zero nodes:
\* a demand brings it back from zero.
ComesBackFromZero == cr.live => []<>(capacity > 0 \/ demand = 0)
=============================================================================
