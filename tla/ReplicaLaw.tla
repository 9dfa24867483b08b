----------------------------- MODULE ReplicaLaw -----------------------------
(***************************************************************************)
(* The horizontal band's law: how many replicas a workload should run for  *)
(* a work-rate signal (breathe-control replica).  Ratios, floating-point   *)
(* in the code, are compared exactly on whole numbers; tolerances are      *)
(* percentages.                                                            *)
(***************************************************************************)
EXTENDS Integers

None == -1
Higher(a, b) == IF a >= b THEN a ELSE b
Lower(a, b)  == IF a <= b THEN a ELSE b
DivUp(a, b)  == (a + b - 1) \div b

-----------------------------------------------------------------------------
(***************************************************************************)
(* The configuration.                                                      *)
(***************************************************************************)
ReplicaSignal == {"Utilization", "RequestRate", "QueueDepth"}
Topology      == {"NonPersistent", "Persistent", "MasterSlave", "FullyDistributed"}

\* copies is the replication factor or the number of primaries; kind is the
\* target's kind.
ReplicaBandConfig ==
    [floor : Nat, ha_floor : Nat \cup {None}, ceiling : Nat,
     signal : ReplicaSignal, target : Nat,
     tolerance_up : Nat, tolerance_down : Nat,
     max_scale_up_pct : Nat, max_scale_up_pods : Nat,
     max_scale_down_pct : Nat, max_scale_down_pods : Nat,
     topology : Topology, copies : Nat, kind : {"Deployment", "StatefulSet"}]

MAX_REPLICAS == 100000

\* OddQuorum and its constructors.
MIN == 3
at_least(n) == LET base == Higher(n, MIN) IN IF base % 2 = 0 THEN base + 1 ELSE base
at_most(ceiling) ==
    IF ceiling <= MIN THEN MIN ELSE IF ceiling % 2 = 0 THEN ceiling - 1 ELSE ceiling
step_up(current)   == at_least(current + 1)
step_down(current) == Higher(at_least(current) - 2, MIN)

effective_floor(c) == IF c.ha_floor = None THEN c.floor ELSE Higher(c.ha_floor, c.floor)

hard_floor(c) ==
    CASE c.topology = "NonPersistent"    -> 0
      [] c.topology = "FullyDistributed" -> MIN
      [] OTHER                           -> c.copies

\* Mutant: the quorum floor is not itself a rung.
topology_floor_unsnapped(c) == Higher(effective_floor(c), hard_floor(c))

topology_floor(c) ==
    LET base == Higher(effective_floor(c), hard_floor(c))
    IN IF c.topology = "FullyDistributed" THEN at_least(base) ELSE base

validate_config(c) ==
    /\ c.ceiling >= 1
    /\ effective_floor(c) <= c.ceiling
    /\ c.target > 0
    /\ c.topology \in {"Persistent", "MasterSlave"} => c.copies \in 1..c.ceiling
    /\ c.topology = "FullyDistributed" => c.ceiling >= MIN

validate_for_target(c) ==
    validate_config(c) /\ (c.topology # "NonPersistent" => c.kind = "StatefulSet")

-----------------------------------------------------------------------------
(***************************************************************************)
(* The law.  An observation is [current, value, per, window, reclaim]: the *)
(* signal reads value / per, where per is 1 for a total.                   *)
(***************************************************************************)
is_absolute(signal) == signal \in {"RequestRate", "QueueDepth"}

desired_raw(c, current, value, per) ==
    Lower(MAX_REPLICAS,
            IF is_absolute(c.signal) THEN DivUp(value, per * c.target)
            ELSE DivUp(current * value, per * c.target))

\* metric_ratio against the two tolerances.  With no replicas an absolute
\* signal is infinitely over its target, or on it when there is no work.
Basis(c, current) == IF is_absolute(c.signal) THEN current * c.target ELSE c.target

want_up(c, current, value, per) ==
    IF is_absolute(c.signal) /\ current = 0 THEN value > 0
    ELSE value * 100 > per * Basis(c, current) * (100 + c.tolerance_up)

want_down(c, current, value, per) ==
    /\ ~(is_absolute(c.signal) /\ current = 0)
    /\ value * 100 < per * Basis(c, current) * (100 - c.tolerance_down)

ReplicaDecisionKind == {"Hold", "ScaleUp", "ScaleDown", "AtFloor", "AtCeiling", "SpotScaleOut",
                 "HeldForRebalance"}
ReplicaDecision == [kind : ReplicaDecisionKind, from : Nat, to : Nat]
ScaleTo(kind, from, to) == [kind |-> kind, from |-> from, to |-> to]
Rest(kind, current)     == ScaleTo(kind, current, current)

is_carve(d) == d.from # d.to

clamp(v, lo, hi) == Lower(Higher(v, lo), hi)

\* The scale-in recommendation is the highest of the window, when there is one.
Stabilized(raw, obs) == IF obs.window = None THEN raw ELSE Higher(obs.window, raw)

\* Mutant: the percentage alone.
UpStep_relative(c, current) == (current * c.max_scale_up_pct) \div 100

UpStep(c, current) ==
    Higher(Higher(c.max_scale_up_pods, (current * c.max_scale_up_pct) \div 100), 1)
DownStep(c, current) ==
    Higher(Higher(c.max_scale_down_pods, (current * c.max_scale_down_pct) \div 100), 1)

decide_core(c, obs, floor) ==
    LET current == obs.current
        ceiling == Higher(c.ceiling, floor)
        raw     == desired_raw(c, current, obs.value, obs.per)
        up      == Lower(clamp(raw, floor, ceiling), current + UpStep(c, current))
        down    == Higher(clamp(Stabilized(raw, obs), floor, ceiling),
                          Higher(current - DownStep(c, current), 0))
    IN IF obs.reclaim > 0
         THEN ScaleTo("SpotScaleOut", current,
                    clamp(Higher(current + obs.reclaim, raw), floor, ceiling))
       ELSE IF want_up(c, current, obs.value, obs.per)
         THEN IF up > current THEN ScaleTo("ScaleUp", current, up) ELSE Rest("AtCeiling", current)
       ELSE IF want_down(c, current, obs.value, obs.per)
         THEN IF down < current THEN ScaleTo("ScaleDown", current, down)
              ELSE Rest("AtFloor", current)
       ELSE Rest("Hold", current)

decide_quorum(c, obs) ==
    LET current == obs.current
        floor   == topology_floor(c)
        ceiling == Higher(at_most(Higher(c.ceiling, floor)), floor)
        raw     == desired_raw(c, current, obs.value, obs.per)
        out     == Higher(Lower(at_least(Higher(current + obs.reclaim, raw)), ceiling), floor)
        up      == clamp(Lower(Lower(at_least(clamp(raw, floor, ceiling)), ceiling),
                                 step_up(current)), floor, ceiling)
        down    == clamp(Higher(Higher(at_most(clamp(Stabilized(raw, obs), floor, ceiling)), floor),
                                step_down(current)), floor, ceiling)
    IN IF obs.reclaim > 0 THEN ScaleTo("SpotScaleOut", current, out)
       ELSE IF want_up(c, current, obs.value, obs.per)
         THEN IF up > current THEN ScaleTo("ScaleUp", current, up) ELSE Rest("AtCeiling", current)
       ELSE IF want_down(c, current, obs.value, obs.per)
         THEN IF down < current THEN ScaleTo("ScaleDown", current, down)
              ELSE Rest("AtFloor", current)
       ELSE Rest("Hold", current)

\* Mutant: a persistent scale-in is written like any other.
decide_replicas_unheld(c, obs) ==
    IF c.topology = "FullyDistributed" THEN decide_quorum(c, obs)
    ELSE decide_core(c, obs, topology_floor(c))

decide_replicas(c, obs) ==
    CASE c.topology = "NonPersistent"    -> decide_core(c, obs, effective_floor(c))
      [] c.topology = "MasterSlave"      -> decide_core(c, obs, topology_floor(c))
      [] c.topology = "FullyDistributed" -> decide_quorum(c, obs)
      [] c.topology = "Persistent"       ->
           LET d == decide_core(c, obs, topology_floor(c))
           IN IF d.kind = "ScaleDown" THEN Rest("HeldForRebalance", d.from) ELSE d

quantize_target(c, to, floor, ceiling) ==
    IF c.topology = "FullyDistributed"
    THEN Higher(Lower(at_least(to), at_most(ceiling)), floor) ELSE to

\* Break-glass: the pin, inside the topology's envelope.
ForcedDecision(c, current, pin) ==
    LET floor   == topology_floor(c)
        ceiling == Higher(c.ceiling, floor)
        to      == quantize_target(c, clamp(pin, floor, ceiling), floor, ceiling)
    IN ScaleTo(IF to > current THEN "ScaleUp" ELSE IF to < current THEN "ScaleDown" ELSE "Hold",
             current, to)
=============================================================================
