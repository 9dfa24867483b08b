------------------------------- MODULE Leilao -------------------------------
(***************************************************************************)
(* One tick of a breathable zone (breathe-auction/src/zone.rs and lib.rs,  *)
(* breathe-catalog/src/lib.rs): the jobs of its shapes (formas) and its    *)
(* dimensions run in the order of one graph, made of the catalog's         *)
(* depends_on edges and of the zone's gates, and the shapes that must grow *)
(* are auctioned over the cost/latency frontier.  The scheduler that runs  *)
(* a ready job (shigoto) is external.                                      *)
(***************************************************************************)
EXTENDS Integers, FiniteSets

CONSTANTS
    Formas,         \* shapes
    Zones,          \* [formas, dims, gated_dims, pick, deadline, risk_weight]
    Prices,         \* cents
    Latencies,      \* seconds to relief
    Risks,          \* interruption ppm
    MaxTicks        \* bound on ticks

\* Dimensions and the structural edges of the catalog.
DimensionId ==
    {"memory", "storage", "cpu", "replica", "arc", "cgroup", "cgroup-cpu",
     "host-param", "kube-param", "app-param", "request"}

depends_on(d) ==
    CASE d \in {"memory", "cpu"} -> {"replica"}
      [] d = "request"           -> {"replica", "memory"}
      [] OTHER                   -> {}

PickPolicy == {"MinCost", "MinCostUnderDeadline", "MinCostRiskAdjusted", "TopPerformanceThenMinCost"}

ASSUME LeilaoAssumption ==
    /\ Formas \cap DimensionId = {} /\ MaxTicks \in Nat /\ Prices \cup Latencies \cup Risks \subseteq Nat
    /\ \A z \in Zones : z.formas \subseteq Formas /\ z.dims \subseteq DimensionId /\ z.pick \in PickPolicy
                     /\ z.deadline \in Nat /\ z.risk_weight \in Nat

-----------------------------------------------------------------------------
(***************************************************************************)
(* The graph of a tick.  A job is named by its dimension or its shape.     *)
(***************************************************************************)
\* An edge to a dimension the zone does not hold is dropped.
dimension_tick_dag(dims) == {e \in dims \X dims : e[1] \in depends_on(e[2])}

acyclic(edges, nodes) ==
    \A S \in SUBSET nodes \ {{}} : \E n \in S : \A m \in S : <<m, n>> \notin edges

validate_zone(z) ==
    /\ z.gated_dims \subseteq z.dims
    /\ acyclic(dimension_tick_dag(z.dims), z.dims)

zone_tick_dag(z) == dimension_tick_dag(z.dims) \cup (z.formas \X z.gated_dims)

-----------------------------------------------------------------------------
(***************************************************************************)
(* The auction of the shapes that must grow.  An offer is a Proposta:      *)
(* [forma, cost, latency, risk].                                           *)
(***************************************************************************)
dominates(a, b) ==
    /\ a.cost <= b.cost /\ a.latency <= b.latency
    /\ a.cost < b.cost \/ a.latency < b.latency

\* Mutant: one axis suffices.
frontier_of_latency(offers) == {p \in offers : \A q \in offers : p.latency <= q.latency}

frontier(offers) == {p \in offers : ~\E q \in offers : dominates(q, p)}

ArgMin(S, Key(_)) == {p \in S : \A q \in S : Key(p) <= Key(q)}

\* The winners a pick may come to (the first one, in the code's order).
pick(z, offers) ==
    LET front  == frontier(offers)
        intime == {p \in front : p.latency <= z.deadline}
        cost(p)    == p.cost
        latency(p) == p.latency
        score(p)   == p.cost + z.risk_weight * p.risk
    IN CASE z.pick = "MinCost"              -> ArgMin(front, cost)
         [] z.pick = "MinCostUnderDeadline" -> IF intime # {} THEN ArgMin(intime, cost) ELSE ArgMin(front, latency)
         [] z.pick = "MinCostRiskAdjusted"  -> ArgMin(front, score)
         [] z.pick = "TopPerformanceThenMinCost" -> ArgMin(ArgMin(front, latency), cost)

-----------------------------------------------------------------------------
VARIABLES
    zone,       \* the zone
    zoffers,    \* this tick's offers: the shapes whose band says grow
    zdone,      \* the jobs that ran
    zwinner,    \* the winner of the tick, a set of at most one offer
    zticks

leilao_vars == <<zone, zoffers, zdone, zwinner, zticks>>

LeilaoInit ==
    /\ zone \in {z \in Zones : validate_zone(z)}
    /\ zoffers = {} /\ zdone = {} /\ zwinner = {} /\ zticks = 0

\* A job runs once those it depends on have; a shape's job makes its offer.
RunJob(j) ==
    /\ j \in (zone.dims \cup zone.formas) \ zdone
    /\ \A e \in zone_tick_dag(zone) : e[2] = j => e[1] \in zdone
    /\ zdone' = zdone \cup {j}
    /\ \/ j \notin zone.formas /\ UNCHANGED zoffers
       \/ j \in zone.formas /\ UNCHANGED zoffers
       \/ /\ j \in zone.formas
          /\ \E c \in Prices, l \in Latencies, r \in Risks :
               zoffers' = zoffers \cup {[forma |-> j, cost |-> c, latency |-> l, risk |-> r]}
    /\ UNCHANGED <<zone, zwinner, zticks>>

\* optimize, over the offers of every shape.
optimize ==
    /\ zone.formas \subseteq zdone /\ zwinner = {} /\ zoffers # {}
    /\ \E w \in pick(zone, zoffers) : zwinner' = {w}
    /\ UNCHANGED <<zone, zoffers, zdone, zticks>>

NewTick ==
    /\ zticks < MaxTicks /\ zticks' = zticks + 1
    /\ zone.dims \cup zone.formas \subseteq zdone
    /\ zdone' = {} /\ zoffers' = {} /\ zwinner' = {}
    /\ UNCHANGED zone

LeilaoNext == optimize \/ NewTick \/ \E j \in DimensionId \cup Formas : RunJob(j)

LeilaoSpec == LeilaoInit /\ [][LeilaoNext]_leilao_vars

-----------------------------------------------------------------------------
\* What a pick promises over all the offers, those the frontier dropped
\* included (optimize).  Under the three policies that weigh cost and latency
\* nothing is lost: the winner is the best of all the offers.  Under the
\* risk-adjusted policy that is not so: a dominated offer of a lower score is
\* dropped before scores are compared, and the winner is the best of the offers
\* that no other one dominates.
PickBest ==
    \A w \in zwinner :
      /\ ~\E q \in zoffers : dominates(q, w)
      /\ zone.pick = "MinCost" => \A q \in zoffers : w.cost <= q.cost
      /\ zone.pick = "MinCostUnderDeadline" => \A q \in zoffers :
           \/ w.latency <= zone.deadline /\ (q.latency <= zone.deadline => w.cost <= q.cost)
           \/ w.latency > zone.deadline /\ w.latency <= q.latency
      /\ zone.pick = "TopPerformanceThenMinCost" => \A q \in zoffers :
           \/ w.latency < q.latency
           \/ w.latency = q.latency /\ w.cost <= q.cost
      /\ zone.pick = "MinCostRiskAdjusted" => \A q \in zoffers :
           \/ \E o \in zoffers : dominates(o, q)
           \/ w.cost + zone.risk_weight * w.risk <= q.cost + zone.risk_weight * q.risk
=============================================================================
