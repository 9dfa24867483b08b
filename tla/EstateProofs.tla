---------------------------- MODULE EstateProofs ----------------------------
(***************************************************************************)
(* What the estate's own bookkeeping keeps, for every configuration an     *)
(* operator may write, every zone and offer, every pool and node: the      *)
(* tuner's deadband, the witnesses of a storage carve, the winner of a     *)
(* zone's auction, the busy nodes of a pool, the taints of a new node, the *)
(* size a grow-only carve comes to, the edits of a capacity raise.         *)
(***************************************************************************)
EXTENDS ControlLaws, Lapidar, StorageCarve, Leilao, CapacityRaise, NodePool, NodeTaints, BandLawProofs, TLAPS

-----------------------------------------------------------------------------
(***************************************************************************)
(* The tuner.                                                              *)
(***************************************************************************)
\* A configuration whose deadband is in order, and which is valid unless its
\* operator froze it: tuning may walk the setpoint of a frozen one to zero,
\* so validate itself is not inductive.
Ordered(c) ==
    /\ c \in BandConfig
    /\ c.shrink_below <= c.setpoint /\ c.setpoint <= c.grow_above /\ c.grow_above <= 100
    /\ c.grow_factor > 100 /\ c.shrink_factor \in 1..99 /\ c.floor_bytes <= c.ceiling_bytes

Change == [param : TunedParam \cup {"none"}, from : Int, to : Int]

TuneInv == Ordered(tspec) /\ tuned \in Change

\* with_override keeps the deadband in order and the freeze as it was,
\* whatever value was stored.
LEMMA OverrideOrdered ==
    ASSUME NEW c, Ordered(c), NEW change \in Change
    PROVE  /\ Ordered(with_override(c, change))
           /\ c.shrink_below = 0 <=> with_override(c, change).shrink_below = 0
<1> DEFINE d == with_override(c, change)
<1>1. c \in BandConfig /\ change.to \in Int /\ change.param \in TunedParam \cup {"none"}
    BY DEF Ordered, Change
<1>2. /\ c.shrink_below \in Nat /\ c.setpoint \in Nat /\ c.grow_above \in Nat
      /\ c.shrink_below <= c.setpoint /\ c.setpoint <= c.grow_above /\ c.grow_above <= 100
    BY DEF Ordered, BandConfig
<1>3. CASE change.param = "Setpoint"
    <2> DEFINE v == Clamp(change.to, c.shrink_below, c.grow_above)
    <2>1. v \in Nat /\ c.shrink_below <= v /\ v <= c.grow_above
        BY <1>1, <1>2 DEF Clamp, Smaller, Larger
    <2>2. d = [c EXCEPT !.setpoint = v]
        BY <1>3 DEF with_override
    <2> HIDE DEF v, d
    <2>3. QED
        BY <1>2, <2>1, <2>2 DEF Ordered, BandConfig, d
<1>4. CASE change.param = "GrowAbove"
    <2> DEFINE v == Clamp(change.to, c.setpoint, 100)
    <2>1. v \in Nat /\ c.setpoint <= v /\ v <= 100
        BY <1>1, <1>2 DEF Clamp, Smaller, Larger
    <2>2. d = [c EXCEPT !.grow_above = v]
        BY <1>4 DEF with_override
    <2> HIDE DEF v, d
    <2>3. QED
        BY <1>2, <2>1, <2>2 DEF Ordered, BandConfig, d
<1>5. CASE change.param = "ShrinkBelow" /\ c.shrink_below # 0
    <2> DEFINE v == Clamp(change.to, 1, c.setpoint)
    <2>1. v \in Nat /\ 1 <= v /\ v <= c.setpoint
        BY <1>1, <1>2, <1>5 DEF Clamp, Smaller, Larger
    <2>2. d = [c EXCEPT !.shrink_below = v]
        BY <1>5 DEF with_override
    <2> HIDE DEF v, d
    <2>3. QED
        BY <1>2, <1>5, <2>1, <2>2 DEF Ordered, BandConfig, d
<1>6. CASE change.param = "WarmupSeconds"
    <2> DEFINE v == Larger(change.to, 0)
    <2>1. v \in Nat
        BY <1>1 DEF Larger
    <2>2. d = [c EXCEPT !.warmup_seconds = v]
        BY <1>6 DEF with_override
    <2> HIDE DEF v, d
    <2>3. QED
        BY <1>2, <2>1, <2>2 DEF Ordered, BandConfig, d
<1>7. CASE change.param = "none" \/ (change.param = "ShrinkBelow" /\ c.shrink_below = 0)
    BY <1>7 DEF with_override
<1>8. QED
    BY <1>1, <1>3, <1>4, <1>5, <1>6, <1>7 DEF TunedParam

\* What suggest proposes is a change, of a whole number to a whole number.
LEMMA SuggestType ==
    ASSUME NEW c, Ordered(c), NEW q
    PROVE  suggest(q, c) \in Change
<1>1. c.shrink_below \in Nat /\ c.setpoint \in Nat /\ c.grow_above \in Nat
    BY DEF Ordered, BandConfig
<1>2. /\ Clamp(c.setpoint - SetpointStep, c.shrink_below, c.grow_above) \in Int
      /\ Clamp(c.grow_above + SetpointStep, c.setpoint, 98) \in Int
      /\ Clamp(c.setpoint + SetpointStep, c.shrink_below, c.grow_above) \in Int
    BY <1>1 DEF Clamp, Smaller, Larger, SetpointStep
<1>3. QED
    BY <1>1, <1>2 DEF suggest, Change, TunedParam, NoChange

\* A spec an operator may write is in order.
LEMMA ValidIsOrdered == ASSUME NEW c \in TunedCfgs PROVE Ordered(c)
<1>1. c \in BandConfig /\ validate(c)
    BY TuneAssumption
<1>2. QED
    BY <1>1 DEF Ordered, validate

\* The invariant holds at first and after every step: a kept change turns the
\* effective configuration into the spec.
LEMMA TuneInvHolds == TuneSpec => []TuneInv
<1>1. TuneInit => TuneInv
    BY ValidIsOrdered DEF TuneInit, TuneInv, Change, NoChange
<1>2. TuneInv /\ [TuneNext]_tune_vars => TuneInv'
    <2> SUFFICES ASSUME TuneInv, [TuneNext]_tune_vars PROVE TuneInv'
        OBVIOUS
    <2>1. Ordered(Effective)
        BY OverrideOrdered DEF TuneInv, Effective
    <2>2. ASSUME NEW q \in Quality, Suggests(q) PROVE TuneInv'
        <3>1. suggest(q, Effective) \in Change
            BY <2>1, SuggestType
        <3>2. QED
            BY <2>2, <3>1 DEF Suggests, TuneInv
    <2>3. ASSUME NEW q \in Quality, Judges(q) PROVE TuneInv'
        <3>1. NoChange \in Change
            BY DEF NoChange, Change
        <3>2. QED
            BY <2>1, <2>3, <3>1 DEF Judges, TuneInv
    <2>4. CASE Rests \/ UNCHANGED tune_vars
        BY <2>4 DEF Rests, tune_vars, TuneInv
    <2>5. CASE SpecEdited
        BY <2>5, ValidIsOrdered DEF SpecEdited, TuneInv
    <2>6. QED
        BY <2>2, <2>3, <2>4, <2>5 DEF TuneNext
<1>3. QED
    BY <1>1, <1>2, PTL DEF TuneSpec

\* Tuning is sound for every valid spec and every score: the configuration in
\* force has its deadband in order, a frozen band stays frozen, and a band
\* that may shrink stays valid.
THEOREM TuningIsSound == TuneSpec => []TunedSound
<1>1. TuneInv => TunedSound
    <2> SUFFICES ASSUME TuneInv PROVE TunedSound
        OBVIOUS
    <2>1. /\ Ordered(tspec) /\ Ordered(Effective)
          /\ tspec.shrink_below = 0 <=> Effective.shrink_below = 0
        BY OverrideOrdered DEF TuneInv, Effective
    <2>2. tspec.shrink_below \in Nat /\ Effective.shrink_below \in Nat
          /\ Effective.setpoint \in Nat /\ Effective.grow_above \in Nat
        BY <2>1 DEF Ordered, BandConfig
    <2>3. tspec.shrink_below > 0 => validate(Effective)
        BY <2>1, <2>2 DEF Ordered, validate
    <2>4. (tspec.shrink_below = 0) = (Effective.shrink_below = 0)
        BY <2>1
    <2>5. QED
        BY <2>1, <2>3, <2>4 DEF TunedSound, Ordered
<1>2. QED
    BY <1>1, TuneInvHolds, PTL

-----------------------------------------------------------------------------
(***************************************************************************)
(* The storage carve.                                                      *)
(***************************************************************************)
\* Only the two commits emit a command, and each consumes what it rests on.
LEMMA CommandWitnessed ==
    ASSUME [CarveNext]_carve_vars, command' # command, command'.op # "none"
    PROVE  /\ \E w \in witness \ witness' : w.kind = "Owned" /\ w.of = command'.vol /\ w.age = 0
           /\ \E w \in witness \ witness' : w.kind # "Owned" /\ w.age = 0
<1>1. ~(Mint \/ NextTick \/ FactsFlip \/ UNCHANGED carve_vars)
    BY DEF Mint, NextTick, FactsFlip, carve_vars, NoCommand
<1>2. PICK own \in Owned : \/ \E g \in Grows : commit_small_atomic_grow(own, g)
                          \/ \E p \in Proofs : release(own, p)
    BY <1>1 DEF CarveNext
<1>3. own \in witness /\ own.kind = "Owned"
    BY DEF Owned
<1>4. ASSUME NEW g \in Grows, commit_small_atomic_grow(own, g)
      PROVE  \E w \in witness \ witness' : w.kind # "Owned" /\ w.age = 0
    BY <1>4 DEF commit_small_atomic_grow, is_fresh, Grows
<1>5. ASSUME NEW p \in Proofs, release(own, p)
      PROVE  \E w \in witness \ witness' : w.kind # "Owned" /\ w.age = 0
    BY <1>5 DEF release, is_fresh, Proofs
<1>6. own \in witness \ witness' /\ own.of = command'.vol /\ own.age = 0
    <2>1. ASSUME NEW g \in Grows, commit_small_atomic_grow(own, g)
          PROVE  own \in witness \ witness' /\ own.of = command'.vol /\ own.age = 0
        BY <1>3, <2>1 DEF commit_small_atomic_grow, is_fresh
    <2>2. ASSUME NEW p \in Proofs, release(own, p)
          PROVE  own \in witness \ witness' /\ own.of = command'.vol /\ own.age = 0
        BY <1>3, <2>2 DEF release, is_fresh
    <2>3. QED
        BY <1>2, <2>1, <2>2
<1>7. QED
    BY <1>2, <1>3, <1>4, <1>5, <1>6

\* Every command that reaches a volume consumes an ownership of that volume
\* and a proof or a plan, both minted in the tick that emits it.
THEOREM CommandsAreWitnessed == CarveSpec => CarveWitnessed
<1>1. [CarveNext]_carve_vars =>
        [command' # command /\ command'.op # "none" =>
          /\ \E w \in witness \ witness' : w.kind = "Owned" /\ w.of = command'.vol /\ w.age = 0
          /\ \E w \in witness \ witness' : w.kind # "Owned" /\ w.age = 0]_carve_vars
    BY CommandWitnessed
<1>2. QED
    BY <1>1, PTL DEF CarveSpec, CarveWitnessed

-----------------------------------------------------------------------------
(***************************************************************************)
(* The auction.                                                            *)
(***************************************************************************)
Proposta == [forma : Formas, cost : Nat, latency : Nat, risk : Nat]

\* An offer dropped from the frontier leaves behind one that is at least as
\* good on both axes: among the offers as good as it, one with the least sum
\* of cost and latency is dominated by none.
LEMMA FrontierCovers ==
    ASSUME NEW offers, offers \subseteq Proposta, NEW q \in offers
    PROVE  \E p \in frontier(offers) : p.cost <= q.cost /\ p.latency <= q.latency
<1> DEFINE S == {p \in offers : p.cost <= q.cost /\ p.latency <= q.latency}
           T == {p.cost + p.latency : p \in S}
<1>1. \A p \in offers : p.cost \in Nat /\ p.latency \in Nat
    BY DEF Proposta
<1>2. q \in S
    BY <1>1
<1>3. T \subseteq Nat /\ T # {}
    BY <1>1, <1>2
<1>4. PICK m \in T : \A n \in T : m <= n
    BY <1>3, LeastNatural
<1>5. PICK p \in S : m = p.cost + p.latency
    BY <1>4
<1>6. ASSUME NEW r \in offers, dominates(r, p) PROVE FALSE
    <2>1. r \in S /\ r.cost + r.latency < p.cost + p.latency
        BY <1>1, <1>5, <1>6 DEF dominates
    <2>2. QED
        BY <1>1, <1>4, <1>5, <2>1
<1>7. QED
    BY <1>5, <1>6 DEF frontier

\* Dropping the dominated offers loses nothing under the policies of cost and
\* latency, and leaves the risk-adjusted one the best of the others.
LEMMA PickIsBest ==
    ASSUME NEW z \in Zones, NEW offers, offers \subseteq Proposta, NEW w \in pick(z, offers)
    PROVE  /\ w \in frontier(offers)
           /\ z.pick = "MinCost" => \A q \in offers : w.cost <= q.cost
           /\ z.pick = "MinCostUnderDeadline" => \A q \in offers :
                \/ w.latency <= z.deadline /\ (q.latency <= z.deadline => w.cost <= q.cost)
                \/ w.latency > z.deadline /\ w.latency <= q.latency
           /\ z.pick = "TopPerformanceThenMinCost" => \A q \in offers :
                \/ w.latency < q.latency
                \/ w.latency = q.latency /\ w.cost <= q.cost
           /\ z.pick = "MinCostRiskAdjusted" => \A q \in offers :
                \/ \E o \in offers : dominates(o, q)
                \/ w.cost + z.risk_weight * w.risk <= q.cost + z.risk_weight * q.risk
<1> DEFINE front == frontier(offers)
           intime == {p \in front : p.latency <= z.deadline}
           quickest == {p \in front : \A q \in front : p.latency <= q.latency}
<1>1. z.pick \in PickPolicy /\ z.deadline \in Nat /\ z.risk_weight \in Nat
    BY LeilaoAssumption
<1>2. front \subseteq offers
    BY DEF frontier
<1>3. \A p \in offers : p.cost \in Nat /\ p.latency \in Nat /\ p.risk \in Nat
    BY DEF Proposta
<1>4. \A q \in offers : \E p \in front : p.cost <= q.cost /\ p.latency <= q.latency
    BY FrontierCovers
<1>5. CASE z.pick = "MinCost"
    <2>1. w \in front /\ \A p \in front : w.cost <= p.cost
        BY <1>5 DEF pick, ArgMin
    <2> HIDE DEF front
    <2>2. QED
        <3>1. ASSUME NEW q \in offers PROVE w.cost <= q.cost
            <4>1. PICK p \in front : p.cost <= q.cost
                BY <1>4
            <4>2. w.cost \in Nat /\ p.cost \in Nat /\ q.cost \in Nat
                BY <1>2, <1>3, <2>1
            <4>3. QED
                BY <2>1, <4>1, <4>2
        <3>2. QED
            BY <1>5, <2>1, <3>1 DEF front
<1>6. CASE z.pick = "MinCostUnderDeadline"
    <2>1. \/ w \in intime /\ \A p \in intime : w.cost <= p.cost
          \/ intime = {} /\ w \in front /\ \A p \in front : w.latency <= p.latency
        BY <1>6 DEF pick, ArgMin
    <2> HIDE DEF front
    <2>2. w \in front
        BY <2>1
    <2>3. ASSUME NEW q \in offers
          PROVE  \/ w.latency <= z.deadline /\ (q.latency <= z.deadline => w.cost <= q.cost)
                 \/ w.latency > z.deadline /\ w.latency <= q.latency
        <3>1. PICK p \in front : p.cost <= q.cost /\ p.latency <= q.latency
            BY <1>4
        <3>2. /\ w.cost \in Nat /\ w.latency \in Nat /\ p.cost \in Nat /\ p.latency \in Nat
              /\ q.cost \in Nat /\ q.latency \in Nat
            BY <1>2, <1>3, <2>2
        <3>3. QED
            BY <1>1, <2>1, <2>2, <3>1, <3>2
    <2>4. QED
        BY <1>6, <2>2, <2>3 DEF front
<1>7. CASE z.pick = "TopPerformanceThenMinCost"
    <2>1. w \in quickest /\ \A p \in quickest : w.cost <= p.cost
        BY <1>7 DEF pick, ArgMin
    <2> HIDE DEF front
    <2>2. w \in front /\ \A p \in front : w.latency <= p.latency
        BY <2>1
    <2>3. ASSUME NEW q \in offers
          PROVE  w.latency < q.latency \/ (w.latency = q.latency /\ w.cost <= q.cost)
        <3>1. PICK p \in front : p.cost <= q.cost /\ p.latency <= q.latency
            BY <1>4
        <3>2. /\ w.cost \in Nat /\ w.latency \in Nat /\ p.cost \in Nat /\ p.latency \in Nat
              /\ q.cost \in Nat /\ q.latency \in Nat
            BY <1>2, <1>3, <2>2
        <3>3. p.latency = w.latency => p \in quickest
            BY <2>2
        <3>4. QED
            BY <2>1, <2>2, <3>1, <3>2, <3>3
    <2>4. QED
        BY <1>7, <2>2, <2>3 DEF front
<1>8. CASE z.pick = "MinCostRiskAdjusted"
    <2>1. w \in front /\ \A p \in front : w.cost + z.risk_weight * w.risk <= p.cost + z.risk_weight * p.risk
        BY <1>8 DEF pick, ArgMin
    <2>2. ASSUME NEW q \in offers, ~\E o \in offers : dominates(o, q)
          PROVE  q \in front
        BY <2>2 DEF frontier
    <2>3. QED
        BY <1>8, <2>1, <2>2
<1>9. QED
    BY <1>1, <1>5, <1>6, <1>7, <1>8 DEF PickPolicy

\* A winner is a pick of the offers of every shape: once there is one, every
\* shape's job has run and no offer is added until the next tick.
LeilaoInv ==
    /\ zone \in Zones /\ zoffers \subseteq Proposta
    /\ zwinner # {} => zone.formas \subseteq zdone
    /\ zwinner \subseteq pick(zone, zoffers)

\* The invariant holds at first and after every step.
LEMMA LeilaoInvHolds == LeilaoSpec => []LeilaoInv
<1>1. LeilaoInit => LeilaoInv
    BY DEF LeilaoInit, LeilaoInv
<1>2. LeilaoInv /\ [LeilaoNext]_leilao_vars => LeilaoInv'
    <2> SUFFICES ASSUME LeilaoInv, [LeilaoNext]_leilao_vars PROVE LeilaoInv'
        OBVIOUS
    <2>1. CASE optimize
        BY <2>1 DEF optimize, LeilaoInv
    <2>2. CASE NewTick
        BY <2>2 DEF NewTick, LeilaoInv
    <2>3. ASSUME NEW j, RunJob(j) PROVE LeilaoInv'
        <3>1. CASE zoffers' = zoffers
            BY <2>3, <3>1 DEF RunJob, LeilaoInv
        <3>2. CASE zoffers' # zoffers
            <4>1. PICK c \in Prices, l \in Latencies, r \in Risks :
                    zoffers' = zoffers \cup {[forma |-> j, cost |-> c, latency |-> l, risk |-> r]}
                BY <2>3, <3>2 DEF RunJob
            <4>2. j \in Formas /\ j \notin zdone /\ j \in zone.formas
                BY <2>3, <3>2, LeilaoAssumption DEF RunJob, LeilaoInv
            <4>3. c \in Nat /\ l \in Nat /\ r \in Nat
                BY LeilaoAssumption
            <4>4. zoffers' \subseteq Proposta
                BY <4>1, <4>2, <4>3 DEF Proposta, LeilaoInv
            <4>5. zwinner = {}
                BY <4>2 DEF LeilaoInv
            <4>6. QED
                BY <2>3, <4>4, <4>5 DEF RunJob, LeilaoInv
        <3>3. QED
            BY <3>1, <3>2
    <2>4. CASE UNCHANGED leilao_vars
        BY <2>4 DEF leilao_vars, LeilaoInv
    <2>5. QED
        BY <2>1, <2>2, <2>3, <2>4 DEF LeilaoNext
<1>3. QED
    BY <1>1, <1>2, PTL DEF LeilaoSpec

\* For every zone and any offers the winner is undominated, and it is the best
\* of all the offers under the policies of cost and latency, the best of the
\* undominated ones under the risk-adjusted policy.
THEOREM AuctionPicksBest == LeilaoSpec => []PickBest
<1>1. LeilaoInv => PickBest
    <2> SUFFICES ASSUME LeilaoInv, NEW w \in zwinner
                 PROVE  PickBest!(w)
        BY DEF PickBest
    <2>1. QED
        BY PickIsBest DEF LeilaoInv, frontier
<1>2. QED
    BY <1>1, LeilaoInvHolds, PTL

-----------------------------------------------------------------------------
(***************************************************************************)
(* Busy nodes.                                                             *)
(***************************************************************************)
\* Only the executors that read the busy nodes keep any.
ReadersKeep == kept # {} => cr.backend \in {"EksNodegroup", "Karpenter"}

\* What a reading found busy and the controller then covered is busy still, and
\* out of reach: protected from the auto scaling group, and not among the
\* claims to be deleted.
KeptOutOfReach ==
    /\ kept \subseteq busy
    /\ cr.backend = "EksNodegroup" => kept \subseteq protected
    /\ victims \cap kept = {}

\* While a synchronization is under way, what it saw includes everything kept
\* and everything fresh, and what is fresh and was listed is protected: so
\* nothing kept is released.
SyncInFlight ==
    /\ fresh \subseteq busy /\ fresh \subseteq seen
    /\ fresh # {} => cr.backend = "EksNodegroup"
    /\ pc \in {"reading", "listing", "protecting", "releasing"} => cr.backend = "EksNodegroup"
    /\ pc \in {"listing", "protecting", "releasing"} => kept \subseteq seen
    /\ pc \in {"protecting", "releasing"} => fresh \cap listed \subseteq protected

\* BusySurvives looks at one step: what it needs of the readings before it.
PoolInv ==
    /\ node \in [Nodes -> Phase] /\ busy \subseteq Nodes
    /\ ReadersKeep /\ KeptOutOfReach /\ SyncInFlight
    /\ victims # {} => cr.backend = "Karpenter"
    /\ pc \in {"choosing", "deleting"} => cr.backend = "Karpenter"

\* Nothing is busy, nothing was read.
LEMMA PoolInitInv == PoolInit => PoolInv
BY DEF PoolInit, PoolInv, ReadersKeep, KeptOutOfReach, SyncInFlight, Phase

\* The synchronization releases nothing that is kept, whichever call fails.
LEMMA SyncInv ==
    ASSUME PoolInv, sync_instance_protection
    PROVE  PoolInv' /\ UNCHANGED node
<1> USE DEF PoolInv, ReadersKeep, KeptOutOfReach, SyncInFlight, ClusterIdle
<1>1. CASE ReadBusy
    BY <1>1 DEF ReadBusy
<1>2. CASE ListProtected
    <2>1. /\ UNCHANGED <<cr, node, busy, protected>> /\ (victims' = victims \/ victims' = {})
          /\ kept' = kept \cup (fresh \cap protected) /\ pc = "listing"
        BY <1>2 DEF ListProtected, Forget
    <2>2. \/ fresh' = {} /\ pc' = "synced"
          \/ /\ UNCHANGED <<seen, fresh>> /\ listed' = protected
             /\ pc' \in {"protecting", "releasing", "synced"}
        BY <1>2 DEF ListProtected, Forget
    <2>3. QED
        BY <2>1, <2>2
<1>3. CASE Protect
    <2>1. /\ UNCHANGED <<cr, node, busy>> /\ pc = "protecting"
          /\ kept' = kept \cup fresh /\ protected' = protected \cup (seen \ listed)
        BY <1>3 DEF Protect, to_protect
    <2>2. \/ UNCHANGED <<seen, listed, victims, fresh>> /\ pc' = "releasing"
          \/ fresh' = {} /\ victims' = {} /\ pc' = "synced"
        BY <1>3 DEF Protect, Forget, readings
    <2>3. QED
        BY <2>1, <2>2
<1>4. CASE Release
    BY <1>4 DEF Release, Forget, to_release
<1>5. CASE SyncFails
    <2>1. /\ UNCHANGED <<cr, node, busy, kept>>
          /\ pc' = "synced" /\ fresh' = {} /\ victims' = {}
        BY <1>5 DEF SyncFails, Forget
    <2>2. cr.backend = "EksNodegroup"
        BY <1>5 DEF SyncFails
    <2>3. CASE pc # "releasing"
        BY <1>5, <2>1, <2>3 DEF SyncFails, to_protect
    <2>4. CASE pc = "releasing"
        <3>1. kept \subseteq seen /\ kept \subseteq protected
            BY <2>2, <2>4
        <3>2. protected' \in {protected, protected \ (listed \ seen)}
            BY <1>5, <2>4 DEF SyncFails, to_release
        <3>3. QED
            BY <2>1, <3>1, <3>2
    <2>5. QED
        BY <2>3, <2>4
<1>6. QED
    BY <1>1, <1>2, <1>3, <1>4, <1>5 DEF sync_instance_protection

\* The tick's decision: grow, shrink or hold.
LEMMA ActInv ==
    ASSUME PoolInv, NEW ok \in BOOLEAN, NEW patched \in BOOLEAN, ActTick(ok, patched)
    PROVE  PoolInv' /\ \A n \in kept : node[n] = "ready" => node'[n] = "ready"
<1> DEFINE Spared == \A n \in kept : node[n] = "ready" => node'[n] = "ready"
<1> USE DEF PoolInv, ReadersKeep, KeptOutOfReach, SyncInFlight
<1>1. /\ UNCHANGED <<cr, busy, protected, seen, fresh, victims, kept>>
      /\ pc' = "idle" \/ (pc' = "choosing" /\ cr.backend = "Karpenter")
    BY DEF ActTick, patch_status, readings, ListsClaims
<1>2. ASSUME node' \in [Nodes -> Phase], Spared
      PROVE  PoolInv' /\ Spared
    BY <1>1, <1>2
<1>3. ASSUME NEW k, provision(k, ok)
      PROVE  node' \in [Nodes -> Phase] /\ Spared
    <2>1. CASE UNCHANGED node
        BY <2>1
    <2>2. CASE MintNodes(k, ok)
        BY <2>2 DEF MintNodes, FirstAbsent, Phase
    <2>3. QED
        BY <1>3, <2>1, <2>2 DEF provision, EksProvision
<1>4. ASSUME NEW k, deprovision(k, ok)
      PROVE  node' \in [Nodes -> Phase] /\ Spared
    <2>1. CASE UNCHANGED node
        BY <2>1
    <2>2. CASE cr.backend \in {"Kwok", "Sim"} /\ (KwokDeprovision(k, ok) \/ SimDeprovision(k, ok))
        <3>1. kept = {}
            BY <2>2
        <3>2. node' \in [Nodes -> Phase]
            BY <2>2 DEF KwokDeprovision, SimDeprovision, Phase
        <3>3. QED
            BY <3>1, <3>2
    <2>3. QED
        BY <1>4, <2>1, <2>2 DEF deprovision, EksDeprovision
<1>5. node' \in [Nodes -> Phase] /\ Spared
    BY <1>3, <1>4 DEF ActTick
<1>6. QED
    BY <1>2, <1>5

\* The rest of a Karpenter shrink: the claims it selects are not the busy ones,
\* and a node stays as safe while the claims go one by one.
LEMMA KarpenterInv ==
    ASSUME PoolInv, KarpenterDeprovision
    PROVE  PoolInv' /\ \A n \in kept : node[n] = "ready" => node'[n] = "ready"
<1> USE DEF PoolInv, ReadersKeep, KeptOutOfReach, SyncInFlight
<1>1. ASSUME NEW ok \in BOOLEAN, KarpenterSelects(ok) PROVE PoolInv' /\ UNCHANGED node
    <2>1. /\ UNCHANGED <<cr, node, busy, protected, seen, fresh>>
          /\ pc' = "deleting" /\ cr.backend = "Karpenter"
          /\ kept' \subseteq busy /\ victims' \cap kept' = {}
        BY <1>1 DEF KarpenterSelects, ClusterIdle, Selected, FirstOf
    <2>2. QED
        BY <2>1
<1>2. ASSUME NEW ok \in BOOLEAN, DeleteClaim(ok)
      PROVE  PoolInv' /\ \A n \in kept : node[n] = "ready" => node'[n] = "ready"
    <2>1. UNCHANGED <<cr, busy, protected, pc, kept, seen, listed, fresh>> /\ pc = "deleting"
        BY <1>2 DEF DeleteClaim
    <2>2. PICK n \in victims : /\ node' = node \/ node' = [node EXCEPT ![n] = IF @ = "booting" THEN "absent" ELSE "draining"]
                               /\ victims' = victims \ {n}
        BY <1>2 DEF DeleteClaim, FirstOf
    <2>3. node' \in [Nodes -> Phase] /\ \A m \in Nodes \ {n} : node'[m] = node[m]
        BY <2>2 DEF Phase
    <2>4. \A m \in kept : m \in Nodes \ {n}
        BY <2>2
    <2>5. QED
        BY <2>1, <2>2, <2>3, <2>4
<1>3. ASSUME NEW patched \in BOOLEAN, KarpenterEnds(patched) PROVE PoolInv' /\ UNCHANGED node
    BY <1>3 DEF KarpenterEnds, ClusterIdle, patch_status, readings
<1>4. QED
    BY <1>1, <1>2, <1>3 DEF KarpenterDeprovision

\* Every step preserves the invariant and spares the nodes it kept.
LEMMA PoolNextInv ==
    ASSUME PoolInv, [PoolNext]_pool_vars
    PROVE  PoolInv' /\ \A n \in kept : node[n] = "ready" => node'[n] = "ready"
<1> DEFINE Spared == \A n \in kept : node[n] = "ready" => node'[n] = "ready"
<1> USE DEF PoolInv, ReadersKeep, KeptOutOfReach, SyncInFlight
<1>1. ASSUME NEW ok \in BOOLEAN, ObservePool(ok) PROVE PoolInv' /\ Spared
    BY <1>1 DEF ObservePool, ClusterIdle, readings
<1>2. ASSUME NEW ok \in BOOLEAN, NEW patched \in BOOLEAN, ActTick(ok, patched) PROVE PoolInv' /\ Spared
    BY <1>2, ActInv
<1>3. CASE sync_instance_protection \/ KarpenterDeprovision
    BY <1>3, SyncInv, KarpenterInv
<1>4. CASE ObserveError \/ Restart
    BY <1>4 DEF ObserveError, Restart, ClusterIdle, readings, patch_status, Forget
<1>5. ASSUME NEW n \in Nodes, Joins(n) PROVE PoolInv' /\ Spared
    BY <1>5 DEF Joins, ControllerIdle, ReadingsStand, Phase
<1>6. ASSUME NEW n \in Nodes, Gone(n) PROVE PoolInv' /\ Spared
    <2>1. /\ node[n] = "draining" /\ node' = [node EXCEPT ![n] = "absent"]
          /\ busy' = busy \ {n} /\ kept' = kept \ {n} /\ protected' = protected \ {n}
          /\ fresh' = fresh \ {n} /\ UNCHANGED <<cr, pc, victims, seen, listed>>
        BY <1>6 DEF Gone, ControllerIdle
    <2>2. QED
        BY <2>1 DEF Phase
<1>7. ASSUME NEW n \in Nodes, ScaleIn(n) PROVE PoolInv' /\ Spared
    <2>1. /\ cr.backend = "EksNodegroup" /\ n \notin protected
          /\ node' = [node EXCEPT ![n] = "absent"]
          /\ busy' = busy \ {n} /\ kept' = kept \ {n} /\ fresh' = fresh \ {n}
          /\ seen' = seen \ {n} /\ listed' = listed \ {n}
          /\ UNCHANGED <<cr, pc, protected, victims>>
        BY <1>7 DEF ScaleIn, ControllerIdle
    <2>2. node' \in [Nodes -> Phase] /\ \A m \in Nodes \ {n} : node'[m] = node[m]
        BY <2>1 DEF Phase
    <2>3. QED
        BY <2>1, <2>2
<1>8. ASSUME NEW n \in Nodes, JobStarts(n) \/ JobEnds(n) PROVE PoolInv' /\ Spared
    BY <1>8 DEF JobStarts, JobEnds, ControllerIdle, ReadingsStand
<1>9. CASE ScaleOut
    <2>1. PICK n \in Nodes : node[n] = "absent" /\ node' = [node EXCEPT ![n] = "booting"]
        BY <1>9 DEF ScaleOut, FirstAbsent
    <2>2. UNCHANGED <<cr, pc, busy, protected, victims, kept, seen, listed, fresh>>
        BY <1>9 DEF ScaleOut, ControllerIdle, ReadingsStand
    <2>3. QED
        BY <2>1, <2>2 DEF Phase
<1>10. CASE UpdateDone \/ DemandMoves
    BY <1>10 DEF UpdateDone, DemandMoves, ControllerIdle, ReadingsStand
<1>11. CASE UNCHANGED pool_vars
    BY <1>11 DEF pool_vars
<1>12. QED
    BY <1>1, <1>2, <1>3, <1>4, <1>5, <1>6, <1>7, <1>8, <1>9, <1>10, <1>11 DEF PoolNext, Tick

\* No shrink kills a CI job that it has taken note of, for any pool, backend,
\* demand and number of nodes, whatever jobs start and end, instances come and
\* go, calls fail and restarts fall between the reading of the busy nodes, the
\* listing of the protected ones, the protecting, the releasing and the shrink.
THEOREM BusyNodesSurvive == PoolSpec => BusySurvives
<1>1. PoolInv /\ [PoolNext]_pool_vars => PoolInv'
    BY PoolNextInv
<1>2. PoolInv /\ [PoolNext]_pool_vars => [\A n \in kept : node[n] = "ready" => node'[n] = "ready"]_pool_vars
    BY PoolNextInv
<1>3. QED
    BY <1>1, <1>2, PoolInitInv, PTL DEF PoolSpec, BusySurvives

(***************************************************************************)
(* Taints.                                                                 *)
(***************************************************************************)
WritersTyped ==
    /\ taints \in [TaintNodes -> SUBSET Taint]
    /\ pods \in [TaintNodes -> [Components -> Pod]]
    /\ claim \in [ClaimPools -> [node : TaintNodes \cup {0}, read : SUBSET Taint]]
    /\ DOMAIN guard = {"pc", "todo", "read", "found", "degraded"}
    /\ guard.todo \subseteq TaintNodes /\ guard.read \subseteq Taint
    /\ DOMAIN gate = {"pc", "seen", "action", "todo"}
    /\ gate.todo \subseteq TaintNodes /\ gate.seen \in [TaintNodes -> SUBSET Taint]

\* A list of taints without the startup taint is one of a proven node.
Earned(n, list) == Startup \notin list => n \in proven

\* Whoever is about to write a list holds one that is earned: the list read
\* for a claim, the list read by the guard, and the gate's decision.
ListsEarned ==
    /\ \A n \in TaintNodes : Earned(n, taints[n])
    /\ \A p \in ClaimPools : claim[p] # IdleClaim =>
         claim[p].node \in TaintNodes /\ Earned(claim[p].node, claim[p].read)
    /\ guard.pc = "patch" => First(guard.todo) \in TaintNodes /\ Earned(First(guard.todo), guard.read)
    /\ gate.pc = "nodes" => \A n \in gate.todo : gate.action[n] = "Liberar" => n \in proven

TaintsInv == WritersTyped /\ ListsEarned

\* Any set of nodes with a member has a first one.
LEMMA FirstIsMember == ASSUME NEW S, S \subseteq Nat, S # {} PROVE First(S) \in S
BY LeastNatural DEF First

\* No writer but the gate takes the startup taint out of a list.
LEMMA UpsertKeepsStartup ==
    ASSUME NEW list \in SUBSET Taint, NEW t \in {Guarded} \cup ClaimPools
    PROVE  upsert_taint(list, t) \in SUBSET Taint /\ (Startup \in list => Startup \in upsert_taint(list, t))
BY NodeTaintsAssumption DEF upsert_taint, Taint, Startup, Guarded, NoPool

\* The gate releases a node only when each component is ready long enough.
LEMMA LiberarIsStable ==
    ASSUME WritersTyped, NEW n \in TaintNodes, acao_para(classify(check(vista_para_no(n)))) = "Liberar"
    PROVE  \A c \in Components : pods[n][c] >= MinStable
<1>1. check(vista_para_no(n)) \in {"Reject", "Pass", "Defer"}
    BY DEF check
<1>2. check(vista_para_no(n)) = "Pass"
    BY <1>1 DEF acao_para, classify
<1>3. ASSUME NEW c \in Components PROVE pods[n][c] >= MinStable
    <2>1. vista_para_no(n)[c] = "Present"
        BY <1>2 DEF check
    <2>2. estado_de_pod(pods[n][c]) = "Present"
        BY <2>1 DEF vista_para_no
    <2>3. pods[n][c] \in Pod
        BY DEF WritersTyped
    <2>4. QED
        BY <2>2, <2>3, NodeTaintsAssumption DEF estado_de_pod, Pod, NotFound, NotReady, Untimed
<1>4. QED
    BY <1>3

\* Every node starts tainted, and nobody has read it.
LEMMA TaintsInitInv == TaintsInit => TaintsInv
<1> SUFFICES ASSUME TaintsInit PROVE TaintsInv
    OBVIOUS
<1>1. WritersTyped
    BY DEF TaintsInit, WritersTyped, Taint, Pod, NotFound, IdleClaim, IdleGuard, IdleGate
<1>2. ListsEarned
    BY DEF TaintsInit, ListsEarned, Earned, IdleGuard, IdleGate
<1>3. QED
    BY <1>1, <1>2 DEF TaintsInv

\* Every step preserves the invariant; a step that writes taints leaves what
\* is proven alone.
LEMMA TaintsNextInv ==
    ASSUME TaintsInv, [TaintsNext]_taint_vars
    PROVE  TaintsInv' /\ (UNCHANGED taints \/ UNCHANGED proven)
<1> DEFINE Goal == TaintsInv' /\ (UNCHANGED taints \/ UNCHANGED proven)
<1> USE DEF TaintsInv
<1>0. /\ \A S \in SUBSET TaintNodes : S # {} => First(S) \in S
      /\ guard.todo \in SUBSET TaintNodes /\ gate.todo \in SUBSET TaintNodes
    BY FirstIsMember, NodeTaintsAssumption DEF WritersTyped
<1>1. ASSUME NEW p \in ClaimPools, ClaimLists(p) PROVE Goal
    <2>1. PICK n \in TaintNodes : /\ claim' = [claim EXCEPT ![p] = [node |-> n, read |-> taints[n]]]
                                  /\ UNCHANGED <<taints, pods, guard, gate, proven>>
        <3>1. {n \in TaintNodes : is_claim_candidate(n)} # {}
            BY <1>1 DEF ClaimLists
        <3>2. pick_claim_candidate \in TaintNodes
            BY <1>0, <3>1 DEF pick_claim_candidate
        <3>3. QED
            BY <1>1, <3>2 DEF ClaimLists
    <2>2. WritersTyped'
        BY <2>1 DEF WritersTyped
    <2>3. ListsEarned'
        <3>1. claim'[p].node = n /\ claim'[p].read = taints[n] /\ \A q \in ClaimPools \ {p} : claim'[q] = claim[q]
            BY <2>1 DEF WritersTyped
        <3>2. QED
            BY <2>1, <3>1 DEF ListsEarned, Earned
    <2>4. QED
        BY <2>1, <2>2, <2>3
<1>2. ASSUME NEW p \in ClaimPools, NEW ok \in BOOLEAN, ClaimPatches(p, ok) PROVE Goal
    <2>1. /\ claim[p] # IdleClaim /\ claim' = [claim EXCEPT ![p] = IdleClaim]
          /\ taints' \in {taints, [taints EXCEPT ![claim[p].node] = upsert_taint(claim[p].read, p)]}
          /\ UNCHANGED <<pods, guard, gate, proven>>
        BY <1>2 DEF ClaimPatches
    <2>2. /\ claim[p].node \in TaintNodes /\ Earned(claim[p].node, claim[p].read)
          /\ claim[p].read \in SUBSET Taint
        BY <2>1 DEF ListsEarned, WritersTyped
    <2>3. /\ upsert_taint(claim[p].read, p) \in SUBSET Taint
          /\ Startup \in claim[p].read => Startup \in upsert_taint(claim[p].read, p)
        BY <2>2, UpsertKeepsStartup
    <2>4. /\ taints' \in [TaintNodes -> SUBSET Taint]
          /\ \A n \in TaintNodes : Earned(n, taints'[n])
        BY <2>1, <2>2, <2>3 DEF ListsEarned, WritersTyped, Earned
    <2>5. claim' \in [ClaimPools -> [node : TaintNodes \cup {0}, read : SUBSET Taint]]
          /\ claim'[p] = IdleClaim /\ \A q \in ClaimPools \ {p} : claim'[q] = claim[q]
        BY <2>1 DEF WritersTyped, IdleClaim
    <2>6. WritersTyped'
        BY <2>1, <2>4, <2>5 DEF WritersTyped
    <2>7. ListsEarned'
        BY <2>1, <2>4, <2>5 DEF ListsEarned, Earned
    <2>8. QED
        BY <2>1, <2>6, <2>7
<1>3. ASSUME NEW ok \in BOOLEAN, GuardStarts(ok) \/ GuardListsPods(ok) \/ GuardPublishes(ok) PROVE Goal
    <2>1. UNCHANGED <<taints, pods, claim, gate, proven>>
        BY <1>3 DEF GuardStarts, GuardListsPods, GuardPublishes, GuardLeaves
    <2>2. /\ DOMAIN guard' = {"pc", "todo", "read", "found", "degraded"}
          /\ guard'.todo \subseteq TaintNodes /\ guard'.read \subseteq Taint /\ guard'.pc # "patch"
        <3>1. CASE GuardStarts(ok)
            BY <3>1, NodeTaintsAssumption DEF GuardStarts, IdleGuard
        <3>2. CASE GuardListsPods(ok)
            BY <3>2 DEF GuardListsPods, WritersTyped
        <3>3. CASE GuardPublishes(ok)
            BY <3>3 DEF GuardPublishes, IdleGuard
        <3>4. QED
            BY <1>3, <3>1, <3>2, <3>3
    <2>3. QED
        BY <2>1, <2>2 DEF WritersTyped, ListsEarned, Earned
<1>4. ASSUME NEW ok \in BOOLEAN, GuardGets(ok) PROVE Goal
    <2>1. /\ guard' \in {[guard EXCEPT !.pc = "pods"],
                         [guard EXCEPT !.pc = "patch", !.read = taints[First(guard.todo)]]}
          /\ guard.todo # {} /\ UNCHANGED <<taints, pods, claim, gate, proven>>
        BY <1>4 DEF GuardGets, ensure_taint, GuardLeaves
    <2>2. First(guard.todo) \in TaintNodes
        BY <1>0, <2>1
    <2>3. /\ DOMAIN guard' = DOMAIN guard /\ guard'.todo = guard.todo
          /\ guard'.read \in {guard.read, taints[First(guard.todo)]}
          /\ guard'.pc = "patch" => guard'.read = taints[First(guard.todo)]
        BY <2>1 DEF WritersTyped
    <2>4. WritersTyped'
        BY <2>1, <2>2, <2>3 DEF WritersTyped
    <2>5. ListsEarned'
        BY <2>1, <2>2, <2>3 DEF ListsEarned, Earned
    <2>6. QED
        BY <2>1, <2>4, <2>5
<1>5. ASSUME NEW ok \in BOOLEAN, GuardPatches(ok) PROVE Goal
    <2>1. /\ guard.pc = "patch" /\ guard' = [guard EXCEPT !.pc = "pods", !.read = {}]
          /\ taints' \in {taints, [taints EXCEPT ![First(guard.todo)] = upsert_taint(guard.read, Guarded)]}
          /\ UNCHANGED <<pods, claim, gate, proven>>
        BY <1>5 DEF GuardPatches, GuardLeaves
    <2>2. /\ First(guard.todo) \in TaintNodes /\ Earned(First(guard.todo), guard.read)
          /\ guard.read \in SUBSET Taint
        BY <2>1 DEF ListsEarned, WritersTyped
    <2>3. /\ upsert_taint(guard.read, Guarded) \in SUBSET Taint
          /\ Startup \in guard.read => Startup \in upsert_taint(guard.read, Guarded)
        BY <2>2, UpsertKeepsStartup
    <2>4. /\ taints' \in [TaintNodes -> SUBSET Taint]
          /\ \A n \in TaintNodes : Earned(n, taints'[n])
        BY <2>1, <2>2, <2>3 DEF ListsEarned, WritersTyped, Earned
    <2>5. /\ DOMAIN guard' = DOMAIN guard /\ guard'.todo = guard.todo /\ guard'.read = {} /\ guard'.pc = "pods"
        BY <2>1 DEF WritersTyped
    <2>6. WritersTyped'
        BY <2>1, <2>4, <2>5 DEF WritersTyped
    <2>7. ListsEarned'
        BY <2>1, <2>4, <2>5 DEF ListsEarned, Earned
    <2>8. QED
        BY <2>1, <2>6, <2>7
<1>6. ASSUME NEW ok \in BOOLEAN, GateListsNodes(ok) PROVE Goal
    <2>1. UNCHANGED <<taints, pods, claim, guard, proven>>
        BY <1>6 DEF GateListsNodes, GateLeaves
    <2>2. /\ DOMAIN gate' = {"pc", "seen", "action", "todo"} /\ gate'.todo = {} /\ gate'.pc # "nodes"
          /\ gate'.seen \in [TaintNodes -> SUBSET Taint]
        BY <1>6 DEF GateListsNodes, IdleGate, WritersTyped
    <2>3. WritersTyped'
        BY <2>1, <2>2 DEF WritersTyped
    <2>4. ListsEarned'
        BY <2>1, <2>2 DEF ListsEarned, Earned
    <2>5. QED
        BY <2>1, <2>3, <2>4
<1>7. ASSUME NEW ok \in BOOLEAN, GateListsPods(ok) PROVE Goal
    <2>1. UNCHANGED <<taints, pods, claim, guard>>
        BY <1>7 DEF GateListsPods, GateLeaves
    <2>2. proven \subseteq proven'
        BY <1>7 DEF GateListsPods
    <2>3. /\ DOMAIN gate' = {"pc", "seen", "action", "todo"} /\ gate'.todo \subseteq TaintNodes
          /\ gate'.seen \in [TaintNodes -> SUBSET Taint]
        BY <1>7 DEF GateListsPods, IdleGate, WritersTyped
    <2>4. ASSUME gate'.pc = "nodes", NEW n \in TaintNodes, gate'.action[n] = "Liberar" PROVE n \in proven'
        <3>1. ok
            BY <1>7, <2>4 DEF GateListsPods, IdleGate
        <3>2. gate'.action[n] = acao_para(classify(check(vista_para_no(n))))
            BY <1>7, <3>1 DEF GateListsPods, WritersTyped
        <3>3. \A c \in Components : pods[n][c] >= MinStable
            BY <2>4, <3>2, LiberarIsStable
        <3>4. QED
            BY <1>7, <3>1, <3>3 DEF GateListsPods
    <2>5. WritersTyped'
        BY <2>1, <2>3 DEF WritersTyped
    <2>6. ListsEarned'
        BY <2>1, <2>2, <2>3, <2>4 DEF ListsEarned, Earned
    <2>7. QED
        BY <2>1, <2>5, <2>6
<1>8. ASSUME NEW ok \in BOOLEAN, GateDecides(ok) PROVE Goal
    <2> DEFINE n == First(gate.todo)
    <2>1. /\ gate.pc = "nodes" /\ gate.todo # {}
          /\ gate' \in {IdleGate, [gate EXCEPT !.todo = @ \ {n}]}
          /\ UNCHANGED <<pods, claim, guard, proven>>
        BY <1>8 DEF GateDecides, GateLeaves
    <2>2. \/ UNCHANGED taints
          \/ gate.action[n] = "Liberar" /\ taints' = [taints EXCEPT ![n] = release_patch(n)]
        BY <1>8 DEF GateDecides, resultado_para_no
    <2>3. n \in gate.todo /\ n \in TaintNodes
        BY <1>0, <2>1
    <2>4. release_patch(n) \in SUBSET Taint
        BY <2>3 DEF release_patch, remove_taint, WritersTyped
    <2>5. gate.action[n] = "Liberar" => n \in proven
        BY <2>1, <2>3 DEF ListsEarned
    <2> HIDE DEF n
    <2>6. /\ taints' \in [TaintNodes -> SUBSET Taint]
          /\ \A m \in TaintNodes : Earned(m, taints'[m])
        BY <2>2, <2>3, <2>4, <2>5 DEF ListsEarned, WritersTyped, Earned
    <2>7. /\ DOMAIN gate' = {"pc", "seen", "action", "todo"} /\ gate'.todo \subseteq gate.todo
          /\ gate'.seen \in [TaintNodes -> SUBSET Taint]
          /\ gate'.pc = "nodes" => gate'.action = gate.action
        <3>1. CASE gate' = IdleGate
            BY <3>1 DEF IdleGate
        <3>2. CASE gate' = [gate EXCEPT !.todo = @ \ {n}]
            <4>1. DOMAIN gate = {"pc", "seen", "action", "todo"} /\ gate.seen \in [TaintNodes -> SUBSET Taint]
                BY DEF WritersTyped
            <4>2. QED
                BY <3>2, <4>1
        <3>3. QED
            BY <2>1, <3>1, <3>2
    <2>8. WritersTyped'
        BY <2>1, <2>6, <2>7 DEF WritersTyped
    <2>9. ListsEarned'
        BY <2>1, <2>6, <2>7 DEF ListsEarned, Earned
    <2>10. QED
        BY <2>1, <2>8, <2>9
<1>9. ASSUME NEW n \in TaintNodes, NEW c \in Components, PodMoves(n, c) \/ PodMatures(n, c) PROVE Goal
    <2>1. UNCHANGED <<taints, claim, guard, gate, proven>>
        BY <1>9 DEF PodMoves, PodMatures, ClusterLeaves
    <2>2. PICK v \in Pod : pods' = [pods EXCEPT ![n][c] = v]
        <3>1. CASE PodMoves(n, c)
            <4>1. PICK v \in {NotReady, Untimed, 0} : pods' = [pods EXCEPT ![n][c] = v]
                BY <3>1 DEF PodMoves
            <4>2. v \in Pod
                BY NodeTaintsAssumption DEF Pod, NotReady, Untimed
            <4>3. QED
                BY <4>1, <4>2
        <3>2. CASE PodMatures(n, c)
            <4>1. pods[n][c] + 1 \in Pod /\ pods' = [pods EXCEPT ![n][c] = pods[n][c] + 1]
                BY <3>2, NodeTaintsAssumption DEF PodMatures, Pod, WritersTyped
            <4>2. QED
                BY <4>1
        <3>3. QED
            BY <1>9, <3>1, <3>2
    <2>3. pods' \in [TaintNodes -> [Components -> Pod]]
        BY <2>2 DEF WritersTyped
    <2>4. QED
        BY <2>1, <2>3 DEF WritersTyped, ListsEarned, Earned
<1>10. ASSUME NEW n \in TaintNodes, Intrusion(n) PROVE Goal
    BY <1>10 DEF Intrusion, ClusterLeaves, WritersTyped, ListsEarned, Earned
<1>11. CASE UNCHANGED taint_vars
    BY <1>11 DEF taint_vars, WritersTyped, ListsEarned, Earned
<1>12. QED
    BY <1>1, <1>2, <1>3, <1>4, <1>5, <1>6, <1>7, <1>8, <1>9, <1>10, <1>11
       DEF TaintsNext, GuardTick, GatePass, ClaimTick

\* No node loses its startup taint before every required component was ready
\* for the whole stability bound, for any nodes, pools, targets and
\* components, although three controllers write whole lists of taints from
\* readings that may be out of date.
THEOREM ReleaseIsEarned == TaintsSpec => NoEarlyRelease
<1>1. TaintsInv /\ [TaintsNext]_taint_vars => TaintsInv'
    BY TaintsNextInv
<1>2. TaintsInv /\ [TaintsNext]_taint_vars =>
        [\A n \in TaintNodes : Startup \in taints[n] /\ Startup \notin taints'[n] => n \in proven]_taint_vars
    <2> SUFFICES ASSUME TaintsInv, [TaintsNext]_taint_vars,
                        NEW n \in TaintNodes, Startup \in taints[n], Startup \notin taints'[n]
                 PROVE  n \in proven
        OBVIOUS
    <2>1. TaintsInv' /\ (UNCHANGED taints \/ UNCHANGED proven)
        BY TaintsNextInv
    <2>2. n \in proven'
        BY <2>1 DEF TaintsInv, ListsEarned, Earned
    <2>3. QED
        BY <2>1, <2>2
<1>3. QED
    BY <1>1, <1>2, TaintsInitInv, PTL DEF TaintsSpec, NoEarlyRelease

-----------------------------------------------------------------------------
(***************************************************************************)
(* The size a grow-only carve comes to.                                    *)
(***************************************************************************)
\* f is the first k sizes of a carve.
Carves(f, use, c, k) ==
    f = [j \in 0..k |-> IF j = 0 THEN Larger(c.floor_bytes, 1) ELSE carve_step(f[j - 1], use, c)]

\* A carve has as many sizes as one asks for.
LEMMA CarvingExists == ASSUME NEW use, NEW c, NEW k \in Nat PROVE \E f : Carves(f, use, c, k)
<1> DEFINE K == {n \in Nat : ~\E f : Carves(f, use, c, n)}
           first == Larger(c.floor_bytes, 1)
<1>1. ASSUME K # {} PROVE FALSE
    <2>1. PICK m \in K : \A n \in K : m <= n
        <3>1. K \subseteq Nat
            OBVIOUS
        <3> HIDE DEF K
        <3>2. QED
            BY <1>1, <3>1, LeastNatural
    <2>2. m \in Nat /\ ~\E f : Carves(f, use, c, m)
        OBVIOUS
    <2>3. CASE m = 0
        <3> DEFINE g == [j \in 0..0 |-> first]
        <3>1. Carves(g, use, c, 0)
            BY DEF Carves
        <3>2. QED
            BY <2>2, <2>3, <3>1
    <2>4. CASE m # 0
        <3>1. m - 1 \in Nat /\ m - 1 \notin K
            BY <2>1, <2>2, <2>4
        <3>2. PICK f : Carves(f, use, c, m - 1)
            BY <3>1
        <3> DEFINE g == [j \in 0..m |-> IF j = 0 THEN first ELSE carve_step(f[j - 1], use, c)]
        <3>3. \A j \in 0..(m - 1) : g[j] = f[j]
            <4>1. \A j \in 0..(m - 1) : f[j] = IF j = 0 THEN first ELSE carve_step(f[j - 1], use, c)
                BY <3>2, Zenon DEF Carves
            <4>2. \A j \in 0..(m - 1) : j \in 0..m
                BY <2>2
            <4>3. QED
                BY <4>1, <4>2
        <3>4. \A j \in 0..m : g[j] = IF j = 0 THEN first ELSE carve_step(g[j - 1], use, c)
            <4> SUFFICES ASSUME NEW j \in 0..m
                         PROVE  g[j] = IF j = 0 THEN first ELSE carve_step(g[j - 1], use, c)
                OBVIOUS
            <4>1. CASE j = 0
                BY <4>1
            <4>2. CASE j # 0
                <5>1. j - 1 \in 0..(m - 1)
                    BY <2>2, <4>2
                <5>2. g[j - 1] = f[j - 1]
                    BY <3>3, <5>1
                <5>3. g[j] = carve_step(f[j - 1], use, c)
                    BY <4>2
                <5> HIDE DEF g
                <5>4. QED
                    BY <4>2, <5>2, <5>3
            <4>3. QED
                BY <4>1, <4>2
        <3>5. Carves(g, use, c, m)
            <4>1. g = [j \in 0..m |-> g[j]]
                OBVIOUS
            <4> HIDE DEF g
            <4>2. QED
                BY <3>4, <4>1 DEF Carves
        <3>6. QED
            BY <2>2, <3>5
    <2>5. QED
        BY <2>3, <2>4
<1>2. QED
    BY <1>1

\* Rounding a larger size up gives a larger one, and a factor above one never
\* gives a smaller one.
LEMMA GrowOrders ==
    ASSUME NEW a \in Nat, NEW b \in Nat, a <= b, NEW p \in Nat, p > 100
    PROVE  /\ MulCeil(a, p) \in Nat /\ MulCeil(b, p) \in Nat
           /\ MulCeil(a, p) <= MulCeil(b, p) /\ b <= MulCeil(b, p)
<1>1. a * p \in Nat /\ b * p \in Nat /\ a * p <= b * p /\ b * 100 <= b * p
    OBVIOUS
<1>2. QED
    BY <1>1 DEF MulCeil

\* A size that is outgrown is below the one that seats the working set, so a
\* step from it stops at the ceiling of the detector.
LEMMA StepRightSized ==
    ASSUME NEW use \in Nat, use # 0, NEW c \in BandConfig, validate(c), NEW size \in Nat,
           size <= carve_grow_ceiling(provision_target(use, use, c), c)
    PROVE  /\ carve_step(size, use, c) \in Nat
           /\ carve_step(size, use, c) <= carve_grow_ceiling(provision_target(use, use, c), c)
<1> DEFINE target == provision_target(use, use, c)
           top    == carve_grow_ceiling(target, c)
           raw    == propose(use, size, c)
           s      == Scaffold(raw, use, use, size, c)
<1>1. /\ c.setpoint \in Nat /\ c.setpoint # 0 /\ c.grow_above \in Nat /\ c.setpoint <= c.grow_above
      /\ c.grow_factor \in Nat /\ c.grow_factor > 100
      /\ c.shrink_factor \in Nat /\ c.shrink_factor < 100
      /\ c.floor_bytes \in Nat /\ c.ceiling_bytes \in Nat
    BY DEF validate, BandConfig
<1>u. UsableConfig(c)
    BY DEF UsableConfig, validate
<1>2. target \in Nat /\ target * c.setpoint >= 100 * use /\ target >= c.floor_bytes
    BY <1>u, SafeMinSeats DEF provision_target
<1> HIDE DEF target
<1>3. top \in Nat /\ target <= top
    BY <1>1, <1>2, GrowOrders DEF carve_grow_ceiling
<1>4. raw \in Nat /\ (raw > size => raw <= top)
    <2>1. CASE use * 100 > c.grow_above * size
        <3>1. size <= target
            <4>1. ASSUME size > target PROVE FALSE
                <5>1. size * c.setpoint >= target * c.setpoint
                    BY <1>1, <1>2, <4>1
                <5>2. size * c.grow_above >= size * c.setpoint
                    BY <1>1
                <5>3. QED
                    BY <1>1, <1>2, <2>1, <5>1, <5>2
            <4>2. QED
                BY <1>2, <4>1
        <3>2. raw = MulCeil(size, c.grow_factor)
            BY <2>1 DEF propose
        <3>3. QED
            BY <1>1, <1>2, <3>1, <3>2, GrowOrders DEF carve_grow_ceiling
    <2>2. CASE ~(use * 100 > c.grow_above * size)
        <3>1. MulFloor(size, c.shrink_factor) \in Nat /\ MulFloor(size, c.shrink_factor) <= size
            <4>1. size * c.shrink_factor \in Nat /\ size * c.shrink_factor <= size * 100
                BY <1>1
            <4>2. QED
                BY <4>1 DEF MulFloor
        <3>2. raw \in {MulFloor(size, c.shrink_factor), size}
            BY <2>2 DEF propose
        <3>3. QED
            BY <3>1, <3>2
    <2>3. QED
        BY <2>1, <2>2
<1> HIDE DEF top, raw
<1>5. s.kind = "Grow" => s.to \in Nat /\ s.to <= top
    <2>1. CASE size < c.floor_bytes
        BY <1>1, <1>2, <1>3, <2>1 DEF Scaffold, Decide
    <2>2. CASE ~(size < c.floor_bytes) /\ size > c.ceiling_bytes
        BY <2>2 DEF Scaffold, Decide
    <2>3. CASE ~(size < c.floor_bytes) /\ ~(size > c.ceiling_bytes)
        <3>1. s = safety_clamp(raw, use, use, size, c)
            BY <2>3 DEF Scaffold, metric_untrusted
        <3>2. CASE raw > size
            <4>1. Smaller(raw, c.ceiling_bytes) \in Nat /\ Smaller(raw, c.ceiling_bytes) <= raw
                BY <1>1, <1>4 DEF Smaller
            <4>2. QED
                BY <1>3, <1>4, <3>1, <3>2, <4>1 DEF safety_clamp, Stay, Decide
        <3>3. CASE ~(raw > size)
            BY <1>4, <3>1, <3>3 DEF safety_clamp, Stay, Decide
        <3>4. QED
            BY <3>2, <3>3
    <2>4. QED
        BY <2>1, <2>2, <2>3
<1> DEFINE d == clamp_to_directionality(s, "GrowOnly")
<1>6. d.kind = "Grow" => d = s
    BY DEF clamp_to_directionality, Stay, Decide
<1>7. carve_step(size, use, c) = IF d.kind = "Grow" /\ d.to > size THEN d.to ELSE size
    BY DEF carve_step, decide_with, raw
<1> HIDE DEF s, d
<1>8. QED
    BY <1>5, <1>6, <1>7 DEF top, target

\* From the floor up, no size of a carve is above the detector's ceiling.
LEMMA CarveRightSized ==
    ASSUME NEW use \in Nat, use # 0, NEW c \in BandConfig, validate(c)
    PROVE  carve_output_verdict(use, c) # "OverProvisioned"
<1> DEFINE target == provision_target(use, use, c)
           top    == carve_grow_ceiling(target, c)
           first  == Larger(c.floor_bytes, 1)
           M      == MaxGrowSteps
           h      == carve_steps(use, c)
<1>0. M \in Nat
    BY LawAssumption
<1>1. Carves(h, use, c, M)
    <2>1. \E f : Carves(f, use, c, M)
        BY <1>0, CarvingExists
    <2> DEFINE g == CHOOSE f : f = [j \in 0..M |-> IF j = 0 THEN first ELSE carve_step(f[j - 1], use, c)]
    <2>2. Carves(g, use, c, M)
        BY <2>1, Zenon DEF Carves
    <2>3. h = g
        BY Zenon DEF carve_steps
    <2>4. QED
        BY <2>2, <2>3
<1>2. \A j \in 0..M : h[j] = IF j = 0 THEN first ELSE carve_step(h[j - 1], use, c)
    BY <1>1, Zenon DEF Carves
<1>3. target \in Nat /\ top \in Nat /\ target <= top /\ first \in Nat /\ first <= target
    <2>1. /\ c.setpoint \in Nat /\ c.setpoint # 0 /\ c.grow_factor \in Nat /\ c.grow_factor > 100
          /\ c.floor_bytes \in Nat
        BY DEF validate, BandConfig
    <2>2. target \in Nat /\ target * c.setpoint >= 100 * use /\ target >= c.floor_bytes
        BY SafeMinSeats DEF provision_target, UsableConfig, validate
    <2> HIDE DEF target
    <2>3. target # 0
        BY <2>1, <2>2
    <2>4. first \in Nat /\ first <= target
        BY <2>1, <2>2, <2>3 DEF Larger
    <2>5. QED
        BY <2>1, <2>2, <2>4, GrowOrders DEF carve_grow_ceiling
<1>4. ASSUME NEW size \in Nat, size <= top
      PROVE  carve_step(size, use, c) \in Nat /\ carve_step(size, use, c) <= top
    BY <1>4, StepRightSized
<1> HIDE DEF h, top, target, first
<1> DEFINE D == {j \in 0..M : ~(h[j] \in Nat /\ h[j] <= top)}
<1>5. ASSUME D # {} PROVE FALSE
    <2>1. PICK m \in D : \A n \in D : m <= n
        <3>1. D \subseteq Nat
            OBVIOUS
        <3> HIDE DEF D
        <3>2. QED
            BY <1>5, <3>1, LeastNatural
    <2>2. m \in 0..M /\ ~(h[m] \in Nat /\ h[m] <= top)
        OBVIOUS
    <2>3. m # 0
        BY <1>2, <1>3, <2>2
    <2>4. m - 1 \in 0..M /\ ~(m <= m - 1)
        BY <1>0, <2>2, <2>3
    <2>5. h[m - 1] \in Nat /\ h[m - 1] <= top
        BY <2>1, <2>4
    <2>6. h[m] = carve_step(h[m - 1], use, c)
        BY <1>2, <2>2, <2>3
    <2>7. QED
        BY <1>4, <2>2, <2>5, <2>6
<1>6. h[M] \in Nat /\ h[M] <= top
    <2>1. M \in 0..M
        BY <1>0
    <2>2. QED
        BY <1>5, <2>1
<1>7. carve_output_verdict(use, c) =
        IF h[M] < target THEN "UnderProvisioned" ELSE IF h[M] <= top THEN "RightSized" ELSE "OverProvisioned"
    BY DEF carve_output_verdict, classify_provision, carve_fixpoint, h, top, target
<1>8. QED
    BY <1>6, <1>7

\* Whatever law runs the loop and however its workload moves, the size a
\* grow-only carve comes to for its use is never over-provisioned, for every
\* valid configuration, use and bound on the steps: the over-provisioning
\* theorem of carve_output_verdict.  A use of zero over a floor of zero, where
\* the carve starts one unit above a target of none, is not among the loads.
THEOREM CarveNeverOverProvisions == LawSpec => []NeverOverProvisions
<1> DEFINE LInv == lcfg \in LawCfgs /\ lused \in LawLoads
<1>1. LawInit => LInv
    BY DEF LawInit
<1>2. LInv /\ [LawNext]_law_vars => LInv'
    BY DEF LawNext, LawTick, LawLoadMoves, LawThrottles, law_vars
<1>3. LInv => NeverOverProvisions
    <2> SUFFICES ASSUME LInv PROVE NeverOverProvisions
        OBVIOUS
    <2>1. lcfg \in BandConfig /\ validate(lcfg) /\ lused \in Nat /\ lused # 0
        BY LawAssumption
    <2>2. QED
        BY <2>1, CarveRightSized DEF NeverOverProvisions
<1>4. QED
    BY <1>1, <1>2, <1>3, PTL DEF LawSpec

-----------------------------------------------------------------------------
(***************************************************************************)
(* The capacity raise.                                                     *)
(***************************************************************************)
LEMMA OnceIs == ASSUME NEW v PROVE Once(v) = v
BY Zenon DEF Once

\* Rounding goes up, and keeps the order.
LEMMA RoundUp ==
    ASSUME NEW v \in Nat
    PROVE  /\ round_up(v) \in Nat /\ round_up(v) >= v
           /\ \A w \in Nat : v <= w => round_up(v) <= round_up(w)
<1>1. Grain \in Nat \ {0}
    BY CapacityAssumption
<1> DEFINE q(x) == (x + Grain - 1) \div Grain
<1>2. ASSUME NEW x \in Nat
      PROVE  q(x) \in Nat /\ Grain * q(x) <= x + Grain - 1 /\ x + Grain - 1 < Grain * q(x) + Grain
    <2>1. x + Grain - 1 \in Nat
        BY <1>1
    <2>2. QED
        BY <1>1, <2>1, Quotient
<1> HIDE DEF q
<1>3. ASSUME NEW x \in Nat
      PROVE  round_up(x) = Grain * q(x) /\ Grain * q(x) \in Nat /\ Grain * q(x) >= x
    <2>1. q(x) \in Nat /\ Grain * q(x) \in Nat
        BY <1>1, <1>2
    <2>2. round_up(x) = q(x) * Grain
        BY DEF round_up, q
    <2>3. QED
        BY <1>1, <1>2, <2>1, <2>2
<1>4. ASSUME NEW w \in Nat, v <= w PROVE Grain * q(v) <= Grain * q(w)
    <2>1. q(v) \in Nat /\ q(w) \in Nat
        BY <1>2
    <2>2. Grain * q(v) < Grain * (q(w) + 1) + Grain
        <3>1. Grain * (q(w) + 1) = Grain * q(w) + Grain
            BY <1>1, <2>1
        <3>2. Grain * q(v) \in Nat /\ Grain * q(w) \in Nat
            BY <1>1, <2>1
        <3>3. QED
            BY <1>1, <1>2, <1>4, <3>1, <3>2
    <2>3. CASE q(v) <= q(w)
        BY <1>1, <2>1, <2>3
    <2>4. CASE q(w) + 1 <= q(v)
        <3>1. Grain * (q(w) + 1) <= Grain * q(v)
            BY <1>1, <2>1, <2>4
        <3>2. Grain * (q(w) + 1) = Grain * q(w) + Grain
            BY <1>1, <2>1
        <3>3. Grain * q(v) \in Nat /\ Grain * q(w) \in Nat
            BY <1>1, <2>1
        <3>4. Grain * q(w) + Grain <= w + Grain - 1
            BY <1>1, <1>2, <1>4, <3>1, <3>2, <3>3
        <3>5. QED
            BY <1>1, <1>2, <3>3, <3>4
    <2>5. QED
        BY <2>1, <2>3, <2>4
<1>5. QED
    BY <1>3, <1>4

\* A share of a number, rounded up, is a number.
LEMMA ScaleType == ASSUME NEW v \in Nat, NEW pct \in Nat PROVE scale(v, pct) \in Nat
<1>1. v * pct \in Nat
    OBVIOUS
<1>2. (v * pct) + 99 \in Nat
    BY <1>1
<1>3. QED
    BY <1>2, Quotient DEF scale

\* A rung climbs, no further than the target and the policy's step.
LEMMA ClimbRises ==
    ASSUME NEW v \in Nat, NEW to \in Nat, NEW pct \in Nat
    PROVE  /\ Climb(v, to, pct) \in Nat /\ Climb(v, to, pct) <= to
           /\ Climb(v, to, pct) <= Most(scale(v, pct), v + 1)
           /\ v < to => Climb(v, to, pct) >= v + 1
           /\ v >= to => Climb(v, to, pct) = to
<1>1. scale(v, pct) \in Nat
    BY ScaleType
<1>2. Climb(v, to, pct) = Fewest(Most(scale(v, pct), v + 1), to)
    BY OnceIs, Zenon DEF Climb
<1>3. QED
    BY <1>1, <1>2 DEF Fewest, Most

\* A function on 1..top that begins with v.
StartsWith(f, v) == \E top \in Nat \ {0} : DOMAIN f = 1..top /\ f[1] = v

\* The ladder has a first rung, which climbs from where it starts.
LEMMA LadderFirst ==
    ASSUME NEW from \in Nat, NEW to \in Nat, NEW pct \in Nat, from < to
    PROVE  StartsWith(ladder(from, to, pct), Climb(from, to, pct))
<1> DEFINE Steps(f) == f = [n \in 0..to |-> IF n = 0 THEN from ELSE Climb(f[n - 1], to, pct)]
           cur == CHOOSE f : Steps(f)
           Reaches(n) == cur[n] >= to /\ \A k \in 0..n - 1 : cur[k] < to
           top == CHOOSE n \in 0..to : Reaches(n)
<1>1. ladder(from, to, pct) = [i \in 1..top |-> cur[i]]
    BY Zenon DEF ladder
<1>2. \E f : Steps(f) /\ \A n \in 0..to : f[n] \in Nat
    <2> DEFINE F == [p \in Nat \X Nat |-> Climb(p[2], to, pct)]
    <2>1. \A n \in Nat : \A x \in Nat : F[<<n, x>>] = Climb(x, to, pct)
        OBVIOUS
    <2>2. \A n \in Nat : \A x \in Nat : F[<<n, x>>] \in Nat
        BY <2>1, ClimbRises
    <2> HIDE DEF F
    <2>3. PICK f : Recursion(f, from, F, to) /\ \A n \in 0..to : f[n] \in Nat
        BY <2>2, RecursionIn
    <2>4. \A n \in 0..to : n # 0 => n - 1 \in 0..to /\ n - 1 \in Nat
        OBVIOUS
    <2>5. \A n \in 0..to : (IF n = 0 THEN from ELSE F[<<n - 1, f[n - 1]>>])
                            = (IF n = 0 THEN from ELSE Climb(f[n - 1], to, pct))
        BY <2>1, <2>3, <2>4, Zenon
    <2>6. f = [n \in 0..to |-> IF n = 0 THEN from ELSE Climb(f[n - 1], to, pct)]
        BY <2>3, <2>5, Zenon DEF Recursion
    <2>7. QED
        BY <2>3, <2>6
<1>3. Steps(cur)
    BY <1>2, Zenon
<1> HIDE DEF cur
<1>4. \A n \in 0..to : cur[n] = IF n = 0 THEN from ELSE Climb(cur[n - 1], to, pct)
    BY <1>3, Zenon
<1> HIDE DEF Steps
<1> DEFINE T == {n \in Nat : n <= to => cur[n] \in Nat /\ (cur[n] >= n \/ cur[n] >= to)}
<1>5. \A n \in 0..to : cur[n] \in Nat /\ (cur[n] >= n \/ cur[n] >= to)
    <2>1. 0 \in T
        BY <1>4
    <2>2. ASSUME NEW n \in Nat, n \in T PROVE n + 1 \in T
        <3> SUFFICES ASSUME n + 1 <= to PROVE cur[n + 1] \in Nat /\ (cur[n + 1] >= n + 1 \/ cur[n + 1] >= to)
            OBVIOUS
        <3>1. n + 1 \in 0..to /\ n + 1 # 0 /\ (n + 1) - 1 = n /\ n <= to
            OBVIOUS
        <3>2. cur[n + 1] = Climb(cur[n], to, pct)
            BY <1>4, <3>1, Zenon
        <3>3. cur[n] \in Nat /\ (cur[n] >= n \/ cur[n] >= to)
            BY <2>2, <3>1
        <3>4. /\ Climb(cur[n], to, pct) \in Nat
              /\ cur[n] < to => Climb(cur[n], to, pct) >= cur[n] + 1
              /\ cur[n] >= to => Climb(cur[n], to, pct) = to
            BY <3>3, ClimbRises
        <3> HIDE DEF T
        <3>5. QED
            BY <3>2, <3>3, <3>4
    <2> HIDE DEF T
    <2>3. \A n \in Nat : n \in T
        BY <2>1, <2>2, AllNaturals
    <2>4. QED
        BY <2>3 DEF T
<1>6. \E n \in 0..to : Reaches(n)
    <2> DEFINE K == {n \in 0..to : cur[n] >= to}
    <2>1. K \subseteq Nat
        OBVIOUS
    <2>2. to \in K
        BY <1>5
    <2> HIDE DEF K
    <2>3. PICK m \in K : \A n \in K : m <= n
        BY <2>1, <2>2, LeastNatural
    <2>4. m \in 0..to /\ cur[m] >= to
        BY DEF K
    <2>5. ASSUME NEW k \in 0..m - 1 PROVE cur[k] < to
        <3>1. k \in 0..to /\ ~(m <= k)
            BY <2>4
        <3>2. ~(cur[k] >= to)
            BY <2>3, <3>1 DEF K
        <3>3. QED
            BY <1>5, <3>1, <3>2
    <2>6. Reaches(m)
        BY <2>4, <2>5
    <2>7. QED
        BY <2>4, <2>6
<1>7. top \in 0..to /\ Reaches(top)
    BY <1>6, Zenon
<1> HIDE DEF top
<1>8. cur[0] = from /\ top # 0 /\ top \in Nat
    <2>1. cur[0] = from
        BY <1>4
    <2>2. QED
        BY <1>7, <2>1
<1>9. cur[1] = Climb(from, to, pct)
    <2>1. 1 \in 0..to /\ 1 # 0 /\ 1 - 1 = 0
        OBVIOUS
    <2>2. QED
        BY <1>4, <1>8, <2>1, Zenon
<1>10. 1 \in 1..top
    BY <1>8
<1>11. DOMAIN ladder(from, to, pct) = 1..top /\ ladder(from, to, pct)[1] = Climb(from, to, pct)
    BY <1>1, <1>9, <1>10, Zenon
<1>12. QED
    BY <1>8, <1>11 DEF StartsWith

\* The length of a sequence written as a function.
LEMMA LengthIs ==
    ASSUME NEW n \in Nat, NEW f, f = [i \in 1..n |-> f[i]]
    PROVE  Len(f) = n
<1> DEFINE S == {f[i] : i \in 1..n}
<1>1. \A i \in 1..n : f[i] \in S
    OBVIOUS
<1> HIDE DEF S
<1>2. f \in Seq(S) /\ DOMAIN f = 1..n
    BY <1>1
<1>3. QED
    BY <1>2

\* What an edit from c to d by steps of pct may do.
Lifts(c, d, pct) ==
    /\ d \in Sizing
    /\ \A k \in DOMAIN c : d[k] >= c[k]
    /\ \A k \in {"cpu", "mem"} : d[k] <= round_up(Most(scale(c[k], pct), c[k] + 1))
    /\ c.lim >= c.mem => d.lim >= d.mem

\* The same, field by field.
LEMMA LiftsFields ==
    ASSUME NEW c \in Sizing, NEW d \in Sizing, NEW pct \in Nat,
           d.cpu >= c.cpu, d.mem >= c.mem, d.lim >= c.lim, d.min >= c.min, d.max >= c.max,
           d.mem_pct = c.mem_pct, d.cpu_pct = c.cpu_pct,
           d.cpu = c.cpu \/ d.cpu <= round_up(Most(scale(c.cpu, pct), c.cpu + 1)),
           d.mem = c.mem \/ d.mem <= round_up(Most(scale(c.mem, pct), c.mem + 1)),
           c.lim >= c.mem => d.lim >= d.mem
    PROVE  Lifts(c, d, pct)
<1>1. DOMAIN c = {"cpu", "mem", "lim", "min", "max", "mem_pct", "cpu_pct"}
    BY DEF Sizing
<1>2. /\ c.cpu \in Nat /\ c.mem \in Nat /\ c.mem_pct \in Nat /\ c.cpu_pct \in Nat
    BY DEF Sizing
<1>3. ASSUME NEW v \in Nat PROVE v <= round_up(Most(scale(v, pct), v + 1))
    <2>1. Most(scale(v, pct), v + 1) \in Nat /\ v <= Most(scale(v, pct), v + 1)
        BY ScaleType DEF Most
    <2>2. round_up(Most(scale(v, pct), v + 1)) \in Nat
           /\ round_up(Most(scale(v, pct), v + 1)) >= Most(scale(v, pct), v + 1)
        BY <2>1, RoundUp
    <2>3. QED
        BY <2>1, <2>2
<1>4. \A k \in DOMAIN c : d[k] >= c[k]
    BY <1>1, <1>2
<1>5. \A k \in {"cpu", "mem"} : d[k] <= round_up(Most(scale(c[k], pct), c[k] + 1))
    BY <1>2, <1>3
<1>6. QED
    BY <1>4, <1>5 DEF Lifts

\* A climb, rounded, is a lift the policy allows.
LEMMA RoundedClimb ==
    ASSUME NEW v \in Nat, NEW to \in Nat, NEW pct \in Nat, v < to
    PROVE  /\ round_up(Climb(v, to, pct)) \in Nat
           /\ round_up(Climb(v, to, pct)) > v
           /\ round_up(Climb(v, to, pct)) <= round_up(Most(scale(v, pct), v + 1))
<1>1. /\ Climb(v, to, pct) \in Nat /\ Climb(v, to, pct) >= v + 1
      /\ Climb(v, to, pct) <= Most(scale(v, pct), v + 1)
    BY ClimbRises
<1>2. Most(scale(v, pct), v + 1) \in Nat
    BY ScaleType DEF Most
<1>3. /\ round_up(Climb(v, to, pct)) \in Nat /\ round_up(Climb(v, to, pct)) >= Climb(v, to, pct)
      /\ round_up(Climb(v, to, pct)) <= round_up(Most(scale(v, pct), v + 1))
    BY <1>1, <1>2, RoundUp
<1>4. QED
    BY <1>1, <1>3

\* A rung of memory keeps the limit over the request.
LEMMA MemoryLifts ==
    ASSUME NEW c \in Sizing, NEW ratio \in Nat, NEW to \in Nat, NEW pct \in Nat, c.mem < to
    PROVE  Lifts(c, WithMemory(c, ratio, Climb(c.mem, to, pct)), pct)
<1> DEFINE rung == Climb(c.mem, to, pct)
           req == round_up(rung)
           d == WithMemory(c, ratio, rung)
<1>1. c.mem \in Nat /\ c.lim \in Nat
    BY DEF Sizing
<1>2. req \in Nat /\ req > c.mem /\ req <= round_up(Most(scale(c.mem, pct), c.mem + 1))
    BY <1>1, RoundedClimb
<1> HIDE DEF rung, req
<1>3. round_up(scale(req, ratio)) \in Nat
    BY <1>2, ScaleType, RoundUp
<1> DEFINE lim == Most(Most(round_up(scale(req, ratio)), c.lim), req)
<1>4. lim \in Nat /\ lim >= c.lim /\ lim >= req
    BY <1>1, <1>2, <1>3 DEF Most
<1> HIDE DEF lim
<1>5. d = [c EXCEPT !.mem = req, !.lim = lim]
    BY DEF WithMemory, req, lim
<1> HIDE DEF d
<1>6. /\ d \in Sizing /\ d.mem = req /\ d.lim = lim /\ d.cpu = c.cpu /\ d.min = c.min /\ d.max = c.max
      /\ d.mem_pct = c.mem_pct /\ d.cpu_pct = c.cpu_pct
    BY <1>2, <1>4, <1>5 DEF Sizing
<1>7. /\ c.cpu \in Nat /\ c.min \in Nat /\ c.max \in Nat
    BY DEF Sizing
<1>8. QED
    <2>1. Lifts(c, d, pct)
        BY <1>1, <1>2, <1>4, <1>6, <1>7, LiftsFields
    <2>2. QED
        BY <2>1 DEF d, rung

\* What a raise asks for, unless it is refused: at least one rung, the first
\* of which is a lift the policy allows.
Rises(s, c, pct) ==
    \/ s.refused # {}
    \/ Len(s.rungs) \in Nat \ {0} /\ Lifts(c, s.rungs[1], pct)

LEMMA SizingsLift ==
    ASSUME NEW c \in Sizing, c.mem > 0, NEW raise \in Raise \X Nat,
           NEW policy \in [step : Nat, ratio : Nat, surge : Nat]
    PROVE  Rises(sizings(c, raise, policy), c, policy.step)
<1> DEFINE kind == raise[1]
           to == CASE kind \in {"MemoryRequest", "CpuRequest"} -> round_up(raise[2]) [] OTHER -> raise[2]
           from == CASE kind = "MemoryRequest" -> c.mem [] kind = "CpuRequest" -> c.cpu
                     [] kind = "MinReplicas" -> c.min [] kind = "MaxReplicas" -> c.max
           ratio == IF policy.ratio = 0 THEN (c.lim * 100) \div c.mem ELSE policy.ratio
           steps == ladder(from, to, policy.step)
           R(n) ==
             CASE kind = "MemoryRequest" -> WithMemory(c, ratio, n)
               [] kind = "CpuRequest"    -> [c EXCEPT !.cpu = round_up(n)]
               [] kind = "MinReplicas"   -> [c EXCEPT !.min = n]
           rungs == [i \in DOMAIN steps |-> R(steps[i])]
           s == sizings(c, raise, policy)
<1>1. s = IF to <= from THEN [refused |-> {"NotAnIncrease"}, rungs |-> <<>>]
          ELSE IF kind = "MinReplicas" /\ to > c.max THEN [refused |-> {"MinAboveMax"}, rungs |-> <<>>]
          ELSE IF kind = "MaxReplicas" THEN [refused |-> {}, rungs |-> <<[c EXCEPT !.max = to]>>]
          ELSE [refused |-> {}, rungs |-> rungs]
    BY Zenon DEF sizings
<1>2. /\ c.cpu \in Nat /\ c.mem \in Nat /\ c.lim \in Nat /\ c.min \in Nat /\ c.max \in Nat
      /\ kind \in Raise /\ raise[2] \in Nat /\ policy.step \in Nat /\ policy.ratio \in Nat
      /\ c.mem_pct \in Nat /\ c.cpu_pct \in Nat
    BY DEF Sizing
<1> SUFFICES Rises(s, c, policy.step)
    OBVIOUS
<1> HIDE DEF s, rungs
<1>3. /\ from \in Nat /\ to \in Nat
      /\ kind = "MemoryRequest" => from = c.mem
      /\ kind = "CpuRequest" => from = c.cpu
      /\ kind = "MinReplicas" => from = c.min
      /\ kind = "MaxReplicas" => from = c.max
    BY <1>2, RoundUp DEF Raise
<1> HIDE DEF to, from
<1>4. ratio \in Nat
    <2>1. c.lim * 100 \in Nat /\ c.mem \in Nat \ {0}
        BY <1>2
    <2>2. QED
        BY <1>2, <2>1, Quotient
<1>5. CASE to <= from
    BY <1>1, <1>5 DEF Rises
<1>6. CASE ~(to <= from) /\ kind = "MinReplicas" /\ to > c.max
    BY <1>1, <1>6 DEF Rises
<1>7. CASE ~(to <= from) /\ kind = "MaxReplicas"
    <2>1. s.rungs = <<[c EXCEPT !.max = to]>>
        BY <1>1, <1>7
    <2> DEFINE d == [c EXCEPT !.max = to]
    <2>2. from = c.max /\ c.max < to
        BY <1>3, <1>7
    <2>3. /\ d \in Sizing /\ d.max = to /\ d.cpu = c.cpu /\ d.mem = c.mem /\ d.lim = c.lim /\ d.min = c.min
          /\ d.mem_pct = c.mem_pct /\ d.cpu_pct = c.cpu_pct
        BY <1>3 DEF Sizing
    <2> HIDE DEF d
    <2>4. Lifts(c, d, policy.step)
        BY <1>2, <1>3, <2>2, <2>3, LiftsFields
    <2>5. Len(s.rungs) = 1 /\ s.rungs[1] = d
        BY <2>1 DEF d
    <2>6. QED
        BY <2>4, <2>5 DEF Rises
<1>8. CASE ~(to <= from) /\ kind # "MaxReplicas" /\ ~(kind = "MinReplicas" /\ to > c.max)
    <2>1. s.rungs = rungs
        BY <1>1, <1>8
    <2> DEFINE first == Climb(from, to, policy.step)
    <2>2. from < to
        BY <1>3, <1>8
    <2>3. PICK top \in Nat \ {0} : DOMAIN steps = 1..top /\ steps[1] = first
        <3>1. StartsWith(steps, first)
            <4>1. from \in Nat /\ to \in Nat /\ policy.step \in Nat
                BY <1>2, <1>3
            <4>2. QED
                BY <2>2, <4>1, LadderFirst
        <3>2. QED
            BY <3>1 DEF StartsWith
    <2> HIDE DEF steps
    <2>4. rungs = [i \in 1..top |-> R(steps[i])] /\ 1 \in 1..top
        BY <2>3 DEF rungs
    <2> HIDE DEF R
    <2>5. rungs[1] = R(first)
        BY <2>3, <2>4, Zenon
    <2>6. Len(rungs) = top
        <3>1. rungs = [i \in 1..top |-> rungs[i]]
            BY <2>4, Zenon
        <3>2. QED
            BY <3>1, LengthIs
    <2>7. CASE kind = "MemoryRequest"
        <3>1. R(first) = WithMemory(c, ratio, first) /\ from = c.mem
            BY <1>3, <2>7 DEF R
        <3> HIDE DEF ratio
        <3>2. QED
            BY <1>2, <1>3, <1>4, <2>1, <2>2, <2>5, <2>6, <3>1, MemoryLifts DEF Rises
    <2>8. CASE kind = "CpuRequest"
        <3> DEFINE d == [c EXCEPT !.cpu = round_up(first)]
        <3>1. R(first) = d /\ from = c.cpu
            BY <1>3, <2>8 DEF R
        <3>2. /\ round_up(first) \in Nat /\ round_up(first) > c.cpu
              /\ round_up(first) <= round_up(Most(scale(c.cpu, policy.step), c.cpu + 1))
            BY <1>2, <1>3, <2>2, <3>1, RoundedClimb
        <3> HIDE DEF first
        <3>3. /\ d \in Sizing /\ d.cpu = round_up(first) /\ d.mem = c.mem /\ d.lim = c.lim /\ d.min = c.min
              /\ d.max = c.max /\ d.mem_pct = c.mem_pct /\ d.cpu_pct = c.cpu_pct
            BY <3>2 DEF Sizing
        <3> HIDE DEF d
        <3>4. Lifts(c, d, policy.step)
            BY <1>2, <3>2, <3>3, LiftsFields
        <3>5. QED
            BY <2>1, <2>5, <2>6, <3>1, <3>4 DEF Rises
    <2>9. CASE kind = "MinReplicas"
        <3> DEFINE d == [c EXCEPT !.min = first]
        <3>1. R(first) = d /\ from = c.min
            BY <1>3, <2>9 DEF R
        <3>2. first \in Nat /\ first >= c.min
            BY <1>2, <1>3, <2>2, <3>1, ClimbRises
        <3> HIDE DEF first
        <3>3. /\ d \in Sizing /\ d.min = first /\ d.cpu = c.cpu /\ d.mem = c.mem /\ d.lim = c.lim
              /\ d.max = c.max /\ d.mem_pct = c.mem_pct /\ d.cpu_pct = c.cpu_pct
            BY <3>2 DEF Sizing
        <3> HIDE DEF d
        <3>4. Lifts(c, d, policy.step)
            BY <1>2, <3>2, <3>3, LiftsFields
        <3>5. QED
            BY <2>1, <2>5, <2>6, <3>1, <3>4 DEF Rises
    <2>10. QED
        BY <1>2, <1>8, <2>7, <2>8, <2>9 DEF Raise
<1>9. QED
    BY <1>5, <1>6, <1>7, <1>8

\* A plan that is refused, asks for a ceiling, or begins with the rung.
Begins(acc, rung) ==
    \/ acc.refused # {}
    \/ acc.first.kind = "PoolCeiling"
    \/ acc.first = [kind |-> "PodSizing", to |-> rung]

\* What a rung may make of the plan.
LEMMA RungMoves ==
    ASSUME NEW acc, NEW after
    PROVE  \/ acc.stop /\ Rung(acc, after) = acc
           \/ \E why : why # {} /\ Rung(acc, after) = Refuse(acc, why)
           \/ \E sh, want, why, step :
                /\ step.kind = "PoolCeiling" \/ step = [kind |-> "PodSizing", to |-> after]
                /\ Rung(acc, after) = Advance(acc, sh, after, want, why, step)
BY OnceIs, ZenonT(60) DEF Rung

\* A plan that is not begun yet.
Fresh(acc) == acc.first = [kind |-> "none"] /\ acc.stop = FALSE

\* The first rung begins the plan, and no later one takes that back.
LEMMA RungBegins ==
    ASSUME NEW acc, NEW after, NEW rung,
           Begins(acc, rung) \/ (Fresh(acc) /\ after = rung)
    PROVE  Begins(Rung(acc, after), rung)
<1> DEFINE next == Rung(acc, after)
<1> SUFFICES Begins(next, rung)
    OBVIOUS
<1>1. acc.first = [kind |-> "none"] => acc.first.kind = "none"
    OBVIOUS
<1>2. CASE acc.stop /\ next = acc
    <2>1. ~Fresh(acc)
        BY <1>2, Zenon DEF Fresh
    <2>2. QED
        BY <1>2, <2>1, Zenon
<1>3. ASSUME NEW why, why # {}, next = Refuse(acc, why)
      PROVE  Begins(next, rung)
    <2> HIDE DEF next
    <2>1. next.refused = acc.refused \cup why
        BY <1>3 DEF Refuse
    <2>2. QED
        BY <1>3, <2>1 DEF Begins
<1>4. ASSUME NEW room, NEW want, NEW why, NEW step,
             step.kind = "PoolCeiling" \/ step = [kind |-> "PodSizing", to |-> after],
             next = Advance(acc, room, after, want, why, step)
      PROVE  Begins(next, rung)
    <2> HIDE DEF next
    <2>1. /\ next.refused = acc.refused \cup why
          /\ next.first = IF acc.first.kind = "none" THEN step ELSE acc.first
        BY <1>4 DEF Advance
    <2>2. CASE acc.refused # {}
        BY <2>1, <2>2 DEF Begins
    <2>3. CASE acc.first.kind = "PoolCeiling" \/ acc.first = [kind |-> "PodSizing", to |-> rung]
        <3>1. acc.first.kind # "none"
            BY <2>3
        <3>2. QED
            BY <2>1, <2>3, <3>1 DEF Begins
    <2>4. CASE Fresh(acc) /\ after = rung
        BY <1>1, <1>4, <2>1, <2>4 DEF Begins, Fresh
    <2>5. QED
        BY <2>2, <2>3, <2>4 DEF Begins
<1>5. \/ acc.stop /\ next = acc
      \/ \E why : why # {} /\ next = Refuse(acc, why)
      \/ \E room, want, why, step :
           /\ step.kind = "PoolCeiling" \/ step = [kind |-> "PodSizing", to |-> after]
           /\ next = Advance(acc, room, after, want, why, step)
    BY RungMoves, Zenon
<1> HIDE DEF next
<1>6. CASE \E why : why # {} /\ next = Refuse(acc, why)
    BY <1>3, <1>6, Zenon
<1>7. CASE \E room, want, why, step :
             /\ step.kind = "PoolCeiling" \/ step = [kind |-> "PodSizing", to |-> after]
             /\ next = Advance(acc, room, after, want, why, step)
    BY <1>4, <1>7, Zenon
<1>8. QED
    BY <1>2, <1>5, <1>6, <1>7, Zenon

\* The plan, rung by rung.
Planned(f, start, rungs, N) == f = [n \in 0..N |-> IF n = 0 THEN start ELSE Rung(f[n - 1], rungs[n])]

\* There is such a plan.
LEMMA PlannedExists ==
    ASSUME NEW start, NEW rungs
    PROVE  \A N \in Nat : \E f : Planned(f, start, rungs, N)
<1> DEFINE T == {N \in Nat : \E f : Planned(f, start, rungs, N)}
<1>1. 0 \in T
    <2> DEFINE f == [n \in 0..0 |-> start]
    <2>1. \A n \in 0..0 : n = 0
        OBVIOUS
    <2>2. f = [n \in 0..0 |-> IF n = 0 THEN start ELSE Rung(f[n - 1], rungs[n])]
        BY <2>1, Zenon
    <2> HIDE DEF f
    <2>3. Planned(f, start, rungs, 0)
        BY <2>2, Zenon DEF Planned
    <2>4. QED
        BY <2>3
<1>2. ASSUME NEW N \in Nat, N \in T PROVE N + 1 \in T
    <2>1. PICK f : Planned(f, start, rungs, N)
        BY <1>2
    <2> DEFINE g == [n \in 0..N + 1 |-> IF n = 0 THEN start ELSE Rung(f[n - 1], rungs[n])]
    <2>2. \A n \in 0..N : n \in 0..N + 1
        OBVIOUS
    <2>3. \A n \in 0..N : f[n] = g[n]
        BY <2>1, <2>2, Zenon DEF Planned
    <2>4. \A n \in 0..N + 1 : n # 0 => n - 1 \in 0..N
        OBVIOUS
    <2>5. \A n \in 0..N + 1 : (IF n = 0 THEN start ELSE Rung(f[n - 1], rungs[n]))
                               = (IF n = 0 THEN start ELSE Rung(g[n - 1], rungs[n]))
        <3> HIDE DEF g
        <3>1. QED
            BY <2>3, <2>4, Zenon
    <2>6. g = [n \in 0..N + 1 |-> IF n = 0 THEN start ELSE Rung(g[n - 1], rungs[n])]
        BY <2>5, Zenon
    <2> HIDE DEF g
    <2>7. Planned(g, start, rungs, N + 1)
        BY <2>6, Zenon DEF Planned
    <2>8. QED
        BY <2>7
<1> HIDE DEF T
<1>3. \A N \in Nat : N \in T
    BY <1>1, <1>2, AllNaturals
<1>4. QED
    BY <1>3 DEF T

\* A plan of at least one rung begins with the first.
LEMMA PlannedBegins ==
    ASSUME NEW start, Fresh(start), NEW rungs, NEW N \in Nat \ {0},
           NEW f, Planned(f, start, rungs, N)
    PROVE  Begins(f[N], rungs[1])
<1>1. \A n \in 0..N : f[n] = IF n = 0 THEN start ELSE Rung(f[n - 1], rungs[n])
    BY Zenon DEF Planned
<1>2. f[0] = start /\ f[1] = Rung(start, rungs[1])
    <2>1. 0 \in 0..N /\ 1 \in 0..N /\ 1 # 0 /\ 1 - 1 = 0
        OBVIOUS
    <2>2. QED
        BY <1>1, <2>1, Zenon
<1>3. Begins(f[1], rungs[1])
    BY <1>2, RungBegins
<1> DEFINE T == {n \in Nat : n < N => Begins(f[n + 1], rungs[1])}
<1>4. 0 \in T
    BY <1>3
<1>5. ASSUME NEW n \in Nat, n \in T PROVE n + 1 \in T
    <2> SUFFICES ASSUME n + 1 < N PROVE Begins(f[(n + 1) + 1], rungs[1])
        OBVIOUS
    <2>1. Begins(f[n + 1], rungs[1])
        BY <1>5
    <2>2. (n + 1) + 1 \in 0..N /\ (n + 1) + 1 # 0 /\ ((n + 1) + 1) - 1 = n + 1
        OBVIOUS
    <2>3. f[(n + 1) + 1] = Rung(f[n + 1], rungs[(n + 1) + 1])
        BY <1>1, <2>2, Zenon
    <2>4. QED
        BY <2>1, <2>3, RungBegins
<1> HIDE DEF T
<1>6. \A n \in Nat : n \in T
    BY <1>4, <1>5, AllNaturals
<1>7. N - 1 \in Nat /\ N - 1 < N /\ (N - 1) + 1 = N
    OBVIOUS
<1>8. N - 1 \in T
    BY <1>6, <1>7
<1>9. QED
    <2>1. Begins(f[(N - 1) + 1], rungs[1])
        BY <1>7, <1>8 DEF T
    <2>2. QED
        BY <1>7, <2>1

\* A plan that is not refused asks for a ceiling, or for a sizing the policy
\* allows.
Proposes(p, c, pct) ==
    \/ p.refused # {}
    \/ p.first.kind = "PoolCeiling"
    \/ p.first.kind = "PodSizing" /\ Lifts(c, p.first.to, pct)

LEMMA PlanProposes ==
    ASSUME creq \in Requests, NEW c \in Sizing, c.mem > 0, NEW dump
    PROVE  Proposes(plan(c, dump), c, creq.policy.step)
<1> DEFINE pools == PoolsOf(dump)
           sh == Shadow(dump, pools)
           running == Total(dump.placed)
           single == IF running < 2 \/ c.min < 2 THEN {"SingleReplica"} ELSE {}
           s == sizings(c, creq.raise, creq.policy)
           start == [sh |-> sh, before |-> c, replicas |-> running, first |-> [kind |-> "none"],
                     refused |-> single, stop |-> FALSE]
           N == Len(s.rungs)
           done == CHOOSE f : Planned(f, start, s.rungs, N)
           end == done[N]
           p == plan(c, dump)
<1>1. p = IF s.refused # {} THEN [refused |-> single \cup s.refused, first |-> start.first]
          ELSE IF sh.slots = <<>> THEN [refused |-> single \cup {"NoSchedulableNodes"}, first |-> start.first]
          ELSE [refused |-> IF Panics(pools) THEN {"Panic"} ELSE end.refused, first |-> end.first]
    BY Zenon DEF plan, Planned
<1>2. Rises(s, c, creq.policy.step)
    <2>1. creq.raise \in Raise \X Nat /\ creq.policy \in [step : Nat, ratio : Nat, surge : Nat]
        BY CapacityAssumption
    <2>2. QED
        BY <2>1, SizingsLift
<1>3. Fresh(start)
    BY DEF Fresh
<1> SUFFICES Proposes(p, c, creq.policy.step)
    OBVIOUS
<1> HIDE DEF p, s, sh, single, start
<1>4. CASE s.refused # {}
    <2>1. p.refused = single \cup s.refused
        BY <1>1, <1>4
    <2>2. QED
        BY <1>4, <2>1 DEF Proposes
<1>5. CASE s.refused = {} /\ sh.slots = <<>>
    <2>1. p.refused = single \cup {"NoSchedulableNodes"}
        BY <1>1, <1>5
    <2>2. QED
        BY <2>1 DEF Proposes
<1>6. CASE s.refused = {} /\ sh.slots # <<>>
    <2>1. N \in Nat \ {0} /\ Lifts(c, s.rungs[1], creq.policy.step)
        BY <1>2, <1>6 DEF Rises
    <2> HIDE DEF N
    <2>2. Planned(done, start, s.rungs, N)
        BY <2>1, PlannedExists, Zenon
    <2> HIDE DEF done
    <2>3. Begins(end, s.rungs[1])
        BY <1>3, <2>1, <2>2, PlannedBegins
    <2> HIDE DEF end
    <2>4. p.refused = (IF Panics(pools) THEN {"Panic"} ELSE end.refused) /\ p.first = end.first
        BY <1>1, <1>6
    <2>5. CASE p.refused # {}
        BY <2>5 DEF Proposes
    <2>6. CASE p.refused = {}
        <3>1. end.refused = {}
            BY <2>4, <2>6
        <3>2. p.first.kind = "PoolCeiling" \/ p.first = [kind |-> "PodSizing", to |-> s.rungs[1]]
            BY <2>3, <2>4, <3>1 DEF Begins
        <3>3. QED
            BY <2>1, <3>2 DEF Proposes
    <2>7. QED
        BY <2>5, <2>6
<1>7. QED
    BY <1>4, <1>5, <1>6

\* The request does not change, and the file holds a sizing of at least one
\* unit of each resource: what the divisions of the plan rest on.
RaiseInv == creq \in Requests /\ cfile \in Sizing /\ cfile.mem > 0 /\ cmoves \in Nat

\* An answer that edits the file lifts it as the policy allows.
LEMMA AnswerLifts ==
    ASSUME RaiseInv, Answers
    PROVE  /\ creq' = creq /\ cmoves' = cmoves
           /\ \/ cfile' = cfile
              \/ Lifts(cfile, cfile', creq.policy.step)
<1> DEFINE p == plan(cfile, cdump)
<1>1. Proposes(p, cfile, creq.policy.step)
    BY PlanProposes DEF RaiseInv
<1>2. /\ creq' = creq /\ cmoves' = cmoves
      /\ IF p.refused # {} THEN canswer' = [kind |-> "refused", why |-> p.refused] /\ UNCHANGED cfile
         ELSE IF p.first.kind = "PoolCeiling" THEN canswer' = p.first /\ UNCHANGED cfile
         ELSE cfile' = p.first.to /\ canswer' = [kind |-> "PodSizing"]
    BY Zenon DEF Answers
<1> HIDE DEF p
<1>3. QED
    BY <1>1, <1>2, Zenon DEF Proposes

LEMMA RaiseInvHolds == CapacitySpec => []RaiseInv
<1>1. CapacityInit => RaiseInv
    BY CapacityAssumption DEF CapacityInit, RaiseInv
<1>2. RaiseInv /\ [CapacityNext]_capacity_vars => RaiseInv'
    <2> SUFFICES ASSUME RaiseInv, [CapacityNext]_capacity_vars PROVE RaiseInv'
        OBVIOUS
    <2>1. CASE Answers
        <3>1. CASE cfile' = cfile
            BY <2>1, <3>1, AnswerLifts DEF RaiseInv
        <3>2. CASE Lifts(cfile, cfile', creq.policy.step)
            <4>1. cfile' \in Sizing /\ cfile'.mem >= cfile.mem
                <5>1. "mem" \in DOMAIN cfile
                    BY DEF RaiseInv, Sizing
                <5>2. QED
                    BY <3>2, <5>1 DEF Lifts
            <4>2. cfile.mem \in Nat /\ cfile'.mem \in Nat
                BY <4>1 DEF RaiseInv, Sizing
            <4>3. QED
                BY <2>1, <4>1, <4>2, AnswerLifts DEF RaiseInv
        <3>3. QED
            BY <2>1, <3>1, <3>2, AnswerLifts
    <2>2. CASE FileReverted
        BY <2>2, CapacityAssumption DEF FileReverted, CapMove, RaiseInv
    <2>3. CASE Asks \/ Lands \/ Dumps \/ RollsOut \/ NodeJoins \/ Schedules \/ HpaMoves
        <3>1. creq' = creq /\ cfile' = cfile /\ (cmoves' = cmoves \/ CapMove)
            BY <2>3 DEF Asks, Lands, Dumps, RollsOut, NodeJoins, Schedules, HpaMoves
        <3>2. QED
            BY <3>1 DEF RaiseInv, CapMove
    <2>4. CASE UNCHANGED capacity_vars
        BY <2>4 DEF RaiseInv, capacity_vars
    <2>5. QED
        BY <2>1, <2>2, <2>3, <2>4 DEF CapacityNext
<1>3. QED
    BY <1>1, <1>2, PTL DEF CapacitySpec

\* Whatever the cluster, the declared pools and the age of the dump, and for
\* every policy and target, an edit of `next` lowers nothing, lifts a request
\* by no more than the policy's step and its rounding, and leaves the limit
\* above the request: the first rung of the ladder is the step taken.
THEOREM EditsAreBounded == CapacitySpec => EditsBounded
<1> DEFINE Edit == (cfile' # cfile /\ canswer'.kind = "PodSizing" /\ cmoves' = cmoves) =>
               /\ \A k \in DOMAIN cfile : cfile'[k] >= cfile[k]
               /\ \A k \in {"cpu", "mem"} : cfile'[k] <= round_up(Most(scale(cfile[k], creq.policy.step), cfile[k] + 1))
               /\ (cfile.lim >= cfile.mem => cfile'.lim >= cfile'.mem)
<1>1. RaiseInv /\ [CapacityNext]_capacity_vars => [Edit]_capacity_vars
    <2> SUFFICES ASSUME RaiseInv, CapacityNext, cfile' # cfile, cmoves' = cmoves
                 PROVE  Lifts(cfile, cfile', creq.policy.step)
        BY DEF Lifts
    <2>1. CASE Answers
        BY <2>1, AnswerLifts
    <2>2. CASE FileReverted \/ HpaMoves
        BY <2>2 DEF FileReverted, HpaMoves, CapMove, RaiseInv
    <2>3. CASE Asks \/ Lands \/ Dumps \/ RollsOut \/ NodeJoins \/ Schedules
        BY <2>3 DEF Asks, Lands, Dumps, RollsOut, NodeJoins, Schedules
    <2>4. QED
        BY <2>1, <2>2, <2>3 DEF CapacityNext
<1>2. QED
    BY <1>1, RaiseInvHolds, PTL DEF CapacitySpec, EditsBounded
=============================================================================
