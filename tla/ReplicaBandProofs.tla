-------------------------- MODULE ReplicaBandProofs --------------------------
(***************************************************************************)
(* Proofs about the horizontal band, for every configuration that          *)
(* validate_for_target accepts, every topology and whatever the cluster,   *)
(* the other scalers and the operator do around the loop.                  *)
(***************************************************************************)
EXTENDS ReplicaBand, TLAPS

-----------------------------------------------------------------------------
(***************************************************************************)
(* The law.                                                                *)
(***************************************************************************)
\* Rounded quotients are counts.
LEMMA Quotients ==
    ASSUME NEW a \in Nat, NEW b \in Nat, b > 0
    PROVE  DivUp(a, b) \in Nat /\ a \div b \in Nat
<1>1. a + b - 1 \in Nat
    OBVIOUS
<1>2. (a + b - 1) \div b \in Nat /\ a \div b \in Nat
    BY <1>1
<1>3. QED
    BY <1>2 DEF DivUp

\* What the law asks for before any bound is a count.
LEMMA RawIsCount ==
    ASSUME NEW c \in ReplicaBandConfig, c.target > 0, NEW current \in Nat, NEW value \in Nat,
           NEW per \in Nat \ {0}
    PROVE  desired_raw(c, current, value, per) \in Nat
<1>1. per * c.target \in Nat /\ per * c.target > 0
    <2>1. c.target \in Nat
        BY DEF ReplicaBandConfig
    <2>2. QED
        BY <2>1
<1>2. current * value \in Nat
    OBVIOUS
<1>3. DivUp(value, per * c.target) \in Nat /\ DivUp(current * value, per * c.target) \in Nat
    BY <1>1, <1>2, Quotients
<1>4. QED
    BY <1>3 DEF desired_raw, Lower, MAX_REPLICAS

\* Every step is at least one replica, out or in.
LEMMA StepsMove ==
    ASSUME NEW c \in ReplicaBandConfig, NEW current \in Nat
    PROVE  /\ UpStep(c, current) \in Nat \ {0}
           /\ DownStep(c, current) \in Nat \ {0}
<1>1. /\ c.max_scale_up_pods \in Nat /\ c.max_scale_up_pct \in Nat
      /\ c.max_scale_down_pods \in Nat /\ c.max_scale_down_pct \in Nat
    BY DEF ReplicaBandConfig
<1>2. current * c.max_scale_up_pct \in Nat /\ current * c.max_scale_down_pct \in Nat
    BY <1>1
<1>3. /\ (current * c.max_scale_up_pct) \div 100 \in Nat
      /\ (current * c.max_scale_down_pct) \div 100 \in Nat
    BY <1>2
<1>4. QED
    BY <1>1, <1>3 DEF UpStep, DownStep, Higher

\* The rungs: odd, at least three, and never more than one step away.
LEMMA Rungs ==
    ASSUME NEW n \in Nat
    PROVE  /\ at_least(n) \in Nat /\ at_least(n) % 2 = 1
           /\ at_least(n) >= 3 /\ at_least(n) >= n
           /\ at_most(n) \in Nat /\ at_most(n) % 2 = 1 /\ at_most(n) >= 3
           /\ n >= 3 => at_most(n) <= n /\ at_most(n) + 1 >= n
BY DEF at_least, at_most, Higher, MIN

\* The floors are counts, and a quorum's is a rung.
LEMMA Floors ==
    ASSUME NEW c \in ReplicaBandConfig
    PROVE  /\ effective_floor(c) \in Nat /\ topology_floor(c) \in Nat
           /\ c.topology = "NonPersistent" => topology_floor(c) = effective_floor(c)
           /\ c.topology = "FullyDistributed" =>
                topology_floor(c) % 2 = 1 /\ topology_floor(c) >= 3
<1>1. /\ c.floor \in Nat /\ c.ha_floor \in Nat \cup {None} /\ c.copies \in Nat
      /\ c.topology \in Topology
    BY DEF ReplicaBandConfig
<1>2. effective_floor(c) \in Nat
    BY <1>1 DEF effective_floor, Higher, None
<1>3. hard_floor(c) \in Nat /\ (c.topology = "NonPersistent" => hard_floor(c) = 0)
    BY <1>1 DEF hard_floor, Topology, MIN
<1> DEFINE base == Higher(effective_floor(c), hard_floor(c))
<1>4. base \in Nat /\ (hard_floor(c) = 0 => base = effective_floor(c))
    BY <1>2, <1>3 DEF Higher
<1> HIDE DEF base
<1>5. topology_floor(c) = IF c.topology = "FullyDistributed" THEN at_least(base) ELSE base
    BY DEF topology_floor, base
<1>6. QED
    BY <1>2, <1>3, <1>4, <1>5, Rungs

\* A snapshot of a usable signal.
Snapshot == [current : Nat, value : Nat, per : Nat \ {0}, window : {None}, reclaim : Nat]

\* What the law and the pin owe the workload: a decision about the count
\* there is, inside the topology's envelope when it moves it.
Enveloped(c, d) ==
    is_carve(d) =>
        /\ In(d) => d.to >= topology_floor(c)
        /\ ~In(d) => d.to <= Higher(c.ceiling, topology_floor(c))
        /\ c.topology = "FullyDistributed" => d.to % 2 = 1 /\ d.to >= MIN

\* The law keeps the data: only above the ceiling does it take a replica of
\* a persistent workload away, or more than leaves the majority.
Kept(c, d) ==
    In(d) /\ d.from <= c.ceiling =>
        /\ c.topology # "Persistent"
        /\ c.topology = "FullyDistributed" => 2 * d.to > d.from

\* The core law moves a count only inside the floor it is given and the
\* ceiling, and a reclaim takes nothing away from a count inside the ceiling.
LEMMA CoreSafe ==
    ASSUME NEW c \in ReplicaBandConfig, c.target > 0, NEW obs \in Snapshot, NEW floor \in Nat
    PROVE  LET d == decide_core(c, obs, floor)
           IN  /\ d \in ReplicaDecision /\ d.from = obs.current
               /\ is_carve(d) => /\ In(d) => d.to >= floor
                                 /\ ~In(d) => d.to <= Higher(c.ceiling, floor)
               /\ In(d) /\ d.from <= c.ceiling => d.kind = "ScaleDown"
<1> DEFINE current == obs.current
           ceiling == Higher(c.ceiling, floor)
           raw     == desired_raw(c, current, obs.value, obs.per)
           us      == UpStep(c, current)
           ds      == DownStep(c, current)
           out     == clamp(Higher(current + obs.reclaim, raw), floor, ceiling)
           up      == Lower(clamp(raw, floor, ceiling), current + us)
           down    == Higher(clamp(raw, floor, ceiling), Higher(current - ds, 0))
           d       == decide_core(c, obs, floor)
<1>1. /\ current \in Nat /\ obs.value \in Nat /\ obs.per \in Nat \ {0} /\ obs.window = None /\ obs.reclaim \in Nat
      /\ c.ceiling \in Nat
    BY DEF Snapshot, ReplicaBandConfig
<1>2. raw \in Nat /\ us \in Nat /\ ds \in Nat
    BY <1>1, RawIsCount, StepsMove
<1>3. d \in {ScaleTo("SpotScaleOut", current, out), ScaleTo("ScaleUp", current, up),
             ScaleTo("ScaleDown", current, down), Rest("AtCeiling", current),
             Rest("AtFloor", current), Rest("Hold", current)}
      /\ (d = ScaleTo("ScaleUp", current, up) /\ d.kind = "ScaleUp" => up > current)
      /\ (d = ScaleTo("ScaleDown", current, down) /\ d.kind = "ScaleDown" => down < current)
    BY <1>1 DEF decide_core, Stabilized, ScaleTo, Rest
<1> HIDE DEF raw, us, ds, d
<1>4. /\ ceiling \in Nat /\ ceiling >= c.ceiling /\ ceiling >= floor
      /\ out \in Nat /\ out >= floor /\ out <= ceiling
      /\ current <= c.ceiling => out >= current
      /\ up \in Nat /\ up <= ceiling
      /\ down \in Nat /\ down >= floor
    BY <1>1, <1>2 DEF Higher, Lower, clamp
<1> HIDE DEF out, up, down, ceiling
<1>5. CASE d = ScaleTo("SpotScaleOut", current, out)
    BY <1>1, <1>4, <1>5 DEF ScaleTo, ReplicaDecision, ReplicaDecisionKind, is_carve, In, ceiling, d
<1>6. CASE d = ScaleTo("ScaleUp", current, up)
    <2>1. up > current
        BY <1>3, <1>6 DEF ScaleTo
    <2>2. QED
        BY <1>1, <1>4, <1>6, <2>1 DEF ScaleTo, ReplicaDecision, ReplicaDecisionKind, is_carve, In, ceiling, d
<1>7. CASE d = ScaleTo("ScaleDown", current, down)
    <2>1. down < current
        BY <1>3, <1>7 DEF ScaleTo
    <2>2. QED
        BY <1>1, <1>4, <1>7, <2>1 DEF ScaleTo, ReplicaDecision, ReplicaDecisionKind, is_carve, In, d
<1>8. CASE d \in {Rest("AtCeiling", current), Rest("AtFloor", current), Rest("Hold", current)}
    BY <1>1, <1>8 DEF Rest, ScaleTo, ReplicaDecision, ReplicaDecisionKind, is_carve, In, d
<1>9. QED
    BY <1>3, <1>5, <1>6, <1>7, <1>8

\* The larger and the smaller of two counts are one of them, and so are odd
\* when both are.
LEMMA Bounds ==
    ASSUME NEW a \in Nat, NEW b \in Nat
    PROVE  /\ Higher(a, b) \in Nat /\ Higher(a, b) >= a /\ Higher(a, b) >= b
           /\ Lower(a, b) \in Nat /\ Lower(a, b) <= a /\ Lower(a, b) <= b
           /\ Higher(a, b) \in {a, b} /\ Lower(a, b) \in {a, b}
           /\ a % 2 = 1 /\ b % 2 = 1 => Higher(a, b) % 2 = 1 /\ Lower(a, b) % 2 = 1
BY DEF Higher, Lower

\* Clamping an odd count between odd bounds.
LEMMA ClampOdd ==
    ASSUME NEW v \in Nat, NEW lo \in Nat, NEW hi \in Nat, lo <= hi,
           v % 2 = 1, lo % 2 = 1, hi % 2 = 1
    PROVE  /\ clamp(v, lo, hi) \in Nat /\ clamp(v, lo, hi) % 2 = 1
           /\ clamp(v, lo, hi) >= lo /\ clamp(v, lo, hi) <= hi
           /\ clamp(v, lo, hi) >= v \/ clamp(v, lo, hi) = hi
<1>1. /\ Higher(v, lo) \in Nat /\ Higher(v, lo) >= v /\ Higher(v, lo) >= lo
      /\ Higher(v, lo) % 2 = 1
    BY Bounds
<1>2. QED
    BY <1>1, Bounds DEF clamp

\* The quorum law moves by rungs, and leaves the majority.
LEMMA QuorumSafe ==
    ASSUME NEW c \in ReplicaBandConfig, c.target > 0, c.topology = "FullyDistributed",
           NEW obs \in Snapshot
    PROVE  LET d == decide_quorum(c, obs)
           IN  d \in ReplicaDecision /\ d.from = obs.current /\ Enveloped(c, d) /\ Kept(c, d)
<1> DEFINE current == obs.current
           floor   == topology_floor(c)
           wall    == Higher(c.ceiling, floor)
           ceiling == Higher(at_most(wall), floor)
           raw     == desired_raw(c, current, obs.value, obs.per)
           want    == Higher(current + obs.reclaim, raw)
           aim     == clamp(raw, floor, ceiling)
           out     == Higher(Lower(at_least(want), ceiling), floor)
           up      == clamp(Lower(Lower(at_least(aim), ceiling), step_up(current)),
                            floor, ceiling)
           down    == clamp(Higher(Higher(at_most(aim), floor), step_down(current)),
                            floor, ceiling)
           d       == decide_quorum(c, obs)
<1>1. /\ current \in Nat /\ obs.value \in Nat /\ obs.per \in Nat \ {0} /\ obs.window = None /\ obs.reclaim \in Nat
      /\ c.ceiling \in Nat
    BY DEF Snapshot, ReplicaBandConfig
<1>2. raw \in Nat
    BY <1>1, RawIsCount
<1>3. d \in {ScaleTo("SpotScaleOut", current, out), ScaleTo("ScaleUp", current, up),
             ScaleTo("ScaleDown", current, down), Rest("AtCeiling", current),
             Rest("AtFloor", current), Rest("Hold", current)}
      /\ (d = ScaleTo("ScaleUp", current, up) => up > current)
    BY <1>1 DEF decide_quorum, Stabilized, ScaleTo, Rest
<1> HIDE DEF raw, d
<1>4. floor \in Nat /\ floor % 2 = 1 /\ floor >= 3
    BY Floors
<1> HIDE DEF floor
<1>5. wall \in Nat /\ wall >= floor /\ wall >= c.ceiling /\ wall >= 3
    BY <1>1, <1>4 DEF Higher
<1> HIDE DEF wall
<1>6. /\ ceiling \in Nat /\ ceiling % 2 = 1 /\ ceiling >= floor
      /\ ceiling <= wall /\ ceiling + 1 >= wall
    <2>1. /\ at_most(wall) \in Nat /\ at_most(wall) % 2 = 1
          /\ at_most(wall) <= wall /\ at_most(wall) + 1 >= wall
        BY <1>5, Rungs
    <2> HIDE DEF wall, floor
    <2> DEFINE m == at_most(wall)
    <2>2. ceiling = Higher(m, floor)
        OBVIOUS
    <2> HIDE DEF m, ceiling
    <2>3. ceiling \in Nat /\ ceiling % 2 = 1 /\ ceiling >= m /\ ceiling >= floor
          /\ ceiling \in {m, floor}
        BY <1>4, <2>1, <2>2, Bounds DEF m
    <2>4. QED
        BY <1>4, <1>5, <2>1, <2>3 DEF m
<1> HIDE DEF ceiling
<1>7. /\ want \in Nat /\ want >= current
      /\ aim \in Nat
    BY <1>1, <1>2, <1>4, <1>6 DEF Higher, Lower, clamp
<1> HIDE DEF want, aim
<1>8. /\ step_up(current) \in Nat /\ step_up(current) % 2 = 1
      /\ step_down(current) \in Nat /\ step_down(current) % 2 = 1
      /\ step_down(current) >= 3 /\ step_down(current) + 2 >= current
    BY <1>1 DEF step_up, step_down, at_least, Higher, MIN
<1>9. /\ out \in Nat /\ out % 2 = 1 /\ out >= floor /\ out <= ceiling
      /\ current <= ceiling + 1 => out + 1 >= current
    <2> DEFINE rung == at_least(want)
    <2>1. rung \in Nat /\ rung % 2 = 1 /\ rung >= current
        BY <1>1, <1>7, Rungs
    <2> HIDE DEF rung
    <2>2. /\ Lower(rung, ceiling) \in Nat /\ Lower(rung, ceiling) % 2 = 1
          /\ Lower(rung, ceiling) <= ceiling /\ Lower(rung, ceiling) \in {rung, ceiling}
        BY <1>6, <2>1, Bounds
    <2>3. out = Higher(Lower(rung, ceiling), floor)
        BY DEF rung
    <2> DEFINE s == Lower(rung, ceiling)
    <2> HIDE DEF s, out
    <2>4. out \in Nat /\ out % 2 = 1 /\ out >= s /\ out >= floor /\ out \in {s, floor}
        BY <1>4, <2>2, <2>3, Bounds DEF s
    <2>5. QED
        BY <1>1, <1>4, <1>6, <2>1, <2>2, <2>4 DEF s
<1>10. /\ up \in Nat /\ up % 2 = 1 /\ up >= floor /\ up <= ceiling
    <2> DEFINE rung == at_least(aim)
               v    == Lower(Lower(rung, ceiling), step_up(current))
    <2>1. rung \in Nat /\ rung % 2 = 1
        BY <1>7, Rungs
    <2> HIDE DEF rung
    <2>2. v \in Nat /\ v % 2 = 1
        BY <1>6, <1>8, <2>1, Bounds
    <2>3. up = clamp(v, floor, ceiling)
        BY DEF rung
    <2> HIDE DEF v, up
    <2>4. QED
        BY <1>4, <1>6, <2>2, <2>3, ClampOdd
<1>11. /\ down \in Nat /\ down % 2 = 1 /\ down >= floor /\ down <= ceiling
       /\ current <= ceiling + 1 => down + 2 >= current
    <2> DEFINE rung == at_most(aim)
               w    == Higher(rung, floor)
               v    == Higher(w, step_down(current))
    <2>1. rung \in Nat /\ rung % 2 = 1
        BY <1>7, Rungs
    <2> HIDE DEF rung
    <2>2. w \in Nat /\ w % 2 = 1
        BY <1>4, <2>1, Bounds
    <2> HIDE DEF w
    <2>3. v \in Nat /\ v % 2 = 1 /\ v >= step_down(current)
        BY <1>8, <2>2, Bounds
    <2>4. down = clamp(v, floor, ceiling)
        BY DEF rung, w
    <2> HIDE DEF v, down
    <2>5. /\ down \in Nat /\ down % 2 = 1 /\ down >= floor /\ down <= ceiling
          /\ down >= v \/ down = ceiling
        BY <1>4, <1>6, <2>3, <2>4, ClampOdd
    <2>6. QED
        BY <1>1, <1>4, <1>6, <1>8, <2>3, <2>5
<1>12. c.topology # "Persistent"
    OBVIOUS
<1> HIDE DEF out, up, down
<1>13. ASSUME NEW kind \in ReplicaDecisionKind, NEW to \in Nat, to % 2 = 1, to >= floor, to <= ceiling,
              current <= ceiling + 1 => (to + 2 >= current \/ to >= current),
              d = ScaleTo(kind, current, to)
       PROVE  d \in ReplicaDecision /\ d.from = current /\ Enveloped(c, d) /\ Kept(c, d)
    <2>1. d \in ReplicaDecision /\ d.from = current /\ d.to = to
        BY <1>1, <1>13 DEF ScaleTo, ReplicaDecision
    <2>2. Enveloped(c, d)
        BY <1>1, <1>4, <1>5, <1>6, <1>13, <2>1 DEF Enveloped, In, MIN, wall, floor
    <2>3. Kept(c, d)
        BY <1>1, <1>4, <1>5, <1>6, <1>12, <1>13, <2>1 DEF Kept, In
    <2>4. QED
        BY <2>1, <2>2, <2>3
<1>14. CASE d \in {Rest("AtCeiling", current), Rest("AtFloor", current), Rest("Hold", current)}
    BY <1>1, <1>14 DEF Rest, ScaleTo, ReplicaDecision, ReplicaDecisionKind, Enveloped, Kept, is_carve, In, d
<1>15. CASE d = ScaleTo("SpotScaleOut", current, out)
    BY <1>1, <1>9, <1>13, <1>15 DEF ReplicaDecisionKind, d
<1>16. CASE d = ScaleTo("ScaleUp", current, up)
    BY <1>1, <1>3, <1>10, <1>13, <1>16 DEF ReplicaDecisionKind, d
<1>17. CASE d = ScaleTo("ScaleDown", current, down)
    BY <1>11, <1>13, <1>17 DEF ReplicaDecisionKind, d
<1>18. QED
    BY <1>3, <1>14, <1>15, <1>16, <1>17

\* Whatever the topology, the law stays in its envelope and keeps the data.
LEMMA LawSafe ==
    ASSUME NEW c \in ReplicaBandConfig, c.target > 0, NEW obs \in Snapshot
    PROVE  LET d == decide_replicas(c, obs)
           IN  d \in ReplicaDecision /\ Enveloped(c, d) /\ Kept(c, d)
<1> DEFINE d == decide_replicas(c, obs)
<1>1. c.topology \in Topology
    BY DEF ReplicaBandConfig
<1>2. CASE c.topology = "FullyDistributed"
    <2>1. d = decide_quorum(c, obs)
        BY <1>2 DEF decide_replicas
    <2>2. QED
        BY <1>2, <2>1, QuorumSafe
<1>3. CASE c.topology # "FullyDistributed"
    <2> DEFINE floor == topology_floor(c)
               e     == decide_core(c, obs, floor)
    <2>1. floor \in Nat
        BY Floors
    <2>2. /\ e \in ReplicaDecision /\ e.from = obs.current
          /\ is_carve(e) => /\ In(e) => e.to >= floor
                            /\ ~In(e) => e.to <= Higher(c.ceiling, floor)
          /\ In(e) /\ e.from <= c.ceiling => e.kind = "ScaleDown"
        BY <2>1, CoreSafe
    <2> HIDE DEF e
    <2>3. CASE c.topology = "Persistent"
        <3>1. d = IF e.kind = "ScaleDown" THEN Rest("HeldForRebalance", e.from) ELSE e
            BY <2>3 DEF decide_replicas, e
        <3>2. CASE e.kind = "ScaleDown"
            BY <2>2, <3>1, <3>2 DEF Rest, ScaleTo, ReplicaDecision, ReplicaDecisionKind, Enveloped, Kept,
                                    is_carve, In
        <3>3. CASE e.kind # "ScaleDown"
            BY <1>3, <2>2, <3>1, <3>3 DEF Enveloped, Kept
        <3>4. QED
            BY <3>2, <3>3
    <2>4. CASE c.topology # "Persistent"
        <3>1. d = e
            BY <1>1, <1>3, <2>4, Floors DEF decide_replicas, Topology, e
        <3>2. QED
            BY <1>3, <2>2, <2>4, <3>1 DEF Enveloped, Kept
    <2>5. QED
        BY <2>3, <2>4
<1>4. QED
    BY <1>2, <1>3

\* A pin stays in the envelope too.
LEMMA PinSafe ==
    ASSUME NEW c \in ReplicaBandConfig, NEW current \in Nat, NEW pin \in Nat
    PROVE  LET d == ForcedDecision(c, current, pin)
           IN  d \in ReplicaDecision /\ Enveloped(c, d)
<1> DEFINE floor   == topology_floor(c)
           ceiling == Higher(c.ceiling, floor)
           held    == clamp(pin, floor, ceiling)
           to      == quantize_target(c, held, floor, ceiling)
           d       == ForcedDecision(c, current, pin)
<1>1. floor \in Nat /\ c.ceiling \in Nat
    BY Floors DEF ReplicaBandConfig
<1>2. d = ScaleTo(IF to > current THEN "ScaleUp" ELSE IF to < current THEN "ScaleDown" ELSE "Hold",
                current, to)
    BY DEF ForcedDecision
<1> HIDE DEF floor, d
<1>3. ceiling \in Nat /\ ceiling >= floor
    BY <1>1, Bounds
<1> HIDE DEF ceiling
<1>4. held \in Nat /\ held >= floor /\ held <= ceiling
    BY <1>1, <1>3 DEF clamp, Higher, Lower
<1> HIDE DEF held
<1>5. /\ to \in Nat /\ to >= floor /\ to <= ceiling
      /\ c.topology = "FullyDistributed" => to % 2 = 1 /\ to >= 3
    <2>1. CASE c.topology = "FullyDistributed"
        <3> DEFINE up  == at_least(held)
                   cap == at_most(ceiling)
                   s   == Lower(up, cap)
        <3>1. floor % 2 = 1 /\ floor >= 3
            BY <2>1, Floors DEF floor
        <3>2. up \in Nat /\ up % 2 = 1
            BY <1>4, Rungs
        <3>3. cap \in Nat /\ cap % 2 = 1 /\ cap <= ceiling
            <4>1. ceiling >= 3
                BY <1>1, <1>3, <3>1
            <4>2. QED
                BY <1>3, <4>1, Rungs
        <3>4. to = Higher(s, floor)
            BY <2>1 DEF quantize_target
        <3> HIDE DEF up, cap, to
        <3>5. s \in Nat /\ s % 2 = 1 /\ s <= cap
            BY <3>2, <3>3, Bounds
        <3> HIDE DEF s
        <3>6. to \in Nat /\ to % 2 = 1 /\ to >= floor /\ to \in {s, floor}
            BY <1>1, <3>1, <3>4, <3>5, Bounds
        <3>7. QED
            BY <1>1, <1>3, <3>1, <3>3, <3>5, <3>6
    <2>2. CASE c.topology # "FullyDistributed"
        BY <1>4, <2>2 DEF quantize_target
    <2>3. QED
        BY <2>1, <2>2
<1> HIDE DEF to
<1>6. d.from = current /\ d.to = to /\ d \in ReplicaDecision
    BY <1>2, <1>5 DEF ScaleTo, ReplicaDecision, ReplicaDecisionKind
<1>7. Enveloped(c, d)
    BY <1>1, <1>3, <1>5, <1>6 DEF Enveloped, In, MIN, ceiling, floor
<1>8. QED
    BY <1>6, <1>7 DEF d

-----------------------------------------------------------------------------
(***************************************************************************)
(* The loop.                                                               *)
(***************************************************************************)
JobType == [decision : ReplicaDecision, forced : BOOLEAN, cfg : band.cfgs, receipt : Receipt]

SpecType == [cfg : band.cfgs, live : BOOLEAN, suspended : BOOLEAN, force : Pins \cup {None}]

\* The carve a tick is about to write is what the law or the pin guaranteed
\* when it decided, about the configuration it decided with: both may have
\* changed since, the count too.
JobSafe ==
    pc = "assign" => /\ is_carve(job.decision)
                     /\ Enveloped(job.cfg, job.decision)
                     /\ ~job.forced => Kept(job.cfg, job.decision)

IInv == TypeOK /\ JobSafe

\* A configuration the operator may give is one of the code's.
LEMMA ConfigType ==
    ASSUME TypeOK, NEW c \in band.cfgs
    PROVE  c \in ReplicaBandConfig
BY ReplicaBandAssumption DEF TypeOK, Band

\* The tick at rest is a job.
LEMMA NoJobType ==
    ASSUME NEW c \in band.cfgs
    PROVE  NoJob(c) \in JobType
BY DEF NoJob, JobType, Rest, ScaleTo, ReplicaDecision, ReplicaDecisionKind, Receipt

SampleType == [value : Nat \cup {None, Bad}, per : Nat \ {0}, at : Nat]

\* A query on the workload's work reads a sample.
LEMMA ReadingType ==
    ASSUME NEW total \in Nat, NEW count \in Nat, NEW at \in Nat
    PROVE  Reading(total, count, at) \in SampleType
<1>1. Spread(count) \in Nat \ {0}
    BY DEF Spread, Higher
<1>2. QED
    BY <1>1 DEF Reading, SampleType

\* It holds at the start.
LEMMA InitIInv == Init => IInv
<1> SUFFICES ASSUME Init PROVE IInv
    OBVIOUS
<1>1. band \in Bands /\ band.start \subseteq Nat /\ Loads \subseteq Nat
    BY ReplicaBandAssumption DEF Init, Band
<1>2. PICK c \in band.cfgs :
        /\ spec = [cfg |-> c, live |-> TRUE, suspended |-> FALSE, force |-> None]
        /\ job = NoJob(c)
    BY DEF Init
<1>3. load \in Nat /\ replicas \in Nat
    BY <1>1 DEF Init
<1>4. sample \in SampleType
    BY <1>3, ReadingType DEF Init
<1>5. job \in JobType /\ spec \in SpecType
    BY <1>2, NoJobType DEF SpecType
<1>6. TypeOK
    BY <1>1, <1>3, <1>4, <1>5 DEF Init, TypeOK, JobType, SpecType, SampleType
<1>7. QED
    BY <1>6 DEF IInv, JobSafe, Init

\* The gate lets through what it was given, and nothing that does not move.
LEMMA GateSafe ==
    ASSUME TypeOK, NEW d \in ReplicaDecision, NEW forced \in BOOLEAN, Gate(d, forced)
    PROVE  /\ pc' \in {"assign", "patch"}
           /\ job' \in JobType
           /\ job'.decision = d /\ job'.cfg = spec.cfg /\ job'.forced = forced
           /\ pc' = "assign" => is_carve(d)
<1> DEFINE deferred == d.kind = "ScaleDown" /\ is_carve(d) /\ ~band.shed
                       /\ spec.live /\ ~in_cooldown
           actuate  == is_carve(d) /\ spec.live /\ ~in_cooldown /\ ~deferred
           receipt  == IF actuate THEN "Applied" ELSE Withheld(d, deferred)
<1>1. receipt \in Receipt
    BY DEF Withheld, Receipt
<1>2. /\ pc' = IF actuate THEN "assign" ELSE "patch"
      /\ job' = [decision |-> d, forced |-> forced, cfg |-> spec.cfg, receipt |-> receipt]
    BY DEF Gate
<1> HIDE DEF receipt
<1>3. spec.cfg \in band.cfgs
    BY DEF TypeOK
<1>4. job' \in JobType
    BY <1>1, <1>2, <1>3 DEF JobType
<1>5. QED
    BY <1>2, <1>4

\* Observing and planning leaves a safe job.
LEMMA ObserveIInv == IInv /\ Observe => IInv'
<1> SUFFICES ASSUME IInv, Observe PROVE IInv'
    OBVIOUS
<1>1. TypeOK
    BY DEF IInv
<1>2. UNCHANGED <<band, now, load, sample, reclaim, replicas, owner, spec, last_change, moved>>
    BY DEF Observe, cluster
<1>3. spec.cfg \in band.cfgs /\ spec.cfg \in ReplicaBandConfig
    BY <1>1, ConfigType DEF TypeOK
<1>4. ASSUME job' \in JobType, pc' \in {"assign", "patch"}, JobSafe'
      PROVE  IInv'
    BY <1>1, <1>2, <1>4 DEF IInv, TypeOK, JobType
<1>5. ASSUME NEW r \in Receipt, Report(r)
      PROVE  IInv'
    <2>1. pc' = "patch" /\ job' \in JobType
        BY <1>3, <1>5, NoJobType DEF Report, JobType
    <2>2. QED
        BY <1>4, <2>1 DEF JobSafe
<1>6. ASSUME NEW d \in ReplicaDecision, NEW forced \in BOOLEAN, Gate(d, forced),
             Enveloped(spec.cfg, d), ~forced => Kept(spec.cfg, d)
      PROVE  IInv'
    <2>1. /\ pc' \in {"assign", "patch"}
          /\ job' \in JobType
          /\ job'.decision = d /\ job'.cfg = spec.cfg /\ job'.forced = forced
          /\ pc' = "assign" => is_carve(d)
        BY <1>1, <1>6, GateSafe
    <2>2. JobSafe'
        BY <1>6, <2>1 DEF JobSafe
    <2>3. QED
        BY <1>4, <2>1, <2>2
<1>7. CASE ObserveFails
    BY <1>5, <1>7 DEF ObserveFails, Receipt
<1>8. CASE ObserveStale
    BY <1>5, <1>8 DEF ObserveStale, Receipt
<1>9. CASE ObserveForced
    <2>1. spec.force \in Nat /\ replicas \in Nat
        BY <1>1, <1>9, ReplicaBandAssumption DEF ObserveForced, TypeOK
    <2>2. Gate(ForcedDecision(spec.cfg, replicas, spec.force), TRUE)
        BY <1>9 DEF ObserveForced
    <2>3. QED
        BY <1>3, <1>6, <2>1, <2>2, PinSafe
<1>10. CASE ObservePlan
    <2>1. CASE sample.value = Bad
        BY <1>5, <1>10, <2>1 DEF ObservePlan, Receipt
    <2>2. CASE sample.value # Bad
        <3>1. observation \in Snapshot
            BY <1>1, <1>10, <2>2 DEF ObservePlan, Observes, TypeOK, observation, Snapshot
        <3>2. spec.cfg.target > 0
            BY <1>10 DEF ObservePlan, Observes, validate_for_target, validate_config
        <3>3. Gate(decide_replicas(spec.cfg, observation), FALSE)
            BY <1>10, <2>2 DEF ObservePlan
        <3>4. QED
            BY <1>3, <1>6, <3>1, <3>2, <3>3, LawSafe
    <2>3. QED
        BY <2>1, <2>2
<1>11. QED
    BY <1>7, <1>8, <1>9, <1>10 DEF Observe

\* Once the write has landed or failed there is nothing left to write.
LEMMA AssignIInv == IInv /\ Assign => IInv'
<1> SUFFICES ASSUME IInv, Assign PROVE IInv'
    OBVIOUS
<1>1. TypeOK
    BY DEF IInv
<1>2. pc' = "patch" /\ UNCHANGED <<band, now, load, sample, reclaim, spec, last_change>>
    BY DEF Assign
<1>3. job.decision.to \in Nat /\ job \in JobType
    BY <1>1 DEF TypeOK, JobType, ReplicaDecision
<1>4. /\ job' \in JobType /\ replicas' \in Nat
      /\ owner' \in {"none", "breathe", "other"}
      /\ moved' \in {"none", "up", "down", "dirty"}
    <2>1. CASE AssignLands
        BY <1>1, <1>2, <1>3, <2>1 DEF AssignLands, TypeOK, Direction, JobType
    <2>2. CASE AssignFails
        BY <1>1, <1>2, <1>3, <2>2 DEF AssignFails, TypeOK, JobType, Receipt
    <2>3. QED
        BY <2>1, <2>2 DEF Assign
<1>5. QED
    BY <1>1, <1>2, <1>4 DEF IInv, TypeOK, JobSafe, JobType

\* The end of a tick leaves nothing to write either.
LEMMA PatchIInv == IInv /\ (PatchStatus \/ TickLost) => IInv'
<1> SUFFICES ASSUME IInv, PatchStatus \/ TickLost PROVE IInv'
    OBVIOUS
<1>1. TypeOK
    BY DEF IInv
<1>2. /\ UNCHANGED <<band, now, load, sample, reclaim, replicas, owner, spec>>
      /\ pc' = "idle" /\ job' = NoJob(spec.cfg) /\ Settled
      /\ last_change' \in {last_change, now}
    BY DEF PatchStatus, TickLost, cluster
<1>3. job' \in JobType /\ JobType' = JobType
    BY <1>1, <1>2, NoJobType DEF TypeOK, JobType
<1>4. last_change' \in Nat \cup {None} /\ moved' \in {"none", "up", "down", "dirty"}
    BY <1>1, <1>2 DEF TypeOK, Settled
<1>5. QED
    BY <1>1, <1>2, <1>3, <1>4 DEF IInv, TypeOK, JobSafe, JobType

\* The cluster and the operator do not touch the tick in progress.
LEMMA ClusterIInv ==
    ASSUME IInv, Tick \/ Scrape \/ LoadMoves \/ ReclaimMoves \/ OtherScaler \/ Operator
    PROVE  IInv'
<1>1. TypeOK
    BY DEF IInv
<1>2. UNCHANGED <<band, last_change, pc, job>>
    BY DEF Tick, Scrape, LoadMoves, ReclaimMoves, OtherScaler, Operator
<1>3. JobSafe'
    BY <1>2 DEF IInv, JobSafe
<1>4. moved' \in {"none", "up", "down", "dirty"}
    BY <1>1 DEF Tick, Scrape, LoadMoves, ReclaimMoves, OtherScaler, Operator, Disturbs, TypeOK
<1>5. Loads \subseteq Nat /\ Reclaims \subseteq Nat /\ OtherCounts \subseteq Nat
    BY ReplicaBandAssumption
<1>6. TypeOK'
    <2>1. CASE Tick
        BY <1>1, <1>2, <1>4, <2>1 DEF Tick, TypeOK, cluster
    <2>2. CASE Scrape
        <3>1. Reading(load, replicas, now) \in SampleType
            BY <1>1, ReadingType DEF TypeOK
        <3>2. sample' \in SampleType
            BY <1>1, <2>2, <3>1 DEF Scrape, TypeOK, SampleType
        <3>3. QED
            BY <1>1, <1>2, <1>4, <2>2, <3>2 DEF Scrape, TypeOK, SampleType
    <2>3. CASE LoadMoves
        <3>1. load' \in Nat
            BY <1>5, <2>3 DEF LoadMoves
        <3>2. Reading(load', replicas, now) \in SampleType
            BY <1>1, <3>1, ReadingType DEF TypeOK
        <3>3. sample' \in SampleType
            BY <1>1, <2>3, <3>2 DEF LoadMoves, TypeOK, SampleType
        <3>4. QED
            BY <1>1, <1>2, <1>4, <2>3, <3>1, <3>3 DEF LoadMoves, TypeOK, SampleType
    <2>4. CASE ReclaimMoves
        <3>1. reclaim' \in Nat
            BY <1>5, <2>4 DEF ReclaimMoves
        <3>2. QED
            BY <1>1, <1>2, <1>4, <2>4, <3>1 DEF ReclaimMoves, TypeOK
    <2>5. CASE OtherScaler
        BY <1>1, <1>2, <1>4, <1>5, <2>5 DEF OtherScaler, TypeOK
    <2>6. CASE Operator
        <3>1. spec' \in SpecType
            BY <1>1, <2>6 DEF Operator, TypeOK, SpecType
        <3>2. QED
            BY <1>1, <1>2, <1>4, <2>6, <3>1 DEF Operator, TypeOK, SpecType, cluster
    <2>7. QED
        BY <2>1, <2>2, <2>3, <2>4, <2>5, <2>6
<1>7. QED
    BY <1>3, <1>6 DEF IInv

\* Every step preserves it.
LEMMA NextIInv == IInv /\ [Next]_vars => IInv'
<1> SUFFICES ASSUME IInv, [Next]_vars PROVE IInv'
    OBVIOUS
<1>1. CASE Controller
    BY <1>1, ObserveIInv, AssignIInv, PatchIInv DEF Controller
<1>2. CASE Environment
    BY <1>2, ClusterIInv, PatchIInv DEF Environment
<1>3. CASE UNCHANGED vars
    BY <1>3 DEF vars, cluster, IInv, TypeOK, JobSafe
<1>4. QED
    BY <1>1, <1>2, <1>3 DEF Next

\* The invariant of the horizontal loop.
LEMMA IInvHolds == Spec => []IInv
BY InitIInv, NextIInv, PTL DEF Spec

-----------------------------------------------------------------------------
(***************************************************************************)
(* The law does not undo its own carves.                                   *)
(***************************************************************************)
\* A rounded-up quotient is the least multiplier that covers the dividend.
LEMMA DivUpCovers ==
    ASSUME NEW a \in Nat, NEW b \in Nat \ {0}
    PROVE  /\ DivUp(a, b) \in Nat
           /\ DivUp(a, b) * b >= a /\ DivUp(a, b) * b < a + b
<1> DEFINE m == a + b - 1
           q == m \div b
<1>1. m \in Nat
    OBVIOUS
<1> HIDE DEF m
<1>2. q \in Nat /\ m % b \in 0..b - 1 /\ m = b * q + (m % b)
    BY <1>1
<1>3. b * q = q * b
    BY <1>2
<1> HIDE DEF q
<1>4. q * b >= a /\ q * b < a + b
    BY <1>2, <1>3 DEF m
<1>5. QED
    BY <1>2, <1>4 DEF DivUp, q, m

\* It is the only one.
LEMMA DivUpUnique ==
    ASSUME NEW a \in Nat, NEW b \in Nat \ {0}, NEW q \in Nat, q * b >= a, q * b < a + b
    PROVE  DivUp(a, b) = q
<1> DEFINE r == a + b - 1 - q * b
<1>1. q * b \in Nat
    OBVIOUS
<1>2. r \in 0..b - 1 /\ a + b - 1 = b * q + r
    BY <1>1
<1> HIDE DEF r
<1>3. \A x, y \in Int :
        y \in 0..b - 1 /\ a + b - 1 = b * x + y => x = (a + b - 1) \div b
    OBVIOUS
<1>4. QED
    BY <1>2, <1>3 DEF DivUp

\* So the count a total asks for is the one its share per replica asks for.
LEMMA DivUpScales ==
    ASSUME NEW a \in Nat, NEW b \in Nat \ {0}, NEW n \in Nat \ {0}
    PROVE  DivUp(n * a, n * b) = DivUp(a, b)
<1> DEFINE q == DivUp(a, b)
           z == q * b
<1>1. q \in Nat /\ z >= a /\ z < a + b
    BY DivUpCovers
<1> HIDE DEF q
<1>2. n * a \in Nat /\ n * b \in Nat \ {0} /\ z \in Nat
    BY <1>1
<1>3. n * z = q * (n * b) /\ n * (a + b) = n * a + n * b
    BY <1>1
<1> HIDE DEF z
<1>4. n * z >= n * a /\ n * z < n * (a + b)
    BY <1>1, <1>2
<1>5. QED
    BY <1>1, <1>2, <1>3, <1>4, DivUpUnique DEF q

\* Where the law heads, wherever it starts: so many replicas do the work at
\* the target; a reclaim heads for the ceiling.
Goal(c, work) == Lower(MAX_REPLICAS, DivUp(work, c.target))

Aim(c, work, doomed) ==
    LET floor   == topology_floor(c)
        ceiling == Higher(c.ceiling, floor)
    IN IF doomed > 0 THEN ceiling ELSE clamp(Goal(c, work), floor, ceiling)

\* What a signal that is up to date shows of the work.
Exact(c, obs, work) ==
    /\ obs.value = work
    /\ obs.per = IF is_absolute(c.signal) THEN 1 ELSE Higher(obs.current, 1)

\* The law's raw recommendation does not depend on the count it starts from,
\* except that it asks for nothing when there is no replica to measure.
LEMMA RawIsGoal ==
    ASSUME NEW c \in ReplicaBandConfig, c.target > 0, NEW obs \in Snapshot, NEW work \in Nat,
           Exact(c, obs, work)
    PROVE  LET raw == desired_raw(c, obs.current, obs.value, obs.per)
           IN  raw \in Nat /\ Goal(c, work) \in Nat /\ raw <= Goal(c, work)
               /\ (obs.current > 0 => raw = Goal(c, work))
<1> DEFINE n == obs.current
           t == c.target
           raw == desired_raw(c, obs.current, obs.value, obs.per)
<1>1. n \in Nat /\ t \in Nat \ {0} /\ obs.value = work /\ obs.per \in Nat \ {0}
    BY DEF Snapshot, ReplicaBandConfig, Exact
<1>2. DivUp(work, t) \in Nat
    BY <1>1, DivUpCovers
<1>3. Goal(c, work) \in Nat /\ Goal(c, work) = Lower(MAX_REPLICAS, DivUp(work, t))
    BY <1>2 DEF Goal, Lower, MAX_REPLICAS
<1>4. raw \in Nat
    BY <1>1, RawIsCount
<1>5. CASE is_absolute(c.signal)
    <2>1. obs.per * t = t
        BY <1>1, <1>5 DEF Exact
    <2>2. raw = Goal(c, work)
        BY <1>1, <1>3, <1>5, <2>1 DEF desired_raw
    <2>3. QED
        BY <1>3, <1>4, <2>2
<1>6. CASE ~is_absolute(c.signal) /\ n > 0
    <2>1. obs.per = n
        BY <1>1, <1>6 DEF Exact, Higher
    <2>2. DivUp(n * work, n * t) = DivUp(work, t)
        BY <1>1, <1>6, DivUpScales
    <2>3. raw = Goal(c, work)
        BY <1>1, <1>3, <1>6, <2>1, <2>2 DEF desired_raw
    <2>4. QED
        BY <1>3, <1>4, <2>3
<1>7. CASE ~is_absolute(c.signal) /\ n = 0
    <2>1. obs.per = 1 /\ obs.per * t = t /\ n * work = 0
        BY <1>1, <1>7 DEF Exact, Higher
    <2>2. DivUp(0, t) = 0
        BY <1>1, DivUpUnique
    <2>3. raw = 0
        BY <1>1, <1>7, <2>1, <2>2 DEF desired_raw, Lower, MAX_REPLICAS
    <2>4. QED
        BY <1>3, <1>7, <2>3
<1>8. QED
    BY <1>1, <1>5, <1>6, <1>7

\* Not one step takes the count past the aim, out or in.
Heads(d, aim) == /\ d.to > d.from => d.to <= aim
                 /\ d.to < d.from => d.to >= aim

LEMMA CoreHeads ==
    ASSUME NEW c \in ReplicaBandConfig, c.target > 0, NEW obs \in Snapshot, NEW work \in Nat,
           Exact(c, obs, work)
    PROVE  LET d == decide_core(c, obs, topology_floor(c))
           IN  d.from = obs.current /\ d.to \in Nat /\ Heads(d, Aim(c, work, obs.reclaim))
<1> DEFINE current == obs.current
           floor   == topology_floor(c)
           ceiling == Higher(c.ceiling, floor)
           raw     == desired_raw(c, current, obs.value, obs.per)
           goal    == Goal(c, work)
           us      == UpStep(c, current)
           ds      == DownStep(c, current)
           out     == clamp(Higher(current + obs.reclaim, raw), floor, ceiling)
           up      == Lower(clamp(raw, floor, ceiling), current + us)
           down    == Higher(clamp(raw, floor, ceiling), Higher(current - ds, 0))
           d       == decide_core(c, obs, floor)
           aim     == Aim(c, work, obs.reclaim)
<1>1. /\ current \in Nat /\ obs.value \in Nat /\ obs.per \in Nat \ {0} /\ obs.window = None
      /\ obs.reclaim \in Nat /\ c.ceiling \in Nat
    BY DEF Snapshot, ReplicaBandConfig
<1>2. us \in Nat /\ ds \in Nat /\ floor \in Nat
    BY <1>1, StepsMove, Floors
<1>3. raw \in Nat /\ goal \in Nat /\ raw <= goal /\ (current > 0 => raw = goal)
    BY RawIsGoal
<1>4. /\ obs.reclaim > 0 => d = ScaleTo("SpotScaleOut", current, out)
      /\ ~(obs.reclaim > 0) =>
           \/ d = ScaleTo("ScaleUp", current, up)
           \/ d = ScaleTo("ScaleDown", current, down)
           \/ d \in {Rest("AtCeiling", current), Rest("AtFloor", current), Rest("Hold", current)}
    BY <1>1 DEF decide_core, Stabilized
<1>5. aim = IF obs.reclaim > 0 THEN ceiling ELSE clamp(goal, floor, ceiling)
    BY DEF Aim
<1> HIDE DEF raw, us, ds, d, floor, goal, aim
<1>6. ASSUME NEW kind, NEW to \in Nat, d = ScaleTo(kind, current, to),
             to > current => to <= aim, to < current => to >= aim
      PROVE  d.from = current /\ d.to \in Nat /\ Heads(d, aim)
    BY <1>6 DEF ScaleTo, Heads
<1>7. CASE obs.reclaim > 0
    <2>1. /\ out \in Nat
          /\ out <= ceiling /\ (out < current => out >= ceiling)
        BY <1>1, <1>2, <1>3, <1>7 DEF Higher, Lower, clamp
    <2>2. aim = ceiling
        BY <1>5, <1>7
    <2> HIDE DEF out, ceiling
    <2>3. QED
        BY <1>4, <1>6, <1>7, <2>1, <2>2 DEF d, floor, aim
<1>8. CASE ~(obs.reclaim > 0)
    <2>1. /\ up \in Nat /\ down \in Nat
          /\ up > current => up <= clamp(goal, floor, ceiling)
          /\ up < current => up >= clamp(goal, floor, ceiling)
          /\ down > current => down <= clamp(goal, floor, ceiling)
          /\ down < current => down >= clamp(goal, floor, ceiling)
        BY <1>1, <1>2, <1>3 DEF Higher, Lower, clamp
    <2>2. aim = clamp(goal, floor, ceiling)
        BY <1>5, <1>8
    <2> HIDE DEF up, down, ceiling
    <2>3. QED
        BY <1>1, <1>4, <1>6, <1>8, <2>1, <2>2 DEF d, floor, aim, Rest
<1>9. QED
    BY <1>7, <1>8

\* Nor does the law of any topology but the quorum's.
LEMMA LawHeads ==
    ASSUME NEW c \in ReplicaBandConfig, c.target > 0, c.topology # "FullyDistributed",
           NEW obs \in Snapshot, NEW work \in Nat, Exact(c, obs, work)
    PROVE  LET d == decide_replicas(c, obs)
           IN  d.from = obs.current /\ d.to \in Nat /\ Heads(d, Aim(c, work, obs.reclaim))
<1> DEFINE e == decide_core(c, obs, topology_floor(c))
           d == decide_replicas(c, obs)
<1>1. c.topology \in Topology /\ obs.current \in Nat
    BY DEF ReplicaBandConfig, Snapshot
<1>2. e.from = obs.current /\ e.to \in Nat /\ Heads(e, Aim(c, work, obs.reclaim))
    BY CoreHeads
<1>3. c.topology = "NonPersistent" => topology_floor(c) = effective_floor(c)
    BY Floors
<1>4. d = e \/ d = Rest("HeldForRebalance", e.from)
    BY <1>1, <1>3 DEF decide_replicas, Topology
<1> HIDE DEF d, e
<1>5. CASE d = e
    BY <1>2, <1>5 DEF d
<1>6. CASE d = Rest("HeldForRebalance", e.from)
    BY <1>1, <1>2, <1>6 DEF Rest, ScaleTo, Heads, d
<1>7. QED
    BY <1>4, <1>5, <1>6

\* A band whose samples follow its work, and which reads a total, or waits
\* for a sample younger than its own last write.
Prompt(b) ==
    /\ "lag" \notin b.faults
    /\ \/ \A c \in b.cfgs : is_absolute(c.signal)
       \/ /\ \A c \in b.cfgs : ~is_absolute(c.signal)
          /\ b.staleness < b.cooldown
          /\ b.faults \cap {"otherScaler", "patchFails", "crash"} = {}

Damped(b) == Prompt(b) \/ \A c \in b.cfgs : c.topology = "FullyDistributed"

\* What an up-to-date snapshot shows.
Truth == [current |-> replicas, value |-> load, per |-> Spread(replicas),
          window |-> None, reclaim |-> reclaim]

Fresh == sample.value \notin {None, Bad} => sample.value = load /\ sample.per = Spread(replicas)

\* The band's own write made the sample out of date, and the cooldown of that
\* write is, or is about to be, on record.
Outdated ==
    /\ ~is_absolute(spec.cfg.signal)
    /\ \/ pc = "patch" /\ job.receipt = "Applied"
       \/ last_change # None /\ sample.at <= last_change

\* Nothing else makes it so.
Sampled == Fresh \/ Outdated

\* A carve nothing has disturbed is the one the law would decide now.
Planned ==
    pc = "assign" =>
        /\ job.receipt = "Applied"
        /\ ~job.forced /\ moved # "dirty" =>
             /\ job.cfg = spec.cfg /\ spec.cfg.target > 0
             /\ job.decision = decide_replicas(spec.cfg, Truth)

\* The last carve did not overshoot.
Headed ==
    spec.cfg.topology # "FullyDistributed" =>
        /\ moved = "up" => replicas <= Aim(spec.cfg, load, reclaim)
        /\ moved = "down" => replicas >= Aim(spec.cfg, load, reclaim)

Clocked == sample.at <= now /\ (last_change # None => last_change <= now)

FlapInv == Clocked /\ (Prompt(band) => Sampled /\ Planned /\ Headed)

\* It holds at the start.
LEMMA InitFlap == Init => FlapInv
<1> SUFFICES ASSUME Init PROVE FlapInv
    OBVIOUS
<1>1. sample = [value |-> load, per |-> Spread(replicas), at |-> 0]
    BY DEF Init, Reading
<1>2. Clocked
    BY <1>1 DEF Init, Clocked
<1>3. Sampled
    BY <1>1 DEF Sampled, Fresh
<1>4. Planned /\ Headed
    BY DEF Init, Planned, Headed
<1>5. QED
    BY <1>2, <1>3, <1>4 DEF FlapInv

\* The operator cannot turn a total into a share: the configurations of a
\* prompt band read alike.
LEMMA ReadAlike ==
    ASSUME Prompt(band), NEW c \in band.cfgs, NEW e \in band.cfgs
    PROVE  is_absolute(c.signal) <=> is_absolute(e.signal)
BY DEF Prompt

\* The law plans on the state there is: a sample that is neither stale nor
\* older than the last write is up to date.
LEMMA PlansOnTruth ==
    ASSUME IInv, FlapInv, Prompt(band), pc = "idle", ~Stale, ~in_cooldown,
           sample.value \notin {None, Bad}
    PROVE  observation = Truth
<1>1. /\ now \in Nat /\ sample.at \in Nat /\ last_change \in Nat \cup {None}
      /\ spec.cfg \in band.cfgs
    BY DEF IInv, TypeOK
<1>2. band.cooldown \in Nat /\ band.staleness \in Nat
    BY ReplicaBandAssumption DEF IInv, TypeOK, Band
<1>3. Fresh
    <2>1. CASE is_absolute(spec.cfg.signal)
        BY <2>1 DEF FlapInv, Sampled, Outdated
    <2>2. CASE ~is_absolute(spec.cfg.signal)
        <3>1. band.staleness < band.cooldown
            BY <1>1, <2>2 DEF Prompt
        <3>2. last_change # None => sample.at > last_change
            <4>1. SUFFICES ASSUME last_change # None PROVE sample.at > last_change
                OBVIOUS
            <4>2. last_change \in Nat /\ ~(now - last_change < band.cooldown)
                BY <1>1, <4>1 DEF in_cooldown
            <4>3. ~(now - sample.at > band.staleness)
                BY DEF Stale
            <4>4. QED
                BY <1>1, <1>2, <3>1, <4>2, <4>3
        <3>3. ~(last_change # None /\ sample.at <= last_change)
            <4>1. SUFFICES ASSUME last_change # None, sample.at <= last_change PROVE FALSE
                OBVIOUS
            <4>2. last_change \in Nat /\ sample.at > last_change
                BY <1>1, <3>2, <4>1
            <4>3. QED
                BY <1>1, <4>1, <4>2
        <3>4. QED
            BY <3>3 DEF FlapInv, Sampled, Outdated
    <2>3. QED
        BY <2>1, <2>2
<1>4. QED
    BY <1>3 DEF Fresh, observation, Truth

LEMMA TruthIsSnapshot ==
    ASSUME TypeOK
    PROVE  /\ Truth \in Snapshot /\ Truth.current = replicas /\ Truth.reclaim = reclaim
           /\ Exact(spec.cfg, Truth, load)
<1>1. replicas \in Nat /\ load \in Nat /\ reclaim \in Nat
    BY DEF TypeOK
<1>2. Spread(replicas) \in Nat \ {0}
    BY <1>1 DEF Spread, Higher
<1>3. QED
    BY <1>1, <1>2 DEF Truth, Snapshot, Exact, Spread

\* Observing leaves the sample as it is and plans on the truth.
LEMMA ObserveFlap == IInv /\ FlapInv /\ Observe => FlapInv'
<1> SUFFICES ASSUME IInv, FlapInv, Observe PROVE FlapInv'
    OBVIOUS
<1>1. /\ UNCHANGED <<band, now, load, sample, reclaim, replicas, owner, spec, last_change, moved>>
      /\ pc = "idle"
    BY DEF Observe, cluster
<1>2. Clocked'
    BY <1>1 DEF FlapInv, Clocked
<1>3. SUFFICES ASSUME Prompt(band) PROVE Sampled' /\ Planned' /\ Headed'
    BY <1>1, <1>2 DEF FlapInv
<1>4. Headed'
    BY <1>1, <1>3 DEF FlapInv, Headed
<1>5. Sampled'
    BY <1>1, <1>3 DEF FlapInv, Sampled, Fresh, Outdated, Spread
<1>6. Planned'
    <2>1. SUFFICES ASSUME pc' = "assign"
                   PROVE  /\ job'.receipt = "Applied"
                          /\ ~job'.forced /\ moved' # "dirty" =>
                               /\ job'.cfg = spec'.cfg /\ spec'.cfg.target > 0
                               /\ job'.decision = decide_replicas(spec'.cfg, Truth')
        BY DEF Planned
    <2>2. Truth' = Truth
        BY <1>1 DEF Truth, Spread
    <2>3. CASE ObserveForced
        BY <2>1, <2>3 DEF ObserveForced, Gate
    <2>4. CASE ObservePlan
        <3>1. /\ sample.value \notin {None, Bad} /\ ~Stale
              /\ Gate(decide_replicas(spec.cfg, observation), FALSE)
              /\ spec.cfg.target > 0
            BY <2>1, <2>4 DEF ObservePlan, Observes, Report, validate_for_target, validate_config
        <3>2. /\ ~in_cooldown
              /\ job' = [decision |-> decide_replicas(spec.cfg, observation), forced |-> FALSE,
                         cfg |-> spec.cfg, receipt |-> "Applied"]
            BY <2>1, <3>1 DEF Gate
        <3>3. observation = Truth
            BY <1>1, <1>3, <3>1, <3>2, PlansOnTruth
        <3>4. QED
            BY <1>1, <2>2, <3>1, <3>2, <3>3
    <2>5. QED
        BY <2>1, <2>3, <2>4 DEF Observe, ObserveFails, ObserveStale, Report
<1>7. QED
    BY <1>4, <1>5, <1>6

\* A carve that lands goes towards the aim, and makes only a share out of date.
LEMMA AssignFlap == IInv /\ FlapInv /\ Assign => FlapInv'
<1> SUFFICES ASSUME IInv, FlapInv, Assign PROVE FlapInv'
    OBVIOUS
<1>1. /\ UNCHANGED <<band, now, load, sample, reclaim, spec, last_change>>
      /\ pc = "assign" /\ pc' = "patch"
    BY DEF Assign
<1>2. Clocked'
    BY <1>1 DEF FlapInv, Clocked
<1>3. SUFFICES ASSUME Prompt(band) PROVE Sampled' /\ Headed'
    BY <1>1, <1>2 DEF FlapInv, Planned
<1>4. TypeOK /\ Sampled /\ Planned /\ Headed
    BY <1>3 DEF IInv, FlapInv
<1>5. CASE AssignLands
    <2>1. Sampled'
        <3>1. CASE is_absolute(spec.cfg.signal)
            BY <1>1, <1>4, <3>1 DEF Sampled, Fresh, Outdated, Spread
        <3>2. CASE ~is_absolute(spec.cfg.signal)
            <4>1. job'.receipt = "Applied"
                BY <1>1, <1>4, <1>5 DEF AssignLands, Planned
            <4>2. QED
                BY <1>1, <3>2, <4>1 DEF Sampled, Outdated
        <3>3. QED
            BY <3>1, <3>2
    <2>2. Headed'
        <3>1. SUFFICES ASSUME spec.cfg.topology # "FullyDistributed", moved' \in {"up", "down"}
                       PROVE  /\ moved' = "up" => replicas' <= Aim(spec.cfg, load, reclaim)
                              /\ moved' = "down" => replicas' >= Aim(spec.cfg, load, reclaim)
            BY <1>1 DEF Headed
        <3>2. /\ ~job.forced /\ moved # "dirty" /\ replicas' = job.decision.to
              /\ moved' = Direction(replicas, replicas')
            BY <1>5, <3>1 DEF AssignLands
        <3>3. spec.cfg.target > 0 /\ job.decision = decide_replicas(spec.cfg, Truth)
            BY <1>1, <1>4, <3>2 DEF Planned
        <3>4. spec.cfg \in ReplicaBandConfig /\ load \in Nat
            BY <1>4, ConfigType DEF TypeOK
        <3>5. /\ Truth \in Snapshot /\ Truth.current = replicas /\ Truth.reclaim = reclaim
              /\ Exact(spec.cfg, Truth, load)
            BY <1>4, TruthIsSnapshot
        <3> DEFINE d == job.decision
                   aim == Aim(spec.cfg, load, reclaim)
        <3>6. d.from = replicas /\ d.to \in Nat /\ Heads(d, aim)
            BY <3>1, <3>3, <3>4, <3>5, LawHeads
        <3> HIDE DEF d, aim
        <3>7. replicas \in Nat
            BY <1>4 DEF TypeOK
        <3>8. QED
            BY <3>2, <3>6, <3>7 DEF Heads, Direction, d, aim
    <2>3. QED
        BY <2>1, <2>2
<1>6. CASE AssignFails
    BY <1>1, <1>4, <1>6 DEF AssignFails, Sampled, Fresh, Outdated, Spread, Headed
<1>7. QED
    BY <1>5, <1>6 DEF Assign

\* The end of a tick puts the write's cooldown on record; a prompt band that
\* reads a share loses none.
LEMMA PatchFlap == IInv /\ FlapInv /\ (PatchStatus \/ TickLost) => FlapInv'
<1> SUFFICES ASSUME IInv, FlapInv, PatchStatus \/ TickLost PROVE FlapInv'
    OBVIOUS
<1>1. /\ UNCHANGED <<band, now, load, sample, reclaim, replicas, owner, spec>>
      /\ pc' = "idle" /\ Settled
      /\ last_change' \in {last_change, now}
    BY DEF PatchStatus, TickLost, cluster
<1>2. /\ now \in Nat /\ sample.at \in Nat /\ sample.at <= now
      /\ spec.cfg \in band.cfgs
    BY DEF IInv, TypeOK, FlapInv, Clocked
<1>3. Clocked'
    BY <1>1, <1>2 DEF FlapInv, Clocked
<1>4. SUFFICES ASSUME Prompt(band) PROVE Sampled' /\ Headed'
    BY <1>1, <1>3 DEF FlapInv, Planned
<1>5. Headed'
    BY <1>1, <1>4 DEF FlapInv, Headed, Settled
<1>6. Sampled'
    <2>1. CASE Fresh
        BY <1>1, <2>1 DEF Sampled, Fresh, Spread
    <2>2. CASE Outdated
        <3>1. PatchStatus
            BY <1>2, <1>4, <2>2 DEF Outdated, Prompt, TickLost, Fault
        <3>2. last_change' # None /\ sample.at <= last_change'
            <4>1. CASE job.receipt = "Applied"
                <5>1. last_change' = now /\ now # None
                    BY <1>2, <3>1, <4>1 DEF PatchStatus, None
                <5>2. QED
                    BY <1>2, <5>1
            <4>2. CASE job.receipt # "Applied"
                BY <2>2, <3>1, <4>2 DEF PatchStatus, Outdated
            <4>3. QED
                BY <4>1, <4>2
        <3>3. QED
            BY <1>1, <2>2, <3>2 DEF Sampled, Outdated
    <2>3. QED
        BY <1>4, <2>1, <2>2 DEF FlapInv, Sampled
<1>7. QED
    BY <1>5, <1>6

\* Time and scrapes leave the history alone.
LEMMA MeasureFlap == IInv /\ FlapInv /\ (Tick \/ Scrape) => FlapInv'
<1> SUFFICES ASSUME IInv, FlapInv, Tick \/ Scrape PROVE FlapInv'
    OBVIOUS
<1>1. /\ UNCHANGED <<band, load, reclaim, replicas, owner, spec, last_change, pc, job, moved>>
      /\ now' \in {now, now + 1}
    BY DEF Tick, Scrape, cluster
<1>2. now \in Nat /\ sample.at \in Nat /\ last_change \in Nat \cup {None}
    BY DEF IInv, TypeOK
<1>3. sample' = sample \/ sample'.at = now
    BY DEF Tick, Scrape, Reading, cluster
<1>4. Clocked'
    <2>1. sample'.at <= now'
        BY <1>1, <1>2, <1>3 DEF FlapInv, Clocked
    <2>2. last_change' # None => last_change' <= now'
        BY <1>1, <1>2 DEF FlapInv, Clocked
    <2>3. QED
        BY <2>1, <2>2 DEF Clocked
<1>5. SUFFICES ASSUME Prompt(band) PROVE Sampled' /\ Planned' /\ Headed'
    BY <1>1, <1>4 DEF FlapInv
<1>6. Planned' /\ Headed'
    <2>1. Truth' = Truth
        BY <1>1 DEF Truth, Spread
    <2>2. QED
        BY <1>1, <1>5, <2>1 DEF FlapInv, Planned, Headed
<1>7. Sampled'
    <2>1. CASE Tick
        BY <1>1, <1>5, <2>1 DEF Tick, cluster, FlapInv, Sampled, Fresh, Outdated, Spread
    <2>2. CASE Scrape
        BY <1>1, <2>2 DEF Scrape, Reading, Sampled, Fresh, Spread
    <2>3. QED
        BY <2>1, <2>2
<1>8. QED
    BY <1>6, <1>7

\* What disturbs the band resets the history, and keeps a prompt sample.
LEMMA DisturbFlap ==
    IInv /\ FlapInv /\ (LoadMoves \/ ReclaimMoves \/ OtherScaler \/ Operator) => FlapInv'
<1> SUFFICES ASSUME IInv, FlapInv, LoadMoves \/ ReclaimMoves \/ OtherScaler \/ Operator
             PROVE  FlapInv'
    OBVIOUS
<1>1. UNCHANGED <<band, now, last_change, pc, job>> /\ Disturbs
    BY DEF LoadMoves, ReclaimMoves, OtherScaler, Operator
<1>2. now \in Nat /\ sample.at \in Nat /\ spec.cfg \in band.cfgs
    BY DEF IInv, TypeOK
<1>3. sample' = sample \/ sample'.at = now
    BY DEF LoadMoves, ReclaimMoves, OtherScaler, Operator, Reading, cluster
<1>4. Clocked'
    BY <1>1, <1>2, <1>3 DEF FlapInv, Clocked
<1>5. SUFFICES ASSUME Prompt(band) PROVE Sampled' /\ Planned' /\ Headed'
    BY <1>1, <1>4 DEF FlapInv
<1>6. Sampled /\ Planned
    BY <1>5 DEF FlapInv
<1>7. Planned' /\ Headed'
    <2>1. moved' = IF pc = "idle" THEN "none" ELSE "dirty"
        BY <1>1 DEF Disturbs
    <2>2. QED
        BY <1>1, <1>6, <2>1 DEF Planned, Headed
<1>8. Sampled'
    <2>1. CASE LoadMoves
        BY <1>5, <2>1 DEF LoadMoves, Reading, Sampled, Fresh, Spread, Prompt, Fault
    <2>2. CASE ReclaimMoves
        BY <1>1, <1>6, <2>2 DEF ReclaimMoves, Sampled, Fresh, Outdated, Spread
    <2>3. CASE OtherScaler
        <3>1. is_absolute(spec.cfg.signal)
            BY <1>2, <1>5, <2>3 DEF OtherScaler, Prompt, Fault
        <3>2. QED
            BY <1>1, <1>6, <2>3, <3>1 DEF OtherScaler, Sampled, Fresh, Outdated, Spread
    <2>4. CASE Operator
        <3>1. spec'.cfg \in band.cfgs
            BY <1>2, <2>4 DEF Operator, IInv, TypeOK
        <3>2. is_absolute(spec.cfg.signal) <=> is_absolute(spec'.cfg.signal)
            BY <1>2, <1>5, <3>1, ReadAlike
        <3>3. UNCHANGED <<load, sample, replicas>>
            BY <2>4 DEF Operator, cluster
        <3>4. QED
            BY <1>1, <1>6, <3>2, <3>3 DEF Sampled, Fresh, Outdated, Spread
    <2>5. QED
        BY <2>1, <2>2, <2>3, <2>4
<1>9. QED
    BY <1>7, <1>8

\* Every step preserves it.
LEMMA NextFlap == IInv /\ FlapInv /\ [Next]_vars => FlapInv'
<1> SUFFICES ASSUME IInv, FlapInv, [Next]_vars PROVE FlapInv'
    OBVIOUS
<1>1. CASE Controller
    BY <1>1, ObserveFlap, AssignFlap, PatchFlap DEF Controller
<1>2. CASE Environment
    BY <1>2, MeasureFlap, DisturbFlap, PatchFlap DEF Environment
<1>3. CASE UNCHANGED vars
    <2>1. Truth' = Truth
        BY <1>3 DEF vars, cluster, Truth, Spread
    <2>2. QED
        BY <1>3, <2>1 DEF vars, cluster, FlapInv, Clocked, Sampled, Fresh, Outdated, Spread,
                          Planned, Headed
<1>4. QED
    BY <1>1, <1>2, <1>3 DEF Next

LEMMA FlapInvHolds == Spec => []FlapInv
BY InitFlap, NextFlap, IInvHolds, PTL DEF Spec

\* A step that lands a carve of the law reverses nothing.
LEMMA StepKeepsHeading ==
    ASSUME IInv, FlapInv, Damped(band), Next, LawWrites, job.cfg.topology # "FullyDistributed"
    PROVE  ~Reverses
<1> SUFFICES ASSUME Reverses PROVE FALSE
    OBVIOUS
<1>1. TypeOK
    BY DEF IInv
<1>2. Prompt(band)
    BY <1>1 DEF Damped, TypeOK
<1>3. AssignLands
    BY DEF LawWrites, Carving, Next, Controller, Environment, Observe, Assign, AssignFails,
           PatchStatus, TickLost, Tick, Scrape, LoadMoves, ReclaimMoves, OtherScaler, Operator
<1>4. ~job.forced /\ moved \in {"up", "down"} /\ moved # Direction(replicas, replicas')
    BY DEF LawWrites, Reverses
<1>5. /\ job.cfg = spec.cfg /\ spec.cfg.target > 0
      /\ job.decision = decide_replicas(spec.cfg, Truth)
    BY <1>2, <1>4 DEF FlapInv, Planned, LawWrites, Carving
<1>6. spec.cfg \in ReplicaBandConfig /\ load \in Nat /\ replicas \in Nat
    BY <1>1, ConfigType DEF TypeOK
<1>7. /\ Truth \in Snapshot /\ Truth.current = replicas /\ Truth.reclaim = reclaim
      /\ Exact(spec.cfg, Truth, load)
    BY <1>1, TruthIsSnapshot
<1> DEFINE d == job.decision
           aim == Aim(spec.cfg, load, reclaim)
<1>8. d.from = replicas /\ d.to \in Nat /\ Heads(d, aim)
    BY <1>5, <1>6, <1>7, LawHeads
<1>9. /\ moved = "up" => replicas <= aim
      /\ moved = "down" => replicas >= aim
    BY <1>2, <1>5 DEF FlapInv, Headed
<1>10. aim \in Nat
    <2>1. topology_floor(spec.cfg) \in Nat /\ spec.cfg.ceiling \in Nat
        BY <1>6, Floors DEF ReplicaBandConfig
    <2>2. Goal(spec.cfg, load) \in Nat
        BY <1>5, <1>6, <1>7, RawIsGoal
    <2>3. QED
        BY <2>1, <2>2 DEF Aim, clamp, Higher, Lower
<1> HIDE DEF d, aim
<1>11. replicas' = d.to /\ replicas' # replicas
    BY <1>3 DEF AssignLands, LawWrites, d
<1>12. QED
    BY <1>4, <1>6, <1>8, <1>9, <1>10, <1>11 DEF Heads, Direction

-----------------------------------------------------------------------------
(***************************************************************************)
(* Theorems.                                                               *)
(***************************************************************************)
\* Type correctness of the horizontal loop.
THEOREM ReplicaTypeCorrect == Spec => []TypeOK
<1>1. IInv => TypeOK
    BY DEF IInv
<1>2. QED
    BY <1>1, IInvHolds, PTL

\* Every carve about to be written, the law's or a pin, stays in its
\* topology's envelope (decide_replicas, plan_replica_tick).
THEOREM CarvesStayInEnvelope == Spec => []EnvelopeKept
<1>1. IInv => EnvelopeKept
    BY DEF IInv, JobSafe, EnvelopeKept, Enveloped, Carving
<1>2. QED
    BY <1>1, IInvHolds, PTL

\* No carve of the law takes data or a majority away from a workload whose
\* count is inside the ceiling (decide_replicas, decide_quorum).
THEOREM DataStaysKept == Spec => []DataKept
<1>1. IInv => DataKept
    BY DEF IInv, JobSafe, DataKept, Kept, Carving
<1>2. QED
    BY <1>1, IInvHolds, PTL

\* The law does not undo its own carve while nothing but the count it wrote
\* has changed (plan_replica_tick, decide_core), whatever the tolerances and
\* the steps: no step passes the aim, and the aim does not depend on the count.
\* It needs samples that follow the work and, of a share per replica, that no
\* tick or foreign write is lost between the write and its cooldown and that a
\* sample may not be as old as the cooldown.
THEOREM LawNeverFlaps ==
    ASSUME \A b \in Bands : Damped(b)
    PROVE  Spec => NoFlap
<1>1. TypeOK => Damped(band)
    BY DEF TypeOK
<1>2. ASSUME IInv, FlapInv, [Next]_vars
      PROVE  [LawWrites /\ job.cfg.topology # "FullyDistributed" => ~Reverses]_vars
    <2>1. CASE Next
        BY <1>1, <1>2, <2>1, StepKeepsHeading DEF IInv
    <2>2. CASE UNCHANGED vars
        BY <2>2
    <2>3. QED
        BY <1>2, <2>1, <2>2
<1>3. QED
    BY <1>2, IInvHolds, FlapInvHolds, PTL DEF Spec, NoFlap
=============================================================================
