------------------------------- MODULE BandLaw -------------------------------
(***************************************************************************)
(* The pure control law of breathe (breathe-control/src/lib.rs): from one  *)
(* observation of a workload to the one decision of a tick.  Operators     *)
(* keep the names of the Rust functions they translate.                    *)
(*                                                                         *)
(* Utilizations and factors, f64 in the code, are whole percentages here,  *)
(* and the rounding the code performs (ceil on a grow, on the safe minimum *)
(* and on the feed-forward seat, floor on a shrink and on the decayed      *)
(* peak) is performed exactly.  Capacities are whole numbers of the        *)
(* dimension's base unit.                                                  *)
(***************************************************************************)
EXTENDS Integers

(***************************************************************************)
(* Rounded products and quotients by a percentage.                         *)
(***************************************************************************)
MulCeil(n, pct)  == (n * pct + 99) \div 100
MulFloor(n, pct) == (n * pct) \div 100
DivCeil(n, pct)  == (n * 100 + pct - 1) \div pct

Larger(a, b)  == IF a >= b THEN a ELSE b
Smaller(a, b) == IF a <= b THEN a ELSE b

(***************************************************************************)
(* Configuration.                                                          *)
(***************************************************************************)
MetricMissingPolicy == {"RestoreHeadroom", "Hold", "Trust"}
Directionality      == {"Bidirectional", "GrowOnly", "ObserveOnly"}
Reclaim             == {"Enabled", "Disabled", "ObserveOnly"}
BoundIntroduction   == {"Forbidden", "Allowed"}

\* A BandConfig, as parsed from a band's spec (before validation).
BandConfig ==
    [grow_above : Nat, shrink_below : Nat, setpoint : Nat,
     grow_factor : Nat, shrink_factor : Nat,
     floor_bytes : Nat, ceiling_bytes : Nat, request_floor_bytes : Nat,
     warmup_seconds : Nat, metric_missing_policy : MetricMissingPolicy]

\* BandConfig::validate.  A zero shrink_below is the NEVER_SHRINK sentinel.
validate(c) ==
    /\ c.setpoint \in 1..100 /\ c.grow_above \in 1..100
    /\ c.shrink_below \in 0..100
    /\ c.shrink_below <= c.setpoint /\ c.setpoint <= c.grow_above
    /\ c.grow_factor > 100 /\ c.shrink_factor \in 1..99
    /\ c.floor_bytes <= c.ceiling_bytes

(***************************************************************************)
(* Decisions.  "to" is the target of a Grow or a Shrink, and the target    *)
(* that was refused in a ReclaimWithheld; in every other decision it is    *)
(* the limit itself.                                                       *)
(***************************************************************************)
DecisionKind == {"Hold", "Grow", "Shrink", "AtCeiling", "NoSafeShrink",
                 "ReclaimWithheld", "Warmup", "Throttled", "NoLimit"}
Decision     == [kind : DecisionKind, from : Nat, to : Nat]

Decide(k, from, to) == [kind |-> k, from |-> from, to |-> to]
Stay(k, limit)      == Decide(k, limit, limit)
IsMutation(d)       == d.kind \in {"Grow", "Shrink"}

(***************************************************************************)
(* The never-OOM floor, and the trailing peak it is keyed on.              *)
(***************************************************************************)
\* Mutant: keyed on the instantaneous usage.
safe_min_of_used(peak, used, c) ==
    Larger(Larger(DivCeil(used, c.setpoint), c.request_floor_bytes), c.floor_bytes)

safe_min(peak, used, c) ==
    Larger(Larger(DivCeil(Larger(peak, used), c.setpoint), c.request_floor_bytes),
           c.floor_bytes)

\* The floor of a soft target, which throttles and never kills.
soft_min(used, c) ==
    Larger(Larger(DivCeil(used, c.setpoint), c.request_floor_bytes), c.floor_bytes)

update_peak(prior, used, decay) == Larger(MulFloor(prior, decay), used)

(***************************************************************************)
(* Control laws.  A proposal is a target limit; proposing the limit itself *)
(* is the law's Hold (safety_clamp treats the two alike).                  *)
(***************************************************************************)
\* Mutants: growing from the shrink edge; a grow step that rounds down.
propose_from_wrong_edge(used, limit, c) ==
    IF used * 100 >= c.shrink_below * limit THEN MulCeil(limit, c.grow_factor)
    ELSE MulFloor(limit, c.shrink_factor)

propose_rounding_down(used, limit, c) ==
    IF used * 100 > c.grow_above * limit THEN MulFloor(limit, c.grow_factor)
    ELSE IF used * 100 < c.shrink_below * limit THEN MulFloor(limit, c.shrink_factor)
    ELSE limit

\* BandLaw::propose: a dead band with gentle multiplicative steps.
propose(used, limit, c) ==
    IF used * 100 > c.grow_above * limit THEN MulCeil(limit, c.grow_factor)
    ELSE IF used * 100 < c.shrink_below * limit THEN MulFloor(limit, c.shrink_factor)
    ELSE limit

\* PredictiveGrow<BandLaw>::propose_with_rate: ahead is the growth of the
\* working set projected over the lookahead (rate * lookahead_secs).
propose_with_rate(used, limit, c, ahead) ==
    LET predicted == Larger(used + ahead, 0)
        inner     == propose(used, limit, c)
    IN IF predicted * 100 > c.grow_above * limit
         THEN Larger(Larger(inner, DivCeil(predicted, c.setpoint)), limit)
         ELSE inner

\* The universal safety gate every proposal passes through.
safety_clamp(raw, used, peak, limit, c) ==
    LET up   == Smaller(raw, c.ceiling_bytes)
        down == Larger(raw, safe_min(peak, used, c))
    IN CASE raw > limit -> IF up <= limit THEN Stay("AtCeiling", limit)
                           ELSE Decide("Grow", limit, up)
         [] raw < limit -> IF down >= limit THEN Stay("NoSafeShrink", limit)
                           ELSE Decide("Shrink", limit, down)
         [] OTHER       -> Stay("Hold", limit)

\* Mutant: only the Hold policy distrusts a zero.
metric_untrusted_on_hold(used, c) == used = 0 /\ c.metric_missing_policy = "Hold"

\* A working set of zero from a running workload is an untrusted reading.
metric_untrusted(used, c) == used = 0 /\ c.metric_missing_policy # "Trust"

metric_untrusted_decision(peak, limit, c) ==
    IF /\ c.metric_missing_policy = "RestoreHeadroom"
       /\ limit < safe_min(peak, 0, c)
    THEN Decide("Grow", limit, safe_min(peak, 0, c))
    ELSE Stay("Hold", limit)

\* The scaffolding both decide_with and decide_with_rate run a proposal
\* through: floor seed, ceiling snap, metric trust, then the safety gate.
Scaffold(raw, used, peak, limit, c) ==
    IF limit < c.floor_bytes THEN Decide("Grow", limit, c.floor_bytes)
    ELSE IF limit > c.ceiling_bytes THEN Decide("Shrink", limit, c.ceiling_bytes)
    ELSE IF metric_untrusted(used, c) THEN metric_untrusted_decision(peak, limit, c)
    ELSE safety_clamp(raw, used, peak, limit, c)

decide_with(used, peak, limit, c) ==
    Scaffold(propose(used, limit, c), used, peak, limit, c)

decide_with_rate(used, peak, limit, c, ahead) ==
    Scaffold(propose_with_rate(used, limit, c, ahead), used, peak, limit, c)

(***************************************************************************)
(* The gates between the law and the write, in plan_tick's order.          *)
(***************************************************************************)
\* Reclaim::narrow: a withholding policy turns a two-way dimension grow-only.
narrow(reclaim, dir) ==
    IF reclaim # "Enabled" /\ dir = "Bidirectional" THEN "GrowOnly" ELSE dir

clamp_to_reclaim(d, reclaim) ==
    IF d.kind # "Shrink" \/ reclaim = "Enabled" THEN d
    ELSE IF reclaim = "Disabled" THEN Stay("NoSafeShrink", d.from)
    ELSE Decide("ReclaimWithheld", d.from, d.to)

clamp_to_directionality(d, dir) ==
    CASE dir = "GrowOnly" /\ d.kind = "Shrink" -> Stay("NoSafeShrink", d.from)
      [] dir = "ObserveOnly" /\ IsMutation(d)  -> Stay("AtCeiling", d.from)
      [] OTHER                                 -> d

clamp_to_warmup(d, observed_for, warmup_seconds) ==
    IF d.kind = "Shrink" /\ observed_for < warmup_seconds
    THEN Stay("Warmup", d.from) ELSE d

clamp_to_throttle(d, throttled) ==
    IF d.kind = "Shrink" /\ throttled THEN Stay("Throttled", d.from) ELSE d

\* A throttled or restarting workload demands one grow step above its cap.
throttled_demand(used, limit, c) ==
    Larger(Larger(MulCeil(limit, c.grow_factor), limit + 1), used)

\* The first other manager holding the field we would write.
competing_field_manager(owners, our_manager, field) ==
    \E o \in owners : o.field = field /\ o.manager # our_manager

(***************************************************************************)
(* plan_tick: what one tick resolves to before any I/O.  The plan is the   *)
(* name of the TickPlan arm with the decision it carries.                  *)
(***************************************************************************)
PlanKind == {"CapabilityMissing", "Conflict", "Unrepresentable", "Warmup",
             "Throttled", "Stale", "Cooldown", "Act", "Observe"}

Plan(arm, d) == [arm |-> arm, decision |-> d]

\* Mutant: a crash loop does not count.
suppressed_by_throttle(obs) == obs.throttled

\* Demand the workload cannot show, because it is throttled or restarting.
suppressed(obs) == obs.throttled \/ obs.restarting

\* The law's decision, its inputs lifted by suppressed demand, after the
\* reclaim, directionality, warmup and no-starve gates.  predictive is
\* [on |-> BOOLEAN, ahead |-> Int].
LawDecision(obs, c, dir, reclaim, predictive) ==
    LET lifted == IF suppressed(obs) THEN throttled_demand(obs.used, obs.limit, c) ELSE 0
        used   == Larger(obs.used, lifted)
        peak   == Larger(obs.peak, lifted)
        raw    == IF predictive.on
                  THEN decide_with_rate(used, peak, obs.limit, c, predictive.ahead)
                  ELSE decide_with(used, peak, obs.limit, c)
        gated  == clamp_to_directionality(clamp_to_reclaim(raw, reclaim), dir)
    IN clamp_to_throttle(clamp_to_warmup(gated, obs.observed_for, c.warmup_seconds),
                         suppressed(obs))

plan_tick(obs, c, dir, reclaim, bound_introduction, predictive, max_staleness, in_cooldown) ==
    LET d == LawDecision(obs, c, dir, reclaim, predictive)
    IN IF dir = "GrowOnly" /\ ~obs.capable
         THEN Plan("CapabilityMissing", Stay("Hold", obs.limit))
       ELSE IF obs.conflict THEN Plan("Conflict", Stay("Hold", obs.limit))
       ELSE IF obs.absent /\ bound_introduction = "Forbidden"
         THEN Plan("Observe", Stay("NoLimit", obs.limit))
       ELSE IF dir = "GrowOnly" /\ obs.used > obs.limit
         THEN Plan("Unrepresentable", Stay("Hold", obs.limit))
       ELSE IF d.kind \in {"Warmup", "Throttled"} THEN Plan(d.kind, d)
       ELSE IF ~IsMutation(d) THEN Plan("Observe", d)
       ELSE IF obs.staleness > max_staleness THEN Plan("Stale", d)
       ELSE IF in_cooldown THEN Plan("Cooldown", d)
       ELSE Plan("Act", d)

(***************************************************************************)
(* What a carve may cost the workload, and whether the band's policy       *)
(* permits it (breathe-provider).                                          *)
(***************************************************************************)
DisruptionClass  == {"RestartFree", "RestartConditional", "RestartRequiring"}
DisruptionPolicy == {"RestartFreeOnly", "AllowConditional", "AllowRestart"}
Layout           == {"PodResize", "PodTemplate", "PvcRequest"}

\* LimitLayout::action_class for the three k8s layouts, refined by the
\* observed resizePolicy (DisruptionClass::refined_by_resize_policy).
action_class(layout, resource, growing, shrink_restart_free) ==
    CASE layout = "PvcRequest"  -> "RestartFree"
      [] layout = "PodTemplate" -> "RestartRequiring"
      [] layout = "PodResize"   ->
           IF resource = "cpu" \/ growing \/ shrink_restart_free
           THEN "RestartFree" ELSE "RestartConditional"

permits(policy, class) ==
    CASE policy = "RestartFreeOnly"  -> class = "RestartFree"
      [] policy = "AllowConditional" -> class # "RestartRequiring"
      [] policy = "AllowRestart"     -> TRUE
=============================================================================
