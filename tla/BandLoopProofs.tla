--------------------------- MODULE BandLoopProofs ---------------------------
(***************************************************************************)
(* Proofs about the band's plan and its reconcile loop, for every          *)
(* configuration that BandConfig::validate accepts and every instance of   *)
(* the cluster around the loop.                                            *)
(***************************************************************************)
EXTENDS BandLoop, BandLawProofs, SequenceTheorems, TLAPS

-----------------------------------------------------------------------------
(***************************************************************************)
(* The plan.                                                               *)
(***************************************************************************)
\* What plan_tick reads of an observation.
Observation ==
    [used : Nat, peak : Nat, limit : Nat, absent : BOOLEAN, conflict : BOOLEAN,
     staleness : Nat, observed_for : Nat, throttled : BOOLEAN, restarting : BOOLEAN,
     capable : BOOLEAN]

\* A shrink is safe for a workload whose peak is given: it seats the peak and
\* respects the configured floors.
SafeShrink(d, peak, c) ==
    /\ d.to * c.setpoint >= 100 * peak
    /\ d.to >= c.request_floor_bytes /\ d.to >= c.floor_bytes

\* The law's decision after every gate: a decision about the observed limit,
\* whose shrinks are safe for the observed peak and come from a workload that
\* is neither throttled nor restarting.
LEMMA LawDecisionSafe ==
    ASSUME NEW obs \in Observation, NEW c, UsableConfig(c), NEW dir, NEW reclaim,
           NEW pred \in [on : BOOLEAN, ahead : Int]
    PROVE  LET d == LawDecision(obs, c, dir, reclaim, pred)
           IN  /\ d \in Decision
               /\ d.from = obs.limit
               /\ d.kind = "Shrink" => ~obs.throttled /\ ~obs.restarting
               /\ d.kind = "Shrink" /\ obs.limit <= c.ceiling_bytes
                    => SafeShrink(d, obs.peak, c) /\ ~metric_untrusted(obs.used, c)
<1> DEFINE held == suppressed(obs)
           lifted == IF held THEN throttled_demand(obs.used, obs.limit, c) ELSE 0
           used   == Larger(obs.used, lifted)
           peak   == Larger(obs.peak, lifted)
           raw    == IF pred.on THEN decide_with_rate(used, peak, obs.limit, c, pred.ahead)
                     ELSE decide_with(used, peak, obs.limit, c)
           reclaimed == clamp_to_reclaim(raw, reclaim)
           gated  == clamp_to_directionality(reclaimed, dir)
           warmed == clamp_to_warmup(gated, obs.observed_for, c.warmup_seconds)
           d      == LawDecision(obs, c, dir, reclaim, pred)
<1>1. /\ obs.used \in Nat /\ obs.peak \in Nat /\ obs.limit \in Nat
      /\ obs.throttled \in BOOLEAN /\ obs.restarting \in BOOLEAN
    BY DEF Observation
<1>2. lifted \in Nat
    <2>1. MulCeil(obs.limit, c.grow_factor) \in Nat
        BY <1>1, Rounding DEF UsableConfig, BandConfig
    <2>2. QED
        BY <1>1, <2>1 DEF throttled_demand, Larger
<1>3. used \in Nat /\ peak \in Nat /\ peak >= obs.peak
    BY <1>1, <1>2 DEF Larger
<1>4. ~held => used = obs.used
    BY <1>1 DEF Larger
<1>5. /\ raw \in Decision /\ raw.from = obs.limit
      /\ raw.kind = "Shrink" /\ obs.limit <= c.ceiling_bytes
            => raw.to >= safe_min(peak, used, c) /\ ~metric_untrusted(used, c)
    <2> HIDE DEF used, peak
    <2>1. pred.ahead \in Int
        OBVIOUS
    <2>2. /\ propose(used, obs.limit, c) \in Nat
          /\ propose_with_rate(used, obs.limit, c, pred.ahead) \in Nat
        BY <1>1, <1>3, <2>1, ProposalType
    <2>3. \E proposal \in Nat : raw = Scaffold(proposal, used, peak, obs.limit, c)
        BY <2>2 DEF decide_with, decide_with_rate
    <2>4. PICK proposal \in Nat : raw = Scaffold(proposal, used, peak, obs.limit, c)
        BY <2>3
    <2> HIDE DEF raw
    <2>5. QED
        BY <1>1, <1>3, <2>4, ScaffoldSafe
<1> HIDE DEF raw, used, peak, lifted
<1>6. /\ reclaimed \in Decision /\ reclaimed.from = obs.limit
      /\ reclaimed.kind = "Shrink" => reclaimed = raw
    BY <1>1, <1>5 DEF clamp_to_reclaim, Stay, Decide, Decision, DecisionKind
<1> HIDE DEF reclaimed
<1>7. /\ gated \in Decision /\ gated.from = obs.limit
      /\ gated.kind = "Shrink" => gated = reclaimed
    BY <1>1, <1>6 DEF clamp_to_directionality, Stay, Decide, Decision, DecisionKind, IsMutation
<1> HIDE DEF gated
<1>8. /\ warmed \in Decision /\ warmed.from = obs.limit
      /\ warmed.kind = "Shrink" => warmed = gated
    BY <1>1, <1>7 DEF clamp_to_warmup, Stay, Decide, Decision, DecisionKind
<1> HIDE DEF warmed
<1>9. /\ d = clamp_to_throttle(warmed, held)
    BY DEF LawDecision, warmed, gated, reclaimed, raw, used, peak, lifted
<1>10. /\ d \in Decision /\ d.from = obs.limit
       /\ d.kind = "Shrink" => d = warmed /\ ~held
    BY <1>1, <1>8, <1>9 DEF clamp_to_throttle, Stay, Decide, Decision, DecisionKind
<1> HIDE DEF d
<1>11. ASSUME d.kind = "Shrink", obs.limit <= c.ceiling_bytes
       PROVE  SafeShrink(d, obs.peak, c) /\ ~metric_untrusted(obs.used, c)
    <2>1. d = raw /\ raw.kind = "Shrink" /\ ~held
        BY <1>6, <1>7, <1>8, <1>10, <1>11
    <2>2. d.to >= safe_min(peak, used, c) /\ ~metric_untrusted(used, c)
        BY <1>5, <1>11, <2>1
    <2>3. /\ safe_min(peak, used, c) \in Nat
          /\ safe_min(peak, used, c) * c.setpoint >= 100 * peak
          /\ safe_min(peak, used, c) >= c.request_floor_bytes
          /\ safe_min(peak, used, c) >= c.floor_bytes
        BY <1>3, SafeMinSeats
    <2>4. /\ d.to \in Nat /\ c.setpoint \in Nat
          /\ c.request_floor_bytes \in Nat /\ c.floor_bytes \in Nat
        BY <1>10 DEF Decision, UsableConfig, BandConfig
    <2>5. d.to * c.setpoint >= safe_min(peak, used, c) * c.setpoint
        BY <2>2, <2>3, <2>4
    <2>6. d.to * c.setpoint >= 100 * obs.peak
        BY <1>1, <1>3, <2>3, <2>4, <2>5
    <2>7. QED
        BY <1>4, <2>1, <2>2, <2>3, <2>4, <2>6 DEF SafeShrink
<1>12. QED
    BY <1>10, <1>11 DEF d, suppressed

\* What a tick plans is a decision about the observed limit, and what it acts
\* on is the law's decision.
LEMMA PlanSafe ==
    ASSUME NEW obs \in Observation, NEW c, UsableConfig(c), NEW dir, NEW reclaim, NEW intro,
           NEW pred \in [on : BOOLEAN, ahead : Int], NEW staleness, NEW cooling
    PROVE  LET plan == plan_tick(obs, c, dir, reclaim, intro, pred, staleness, cooling)
               d    == LawDecision(obs, c, dir, reclaim, pred)
           IN  /\ plan.arm \in PlanKind
               /\ plan.decision \in Decision
               /\ plan.arm = "Act" => plan.decision = d
<1> DEFINE d == LawDecision(obs, c, dir, reclaim, pred)
<1>1. d \in Decision
    BY LawDecisionSafe
<1>2. obs.limit \in Nat
    BY DEF Observation
<1> HIDE DEF d
<1>3. QED
    BY <1>1, <1>2 DEF plan_tick, Plan, PlanKind, Stay, Decide, Decision, DecisionKind, d

-----------------------------------------------------------------------------
(***************************************************************************)
(* The loop: types.                                                        *)
(***************************************************************************)
\* The configuration a tick runs with is usable, and has the live request
\* under its request floor.
LEMMA EffectiveConfig ==
    /\ UsableConfig(effective_cfg)
    /\ effective_cfg.setpoint = Cfg.setpoint
    /\ effective_cfg.floor_bytes = Cfg.floor_bytes
    /\ effective_cfg.ceiling_bytes = Cfg.ceiling_bytes
    /\ effective_cfg.metric_missing_policy = Cfg.metric_missing_policy
    /\ effective_cfg.request_floor_bytes >= LiveRequest
BY BandLoopAssumption
   DEF effective_cfg, UsableConfig, BandConfig, validate, Larger

\* A tick that can observe sees a well-typed observation, whose peak is at
\* least the working set.
LEMMA ObservationType ==
    ASSUME TypeOK, sample.used # None, NEW capable \in BOOLEAN
    PROVE  /\ observation(capable) \in Observation
           /\ observation(capable).peak >= observation(capable).used
<1>1. sample.used \in Nat /\ sample.at \in Nat /\ now \in Nat /\ limit \in Nat
    BY DEF TypeOK, OptNat, None
<1>2. peak_hint \in Nat
    <2>1. /\ cache.peak \in OptNat /\ cache.used \in OptNat /\ Decay \in Nat
        BY BandLoopAssumption DEF TypeOK, BandStatus
    <2> DEFINE prior == IF cache.peak # None THEN cache.peak ELSE cache.used
    <2>2. prior # None => prior \in Nat
        BY <2>1 DEF OptNat, None
    <2>3. prior # None => MulFloor(prior, Decay) \in Nat
        BY <2>1, <2>2, Rounding
    <2>4. QED
        BY <2>3 DEF peak_hint
<1>3. warmup_state \in Nat
    BY <1>1 DEF warmup_state, warmup_start_epoch, TypeOK, BandStatus, OptNat, None
<1>4. Elapsed(warmup_state) \in Nat /\ Elapsed(sample.at) \in Nat
    BY <1>1, <1>3 DEF Elapsed
<1>5. /\ Larger(sample.used, peak_hint) \in Nat
      /\ Larger(sample.used, peak_hint) >= sample.used
    BY <1>1, <1>2 DEF Larger
<1>6. throttled \in BOOLEAN
    BY DEF TypeOK
<1>7. QED
    BY <1>1, <1>4, <1>5, <1>6 DEF observation, Observation, competing_field_manager

\* The velocity handed to the predictive law is a number of either sign.
LEMMA PredictiveType ==
    ASSUME TypeOK, sample.used # None
    PROVE  predictive \in [on : BOOLEAN, ahead : Int]
<1>1. sample.used \in Int /\ cache.used \in Int /\ Lookahead \in Int
    BY BandLoopAssumption DEF TypeOK, BandStatus, OptNat, None
<1>2. (sample.used - cache.used) * Lookahead \in Int
    BY <1>1
<1>3. QED
    BY <1>2 DEF predictive

JobType == [obs : [used : OptNat, peak : OptNat, limit : OptNat], decision : Decision,
            forced : BOOLEAN, warmup_start : OptNat, receipt : ReceiptKind]

\* A job built from an observation and a decision is well typed.
LEMMA JobTyped ==
    ASSUME TypeOK, NEW obs, obs.used \in OptNat, obs.peak \in OptNat, obs.limit \in OptNat,
           NEW d \in Decision, NEW forced \in BOOLEAN, NEW receipt \in ReceiptKind
    PROVE  Job(obs, d, forced, receipt) \in JobType
<1>1. warmup_state \in OptNat
    BY DEF warmup_state, warmup_start_epoch, TypeOK, BandStatus, OptNat
<1>2. QED
    BY <1>1 DEF Job, JobType

\* The mutation door records the decision it was handed, whatever it does
\* with it.
LEMMA CarveStep ==
    ASSUME NEW obs, NEW d, NEW forced, Carve(obs, d, forced)
    PROVE  /\ pc' \in {"assign", "patch"}
           /\ \E r \in ReceiptKind : job' = Job(obs, d, forced, r)
BY DEF Carve, ReceiptKind

\* The window of remembered samples keeps its type.
LEMMA RememberType ==
    ASSUME TypeOK, sample.used # None, Remember
    PROVE  window' \in Seq(Nat)
<1> DEFINE all == <<sample.used>> \o window
           n   == Smaller(Window, Len(window) + 1)
<1>1. sample.used \in Nat /\ window \in Seq(Nat)
    BY DEF TypeOK, OptNat
<1>2. all \in Seq(Nat) /\ Len(all) = Len(window) + 1 /\ Len(window) \in Nat
    <2>1. <<sample.used>> \in Seq(Nat) /\ Len(<<sample.used>>) = 1
        BY <1>1
    <2>2. Len(window) \in Nat
        BY <1>1, LenProperties
    <2>3. QED
        BY <1>1, <2>1, <2>2, ConcatProperties
<1>3. n \in Nat /\ n <= Len(all)
    BY <1>2, BandLoopAssumption DEF Smaller
<1>4. \A i \in 1..n : all[i] \in Nat
    BY <1>2, <1>3, ElementOfSeq
<1>5. SubSeq(all, 1, n) \in Seq(Nat)
    BY <1>3, <1>4, SubSeqProperties
<1>6. QED
    BY <1>5 DEF Remember

\* A job and a program counter that a tick's Observe may leave behind: well
\* typed, and with every efficiency shrink safe.
ShrinkSafe ==
    EfficiencyShrink => /\ SafeShrink(job.decision, job.obs.peak, effective_cfg)
                        /\ job.obs.peak >= job.obs.used
                        /\ job.obs.used \in Nat /\ job.obs.peak \in Nat
                        /\ ~metric_untrusted(job.obs.used, effective_cfg)

SafeJob == pc \in {"assign", "patch"} /\ job \in JobType /\ ShrinkSafe

\* A tick that cannot observe leaves nothing to write.
LEMMA ObserveFailsSafe ==
    ASSUME TypeOK, ObserveFails
    PROVE  SafeJob' /\ window' \in Seq(Nat) /\ ~LawWrite("Shrink")'
<1>1. \E r \in ReceiptKind : job' = Job(NoObs, Stay("Hold", 0), FALSE, r)
    BY DEF ObserveFails, ReceiptKind
<1>2. PICK r \in ReceiptKind : job' = Job(NoObs, Stay("Hold", 0), FALSE, r)
    BY <1>1
<1>3. /\ NoObs.used \in OptNat /\ NoObs.peak \in OptNat /\ NoObs.limit \in OptNat
      /\ Stay("Hold", 0) \in Decision
    BY DEF NoObs, OptNat, Stay, Decide, Decision, DecisionKind
<1>4. job' \in JobType
    BY <1>2, <1>3, JobTyped
<1>5. pc' = "patch" /\ window' = window
    BY DEF ObserveFails
<1>6. QED
    BY <1>4, <1>5 DEF SafeJob, ShrinkSafe, EfficiencyShrink, LawWrite, TypeOK

\* A pinned limit is outside the law: it leaves no shrink of the law's.
LEMMA ObserveForcedSafe ==
    ASSUME TypeOK, ObserveForced
    PROVE  SafeJob' /\ window' \in Seq(Nat) /\ ~LawWrite("Shrink")'
<1> DEFINE obs == observation(TRUE)
           to  == Smaller(Larger(spec.force, Cfg.floor_bytes), Cfg.ceiling_bytes)
           d   == Decide(IF to > limit THEN "Grow" ELSE "Shrink", limit, to)
<1>1. sample.used # None /\ limit \in Nat
    BY DEF ObserveForced, observe, TypeOK
<1>2. obs.used \in OptNat /\ obs.peak \in OptNat /\ obs.limit \in OptNat
    <2>1. obs \in Observation
        BY <1>1, ObservationType
    <2>2. QED
        BY <2>1 DEF Observation, OptNat
<1>3. to \in Nat
    <2>1. spec.force # None
        BY DEF ObserveForced
    <2>2. spec \in [live : BOOLEAN, force : Pins, suspended : BOOLEAN]
        BY DEF TypeOK
    <2>3. spec.force \in Nat
        <3>1. spec.force \in Pins
            BY <2>2
        <3>2. ForceLimits \subseteq Nat
            BY BandLoopAssumption
        <3>3. QED
            BY <2>1, <3>1, <3>2 DEF Pins
    <2>4. QED
        BY <2>3, BandLoopAssumption DEF Smaller, Larger, BandConfig
<1>4. d \in Decision /\ Stay("Hold", limit) \in Decision
    BY <1>1, <1>3 DEF Stay, Decide, Decision, DecisionKind
<1>5. /\ pc' \in {"assign", "patch"}
      /\ \E r \in ReceiptKind : \/ job' = Job(obs, Stay("Hold", limit), TRUE, r)
                                \/ job' = Job(obs, d, TRUE, r)
    <2>1. CASE to = limit
        BY <2>1 DEF ObserveForced, ReceiptKind
    <2>2. CASE to # limit
        <3>1. Carve(obs, d, TRUE)
            BY <2>2 DEF ObserveForced
        <3>2. QED
            BY <3>1, CarveStep
    <2>3. QED
        BY <2>1, <2>2
<1> HIDE DEF obs, d, to
<1>6. job' \in JobType /\ job'.forced = TRUE
    <2>1. PICK r \in ReceiptKind, e \in Decision : job' = Job(obs, e, TRUE, r)
        BY <1>4, <1>5
    <2>2. job' \in JobType
        BY <1>2, <2>1, JobTyped
    <2>3. QED
        BY <2>1, <2>2 DEF Job
<1>7. window' \in Seq(Nat)
    BY <1>1, RememberType DEF ObserveForced
<1>8. QED
    BY <1>5, <1>6, <1>7 DEF SafeJob, ShrinkSafe, EfficiencyShrink, LawWrite

\* A tick that plans leaves only safe shrinks, and none for a workload that
\* is throttled or crash-looping.
LEMMA ObservePlanSafe ==
    ASSUME TypeOK, ObservePlan
    PROVE  /\ SafeJob' /\ window' \in Seq(Nat)
           /\ throttled \/ pods = "crashLoop" => ~LawWrite("Shrink")'
<1>1. sample.used # None /\ Remember
    BY DEF ObservePlan, observe
<1> DEFINE PlanOf(o) ==
        plan_tick(o, effective_cfg, narrow(ReclaimPolicy, Dir), ReclaimPolicy,
                  BoundIntro, predictive, MaxStaleness, in_cooldown)
<1>2. PICK capable \in BOOLEAN :
        /\ pc' \in {"assign", "patch"}
        /\ pc' = "assign" => PlanOf(observation(capable)).arm = "Act"
        /\ \E r \in ReceiptKind :
              job' = Job(observation(capable), PlanOf(observation(capable)).decision, FALSE, r)
    <2>1. PICK capable \in capability_supported :
            LET obs  == observation(capable)
                plan == PlanOf(obs)
                receipt == CASE plan.arm = "Unrepresentable" -> "MetricUnrepresentable"
                             [] plan.arm = "Observe"         -> "Observed"
                             [] OTHER                        -> plan.arm
            IN IF plan.arm = "Act" THEN Carve(obs, plan.decision, FALSE)
               ELSE pc' = "patch" /\ job' = Job(obs, plan.decision, FALSE, receipt)
        BY DEF ObservePlan
    <2>2. capable \in BOOLEAN
        BY DEF capability_supported
    <2> DEFINE obs  == observation(capable)
               plan == PlanOf(obs)
    <2>3. plan.arm \in PlanKind
        <3>1. obs \in Observation /\ predictive \in [on : BOOLEAN, ahead : Int]
            BY <1>1, <2>2, ObservationType, PredictiveType
        <3> HIDE DEF obs
        <3>2. QED
            BY <3>1, EffectiveConfig, PlanSafe
    <2> HIDE DEF obs, plan
    <2>4. CASE plan.arm = "Act"
        <3>1. Carve(obs, plan.decision, FALSE)
            BY <2>1, <2>4 DEF obs, plan
        <3>2. QED
            BY <2>2, <2>4, <3>1, CarveStep DEF obs, plan
    <2>5. CASE plan.arm # "Act"
        <3>1. /\ pc' = "patch"
              /\ job' = Job(obs, plan.decision, FALSE,
                            CASE plan.arm = "Unrepresentable" -> "MetricUnrepresentable"
                              [] plan.arm = "Observe"         -> "Observed"
                              [] OTHER                        -> plan.arm)
            BY <2>1, <2>5 DEF obs, plan
        <3>2. (CASE plan.arm = "Unrepresentable" -> "MetricUnrepresentable"
                 [] plan.arm = "Observe"         -> "Observed"
                 [] OTHER                        -> plan.arm) \in ReceiptKind
            BY <2>3, <2>5 DEF PlanKind, ReceiptKind
        <3>3. QED
            BY <2>2, <3>1, <3>2 DEF obs, plan
    <2>6. QED
        BY <2>4, <2>5
<1> DEFINE obs  == observation(capable)
           plan == PlanOf(obs)
           d    == LawDecision(obs, effective_cfg, narrow(ReclaimPolicy, Dir),
                               ReclaimPolicy, predictive)
<1>3. /\ obs \in Observation /\ obs.peak >= obs.used
      /\ predictive \in [on : BOOLEAN, ahead : Int]
    BY <1>1, ObservationType, PredictiveType
<1>4. obs.throttled = throttled /\ obs.restarting = (pods = "crashLoop")
    BY DEF observation
<1> HIDE DEF obs
<1>5. plan.decision \in Decision /\ (plan.arm = "Act" => plan.decision = d)
    BY <1>3, EffectiveConfig, PlanSafe
<1>6. /\ d.from = obs.limit
      /\ d.kind = "Shrink" => ~obs.throttled /\ ~obs.restarting
      /\ d.kind = "Shrink" /\ obs.limit <= effective_cfg.ceiling_bytes
            => /\ SafeShrink(d, obs.peak, effective_cfg)
               /\ ~metric_untrusted(obs.used, effective_cfg)
    BY <1>3, EffectiveConfig, LawDecisionSafe
<1> HIDE DEF plan, d, PlanOf
<1>7. PICK r \in ReceiptKind : job' = Job(obs, plan.decision, FALSE, r)
    BY <1>2 DEF obs, plan
<1>8. /\ obs.used \in Nat /\ obs.peak \in Nat /\ obs.limit \in Nat
    BY <1>3 DEF Observation
<1>9. job' \in JobType
    BY <1>5, <1>7, <1>8, JobTyped DEF OptNat
<1>10. /\ job'.decision = plan.decision
       /\ job'.obs = [used |-> obs.used, peak |-> obs.peak, limit |-> obs.limit]
    BY <1>7 DEF Job
<1>11. pc' = "assign" => plan.decision = d
    BY <1>2, <1>5 DEF obs, plan
<1>12. throttled \/ pods = "crashLoop" => ~LawWrite("Shrink")'
    BY <1>4, <1>6, <1>10, <1>11 DEF LawWrite
<1>13. SafeJob'
    <2> SUFFICES ASSUME EfficiencyShrink'
                 PROVE  /\ SafeShrink(job'.decision, job'.obs.peak, effective_cfg)
                        /\ job'.obs.peak >= job'.obs.used
                        /\ job'.obs.used \in Nat /\ job'.obs.peak \in Nat
                        /\ ~metric_untrusted(job'.obs.used, effective_cfg)
        BY <1>2, <1>9 DEF SafeJob, ShrinkSafe, effective_cfg
    <2>1. /\ job'.decision = d /\ d.kind = "Shrink" /\ d.from <= Cfg.ceiling_bytes
        BY <1>10, <1>11 DEF EfficiencyShrink, LawWrite
    <2>2. obs.limit <= effective_cfg.ceiling_bytes
        BY <1>6, <2>1, EffectiveConfig
    <2>3. QED
        BY <1>3, <1>6, <1>8, <1>10, <2>1, <2>2
<1>14. window' \in Seq(Nat)
    BY <1>1, RememberType
<1>15. QED
    BY <1>12, <1>13, <1>14

-----------------------------------------------------------------------------
(***************************************************************************)
(* The loop: the inductive invariant.                                      *)
(***************************************************************************)
\* TypeOK is inductive by itself; ShrinkCoversPeak is not, for it does not
\* say that the observation behind a pending shrink is complete (an absent
\* reading is the number -1) nor which configuration it was planned with.
IInv == TypeOK /\ ShrinkSafe

\* The loop starts in the invariant.
LEMMA InitIInv == Init => IInv
<1> SUFFICES ASSUME Init PROVE IInv
    OBVIOUS
<1>1. demand \in Nat /\ limit \in Nat
    BY BandLoopAssumption DEF Init
<1>2. window \in Seq(Nat)
    BY EmptySeq DEF Init
<1>3. job \in JobType
    BY DEF Init, NoJob, NoObs, JobType, OptNat, Stay, Decide, Decision, DecisionKind, ReceiptKind
<1>4. status \in BandStatus /\ cache \in BandStatus
    BY DEF Init, NoStatus, BandStatus, OptNat
<1>5. TypeOK
    BY <1>1, <1>2, <1>3, <1>4 DEF Init, TypeOK, JobType, OptNat, Pins
<1>6. ShrinkSafe
    BY DEF Init, ShrinkSafe, EfficiencyShrink, LawWrite
<1>7. QED
    BY <1>5, <1>6 DEF IInv

\* A tick that observes preserves it.
LEMMA ObserveIInv == IInv /\ Observe => IInv'
<1> SUFFICES ASSUME TypeOK, Observe PROVE IInv'
    BY DEF IInv
<1>1. SafeJob' /\ window' \in Seq(Nat)
    BY ObserveFailsSafe, ObserveForcedSafe, ObservePlanSafe DEF Observe
<1>2. UNCHANGED <<now, demand, sample, limit, owner, pods, throttled,
                  spec, status, cache, dropped, wrote>>
    BY DEF Observe, cluster
<1>3. TypeOK'
    BY <1>1, <1>2 DEF TypeOK, SafeJob, JobType
<1>4. QED
    BY <1>1, <1>3 DEF IInv, SafeJob

\* A write preserves it: the tick moves on to its status patch.
LEMMA AssignIInv == IInv /\ Assign => IInv'
<1> SUFFICES ASSUME TypeOK, Assign PROVE IInv'
    BY DEF IInv
<1>1. job.decision.to \in Nat
    BY DEF TypeOK, Decision
<1>2. pc' = "patch" /\ limit' \in Nat /\ owner' \in {"none", "breathe", "other"}
      /\ wrote' \in OptNat
    BY <1>1 DEF Assign, TypeOK, OptNat
<1>3. job' \in JobType
    BY DEF Assign, TypeOK, JobType, ReceiptKind
<1>4. UNCHANGED <<now, demand, sample, pods, throttled, spec, status, cache, dropped, window>>
    BY DEF Assign
<1>5. TypeOK'
    BY <1>2, <1>3, <1>4 DEF TypeOK, JobType
<1>6. ShrinkSafe'
    BY <1>2 DEF ShrinkSafe, EfficiencyShrink, LawWrite
<1>7. QED
    BY <1>5, <1>6 DEF IInv

\* The steps that end a tick, or deliver a status, leave no write pending.
LEMMA PatchIInv == IInv /\ (PatchStatus \/ PatchFails \/ Crash \/ WatchDelivers) => IInv'
<1> SUFFICES ASSUME IInv, PatchStatus \/ PatchFails \/ Crash \/ WatchDelivers PROVE IInv'
    OBVIOUS
<1> USE DEF IInv
<1>1. NoJob \in JobType
    BY DEF NoJob, NoObs, JobType, OptNat, Stay, Decide, Decision, DecisionKind, ReceiptKind
<1>2. CASE PatchStatus
    <2>1. /\ now \in Nat /\ status \in BandStatus
          /\ job.obs \in [used : OptNat, peak : OptNat, limit : OptNat]
          /\ job.warmup_start \in OptNat
        BY DEF TypeOK
    <2>2. status_for \in BandStatus
        BY <2>1 DEF status_for, BandStatus, OptNat
    <2>3. Merged(status_for) \in BandStatus
        BY <2>1, <2>2 DEF Merged, Kept, BandStatus
    <2>4. status' \in BandStatus
        BY <1>2, <2>1, <2>3 DEF PatchStatus
    <2>5. TypeOK'
        BY <1>1, <1>2, <2>4 DEF PatchStatus, cluster, TypeOK, JobType
    <2>6. QED
        BY <1>2, <2>5 DEF PatchStatus, ShrinkSafe, EfficiencyShrink, LawWrite
<1>3. CASE PatchFails
    BY <1>1, <1>3 DEF PatchFails, cluster, TypeOK, JobType, ShrinkSafe, EfficiencyShrink, LawWrite
<1>4. CASE Crash
    BY <1>1, <1>4 DEF Crash, cluster, TypeOK, JobType, ShrinkSafe, EfficiencyShrink, LawWrite
<1>5. CASE WatchDelivers
    <2>1. TypeOK'
        BY <1>5 DEF WatchDelivers, cluster, TypeOK
    <2>2. UNCHANGED <<pc, job>>
        BY <1>5 DEF WatchDelivers
    <2>3. QED
        BY <2>1, <2>2 DEF ShrinkSafe, EfficiencyShrink, LawWrite, effective_cfg
<1>6. QED
    BY <1>2, <1>3, <1>4, <1>5

\* The cluster moves under a tick without touching it.
LEMMA ClusterIInv ==
    ASSUME IInv,
           \/ Tick \/ Scrape \/ DemandMoves \/ PodRecreated \/ ScaleToZero \/ ScaleUp
           \/ CrashLoop \/ Throttle \/ OtherWriter \/ Operator
    PROVE  IInv'
<1> USE DEF IInv
<1>1. UNCHANGED <<status, cache, pc, job, window, wrote>>
    BY DEF Tick, Scrape, DemandMoves, PodRecreated, ScaleToZero, ScaleUp, CrashLoop,
           Throttle, OtherWriter, Operator, controller
<1>2. ShrinkSafe'
    BY <1>1 DEF ShrinkSafe, EfficiencyShrink, LawWrite, effective_cfg
<1>3. /\ Demands \subseteq Nat /\ TemplateLimit \in Nat /\ OtherLimits \subseteq Nat
    BY BandLoopAssumption
<1>4. TypeOK'
    <2>1. CASE Tick
        BY <1>1, <2>1 DEF Tick, TypeOK, cluster
    <2>2. CASE Scrape
        BY <1>1, <2>2 DEF Scrape, TypeOK, OptNat
    <2>3. CASE DemandMoves
        BY <1>1, <1>3, <2>3 DEF DemandMoves, TypeOK, OptNat
    <2>4. CASE PodRecreated
        BY <1>1, <1>3, <2>4 DEF PodRecreated, RestartShows, TypeOK
    <2>5. CASE ScaleToZero
        BY <1>1, <2>5 DEF ScaleToZero, TypeOK
    <2>6. CASE ScaleUp
        BY <1>1, <1>3, <2>6 DEF ScaleUp, RestartShows, TypeOK, OptNat
    <2>7. CASE CrashLoop
        BY <1>1, <2>7 DEF CrashLoop, TypeOK
    <2>8. CASE Throttle
        BY <1>1, <2>8 DEF Throttle, TypeOK
    <2>9. CASE OtherWriter
        BY <1>1, <1>3, <2>9 DEF OtherWriter, TypeOK
    <2>10. CASE Operator
        <3>1. spec' \in [live : BOOLEAN, force : Pins, suspended : BOOLEAN]
            BY <2>10 DEF Operator, TypeOK
        <3>2. QED
            BY <1>1, <2>10, <3>1 DEF Operator, TypeOK, cluster
    <2>11. QED
        BY <2>1, <2>2, <2>3, <2>4, <2>5, <2>6, <2>7, <2>8, <2>9, <2>10
<1>5. QED
    BY <1>2, <1>4

\* Every step preserves it.
LEMMA NextIInv == IInv /\ [Next]_vars => IInv'
<1> SUFFICES ASSUME IInv, [Next]_vars PROVE IInv'
    OBVIOUS
<1>1. CASE Controller
    BY <1>1, ObserveIInv, AssignIInv, PatchIInv DEF Controller
<1>2. CASE Environment
    BY <1>2, ClusterIInv, PatchIInv DEF Environment
<1>3. CASE UNCHANGED vars
    BY <1>3 DEF vars, cluster, IInv, TypeOK, ShrinkSafe, EfficiencyShrink, LawWrite,
                effective_cfg
<1>4. QED
    BY <1>1, <1>2, <1>3 DEF Next

\* The invariant of the loop.
LEMMA IInvHolds == Spec => []IInv
BY InitIInv, NextIInv, PTL DEF Spec

-----------------------------------------------------------------------------
(***************************************************************************)
(* Theorems.                                                               *)
(***************************************************************************)
\* Type correctness of the reconcile loop, for every configuration and every
\* set of faults.
THEOREM TypeCorrect == Spec => []TypeOK
<1>1. IInv => TypeOK
    BY DEF IInv
<1>2. QED
    BY <1>1, IInvHolds, PTL

\* Never OOM from a carve: every shrink the loop is about to write seats the
\* peak its tick carried at the setpoint, and stays above the live request
\* and the band's floor, whatever crashes, lost patches, stale caches and
\* demand did before (safety_clamp, reconcile_one).
THEOREM ShrinkSeatsPeak == Spec => []ShrinkCoversPeak
<1>1. ASSUME IInv PROVE ShrinkCoversPeak
    <2> SUFFICES ASSUME EfficiencyShrink
                 PROVE  /\ job.decision.to >= LiveRequest
                        /\ job.decision.to >= Cfg.floor_bytes
                        /\ job.decision.to * Cfg.setpoint >= 100 * job.obs.peak
                        /\ job.obs.peak >= job.obs.used
        BY DEF ShrinkCoversPeak
    <2>1. /\ SafeShrink(job.decision, job.obs.peak, effective_cfg)
          /\ job.obs.peak >= job.obs.used
        BY <1>1 DEF IInv, ShrinkSafe
    <2>2. job.decision.to \in Nat /\ LiveRequest \in Nat
          /\ effective_cfg.request_floor_bytes \in Nat
        BY <1>1, BandLoopAssumption, EffectiveConfig
           DEF IInv, TypeOK, Decision, UsableConfig, BandConfig
    <2>3. QED
        BY <2>1, <2>2, EffectiveConfig DEF SafeShrink
<1>2. QED
    BY <1>1, IInvHolds, PTL

\* A zero reading never lowers a limit: an efficiency shrink always comes
\* from a reading the metric-missing policy trusts.
THEOREM ZeroNeverShrinks == Spec => []UntrustedNeverShrinks
<1>1. ASSUME IInv PROVE UntrustedNeverShrinks
    BY <1>1, EffectiveConfig
       DEF IInv, ShrinkSafe, UntrustedNeverShrinks, metric_untrusted
<1>2. QED
    BY <1>1, IInvHolds, PTL

\* A workload that is throttled or crash-looping is never shrunk by the tick
\* that observes it.
THEOREM SuppressedNeverShrinks == Spec => NoStarve
<1>1. ASSUME IInv, [Next]_vars
      PROVE  [(throttled \/ pods = "crashLoop") /\ Observe => ~LawWrite("Shrink")']_vars
    <2> SUFFICES ASSUME throttled \/ pods = "crashLoop", Observe
                 PROVE  ~LawWrite("Shrink")'
        OBVIOUS
    <2>1. QED
        BY <1>1, ObserveFailsSafe, ObserveForcedSafe, ObservePlanSafe DEF Observe, IInv
<1>2. QED
    BY <1>1, IInvHolds, PTL DEF Spec, NoStarve

-----------------------------------------------------------------------------
(***************************************************************************)
(* The trailing window.                                                    *)
(***************************************************************************)
\* f fades the sample s over k ticks.
Fades(f, s, k) == f = [j \in 0..k |-> IF j = 0 THEN s ELSE MulFloor(f[j - 1], Decay)]

\* A sample can be faded over any number of ticks: a least number it cannot
\* be faded over would be one tick more than a number it can.
LEMMA FadingExists == ASSUME NEW s, NEW k \in Nat PROVE \E f : Fades(f, s, k)
<1> DEFINE K == {n \in Nat : ~\E f : Fades(f, s, n)}
<1>1. ASSUME K # {} PROVE FALSE
    <2>1. PICK m \in K : \A n \in K : m <= n
        <3>1. K \subseteq Nat
            OBVIOUS
        <3> HIDE DEF K
        <3>2. QED
            BY <1>1, <3>1, LeastNatural
    <2>2. m \in Nat /\ ~\E f : Fades(f, s, m)
        OBVIOUS
    <2>3. CASE m = 0
        <3> DEFINE g == [j \in 0..0 |-> s]
        <3>1. Fades(g, s, 0)
            BY DEF Fades
        <3>2. QED
            BY <2>2, <2>3, <3>1
    <2>4. CASE m # 0
        <3>1. m - 1 \in Nat /\ m - 1 \notin K
            BY <2>1, <2>2, <2>4
        <3>2. PICK f : Fades(f, s, m - 1)
            BY <3>1
        <3> DEFINE g == [j \in 0..m |-> IF j = 0 THEN s ELSE MulFloor(f[j - 1], Decay)]
        <3>3. \A j \in 0..(m - 1) : g[j] = f[j]
            <4>1. \A j \in 0..(m - 1) : f[j] = IF j = 0 THEN s ELSE MulFloor(f[j - 1], Decay)
                BY <3>2, Zenon DEF Fades
            <4>2. \A j \in 0..(m - 1) : j \in 0..m
                BY <2>2
            <4>3. QED
                BY <4>1, <4>2, Zenon
        <3>4. \A j \in 0..m : j # 0 => j - 1 \in 0..(m - 1)
            BY <2>2
        <3>5. g = [j \in 0..m |-> IF j = 0 THEN s ELSE MulFloor(g[j - 1], Decay)]
            <4>1. \A j \in 0..m : (IF j = 0 THEN s ELSE MulFloor(f[j - 1], Decay))
                                    = (IF j = 0 THEN s ELSE MulFloor(g[j - 1], Decay))
                <5> HIDE DEF g
                <5>1. QED
                    BY <3>3, <3>4
            <4>2. QED
                BY <4>1, Zenon
        <3> HIDE DEF g
        <3>6. Fades(g, s, m)
            BY <3>5, Zenon DEF Fades
        <3>7. QED
            BY <2>2, <3>6
    <2>5. QED
        BY <2>3, <2>4
<1>2. QED
    BY <1>1

\* Fading over more ticks goes through fading over fewer.
LEMMA FadingAgrees ==
    ASSUME NEW s, NEW k \in Nat, NEW l \in Nat, k <= l, NEW f, NEW g, Fades(f, s, k), Fades(g, s, l)
    PROVE  f[k] = g[k]
<1> DEFINE D == {j \in 0..k : f[j] # g[j]}
<1>1. \A j \in 0..k : f[j] = IF j = 0 THEN s ELSE MulFloor(f[j - 1], Decay)
    BY Zenon DEF Fades
<1>2. \A j \in 0..l : g[j] = IF j = 0 THEN s ELSE MulFloor(g[j - 1], Decay)
    BY Zenon DEF Fades
<1>3. ASSUME D # {} PROVE FALSE
    <2>1. PICK m \in D : \A n \in D : m <= n
        <3>1. D \subseteq Nat
            OBVIOUS
        <3> HIDE DEF D
        <3>2. QED
            BY <1>3, <3>1, LeastNatural
    <2>2. m \in 0..k /\ m \in 0..l /\ f[m] # g[m]
        OBVIOUS
    <2>3. m # 0
        BY <1>1, <1>2, <2>2
    <2>4. m - 1 \in 0..k /\ ~(m <= m - 1)
        BY <2>2, <2>3
    <2>5. f[m - 1] = g[m - 1]
        BY <2>1, <2>4
    <2>6. QED
        BY <1>1, <1>2, <2>2, <2>3, <2>5
<1>4. QED
    BY <1>3

\* One more tick fades a sample once more.
LEMMA FadedStep ==
    ASSUME NEW s, NEW k \in Nat
    PROVE  Faded(s, 0) = s /\ Faded(s, k + 1) = MulFloor(Faded(s, k), Decay)
<1>1. \A n \in Nat : \E f : Fades(f, s, n) /\ Faded(s, n) = f[n]
    <2> SUFFICES ASSUME NEW n \in Nat PROVE \E f : Fades(f, s, n) /\ Faded(s, n) = f[n]
        OBVIOUS
    <2>1. \E f : Fades(f, s, n)
        BY FadingExists
    <2> DEFINE h == CHOOSE f : f = [j \in 0..n |-> IF j = 0 THEN s ELSE MulFloor(f[j - 1], Decay)]
    <2>2. Fades(h, s, n)
        BY <2>1, Zenon DEF Fades
    <2>3. Faded(s, n) = h[n]
        BY Zenon DEF Faded
    <2> HIDE DEF h
    <2>4. QED
        BY <2>2, <2>3
<1>2. PICK z : Fades(z, s, 0) /\ Faded(s, 0) = z[0]
    BY <1>1
<1>3. PICK f : Fades(f, s, k) /\ Faded(s, k) = f[k]
    BY <1>1
<1>4. PICK g : Fades(g, s, k + 1) /\ Faded(s, k + 1) = g[k + 1]
    <2>1. k + 1 \in Nat
        OBVIOUS
    <2>2. QED
        BY <1>1, <2>1
<1>5. f[k] = g[k]
    <2>1. k + 1 \in Nat /\ k <= k + 1
        OBVIOUS
    <2>2. QED
        BY <1>3, <1>4, <2>1, FadingAgrees
<1>6. g[k + 1] = MulFloor(g[k], Decay)
    <2>1. \A j \in 0..(k + 1) : g[j] = IF j = 0 THEN s ELSE MulFloor(g[j - 1], Decay)
        BY <1>4, Zenon DEF Fades
    <2>2. k + 1 \in 0..(k + 1) /\ k + 1 # 0 /\ (k + 1) - 1 = k
        OBVIOUS
    <2>3. QED
        BY <2>1, <2>2
<1>7. z[0] = s
    <2>1. \A j \in 0..0 : z[j] = IF j = 0 THEN s ELSE MulFloor(z[j - 1], Decay)
        BY <1>2, Zenon DEF Fades
    <2>2. QED
        BY <2>1
<1>8. QED
    BY <1>2, <1>3, <1>4, <1>5, <1>6, <1>7

\* Fading keeps the order of samples.
LEMMA FadingOrders ==
    ASSUME NEW a \in Nat, NEW b \in Nat, a <= b
    PROVE  MulFloor(a, Decay) \in Nat /\ MulFloor(b, Decay) \in Nat
           /\ MulFloor(a, Decay) <= MulFloor(b, Decay)
<1>1. Decay \in Nat
    BY BandLoopAssumption
<1>2. a * Decay \in Nat /\ b * Decay \in Nat /\ a * Decay <= b * Decay
    BY <1>1
<1>3. QED
    BY <1>2 DEF MulFloor

\* A limit that seats a number at the setpoint is its rounded seat or more.
LEMMA SeatReached ==
    ASSUME NEW to \in Nat, NEW n \in Nat, NEW sp \in Nat, sp # 0, to * sp >= 100 * n
    PROVE  to >= DivCeil(n, sp)
<1> DEFINE a == n * 100 + sp - 1
<1>1. a \in Nat /\ a < to * sp + sp
    BY to * sp \in Nat
<1>2. a \div sp \in Nat /\ (a \div sp) * sp <= a
    BY <1>1
<1>3. ASSUME a \div sp >= to + 1 PROVE FALSE
    <2>1. (a \div sp) * sp >= (to + 1) * sp
        BY <1>2, <1>3
    <2>2. (to + 1) * sp = to * sp + sp
        OBVIOUS
    <2>3. QED
        BY <1>1, <1>2, <2>1, <2>2
<1>4. QED
    BY <1>1, <1>2, <1>3 DEF DivCeil

\* A peak covers the window: every sample, faded by the ticks since.
Covers(p, w) ==
    \A i \in 1..Len(w) : Faded(w[i], i - 1) \in Nat /\ Faded(w[i], i - 1) <= p

\* The peak that the next tick starts from.  While a tick is in progress that
\* observed something, it is the one it is about to patch.
NextPeak == IF pc # "idle" /\ job.obs.peak # None THEN job.obs.peak ELSE status.peak

\* ShrinkCoversWindow speaks of the tick in progress; what makes it true is
\* that each tick starts from the peak the one before it stored.
WindowCovered ==
    /\ cache = status
    /\ pc = "idle" => job = NoJob
    /\ window # <<>> => NextPeak # None /\ Covers(NextPeak, window)

\* No status patch is lost, late or cut off by a crash.
PatchesKept == Faults \cap {"patchFails", "crash", "watchLag"} = {}

\* The sample a tick remembers, and all those before it, are covered by the
\* peak it folds from them.
LEMMA RememberCovers ==
    ASSUME TypeOK, sample.used # None, Remember, cache = status,
           window # <<>> => status.peak # None /\ Covers(status.peak, window)
    PROVE  Covers(Larger(sample.used, peak_hint), window')
<1> DEFINE all == <<sample.used>> \o window
           n   == Smaller(Window, Len(window) + 1)
           top == Larger(sample.used, peak_hint)
<1>1. sample.used \in Nat /\ window \in Seq(Nat)
    BY DEF TypeOK, OptNat
<1>2. Len(window) \in Nat /\ (\A i \in 1..Len(window) : window[i] \in Nat)
      /\ (Len(window) = 0 => window = <<>>)
    BY <1>1
<1>3. /\ all \in Seq(Nat) /\ Len(all) = Len(window) + 1 /\ all[1] = sample.used
      /\ \A i \in 2..Len(all) : all[i] = window[i - 1]
    BY <1>1
<1>4. n \in Nat /\ n <= Len(all)
    BY <1>2, <1>3, BandLoopAssumption DEF Smaller
<1>5. Len(window') = n /\ \A i \in 1..n : window'[i] = all[i]
    <2>1. window' = SubSeq(all, 1, n)
        BY DEF Remember
    <2>2. \A i \in 1..n : all[i] \in Nat
        BY <1>3, <1>4
    <2> HIDE DEF all, n
    <2>3. QED
        BY <1>3, <1>4, <2>1, <2>2, SubSeqProperties
<1> HIDE DEF all, n
<1>6. peak_hint \in Nat /\ top \in Nat /\ top >= sample.used /\ top >= peak_hint
    <2>1. observation(TRUE) \in Observation
        BY ObservationType
    <2>2. /\ cache.peak \in OptNat /\ cache.used \in OptNat /\ Decay \in Nat
        BY BandLoopAssumption DEF TypeOK, BandStatus
    <2> DEFINE prior == IF cache.peak # None THEN cache.peak ELSE cache.used
    <2>3. prior # None => prior \in Nat
        BY <2>2 DEF OptNat, None
    <2>4. prior # None => MulFloor(prior, Decay) \in Nat
        BY <2>2, <2>3, Rounding
    <2>5. peak_hint \in Nat
        BY <2>4 DEF peak_hint
    <2>6. QED
        BY <1>1, <2>5 DEF Larger
<1>7. ASSUME NEW i \in 1..n
      PROVE  Faded(window'[i], i - 1) \in Nat /\ Faded(window'[i], i - 1) <= top
    <2>1. CASE i = 1
        <3>1. window'[i] = sample.used /\ i - 1 = 0 /\ 0 \in Nat
            BY <1>3, <1>4, <1>5, <2>1
        <3>2. Faded(window'[i], i - 1) = sample.used
            BY <3>1, FadedStep
        <3>3. QED
            BY <1>1, <1>6, <3>2
    <2>2. CASE i # 1
        <3> DEFINE j == i - 1
                   k == i - 2
        <3>1. /\ j \in 1..Len(window) /\ k \in Nat /\ j - 1 = k /\ i - 1 = k + 1
              /\ window'[i] = window[j] /\ window # <<>>
            <4>1. i \in 2..Len(all)
                BY <1>2, <1>3, <1>4, <2>2
            <4>2. j \in 1..Len(window) /\ k \in Nat /\ j - 1 = k /\ i - 1 = k + 1
                BY <1>2, <1>3, <4>1
            <4>3. window'[i] = window[j]
                BY <1>3, <1>5, <4>1
            <4>4. window # <<>>
                BY <4>2
            <4>5. QED
                BY <4>2, <4>3, <4>4
        <3>2. /\ Faded(window[j], k) \in Nat /\ Faded(window[j], k) <= status.peak
              /\ status.peak \in Nat
            BY <3>1 DEF Covers, TypeOK, BandStatus, OptNat
        <3>3. peak_hint = MulFloor(status.peak, Decay)
            BY <3>1 DEF peak_hint
        <3>4. MulFloor(Faded(window[j], k), Decay) \in Nat
              /\ MulFloor(Faded(window[j], k), Decay) <= peak_hint
            BY <3>2, <3>3, FadingOrders
        <3>5. Faded(window[j], k + 1) = MulFloor(Faded(window[j], k), Decay)
            BY <3>1, FadedStep
        <3> HIDE DEF j, k
        <3>6. QED
            BY <1>6, <3>1, <3>4, <3>5
    <2>3. QED
        BY <2>1, <2>2
<1> HIDE DEF top
<1>8. QED
    BY <1>5, <1>7 DEF Covers, top

\* Every step of an instance that loses no patch keeps the window covered.
LEMMA WindowNext ==
    ASSUME PatchesKept, IInv, WindowCovered, [Next]_vars
    PROVE  WindowCovered'
<1>0. TypeOK /\ cache = status /\ (pc = "idle" => job = NoJob)
      /\ (window # <<>> => NextPeak # None /\ Covers(NextPeak, window))
    BY DEF IInv, WindowCovered
<1>1. CASE Observe
    <2>1. pc = "idle" /\ status' = status /\ cache' = cache
        BY <1>1 DEF Observe
    <2>2. NextPeak = status.peak
        BY <2>1 DEF NextPeak
    <2>3. pc' \in {"assign", "patch"}
        BY <1>0, <1>1, ObserveFailsSafe, ObserveForcedSafe, ObservePlanSafe DEF Observe, SafeJob
    <2>4. CASE ObserveFails
        <3>1. job'.obs.peak = None /\ window' = window
            BY <2>4 DEF ObserveFails, Job, NoObs
        <3>2. NextPeak' = status.peak
            BY <2>1, <3>1 DEF NextPeak
        <3>3. QED
            BY <1>0, <2>1, <2>2, <2>3, <3>1, <3>2 DEF WindowCovered, Covers
    <2>5. CASE ObserveForced \/ ObservePlan
        <3>1. sample.used # None /\ Remember
            BY <2>5 DEF ObserveForced, ObservePlan, observe
        <3>2. job'.obs.peak = Larger(sample.used, peak_hint)
            <4>1. CASE ObserveForced
                <5>1. \E d, r : job' = Job(observation(TRUE), d, TRUE, r)
                    BY <4>1, CarveStep DEF ObserveForced
                <5>2. QED
                    BY <5>1 DEF Job, observation
            <4>2. CASE ObservePlan
                <5>1. \E c, d, r : job' = Job(observation(c), d, FALSE, r)
                    BY <4>2, CarveStep DEF ObservePlan
                <5>2. QED
                    BY <5>1 DEF Job, observation
            <4>3. QED
                BY <2>5, <4>1, <4>2
        <3>3. Covers(Larger(sample.used, peak_hint), window')
            BY <1>0, <2>2, <3>1, RememberCovers
        <3>4. job'.obs.peak # None
            <4>1. observation(TRUE) \in Observation
                BY <1>0, <3>1, ObservationType
            <4>2. Larger(sample.used, peak_hint) \in Nat
                BY <4>1 DEF observation, Observation
            <4>3. QED
                BY <3>2, <4>2 DEF None
        <3>5. NextPeak' = job'.obs.peak
            BY <2>3, <3>4 DEF NextPeak
        <3>6. QED
            BY <1>0, <2>1, <2>3, <3>2, <3>3, <3>4, <3>5 DEF WindowCovered, Covers
    <2>6. QED
        BY <1>1, <2>4, <2>5 DEF Observe
<1>2. CASE Assign
    <2>1. pc = "assign" /\ pc' = "patch" /\ UNCHANGED <<status, cache, window>>
        BY <1>2 DEF Assign
    <2>2. job'.obs = job.obs
        BY <1>0, <1>2 DEF Assign, TypeOK
    <2>3. NextPeak' = NextPeak
        BY <2>1, <2>2 DEF NextPeak
    <2>4. QED
        BY <1>0, <2>1, <2>3 DEF WindowCovered, Covers
<1>3. CASE PatchStatus
    <2>1. /\ pc = "patch" /\ pc' = "idle" /\ job' = NoJob /\ window' = window
          /\ cache' = status'
          /\ status' = Merged(status_for) \/ (status_for = cache /\ status' = status)
        BY <1>3 DEF PatchStatus, PatchesKept
    <2>2. status'.peak = Kept(job.obs.peak, status.peak)
        <3>1. CASE status' = Merged(status_for)
            BY <3>1 DEF Merged, status_for
        <3>2. CASE status_for = cache /\ status' = status
            BY <1>0, <3>2 DEF status_for, Kept
        <3>3. QED
            BY <2>1, <3>1, <3>2
    <2>3. NextPeak' = NextPeak
        BY <2>1, <2>2 DEF NextPeak, Kept
    <2>4. QED
        BY <1>0, <2>1, <2>3 DEF WindowCovered, Covers
<1>4. CASE PatchFails \/ Crash \/ WatchDelivers
    BY <1>0, <1>4 DEF PatchFails, Crash, WatchDelivers, PatchesKept
<1>5. CASE \/ Tick \/ Scrape \/ DemandMoves \/ PodRecreated \/ ScaleToZero \/ ScaleUp
           \/ CrashLoop \/ Throttle \/ OtherWriter \/ Operator \/ UNCHANGED vars
    <2>1. UNCHANGED <<status, cache, pc, job, window>>
        BY <1>5 DEF Tick, Scrape, DemandMoves, PodRecreated, ScaleToZero, ScaleUp, CrashLoop,
                    Throttle, OtherWriter, Operator, controller, vars
    <2>2. QED
        BY <1>0, <2>1 DEF WindowCovered, NextPeak, Covers
<1>6. QED
    BY <1>1, <1>2, <1>3, <1>4, <1>5 DEF Next, Controller, Environment

\* Where no patch is lost, a shrink seats every sample of the trailing window,
\* each faded by the ticks since it was observed, for a window of any length.
THEOREM ShrinkSeatsWindow == ASSUME PatchesKept PROVE Spec => []ShrinkCoversWindow
<1>1. Init => WindowCovered
    BY DEF Init, WindowCovered
<1>2. IInv /\ WindowCovered /\ [Next]_vars => WindowCovered'
    BY WindowNext
<1>3. Cfg.setpoint \in Nat /\ Cfg.setpoint # 0
    BY BandLoopAssumption DEF validate
<1>4. ASSUME IInv, WindowCovered PROVE ShrinkCoversWindow
    <2> SUFFICES ASSUME EfficiencyShrink, NEW i \in 1..Len(window)
                 PROVE  job.decision.to >= DivCeil(Faded(window[i], i - 1), Cfg.setpoint)
        BY DEF ShrinkCoversWindow
    <2> DEFINE n == Faded(window[i], i - 1)
    <2>1. /\ job.decision.to * Cfg.setpoint >= 100 * job.obs.peak /\ job.obs.peak \in Nat
        BY <1>4, EffectiveConfig DEF IInv, ShrinkSafe, SafeShrink
    <2>2. job.decision.to \in Nat /\ Cfg.setpoint \in Nat /\ Cfg.setpoint # 0
        BY <1>3, <1>4 DEF IInv, TypeOK, Decision
    <2>3. pc # "idle" /\ job.obs.peak # None
        BY <2>1 DEF EfficiencyShrink, LawWrite, None
    <2>4. window # <<>>
        BY <1>4 DEF IInv, TypeOK
    <2>5. n \in Nat /\ n <= job.obs.peak
        BY <1>4, <2>3, <2>4 DEF WindowCovered, NextPeak, Covers
    <2> HIDE DEF n
    <2>6. job.decision.to * Cfg.setpoint >= 100 * n
        <3>1. job.decision.to * Cfg.setpoint \in Nat
            BY <2>2
        <3>2. QED
            BY <2>1, <2>5, <3>1
    <2>7. job.decision.to >= DivCeil(n, Cfg.setpoint)
        BY <2>2, <2>5, <2>6, SeatReached
    <2>8. QED
        BY <2>7 DEF n
<1>5. QED
    BY <1>1, <1>2, <1>4, IInvHolds, PTL DEF Spec

-----------------------------------------------------------------------------
(***************************************************************************)
(* The cooldown.                                                           *)
(***************************************************************************)
\* The write the status remembers is no older than the last one, but for the
\* write that the tick in progress has still to report; a write of the law
\* under way was decided after the cooldown.
SpacingInv ==
    /\ cache = status
    /\ wrote # None => wrote <= now
    /\ wrote # None /\ ~(pc = "patch" /\ job.receipt = "Applied")
         => status.last_change # None /\ wrote <= status.last_change
    /\ pc = "assign" => job.receipt = "Applied"
    /\ pc = "assign" /\ ~job.forced /\ wrote # None => now - wrote >= CooldownSecs

\* No tick acts in its cooldown.
LEMMA CooldownHolds ==
    ASSUME NEW obs, NEW c, NEW dir, NEW reclaim, NEW intro, NEW predicted, NEW stale
    PROVE  plan_tick(obs, c, dir, reclaim, intro, predicted, stale, TRUE).arm # "Act"
BY DEF plan_tick, Plan, LawDecision

\* What a tick that observes leaves to be written: reported as a change, and
\* decided by the law only outside the cooldown.
LEMMA ObserveSpaced ==
    ASSUME Observe, pc' = "assign"
    PROVE  job'.receipt = "Applied" /\ (~job'.forced => ~in_cooldown)
<1>1. CASE ObserveFails
    BY <1>1 DEF ObserveFails
<1>2. CASE ObserveForced
    <2>1. PICK d : job' = Job(observation(TRUE), d, TRUE, "Applied")
        BY <1>2 DEF ObserveForced, Carve
    <2>2. QED
        BY <2>1 DEF Job
<1>3. CASE ObservePlan
    <2>1. PICK capable \in capability_supported :
             LET plan == plan_tick(observation(capable), effective_cfg, narrow(ReclaimPolicy, Dir), ReclaimPolicy,
                                   BoundIntro, predictive, MaxStaleness, in_cooldown)
             IN plan.arm = "Act" /\ Carve(observation(capable), plan.decision, FALSE)
        BY <1>3 DEF ObservePlan
    <2> DEFINE plan == plan_tick(observation(capable), effective_cfg, narrow(ReclaimPolicy, Dir), ReclaimPolicy,
                                 BoundIntro, predictive, MaxStaleness, in_cooldown)
    <2>2. plan.arm = "Act" /\ Carve(observation(capable), plan.decision, FALSE)
        BY <2>1
    <2>3. in_cooldown \in BOOLEAN
        BY DEF in_cooldown
    <2>4. ~in_cooldown
        BY <2>2, <2>3, CooldownHolds
    <2> HIDE DEF plan
    <2>5. job' = Job(observation(capable), plan.decision, FALSE, "Applied")
        BY <2>2 DEF Carve
    <2>6. QED
        BY <2>4, <2>5 DEF Job
<1>4. QED
    BY <1>1, <1>2, <1>3 DEF Observe

\* What was long enough ago stays so.
LEMMA LaterStill ==
    ASSUME NEW t \in Nat, NEW u \in Nat, NEW w \in Nat, NEW n \in Nat, u >= t, t - w >= n
    PROVE  u - w >= n
OBVIOUS

\* Every step of an instance that loses no patch keeps the memory of the
\* last write.
LEMMA SpacingNext ==
    ASSUME PatchesKept, TypeOK, SpacingInv, [Next]_vars
    PROVE  SpacingInv'
<1>0. /\ cache = status
      /\ wrote # None => wrote <= now
      /\ wrote # None /\ ~(pc = "patch" /\ job.receipt = "Applied")
           => status.last_change # None /\ wrote <= status.last_change
      /\ pc = "assign" => job.receipt = "Applied"
      /\ pc = "assign" /\ ~job.forced /\ wrote # None => now - wrote >= CooldownSecs
    BY DEF SpacingInv
<1>t. /\ now \in Nat /\ CooldownSecs \in Nat /\ wrote \in OptNat
      /\ status.last_change \in OptNat /\ None = -1
    BY BandLoopAssumption DEF TypeOK, BandStatus, None
<1>1. CASE Observe
    <2>1. pc = "idle" /\ UNCHANGED <<now, status, cache, wrote>>
        BY <1>1 DEF Observe
    <2>2. pc' = "assign" => job'.receipt = "Applied" /\ (~job'.forced => ~in_cooldown)
        BY <1>1, ObserveSpaced
    <2>3. wrote # None => status.last_change # None /\ wrote <= status.last_change
        BY <1>0, <2>1
    <2>4. ~in_cooldown /\ wrote # None => now - wrote >= CooldownSecs
        BY <1>0, <1>t, <2>3 DEF in_cooldown, OptNat
    <2>5. QED
        BY <1>0, <2>1, <2>2, <2>3, <2>4 DEF SpacingInv
<1>2. CASE Assign
    <2>1. pc = "assign" /\ pc' = "patch" /\ UNCHANGED <<now, status, cache>>
        BY <1>2 DEF Assign
    <2>2. CASE job' = job /\ wrote' \in {now, wrote}
        BY <1>0, <1>t, <2>1, <2>2 DEF SpacingInv
    <2>3. CASE wrote' = wrote
        BY <1>0, <2>1, <2>3 DEF SpacingInv
    <2>4. QED
        BY <1>2, <2>2, <2>3 DEF Assign
<1>3. CASE PatchStatus
    <2>1. /\ pc = "patch" /\ pc' = "idle" /\ UNCHANGED <<now, wrote>> /\ cache' = status'
          /\ status' = Merged(status_for) \/ (status_for = cache /\ status' = status)
        BY <1>3 DEF PatchStatus, PatchesKept
    <2>2. status'.last_change = IF job.receipt = "Applied" THEN now ELSE status.last_change
        <3>1. CASE status' = Merged(status_for)
            BY <1>t, <3>1 DEF Merged, status_for, Kept
        <3>2. CASE status_for = cache /\ status' = status
            BY <1>0, <1>t, <3>2 DEF status_for
        <3>3. QED
            BY <2>1, <3>1, <3>2
    <2>3. wrote # None => status'.last_change # None /\ wrote <= status'.last_change
        BY <1>0, <1>t, <2>2
    <2>4. QED
        BY <1>0, <2>1, <2>3 DEF SpacingInv
<1>4. CASE PatchFails \/ Crash \/ WatchDelivers
    BY <1>0, <1>4 DEF PatchFails, Crash, WatchDelivers, PatchesKept
<1>5. CASE \/ Tick \/ Scrape \/ DemandMoves \/ PodRecreated \/ ScaleToZero \/ ScaleUp
           \/ CrashLoop \/ Throttle \/ OtherWriter \/ Operator \/ UNCHANGED vars
    <2>1. UNCHANGED <<status, cache, pc, job, wrote>>
        BY <1>5 DEF Tick, Scrape, DemandMoves, PodRecreated, ScaleToZero, ScaleUp, CrashLoop,
                    Throttle, OtherWriter, Operator, controller, vars
    <2>2. now' \in Nat /\ now' >= now
        BY <1>5, <1>t DEF Tick, Scrape, DemandMoves, PodRecreated, ScaleToZero, ScaleUp, CrashLoop,
                          Throttle, OtherWriter, Operator, vars
    <2>3. wrote # None => wrote \in Nat /\ wrote <= now'
        BY <1>0, <1>t, <2>2 DEF OptNat
    <2>4. ASSUME wrote # None, now - wrote >= CooldownSecs PROVE now' - wrote >= CooldownSecs
        <3>1. wrote \in Nat /\ now \in Nat /\ CooldownSecs \in Nat
            BY <1>t, <2>3, <2>4
        <3>2. QED
            BY <2>2, <2>4, <3>1, LaterStill
    <2>5. QED
        BY <1>0, <2>1, <2>3, <2>4 DEF SpacingInv
<1>6. QED
    BY <1>1, <1>2, <1>3, <1>4, <1>5 DEF Next, Controller, Environment

\* Where no patch is lost, two writes of the law are a cooldown apart, for
\* every cooldown, whatever pins, suspensions, shadow periods and failed
\* writes come between them.
THEOREM WritesAreSpaced == ASSUME PatchesKept PROVE Spec => WritesSpaced
<1>1. Init => SpacingInv
    BY DEF Init, SpacingInv
<1>2. IInv /\ SpacingInv /\ [Next]_vars => SpacingInv'
    BY SpacingNext DEF IInv
<1>3. IInv /\ SpacingInv /\ [Next]_vars => [~WritesTooSoon]_vars
    <2> SUFFICES ASSUME IInv, SpacingInv, WritesTooSoon PROVE FALSE
        OBVIOUS
    <2>1. now - wrote >= CooldownSecs /\ now - wrote < CooldownSecs
        BY DEF SpacingInv, WritesTooSoon, LawWrites
    <2>2. now \in Nat /\ wrote \in Int /\ CooldownSecs \in Nat
        BY BandLoopAssumption DEF IInv, TypeOK, OptNat, None
    <2>3. QED
        BY <2>1, <2>2
<1>4. QED
    BY <1>1, <1>2, <1>3, IInvHolds, PTL DEF Spec, WritesSpaced
=============================================================================
