--------------------------- MODULE LifecycleBreath ---------------------------
(***************************************************************************)
(* The lifecycle breath (breathe-control/src/lifecycle.rs): a workload     *)
(* wakes from zero under a generous limit, is tightened step by step to    *)
(* its setpoint, rests there, goes idle, and is scaled to zero.            *)
(*                                                                         *)
(* plan_lifecycle_tick is pure and its driver is not in the repository.    *)
(* What the driver must do is stated at the end of the file, and Apply is  *)
(* exactly that: write what the plan actuates, learn the startup minimum   *)
(* in Wake, mark a step clean after its shadow window, and persist a       *)
(* phase.  On the last the file says two things that differ, and Driver    *)
(* chooses between them: "typed" applies the transitions of Lifecycle<P>,  *)
(* so the first Tighten of Wake is a settle; "persisted" writes the plan's *)
(* next_phase, "the phase to persist to status after this tick".           *)
(*                                                                         *)
(* Epochs are ages, capped where no comparison can tell them apart.        *)
(***************************************************************************)
EXTENDS BandLaw, Sequences

CONSTANTS
    LifecycleConfig,  \* the resolved configuration, a record
    Needs,            \* working sets the workload may have
    LiveGate,         \* the values of LifecycleGate.dry_run the band may have
    Signals,          \* what else a tick may read, some of Reading
    Driver            \* how the phase is advanced: "typed" or "persisted"

\* The optional values of the code.
None == -1

VARIABLES
    phase,     \* the PhaseTag persisted in the status
    carry,     \* LifecycleCarry
    limit,     \* the limit the cluster enforces; 0 while scaled to zero
    need,      \* the working set of the workload
    peak,      \* its demonstrated peak
    observed,  \* ticks since its last start
    signals,   \* what else the nervous system reads
    wrote      \* the tightening step the last tick planned, and what became of it

breath_vars == <<phase, carry, limit, need, peak, observed, signals, wrote>>

PhaseTag == {"Zero", "Wake", "Settle", "Steady", "Idle"}

Steadyband == LifecycleConfig.steady

(***************************************************************************)
(* Configuration.                                                          *)
(***************************************************************************)
\* LifecycleConfig::validate.
validate_lifecycle(c) ==
    /\ validate(c.steady)
    /\ c.expansion_factor >= 100
    /\ c.settle_step_factor \in 1..99
    /\ c.idle_below \in 1..100
    /\ c.idle_to_zero_secs > 0 /\ c.expansion_max_secs > 0 /\ c.settle_max_secs > 0

ASSUME LifecycleConfigValid ==
    /\ LifecycleConfig \in
         [steady : BandConfig, expansion_factor : Nat, settle_step_factor : Nat, idle_below : Nat,
          idle_to_zero_secs : Nat, expansion_max_secs : Nat, settle_max_secs : Nat]
    /\ validate_lifecycle(LifecycleConfig)
    /\ Needs \subseteq Nat /\ LiveGate \subseteq BOOLEAN
    /\ Driver \in {"typed", "persisted"}

ClampTo(n, lo, hi) == IF n < lo THEN lo ELSE IF n > hi THEN hi ELSE n

\* The generous limit a woken workload starts under.
expansion_limit(startup_ws) ==
    LET seed     == Larger(Larger(startup_ws, Steadyband.request_floor_bytes),
                           Steadyband.floor_bytes)
        expanded == (seed * LifecycleConfig.expansion_factor + Steadyband.setpoint - 1)
                        \div Steadyband.setpoint
    IN Larger(ClampTo(expanded, Steadyband.floor_bytes, Steadyband.ceiling_bytes), 1)

steady_target(proof) == soft_min(proof.used, Steadyband)

\* Mutant: the floor forgets what startup was seen to need.
tighten_floor_of_used(proof, startup_observed_min) ==
    safe_min(proof.used, proof.used, Steadyband)

\* The proven need: the seated peak, and what startup was seen to need.
tighten_floor(proof, startup_observed_min) ==
    Larger(safe_min(proof.peak, proof.used, Steadyband), startup_observed_min)

\* Headroom is bought by the expansion factor, up to the ceiling.  The clamp's
\* lower bound is the current limit: u64::clamp panics when that is above the
\* ceiling.
Base(current) == Larger(current, Steadyband.floor_bytes)

grow_panics(current) == Base(current) > Steadyband.ceiling_bytes

grow_headroom(current) ==
    ClampTo(MulCeil(Base(current), LifecycleConfig.expansion_factor),
            Base(current), Steadyband.ceiling_bytes)

(***************************************************************************)
(* What a tick senses.                                                     *)
(***************************************************************************)
Reading == [used : {None, 0, 1}, ready : {"unknown", "yes", "no"},
            load : {"unknown", "quiet", "active"}, health : {"ok", "oom", "restart", "probe"},
            schedule : {"unknown", "on", "off"}, over_budget : BOOLEAN, dependencies : BOOLEAN]

ASSUME SignalsAssumption == Signals \subseteq Reading

Demand(s) == s.load = "active"

\* Signals::any_wake.
any_wake(s) == Demand(s) \/ s.schedule = "on" \/ s.ready = "yes" \/ s.dependencies

\* Signals::is_struggling.
is_struggling(s) == s.health # "ok" \/ s.ready = "no"

\* The working set as reported: the workload's, or a degraded reading.
Used == IF signals.used \in {None, 0} THEN signals.used ELSE need

\* Confirmed::parse accepts the reading.
Trusted ==
    /\ Used \notin {None, 0}
    /\ limit > 0
    /\ observed >= Steadyband.warmup_seconds

\* A Confirmed, which only a trusted reading yields.
Proof == [used |-> Used, capacity |-> limit, peak |-> Larger(peak, Used)]

(***************************************************************************)
(* One tick's decision.  "to" is the limit a decision seats.               *)
(***************************************************************************)
Verdict(kind, to) == [kind |-> kind, from |-> carry.current_limit, to |-> to, shadow_only |-> FALSE]

\* ShadowProvenStep::plan: one step down, never past the setpoint's target or
\* the proven need.
Bottom     == Larger(steady_target(Proof), tighten_floor(Proof, carry.startup_observed_min))
StepExists == carry.current_limit > Bottom
StepTo     == Larger(Smaller(Larger(MulFloor(carry.current_limit,
                                             LifecycleConfig.settle_step_factor), Bottom),
                             carry.current_limit - 1), Bottom)

Tighten(shadow_only) == [Verdict("Tighten", StepTo) EXCEPT !.shadow_only = shadow_only]

ReachedSetpoint ==
    Verdict("ReachedSetpoint",
            Larger(carry.current_limit, tighten_floor(Proof, carry.startup_observed_min)))

fuse_wake ==
    IF Used * 100 < Steadyband.setpoint * limit \/ carry.age >= LifecycleConfig.expansion_max_secs
      THEN IF StepExists THEN Tighten(TRUE) ELSE ReachedSetpoint
      ELSE Verdict("Hold", limit)

\* Mutant: no timeout.
fuse_settle_untimed(dry_run) ==
    IF StepExists THEN Tighten(dry_run \/ carry.shadow_confirmed_for # carry.current_limit)
    ELSE ReachedSetpoint

fuse_settle(dry_run) ==
    IF StepExists /\ carry.age < LifecycleConfig.settle_max_secs
      THEN Tighten(dry_run \/ carry.shadow_confirmed_for # carry.current_limit)
      ELSE ReachedSetpoint

fuse_steady ==
    IF \/ Used * 100 < LifecycleConfig.idle_below * limit /\ ~Demand(signals)
       \/ signals.over_budget
       \/ signals.schedule = "off" /\ ~Demand(signals)
      THEN Verdict("Idle", limit) ELSE Verdict("Hold", limit)

fuse_idle ==
    IF Demand(signals) \/ signals.schedule = "on" THEN Verdict("Reload", limit)
    ELSE IF carry.age >= LifecycleConfig.idle_to_zero_secs \/ signals.over_budget
      THEN Verdict("ScaleToZero", 0) ELSE Verdict("Hold", limit)

\* Uncertainty and struggle come before every phase's own logic.
Expanding ==
    Verdict(IF phase \in {"Settle", "Steady"} THEN "ReExpand" ELSE "Expand",
            grow_headroom(carry.current_limit))

fuse(dry_run) ==
    IF phase = "Zero"
      THEN IF any_wake(signals)
             THEN Verdict("Wake", expansion_limit(Larger(Used, 0))) ELSE Verdict("Hold", 0)
    ELSE IF ~Trusted \/ is_struggling(signals) THEN Expanding
    ELSE CASE phase = "Wake"   -> fuse_wake
           [] phase = "Settle" -> fuse_settle(dry_run)
           [] phase = "Steady" -> fuse_steady
           [] phase = "Idle"   -> fuse_idle

\* plan_lifecycle_tick: upward moves are never held back.
Actuates(d, in_cooldown) ==
    \/ d.kind \in {"Wake", "Expand", "ReExpand", "ReachedSetpoint"}
    \/ d.kind = "Tighten" /\ ~d.shadow_only /\ ~in_cooldown

(***************************************************************************)
(* The driver.                                                             *)
(***************************************************************************)
\* LifecycleDecision::next_phase: a Tighten, a Hold and an Expand stay.
next_phase(d) ==
    CASE d.kind \in {"Wake", "ReExpand"}          -> "Wake"
      [] d.kind \in {"ReachedSetpoint", "Reload"} -> "Steady"
      [] d.kind = "Idle"                          -> "Idle"
      [] d.kind = "ScaleToZero"                   -> "Zero"
      [] OTHER                                    -> phase

\* fuse_wake leaves the step from Wake to Settle to its caller, who calls
\* Lifecycle<Wake>::settle on the first Tighten; the plan's own next_phase
\* never says Settle.
PersistedPhase(d) ==
    IF Driver = "typed" /\ phase = "Wake" /\ d.kind = "Tighten" THEN "Settle" ELSE next_phase(d)

\* The startup minimum is learned from confirmed readings in Wake.
Learned ==
    IF phase # "Wake" \/ ~Trusted THEN carry.startup_observed_min
    ELSE IF carry.startup_observed_min = 0 THEN Used
    ELSE Smaller(carry.startup_observed_min, Used)

\* The carry of the typed transition a decision takes.
Advance(d, actuated) ==
    LET seated == IF actuated THEN d.to ELSE carry.current_limit
        age    == IF PersistedPhase(d) # phase THEN 0 ELSE carry.age
    IN CASE d.kind = "Wake" ->
                [age |-> 0, current_limit |-> seated, startup_observed_min |-> 0,
                 shadow_confirmed_for |-> None]
         [] d.kind = "ReExpand" ->
                [carry EXCEPT !.age = 0, !.current_limit = Larger(seated, @),
                              !.shadow_confirmed_for = None]
         [] d.kind = "ReachedSetpoint" ->
                [carry EXCEPT !.age = 0, !.current_limit = seated,
                              !.shadow_confirmed_for = None]
         [] d.kind = "ScaleToZero" -> [carry EXCEPT !.age = 0, !.current_limit = 0]
         [] OTHER -> [carry EXCEPT !.age = age, !.current_limit = seated,
                                   !.startup_observed_min = Learned]

NoStep == [step_from |-> None, shadow_only |-> FALSE, actuated |-> FALSE]

\* A tick that panics writes nothing.
TickPanics ==
    phase # "Zero" /\ (~Trusted \/ is_struggling(signals)) /\ grow_panics(carry.current_limit)

\* One tick that decided d.
Apply(d, actuated) ==
    /\ wrote' = IF phase = "Settle" /\ d.kind = "Tighten"
                  THEN [step_from |-> d.from, shadow_only |-> d.shadow_only,
                        actuated |-> actuated]
                  ELSE NoStep
    /\ phase' = PersistedPhase(d)
    /\ carry' = Advance(d, actuated)
    /\ limit' = IF d.kind = "ScaleToZero" THEN 0 ELSE IF actuated THEN d.to ELSE limit
    /\ observed' = IF d.kind = "ScaleToZero" \/ phase = "Zero" THEN 0 ELSE observed
    /\ peak' = IF d.kind = "ScaleToZero" THEN 0
                ELSE Larger(peak, IF limit > 0 THEN need ELSE 0)
    /\ UNCHANGED <<need, signals>>

LifecycleTick ==
    /\ ~TickPanics
    /\ \E dry_run \in LiveGate, in_cooldown \in BOOLEAN :
        \E d \in {fuse(dry_run)} : Apply(d, Actuates(d, in_cooldown))

\* The shadow window of a proposed step passed clean.
ShadowConfirmed ==
    /\ phase = "Settle"
    /\ wrote.shadow_only /\ wrote.step_from = carry.current_limit
    /\ carry' = [carry EXCEPT !.shadow_confirmed_for = carry.current_limit]
    /\ carry' # carry
    /\ UNCHANGED <<phase, limit, need, peak, observed, signals, wrote>>

\* tighten_settled: the window after an effected step was no better than the
\* one before it, and the step is reverted through re_expand.
TightenReverted ==
    /\ phase = "Settle" /\ wrote.actuated
    /\ phase' = "Wake"
    /\ carry' = [carry EXCEPT !.age = 0, !.shadow_confirmed_for = None,
                              !.current_limit = Larger(wrote.step_from, @)]
    /\ limit' = carry'.current_limit
    /\ wrote' = NoStep
    /\ UNCHANGED <<need, peak, observed, signals>>

-----------------------------------------------------------------------------
(***************************************************************************)
(* The workload and what is read of it.                                    *)
(***************************************************************************)
\* Time passes: every age grows to where it no longer matters.
MaxAge == Larger(Larger(LifecycleConfig.idle_to_zero_secs, LifecycleConfig.expansion_max_secs),
                 LifecycleConfig.settle_max_secs)

Aging ==
    /\ carry' = [carry EXCEPT !.age = Smaller(@ + 1, MaxAge)]
    /\ observed' = IF limit = 0 THEN 0 ELSE Smaller(observed + 1, Steadyband.warmup_seconds)
    /\ <<carry, observed>>' # <<carry, observed>>
    /\ UNCHANGED <<phase, limit, need, peak, signals, wrote>>

NeedMoves ==
    /\ need' \in Needs \ {need}
    /\ UNCHANGED <<phase, carry, limit, peak, observed, signals, wrote>>

\* The spike leaves the trailing window.
PeakFades ==
    /\ peak > need
    /\ peak' = need
    /\ UNCHANGED <<phase, carry, limit, need, observed, signals, wrote>>

SignalMoves ==
    /\ signals' \in Signals \ {signals}
    /\ UNCHANGED <<phase, carry, limit, need, peak, observed, wrote>>

BreathInit ==
    /\ phase = "Zero" /\ limit = 0 /\ peak = 0 /\ observed = 0
    /\ carry = [age |-> 0, current_limit |-> 0, startup_observed_min |-> 0,
                shadow_confirmed_for |-> None]
    /\ need \in Needs
    /\ signals \in Signals
    /\ wrote = NoStep

BreathNext ==
    LifecycleTick \/ ShadowConfirmed \/ TightenReverted \/ Aging \/ NeedMoves
    \/ PeakFades \/ SignalMoves

BreathSpec == BreathInit /\ [][BreathNext]_breath_vars

\* The controller requeues every tick, time passes, and a shadow window that
\* stays clean is marked.
BreathFairSpec ==
    /\ BreathSpec
    /\ WF_breath_vars(LifecycleTick) /\ WF_breath_vars(Aging) /\ WF_breath_vars(ShadowConfirmed)

-----------------------------------------------------------------------------
(***************************************************************************)
(* Properties.                                                             *)
(***************************************************************************)
\* Whatever the readings do between ticks, the limit of a running workload
\* goes down only in a step that was shadowed from that very limit, on a
\* reading that is fresh, non-zero and past warmup, of a workload that does
\* not struggle, and it still seats the demonstrated peak and what startup
\* was seen to need.
DescentProven ==
    [][0 < limit' /\ limit' < limit =>
        /\ phase = "Settle" /\ Trusted /\ ~is_struggling(signals)
        /\ carry.shadow_confirmed_for = limit
        /\ limit' >= DivCeil(Larger(peak, need), Steadyband.setpoint)
        /\ limit' >= carry.startup_observed_min]_breath_vars

\* When a workload can come to rest.  Idle reloads at once while a schedule or
\* a demand wakes it, and Steady idles at once below its threshold or over
\* budget: a scheduled workload without load goes back and forth every tick.
Calm ==
    /\ signals.used = 1 /\ signals.health = "ok" /\ signals.ready = "unknown"
    /\ ~signals.over_budget /\ ~signals.dependencies
    /\ signals.schedule = "on" => Demand(signals)

\* No phase is a trap (fuse_wake, fuse_settle, fuse_idle: "can never trap"):
\* once readings can be trusted, nothing struggles and the load stops changing,
\* a workload comes to rest in Steady or in Zero, whether or not its tightening
\* steps are ever allowed to take effect.  It holds of the typed driver.  Under
\* the persisted one Wake is a trap: its timeout decides a Tighten every tick,
\* and next_phase leaves a Tighten where it is.
NeverStuck ==
    (/\ <>[]Calm
     /\ <>[][signals' = signals /\ need' = need /\ ~TightenReverted]_breath_vars)
        => <>[](phase \in {"Steady", "Zero"})

\* Planning a tick never panics (LifecycleError: "the typed error the caller
\* surfaces (never a panic)").
NeverPanics == ~TickPanics
=============================================================================
