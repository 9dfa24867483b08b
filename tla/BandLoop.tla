------------------------------ MODULE BandLoop ------------------------------
(***************************************************************************)
(* One band's reconcile loop (breathe-controller reconcile, breathe-core   *)
(* reconcile_one, breathe-provider BandProvider, breathe-runtime           *)
(* status_for) against one target field, with the cluster around it.       *)
(*                                                                         *)
(* A tick is not atomic.  It starts from the band object in the watch      *)
(* cache, observes the target and plans (Observe), writes the field        *)
(* (Assign) and patches the band's status (PatchStatus).  Between these    *)
(* the workload, the metrics pipeline, other field managers, the operator, *)
(* the API server and the controller process itself take steps.            *)
(*                                                                         *)
(* The cluster side (workload, metrics, API server, watch) is external to  *)
(* the repository and modelled from how the code uses it.                  *)
(***************************************************************************)
EXTENDS BandLaw, Sequences

CONSTANTS
    Cfg,             \* the band's BandConfig
    Dir,             \* the dimension's Directionality
    ReclaimPolicy,   \* Reclaim: ObserveOnly for memory, Enabled otherwise
    BoundIntro,      \* spec.boundIntroduction
    FieldLayout,     \* the LimitLayout the dimension writes
    Resource,        \* "cpu", "memory" or "storage"
    Policy,          \* the band's DisruptionPolicy
    CooldownSecs, MaxStaleness,
    Decay,           \* peak_decay, as a percentage (clamped to 0..99)
    Lookahead,       \* predictive lookahead in tick periods; 0 = not predictive
    Demands,         \* working sets the workload can have
    LiveRequest,     \* the pods' declared requests.<resource>
    TemplateLimit,   \* the limit a re-created pod starts with (0 = none)
    OtherLimits,     \* limits another field manager may write
    ForceLimits,     \* values an operator may pin with forceLimit
    Faults,          \* which environment events this instance exercises
    Window,          \* length of the history of observed samples
    MaxNow           \* bound on the clock

FaultKinds == {"demand", "zeroMetric", "missingMetric", "staleMetric", "recreate",
               "scaleToZero", "throttle", "crashLoop", "otherWriter", "gate", "force",
               "suspend", "patchFails", "applyFails", "crash", "watchLag", "incapable"}

None == -1

ASSUME BandLoopAssumption ==
    /\ Cfg \in BandConfig /\ validate(Cfg)
    /\ Dir \in Directionality /\ ReclaimPolicy \in Reclaim
    /\ BoundIntro \in BoundIntroduction
    /\ FieldLayout \in Layout /\ Policy \in DisruptionPolicy
    /\ CooldownSecs \in Nat /\ MaxStaleness \in Nat
    /\ Decay \in 0..99 /\ Lookahead \in Nat
    /\ Demands \subseteq Nat /\ Demands # {}
    /\ LiveRequest \in Nat /\ TemplateLimit \in Nat
    /\ OtherLimits \subseteq Nat /\ ForceLimits \subseteq Nat
    /\ Faults \subseteq FaultKinds
    /\ Window \in Nat /\ MaxNow \in Nat

VARIABLES
    now,       \* the wall clock, in seconds of the model
    demand,    \* the workload's true working set
    sample,    \* the last scrape: [used, at], used = None when it is missing
    limit,     \* the target field's live value; 0 = no limit declared
    owner,     \* who manages the field: "none", "breathe" or "other"
    pods,      \* "up", "zero" (scaled to zero), "crashLoop"
    throttled, \* the CFS throttle counter is moving
    spec,      \* the operator's side of the band: [live, force, suspended]
    status,    \* BandStatus as stored in the API server
    cache,     \* BandStatus as the controller's watch last delivered it
    pc,        \* where the controller is in its tick
    job,       \* the tick in progress
    dropped,   \* history: when pods last restarted below the recorded limit
    window,    \* history: the samples past ticks observed, newest first
    wrote      \* history: when breathe last changed the field

cluster == <<demand, sample, limit, owner, pods, throttled>>
vars == <<now, cluster, spec, status, cache, pc, job, dropped, window, wrote>>

(***************************************************************************)
(* BandStatus, as far as the loop reads it back.  None is an absent field. *)
(***************************************************************************)
OptNat == Nat \cup {None}
BandStatus == [used : OptNat, peak : OptNat, cap : OptNat,
               last_change : OptNat, warmup_start : OptNat]
NoStatus == [used |-> None, peak |-> None, cap |-> None,
             last_change |-> None, warmup_start |-> None]

ReceiptKind == {"Conflict", "MetricUnrepresentable", "CapabilityMissing", "Stale",
                "Cooldown", "Applied", "ShadowWouldApply", "DeferredWouldRestart",
                "Observed", "Warmup", "Throttled", "Dormant", "Error"}

\* obs of a tick that could not observe.
NoObs == [used |-> None, peak |-> None, limit |-> None]
NoJob == [obs |-> NoObs, decision |-> Stay("Hold", 0), forced |-> FALSE,
          warmup_start |-> None, receipt |-> "Observed"]

Pins == ForceLimits \cup {None}

TypeOK ==
    /\ now \in Nat
    /\ demand \in Nat
    /\ sample \in [used : OptNat, at : Nat]
    /\ limit \in Nat
    /\ owner \in {"none", "breathe", "other"}
    /\ pods \in {"up", "zero", "crashLoop"}
    /\ throttled \in BOOLEAN
    /\ spec \in [live : BOOLEAN, force : Pins, suspended : BOOLEAN]
    /\ status \in BandStatus /\ cache \in BandStatus
    /\ pc \in {"idle", "assign", "patch"}
    /\ job \in [obs : [used : OptNat, peak : OptNat, limit : OptNat], decision : Decision,
                forced : BOOLEAN, warmup_start : OptNat, receipt : ReceiptKind]
    /\ dropped \in Nat
    /\ window \in Seq(Nat)
    /\ wrote \in OptNat

Init ==
    /\ now = 0
    /\ demand \in Demands
    /\ sample = [used |-> demand, at |-> 0]
    /\ limit \in {TemplateLimit} \cup OtherLimits
    /\ owner = "none"
    /\ pods = "up" /\ throttled = FALSE
    /\ spec = [live |-> TRUE, force |-> None, suspended |-> FALSE]
    /\ status = NoStatus /\ cache = NoStatus
    /\ pc = "idle" /\ job = NoJob
    /\ dropped = 0 /\ window = <<>> /\ wrote = None

-----------------------------------------------------------------------------
(***************************************************************************)
(* The controller.                                                         *)
(***************************************************************************)
Elapsed(epoch) == IF now >= epoch THEN now - epoch ELSE 0

\* Mutant: a second short.
in_cooldown_short == cache.last_change # None /\ now - cache.last_change < CooldownSecs - 1

in_cooldown == cache.last_change # None /\ now - cache.last_change < CooldownSecs

\* warmup_state as reconcile calls it: the capacity it is handed is
\* obj.status().observed_capacity, which is also the prior it compares with.
warmup_start_epoch(observed_capacity) ==
    LET restarted == /\ observed_capacity # None /\ cache.cap # None
                     /\ observed_capacity < cache.cap
    IN IF Cfg.warmup_seconds = 0 \/ cache.warmup_start = None \/ restarted
       THEN now ELSE cache.warmup_start

warmup_state == warmup_start_epoch(cache.cap)

\* Mutant: carried from the last sample alone.
peak_hint_of_last == IF cache.used = None THEN 0 ELSE MulFloor(cache.used, Decay)

\* The decayed peak hint handed to reconcile_one, folded with the sample.
peak_hint ==
    LET prior == IF cache.peak # None THEN cache.peak ELSE cache.used
    IN IF prior = None THEN 0 ELSE MulFloor(prior, Decay)

\* field_owners: blind for an in-place pod resize.
field_owners ==
    IF FieldLayout = "PodResize" \/ owner = "none" THEN {}
    ELSE {[manager |-> owner, field |-> "limit"]}

\* Whether the field's backing store can grow, as one tick finds it: a
\* StorageClass may refuse to expand a claim.
capability_supported ==
    IF FieldLayout = "PvcRequest" /\ "incapable" \in Faults THEN BOOLEAN ELSE {TRUE}

\* BandProvider::observe, with reconcile_one's folds of the peak hint and of
\* the warmup age.
observation(capable) ==
    [used |-> sample.used,
     peak |-> Larger(sample.used, peak_hint),
     limit |-> limit,
     absent |-> limit = 0 /\ FieldLayout \in {"PodResize", "PodTemplate"},
     conflict |-> competing_field_manager(field_owners, "breathe", "limit"),
     staleness |-> Elapsed(sample.at),
     observed_for |-> Elapsed(warmup_state),
     throttled |-> throttled,
     restarting |-> pods = "crashLoop",
     capable |-> capable]

\* reconcile_one raises the request floor to the live pods' request.
effective_cfg == [Cfg EXCEPT !.request_floor_bytes = Larger(@, LiveRequest)]

\* The working-set velocity over the prior tick, projected over the lookahead.
predictive ==
    IF Lookahead = 0 \/ cache.used = None THEN [on |-> FALSE, ahead |-> 0]
    ELSE [on |-> TRUE, ahead |-> (sample.used - cache.used) * Lookahead]

Job(obs, d, forced, receipt) ==
    [obs |-> [used |-> obs.used, peak |-> obs.peak, limit |-> obs.limit],
     decision |-> d, forced |-> forced, warmup_start |-> warmup_state, receipt |-> receipt]

\* The mutation door: the disruption policy, then the gate resolved at the
\* start of the tick.  A shadow verdict holds no witness and cannot assign.
Carve(obs, d, forced) ==
    LET class == action_class(FieldLayout, Resource, d.to > d.from, FALSE)
    IN IF ~permits(Policy, class)
         THEN pc' = "patch" /\ job' = Job(obs, d, forced, "DeferredWouldRestart")
       ELSE IF ~spec.live
         THEN pc' = "patch" /\ job' = Job(obs, d, forced, "ShadowWouldApply")
       ELSE pc' = "assign" /\ job' = Job(obs, d, forced, "Applied")

\* History only: the sample this tick observed.
Remember == window' = SubSeq(<<sample.used>> \o window, 1, Smaller(Window, Len(window) + 1))

\* observe has pods and a sample to report on.
observe == pods # "zero" /\ sample.used # None

\* A tick whose observe failed: an empty pod group is Dormant, the rest Error.
ObserveFails ==
    /\ ~observe
    /\ job' = Job(NoObs, Stay("Hold", 0), FALSE, IF pods = "zero" THEN "Dormant" ELSE "Error")
    /\ pc' = "patch"
    /\ UNCHANGED window

\* Break-glass forceLimit: the pin, clamped to the band's range, past the law.
ObserveForced ==
    /\ observe
    /\ spec.force # None
    /\ LET to == Smaller(Larger(spec.force, Cfg.floor_bytes), Cfg.ceiling_bytes)
           d  == Decide(IF to > limit THEN "Grow" ELSE "Shrink", limit, to)
       IN IF to = limit
          THEN /\ job' = Job(observation(TRUE), Stay("Hold", limit), TRUE, "Observed")
               /\ pc' = "patch"
          ELSE Carve(observation(TRUE), d, TRUE)
    /\ Remember

\* Observe, plan, and either carve or report.
ObservePlan ==
    /\ observe
    /\ spec.force = None
    /\ \E capable \in capability_supported :
       LET obs  == observation(capable)
           plan == plan_tick(obs, effective_cfg, narrow(ReclaimPolicy, Dir), ReclaimPolicy,
                             BoundIntro, predictive, MaxStaleness, in_cooldown)
           receipt == CASE plan.arm = "Unrepresentable" -> "MetricUnrepresentable"
                        [] plan.arm = "Observe"         -> "Observed"
                        [] OTHER                        -> plan.arm
       IN IF plan.arm = "Act" THEN Carve(obs, plan.decision, FALSE)
          ELSE pc' = "patch" /\ job' = Job(obs, plan.decision, FALSE, receipt)
    /\ Remember

\* A suspended band skips observe, plan and act; the status it patches keeps
\* every field the loop reads back.
Observe ==
    /\ pc = "idle" /\ ~spec.suspended
    /\ ObserveFails \/ ObserveForced \/ ObservePlan
    /\ UNCHANGED <<now, cluster, spec, status, cache, dropped, wrote>>

\* assign: the field is read again, then written.  A server-side apply
\* without force is refused while another manager owns the field; the resize
\* subresource takes the write whoever else writes it.
Refused == FieldLayout # "PodResize" /\ owner = "other" /\ limit # job.decision.to

NoPods  == FieldLayout = "PodResize" /\ pods = "zero"

Assign ==
    /\ pc = "assign"
    /\ \/ /\ ~Refused /\ ~NoPods
          /\ limit' = job.decision.to
          /\ owner' = IF FieldLayout = "PodResize" \/ limit' = limit THEN owner ELSE "breathe"
          /\ wrote' = IF limit' # limit THEN now ELSE wrote
          /\ job' = job
       \/ /\ Refused \/ NoPods \/ "applyFails" \in Faults
          /\ job' = [job EXCEPT !.receipt = "Error"]
          /\ UNCHANGED <<limit, owner, wrote>>
    /\ pc' = "patch"
    /\ UNCHANGED <<now, demand, sample, pods, throttled, spec, status, cache, dropped, window>>

\* status_for: what this tick has to say, None where it says nothing.
status_for ==
    [used |-> job.obs.used, peak |-> job.obs.peak, cap |-> job.obs.limit,
     last_change |-> IF job.receipt = "Applied" THEN now ELSE None,
     warmup_start |-> job.warmup_start]

\* A merge patch: a field the tick leaves out keeps its stored value.
Kept(new, old) == IF new = None THEN old ELSE new
Merged(s) ==
    [used |-> Kept(s.used, status.used), peak |-> Kept(s.peak, status.peak),
     cap |-> Kept(s.cap, status.cap), last_change |-> Kept(s.last_change, status.last_change),
     warmup_start |-> Kept(s.warmup_start, status.warmup_start)]

\* patch_status_if_changed, and the watch event that follows it (at once,
\* unless the instance lets the watch lag).  A status equal to the cached one
\* is not sent, unless it differs in a field that is not modelled.
PatchStatus ==
    /\ pc = "patch"
    /\ \/ status' = Merged(status_for)
       \/ status_for = cache /\ UNCHANGED status
    /\ cache' = IF "watchLag" \in Faults THEN cache ELSE status'
    /\ pc' = "idle" /\ job' = NoJob
    /\ UNCHANGED <<now, cluster, spec, dropped, window, wrote>>

\* The status patch is refused or lost: reconcile returns the error and
\* error_policy requeues.
PatchFails ==
    /\ pc = "patch" /\ "patchFails" \in Faults
    /\ pc' = "idle" /\ job' = NoJob
    /\ UNCHANGED <<now, cluster, spec, status, cache, dropped, window, wrote>>

\* The controller dies and restarts with what the API server stores.
Crash ==
    /\ pc # "idle" /\ "crash" \in Faults
    /\ pc' = "idle" /\ job' = NoJob
    /\ cache' = status
    /\ UNCHANGED <<now, cluster, spec, status, dropped, window, wrote>>

WatchDelivers ==
    /\ cache # status
    /\ cache' = status
    /\ UNCHANGED <<now, cluster, spec, status, pc, job, dropped, window, wrote>>

Controller == Observe \/ Assign \/ PatchStatus

-----------------------------------------------------------------------------
(***************************************************************************)
(* The cluster around it.                                                  *)
(***************************************************************************)
controller == <<status, cache, pc, job, window, wrote>>

Tick ==
    /\ now < MaxNow
    /\ now' = now + 1
    /\ UNCHANGED <<cluster, spec, controller, dropped>>

\* The metrics pipeline scrapes the working set; degraded, it reports zero,
\* or nothing at all.
Scrape ==
    /\ pods # "zero"
    /\ \/ sample' = [used |-> demand, at |-> now]
       \/ "zeroMetric" \in Faults /\ sample' = [used |-> 0, at |-> now]
       \/ "missingMetric" \in Faults /\ sample' = [used |-> None, at |-> now]
    /\ UNCHANGED <<now, demand, limit, owner, pods, throttled, spec, controller, dropped>>

\* The working set moves; without a stale pipeline it is scraped at once.
DemandMoves ==
    /\ "demand" \in Faults
    /\ demand' \in Demands \ {demand}
    /\ sample' = IF "staleMetric" \in Faults THEN sample ELSE [used |-> demand', at |-> now]
    /\ UNCHANGED <<now, limit, owner, pods, throttled, spec, controller, dropped>>

\* History only: a restart that shows as a drop against the stored capacity.
RestartShows == dropped' = IF status.cap # None /\ TemplateLimit < status.cap THEN now ELSE dropped

\* A re-created pod falls back to its template's limit.
PodRecreated ==
    /\ "recreate" \in Faults /\ FieldLayout = "PodResize" /\ pods # "zero"
    /\ limit' = TemplateLimit /\ pods' = "up"
    /\ RestartShows
    /\ UNCHANGED <<now, demand, sample, owner, throttled, spec, controller>>

ScaleToZero ==
    /\ "scaleToZero" \in Faults /\ FieldLayout = "PodResize" /\ pods # "zero"
    /\ pods' = "zero"
    /\ UNCHANGED <<now, demand, sample, limit, owner, throttled, spec, controller, dropped>>

ScaleUp ==
    /\ pods = "zero"
    /\ pods' = "up"
    /\ limit' = TemplateLimit
    /\ RestartShows
    /\ sample' = [used |-> demand, at |-> now]
    /\ UNCHANGED <<now, demand, owner, throttled, spec, controller>>

CrashLoop ==
    /\ "crashLoop" \in Faults /\ pods # "zero"
    /\ pods' = IF pods = "up" THEN "crashLoop" ELSE "up"
    /\ UNCHANGED <<now, demand, sample, limit, owner, throttled, spec, controller, dropped>>

Throttle ==
    /\ "throttle" \in Faults
    /\ throttled' = ~throttled
    /\ UNCHANGED <<now, demand, sample, limit, owner, pods, spec, controller, dropped>>

\* Another field manager takes the field with a value, or cedes it.
OtherWriter ==
    /\ "otherWriter" \in Faults
    /\ \/ owner' = "other" /\ limit' \in OtherLimits
       \/ owner = "other" /\ owner' = "none" /\ UNCHANGED limit
    /\ UNCHANGED <<now, demand, sample, pods, throttled, spec, controller, dropped>>

\* The operator edits the band.
Operator ==
    /\ \/ "gate" \in Faults /\ spec' = [spec EXCEPT !.live = ~@]
       \/ "suspend" \in Faults /\ spec' = [spec EXCEPT !.suspended = ~@]
       \/ "force" \in Faults /\ \E f \in Pins \ {spec.force} : spec' = [spec EXCEPT !.force = f]
    /\ UNCHANGED <<now, cluster, controller, dropped>>

Environment ==
    \/ Tick \/ Scrape \/ DemandMoves \/ PodRecreated \/ ScaleToZero \/ ScaleUp
    \/ CrashLoop \/ Throttle \/ OtherWriter \/ Operator
    \/ PatchFails \/ Crash \/ WatchDelivers

Next == Controller \/ Environment

Spec == Init /\ [][Next]_vars

\* A tick goes on: in Next, a step of the controller or a failed patch.
TickGoesOn ==
    \/ pc = "idle" /\ ~spec.suspended /\ pc' \in {"assign", "patch"}
    \/ pc = "assign" /\ pc' = "patch"
    \/ pc = "patch" /\ pc' = "idle"

\* The controller keeps ticking (every reconcile ends in a requeue, also one
\* that failed) and the metrics pipeline keeps scraping.
Fairness == WF_pc(TickGoesOn) /\ WF_vars(Scrape)

\* Liveness is about a band that another manager, restarts, lost patches and
\* crashes keep disturbing.
DisturbedNext == \/ Controller \/ Scrape
                 \/ DemandMoves \/ OtherWriter \/ PatchFails \/ Crash
                 \/ ScaleToZero \/ ScaleUp \/ PodRecreated

FairSpec == Init /\ [][DisturbedNext]_vars /\ Fairness

-----------------------------------------------------------------------------
(***************************************************************************)
(* Properties.                                                             *)
(***************************************************************************)
\* A write decided by the law (not pinned by an operator), still to land.
LawWrite(kind) == pc = "assign" /\ ~job.forced /\ job.decision.kind = kind

\* A shrink that is not the snap of an over-ceiling limit back to the ceiling.
EfficiencyShrink == LawWrite("Shrink") /\ job.decision.from <= Cfg.ceiling_bytes

\* A sample as it has faded after k further ticks.
Faded(s, k) ==
    LET f[j \in 0..k] == IF j = 0 THEN s ELSE MulFloor(f[j - 1], Decay) IN f[k]

\* Never OOM from a carve: the limit a shrink is about to write seats every
\* sample of the trailing window, each faded by the ticks since, at the
\* setpoint (safety_clamp with the peak carried from tick to tick).
ShrinkCoversWindow ==
    EfficiencyShrink =>
        \A i \in 1..Len(window) :
            job.decision.to >= DivCeil(Faded(window[i], i - 1), Cfg.setpoint)

\* Whatever is lost on the way, a shrink seats the peak its own tick carried,
\* and never goes below the live request or the band's floor.
ShrinkCoversPeak ==
    EfficiencyShrink =>
        /\ job.decision.to >= LiveRequest
        /\ job.decision.to >= Cfg.floor_bytes
        /\ job.decision.to * Cfg.setpoint >= 100 * job.obs.peak
        /\ job.obs.peak >= job.obs.used

\* A zero reading is never what lowers a limit, whatever the trailing peak,
\* the throttle or the prediction say (metric_untrusted_decision).
UntrustedNeverShrinks ==
    EfficiencyShrink /\ Cfg.metric_missing_policy # "Trust" => job.obs.used # 0

\* A workload that is throttled or crash-looping when it is observed is never
\* shrunk by that tick (throttled_demand, clamp_to_throttle).
NoStarve ==
    [][(throttled \/ pods = "crashLoop") /\ Observe => ~LawWrite("Shrink")']_vars

\* A write of the law that lands.
LawWrites == pc = "assign" /\ pc' = "patch" /\ ~job.forced /\ limit' # limit

WritesTooSoon == LawWrites /\ wrote # None /\ now - wrote < CooldownSecs

\* Two writes the law decides are at least one cooldown apart, though the
\* cooldown is read back from the band's own status (in_cooldown).
WritesSpaced == [][~WritesTooSoon]_vars

\* A tick that shrinks saw the pods run for a whole warmup since their last
\* restart, a restart being a live limit below the recorded one
\* (warmup_state).
ShrinkAfterWarmup ==
    [][Observe /\ EfficiencyShrink' => now - dropped >= Cfg.warmup_seconds]_vars

\* The limit at which the law rests for the workload's demand.
AtRest == ~IsMutation(decide_with(demand, demand, limit, effective_cfg))

\* The band acts on a workload that runs, and nobody else holds the field.
Served == /\ pods = "up" /\ ~throttled /\ owner # "other"
          /\ spec.live /\ ~spec.suspended /\ spec.force = None

Aborts == pc = "assign" /\ pc' = "idle"
Loses  == pc = "patch" /\ pc' = "idle" /\ status' # Merged(status_for)

\* Whatever crashes, lost patches, restarts, another writer and the workload
\* did to it, once they stop the limit of a served band settles where the law no longer
\* moves it: growing and shrinking never chase each other.
Settles ==
    <>[][/\ demand' = demand /\ owner' # "other" /\ pods' = pods
         /\ ~PodRecreated /\ ~Aborts /\ ~Loses]_vars
        => <>[](Served => AtRest)

\* The workload has outgrown its limit, and the band has room to grow it.
Starved == demand * 100 > Cfg.grow_above * limit /\ limit < Cfg.ceiling_bytes

\* A workload that has outgrown its limit gets headroom, or the ceiling,
\* while it is served, unless crashes cut off one write after the other.
ReliefComes == <>[][~Aborts]_vars => []<>~(Starved /\ Served)
=============================================================================
