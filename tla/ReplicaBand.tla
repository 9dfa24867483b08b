----------------------------- MODULE ReplicaBand -----------------------------
(***************************************************************************)
(* The horizontal band's loop: reconcile_replica_band, with the cluster    *)
(* snapshot it plans on (breathe-kube replica_env), the gate               *)
(* (plan_replica_tick) and the receipt (breathe-runtime ReplicaReceipt).   *)
(*                                                                         *)
(* A tick observes and plans (Observe), writes .spec.replicas (Assign) and *)
(* patches the status (PatchStatus).  The workload, the metrics pipeline,  *)
(* node reclaims, other scalers and the operator step in between; they are *)
(* external and modelled from how the code uses them.                      *)
(***************************************************************************)
EXTENDS ReplicaLaw

CONSTANTS
    Bands,       \* the bands a behaviour may be about
    Loads,       \* the total work the workload may be given
    Reclaims,    \* how many replicas a pending reclaim may doom
    OtherCounts, \* counts another scaler may write
    Pins         \* counts an operator may force

FaultKinds == {"load", "lag", "badMetric", "reclaim", "otherScaler", "gate", "suspend", "force",
               "applyFails", "patchFails", "crash"}

\* cfgs are the configurations the operator may give the band, start the
\* counts it may find; shed says that the disruption policy permits a
\* scale-in; max_now bounds the clock.
Band == [cfgs : SUBSET ReplicaBandConfig, start : SUBSET Nat, cooldown : Nat,
         staleness : Nat, shed : BOOLEAN, faults : SUBSET FaultKinds,
         max_now : Nat]

ASSUME ReplicaBandAssumption ==
    /\ Bands \subseteq Band
    /\ Loads \subseteq Nat /\ Reclaims \subseteq Nat
    /\ OtherCounts \subseteq Nat /\ Pins \subseteq Nat

VARIABLES
    band,        \* which band this behaviour is about
    now,         \* the wall clock
    load,        \* the workload's total work
    sample,      \* the last scrape of the driving signal: [value, per, at]
    reclaim,     \* the reclaim signal
    replicas,    \* .spec.replicas
    owner,       \* who manages it: "none", "breathe" or "other"
    spec,        \* the operator's side: [cfg, live, suspended, force]
    last_change, \* status.lastChangeEpoch
    pc,          \* where the controller is in its tick
    job,         \* the tick in progress
    moved        \* history: the last carve's direction since anything changed;
                 \* "dirty" when it changed under the tick in progress

cluster == <<load, sample, reclaim, replicas, owner>>
vars == <<band, now, cluster, spec, last_change, pc, job, moved>>

\* A reading that is negative or not finite; None is no reading.
Bad == -2

Fault(f) == f \in band.faults

Receipt == {"Applied", "ShadowWouldApply", "DeferredScaleIn", "Cooldown", "Observed", "Stale",
            "Conflict", "Error"}
NoJob(c) == [decision |-> Rest("Hold", 0), forced |-> FALSE, cfg |-> c, receipt |-> "Observed"]

TypeOK ==
    /\ band \in Bands
    /\ now \in Nat /\ load \in Nat
    /\ sample \in [value : Nat \cup {None, Bad}, per : Nat \ {0}, at : Nat]
    /\ reclaim \in Nat /\ replicas \in Nat
    /\ owner \in {"none", "breathe", "other"}
    /\ spec \in [cfg : band.cfgs, live : BOOLEAN, suspended : BOOLEAN, force : Pins \cup {None}]
    /\ last_change \in Nat \cup {None}
    /\ pc \in {"idle", "assign", "patch"}
    /\ job \in [decision : ReplicaDecision, forced : BOOLEAN, cfg : band.cfgs, receipt : Receipt]
    /\ moved \in {"none", "up", "down", "dirty"}

\* What the driving query reads: the work there is, as a total or spread over
\* so many replicas.
Spread(count) == IF is_absolute(spec.cfg.signal) THEN 1 ELSE Higher(count, 1)

Reading(total, count, at) == [value |-> total, per |-> Spread(count), at |-> at]

Init ==
    /\ band \in Bands
    /\ \E c \in band.cfgs :
         /\ spec = [cfg |-> c, live |-> TRUE, suspended |-> FALSE, force |-> None]
         /\ job = NoJob(c)
    /\ now = 0 /\ load \in Loads /\ replicas \in band.start
    /\ sample = Reading(load, replicas, 0)
    /\ reclaim = 0 /\ owner = "none" /\ last_change = None
    /\ pc = "idle" /\ moved = "none"

-----------------------------------------------------------------------------
(***************************************************************************)
(* The controller.                                                         *)
(***************************************************************************)
in_cooldown == last_change # None /\ now - last_change < band.cooldown

\* observe_replica_env: one snapshot; the live environment has no window.
observation == [current |-> replicas, value |-> sample.value, per |-> sample.per,
                window |-> None, reclaim |-> reclaim]

\* ReplicaReceipt::resolve, for a plan that is not actuated.
Withheld(d, deferred) ==
    IF deferred THEN "DeferredScaleIn"
    ELSE IF ~is_carve(d) THEN "Observed"
    ELSE IF ~spec.live THEN "ShadowWouldApply" ELSE "Cooldown"

\* plan_replica_tick's gate: shadow, cooldown, and the scale-in policy.
Gate(d, forced) ==
    LET deferred == d.kind = "ScaleDown" /\ is_carve(d) /\ ~band.shed
                    /\ spec.live /\ ~in_cooldown
        actuate  == is_carve(d) /\ spec.live /\ ~in_cooldown /\ ~deferred
    IN /\ pc' = IF actuate THEN "assign" ELSE "patch"
       /\ job' = [decision |-> d, forced |-> forced, cfg |-> spec.cfg,
                  receipt |-> IF actuate THEN "Applied" ELSE Withheld(d, deferred)]

Report(receipt) == pc' = "patch" /\ job' = [NoJob(spec.cfg) EXCEPT !.receipt = receipt]

\* The band validates, and the snapshot could be taken.
Observes == validate_for_target(spec.cfg) /\ sample.value # None

\* Mutant: the age of the sample is not looked at.
Stale_never == FALSE

Stale == now - sample.at > band.staleness

ObserveFails == ~Observes /\ Report("Error")

ObserveStale == Observes /\ Stale /\ Report("Stale")

\* Break-glass does not look at the signal.
ObserveForced ==
    /\ Observes /\ ~Stale
    /\ spec.force # None
    /\ Gate(ForcedDecision(spec.cfg, replicas, spec.force), TRUE)

\* interpret_replica, which refuses a bad signal.
ObservePlan ==
    /\ Observes /\ ~Stale
    /\ spec.force = None
    /\ IF sample.value = Bad THEN Report("Error")
       ELSE Gate(decide_replicas(spec.cfg, observation), FALSE)

Observe ==
    /\ pc = "idle" /\ ~spec.suspended
    /\ ObserveFails \/ ObserveStale \/ ObserveForced \/ ObservePlan
    /\ UNCHANGED <<band, now, cluster, spec, last_change, moved>>

\* History only.
Disturbs == moved' = IF pc = "idle" THEN "none" ELSE "dirty"
Settled  == moved' = IF moved = "dirty" THEN "none" ELSE moved

Direction(from, to) == IF to > from THEN "up" ELSE IF to < from THEN "down" ELSE "none"

\* The unforced server-side apply: refused while another manager owns the
\* field with another value.
Refused == owner = "other" /\ replicas # job.decision.to

AssignLands ==
    /\ ~Refused
    /\ replicas' = job.decision.to
    /\ owner' = IF owner = "other" THEN owner ELSE "breathe"
    /\ moved' = IF job.forced \/ moved = "dirty" THEN "none" ELSE Direction(replicas, replicas')
    /\ job' = job

AssignFails ==
    /\ Refused \/ Fault("applyFails")
    /\ job' = [job EXCEPT !.receipt = IF Refused THEN "Conflict" ELSE "Error"]
    /\ UNCHANGED <<replicas, owner, moved>>

Assign ==
    /\ pc = "assign"
    /\ AssignLands \/ AssignFails
    /\ pc' = "patch"
    /\ UNCHANGED <<band, now, load, sample, reclaim, spec, last_change>>

\* replica_status_for and the merge patch.
PatchStatus ==
    /\ pc = "patch"
    /\ last_change' = IF job.receipt = "Applied" THEN now ELSE last_change
    /\ pc' = "idle" /\ job' = NoJob(spec.cfg)
    /\ Settled
    /\ UNCHANGED <<band, now, cluster, spec>>

\* The patch is refused or lost, or the controller dies.
TickLost ==
    /\ \/ pc = "patch" /\ Fault("patchFails")
       \/ pc # "idle" /\ Fault("crash")
    /\ pc' = "idle" /\ job' = NoJob(spec.cfg)
    /\ Settled
    /\ UNCHANGED <<band, now, cluster, spec, last_change>>

Controller == Observe \/ Assign \/ PatchStatus

-----------------------------------------------------------------------------
(***************************************************************************)
(* The cluster around it.                                                  *)
(***************************************************************************)
Tick ==
    /\ now < band.max_now
    /\ now' = now + 1
    /\ UNCHANGED <<band, cluster, spec, last_change, pc, job, moved>>

\* The driving signal is scraped; broken, it reports nothing usable.
Scrape ==
    /\ \/ sample' = Reading(load, replicas, now)
       \/ Fault("badMetric") /\ \E v \in {None, Bad} : sample' = [value |-> v, per |-> 1, at |-> now]
    /\ UNCHANGED <<band, now, load, reclaim, replicas, owner, spec, last_change, pc, job, moved>>

\* The work changes; without a lagging pipeline it is scraped at once.
LoadMoves ==
    /\ Fault("load")
    /\ load' \in Loads \ {load}
    /\ sample' = IF Fault("lag") THEN sample ELSE Reading(load', replicas, now)
    /\ Disturbs
    /\ UNCHANGED <<band, now, reclaim, replicas, owner, spec, last_change, pc, job>>

\* A node reclaim is announced, changes, or is over.
ReclaimMoves ==
    /\ Fault("reclaim")
    /\ reclaim' \in (Reclaims \cup {0}) \ {reclaim}
    /\ Disturbs
    /\ UNCHANGED <<band, now, load, sample, replicas, owner, spec, last_change, pc, job>>

\* Another scaler takes the count with a value, or cedes it.
OtherScaler ==
    /\ Fault("otherScaler")
    /\ \/ owner' = "other" /\ replicas' \in OtherCounts
       \/ owner = "other" /\ owner' = "none" /\ UNCHANGED replicas
    /\ Disturbs
    /\ UNCHANGED <<band, now, load, sample, reclaim, spec, last_change, pc, job>>

\* The operator edits the band.
Operator ==
    /\ \/ Fault("gate") /\ spec' = [spec EXCEPT !.live = ~@]
       \/ Fault("suspend") /\ spec' = [spec EXCEPT !.suspended = ~@]
       \/ Fault("force")
          /\ \E f \in (Pins \cup {None}) \ {spec.force} : spec' = [spec EXCEPT !.force = f]
       \/ \E c \in band.cfgs \ {spec.cfg} : spec' = [spec EXCEPT !.cfg = c]
    /\ Disturbs
    /\ UNCHANGED <<band, now, cluster, last_change, pc, job>>

Environment == Tick \/ Scrape \/ LoadMoves \/ ReclaimMoves \/ OtherScaler \/ Operator \/ TickLost

Next == Controller \/ Environment

Spec == Init /\ [][Next]_vars

\* A tick goes on: in Next, a step of the controller or a lost tick.
TickGoesOn ==
    \/ pc = "idle" /\ ~spec.suspended /\ pc' \in {"assign", "patch"}
    \/ pc = "assign" /\ pc' = "patch"
    \/ pc = "patch" /\ pc' = "idle"

\* Every reconcile ends in a requeue, also one that failed; time passes and
\* the metrics pipeline keeps scraping.
Fairness == WF_pc(TickGoesOn) /\ WF_vars(Scrape) /\ WF_now(Tick)

FairSpec == Spec /\ Fairness

-----------------------------------------------------------------------------
(***************************************************************************)
(* Properties.                                                             *)
(***************************************************************************)
Carving == pc = "assign"
In(d)   == d.to < d.from

\* Whatever the signal, the reclaims and the pins say, a scale-in stops at the
\* topology's floor, a scale-out at the ceiling (or at a floor above it), and a
\* quorum is written odd and at least three.
EnvelopeKept ==
    Carving =>
        LET d == job.decision
            c == job.cfg
        IN /\ In(d) => d.to >= topology_floor(c)
           /\ ~In(d) => d.to <= Higher(c.ceiling, topology_floor(c))
           /\ c.topology = "FullyDistributed" => d.to % 2 = 1 /\ d.to >= MIN

\* The law takes no replica of a persistent workload away, and never more of
\* a quorum than leaves the majority of the voters there were; above the
\* ceiling it only moves back towards it.
DataKept ==
    Carving /\ ~job.forced /\ In(job.decision) /\ job.decision.from <= job.cfg.ceiling =>
        /\ job.cfg.topology # "Persistent"
        /\ job.cfg.topology = "FullyDistributed" => 2 * job.decision.to > job.decision.from

\* A carve of the law, as it lands.
LawWrites == Carving /\ pc' = "patch" /\ ~job.forced /\ replicas' # replicas

Reverses == moved \in {"up", "down"} \ {Direction(replicas, replicas')}

\* The law does not undo its own carve while nothing but the count it wrote has
\* changed: the tolerances, the rounding, the cooldown and the age of the
\* sample together stop it from flapping.  A quorum is not covered.
NoFlap ==
    [][LawWrites /\ job.cfg.topology # "FullyDistributed" => ~Reverses]_vars

\* The same of a quorum, which moves by odd rungs.
NoQuorumFlap == [][LawWrites => ~Reverses]_vars

\* The band acts on the count, and nobody else holds it.
Served == /\ spec.live /\ ~spec.suspended /\ spec.force = None
          /\ owner # "other" /\ validate_for_target(spec.cfg)

\* More work than the tolerance allows, room to scale out, and no cooldown of
\* an earlier carve, in a band whose reads and writes do not fail for ever.
Overloaded == /\ Served /\ replicas < spec.cfg.ceiling
              /\ want_up(spec.cfg, replicas, load, Spread(replicas))
              /\ ~in_cooldown
              /\ band.faults \cap {"badMetric", "applyFails", "crash"} = {}

\* An overloaded workload is scaled out, one carve per cooldown, until it is
\* not overloaded or the ceiling binds.
ReliefComes == []<>~Overloaded
=============================================================================
