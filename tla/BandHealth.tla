----------------------------- MODULE BandHealth -----------------------------
(***************************************************************************)
(* What a band's status says of its health (breathe-runtime                *)
(* health_verdict, health_event_for; breathe-controller                    *)
(* emit_health_event).  A tick turns its receipt into conditions, judges   *)
(* them by how long they have held, publishes an event when the label is   *)
(* not the recorded one, and only then patches the status.                 *)
(*                                                                         *)
(* How long a condition has held is kept as an age, capped at the stuck    *)
(* threshold.                                                              *)
(***************************************************************************)
EXTENDS Naturals

CONSTANTS
    StuckAfter,     \* STUCK_AFTER_SECS
    Outcomes        \* what ticks of this instance may end in

\* The receipts, as far as the conditions tell them apart.
Outcome == {"rest", "carve", "throttled", "conflict", "blind", "noLimit", "incapable", "noTarget", "suspended"}

ASSUME BandHealthAssumption == StuckAfter \in Nat \ {0} /\ Outcomes \subseteq Outcome /\ Outcomes # {}

VARIABLES
    outcome,    \* what a tick would end in now
    shadow,     \* whether the tick is a dry run
    recorded,   \* the conditions in the status, by name
    ages,       \* for how long the ones with a time limit have had their value
    label,      \* status.health
    hpc,        \* the tick: "idle" or "patch"
    event,      \* the event it published, or "none"
    unrest      \* history: seconds since a recorded tick at rest, capped

health_vars == <<outcome, shadow, recorded, ages, label, hpc, event, unrest>>

HealthVerdict == {"Healthy", "Unsupported", "TargetNotFound", "Unobservable", "ShadowPending", "Stuck"}
Condition == {"Ready", "Observable", "Converged", "Throttled", "Conflict", "Supported", "TargetFound"}
Timed == {"Ready", "Converged", "Conflict"}

\* The conditions of a receipt; a suspended band keeps Ready alone.
ConditionsOf(r) ==
    IF r = "suspended" THEN [c \in Condition |-> IF c = "Ready" THEN "False" ELSE "absent"]
    ELSE LET Holds(c) ==
               CASE c \in {"Ready", "TargetFound"} -> r # "noTarget"
                 [] c = "Observable" -> r \notin {"blind", "incapable", "noTarget"}
                 [] c = "Converged"  -> r = "rest"
                 [] c = "Throttled"  -> r = "throttled"
                 [] c = "Conflict"   -> r = "conflict"
                 [] c = "Supported"  -> r \notin {"noLimit", "incapable"}
         IN [c \in Condition |-> IF Holds(c) THEN "True" ELSE "False"]

\* Mutant: a condition that changes keeps its old transition time.
seconds_since_unstamped(r) == ages

\* The age of each condition once the tick's are recorded: a value that is
\* kept keeps its transition time.
seconds_since(r) == [c \in Timed |-> IF ConditionsOf(r)[c] = recorded[c] THEN ages[c] ELSE 0]

health_verdict(r, dry_run) ==
    LET cond == ConditionsOf(r)
        Overdue(c, v) == cond[c] = v /\ seconds_since(r)[c] >= StuckAfter
    IN IF cond["Supported"] = "False" THEN "Unsupported"
       ELSE IF cond["TargetFound"] = "False" THEN "TargetNotFound"
       ELSE IF cond["Observable"] = "False" THEN "Unobservable"
       ELSE IF cond["Throttled"] = "True" THEN "Healthy"
       ELSE IF Overdue("Ready", "False") THEN "Stuck"
       ELSE IF Overdue("Converged", "False") THEN (IF dry_run THEN "ShadowPending" ELSE "Stuck")
       ELSE IF Overdue("Conflict", "True") THEN "Stuck" ELSE "Healthy"

health_event_for(verdict) == IF verdict = "Healthy" THEN "none" ELSE verdict

should_emit_health_event(verdict) == verdict # label

\* A suspended tick judges nothing.
JudgeTick ==
    /\ hpc = "idle" /\ hpc' = "patch"
    /\ LET verdict == health_verdict(outcome, shadow)
       IN event' = IF outcome # "suspended" /\ should_emit_health_event(verdict)
                     THEN health_event_for(verdict) ELSE "none"
    /\ UNCHANGED <<outcome, shadow, recorded, ages, label, unrest>>

\* The status judges the conditions once more; a suspended one has no health
\* to merge and leaves the label alone.
HealthPatched ==
    /\ hpc = "patch" /\ hpc' = "idle"
    /\ recorded' = ConditionsOf(outcome) /\ ages' = seconds_since(outcome)
    /\ label' = IF outcome = "suspended" THEN label ELSE health_verdict(outcome, shadow)
    /\ unrest' = IF outcome = "rest" THEN 0 ELSE unrest
    /\ UNCHANGED <<outcome, shadow, event>>

HealthPatchLost ==
    /\ hpc = "patch" /\ hpc' = "idle"
    /\ UNCHANGED <<outcome, shadow, recorded, ages, label, event, unrest>>

\* A tick takes less than a second.
HealthSecond ==
    /\ hpc = "idle"
    /\ LET Older(n) == IF n < StuckAfter THEN n + 1 ELSE n
       IN ages' = [c \in Timed |-> Older(ages[c])] /\ unrest' = Older(unrest)
    /\ UNCHANGED <<outcome, shadow, recorded, label, hpc, event>>

\* The workload, the metrics, the other writers and the operator.
OutcomeMoves ==
    /\ hpc = "idle"
    /\ outcome' \in Outcomes /\ shadow' \in BOOLEAN
    /\ UNCHANGED <<recorded, ages, label, hpc, event, unrest>>

HealthInit ==
    /\ outcome \in Outcomes /\ shadow = TRUE
    /\ recorded = [c \in Condition |-> "absent"] /\ ages = [c \in Timed |-> 0]
    /\ label = "" /\ hpc = "idle" /\ event = "none"
    /\ unrest = 0

HealthNext == JudgeTick \/ HealthPatched \/ HealthPatchLost \/ HealthSecond \/ OutcomeMoves

\* The band is requeued after every tick, time passes between ticks, and not
\* every patch is lost.
HealthFairness ==
    WF_health_vars(JudgeTick) /\ SF_health_vars(HealthPatched) /\ SF_health_vars(HealthSecond)

HealthSpec == HealthInit /\ [][HealthNext]_health_vars /\ HealthFairness

-----------------------------------------------------------------------------
(***************************************************************************)
(* Properties.                                                             *)
(***************************************************************************)
\* No band is called stuck that was recorded at rest within the threshold:
\* suspensions, lost patches and outages between two ticks do not age it.
StuckEarned == label = "Stuck" => unrest >= StuckAfter

Struggles == outcome \in {"carve", "conflict"} /\ ~shadow

\* A live band that goes on carving or in conflict is called stuck in the end,
\* and from then on in silence: whatever patches were lost, the event is not
\* published for ever.
StuckTold == <>[]Struggles => <>[](label = "Stuck" /\ event = "none")
=============================================================================
