---------------------------- MODULE PromotionGate ----------------------------
(***************************************************************************)
(* Who lets a band write (breathe-provider gate.rs, breathe-crd            *)
(* Band::resolve_gate and BandObservation, breathe-runtime                 *)
(* conditions_for).  A calibrating band promotes itself to writing after a *)
(* window of clean observation; the window is the age of its Observable    *)
(* condition, as the band's own status patches leave it behind.            *)
(*                                                                         *)
(* Transition times are kept as ages, capped at the confirm window, so     *)
(* that the clock needs no bound.  outorga's confirm gate is a library     *)
(* outside the repository, modelled from its use in resolve_gate.          *)
(***************************************************************************)
EXTENDS Naturals

CONSTANTS
    ConfirmAfter,   \* confirm_after_seconds
    Healths,        \* what ticks of this instance may observe
    Edits,          \* the operator's edits this instance exercises
    PatchFails      \* whether a status patch may be lost

Health == {"clean", "stale", "conflict", "dormant", "blind", "noLimit"}
Intent == {"none", "observe", "frozen", "write", "anonymousWrite", "calibrate"}
Mode   == {"none", "Shadow", "Effect", "ShadowConfirmEffect", "Suspended"}

ASSUME PromotionGateAssumption ==
    /\ ConfirmAfter \in Nat \ {0}
    /\ Healths \subseteq Health /\ Healths # {}
    /\ Edits \subseteq {"intent", "mode", "confirmed", "freeze", "suspend", "config"}
    /\ PatchFails \in BOOLEAN

VARIABLES
    health,      \* what a tick would observe now
    spec,        \* the operator's side: intent, mode, confirmed, frozen, ...
    conditions,  \* status.conditions: Observable, Stale and Conflict
    age,         \* seconds since Observable's last transition, capped
    pc,          \* the tick: "idle" or "patch"
    receipt,     \* the tick's outcome, until it is patched
    gate,        \* the tick's verdict: why it is held, or what authorizes it to write
    blind        \* history: seconds since a recorded blind or suspended tick, capped

tick == <<pc, receipt, gate>>
gate_vars == <<health, spec, conditions, age, tick, blind>>

\* A band as authored, before any edit.
Authored == [intent |-> "calibrate", mode |-> "none", confirmed |-> FALSE,
             frozen |-> FALSE, suspended |-> FALSE, config_ok |-> TRUE]

\* Why a band is held, and what authorizes one that is not: the operator's
\* intent, the window, the annotation, or the chain of an unauthored band.
ShadowReason == {"Frozen", "ModeShadow", "Suspended", "NotReady", "Stale", "Conflict",
                 "IntentMalformed", "ConfirmPending"}
LegacyPath   == {"ModeEffect", "ConfirmGate", "OperatorAnnotation"}
Witness      == [kind : {"ExplicitIntent", "ConfirmGatePassed", "OperatorAnnotation"}]
                \cup [kind : {"LegacyDefault"}, path : LegacyPath]
EffectiveGate == [state : {"Shadow"}, reason : ShadowReason] \cup [state : {"Live"}, witness : Witness]

Receipt == Health \cup {"suspended", "badConfig"}
Age     == 0..ConfirmAfter

Held(reason)  == [state |-> "Shadow", reason |-> reason]
Allowed(witness) == [state |-> "Live", witness |-> witness]
NoGate == Held("ConfirmPending")    \* between ticks, and where none is resolved

GateTypeOK ==
    /\ health \in Health
    /\ spec \in [intent : Intent, mode : Mode, confirmed : BOOLEAN, frozen : BOOLEAN,
                 suspended : BOOLEAN, config_ok : BOOLEAN]
    /\ conditions \in [observable : {"absent", "True", "False"},
                       stale : BOOLEAN, conflict : BOOLEAN]
    /\ age \in Age
    /\ pc \in {"idle", "patch"} /\ receipt \in Receipt /\ gate \in EffectiveGate
    /\ gate.state = "Live" => receipt \in Health
    /\ blind \in Age

GateInit ==
    /\ health \in Healths
    /\ \E i \in {"calibrate", "none"} : spec = [Authored EXCEPT !.intent = i]
    /\ conditions = [observable |-> "absent", stale |-> FALSE, conflict |-> FALSE]
    /\ age = 0
    /\ pc = "idle" /\ receipt = "clean" /\ gate = NoGate
    /\ blind = 0

-----------------------------------------------------------------------------
(***************************************************************************)
(* The verdict.                                                            *)
(***************************************************************************)
\* BandObservation: the window is Observable's, whatever Stale and Conflict
\* did meanwhile; they block only while they hold.
ConfirmVerdict == {"OperatorConfirmed", "NotReady", "Stale", "Conflict", "Passed", "ConfirmPending"}

confirm_gate ==
    IF spec.confirmed THEN "OperatorConfirmed"
    ELSE IF conditions.observable # "True" THEN "NotReady"
    ELSE IF conditions.stale THEN "Stale"
    ELSE IF conditions.conflict THEN "Conflict"
    ELSE IF age >= ConfirmAfter THEN "Passed"
    ELSE "ConfirmPending"

\* The pre-writeIntent chain, for a band that authors no intent, and the path
\* a write of its is put down to.
legacy_path ==
    IF spec.mode = "Effect" THEN "ModeEffect"
    ELSE IF spec.confirmed THEN "OperatorAnnotation" ELSE "ConfirmGate"

legacy ==
    LET applies == Allowed([kind |-> "LegacyDefault", path |-> legacy_path])
    IN CASE spec.mode = "Shadow"    -> Held("ModeShadow")
         [] spec.mode = "Suspended" -> Held("Suspended")
         [] spec.mode = "Effect"    -> applies
         [] spec.mode \in {"none", "ShadowConfirmEffect"} ->
              IF confirm_gate \in {"OperatorConfirmed", "Passed"} THEN applies ELSE Held(confirm_gate)

\* The intent on the wire is read at the border: a write that names no author
\* is not one.
parse(intent) == IF intent = "anonymousWrite" THEN "UnattributedWrite" ELSE intent

resolve_gate ==
    LET intent == parse(spec.intent)
        verdict == confirm_gate
    IN IF spec.frozen THEN Held("Frozen")
       ELSE CASE intent = "UnattributedWrite" -> Held("IntentMalformed")
              [] intent = "observe"   -> Held("ModeShadow")
              [] intent = "frozen"    -> Held("Suspended")
              [] intent = "write"     -> Allowed([kind |-> "ExplicitIntent"])
              [] intent = "none"      -> legacy
              [] intent = "calibrate" ->
                   CASE verdict = "OperatorConfirmed" -> Allowed([kind |-> "OperatorAnnotation"])
                     [] verdict = "Passed"            -> Allowed([kind |-> "ConfirmGatePassed"])
                     [] OTHER                         -> Held(verdict)

EndsEarly(r) == r \in {"suspended", "badConfig"}

\* A tick: suspended and unparseable bands end before the gate; the others
\* resolve it once, from the status of earlier ticks, and then observe.
Reconcile ==
    /\ pc = "idle"
    /\ receipt' = IF spec.suspended THEN "suspended"
                  ELSE IF ~spec.config_ok THEN "badConfig" ELSE health
    /\ gate' = IF EndsEarly(receipt') THEN NoGate ELSE resolve_gate
    /\ pc' = "patch"
    /\ UNCHANGED <<health, spec, conditions, age, blind>>

(***************************************************************************)
(* The status patch.                                                       *)
(***************************************************************************)
Observable == receipt # "blind"

Upserted(status) == [observable |-> status, stale |-> receipt = "stale",
                     conflict |-> receipt = "conflict"]

\* Mutant: the transition time is stamped on every patch.
upsert_condition_stamping(ok) ==
    /\ conditions' = Upserted(IF ok THEN "True" ELSE "False")
    /\ age' = 0

\* Mutant: the transition time survives the transition.
upsert_condition_unstamped(ok) ==
    /\ conditions' = Upserted(IF ok THEN "True" ELSE "False")
    /\ age' = age

\* upsert_condition: the transition time of a condition that keeps its status
\* is kept.
upsert_condition(ok) ==
    LET status == IF ok THEN "True" ELSE "False"
    IN /\ conditions' = Upserted(status)
       /\ age' = IF conditions.observable = status THEN age ELSE 0

\* suspended_status leaves a Ready condition only; error_status leaves none,
\* and the merge patch then keeps the stored ones.
conditions_for ==
    CASE receipt = "suspended" ->
            /\ conditions' = [observable |-> "absent", stale |-> FALSE, conflict |-> FALSE]
            /\ age' = 0
      [] receipt = "badConfig" -> UNCHANGED <<conditions, age>>
      [] OTHER                 -> upsert_condition(Observable)

\* The tick is over; its outcome and its verdict go with it.
Done == pc' = "idle" /\ receipt' = "clean" /\ gate' = NoGate

PatchStatus ==
    /\ pc = "patch"
    /\ conditions_for
    /\ Done
    /\ blind' = IF receipt \in {"blind", "suspended"} THEN 0 ELSE blind
    /\ UNCHANGED <<health, spec>>

PatchLost ==
    /\ pc = "patch" /\ PatchFails
    /\ Done
    /\ UNCHANGED <<health, spec, conditions, age, blind>>

-----------------------------------------------------------------------------
(***************************************************************************)
(* The cluster and the operator.                                           *)
(***************************************************************************)
Older(a) == IF a < ConfirmAfter THEN a + 1 ELSE a

\* A second passes.  A tick takes less than that.
Tick ==
    /\ pc = "idle"
    /\ age' = Older(age) /\ blind' = Older(blind)
    /\ UNCHANGED <<health, spec, conditions, tick>>

HealthMoves ==
    /\ health' \in Healths \ {health}
    /\ UNCHANGED <<spec, conditions, age, tick, blind>>

\* The mode is read only where no intent is authored, and is edited there.  A
\* tick has read the band before it patches the status, so an edit in between
\* is as one after it.
Operator ==
    /\ pc = "idle"
    /\ \/ /\ "intent" \in Edits
          /\ \E i \in Intent : spec' = [spec EXCEPT !.intent = i, !.mode = "none"]
       \/ /\ "mode" \in Edits /\ spec.intent = "none"
          /\ \E m \in Mode : spec' = [spec EXCEPT !.mode = m]
       \/ "confirmed" \in Edits /\ spec' = [spec EXCEPT !.confirmed = ~@]
       \/ "freeze" \in Edits /\ spec' = [spec EXCEPT !.frozen = ~@]
       \/ "suspend" \in Edits /\ spec' = [spec EXCEPT !.suspended = ~@]
       \/ "config" \in Edits /\ spec' = [spec EXCEPT !.config_ok = ~@]
    /\ UNCHANGED <<health, conditions, age, tick, blind>>

GateNext == Reconcile \/ PatchStatus \/ PatchLost \/ Tick \/ HealthMoves \/ Operator

GateSpec == GateInit /\ [][GateNext]_gate_vars

\* The band is requeued after every tick, time passes between ticks, and not
\* every status patch is lost.
GateFairSpec == GateSpec /\ WF_gate_vars(Reconcile) /\ SF_gate_vars(PatchStatus) /\ SF_gate_vars(Tick)

-----------------------------------------------------------------------------
(***************************************************************************)
(* Properties.                                                             *)
(***************************************************************************)
\* This tick promotes itself: the window alone authorizes it to write, and
\* what it observed lets it.
SelfPromoted ==
    /\ pc = "patch" /\ receipt = "clean" /\ gate.state = "Live"
    /\ gate.witness \in {[kind |-> "ConfirmGatePassed"], [kind |-> "LegacyDefault", path |-> "ConfirmGate"]}

\* A band whose status recorded it blind, or suspended, waits a whole window
\* again before it writes on its own authority, whatever patches were lost.
WindowAfterBlindness == SelfPromoted => blind >= ConfirmAfter

Calibrating == /\ \/ spec.intent = "calibrate"
                  \/ spec.intent = "none" /\ spec.mode \in {"none", "ShadowConfirmEffect"}
               /\ ~spec.frozen /\ ~spec.suspended /\ spec.config_ok

SteadyClean == Calibrating /\ health = "clean"
Writes      == pc = "patch" /\ gate.state = "Live" /\ receipt = "clean"

\* Shadow is never forever: a band nobody holds, whose metric stays clean,
\* writes, and goes on writing.
PromotionComes == <>[]SteadyClean => []<>Writes
=============================================================================
