-------------------------- MODULE PolicyEnrollment --------------------------
(***************************************************************************)
(* A BreathePolicy that enrols workloads (breathe-discovery lib.rs,        *)
(* plan.rs; breathe-controller policy_controller.rs): each reconcile reads *)
(* the autoscalers, then the workloads, plans a band per warranted         *)
(* dimension, lists the bands of those dimensions, and creates, adopts and *)
(* retires.  Workloads come, go and change shape, an operator authors and  *)
(* freezes bands, and calls fail, between any two of these steps.  The     *)
(* apiserver collects a band whose owner is gone.                          *)
(***************************************************************************)
EXTENDS Integers

CONSTANTS
    Workloads,        \* workloads the selector's labels match
    NsOf,             \* the namespace of each
    Include, Exclude, \* namespaces of the selector
    Kinds,            \* WorkloadKind of each
    InitialIntent,    \* arming: the intent stamped on a new band
    NeverArm,         \* and the dimensions that stay frozen
    Shapes,           \* what is seen of a workload: the dimensions it declares,
                      \* "Replica" when its replica count was observed
    MaxPolicyEvents   \* bound on changes from outside and on failed calls

\* BandDimension, as far as a policy's observations warrant it.
BandDimension == {"Memory", "Cpu", "Storage", "RequestCpu", "RequestMemory", "Replica"}

ASSUME PolicyAssumption ==
    /\ NsOf \in [Workloads -> Include \cup Exclude \cup {"other"}]
    /\ Kinds \in [Workloads -> {"Deployment", "StatefulSet", "DaemonSet"}]
    /\ InitialIntent \in {"observe", "calibrateThenWrite", "write", "frozen"}
    /\ NeverArm \subseteq BandDimension /\ Shapes \subseteq SUBSET BandDimension
    /\ MaxPolicyEvents \in Nat

VARIABLES
    workload,   \* [live, uid, declares, hpa] of each
    pband,      \* bands by workload and dimension: [there, owner, intent]
    psettings,  \* the policy's suspend and plan_only
    ptick,      \* the reconcile: [at, plan_only, hpas, shapes, creates, adopts, retires]
    pevents

policy_vars == <<workload, pband, psettings, ptick, pevents>>

Keys == Workloads \X BandDimension
NoBand == [there |-> FALSE, owner |-> 0, intent |-> "none"]
Asleep == [at |-> "idle", plan_only |-> FALSE, hpas |-> {}, shapes |-> {},
           creates |-> {}, adopts |-> {}, retires |-> {}]

PolicyInit ==
    /\ workload \in [Workloads -> [live : {TRUE}, uid : {1}, declares : Shapes, hpa : {FALSE}]]
    /\ pband = [k \in Keys |-> NoBand]
    /\ psettings \in [suspend : BOOLEAN, plan_only : BOOLEAN]
    /\ ptick = Asleep /\ pevents = 0

PolicyEvent == pevents < MaxPolicyEvents /\ pevents' = pevents + 1

-----------------------------------------------------------------------------
(***************************************************************************)
(* The plan.                                                               *)
(***************************************************************************)
namespace_matches(ns) == ns \notin Exclude /\ (Include = {} \/ ns \in Include)

replicas_are_settable(kind) == kind \in {"Deployment", "StatefulSet"}

\* BandDimension::warrant_for, of a shape [w, uid, declares, hpa].
warrant_for(d, shape) ==
    /\ d \in shape.declares
    /\ d = "Replica" => ~shape.hpa /\ replicas_are_settable(Kinds[shape.w])

dimensions_for(shape) == {d \in BandDimension : warrant_for(d, shape)}

crd_kind(d) == IF d \in {"RequestCpu", "RequestMemory"} THEN "RequestBand" ELSE d

intent_for(d) == IF d \in NeverArm THEN "frozen" ELSE InitialIntent

\* A band is planned with the owner its shape was read with.
plan_for(shapes) == {[key |-> <<s.w, d>>, owner |-> s.uid] : s \in shapes, d \in BandDimension}
Planned(shapes) == {p \in plan_for(shapes) : \E s \in shapes : s.w = p.key[1] /\ warrant_for(p.key[2], s)}

\* Mutant: a workload with any band is enrolled.
creates_by_workload(desired, actual) == {p \in desired : \A b \in actual : b.key[1] # p.key[1]}

\* reconcile of plan.rs: what is planned and not there, there and not owned,
\* there and not planned.
creates(desired, actual) == {p \in desired : \A b \in actual : b.key # p.key}
adopts(desired, actual)  == {p \in desired : \E b \in actual : b.key = p.key /\ ~b.owned}
retires(desired, actual) == {b \in actual : b.owned /\ \A p \in desired : p.key # b.key}

-----------------------------------------------------------------------------
(***************************************************************************)
(* A reconcile.                                                            *)
(***************************************************************************)
Steps(next) == ptick' = next /\ UNCHANGED <<workload, psettings>>

\* A suspended policy does nothing.  The reconcile works from the policy as it
\* was when it began.
ReadAutoscalers ==
    /\ ptick.at = "idle" /\ ~psettings.suspend
    /\ Steps([Asleep EXCEPT !.at = "shapes", !.plan_only = psettings.plan_only,
                                !.hpas = {w \in Workloads : workload[w].hpa}])
    /\ UNCHANGED <<pband, pevents>>

ReadShapes ==
    /\ ptick.at = "shapes"
    /\ Steps([ptick EXCEPT !.at = "list",
                !.shapes = {[w |-> w, uid |-> workload[w].uid, declares |-> workload[w].declares,
                             hpa |-> w \in ptick.hpas] :
                            w \in {v \in Workloads : workload[v].live /\ namespace_matches(NsOf[v])}}])
    /\ UNCHANGED <<pband, pevents>>

\* Bands are listed per planned dimension; a list that fails is skipped.
ListBands(failed) ==
    LET desired == Planned(ptick.shapes)
        listed  == {p.key[2] : p \in desired} \ failed
        actual  == {[key |-> k, owned |-> pband[k].owner # 0] :
                      k \in {l \in Keys : /\ pband[l].there /\ namespace_matches(NsOf[l[1]])
                                          /\ \E d \in listed : crd_kind(d) = crd_kind(l[2])}}
    IN /\ ptick.at = "list"
       /\ IF failed = {} THEN UNCHANGED pevents ELSE PolicyEvent
       /\ Steps([ptick EXCEPT !.at = "act",
                   !.creates = creates(desired, actual), !.adopts = adopts(desired, actual),
                   !.retires = retires(desired, actual)])
       /\ UNCHANGED pband

\* band_object, applied by force: what was there is overwritten.
band_object(plan) == [there |-> TRUE, owner |-> plan.owner, intent |-> intent_for(plan.key[2])]

\* Creates, then adopts, then retires; a failed call is logged and passed over.
Materialize ==
    /\ ptick.at = "act" /\ ~ptick.plan_only
    /\ \E p \in ptick.creates \cup (IF ptick.creates = {} THEN ptick.adopts ELSE {}) :
         /\ \/ pband' = [pband EXCEPT ![p.key] = band_object(p)] /\ UNCHANGED pevents
            \/ PolicyEvent /\ UNCHANGED pband
         /\ Steps([ptick EXCEPT !.creates = @ \ {p}, !.adopts = @ \ {p}])

Retire ==
    /\ ptick.at = "act" /\ ~ptick.plan_only /\ ptick.creates = {} /\ ptick.adopts = {}
    /\ \E b \in ptick.retires :
         /\ \/ pband' = [pband EXCEPT ![b.key] = NoBand] /\ UNCHANGED pevents
            \/ PolicyEvent /\ UNCHANGED pband
         /\ Steps([ptick EXCEPT !.retires = @ \ {b}])

\* Done, or only counted for a plan-only policy.
Report ==
    /\ ptick.at = "act"
    /\ ptick.plan_only \/ ptick.creates \cup ptick.adopts \cup ptick.retires = {}
    /\ Steps(Asleep) /\ UNCHANGED <<pband, pevents>>

\* A failed list of autoscalers or workloads, or a crash, ends the reconcile.
PolicyAborts ==
    /\ ptick.at # "idle" /\ PolicyEvent
    /\ Steps(Asleep) /\ UNCHANGED pband

-----------------------------------------------------------------------------
(***************************************************************************)
(* The world.                                                              *)
(***************************************************************************)
WorkloadChanges(w) ==
    /\ PolicyEvent
    /\ \/ /\ workload[w].live
          /\ \/ workload' = [workload EXCEPT ![w].live = FALSE]
             \/ workload' = [workload EXCEPT ![w].hpa = ~@]
             \/ \E s \in Shapes : workload' = [workload EXCEPT ![w].declares = s]
       \/ ~workload[w].live /\ workload' = [workload EXCEPT ![w].live = TRUE, ![w].uid = @ + 1]
    /\ UNCHANGED <<pband, psettings, ptick>>

\* An operator freezes a band, or writes one by hand.
OperatorFreezes(k) ==
    /\ PolicyEvent
    /\ pband' = [pband EXCEPT ![k].there = TRUE, ![k].intent = "frozen"]
    /\ UNCHANGED <<workload, psettings, ptick>>

OperatorSets ==
    /\ PolicyEvent /\ psettings' \in [suspend : BOOLEAN, plan_only : BOOLEAN]
    /\ UNCHANGED <<workload, pband, ptick>>

Orphaned(k) == pband[k].owner # 0 /\ ~(workload[k[1]].live /\ workload[k[1]].uid = pband[k].owner)

GarbageCollect ==
    /\ \E k \in Keys : Orphaned(k) /\ pband' = [pband EXCEPT ![k] = NoBand]
    /\ UNCHANGED <<workload, psettings, ptick, pevents>>

PolicyNext ==
    \/ ReadAutoscalers \/ ReadShapes \/ Materialize \/ Retire \/ Report \/ PolicyAborts
    \/ \E failed \in {{}} \cup {{d} : d \in BandDimension} : ListBands(failed)
    \/ \E w \in Workloads : WorkloadChanges(w)
    \/ \E k \in Keys : OperatorFreezes(k)
    \/ OperatorSets \/ GarbageCollect

PolicyFairness ==
    /\ WF_policy_vars(ReadAutoscalers) /\ WF_policy_vars(ReadShapes) /\ WF_policy_vars(ListBands({}))
    /\ WF_policy_vars(Materialize) /\ WF_policy_vars(Retire) /\ WF_policy_vars(Report)
    /\ WF_policy_vars(GarbageCollect)

-----------------------------------------------------------------------------
\* What the workloads warrant now.
Warranted ==
    {k \in Keys : /\ workload[k[1]].live /\ namespace_matches(NsOf[k[1]])
                  /\ warrant_for(k[2], [w |-> k[1], uid |-> workload[k[1]].uid,
                                        declares |-> workload[k[1]].declares, hpa |-> workload[k[1]].hpa])}

\* Every warranted dimension has a band its workload owns, no band outlives
\* its owner, and no owned band of a kind that is still planned for anybody
\* is left where its own workload stopped warranting it.
Enrolled ==
    /\ \A k \in Warranted : pband[k].there /\ pband[k].owner = workload[k[1]].uid
    /\ \A k \in Keys : ~Orphaned(k)
    /\ \A k \in Keys : pband[k].there /\ pband[k].owner # 0 /\ (\E l \in Warranted : crd_kind(l[2]) = crd_kind(k[2]))
                         => k \in Warranted \/ ~namespace_matches(NsOf[k[1]])

\* Once the world rests, an active policy's bands are the warranted ones,
\* through half-done reconciles, stale shapes and failed calls (reconcile:
\* additive work first, every pass from what is observed).
PolicyConverges == <>[](~psettings.suspend /\ ~psettings.plan_only) => <>[]Enrolled

\* Adopting an unowned band means to "attach the owner reference it is missing"
\* to a band that is correct as it is: one an operator froze is still frozen when
\* it has been adopted.
FrozenStays ==
    [][\A p \in ptick.adopts \ ptick'.adopts :
         pband[p.key].there /\ pband[p.key].intent = "frozen" => pband'[p.key].intent = "frozen"]_policy_vars
=============================================================================
