--------------------------- MODULE WorkloadProofs ----------------------------
(***************************************************************************)
(* What a workload's own ticks never do beside carving its limit, for      *)
(* every lifecycle and request configuration that validates, every pod,    *)
(* demand and posture: plan a resize the API server would refuse, take a   *)
(* limit down without proof.                                               *)
(***************************************************************************)
EXTENDS LifecycleBreath, RequestBand, BandLawProofs, TLAPS

(***************************************************************************)
(* The request dimension.                                                  *)
(***************************************************************************)
PodType == [Container -> ContainerResources]

ManifestTyped(m) ==
    /\ DOMAIN m = {"requests", "limits", "marked"}
    /\ m.limits \in [Scalars -> Nat]
    /\ DOMAIN m.requests = Scalars
    /\ \A s \in Scalars : "n" \in DOMAIN m.requests[s] /\ m.requests[s].n \in Nat

\* A plan that a tick goes on with.
PlanTyped(plan) ==
    /\ plan.kind \in {"InPlace", "Transition"} /\ plan.value \in Nat
    /\ plan.kind = "Transition" => plan.block \in PodType

RequestTyped ==
    /\ request_band \in RequestConfigs /\ demand \in Nat
    /\ pod \in PodType /\ ManifestTyped(manifest)
    /\ DOMAIN job = {"at", "plan", "fresh", "base", "moved"}
    /\ job.at # "idle" => PlanTyped(job.plan)
    /\ job.at = "read" => ManifestTyped(job.base)

\* ResizeLegal looks at one container; the others have to be within their
\* limits already, through every rollout and carve.
RequestInv == RequestTyped /\ Grantable(pod) /\ ResizeLegal

\* Setting one request.
LEMMA WithRequest ==
    ASSUME NEW p \in PodType, NEW c \in Container, NEW r \in RequestResource, NEW v \in Nat
    PROVE  /\ with_request(p, c, r, v) \in PodType
           /\ \A k \in Container : with_request(p, c, r, v)[k].limit = p[k].limit
           /\ with_request(p, c, r, v)[c].request[r] = v
           /\ \A k \in Container, s \in RequestResource : k # c \/ s # r
                => with_request(p, c, r, v)[k].request[s] = p[k].request[s]
BY DEF with_request, PodType, ContainerResources

\* What a band is configured with.
LEMMA BandTyped ==
    ASSUME RequestTyped
    PROVE  /\ request_band.container \in Container /\ request_band.resource \in RequestResource
           /\ UsableConfig(request_band.cfg)
           /\ request_band.headroom \in Nat /\ request_band.requests_floor \in Nat
BY RequestAssumption DEF RequestTyped, UsableConfig, validate

\* The law's proposal is a decision about the request the pod has.
LEMMA DecideRequestType ==
    ASSUME RequestTyped, NEW p \in PodType
    PROVE  decide_request(p) \in Decision
<1> DEFINE current == p[request_band.container].request[request_band.resource]
           d == Scaffold(seat(demand), demand, demand, current, request_band.cfg)
<1>1. current \in Nat
    BY BandTyped DEF PodType, ContainerResources
<1>2. demand \in Nat /\ 100 + request_band.headroom \in Nat
    BY BandTyped DEF RequestTyped
<1>3. seat(demand) \in Nat
    BY <1>2, Rounding DEF seat
<1>4. UsableConfig(request_band.cfg)
    BY BandTyped
<1> HIDE DEF current
<1>5. d \in Decision
    BY <1>1, <1>2, <1>3, <1>4, ScaffoldSafe
<1> HIDE DEF d
<1>6. clamp_to_reclaim(d, "ObserveOnly") \in Decision
    BY <1>5 DEF clamp_to_reclaim, Decide, Stay, Decision, DecisionKind
<1> DEFINE e == clamp_to_reclaim(d, "ObserveOnly")
<1> HIDE DEF e
<1>7. clamp_to_directionality(e, "GrowOnly") \in Decision
    BY <1>6 DEF e, clamp_to_directionality, Stay, Decide, IsMutation, Decision, DecisionKind
<1>8. decide_request(p) = clamp_to_directionality(e, "GrowOnly")
    BY DEF decide_request, e, d, current
<1>9. QED
    BY <1>7, <1>8

\* What the planner returns: a typed plan, which in place keeps the class and
\* stays within the container's limit.
LEMMA PlanLegal ==
    ASSUME RequestTyped, NEW p \in PodType, NEW plan, plan = plan_request_carve(p),
           plan.kind \in {"InPlace", "Transition"}
    PROVE  /\ PlanTyped(plan)
           /\ plan.kind = "InPlace" => ClassPreserved(p, plan.value) /\ ~AboveLimit(plan.value, p)
<1> DEFINE d == decide_request(p)
           sealed == carve_respecting_seal(d.to)
           current == p[request_band.container].request[request_band.resource]
           raw == IF d.kind = "Grow" THEN d.to ELSE current
<1>1. d \in Decision /\ d.to \in Nat
    BY DecideRequestType DEF Decision
<1>2. current \in Nat
    BY BandTyped DEF PodType, ContainerResources
<1>3. plan = IF qos_class(p) # resolved_qos_target THEN plan_class_transition(p, raw)
             ELSE IF d.kind \in {"ReclaimWithheld", "NoSafeShrink"} THEN RequestCarvePlan("Withheld", 0)
             ELSE IF d.kind # "Grow" \/ sealed = d.from THEN RequestCarvePlan("Hold", 0)
             ELSE IF AboveLimit(sealed, p) \/ WouldNotSchedule(sealed) \/ ~ClassPreserved(p, sealed)
               THEN RequestCarvePlan("Blocked", 0)
             ELSE RequestCarvePlan("InPlace", sealed)
    BY DEF plan_request_carve
<1> HIDE DEF d
<1>4. sealed \in Nat
    BY <1>1, BandTyped DEF carve_respecting_seal, Larger
<1>5. raw \in Nat
    BY <1>1, <1>2
<1> HIDE DEF sealed, current, raw
<1>6. CASE qos_class(p) # resolved_qos_target
    <2> DEFINE block == transition_block(p, raw)
               value == block[request_band.container].request[request_band.resource]
    <2>1. block \in PodType
        <3>1. CASE resolved_qos_target = "Guaranteed"
            BY <3>1 DEF transition_block, PodType, ContainerResources
        <3>2. CASE resolved_qos_target # "Guaranteed"
            BY <1>5, <3>2, WithRequest, BandTyped DEF transition_block
        <3>3. QED
            BY <3>1, <3>2
    <2>2. value \in Nat
        BY <2>1, BandTyped DEF PodType, ContainerResources
    <2>3. plan \in {RequestCarvePlan("Blocked", 0), [kind |-> "Transition", value |-> value, block |-> block]}
        BY <1>3, <1>6 DEF plan_class_transition
    <2> HIDE DEF block, value
    <2>4. QED
        BY <2>1, <2>2, <2>3 DEF RequestCarvePlan, PlanTyped
<1>7. CASE qos_class(p) = resolved_qos_target
    <2>1. plan = RequestCarvePlan("InPlace", sealed) /\ ~AboveLimit(sealed, p) /\ ClassPreserved(p, sealed)
        BY <1>3, <1>7 DEF RequestCarvePlan
    <2>2. QED
        BY <1>4, <2>1 DEF RequestCarvePlan, PlanTyped
<1>8. QED
    BY <1>6, <1>7

\* What the plan promises is what the API server checks.
LEMMA LegalIsAccepted ==
    ASSUME RequestTyped, Grantable(pod), NEW v \in Nat, ClassPreserved(pod, v), ~AboveLimit(v, pod)
    PROVE  ResizeAccepted(with_request(pod, request_band.container, request_band.resource, v))
<1> DEFINE c == request_band.container
           r == request_band.resource
           p == with_request(pod, c, r, v)
<1>1. c \in Container /\ r \in RequestResource /\ pod \in PodType
    BY BandTyped DEF RequestTyped
<1>2. ~(pod[c].limit[r] > 0 /\ v > pod[c].limit[r])
    BY DEF AboveLimit
<1>3. qos_class(p) = qos_class(pod)
    BY DEF ClassPreserved
<1> HIDE DEF c, r
<1>4. /\ \A k \in Container : p[k].limit = pod[k].limit
      /\ p[c].request[r] = v
      /\ \A k \in Container, s \in RequestResource : k # c \/ s # r => p[k].request[s] = pod[k].request[s]
    BY <1>1, WithRequest
<1> HIDE DEF p
<1>5. ASSUME NEW k \in Container, NEW s \in RequestResource, p[k].limit[s] > 0
      PROVE  p[k].request[s] <= p[k].limit[s]
    <2>1. pod[c].limit[r] \in Nat
        BY <1>1 DEF PodType, ContainerResources
    <2>2. CASE k = c /\ s = r
        BY <1>2, <1>4, <1>5, <2>1, <2>2
    <2>3. CASE k # c \/ s # r
        BY <1>4, <1>5, <2>3 DEF Grantable
    <2>4. QED
        BY <2>2, <2>3
<1>6. ResizeAccepted(p)
    BY <1>3, <1>5 DEF ResizeAccepted, Grantable
<1>7. QED
    BY <1>6 DEF p, c, r

\* The manifest a pod comes from, and the pods that come from a manifest.
LEMMA ManifestOfPod ==
    ASSUME NEW p \in PodType PROVE ManifestTyped(ManifestOf(p))
BY DEF ManifestOf, ManifestTyped, PodType, ContainerResources, Scalars

LEMMA PodOfManifest ==
    ASSUME NEW m, ManifestTyped(m)
    PROVE  PodOf(m) \in PodType /\ (Admissible(m) => Grantable(PodOf(m)))
<1>1. \A c \in Container, r \in RequestResource : <<c, r>> \in Scalars
    BY DEF Scalars
<1>2. PodOf(m) \in PodType
    BY <1>1 DEF PodOf, ManifestTyped, PodType, ContainerResources
<1>3. Admissible(m) => Grantable(PodOf(m))
    BY <1>1 DEF PodOf, Admissible, Grantable
<1>4. QED
    BY <1>2, <1>3

\* An edit sets requests to the numbers of a typed plan.
LEMMA EditTyped ==
    ASSUME NEW m, ManifestTyped(m), NEW plan, PlanTyped(plan)
    PROVE  ManifestTyped(apply_all(m, AddressedProposal(plan)))
<1> DEFINE a == AddressedProposal(plan)
<1>1. \A s \in DOMAIN a \cap Scalars : a[s] \in Nat
    <2>1. CASE plan.kind = "InPlace"
        BY <2>1 DEF AddressedProposal, PlanTyped
    <2>2. CASE plan.kind # "InPlace"
        <3>1. plan.block \in PodType /\ a = required_scalars(plan.block)
            BY <2>2 DEF AddressedProposal, PlanTyped
        <3>2. \A s \in Scalars : s[1] \in Container /\ s[2] \in RequestResource
            BY DEF Scalars
        <3>3. \A c \in Container, r \in RequestResource : plan.block[c].request[r] \in Nat
            BY <3>1 DEF PodType, ContainerResources
        <3>4. \A s \in Scalars : plan.block[s[1]].request[s[2]] \in Nat
            BY <3>2, <3>3
        <3>5. \A s \in DOMAIN a : a[s] = plan.block[s[1]].request[s[2]]
            BY <3>1 DEF required_scalars
        <3>6. QED
            BY <3>4, <3>5
    <2>3. QED
        BY <2>1, <2>2
<1> HIDE DEF a
<1>2. ManifestTyped(apply_all(m, a))
    BY <1>1 DEF apply_all, ManifestTyped, Spelled
<1>3. QED
    BY <1>2 DEF a

\* The pod is as the API server took it, and no tick is in flight.
LEMMA RequestInitInv == RequestInit => RequestInv
<1> SUFFICES ASSUME RequestInit PROVE RequestInv
    OBVIOUS
<1>1. pod \in PodType /\ Grantable(pod) /\ request_band \in RequestConfigs /\ demand \in Nat
    BY RequestAssumption DEF RequestInit, PodType
<1>2. ManifestTyped(manifest)
    BY <1>1, ManifestOfPod DEF RequestInit
<1>3. job.at = "idle" /\ DOMAIN job = {"at", "plan", "fresh", "base", "moved"}
    BY DEF RequestInit, Rest
<1>4. QED
    BY <1>1, <1>2, <1>3 DEF RequestInv, RequestTyped, ResizeLegal

\* A step that ends the tick, or goes on to the manifest, leaves nothing to
\* resize.
LEMMA NoResizeLeft ==
    ASSUME RequestTyped', Grantable(pod)', job'.at # "resize"
    PROVE  RequestInv'
BY DEF RequestInv, ResizeLegal

\* Every step preserves the invariant.
LEMMA RequestNextInv == RequestInv /\ [RequestNext]_request_vars => RequestInv'
<1> SUFFICES ASSUME RequestInv, [RequestNext]_request_vars PROVE RequestInv'
    OBVIOUS
<1>0. RequestTyped /\ Grantable(pod) /\ ResizeLegal
    BY DEF RequestInv
<1>r. DOMAIN Rest = {"at", "plan", "fresh", "base", "moved"} /\ Rest.at = "idle"
    BY DEF Rest
<1>1. CASE Observe
    <2>1. PICK plan : /\ plan = plan_request_carve(pod) /\ plan.kind \in {"InPlace", "Transition"}
                      /\ job' = [Rest EXCEPT !.at = IF plan.kind = "InPlace" THEN "resize" ELSE "propose",
                                             !.plan = plan]
        BY <1>1 DEF Observe
    <2>2. UNCHANGED <<request_band, posture, pod, manifest, demand>>
        BY <1>1 DEF Observe, authored
    <2>3. /\ PlanTyped(plan)
          /\ plan.kind = "InPlace" => ClassPreserved(pod, plan.value) /\ ~AboveLimit(plan.value, pod)
        BY <1>0, <2>1, PlanLegal DEF RequestTyped
    <2>4. /\ DOMAIN job' = {"at", "plan", "fresh", "base", "moved"} /\ job'.plan = plan
          /\ job'.at \in {"resize", "propose"} /\ (job'.at = "resize" => plan.kind = "InPlace")
        BY <2>1 DEF Rest
    <2>5. RequestTyped'
        BY <1>0, <2>2, <2>3, <2>4 DEF RequestTyped
    <2>6. job'.at = "resize" =>
            ResizeAccepted(with_request(pod, request_band.container, request_band.resource, plan.value))
        BY <1>0, <2>3, <2>4, LegalIsAccepted DEF PlanTyped
    <2>7. ResizeLegal'
        BY <2>2, <2>4, <2>6 DEF ResizeLegal, ResizeAccepted, Grantable, with_request
    <2>8. QED
        BY <1>0, <2>2, <2>5, <2>7 DEF RequestInv, Grantable
<1>2. CASE resize_in_place
    <2> DEFINE p == with_request(pod, request_band.container, request_band.resource, job.plan.value)
    <2>1. /\ job.at = "resize"
          /\ \/ ResizeAccepted(p) /\ pod' = p /\ job' \in {[job EXCEPT !.at = "propose"], Rest}
             \/ pod' = pod /\ job' = Rest
          /\ UNCHANGED <<request_band, posture, manifest, demand>>
        BY <1>2 DEF resize_in_place, authored
    <2>2. PlanTyped(job.plan)
        BY <1>0, <2>1 DEF RequestTyped
    <2>3. p \in PodType
        BY <1>0, <2>2, BandTyped, WithRequest DEF PlanTyped, RequestTyped
    <2> HIDE DEF p
    <2>4. pod' \in PodType /\ Grantable(pod)'
        BY <1>0, <2>1, <2>3 DEF ResizeAccepted, Grantable, RequestTyped
    <2>5. /\ DOMAIN job' = {"at", "plan", "fresh", "base", "moved"}
          /\ job'.at = "idle" \/ (job'.at = "propose" /\ job'.plan = job.plan)
        <3>1. CASE job' = Rest
            BY <3>1 DEF Rest
        <3>2. CASE job' = [job EXCEPT !.at = "propose"]
            BY <1>0, <3>2 DEF RequestTyped
        <3>3. QED
            BY <2>1, <3>1, <3>2
    <2>6. RequestTyped'
        BY <1>0, <2>1, <2>2, <2>4, <2>5 DEF RequestTyped
    <2>7. QED
        BY <2>4, <2>5, <2>6, NoResizeLeft
<1>3. CASE ProposalBlocked \/ CommitSkipped \/ TickLost
    <2>1. job' = Rest /\ UNCHANGED <<request_band, posture, pod, manifest, demand>>
        BY <1>3 DEF ProposalBlocked, CommitSkipped, TickLost, authored
    <2>2. RequestTyped' /\ Grantable(pod)' /\ job'.at # "resize"
        BY <1>0, <1>r, <2>1 DEF RequestTyped, Grantable
    <2>3. QED
        BY <2>2, NoResizeLeft
<1>4. CASE CommitReads
    <2>1. /\ job.at = "propose"
          /\ job' \in {[job EXCEPT !.at = "read", !.base = manifest, !.moved = FALSE], Rest}
          /\ UNCHANGED <<request_band, posture, pod, manifest, demand>>
        BY <1>4 DEF CommitReads, authored
    <2>2. /\ DOMAIN job' = {"at", "plan", "fresh", "base", "moved"}
          /\ job'.at = "idle" \/ (job'.at = "read" /\ job'.plan = job.plan /\ job'.base = manifest)
        <3>1. CASE job' = Rest
            BY <3>1 DEF Rest
        <3>2. CASE job' = [job EXCEPT !.at = "read", !.base = manifest, !.moved = FALSE]
            BY <1>0, <3>2 DEF RequestTyped
        <3>3. QED
            BY <2>1, <3>1, <3>2
    <2>3. RequestTyped' /\ Grantable(pod)' /\ job'.at # "resize"
        BY <1>0, <2>1, <2>2 DEF RequestTyped, Grantable
    <2>4. QED
        BY <2>3, NoResizeLeft
<1>5. CASE CommitFile
    <2>1. /\ job.at = "read" /\ job' = Rest
          /\ manifest' \in {manifest, apply_all(job.base, AddressedProposal(job.plan))}
          /\ UNCHANGED <<request_band, posture, pod, demand>>
        BY <1>5 DEF CommitFile, authored
    <2>2. ManifestTyped(manifest')
        BY <1>0, <2>1, EditTyped DEF RequestTyped
    <2>3. RequestTyped' /\ Grantable(pod)' /\ job'.at # "resize"
        BY <1>0, <1>r, <2>1, <2>2 DEF RequestTyped, Grantable
    <2>4. QED
        BY <2>3, NoResizeLeft
<1>6. ASSUME job' = [job EXCEPT !.fresh = FALSE], pod' \in PodType, Grantable(pod)',
             UNCHANGED <<request_band, manifest, demand>>
      PROVE  RequestInv'
    <2>1. /\ DOMAIN job' = {"at", "plan", "fresh", "base", "moved"}
          /\ job'.at = job.at /\ job'.plan = job.plan /\ job'.base = job.base
        BY <1>0, <1>6 DEF RequestTyped
    <2>2. ~job'.fresh
        BY <1>0, <1>6, Zenon DEF RequestTyped
    <2>3. RequestTyped'
        BY <1>0, <1>6, <2>1 DEF RequestTyped
    <2>4. QED
        BY <1>6, <2>2, <2>3 DEF RequestInv, ResizeLegal
<1>7. CASE Rollout
    <2>1. /\ Admissible(manifest) /\ pod' = PodOf(manifest) /\ job' = [job EXCEPT !.fresh = FALSE]
          /\ UNCHANGED <<request_band, manifest, demand>>
        BY <1>7 DEF Rollout, authored
    <2>2. PodOf(manifest) \in PodType /\ Grantable(PodOf(manifest))
        BY <1>0, <2>1, PodOfManifest DEF RequestTyped
    <2>3. pod' \in PodType /\ Grantable(pod)'
        BY <2>1, <2>2 DEF Grantable
    <2>4. QED
        BY <1>6, <2>1, <2>3
<1>8. CASE LimitCarved
    <2>1. PICK l \in Limits :
            /\ pod' = [pod EXCEPT
                        !["app"].limit["memory"] = l,
                        !["app"].request["memory"] = IF qos_class(pod) = "Guaranteed" THEN l ELSE Smaller(@, l)]
            /\ Grantable(pod') /\ job' = [job EXCEPT !.fresh = FALSE]
            /\ UNCHANGED <<request_band, manifest, demand>>
        BY <1>8 DEF LimitCarved, ResizeAccepted, authored
    <2>2. l \in Nat /\ pod \in PodType
        BY <1>0, RequestAssumption DEF RequestTyped
    <2>3. pod' \in PodType
        <3>1. PICK w \in Nat : pod' = [pod EXCEPT !["app"].limit["memory"] = l, !["app"].request["memory"] = w]
            <4>1. pod["app"].request["memory"] \in Nat
                BY <2>2 DEF PodType, ContainerResources, Container, RequestResource
            <4>2. Smaller(pod["app"].request["memory"], l) \in Nat
                BY <2>2, <4>1 DEF Smaller
            <4>3. QED
                BY <2>1, <2>2, <4>2 DEF PodType, ContainerResources, Container, RequestResource
        <3>2. QED
            BY <2>2, <3>1 DEF PodType, ContainerResources, Container, RequestResource
    <2>4. Grantable(pod)'
        BY <2>1 DEF Grantable
    <2>5. QED
        BY <1>6, <2>1, <2>3, <2>4
<1>9. CASE ManifestEdited
    <2>1. /\ job' = [job EXCEPT !.moved = TRUE] /\ UNCHANGED <<request_band, posture, pod, demand>>
        BY <1>9 DEF ManifestEdited, authored
    <2>2. ManifestTyped(manifest')
        <3>1. \/ \E l \in Nat : manifest' = [manifest EXCEPT !.limits[<<"app", "memory">>] = l]
              \/ \E k : manifest' = [manifest EXCEPT !.marked = k]
              \/ manifest' = [manifest EXCEPT !.requests = [s \in Scalars |-> [@[s] EXCEPT !.rendered = FALSE]]]
            BY <1>9, RequestAssumption DEF ManifestEdited
        <3>2. QED
            BY <1>0, <3>1 DEF RequestTyped, ManifestTyped
    <2>3. /\ DOMAIN job' = {"at", "plan", "fresh", "base", "moved"}
          /\ job'.at = job.at /\ job'.plan = job.plan /\ job'.base = job.base
        BY <1>0, <2>1 DEF RequestTyped
    <2>4. job'.fresh => job.fresh
        BY <1>0, <2>1, Zenon DEF RequestTyped
    <2>5. RequestTyped'
        BY <1>0, <2>1, <2>2, <2>3 DEF RequestTyped
    <2>6. ResizeLegal'
        BY <1>0, <2>1, <2>3, <2>4 DEF ResizeLegal, ResizeAccepted, Grantable, with_request
    <2>7. QED
        BY <1>0, <2>1, <2>5, <2>6 DEF RequestInv, Grantable
<1>10. CASE DemandMoves \/ PostureEdited
    <2>1. UNCHANGED <<request_band, pod, manifest, job>> /\ demand' \in Nat
        BY <1>0, <1>10, RequestAssumption DEF DemandMoves, PostureEdited, authored, RequestTyped
    <2>2. QED
        BY <1>0, <2>1 DEF RequestInv, RequestTyped, Grantable, ResizeLegal, ResizeAccepted, with_request
<1>11. CASE UNCHANGED request_vars
    BY <1>0, <1>11 DEF request_vars, authored, RequestInv, RequestTyped, Grantable, ResizeLegal, ResizeAccepted, with_request
<1>12. QED
    BY <1>1, <1>2, <1>3, <1>4, <1>5, <1>7, <1>8, <1>9, <1>10, <1>11 DEF RequestNext, BandStep

\* A planned resize is one the API server accepts if the pod is still the one
\* that was read, for every band, pod, posture and demand, whatever rollouts,
\* carves and edits came before it.
THEOREM ResizesAreLegal == RequestSpec => []ResizeLegal
<1>1. RequestInv => ResizeLegal
    BY DEF RequestInv
<1>2. QED
    BY <1>1, RequestInitInv, RequestNextInv, PTL DEF RequestSpec

-----------------------------------------------------------------------------
(***************************************************************************)
(* The lifecycle breath.                                                   *)
(***************************************************************************)
BreathTyped ==
    /\ phase \in PhaseTag
    /\ limit \in Nat /\ need \in Nat /\ peak \in Nat /\ signals \in Reading
    /\ DOMAIN carry = {"age", "current_limit", "startup_observed_min", "shadow_confirmed_for"}
    /\ carry.current_limit \in Nat /\ carry.startup_observed_min \in Nat
    /\ wrote.step_from \in Int

\* The driver's carry is never behind the cluster, and nothing runs at zero.
CarryFollows == limit = carry.current_limit /\ (phase = "Zero" => limit = 0)

BreathInv == BreathTyped /\ CarryFollows

\* What a validated configuration gives the arithmetic.
LEMMA SteadyTyped ==
    /\ UsableConfig(Steadyband) /\ Steadyband.setpoint \in Nat \ {0}
    /\ Steadyband.floor_bytes \in Nat /\ Steadyband.ceiling_bytes \in Nat
    /\ Steadyband.request_floor_bytes \in Nat
    /\ LifecycleConfig.expansion_factor \in Nat /\ LifecycleConfig.settle_step_factor \in Nat
BY LifecycleConfigValid DEF Steadyband, UsableConfig, validate_lifecycle, validate, BandConfig

\* A trusted reading is the working set.
LEMMA TrustedReading ==
    ASSUME BreathTyped
    PROVE  /\ Used \in Int /\ Larger(Used, 0) \in Nat
           /\ Trusted => Used = need
BY DEF BreathTyped, Used, Trusted, Reading, None, Larger

\* The generous limit of a woken workload is a limit.
LEMMA ExpansionType == ASSUME NEW ws \in Nat PROVE expansion_limit(ws) \in Nat
<1> DEFINE seed == Larger(Larger(ws, Steadyband.request_floor_bytes), Steadyband.floor_bytes)
           a == seed * LifecycleConfig.expansion_factor + Steadyband.setpoint - 1
           expanded == a \div Steadyband.setpoint
<1>1. seed \in Nat
    BY SteadyTyped DEF Larger
<1> HIDE DEF seed
<1>2. seed * LifecycleConfig.expansion_factor \in Nat
    BY <1>1, SteadyTyped
<1>3. a \in Nat
    BY <1>2, SteadyTyped
<1> HIDE DEF a
<1>4. expanded \in Int
    BY <1>3, SteadyTyped
<1> HIDE DEF expanded
<1>5. Larger(ClampTo(expanded, Steadyband.floor_bytes, Steadyband.ceiling_bytes), 1) \in Nat
    BY <1>4, SteadyTyped DEF ClampTo, Larger
<1>6. QED
    BY <1>5 DEF expansion_limit, expanded, a, seed

\* A limit that may grow grows, or stays.
LEMMA HeadroomGrows ==
    ASSUME NEW current \in Nat, ~grow_panics(current)
    PROVE  grow_headroom(current) \in Nat /\ grow_headroom(current) >= current
<1>1. Base(current) \in Nat /\ Base(current) >= current /\ Base(current) <= Steadyband.ceiling_bytes
    BY SteadyTyped DEF Base, Larger, grow_panics
<1>2. MulCeil(Base(current), LifecycleConfig.expansion_factor) \in Nat
    BY <1>1, SteadyTyped, Rounding
<1>3. QED
    BY <1>1, <1>2, SteadyTyped DEF grow_headroom, ClampTo

\* Where tightening stops: at the seated peak and what startup needed.
LEMMA BottomSeats ==
    ASSUME BreathTyped, Trusted
    PROVE  /\ Bottom \in Nat
           /\ Bottom >= DivCeil(Larger(peak, need), Steadyband.setpoint)
           /\ Bottom >= carry.startup_observed_min
           /\ tighten_floor(Proof, carry.startup_observed_min) \in Nat
<1> DEFINE top == Larger(peak, need)
           seated == DivCeil(top, Steadyband.setpoint)
           floor == tighten_floor(Proof, carry.startup_observed_min)
<1>1. need \in Nat /\ peak \in Nat /\ carry.startup_observed_min \in Nat /\ Used = need
    BY TrustedReading DEF BreathTyped
<1>2. top \in Nat /\ Larger(Larger(peak, need), need) = top
    BY <1>1 DEF Larger
<1>3. Proof.peak = top /\ Proof.used = need
    BY <1>1 DEF Proof
<1>4. seated \in Nat /\ DivCeil(need, Steadyband.setpoint) \in Nat
    BY <1>1, <1>2, SteadyTyped, Rounding
<1>5. safe_min(Proof.peak, Proof.used, Steadyband) =
        Larger(Larger(seated, Steadyband.request_floor_bytes), Steadyband.floor_bytes)
    BY <1>2, <1>3 DEF safe_min
<1> HIDE DEF seated, top
<1>6. floor \in Nat /\ floor >= seated /\ floor >= carry.startup_observed_min
    BY <1>1, <1>4, <1>5, SteadyTyped DEF tighten_floor, Larger
<1>7. steady_target(Proof) \in Nat
    BY <1>3, <1>4, SteadyTyped DEF steady_target, soft_min, Larger
<1> HIDE DEF floor
<1>8. Larger(steady_target(Proof), floor) \in Nat /\ Larger(steady_target(Proof), floor) >= floor
    BY <1>6, <1>7 DEF Larger
<1>9. Bottom = Larger(steady_target(Proof), floor)
    BY DEF Bottom, floor
<1>10. QED
    BY <1>1, <1>4, <1>6, <1>8, <1>9 DEF seated, top, floor

\* One step down stops there.
LEMMA StepStops ==
    ASSUME BreathTyped, Trusted
    PROVE  StepTo \in Nat /\ StepTo >= Bottom
<1>1. Bottom \in Nat /\ carry.current_limit \in Nat
    BY BottomSeats DEF BreathTyped
<1>2. MulFloor(carry.current_limit, LifecycleConfig.settle_step_factor) \in Nat
    BY <1>1, SteadyTyped, Rounding
<1>3. QED
    BY <1>1, <1>2 DEF StepTo, Larger, Smaller

\* A proposed step carries its shadow as it was asked for.
LEMMA TightenFields ==
    ASSUME NEW b \in BOOLEAN
    PROVE  /\ Tighten(b).kind = "Tighten" /\ Tighten(b).to = StepTo /\ Tighten(b).from = carry.current_limit
           /\ Tighten(b).shadow_only <=> b
<1>1. Tighten(b).shadow_only <=> b
    BY Zenon DEF Tighten, Verdict
<1>2. QED
    BY <1>1 DEF Tighten, Verdict

\* The limit goes down in a tick only by a step that is not shadowed.
Proven(to) ==
    /\ phase = "Settle" /\ Trusted /\ ~is_struggling(signals)
    /\ carry.shadow_confirmed_for = limit
    /\ to >= DivCeil(Larger(peak, need), Steadyband.setpoint)
    /\ to >= carry.startup_observed_min

Kept == {"Hold", "Idle", "Reload"}

LEMMA FuseSafe ==
    ASSUME BreathInv, ~TickPanics, NEW dry_run \in BOOLEAN, NEW d, d = fuse(dry_run)
    PROVE  /\ d.to \in Nat /\ d.from = carry.current_limit
           /\ \/ d.kind = "Wake" /\ phase = "Zero"
              \/ d.kind \in {"Expand", "ReExpand", "ReachedSetpoint"} /\ d.to >= limit /\ phase # "Zero"
              \/ d.kind = "Tighten" /\ phase # "Zero" /\ (d.shadow_only \/ Proven(d.to))
              \/ d.kind \in Kept \cup {"ScaleToZero"}
<1>0. BreathTyped /\ limit = carry.current_limit
    BY DEF BreathInv, CarryFollows
<1> DEFINE Good == /\ d.to \in Nat /\ d.from = carry.current_limit
                   /\ \/ d.kind = "Wake" /\ phase = "Zero"
                      \/ d.kind \in {"Expand", "ReExpand", "ReachedSetpoint"} /\ d.to >= limit /\ phase # "Zero"
                      \/ d.kind = "Tighten" /\ phase # "Zero" /\ (d.shadow_only \/ Proven(d.to))
                      \/ d.kind \in Kept \cup {"ScaleToZero"}
<1>1. \A kind, to : Verdict(kind, to).kind = kind /\ Verdict(kind, to).to = to
                    /\ Verdict(kind, to).from = carry.current_limit
    BY DEF Verdict
<1>2. ASSUME NEW kind \in Kept \cup {"ScaleToZero"}, NEW to \in Nat, d = Verdict(kind, to) PROVE Good
    BY <1>1, <1>2
<1>3. CASE phase = "Zero"
    <2>1. d = Verdict("Wake", expansion_limit(Larger(Used, 0))) \/ d = Verdict("Hold", 0)
        BY <1>3 DEF fuse
    <2>2. expansion_limit(Larger(Used, 0)) \in Nat
        BY <1>0, TrustedReading, ExpansionType
    <2>3. QED
        BY <1>1, <1>3, <2>1, <2>2 DEF Kept
<1>4. CASE phase # "Zero" /\ (~Trusted \/ is_struggling(signals))
    <2>1. d = Expanding /\ ~grow_panics(carry.current_limit)
        BY <1>4 DEF fuse, TickPanics
    <2>2. grow_headroom(carry.current_limit) \in Nat /\ grow_headroom(carry.current_limit) >= limit
        BY <1>0, <2>1, HeadroomGrows DEF BreathTyped
    <2>3. QED
        BY <1>1, <1>4, <2>1, <2>2 DEF Expanding
<1>5. CASE phase # "Zero" /\ Trusted /\ ~is_struggling(signals)
    <2>1. d = CASE phase = "Wake"   -> fuse_wake
                [] phase = "Settle" -> fuse_settle(dry_run)
                [] phase = "Steady" -> fuse_steady
                [] phase = "Idle"   -> fuse_idle
        BY <1>5 DEF fuse
    <2>2. /\ StepTo \in Nat /\ StepTo >= Bottom /\ Bottom \in Nat
          /\ Bottom >= DivCeil(Larger(peak, need), Steadyband.setpoint)
          /\ Bottom >= carry.startup_observed_min
          /\ tighten_floor(Proof, carry.startup_observed_min) \in Nat
        BY <1>0, <1>5, BottomSeats, StepStops
    <2>3. limit \in Nat /\ carry.startup_observed_min \in Nat
          /\ DivCeil(Larger(peak, need), Steadyband.setpoint) \in Nat
        <3>1. Larger(peak, need) \in Nat
            BY <1>0 DEF BreathTyped, Larger
        <3>2. QED
            BY <1>0, <3>1, SteadyTyped, Rounding DEF BreathTyped
    <2>4. ASSUME d = ReachedSetpoint PROVE Good
        <3>1. Larger(carry.current_limit, tighten_floor(Proof, carry.startup_observed_min)) \in Nat
              /\ Larger(carry.current_limit, tighten_floor(Proof, carry.startup_observed_min)) >= limit
            BY <1>0, <2>2, <2>3 DEF Larger
        <3>2. QED
            BY <1>1, <1>5, <2>4, <3>1 DEF ReachedSetpoint
    <2>5. CASE phase = "Wake"
        <3>1. d = Tighten(TRUE) \/ d = ReachedSetpoint \/ d = Verdict("Hold", limit)
            BY <2>1, <2>5 DEF fuse_wake
        <3>2. ASSUME d = Tighten(TRUE) PROVE Good
            <4>1. Tighten(TRUE).shadow_only /\ Tighten(TRUE).kind = "Tighten" /\ Tighten(TRUE).to = StepTo
                  /\ Tighten(TRUE).from = carry.current_limit
                BY TightenFields
            <4>2. QED
                BY <1>5, <2>2, <3>2, <4>1
        <3>3. QED
            BY <1>2, <2>3, <2>4, <3>1, <3>2 DEF Kept
    <2>6. CASE phase = "Settle"
        <3> DEFINE b == dry_run \/ carry.shadow_confirmed_for # carry.current_limit
        <3>1. d = Tighten(b) \/ d = ReachedSetpoint
            BY <2>1, <2>6 DEF fuse_settle
        <3>2. ASSUME d = Tighten(b) PROVE Good
            <4>1. b \in BOOLEAN
                OBVIOUS
            <4>2. ~b => carry.shadow_confirmed_for = limit
                BY <1>0
            <4> HIDE DEF b
            <4>3. (Tighten(b).shadow_only <=> b) /\ Tighten(b).kind = "Tighten" /\ Tighten(b).to = StepTo
                  /\ Tighten(b).from = carry.current_limit
                BY <4>1, TightenFields
            <4>4. StepTo >= DivCeil(Larger(peak, need), Steadyband.setpoint) /\ StepTo >= carry.startup_observed_min
                BY <2>2, <2>3
            <4>5. ~b => Proven(StepTo)
                BY <1>5, <2>6, <4>2, <4>4 DEF Proven
            <4>6. QED
                BY <1>5, <2>2, <3>2, <4>3, <4>5
        <3>3. QED
            BY <2>4, <3>1, <3>2
    <2>7. CASE phase = "Steady"
        BY <1>2, <2>1, <2>3, <2>7 DEF fuse_steady, Kept
    <2>8. CASE phase = "Idle"
        BY <1>2, <2>1, <2>3, <2>8 DEF fuse_idle, Kept
    <2>9. QED
        BY <1>0, <1>5, <2>5, <2>6, <2>7, <2>8 DEF BreathTyped, PhaseTag
<1>6. QED
    BY <1>3, <1>4, <1>5

\* What the startup minimum is learned from is a working set.
LEMMA LearnedTyped == ASSUME BreathTyped PROVE Learned \in Nat
BY TrustedReading DEF BreathTyped, Learned, Smaller

\* What a tick does to the limit and to the carry, kind by kind.
LEMMA ApplySafe ==
    ASSUME BreathInv, ~TickPanics, NEW dry_run \in BOOLEAN, NEW in_cooldown \in BOOLEAN,
           NEW d, d = fuse(dry_run), Apply(d, Actuates(d, in_cooldown))
    PROVE  BreathInv' /\ (limit' < limit => limit' = 0 \/ Proven(limit'))
<1> DEFINE act == Actuates(d, in_cooldown)
<1>0. BreathTyped /\ limit = carry.current_limit /\ (phase = "Zero" => limit = 0)
    BY DEF BreathInv, CarryFollows
<1>1. /\ d.to \in Nat /\ d.from = carry.current_limit
      /\ \/ d.kind = "Wake" /\ phase = "Zero"
         \/ d.kind \in {"Expand", "ReExpand", "ReachedSetpoint"} /\ d.to >= limit /\ phase # "Zero"
         \/ d.kind = "Tighten" /\ phase # "Zero" /\ (d.shadow_only \/ Proven(d.to))
         \/ d.kind \in Kept \cup {"ScaleToZero"}
    BY FuseSafe
<1>2. /\ phase' = PersistedPhase(d) /\ carry' = Advance(d, act)
      /\ limit' = IF d.kind = "ScaleToZero" THEN 0 ELSE IF act THEN d.to ELSE limit
      /\ need' = need /\ signals' = signals
    BY DEF Apply
<1>3. act <=> \/ d.kind \in {"Wake", "Expand", "ReExpand", "ReachedSetpoint"}
              \/ d.kind = "Tighten" /\ ~d.shadow_only /\ ~in_cooldown
    BY Zenon DEF Actuates
<1> HIDE DEF act
<1>4. peak' \in Nat
    BY <1>0 DEF Apply, BreathTyped, Larger
<1>5. wrote'.step_from \in Int
    BY <1>0, <1>1 DEF Apply, BreathTyped, NoStep, None
<1>6. phase' \in PhaseTag
    BY <1>0, <1>2 DEF PersistedPhase, next_phase, PhaseTag, BreathTyped
<1>7. Learned \in Nat
    BY <1>0, LearnedTyped
<1>8. ASSUME DOMAIN carry' = {"age", "current_limit", "startup_observed_min", "shadow_confirmed_for"},
             carry'.current_limit = limit', carry'.startup_observed_min \in Nat,
             limit' \in Nat, phase' = "Zero" => limit' = 0,
             limit' < limit => limit' = 0 \/ Proven(limit')
      PROVE  BreathInv' /\ (limit' < limit => limit' = 0 \/ Proven(limit'))
    BY <1>0, <1>2, <1>4, <1>5, <1>6, <1>8 DEF BreathInv, BreathTyped, CarryFollows
<1>9. /\ limit \in Nat /\ carry.startup_observed_min \in Nat
      /\ DOMAIN carry = {"age", "current_limit", "startup_observed_min", "shadow_confirmed_for"}
    BY <1>0 DEF BreathTyped
<1>10. CASE d.kind = "Wake"
    <2>1. limit' = d.to /\ phase' = "Wake"
        BY <1>2, <1>3, <1>10 DEF PersistedPhase, next_phase
    <2>2. carry' = [age |-> 0, current_limit |-> d.to, startup_observed_min |-> 0,
                    shadow_confirmed_for |-> None]
        BY <1>2, <1>3, <1>10 DEF Advance
    <2>3. QED
        BY <1>0, <1>1, <1>8, <1>9, <1>10, <2>1, <2>2 DEF Kept
<1>11. CASE d.kind = "ReExpand"
    <2>1. limit' = d.to /\ phase' = "Wake" /\ d.to >= limit
        BY <1>1, <1>2, <1>3, <1>11 DEF PersistedPhase, next_phase, Kept
    <2>2. carry' = [carry EXCEPT !.age = 0, !.current_limit = Larger(d.to, @), !.shadow_confirmed_for = None]
        BY <1>2, <1>3, <1>11 DEF Advance
    <2>3. Larger(d.to, carry.current_limit) = d.to
        BY <1>0, <1>1, <1>9, <2>1 DEF Larger
    <2>4. QED
        BY <1>0, <1>1, <1>8, <1>9, <2>1, <2>2, <2>3
<1>12. CASE d.kind = "ReachedSetpoint"
    <2>1. limit' = d.to /\ phase' = "Steady" /\ d.to >= limit
        BY <1>1, <1>2, <1>3, <1>12 DEF PersistedPhase, next_phase, Kept
    <2>2. carry' = [carry EXCEPT !.age = 0, !.current_limit = d.to, !.shadow_confirmed_for = None]
        BY <1>2, <1>3, <1>12 DEF Advance
    <2>3. QED
        BY <1>0, <1>1, <1>8, <1>9, <2>1, <2>2
<1>13. CASE d.kind = "ScaleToZero"
    <2>1. limit' = 0
        BY <1>2, <1>13
    <2>2. carry' = [carry EXCEPT !.age = 0, !.current_limit = 0]
        BY <1>2, <1>13 DEF Advance
    <2>3. QED
        BY <1>8, <1>9, <2>1, <2>2
<1>14. CASE d.kind \in Kept \cup {"Expand", "Tighten"}
    <2>1. PICK age : carry' = [carry EXCEPT !.age = age, !.current_limit = IF act THEN d.to ELSE carry.current_limit,
                                           !.startup_observed_min = Learned]
        BY <1>2, <1>14 DEF Advance, Kept
    <2>2. limit' = IF act THEN d.to ELSE limit
        BY <1>2, <1>14 DEF Kept
    <2>3. carry'.current_limit = limit' /\ carry'.startup_observed_min = Learned
          /\ DOMAIN carry' = {"age", "current_limit", "startup_observed_min", "shadow_confirmed_for"}
        BY <1>0, <1>9, <2>1, <2>2
    <2>4. limit' \in Nat
        BY <1>1, <1>9, <2>2
    <2>5. phase' = "Zero" => limit' = 0
        <3>1. phase' = "Zero" => phase = "Zero"
            BY <1>2, <1>14 DEF PersistedPhase, next_phase, Kept
        <3>2. phase = "Zero" => ~act
            BY <1>1, <1>3, <1>14 DEF Kept
        <3>3. QED
            BY <1>0, <2>2, <3>1, <3>2
    <2>6. limit' < limit => Proven(limit')
        <3>1. CASE ~act
            BY <1>9, <2>2, <3>1
        <3>2. CASE act /\ d.kind = "Expand"
            <4>1. d.to >= limit
                BY <1>1, <3>2 DEF Kept
            <4>2. QED
                BY <1>1, <1>9, <2>2, <3>2, <4>1
        <3>3. CASE act /\ d.kind = "Tighten"
            <4>1. Proven(d.to)
                BY <1>1, <1>3, <3>3 DEF Kept
            <4>2. QED
                BY <2>2, <3>3, <4>1
        <3>4. QED
            BY <1>3, <1>14, <3>1, <3>2, <3>3 DEF Kept
    <2>7. QED
        BY <1>7, <1>8, <2>3, <2>4, <2>5, <2>6
<1>15. QED
    BY <1>1, <1>10, <1>11, <1>12, <1>13, <1>14

LEMMA BreathInitInv == BreathInit => BreathInv
BY LifecycleConfigValid, SignalsAssumption
   DEF BreathInit, BreathInv, BreathTyped, CarryFollows, NoStep, None, PhaseTag

\* Every step keeps the invariant, and takes the limit of a running workload
\* down only by a proven step.
LEMMA BreathNextInv ==
    BreathInv /\ [BreathNext]_breath_vars =>
        BreathInv' /\ (limit' < limit => limit' = 0 \/ Proven(limit'))
<1> SUFFICES ASSUME BreathInv, [BreathNext]_breath_vars
             PROVE  BreathInv' /\ (limit' < limit => limit' = 0 \/ Proven(limit'))
    OBVIOUS
<1>0. BreathTyped /\ CarryFollows
    BY DEF BreathInv
<1>1. limit \in Nat /\ carry.current_limit \in Nat /\ limit = carry.current_limit
    BY <1>0 DEF BreathTyped, CarryFollows
<1>2. CASE LifecycleTick
    <2>1. PICK dry_run \in LiveGate, in_cooldown \in BOOLEAN :
            Apply(fuse(dry_run), Actuates(fuse(dry_run), in_cooldown))
        BY <1>2 DEF LifecycleTick
    <2>2. dry_run \in BOOLEAN /\ ~TickPanics
        BY <1>2, LifecycleConfigValid DEF LifecycleTick
    <2>3. QED
        BY <2>1, <2>2, ApplySafe
<1>3. CASE ShadowConfirmed
    <2>1. /\ carry' = [carry EXCEPT !.shadow_confirmed_for = carry.current_limit]
          /\ UNCHANGED <<phase, limit, need, peak, signals, wrote>>
        BY <1>3 DEF ShadowConfirmed
    <2>2. QED
        BY <1>0, <1>1, <2>1 DEF BreathInv, BreathTyped, CarryFollows
<1>4. CASE TightenReverted
    <2>1. /\ carry' = [carry EXCEPT !.age = 0, !.shadow_confirmed_for = None,
                                    !.current_limit = Larger(wrote.step_from, @)]
          /\ phase' = "Wake" /\ limit' = carry'.current_limit /\ wrote' = NoStep
          /\ UNCHANGED <<need, peak, signals>>
        BY <1>4 DEF TightenReverted
    <2>2. /\ Larger(wrote.step_from, carry.current_limit) \in Nat
          /\ Larger(wrote.step_from, carry.current_limit) >= limit
        BY <1>0, <1>1 DEF BreathTyped, Larger
    <2>3. limit' = Larger(wrote.step_from, carry.current_limit)
        BY <1>0, <2>1 DEF BreathTyped
    <2>4. BreathInv'
        BY <1>0, <2>1, <2>2, <2>3 DEF BreathInv, BreathTyped, CarryFollows, NoStep, None, PhaseTag
    <2>5. QED
        BY <1>1, <2>2, <2>3, <2>4
<1>5. CASE Aging
    <2>1. /\ carry' = [carry EXCEPT !.age = Smaller(@ + 1, MaxAge)]
          /\ UNCHANGED <<phase, limit, need, peak, signals, wrote>>
        BY <1>5 DEF Aging
    <2>2. QED
        BY <1>0, <1>1, <2>1 DEF BreathInv, BreathTyped, CarryFollows
<1>6. CASE NeedMoves
    BY <1>0, <1>1, <1>6, LifecycleConfigValid DEF NeedMoves, BreathInv, BreathTyped, CarryFollows
<1>7. CASE PeakFades
    BY <1>0, <1>1, <1>7 DEF PeakFades, BreathInv, BreathTyped, CarryFollows
<1>8. CASE SignalMoves
    BY <1>0, <1>1, <1>8, SignalsAssumption DEF SignalMoves, BreathInv, BreathTyped, CarryFollows
<1>9. CASE UNCHANGED breath_vars
    BY <1>0, <1>1, <1>9 DEF breath_vars, BreathInv, BreathTyped, CarryFollows
<1>10. QED
    BY <1>2, <1>3, <1>4, <1>5, <1>6, <1>7, <1>8, <1>9 DEF BreathNext

\* For every configuration the driver accepts, every sequence of readings and
\* every gate, the limit of a running workload goes down only by a step that
\* was shadowed from that very limit, on a trusted reading of a workload that
\* does not struggle, and still seats its peak and its startup need.
THEOREM DescentIsProven == BreathSpec => DescentProven
<1>1. BreathInv /\ BreathInv' /\ [BreathNext]_breath_vars =>
        [0 < limit' /\ limit' < limit =>
            /\ phase = "Settle" /\ Trusted /\ ~is_struggling(signals)
            /\ carry.shadow_confirmed_for = limit
            /\ limit' >= DivCeil(Larger(peak, need), Steadyband.setpoint)
            /\ limit' >= carry.startup_observed_min]_breath_vars
    BY BreathNextInv DEF Proven
<1>2. BreathInv /\ [BreathNext]_breath_vars => BreathInv'
    BY BreathNextInv
<1>3. QED
    BY <1>1, <1>2, BreathInitInv, PTL DEF BreathSpec, DescentProven
=============================================================================
