----------------------------- MODULE RequestBand -----------------------------
(***************************************************************************)
(* The request dimension (breathe-provider/src/request.rs, manifest.rs):   *)
(* a reservation is raised through one of two doors.  A change that keeps  *)
(* the pod's QoS class is written in place on the live pods; a change of   *)
(* class is proposed as an edit of the manifest in git, which the next     *)
(* rollout brings to the pods.                                             *)
(*                                                                         *)
(* Between the reading of the pod and the write, the pod's limits are      *)
(* carved by other bands, pods are replaced from the manifest, and people  *)
(* edit the manifest.                                                      *)
(***************************************************************************)
EXTENDS BandLaw, FiniteSetsExt

CONSTANTS
    RequestConfigs,  \* what RequestCarveInput takes from a band, a set of records
    StartPods,       \* what the pod and its manifest first hold
    Postures,        \* what the posture the band refers to may say of its class
    Demands,         \* demand quantiles
    Limits           \* memory limits other bands and people may set

VARIABLES
    request_band,  \* the band's record, never edited
    posture,   \* the posture it refers to, which people do edit
    pod,       \* the live resources of each container
    manifest,  \* the file at HEAD: the same scalars, and which lines are marked
    demand,    \* the demand quantile the band reads
    job        \* the tick in flight

authored == <<request_band, posture>>
request_vars == <<authored, pod, manifest, demand, job>>

Container == {"app", "sidecar"}
RequestResource == {"memory", "cpu"}

\* One container's block.  0 is an absent quantity: ComputePodQOS skips both.
ContainerResources == [request : [RequestResource -> Nat], limit : [RequestResource -> Nat]]

QosClass == {"BestEffort", "Burstable", "Guaranteed"}

\* What the API server lets a pod be created with.
Grantable(p) ==
    \A c \in Container, r \in RequestResource : p[c].limit[r] > 0 => p[c].request[r] <= p[c].limit[r]

ASSUME RequestAssumption ==
    /\ \A b \in RequestConfigs :
         /\ b.container \in Container /\ b.resource \in RequestResource
         /\ b.cfg \in BandConfig /\ validate(b.cfg)
         /\ b.headroom \in Nat /\ b.requests_floor \in Nat
    /\ StartPods \subseteq [Container -> ContainerResources] /\ \A p \in StartPods : Grantable(p)
    /\ Demands \subseteq Nat /\ Limits \subseteq Nat

with_request(p, c, r, v) == [p EXCEPT ![c].request[r] = v]

(***************************************************************************)
(* What the band is to keep: its own word, then its posture's, then the    *)
(* default, field by field, so that a posture's target outranks the        *)
(* default of a class that the band itself names.                          *)
(***************************************************************************)
default_qos(class) ==
    CASE class = "Critical" -> "Guaranteed"
      [] class \in {"Standard", "Noisy"} -> "Burstable"
      [] class = "Batch" -> "BestEffort"

Folded(own, inherited, default) ==
    IF own # "unset" THEN own ELSE IF inherited # "unset" THEN inherited ELSE default

resolved_workload_class == Folded(request_band.workload_class, posture.workload_class, "Standard")

resolved_qos_target ==
    Folded(request_band.qos_target, posture.qos_target, default_qos(resolved_workload_class))

(***************************************************************************)
(* The class of a pod, over all of its containers.                         *)
(***************************************************************************)
SumOf(p, side, r) == MapThenSumSet(LAMBDA c : p[c][side][r], Container)

has_both_limits(b) == \A r \in RequestResource : b.limit[r] > 0

qos_class(p) ==
    IF \A r \in RequestResource : SumOf(p, "request", r) = 0 /\ SumOf(p, "limit", r) = 0
      THEN "BestEffort"
    ELSE IF /\ \A c \in Container : has_both_limits(p[c])
            /\ \A r \in RequestResource : SumOf(p, "request", r) = SumOf(p, "limit", r)
      THEN "Guaranteed" ELSE "Burstable"

seal_rank(q) == CASE q = "BestEffort" -> 0 [] q = "Burstable" -> 1 [] q = "Guaranteed" -> 2

(***************************************************************************)
(* The decision.  The law proposes the honest seat in both directions; the *)
(* dimension is grow-only and never reclaims.                              *)
(***************************************************************************)
seat(d) == MulCeil(d, 100 + request_band.headroom)

decide_request(p) ==
    LET current == p[request_band.container].request[request_band.resource]
    IN clamp_to_directionality(
         clamp_to_reclaim(Scaffold(seat(demand), demand, demand, current, request_band.cfg),
                          "ObserveOnly"), "GrowOnly")

carve_respecting_seal(to) == Larger(to, request_band.requests_floor)

\* RequestTarget::new: at most the live limit, when there is one.
AboveLimit(v, p) ==
    LET l == p[request_band.container].limit[request_band.resource] IN l > 0 /\ v > l

\* AllocatableHeadroom::admit.
WouldNotSchedule(v) == v > request_band.per_node

\* Mutant: a check of the carved resource alone.
ClassPreserved_by_resource(p, v) ==
    (p[request_band.container].request[request_band.resource] > 0) = (v > 0)

\* ClassPreserved::check.
ClassPreserved(p, v) ==
    qos_class(with_request(p, request_band.container, request_band.resource, v)) = qos_class(p)

RequestCarvePlan(kind, value) == [kind |-> kind, value |-> value, block |-> <<>>]

(***************************************************************************)
(* Door 2: the block that would put the pod in the target class.           *)
(***************************************************************************)
transition_block(p, raw_seat) ==
    IF resolved_qos_target = "Guaranteed"
      THEN [c \in Container |-> [p[c] EXCEPT !.request = p[c].limit]]
      ELSE with_request(p, request_band.container, request_band.resource, raw_seat)

plan_class_transition(p, raw_seat) ==
    LET block == transition_block(p, raw_seat)
        value == block[request_band.container].request[request_band.resource]
    IN IF \/ seal_rank(resolved_qos_target) < seal_rank(qos_class(p))
          \/ request_band.durability = "Ephemeral"
          \/ /\ resolved_qos_target = "Guaranteed"
             /\ \E c \in Container : ~has_both_limits(p[c])
          \/ resolved_qos_target = "BestEffort"
          \/ WouldNotSchedule(value)
          \/ qos_class(block) = qos_class(p)
       THEN RequestCarvePlan("Blocked", 0)
       ELSE [kind |-> "Transition", value |-> value, block |-> block]

(***************************************************************************)
(* The planner: the class gap dominates; within the class only a grow      *)
(* proceeds, raised to the seal, capped at the limit and the node, and     *)
(* last checked to keep the class.  1.33 restricts resizes of limits only, *)
(* so ResizeLegality allows every one of these.                            *)
(***************************************************************************)
plan_request_carve(p) ==
    LET d      == decide_request(p)
        sealed == carve_respecting_seal(d.to)
    IN IF qos_class(p) # resolved_qos_target
         THEN plan_class_transition(p, IF d.kind = "Grow" THEN d.to
                  ELSE p[request_band.container].request[request_band.resource])
       ELSE IF d.kind \in {"ReclaimWithheld", "NoSafeShrink"} THEN RequestCarvePlan("Withheld", 0)
       ELSE IF d.kind # "Grow" \/ sealed = d.from THEN RequestCarvePlan("Hold", 0)
       ELSE IF AboveLimit(sealed, p) \/ WouldNotSchedule(sealed) \/ ~ClassPreserved(p, sealed)
         THEN RequestCarvePlan("Blocked", 0)
       ELSE RequestCarvePlan("InPlace", sealed)

(***************************************************************************)
(* The manifest.  A scalar carries its number and whether it is spelled    *)
(* the way the writer spells it: edits are compared as text.               *)
(***************************************************************************)
Scalars == Container \X RequestResource
Coordinate == <<request_band.container, request_band.resource>>

Spelled(n) == [n |-> n, rendered |-> TRUE]

ManifestOf(p) ==
    [requests |-> [s \in Scalars |-> [n |-> p[s[1]].request[s[2]], rendered |-> FALSE]],
     limits   |-> [s \in Scalars |-> p[s[1]].limit[s[2]]],
     marked   |-> request_band.markers]

PodOf(m) ==
    [c \in Container |-> [request |-> [r \in RequestResource |-> m.requests[<<c, r>>].n],
                          limit   |-> [r \in RequestResource |-> m.limits[<<c, r>>]]]]

\* AddressedProposal::carve and ::transition: which scalars are set to what.
\* required_scalars names every request the block holds, changed or not.
required_scalars(block) ==
    [s \in {x \in Scalars : block[x[1]].request[x[2]] > 0} |-> block[s[1]].request[s[2]]]

AddressedProposal(plan) ==
    IF plan.kind = "InPlace" THEN [s \in {Coordinate} |-> plan.value]
    ELSE required_scalars(plan.block)

\* CoordinateGap: a marker must be known for each of them.
Addressable(plan) ==
    /\ request_band.durability = "Committed"
    /\ DOMAIN AddressedProposal(plan) # {}
    /\ DOMAIN AddressedProposal(plan) \subseteq request_band.markers

\* set_scalar_at_marker finds each marker on exactly one line.
Anchored(m, assignments) == DOMAIN assignments \subseteq m.marked

apply_all(m, assignments) ==
    [m EXCEPT !.requests = [s \in Scalars |->
        IF s \in DOMAIN assignments THEN Spelled(assignments[s]) ELSE @[s]]]

(***************************************************************************)
(* One tick: observe and plan; write in place, or commit in three calls.   *)
(***************************************************************************)
Rest == [at |-> "idle", plan |-> RequestCarvePlan("Hold", 0), fresh |-> TRUE,
         base |-> <<>>, moved |-> FALSE]

Observe ==
    /\ job.at = "idle"
    /\ \E plan \in {plan_request_carve(pod)} :
        /\ plan.kind \in {"InPlace", "Transition"}
        /\ job' = [Rest EXCEPT !.at = IF plan.kind = "InPlace" THEN "resize" ELSE "propose",
                               !.plan = plan]
    /\ UNCHANGED <<authored, pod, manifest, demand>>

\* ValidatePodResize: the stored class may not change, a request may not
\* exceed its limit.
ResizeAccepted(p) ==
    qos_class(p) = qos_class(pod) /\ Grantable(p)

resize_in_place ==
    /\ job.at = "resize"
    /\ \E p \in {with_request(pod, request_band.container, request_band.resource, job.plan.value)} :
        IF ResizeAccepted(p)
          THEN /\ pod' = p
               /\ job' = IF Addressable(job.plan) THEN [job EXCEPT !.at = "propose"] ELSE Rest
          ELSE pod' = pod /\ job' = Rest
    /\ UNCHANGED <<authored, manifest, demand>>

\* A proposal without a coordinate for every scalar is blocked.
ProposalBlocked ==
    /\ job.at = "propose" /\ ~Addressable(job.plan)
    /\ job' = Rest
    /\ UNCHANGED <<authored, pod, manifest, demand>>

\* GitManifestWriter::commit reads the file ...
CommitReads ==
    /\ job.at = "propose" /\ Addressable(job.plan)
    /\ job' = IF Anchored(manifest, AddressedProposal(job.plan))
                THEN [job EXCEPT !.at = "read", !.base = manifest, !.moved = FALSE] ELSE Rest
    /\ UNCHANGED <<authored, pod, manifest, demand>>

AlreadyCommitted == apply_all(job.base, AddressedProposal(job.plan)) = job.base

\* ... and commits it whole, unless it holds the values already or the remote
\* moved since.
CommitFile ==
    /\ job.at = "read" /\ ~AlreadyCommitted
    /\ manifest' = IF job.moved THEN manifest
                   ELSE apply_all(job.base, AddressedProposal(job.plan))
    /\ job' = Rest
    /\ UNCHANGED <<authored, pod, demand>>

CommitSkipped ==
    /\ job.at = "read" /\ AlreadyCommitted
    /\ job' = Rest
    /\ UNCHANGED <<authored, pod, manifest, demand>>

\* The tree is dirty, the transport fails, the process dies.
TickLost ==
    /\ job.at # "idle"
    /\ job' = Rest
    /\ UNCHANGED <<authored, pod, manifest, demand>>

-----------------------------------------------------------------------------
(***************************************************************************)
(* Everybody else.                                                         *)
(***************************************************************************)
Admissible(m) ==
    \A s \in Scalars : m.limits[s] > 0 => m.requests[s].n <= m.limits[s]

\* The reconciler applies the manifest and the pods are replaced from it; the
\* API server refuses a template that asks for more than its limit.
Rollout ==
    /\ Admissible(manifest)
    /\ pod' = PodOf(manifest) /\ pod' # pod
    /\ job' = [job EXCEPT !.fresh = FALSE]
    /\ UNCHANGED <<authored, manifest, demand>>

\* A memory band carves the live limit: limit_block keeps the class.
LimitCarved ==
    \E l \in Limits : \E p \in {[pod EXCEPT
            !["app"].limit["memory"] = l,
            !["app"].request["memory"] = IF qos_class(pod) = "Guaranteed" THEN l ELSE Smaller(@, l)]} :
        /\ pod["app"].limit["memory"] > 0 /\ p # pod
        /\ ResizeAccepted(p)
        /\ pod' = p
        /\ job' = [job EXCEPT !.fresh = FALSE]
        /\ UNCHANGED <<authored, manifest, demand>>

\* Somebody pushes an edit of the limit's line or takes a marker away.
ManifestEdited ==
    /\ manifest' \in
        {[manifest EXCEPT !.limits[<<"app", "memory">>] = l] :
            l \in {x \in Limits : x >= manifest.requests[<<"app", "memory">>].n}}
        \cup {[manifest EXCEPT !.marked = s] : s \in {request_band.markers, {}}}
        \cup {[manifest EXCEPT !.requests = [s \in Scalars |-> [@[s] EXCEPT !.rendered = FALSE]]]}
    /\ manifest' # manifest
    /\ job' = [job EXCEPT !.moved = TRUE]
    /\ UNCHANGED <<authored, pod, demand>>

DemandMoves ==
    /\ demand' \in Demands \ {demand}
    /\ UNCHANGED <<authored, pod, manifest, job>>

\* A posture edited under a tick in flight does not stop the tick.
PostureEdited ==
    /\ posture' \in Postures \ {posture}
    /\ UNCHANGED <<request_band, pod, manifest, demand, job>>

RequestInit ==
    /\ request_band \in RequestConfigs
    /\ posture \in Postures
    /\ pod \in StartPods
    /\ manifest = ManifestOf(pod)
    /\ demand \in Demands
    /\ job = Rest

BandStep ==
    Observe \/ resize_in_place \/ ProposalBlocked \/ CommitReads \/ CommitFile \/ CommitSkipped

RequestNext ==
    BandStep \/ TickLost \/ Rollout \/ LimitCarved \/ ManifestEdited \/ DemandMoves \/ PostureEdited

RequestSpec == RequestInit /\ [][RequestNext]_request_vars

\* The band keeps ticking and a manifest at HEAD is rolled out in the end.
RequestFairSpec ==
    RequestSpec /\ WF_request_vars(BandStep) /\ WF_request_vars(Rollout)

-----------------------------------------------------------------------------
(***************************************************************************)
(* Properties.                                                             *)
(***************************************************************************)
\* A planned resize is legal where it lands: unless the pod changed between
\* the reading and the write, the API server accepts it, whatever the other
\* containers hold.
ResizeLegal ==
    job.at = "resize" /\ job.fresh =>
        ResizeAccepted(with_request(pod, request_band.container, request_band.resource,
                                    job.plan.value))

\* The plan names why it cannot go on.
Blocked ==
    LET plan == plan_request_carve(pod)
    IN plan.kind = "Blocked" \/ (plan.kind = "Transition" /\ ~Addressable(plan))

\* Once the others are at rest and the live limits are those of the manifest,
\* the band comes to rest: it commits no more, and either the pod has its
\* target class or the plan is blocked.
GapCloses ==
    (/\ <>[][Rollout \/ BandStep]_request_vars
     /\ <>[](\A s \in Scalars : pod[s[1]].limit[s[2]] = manifest.limits[s])
     /\ <>[](manifest.marked = request_band.markers))
        => /\ <>[][~CommitFile]_request_vars
           /\ <>[](qos_class(pod) = resolved_qos_target \/ Blocked)

\* What the band commits can be rolled out: no edit of its own asks for more
\* than the limit beside it.
ManifestAdmissible ==
    [][CommitFile /\ Admissible(manifest) => Admissible(manifest)']_request_vars
=============================================================================
