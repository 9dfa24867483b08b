----------------------------- MODULE SoftCarve ------------------------------
(***************************************************************************)
(* The soft memory carve.  The controller's MemoryBand tick holds or grows *)
(* the hard limit and routes the efficiency carve to memory.high           *)
(* (breathe-control plan_dual_carve, breathe-controller reconcile_memory,  *)
(* pod_memory_high): one PodMemoryHigh object per pod, which the agent of  *)
(* the pod's node (breathe-host-agent) writes into the container's cgroup. *)
(*                                                                         *)
(* A dispatch names the container by its runtime id, so a container that   *)
(* restarts leaves it addressing a cgroup that is gone.                    *)
(***************************************************************************)
EXTENDS BandLaw, FiniteSets

CONSTANTS
    SoftPods,
    SoftCfgs,        \* BandConfigs the MemoryBand may have
    Readings,        \* observations a hard tick may leave: [used, peak, cap]
    MaxContainers,   \* bound on containers a pod runs through
    MaxSoftFaults    \* bound on failed calls, missing re-reads and toggled switches

\* memory.high of a container no one has carved (u64::MAX).
Max == 1000000

ASSUME SoftAssumption ==
    /\ SoftPods # {} /\ SoftCfgs # {}
    /\ \A c \in SoftCfgs : c \in BandConfig /\ validate(c)
    /\ Readings \subseteq [used : Nat, peak : Nat, cap : Nat] /\ Readings # {}
    /\ MaxContainers \in Nat \ {0} /\ MaxSoftFaults \in Nat

-----------------------------------------------------------------------------
(***************************************************************************)
(* The two planes of one memory tick.                                      *)
(***************************************************************************)
\* plan_dual_carve, hard plane: a shrink is refused unless the limit is over
\* the ceiling.
hard_plane(used, peak, hard, c) ==
    LET raw == decide_with(used, peak, hard, c)
    IN IF raw.kind = "Shrink" /\ raw.from <= c.ceiling_bytes
       THEN Stay("NoSafeShrink", hard) ELSE raw

\* plan_dual_carve, soft plane: the same law over the gentler floor.
soft_plane(used, soft, c) ==
    decide_with(used, used, soft, [c EXCEPT !.floor_bytes = soft_min(used, c)])

\* plan_k8s_memory_carve: what each plane writes, -1 for nothing.
plan_k8s_memory_carve(used, peak, hard, soft, c) ==
    LET h == hard_plane(used, peak, hard, c)
        s == soft_plane(used, soft, c)
    IN [hard_target |-> IF h.kind = "Grow" \/ (h.kind = "Shrink" /\ h.from > c.ceiling_bytes)
                        THEN h.to ELSE -1,
        soft_target |-> IF IsMutation(s) THEN s.to ELSE -1]

soft_target_for(used, peak, hard, live_soft, c) ==
    plan_k8s_memory_carve(used, peak, hard, live_soft, c).soft_target

-----------------------------------------------------------------------------
VARIABLES
    pod,        \* per pod: [ctr, running], ctr counts its containers
    high,       \* per pod: memory.high of the running container
    dispatch,   \* per pod: its PodMemoryHigh, or Absent
    sband,      \* the MemoryBand: [cfg, shadow, suspended]
    switch,     \* the nodes' charter: "absent", "off" or "on"
    sjob,       \* the controller's tick: the pods left, their containers, the target
    sfaults

soft_vars == <<pod, high, dispatch, sband, switch, sjob, sfaults>>

Absent == [ctr |-> 0, desired |-> 0, dry_run |-> TRUE, phase |-> "None"]
NoCarve == [left |-> {}, ctrs |-> [p \in SoftPods |-> 0], target |-> 0, dry_run |-> TRUE]

SoftInit ==
    /\ pod = [p \in SoftPods |-> [ctr |-> 1, running |-> TRUE]]
    /\ high = [p \in SoftPods |-> Max]
    /\ dispatch = [p \in SoftPods |-> Absent]
    /\ sband \in [cfg : SoftCfgs, shadow : BOOLEAN, suspended : {FALSE}]
    /\ switch \in {"absent", "off", "on"}
    /\ sjob = NoCarve /\ sfaults = 0

Fails == sfaults < MaxSoftFaults /\ sfaults' = sfaults + 1

(***************************************************************************)
(* reconcile_memory, after the hard tick has left a fresh observation.     *)
(***************************************************************************)
\* A suspended band has nothing to route.
Skip == sjob.left = {} /\ sband.suspended /\ UNCHANGED soft_vars

\* The re-read of the band may find nothing: the tick then ends.  A cluster-
\* wide get is the apiserver's to answer.
Route ==
    /\ sjob.left = {} /\ ~sband.suspended
    /\ \E r \in Readings : \E t \in {soft_target_for(r.used, r.peak, r.cap, Max, sband.cfg)} :
         \/ /\ t # -1
            /\ sjob' = [left |-> {p \in SoftPods : pod[p].running},
                        ctrs |-> [p \in SoftPods |-> IF pod[p].running THEN pod[p].ctr ELSE 0],
                        target |-> t, dry_run |-> sband.shadow]
         \/ UNCHANGED sjob
    /\ UNCHANGED <<pod, high, dispatch, sband, switch, sfaults>>

\* Mutant: the dispatch of a pod keeps the container it first named.
Dispatch_keeping(p) ==
    /\ p \in sjob.left
    /\ \/ /\ dispatch' = [dispatch EXCEPT ![p] =
                 [@ EXCEPT !.ctr = IF @ = 0 THEN sjob.ctrs[p] ELSE @,
                           !.desired = sjob.target, !.dry_run = sjob.dry_run]]
          /\ sjob' = IF sjob.left = {p} THEN NoCarve ELSE [sjob EXCEPT !.left = @ \ {p}, !.ctrs[p] = 0]
          /\ UNCHANGED sfaults
       \/ Fails /\ sjob' = NoCarve /\ UNCHANGED dispatch
    /\ UNCHANGED <<pod, high, sband, switch>>

\* ensure_soft_carve_dispatch: one server-side apply per pod, in list order
\* (any order), with the container the list showed, which may have restarted
\* since; the first that fails ends the loop.
Dispatch(p) ==
    /\ p \in sjob.left
    /\ \/ /\ dispatch' = [dispatch EXCEPT ![p] =
                 [@ EXCEPT !.ctr = sjob.ctrs[p], !.desired = sjob.target, !.dry_run = sjob.dry_run]]
          /\ sjob' = IF sjob.left = {p} THEN NoCarve ELSE [sjob EXCEPT !.left = @ \ {p}, !.ctrs[p] = 0]
          /\ UNCHANGED sfaults
       \/ Fails /\ sjob' = NoCarve /\ UNCHANGED dispatch
    /\ UNCHANGED <<pod, high, sband, switch>>

(***************************************************************************)
(* reconcile_pod_memory_high, on the agent of the pod's node.              *)
(***************************************************************************)
\* legacy_two_state_gate: both the charter's switch and the dispatch.
GateLive(p) == switch = "on" /\ ~dispatch[p].dry_run

\* Every requeue writes again: there is no memory of what was written.
Due(p) == TRUE

\* The cgroup file the dispatch's container id leads to is there.
Addressed(p) == dispatch[p].ctr = pod[p].ctr /\ pod[p].running

\* The write: it fails when the container it names is gone.
Writes(p) ==
    /\ Addressed(p)
    /\ high' = [high EXCEPT ![p] = dispatch[p].desired]
    /\ dispatch' = [dispatch EXCEPT ![p].phase = "Applied"]
    /\ UNCHANGED sfaults

WriteFails(p) ==
    /\ \/ ~Addressed(p) /\ UNCHANGED sfaults
       \/ Fails
    /\ dispatch' = [dispatch EXCEPT ![p].phase = "Error"]
    /\ UNCHANGED high

\* A node without a charter reports an error; a shadow verdict writes nothing.
Holds(p) ==
    /\ ~GateLive(p)
    /\ dispatch' = [dispatch EXCEPT ![p].phase =
                       IF switch = "absent" THEN "Error" ELSE "ShadowWouldApply"]
    /\ UNCHANGED <<high, sfaults>>

AgentTick(p) ==
    /\ dispatch[p].ctr # 0 /\ Due(p)
    /\ \/ Holds(p)
       \/ GateLive(p) /\ (Writes(p) \/ WriteFails(p))
    /\ UNCHANGED <<pod, sband, switch, sjob>>

(***************************************************************************)
(* The pods and the operator.                                              *)
(***************************************************************************)
\* A container exits; its cgroup goes with it.
ContainerExits(p) ==
    /\ pod[p].running /\ pod[p].ctr < MaxContainers
    /\ pod' = [pod EXCEPT ![p].running = FALSE]
    /\ UNCHANGED <<high, dispatch, sband, switch, sjob, sfaults>>

ContainerStarts(p) ==
    /\ ~pod[p].running
    /\ pod' = [pod EXCEPT ![p] = [ctr |-> @.ctr + 1, running |-> TRUE]]
    /\ high' = [high EXCEPT ![p] = Max]
    /\ UNCHANGED <<dispatch, sband, switch, sjob, sfaults>>

OperatorEdits ==
    /\ Fails
    /\ \/ /\ sband' \in [cfg : SoftCfgs, shadow : BOOLEAN, suspended : BOOLEAN] /\ UNCHANGED switch
       \/ /\ switch' \in {"absent", "off", "on"} /\ UNCHANGED sband
    /\ UNCHANGED <<pod, high, dispatch, sjob>>

SoftNext ==
    \/ Skip \/ Route \/ OperatorEdits
    \/ \E p \in SoftPods :
         Dispatch(p) \/ AgentTick(p) \/ ContainerExits(p) \/ ContainerStarts(p)

\* Each controller requeues; a started container is the kubelet's to bring.
SoftFairness ==
    \A p \in SoftPods : /\ WF_soft_vars(Dispatch(p)) /\ WF_soft_vars(ContainerStarts(p))
                        /\ WF_soft_vars(AgentTick(p))

-----------------------------------------------------------------------------
(***************************************************************************)
(* Properties.                                                             *)
(***************************************************************************)
\* What is dispatched to the running container is in its cgroup in the end,
\* through restarted containers, failed writes, switched charters and
\* dispatches overtaken by newer ones: the agent keeps no memory of a write.
\* And as long as the band goes on routing, no dispatch is left addressing a
\* container that is gone, whatever restarted between the list and the apply.
SoftReaches ==
    \A p \in SoftPods :
        /\ []<>((GateLive(p) /\ Addressed(p)) => high[p] = dispatch[p].desired)
        /\ []<>(sjob.left # {}) =>
              []<>(GateLive(p) => Addressed(p) /\ high[p] = dispatch[p].desired)
=============================================================================
