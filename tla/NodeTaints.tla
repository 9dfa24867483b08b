----------------------------- MODULE NodeTaints -----------------------------
(***************************************************************************)
(* Three controllers that write the taints of the same nodes, each from a  *)
(* reading of its own: a pool claiming an unassigned node                  *)
(* (claim_unassigned_node_for_pool), the isolation guard that keeps a      *)
(* taint on its targets and reports intruders (reconcile_isolation_band),  *)
(* and the admission gate that removes the startup taint of a node that    *)
(* has been proved ready (reconcile_portao over breathe-admission).        *)
(*                                                                         *)
(* Every write replaces the whole list of taints by one computed from the  *)
(* list last read, and carries no resource version, so that a write made   *)
(* in between is lost.  A claim's taint is named by the pool it belongs    *)
(* to; a node's pods are reduced to the components the gate asks for, one  *)
(* reading each.                                                           *)
(***************************************************************************)
EXTENDS Integers, FiniteSets

CONSTANTS
    TaintNodes,     \* the cluster's nodes, 1..n; a list is walked in this order
    ClaimPools,     \* pools of the standalone lane, live, with demand
    NamedTargets,   \* the guard's targetNodes ...
    SelectedTargets,\* ... and the nodes its selector matches
    Components,     \* ConformanceBinding.required
    Catalogued,     \* components whose pods the catalog can find
    MinStable,      \* ConformanceBinding.min_stable
    GuardDryRun, GateShadow,
    MaxPodMoves, MaxLost

VARIABLES
    taints,         \* node -> its taints
    label,          \* node -> the pool that claimed it
    pods,           \* node -> component -> what its pod looks like
    intruders,      \* nodes that run a pod the guard does not allow
    claim,          \* pool -> the node it is about to claim, as it read it
    guard,          \* the guard's tick
    verdict,        \* the guard's published phase
    gate,           \* the gate's pass
    proven,         \* nodes all of whose components some pass of the gate saw stable
    pod_moves, lost \* remaining moves of the pods, and remaining failed calls

taint_vars == <<taints, label, pods, intruders, claim, guard, verdict, gate, proven,
                pod_moves, lost>>

NoPool == "none"
Startup == "pleme.io/unbreathed"
Guarded == "guard"
Taint   == {Startup, Guarded} \cup ClaimPools

ASSUME NodeTaintsAssumption ==
    /\ TaintNodes \subseteq Nat \ {0} /\ NamedTargets \cup SelectedTargets \subseteq TaintNodes
    /\ {Startup, Guarded, NoPool} \cap ClaimPools = {}
    /\ MinStable \in Nat

\* A component's pod: not found, found and not ready, ready without a
\* timestamp, or ready for so long.
Pod == {-3, -2, -1} \cup 0..MinStable
NotFound == -3
NotReady == -2
Untimed  == -1

First(S) == CHOOSE n \in S : \A m \in S : n <= m

Lose(ok) == (ok \/ lost > 0) /\ lost' = IF ok THEN lost ELSE lost - 1

(***************************************************************************)
(* Editing a list of taints.                                               *)
(***************************************************************************)
upsert_taint(existing, t) ==
    {x \in existing : (x \in ClaimPools) # (t \in ClaimPools) \/ t \notin ClaimPools} \cup {t}

remove_taint(existing, t) == existing \ {t}

(***************************************************************************)
(* The admission gate: components to receipt, receipt to step, step to     *)
(* action.                                                                 *)
(***************************************************************************)
\* Mutant: a pod that was found counts from the start.
estado_de_pod_found(p) == IF p = NotFound THEN "Absent" ELSE "Present"

\* estado_de_pod, with the stability bound of the gate applied to Present.
estado_de_pod(p) ==
    CASE p \in {NotFound, NotReady} -> "Absent"
      [] p = Untimed                -> "Indeterminate"
      [] p >= 0                     -> IF p >= MinStable THEN "Present" ELSE "Unstable"

\* ConformanceBinding::check: a gate without requirements rejects.
check(vista) ==
    IF Components = {} THEN "Reject"
    ELSE IF \A c \in Components : vista[c] = "Present" THEN "Pass" ELSE "Defer"

\* Each pass starts with a fresh budget, so that a deferral never expires.
classify(receipt) ==
    CASE receipt = "Pass" -> "Ready" [] receipt = "Defer" -> "Deferred"
      [] receipt = "Reject" -> "Rejected"

acao_para(step) ==
    CASE step = "Ready" -> "Liberar" [] step = "Deferred" -> "Reter"
      [] step = "Rejected" -> "Devolver"

vista_para_no(n) == [c \in Components |-> estado_de_pod(pods[n][c])]

resultado_para_no(carries, action) ==
    IF ~carries THEN "NaoGuardado"
    ELSE IF action = "Liberar" THEN (IF GateShadow THEN "Liberaria" ELSE "Liberado")
    ELSE IF action = "Devolver" THEN "Devolvido" ELSE "Retido"

(***************************************************************************)
(* The states of the three writers.                                        *)
(***************************************************************************)
IdleClaim == [node |-> 0, read |-> {}]
IdleGuard == [pc |-> "idle", todo |-> {}, read |-> {}, found |-> {}, degraded |-> FALSE]
IdleGate  == [pc |-> "idle", seen |-> [n \in TaintNodes |-> {}], action |-> <<>>, todo |-> {}]

TaintsTypeOK ==
    /\ taints \in [TaintNodes -> SUBSET Taint]
    /\ label \in [TaintNodes -> ClaimPools \cup {NoPool}]
    /\ pods \in [TaintNodes -> [Components -> Pod]]
    /\ intruders \subseteq TaintNodes /\ proven \subseteq TaintNodes
    /\ claim \in [ClaimPools -> [node : TaintNodes \cup {0}, read : SUBSET Taint]]
    /\ guard.pc \in {"idle", "get", "patch", "pods"}
    /\ guard.todo \cup guard.found \subseteq TaintNodes
    /\ verdict \in {"", "Violated", "Degraded", "Protecting"}
    /\ gate.pc \in {"idle", "pods", "nodes"} /\ gate.todo \subseteq TaintNodes

TaintsInit ==
    /\ taints = [n \in TaintNodes |-> {Startup}]
    /\ label = [n \in TaintNodes |-> NoPool]
    /\ pods = [n \in TaintNodes |-> [c \in Components |-> NotFound]]
    /\ intruders = {}
    /\ claim = [p \in ClaimPools |-> IdleClaim]
    /\ guard = IdleGuard /\ verdict = ""
    /\ gate = IdleGate /\ proven = {}
    /\ pod_moves = MaxPodMoves /\ lost = MaxLost

(***************************************************************************)
(* A pool claims an unassigned node: list, then patch.                     *)
(***************************************************************************)
is_claim_candidate(n) == label[n] = NoPool

pick_claim_candidate == First({n \in TaintNodes : is_claim_candidate(n)})

ClaimLists(p) ==
    /\ claim[p] = IdleClaim /\ \E n \in TaintNodes : is_claim_candidate(n)
    /\ claim' = [claim EXCEPT ![p] = [node |-> pick_claim_candidate,
                                      read |-> taints[pick_claim_candidate]]]
    /\ UNCHANGED <<taints, label, pods, intruders, guard, verdict, gate, proven, pod_moves, lost>>

ClaimPatches(p, ok) ==
    /\ claim[p] # IdleClaim /\ Lose(ok)
    /\ IF ok THEN /\ taints' = [taints EXCEPT ![claim[p].node] = upsert_taint(claim[p].read, p)]
                  /\ label' = [label EXCEPT ![claim[p].node] = p]
             ELSE UNCHANGED <<taints, label>>
    /\ claim' = [claim EXCEPT ![p] = IdleClaim]
    /\ UNCHANGED <<pods, intruders, guard, verdict, gate, proven, pod_moves>>

(***************************************************************************)
(* The isolation guard: resolve the targets, then for each one get, patch  *)
(* if the taint is missing, and list the pods; then publish.               *)
(***************************************************************************)
GuardLeaves == UNCHANGED <<label, pods, intruders, claim, gate, proven, pod_moves>>

\* A failed selector counts as one that matched nothing.
GuardStarts(ok) ==
    /\ guard.pc = "idle" /\ Lose(ok)
    /\ guard' = [IdleGuard EXCEPT
                   !.pc = "get", !.todo = NamedTargets \cup (IF ok THEN SelectedTargets ELSE {}),
                   !.degraded = ~ok \/ SelectedTargets = {}]
    /\ UNCHANGED <<taints, verdict>> /\ GuardLeaves

has_taint(n) == Guarded \in taints[n]

ensure_taint(n, ok) ==
    IF ~ok \/ has_taint(n) \/ GuardDryRun THEN guard' = [guard EXCEPT !.pc = "pods"]
    ELSE guard' = [guard EXCEPT !.pc = "patch", !.read = taints[n]]

GuardGets(ok) ==
    /\ guard.pc = "get" /\ guard.todo # {} /\ Lose(ok)
    /\ ensure_taint(First(guard.todo), ok)
    /\ UNCHANGED <<taints, verdict>> /\ GuardLeaves

GuardPatches(ok) ==
    /\ guard.pc = "patch" /\ Lose(ok)
    /\ taints' = IF ok THEN [taints EXCEPT ![First(guard.todo)] = upsert_taint(guard.read, Guarded)]
                 ELSE taints
    /\ guard' = [guard EXCEPT !.pc = "pods", !.read = {}]
    /\ UNCHANGED verdict /\ GuardLeaves

\* unauthorized_pods_on: a failed list finds nobody.
GuardListsPods(ok) ==
    /\ guard.pc = "pods" /\ Lose(ok)
    /\ guard' = [guard EXCEPT !.pc = "get", !.todo = @ \ {First(guard.todo)},
                   !.found = IF ok THEN @ \cup (intruders \cap {First(guard.todo)}) ELSE @]
    /\ UNCHANGED <<taints, verdict>> /\ GuardLeaves

isolation_band_status ==
    IF guard.found # {} THEN "Violated" ELSE IF guard.degraded THEN "Degraded" ELSE "Protecting"

GuardPublishes(ok) ==
    /\ guard.pc = "get" /\ guard.todo = {} /\ Lose(ok)
    /\ verdict' = IF ok THEN isolation_band_status ELSE verdict
    /\ guard' = IdleGuard
    /\ UNCHANGED taints /\ GuardLeaves

(***************************************************************************)
(* The gate's pass: list the nodes, list the pods, then node by node.  A   *)
(* failed list ends the pass.                                              *)
(***************************************************************************)
GateLeaves == UNCHANGED <<label, pods, intruders, claim, guard, verdict, pod_moves>>

\* A catalog with a gap would hold every node for ever: no pass is made.
catalogo_cobre_o_portao == Components \subseteq Catalogued

GateListsNodes(ok) ==
    /\ gate.pc = "idle" /\ catalogo_cobre_o_portao /\ Lose(ok)
    /\ gate' = IF ok THEN [IdleGate EXCEPT !.pc = "pods", !.seen = taints] ELSE IdleGate
    /\ UNCHANGED <<taints, proven>> /\ GateLeaves

GateListsPods(ok) ==
    /\ gate.pc = "pods" /\ Lose(ok)
    /\ gate' = IF ok THEN [gate EXCEPT !.pc = "nodes", !.todo = TaintNodes,
                             !.action = [n \in TaintNodes |-> acao_para(classify(check(vista_para_no(n))))]]
               ELSE IdleGate
    /\ proven' = IF ok THEN proven \cup {n \in TaintNodes : \A c \in Components : pods[n][c] >= MinStable}
                 ELSE proven
    /\ UNCHANGED taints /\ GateLeaves

\* Mutant: only a node without other taints is released.
release_patch_sole(n) == IF gate.seen[n] = {Startup} THEN {} ELSE gate.seen[n]

release_patch(n) == remove_taint(gate.seen[n], Startup)

GateDecides(ok) ==
    /\ gate.pc = "nodes" /\ gate.todo # {}
    /\ \E n \in {First(gate.todo)} :
         /\ IF resultado_para_no(Startup \in gate.seen[n], gate.action[n]) = "Liberado"
            THEN /\ Lose(ok)
                 /\ taints' = IF ok THEN [taints EXCEPT ![n] = release_patch(n)] ELSE taints
            ELSE ok /\ UNCHANGED <<taints, lost>>
         /\ gate' = IF gate.todo = {n} THEN IdleGate ELSE [gate EXCEPT !.todo = @ \ {n}]
    /\ UNCHANGED proven /\ GateLeaves

(***************************************************************************)
(* The cluster.                                                            *)
(***************************************************************************)
ClusterLeaves == UNCHANGED <<taints, label, claim, guard, verdict, gate, proven, lost>>

\* A component's pod appears, becomes ready, or breaks.
PodMoves(n, c) ==
    /\ pod_moves > 0 /\ pod_moves' = pod_moves - 1
    /\ \E p \in {NotReady, Untimed, 0} \ {pods[n][c]} : pods' = [pods EXCEPT ![n][c] = p]
    /\ UNCHANGED intruders /\ ClusterLeaves

PodMatures(n, c) ==
    /\ pods[n][c] \in 0..MinStable - 1 /\ pods' = [pods EXCEPT ![n][c] = @ + 1]
    /\ UNCHANGED <<intruders, pod_moves>> /\ ClusterLeaves

Intrusion(n) ==
    /\ pod_moves > 0 /\ pod_moves' = pod_moves - 1
    /\ intruders' = intruders \cup {n}
    /\ UNCHANGED pods /\ ClusterLeaves

GuardTick == \E ok \in BOOLEAN : \/ GuardStarts(ok) \/ GuardGets(ok) \/ GuardPatches(ok)
                                 \/ GuardListsPods(ok) \/ GuardPublishes(ok)
GatePass  == \E ok \in BOOLEAN : GateListsNodes(ok) \/ GateListsPods(ok) \/ GateDecides(ok)
ClaimTick(p) == ClaimLists(p) \/ \E ok \in BOOLEAN : ClaimPatches(p, ok)

TaintsNext ==
    \/ GuardTick \/ GatePass
    \/ \E p \in ClaimPools : ClaimTick(p)
    \/ \E n \in TaintNodes : Intrusion(n) \/ \E c \in Components : PodMoves(n, c) \/ PodMatures(n, c)

\* The guard and the gate are requeued forever, and a started claim ends.
TaintsFairness ==
    /\ WF_taint_vars(GuardTick) /\ WF_taint_vars(GatePass)
    /\ \A p \in ClaimPools : WF_taint_vars(ClaimTick(p))
    /\ \A n \in TaintNodes, c \in Components : WF_taint_vars(PodMatures(n, c))

TaintsSpec == TaintsInit /\ [][TaintsNext]_taint_vars /\ TaintsFairness

(***************************************************************************)
(* Properties.                                                             *)
(***************************************************************************)
\* The startup taint never goes from a node unless every required component
\* was ready for the whole stability bound when some pass of the gate listed
\* the pods, whatever the other two controllers wrote meanwhile.
NoEarlyRelease ==
    [][\A n \in TaintNodes : Startup \in taints[n] /\ Startup \notin taints'[n] => n \in proven]_taint_vars

\* A node whose components stay ready does become usable: its startup taint
\* goes in the end and stays away, although a claim or the guard may write it
\* back from an old reading.
BreathedIsReleased ==
    GateShadow \/ \A n \in TaintNodes :
        <>[](\A c \in Components : pods[n][c] >= 0) => <>[](Startup \notin taints[n])

\* The guard's taint is on every target, and an intruder is reported.
Isolated == \A n \in NamedTargets \cup SelectedTargets :
                /\ GuardDryRun \/ Guarded \in taints[n]
                /\ n \in intruders => verdict = "Violated"

\* The guard's protection is standing: whatever the other two write away, the
\* targets are isolated in the end and for good.
IsolationStands == <>[]Isolated

\* What the node-claim section says: a node claimed by one pool is never
\* claimed again by another.
ClaimedOnce ==
    [][\A n \in TaintNodes : label[n] # NoPool => label'[n] = label[n]]_taint_vars
=============================================================================
