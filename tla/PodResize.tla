------------------------------ MODULE PodResize ------------------------------
(***************************************************************************)
(* The in-place resize of a band's pod group (breathe-kube KubeCluster,    *)
(* breathe-resize): one band, many pods.  A tick reads one number for the  *)
(* whole group, the maximum over its pods, and writes the pods one after   *)
(* the other; the loop stops at the first pod that refuses.  Pods are      *)
(* re-created at their template's size at any moment.                      *)
(*                                                                         *)
(* The band is a cpu band (two-way, no reclaim withheld) with fresh        *)
(* metrics; BandLoop has the gates in front of the write.                  *)
(***************************************************************************)
EXTENDS BandLaw, FiniteSetsExt

CONSTANTS
    Pods,
    PodCfg,           \* the band's BandConfig
    Templates,        \* pod templates: [qos, limit, request]
    Decay,            \* peak_decay, as a percentage
    Uses,             \* working sets a pod can have
    MaxFailures,      \* bound on failed resize calls
    MaxRecreations,   \* bound on re-created pods
    MaxUseMoves          \* bound on moves of a pod's working set

ASSUME PodResizeAssumption ==
    /\ Pods # {} /\ IsFiniteSet(Pods)
    /\ PodCfg \in BandConfig /\ validate(PodCfg)
    /\ Templates \subseteq [qos : {"Guaranteed", "Burstable"}, limit : Nat \ {0}, request : Nat]
    /\ \A t \in Templates : IF t.qos = "Guaranteed" THEN t.request = t.limit
                                                    ELSE t.request <= t.limit
    /\ Decay \in 0..99
    /\ Uses \subseteq Nat \ {0} /\ Uses # {}
    /\ MaxFailures \in Nat /\ MaxRecreations \in Nat /\ MaxUseMoves \in Nat

VARIABLES
    template,           \* the workload's pod template, which no resize touches
    lim, req, ruse,   \* per pod: limits, requests and working set
    rpeak,            \* observed_peak_used, as stored in the band's status
    rpc, rto, rtodo,    \* the tick in progress, its target, the pods left to patch
    rfaults           \* how many of the bounded events have happened

resize_vars == <<template, lim, req, ruse, rpeak, rpc, rto, rtodo, rfaults>>

ResizeInit ==
    /\ template \in Templates
    /\ lim = [p \in Pods |-> template.limit]
    /\ req = [p \in Pods |-> template.request]
    /\ ruse \in [Pods -> Uses]
    /\ rpeak = 0
    /\ rpc = "idle" /\ rto = 0 /\ rtodo = {}
    /\ rfaults = [failures |-> 0, recreations |-> 0, moves |-> 0]

\* pod_metrics_max, read_limit and read_request_floor: each a maximum.
Hottest(f) == Max({f[p] : p \in Pods})

effective_cfg == [PodCfg EXCEPT !.request_floor_bytes = Larger(@, Hottest(req))]

LawOf(p) == decide_with(Hottest(ruse), p, Hottest(lim), effective_cfg)

Observe ==
    /\ rpc = "idle"
    /\ LET seen == update_peak(rpeak, Hottest(ruse), Decay)
           d    == LawOf(seen)
       IN /\ rpeak' = seen
          /\ IF IsMutation(d) THEN rpc' = "assign" /\ rto' = d.to ELSE UNCHANGED <<rpc, rto>>
    /\ UNCHANGED <<template, lim, req, ruse, rtodo, rfaults>>

\* assign reads the group's limit again and returns early when it is there.
Assign ==
    /\ rpc = "assign"
    /\ IF Hottest(lim) = rto THEN rpc' = "idle" /\ UNCHANGED rtodo
       ELSE rpc' = "resize" /\ rtodo' = Pods
    /\ UNCHANGED <<template, lim, req, ruse, rpeak, rto, rfaults>>

\* Mutant: the QoS class is not looked at.
limit_block_clamped(qos, value, request) == IF request > value THEN value ELSE request

\* The request that goes with a new limit: equal to it for a Guaranteed pod,
\* else only clamped down when it would exceed it.
limit_block(qos, value, request) ==
    IF qos = "Guaranteed" \/ request > value THEN value ELSE request

ResizePod(p) ==
    /\ rpc = "resize" /\ p \in rtodo
    /\ lim' = [lim EXCEPT ![p] = rto]
    /\ req' = [req EXCEPT ![p] = limit_block(template.qos, rto, @)]
    /\ rtodo' = rtodo \ {p}
    /\ rpc' = IF rtodo' = {} THEN "idle" ELSE "resize"
    /\ UNCHANGED <<template, ruse, rpeak, rto, rfaults>>

\* One patch is refused: the loop returns the error, the pods already
\* patched stay patched, the rest are not tried.
ResizeFails ==
    /\ rpc = "resize" /\ rfaults.failures < MaxFailures
    /\ rfaults' = [rfaults EXCEPT !.failures = @ + 1]
    /\ rpc' = "idle" /\ rtodo' = {}
    /\ UNCHANGED <<template, lim, req, ruse, rpeak, rto>>

\* The template is untouched by a resize, so a re-created pod starts from it.
Recreate(p) ==
    /\ rfaults.recreations < MaxRecreations
    /\ rfaults' = [rfaults EXCEPT !.recreations = @ + 1]
    /\ lim' = [lim EXCEPT ![p] = template.limit]
    /\ req' = [req EXCEPT ![p] = template.request]
    /\ UNCHANGED <<template, ruse, rpeak, rpc, rto, rtodo>>

UseMoves(p) ==
    /\ rfaults.moves < MaxUseMoves
    /\ rfaults' = [rfaults EXCEPT !.moves = @ + 1]
    /\ \E u \in Uses \ {ruse[p]} : ruse' = [ruse EXCEPT ![p] = u]
    /\ UNCHANGED <<template, lim, req, rpeak, rpc, rto, rtodo>>

ResizeNext ==
    \/ Observe \/ Assign \/ ResizeFails
    \/ \E p \in Pods : ResizePod(p) \/ Recreate(p) \/ UseMoves(p)

ResizeSpec == ResizeInit /\ [][ResizeNext]_resize_vars

-----------------------------------------------------------------------------
\* A resize keeps every pod's QoS class admissible: a Guaranteed pod's
\* request equals its limit, no other pod's request exceeds it (limit_block).
QosKept ==
    \A p \in Pods : IF template.qos = "Guaranteed" THEN req[p] = lim[p] ELSE req[p] <= lim[p]

\* A resize never lowers a pod's declared request: the floor read over the
\* whole group (read_request_floor) keeps limit_block's clamp from firing.
RequestNeverLowered ==
    [][rpc = "resize" /\ rpc' \in {"idle", "resize"} /\ rtodo' # rtodo
        => \A p \in Pods : req'[p] >= req[p]]_resize_vars

\* What the API server and the scheduler rely on, over every resize.
ClaimsKept == [][QosKept']_resize_vars /\ RequestNeverLowered
=============================================================================
