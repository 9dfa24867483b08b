----------------------------- MODULE HostPlane ------------------------------
(***************************************************************************)
(* The host plane (breathe-host, breathe-host-agent): one host band, the   *)
(* agent of every node, and the lever each agent writes on its own node.   *)
(* An agent watches the bands of the whole cluster, so the agents share    *)
(* the band and its status; each has its own charter (BreatheNodePool),    *)
(* its own lever and its own cache of usage counters.                      *)
(*                                                                         *)
(* A lever that was never set is Unset: read_limit takes it as the wall     *)
(* (ARC, cgroup) or as unbounded (io.max).  Values are the lever's units;  *)
(* Unbounded is u64::MAX.                                                  *)
(***************************************************************************)
EXTENDS BandLaw, FiniteSets

CONSTANTS
    HostNodes,
    HostBands,       \* band specs to explore
    Charters,        \* what an operator may put in a node's BreatheNodePool
    HostNeeds,       \* usage a node's workload may show
    MaxHostMoves,    \* bound on changes of need and of charter
    MaxHostFaults    \* bound on failed writes, restarts and reboots

Unset     == -1
Unbounded == 1000000

Knobs == {"ZfsArcMax", "CgroupProperty", "CgroupCpuQuota", "Sysctl", "CgroupIoMax"}

\* A BreatheNodePool: the wall of the band's lever, Unset when the charter
\* has no entry for its unit or its GiB do not fit u64 bytes.
Charter  == [enrolled : BOOLEAN, write_enabled : BOOLEAN, wall : Nat \cup {Unset}]
HostBand == [knob : Knobs, cfg : BandConfig, dir : {"Bidirectional", "GrowOnly"},
             live : BOOLEAN, suspended : BOOLEAN, force : Nat \cup {Unset},
             cooldown : Nat, decay : 0..99]

ASSUME HostAssumption ==
    /\ HostNodes # {} /\ HostBands \subseteq HostBand /\ Charters \subseteq Charter
    /\ HostNeeds \subseteq Nat \ {0} /\ MaxHostMoves \in Nat /\ MaxHostFaults \in Nat

VARIABLES
    hband,     \* the band
    hstatus,   \* its status: [peak, cool], cool = seconds of cooldown left
    charter,   \* per node: its BreatheNodePool
    lever,     \* per node: the live value of the lever, or Unset
    need,      \* per node: what the lever's workload uses
    sample,    \* per node: the agent's CpuSampleCache entry
    hjob,      \* per node: the tick in progress
    hevents    \* bounded events so far

host_vars == <<hband, hstatus, charter, lever, need, sample, hjob, hevents>>

\* prev: a counter reading of an earlier tick; reset: the counter went back
\* to zero since.
Samples == {"empty", "prev", "reset"}
IdleJob == [pc |-> "idle", to |-> 0, peak |-> Unset, receipt |-> "Observed"]

HostInit ==
    /\ hband \in HostBands
    /\ hstatus = [peak |-> Unset, cool |-> 0]
    /\ charter \in [HostNodes -> Charters]
    /\ lever = [n \in HostNodes |-> Unset]
    /\ need \in [HostNodes -> HostNeeds]
    /\ sample = [n \in HostNodes |-> "empty"]
    /\ hjob = [n \in HostNodes |-> IdleJob]
    /\ hevents = [moves |-> 0, faults |-> 0]

\* A HostError: an unreadable file, an unparsable row, a failing systemctl.
HostFault ==
    /\ hevents.faults < MaxHostFaults
    /\ hevents' = [hevents EXCEPT !.faults = @ + 1]

-----------------------------------------------------------------------------
(***************************************************************************)
(* HostCluster.                                                            *)
(***************************************************************************)
\* NodeEnvelopes::ceiling_for: host-global levers have no wall.
ceiling_for(n) ==
    IF hband.knob \in {"Sysctl", "CgroupIoMax"} THEN Unbounded ELSE charter[n].wall

\* read_limit; Unset when it fails (an unset lever without an envelope).
read_limit(n) ==
    IF lever[n] # Unset THEN lever[n]
    ELSE IF hband.knob = "CgroupIoMax" THEN Unbounded
    ELSE ceiling_for(n)

IsRate == hband.knob \in {"CgroupCpuQuota", "CgroupIoMax"}

\* read_used: a rate is the difference of two ticks' counters, so the first
\* tick has none (MetricsMissing) and a counter that was reset reads as zero.
read_used(n) ==
    IF ~IsRate THEN need[n]
    ELSE CASE sample[n] = "empty" -> Unset
           [] sample[n] = "reset" -> 0
           [] OTHER               -> need[n]

\* The counter read by this tick is the next tick's base.
Sampled(n) == IF IsRate THEN [sample EXCEPT ![n] = "prev"] ELSE sample

\* What the kernel holds after a write: a CPUQuota is a whole percentage.
Stored(v) == IF hband.knob = "CgroupCpuQuota" THEN (v \div 10) * 10 ELSE v

\* HostCluster::apply refuses a value above the wall read with the charter.
Admitted(n, v) == ceiling_for(n) # Unset /\ v <= ceiling_for(n)

-----------------------------------------------------------------------------
(***************************************************************************)
(* reconcile_host_with.                                                    *)
(***************************************************************************)
peak_of(used) ==
    Larger(used, IF hstatus.peak = Unset THEN used ELSE MulFloor(hstatus.peak, hband.decay))

host_obs(n) ==
    [used |-> read_used(n), peak |-> peak_of(read_used(n)), limit |-> read_limit(n),
     absent |-> FALSE, conflict |-> FALSE, staleness |-> 0, observed_for |-> Unbounded,
     throttled |-> FALSE, restarting |-> FALSE, capable |-> TRUE]

\* resolve_gate with the node's master switch as the frozen key.
Writable(n) == hband.live /\ charter[n].write_enabled

\* The tick may start: not suspended, the node enrolled, its envelopes and
\* the band's configuration sound.  Otherwise the status reports why and
\* keeps every field a later tick reads.
Manageable(n) == ~hband.suspended /\ charter[n].enrolled /\ validate(hband.cfg)

Job(peak, to, receipt) ==
    [pc |-> IF receipt = "Applied" THEN "apply" ELSE "patch",
     to |-> to, peak |-> peak, receipt |-> receipt]

Carve(n, obs, to) ==
    Job(obs.peak, to, IF Writable(n) THEN "Applied" ELSE "ShadowWouldApply")

\* Break-glass forceLimit, clamped to the band's range.
Forced(n, obs) ==
    LET to == Smaller(Larger(hband.force, hband.cfg.floor_bytes), hband.cfg.ceiling_bytes)
    IN IF to = obs.limit THEN Job(obs.peak, 0, "Observed") ELSE Carve(n, obs, to)

Planned(n, obs) ==
    LET plan == plan_tick(obs, hband.cfg, hband.dir, "Enabled", "Forbidden",
                          [on |-> FALSE, ahead |-> 0], 0, hstatus.cool > 0)
    IN IF plan.arm = "Act" THEN Carve(n, obs, plan.decision.to)
       ELSE Job(obs.peak, 0, plan.arm)

\* The charter, the status, the usage and the lever are read, and decided on.
HostRead(n) ==
    /\ hjob[n].pc = "idle" /\ Manageable(n)
    /\ \/ /\ sample' = Sampled(n)
          /\ IF read_used(n) = Unset \/ read_limit(n) = Unset
             THEN hjob' = [hjob EXCEPT ![n] = Job(Unset, 0, "Error")]
             ELSE \E obs \in {host_obs(n)} :
                  hjob' = [hjob EXCEPT ![n] = IF hband.force # Unset THEN Forced(n, obs)
                                                                     ELSE Planned(n, obs)]
          /\ UNCHANGED hevents
       \/ HostFault /\ hjob' = [hjob EXCEPT ![n] = Job(Unset, 0, "Error")] /\ UNCHANGED sample
    /\ UNCHANGED <<hband, hstatus, charter, lever, need>>

\* The write, against the wall of the charter the tick started from.
HostApply(n) ==
    /\ hjob[n].pc = "apply"
    /\ \/ /\ Admitted(n, hjob[n].to)
          /\ lever' = [lever EXCEPT ![n] = Stored(hjob[n].to)]
          /\ hjob' = [hjob EXCEPT ![n].pc = "patch"]
          /\ UNCHANGED hevents
       \/ /\ ~Admitted(n, hjob[n].to)
          /\ hjob' = [hjob EXCEPT ![n].pc = "patch", ![n].receipt = "Error"]
          /\ UNCHANGED <<lever, hevents>>
       \/ /\ HostFault
          /\ hjob' = [hjob EXCEPT ![n].pc = "patch", ![n].receipt = "Error"]
          /\ UNCHANGED lever
    /\ UNCHANGED <<hband, hstatus, charter, need, sample>>

\* status_for and the merge patch: an absent field keeps the stored one.
HostPatch(n) ==
    /\ hjob[n].pc = "patch"
    /\ hstatus' = [peak |-> IF hjob[n].peak = Unset THEN hstatus.peak ELSE hjob[n].peak,
                   cool |-> IF hjob[n].receipt = "Applied" THEN hband.cooldown
                            ELSE hstatus.cool]
    /\ hjob' = [hjob EXCEPT ![n] = IdleJob]
    /\ UNCHANGED <<hband, charter, lever, need, sample, hevents>>

-----------------------------------------------------------------------------
(***************************************************************************)
(* The node and its operator.                                              *)
(***************************************************************************)
\* The agent dies at any point of its tick; its counters die with it.
AgentRestarts(n) ==
    /\ HostFault
    /\ hjob' = [hjob EXCEPT ![n] = IdleJob]
    /\ sample' = [sample EXCEPT ![n] = "empty"]
    /\ UNCHANGED <<hband, hstatus, charter, lever, need>>

\* The node reboots: runtime values are gone with the agent.
HostReboots(n) ==
    /\ HostFault
    /\ hjob' = [hjob EXCEPT ![n] = IdleJob]
    /\ sample' = [sample EXCEPT ![n] = "empty"]
    /\ lever' = [lever EXCEPT ![n] = Unset]
    /\ UNCHANGED <<hband, hstatus, charter, need>>

\* The unit restarts: its counters start again.
UnitRestarts(n) ==
    /\ IsRate /\ sample[n] = "prev"
    /\ HostFault
    /\ sample' = [sample EXCEPT ![n] = "reset"]
    /\ UNCHANGED <<hband, hstatus, charter, lever, need, hjob>>

NeedMoves(n) ==
    /\ hevents.moves < MaxHostMoves
    /\ hevents' = [hevents EXCEPT !.moves = @ + 1]
    /\ \E u \in HostNeeds \ {need[n]} : need' = [need EXCEPT ![n] = u]
    /\ UNCHANGED <<hband, hstatus, charter, lever, sample, hjob>>

\* An operator edits the node's BreatheNodePool between two ticks.
CharterMoves(n) ==
    /\ hevents.moves < MaxHostMoves /\ hjob[n].pc = "idle"
    /\ hevents' = [hevents EXCEPT !.moves = @ + 1]
    /\ \E c \in Charters \ {charter[n]} : charter' = [charter EXCEPT ![n] = c]
    /\ UNCHANGED <<hband, hstatus, lever, need, sample, hjob>>

HostSecond ==
    /\ hstatus.cool > 0
    /\ hstatus' = [hstatus EXCEPT !.cool = @ - 1]
    /\ UNCHANGED <<hband, charter, lever, need, sample, hjob, hevents>>

HostNext ==
    \/ HostSecond
    \/ \E n \in HostNodes :
         \/ HostRead(n) \/ HostApply(n) \/ HostPatch(n)
         \/ AgentRestarts(n) \/ HostReboots(n) \/ UnitRestarts(n)
         \/ NeedMoves(n) \/ CharterMoves(n)

(***************************************************************************)
(* Every agent requeues its bands for ever, and the clock runs: a node     *)
(* whose tick comes round while the band cools down gets another one.      *)
(***************************************************************************)
HostFairness ==
    /\ WF_host_vars(HostSecond)
    /\ \A n \in HostNodes :
         /\ SF_host_vars(hstatus.cool = 0 /\ HostRead(n))
         /\ WF_host_vars(HostApply(n) \/ HostPatch(n))

-----------------------------------------------------------------------------
(***************************************************************************)
(* Properties.                                                             *)
(***************************************************************************)
\* A live lever its workload has outgrown, with room up to the band's
\* ceiling, on a node whose charter allows all of it.
Starved(n) ==
    /\ hband.live /\ ~hband.suspended /\ hband.force = Unset /\ hband.dir = "Bidirectional"
    /\ charter[n].enrolled /\ charter[n].write_enabled
    /\ ceiling_for(n) # Unset /\ ceiling_for(n) >= hband.cfg.ceiling_bytes
    /\ read_limit(n) < hband.cfg.ceiling_bytes
    /\ need[n] * 100 > hband.cfg.grow_above * read_limit(n)

\* A starved lever is raised in the end, through agent restarts, reboots,
\* failing writes, counter resets, edited charters, and the other nodes'
\* agents, which overwrite the one status all of them read the peak and the
\* cooldown from.
HostRelief == \A n \in HostNodes : []<>~Starved(n)
=============================================================================
