------------------------------ MODULE NodeFleet ------------------------------
(***************************************************************************)
(* Cloud nodes of breathe-lifecycle: the node FSM (fsm.rs), the drift      *)
(* reconciler (drift.rs) that sweeps instances no record accounts for, and *)
(* the cloud between them.                                                 *)
(*                                                                         *)
(* Node n and its instance share the identity n, carried by the lifecycle  *)
(* tag.  A tick of OrphanTracker is not atomic: it reads the instances,    *)
(* then the declared records, then terminates one instance after the       *)
(* other, while nodes move on, instances vanish and calls fail.  The cloud *)
(* and the record store are external; the store may lag behind the FSM.    *)
(***************************************************************************)
EXTENDS Naturals, FiniteSetsExt

CONSTANTS
    Nodes,          \* node identities: numbers, swept in ascending order
    grace_ticks,
    Untagged,       \* the nodes whose instance may appear without its tag
    Protected,      \* the nodes whose instance refuses to be terminated
    MaxFailures     \* bound on failed calls of the tracker

ASSUME NodeFleetAssumption ==
    /\ Nodes \subseteq Nat /\ IsFiniteSet(Nodes)
    /\ grace_ticks \in Nat \ {0}        \* OrphanTracker::new refuses zero
    /\ Untagged \subseteq Nodes /\ Protected \subseteq Nodes /\ MaxFailures \in Nat

VARIABLES
    fase,       \* per node: its FaseNode, "none" before it is requested
    instance,   \* per node: its instance in the cloud: absent, running, terminated
    tagged,     \* the instances that carry their lifecycle tag
    stored,     \* the node ids the record store reports as live
    marks,      \* OrphanTracker.marks: consecutive ticks, 0 = no mark
    step,       \* the tick in progress: idle, observed, sweep
    observed,   \* the instances this tick listed, with whether they were tagged
    queue,      \* the orphans this tick has still to advance
    swept,      \* the instances this tick has terminated
    failures,   \* bounded count of failed calls
    undeclared  \* history: ticks in a row that found the instance unaccounted for

cloud      == <<fase, instance, tagged, stored>>
tracker    == <<marks, step, observed, queue, swept>>
fleet_vars == <<cloud, tracker, failures, undeclared>>

FaseNode == {"none", "Requested", "Provisioning", "Joining", "Active", "Draining",
             "TerminationIssued", "Aborted", "Reaped"}

FleetTypeOK ==
    /\ fase \in [Nodes -> FaseNode]
    /\ instance \in [Nodes -> {"absent", "running", "terminated"}]
    /\ tagged \subseteq Nodes /\ stored \subseteq Nodes
    /\ marks \in [Nodes -> 0..grace_ticks]
    /\ step \in {"idle", "observed", "sweep"}
    /\ observed \subseteq Nodes \X BOOLEAN
    /\ queue \subseteq Nodes /\ (queue # {} => step = "sweep") /\ swept \subseteq Nodes
    /\ failures \in 0..MaxFailures
    /\ undeclared \in [Nodes -> 0..grace_ticks]

FleetInit ==
    /\ fase = [n \in Nodes |-> "none"]
    /\ instance = [n \in Nodes |-> "absent"]
    /\ tagged = {} /\ stored = {}
    /\ marks = [n \in Nodes |-> 0]
    /\ step = "idle" /\ observed = {} /\ queue = {} /\ swept = {}
    /\ failures = 0
    /\ undeclared = [n \in Nodes |-> 0]

-----------------------------------------------------------------------------
(***************************************************************************)
(* The node FSM: legal_successors, one method per edge.                    *)
(***************************************************************************)
Live(f) == f \notin {"none", "Aborted", "Reaped"}

Advance(n, from, next) ==
    /\ fase[n] = from
    /\ fase' = [fase EXCEPT ![n] = next]
    /\ UNCHANGED <<instance, tagged, stored, tracker, failures, undeclared>>

request(n)           == Advance(n, "none", "Requested")
provision(n)         == Advance(n, "Requested", "Provisioning")
joined(n)            == instance[n] # "absent" /\ Advance(n, "Provisioning", "Joining")
ready(n)             == Advance(n, "Joining", "Active")
drain(n)             == Advance(n, "Active", "Draining")
issue_termination(n) == Advance(n, "Draining", "TerminationIssued")

abort(n) == \E from \in {"Requested", "Provisioning", "Joining"} : Advance(n, from, "Aborted")

\* The witness names an instance the cloud reports terminated; one that names
\* another node's instance is refused.
confirm_reaped(n, witness) ==
    /\ instance[witness] = "terminated"
    /\ witness = n
    /\ Advance(n, "TerminationIssued", "Reaped")

-----------------------------------------------------------------------------
(***************************************************************************)
(* The cloud and the record store.                                         *)
(***************************************************************************)
RunInstance(n) ==
    /\ fase[n] = "Provisioning" /\ instance[n] = "absent"
    /\ instance' = [instance EXCEPT ![n] = "running"]
    /\ tagged' \in {tagged \cup {n}} \cup (IF n \in Untagged THEN {tagged} ELSE {})
    /\ UNCHANGED <<fase, stored, tracker, failures, undeclared>>

Stamp(n) ==
    /\ instance[n] = "running"
    /\ n \notin tagged /\ tagged' = tagged \cup {n}
    /\ UNCHANGED <<fase, instance, stored, tracker, failures, undeclared>>

\* Spot reclamation, a manual termination, or the end of an issued one.
Terminated(n) ==
    /\ instance[n] = "running" /\ n \notin Protected
    /\ instance' = [instance EXCEPT ![n] = "terminated"]
    /\ UNCHANGED <<fase, tagged, stored, tracker, failures, undeclared>>

\* The record store catches up with the FSM.
Commit(n) ==
    /\ (n \in stored) # Live(fase[n])
    /\ stored' = IF Live(fase[n]) THEN stored \cup {n} ELSE stored \ {n}
    /\ UNCHANGED <<fase, instance, tagged, tracker, failures, undeclared>>

-----------------------------------------------------------------------------
(***************************************************************************)
(* OrphanTracker::tick.                                                    *)
(***************************************************************************)
observe_tagged_instances ==
    /\ step = "idle"
    /\ step' = "observed"
    /\ observed' = {<<n, n \in tagged>> : n \in {m \in Nodes : instance[m] = "running"}}
    /\ UNCHANGED <<cloud, marks, queue, swept, failures, undeclared>>

\* Untagged, or tagged with an id the record store does not report live.
Orphans(declared) == {o[1] : o \in {p \in observed : ~p[2] \/ p[1] \notin declared}}

\* Mutant: marks of instances that resolved or vanished are kept.
declared_live_node_ids_unretained ==
    /\ step = "observed"
    /\ step' = "sweep"
    /\ queue' = Orphans(stored)
    /\ undeclared' = [n \in Nodes |->
           IF n \notin Orphans(stored) THEN 0
           ELSE IF undeclared[n] = grace_ticks THEN grace_ticks ELSE undeclared[n] + 1]
    /\ UNCHANGED <<cloud, observed, swept, failures, marks>>

\* Marks of instances that resolved or vanished are cleared.
declared_live_node_ids ==
    /\ step = "observed"
    /\ step' = "sweep"
    /\ queue' = Orphans(stored)
    /\ marks' = [n \in Nodes |-> IF n \in Orphans(stored) THEN marks[n] ELSE 0]
    /\ undeclared' = [n \in Nodes |->
           IF n \notin Orphans(stored) THEN 0
           ELSE IF undeclared[n] = grace_ticks THEN grace_ticks ELSE undeclared[n] + 1]
    /\ UNCHANGED <<cloud, observed, swept, failures>>

\* The next orphan in order: its mark advances, and past the grace window it
\* is terminated.  A mark that failed to sweep stays at or above the grace.
AdvanceMark(n) ==
    /\ step = "sweep" /\ n \in queue /\ \A m \in queue : n <= m
    /\ queue' = queue \ {n}
    /\ marks' = [marks EXCEPT ![n] = IF @ = grace_ticks THEN @ ELSE @ + 1]
    /\ IF marks'[n] < grace_ticks THEN UNCHANGED <<instance, swept>>
       ELSE /\ n \notin Protected
            /\ instance' = [instance EXCEPT ![n] = "terminated"]
            /\ swept' = swept \cup {n}
    /\ UNCHANGED <<fase, tagged, stored, step, observed, failures, undeclared>>

\* The end of the loop: what was swept is no longer marked.
Report ==
    /\ step = "sweep" /\ queue = {}
    /\ step' = "idle" /\ observed' = {} /\ swept' = {}
    /\ marks' = [n \in Nodes |-> IF n \in swept THEN 0 ELSE marks[n]]
    /\ UNCHANGED <<cloud, queue, failures, undeclared>>

EndTick == step' = "idle" /\ observed' = {} /\ queue' = {} /\ swept' = {}

\* One of the tick's calls fails: tick returns at once, what was swept before
\* the failure stays marked, and the orphans behind it are not advanced.
TerminateRefused(n) ==
    /\ step = "sweep" /\ n \in queue /\ \A m \in queue : n <= m
    /\ marks[n] + 1 >= grace_ticks
    /\ \/ n \in Protected /\ UNCHANGED failures
       \/ failures < MaxFailures /\ failures' = failures + 1
    /\ marks' = [marks EXCEPT ![n] = grace_ticks]
    /\ EndTick
    /\ UNCHANGED <<cloud, undeclared>>

ReadFails ==
    /\ step \in {"idle", "observed"} /\ failures < MaxFailures
    /\ failures' = failures + 1
    /\ EndTick
    /\ UNCHANGED <<cloud, marks, undeclared>>

\* The process restarts: marks are not persisted.
Restart ==
    /\ failures < MaxFailures /\ failures' = failures + 1
    /\ marks' = [n \in Nodes |-> 0]
    /\ EndTick
    /\ UNCHANGED <<cloud, undeclared>>

TrackerStep ==
    \/ observe_tagged_instances \/ declared_live_node_ids \/ Report
    \/ \E n \in queue : AdvanceMark(n) \/ (n \in Protected /\ TerminateRefused(n))

FleetNext ==
    \/ TrackerStep \/ ReadFails \/ Restart
    \/ \E n \in queue : TerminateRefused(n)
    \/ \E n \in Nodes :
        \/ request(n) \/ provision(n) \/ joined(n) \/ ready(n) \/ drain(n)
        \/ issue_termination(n) \/ abort(n)
        \/ \E witness \in Nodes : confirm_reaped(n, witness)
        \/ RunInstance(n) \/ Stamp(n) \/ Terminated(n) \/ Commit(n)

FleetSpec == FleetInit /\ [][FleetNext]_fleet_vars

\* The tracker is ticked on a cadence, and the record store catches up.
FleetFairSpec ==
    /\ FleetSpec
    /\ WF_fleet_vars(TrackerStep)
    /\ \A n \in Nodes : WF_fleet_vars(Commit(n))

-----------------------------------------------------------------------------
\* The instance is terminated by a step of the tracker.
Sweeps(n) == n \in swept' \ swept

\* The grace window debounces: what a tick terminates was found unaccounted
\* for by at least grace_ticks ticks in a row, across failed ticks, restarts
\* and records that come and go.  This is what drift.rs does for every
\* instance, that of an aborted node too.
SweptAfterGrace == [][\A n \in Nodes : Sweeps(n) => undeclared[n] >= grace_ticks]_fleet_vars

\* What fsm.rs says of an abort after the node joined, that drift treats it as
\* an "immediate (no-grace-window) reclaim target".  It does not hold: the
\* tracker reads the live ids only, so an aborted node's instance is an orphan
\* like any other and waits for its whole grace window.
AbortedSweptAtOnce ==
    [][\A n \in Nodes : AdvanceMark(n) /\ fase[n] = "Aborted" => Sweeps(n)]_fleet_vars

Straggler(n) == instance[n] = "running" /\ fase[n] \in {"Aborted", "Reaped"}

\* No straggler stays: an instance whose record is over, and which the cloud
\* would terminate if asked, is gone in the end.
NoStraggler == \A n \in Nodes \ Protected : []<>~Straggler(n)
=============================================================================
