----------------------------- MODULE NodeWaste ------------------------------
(***************************************************************************)
(* The node-waste reporter of a host agent (breathe-nodewaste,             *)
(* breathe-host-agent nodewaste.rs): every interval it differences the     *)
(* host's cpu counters, lists the node's pods, judges whether the node     *)
(* earns its cost and sets its gauges.  It never acts on a verdict.        *)
(*                                                                         *)
(* /proc/stat is a counter pair; here it is the busy share of every        *)
(* interval since boot, and a reading covers the intervals since the one   *)
(* it is differenced with.                                                 *)
(***************************************************************************)
EXTENDS Integers, Sequences, FiniteSets

CONSTANTS
    PodSets,       \* the sets of PodFacts a node may hold
    Grace,         \* IDLE_GRACE, in intervals
    Dilution,      \* a busy interval among this many leaves the mean under IDLE_MILLICPU
    MaxIntervals   \* bound on intervals

PodPhase == {"Running", "Pending", "Succeeded", "Failed", "Unknown"}
PodFact  == [daemonset : BOOLEAN, stateful : BOOLEAN, phase : PodPhase, terminating : BOOLEAN]
Verdicts == {"working", "empty", "idle", "stranded"}

ASSUME WasteAssumption ==
    /\ PodSets \subseteq SUBSET PodFact /\ PodSets # {} /\ Grace \in Nat
    /\ Dilution \in Nat \ {0} /\ MaxIntervals \in Nat

VARIABLES
    load,      \* per past interval: was the node's cpu in use
    held,      \* the node's pods
    resident,  \* memory in use is over IDLE_MEM_PCT
    prev,      \* the interval of the counter reading held across ticks, or -1
    verdict,   \* the last verdict, and the reading it rests on
    gauge      \* breathe_node_wasteful, by its verdict label; -1 = no series

waste_vars == <<load, held, resident, prev, verdict, gauge>>

WasteInit ==
    /\ load = <<>> /\ held \in PodSets /\ resident \in BOOLEAN
    /\ prev \in {-1, 0}
    /\ verdict = [is |-> "none", since |-> 0]
    /\ gauge = [v \in Verdicts |-> -1]

\* PodFact::is_live.
is_live(p) == ~p.terminating /\ p.phase \in {"Running", "Pending", "Unknown"}

is_waste(v) == v \in {"idle", "stranded"}

\* Mutant: an unknown usage reads as zero.
looks_idle_unknown(usage, stateful, age) ==
    usage.low /\ ~stateful /\ age > Grace

\* Cpu and memory both under their thresholds, no data on the node, and the
\* node older than the grace period.
looks_idle(usage, stateful, age) ==
    usage.known /\ usage.low /\ ~stateful /\ age > Grace

classify(pods, usage, age) ==
    LET holders  == {p \in pods : ~p.daemonset}
        stateful == \E p \in holders : p.stateful
    IN IF holders = {} THEN "empty"
       ELSE IF \A p \in holders : ~is_live(p) THEN "stranded"
       ELSE IF looks_idle(usage, stateful, age) THEN "idle" ELSE "working"

\* NodeUsage::default(): measured nothing.
NoUsage == [known |-> FALSE, low |-> TRUE, since |-> 0]

\* The busy intervals since a reading.
Busy(since) == Cardinality({i \in (since + 1)..Len(load) : load[i]})

\* The usage of a tick: known when the cpu reading, the memory reading and
\* an earlier cpu reading are all there and time passed between the two.
UsageOf(cpu_read, mem_read) ==
    IF cpu_read /\ mem_read /\ prev # -1 /\ prev < Len(load)
    THEN [known |-> TRUE, since |-> prev,
          low |-> ~resident /\ Busy(prev) * Dilution < Len(load) - prev]
    ELSE NoUsage

emit(v) == [gauge EXCEPT ![v] = IF is_waste(v) THEN 1 ELSE 0]

\* One tick.  A pod list that fails skips the rest of it; a node that cannot
\* be read is of age zero.
WasteTick ==
    \E cpu_read, mem_read, list_ok, node_ok \in BOOLEAN :
        /\ prev' = IF cpu_read THEN Len(load) ELSE prev
        /\ IF ~list_ok THEN UNCHANGED <<verdict, gauge>>
           ELSE \E usage \in {UsageOf(cpu_read, mem_read)}, age \in {IF node_ok THEN Len(load) ELSE 0} :
                  /\ verdict' = [is |-> classify(held, usage, age), since |-> usage.since]
                  /\ gauge' = emit(verdict'.is)
        /\ UNCHANGED <<load, held, resident>>

\* The agent starts again with a first reading, if it can have one.
ReporterRestarts ==
    /\ prev' \in {-1, Len(load)}
    /\ gauge' = [v \in Verdicts |-> -1]
    /\ UNCHANGED <<load, held, resident, verdict>>

\* An interval passes, with or without work on the node.
Interval ==
    /\ Len(load) < MaxIntervals
    /\ \E busy \in BOOLEAN : load' = Append(load, busy)
    /\ UNCHANGED <<held, resident, prev, verdict, gauge>>

PodsMove ==
    /\ held' \in PodSets /\ resident' \in BOOLEAN
    /\ UNCHANGED <<load, prev, verdict, gauge>>

WasteNext == WasteTick \/ ReporterRestarts \/ Interval \/ PodsMove

WasteSpec == WasteInit /\ [][WasteNext]_waste_vars

-----------------------------------------------------------------------------
(***************************************************************************)
(* Properties.                                                             *)
(***************************************************************************)
\* A verdict of idle rests on a measured window: on a node older than the
\* grace period and without much resident, at least one whole interval since
\* the reading it was differenced with went by without work.  Failed
\* readings, skipped ticks and a restarted agent never turn into one.
IdleIsMeasured ==
    [][verdict'.is = "idle" /\ verdict' # verdict =>
          /\ Len(load) > Grace /\ ~resident
          /\ \E i \in (verdict'.since + 1)..Len(load) : ~load[i]]_waste_vars

\* What the comment on emit says of breathe_node_wasteful, "a single series an
\* alert can read": the series of a verdict is set only while that is the
\* verdict.
OneSeries == \A v \in Verdicts : gauge[v] = 1 => verdict.is = v
=============================================================================
