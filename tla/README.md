# breathe in TLA+

breathe keeps each enrolled workload inside a utilization band: for one
resource (a *dimension*) of one workload it observes usage, decides by a pure
law whether to grow, shrink or hold a limit, and writes the limit back, tick
after tick. Around that loop stand a gate that decides whether a band may write
at all, the actuators that write, and, for cloud nodes, a lifecycle with its own
safety mechanisms.

This directory holds TLA+ models of that program, the TLC configurations that
check them on small instances, and TLAPS proofs of what holds for every
instance. Definitions keep the names of the Rust functions they translate;
`PROJECT.json` maps each of them to its lines.

    tlc -workers 2 -config MCBands_bands.cfg MCBands     # one run
    tlapm BandLoopProofs.tla                             # one proof module

## The system

| Part | State it keeps | Operations | Made hard by | Correct when |
|---|---|---|---|---|
| `breathe-control`: band law, `plan_tick` | none (pure) | `decide_with`, `safety_clamp`, the gates | rounding, zero readings, suppressed demand | never shrinks below the seated peak; comes to rest |
| `breathe-control`: the other laws | AIMD memory | `propose` of each law | rounding, slew, backoff | settles; never over-provisions |
| `breathe-core` `reconcile_one`, `breathe-provider` `BandProvider` | one tick's observation and plan | observe, plan, carve, force | state read before a call and used after it; failing calls | what is written is what the law decided, for what was observed |
| `breathe-runtime`, `breathe-crd`: band status | usage, peak, capacity, last change, warmup start, conditions, health | `status_for`, `conditions_for`, `health_verdict`, merge patch with a diff gate | lost patches, stale watch cache, crash before the patch | peak, cooldown, warmup and promotion window survive ticks; stuck is earned and told |
| `breathe-kube`, `breathe-resize` | none; the pods' limits and requests | group reads, pod-by-pod resize, unforced apply | partial failure, re-created pods, other field managers | QoS and requests kept |
| `breathe-provider` `gate.rs`, `Band::resolve_gate` | conditions in the status, the operator's edits | resolve the gate, promote | edits and losses between ticks | shadow until authorized, and not for ever |
| `breathe-provider` `request.rs`, `manifest.rs` | the manifest in git, the pods' requests | plan, resize in place, commit | rollouts, other bands' carves, people's edits between read and write | every live resize legal; the gap closes |
| horizontal band: `replica.rs`, `reconcile_replica_band`, `observe_replica_env` | one tick's snapshot and plan; last change in the status | scale out and in, reclaim, pin | lagging samples, odd rungs, other scalers, edits under a tick | stays in its topology's envelope, keeps data and majorities, does not flap, relieves |
| `breathe-control` `lifecycle.rs`: the breath | phase and carry in the status | wake, settle, steady, idle, zero | steps confirmed in shadow and taken later | descends on evidence only; no phase is a trap |
| `lapidar.rs`, `carve_safety.rs` | a trial change; witnesses stamped with a tick | suggest, keep, undo; prove, commit | facts that change after they were proved | the tuned config stays sound; every commit stands on fresh witnesses |
| `breathe-lifecycle` bulkhead | one atomic counter | acquire, authorize, drop, take out | races on the counter | permits bounded, no slot leaks |
| `breathe-lifecycle` spend breaker | gauge, breaker state, trial | admit, report, release, true up | late or interleaved reports | budget conserved, one trial, rests when open |
| `breathe-lifecycle` FSM and drift | node records, orphan marks | the FSM's edges, the drift tick | eventually consistent reads, refused calls, restarts | sweeps only real orphans, and every orphan |
| node provisioning: `node_forma`, Karpenter and EKS provedores, `breathe-provision` | pool status, cloud objects, the forecaster's samples | grow, shrink, protect, flap report | the cloud's delays, jobs that start in between | demand served, busy nodes spared, a wedge told |
| `node_forma` claims, `origin_guard`, `portao`, `breathe-admission` | the nodes' taints and labels | claim, guard, release | three writers of one list without a resource version | only mature nodes released, all of them in the end; isolation stands |
| `breathe-auction` with fair shares, zones | the grant ledger in the pool's status | allocate, auction a tick | rounding, conservation, job order | fair on every axis and level; the winner is the best its policy promises |
| `breathe-store` | decision log, registry, gate memory, counters in the status | fold, gate, append | lost answers, stale status, crashes, clock steps | no decision counted twice, none lost for ever |
| host plane: `breathe-host`, `breathe-host-agent` | levers, usage counters, charters | read, plan, write | agents sharing one status, reboots, resets | an outgrown lever is raised |
| soft memory carve | `PodMemoryHigh` dispatches, cgroups | plan, dispatch, write | containers that restart | what is dispatched to a running container lands |
| `breathe-nodewaste` | previous counters, gauges | sample, classify | failed readings, restarts | idle only on a measured interval |
| app-plane actuators | process and stored values of a knob | read, write, reload | restarts, lost answers | an outgrown knob is raised |
| `breathe-discovery` and the policy controller | the bands a policy owns | list, plan, create, adopt, retire | failing lists, people's bands, changing workloads | converges to the warranted bands |
| `breathe-capacity` | the values file, a dump of the cluster | plan, write the next step | dumps that are old | bounded steps, and an end |
| `breathe-retirada-ci` | none; GitHub's run history | pass, redispatch | history that moves between calls and lags behind the watcher's own dispatches | a starved job retried |
| `breathe-invariant` database failover | the failover machine | signal, promote, reclaim | late and repeated answers, withdrawn notices, lost members | the primary keeps its node until another took over |
| facade, REST, gRPC, MCP, dimensions, config, spread, NATS trigger | none | projections, tables | | data, or an operator's edit of a band |

The controller starts a tick from the band object in its watch cache. The tick
calls the provider (observe), the pure plan, the provider again (assign), and
patches the band's status, whose watch event is what the next tick starts from.
The status is thus both the loop's output and its memory. The gate is resolved
once at the start of a tick from the conditions earlier ticks patched. The
lifecycle crate stands beside this: callers hold bulkhead permits and ask the
breaker before they provision, the FSM records the node, and the drift tracker
compares records with the cloud.

## Modules

### The band and what guards it

**BandLaw** is the law and every gate of `plan_tick`, as operators.
Utilizations, floating-point in the code, are whole percentages; limits are
small whole numbers; every rounding (up when growing and when seating a peak,
down when shrinking and fading) is performed.

**BandLoop** is one band's loop. Variables: the cluster (`demand`, `sample`,
`limit`, `owner`, `pods`, `throttled`), the operator's edits (`spec`), the stored
`status` and the watch `cache`, the tick in progress (`pc`, `job`), and three
histories (`dropped`, `window`, `wrote`) that only properties read. A tick is
`Observe` (which ends in `ObserveFails`, `ObserveForced` or `ObservePlan`),
`Assign`, `PatchStatus`; everything else can step between them. `Carve` is the
door every mutation passes: disruption policy, then gate. The constant `Faults`
says which events an instance exercises.

**PodResize** is the write of a pod group: maxima read over the group, one patch
per pod, failures midway, pods re-created at their template at any moment.

**PromotionGate** is who lets a band write: `resolve_gate` over intent, legacy
mode, confirmation and freeze, and the confirm window as the age of a condition
that the band's own patches stamp, keep or clear. Ages are capped at the window,
so time needs no bound.

**ReplicaLaw** is the horizontal law: signals, the four topologies, the odd rungs
of a quorum, tolerances, velocity caps and the break-glass pin. Ratios are
compared exactly on whole numbers. **ReplicaBand** is its loop: `Observe` (one
snapshot, then the law or the pin, then the gate), `Assign`, `PatchStatus`, with
scrapes, load, reclaims, other scalers and the operator's edits stepping in
between. The variable `band` says which band a behaviour is about, so that one run
covers a band of each topology; `moved` is a history that only properties read. A
sample is the work it was scraped under, for how many replicas, and when:
`Reading` is what the band's query makes of it. The tick starts from an up-to-date
band object (the stale watch cache is `BandLoop`'s), and the environment's
stabilization window is absent, as in `KubeReplicaEnv`, which never supplies one.

**Bulkhead** has one step per access to the atomic counter; **Semaphore** is what it
promises its callers, and what it is shown to implement. **SpendRateBreaker**
has one step per call, since a mutex covers each. **NodeFleet** is the node FSM,
the drift tick call by call, and the cloud and record store between them.

**BandHealth** is what a status says of its band: the conditions of a receipt,
how long those with a time limit have held, the verdict, the event published
before the label it is gated on is patched. Ages are capped at the stuck
threshold. **DecisionLog** is the way of a decision into the counters of the
status, over both storage tiers, with the state-change gate and its heartbeat.

### Beside the vertical band

**LifecycleBreath** is `plan_lifecycle_tick` and what the comments of the file ask
of its driver, which is not written yet. On the phase the file says two things
that differ, and the constant `Driver` chooses: `typed` applies the transitions of
`Lifecycle<P>`, `persisted` writes the plan's `next_phase` to the status.
**RequestBand** has the two doors a reservation is raised through, the in-place
resize and the commit to the manifest, with rollouts, carves and edits between a
plan and its write, and the posture fold of its class. **SoftCarve** is the dual
carve: a dispatch per pod, written by the agent of the pod's node into a container
that may be gone, and addressed to the container id that the earlier list
returned. **HostPlane** has one band, the agents of all nodes that share its
status, and each node's lever, charter and usage counters. **AppPlane** has one
knob with the value its process runs with and the value that survives a restart,
which for a config file are different until a reload succeeds. **NodeWaste** is
the cost reporter of a node.

### Nodes

**NodePool** is one pool's reconcile, one step per call: observe; the
synchronization of the protection (read the busy nodes, list the protected
instances, protect, release); act; report. A Karpenter shrink lists the claims,
reads the busy nodes, selects and deletes one by one. Jobs start and end, the auto
scaling group takes what is not protected, and the cloud boots and drains between
any two of these. The predictor and the auctioneer are part of it. **NodeTaints**
has the three controllers that replace the taint list of the same node.

### Deciders

**ControlLaws** runs each alternative law against a moving load, behind
`BandLaw`'s scaffold. **Lapidar** is the self-tuner. **StorageCarve** is the
triad of witnesses and the two commits. **Quinhao** has both fair-share kernels
over the claimants' forest, level by level, and the controller that stores the
ledger. `Fair` asks that nobody has more above its floor than its weight gives it
beside a claimant who could still use more, up to a crumb per claimant on either
side: each pass of the water-fill hands its crumbs to the heaviest claimants, and
closing one of them starts another pass (a single crumb is too strict, as a band of
24 shared by weights 98, 80 and 86 shows).
**Leilao** is a zone's tick: the jobs in the order of one graph, the auction over
the cost/latency frontier. **CapacityRaise** is the planner on a shadow of the
nodes, rung by rung and with its bound of nodes per step, against the cluster that
moves between two calls of `next`.

### Fleet

**DatabaseFailover** is the permutation a database breathes under and the
failover machine. The shell that drives it is external; the machine's events do not
say which promotion they answer, and nothing calls a promotion off, so a late answer
is an event like any other. **RetiradaCi** is the stateless CI watcher, call by
call, over runs of several jobs; what it dispatches is listed some time later.
**PolicyEnrollment** is a policy's reconcile, one step per call, with the
policy's settings as they were when it began.

### Instances

`MC*` modules give the instances their configurations. **MCBands** puts eight
kinds of band in one run (`bands`), each with the events that are hard for it, the
last with disturbances that end; `warmup_restart` takes one band with restarts.
**MCGuards**, **MCPlanes**, **MCWorkload**, **MCEstate** (with the horizontal
bands) and **MCFleet** (with the pools and the taints) each put several components
that share no state in one run: the variable `part` says which of them a behaviour
is about, and the others rest in one initial state, so that the states add up and
do not multiply. A component's fairness and its liveness are asked of its own
part. Operators whose comment begins with *Mutant* are deliberate bugs: replacing
the definition that follows by them must break the property `PROJECT.json` pairs
them with. No specification uses them.

## Runs

| Run | Distinct states | What it asks | Properties |
|---|---|---|---|
| `bands` | @bands | Is every write of a band's loop safe, for eight kinds of band, does the limit come to rest once the disturbances end, and does an outgrown workload get headroom? | `ShrinkCoversPeak`, `ShrinkCoversWindow`, `UntrustedNeverShrinks`, `NoStarve`, `CooldownSpacing`, `LimitSettles`, `OutgrownRelieved` |
| `guards` | @guards | Permits, spend budget, drift sweep and promotion on every interleaving | `SlotsCounted`, `HeadroomConserved`, `WindowAfterBlindness`, `PermitsAtomic`, `TrialsRest`, `SweptAfterGrace`, `GuardsServe` |
| `planes` | @planes | Host agents, the soft carve, the verdicts on nodes and bands | `StuckEarned`, `IdleIsMeasured`, `PlanesServe` |
| `workload` | @workload | The breath, with the driver of the typed transitions, and the requests of a workload | `ResizeLegal`, `DescentProven`, `WorkloadRests` |
| `estate` | @estate | A horizontal band of each topology; laws, tuner, storage carve, shares, auction, capacity raise | `EnvelopeKept`, `DataKept`, `NoFlap`, `ReliefComes`, `TunedSound`, `SharesFair`, `PickBest`, `CarveWitnessed`, `EditsBounded`, `EstateSettles` |
| `fleet` | @fleet | Pools, the writers of a node's taints, pod groups, databases, CI retries, counters, policies, knobs | `BusySurvives`, `PoolServed`, `NoEarlyRelease`, `TaintsSettle`, `ClaimsKept`, `PrimaryKeptUnlessWithdrawn`, `CountsBacked`, `FleetConverges` |
| `warmup_restart` | violated | Does a restart restart the warmup? It does not. | `ShrinkAfterWarmup` |
| `quorum_flap` | violated | Does a quorum come to rest under steady work? It need not. | `NoQuorumFlap` |
| `adopt_thaws` | violated | Does a frozen band stay frozen when a policy adopts it? It does not. | `FrozenStays` |
| `late_promotion` | violated | Is a primary's node never reclaimed? After a withdrawn notice it can be. | `PrimaryKept` |
| `ci_ceiling` | violated | Are a commit's retries bounded? Not when two of its jobs starve. | `RetriesBounded` |
| `wake_traps` | violated | Does the breath leave Wake, when its `next_phase` is persisted? It need not. | `NeverStuck` |

What the properties say:

- `bands`: a shrink seats the peak its tick carried (`ShrinkCoversPeak`) and every
  faded sample of a trailing window (`ShrinkCoversWindow`); a zero reading never
  shrinks (`UntrustedNeverShrinks`); a tick that sees throttling or a crash loop
  never shrinks (`NoStarve`); law writes are a cooldown apart (`CooldownSpacing`);
  after crashes, lost patches, restarts and a second writer the limit comes to rest
  (`LimitSettles`) and an outgrown workload gets headroom (`OutgrownRelieved`).
- `guards`: the counter is the number of live permits (`SlotsCounted`), and to its
  callers the bulkhead is a counting semaphore, whatever the compare-exchange loop
  does (`PermitsAtomic`, a refinement of `Semaphore`); until a billing correction
  what is left and what the callers hold make up the capacity
  (`HeadroomConserved`); one trial at a time, and nothing is admitted within a
  cooldown of the breaker going Open (`TrialsRest`); only what was unaccounted for
  during a whole grace is swept (`SweptAfterGrace`, which `drift.rs` gives to
  every orphan, also to the aborted ones that `fsm.rs` says get none: see below);
  a whole window after blindness before a promotion (`WindowAfterBlindness`);
  every straggler is swept and every calibrating band promoted in the end
  (`GuardsServe`).
- `planes`: a node is called idle only on a measured interval (`IdleIsMeasured`),
  a band stuck only after a whole threshold of unrest (`StuckEarned`); an outgrown
  lever is raised, what is dispatched to a running container lands and no dispatch
  is left addressing one that is gone while the band goes on routing, and a band
  that never rests is called stuck (`PlanesServe`: `HostRelief`, `SoftReaches`,
  `StuckTold`).
- `workload`: a limit goes down only in a step shadowed from that very limit, on a
  trusted reading (`DescentProven`); a planned resize is legal where it lands
  (`ResizeLegal`); no phase is a trap, and once the others rest the band stops
  committing, with its class reached or the reason named (`WorkloadRests`:
  `NeverStuck`, `GapCloses`).
- `estate`: every carve about to be written, the law's or a pin, is inside the
  envelope of the configuration it was decided with (`EnvelopeKept`); the law
  takes no persistent replica away and leaves a quorum's majority, unless the
  count is above the ceiling (`DataKept`); while nothing but its own carve has
  changed, the law does not reverse it (`NoFlap`); an overloaded workload is
  scaled out until it is not overloaded or the ceiling binds (`ReliefComes`);
  tuning steps never cross the band's edges, nor
  make a band shrink that its operator froze (`TunedSound`); a
  stored ledger is fair at every level (`SharesFair`); the winner of an
  auction over the frontier is the best of all offers under the policies that weigh
  cost and latency, and under the risk-adjusted one, whose best offer the frontier
  may have dropped, the best of the undominated ones (`PickBest`); a commit
  consumes witnesses of its own tick, once (`CarveWitnessed`); an edit of a raise
  lowers nothing and lifts no request past the policy's step (`EditsBounded`); laws
  come to rest and do not over-provision, and a raise ends (`EstateSettles`:
  `LawRests`, `NeverOverProvisions`, `RaiseEnds`).
- `fleet`: a node whose job a tick took note of, by protecting it or by selecting
  around it, is not taken while the job goes on (`BusySurvives`; a job that starts
  after the reading is not covered, nor one whose node the auto scaling group takes
  between the reading and the call that protects it: the code leaves both windows
  open); demand within the ceiling is served and a pool that stands
  still says so (`PoolServed`); a startup taint goes only after proof
  (`NoEarlyRelease`), and goes, while the guard's taint and its report stand in the
  end (`TaintsSettle`); while no notice is withdrawn in the middle of its promotion,
  no reclaim takes the primary's node (`PrimaryKeptUnlessWithdrawn`); a resize
  keeps the pod's class and never lowers its request (`ClaimsKept`); counters are
  backed by decisions (`CountsBacked`); a starved job is retried, counters catch up,
  a policy's bands become the warranted ones and an outgrown knob that its process
  takes without a reload is raised (`FleetConverges`: `StarvedRetried`,
  `CountsCatchUp`, `PolicyConverges`, `KnobRelieved`).

**Bounds.** Limits stay below 20 units (host levers below 400, laws below 70),
enough for a band to grow and shrink through several steps and hit floor and
ceiling with every rounding happening. Demands are chosen so that the law grows,
holds and shrinks. `Window` = 3 samples is longer than a spike takes to fade into
the band. Clocks run to a few times the cooldown or warmup; where only ages
matter (`PromotionGate`, `BandHealth`, `LifecycleBreath`, `RetiradaCi`,
`DecisionLog`) they are capped where no comparison tells them apart, so time
needs no bound. Replica counts stay below ten, where every odd rung between floor
and ceiling, counts beyond both, and steps that round to nothing occur. Two pods
show every partial write; two host nodes with different needs show one agent's
status read by the other; two nodes show an orphan in front of another; one node
shows every interleaving of the three taint writers, whose lists are per node;
four threads over two permits show every race of the compare-exchange; three
claims make a tree of two levels with siblings; twelve nodes per step of a raise
(a thousand in the code) are more than any of the instance's steps adds; three pool
nodes let a pool be
at its floor, in between and at its ceiling. Each count of failures and of
outside moves is a named constant (`MaxFailures`, `MaxFaults`, `MaxMoves`,
`MaxSoftFaults`, ...), so that liveness is asked of systems whose faults end.
Deadlock is not checked where bounded counts let an instance stop; `planes`
checks it.

**Fairness.** `BandLoop`, `ReplicaBand`, `PodResize`, `PromotionGate`,
`BandHealth`, `HostPlane`, `AppPlane`: every path of `reconcile`, errors included,
returns a requeue, so the controller's own steps are weakly fair; the metrics
pipeline keeps scraping. In `BandLoop` a patch that fails counts as the tick going
on, and `LimitSettles` and `OutgrownRelieved` name what has to stop for them to
hold: aborted writes for both, lost patches and outside changes for the first.
`ReplicaBand` adds that time passes, for its cooldown; its `ReliefComes` is asked
outside the cooldown of an earlier carve and of bands whose reads and writes do
not fail for ever. In `PromotionGate` and `BandHealth` a patch is not lost for
ever and time passes between ticks (strong fairness of the patch and of the
second, each enabled in turn). In `HostPlane` every agent's tick is at times the
first one after the shared cooldown, since the agents' periods are independent
(strong fairness of that read). In `AppPlane` ticks begin and end again and again,
and seconds pass. In `SoftCarve` controller and agents keep ticking and a stopped
container is started again, by the kubelet. In `NodePool` every call of a tick
returns, the pool is ticked again and the cloud finishes what it began; in
`NodeTaints` each controller ticks and a present pod that stays matures. In
`NodeFleet` the tracker is ticked on a cadence and the record store catches up, as
the module's documentation assumes; no FSM step and no success of a fallible call
beyond the bounded failures is assumed. In `LifecycleBreath` ticks and time go on
and a shadow window ends; `NeverStuck` itself names the calm that has to come.
`RequestBand`: the band ticks and what is committed is rolled out.
`CapacityRaise`: the operator goes on asking and what was asked for lands, with a
fresh dump at times (`[]<>~casking`). `ControlLaws` ticks. `RetiradaCi`,
`DecisionLog` and `PolicyEnrollment`: the steps of a pass, of a reconcile and, for
the last, of the API server's garbage collection; nothing is assumed of when
GitHub lists a run or finds a runner.

## Proofs

`BandLoopProofs` proves, for every configuration that `BandConfig::validate`
accepts, every layout and every set of events:

- `TypeCorrect`: `Spec => []TypeOK`;
- `ShrinkSeatsPeak`: `Spec => []ShrinkCoversPeak`;
- `ZeroNeverShrinks`: `Spec => []UntrustedNeverShrinks`;
- `SuppressedNeverShrinks`: `Spec => NoStarve`, an action property.

The argument: lemmas about the law (`Rounding`, `SafeMinSeats`, `ScaffoldSafe`,
`LawDecisionSafe`, `PlanSafe`) show that a shrink that leaves `plan_tick` is
above the safe minimum of the peak it was given and was not decided on a zero or
on suppressed demand. The inductive invariant `IInv` is `TypeOK /\ ShrinkSafe`:
`ShrinkSafe` says of the *job in progress* what the law guaranteed when it
decided, because the write happens later, when the cluster has moved on;
`ShrinkCoversPeak` alone is not inductive without the typing of the job. Each
action has its lemma, and the temporal step combines them.

`ReplicaBandProofs` proves, for every configuration (also one the code refuses),
every topology, and whatever the cluster and the operator do:

- `ReplicaTypeCorrect`: `Spec => []TypeOK`;
- `CarvesStayInEnvelope`: `Spec => []EnvelopeKept`;
- `DataStaysKept`: `Spec => []DataKept`.

Lemmas about the rungs (`Rungs`, `ClampOdd`) and the floors (`Floors`) carry the
two laws (`CoreSafe`, `QuorumSafe`, joined in `LawSafe`) and the pin (`PinSafe`);
validation enters only to rule out a zero target. `IInv` is `TypeOK /\ JobSafe`,
where `JobSafe` speaks of the configuration the job carries, because the
operator may edit the band between the decision and the write.

It also proves `LawNeverFlaps`, `Spec => NoFlap`: the law does not take back a carve
that the same work asked for, for every tolerance, step and cooldown. No step of the
law passes its aim, and the aim depends on the work and not on the count: `Headed`
says that the last carve did not overshoot, `Planned` that a carve nothing has
disturbed is the one the law would decide now, `Sampled` that a sample is up to date
unless the band's own write made it old, and then the cooldown of that write is on
record. The hypothesis `Damped` is about the instance's bands: samples follow the
work, and, for a signal that is a share per replica, no tick is lost, nobody else
scales and a sample does not outlive a cooldown; without them the law reads the
effect of its own carve too late. Quorums are outside `NoFlap`: they do flap, as
`quorum_flap` shows.

`BandLoopProofs` also proves `ShrinkSeatsWindow`, that a shrink seats every sample
of the window and not only the peak its tick carried, for a window of any length.
It assumes `PatchesKept`: no patch is lost, late or cut off by a crash, since a lost
patch forgets the spike (see below). `WindowCovered` says that the peak the *next*
tick will start from, in the status or in the job about to be patched, covers the
window, sample by sample, each faded by the ticks since. What a fade computes is a
recursive function; `FadingExists`, `FadingAgrees` and `FadedStep` establish its
equation, `FadingOrders` that fading keeps order.

Under the same hypothesis `WritesAreSpaced` proves `WritesSpaced`: two writes of the
law are a whole cooldown apart, for every cooldown, whatever pins, suspensions,
shadow periods and failed writes come between. The run's `CooldownSpacing` is this
for the paced band of `MCBands`. `SpacingInv` says that the status remembers a write
no older than the last, but for the one that the tick in progress has still to
report.

The lemmas about the law itself (`Rounding`, `SafeMinSeats`, `ProposalType`,
`ScaffoldSafe`) are in `BandLawProofs`, because the pod group, the tuner and the
breath decide with the same law.

The other proof modules each take the components that share a run. Every theorem is
for all values of the constants that satisfy the named `ASSUME`s.

| Module | Theorem | States | Inductive invariant, and what it adds |
|---|---|---|---|
| `GuardProofs` | `CeilingHolds`, `SlotsNeverLeak` | `[]PermitsBounded`, `[]SlotsCounted` | `IInv`: `outstanding <= capacity`; a compare-exchange succeeds only when the counter still is what was read, and what was read was below capacity |
| | `BulkheadIsASemaphore` | `PermitsAtomic`, the refinement of `Semaphore` | the same `IInv`, step by step: an exchange is an acquire, a drop a release, all else stutters |
| | `BreakerRests` | `TrialsRest` | `SpendInv`: an Open breaker has no reservation to forget and remembers when it opened, a HalfOpen one has rested |
| | `BudgetConserved` | `[]HeadroomConserved` | `BudgetInv`: what a trial reserved is what its caller provisioned, so the refund is the right amount |
| | `SweepsAfterGrace` | `SweptAfterGrace` | `FleetInv`: no mark runs ahead of the ticks that found the node unaccounted for, and a queued orphan is one tick ahead of its mark |
| | `WindowWaitedOut` | `[]WindowAfterBlindness` | `GateInv`: the window on record began no earlier than the last recorded blindness |
| | `StuckIsEarned` | `[]StuckEarned` | `HealthInv`: no condition that can make a band stuck has lasted longer than the band has been without rest |
| | `IdleIsEarned` | `IdleIsMeasured` | `WasteInv`: the reading held is of the past; were every interval since it busy, the mean could not be low |
| `EstateProofs` | `TuningIsSound` | `[]TunedSound` | `TuneInv`: the operator's deadband is in order (validity itself is not inductive: a frozen band's setpoint may be tuned to zero) |
| | `CommandsAreWitnessed` | `CarveWitnessed` | none: the guards of a commit, for any store of witnesses |
| | `AuctionPicksBest` | `[]PickBest` | `LeilaoInv`: once there is a winner every shape has bid; that the frontier keeps the best of the policies that weigh cost and latency rests on the finite descent along `dominates` |
| | `BusyNodesSurvive` | `BusySurvives` | `PoolInv`: what a tick took note of is protected (EKS) or not among the victims (Karpenter), and a synchronization under way saw all of it, so its release takes none of it |
| | `ReleaseIsEarned` | `NoEarlyRelease` | `TaintsInv`: every list that one of the three writers holds, however old, is earned |
| | `CarveNeverOverProvisions` | `[]NeverOverProvisions` | over the steps of one carve: no size is above the detector's ceiling, since a size that is outgrown is still below the one that seats the use |
| | `EditsAreBounded` | `EditsBounded` | `RaiseInv`: the file holds a sizing with some memory, which the ratio divides by; the ladder has a first rung (`LadderFirst`), the first rung tried is the step taken or the plan is refused or asks for a ceiling (`RungBegins`, `PlannedBegins`), whatever the shadow holds |
| `QuinhaoProofs` | `EvenIsFair`, `DrfIsFair` | what `allocate_even` and the dominant-resource kernel give any finite set of siblings | below |
| | `SharesAlwaysFair` | `[]SharesFair` | the ledger is the level-by-level split of the forest it was computed for |
| `FleetProofs` | `PrimaryIsKept` | `[]PrimaryKeptUnlessWithdrawn` | `DatabaseInv`: until a notice is withdrawn in the middle, a promotion on the way is the one the machine waits for, and only a replaced primary drains |
| | `ClaimsAreKept` | `ClaimsKept`, assuming `TemplatesFit` | `ResizeInv`: the target a tick carries covers every claim, also that of a pod re-created before its turn |
| | `CountsAreBacked` | `[]CountsBacked` | `LogInv`: every copy of the counters, in status, tick and gate, is backed by rows |
| `WorkloadProofs` | `ResizesAreLegal` | `[]ResizeLegal` | `RequestInv`: the containers beside the one resized are within their limits, through rollouts and carves |
| | `DescentIsProven` | `DescentProven` | `BreathInv`: the driver's carry is never behind the cluster |

`QuinhaoProofs` takes the two kernels of the fair shares. The water-fill of
`allocate_even` is a recursion over passes: floors, scaled when the band does not
cover them, then what remains, by weight, among those below their cap. `Filled` is its
invariant: what is granted and what remains make up the band, everybody is between
floor and cap, those closed are at their cap, and nobody is ahead of an open claimant
by more than a crumb per pass (`Close`). A pass either closes somebody or is the last,
so there are no more passes than claimants, and the fill ends `Dry`: nothing remains,
or everybody is closed. The dominant-resource kernel grants every sibling the same
fraction of its dominant demand; that no axis with a band is over-allocated and that
dominant shares are within a crumb rests on the least of the axes' quotients
(`LeastRatio`) and on a common multiple of the denominators (`ProductMultiple`). Sums
over sets of any size are entries of a table over all subsets (`TableExists`,
`SumTakesOne`), by induction over finite sets. The levels of the forest are a
recursion by depth that settles (`LevelsSettle`): a parent's grant is final before its
children's band is read, so fairness of the kernel is fairness at every level
(`FairTree`). The controller keeps it through edits, moves of the band and failed
calls, because a ledger is judged by the claims it was computed from.

Besides the `ASSUME`s on the constants, which TLC evaluates in every run, four
theorems have a hypothesis, each of which the instances satisfy and without which
the statement is false: `PatchesKept` (twice, above; satisfied by the kinds of band
without these faults), `Damped` (above; satisfied by every band of the `estate` run)
and `TemplatesFit` (a template above the band's ceiling is snapped down to it, and
with it the pod's request).

The library's induction theorems cannot be used by these provers, so induction is
done on sets of numbers instead: `LeastNatural` (a non-empty set of naturals has a
least element, from the well-foundedness of `<`) and `AllNaturals` carry the fade of
the window, the sum of the callers' rates, the frontier of an auction, the sizes of a
carve, the rounds of a water-fill and the rungs of a raise. What a recursive function
computes is had the same way: `RecursionExists` builds it over `0..N` from its steps,
`Follows` carries an invariant along them.

Model-checked only: liveness, since TLAPS does not reason about fairness here.
These are `LimitSettles`, `OutgrownRelieved`, `ReliefComes`, `GuardsServe`,
`PoolServed`, `TaintsSettle`, `WorkloadRests`, `PlanesServe`, `EstateSettles` (its
one safety conjunct is `CarveNeverOverProvisions`) and `FleetConverges`. Every
other property of a passing run is stated by a theorem, `CooldownSpacing` in the
form of `WritesAreSpaced`.

The type invariants that no run lists (`SpendTypeOK`, `FleetTypeOK`,
`BulkheadTypeOK`) are conjuncts of the invariants above; `GateTypeOK`, `PoolTypeOK`
and `TaintsTypeOK` hold in the same instances.

## Disagreements between the code and what is written about it

Six are runs, listed above and quoted in `PROJECT.json`. Eleven more are stated
as properties in the modules, beside the code they are about, and do not hold:

| Property | Module | What happens |
|---|---|---|
| `NeverPanics` | LifecycleBreath | clamping with a minimum above the maximum panics, though `lifecycle.rs` promises "never a panic" |
| `ManifestAdmissible` | RequestBand | an edit can raise a request above the limit beside it; the rollout is then refused and the band waits for ever |
| `ComesBackFromZero` | NodePool | a grow multiplies the present size, so a pool with a floor of zero that reached zero nodes stays there, whatever the demand |
| `ClaimedOnce` | NodeTaints | two pools that listed the same unassigned node both claim it, one after the other |
| `AbortedSweptAtOnce` | NodeFleet | `fsm.rs` calls an aborted record's node an "immediate (no-grace-window) reclaim target" of drift, and its tests repeat it; `drift.rs` gives it the grace of every other orphan |
| `ReloadTakesEffect` | AppPlane | a value carved into a config file is to take effect by its reload; where the reload fails the file stays written, every later tick finds it in band, and the process keeps the old value for ever |
| `OneSeries` | NodeWaste | `breathe_node_wasteful` keeps the old verdict's series at 1 |
| `TunedValid` | Lapidar | a never-shrink band's setpoint can be tuned to zero |
| `ReleaseUnused` | StorageCarve | the not-in-use proof names no volume, so one volume's proof releases another |
| `LedgerCurrent` | Quinhao | a spec without claims leaves the old ledger in the status |
| `DrfBandBounded` | Quinhao | the dominant-resource kernel gives out what a zero band does not have, though it "never over-allocates" |

Others met while modelling:

### The band's loop

- `metric_untrusted_decision` grows to the safe minimum without looking at the
  ceiling: with a pod request above the band's ceiling one zero sample writes a
  limit above it, while the field's comment says "Never grow the limit above this
  many bytes".
- `ready_since` is the transition time of Observable alone: a stale or conflicting
  tick inside the promotion window blocks only while it lasts, while the comment
  asks for Ready, not Stale and not Conflict "continuously".
- A reclaim on a count above the ceiling (lowered meanwhile, or set by another
  scaler) resolves to a smaller count under the name SpotScaleOut, which the
  scale-in policy does not gate; the module's text says that a reclaim "can never
  resolve to a scale-in". `DataKept` excludes counts above the ceiling for this.
- A reclaim signal that stays up adds its replicas again on every tick outside the
  cooldown, up to the ceiling.
- The snapped floor of a quorum can exceed an even ceiling by one, and then wins.
- The floor bounds scale-ins only: a count below it, left by another scaler, is
  not restored while the signal is inside the tolerances.
- A lost status patch also loses the horizontal band's cooldown; with a lagging
  utilization sample the band may then carve twice and come back. `NoFlap` is
  checked where patches are not lost.
- A lost status patch forgets the spike its tick saw: the next tick's peak hint
  comes from the older status, and a later shrink can undercut that spike.
  `ShrinkCoversWindow` is therefore checked where patches are not lost, and
  `ShrinkCoversPeak` everywhere.
- The resize subresource has no field owner to yield to, so two writers of a
  pod's limits simply overwrite each other; the single-writer guard sees nothing.
- A template whose limit is above the band's ceiling is snapped down to the ceiling,
  also below what its pods have claimed, and `limit_block` lowers the request with
  it; `ClaimsAreKept` assumes templates that fit.
- A pod re-created beside larger ones is not resized: the group is read by its
  maximum, and the group is then already at its target.
- A request larger than the headroom trips a closed breaker, while the module's
  text calls refusal for lack of headroom ordinary backpressure.
- With `grace_ticks` = 1 an orphan is swept on its first sighting.
- The metrics-server path reports every sample as zero seconds old, so the
  freshness gate cannot fire for cpu and memory bands fed from it.
- A band that was dormant for the whole window promotes itself without a single
  clean observation.
- A Guaranteed pod's request is raised with its limit (`limit_block`), and
  `read_request_floor` floors every later shrink by it: such a group never gives
  back what it grew, while `main.rs` says cpu breathes both ways.
- `EffectiveGateReport` leaves absent fields out of a merge patch: a band that goes
  live keeps its old `reason`, a migrated one its `legacyPath`.
- Health: the Stuck arms for Ready and Conflict are unreachable, so a long conflict
  is reported as a lack of convergence; a band that alternates between cooldown
  and unconverged ticks past the threshold publishes an event per stuck tick;
  a suspension resets the timer and keeps the label.
- Counters: the in-memory tier folds onto a status that may be stale; after a lost
  answer the status stays behind until the next append; a clock that steps back
  lengthens the heartbeat gap; `verify_chain` checks sequence and hash, not counts.

### Breath and requests

- `next_phase` never yields Settle and leaves a Tighten in Wake (`wake_traps`);
  `WorkloadRests` is about the driver that applies the typed transitions. A warmup
  tick in Wake counts as uncertain and doubles the limit; a missing metric holds Wake and
  Idle for ever; over budget with active load, or scheduled without load, a
  workload goes back and forth between Steady and Idle every tick.
- A BestEffort pod promoted to Burstable bypasses the seal floor; an in-place plan
  made before a rollout may lower a request; `commit_file` takes no base revision.
- `durable_coordinate` and the crd resolvers of a posture have no caller.

### Nodes

- One instance that refuses termination ends the drift tick, so orphans behind it
  are never advanced.
- A failed listing of busy pods protects nothing on Karpenter; a job that starts
  after the busy nodes were read can be killed, and so can one whose node the auto
  scaling group takes before the call that protects it, while a comment of
  `node_forma.rs` says a shrink "can never select a currently-busy instance";
  Karpenter mints claims on every tick while nodes boot, past the ceiling; the EKS
  minimum size is never written.
- A merge patch keeps an old `lastProvisionError`, `flapReason` and `wouldTaint`.
- A stale write of the gate or the guard can drop a claim's taint for good, and one of
  the claim or the guard brings the startup taint back for a while; the deferral
  budget is fresh in every pass, so `Expirado` is never reached; a failed pod list
  counts as no intruder; the admission gate of a forma refuses nothing.

### Host, app and soft carve

- A band ceiling above the node's wall makes a grow be refused whole, for ever;
  a wall lowered below the live value never brings it down. `HostRelief` asks
  for walls at or above the ceiling.
- The cpu quota is cut to whole percents: grows below 40 millicores have no effect,
  and a shrink can undercut the seated peak by less than 10.
- `read_sysfs_u64` fails on "max", though its comment says `u64::MAX`.
- Agents share one status, so another node's low reading erases a peak.
- A grow-only host parameter that usage has outgrown is held as unrepresentable;
  dispatches are never collected; `HostParamBand` ignores the node it names.
- An app tick reads the clock twice and may report Applied with nothing written; a
  failed reload is not retried (`ReloadTakesEffect`); SIGHUP and reload always
  fail in the controller's default environment; a Jolokia error inside a 200
  answer is ignored.

### Deciders

- `ProportionalLaw`'s rounding leaves limits below 12 mildly outgrown for ever;
  `SharedBudget`'s clamp is bypassed by the floor seed and by restored headroom;
  `with_override` panics for setpoints below one percent. The laws, lapidar and
  the carve triad have no caller yet.
- A dominated offer can have the lower risk-adjusted cost, and the frontier has
  dropped it before the pick, as a comment of the auction concedes.
- A storage witness is stamped with its tick: ownership or use that changes between
  proof and commit inside the tick is not seen.
- `allocate_even` adds weighted shares on top of floors, where its text says a share
  is raised to its minimum; a failed read of the storage band falls back to the
  declared capacity.
- Capacity: at its target a raise is refused as no increase, so "nothing to do" is
  never printed; with more declared pools than hosting ones a MaxReplicas advisory
  panics; "steps of at most 2x each" does not hold for MaxReplicas nor for small
  values after rounding; two calls of `next` on one dump plan from the file's sizing.

### Fleet

- Database: a late promotion answer is taken for the next one's (`late_promotion`);
  there is no event for a failed promotion; a discovered SingleWriter makes Mongo's
  own default illegal.
- Retirada: two starved jobs of one run retry their commit twice (`ci_ceiling`); a
  dispatch by hand counts as a retry, and one beyond the page of history that is
  listed does not, so it is repeated; the ceiling is per commit; long waits raise
  the adaptive threshold; any API error ends a pass.
- Policy: bands are listed only for dimensions still desired, so the last band of a
  dimension is never retired; a failed list applies owned bands again, which thaws
  them; the selector filters workloads and not bands, so two policies retire each
  other's; arming edits never reach existing bands.

## Not modelled, and the plan

Not modelled: quantity and configuration parsing beyond the rounding it does, the
wire formats of the actuators, field-path access into arbitrary objects, metrics,
events other than health's, receipts and their attestation, the decision log's
hash chain, the text edits of `breathe-capacity`, the isolation posture of
`breathe-invariant` (a fold of layers and a check when it is sealed, with nothing
that happens in between), and the read-only surfaces
(facade, REST, gRPC, MCP, overview): they keep no state, or none that a decision
reads. Descriptor tables, the spread generator and CRD schemas are data. The
pod-eviction path of `retirada-ci` has no production observer. What
Rust's types enforce (the admission typestate, sealed witnesses that cannot be
forged) is taken as the guards it implies.

Left for later, most important first:

1. An abstract band (a limit that only moves to safe values) and `BandLoop`,
   `HostPlane` and `AppPlane` shown to implement it; the drift tracker as a
   debounced sweep.
2. Compositions: the request band beside the vertical band on one pod, the pool
   beside the drift tracker, two policies over one namespace.
3. `DrfFair` with the code's floating point, and the hash chain.
