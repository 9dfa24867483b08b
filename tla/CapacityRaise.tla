---------------------------- MODULE CapacityRaise ----------------------------
(***************************************************************************)
(* The capacity-raise planner (breathe-capacity): `next` reads the service *)
(* in its values file and a dump of the cluster, plans the whole raise on  *)
(* a shadow of the nodes, and writes the first step to the file.  Around   *)
(* it the file is rolled out, the pods are scheduled, nodes join under the *)
(* pools' ceilings, the autoscaler moves the replicas, and the operator    *)
(* dumps the cluster again, or not.                                        *)
(*                                                                         *)
(* Quantities are in steps of Grain: a mebibyte, or ten millicores.  The   *)
(* advisories of a plan are left out, but for the panic that computing one *)
(* of them can end in.                                                     *)
(***************************************************************************)
EXTENDS Integers, Sequences, FiniteSets
LOCAL INSTANCE SequencesExt

CONSTANTS
    Requests,       \* [raise, sizing, policy, pools, labelled, p95, db]: p95 is 0 when
                    \* unobserved, db the pods the connection budget allows or 0
    ClusterNodes,   \* the nodes there are: <<[pool, cpu, mem, busy_cpu, busy_mem]>>, cpu and
                    \* mem without what the DaemonSets take
    MaxClusterNodes, \* bound on the nodes that may join
    MaxNodesPerStep, \* nodes a step of the plan may add
    Grain,
    MaxCapMoves     \* bound on edits of the file and moves of the autoscaler

Raise   == {"MemoryRequest", "CpuRequest", "MinReplicas", "MaxReplicas"}
Sizing  == [cpu : Nat, mem : Nat, lim : Nat, min : Nat, max : Nat, mem_pct : Nat, cpu_pct : Nat]

\* A declared pool covers the pools its pattern matches; name is 0 when the
\* pattern is not itself the name of a pool.
PoolDecl == [name : Nat, covers : SUBSET Nat, max_nodes : Nat, in_module : BOOLEAN]

ASSUME CapacityAssumption ==
    /\ \A r \in Requests :
         /\ r.raise \in Raise \X Nat /\ r.sizing \in Sizing /\ r.pools \in Seq(PoolDecl)
         /\ r.sizing.cpu > 0 /\ r.sizing.mem > 0
         /\ r.policy \in [step : Nat, ratio : Nat, surge : Nat]
    /\ Grain \in Nat \ {0} /\ MaxNodesPerStep \in Nat
    /\ MaxClusterNodes \in Nat /\ MaxCapMoves \in Nat

VARIABLES
    creq,       \* the request
    cpools,     \* its declared pools, as the operator has landed them
    cfile,      \* the sizing in the values file
    clive,      \* the sizing the pods run with
    cnodes,     \* the cluster's nodes
    cplaced,    \* the service's pods on each
    creplicas,  \* how many pods the autoscaler wants
    cdump,      \* the last dump of the cluster
    casking,    \* whether `next` is being run
    canswer,    \* what it answered last
    cmoves      \* bounded events so far

capacity_vars == <<creq, cpools, cfile, clive, cnodes, cplaced, creplicas, cdump, casking, canswer, cmoves>>

Most(a, b)  == IF a > b THEN a ELSE b
Fewest(a, b) == IF a < b THEN a ELSE b
Total(s)    == FoldLeft(LAMBDA a, b : a + b, 0, s)
Once(v)     == CHOOSE x \in {v} : TRUE      \* v, evaluated by TLC once

-----------------------------------------------------------------------------
(***************************************************************************)
(* The ladder of sizings (plan.rs).                                        *)
(***************************************************************************)
scale(v, pct) == (v * pct + 99) \div 100
round_up(v)   == ((v + Grain - 1) \div Grain) * Grain

Climb(sofar, to, pct) ==
    LET cur == Once(sofar) IN Fewest(Most(scale(cur, pct), cur + 1), to)

ladder(from, to, pct) ==
    LET cur[n \in 0..to] == IF n = 0 THEN from ELSE Climb(cur[n - 1], to, pct)
        top == CHOOSE n \in 0..to : cur[n] >= to /\ \A k \in 0..n - 1 : cur[k] < to
    IN [i \in 1..top |-> cur[i]]

\* Mutant: the limit is left behind.
WithMemory_request(current, ratio, rung) == [current EXCEPT !.mem = round_up(rung)]

\* A rung of memory carries the limit with it: at the policy's ratio to the
\* request, or the present one.
WithMemory(current, ratio, rung) ==
    LET req == round_up(rung)
    IN [current EXCEPT !.mem = req,
                       !.lim = Most(Most(round_up(scale(req, ratio)), current.lim), req)]

\* The refusals, and the sizings from the present one to the target.
sizings(current, raise, policy) ==
    LET kind == raise[1]
        to == CASE kind \in {"MemoryRequest", "CpuRequest"} -> round_up(raise[2]) [] OTHER -> raise[2]
        from == CASE kind = "MemoryRequest" -> current.mem [] kind = "CpuRequest" -> current.cpu
                  [] kind = "MinReplicas" -> current.min [] kind = "MaxReplicas" -> current.max
        ratio == IF policy.ratio = 0 THEN (current.lim * 100) \div current.mem ELSE policy.ratio
        steps == ladder(from, to, policy.step)
        Rung(n) ==
            CASE kind = "MemoryRequest" -> WithMemory(current, ratio, n)
              [] kind = "CpuRequest"    -> [current EXCEPT !.cpu = round_up(n)]
              [] kind = "MinReplicas"   -> [current EXCEPT !.min = n]
    IN IF to <= from THEN [refused |-> {"NotAnIncrease"}, rungs |-> <<>>]
       ELSE IF kind = "MinReplicas" /\ to > current.max THEN [refused |-> {"MinAboveMax"}, rungs |-> <<>>]
       ELSE IF kind = "MaxReplicas" THEN [refused |-> {}, rungs |-> <<[current EXCEPT !.max = to]>>]
       ELSE [refused |-> {}, rungs |-> [i \in DOMAIN steps |-> Rung(steps[i])]]

-----------------------------------------------------------------------------
(***************************************************************************)
(* Shadow: the nodes' free room, and the pods and nodes a step would add.  *)
(***************************************************************************)
fits(cpu, mem, free_cpu, free_mem) == Fewest(free_cpu \div cpu, free_mem \div mem)

\* place: first fit, in the order of the slots; at is where each pod went.
place(slots, pods, cpu, mem) ==
    FoldLeft(LAMBDA sofar, i :
               LET acc == Once(sofar)
                   n == Fewest(pods - Len(acc.at), fits(cpu, mem, slots[i].free_cpu, slots[i].free_mem))
               IN [slots |-> [acc.slots EXCEPT ![i].free_cpu = @ - n * cpu, ![i].free_mem = @ - n * mem],
                   at |-> acc.at \o [k \in 1..n |-> i]],
             [slots |-> slots, at |-> <<>>], [i \in DOMAIN slots |-> i])

unplace(slots, at, cpu, mem) ==
    FoldLeft(LAMBDA acc, i : [acc EXCEPT ![i].free_cpu = @ + cpu, ![i].free_mem = @ + mem], slots, at)

\* consume: the growth of the pods that stay, taken wherever there is room.
consume(slots, cpu, mem) ==
    FoldLeft(LAMBDA sofar, i :
               LET acc == Once(sofar)
                   c == Fewest(acc.cpu, slots[i].free_cpu)
                   m == Fewest(acc.mem, slots[i].free_mem)
               IN [slots |-> [acc.slots EXCEPT ![i].free_cpu = @ - c, ![i].free_mem = @ - m],
                   cpu |-> acc.cpu - c, mem |-> acc.mem - m],
             [slots |-> slots, cpu |-> cpu, mem |-> mem], [i \in DOMAIN slots |-> i])

Roomier(s, t) == s.room_mem > t.room_mem \/ (s.room_mem = t.room_mem /\ s.room_cpu >= t.room_cpu)

\* grow: one more node like the roomiest of the pool that holds a pod.
Templates(sh, i, d) ==
    {k \in DOMAIN sh.slots : /\ sh.slots[k].pool = sh.pools[i].name
                             /\ fits(d.cpu, d.mem, sh.slots[k].room_cpu, sh.slots[k].room_mem) >= 1}

grow(sh, i, d) ==
    LET k == CHOOSE k \in Templates(sh, i, d) : \A j \in Templates(sh, i, d) : Roomier(sh.slots[k], sh.slots[j])
        t == sh.slots[k]
    IN [sh EXCEPT !.slots = Append(@, [t EXCEPT !.free_cpu = t.room_cpu, !.free_mem = t.room_mem]),
                  !.counts[i] = @ + 1]

\* satisfy: place the new pods and the growth, adding nodes to the first
\* pool that may still grow; lift is the pool whose ceiling is ignored.
Satisfied(s, d) == Len(s.at) = d.pods /\ s.cpu = 0 /\ s.mem = 0

Growing(sofar, d, lift) ==
    LET s == Once(sofar)
        sh == s.sh
        may == {i \in DOMAIN sh.pools : /\ i = lift \/ sh.counts[i] < sh.pools[i].max_nodes
                                        /\ Templates(sh, i, d) # {}}
        g == Once(grow(sh, CHOOSE i \in may : \A j \in may : i <= j, d))
        p == Once(place(g.slots, d.pods - Len(s.at), d.cpu, d.mem))
        c == Once(consume(p.slots, s.cpu, s.mem))
    IN IF Satisfied(s, d) \/ may = {} THEN s
       ELSE [sh |-> [g EXCEPT !.slots = c.slots], at |-> s.at \o p.at, cpu |-> c.cpu, mem |-> c.mem]

satisfy(sh, d, lift) ==
    LET p == place(sh.slots, d.pods, d.cpu, d.mem)
        c == consume(p.slots, d.steady_cpu, d.steady_mem)
        grown[n \in 0..MaxNodesPerStep] ==
            IF n = 0 THEN [sh |-> [sh EXCEPT !.slots = c.slots], at |-> p.at, cpu |-> c.cpu, mem |-> c.mem]
            ELSE Growing(grown[n - 1], d, lift)
    IN Once(grown[MaxNodesPerStep])

-----------------------------------------------------------------------------
(***************************************************************************)
(* observe.rs: what the dump says of the nodes and of the service.         *)
(***************************************************************************)
hosting(dump) == {dump.nodes[n].pool : n \in {n \in DOMAIN dump.nodes : dump.placed[n] > 0}}
pool(dump, name) == Cardinality({n \in DOMAIN dump.nodes : dump.nodes[n].pool = name})

Slot(dump, n) ==
    LET node == dump.nodes[n]
    IN [pool |-> node.pool, room_cpu |-> node.cpu, room_mem |-> node.mem,
        free_cpu |-> node.cpu - node.busy_cpu - dump.placed[n] * dump.live.cpu,
        free_mem |-> node.mem - node.busy_mem - dump.placed[n] * dump.live.mem]

Declares(h) == {i \in DOMAIN cpools : h \in cpools[i].covers}

\* The pools that host the service, under the ceiling of the first entry
\* that matches; one that no entry matches cannot grow.  A service with no
\* pods in the dump falls back to the entries themselves.
PoolsOf(dump) ==
    LET hosts == IF creq.labelled THEN SetToSortSeq(hosting(dump), <) ELSE <<>>
        Of(h) == IF Declares(h) = {}
                 THEN [name |-> h, covers |-> {h}, max_nodes |-> pool(dump, h), in_module |-> TRUE]
                 ELSE [cpools[CHOOSE i \in Declares(h) : \A j \in Declares(h) : i <= j] EXCEPT !.name = h]
    IN IF hosts = <<>> THEN cpools ELSE [i \in DOMAIN hosts |-> Of(hosts[i])]

Shadow(dump, pools) ==
    LET known == {n \in DOMAIN dump.nodes : \E i \in DOMAIN pools : pools[i].name = dump.nodes[n].pool}
        order == SetToSortSeq(known, <)
    IN [pools |-> pools, slots |-> [k \in DOMAIN order |-> Slot(dump, order[k])],
        counts |-> [i \in DOMAIN pools |-> pool(dump, pools[i].name)]]

-----------------------------------------------------------------------------
(***************************************************************************)
(* plan.                                                                   *)
(***************************************************************************)
ClampTo(v, lo, hi) == Fewest(Most(v, lo), hi)
CeilDiv(a, b) == (a + b - 1) \div b

hpa_desired(replicas, before, after) ==
    LET mem == replicas * (IF creq.p95 = 0 THEN scale(before.mem, before.mem_pct) ELSE creq.p95)
        cpu == replicas * scale(before.cpu, before.cpu_pct)
    IN ClampTo(Most(CeilDiv(mem, Most(scale(after.mem, after.mem_pct), 1)),
                    CeilDiv(cpu, Most(scale(after.cpu, after.cpu_pct), 1))), after.min, after.max)

\* Mutant: the ceiling that the pool has reached, one node short of enough.
lifted_to_short(counts) == counts - 1

\* The ceiling a PoolCeiling step asks for.
lifted_to(counts) == counts

\* The plan so far: refused for the reasons why, or a step further; first is
\* the step `next` will take.
Refuse(acc, why) ==
    [sh |-> acc.sh, before |-> acc.before, replicas |-> acc.replicas, first |-> acc.first,
     refused |-> acc.refused \cup why, stop |-> TRUE]

Advance(acc, sh, sizing, replicas, why, step) ==
    [sh |-> sh, before |-> sizing, replicas |-> replicas,
     first |-> IF acc.first.kind = "none" THEN step ELSE acc.first,
     refused |-> acc.refused \cup why, stop |-> FALSE]

\* One rung.
Rung(sofar, after) ==
    LET acc == Once(sofar)
        sh == acc.sh
        best == CHOOSE s \in ToSet(sh.slots) : \A t \in ToSet(sh.slots) : Roomier(s, t)
        want == hpa_desired(acc.replicas, acc.before, after)
        surge == Most(scale(want, creq.policy.surge), 1)
        kept == Fewest(acc.replicas, want)
        d == Once([pods |-> surge + Most(want - acc.replicas, 0), cpu |-> after.cpu, mem |-> after.mem,
              steady_cpu |-> kept * Most(after.cpu - acc.before.cpu, 0),
              steady_mem |-> kept * Most(after.mem - acc.before.mem, 0)])
        peak == Most(acc.replicas, want) + surge
        over == IF creq.db # 0 /\ peak > creq.db THEN {"DbConnectionBudget"} ELSE {}
        plain == satisfy(sh, d, 0)
        free == {i \in DOMAIN sh.pools : ~sh.pools[i].in_module}
        r == CHOOSE i \in free : \A j \in free : i <= j
        lifted == satisfy(sh, d, r)
        Step(s, step) ==
            LET vacated == unplace(s.sh.slots, SubSeq(s.at, 1, Fewest(surge, Len(s.at))), d.cpu, d.mem)
            IN Advance(acc, [s.sh EXCEPT !.slots = vacated], after, want, over, step)
    IN IF acc.stop THEN acc
       ELSE IF d.cpu > best.room_cpu \/ d.mem > best.room_mem THEN Refuse(acc, {"PodExceedsNodeShape"})
       ELSE IF Satisfied(plain, d) THEN Step(plain, [kind |-> "PodSizing", to |-> after])
       ELSE IF free # {} /\ Satisfied(lifted, d)
       THEN Step(lifted, [kind |-> "PoolCeiling", pool |-> sh.pools[r].name,
                          to |-> lifted_to(lifted.sh.counts[r])])
       ELSE Refuse(acc, {"PoolCeilingInModule"} \cup over)

\* The advisory of a raised maximum walks the declared pools by the indices
\* of the pools that host the service.
Panics(pools) == creq.raise[1] = "MaxReplicas" /\ Len(cpools) > Len(pools)

plan(current, dump) ==
    LET pools == PoolsOf(dump)
        sh == Shadow(dump, pools)
        running == Total(dump.placed)
        single == IF running < 2 \/ current.min < 2 THEN {"SingleReplica"} ELSE {}
        s == sizings(current, creq.raise, creq.policy)
        start == [sh |-> sh, before |-> current, replicas |-> running, first |-> [kind |-> "none"],
                  refused |-> single, stop |-> FALSE]
        done[n \in 0..Len(s.rungs)] == IF n = 0 THEN start ELSE Rung(done[n - 1], s.rungs[n])
        end == done[Len(s.rungs)]
    IN IF s.refused # {} THEN [refused |-> single \cup s.refused, first |-> start.first]
       ELSE IF sh.slots = <<>> THEN [refused |-> single \cup {"NoSchedulableNodes"}, first |-> start.first]
       ELSE [refused |-> IF Panics(pools) THEN {"Panic"} ELSE end.refused, first |-> end.first]

-----------------------------------------------------------------------------
CapacityInit ==
    /\ creq \in Requests
    /\ cpools = creq.pools
    /\ cfile = creq.sizing /\ clive = creq.sizing
    /\ cnodes = ClusterNodes
    /\ creplicas = creq.sizing.min
    /\ cplaced \in {p \in [DOMAIN ClusterNodes -> 0..creq.sizing.min] : Total(p) = creq.sizing.min}
    /\ \A n \in DOMAIN cnodes : /\ cnodes[n].busy_cpu + cplaced[n] * clive.cpu <= cnodes[n].cpu
                                /\ cnodes[n].busy_mem + cplaced[n] * clive.mem <= cnodes[n].mem
    /\ cdump = [nodes |-> cnodes, placed |-> cplaced, live |-> clive]
    /\ casking = FALSE /\ canswer = [kind |-> "none"]
    /\ cmoves = 0

\* `next`: an edit of the file, the ceiling to land first, or a refusal.
Asks ==
    /\ ~casking /\ casking' = TRUE
    /\ UNCHANGED <<creq, cpools, cfile, clive, cnodes, cplaced, creplicas, cdump, canswer, cmoves>>

Answers ==
    /\ casking /\ casking' = FALSE
    /\ \E p \in {plan(cfile, cdump)} :
         IF p.refused # {} THEN canswer' = [kind |-> "refused", why |-> p.refused] /\ UNCHANGED cfile
         ELSE IF p.first.kind = "PoolCeiling" THEN canswer' = p.first /\ UNCHANGED cfile
         ELSE cfile' = p.first.to /\ canswer' = [kind |-> "PodSizing"]
    /\ UNCHANGED <<creq, cpools, clive, cnodes, cplaced, creplicas, cdump, cmoves>>

\* The operator lands the ceiling the command asked for.
Lands ==
    /\ canswer.kind = "PoolCeiling"
    /\ \E i \in Declares(canswer.pool) :
         /\ \A j \in Declares(canswer.pool) : i <= j
         /\ cpools[i].max_nodes < canswer.to
         /\ cpools' = [cpools EXCEPT ![i].max_nodes = canswer.to]
    /\ UNCHANGED <<creq, cfile, clive, cnodes, cplaced, creplicas, cdump, casking, canswer, cmoves>>

Dumps ==
    /\ cdump' = [nodes |-> cnodes, placed |-> cplaced, live |-> clive]
    /\ UNCHANGED <<creq, cpools, cfile, clive, cnodes, cplaced, creplicas, casking, canswer, cmoves>>

Held(placed, sizing) ==
    \A n \in DOMAIN cnodes : /\ cnodes[n].busy_cpu + placed[n] * sizing.cpu <= cnodes[n].cpu
                             /\ cnodes[n].busy_mem + placed[n] * sizing.mem <= cnodes[n].mem

Packings(sizing, replicas) ==
    {p \in [DOMAIN cnodes -> 0..replicas] : Total(p) <= replicas /\ Held(p, sizing)}

\* The deployer rolls the file out; the pods that find no room are pending.
RollsOut ==
    /\ clive # cfile /\ clive' = cfile
    /\ creplicas' = ClampTo(creplicas, cfile.min, cfile.max)
    /\ \E fit \in {Packings(cfile, creplicas')} :
         cplaced' \in {p \in fit : \A q \in fit : Total(q) <= Total(p)}
    /\ UNCHANGED <<creq, cpools, cfile, cnodes, cdump, casking, canswer, cmoves>>

\* A pending pod brings a node, under the ceiling of its pool.
NodeJoins ==
    /\ Total(cplaced) < creplicas /\ Len(cnodes) < MaxClusterNodes
    /\ \E i \in DOMAIN cpools, n \in DOMAIN cnodes :
         /\ cnodes[n].pool \in cpools[i].covers
         /\ Cardinality({k \in DOMAIN cnodes : cnodes[k].pool = cnodes[n].pool}) < cpools[i].max_nodes
         /\ cnodes' = Append(cnodes, [cnodes[n] EXCEPT !.busy_cpu = 0, !.busy_mem = 0])
         /\ cplaced' = Append(cplaced, 0)
    /\ UNCHANGED <<creq, cpools, cfile, clive, creplicas, cdump, casking, canswer, cmoves>>

Schedules ==
    /\ \E n \in DOMAIN cnodes :
         \/ /\ Total(cplaced) < creplicas
            /\ cplaced' = [cplaced EXCEPT ![n] = @ + 1] /\ Held(cplaced', clive)
         \/ /\ Total(cplaced) > creplicas /\ cplaced[n] > 0
            /\ cplaced' = [cplaced EXCEPT ![n] = @ - 1]
    /\ UNCHANGED <<creq, cpools, cfile, clive, cnodes, creplicas, cdump, casking, canswer, cmoves>>

CapMove == cmoves < MaxCapMoves /\ cmoves' = cmoves + 1

HpaMoves ==
    /\ CapMove
    /\ creplicas' \in (clive.min .. clive.max) \ {creplicas}
    /\ UNCHANGED <<creq, cpools, cfile, clive, cnodes, cplaced, cdump, casking, canswer>>

\* Another hand takes the file back to where it was.
FileReverted ==
    /\ CapMove /\ cfile # creq.sizing
    /\ cfile' = creq.sizing
    /\ UNCHANGED <<creq, cpools, clive, cnodes, cplaced, creplicas, cdump, casking, canswer>>

CapacityNext ==
    \/ Asks \/ Answers \/ Lands \/ Dumps \/ RollsOut \/ NodeJoins \/ Schedules \/ HpaMoves \/ FileReverted

CapacitySpec == CapacityInit /\ [][CapacityNext]_capacity_vars

-----------------------------------------------------------------------------
(***************************************************************************)
(* Properties.                                                             *)
(***************************************************************************)
\* Whatever the dump is worth by then, an edit of `next` lowers nothing,
\* lifts a request by no more than the policy's step and its rounding, and
\* leaves the limit above the request.
EditsBounded ==
    [][(cfile' # cfile /\ canswer'.kind = "PodSizing" /\ cmoves' = cmoves) =>
         /\ \A k \in DOMAIN cfile : cfile'[k] >= cfile[k]
         /\ \A k \in {"cpu", "mem"} : cfile'[k] <= round_up(Most(scale(cfile[k], creq.policy.step), cfile[k] + 1))
         /\ (cfile.lim >= cfile.mem => cfile'.lim >= cfile'.mem)]_capacity_vars

\* A raise comes to its target or to a refusal: a ceiling that has been
\* landed as asked is enough for the step it was asked for, so the command
\* does not go on asking for ceilings.
RaiseEnds == <>[](canswer.kind \in {"refused", "none"})
=============================================================================
