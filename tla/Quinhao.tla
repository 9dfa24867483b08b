------------------------------ MODULE Quinhao -------------------------------
(***************************************************************************)
(* Fair shares of a pool (breathe-auction/src/quinhao.rs): the weighted    *)
(* max-min kernel, the dominant-resource kernel, their recursion over the  *)
(* claimants' forest, and the QuinhaoPool controller that writes the grant *)
(* ledger (QuinhaoPoolSpec::allocate, breathe-controller/src/quinhao.rs).  *)
(*                                                                         *)
(* claims maps the entries of the spec, in their order, to claims.         *)
(* Capacities and bands of the dominant-resource kernel are hundredths;    *)
(* its quotients are exact where the code's are f64.                       *)
(***************************************************************************)
EXTENDS Integers, FiniteSets, FiniteSetsExt, Functions, TLC

CONSTANTS
    Entries,        \* entries a spec may hold, ordered
    Dims,           \* the axes of the pool
    Parents,        \* parents a claim may name; Root for none
    DemandVectors,  \* per axis: [weight, min, max, demand]
    Declared,       \* poolCapacity, per axis, in the spec
    Observed,       \* capacities the storage band reports
    Setpoint,       \* percent
    MaxQEdits,      \* bound on edits of the spec and moves of the band
    MaxQFaults      \* bound on failed calls

Root      == 0
Unbounded == 1000        \* u64::MAX
Storage   == "storage"
NoReading == -1
NoAxis    == "none"

ASSUME QuinhaoAssumption ==
    /\ Entries \subseteq Nat \ {0} /\ IsFiniteSet(Entries)
    /\ Storage \in Dims /\ IsFiniteSet(Dims) /\ NoAxis \notin Dims
    /\ Declared \in [Dims -> 0..Unbounded] /\ Observed \subseteq 0..Unbounded
    /\ Setpoint \in 1..100 /\ MaxQEdits \in Nat /\ MaxQFaults \in Nat
    /\ \A v \in DemandVectors, d \in Dims :
         v[d] \in [weight : Nat, min : Nat, max : 0..Unbounded, demand : 0..Unbounded]

\* demand left out of a claim: the even share of storage, nothing else.
Even   == [weight |-> 1, min |-> 0, max |-> Unbounded, demand |-> Unbounded]
Absent == [weight |-> 0, min |-> 0, max |-> 0, demand |-> 0]

\* f, evaluated once.
Now(f) == CHOOSE g \in {f} : g = f

Least(a, b) == IF a <= b THEN a ELSE b
effective_cap(d) == Least(d.max, d.demand)

-----------------------------------------------------------------------------
(***************************************************************************)
(* allocate_even.                                                          *)
(***************************************************************************)
\* One pass of the water-fill: the remainder split by weight, its crumbs by
\* rank, what a full claimant cannot take freed for the next pass.
EvenPass(c, s) ==
    LET active == DOMAIN c \ s.frozen
        weight == SumFunctionOnSet([i \in active |-> c[i].weight], active)
        share  == Now([i \in active |-> (s.remaining * c[i].weight) \div weight])
        crumb  == s.remaining - SumFunctionOnSet(share, active)
        rank(i) == Cardinality({j \in active : \/ c[j].weight > c[i].weight
                                               \/ c[j].weight = c[i].weight /\ j < i})
        want   == Now([i \in active |-> s.grant[i] + share[i] + (IF rank(i) < crumb THEN 1 ELSE 0)])
        full   == {i \in active : want[i] > s.grant[i] /\ want[i] >= effective_cap(c[i])}
    IN IF weight = 0 \/ s.remaining = 0 THEN s
       ELSE [grant     |-> Now([i \in DOMAIN c |-> IF i \in full THEN effective_cap(c[i])
                                                   ELSE IF i \in active THEN want[i] ELSE s.grant[i]]),
             frozen    |-> s.frozen \cup full,
             remaining |-> SumFunctionOnSet([i \in full |-> want[i] - effective_cap(c[i])], full)]

\* Mutant: floors that do not fit are granted in full.
ScaledFloors_unscaled(band, c, floors) == [i \in DOMAIN c |-> c[i].min]

\* Floors that do not fit are scaled down: the band is the wall.
ScaledFloors(band, c, floors) ==
    [i \in DOMAIN c |-> IF floors = 0 THEN 0 ELSE (c[i].min * band) \div floors]

\* c: the demands of siblings on one axis.  Every pass but the last fills at
\* least one claimant.
allocate_even(band, c) ==
    LET floor  == [i \in DOMAIN c |-> c[i].min]
        floors == SumFunctionOnSet(floor, DOMAIN c)
        start  == [grant     |-> floor,
                   frozen    |-> {i \in DOMAIN c : c[i].weight = 0 \/ c[i].min >= effective_cap(c[i])},
                   remaining |-> band - floors]
        pass[n \in 0..Cardinality(DOMAIN c) + 1] == IF n = 0 THEN start ELSE EvenPass(c, pass[n - 1])
    IN IF floors >= band THEN ScaledFloors(band, c, floors)
       ELSE pass[Cardinality(DOMAIN c) + 1].grant

-----------------------------------------------------------------------------
(***************************************************************************)
(* allocate_drf_band.                                                      *)
(***************************************************************************)
Finite(x) == x # 0 /\ x # Unbounded

\* The axis of a claimant's dominant share, or NoAxis.
dominant_axis(v, band) ==
    LET axes == {r \in Dims : Finite(v[r].demand) /\ band[r] > 0}
    IN IF axes = {} THEN NoAxis
       ELSE CHOOSE m \in axes : \A r \in axes : v[r].demand * band[m] <= v[m].demand * band[r]

\* The fill level at which the first axis saturates, and the grants there.
\* An axis without a band takes no part in the level.
allocate_drf_band(band, v) ==
    LET dom    == Now([i \in DOMAIN v |-> dominant_axis(v[i], band)])
        taking == {i \in DOMAIN v : dom[i] # NoAxis}
        common == ProductSet({v[i][dom[i]].demand : i \in taking})
        \* demand over dominant ratio, times common
        pull(i, r) == IF Finite(v[i][r].demand)
                      THEN v[i][r].demand * band[dom[i]] * (common \div v[i][dom[i]].demand) ELSE 0
        total  == Now([r \in Dims |->
                       IF band[r] > 0 THEN SumFunctionOnSet([i \in taking |-> pull(i, r)], taking) ELSE 0])
        bound  == {r \in Dims : total[r] > 0}
        first  == CHOOSE q \in bound : \A r \in bound : band[q] * total[r] <= band[r] * total[q]
    IN [i \in DOMAIN v |-> Now([r \in Dims |->
          IF i \notin taking \/ bound = {} THEN 0
          ELSE (band[first] * pull(i, r)) \div (100 * total[first])])]

-----------------------------------------------------------------------------
(***************************************************************************)
(* The forest.                                                             *)
(***************************************************************************)
Ids(c)      == {c[e].id : e \in DOMAIN c}
Entry(c, x) == CHOOSE e \in DOMAIN c : c[e].id = x
Kids(c, p)  == {e \in DOMAIN c : c[e].parent = p}

Up(c, x) == IF x = Root THEN Root ELSE c[Entry(c, x)].parent

\* p and the claimants above it.
Above(c, p) ==
    LET up[n \in 0..Cardinality(DOMAIN c)] == IF n = 0 THEN p ELSE Up(c, up[n - 1])
    IN up

\* parse_forest: no id twice, no unknown parent, no cycle.
parse_forest(c) ==
    /\ \A e, f \in DOMAIN c : c[e].id = c[f].id => e = f
    /\ \A e \in DOMAIN c : c[e].parent \in Ids(c) \cup {Root}
    /\ \A e \in DOMAIN c : Above(c, c[e].parent)[Cardinality(DOMAIN c)] = Root

\* How far below the roots p's children are.
Depth(c, p) ==
    CHOOSE n \in 0..Cardinality(DOMAIN c) :
        Above(c, p)[n] = Root /\ \A k \in 0..n - 1 : Above(c, p)[k] # Root

\* Levels of the forest, from the roots down: each claimant's grant is the
\* band its children split.  The grants after level n, from the grants g
\* above it.
Level(c, g, n, Split(_)) ==
    LET at     == {e \in DOMAIN c : Depth(c, c[e].parent) = n}
        shares == Now([p \in {c[e].parent : e \in at} |-> Now(Split(p))])
    IN Now([e \in DOMAIN c |-> IF e \in at THEN shares[c[e].parent][e] ELSE g[e]])

NoGrants(c) == [e \in DOMAIN c |-> [r \in Dims |-> 0]]

\* The band p's children split on axis r: the pool's, or p's own grant in the
\* pool's unit.
BandOf(c, g, p, r, pool, unit) == IF p = Root THEN pool[r] ELSE unit * g[Entry(c, p)][r]

\* allocate_fabric: the axes one by one.
EvenBand(capacity) == [r \in Dims |-> (capacity[r] * Setpoint) \div 100]

EvenSplit(c, g, p, pool) ==
    LET split == Now([r \in Dims |-> allocate_even(BandOf(c, g, p, r, pool, 1),
                                                   [e \in Kids(c, p) |-> c[e].demand[r]])])
    IN [e \in Kids(c, p) |-> Now([r \in Dims |-> split[r][e]])]

EvenLevel(c, g, n, pool) == Level(c, g, n, LAMBDA p : EvenSplit(c, g, p, pool))

allocate_fabric(c, capacity) ==
    LET level[n \in 0..Cardinality(DOMAIN c) + 1] ==
            IF n = 0 THEN NoGrants(c) ELSE EvenLevel(c, level[n - 1], n - 1, EvenBand(capacity))
    IN level[Cardinality(DOMAIN c) + 1]

\* allocate_drf_fabric: the axes together.
DrfPool(capacity) == [r \in Dims |-> capacity[r] * Setpoint]

DrfSplit(c, g, p, pool) ==
    allocate_drf_band(Now([r \in Dims |-> BandOf(c, g, p, r, pool, 100)]),
                      [e \in Kids(c, p) |-> c[e].demand])

DrfLevel(c, g, n, pool) == Level(c, g, n, LAMBDA p : DrfSplit(c, g, p, pool))

allocate_drf_fabric(c, capacity) ==
    LET level[n \in 0..Cardinality(DOMAIN c) + 1] ==
            IF n = 0 THEN NoGrants(c) ELSE DrfLevel(c, level[n - 1], n - 1, DrfPool(capacity))
    IN level[Cardinality(DOMAIN c) + 1]

AllocationPolicy == {"PerAxisIndependent", "DominantResourceFairness"}

allocate_for_zone(policy, c, capacity) ==
    IF policy = "PerAxisIndependent" THEN allocate_fabric(c, capacity) ELSE allocate_drf_fabric(c, capacity)

-----------------------------------------------------------------------------
(***************************************************************************)
(* The QuinhaoPool controller.                                             *)
(***************************************************************************)
VARIABLES
    claims,     \* the spec
    qband,      \* capacity the storage band reports, NoReading before its first tick
    qstatus,    \* the pool's status as it is stored
    qedits, qfaults

quinhao_vars == <<claims, qband, qstatus, qedits, qfaults>>

Claim == [id : Entries, parent : Parents, demand : DemandVectors]

QuinhaoInit ==
    /\ claims \in [Entries -> Claim] /\ \A e \in Entries : claims[e].id = e
    /\ qband = NoReading /\ qedits = 0 /\ qfaults = 0
    /\ qstatus = [phase |-> "none", count |-> 0, band |-> [r \in Dims |-> NoReading],
                  entries |-> <<>>, grants |-> <<>>, reason |-> FALSE]

\* The storage band's observed capacity wins over the declared one.
to_capacity(observed) ==
    IF observed = NoReading THEN Declared ELSE [Declared EXCEPT ![Storage] = observed]

\* The status allocate computes; an axis without capacity has no band.
allocate(c, observed) ==
    IF ~parse_forest(c)
    THEN [phase |-> "Refused", count |-> NoReading, band |-> [r \in Dims |-> NoReading],
          entries |-> <<>>, grants |-> <<>>, reason |-> TRUE]
    ELSE LET capacity == to_capacity(observed)
             banded   == {r \in Dims : capacity[r] > 0}
             g        == allocate_fabric(c, capacity)
         IN [phase |-> "Allocated", count |-> Cardinality(DOMAIN c),
             band |-> [r \in Dims |-> IF r \in banded THEN EvenBand(capacity)[r] ELSE NoReading],
             entries |-> c,
             grants |-> [e \in DOMAIN c |-> [r \in banded |-> g[e][r]]],
             reason |-> FALSE]

\* patch_status merges: what is not serialized (no count, an empty ledger, a
\* missing axis, no reason) keeps its stored value.
patch_status(old, new) ==
    [phase |-> new.phase,
     count |-> IF new.count = NoReading THEN old.count ELSE new.count,
     band |-> [r \in Dims |-> IF new.band[r] = NoReading THEN old.band[r] ELSE new.band[r]],
     entries |-> IF DOMAIN new.grants = {} THEN old.entries ELSE new.entries,
     grants |-> IF DOMAIN new.grants = {} THEN old.grants ELSE new.grants,
     reason |-> new.reason \/ old.reason]

\* A band that cannot be read counts as one that is not there; a patch that
\* fails is only logged.
reconcile_quinhao_pool ==
    \E read, patched \in BOOLEAN :
      /\ qfaults' = qfaults + (IF read THEN 0 ELSE 1) + (IF patched THEN 0 ELSE 1)
      /\ qfaults' <= MaxQFaults
      /\ qstatus' = IF patched
                    THEN patch_status(qstatus, allocate(claims, IF read THEN qband ELSE NoReading))
                    ELSE qstatus
      /\ UNCHANGED <<claims, qband, qedits>>

Edits == qedits < MaxQEdits /\ qedits' = qedits + 1

\* A claimant joins, leaves, or changes its demand, its parent or its id.
SpecChanges ==
    /\ Edits
    /\ \E e \in Entries :
         \/ e \in DOMAIN claims /\ claims' = [f \in DOMAIN claims \ {e} |-> claims[f]]
         \/ \E k \in Claim : claims' = [f \in DOMAIN claims \cup {e} |-> IF f = e THEN k ELSE claims[f]]
    /\ UNCHANGED <<qband, qstatus, qfaults>>

\* The storage band grows the pool.
BandMoves ==
    /\ Edits /\ qband' \in {o \in Observed : o > qband}
    /\ UNCHANGED <<claims, qstatus, qfaults>>

QuinhaoNext == reconcile_quinhao_pool \/ SpecChanges \/ BandMoves

QuinhaoSpec == QuinhaoInit /\ [][QuinhaoNext]_quinhao_vars

-----------------------------------------------------------------------------
(***************************************************************************)
(* Properties.                                                             *)
(***************************************************************************)
\* A split of a band among siblings is fair: within the band, floors first,
\* nobody past what it can use but for its floor, nothing left while someone
\* could use it, and what is above the floors shared by weight, up to a crumb
\* per claimant.
Fair(band, d, g) ==
    LET S      == DOMAIN d
        floors == SumFunctionOnSet([i \in S |-> d[i].min], S)
        used   == SumFunctionOnSet(g, S)
        extra(i) == g[i] - d[i].min
        hungry == {i \in S : d[i].weight > 0 /\ g[i] < effective_cap(d[i])}
    IN /\ used <= band
       /\ floors <= band =>
            /\ \A i \in S : /\ extra(i) >= 0
                            /\ extra(i) > 0 => g[i] <= effective_cap(d[i]) /\ d[i].weight > 0
            /\ hungry # {} => used = band
            /\ \A i \in hungry, j \in S :
                 (extra(j) - Cardinality(S)) * d[i].weight <= (extra(i) + Cardinality(S)) * d[j].weight

\* Grants g of the claims c are fair on every axis, at every level of the
\* tree, under a pool of these bands.
FairTree(c, g, band) ==
    \A p \in {Root} \cup Ids(c) : \A r \in UNION {DOMAIN g[e] : e \in DOMAIN g} :
        Fair(IF p = Root THEN band[r] ELSE g[Entry(c, p)][r],
             [e \in Kids(c, p) |-> c[e].demand[r]], [e \in Kids(c, p) |-> g[e][r]])

\* The stored ledger is one the pool could have been split into, for the tree
\* it was computed for.  (A spec without claims leaves the old ledger in
\* place: LedgerCurrent.)
LedgerFair ==
    DOMAIN qstatus.grants # {} /\ qstatus.count > 0 =>
        FairTree(qstatus.entries, qstatus.grants, qstatus.band)

\* A reconcile whose calls succeed leaves a ledger of the spec's claims
\* ("one entry per spec claim").
LedgerCurrent ==
    [][qedits' = qedits /\ qfaults' = qfaults /\ parse_forest(claims) =>
          DOMAIN qstatus'.grants = DOMAIN claims]_quinhao_vars

\* The bands of a level under the dominant-resource policy, in hundredths.
DrfBand(g, p) == [r \in Dims |-> BandOf(claims, g, p, r, DrfPool(to_capacity(qband)), 100)]

DrfBounded(g, p, r) ==
    100 * SumFunctionOnSet([e \in Kids(claims, p) |-> g[e][r]], Kids(claims, p)) <= DrfBand(g, p)[r]

\* Under the dominant-resource policy nobody is given more of an axis with a
\* band than there is, and siblings' dominant shares differ by a crumb.
DrfFair ==
    parse_forest(claims) =>
      \A g \in {allocate_drf_fabric(claims, to_capacity(qband))} : \A p \in {Root} \cup Ids(claims) :
        LET band == DrfBand(g, p)
            dom  == [e \in Kids(claims, p) |-> dominant_axis(claims[e].demand, band)]
        IN /\ \A r \in Dims : band[r] > 0 => DrfBounded(g, p, r)
           /\ \A e, f \in Kids(claims, p) :
                dom[e] # NoAxis /\ dom[f] # NoAxis =>
                    g[e][dom[e]] * band[dom[f]] <= (g[f][dom[f]] + 1) * band[dom[e]]

\* Fair by either policy: the one the controller runs and the one over
\* dominant resources.
SharesFair == LedgerFair /\ DrfFair

\* "never over-allocates": on every axis.
DrfBandBounded ==
    parse_forest(claims) =>
      \A g \in {allocate_drf_fabric(claims, to_capacity(qband))} :
        \A p \in {Root} \cup Ids(claims), r \in Dims : DrfBounded(g, p, r)
=============================================================================
