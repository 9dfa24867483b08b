---------------------------- MODULE GuardProofs ----------------------------
(***************************************************************************)
(* What the guards and the judges of bands and nodes keep, for every       *)
(* number of threads, callers and nodes and every capacity, cooldown,      *)
(* grace and window: the bulkhead's ceiling and its refinement of a        *)
(* semaphore, the breaker's rest and budget, the sweep's grace, the window *)
(* of a band's promotion, and verdicts that are earned.                    *)
(***************************************************************************)
EXTENDS Bulkhead, SpendRateBreaker, NodeFleet, PromotionGate, BandHealth, NodeWaste,
        FiniteSetTheorems, SequenceTheorems, WellFoundedInduction, TLAPS

(***************************************************************************)
(* The bulkhead.                                                           *)
(***************************************************************************)
\* The permits held are a finite set, and are counted by a number.
LEMMA HoldersFinite == IsFiniteSet(Holders) /\ Cardinality(Holders) \in Nat
<1>1. Holders \subseteq Threads
    BY DEF Holders
<1>2. QED
    BY <1>1, BulkheadAssumption, FS_Subset, FS_CardinalityType

\* PermitsBounded alone is not inductive: that an exchange finds a free slot
\* says something of the counter, and only through the count of permits
\* something of the permits.
IInv == BulkheadTypeOK /\ SlotsCounted /\ outstanding <= capacity

\* The pool starts empty.
LEMMA InitIInv == BulkheadInit => IInv
<1> SUFFICES ASSUME BulkheadInit PROVE IInv
    OBVIOUS
<1>1. Holders = {}
    BY DEF BulkheadInit, Holders
<1>2. QED
    BY <1>1, FS_EmptySet, BulkheadAssumption DEF BulkheadInit, IInv, BulkheadTypeOK, SlotsCounted, PC

\* A step that takes no slot and frees none leaves the holders alone.
LEMMA SameHolders ==
    ASSUME IInv, NEW t \in Threads, NEW l \in PC, Goto(t, l), outstanding' = outstanding,
           cur' \in [Threads -> Nat],
           l \in {"permit", "authorized"} <=> at[t] \in {"permit", "authorized"}
    PROVE  IInv'
<1>1. BulkheadTypeOK'
    BY DEF IInv, BulkheadTypeOK, Goto
<1>2. Holders' = Holders
    BY DEF IInv, BulkheadTypeOK, Goto, Holders
<1>3. QED
    BY <1>1, <1>2 DEF IInv, SlotsCounted

\* A thread that gains a permit adds itself to the holders.
LEMMA ExchangeIInv ==
    ASSUME IInv, NEW t \in Threads, Exchange(t)
    PROVE  IInv'
<1>1. outstanding \in Nat /\ outstanding < capacity /\ outstanding' = outstanding + 1
    BY DEF IInv, BulkheadTypeOK, Exchange
<1>2. t \notin Holders /\ Holders' = Holders \cup {t}
    BY DEF IInv, BulkheadTypeOK, Exchange, Goto, Holders
<1>3. Cardinality(Holders') = Cardinality(Holders) + 1
    BY <1>2, HoldersFinite, FS_AddElement
<1>4. BulkheadTypeOK'
    BY <1>1 DEF IInv, BulkheadTypeOK, Exchange, Goto, PC
<1>5. QED
    BY <1>1, <1>3, <1>4, BulkheadAssumption DEF IInv, SlotsCounted

\* A thread that drops its permit leaves the holders, and the counter was
\* not zero.
LEMMA DropIInv ==
    ASSUME IInv, NEW t \in Threads, drop(t) \/ into_inner(t)
    PROVE  IInv'
<1>1. t \in Holders /\ Holders' = Holders \ {t}
    BY DEF IInv, BulkheadTypeOK, drop, into_inner, Goto, Holders
<1>2. Cardinality(Holders') = Cardinality(Holders) - 1
    BY <1>1, HoldersFinite, FS_RemoveElement
<1>3. Cardinality(Holders) # 0
    BY <1>1, HoldersFinite, FS_EmptySet
<1>4. outstanding' = outstanding - 1 /\ outstanding \in Nat /\ outstanding # 0
      /\ outstanding' \in Nat
    BY <1>3, HoldersFinite DEF drop, into_inner, IInv, BulkheadTypeOK, SlotsCounted
<1>5. BulkheadTypeOK'
    BY <1>4 DEF IInv, BulkheadTypeOK, drop, into_inner, Goto, PC
<1>6. QED
    BY <1>2, <1>4, <1>5, BulkheadAssumption DEF IInv, SlotsCounted

\* Every step preserves the invariant.
LEMMA NextIInv == IInv /\ [BulkheadNext]_bulkhead_vars => IInv'
<1> SUFFICES ASSUME IInv, [BulkheadNext]_bulkhead_vars PROVE IInv'
    OBVIOUS
<1>1. ASSUME NEW t \in Threads, try_acquire(t) PROVE IInv'
    <2>1. CASE Load(t)
        BY <2>1, SameHolders DEF Load, PC, IInv, BulkheadTypeOK
    <2>2. CASE AtCapacity(t)
        BY <2>2, SameHolders DEF AtCapacity, PC, IInv, BulkheadTypeOK
    <2>3. CASE Exchange(t)
        BY <2>3, ExchangeIInv
    <2>4. CASE ExchangeFails(t)
        <3>1. BulkheadTypeOK' /\ Holders' = Holders
            BY <2>4 DEF ExchangeFails, IInv, BulkheadTypeOK, Holders
        <3>2. QED
            BY <2>4, <3>1 DEF ExchangeFails, IInv, SlotsCounted
    <2>5. QED
        BY <1>1, <2>1, <2>2, <2>3, <2>4 DEF try_acquire
<1>2. ASSUME NEW t \in Threads, authorize(t) PROVE IInv'
    BY <1>2, SameHolders DEF authorize, PC, IInv, BulkheadTypeOK
<1>3. ASSUME NEW t \in Threads, drop(t) \/ into_inner(t) PROVE IInv'
    BY <1>3, DropIInv
<1>4. ASSUME NEW t \in Threads, Finish(t) PROVE IInv'
    BY <1>4, SameHolders DEF Finish, PC, IInv, BulkheadTypeOK
<1>5. CASE UNCHANGED bulkhead_vars
    BY <1>5 DEF bulkhead_vars, IInv, BulkheadTypeOK, SlotsCounted, Holders
<1>6. QED
    BY <1>1, <1>2, <1>3, <1>4, <1>5 DEF BulkheadNext

\* The invariant of the pool.
LEMMA IInvHolds == BulkheadSpec => []IInv
BY InitIInv, NextIInv, PTL DEF BulkheadSpec

\* The bulkhead's ceiling: however many threads race through the weak
\* compare-exchange of try_acquire, never more than capacity permits are out.
THEOREM CeilingHolds == BulkheadSpec => []PermitsBounded
<1>1. IInv => PermitsBounded
    BY DEF IInv, SlotsCounted, PermitsBounded
<1>2. QED
    BY <1>1, IInvHolds, PTL

\* Slot accounting: the shared counter is the number of live permits, so no
\* slot leaks and none is freed twice.
THEOREM SlotsNeverLeak == BulkheadSpec => []SlotsCounted
<1>1. IInv => SlotsCounted
    BY DEF IInv
<1>2. QED
    BY <1>1, IInvHolds, PTL

\* The semaphore counts its holders the way the bulkhead does.
LEMMA SameCardinality == Permits!Cardinality(Holders) = Cardinality(Holders)
BY DEF Permits!Cardinality, Cardinality

\* A step of the bulkhead is a step of the semaphore, or none: a slot that is
\* taken was free, because the counter counts the permits.
LEMMA BulkheadStepMaps ==
    ASSUME IInv, [BulkheadNext]_bulkhead_vars
    PROVE  [Permits!Next]_Holders
<1>1. ASSUME NEW t \in Threads, Exchange(t) PROVE Permits!Acquire(t)
    <2>1. t \notin Holders /\ Holders' = Holders \cup {t}
        BY <1>1 DEF IInv, BulkheadTypeOK, Exchange, Goto, Holders
    <2>2. outstanding < capacity
        BY <1>1 DEF Exchange
    <2>3. QED
        BY <2>1, <2>2, SameCardinality DEF IInv, SlotsCounted, Permits!Acquire
<1>2. ASSUME NEW t \in Threads, drop(t) \/ into_inner(t) PROVE Permits!Release(t)
    BY <1>2 DEF IInv, BulkheadTypeOK, drop, into_inner, Goto, Holders, Permits!Release
<1>3. ASSUME NEW t \in Threads, Load(t) \/ AtCapacity(t) \/ ExchangeFails(t) \/ authorize(t) \/ Finish(t)
      PROVE  Holders' = Holders
    BY <1>3 DEF IInv, BulkheadTypeOK, Load, AtCapacity, ExchangeFails, authorize, Finish, Goto, Holders
<1>4. ASSUME UNCHANGED bulkhead_vars PROVE Holders' = Holders
    BY <1>4 DEF bulkhead_vars, Holders
<1>5. QED
    BY <1>1, <1>2, <1>3, <1>4 DEF BulkheadNext, try_acquire, Permits!Next

\* The bulkhead implements the semaphore: for any threads and any capacity,
\* on every interleaving of loads, failed exchanges and drops.
THEOREM BulkheadIsASemaphore == BulkheadSpec => PermitsAtomic
<1>1. BulkheadInit => Permits!Init
    BY DEF BulkheadInit, Holders, Permits!Init
<1>2. IInv /\ [BulkheadNext]_bulkhead_vars => [Permits!Next]_Holders
    BY BulkheadStepMaps
<1>3. QED
    BY <1>1, <1>2, IInvHolds, PTL DEF BulkheadSpec, PermitsAtomic, Permits!Spec

-----------------------------------------------------------------------------
(***************************************************************************)
(* The spend-rate breaker.                                                 *)
(***************************************************************************)
\* No two callers owe the outcome of a trial.
AtMostOne == \A c, d \in trial : c = d

\* An Open breaker remembers when it opened, and a HalfOpen one has rested.
Rested ==
    /\ state = "Open" => opened_at = reopened
    /\ state = "HalfOpen" => now - reopened >= cooldown_seconds

\* OneTrial does not by itself say when a trial may begin: that an Open
\* breaker has no reservation to forget is what keeps a second one out.
SpendInv ==
    /\ SpendTypeOK /\ AtMostOne /\ Rested
    /\ reserved # None <=> trial # {}
    /\ trial # {} => state = "HalfOpen"

\* A set with no two elements has at most one.
LEMMA AtMostOneCounted == ASSUME NEW S, \A c, d \in S : c = d PROVE Cardinality(S) <= 1
<1>1. CASE S = {}
    BY <1>1, FS_EmptySet
<1>2. CASE S # {}
    <2>1. PICK c : c \in S
        BY <1>2
    <2>2. S = {c}
        BY <2>1
    <2>3. Cardinality({c}) = 1
        BY FS_Singleton
    <2>4. QED
        BY <2>2, <2>3
<1>3. QED
    BY <1>1, <1>2

\* The breaker starts Closed, with its whole capacity.
LEMMA SpendInitInv == SpendInit => SpendInv
<1> SUFFICES ASSUME SpendInit PROVE SpendInv
    OBVIOUS
<1>1. now \in 0..MaxNow /\ opened_at \in 0..MaxNow /\ reopened \in 0..MaxNow
      /\ available \in 0..capacity_rate
    BY BreakerAssumption DEF SpendInit
<1>2. spend \in [Callers -> Rates \cup {0}] /\ reserved \in Rates \cup {None}
    BY DEF SpendInit
<1>3. SpendTypeOK
    BY <1>1, <1>2 DEF SpendInit, SpendTypeOK
<1>4. QED
    BY <1>3 DEF SpendInit, SpendInv, AtMostOne, Rested, None

\* What the gauge is set to stays between zero and the capacity.
LEMMA CappedBounds == ASSUME NEW amount \in Nat PROVE Capped(amount) \in 0..capacity_rate
BY BreakerAssumption DEF Capped

\* An admission in HalfOpen begins a trial only where none is in flight.
LEMMA AdmitHalfOpenInv ==
    ASSUME SpendInv, NEW c \in Callers, NEW rate \in Rates, NEW in_flight \in Rates \cup {None},
           admit_half_open(c, rate, in_flight), UNCHANGED <<now, corrected>>,
           in_flight # None <=> trial # {}, now - reopened >= cooldown_seconds
    PROVE  SpendInv'
<1>1. CASE in_flight = None /\ rate <= available
    <2>1. trial' = {c} /\ reserved' = rate /\ state' = "HalfOpen"
        BY <1>1 DEF admit_half_open
    <2>2. SpendTypeOK'
        BY <1>1, <2>1, BreakerAssumption DEF SpendInv, SpendTypeOK, admit_half_open
    <2>3. QED
        BY <2>1, <2>2, BreakerAssumption DEF SpendInv, AtMostOne, Rested, admit_half_open, None
<1>2. CASE ~(in_flight = None /\ rate <= available)
    BY <1>2 DEF admit_half_open, SpendInv, SpendTypeOK, AtMostOne, Rested
<1>3. QED
    BY <1>1, <1>2

\* Every call preserves the invariant.
LEMMA SpendNextInv == SpendInv /\ [SpendNext]_spend_vars => SpendInv'
<1> SUFFICES ASSUME SpendInv, [SpendNext]_spend_vars PROVE SpendInv'
    OBVIOUS
<1>1. ASSUME NEW c \in Callers, NEW rate \in Rates, try_admit(c, rate) PROVE SpendInv'
    <2>1. CASE state = "Open" /\ now - opened_at >= cooldown_seconds /\ admit_half_open(c, rate, None)
        BY <1>1, <2>1, AdmitHalfOpenInv DEF try_admit, SpendInv, Rested
    <2>2. CASE state = "HalfOpen" /\ admit_half_open(c, rate, reserved)
        BY <1>1, <2>2, AdmitHalfOpenInv DEF try_admit, SpendInv, Rested, SpendTypeOK
    <2>3. CASE state = "Closed" /\ admit_closed(c, rate)
        BY <1>1, <2>3, BreakerAssumption
        DEF try_admit, admit_closed, trip, SpendInv, SpendTypeOK, AtMostOne, Rested
    <2>4. QED
        BY <1>1, <2>1, <2>2, <2>3 DEF try_admit
<1>2. ASSUME NEW c \in Callers, NEW success \in BOOLEAN, record_trial_outcome(c, success) PROVE SpendInv'
    <2>1. trial' = {} /\ reserved' = None
        BY <1>2 DEF record_trial_outcome, SpendInv, AtMostOne
    <2>2. CASE success
        BY <1>2, <2>1, <2>2, BreakerAssumption
        DEF record_trial_outcome, SpendInv, SpendTypeOK, AtMostOne, Rested, None
    <2>3. CASE ~success
        <3>1. available + reserved \in Nat
            BY BreakerAssumption DEF SpendInv, SpendTypeOK, None
        <3>2. available' \in 0..capacity_rate
            BY <1>2, <2>3, <3>1, CappedBounds DEF record_trial_outcome
        <3>3. QED
            BY <1>2, <2>1, <2>3, <3>2, BreakerAssumption
            DEF record_trial_outcome, trip, SpendInv, SpendTypeOK, AtMostOne, Rested, None
    <2>4. QED
        BY <2>2, <2>3
<1>3. ASSUME NEW c \in Callers, release(c) PROVE SpendInv'
    <2>1. spend[c] \in Rates \cup {0}
        BY DEF SpendInv, SpendTypeOK
    <2>2. available \in Nat /\ spend[c] \in Nat
        <3>1. \A r \in Rates \cup {0} : r \in Nat
            BY BreakerAssumption
        <3>2. QED
            BY <2>1, <3>1 DEF SpendInv, SpendTypeOK
    <2>3. available' \in 0..capacity_rate
        BY <1>3, <2>2, CappedBounds DEF release
    <2>4. QED
        BY <1>3, <2>3 DEF release, SpendInv, SpendTypeOK, AtMostOne, Rested
<1>4. ASSUME NEW reading \in Billing, true_up_headroom(reading) PROVE SpendInv'
    <2>1. available' \in 0..capacity_rate
        BY <1>4, CappedBounds, BreakerAssumption DEF true_up_headroom
    <2>2. QED
        BY <1>4, <2>1 DEF true_up_headroom, SpendInv, SpendTypeOK, AtMostOne, Rested
<1>5. CASE Second
    BY <1>5, BreakerAssumption DEF Second, core, SpendInv, SpendTypeOK, AtMostOne, Rested
<1>6. CASE UNCHANGED spend_vars
    BY <1>6 DEF spend_vars, core, SpendInv, SpendTypeOK, AtMostOne, Rested
<1>7. QED
    BY <1>1, <1>2, <1>3, <1>4, <1>5, <1>6 DEF SpendNext, TrialReports

\* Only an admission provisions, and outside Closed only after the cooldown.
LEMMA SpendStepRests ==
    ASSUME SpendInv, [SpendNext]_spend_vars,
           NEW d \in Callers, spend[d] = 0, spend'[d] > 0, state # "Closed"
    PROVE  now - reopened >= cooldown_seconds
<1>1. ASSUME NEW c \in Callers, NEW rate \in Rates, try_admit(c, rate)
      PROVE  now - reopened >= cooldown_seconds
    BY <1>1 DEF try_admit, SpendInv, Rested
<1>2. ASSUME NEW c \in Callers, NEW success \in BOOLEAN, record_trial_outcome(c, success) PROVE FALSE
    BY <1>2 DEF record_trial_outcome, SpendInv, SpendTypeOK
<1>3. ASSUME NEW c \in Callers, release(c) PROVE FALSE
    BY <1>3 DEF release, SpendInv, SpendTypeOK
<1>4. ASSUME \/ \E reading \in Billing : true_up_headroom(reading)
             \/ Second
             \/ UNCHANGED spend_vars
      PROVE  FALSE
    BY <1>4 DEF true_up_headroom, Second, spend_vars, core
<1>5. QED
    BY <1>1, <1>2, <1>3, <1>4 DEF SpendNext, TrialReports

\* The breaker's promise, whatever its callers, rates, capacity and cooldown:
\* at most one caller owes the outcome of a trial, a reservation exists only
\* for it and only in HalfOpen, and nothing is admitted within a cooldown of
\* the breaker going Open.
THEOREM BreakerRests == SpendSpec => TrialsRest
<1>1. SpendInv => OneTrial
    BY AtMostOneCounted DEF SpendInv, AtMostOne, OneTrial
<1>2. SpendInv /\ [SpendNext]_spend_vars
        => [\A c \in Callers : spend[c] = 0 /\ spend'[c] > 0 /\ state # "Closed"
              => now - reopened >= cooldown_seconds]_spend_vars
    BY SpendStepRests
<1>3. QED
    BY <1>1, <1>2, SpendInitInv, SpendNextInv, PTL DEF SpendSpec, TrialsRest, RestsWhenOpen

-----------------------------------------------------------------------------
(***************************************************************************)
(* The spend-rate breaker: what its gauge is the rest of.                  *)
(***************************************************************************)
\* A set of numbers with zero and every successor has all of them: a least
\* number outside would be the successor of one inside.
LEMMA AllNaturals ==
    ASSUME NEW T, 0 \in T, \A n \in Nat : n \in T => n + 1 \in T
    PROVE  \A n \in Nat : n \in T
<1> DEFINE K == {n \in Nat : n \notin T}
<1>1. ASSUME K # {} PROVE FALSE
    <2>1. PICK m \in K : \A n \in K : ~(<<n, m>> \in OpToRel(<, Nat))
        <3>1. K \subseteq Nat
            OBVIOUS
        <3> HIDE DEF K
        <3>2. QED
            BY <1>1, <3>1, NatLessThanWellFounded, WFMin
    <2>2. m \in Nat /\ m \notin T
        OBVIOUS
    <2>3. m # 0
        BY <2>2
    <2>4. m - 1 \in Nat /\ m - 1 < m /\ (m - 1) + 1 = m
        BY <2>2, <2>3
    <2>5. m - 1 \in K
        BY <2>2, <2>4
    <2>6. <<m - 1, m>> \in OpToRel(<, Nat)
        BY <2>2, <2>4 DEF OpToRel
    <2>7. QED
        BY <2>1, <2>5, <2>6
<1>2. QED
    BY <1>1

\* The element a fold takes next.
First(s) == CHOOSE x \in s : TRUE

\* h sums f over the sets of D, one element after the other.
Sums(h, f, D) == h = [s \in D |-> IF s = {} THEN 0 ELSE f[First(s)] + h[s \ {First(s)}]]

\* The sets of at most n callers.
UpTo(n) == {s \in SUBSET Callers : Cardinality(s) <= n}

\* What is left of a set is smaller by one.
LEMMA FirstTaken ==
    ASSUME NEW s \in SUBSET Callers, s # {}
    PROVE  /\ First(s) \in s /\ s \ {First(s)} \in SUBSET Callers
           /\ Cardinality(s) \in Nat /\ Cardinality(s \ {First(s)}) = Cardinality(s) - 1
<1>1. First(s) \in s
    BY DEF First
<1>2. IsFiniteSet(s)
    BY BreakerAssumption, FS_Subset
<1>3. QED
    BY <1>1, <1>2, FS_RemoveElement, FS_CardinalityType

\* Every set of callers can be summed over.
LEMMA SumsExist == ASSUME NEW f PROVE \E h : Sums(h, f, SUBSET Callers)
<1> DEFINE T == {n \in Nat : \E h : Sums(h, f, UpTo(n))}
<1>1. 0 \in T
    <2> DEFINE h == [s \in UpTo(0) |-> 0]
    <2>1. \A s \in UpTo(0) : s = {}
        <3> SUFFICES ASSUME NEW s \in UpTo(0), s # {} PROVE FALSE
            OBVIOUS
        <3>1. s \in SUBSET Callers /\ Cardinality(s) <= 0
            BY DEF UpTo
        <3>2. IsFiniteSet(s)
            BY <3>1, BreakerAssumption, FS_Subset
        <3>3. Cardinality(s) = 0
            BY <3>1, <3>2, FS_CardinalityType
        <3>4. QED
            BY <3>2, <3>3, FS_EmptySet
    <2>2. Sums(h, f, UpTo(0))
        BY <2>1, Zenon DEF Sums
    <2>3. QED
        BY <2>2
<1>2. ASSUME NEW n \in Nat, n \in T PROVE n + 1 \in T
    <2>1. PICK h : Sums(h, f, UpTo(n))
        BY <1>2
    <2> DEFINE g == [s \in UpTo(n + 1) |-> IF s = {} THEN 0 ELSE f[First(s)] + h[s \ {First(s)}]]
    <2>2. \A s \in UpTo(n) : h[s] = IF s = {} THEN 0 ELSE f[First(s)] + h[s \ {First(s)}]
        BY <2>1, Zenon DEF Sums
    <2>3. \A s \in UpTo(n) : s \in UpTo(n + 1)
        <3> SUFFICES ASSUME NEW s \in UpTo(n) PROVE s \in UpTo(n + 1)
            OBVIOUS
        <3>1. s \in SUBSET Callers /\ Cardinality(s) <= n
            BY DEF UpTo
        <3>2. Cardinality(s) \in Nat
            BY <3>1, BreakerAssumption, FS_Subset, FS_CardinalityType
        <3>3. QED
            BY <3>1, <3>2 DEF UpTo
    <2>4. \A s \in UpTo(n) : g[s] = h[s]
        BY <2>2, <2>3, Zenon
    <2>5. \A s \in UpTo(n + 1) : s # {} => s \ {First(s)} \in UpTo(n)
        <3> SUFFICES ASSUME NEW s \in UpTo(n + 1), s # {} PROVE s \ {First(s)} \in UpTo(n)
            OBVIOUS
        <3>1. s \in SUBSET Callers /\ Cardinality(s) <= n + 1
            BY DEF UpTo
        <3>2. QED
            BY <3>1, FirstTaken DEF UpTo
    <2>6. \A s \in UpTo(n + 1) :
            (IF s = {} THEN 0 ELSE f[First(s)] + h[s \ {First(s)}])
              = (IF s = {} THEN 0 ELSE f[First(s)] + g[s \ {First(s)}])
        <3> HIDE DEF g
        <3>1. QED
            BY <2>4, <2>5, Zenon
    <2>7. g = [s \in UpTo(n + 1) |-> IF s = {} THEN 0 ELSE f[First(s)] + g[s \ {First(s)}]]
        BY <2>6, Zenon
    <2> HIDE DEF g
    <2>8. Sums(g, f, UpTo(n + 1))
        BY <2>7, Zenon DEF Sums
    <2>9. QED
        BY <2>8
<1>3. Cardinality(Callers) \in Nat
    BY BreakerAssumption, FS_CardinalityType
<1>4. Cardinality(Callers) \in T
    <2> HIDE DEF T
    <2>1. \A n \in Nat : n \in T => n + 1 \in T
        BY <1>2
    <2>2. QED
        BY <1>1, <1>3, <2>1, AllNaturals
<1>5. UpTo(Cardinality(Callers)) = SUBSET Callers
    BY BreakerAssumption, FS_Subset DEF UpTo
<1>6. QED
    BY <1>4, <1>5

\* The sum of what the callers have provisioned.
Provisioned(f) == MapThenSumSet(LAMBDA c : f[c], Callers)

LEMMA ProvisionedSums ==
    ASSUME NEW f
    PROVE  \E h : Sums(h, f, SUBSET Callers) /\ Provisioned(f) = h[Callers]
<1> DEFINE h == CHOOSE h : h = [s \in SUBSET Callers |->
                                IF s = {} THEN 0
                                ELSE f[CHOOSE x \in s : TRUE] + h[s \ {CHOOSE x \in s : TRUE}]]
<1>1. \E g : Sums(g, f, SUBSET Callers)
    BY SumsExist
<1>2. Sums(h, f, SUBSET Callers)
    BY <1>1, Zenon DEF Sums, First
<1>3. Provisioned(f) = h[Callers]
    BY Zenon DEF Provisioned, MapThenSumSet, MapThenFoldSet
<1> HIDE DEF h
<1>4. QED
    BY <1>2, <1>3

\* The empty set is the only one with no element, and a set of one more
\* leaves one of the smaller sets behind.
LEMMA UpToSteps ==
    /\ \A s \in UpTo(0) : s = {}
    /\ \A n \in Nat : \A s \in UpTo(n + 1) :
          s \in SUBSET Callers /\ (s # {} => First(s) \in s /\ s \ {First(s)} \in UpTo(n))
    /\ Cardinality(Callers) \in Nat /\ Callers \in UpTo(Cardinality(Callers))
<1>1. ASSUME NEW s \in UpTo(0), s # {} PROVE FALSE
    <2>1. s \in SUBSET Callers /\ Cardinality(s) <= 0
        BY DEF UpTo
    <2>2. Cardinality(s) \in Nat /\ Cardinality(s \ {First(s)}) = Cardinality(s) - 1
        BY <1>1, <2>1, FirstTaken
    <2>3. Cardinality(s \ {First(s)}) \in Nat
        <3>1. IsFiniteSet(s \ {First(s)})
            BY <2>1, BreakerAssumption, FS_Subset
        <3>2. QED
            BY <3>1, FS_CardinalityType
    <2>4. QED
        BY <2>1, <2>2, <2>3
<1>2. ASSUME NEW n \in Nat, NEW s \in UpTo(n + 1)
      PROVE  s \in SUBSET Callers /\ (s # {} => First(s) \in s /\ s \ {First(s)} \in UpTo(n))
    <2>1. s \in SUBSET Callers /\ Cardinality(s) <= n + 1
        BY DEF UpTo
    <2>2. QED
        BY <2>1, FirstTaken DEF UpTo
<1>3. Cardinality(Callers) \in Nat
    BY BreakerAssumption, FS_CardinalityType
<1>4. QED
    BY <1>1, <1>2, <1>3 DEF UpTo

\* Nothing provisioned sums to nothing.
LEMMA NothingProvisioned == Provisioned([c \in Callers |-> 0]) = 0
<1> DEFINE f == [c \in Callers |-> 0]
<1>1. PICK h : Sums(h, f, SUBSET Callers) /\ Provisioned(f) = h[Callers]
    BY ProvisionedSums
<1>2. \A s \in SUBSET Callers : h[s] = IF s = {} THEN 0 ELSE f[First(s)] + h[s \ {First(s)}]
    BY <1>1, Zenon DEF Sums
<1> DEFINE T == {n \in Nat : \A s \in UpTo(n) : h[s] = 0}
<1>3. 0 \in T
    <2>1. \A s \in UpTo(0) : s = {} /\ s \in SUBSET Callers
        BY UpToSteps
    <2>2. QED
        BY <1>2, <2>1
<1>4. ASSUME NEW n \in Nat, n \in T PROVE n + 1 \in T
    <2> SUFFICES ASSUME NEW s \in UpTo(n + 1) PROVE h[s] = 0
        OBVIOUS
    <2>1. s \in SUBSET Callers /\ (s # {} => First(s) \in s /\ s \ {First(s)} \in UpTo(n))
        BY UpToSteps
    <2>2. s # {} => h[s \ {First(s)}] = 0 /\ f[First(s)] = 0
        BY <1>4, <2>1
    <2>3. QED
        BY <1>2, <2>1, <2>2
<1> HIDE DEF T
<1>5. \A n \in Nat : n \in T => n + 1 \in T
    BY <1>4
<1>6. Cardinality(Callers) \in T
    BY <1>3, <1>5, UpToSteps, AllNaturals
<1>7. h[Callers] = 0
    BY <1>6, UpToSteps DEF T
<1>8. QED
    BY <1>1, <1>7

\* The sum moves by as much as one caller's part of it.
LEMMA ProvisionedMoves ==
    ASSUME NEW f \in [Callers -> Nat], NEW c \in Callers, NEW v \in Nat
    PROVE  /\ Provisioned(f) \in Nat /\ Provisioned([f EXCEPT ![c] = v]) \in Nat
           /\ Provisioned([f EXCEPT ![c] = v]) + f[c] = Provisioned(f) + v
<1> DEFINE g == [f EXCEPT ![c] = v]
<1>1. PICK h : Sums(h, f, SUBSET Callers) /\ Provisioned(f) = h[Callers]
    BY ProvisionedSums
<1>2. PICK k : Sums(k, g, SUBSET Callers) /\ Provisioned(g) = k[Callers]
    BY ProvisionedSums
<1>3. \A s \in SUBSET Callers : h[s] = IF s = {} THEN 0 ELSE f[First(s)] + h[s \ {First(s)}]
    BY <1>1, Zenon DEF Sums
<1>4. \A s \in SUBSET Callers : k[s] = IF s = {} THEN 0 ELSE g[First(s)] + k[s \ {First(s)}]
    BY <1>2, Zenon DEF Sums
<1>e. h[{}] = 0 /\ k[{}] = 0
    <2>1. {} \in SUBSET Callers
        OBVIOUS
    <2>2. QED
        BY <1>3, <1>4, <2>1, Zenon
<1>5. \A d \in Callers : f[d] \in Nat /\ g[d] \in Nat /\ g[d] = IF d = c THEN v ELSE f[d]
    OBVIOUS
<1> HIDE DEF g
<1> DEFINE Moved(s) == /\ h[s] \in Nat /\ k[s] \in Nat
                       /\ IF c \in s THEN k[s] + f[c] = h[s] + v ELSE k[s] = h[s]
           T == {n \in Nat : \A s \in UpTo(n) : Moved(s)}
<1>6. 0 \in T
    <2>1. \A s \in UpTo(0) : s = {} /\ s \in SUBSET Callers
        BY UpToSteps
    <2>2. Moved({})
        BY <1>e
    <2> HIDE DEF Moved
    <2>3. QED
        BY <2>1, <2>2
<1>7. ASSUME NEW n \in Nat, n \in T PROVE n + 1 \in T
    <2> SUFFICES ASSUME NEW s \in UpTo(n + 1) PROVE Moved(s)
        OBVIOUS
    <2>1. s \in SUBSET Callers /\ (s # {} => First(s) \in s /\ s \ {First(s)} \in UpTo(n))
        BY UpToSteps
    <2>2. CASE s = {}
        BY <1>e, <2>2
    <2>3. CASE s # {}
        <3> DEFINE x == First(s)
                   r == s \ {x}
        <3>1. x \in Callers /\ x \in s /\ r \in UpTo(n)
            BY <2>1, <2>3
        <3>2. Moved(r)
            BY <1>7, <3>1
        <3>3. h[s] = f[x] + h[r] /\ k[s] = g[x] + k[r]
            BY <1>3, <1>4, <2>1, <2>3
        <3>4. c \in r <=> c \in s /\ c # x
            OBVIOUS
        <3> HIDE DEF x, r
        <3>5. QED
            BY <1>5, <3>1, <3>2, <3>3, <3>4
    <2>4. QED
        BY <2>2, <2>3
<1> HIDE DEF T
<1>8. \A n \in Nat : n \in T => n + 1 \in T
    BY <1>7
<1>9. Cardinality(Callers) \in T
    BY <1>6, <1>8, UpToSteps, AllNaturals
<1>10. Moved(Callers)
    <2> HIDE DEF Moved
    <2>1. QED
        BY <1>9, UpToSteps DEF T
<1>11. QED
    BY <1>1, <1>2, <1>10 DEF g

\* What a trial reserved is what its caller provisioned, and it is part of
\* what is refunded.  HeadroomConserved does not say so, and a refund of
\* anything else would break it.
BudgetInv ==
    /\ SpendInv
    /\ \A c \in trial : spend[c] = reserved
    /\ ~corrected => available + Provisioned(spend) = capacity_rate

\* The gauge and the callers' parts of it are natural numbers.
LEMMA BudgetTyped ==
    ASSUME SpendInv
    PROVE  /\ available \in Nat /\ capacity_rate \in Nat /\ trial \subseteq Callers
           /\ spend \in [Callers -> Nat] /\ \A r \in Rates : r \in Nat /\ r # 0
<1>1. /\ available \in 0..capacity_rate /\ trial \subseteq Callers
      /\ spend \in [Callers -> Rates \cup {0}]
    BY Zenon DEF SpendInv, SpendTypeOK
<1>2. capacity_rate \in Nat /\ \A r \in Rates : r \in Nat /\ r # 0
    BY BreakerAssumption
<1>3. available \in Nat
    BY <1>1, <1>2
<1>4. \A r \in Rates \cup {0} : r \in Nat
    BY <1>2
<1>5. spend \in [Callers -> Nat]
    BY <1>1, <1>4
<1>6. QED
    BY <1>1, <1>2, <1>3, <1>5

\* A caller takes its part from the gauge, or gives it back.
LEMMA BudgetMoves ==
    ASSUME SpendInv, available + Provisioned(spend) = capacity_rate, NEW c \in Callers
    PROVE  /\ spend[c] \in Nat /\ available \in Nat /\ available + spend[c] <= capacity_rate
           /\ \A v \in Nat : Provisioned([spend EXCEPT ![c] = v]) \in Nat /\
                Provisioned([spend EXCEPT ![c] = v]) + spend[c] = (capacity_rate - available) + v
<1>1. available \in Nat /\ capacity_rate \in Nat /\ spend \in [Callers -> Nat]
    BY BudgetTyped
<1>2. Provisioned(spend) \in Nat
    BY <1>1, ProvisionedMoves
<1>3. ASSUME NEW v \in Nat
      PROVE  /\ Provisioned([spend EXCEPT ![c] = v]) \in Nat
             /\ Provisioned([spend EXCEPT ![c] = v]) + spend[c] = (capacity_rate - available) + v
    <2>1. /\ Provisioned([spend EXCEPT ![c] = v]) \in Nat
          /\ Provisioned([spend EXCEPT ![c] = v]) + spend[c] = Provisioned(spend) + v
        BY <1>1, ProvisionedMoves
    <2>2. QED
        BY <1>1, <1>2, <2>1
<1>4. /\ Provisioned([spend EXCEPT ![c] = 0]) \in Nat
      /\ Provisioned([spend EXCEPT ![c] = 0]) + spend[c] = (capacity_rate - available) + 0
    BY <1>3
<1>5. QED
    BY <1>1, <1>3, <1>4

\* Admissions take, refunds and releases give back, and nothing else moves
\* the gauge before a billing correction.
LEMMA BudgetNext == ASSUME BudgetInv, [SpendNext]_spend_vars PROVE BudgetInv'
<1>0. SpendInv /\ SpendInv'
    BY SpendNextInv DEF BudgetInv
<1>1. /\ \A c \in trial : spend[c] = reserved
      /\ ~corrected => available + Provisioned(spend) = capacity_rate
    BY DEF BudgetInv
<1>t. /\ available \in Nat /\ capacity_rate \in Nat /\ trial \subseteq Callers
      /\ spend \in [Callers -> Nat] /\ \A r \in Rates : r \in Nat /\ r # 0
    BY <1>0, BudgetTyped
<1>2. ASSUME UNCHANGED <<available, spend>>, trial' \subseteq trial, trial' # {} => reserved' = reserved,
             corrected' => corrected, corrected => corrected'
      PROVE  BudgetInv'
    BY <1>0, <1>1, <1>2, Zenon DEF BudgetInv
<1>3. ASSUME NEW c \in Callers, NEW v \in Nat, spend' = [spend EXCEPT ![c] = v],
             available' = (available + spend[c]) - v,
             \A d \in trial' : spend'[d] = reserved', corrected' <=> corrected
      PROVE  BudgetInv'
    <2>1. ~corrected => available' + Provisioned(spend') = capacity_rate
        <3> SUFFICES ASSUME ~corrected PROVE available' + Provisioned(spend') = capacity_rate
            OBVIOUS
        <3>1. /\ spend[c] \in Nat /\ Provisioned(spend') \in Nat
              /\ Provisioned(spend') + spend[c] = (capacity_rate - available) + v
            BY <1>0, <1>1, <1>3, BudgetMoves
        <3>2. QED
            BY <1>t, <1>3, <3>1
    <2>2. QED
        BY <1>0, <1>3, <2>1, Zenon DEF BudgetInv
<1>4. ASSUME NEW c \in Callers, NEW rate \in Rates, try_admit(c, rate) PROVE BudgetInv'
    <2>1. rate \in Nat /\ spend[c] = 0 /\ corrected' = corrected
        BY <1>t, <1>4 DEF try_admit
    <2>2. ASSUME NEW in_flight, admit_half_open(c, rate, in_flight),
                 in_flight = reserved \/ trial = {}, in_flight = None => trial = {}
          PROVE  BudgetInv'
        <3>1. CASE in_flight = None /\ rate <= available
            <4>1. /\ available' = available - rate /\ reserved' = rate /\ trial' = {c}
                  /\ spend' = [spend EXCEPT ![c] = rate]
                BY <2>2, <3>1 DEF admit_half_open
            <4>2. \A d \in trial' : spend'[d] = reserved'
                BY <1>t, <4>1
            <4>3. available' = (available + spend[c]) - rate
                BY <1>t, <2>1, <4>1
            <4>4. QED
                BY <1>3, <2>1, <4>1, <4>2, <4>3
        <3>2. CASE ~(in_flight = None /\ rate <= available)
            BY <1>2, <2>1, <2>2, <3>2 DEF admit_half_open
        <3>3. QED
            BY <3>1, <3>2
    <2>3. CASE state = "Open" /\ admit_half_open(c, rate, None)
        BY <1>0, <2>2, <2>3 DEF SpendInv
    <2>4. CASE state = "HalfOpen" /\ admit_half_open(c, rate, reserved)
        BY <1>0, <2>2, <2>4 DEF SpendInv
    <2>5. CASE state = "Closed" /\ admit_closed(c, rate)
        <3>1. trial = {}
            BY <1>0, <2>5 DEF SpendInv
        <3>2. CASE rate > available
            BY <1>2, <2>1, <2>5, <3>2 DEF admit_closed
        <3>3. CASE ~(rate > available)
            <4>1. available' = available - rate /\ spend' = [spend EXCEPT ![c] = rate] /\ trial' = {}
                BY <2>5, <3>1, <3>3 DEF admit_closed
            <4>2. available' = (available + spend[c]) - rate
                BY <1>t, <2>1, <4>1
            <4>3. QED
                BY <1>3, <2>1, <4>1, <4>2
        <3>4. QED
            BY <3>2, <3>3
    <2>6. QED
        BY <1>4, <2>3, <2>4, <2>5 DEF try_admit
<1>5. ASSUME NEW c \in Callers, spend' = [spend EXCEPT ![c] = 0], c \notin trial',
             available' = Capped(available + spend[c]), trial' \subseteq trial,
             trial' # {} => reserved' = reserved, corrected' = corrected
      PROVE  BudgetInv'
    <2>1. \A d \in trial' : spend'[d] = reserved'
        BY <1>1, <1>t, <1>5
    <2>2. CASE corrected
        BY <1>0, <1>5, <2>1, <2>2 DEF BudgetInv
    <2>3. CASE ~corrected
        <3>1. spend[c] \in Nat /\ available + spend[c] <= capacity_rate
            BY <1>0, <1>1, <2>3, BudgetMoves
        <3>2. available' = (available + spend[c]) - 0
            BY <1>t, <1>5, <3>1 DEF Capped
        <3>3. QED
            BY <1>3, <1>5, <2>1, <3>2
    <2>4. QED
        BY <2>2, <2>3
<1>6. ASSUME NEW c \in Callers, NEW success \in BOOLEAN, record_trial_outcome(c, success)
      PROVE  BudgetInv'
    <2>1. c \in trial /\ trial' = {} /\ reserved = spend[c] /\ corrected' = corrected
        BY <1>0, <1>1, <1>6 DEF record_trial_outcome, SpendInv, AtMostOne
    <2>2. CASE success
        BY <1>2, <1>6, <2>1, <2>2 DEF record_trial_outcome
    <2>3. CASE ~success
        BY <1>5, <1>6, <2>1, <2>3 DEF record_trial_outcome
    <2>4. QED
        BY <2>2, <2>3
<1>7. ASSUME NEW c \in Callers, release(c) PROVE BudgetInv'
    BY <1>5, <1>7 DEF release
<1>8. ASSUME NEW reading \in Billing, true_up_headroom(reading) PROVE BudgetInv'
    BY <1>0, <1>1, <1>8 DEF true_up_headroom, BudgetInv
<1>9. CASE Second
    BY <1>2, <1>9 DEF Second, core
<1>10. CASE UNCHANGED spend_vars
    BY <1>2, <1>10 DEF spend_vars, core
<1>11. QED
    BY <1>4, <1>6, <1>7, <1>8, <1>9, <1>10 DEF SpendNext, TrialReports

\* For any number of callers and any rates, what is provisioned and what is
\* left make up the capacity until a billing reading corrects the gauge:
\* no admission, trial, refund or release makes or loses budget.
THEOREM BudgetConserved == SpendSpec => []HeadroomConserved
<1>1. SpendInit => BudgetInv
    <2> SUFFICES ASSUME SpendInit PROVE BudgetInv
        OBVIOUS
    <2>1. Provisioned(spend) = 0
        BY NothingProvisioned DEF SpendInit
    <2>2. QED
        BY <2>1, SpendInitInv, BreakerAssumption DEF BudgetInv, SpendInit
<1>2. BudgetInv /\ [SpendNext]_spend_vars => BudgetInv'
    BY BudgetNext
<1>3. BudgetInv => HeadroomConserved
    BY Zenon DEF BudgetInv, HeadroomConserved, Provisioned
<1>4. QED
    BY <1>1, <1>2, <1>3, PTL DEF SpendSpec

-----------------------------------------------------------------------------
(***************************************************************************)
(* The drift tracker.                                                      *)
(***************************************************************************)
\* No mark runs ahead of the ticks that found the instance unaccounted for,
\* and an orphan the tick has still to advance is one such tick ahead of its
\* mark: the queue is what makes the bound inductive.
MarksBacked ==
    /\ \A n \in Nodes : marks[n] <= undeclared[n]
    /\ \A n \in queue : marks[n] < undeclared[n] \/ undeclared[n] = grace_ticks

FleetInv == FleetTypeOK /\ MarksBacked

\* Nothing is marked and nothing observed at first.
LEMMA FleetInitInv == FleetInit => FleetInv
<1> SUFFICES ASSUME FleetInit PROVE FleetInv
    OBVIOUS
<1>1. 0 \in 0..grace_ticks /\ 0 \in 0..MaxFailures
    BY NodeFleetAssumption
<1>2. FleetTypeOK
    BY <1>1 DEF FleetInit, FleetTypeOK, FaseNode
<1>3. QED
    BY <1>2 DEF FleetInit, FleetInv, MarksBacked

\* What the tick finds unaccounted for are nodes it observed.
LEMMA OrphansAreNodes == ASSUME FleetTypeOK PROVE Orphans(stored) \subseteq Nodes
BY DEF FleetTypeOK, Orphans

\* A step that leaves the tracker alone, or ends its tick, preserves the
\* invariant of the marks.
LEMMA MarksKept ==
    ASSUME FleetInv, FleetTypeOK', UNCHANGED <<marks, undeclared>>, queue' \subseteq queue
    PROVE  FleetInv'
BY DEF FleetInv, FleetTypeOK, MarksBacked

\* The FSM's edges leave the cloud and the tracker alone.
LEMMA AdvanceInv ==
    ASSUME FleetInv, NEW n \in Nodes, NEW from \in FaseNode, NEW next \in FaseNode, Advance(n, from, next)
    PROVE  FleetInv'
<1>1. FleetTypeOK'
    BY DEF FleetInv, FleetTypeOK, Advance, tracker
<1>2. QED
    BY <1>1, MarksKept DEF Advance, tracker

\* One more call of the tracker that fails is counted within the bound.
LEMMA FailuresBounded ==
    ASSUME FleetInv, failures < MaxFailures, failures' = failures + 1
    PROVE  failures' \in 0..MaxFailures
BY NodeFleetAssumption DEF FleetInv, FleetTypeOK

\* Every step preserves the invariant.
LEMMA FleetNextInv == FleetInv /\ [FleetNext]_fleet_vars => FleetInv'
<1> SUFFICES ASSUME FleetInv, [FleetNext]_fleet_vars PROVE FleetInv'
    OBVIOUS
<1> USE NodeFleetAssumption
<1>1. CASE observe_tagged_instances
    <2>1. FleetTypeOK'
        <3>1. \A n \in Nodes : (n \in tagged) \in BOOLEAN
            OBVIOUS
        <3>2. observed' \subseteq Nodes \X BOOLEAN
            <4> SUFFICES ASSUME NEW o \in observed' PROVE o \in Nodes \X BOOLEAN
                OBVIOUS
            <4>1. PICK n \in Nodes : o = <<n, n \in tagged>>
                BY <1>1 DEF observe_tagged_instances
            <4>2. QED
                BY <3>1, <4>1
        <3>3. QED
            BY <1>1, <3>2 DEF observe_tagged_instances, FleetInv, FleetTypeOK, cloud
    <2>2. QED
        BY <1>1, <2>1, MarksKept DEF observe_tagged_instances
<1>2. CASE declared_live_node_ids
    <2>1. Orphans(stored) \subseteq Nodes
        BY OrphansAreNodes DEF FleetInv
    <2>2. \A n \in Nodes : /\ marks'[n] = IF n \in Orphans(stored) THEN marks[n] ELSE 0
                          /\ undeclared'[n] = IF n \notin Orphans(stored) THEN 0
                                              ELSE IF undeclared[n] = grace_ticks THEN grace_ticks
                                                   ELSE undeclared[n] + 1
        BY <1>2 DEF declared_live_node_ids
    <2>3. \A n \in Nodes : marks[n] \in 0..grace_ticks /\ undeclared[n] \in 0..grace_ticks
        BY DEF FleetInv, FleetTypeOK
    <2>4. \A n \in Nodes : marks'[n] \in 0..grace_ticks /\ undeclared'[n] \in 0..grace_ticks
        BY <2>2, <2>3
    <2>5. FleetTypeOK'
        <3>1. /\ marks' = [n \in Nodes |-> marks'[n]]
              /\ undeclared' = [n \in Nodes |-> undeclared'[n]]
            BY <1>2 DEF declared_live_node_ids
        <3>2. marks' \in [Nodes -> 0..grace_ticks] /\ undeclared' \in [Nodes -> 0..grace_ticks]
            BY <2>4, <3>1
        <3>3. QED
            BY <1>2, <2>1, <3>2 DEF declared_live_node_ids, FleetInv, FleetTypeOK, cloud
    <2>6. MarksBacked'
        <3>1. queue' = Orphans(stored)
            BY <1>2 DEF declared_live_node_ids
        <3>2. \A n \in Nodes : marks[n] <= undeclared[n]
            BY DEF FleetInv, MarksBacked
        <3>3. \A n \in Nodes : marks'[n] <= undeclared'[n]
            BY <2>2, <2>3, <3>2
        <3>4. ASSUME NEW n \in queue' PROVE marks'[n] < undeclared'[n] \/ undeclared'[n] = grace_ticks
            <4>1. n \in Nodes /\ n \in Orphans(stored)
                BY <2>1, <3>1
            <4>2. QED
                BY <4>1, <2>2, <2>3, <3>2
        <3>5. QED
            BY <3>3, <3>4 DEF MarksBacked
    <2>7. QED
        BY <2>5, <2>6 DEF FleetInv
<1>3. CASE Report
    <2>1. \A n \in Nodes : marks'[n] = IF n \in swept THEN 0 ELSE marks[n]
        BY <1>3 DEF Report
    <2>2. FleetTypeOK'
        BY <1>3 DEF Report, FleetInv, FleetTypeOK, cloud
    <2>3. QED
        BY <1>3, <2>1, <2>2 DEF Report, FleetInv, FleetTypeOK, MarksBacked
<1>4. ASSUME NEW n \in queue, AdvanceMark(n) PROVE FleetInv'
    <2>1. n \in Nodes /\ marks[n] \in 0..grace_ticks /\ undeclared[n] \in 0..grace_ticks
        BY DEF FleetInv, FleetTypeOK
    <2>2. marks' = [marks EXCEPT ![n] = IF marks[n] = grace_ticks THEN marks[n] ELSE marks[n] + 1]
        BY <1>4 DEF AdvanceMark
    <2>3. marks'[n] \in 0..grace_ticks /\ marks'[n] <= undeclared[n]
        <3>1. marks \in [Nodes -> 0..grace_ticks]
            BY DEF FleetInv, FleetTypeOK
        <3>2. marks[n] <= undeclared[n] /\ (marks[n] < undeclared[n] \/ undeclared[n] = grace_ticks)
            BY <2>1 DEF FleetInv, MarksBacked
        <3>3. marks'[n] = IF marks[n] = grace_ticks THEN marks[n] ELSE marks[n] + 1
            BY <2>1, <2>2, <3>1
        <3>4. QED
            BY <2>1, <3>2, <3>3, NodeFleetAssumption
    <2>4. FleetTypeOK'
        <3>1. marks' \in [Nodes -> 0..grace_ticks]
            BY <2>1, <2>2, <2>3 DEF FleetInv, FleetTypeOK
        <3>2. instance' \in [Nodes -> {"absent", "running", "terminated"}] /\ swept' \subseteq Nodes
            BY <1>4, <2>1 DEF AdvanceMark, FleetInv, FleetTypeOK
        <3>3. QED
            BY <1>4, <3>1, <3>2 DEF AdvanceMark, FleetInv, FleetTypeOK
    <2>5. MarksBacked'
        BY <1>4, <2>1, <2>2, <2>3 DEF AdvanceMark, FleetInv, FleetTypeOK, MarksBacked
    <2>6. QED
        BY <2>4, <2>5 DEF FleetInv
<1>5. ASSUME NEW n \in queue, TerminateRefused(n) PROVE FleetInv'
    <2>1. n \in Nodes /\ marks[n] \in 0..grace_ticks /\ undeclared[n] \in 0..grace_ticks
        BY DEF FleetInv, FleetTypeOK
    <2>2. undeclared[n] = grace_ticks
        BY <1>5, <2>1 DEF TerminateRefused, FleetInv, MarksBacked
    <2>3. marks' = [marks EXCEPT ![n] = grace_ticks] /\ queue' = {} /\ undeclared' = undeclared
        BY <1>5 DEF TerminateRefused, EndTick
    <2>4. failures' \in 0..MaxFailures
        BY <1>5, FailuresBounded DEF TerminateRefused, FleetInv, FleetTypeOK
    <2>5. FleetTypeOK'
        BY <1>5, <2>3, <2>4 DEF TerminateRefused, EndTick, cloud, FleetInv, FleetTypeOK
    <2>6. QED
        BY <2>1, <2>2, <2>3, <2>5 DEF FleetInv, FleetTypeOK, MarksBacked
<1>6. CASE ReadFails
    <2>1. FleetTypeOK'
        BY <1>6, FailuresBounded DEF ReadFails, EndTick, cloud, FleetInv, FleetTypeOK
    <2>2. QED
        BY <1>6, <2>1, MarksKept DEF ReadFails, EndTick
<1>7. CASE Restart
    <2>1. FleetTypeOK'
        BY <1>7, FailuresBounded DEF Restart, EndTick, cloud, FleetInv, FleetTypeOK
    <2>2. QED
        BY <1>7, <2>1 DEF Restart, EndTick, FleetInv, FleetTypeOK, MarksBacked
<1>8. ASSUME NEW n \in Nodes,
             \/ request(n) \/ provision(n) \/ joined(n) \/ ready(n) \/ drain(n)
             \/ issue_termination(n) \/ abort(n)
             \/ \E witness \in Nodes : confirm_reaped(n, witness)
      PROVE  FleetInv'
    <2>1. \E from, next \in FaseNode : Advance(n, from, next)
        BY <1>8 DEF request, provision, joined, ready, drain, issue_termination, abort, confirm_reaped, FaseNode
    <2>2. QED
        BY <2>1, AdvanceInv
<1>9. ASSUME NEW n \in Nodes, RunInstance(n) \/ Stamp(n) \/ Terminated(n) \/ Commit(n) PROVE FleetInv'
    <2>1. UNCHANGED <<fase, tracker, failures, undeclared>>
          /\ tagged' \subseteq Nodes /\ stored' \subseteq Nodes
          /\ instance' \in [Nodes -> {"absent", "running", "terminated"}]
        BY <1>9 DEF RunInstance, Stamp, Terminated, Commit, FleetInv, FleetTypeOK
    <2>2. FleetTypeOK'
        BY <2>1 DEF FleetInv, FleetTypeOK, tracker
    <2>3. QED
        BY <2>1, <2>2, MarksKept DEF tracker
<1>10. CASE UNCHANGED fleet_vars
    BY <1>10, MarksKept DEF fleet_vars, cloud, tracker, FleetInv, FleetTypeOK
<1>11. QED
    BY <1>1, <1>2, <1>3, <1>4, <1>5, <1>6, <1>7, <1>8, <1>9, <1>10 DEF FleetNext, TrackerStep

\* Only AdvanceMark sweeps, and only what was unaccounted for long enough.
LEMMA SweepWaited ==
    ASSUME FleetInv, [FleetNext]_fleet_vars, NEW m \in Nodes, Sweeps(m)
    PROVE  undeclared[m] >= grace_ticks
<1>1. ASSUME NEW n \in queue, AdvanceMark(n) PROVE undeclared[m] >= grace_ticks
    <2>1. n \in Nodes /\ marks[n] \in 0..grace_ticks /\ undeclared[n] \in 0..grace_ticks
        BY DEF FleetInv, FleetTypeOK
    <2>2. marks'[n] = IF marks[n] = grace_ticks THEN marks[n] ELSE marks[n] + 1
        BY <1>1, <2>1 DEF AdvanceMark, FleetInv, FleetTypeOK
    <2>3. m = n /\ ~(marks'[n] < grace_ticks)
        BY <1>1 DEF AdvanceMark, Sweeps
    <2>4. QED
        BY <2>1, <2>2, <2>3, NodeFleetAssumption DEF FleetInv, MarksBacked
<1>2. ASSUME \/ observe_tagged_instances \/ declared_live_node_ids \/ Report \/ ReadFails \/ Restart
             \/ \E n \in queue : TerminateRefused(n)
             \/ UNCHANGED fleet_vars
      PROVE  FALSE
    BY <1>2 DEF observe_tagged_instances, declared_live_node_ids, Report, ReadFails, Restart,
                TerminateRefused, EndTick, fleet_vars, tracker, Sweeps
<1>3. ASSUME NEW n \in Nodes,
             \/ request(n) \/ provision(n) \/ joined(n) \/ ready(n) \/ drain(n)
             \/ issue_termination(n) \/ abort(n)
             \/ \E witness \in Nodes : confirm_reaped(n, witness)
             \/ RunInstance(n) \/ Stamp(n) \/ Terminated(n) \/ Commit(n)
      PROVE  FALSE
    BY <1>3 DEF request, provision, joined, ready, drain, issue_termination, abort, confirm_reaped, Advance,
                RunInstance, Stamp, Terminated, Commit, tracker, Sweeps
<1>4. QED
    BY <1>1, <1>2, <1>3 DEF FleetNext, TrackerStep

\* The sweep's debounce, for any nodes and any grace: whatever calls fail and
\* however often the process restarts, a terminated instance was unaccounted
\* for in at least grace_ticks ticks in a row.
THEOREM SweepsAfterGrace == FleetSpec => SweptAfterGrace
<1>1. FleetInv /\ [FleetNext]_fleet_vars
        => [\A n \in Nodes : Sweeps(n) => undeclared[n] >= grace_ticks]_fleet_vars
    BY SweepWaited
<1>2. QED
    BY <1>1, FleetInitInv, FleetNextInv, PTL DEF FleetSpec, SweptAfterGrace

-----------------------------------------------------------------------------
(***************************************************************************)
(* The promotion gate.                                                     *)
(***************************************************************************)
\* The window a band waits out began no earlier than its last recorded
\* blindness, and a verdict that rests on the window alone was given when it
\* was over.
WindowBacked ==
    /\ conditions.observable = "True" => age <= blind
    /\ /\ pc = "patch" /\ gate.state = "Live"
       /\ gate.witness \in {[kind |-> "ConfirmGatePassed"], [kind |-> "LegacyDefault", path |-> "ConfirmGate"]}
       => blind >= ConfirmAfter

SpecTyped == spec \in [intent : Intent, mode : Mode, confirmed : BOOLEAN, frozen : BOOLEAN,
                       suspended : BOOLEAN, config_ok : BOOLEAN]

GateInv == age \in Age /\ blind \in Age /\ SpecTyped /\ WindowBacked

\* No window has begun.
LEMMA GateInitInv == GateInit => GateInv
<1>1. GateInit => SpecTyped
    BY DEF GateInit, SpecTyped, Authored, Intent, Mode
<1>2. QED
    BY <1>1, PromotionGateAssumption DEF GateInit, GateInv, WindowBacked, Age

\* A verdict that rests on the window alone says that it has passed.
LEMMA VerdictNeedsWindow ==
    ASSUME SpecTyped, resolve_gate.state = "Live",
           resolve_gate.witness \in {[kind |-> "ConfirmGatePassed"],
                                     [kind |-> "LegacyDefault", path |-> "ConfirmGate"]}
    PROVE  conditions.observable = "True" /\ age >= ConfirmAfter
<1>1. confirm_gate = "Passed" => conditions.observable = "True" /\ age >= ConfirmAfter
    BY DEF confirm_gate
<1>2. confirm_gate = "OperatorConfirmed" <=> spec.confirmed
    BY DEF confirm_gate
<1>3. ~spec.frozen /\ parse(spec.intent) \in {"none", "calibrate", "write"}
    BY DEF resolve_gate, Held, parse, SpecTyped, Intent
<1>4. parse(spec.intent) # "write"
    BY <1>3 DEF resolve_gate, Allowed
<1>5. CASE parse(spec.intent) = "none"
    <2>1. resolve_gate = legacy
        BY <1>3, <1>5 DEF resolve_gate
    <2>2. spec.mode # "Effect" /\ confirm_gate \in {"OperatorConfirmed", "Passed"} /\ ~spec.confirmed
        BY <2>1 DEF legacy, legacy_path, Held, Allowed, SpecTyped, Mode
    <2>3. QED
        BY <1>1, <1>2, <2>2
<1>6. CASE parse(spec.intent) = "calibrate"
    BY <1>1, <1>3, <1>6 DEF resolve_gate, Held, Allowed
<1>7. QED
    BY <1>3, <1>4, <1>5, <1>6

\* Every step preserves the invariant.
LEMMA GateNextInv == GateInv /\ [GateNext]_gate_vars => GateInv'
<1> SUFFICES ASSUME GateInv, [GateNext]_gate_vars PROVE GateInv'
    OBVIOUS
<1> USE PromotionGateAssumption DEF Age
<1>0. SpecTyped'
    <2>1. CASE Operator
        <3>1. \A b \in BOOLEAN : (~b) \in BOOLEAN
            OBVIOUS
        <3>2. /\ (~spec.confirmed) \in BOOLEAN /\ (~spec.frozen) \in BOOLEAN
              /\ (~spec.suspended) \in BOOLEAN /\ (~spec.config_ok) \in BOOLEAN
            BY <3>1 DEF GateInv, SpecTyped
        <3>3. QED
            BY <2>1, <3>2 DEF Operator, GateInv, SpecTyped, Intent, Mode
    <2>2. CASE ~Operator
        BY <2>2 DEF GateNext, Reconcile, PatchStatus, PatchLost, Tick, HealthMoves, gate_vars, GateInv, SpecTyped
    <2>3. QED
        BY <2>1, <2>2
<1>1. CASE Reconcile
    <2>1. UNCHANGED <<conditions, age, blind>>
        BY <1>1 DEF Reconcile
    <2>2. CASE gate' = resolve_gate
        BY <1>0, <2>1, <2>2, VerdictNeedsWindow DEF GateInv, WindowBacked
    <2>3. CASE gate' = NoGate
        BY <1>0, <2>1, <2>3 DEF GateInv, WindowBacked, NoGate, Held
    <2>4. QED
        BY <1>1, <2>2, <2>3 DEF Reconcile
<1>2. CASE PatchStatus
    <2>1. pc' = "idle"
        BY <1>2 DEF PatchStatus, Done
    <2>2. blind' = IF receipt \in {"blind", "suspended"} THEN 0 ELSE blind
        BY <1>2 DEF PatchStatus
    <2>3. CASE receipt = "suspended"
        BY <1>0, <1>2, <2>1, <2>2, <2>3 DEF PatchStatus, conditions_for, GateInv, WindowBacked
    <2>4. CASE receipt = "badConfig"
        BY <1>0, <1>2, <2>1, <2>2, <2>4 DEF PatchStatus, conditions_for, GateInv, WindowBacked
    <2>5. CASE receipt \notin {"suspended", "badConfig"}
        <3>1. upsert_condition(Observable)
            BY <1>2, <2>5 DEF PatchStatus, conditions_for
        <3>2. CASE receipt = "blind"
            BY <1>0, <2>1, <2>2, <3>1, <3>2 DEF upsert_condition, Upserted, Observable, GateInv, WindowBacked
        <3>3. CASE receipt # "blind"
            BY <1>0, <2>1, <2>2, <2>5, <3>1, <3>3 DEF upsert_condition, Upserted, Observable, GateInv, WindowBacked
        <3>4. QED
            BY <3>2, <3>3
    <2>6. QED
        BY <2>3, <2>4, <2>5
<1>3. CASE PatchLost
    BY <1>0, <1>3 DEF PatchLost, Done, GateInv, WindowBacked
<1>4. CASE Tick
    BY <1>0, <1>4 DEF Tick, tick, Older, GateInv, WindowBacked
<1>5. CASE HealthMoves \/ Operator \/ UNCHANGED gate_vars
    BY <1>0, <1>5 DEF HealthMoves, Operator, gate_vars, tick, GateInv, WindowBacked
<1>6. QED
    BY <1>1, <1>2, <1>3, <1>4, <1>5 DEF GateNext

\* The promotion window, for any confirm_after_seconds: a band whose status
\* recorded it blind or suspended writes on its own authority only a whole
\* window later, whatever edits, health and lost patches come between.
THEOREM WindowWaitedOut == GateSpec => []WindowAfterBlindness
<1>1. GateInv => WindowAfterBlindness
    BY DEF GateInv, WindowBacked, WindowAfterBlindness, SelfPromoted
<1>2. QED
    BY <1>1, GateInitInv, GateNextInv, PTL DEF GateSpec

-----------------------------------------------------------------------------
(***************************************************************************)
(* The health of a band.                                                   *)
(***************************************************************************)
\* The conditions whose age can make a band stuck.
Unwell(cond, c) == IF c = "Conflict" THEN cond[c] = "True" ELSE cond[c] = "False"

\* StuckEarned speaks of the label alone: no condition that can set it has
\* lasted longer than the band has been without rest.
HealthInv ==
    /\ ages \in [Timed -> 0..StuckAfter] /\ unrest \in 0..StuckAfter
    /\ \A c \in Timed : Unwell(recorded, c) => ages[c] <= unrest
    /\ StuckEarned

\* A band at rest is unwell in nothing, and only what is unwell makes it
\* stuck.
LEMMA StuckIsUnwell ==
    /\ \A c \in Timed : ~Unwell(ConditionsOf("rest"), c)
    /\ \A r, dry_run : health_verdict(r, dry_run) = "Stuck" =>
         \E c \in Timed : Unwell(ConditionsOf(r), c) /\ seconds_since(r)[c] >= StuckAfter
<1>1. \A c \in Timed : ~Unwell(ConditionsOf("rest"), c)
    BY DEF Timed, Unwell, ConditionsOf, Condition
<1>2. ASSUME NEW r, NEW dry_run, health_verdict(r, dry_run) = "Stuck"
      PROVE  \E c \in Timed : Unwell(ConditionsOf(r), c) /\ seconds_since(r)[c] >= StuckAfter
    BY <1>2 DEF health_verdict, Timed, Unwell
<1>3. QED
    BY <1>1, <1>2

\* Every step keeps the ages within the unrest.
LEMMA HealthNextInv == ASSUME HealthInv, [HealthNext]_health_vars PROVE HealthInv'
<1>0. /\ ages \in [Timed -> 0..StuckAfter] /\ unrest \in 0..StuckAfter /\ StuckAfter \in Nat \ {0}
      /\ \A c \in Timed : Unwell(recorded, c) => ages[c] <= unrest
      /\ label = "Stuck" => unrest >= StuckAfter
    BY BandHealthAssumption DEF HealthInv, StuckEarned
<1>1. CASE JudgeTick \/ HealthPatchLost \/ OutcomeMoves \/ UNCHANGED health_vars
    <2>1. UNCHANGED <<recorded, ages, label, unrest>>
        BY <1>1 DEF JudgeTick, HealthPatchLost, OutcomeMoves, health_vars
    <2>2. QED
        BY <1>0, <2>1 DEF HealthInv, StuckEarned, Unwell
<1>2. CASE HealthPatched
    <2>1. /\ recorded' = ConditionsOf(outcome) /\ ages' = seconds_since(outcome)
          /\ label' = IF outcome = "suspended" THEN label ELSE health_verdict(outcome, shadow)
          /\ unrest' = IF outcome = "rest" THEN 0 ELSE unrest
        BY <1>2 DEF HealthPatched
    <2>2. ages' \in [Timed -> 0..StuckAfter] /\ unrest' \in 0..StuckAfter
        BY <1>0, <2>1 DEF seconds_since
    <2>3. ASSUME NEW c \in Timed, Unwell(recorded', c) PROVE ages'[c] <= unrest'
        <3>1. outcome # "rest" /\ unrest' = unrest
            BY <2>1, <2>3, StuckIsUnwell
        <3>2. CASE recorded'[c] = recorded[c]
            <4>1. Unwell(recorded, c) /\ ages'[c] = ages[c]
                BY <2>1, <2>3, <3>2 DEF Unwell, seconds_since
            <4>2. QED
                BY <1>0, <3>1, <4>1
        <3>3. CASE recorded'[c] # recorded[c]
            <4>1. ages'[c] = 0
                BY <2>1, <3>3 DEF seconds_since
            <4>2. QED
                BY <1>0, <3>1, <4>1
        <3>4. QED
            BY <3>2, <3>3
    <2>4. ASSUME label' = "Stuck" PROVE unrest' >= StuckAfter
        <3>1. CASE outcome = "suspended"
            BY <1>0, <2>1, <2>4, <3>1
        <3>2. CASE outcome # "suspended"
            <4>1. PICK c \in Timed : Unwell(recorded', c) /\ ages'[c] >= StuckAfter
                BY <2>1, <2>4, <3>2, StuckIsUnwell
            <4>2. ages'[c] <= unrest' /\ ages'[c] \in Int /\ unrest' \in Int /\ StuckAfter \in Int
                BY <1>0, <2>2, <2>3, <4>1
            <4>3. QED
                BY <4>1, <4>2
        <3>3. QED
            BY <3>1, <3>2
    <2>5. QED
        BY <2>2, <2>3, <2>4 DEF HealthInv, StuckEarned, Unwell
<1>3. CASE HealthSecond
    <2> DEFINE Later(n) == IF n < StuckAfter THEN n + 1 ELSE n
    <2>1. ages' = [c \in Timed |-> Later(ages[c])] /\ unrest' = Later(unrest) /\ UNCHANGED <<recorded, label>>
        BY <1>3 DEF HealthSecond
    <2>2. \A n \in 0..StuckAfter : Later(n) \in 0..StuckAfter
        BY <1>0
    <2>3. \A m, n \in 0..StuckAfter : m <= n => Later(m) <= Later(n)
        BY <1>0
    <2>4. unrest >= StuckAfter => Later(unrest) >= StuckAfter
        BY <1>0
    <2> HIDE DEF Later
    <2>5. ages' \in [Timed -> 0..StuckAfter] /\ unrest' \in 0..StuckAfter
        BY <1>0, <2>1, <2>2
    <2>6. \A c \in Timed : Unwell(recorded, c) => ages'[c] <= unrest'
        BY <1>0, <2>1, <2>3
    <2>7. QED
        BY <1>0, <2>1, <2>4, <2>5, <2>6 DEF HealthInv, StuckEarned, Unwell
<1>4. QED
    BY <1>1, <1>2, <1>3 DEF HealthNext

\* For every threshold, no band is called stuck that was recorded at rest
\* within it, through suspensions, lost patches, shadow and outages.
THEOREM StuckIsEarned == HealthSpec => []StuckEarned
<1>1. ASSUME HealthInit PROVE HealthInv
    <2>0. 0 \in 0..StuckAfter
        BY BandHealthAssumption
    <2>1. ages = [c \in Timed |-> 0] /\ unrest = 0
        BY <1>1, Zenon DEF HealthInit
    <2>2. ASSUME NEW c \in Timed PROVE ~Unwell(recorded, c)
        <3>1. recorded[c] = "absent"
            BY <1>1, <2>2 DEF HealthInit, Timed, Condition
        <3>2. QED
            BY <3>1 DEF Unwell
    <2>3. label # "Stuck"
        BY <1>1 DEF HealthInit
    <2>4. QED
        BY <2>0, <2>1, <2>2, <2>3 DEF HealthInv, StuckEarned
<1>2. HealthInv => StuckEarned
    BY DEF HealthInv
<1>3. QED
    BY <1>1, <1>2, HealthNextInv, PTL DEF HealthSpec

-----------------------------------------------------------------------------
(***************************************************************************)
(* The verdict on a node.                                                  *)
(***************************************************************************)
\* The reading held across ticks is of the past.
WasteInv == load \in Seq(BOOLEAN) /\ prev \in Int /\ -1 <= prev /\ prev <= Len(load)

\* A node whose busy intervals since a reading are too few to matter has an
\* interval without work.
LEMMA QuietInterval ==
    ASSUME WasteInv, prev # -1, prev < Len(load), Busy(prev) * Dilution < Len(load) - prev
    PROVE  \E i \in (prev + 1)..Len(load) : ~load[i]
<1> SUFFICES ASSUME \A i \in (prev + 1)..Len(load) : load[i] PROVE FALSE
    OBVIOUS
<1>1. Len(load) \in Nat /\ prev \in Nat /\ Dilution \in Nat /\ Dilution >= 1
    BY WasteAssumption, LenProperties DEF WasteInv
<1>2. {i \in (prev + 1)..Len(load) : load[i]} = (prev + 1)..Len(load)
    OBVIOUS
<1>3. Cardinality((prev + 1)..Len(load)) = Len(load) - prev
    <2>1. prev + 1 \in Int /\ Len(load) \in Int /\ ~(prev + 1 > Len(load))
        BY <1>1
    <2>2. Cardinality((prev + 1)..Len(load)) = Len(load) - (prev + 1) + 1
        BY <2>1, FS_Interval
    <2>3. QED
        BY <1>1, <2>2
<1>4. Busy(prev) = Len(load) - prev
    BY <1>2, <1>3, Zenon DEF Busy
<1>5. (Len(load) - prev) * Dilution >= Len(load) - prev
    <2> DEFINE n == Len(load) - prev
    <2>1. n \in Nat
        BY <1>1
    <2> HIDE DEF n
    <2>2. n * Dilution >= n
        BY <1>1, <2>1
    <2>3. QED
        BY <2>2 DEF n
<1>6. QED
    BY <1>1, <1>4, <1>5

\* Every step keeps the reading in the past.
LEMMA WasteNextInv == ASSUME WasteInv, [WasteNext]_waste_vars PROVE WasteInv'
<1>0. load \in Seq(BOOLEAN) /\ prev \in Int /\ -1 <= prev /\ prev <= Len(load) /\ Len(load) \in Nat
    BY LenProperties DEF WasteInv
<1>1. CASE WasteTick \/ ReporterRestarts \/ PodsMove \/ UNCHANGED waste_vars
    <2>1. load' = load /\ prev' \in {-1, prev, Len(load)}
        BY <1>1 DEF WasteTick, ReporterRestarts, PodsMove, waste_vars
    <2>2. QED
        BY <1>0, <2>1 DEF WasteInv
<1>2. CASE Interval
    <2>1. PICK busy_now \in BOOLEAN : load' = Append(load, busy_now) /\ prev' = prev
        BY <1>2 DEF Interval
    <2>2. load' \in Seq(BOOLEAN) /\ Len(load') = Len(load) + 1
        BY <1>0, <2>1, AppendProperties
    <2>3. QED
        BY <1>0, <2>1, <2>2 DEF WasteInv
<1>3. QED
    BY <1>1, <1>2 DEF WasteNext

\* An idle verdict of a tick rests on a known usage.
LEMMA IdleTick ==
    ASSUME WasteInv, WasteTick, verdict'.is = "idle", verdict' # verdict
    PROVE  /\ Len(load) > Grace /\ ~resident
           /\ \E i \in (verdict'.since + 1)..Len(load) : ~load[i]
<1>1. PICK cpu_read \in BOOLEAN, mem_read \in BOOLEAN, node_ok \in BOOLEAN :
         verdict' = [is |-> classify(held, UsageOf(cpu_read, mem_read), IF node_ok THEN Len(load) ELSE 0),
                     since |-> UsageOf(cpu_read, mem_read).since]
    BY DEF WasteTick
<1> DEFINE usage == UsageOf(cpu_read, mem_read)
           old   == IF node_ok THEN Len(load) ELSE 0
<1>2. classify(held, usage, old) = "idle" /\ verdict'.since = usage.since
    BY <1>1
<1>3. usage.known /\ usage.low /\ old > Grace
    BY <1>2 DEF classify, looks_idle
<1>4. /\ prev # -1 /\ prev < Len(load) /\ usage.since = prev
      /\ ~resident /\ Busy(prev) * Dilution < Len(load) - prev
    BY <1>3 DEF UsageOf, NoUsage
<1>5. Len(load) > Grace
    BY <1>3, WasteAssumption
<1>6. QED
    BY <1>2, <1>4, <1>5, QuietInterval

\* For any pods, grace period and dilution, a node is called idle only on a
\* measured window with an interval without work in it, whatever readings
\* failed, ticks were skipped and agents restarted before.
THEOREM IdleIsEarned == WasteSpec => IdleIsMeasured
<1>1. WasteInit => WasteInv
    BY DEF WasteInit, WasteInv
<1>2. WasteInv /\ [WasteNext]_waste_vars => WasteInv'
    BY WasteNextInv
<1>3. WasteInv /\ [WasteNext]_waste_vars =>
        [verdict'.is = "idle" /\ verdict' # verdict =>
          /\ Len(load) > Grace /\ ~resident
          /\ \E i \in (verdict'.since + 1)..Len(load) : ~load[i]]_waste_vars
    <2> SUFFICES ASSUME WasteInv, WasteNext, verdict'.is = "idle", verdict' # verdict
                 PROVE  /\ Len(load) > Grace /\ ~resident
                        /\ \E i \in (verdict'.since + 1)..Len(load) : ~load[i]
        OBVIOUS
    <2>1. WasteTick
        BY DEF WasteNext, ReporterRestarts, Interval, PodsMove
    <2>2. QED
        BY <2>1, IdleTick
<1>4. QED
    BY <1>1, <1>2, <1>3, PTL DEF WasteSpec, IdleIsMeasured
=============================================================================
