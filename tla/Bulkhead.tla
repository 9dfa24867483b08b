------------------------------ MODULE Bulkhead ------------------------------
(***************************************************************************)
(* The bulkhead of breathe-lifecycle (breaker.rs, layer 1): a pool of      *)
(* capacity permits behind one atomic counter, used by any number of       *)
(* threads at once.  try_acquire is a load followed by a compare-exchange  *)
(* loop, and the weak compare-exchange may fail for no reason; every       *)
(* access to the counter is a step of its own here.                        *)
(***************************************************************************)
EXTENDS Naturals, FiniteSets

CONSTANTS Threads, capacity

ASSUME BulkheadAssumption == IsFiniteSet(Threads) /\ capacity \in Nat

VARIABLES
    outstanding,   \* the shared counter
    at,            \* per thread: "idle", "cas" (inside try_acquire), "permit"
                   \* (holds a Permit), "authorized" (holds an
                   \* AuthorizedProvision), "inner" (holds the bare payload)
    cur            \* per thread: the counter as try_acquire last read it

bulkhead_vars == <<outstanding, at, cur>>

PC == {"idle", "cas", "permit", "authorized", "inner"}

BulkheadTypeOK ==
    /\ outstanding \in Nat
    /\ at \in [Threads -> PC]
    /\ cur \in [Threads -> Nat]

BulkheadInit ==
    /\ outstanding = 0
    /\ at = [t \in Threads |-> "idle"]
    /\ cur = [t \in Threads |-> 0]

Goto(t, l) == at' = [at EXCEPT ![t] = l]

Load(t) ==
    /\ at[t] = "idle"
    /\ cur' = [cur EXCEPT ![t] = outstanding]
    /\ Goto(t, "cas")
    /\ UNCHANGED outstanding

AtCapacity(t) ==
    /\ at[t] = "cas" /\ cur[t] >= capacity
    /\ Goto(t, "idle")
    /\ UNCHANGED <<outstanding, cur>>

\* Mutant: the slot is taken whatever the counter has become meanwhile.
Exchange_stored(t) ==
    /\ at[t] = "cas" /\ cur[t] < capacity
    /\ outstanding' = cur[t] + 1
    /\ Goto(t, "permit")
    /\ UNCHANGED cur

Exchange(t) ==
    /\ at[t] = "cas" /\ cur[t] < capacity
    /\ outstanding = cur[t]
    /\ outstanding' = cur[t] + 1
    /\ Goto(t, "permit")
    /\ UNCHANGED cur

\* The counter moved, or the weak exchange failed spuriously: look again.
ExchangeFails(t) ==
    /\ at[t] = "cas" /\ cur[t] < capacity
    /\ cur' = [cur EXCEPT ![t] = outstanding]
    /\ UNCHANGED <<outstanding, at>>

try_acquire(t) == Load(t) \/ AtCapacity(t) \/ Exchange(t) \/ ExchangeFails(t)

\* Permit::authorize moves the permit into the provision.
authorize(t) ==
    /\ at[t] = "permit"
    /\ Goto(t, "authorized")
    /\ UNCHANGED <<outstanding, cur>>

\* Dropping a Permit, bare or inside an AuthorizedProvision.
drop(t) ==
    /\ at[t] \in {"permit", "authorized"}
    /\ outstanding' = outstanding - 1
    /\ Goto(t, "idle")
    /\ UNCHANGED cur

\* Mutant: the permit is forgotten instead of dropped.
into_inner_forgetting(t) ==
    /\ at[t] = "authorized"
    /\ Goto(t, "inner")
    /\ UNCHANGED <<outstanding, cur>>

\* into_inner keeps the payload and drops the permit with the rest.
into_inner(t) ==
    /\ at[t] = "authorized"
    /\ outstanding' = outstanding - 1
    /\ Goto(t, "inner")
    /\ UNCHANGED cur

\* The caller is done with the payload it took out.
Finish(t) ==
    /\ at[t] = "inner"
    /\ Goto(t, "idle")
    /\ UNCHANGED <<outstanding, cur>>

BulkheadNext == \E t \in Threads :
            try_acquire(t) \/ authorize(t) \/ drop(t) \/ into_inner(t) \/ Finish(t)

BulkheadSpec == BulkheadInit /\ [][BulkheadNext]_bulkhead_vars

-----------------------------------------------------------------------------
Holders == {t \in Threads : at[t] \in {"permit", "authorized"}}

\* The counter is exactly the number of live permits: each slot is taken
\* once and freed once, on every interleaving of acquire and drop.
SlotsCounted == outstanding = Cardinality(Holders)

\* Never more than capacity permits at once, however many threads race
\* through try_acquire.
PermitsBounded == Cardinality(Holders) <= capacity

Permits == INSTANCE Semaphore WITH holders <- Holders

\* To its callers the bulkhead is a counting semaphore: the load and the
\* retried weak compare-exchange of try_acquire take one slot in one step or
\* none, and dropping a permit, bare or inside a provision, gives back one.
PermitsAtomic == Permits!Spec
=============================================================================
