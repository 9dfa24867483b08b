------------------------------ MODULE Semaphore ------------------------------
(***************************************************************************)
(* What the bulkhead of breathe-lifecycle promises its callers             *)
(* (breaker.rs, Bulkhead): a counting semaphore.  A permit is taken or     *)
(* given back in one step, and one is taken only where fewer than capacity *)
(* are out.                                                                *)
(***************************************************************************)
EXTENDS Naturals, FiniteSets

CONSTANTS Threads, capacity

VARIABLE holders    \* the threads that hold a permit

Init == holders = {}

Acquire(t) ==
    /\ t \notin holders /\ Cardinality(holders) < capacity
    /\ holders' = holders \cup {t}

Release(t) ==
    /\ t \in holders
    /\ holders' = holders \ {t}

Next == \E t \in Threads : Acquire(t) \/ Release(t)

Spec == Init /\ [][Next]_holders
=============================================================================
