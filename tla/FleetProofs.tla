----------------------------- MODULE FleetProofs -----------------------------
(***************************************************************************)
(* What is kept of a database, of a band's counters and of the pods of a   *)
(* band, for every instance: replicas and overlays, decisions and faults,  *)
(* pods and templates.                                                     *)
(***************************************************************************)
EXTENDS PodResize, DatabaseFailover, DecisionLog, BandLawProofs,
        FiniteSetTheorems, SequenceTheorems, TLAPS

(***************************************************************************)
(* The database.                                                           *)
(***************************************************************************)
Promotion == [candidate : Replicas \cup {0}, attempt : Nat, done : BOOLEAN]

\* The signal the shell carries and the promotions begun under it.
SignalTyped ==
    /\ signals_seen \in Nat
    /\ fsignal \in [primary : Replicas \cup {0}, candidate : Replicas \cup {0}, attempt : Nat]
    /\ promotions \subseteq Promotion
    /\ members \subseteq Replicas /\ primary \in Replicas
    /\ fstate \in FailoverState
    /\ fstate # "Steady" => fsignal.candidate # fsignal.primary

\* One promotion at a time, the one the machine waits for, and once the engine
\* has acted its candidate is the primary.
PromotionUnderWay ==
    /\ \A p \in promotions : /\ fstate = "PromotingReplica" /\ p.candidate = fsignal.candidate
                             /\ p.done => primary = fsignal.candidate
    /\ \A p, q \in promotions : p = q

\* Only a primary that was replaced is drained.
DrainsReplaced ==
    draining # {} => fstate = "FailedOver" /\ draining = {fsignal.primary} /\ primary = fsignal.candidate

\* The property says nothing of the promotion that is under way, which is what
\* a drained node has to wait for.
DatabaseInv ==
    SignalTyped /\ (~withdrawn => PromotionUnderWay /\ DrainsReplaced /\ PrimaryKept)

\* No signal has come.
LEMMA DatabaseInitInv == DatabaseInit => DatabaseInv
<1> SUFFICES ASSUME DatabaseInit PROVE DatabaseInv
    OBVIOUS
<1>1. primary \in members /\ members \subseteq Replicas
    <2>1. members \subseteq Replicas /\ members # {} /\ primary = CHOOSE r \in members : TRUE
        BY DEF DatabaseInit
    <2>2. \E r \in members : TRUE
        BY <2>1
    <2>3. QED
        BY <2>1, <2>2
<1>2. QED
    BY <1>1 DEF DatabaseInit, DatabaseInv, SignalTyped, PromotionUnderWay, DrainsReplaced,
                PrimaryKept, FailoverState

\* The machine's answer to an event, edge by edge.
LEMMA FailoverEdges ==
    ASSUME NEW s \in FailoverState, NEW event
    PROVE  /\ failover_step(s, event)[1] \in FailoverState
           /\ event = "PrimaryReclaimSignal" =>
                failover_step(s, event) = IF s = "Steady" THEN <<"PrimaryReclaimSignaled", "Hold">>
                                          ELSE <<s, "Illegal">>
           /\ event = "PromotionSucceeded" =>
                failover_step(s, event) = IF s = "PromotingReplica" THEN <<"FailedOver", "ReclaimOldPrimary">>
                                          ELSE <<s, "Illegal">>
           /\ event = "OldPrimaryDrained" =>
                failover_step(s, event) = IF s = "FailedOver" THEN <<"OldPrimaryReclaimed", "Hold">>
                                          ELSE <<s, "Illegal">>
           /\ event = "ReclaimCleared" => failover_step(s, event) = <<"Steady", "Hold">>
           /\ event = "PromotableTargetAvailable" /\ s \in {"PrimaryReclaimSignaled", "ReclaimBlocked"} =>
                failover_step(s, event) = <<"PromotingReplica", "PromoteReplica">>
           /\ event = "NoPromotableTarget" /\ s \in {"PrimaryReclaimSignaled", "ReclaimBlocked"} =>
                failover_step(s, event) = IF s = "PrimaryReclaimSignaled"
                                          THEN <<"ReclaimBlocked", "BlockReclaimEscalate">>
                                          ELSE <<s, "Illegal">>
BY DEF failover_step, FailoverState

\* A promotion that begins, and one the engine has carried out.
LEMMA PromotionRecord ==
    /\ \A c \in Replicas \cup {0}, a \in Nat :
         \E r \in Promotion : /\ r = [candidate |-> c, attempt |-> a, done |-> FALSE]
                             /\ r.candidate = c /\ r.attempt = a /\ ~r.done
    /\ \A p \in Promotion :
         \E r \in Promotion : /\ r = [p EXCEPT !.done = TRUE]
                             /\ r.candidate = p.candidate /\ r.attempt = p.attempt /\ r.done
<1>1. ASSUME NEW c \in Replicas \cup {0}, NEW a \in Nat
      PROVE  /\ [candidate |-> c, attempt |-> a, done |-> FALSE] \in Promotion
             /\ ~[candidate |-> c, attempt |-> a, done |-> FALSE].done
    BY Zenon DEF Promotion
<1>2. ASSUME NEW p \in Promotion
      PROVE  [p EXCEPT !.done = TRUE] \in Promotion /\ [p EXCEPT !.done = TRUE].done
    BY Zenon DEF Promotion
<1>3. ASSUME NEW p \in Promotion
      PROVE  [p EXCEPT !.done = TRUE].candidate = p.candidate /\ [p EXCEPT !.done = TRUE].attempt = p.attempt
    BY DEF Promotion
<1>4. QED
    BY <1>1, <1>2, <1>3

\* Every step preserves the invariant.
LEMMA DatabaseNextInv ==
    ASSUME DatabaseInv, [DatabaseNext]_database_vars
    PROVE  DatabaseInv'
<1> USE DEF DatabaseInv, SignalTyped, PromotionUnderWay, DrainsReplaced, PrimaryKept, Promotion
<1>1. ASSUME NEW c \in Replicas, PrimaryReclaimSignal(c) PROVE DatabaseInv'
    <2>1. CASE fstate = "Steady"
        <3>1. /\ fstate' = "PrimaryReclaimSignaled" /\ promotions' = promotions /\ draining' = draining
              /\ fsignal' = [primary |-> primary, candidate |-> c, attempt |-> signals_seen + 1]
              /\ signals_seen' = signals_seen + 1 /\ c # primary
              /\ UNCHANGED <<members, primary, withdrawn>>
            BY <1>1, <2>1, FailoverEdges DEF PrimaryReclaimSignal, on
        <3>2. QED
            BY <2>1, <3>1 DEF FailoverState
    <2>2. CASE fstate # "Steady"
        <3>1. UNCHANGED <<fstate, promotions, draining, fsignal, members, primary, withdrawn>>
              /\ signals_seen' = signals_seen + 1
            BY <1>1, <2>2, FailoverEdges DEF PrimaryReclaimSignal, on
        <3>2. QED
            BY <3>1
    <2>3. QED
        BY <2>1, <2>2
<1>2. CASE Discover
    <2>1. /\ fstate \in {"PrimaryReclaimSignaled", "ReclaimBlocked"}
          /\ UNCHANGED <<members, primary, fsignal, signals_seen, withdrawn>>
        BY <1>2 DEF Discover
    <2>2. CASE has_failover_target(discover_topology(engine, members))
        <3>1. /\ fstate' = "PromotingReplica" /\ draining' = draining
              /\ promotions' = promotions \cup {[candidate |-> fsignal.candidate, attempt |-> fsignal.attempt,
                                                 done |-> FALSE]}
            BY <1>2, <2>1, <2>2, FailoverEdges DEF Discover, on
        <3>2. ~withdrawn => draining = {} /\ promotions = {}
            BY <2>1
        <3>3. PICK r \in Promotion : /\ promotions' = promotions \cup {r}
                                     /\ r.candidate = fsignal.candidate /\ ~r.done
            <4> HIDE DEF Promotion
            <4>1. fsignal.candidate \in Replicas \cup {0} /\ fsignal.attempt \in Nat
                OBVIOUS
            <4>2. \A c \in Replicas \cup {0}, a \in Nat :
                    \E r \in Promotion : /\ r = [candidate |-> c, attempt |-> a, done |-> FALSE]
                                        /\ r.candidate = c /\ r.attempt = a /\ ~r.done
                BY PromotionRecord
            <4>3. PICK r \in Promotion :
                    /\ r = [candidate |-> fsignal.candidate, attempt |-> fsignal.attempt, done |-> FALSE]
                    /\ r.candidate = fsignal.candidate /\ r.attempt = fsignal.attempt /\ ~r.done
                BY <4>1, <4>2
            <4>4. QED
                BY <3>1, <4>3
        <3>4. QED
            BY <2>1, <3>1, <3>2, <3>3 DEF FailoverState
    <2>3. CASE ~has_failover_target(discover_topology(engine, members))
        <3>1. fstate' = "ReclaimBlocked" /\ draining' = draining /\ promotions' = promotions
            BY <1>2, <2>1, <2>3, FailoverEdges DEF Discover, on
        <3>2. QED
            BY <2>1, <3>1 DEF FailoverState
    <2>4. QED
        BY <2>2, <2>3
<1>3. CASE EnginePromotes
    <2>1. PICK p \in promotions :
            /\ ~p.done /\ p.candidate \in members
            /\ primary' = p.candidate
            /\ promotions' = (promotions \ {p}) \cup {[p EXCEPT !.done = TRUE]}
            /\ UNCHANGED <<members, fstate, fsignal, draining, signals_seen, withdrawn>>
        BY <1>3 DEF EnginePromotes
    <2>2. PICK r \in Promotion : /\ promotions' = (promotions \ {p}) \cup {r}
                                 /\ r.candidate = p.candidate /\ r.done
        <3> HIDE DEF Promotion
        <3>1. p \in Promotion
            OBVIOUS
        <3>2. PICK r \in Promotion : /\ r = [p EXCEPT !.done = TRUE]
                                     /\ r.candidate = p.candidate /\ r.attempt = p.attempt /\ r.done
            BY <3>1, PromotionRecord, Zenon
        <3>3. QED
            BY <2>1, <3>2
    <2>3. primary' \in Replicas
        BY <2>1
    <2>4. SignalTyped'
        BY <2>1, <2>2, <2>3
    <2>5. ASSUME ~withdrawn
          PROVE  (PromotionUnderWay /\ DrainsReplaced /\ PrimaryKept)'
        <3>1. /\ fstate = "PromotingReplica" /\ p.candidate = fsignal.candidate
              /\ draining = {} /\ promotions = {p}
            BY <2>1, <2>5
        <3>2. promotions' = {r}
            BY <2>2, <3>1
        <3>3. QED
            BY <2>1, <2>2, <3>1, <3>2
    <2>6. QED
        BY <2>1, <2>4, <2>5
<1>4. CASE PromotionSucceeded
    <2>1. PICK p \in promotions :
            /\ p.done
            /\ fstate' = failover_step(fstate, "PromotionSucceeded")[1] /\ promotions' = promotions \ {p}
            /\ draining' = IF failover_step(fstate, "PromotionSucceeded")[2] = "ReclaimOldPrimary"
                           THEN draining \cup {fsignal.primary} ELSE draining
            /\ UNCHANGED <<members, primary, fsignal, signals_seen, withdrawn>>
        BY <1>4 DEF PromotionSucceeded
    <2>2. CASE fstate # "PromotingReplica"
        <3>1. fstate' = fstate /\ draining' = draining
            BY <2>1, <2>2, FailoverEdges
        <3>2. QED
            BY <2>1, <3>1
    <2>3. CASE fstate = "PromotingReplica"
        <3>1. fstate' = "FailedOver" /\ draining' = draining \cup {fsignal.primary}
            BY <2>1, <2>3, FailoverEdges
        <3>2. ~withdrawn => draining = {} /\ primary = fsignal.candidate /\ promotions' = {}
            BY <2>1, <2>3
        <3>3. QED
            BY <2>1, <2>3, <3>1, <3>2 DEF FailoverState
    <2>4. QED
        BY <2>2, <2>3
<1>5. CASE OldPrimaryDrained
    <2>1. PICK n \in draining :
            /\ draining' = draining \ {n} /\ members' = members \ {n}
            /\ fstate' = failover_step(fstate, "OldPrimaryDrained")[1]
            /\ UNCHANGED <<primary, fsignal, promotions, signals_seen, withdrawn>>
        BY <1>5 DEF OldPrimaryDrained
    <2>2. fstate' \in FailoverState /\ (fstate' # "Steady" => fstate # "Steady")
        BY <2>1, FailoverEdges
    <2>3. ~withdrawn => fstate = "FailedOver" /\ n = fsignal.primary /\ primary # n
        BY <2>1
    <2>4. ~withdrawn => draining' = {} /\ promotions = {}
        BY <2>1, <2>3
    <2>5. QED
        BY <2>1, <2>2, <2>3, <2>4
<1>6. CASE ReclaimCleared
    <2>1. /\ fstate' = "Steady" /\ withdrawn' = (withdrawn \/ promotions # {} \/ draining # {})
          /\ UNCHANGED <<members, primary, fsignal, promotions, draining, signals_seen>>
        BY <1>6, FailoverEdges DEF ReclaimCleared
    <2>2. QED
        BY <2>1 DEF FailoverState
<1>7. CASE ScaleReplicas \/ MemberFlaps
    <2>1. UNCHANGED <<primary, fstate, fsignal, promotions, draining, signals_seen, withdrawn>>
        BY <1>7 DEF ScaleReplicas, MemberFlaps
    <2>2. members' \subseteq Replicas /\ (primary \in members => primary \in members')
        BY <1>7 DEF ScaleReplicas, MemberFlaps
    <2>3. QED
        BY <2>1, <2>2
<1>8. CASE UNCHANGED database_vars
    BY <1>8 DEF database_vars
<1>9. QED
    BY <1>1, <1>2, <1>3, <1>4, <1>5, <1>6, <1>7, <1>8 DEF DatabaseNext

\* The writable primary is not given up, for any replicas, engines and overrides
\* and any number of notices: on every interleaving of notices, blocked
\* reclaims, promotions, answers and lost members, up to the first notice that
\* is withdrawn while the promotion or the drain it had begun is under way.
\* After that the machine can give the primary up (run late_promotion).
THEOREM PrimaryIsKept == DatabaseSpec => []PrimaryKeptUnlessWithdrawn
<1>1. DatabaseInv /\ [DatabaseNext]_database_vars => DatabaseInv'
    BY DatabaseNextInv
<1>2. DatabaseInv => PrimaryKeptUnlessWithdrawn
    BY DEF DatabaseInv, PrimaryKeptUnlessWithdrawn
<1>3. QED
    BY <1>1, <1>2, DatabaseInitInv, PTL DEF DatabaseSpec

(***************************************************************************)
(* The counters of a band.                                                 *)
(***************************************************************************)
Counters == [Counted -> Nat]

LogTyped ==
    /\ dfirst \in Counters /\ dlogged \in Counters
    /\ dregistry \in [known : BOOLEAN, counters : Counters]
    /\ dstatus \in [now : Counters, before : Counters]
    /\ dgate \in [known : BOOLEAN, entry : Counted \cup NoCounts, age : Int, counters : Counters]
    /\ dtick \in [at : {"idle", "append", "patch"}, entry : Counted \cup NoCounts,
                  view : Counters, counters : Counters]
    /\ dmade \in [all : Nat, refused : Nat, changes : Nat]
    /\ dstanding \in NoCounts

\* What the log backs: the counters the band came with and its rows.
Backed(counters) == \A c \in Counted : counters[c] <= dfirst[c] + dlogged[c]

\* Every copy of the counters that a status can be patched from.
CopiesBacked ==
    /\ Backed(dstatus.now) /\ Backed(dstatus.before)
    /\ Backed(dtick.view) /\ Backed(dtick.counters) /\ Backed(dgate.counters)

\* Before the registry has a row, nothing is logged, no copy has moved, and
\* the gate has nothing to withhold: the first append starts from dfirst.
RegistryFresh ==
    ~dregistry.known =>
        /\ dlogged = ZERO /\ ~dgate.known
        /\ dstatus.now = dfirst /\ dstatus.before = dfirst
        /\ dtick.at # "idle" => dtick.view = dfirst
        /\ dtick.at = "patch" => dtick.counters = dfirst

RegistryAdds == dregistry.known => \A c \in Counted : dregistry.counters[c] = dfirst[c] + dlogged[c]

Pending == IF dtick.at = "append" /\ dtick.entry \in Counted THEN 1 ELSE 0

RowsCounted == Total(dlogged) + dmade.refused + Pending = dmade.all

LogInv ==
    /\ LogTyped /\ dtier \in {"InMemory", "Postgres"}
    /\ dtier = "Postgres" => CopiesBacked /\ RegistryFresh /\ RegistryAdds /\ RowsCounted

\* A fold counts its entry, once.
LEMMA FoldCounts ==
    ASSUME NEW k \in Counters, NEW entry
    PROVE  /\ fold(k, entry) \in Counters
           /\ \A c \in Counted : k[c] <= fold(k, entry)[c]
           /\ Total(fold(k, entry)) = Total(k) + (IF entry \in Counted THEN 1 ELSE 0)
BY DEF fold, Counters, Counted, Total

\* Between two reconciles and in an empty gate, there is nothing to back.
LEMMA NothingBetween ==
    /\ Between \in [at : {"idle", "append", "patch"}, entry : Counted \cup NoCounts,
                    view : Counters, counters : Counters]
    /\ NoAppend \in [known : BOOLEAN, entry : Counted \cup NoCounts, age : Int, counters : Counters]
    /\ ~NoAppend.known /\ NoAppend.counters = ZERO /\ Between.view = ZERO /\ Between.counters = ZERO
    /\ Between.at = "idle"
    /\ LogTyped => Backed(ZERO)
<1>1. ZERO \in Counters
    BY DEF ZERO, Counters, Counted
<1>2. Between \in [at : {"idle", "append", "patch"}, entry : Counted \cup NoCounts,
                    view : Counters, counters : Counters]
    BY <1>1 DEF Between, NoCounts
<1>3. NoAppend \in [known : BOOLEAN, entry : Counted \cup NoCounts, age : Int, counters : Counters]
    <2>1. 0 \in Int
        OBVIOUS
    <2>2. QED
        BY <1>1, <2>1, Zenon DEF NoAppend, NoCounts
<1>4. ~NoAppend.known /\ NoAppend.counters = ZERO
    BY Zenon DEF NoAppend
<1>5. LogTyped => Backed(ZERO)
    BY DEF LogTyped, Backed, ZERO, Counters
<1>6. Between.view = ZERO /\ Between.counters = ZERO /\ Between.at = "idle"
    BY DEF Between
<1>7. QED
    BY <1>2, <1>3, <1>4, <1>5, <1>6

\* The band comes with its counters, and no row.
LEMMA LogInitInv == LogInit => LogInv
<1> SUFFICES ASSUME LogInit PROVE LogInv
    OBVIOUS
<1>1. ZERO \in Counters /\ dfirst \in Counters /\ Total(ZERO) = 0
    BY DEF LogInit, ZERO, Counters, Counted, Total
<1>2. [known |-> FALSE, counters |-> ZERO] \in [known : BOOLEAN, counters : Counters]
    BY <1>1, Zenon
<1>3. LogTyped
    BY <1>1, <1>2, NothingBetween DEF LogInit, LogTyped
<1>4. ~[known |-> FALSE, counters |-> ZERO].known
    BY Zenon
<1>5. \A c \in Counted : ZERO[c] <= dfirst[c] + dlogged[c] /\ dfirst[c] <= dfirst[c] + dlogged[c]
    BY <1>1 DEF LogInit, ZERO, Counters
<1>6. CopiesBacked
    BY <1>5, NothingBetween DEF LogInit, CopiesBacked, Backed, Between
<1>7. ~dregistry.known /\ ~dgate.known
    BY <1>4, NothingBetween DEF LogInit
<1>8. RegistryFresh /\ RegistryAdds
    BY <1>7 DEF LogInit, RegistryFresh, RegistryAdds, Between
<1>9. RowsCounted
    BY <1>1 DEF LogInit, RowsCounted, Pending, Between
<1>10. QED
    BY <1>3, <1>6, <1>8, <1>9 DEF LogInit, LogInv

\* What an append commits: the registry is again what the rows add up to.
LEMMA CommitAdds ==
    ASSUME LogInv, dtier = "Postgres", dtick.at = "append", Commit
    PROVE  /\ Folded \in Counters /\ dlogged' \in Counters
           /\ dregistry' \in [known : BOOLEAN, counters : Counters]
           /\ dregistry'.known /\ dregistry'.counters = Folded
           /\ \A c \in Counted : Folded[c] = dfirst[c] + dlogged'[c] /\ dlogged[c] <= dlogged'[c]
           /\ Total(dlogged') = Total(dlogged) + Pending
<1> USE DEF LogInv
<1>1. dregistry' = [known |-> TRUE, counters |-> Folded] /\ dlogged' = fold(dlogged, dtick.entry)
    BY DEF Commit
<1>2. Durable \in Counters /\ \A c \in Counted : Durable[c] = dfirst[c] + dlogged[c]
    <2>1. CASE dregistry.known
        BY <2>1 DEF Durable, RegistryAdds, LogTyped
    <2>2. CASE ~dregistry.known
        <3>1. Durable = dfirst /\ dlogged = ZERO
            BY <2>2 DEF Durable, RegistryFresh
        <3>2. QED
            BY <3>1 DEF ZERO, LogTyped, Counters
    <2>3. QED
        BY <2>1, <2>2
<1>3. Folded = fold(Durable, dtick.entry)
    BY DEF Folded
<1>4. Folded \in Counters /\ \A c \in Counted : Folded[c] = dfirst[c] + fold(dlogged, dtick.entry)[c]
    <2>1. \A c \in Counted : dfirst[c] \in Nat /\ dlogged[c] \in Nat /\ Durable[c] \in Nat
        BY <1>2 DEF LogTyped, Counters
    <2>2. ASSUME NEW c \in Counted PROVE Folded[c] = dfirst[c] + fold(dlogged, dtick.entry)[c]
        BY <1>2, <1>3, <2>1 DEF fold
    <2>3. QED
        BY <1>2, <1>3, <2>2, FoldCounts
<1>5. dregistry' \in [known : BOOLEAN, counters : Counters] /\ dregistry'.known /\ dregistry'.counters = Folded
    <2>1. [known |-> TRUE, counters |-> Folded] \in [known : BOOLEAN, counters : Counters]
          /\ [known |-> TRUE, counters |-> Folded].known
          /\ [known |-> TRUE, counters |-> Folded].counters = Folded
        BY <1>4, Zenon
    <2>2. QED
        BY <1>1, <2>1
<1>6. dlogged \in Counters
    BY DEF LogTyped
<1>7. QED
    BY <1>1, <1>4, <1>5, <1>6, FoldCounts DEF Pending

\* Every step preserves the invariant.
LEMMA LogNextInv == LogInv /\ [LogNext]_log_vars => LogInv'
<1> SUFFICES ASSUME LogInv, [LogNext]_log_vars PROVE LogInv'
    OBVIOUS
<1> DEFINE TickT == [at : {"idle", "append", "patch"}, entry : Counted \cup NoCounts,
                     view : Counters, counters : Counters]
           GateT == [known : BOOLEAN, entry : Counted \cup NoCounts, age : Int, counters : Counters]
           Postgres == dtier = "Postgres"
           RestInv == CopiesBacked /\ RegistryFresh /\ RegistryAdds /\ RowsCounted
<1>0. LogTyped /\ (Postgres => RestInv)
    BY DEF LogInv
<1>1. ASSUME NEW entry \in Counted \cup NoCounts, LogTick(entry) PROVE LogInv'
    <2>1. PICK view \in {dstatus.now, dstatus.before} :
            dtick' = [at |-> IF skip_verdict(entry) THEN "patch" ELSE "append", entry |-> entry,
                      view |-> view, counters |-> dgate.counters]
        BY <1>1 DEF LogTick
    <2>2. /\ dtick.at = "idle"
          /\ UNCHANGED <<dtier, dstatus, dregistry, dlogged, dgate, dstanding, dfirst>>
        BY <1>1 DEF LogTick
    <2>3. \/ entry \in NoCounts /\ dmade' = dmade
          \/ /\ entry \in Counted /\ dmade' \in [all : Nat, refused : Nat, changes : Nat]
             /\ dmade'.all = dmade.all + 1 /\ dmade'.refused = dmade.refused
        BY <1>0, <1>1 DEF LogTick, LogTyped
    <2>4. dtick' \in TickT /\ dtick'.entry = entry /\ dtick'.view = view /\ dtick'.counters = dgate.counters
        BY <1>0, <2>1 DEF LogTyped
    <2>5. dtick'.at = "patch" => entry \in NoCounts /\ dgate.known
        BY <2>1 DEF skip_verdict
    <2>6. dtick'.at \in {"append", "patch"}
        BY <2>1
    <2>7. LogTyped'
        BY <1>0, <2>2, <2>3, <2>4 DEF LogTyped
    <2>8. ASSUME Postgres PROVE RestInv'
        <3>1. CopiesBacked'
            BY <1>0, <2>1, <2>2, <2>4, <2>8 DEF CopiesBacked, Backed
        <3>2. RegistryFresh' /\ RegistryAdds'
            BY <1>0, <2>1, <2>2, <2>4, <2>5, <2>8 DEF RegistryFresh, RegistryAdds
        <3>3. Pending = 0 /\ Pending' = (IF entry \in Counted THEN 1 ELSE 0)
            BY <2>2, <2>4, <2>5, <2>6 DEF Pending, Counted, NoCounts
        <3>4. Total(dlogged) \in Nat
            BY <1>0 DEF LogTyped, Total, Counters, Counted
        <3>5. entry \in NoCounts => entry \notin Counted
            BY DEF Counted, NoCounts
        <3>6. RowsCounted'
            BY <1>0, <2>2, <2>3, <2>8, <3>3, <3>4, <3>5 DEF RowsCounted, LogTyped
        <3>7. QED
            BY <3>1, <3>2, <3>6
    <2>9. QED
        BY <2>2, <2>7, <2>8 DEF LogInv
<1>2. CASE append
    <2>1. /\ dtick.at = "append" /\ Commit
          /\ dgate' = [known |-> TRUE, entry |-> dtick.entry, age |-> 0, counters |-> Folded]
          /\ dtick' = [dtick EXCEPT !.at = "patch", !.counters = Folded]
          /\ UNCHANGED <<dtier, dstatus, dstanding, dfirst, dmade>>
        BY <1>2 DEF append
    <2>2. Folded \in Counters
        <3>1. CASE Postgres
            BY <2>1, <3>1, CommitAdds
        <3>2. CASE ~Postgres
            BY <1>0, <3>2, FoldCounts DEF Folded, LogTyped
        <3>3. QED
            BY <3>1, <3>2
    <2>3. dgate' \in GateT /\ dgate'.counters = Folded
        <3>1. dtick.entry \in Counted \cup NoCounts /\ 0 \in Int
            BY <1>0 DEF LogTyped
        <3>2. /\ [known |-> TRUE, entry |-> dtick.entry, age |-> 0, counters |-> Folded] \in GateT
              /\ [known |-> TRUE, entry |-> dtick.entry, age |-> 0, counters |-> Folded].counters = Folded
            BY <2>2, <3>1, Zenon
        <3>3. QED
            BY <2>1, <3>2
    <2>4. /\ dtick' \in TickT /\ dtick'.at = "patch" /\ dtick'.entry = dtick.entry
          /\ dtick'.view = dtick.view /\ dtick'.counters = Folded
        BY <1>0, <2>1, <2>2 DEF LogTyped
    <2>5. dlogged' \in Counters /\ dregistry' \in [known : BOOLEAN, counters : Counters]
        <3>1. CASE Postgres
            BY <2>1, <3>1, CommitAdds
        <3>2. CASE ~Postgres
            BY <1>0, <2>1, <3>2 DEF Commit, LogTyped
        <3>3. QED
            BY <3>1, <3>2
    <2>6. LogTyped'
        BY <1>0, <2>1, <2>3, <2>4, <2>5 DEF LogTyped
    <2>7. ASSUME Postgres PROVE RestInv'
        <3>1. /\ dregistry'.known /\ dregistry'.counters = Folded
              /\ \A c \in Counted : Folded[c] = dfirst[c] + dlogged'[c] /\ dlogged[c] <= dlogged'[c]
              /\ Total(dlogged') = Total(dlogged) + Pending
            BY <2>1, <2>7, CommitAdds
        <3>2. \A c \in Counted : /\ dfirst[c] \in Nat /\ dlogged[c] \in Nat /\ dlogged'[c] \in Nat
                                 /\ Folded[c] \in Nat /\ dstatus.now[c] \in Nat /\ dstatus.before[c] \in Nat
                                 /\ dtick.view[c] \in Nat
            BY <1>0, <2>2, <2>5 DEF LogTyped, Counters
        <3>3. CopiesBacked'
            BY <1>0, <2>1, <2>3, <2>4, <2>7, <3>1, <3>2 DEF CopiesBacked, Backed
        <3>4. RegistryFresh' /\ RegistryAdds'
            BY <2>1, <3>1 DEF RegistryFresh, RegistryAdds
        <3>5. Pending' = 0
            BY <2>4 DEF Pending
        <3>6. Total(dlogged)' = Total(dlogged')
            BY DEF Total
        <3>7. Total(dlogged) \in Nat /\ Pending \in Nat
            BY <1>0 DEF LogTyped, Total, Counters, Counted, Pending
        <3>8. RowsCounted'
            BY <1>0, <2>1, <2>7, <3>1, <3>5, <3>6, <3>7 DEF RowsCounted, LogTyped
        <3>9. QED
            BY <3>3, <3>4, <3>8
    <2>8. QED
        BY <2>1, <2>6, <2>7 DEF LogInv
<1>3. CASE AppendFails
    <2>1. /\ dtick.at = "append" /\ Postgres
          /\ dtick' = [dtick EXCEPT !.at = "patch", !.counters = dtick.view]
          /\ UNCHANGED <<dtier, dstatus, dgate, dstanding, dfirst>>
        BY <1>3 DEF AppendFails, held_counters
    <2>2. /\ dtick' \in TickT /\ dtick'.at = "patch" /\ dtick'.entry = dtick.entry
          /\ dtick'.view = dtick.view /\ dtick'.counters = dtick.view
        BY <1>0, <2>1 DEF LogTyped
    <2>3. Pending' = 0
        BY <2>2 DEF Pending
    <2>4. Total(dlogged) \in Nat /\ Pending \in Nat
        BY <1>0 DEF LogTyped, Total, Counters, Counted, Pending
    <2>5. CASE Commit /\ UNCHANGED dmade
        <3>1. /\ dregistry'.known /\ dregistry'.counters = Folded
              /\ \A c \in Counted : Folded[c] = dfirst[c] + dlogged'[c] /\ dlogged[c] <= dlogged'[c]
              /\ Total(dlogged') = Total(dlogged) + Pending
              /\ dlogged' \in Counters /\ dregistry' \in [known : BOOLEAN, counters : Counters]
            BY <2>1, <2>5, CommitAdds
        <3>2. LogTyped'
            BY <1>0, <2>1, <2>2, <2>5, <3>1 DEF LogTyped
        <3>3. \A c \in Counted : /\ dfirst[c] \in Nat /\ dlogged[c] \in Nat /\ dlogged'[c] \in Nat
                                 /\ dgate.counters[c] \in Nat /\ dstatus.now[c] \in Nat /\ dstatus.before[c] \in Nat
                                 /\ dtick.view[c] \in Nat
            BY <1>0, <3>1 DEF LogTyped, Counters
        <3>4. CopiesBacked'
            BY <1>0, <2>1, <2>2, <3>1, <3>3 DEF CopiesBacked, Backed
        <3>5. RegistryFresh' /\ RegistryAdds'
            BY <2>1, <3>1 DEF RegistryFresh, RegistryAdds
        <3>6. Total(dlogged)' = Total(dlogged')
            BY DEF Total
        <3>7. RowsCounted'
            BY <1>0, <2>1, <2>3, <2>4, <2>5, <3>1, <3>6 DEF RowsCounted, LogTyped
        <3>8. QED
            BY <2>1, <3>2, <3>4, <3>5, <3>7 DEF LogInv
    <2>6. CASE /\ UNCHANGED <<dregistry, dlogged>>
               /\ dmade' = [dmade EXCEPT !.refused = @ + (IF dtick.entry \in Counted THEN 1 ELSE 0)]
        <3>1. /\ dmade' \in [all : Nat, refused : Nat, changes : Nat]
              /\ dmade'.all = dmade.all /\ dmade'.refused = dmade.refused + Pending
            BY <1>0, <2>1, <2>6 DEF LogTyped, Pending
        <3>2. LogTyped'
            BY <1>0, <2>1, <2>2, <2>6, <3>1 DEF LogTyped
        <3>3. CopiesBacked'
            BY <1>0, <2>1, <2>2, <2>6 DEF CopiesBacked, Backed
        <3>4. RegistryFresh' /\ RegistryAdds'
            BY <1>0, <2>1, <2>2, <2>6 DEF RegistryFresh, RegistryAdds
        <3>5. RowsCounted'
            BY <1>0, <2>1, <2>3, <2>4, <2>6, <3>1 DEF RowsCounted, LogTyped
        <3>6. QED
            BY <2>1, <3>2, <3>3, <3>4, <3>5 DEF LogInv
    <2>7. QED
        BY <1>3, <2>5, <2>6 DEF AppendFails
<1>4. CASE PatchCounters
    <2>1. /\ dtick.at = "patch" /\ dtick' = Between
          /\ UNCHANGED <<dtier, dregistry, dlogged, dgate, dstanding, dfirst, dmade>>
          /\ dstatus' = dstatus \/ dstatus' = [now |-> dtick.counters, before |-> dstatus.now]
        BY <1>4 DEF PatchCounters
    <2>2. /\ dstatus' \in [now : Counters, before : Counters]
          /\ dstatus'.now \in {dstatus.now, dtick.counters}
          /\ dstatus'.before \in {dstatus.before, dstatus.now}
        BY <1>0, <2>1 DEF LogTyped
    <2>3. LogTyped'
        BY <1>0, <2>1, <2>2, NothingBetween DEF LogTyped
    <2>4. ASSUME Postgres PROVE RestInv'
        <3>1. CopiesBacked'
            BY <1>0, <2>1, <2>2, <2>4, NothingBetween DEF CopiesBacked, Backed
        <3>2. RegistryFresh' /\ RegistryAdds'
            BY <1>0, <2>1, <2>2, <2>4, NothingBetween DEF RegistryFresh, RegistryAdds
        <3>3. RowsCounted'
            BY <1>0, <2>1, <2>4, NothingBetween DEF RowsCounted, Pending
        <3>4. QED
            BY <3>1, <3>2, <3>3
    <2>5. QED
        BY <2>1, <2>3, <2>4 DEF LogInv
<1>5. CASE ControllerCrash
    <2>1. /\ dgate' = NoAppend /\ dtick' = Between
          /\ dstatus' = [dstatus EXCEPT !.before = dstatus.now]
          /\ dmade' = [dmade EXCEPT !.refused = @ + Pending]
          /\ UNCHANGED <<dtier, dregistry, dlogged, dstanding, dfirst>>
        BY <1>5 DEF ControllerCrash, Pending
    <2>2. /\ dstatus' \in [now : Counters, before : Counters]
          /\ dstatus'.now = dstatus.now /\ dstatus'.before = dstatus.now
        BY <1>0, <2>1 DEF LogTyped
    <2>3. Pending \in Nat /\ Pending' = 0 /\ Total(dlogged) \in Nat
        BY <1>0, <2>1, NothingBetween DEF Pending, LogTyped, Total, Counters, Counted
    <2>4. /\ dmade' \in [all : Nat, refused : Nat, changes : Nat]
          /\ dmade'.all = dmade.all /\ dmade'.refused = dmade.refused + Pending
        BY <1>0, <2>1, <2>3 DEF LogTyped
    <2>5. LogTyped'
        BY <1>0, <2>1, <2>2, <2>4, NothingBetween DEF LogTyped
    <2>6. ASSUME Postgres PROVE RestInv'
        <3>1. CopiesBacked'
            BY <1>0, <2>1, <2>2, <2>6, NothingBetween DEF CopiesBacked, Backed
        <3>2. RegistryFresh' /\ RegistryAdds'
            BY <1>0, <2>1, <2>2, <2>6, NothingBetween DEF RegistryFresh, RegistryAdds
        <3>3. RowsCounted'
            BY <1>0, <2>1, <2>3, <2>4, <2>6 DEF RowsCounted, LogTyped
        <3>4. QED
            BY <3>1, <3>2, <3>3
    <2>7. QED
        BY <2>1, <2>5, <2>6 DEF LogInv
<1>6. CASE StandingMoves
    <2>1. /\ dmade' \in [all : Nat, refused : Nat, changes : Nat]
          /\ dmade'.all = dmade.all /\ dmade'.refused = dmade.refused
          /\ dstanding' \in NoCounts
          /\ UNCHANGED <<dtier, dstatus, dregistry, dlogged, dgate, dtick, dfirst>>
        BY <1>0, <1>6 DEF StandingMoves, LogTyped
    <2>2. LogTyped'
        BY <1>0, <2>1 DEF LogTyped
    <2>3. Postgres => RestInv'
        BY <1>0, <2>1 DEF CopiesBacked, Backed, RegistryFresh, RegistryAdds, RowsCounted, Pending
    <2>4. QED
        BY <2>1, <2>2, <2>3 DEF LogInv
<1>7. CASE LogClock \/ ClockStepsBack
    <2>1. PICK a \in Int : dgate' = [dgate EXCEPT !.age = a]
        <3>1. dgate.age \in Int
            BY <1>0 DEF LogTyped
        <3>2. QED
            BY <1>7, <3>1 DEF LogClock, ClockStepsBack
    <2>2. UNCHANGED <<dtier, dstatus, dregistry, dlogged, dstanding, dtick, dfirst, dmade>>
        BY <1>7 DEF LogClock, ClockStepsBack
    <2>3. dgate \in GateT
        BY <1>0 DEF LogTyped
    <2>4. /\ [dgate EXCEPT !.age = a] \in GateT /\ [dgate EXCEPT !.age = a].counters = dgate.counters
          /\ [dgate EXCEPT !.age = a].known = dgate.known
        BY <2>3, Zenon
    <2>5. LogTyped'
        BY <1>0, <2>1, <2>2, <2>4 DEF LogTyped
    <2>6. Postgres => RestInv'
        BY <1>0, <2>1, <2>2, <2>4 DEF CopiesBacked, Backed, RegistryFresh, RegistryAdds, RowsCounted, Pending
    <2>7. QED
        BY <2>2, <2>5, <2>6 DEF LogInv
<1>8. CASE UNCHANGED log_vars
    BY <1>8 DEF log_vars, LogInv, LogTyped, CopiesBacked, Backed, RegistryFresh, RegistryAdds, RowsCounted, Pending
<1>9. QED
    BY <1>1, <1>2, <1>3, <1>4, <1>5, <1>6, <1>7, <1>8 DEF LogNext

\* With the durable tier, for any heartbeat and any number of decisions and
\* faults: every counted decision has its row or was refused, the registry is
\* what the rows add up to, and the status claims no more than that, whatever
\* append failed half way, answer was lost, read was stale or process crashed.
THEOREM CountsAreBacked == LogSpec => []CountsBacked
<1>1. LogInv => CountsBacked
    <2> SUFFICES ASSUME LogInv, dtier = "Postgres"
                 PROVE  CountsBacked
        BY DEF CountsBacked
    <2>1. RowsCounted /\ CopiesBacked /\ RegistryFresh /\ RegistryAdds /\ LogTyped
        BY DEF LogInv
    <2>2. \A c \in Counted : dstatus.now[c] <= (IF dregistry.known THEN dregistry.counters[c] ELSE dfirst[c])
        BY <2>1 DEF CopiesBacked, Backed, RegistryAdds, RegistryFresh, LogTyped, Counters
    <2>3. QED
        BY <2>1, <2>2 DEF CountsBacked, RowsCounted, Pending, RegistryAdds
<1>2. QED
    BY <1>1, LogInitInv, LogNextInv, PTL DEF LogSpec

-----------------------------------------------------------------------------
(***************************************************************************)
(* The pods of a band.                                                     *)
(***************************************************************************)
\* A finite set of numbers has a largest: of the sets that reach above every
\* number of it, the smallest has one element.
LEMMA LargestOf ==
    ASSUME NEW S, S \subseteq Int, S # {}, IsFiniteSet(S)
    PROVE  Max(S) \in S /\ \A x \in S : Max(S) >= x
<1> DEFINE Reaches(A) == A \subseteq S /\ \A x \in S : \E a \in A : a >= x
           Sizes == {Cardinality(A) : A \in {B \in SUBSET S : Reaches(B)}}
<1>1. \A A : Reaches(A) => IsFiniteSet(A) /\ A # {}
    BY FS_Subset
<1>2. Reaches(S)
    OBVIOUS
<1>3. Sizes \subseteq Nat /\ Sizes # {}
    BY <1>1, <1>2, FS_CardinalityType
<1>4. PICK n \in Sizes : \A m \in Sizes : n <= m
    <2> HIDE DEF Sizes
    <2>1. QED
        BY <1>3, LeastNatural
<1>5. PICK A : Reaches(A) /\ n = Cardinality(A)
    BY <1>4
<1>6. PICK a : a \in A
    BY <1>1, <1>5
<1>7. ASSUME NEW b \in A, b # a PROVE FALSE
    <2>1. a \in Int /\ b \in Int
        BY <1>5, <1>6, <1>7
    <2>2. PICK c \in {a, b} : \E k \in {a, b} : k # c /\ k >= c
        BY <1>7, <2>1
    <2>3. PICK k \in {a, b} : k # c /\ k >= c
        BY <2>2
    <2>4. c \in A /\ k \in A \ {c} /\ k \in Int /\ c \in Int
        BY <1>6, <1>7, <2>1, <2>2, <2>3
    <2>5. Reaches(A \ {c})
        <3>1. ASSUME NEW x \in S PROVE \E e \in A \ {c} : e >= x
            <4>1. PICK e \in A : e >= x
                BY <1>5
            <4>2. CASE e = c
                BY <2>3, <2>4, <4>1, <4>2
            <4>3. QED
                BY <4>1, <4>2
        <3>2. QED
            BY <1>5, <3>1
    <2>6. Cardinality(A \ {c}) = Cardinality(A) - 1 /\ Cardinality(A) \in Nat
        BY <1>1, <1>5, <2>4, FS_RemoveElement, FS_CardinalityType
    <2>7. Cardinality(A \ {c}) \in Sizes
        BY <2>5
    <2> HIDE DEF Sizes
    <2>8. QED
        BY <1>4, <1>5, <2>6, <2>7
<1>8. a \in S /\ \A x \in S : a >= x
    BY <1>5, <1>6, <1>7
<1>9. QED
    BY <1>8 DEF Max

\* One reading of every pod of the group is finitely many.
LEMMA PodsFinite == ASSUME NEW f PROVE IsFiniteSet({f[p] : p \in Pods})
<1> DEFINE g == [p \in Pods |-> f[p]]
           S == {f[p] : p \in Pods}
<1>1. g \in Surjection(Pods, S)
    BY DEF Surjection
<1>2. QED
    BY <1>1, PodResizeAssumption, FS_Surjection

\* The group's reading is one pod's, and bounds every pod's.
LEMMA HottestBounds ==
    ASSUME NEW f \in [Pods -> Nat]
    PROVE  Hottest(f) \in Nat /\ \A p \in Pods : Hottest(f) >= f[p]
<1> DEFINE S == {f[p] : p \in Pods}
<1>1. IsFiniteSet(S)
    BY PodsFinite
<1>2. S \subseteq Nat /\ S # {}
    BY PodResizeAssumption
<1>3. \A p \in Pods : f[p] \in S
    OBVIOUS
<1> HIDE DEF S
<1>4. Max(S) \in S /\ \A x \in S : Max(S) >= x
    <2>1. S \subseteq Int
        BY <1>2
    <2>2. QED
        BY <1>1, <1>2, <2>1, LargestOf
<1>5. QED
    BY <1>2, <1>3, <1>4 DEF Hottest, S

\* Every template fits under the band's ceiling.  Without it the band snaps a
\* limit down to its ceiling, below what a pod has claimed.
TemplatesFit == \A t \in Templates : t.limit <= PodCfg.ceiling_bytes

ResizeTyped ==
    /\ template \in Templates
    /\ lim \in [Pods -> Nat] /\ req \in [Pods -> Nat] /\ ruse \in [Pods -> Uses]
    /\ rpeak \in Nat /\ rto \in Nat

\* No pod claims less than its template or holds more than the ceiling.
ClaimsBounded ==
    \A p \in Pods : template.request <= req[p] /\ lim[p] <= PodCfg.ceiling_bytes

\* A target under way covers every claim, and that of a pod re-created
\* before it is written.
TargetCovers ==
    rpc # "idle" => /\ rto <= PodCfg.ceiling_bytes /\ template.request <= rto
                    /\ \A p \in Pods : req[p] <= rto

\* QosKept and RequestNeverLowered say nothing of the target that a tick
\* carries over the other steps of the group.
ResizeInv == ResizeTyped /\ QosKept /\ ClaimsBounded /\ TargetCovers

\* A template as the API server admitted it.
LEMMA TemplateTyped ==
    ASSUME TemplatesFit, NEW t \in Templates
    PROVE  /\ t.limit \in Nat /\ t.request \in Nat /\ t.request <= t.limit
           /\ t.limit <= PodCfg.ceiling_bytes
           /\ t.qos = "Guaranteed" => t.request = t.limit
<1>1. t \in [qos : {"Guaranteed", "Burstable"}, limit : Nat \ {0}, request : Nat]
    BY PodResizeAssumption
<1>2. IF t.qos = "Guaranteed" THEN t.request = t.limit ELSE t.request <= t.limit
    BY PodResizeAssumption
<1>3. QED
    BY <1>1, <1>2 DEF TemplatesFit

\* What the band decides over the group covers what every pod claims.
LEMMA LawCovers ==
    ASSUME ResizeTyped, QosKept, ClaimsBounded, NEW seen \in Nat, IsMutation(LawOf(seen))
    PROVE  /\ LawOf(seen).to \in Nat /\ LawOf(seen).to <= PodCfg.ceiling_bytes
           /\ \A p \in Pods : req[p] <= LawOf(seen).to
<1> DEFINE c == effective_cfg  l == Hottest(lim)  u == Hottest(ruse)  r == Hottest(req)
           raw == propose(u, l, c)  d == LawOf(seen)
<1>1. PodCfg \in BandConfig /\ validate(PodCfg)
    BY PodResizeAssumption
<1>2. r \in Nat /\ \A p \in Pods : req[p] <= r
    BY HottestBounds DEF ResizeTyped
<1>3. l \in Nat /\ \A p \in Pods : lim[p] <= l
    BY HottestBounds DEF ResizeTyped
<1>4. u \in Nat /\ u # 0
    <2>1. ruse \in [Pods -> Nat] /\ \A p \in Pods : ruse[p] # 0
        BY PodResizeAssumption DEF ResizeTyped
    <2>2. PICK p \in Pods : TRUE
        BY PodResizeAssumption
    <2>3. QED
        BY <2>1, <2>2, HottestBounds
<1>5. l <= PodCfg.ceiling_bytes
    <2> DEFINE S == {lim[p] : p \in Pods}
    <2>1. IsFiniteSet(S) /\ S # {} /\ S \subseteq Int
        <3>1. S # {} /\ S \subseteq Int
            BY PodResizeAssumption DEF ResizeTyped
        <3>2. QED
            BY <3>1, PodsFinite
    <2>2. \A x \in S : x <= PodCfg.ceiling_bytes
        BY DEF ClaimsBounded
    <2> HIDE DEF S
    <2>3. Max(S) \in S
        BY <2>1, LargestOf
    <2>4. QED
        BY <2>2, <2>3 DEF Hottest, S
<1>6. /\ UsableConfig(c) /\ c.request_floor_bytes >= r /\ c.request_floor_bytes \in Nat
      /\ c.ceiling_bytes = PodCfg.ceiling_bytes /\ c.floor_bytes = PodCfg.floor_bytes
      /\ c.ceiling_bytes \in Nat /\ c.floor_bytes \in Nat
      /\ c.floor_bytes <= c.ceiling_bytes
    BY <1>1, <1>2 DEF effective_cfg, UsableConfig, BandConfig, validate, Larger
<1>7. \A p \in Pods : req[p] \in Nat /\ lim[p] \in Nat /\ req[p] <= lim[p]
    BY DEF ResizeTyped, QosKept
<1>8. d = Scaffold(raw, u, seen, l, c)
    BY DEF LawOf, decide_with
<1> HIDE DEF c, l, u, r
<1>9. raw \in Nat
    <2>1. 0 \in Int
        OBVIOUS
    <2>2. QED
        BY <1>3, <1>4, <1>6, <2>1, ProposalType DEF raw
<1> HIDE DEF raw, d
<1>10. d.kind \in {"Grow", "Shrink"} /\ d.to \in Nat
    <2>1. d \in Decision
        BY <1>3, <1>4, <1>6, <1>8, <1>9, ScaffoldSafe
    <2>2. QED
        BY <2>1 DEF Decision, IsMutation, d
<1>11. ~metric_untrusted(u, c) /\ ~(l > c.ceiling_bytes)
    BY <1>3, <1>4, <1>5, <1>6 DEF metric_untrusted
<1>12. d.to <= PodCfg.ceiling_bytes /\ (d.kind = "Grow" => l <= d.to)
    <2>1. CASE l < c.floor_bytes
        BY <1>3, <1>6, <1>8, <2>1 DEF Scaffold, Decide
    <2>2. CASE ~(l < c.floor_bytes)
        <3>1. d = safety_clamp(raw, u, seen, l, c)
            BY <1>8, <1>11, <2>2 DEF Scaffold
        <3>2. CASE raw > l
            BY <1>3, <1>6, <1>9, <1>10, <3>1, <3>2 DEF safety_clamp, Decide, Stay, Smaller
        <3>3. CASE raw < l
            <4>1. safe_min(seen, u, c) \in Nat
                BY <1>4, <1>6, SafeMinSeats
            <4>2. Larger(raw, safe_min(seen, u, c)) \in Nat
                BY <1>9, <4>1 DEF Larger
            <4>3. QED
                BY <1>3, <1>5, <1>6, <1>9, <1>10, <3>1, <3>3, <4>2 DEF safety_clamp, Decide, Stay
        <3>4. CASE raw = l
            BY <1>3, <1>10, <3>1, <3>4 DEF safety_clamp, Decide, Stay
        <3>5. QED
            BY <1>3, <1>9, <3>2, <3>3, <3>4
    <2>3. QED
        BY <2>1, <2>2
<1>13. d.kind = "Shrink" => r <= d.to
    <2>1. d.kind = "Shrink" => d.to >= safe_min(seen, u, c)
        BY <1>3, <1>4, <1>6, <1>8, <1>9, <1>11, ScaffoldSafe
    <2>2. safe_min(seen, u, c) \in Nat /\ safe_min(seen, u, c) >= c.request_floor_bytes
        BY <1>4, <1>6, SafeMinSeats
    <2>3. QED
        BY <1>2, <1>6, <1>10, <2>1, <2>2
<1>14. \A p \in Pods : req[p] <= d.to
    BY <1>2, <1>3, <1>7, <1>10, <1>12, <1>13
<1>15. QED
    BY <1>10, <1>12, <1>14 DEF d

LEMMA ResizeInitInv == ASSUME TemplatesFit, ResizeInit PROVE ResizeInv
<1>1. /\ template \in Templates /\ lim = [p \in Pods |-> template.limit]
      /\ req = [p \in Pods |-> template.request] /\ ruse \in [Pods -> Uses]
      /\ rpeak = 0 /\ rto = 0 /\ rpc = "idle"
    BY DEF ResizeInit
<1>2. /\ template.limit \in Nat /\ template.request \in Nat /\ template.request <= template.limit
      /\ template.limit <= PodCfg.ceiling_bytes
      /\ template.qos = "Guaranteed" => template.request = template.limit
    BY <1>1, TemplateTyped
<1>3. QED
    BY <1>1, <1>2 DEF ResizeInv, ResizeTyped, QosKept, ClaimsBounded, TargetCovers

\* One pod is patched, whichever it is and whatever happened to the others.
Lowers == rpc = "resize" /\ rpc' \in {"idle", "resize"} /\ rtodo' # rtodo

LEMMA ResizeNextInv ==
    ASSUME TemplatesFit, ResizeInv, [ResizeNext]_resize_vars
    PROVE  ResizeInv' /\ (Lowers => \A p \in Pods : req'[p] >= req[p])
<1>0. ResizeTyped /\ QosKept /\ ClaimsBounded /\ TargetCovers
    BY DEF ResizeInv
<1>1. /\ template \in Templates /\ lim \in [Pods -> Nat] /\ req \in [Pods -> Nat]
      /\ ruse \in [Pods -> Uses] /\ rpeak \in Nat /\ rto \in Nat
    BY <1>0 DEF ResizeTyped
<1>2. /\ template.limit \in Nat /\ template.request \in Nat /\ template.request <= template.limit
      /\ template.limit <= PodCfg.ceiling_bytes
      /\ template.qos = "Guaranteed" => template.request = template.limit
    BY <1>1, TemplateTyped
<1>3. ASSUME UNCHANGED <<template, lim, req>>, ruse' \in [Pods -> Uses], rpeak' \in Nat, rto' \in Nat,
             rpc' # "idle" => rpc # "idle" /\ rto' = rto
      PROVE  ResizeInv' /\ (Lowers => \A p \in Pods : req'[p] >= req[p])
    BY <1>0, <1>1, <1>3 DEF ResizeInv, ResizeTyped, QosKept, ClaimsBounded, TargetCovers
<1>4. CASE Observe
    <2> DEFINE seen == update_peak(rpeak, Hottest(ruse), Decay)
    <2>1. Hottest(ruse) \in Nat
        <3>1. ruse \in [Pods -> Nat]
            BY <1>1, PodResizeAssumption
        <3>2. QED
            BY <3>1, HottestBounds
    <2>2. seen \in Nat
        <3>1. MulFloor(rpeak, Decay) \in Nat
            <4>1. Decay \in Nat
                BY PodResizeAssumption
            <4>2. QED
                BY <1>1, <4>1, Rounding
        <3>2. QED
            BY <2>1, <3>1 DEF update_peak, Larger
    <2>3. /\ rpc = "idle" /\ rpeak' = seen /\ UNCHANGED <<template, lim, req, ruse, rtodo>>
          /\ IF IsMutation(LawOf(seen)) THEN rpc' = "assign" /\ rto' = LawOf(seen).to
                                        ELSE UNCHANGED <<rpc, rto>>
        BY <1>4 DEF Observe
    <2> HIDE DEF seen
    <2>4. CASE ~IsMutation(LawOf(seen))
        BY <1>1, <1>3, <2>2, <2>3, <2>4
    <2>5. CASE IsMutation(LawOf(seen))
        <3>1. /\ LawOf(seen).to \in Nat /\ LawOf(seen).to <= PodCfg.ceiling_bytes
              /\ \A p \in Pods : req[p] <= LawOf(seen).to
            BY <1>0, <2>2, <2>5, LawCovers
        <3>2. PICK p \in Pods : TRUE
            BY PodResizeAssumption
        <3>3. template.request <= LawOf(seen).to
            BY <1>0, <1>1, <1>2, <3>1, <3>2 DEF ClaimsBounded
        <3>4. ResizeInv'
            BY <1>0, <1>1, <2>2, <2>3, <2>5, <3>1, <3>3
               DEF ResizeInv, ResizeTyped, QosKept, ClaimsBounded, TargetCovers
        <3>5. QED
            BY <2>3, <3>4 DEF Lowers
    <2>6. QED
        BY <2>4, <2>5
<1>5. CASE Assign
    BY <1>1, <1>3, <1>5 DEF Assign
<1>6. CASE ResizeFails
    BY <1>1, <1>3, <1>6 DEF ResizeFails
<1>7. ASSUME NEW p \in Pods, ResizePod(p)
      PROVE  ResizeInv' /\ (Lowers => \A q \in Pods : req'[q] >= req[q])
    <2> DEFINE claim == limit_block(template.qos, rto, req[p])
    <2>1. /\ rpc = "resize" /\ lim' = [lim EXCEPT ![p] = rto] /\ req' = [req EXCEPT ![p] = claim]
          /\ UNCHANGED <<template, ruse, rpeak, rto>>
        BY <1>7 DEF ResizePod
    <2>2. rto <= PodCfg.ceiling_bytes /\ template.request <= rto /\ \A q \in Pods : req[q] <= rto
        BY <1>0, <2>1 DEF TargetCovers
    <2>3. \A q \in Pods : req[q] \in Nat /\ lim[q] \in Nat
        BY <1>1
    <2>4. claim = (IF template.qos = "Guaranteed" THEN rto ELSE req[p])
        BY <1>1, <1>7, <2>2, <2>3 DEF limit_block
    <2>5. claim \in Nat /\ claim >= req[p] /\ claim <= rto /\ (template.qos = "Guaranteed" => claim = rto)
        BY <1>1, <1>7, <2>2, <2>3, <2>4
    <2> HIDE DEF claim
    <2>6. ResizeTyped'
        BY <1>1, <1>7, <2>1, <2>5 DEF ResizeTyped
    <2>7. \A q \in Pods : /\ lim'[q] = IF q = p THEN rto ELSE lim[q]
                          /\ req'[q] = IF q = p THEN claim ELSE req[q]
        BY <1>1, <2>1
    <2>8. QosKept'
        BY <1>0, <1>1, <1>7, <2>1, <2>5, <2>7 DEF QosKept
    <2>9. ClaimsBounded'
        BY <1>0, <1>1, <1>2, <1>7, <2>1, <2>2, <2>3, <2>5, <2>7 DEF ClaimsBounded
    <2>10. TargetCovers'
        BY <1>1, <1>7, <2>1, <2>2, <2>5, <2>7 DEF TargetCovers
    <2>11. \A q \in Pods : req'[q] >= req[q]
        BY <1>7, <2>3, <2>5, <2>7
    <2>12. QED
        BY <2>6, <2>8, <2>9, <2>10, <2>11 DEF ResizeInv
<1>8. ASSUME NEW p \in Pods, Recreate(p)
      PROVE  ResizeInv' /\ (Lowers => \A q \in Pods : req'[q] >= req[q])
    <2>1. /\ lim' = [lim EXCEPT ![p] = template.limit] /\ req' = [req EXCEPT ![p] = template.request]
          /\ UNCHANGED <<template, ruse, rpeak, rpc, rto, rtodo>>
        BY <1>8 DEF Recreate
    <2>2. \A q \in Pods : /\ lim'[q] = IF q = p THEN template.limit ELSE lim[q]
                          /\ req'[q] = IF q = p THEN template.request ELSE req[q]
        BY <1>1, <2>1
    <2>3. ResizeTyped'
        BY <1>1, <1>2, <1>8, <2>1 DEF ResizeTyped
    <2>4. QosKept'
        BY <1>0, <1>2, <1>8, <2>1, <2>2 DEF QosKept
    <2>5. ClaimsBounded' /\ TargetCovers'
        BY <1>0, <1>1, <1>2, <1>8, <2>1, <2>2 DEF ClaimsBounded, TargetCovers
    <2>6. ~Lowers
        BY <2>1 DEF Lowers
    <2>7. QED
        BY <2>3, <2>4, <2>5, <2>6 DEF ResizeInv
<1>9. ASSUME NEW p \in Pods, UseMoves(p)
      PROVE  ResizeInv' /\ (Lowers => \A q \in Pods : req'[q] >= req[q])
    BY <1>1, <1>3, <1>9 DEF UseMoves
<1>10. CASE UNCHANGED resize_vars
    BY <1>1, <1>3, <1>10 DEF resize_vars
<1>11. QED
    BY <1>4, <1>5, <1>6, <1>7, <1>8, <1>9, <1>10 DEF ResizeNext

\* For any number of pods whose templates fit under the ceiling, whatever is
\* refused, re-created or used between the writes of a group, a resize keeps
\* every pod's QoS class and lowers no pod's request.
THEOREM ClaimsAreKept == ASSUME TemplatesFit PROVE ResizeSpec => ClaimsKept
<1>1. ResizeInit => ResizeInv
    BY ResizeInitInv
<1>2. ResizeInv /\ [ResizeNext]_resize_vars => ResizeInv'
    BY ResizeNextInv
<1>3. ResizeInv /\ ResizeInv' /\ [ResizeNext]_resize_vars =>
        /\ [QosKept']_resize_vars
        /\ [rpc = "resize" /\ rpc' \in {"idle", "resize"} /\ rtodo' # rtodo
              => \A p \in Pods : req'[p] >= req[p]]_resize_vars
    BY ResizeNextInv DEF ResizeInv, Lowers
<1>4. QED
    BY <1>1, <1>2, <1>3, PTL DEF ResizeSpec, ClaimsKept, RequestNeverLowered
=============================================================================
