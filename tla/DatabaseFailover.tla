-------------------------- MODULE DatabaseFailover --------------------------
(***************************************************************************)
(* Databases that run on spot nodes, even the primary                      *)
(* (breathe-invariant/src/database.rs): the permutation a database         *)
(* breathes under (engine default, narrowed by the discovered topology,    *)
(* overridden by the operator) and the failover machine that promotes a    *)
(* replica before the primary's node is given up.                          *)
(*                                                                         *)
(* The machine's actions name no replica and its events, but for the       *)
(* notice, carry nothing; the shell that drives it (external) carries the  *)
(* primary and the candidate of the last notice the machine took.  Nothing *)
(* calls a promotion or a drain off when the notice is withdrawn, and an   *)
(* answer does not say which promotion it is the answer to.                *)
(***************************************************************************)
EXTENDS Integers, FiniteSets

CONSTANTS
    Replicas,      \* members a replication set may have, numbers
    Overlays,      \* operators' overrides: functions on some permutation fields
    MaxSignals     \* bound on reclaim signals

ReplicationClass == {"MasterSlave", "FullyDistributed", "Persistent"}
DbEngine == {"MySql", "Postgres", "Redis", "Mongo", "Neo4j"}
FailoverState == {"Steady", "PrimaryReclaimSignaled", "PromotingReplica", "FailedOver",
                  "OldPrimaryReclaimed", "ReclaimBlocked"}

ASSUME DatabaseAssumption ==
    Replicas \subseteq Nat \ {0} /\ Replicas # {} /\ MaxSignals \in Nat

-----------------------------------------------------------------------------
(***************************************************************************)
(* The permutation.                                                        *)
(***************************************************************************)
admits_replica(class, replica) ==
    \/ replica = "NeverScale"
    \/ replica = "ScaleReadersFreely" /\ class # "FullyDistributed"
    \/ replica = "QuorumOddSteps" /\ class = "FullyDistributed"

admits_failover(class, failover) ==
    \/ failover = "NoFailover"
    \/ failover = "PromoteBeforeReclaim" /\ class # "FullyDistributed"
    \/ failover = "QuorumReElect" /\ class = "FullyDistributed"

\* DatabasePermutation::validate.
validate_permutation(p) ==
    /\ p.spot = "SpotEvenPrimary" => p.failover # "NoFailover"
    /\ admits_replica(p.class, p.replica) /\ admits_failover(p.class, p.failover)

legal_permutations ==
    {p \in [class : ReplicationClass,
            placement : {"CoLocate", "AntiAffinity", "TopologySpread", "Dedicated"},
            spot : {"NoSpot", "SpotReadersOnly", "SpotEvenPrimary"},
            replica : {"NeverScale", "ScaleReadersFreely", "QuorumOddSteps"},
            failover : {"NoFailover", "PromoteBeforeReclaim", "QuorumReElect"}] :
       validate_permutation(p)}

\* DB_ARCHITECTURES.
default_permutation(engine) ==
    [class     |-> CASE engine = "Mongo" -> "FullyDistributed"
                     [] engine = "Neo4j" -> "Persistent"
                     [] OTHER            -> "MasterSlave",
     placement |-> "AntiAffinity",
     spot      |-> IF engine = "Neo4j" THEN "SpotReadersOnly" ELSE "SpotEvenPrimary",
     replica   |-> CASE engine = "Mongo" -> "QuorumOddSteps"
                     [] engine = "Neo4j" -> "NeverScale"
                     [] OTHER            -> "ScaleReadersFreely",
     failover  |-> IF engine = "Mongo" THEN "QuorumReElect" ELSE "PromoteBeforeReclaim"]

\* discover_topology: what the engine's status says of its members.
discover_topology(engine, members) ==
    CASE engine = "Mongo"            -> [shape |-> "Quorum", count |-> Cardinality(members)]
      [] Cardinality(members) = 1    -> [shape |-> "SingleWriter", count |-> 0]
      [] OTHER                       -> [shape |-> "PrimaryReaders", count |-> Cardinality(members) - 1]

has_failover_target(t) ==
    CASE t.shape = "SingleWriter"   -> FALSE
      [] t.shape = "PrimaryReaders" -> t.count >= 1
      [] t.shape = "Quorum"         -> t.count >= 3 /\ t.count % 2 = 1

topology_class(t) == IF t.shape = "Quorum" THEN "FullyDistributed" ELSE "MasterSlave"

\* default <- discovered <- override; the caller refuses an illegal result.
resolve_permutation(engine, t, overlay) ==
    [f \in {"class", "placement", "spot", "replica", "failover"} |->
       IF f \in DOMAIN overlay THEN overlay[f]
       ELSE IF f = "class" THEN topology_class(t) ELSE default_permutation(engine)[f]]

-----------------------------------------------------------------------------
VARIABLES
    engine,      \* what runs
    perm,        \* the resolved permutation
    members,     \* the live replication set
    primary,     \* its writable primary
    fstate,      \* FailoverMachine
    fsignal,     \* the signal the shell carries: [primary, candidate, attempt]
    promotions,  \* promotions begun and not answered, with what the engine did;
                 \* "attempt" tells two of them apart, and no event carries it
    draining,    \* nodes authorized for reclaim
    signals_seen,
    withdrawn    \* history: a notice was withdrawn while a promotion or a
                 \* drain it had begun was still under way

database_vars == <<engine, perm, members, primary, fstate, fsignal, promotions, draining, signals_seen,
                   withdrawn>>

DatabaseInit ==
    /\ engine \in DbEngine /\ members \in (SUBSET Replicas) \ {{}}
    /\ \E o \in Overlays :
         /\ perm = resolve_permutation(engine, discover_topology(engine, members), o)
         /\ validate_permutation(perm)
    /\ primary = CHOOSE r \in members : TRUE
    /\ fstate = "Steady" /\ fsignal = [primary |-> 0, candidate |-> 0, attempt |-> 0]
    /\ promotions = {} /\ draining = {} /\ signals_seen = 0 /\ withdrawn = FALSE

\* The pure machine: the next state and action; no edge leaves the state.
\* Mutant: the node is given up when the promotion begins.
failover_step_eager(s, event) ==
    CASE event = "ReclaimCleared" -> <<"Steady", "Hold">>
      [] s = "Steady" /\ event = "PrimaryReclaimSignal" -> <<"PrimaryReclaimSignaled", "Hold">>
      [] s \in {"PrimaryReclaimSignaled", "ReclaimBlocked"} /\ event = "PromotableTargetAvailable"
             -> <<"FailedOver", "ReclaimOldPrimary">>
      [] s = "FailedOver" /\ event = "OldPrimaryDrained" -> <<"OldPrimaryReclaimed", "Hold">>
      [] OTHER -> <<s, "Illegal">>

failover_step(s, event) ==
    CASE event = "ReclaimCleared" -> <<"Steady", "Hold">>
      [] s = "Steady" /\ event = "PrimaryReclaimSignal" -> <<"PrimaryReclaimSignaled", "Hold">>
      [] s \in {"PrimaryReclaimSignaled", "ReclaimBlocked"} /\ event = "PromotableTargetAvailable"
             -> <<"PromotingReplica", "PromoteReplica">>
      [] s = "PrimaryReclaimSignaled" /\ event = "NoPromotableTarget"
             -> <<"ReclaimBlocked", "BlockReclaimEscalate">>
      [] s = "PromotingReplica" /\ event = "PromotionSucceeded" -> <<"FailedOver", "ReclaimOldPrimary">>
      [] s = "FailedOver" /\ event = "OldPrimaryDrained" -> <<"OldPrimaryReclaimed", "Hold">>
      [] OTHER -> <<s, "Illegal">>

\* FailoverMachine::on, and the shell's part: it begins the promotion of the
\* candidate it carries and lets the signalled primary's node go.
on(event) ==
    LET step == failover_step(fstate, event)
    IN /\ fstate' = step[1]
       /\ promotions' = IF step[2] = "PromoteReplica"
                        THEN promotions \cup {[candidate |-> fsignal.candidate, attempt |-> fsignal.attempt,
                                               done |-> FALSE]}
                        ELSE promotions
       /\ draining' = IF step[2] = "ReclaimOldPrimary" THEN draining \cup {fsignal.primary} ELSE draining

\* A spot notice for the primary's node, where the primary runs on spot.  The
\* shell carries a signal the machine took.
PrimaryReclaimSignal(c) ==
    /\ signals_seen < MaxSignals /\ perm.spot = "SpotEvenPrimary" /\ c \in Replicas \ {primary}
    /\ c \in members \/ members = {primary}
    /\ on("PrimaryReclaimSignal")
    /\ signals_seen' = signals_seen + 1
    /\ fsignal' = IF fstate = "Steady"
                  THEN [primary |-> primary, candidate |-> c, attempt |-> signals_seen + 1] ELSE fsignal
    /\ UNCHANGED <<engine, perm, members, primary, withdrawn>>

\* target_event; an unreadable status is no event.
Discover ==
    /\ fstate \in {"PrimaryReclaimSignaled", "ReclaimBlocked"}
    /\ on(IF has_failover_target(discover_topology(engine, members))
          THEN "PromotableTargetAvailable" ELSE "NoPromotableTarget")
    /\ UNCHANGED <<engine, perm, members, primary, fsignal, signals_seen, withdrawn>>

\* The engine makes the candidate its primary, if it is still a member.
EnginePromotes ==
    \E p \in promotions :
      /\ ~p.done /\ p.candidate \in members
      /\ primary' = p.candidate
      /\ promotions' = (promotions \ {p}) \cup {[p EXCEPT !.done = TRUE]}
      /\ UNCHANGED <<engine, perm, members, fstate, fsignal, draining, signals_seen, withdrawn>>

\* The actuator's answer arrives, perhaps long after.  The machine takes any
\* answer for the promotion it waits for.
PromotionSucceeded ==
    \E p \in promotions :
      /\ p.done
      /\ LET step == failover_step(fstate, "PromotionSucceeded")
         IN /\ fstate' = step[1] /\ promotions' = promotions \ {p}
            /\ draining' = IF step[2] = "ReclaimOldPrimary"
                           THEN draining \cup {fsignal.primary} ELSE draining
      /\ UNCHANGED <<engine, perm, members, primary, fsignal, signals_seen, withdrawn>>

\* The node goes, and the old primary with it.
OldPrimaryDrained ==
    \E n \in draining :
      /\ draining' = draining \ {n} /\ members' = members \ {n}
      /\ fstate' = failover_step(fstate, "OldPrimaryDrained")[1]
      /\ UNCHANGED <<engine, perm, primary, fsignal, promotions, signals_seen, withdrawn>>

\* The notice is withdrawn: the machine is back in Steady.  What its actions
\* had begun goes on.
ReclaimCleared ==
    /\ fstate # "Steady"
    /\ fstate' = failover_step(fstate, "ReclaimCleared")[1]
    /\ withdrawn' = (withdrawn \/ promotions # {} \/ draining # {})
    /\ UNCHANGED <<engine, perm, members, primary, fsignal, promotions, draining, signals_seen>>

\* Readers breathe freely, quorums by two; never the primary.
ScaleReplicas ==
    LET step == CASE perm.replica = "NeverScale" -> 0
                  [] perm.replica = "ScaleReadersFreely" -> 1
                  [] perm.replica = "QuorumOddSteps" -> 2
    IN /\ step > 0
       /\ \E S \in SUBSET Replicas :
            /\ Cardinality(S) = step
            /\ \/ S \cap members = {} /\ members' = members \cup S
               \/ S \subseteq members \ {primary} /\ members' = members \ S
       /\ UNCHANGED <<engine, perm, primary, fstate, fsignal, promotions, draining, signals_seen, withdrawn>>

\* A member is lost or comes back by itself.
MemberFlaps ==
    /\ \E r \in Replicas \ {primary} : members' \in {members \ {r}, members \cup {r}} \ {members}
    /\ UNCHANGED <<engine, perm, primary, fstate, fsignal, promotions, draining, signals_seen, withdrawn>>

DatabaseNext ==
    \/ Discover \/ EnginePromotes \/ PromotionSucceeded \/ OldPrimaryDrained \/ ReclaimCleared
    \/ ScaleReplicas \/ MemberFlaps \/ \E c \in Replicas : PrimaryReclaimSignal(c)

DatabaseSpec == DatabaseInit /\ [][DatabaseNext]_database_vars

-----------------------------------------------------------------------------
\* The writable primary is never given up: whatever members come and go, the
\* node that is reclaimed is never the primary's ("reclaim the writable primary
\* before a failover has NO code path").  A notice withdrawn in the middle of a
\* promotion refutes it: the late answer, taken for the promotion of the next
\* notice, gives up the node of the primary that the first one made.
PrimaryKept == primary \in members

\* Short of that, it holds through any number of notices, blocked reclaims,
\* clean failovers, lost members and candidates: while no notice was withdrawn
\* before what it had begun was over, no reclaim takes the primary.
PrimaryKeptUnlessWithdrawn == ~withdrawn => PrimaryKept
=============================================================================
