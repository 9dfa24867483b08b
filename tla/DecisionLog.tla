---------------------------- MODULE DecisionLog -----------------------------
(***************************************************************************)
(* The decision log behind a band's counters (breathe-store lib.rs,        *)
(* gate.rs, pg.rs; fold_counters and build_stores of the controller): each *)
(* tick's decision is classified, the gate withholds one that changed      *)
(* nothing until a heartbeat is due, the tier folds it into the counters,  *)
(* and the counters go to the band's status.  One controller runs at a     *)
(* time (the Deployment is recreated, not rolled); it crashes, reads its   *)
(* status from a cache that may lag, and its wall clock may step back.     *)
(* A row's hash and chain link are left out: rows are what was counted.    *)
(***************************************************************************)
EXTENDS Integers

CONSTANTS
    Heartbeat,       \* decision_heartbeat_seconds, in clock steps; 0 is no gate
    MaxDecisions,    \* bound on counted decisions and on changes of the standing one
    MaxStoreFaults   \* bound on failed calls, crashes, stale reads, clock steps

ASSUME DecisionLogAssumption == {Heartbeat, MaxDecisions, MaxStoreFaults} \subseteq Nat

VARIABLES
    dtier,      \* StoreConfig: "InMemory" or "Postgres"
    dstatus,    \* the counters in the band's status, and before its last patch
    dregistry,  \* the band_registry row: [known, counters]
    dlogged,    \* the counted rows of decision_log, by class
    dgate,      \* LastAppend: [known, entry, age, counters]; the age is by wall clock
    dstanding,  \* what the band decides when nothing moves it
    dtick,      \* the reconcile: [at, entry, view, counters]
    dfirst,     \* the counters the band came with
    dmade,      \* counted decisions made so far, and those the store refused
    dfaults

log_vars == <<dtier, dstatus, dregistry, dlogged, dgate, dstanding, dtick, dfirst, dmade, dfaults>>

Counted == {"Carve", "Conflict"}
NoCounts == {"Observed", "Shadow"}
ZERO == [c \in Counted |-> 0]

Between == [at |-> "idle", entry |-> "Observed", view |-> ZERO, counters |-> ZERO]
NoAppend == [known |-> FALSE, entry |-> "Observed", age |-> 0, counters |-> ZERO]

LogInit ==
    /\ dtier \in {"InMemory", "Postgres"}
    /\ dfirst \in {ZERO, [ZERO EXCEPT !["Carve"] = 1]}
    /\ dstatus = [now |-> dfirst, before |-> dfirst]
    /\ dregistry = [known |-> FALSE, counters |-> ZERO] /\ dlogged = ZERO
    /\ dgate = NoAppend /\ dstanding \in NoCounts /\ dtick = Between
    /\ dmade = [all |-> 0, refused |-> 0, changes |-> 0] /\ dfaults = 0

Fault == dfaults < MaxStoreFaults /\ dfaults' = dfaults + 1

\* CumulativeCounters::fold.
fold(counters, entry) == [c \in Counted |-> IF entry = c THEN counters[c] + 1 ELSE counters[c]]

-----------------------------------------------------------------------------

\* A clock behind the last append writes.
skip_verdict(entry) ==
    /\ entry \in NoCounts /\ dgate.known /\ dgate.entry = entry
    /\ dgate.age >= 0 /\ dgate.age < Heartbeat

\* The tick decided (entry_for); its status is read from the cache.
LogTick(entry) ==
    /\ dtick.at = "idle"
    /\ \/ entry = dstanding /\ UNCHANGED dmade
       \/ /\ entry \in Counted /\ dmade.all < MaxDecisions
          /\ dmade' = [dmade EXCEPT !.all = @ + 1]
    /\ \E view \in {dstatus.now, dstatus.before} :
         /\ IF view = dstatus.now THEN UNCHANGED dfaults ELSE Fault
         /\ dtick' = [at |-> IF skip_verdict(entry) THEN "patch" ELSE "append", entry |-> entry,
                      view |-> view, counters |-> dgate.counters]
    /\ UNCHANGED <<dtier, dstatus, dregistry, dlogged, dgate, dstanding, dfirst>>

\* What the tier makes of the decision: the memory tier folds onto the
\* status, Postgres onto its own row, which the first decision creates.
Durable == IF dregistry.known THEN dregistry.counters ELSE dtick.view
Folded  == fold(IF dtier = "Postgres" THEN Durable ELSE dtick.view, dtick.entry)

Commit ==
    IF dtier = "Postgres"
    THEN /\ dregistry' = [known |-> TRUE, counters |-> Folded]
         /\ dlogged' = fold(dlogged, dtick.entry)
    ELSE UNCHANGED <<dregistry, dlogged>>

append ==
    /\ dtick.at = "append"
    /\ Commit
    /\ dgate' = [known |-> TRUE, entry |-> dtick.entry, age |-> 0, counters |-> Folded]
    /\ dtick' = [dtick EXCEPT !.at = "patch", !.counters = Folded]
    /\ UNCHANGED <<dtier, dstatus, dstanding, dfirst, dmade, dfaults>>

\* Mutant: the count goes on without the store.
held_counters_advanced == fold(dtick.view, dtick.entry)

\* fold_counters: on an error the count stays.
held_counters == dtick.view

\* The store failed: nothing was committed, or only the answer was lost.
AppendFails ==
    /\ dtick.at = "append" /\ dtier = "Postgres" /\ Fault
    /\ \/ /\ UNCHANGED <<dregistry, dlogged>>
          /\ dmade' = [dmade EXCEPT !.refused = @ + (IF dtick.entry \in Counted THEN 1 ELSE 0)]
       \/ Commit /\ UNCHANGED dmade
    /\ dtick' = [dtick EXCEPT !.at = "patch", !.counters = held_counters]
    /\ UNCHANGED <<dtier, dstatus, dgate, dstanding, dfirst>>

\* patch_status_if_changed: a status equal to the one read is not written;
\* other fields of it may differ.
PatchCounters ==
    /\ dtick.at = "patch" /\ dtick' = Between
    /\ \/ dstatus' = [now |-> dtick.counters, before |-> dstatus.now] /\ UNCHANGED dfaults
       \/ dtick.counters = dtick.view /\ UNCHANGED <<dstatus, dfaults>>
       \/ Fault /\ UNCHANGED dstatus
    /\ UNCHANGED <<dtier, dregistry, dlogged, dgate, dstanding, dfirst, dmade>>

\* A new process has an empty gate and lists the status anew.
ControllerCrash ==
    /\ Fault
    /\ dmade' = [dmade EXCEPT !.refused =
                   @ + (IF dtick.at = "append" /\ dtick.entry \in Counted THEN 1 ELSE 0)]
    /\ dgate' = NoAppend /\ dtick' = Between
    /\ dstatus' = [dstatus EXCEPT !.before = dstatus.now]
    /\ UNCHANGED <<dtier, dregistry, dlogged, dstanding, dfirst>>

StandingMoves ==
    /\ dmade.changes < MaxDecisions /\ dmade' = [dmade EXCEPT !.changes = @ + 1]
    /\ dstanding' \in NoCounts \ {dstanding}
    /\ UNCHANGED <<dtier, dstatus, dregistry, dlogged, dgate, dtick, dfirst, dfaults>>

LogClock ==
    /\ dgate.known /\ dgate.age < Heartbeat
    /\ dgate' = [dgate EXCEPT !.age = @ + 1]
    /\ UNCHANGED <<dtier, dstatus, dregistry, dlogged, dstanding, dtick, dfirst, dmade, dfaults>>

ClockStepsBack ==
    /\ dgate.known /\ Fault
    /\ \E a \in -1..(dgate.age - 1) : dgate' = [dgate EXCEPT !.age = a]
    /\ UNCHANGED <<dtier, dstatus, dregistry, dlogged, dstanding, dtick, dfirst, dmade>>

LogNext ==
    \/ append \/ AppendFails \/ PatchCounters \/ ControllerCrash \/ StandingMoves \/ LogClock \/ ClockStepsBack
    \/ \E entry \in Counted \cup NoCounts : LogTick(entry)

LogSpec == LogInit /\ [][LogNext]_log_vars

\* Reconciles go on, and time does.
LogFairness ==
    /\ WF_log_vars(\E entry \in NoCounts : LogTick(entry)) /\ WF_log_vars(append)
    /\ WF_log_vars(PatchCounters) /\ WF_log_vars(LogClock)

-----------------------------------------------------------------------------
Total(counters) == counters["Carve"] + counters["Conflict"]

\* With the durable tier, every counted decision the store did not refuse has
\* its row, the registry is what the rows add up to, and the status never
\* claims more than the registry, whatever failed half way.
CountsBacked ==
    dtier = "Postgres" =>
        /\ Total(dlogged) + dmade.refused
               + (IF dtick.at = "append" /\ dtick.entry \in Counted THEN 1 ELSE 0) = dmade.all
        /\ \A c \in Counted :
             /\ dregistry.known => dregistry.counters[c] = dfirst[c] + dlogged[c]
             /\ dstatus.now[c] <= (IF dregistry.known THEN dregistry.counters[c] ELSE dfirst[c])

\* A status left behind by a lost answer or patch catches up with the
\* registry: withheld ticks cannot keep it behind for ever.
Behind == dtier = "Postgres" /\ dregistry.known /\ dstatus.now # dregistry.counters
CountsCatchUp == []<>~Behind
=============================================================================
