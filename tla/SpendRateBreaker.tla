-------------------------- MODULE SpendRateBreaker --------------------------
(***************************************************************************)
(* The spend-rate circuit breaker of breathe-lifecycle (breaker.rs, layer  *)
(* 2): a gauge of dollars per hour with a three-state breaker over it,     *)
(* behind a mutex, so that each call is one step.  Callers provision,      *)
(* report the outcome of a trial, and release what they provisioned; the   *)
(* callers are external, and behave as the methods' docs require.          *)
(***************************************************************************)
EXTENDS Naturals, FiniteSets, FiniteSetsExt

CONSTANTS
    Callers,
    Rates,             \* marginal rates a caller may ask for
    capacity_rate,     \* capacity_dollars_per_hour
    cooldown_seconds,
    Billing,           \* readings the billing signal may true the gauge up to
    MaxNow             \* bound on the clock

ASSUME BreakerAssumption ==
    /\ IsFiniteSet(Callers)
    /\ Rates \subseteq Nat \ {0} /\ capacity_rate \in Nat \ {0}
    /\ cooldown_seconds \in Nat /\ Billing \subseteq Nat /\ MaxNow \in Nat

None == 0

VARIABLES
    now,
    available,   \* available_dollars_per_hour
    state,       \* Closed, Open, HalfOpen
    opened_at,   \* opened_at_unix
    reserved,    \* half_open_reserved; None = no trial in flight
    spend,       \* per caller: the rate of what it has provisioned, 0 = nothing
    trial,       \* the callers that owe the outcome of a trial
    reopened,    \* history: when the breaker last went Open
    corrected    \* history: the gauge has been trued up to a billing reading

core == <<available, state, opened_at, reserved>>
spend_vars == <<now, core, spend, trial, reopened, corrected>>

SpendTypeOK ==
    /\ now \in 0..MaxNow
    /\ available \in 0..capacity_rate
    /\ state \in {"Closed", "Open", "HalfOpen"}
    /\ opened_at \in 0..MaxNow
    /\ reserved \in Rates \cup {None}
    /\ spend \in [Callers -> Rates \cup {0}]
    /\ trial \subseteq Callers
    /\ reopened \in 0..MaxNow
    /\ corrected \in BOOLEAN

SpendInit ==
    /\ now = 0
    /\ available = capacity_rate /\ state = "Closed"
    /\ opened_at = 0 /\ reserved = None
    /\ spend = [c \in Callers |-> 0]
    /\ trial = {} /\ reopened = 0 /\ corrected = FALSE

Capped(amount) == IF amount > capacity_rate THEN capacity_rate ELSE amount

\* Mutant: a breaker that opens again keeps the hour it first opened at.
trip_unstamped == state' = "Open" /\ reopened' = now /\ UNCHANGED opened_at

trip == state' = "Open" /\ opened_at' = now /\ reopened' = now

\* One trial per window; a request the headroom does not cover waits.
\* in_flight is half_open_reserved as the call finds it.
admit_half_open(c, rate, in_flight) ==
    /\ state' = "HalfOpen"
    /\ IF in_flight = None /\ rate <= available
       THEN /\ available' = available - rate
            /\ reserved' = rate
            /\ spend' = [spend EXCEPT ![c] = rate]
            /\ trial' = trial \cup {c}
       ELSE reserved' = in_flight /\ UNCHANGED <<available, spend, trial>>
    /\ UNCHANGED <<opened_at, reopened>>

admit_closed(c, rate) ==
    IF rate > available
    THEN trip /\ UNCHANGED <<available, reserved, spend, trial>>
    ELSE /\ available' = available - rate
         /\ spend' = [spend EXCEPT ![c] = rate]
         /\ UNCHANGED <<state, opened_at, reserved, trial, reopened>>

\* A breaker whose cooldown has elapsed forgets any reservation and samples.
try_admit(c, rate) ==
    /\ spend[c] = 0
    /\ \/ /\ state = "Open" /\ now - opened_at >= cooldown_seconds
          /\ admit_half_open(c, rate, None)
       \/ state = "HalfOpen" /\ admit_half_open(c, rate, reserved)
       \/ state = "Closed" /\ admit_closed(c, rate)
    /\ UNCHANGED <<now, corrected>>

\* Mutant: a failed trial is not refunded.
record_trial_outcome_unrefunded(c, success) ==
    /\ c \in trial
    /\ trial' = trial \ {c}
    /\ reserved' = None
    /\ IF success
       THEN state' = "Closed" /\ opened_at' = 0 /\ UNCHANGED <<spend, reopened>>
       ELSE spend' = [spend EXCEPT ![c] = 0] /\ trip
    /\ UNCHANGED <<now, corrected, available>>

record_trial_outcome(c, success) ==
    /\ c \in trial
    /\ trial' = trial \ {c}
    /\ reserved' = None
    /\ IF success
       THEN state' = "Closed" /\ opened_at' = 0 /\ UNCHANGED <<available, spend, reopened>>
       ELSE /\ available' = Capped(available + reserved)
            /\ spend' = [spend EXCEPT ![c] = 0]
            /\ trip
    /\ UNCHANGED <<now, corrected>>

release(c) ==
    /\ spend[c] > 0 /\ c \notin trial
    /\ available' = Capped(available + spend[c])
    /\ spend' = [spend EXCEPT ![c] = 0]
    /\ UNCHANGED <<now, state, opened_at, reserved, trial, reopened, corrected>>

true_up_headroom(reading) ==
    /\ available' = Capped(reading)
    /\ corrected' = TRUE
    /\ UNCHANGED <<now, state, opened_at, reserved, spend, trial, reopened>>

Second == now < MaxNow /\ now' = now + 1 /\ UNCHANGED <<core, spend, trial, reopened, corrected>>

TrialReports == \E c \in Callers, success \in BOOLEAN : record_trial_outcome(c, success)

SpendNext ==
    \/ \E c \in Callers, rate \in Rates : try_admit(c, rate)
    \/ TrialReports
    \/ \E c \in Callers : release(c)
    \/ \E reading \in Billing : true_up_headroom(reading)
    \/ Second

SpendSpec == SpendInit /\ [][SpendNext]_spend_vars

-----------------------------------------------------------------------------
\* Until a billing correction, headroom is conserved: what is provisioned
\* and what is left always make up the capacity, so admissions, refunds of
\* failed trials and releases never manufacture or lose budget.
HeadroomConserved ==
    ~corrected => available + MapThenSumSet(LAMBDA c : spend[c], Callers) = capacity_rate

\* A trial is in flight exactly while one caller owes its outcome, and only
\* in HalfOpen: no admission, release or correction can leave an Open or a
\* Closed breaker with a reservation behind.
OneTrial ==
    /\ Cardinality(trial) <= 1
    /\ reserved # None <=> trial # {}
    /\ trial # {} => state = "HalfOpen"

\* Nothing is admitted within a cooldown of the breaker going Open, whether
\* it tripped or a trial failed.
RestsWhenOpen ==
    [][\A c \in Callers : spend[c] = 0 /\ spend'[c] > 0 /\ state # "Closed"
        => now - reopened >= cooldown_seconds]_spend_vars

\* What the breaker promises of its trials and its rest, all the time.
TrialsRest == []OneTrial /\ RestsWhenOpen
=============================================================================
