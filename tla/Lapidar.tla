------------------------------ MODULE Lapidar -------------------------------
(***************************************************************************)
(* The self-tuning loop of a controlled band (breathe-control/src/         *)
(* lapidar.rs, BandConfig::with_override): one bounded change of one       *)
(* parameter at a time, tried on the in-memory configuration, kept if the  *)
(* window that follows scores better and undone otherwise.                 *)
(*                                                                         *)
(* A window's quality is what analyze leaves of it for suggest and step:   *)
(* enough samples, a breach, thrash, waste, and a score to compare.  The   *)
(* driver that applies, keeps and undoes a change is external, as the      *)
(* comments of step describe it.                                           *)
(***************************************************************************)
EXTENDS BandLaw

CONSTANTS
    TunedCfgs,      \* valid configurations an operator may write
    Scores,         \* scores a window may have
    MaxEdits        \* bound on operator edits

TunedParam == {"Setpoint", "GrowAbove", "ShrinkBelow", "WarmupSeconds"}
Quality    == [enough : BOOLEAN, breach : BOOLEAN, thrash : BOOLEAN, waste : BOOLEAN, score : Scores]

ASSUME TuneAssumption ==
    /\ TunedCfgs # {} /\ \A c \in TunedCfgs : c \in BandConfig /\ validate(c)
    /\ Scores \subseteq Nat /\ MaxEdits \in Nat

NoChange == [param |-> "none", from |-> 0, to |-> 0]
Clamp(v, lo, hi) == Smaller(Larger(v, lo), hi)

SetpointStep == 2       \* SETPOINT_STEP

\* At most one bounded change; breaches before thrash before waste.
suggest(q, c) ==
    LET lower == Clamp(c.setpoint - SetpointStep, c.shrink_below, c.grow_above)
        wider == Clamp(c.grow_above + SetpointStep, c.setpoint, 98)
        raise == Clamp(c.setpoint + SetpointStep, c.shrink_below, c.grow_above)
    IN CASE ~q.enough -> NoChange
         [] q.enough /\ q.breach /\ lower < c.setpoint ->
              [param |-> "Setpoint", from |-> c.setpoint, to |-> lower]
         [] q.enough /\ ~(q.breach /\ lower < c.setpoint) /\ q.thrash /\ wider > c.grow_above ->
              [param |-> "GrowAbove", from |-> c.grow_above, to |-> wider]
         [] q.enough /\ ~q.breach /\ ~q.thrash /\ q.waste /\ raise > c.setpoint ->
              [param |-> "Setpoint", from |-> c.setpoint, to |-> raise]
         [] OTHER -> NoChange

\* Mutant: the stored value is taken as it stands.
with_override_stale(c, change) ==
    CASE change.param = "Setpoint"      -> [c EXCEPT !.setpoint = change.to]
      [] change.param = "GrowAbove"     -> [c EXCEPT !.grow_above = change.to]
      [] change.param = "ShrinkBelow"   -> [c EXCEPT !.shrink_below = change.to]
      [] change.param = "WarmupSeconds" -> [c EXCEPT !.warmup_seconds = change.to]
      [] OTHER -> c

\* Clamped between its neighbours, whatever the spec has become since; a
\* never-shrink band is not tunable on that axis.
with_override(c, change) ==
    CASE change.param = "Setpoint"      -> [c EXCEPT !.setpoint = Clamp(change.to, c.shrink_below, c.grow_above)]
      [] change.param = "GrowAbove"     -> [c EXCEPT !.grow_above = Clamp(change.to, c.setpoint, 100)]
      [] change.param = "ShrinkBelow"   ->
           IF c.shrink_below = 0 THEN c ELSE [c EXCEPT !.shrink_below = Clamp(change.to, 1, c.setpoint)]
      [] change.param = "WarmupSeconds" -> [c EXCEPT !.warmup_seconds = Larger(change.to, 0)]
      [] OTHER -> c

VARIABLES
    tspec,    \* the band's spec
    tstate,   \* Lapidacao: [phase, change, baseline]
    tuned,    \* the change in force, NoChange for none
    tedits

tune_vars == <<tspec, tstate, tuned, tedits>>

TuneInit ==
    /\ tspec \in TunedCfgs /\ tuned = NoChange /\ tedits = 0
    /\ tstate = [phase |-> "Observing", change |-> NoChange, baseline |-> 0]

Effective == with_override(tspec, tuned)

\* step, with what the driver does on entering each state.
Suggests(q) ==
    /\ tstate.phase = "Observing"
    /\ \E s \in {suggest(q, Effective)} :
         IF s = NoChange THEN UNCHANGED <<tstate, tuned>>
         ELSE /\ tstate' = [phase |-> "Trial", change |-> s, baseline |-> q.score]
              /\ tuned' = s
    /\ UNCHANGED <<tspec, tedits>>

Judges(q) ==
    /\ tstate.phase = "Trial"
    /\ tstate' = [tstate EXCEPT !.phase = "Settled"]
    /\ IF q.score < tstate.baseline THEN tspec' = Effective ELSE UNCHANGED tspec
    /\ tuned' = NoChange
    /\ UNCHANGED tedits

Rests ==
    /\ tstate.phase = "Settled"
    /\ tstate' = [phase |-> "Observing", change |-> NoChange, baseline |-> 0]
    /\ UNCHANGED <<tspec, tuned, tedits>>

\* The operator rewrites the spec under a trial.
SpecEdited ==
    /\ tedits < MaxEdits /\ tedits' = tedits + 1
    /\ tspec' \in TunedCfgs \ {tspec}
    /\ UNCHANGED <<tstate, tuned>>

TuneNext == Rests \/ SpecEdited \/ \E q \in Quality : Suggests(q) \/ Judges(q)

TuneSpec == TuneInit /\ [][TuneNext]_tune_vars

-----------------------------------------------------------------------------
\* Whatever the operator did to the spec under a trial, the configuration a
\* tick runs on has its deadband in order, tuning never makes a band shrink
\* that its operator froze, and a band that may shrink stays valid.
TunedSound ==
    /\ Effective.shrink_below <= Effective.setpoint
    /\ Effective.setpoint <= Effective.grow_above /\ Effective.grow_above <= 100
    /\ (tspec.shrink_below = 0) = (Effective.shrink_below = 0)
    /\ tspec.shrink_below > 0 => validate(Effective)

\* The tuned configuration is always valid ("infallible, debug-asserted").
TunedValid == validate(Effective)
=============================================================================
