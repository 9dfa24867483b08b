---------------------------- MODULE ControlLaws -----------------------------
(***************************************************************************)
(* The control laws beside the default one (breathe-control/src/lib.rs),   *)
(* the size a grow-only carve comes to, and the quantities limits are      *)
(* written in.  Every law only proposes: its target passes through the     *)
(* Scaffold of BandLaw.  Proposing the limit itself is Proposal::Hold.     *)
(*                                                                         *)
(* The loop below runs one law against a workload whose use moves a few    *)
(* times and whose throttle signal comes and goes.                         *)
(***************************************************************************)
EXTENDS BandLaw

CONSTANTS
    LawCfgs,        \* validated BandConfigs of the loop
    LawLoads,       \* working sets
    Gain,           \* ProportionalLaw, in percent of the gap
    MaxStep,        \* SlewLimited, in percent of the limit
    Slice,          \* QuantizedSlice
    Increment,      \* Aimd, additive step
    Backoff,        \* Aimd, multiplicative decrease in percent
    Headrooms,      \* what a SharedBudget's siblings may leave
    MaxGrowSteps,   \* carve_fixpoint's bound on its steps (128 in the code)
    MaxLawMoves     \* bound on moves of the workload and of its throttle

Laws == {"Band", "Proportional", "Slew", "Quantized", "ThrottleAware",
         "Percentile", "Aimd", "Burst", "Shared"}

ASSUME LawAssumption ==
    /\ \A c \in LawCfgs : c \in BandConfig /\ validate(c)
    /\ LawLoads \subseteq Nat \ {0} /\ Headrooms \subseteq Nat
    /\ Gain \in 1..100 /\ MaxStep \in 1..100 /\ Backoff \in 1..99
    /\ Slice \in Nat \ {0} /\ Increment \in Nat \ {0}
    /\ MaxGrowSteps \in Nat /\ MaxLawMoves \in Nat

-----------------------------------------------------------------------------
(***************************************************************************)
(* The laws.                                                               *)
(***************************************************************************)
Over(used, limit, c)  == used * 100 > c.grow_above * limit
Under(used, limit, c) == used * 100 < c.shrink_below * limit
Seat(used, c)         == DivCeil(used, c.setpoint)

\* Rounded to the nearest, half away from zero, of num/den (den > 0).
Round(num, den) ==
    IF num >= 0 THEN (2 * num + den) \div (2 * den) ELSE -((2 * (-num) + den) \div (2 * den))

\* Part of the way to the limit that seats the working set at the setpoint.
ProportionalLaw(used, limit, c) ==
    IF Over(used, limit, c) \/ Under(used, limit, c)
    THEN Larger(Round(100 * c.setpoint * limit + (100 * used - c.setpoint * limit) * Gain,
                      100 * c.setpoint), 0)
    ELSE limit

\* No further than MaxStep from the limit, and never less than one unit.
SlewLimited(target, limit) ==
    LET up   == Larger(MulFloor(limit, MaxStep), 1)
        down == Larger(MulCeil(limit, MaxStep), 1)
    IN Smaller(Larger(target, Larger(limit - down, 0)), limit + up)

\* Mutant: snapped to the quantum below.
snap_up_down(target, limit) == IF target = limit THEN limit ELSE (target \div Slice) * Slice

\* Rounded up to the next quantum, in both directions.
snap_up(target, limit) ==
    IF target = limit THEN limit ELSE ((target + Slice - 1) \div Slice) * Slice

ThrottleAware(target, limit, throttled) ==
    IF throttled THEN Larger(target, limit) ELSE target

PercentileBand(used, limit, c) ==
    IF Over(used, limit, c) \/ Under(used, limit, c) THEN Seat(used, c) ELSE limit

Aimd(limit, throttled) == IF throttled THEN MulFloor(limit, Backoff) ELSE limit + Increment

\* Gives back half as fast as the band.
BurstBudget(used, limit, c) ==
    IF Over(used, limit, c) THEN Seat(used, c)
    ELSE IF Under(used, limit, c) THEN (limit * (100 + c.shrink_factor)) \div 200
    ELSE limit

clamp_grow_to_headroom(target, limit, headroom) ==
    IF target > limit THEN Smaller(target, limit + headroom) ELSE target

\* One law's proposal.
law_propose(law, used, limit, c, throttled, headroom) ==
    LET band == propose(used, limit, c)
    IN CASE law = "Band"          -> band
         [] law = "Proportional"  -> ProportionalLaw(used, limit, c)
         [] law = "Slew"          -> SlewLimited(ProportionalLaw(used, limit, c), limit)
         [] law = "Quantized"     -> snap_up(band, limit)
         [] law = "ThrottleAware" -> ThrottleAware(band, limit, throttled)
         [] law = "Percentile"    -> PercentileBand(used, limit, c)
         [] law = "Aimd"          -> Aimd(limit, throttled)
         [] law = "Burst"         -> BurstBudget(used, limit, c)
         [] law = "Shared"        -> clamp_grow_to_headroom(band, limit, headroom)

-----------------------------------------------------------------------------
(***************************************************************************)
(* The size a grow-only carve comes to (carve_fixpoint), and how it is     *)
(* judged.                                                                 *)
(***************************************************************************)
provision_target(peak, used, c) == safe_min(peak, used, c)

carve_grow_ceiling(target, c) == MulCeil(target, c.grow_factor)

classify_provision(provisioned, peak, used, c) ==
    LET target == provision_target(peak, used, c)
    IN IF provisioned < target THEN "UnderProvisioned"
       ELSE IF provisioned <= carve_grow_ceiling(target, c) THEN "RightSized"
       ELSE "OverProvisioned"

\* One step of the grow-only carve, or the size itself once it stops growing.
carve_step(size, used, c) ==
    LET d == clamp_to_directionality(decide_with(used, used, size, c), "GrowOnly")
    IN IF d.kind = "Grow" /\ d.to > size THEN d.to ELSE size

\* The sizes the carve goes through from the floor.
carve_steps(used, c) ==
    LET sizes[n \in 0..MaxGrowSteps] ==
            IF n = 0 THEN Larger(c.floor_bytes, 1) ELSE carve_step(sizes[n - 1], used, c)
    IN sizes

carve_fixpoint(used, c) == carve_steps(used, c)[MaxGrowSteps]

carve_output_verdict(used, c) == classify_provision(carve_fixpoint(used, c), used, used, c)

-----------------------------------------------------------------------------
(***************************************************************************)
(* Quantities.  A quantity string is a number of thousandths with a        *)
(* suffix; Unit::parse scales it and truncates, Display writes the scalar. *)
(***************************************************************************)
Units == {"Bytes", "Millicores", "Count", "BitsPerSec", "BytesPerSec", "Iops",
          "Rps", "Pps", "Duration", "Percent", "Cents", "BurstUsec"}

Malformed == -1

Scale(table, q) == IF q.suffix \in DOMAIN table THEN (q.milli * table[q.suffix]) \div 1000 ELSE Malformed

parse_bytes(q) == Scale([none |-> 1, Ki |-> 1024, Mi |-> 1024 * 1024, k |-> 1000, M |-> 1000000], q)
parse_count(q) == Scale([none |-> 1, k |-> 1000, M |-> 1000000], q)
parse_duration_secs(q) == Scale([none |-> 1, s |-> 1, m |-> 60, h |-> 3600, d |-> 86400], q)
parse_percent(q) == IF q.suffix \in {"none", "%"} THEN (q.milli + 500) \div 1000 ELSE Malformed
parse_cents(q) ==
    CASE q.suffix = "none" -> IF q.milli % 1000 = 0 THEN q.milli \div 1000 ELSE Malformed
      [] q.suffix = "$"    -> (q.milli + 5) \div 10
      [] OTHER             -> Malformed
parse_millicores(q) ==
    CASE q.suffix = "n"    -> q.milli \div 1000000000
      [] q.suffix = "u"    -> q.milli \div 1000000
      [] q.suffix = "m"    -> q.milli \div 1000
      [] q.suffix = "none" -> q.milli
      [] OTHER             -> Malformed

parse(unit, q) ==
    CASE unit \in {"Bytes", "BytesPerSec"} -> parse_bytes(q)
      [] unit = "Millicores"               -> parse_millicores(q)
      [] unit = "Duration"                 -> parse_duration_secs(q)
      [] unit = "Percent"                  -> parse_percent(q)
      [] unit = "Cents"                    -> parse_cents(q)
      [] OTHER                             -> parse_count(q)

\* Display for Quantity: millicores carry their suffix, the rest is bare.
render(unit, v) ==
    [milli |-> 1000 * v, suffix |-> IF unit = "Millicores" THEN "m" ELSE "none"]

-----------------------------------------------------------------------------
(***************************************************************************)
(* The loop.                                                               *)
(***************************************************************************)
VARIABLES law, lcfg, lused, lpeak, llimit, lthrottled, lmoves

law_vars == <<law, lcfg, lused, lpeak, llimit, lthrottled, lmoves>>

LawInit ==
    /\ law \in Laws /\ lcfg \in LawCfgs /\ lused \in LawLoads
    /\ lpeak = lused
    /\ llimit \in {lcfg.floor_bytes, (lcfg.floor_bytes + lcfg.ceiling_bytes) \div 2}
    /\ lthrottled = FALSE /\ lmoves = 0

\* The unit each law's limit is written in, in the loop.
UnitOf == [Band |-> "Bytes", Proportional |-> "Millicores", Slew |-> "BytesPerSec",
           Quantized |-> "Count", ThrottleAware |-> "BitsPerSec", Percentile |-> "Percent",
           Aimd |-> "Rps", Burst |-> "BurstUsec", Shared |-> "Cents"]

\* decide_with_rate, and the limit the decision leaves as it is read back.
LawTick ==
    /\ \E headroom \in Headrooms :
       \E d \in {Scaffold(law_propose(law, lused, llimit, lcfg, lthrottled, headroom),
                          lused, lpeak, llimit, lcfg)} :
            llimit' = parse(UnitOf[law], render(UnitOf[law], d.to))
    /\ lpeak' = update_peak(lpeak, lused, 50)
    /\ UNCHANGED <<law, lcfg, lused, lthrottled, lmoves>>

LawLoadMoves ==
    /\ lmoves < MaxLawMoves /\ lmoves' = lmoves + 1
    /\ \E u \in LawLoads \ {lused} : lused' = u
    /\ lpeak' = Larger(lpeak, lused')
    /\ UNCHANGED <<law, lcfg, llimit, lthrottled>>

LawThrottles ==
    /\ lmoves < MaxLawMoves /\ lmoves' = lmoves + 1
    /\ lthrottled' = ~lthrottled
    /\ UNCHANGED <<law, lcfg, lused, lpeak, llimit>>

LawNext == LawTick \/ LawLoadMoves \/ LawThrottles

LawSpec == LawInit /\ [][LawNext]_law_vars

-----------------------------------------------------------------------------
(***************************************************************************)
(* Properties.                                                             *)
(***************************************************************************)
\* The limit is not outgrown, or the ceiling, a shared budget or a back-off
\* under throttle keeps it.
LawRelieved ==
    \/ ~Over(lused, llimit, lcfg) \/ llimit = lcfg.ceiling_bytes
    \/ law = "Shared" \/ (law = "Aimd" /\ lthrottled)

\* Whatever the law, the limit comes to rest once the workload does, and
\* what it rests at is not outgrown.
LawRests == <>[][llimit' = llimit]_law_vars /\ <>[]LawRelieved

\* The grow-only carve never comes to a size its own detector calls
\* over-provisioned.
NeverOverProvisions == carve_output_verdict(lused, lcfg) # "OverProvisioned"
=============================================================================
