---------------------------- MODULE StorageCarve ----------------------------
(***************************************************************************)
(* The storage-carve safety triad (breathe-control/src/carve_safety.rs):   *)
(* the ownership parse, the durability class, the not-in-use proof, the    *)
(* bounded grow step, and the two commits that consume them.  A witness is *)
(* stamped with the tick it was minted in and moved into the commit that   *)
(* uses it; the facts it was minted from go on changing.                   *)
(***************************************************************************)
EXTENDS Integers, FiniteSets

CONSTANTS
    Volumes,
    Targets,        \* sizes the band may ask for
    StepAbs,        \* GROW_STEP_ABS_CAP_BYTES
    MaxFlips        \* bound on changes of a volume's facts

ASSUME CarveAssumption ==
    /\ Volumes # {} /\ Targets \subseteq Nat \ {0} /\ StepAbs \in Nat \ {0}
    /\ MaxFlips \in Nat

DataRole == {"SaasState", "RebuildableFromSource", "Unknown"}

\* What the apiserver shows of a volume: VolumeIdentity (in the footprint by
\* tag, role label or namespace), ConsumerReachability, VolumeOpState, role.
Facts == [owned : BOOLEAN, role : DataRole, consumers : 0..1, attached : BOOLEAN,
          resizing : BOOLEAN, size : Nat]

VARIABLES
    volume,    \* per volume: its facts
    witness,   \* the witnesses held: OwnedPvc, NotInUse, SmallAtomicGrow; age
               \* is 0 while TickId is the one they were minted in
    command,   \* the last command emitted, or NoCommand
    flips

carve_vars == <<volume, witness, command, flips>>

NoCommand == [op |-> "none", vol |-> 0, to |-> 0]

CarveInit ==
    /\ witness = {} /\ command = NoCommand /\ flips = 0
    /\ volume \in [Volumes -> [owned : BOOLEAN, role : DataRole, consumers : {0}, attached : BOOLEAN,
                               resizing : {FALSE}, size : {10}]]

\* Mutant: a witness of any tick will do.
is_fresh_always(w) == TRUE

is_fresh(w) == w.age = 0

is_orphan(f) == f.consumers = 0 /\ ~f.attached

\* min(+2Gi, +20%).
grow_step_cap(size) == IF size \div 5 <= StepAbs THEN size \div 5 ELSE StepAbs

\* The three parses.  None of the witnesses but OwnedPvc names its volume:
\* "of" is the volume the facts were read from, which the code does not keep.
try_own(v) ==
    /\ volume[v].owned
    /\ witness' = witness \cup {[kind |-> "Owned", of |-> v, age |-> 0, from |-> 0, to |-> 0]}

prove_not_in_use(v) ==
    /\ is_orphan(volume[v])
    /\ witness' = witness \cup {[kind |-> "NotInUse", of |-> v, age |-> 0, from |-> 0, to |-> 0]}

plan_grow(v, desired) ==
    LET size == volume[v].size
        cap  == grow_step_cap(size)
    IN /\ desired > size /\ cap > 0
       /\ witness' = witness \cup
            {[kind |-> "Grow", of |-> v, age |-> 0, from |-> size,
              to |-> IF desired <= size + cap THEN desired ELSE size + cap]}

Mint ==
    /\ Cardinality(witness) < 2
    /\ \E v \in Volumes :
         try_own(v) \/ prove_not_in_use(v) \/ \E d \in Targets : plan_grow(v, d)
    /\ UNCHANGED <<volume, command, flips>>

\* classify_durability: durable unless proven regenerable.
Regenerable(v) == volume[v].role = "RebuildableFromSource"

Owned    == {w \in witness : w.kind = "Owned"}
Proofs   == {w \in witness : w.kind = "NotInUse"}
Grows    == {w \in witness : w.kind = "Grow"}

\* commit_small_atomic_grow; a refusal consumes the witnesses too.
commit_small_atomic_grow(own, grow) ==
    /\ witness' = witness \ {own, grow}
    /\ IF is_fresh(own) /\ is_fresh(grow) /\ ~volume[own.of].resizing
       THEN /\ command' = [op |-> "Grow", vol |-> own.of, to |-> grow.to]
            /\ volume' = [volume EXCEPT ![own.of].size = grow.to, ![own.of].resizing = TRUE]
       ELSE UNCHANGED <<command, volume>>
    /\ UNCHANGED flips

\* RegenerableVolume::release and recreate.
release(own, proof) ==
    /\ Regenerable(own.of)
    /\ witness' = witness \ {own, proof}
    /\ IF is_fresh(own) /\ is_fresh(proof)
       THEN command' = [op |-> "Release", vol |-> own.of, to |-> 0]
       ELSE UNCHANGED command
    /\ UNCHANGED <<volume, flips>>

\* The next reconcile; witnesses may be carried into it.
NextTick ==
    /\ command' = NoCommand
    /\ volume' = [v \in Volumes |-> [volume[v] EXCEPT !.resizing = FALSE]]
    /\ \E kept \in SUBSET witness : witness' = {[w EXCEPT !.age = 1] : w \in kept}
    /\ UNCHANGED flips

\* A pod attaches or leaves, or a label changes.
FactsFlip ==
    /\ flips < MaxFlips /\ flips' = flips + 1
    /\ \E v \in Volumes :
         \/ volume' = [volume EXCEPT ![v].owned = ~@]
         \/ volume' = [volume EXCEPT ![v].consumers = 1 - @, ![v].attached = (volume[v].consumers = 0)]
    /\ UNCHANGED <<witness, command>>

CarveNext ==
    \/ Mint \/ NextTick \/ FactsFlip
    \/ \E own \in Owned : \/ \E g \in Grows : commit_small_atomic_grow(own, g)
                          \/ \E p \in Proofs : release(own, p)

CarveSpec == CarveInit /\ [][CarveNext]_carve_vars

-----------------------------------------------------------------------------
\* A command rests on ownership and on a proof or a plan of the same tick,
\* consumed with it: no witness carried over a tick, and none used twice,
\* reaches a volume.
CarveWitnessed ==
    [][command' # command /\ command'.op # "none" =>
          /\ \E w \in witness \ witness' : w.kind = "Owned" /\ w.of = command'.vol /\ w.age = 0
          /\ \E w \in witness \ witness' : w.kind # "Owned" /\ w.age = 0]_carve_vars

\* A volume that is released had no consumer when its proof was taken
\* ("releasing an in-use block has no code path").
ReleaseUnused ==
    [][command' # command /\ command'.op = "Release" =>
          \E w \in witness \ witness' : w.kind = "NotInUse" /\ w.of = command'.vol]_carve_vars
=============================================================================
