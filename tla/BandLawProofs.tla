---------------------------- MODULE BandLawProofs ----------------------------
(***************************************************************************)
(* What the control law returns, for every configuration and observation:  *)
(* the lemmas the proofs of the bands that run it rest on; and what the    *)
(* proofs need to know of numbers.                                         *)
(***************************************************************************)
EXTENDS BandLaw, WellFoundedInduction, TLAPS

\* Any set of numbers with a member has a least one.
LEMMA LeastNatural ==
    ASSUME NEW T, T \subseteq Nat, T # {}
    PROVE  \E m \in T : \A n \in T : m <= n
<1>1. PICK m \in T : \A n \in T : ~(<<n, m>> \in OpToRel(<, Nat))
    BY NatLessThanWellFounded, WFMin
<1>2. ASSUME NEW n \in T PROVE m <= n
    <2>1. n \in Nat /\ m \in Nat
        OBVIOUS
    <2>2. ASSUME n < m PROVE FALSE
        <3>1. <<n, m>> \in OpToRel(<, Nat)
            BY <2>1, <2>2 DEF OpToRel
        <3>2. QED
            BY <1>1, <3>1
    <2>3. QED
        BY <2>1, <2>2
<1>3. QED
    BY <1>2

\* The larger of two numbers is one of them and bounds both.
LEMMA LargerBounds ==
    ASSUME NEW a \in Int, NEW b \in Int
    PROVE  /\ Larger(a, b) \in {a, b}
           /\ Larger(a, b) >= a /\ Larger(a, b) >= b
BY DEF Larger

\* Rounded products and quotients are capacities, and DivCeil rounds up.
LEMMA Rounding ==
    ASSUME NEW n \in Nat, NEW p \in Nat
    PROVE  /\ MulCeil(n, p) \in Nat
           /\ MulFloor(n, p) \in Nat
           /\ p # 0 => DivCeil(n, p) \in Nat /\ DivCeil(n, p) * p >= 100 * n
<1>1. n * p \in Nat /\ n * 100 \in Nat
    OBVIOUS
<1>2. MulCeil(n, p) \in Nat /\ MulFloor(n, p) \in Nat
    BY <1>1 DEF MulCeil, MulFloor
<1>3. ASSUME p # 0
      PROVE  DivCeil(n, p) \in Nat /\ DivCeil(n, p) * p >= 100 * n
    <2> DEFINE a == n * 100 + p - 1
    <2>1. a \in Nat
        BY <1>1, <1>3
    <2>2. a \div p \in Nat /\ a < (a \div p) * p + p
        BY <2>1, <1>3
    <2>3. QED
        BY <2>1, <2>2, <1>3 DEF DivCeil
<1>4. QED
    BY <1>2, <1>3

\* A configuration as the loop runs it: validated, with its request floor
\* possibly raised.
UsableConfig(c) == c \in BandConfig /\ c.setpoint \in 1..100

\* The never-OOM floor seats the peak at the setpoint and respects both
\* configured floors.
LEMMA SafeMinSeats ==
    ASSUME NEW peak \in Nat, NEW used \in Nat, NEW c, UsableConfig(c)
    PROVE  LET m == safe_min(peak, used, c)
           IN  /\ m \in Nat
               /\ m * c.setpoint >= 100 * peak
               /\ m >= c.request_floor_bytes /\ m >= c.floor_bytes
<1> DEFINE top == Larger(peak, used)
           d   == DivCeil(top, c.setpoint)
           m   == safe_min(peak, used, c)
<1>1. /\ c.setpoint \in 1..100 /\ c.request_floor_bytes \in Nat /\ c.floor_bytes \in Nat
    BY DEF UsableConfig, BandConfig
<1>2. top \in Nat /\ top >= peak
    BY LargerBounds
<1>3. d \in Nat /\ d * c.setpoint >= 100 * top
    <2>1. c.setpoint \in Nat /\ c.setpoint # 0
        BY <1>1
    <2>2. QED
        BY <1>2, <2>1, Rounding
<1>4. m \in Nat /\ m >= d /\ m >= c.request_floor_bytes /\ m >= c.floor_bytes
    BY <1>1, <1>3 DEF safe_min, Larger
<1>5. m * c.setpoint >= d * c.setpoint
    BY <1>1, <1>3, <1>4
<1>6. m * c.setpoint >= 100 * peak
    BY <1>1, <1>2, <1>3, <1>4, <1>5
<1>7. QED
    BY <1>4, <1>6

\* A law's proposal is a capacity, with or without prediction.
LEMMA ProposalType ==
    ASSUME NEW used \in Nat, NEW limit_ \in Nat, NEW c, UsableConfig(c), NEW ahead \in Int
    PROVE  /\ propose(used, limit_, c) \in Nat
           /\ propose_with_rate(used, limit_, c, ahead) \in Nat
<1>1. c.grow_factor \in Nat /\ c.shrink_factor \in Nat /\ c.setpoint \in Nat \ {0}
    BY DEF UsableConfig, BandConfig
<1>2. MulCeil(limit_, c.grow_factor) \in Nat /\ MulFloor(limit_, c.shrink_factor) \in Nat
    BY <1>1, Rounding
<1>3. propose(used, limit_, c) \in Nat
    BY <1>2 DEF propose
<1> DEFINE predicted == Larger(used + ahead, 0)
<1>4. predicted \in Nat
    BY LargerBounds
<1>5. DivCeil(predicted, c.setpoint) \in Nat
    BY <1>1, <1>4, Rounding
<1>6. propose_with_rate(used, limit_, c, ahead) \in Nat
    BY <1>3, <1>4, <1>5 DEF propose_with_rate, Larger
<1>7. QED
    BY <1>3, <1>6

\* Whatever a law proposes, the scaffold answers with a decision about this
\* limit, and a shrink of a limit inside the ceiling stops at the safe
\* minimum and comes from a trusted reading.
LEMMA ScaffoldSafe ==
    ASSUME NEW raw, NEW used, NEW peak, NEW limit_, NEW c, UsableConfig(c),
           raw \in Nat, used \in Nat, peak \in Nat, limit_ \in Nat
    PROVE  LET d == Scaffold(raw, used, peak, limit_, c)
           IN  /\ d \in Decision
               /\ d.from = limit_
               /\ d.kind = "Shrink" /\ limit_ <= c.ceiling_bytes
                    => d.to >= safe_min(peak, used, c) /\ ~metric_untrusted(used, c)
<1>1. c.floor_bytes \in Nat /\ c.ceiling_bytes \in Nat
    BY DEF UsableConfig, BandConfig
<1>2. safe_min(peak, used, c) \in Nat /\ safe_min(peak, 0, c) \in Nat
    BY SafeMinSeats
<1> DEFINE d == Scaffold(raw, used, peak, limit_, c)
<1>3. CASE limit_ < c.floor_bytes
    BY <1>1, <1>3 DEF Scaffold, Decide, Decision, DecisionKind
<1>4. CASE ~(limit_ < c.floor_bytes) /\ limit_ > c.ceiling_bytes
    BY <1>1, <1>4 DEF Scaffold, Decide, Decision, DecisionKind
<1>5. CASE /\ ~(limit_ < c.floor_bytes) /\ ~(limit_ > c.ceiling_bytes)
           /\ metric_untrusted(used, c)
    BY <1>1, <1>2, <1>5
       DEF Scaffold, metric_untrusted_decision, Stay, Decide, Decision, DecisionKind
<1>6. CASE /\ ~(limit_ < c.floor_bytes) /\ ~(limit_ > c.ceiling_bytes)
           /\ ~metric_untrusted(used, c)
    <2>1. d = safety_clamp(raw, used, peak, limit_, c)
        BY <1>6 DEF Scaffold
    <2> DEFINE up == Smaller(raw, c.ceiling_bytes)
               down == Larger(raw, safe_min(peak, used, c))
    <2>2. up \in Nat /\ down \in Nat /\ down >= safe_min(peak, used, c)
        BY <1>1, <1>2 DEF Smaller, Larger
    <2>3. CASE raw > limit_
        BY <2>1, <2>2, <2>3 DEF safety_clamp, Stay, Decide, Decision, DecisionKind
    <2>4. CASE raw < limit_
        BY <2>1, <2>2, <2>4, <1>6 DEF safety_clamp, Stay, Decide, Decision, DecisionKind
    <2>5. CASE raw = limit_
        BY <2>1, <2>5 DEF safety_clamp, Stay, Decide, Decision, DecisionKind
    <2>6. QED
        BY <2>3, <2>4, <2>5
<1>7. QED
    BY <1>3, <1>4, <1>5, <1>6

-----------------------------------------------------------------------------
(***************************************************************************)
(* Numbers: induction, recursive functions over 0..N, quotients.           *)
(***************************************************************************)
\* A set of numbers with zero and every successor has all of them.
LEMMA AllNaturals ==
    ASSUME NEW T, 0 \in T, \A n \in Nat : n \in T => n + 1 \in T
    PROVE  \A n \in Nat : n \in T
<1> DEFINE K == {n \in Nat : n \notin T}
<1>1. ASSUME K # {} PROVE FALSE
    <2>1. K \subseteq Nat
        OBVIOUS
    <2> HIDE DEF K
    <2>2. PICK m \in K : \A n \in K : m <= n
        BY <1>1, <2>1, LeastNatural
    <2>3. m \in Nat /\ m \notin T
        BY DEF K
    <2>4. m # 0 /\ m - 1 \in Nat /\ ~(m <= m - 1) /\ (m - 1) + 1 = m
        BY <2>3
    <2>5. m - 1 \in K
        BY <2>3, <2>4 DEF K
    <2>6. QED
        BY <2>2, <2>4, <2>5
<1>2. QED
    BY <1>1

\* The steps of a recursion over 0..N: what starts in V[0] and is taken from
\* V[n] to V[n + 1] by its step n is in V[n] after n steps.
LEMMA Follows ==
    ASSUME NEW N \in Nat, NEW V, NEW f, f[0] \in V[0],
           \A n \in Nat : n < N /\ f[n] \in V[n] => f[n + 1] \in V[n + 1]
    PROVE  \A n \in 0..N : f[n] \in V[n]
<1> DEFINE T == {n \in Nat : n <= N => f[n] \in V[n]}
<1>1. 0 \in T
    OBVIOUS
<1>2. ASSUME NEW n \in Nat, n \in T PROVE n + 1 \in T
    <2> SUFFICES ASSUME n + 1 <= N PROVE f[n + 1] \in V[n + 1]
        OBVIOUS
    <2>1. n < N /\ n <= N
        OBVIOUS
    <2>2. f[n] \in V[n]
        BY <1>2, <2>1
    <2>3. QED
        BY <2>1, <2>2
<1> HIDE DEF T
<1>3. \A n \in Nat : n \in T
    BY <1>1, <1>2, AllNaturals
<1>4. QED
    BY <1>3 DEF T

\* A recursion over 0..N from base by the steps F.
Recursion(f, base, F, N) == f = [n \in 0..N |-> IF n = 0 THEN base ELSE F[<<n - 1, f[n - 1]>>]]

\* There is such a recursion.
LEMMA RecursionExists ==
    ASSUME NEW base, NEW F
    PROVE  \A N \in Nat : \E f : Recursion(f, base, F, N)
<1> DEFINE T == {N \in Nat : \E f : Recursion(f, base, F, N)}
<1>1. 0 \in T
    <2> DEFINE f == [n \in 0..0 |-> base]
    <2>1. \A n \in 0..0 : n = 0
        OBVIOUS
    <2>2. f = [n \in 0..0 |-> IF n = 0 THEN base ELSE F[<<n - 1, f[n - 1]>>]]
        BY <2>1, Zenon
    <2> HIDE DEF f
    <2>3. Recursion(f, base, F, 0)
        BY <2>2, Zenon DEF Recursion
    <2>4. QED
        BY <2>3
<1>2. ASSUME NEW N \in Nat, N \in T PROVE N + 1 \in T
    <2>1. PICK f : Recursion(f, base, F, N)
        BY <1>2
    <2> DEFINE g == [n \in 0..N + 1 |-> IF n = 0 THEN base ELSE F[<<n - 1, f[n - 1]>>]]
    <2>2. \A n \in 0..N : n \in 0..N + 1
        OBVIOUS
    <2>3. \A n \in 0..N : f[n] = g[n]
        BY <2>1, <2>2, Zenon DEF Recursion
    <2>4. \A n \in 0..N + 1 : n # 0 => n - 1 \in 0..N
        OBVIOUS
    <2>5. \A n \in 0..N + 1 : (IF n = 0 THEN base ELSE F[<<n - 1, f[n - 1]>>])
                               = (IF n = 0 THEN base ELSE F[<<n - 1, g[n - 1]>>])
        <3> HIDE DEF g
        <3>1. QED
            BY <2>3, <2>4, Zenon
    <2>6. g = [n \in 0..N + 1 |-> IF n = 0 THEN base ELSE F[<<n - 1, g[n - 1]>>]]
        BY <2>5, Zenon
    <2> HIDE DEF g
    <2>7. Recursion(g, base, F, N + 1)
        BY <2>6, Zenon DEF Recursion
    <2>8. QED
        BY <2>7
<1> HIDE DEF T
<1>3. \A N \in Nat : N \in T
    BY <1>1, <1>2, AllNaturals
<1>4. QED
    BY <1>3 DEF T

\* A recursion that stays in D.
LEMMA RecursionIn ==
    ASSUME NEW N \in Nat, NEW D, NEW base \in D, NEW F, \A n \in Nat : \A x \in D : F[<<n, x>>] \in D
    PROVE  \E f : /\ Recursion(f, base, F, N)
                  /\ \A n \in 0..N : f[n] \in D
<1>1. PICK f : Recursion(f, base, F, N)
    BY RecursionExists
<1>2. f[0] = base /\ \A n \in Nat : n < N => f[n + 1] = F[<<n, f[n]>>]
    <2>1. \A n \in 0..N : f[n] = IF n = 0 THEN base ELSE F[<<n - 1, f[n - 1]>>]
        BY <1>1, Zenon DEF Recursion
    <2>2. 0 \in 0..N
        OBVIOUS
    <2>3. f[0] = base
        BY <2>1, <2>2, Zenon
    <2>4. ASSUME NEW n \in Nat, n < N PROVE f[n + 1] = F[<<n, f[n]>>]
        <3>1. n + 1 \in 0..N /\ n + 1 # 0 /\ (n + 1) - 1 = n
            BY <2>4
        <3>2. QED
            BY <2>1, <3>1, Zenon
    <2>5. QED
        BY <2>3, <2>4
<1> DEFINE V == [n \in Nat |-> D]
<1>3. f[0] \in V[0]
    BY <1>2
<1>4. ASSUME NEW n \in Nat, n < N, f[n] \in V[n] PROVE f[n + 1] \in V[n + 1]
    <2>1. f[n] \in D /\ n + 1 \in Nat
        BY <1>4
    <2>2. F[<<n, f[n]>>] \in D
        BY <2>1
    <2>3. QED
        BY <1>2, <1>4, <2>1, <2>2
<1>5. \A n \in 0..N : V[n] = D
    OBVIOUS
<1> HIDE DEF V
<1>6. \A n \in 0..N : f[n] \in V[n]
    BY <1>3, <1>4, Follows
<1>7. QED
    BY <1>1, <1>5, <1>6

\* A quotient, and its remainder.
LEMMA Quotient ==
    ASSUME NEW m \in Nat, NEW d \in Nat \ {0}
    PROVE  m \div d \in Nat /\ d * (m \div d) <= m /\ m < d * (m \div d) + d
OBVIOUS

\* A common factor cancels.
LEMMA Cancel ==
    ASSUME NEW d \in Nat \ {0}, NEW a \in Int, NEW b \in Int, d * a <= d * b
    PROVE  a <= b
OBVIOUS
=============================================================================
