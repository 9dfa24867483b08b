---------------------------- MODULE QuinhaoProofs ----------------------------
(***************************************************************************)
(* The shares of a pool are fair, for every number of claimants, every     *)
(* weight, floor, cap and demand, every forest and every capacity.         *)
(*                                                                         *)
(* First what sums over a finite set are: the table a fold fills, by       *)
(* induction on the set.  Then the water-fill: what a pass keeps (Filled), *)
(* and that enough passes leave nothing to do (Dry).  Then the forest:     *)
(* after a level for each depth every grant is the split of the parent's   *)
(* own grant.  Then the dominant-resource kernel, whose level is the least *)
(* of the axes' quotients.  Last the controller that stores the ledger.    *)
(***************************************************************************)
EXTENDS Quinhao, BandLawProofs, FiniteSetTheorems, TLAPS

-----------------------------------------------------------------------------
(***************************************************************************)
(* Induction over finite sets, sums over them, and iterated steps.         *)
(***************************************************************************)
\* A family of sets that has the empty one, and a set whenever it has what is
\* left of it without some element, has every finite set.
LEMMA AllFiniteSets ==
    ASSUME NEW S, IsFiniteSet(S), NEW P, {} \in P,
           \A s \in SUBSET S : (\E x \in s : s \ {x} \in P) => s \in P
    PROVE  S \in P
<1> DEFINE T == {n \in Nat : \A s \in SUBSET S : Cardinality(s) = n => s \in P}
<1>1. \A s \in SUBSET S : IsFiniteSet(s) /\ Cardinality(s) \in Nat
    BY FS_Subset, FS_CardinalityType
<1>2. 0 \in T
    <2> SUFFICES ASSUME NEW s \in SUBSET S, Cardinality(s) = 0 PROVE s \in P
        OBVIOUS
    <2>1. s = {}
        BY <1>1, FS_EmptySet
    <2>2. QED
        BY <2>1
<1>3. ASSUME NEW n \in Nat, n \in T PROVE n + 1 \in T
    <2> SUFFICES ASSUME NEW s \in SUBSET S, Cardinality(s) = n + 1 PROVE s \in P
        OBVIOUS
    <2>1. s # {}
        <3>1. Cardinality({}) = 0
            BY FS_EmptySet
        <3>2. n + 1 # 0
            OBVIOUS
        <3>3. QED
            BY <3>1, <3>2
    <2>2. PICK x : x \in s
        BY <2>1
    <2>3. Cardinality(s \ {x}) = Cardinality(s) - 1
        BY <1>1, <2>2, FS_RemoveElement
    <2>a. Cardinality(s \ {x}) = n /\ s \ {x} \in SUBSET S
        BY <2>3
    <2>4. s \ {x} \in P
        BY <1>3, <2>a
    <2>5. QED
        BY <2>2, <2>4
<1> HIDE DEF T
<1>4. \A n \in Nat : n \in T => n + 1 \in T
    BY <1>3
<1>5. \A n \in Nat : n \in T
    BY <1>2, <1>4, AllNaturals
<1>6. Cardinality(S) \in T
    BY <1>1, <1>5
<1>7. QED
    BY <1>6 DEF T

\* The element a fold takes next, and the table a fold over the sets of D
\* fills: b for the empty one, F of an element and the entry of the rest.
First(s) == CHOOSE x \in s : TRUE

Table(h, b, F, D) == h = [s \in D |-> IF s = {} THEN b ELSE F[<<First(s), h[s \ {First(s)}]>>]]

\* Every finite set has its table, with entries in V if b is and F keeps to it.
LEMMA TableExists ==
    ASSUME NEW S, IsFiniteSet(S), NEW V, NEW b \in V, NEW F, \A x \in S : \A y \in V : F[<<x, y>>] \in V
    PROVE  \E h : Table(h, b, F, SUBSET S) /\ \A s \in SUBSET S : h[s] \in V
<1> DEFINE UpTo(n) == {s \in SUBSET S : Cardinality(s) <= n}
           In(h, D) == \A s \in D : h[s] \in V
           T == {n \in Nat : \E h : Table(h, b, F, UpTo(n)) /\ In(h, UpTo(n))}
<1>0. \A s \in SUBSET S : IsFiniteSet(s) /\ Cardinality(s) \in Nat
    BY FS_Subset, FS_CardinalityType
<1>1. 0 \in T
    <2> DEFINE h == [s \in UpTo(0) |-> b]
    <2>1. \A s \in UpTo(0) : s = {}
        <3> SUFFICES ASSUME NEW s \in SUBSET S, Cardinality(s) <= 0 PROVE s = {}
            OBVIOUS
        <3>1. Cardinality(s) = 0
            BY <1>0
        <3>2. QED
            BY <1>0, <3>1, FS_EmptySet
    <2>2. Table(h, b, F, UpTo(0))
        BY <2>1, Zenon DEF Table
    <2>3. In(h, UpTo(0))
        OBVIOUS
    <2>4. QED
        BY <2>2, <2>3
<1>2. ASSUME NEW n \in Nat, n \in T PROVE n + 1 \in T
    <2>1. PICK h : Table(h, b, F, UpTo(n)) /\ In(h, UpTo(n))
        BY <1>2
    <2> DEFINE g == [s \in UpTo(n + 1) |-> IF s = {} THEN b ELSE F[<<First(s), h[s \ {First(s)}]>>]]
    <2>2. \A s \in UpTo(n) : h[s] = IF s = {} THEN b ELSE F[<<First(s), h[s \ {First(s)}]>>]
        BY <2>1, Zenon DEF Table
    <2>3. \A s \in UpTo(n) : s \in UpTo(n + 1)
        <3> SUFFICES ASSUME NEW s \in SUBSET S, Cardinality(s) <= n PROVE Cardinality(s) <= n + 1
            OBVIOUS
        <3>1. QED
            BY <1>0
    <2>4. \A s \in UpTo(n + 1) : s # {} => First(s) \in S /\ s \ {First(s)} \in UpTo(n)
        <3> SUFFICES ASSUME NEW s \in SUBSET S, Cardinality(s) <= n + 1, s # {}
                     PROVE  First(s) \in S /\ s \ {First(s)} \in UpTo(n)
            OBVIOUS
        <3>1. First(s) \in s
            BY DEF First
        <3>2. Cardinality(s \ {First(s)}) = Cardinality(s) - 1 /\ s \ {First(s)} \in SUBSET S
            BY <1>0, <3>1, FS_RemoveElement
        <3>3. QED
            BY <1>0, <3>1, <3>2
    <2> HIDE DEF UpTo
    <2>5. \A s \in UpTo(n) : g[s] = h[s]
        BY <2>2, <2>3, Zenon
    <2>6. \A s \in UpTo(n + 1) :
            (IF s = {} THEN b ELSE F[<<First(s), h[s \ {First(s)}]>>])
              = (IF s = {} THEN b ELSE F[<<First(s), g[s \ {First(s)}]>>])
        <3> HIDE DEF g
        <3>1. QED
            BY <2>4, <2>5, Zenon
    <2>7. g = [s \in UpTo(n + 1) |-> IF s = {} THEN b ELSE F[<<First(s), g[s \ {First(s)}]>>]]
        BY <2>6, Zenon
    <2>a. In(g, UpTo(n + 1))
        <3> SUFFICES ASSUME NEW s \in UpTo(n + 1) PROVE g[s] \in V
            OBVIOUS
        <3>1. CASE s = {}
            BY <3>1
        <3>2. CASE s # {}
            <4>1. First(s) \in S /\ h[s \ {First(s)}] \in V
                BY <2>1, <2>4, <3>2
            <4>2. g[s] = F[<<First(s), h[s \ {First(s)}]>>]
                BY <3>2, Zenon
            <4> HIDE DEF g
            <4>3. QED
                BY <4>1, <4>2
        <3>3. QED
            BY <3>1, <3>2
    <2> HIDE DEF g, In
    <2>8. Table(g, b, F, UpTo(n + 1))
        BY <2>7, Zenon DEF Table
    <2>9. QED
        BY <2>8, <2>a
<1>3. Cardinality(S) \in T
    <2> HIDE DEF T
    <2>1. \A n \in Nat : n \in T => n + 1 \in T
        BY <1>2
    <2>2. QED
        BY <1>0, <1>1, <2>1, AllNaturals
<1>4. UpTo(Cardinality(S)) = SUBSET S
    BY FS_Subset
<1>5. QED
    BY <1>3, <1>4

\* A table of sums.
Sums(h, f, D) == h = [s \in D |-> IF s = {} THEN 0 ELSE f[First(s)] + h[s \ {First(s)}]]

\* Every finite set has its table of sums.
LEMMA SumsExist ==
    ASSUME NEW S, IsFiniteSet(S), NEW f, \A x \in S : f[x] \in Int
    PROVE  \E h : Sums(h, f, SUBSET S)
<1> DEFINE F == [z \in S \X Int |-> f[z[1]] + z[2]]
<1>1. \A x \in S : \A y \in Int : F[<<x, y>>] = f[x] + y /\ f[x] + y \in Int
    OBVIOUS
<1> HIDE DEF F
<1>2. 0 \in Int /\ \A x \in S : \A y \in Int : F[<<x, y>>] \in Int
    BY <1>1
<1>3. PICK h : Table(h, 0, F, SUBSET S) /\ \A s \in SUBSET S : h[s] \in Int
    BY <1>2, TableExists
<1>4. \A s \in SUBSET S : s # {} => First(s) \in S /\ h[s \ {First(s)}] \in Int
    BY <1>3 DEF First
<1>5. \A s \in SUBSET S : s # {} => F[<<First(s), h[s \ {First(s)}]>>] = f[First(s)] + h[s \ {First(s)}]
    BY <1>1, <1>4
<1>6. h = [s \in SUBSET S |-> IF s = {} THEN 0 ELSE f[First(s)] + h[s \ {First(s)}]]
    BY <1>3, <1>5, Zenon DEF Table
<1>7. QED
    BY <1>6, Zenon DEF Sums

\* A sum over a finite set is the entry of its table.
LEMMA SumIsEntry ==
    ASSUME NEW S, IsFiniteSet(S), NEW f, \A x \in S : f[x] \in Int
    PROVE  \E h : Sums(h, f, SUBSET S) /\ SumFunctionOnSet(f, S) = h[S]
<1> DEFINE h == CHOOSE h : h = [s \in SUBSET S |->
                                IF s = {} THEN 0
                                ELSE f[CHOOSE x \in s : TRUE] + h[s \ {CHOOSE x \in s : TRUE}]]
<1>1. \E g : Sums(g, f, SUBSET S)
    BY SumsExist
<1>2. Sums(h, f, SUBSET S)
    BY <1>1, Zenon DEF Sums, First
<1>3. SumFunctionOnSet(f, S) = h[S]
    BY Zenon DEF SumFunctionOnSet, FoldFunctionOnSet, MapThenFoldSet
<1> HIDE DEF h
<1>4. QED
    BY <1>2, <1>3

\* The table holds the sums over the subsets, and does not depend on the
\* order the elements are taken in.
Adds(h, f, D) ==
    /\ h[{}] = 0
    /\ \A s \in D : h[s] \in Int /\ \A x \in s : h[s] = f[x] + h[s \ {x}]

\* A table of sums adds up, whichever element is taken first.
LEMMA TableOfSums ==
    ASSUME NEW S, IsFiniteSet(S), NEW f, \A x \in S : f[x] \in Int, NEW h, Sums(h, f, SUBSET S)
    PROVE  Adds(h, f, SUBSET S)
<1>1. \A s \in SUBSET S : h[s] = IF s = {} THEN 0 ELSE f[First(s)] + h[s \ {First(s)}]
    BY Zenon DEF Sums
<1>2. h[{}] = 0
    <2>1. {} \in SUBSET S
        OBVIOUS
    <2>2. QED
        BY <1>1, <2>1, Zenon
<1>3. \A s \in SUBSET S : s # {} => First(s) \in s /\ h[s] = f[First(s)] + h[s \ {First(s)}]
    BY <1>1 DEF First
<1> DEFINE Free(s) == h[s] \in Int /\ \A x \in s : h[s] = f[x] + h[s \ {x}]
           T == {n \in Nat : \A s \in SUBSET S : Cardinality(s) <= n => Free(s)}
<1>4. \A s \in SUBSET S : IsFiniteSet(s) /\ Cardinality(s) \in Nat
    BY FS_Subset, FS_CardinalityType
<1>a. Free({})
    BY <1>2
<1>b. ASSUME NEW s \in SUBSET S, \A x \in s : Free(s \ {x}), \A x, y \in s : Free((s \ {x}) \ {y})
      PROVE  Free(s)
    <2>1. CASE s = {}
        BY <1>a, <2>1
    <2>2. CASE s # {}
        <3> DEFINE y == First(s)
        <3>1. y \in s /\ h[s] = f[y] + h[s \ {y}]
            BY <1>3, <2>2
        <3> HIDE DEF y
        <3>a. \A x \in s : /\ f[x] \in Int /\ h[s \ {x}] \in Int
                           /\ \A z \in s \ {x} : h[s \ {x}] = f[z] + h[(s \ {x}) \ {z}]
            BY <1>b
        <3>2. h[s] \in Int
            BY <3>1, <3>a
        <3>3. ASSUME NEW x \in s PROVE h[s] = f[x] + h[s \ {x}]
            <4>1. CASE x = y
                BY <3>1, <4>1
            <4>2. CASE x # y
                <5> DEFINE r == h[(s \ {x}) \ {y}]
                <5>1. (s \ {y}) \ {x} = (s \ {x}) \ {y}
                    OBVIOUS
                <5>2. h[s \ {y}] = f[x] + r /\ h[s \ {x}] = f[y] + r
                    <6>1. x \in s \ {y} /\ y \in s \ {x}
                        BY <3>1, <4>2
                    <6>2. h[s \ {y}] = f[x] + h[(s \ {y}) \ {x}]
                        BY <3>1, <3>a, <6>1
                    <6>3. h[s \ {x}] = f[y] + h[(s \ {x}) \ {y}]
                        BY <3>1, <3>a, <6>1
                    <6>4. QED
                        BY <5>1, <6>2, <6>3
                <5>3. r \in Int /\ f[x] \in Int /\ f[y] \in Int
                    BY <1>b, <3>1
                <5> HIDE DEF r
                <5>4. QED
                    BY <3>1, <5>2, <5>3
            <4>3. QED
                BY <4>1, <4>2
        <3>4. QED
            BY <3>2, <3>3
    <2>3. QED
        BY <2>1, <2>2
<1> HIDE DEF Free
<1>5. 0 \in T
    <2> SUFFICES ASSUME NEW s \in SUBSET S, Cardinality(s) <= 0 PROVE Free(s)
        OBVIOUS
    <2>1. Cardinality(s) = 0
        BY <1>4
    <2>2. s = {}
        BY <1>4, <2>1, FS_EmptySet
    <2>3. QED
        BY <1>a, <2>2
<1>6. ASSUME NEW n \in Nat, n \in T PROVE n + 1 \in T
    <2> SUFFICES ASSUME NEW s \in SUBSET S, Cardinality(s) <= n + 1 PROVE Free(s)
        OBVIOUS
    <2>1. ASSUME NEW x \in s PROVE Cardinality(s \ {x}) <= n /\ s \ {x} \in SUBSET S
        <3>1. Cardinality(s \ {x}) = Cardinality(s) - 1
            BY <1>4, FS_RemoveElement
        <3>2. QED
            BY <1>4, <3>1
    <2>2. ASSUME NEW x \in s, NEW y \in s PROVE Free((s \ {x}) \ {y})
        <3>1. (s \ {x}) \ {y} \in SUBSET S /\ IsFiniteSet(s \ {x})
            BY <1>4
        <3>2. Cardinality((s \ {x}) \ {y}) <= Cardinality(s \ {x})
            BY <3>1, FS_Subset
        <3>3. Cardinality((s \ {x}) \ {y}) <= n
            BY <1>4, <2>1, <3>1, <3>2
        <3>4. QED
            BY <1>6, <3>1, <3>3
    <2>3. QED
        BY <1>6, <1>b, <2>1, <2>2
<1> HIDE DEF T
<1>7. \A n \in Nat : n \in T => n + 1 \in T
    BY <1>6
<1>8. \A n \in Nat : n \in T
    BY <1>5, <1>7, AllNaturals
<1>9. ASSUME NEW s \in SUBSET S PROVE Free(s)
    <2>1. Cardinality(s) \in T /\ Cardinality(s) <= Cardinality(s)
        BY <1>4, <1>8
    <2>2. QED
        BY <2>1 DEF T
<1>10. QED
    BY <1>2, <1>9 DEF Free, Adds

\* A sum over a finite set: nothing for none, and any element first.
LEMMA SumTakesOne ==
    ASSUME NEW S, IsFiniteSet(S), NEW f, \A x \in S : f[x] \in Int
    PROVE  /\ SumFunctionOnSet(f, {}) = 0
           /\ SumFunctionOnSet(f, S) \in Int
           /\ \A x \in S : SumFunctionOnSet(f, S) = f[x] + SumFunctionOnSet(f, S \ {x})
<1>a. ASSUME NEW R \in SUBSET S, NEW k, Sums(k, f, SUBSET R)
      PROVE  Adds(k, f, SUBSET R)
    <2>1. IsFiniteSet(R)
        BY FS_Subset
    <2>2. \A x \in R : f[x] \in Int
        OBVIOUS
    <2>3. QED
        BY <1>a, <2>1, <2>2, TableOfSums, Zenon
<1>1. PICK h : Sums(h, f, SUBSET S) /\ SumFunctionOnSet(f, S) = h[S]
    BY SumIsEntry
<1>b. S \in SUBSET S
    OBVIOUS
<1>c. Adds(h, f, SUBSET S)
    BY <1>1, <1>a, <1>b, Zenon
<1>2. /\ h[{}] = 0 /\ h[S] \in Int
      /\ \A s \in SUBSET S : \A x \in s : h[s] = f[x] + h[s \ {x}]
    BY <1>b, <1>c DEF Adds
<1>3. ASSUME NEW R \in SUBSET S PROVE SumFunctionOnSet(f, R) = h[R]
    <2>1. IsFiniteSet(R)
        BY FS_Subset
    <2>a. \A x \in R : f[x] \in Int
        OBVIOUS
    <2>2. PICK k : Sums(k, f, SUBSET R) /\ SumFunctionOnSet(f, R) = k[R]
        BY <2>1, <2>a, SumIsEntry
    <2>3. k[{}] = 0 /\ \A s \in SUBSET R : \A x \in s : k[s] = f[x] + k[s \ {x}]
        <3>1. Adds(k, f, SUBSET R)
            BY <1>a, <2>2, Zenon
        <3>2. QED
            BY <3>1 DEF Adds
    <2> DEFINE P == {s \in SUBSET R : h[s] = k[s]}
    <2>4. {} \in P
        BY <1>2, <2>3
    <2>5. ASSUME NEW s \in SUBSET R, NEW x \in s, s \ {x} \in P PROVE s \in P
        BY <1>2, <2>3, <2>5
    <2> HIDE DEF P
    <2>6. R \in P
        BY <2>1, <2>4, <2>5, AllFiniteSets
    <2>7. QED
        BY <2>2, <2>6 DEF P
<1>4. SumFunctionOnSet(f, {}) = 0
    <2>1. {} \in SUBSET S
        OBVIOUS
    <2>2. QED
        BY <1>2, <1>3, <2>1
<1>5. ASSUME NEW x \in S PROVE SumFunctionOnSet(f, S) = f[x] + SumFunctionOnSet(f, S \ {x})
    <2>1. S \in SUBSET S /\ S \ {x} \in SUBSET S
        OBVIOUS
    <2>2. SumFunctionOnSet(f, S \ {x}) = h[S \ {x}] /\ h[S] = f[x] + h[S \ {x}]
        BY <1>2, <1>3, <2>1
    <2>3. QED
        BY <1>1, <2>2
<1>6. QED
    BY <1>1, <1>2, <1>4, <1>5

\* Sums grow with their parts.
LEMMA SumMono ==
    ASSUME NEW S, IsFiniteSet(S), NEW f, NEW g,
           \A x \in S : f[x] \in Int /\ g[x] \in Int /\ f[x] <= g[x]
    PROVE  /\ SumFunctionOnSet(f, S) \in Int /\ SumFunctionOnSet(g, S) \in Int
           /\ SumFunctionOnSet(f, S) <= SumFunctionOnSet(g, S)
<1> DEFINE F(s) == SumFunctionOnSet(f, s)
           G(s) == SumFunctionOnSet(g, s)
           P == {s \in SUBSET S : F(s) \in Int /\ G(s) \in Int /\ F(s) <= G(s)}
<1>1. ASSUME NEW s \in SUBSET S
      PROVE  /\ F({}) = 0 /\ F(s) \in Int /\ \A x \in s : F(s) = f[x] + F(s \ {x})
             /\ G({}) = 0 /\ G(s) \in Int /\ \A x \in s : G(s) = g[x] + G(s \ {x})
    <2>1. IsFiniteSet(s)
        BY FS_Subset
    <2>2. QED
        BY <2>1, SumTakesOne
<1> HIDE DEF F, G
<1>2. {} \in P
    <2>1. {} \in SUBSET S
        OBVIOUS
    <2>2. F({}) = 0 /\ G({}) = 0
        BY <1>1, <2>1
    <2>3. QED
        BY <2>1, <2>2
<1>3. ASSUME NEW s \in SUBSET S, NEW x \in s, s \ {x} \in P PROVE s \in P
    <2>1. F(s) = f[x] + F(s \ {x}) /\ G(s) = g[x] + G(s \ {x})
        BY <1>1
    <2>2. f[x] \in Int /\ g[x] \in Int /\ f[x] <= g[x]
        OBVIOUS
    <2> DEFINE p == F(s \ {x})
               q == G(s \ {x})
    <2>3. p \in Int /\ q \in Int /\ p <= q
        BY <1>3
    <2> HIDE DEF p, q
    <2>4. F(s) \in Int /\ G(s) \in Int /\ F(s) <= G(s)
        BY <2>1, <2>2, <2>3 DEF p, q
    <2>5. QED
        BY <2>4
<1> HIDE DEF P
<1>4. S \in P
    BY <1>2, <1>3, AllFiniteSets
<1>5. QED
    BY <1>4 DEF P, F, G

\* Sums of natural numbers are natural, and no smaller than any part.
LEMMA SumNat ==
    ASSUME NEW S, IsFiniteSet(S), NEW f, \A x \in S : f[x] \in Nat
    PROVE  /\ SumFunctionOnSet(f, S) \in Nat
           /\ \A x \in S : f[x] <= SumFunctionOnSet(f, S)
<1> DEFINE P == {s \in SUBSET S : SumFunctionOnSet(f, s) \in Nat}
<1>1. \A s \in SUBSET S :
        /\ SumFunctionOnSet(f, {}) = 0
        /\ \A x \in s : SumFunctionOnSet(f, s) = f[x] + SumFunctionOnSet(f, s \ {x})
    <2> SUFFICES ASSUME NEW s \in SUBSET S
                 PROVE  /\ SumFunctionOnSet(f, {}) = 0
                        /\ \A x \in s : SumFunctionOnSet(f, s) = f[x] + SumFunctionOnSet(f, s \ {x})
        OBVIOUS
    <2>1. IsFiniteSet(s) /\ \A x \in s : f[x] \in Int
        BY FS_Subset
    <2>2. QED
        BY <2>1, SumTakesOne
<1>2. {} \in P
    BY <1>1
<1>3. ASSUME NEW s \in SUBSET S, NEW x \in s, s \ {x} \in P PROVE s \in P
    BY <1>1, <1>3
<1>4. \A R \in SUBSET S : R \in P
    <2> SUFFICES ASSUME NEW R \in SUBSET S PROVE R \in P
        OBVIOUS
    <2>1. IsFiniteSet(R) /\ \A s \in SUBSET R : s \in SUBSET S
        BY FS_Subset
    <2> HIDE DEF P
    <2>2. QED
        BY <1>2, <1>3, <2>1, AllFiniteSets
<1>5. ASSUME NEW x \in S PROVE f[x] <= SumFunctionOnSet(f, S)
    <2> DEFINE p == SumFunctionOnSet(f, S \ {x})
    <2>1. SumFunctionOnSet(f, S) = f[x] + p
        BY <1>1
    <2>2. p \in Nat
        BY <1>4
    <2> HIDE DEF p
    <2>3. QED
        BY <2>1, <2>2
<1>6. QED
    BY <1>4, <1>5

\* Sums of the same parts are the same.
LEMMA SumSame ==
    ASSUME NEW S, IsFiniteSet(S), NEW f, NEW g, \A x \in S : f[x] \in Int /\ g[x] = f[x]
    PROVE  SumFunctionOnSet(f, S) = SumFunctionOnSet(g, S)
<1>1. /\ SumFunctionOnSet(f, S) \in Int /\ SumFunctionOnSet(g, S) \in Int
      /\ SumFunctionOnSet(f, S) <= SumFunctionOnSet(g, S)
    BY SumMono
<1>2. SumFunctionOnSet(g, S) <= SumFunctionOnSet(f, S)
    BY SumMono
<1>3. QED
    BY <1>1, <1>2

\* e is f and k times g, element by element.
Mixes(e, f, k, g, S) == \A x \in S : f[x] \in Int /\ g[x] \in Int /\ e[x] = f[x] + k * g[x]

\* The sum of a mix is the mix of the sums.
LEMMA SumLinear ==
    ASSUME NEW S, IsFiniteSet(S), NEW f, NEW g, NEW e, NEW k \in Int, Mixes(e, f, k, g, S)
    PROVE  /\ SumFunctionOnSet(f, S) \in Int /\ SumFunctionOnSet(g, S) \in Int
           /\ SumFunctionOnSet(e, S) = SumFunctionOnSet(f, S) + k * SumFunctionOnSet(g, S)
<1> DEFINE F(s) == SumFunctionOnSet(f, s)
           G(s) == SumFunctionOnSet(g, s)
           E(s) == SumFunctionOnSet(e, s)
           P == {s \in SUBSET S : F(s) \in Int /\ G(s) \in Int /\ E(s) = F(s) + k * G(s)}
<1>m. \A x \in S : f[x] \in Int /\ g[x] \in Int /\ e[x] = f[x] + k * g[x]
    BY DEF Mixes
<1>0. \A x \in S : e[x] \in Int
    BY <1>m
<1>1. ASSUME NEW s \in SUBSET S
      PROVE  /\ F({}) = 0 /\ F(s) \in Int /\ \A x \in s : F(s) = f[x] + F(s \ {x})
             /\ G({}) = 0 /\ G(s) \in Int /\ \A x \in s : G(s) = g[x] + G(s \ {x})
             /\ E({}) = 0 /\ E(s) \in Int /\ \A x \in s : E(s) = e[x] + E(s \ {x})
    <2>1. IsFiniteSet(s)
        BY FS_Subset
    <2>2. QED
        BY <1>0, <1>m, <2>1, SumTakesOne
<1> HIDE DEF F, G, E
<1>2. {} \in P
    <2>1. {} \in SUBSET S
        OBVIOUS
    <2>2. F({}) = 0 /\ G({}) = 0 /\ E({}) = 0 /\ k * 0 = 0
        BY <1>1, <2>1
    <2>3. QED
        BY <2>1, <2>2
<1>3. ASSUME NEW s \in SUBSET S, NEW x \in s, s \ {x} \in P PROVE s \in P
    <2> DEFINE p == F(s \ {x})
               q == G(s \ {x})
    <2>1. F(s) = f[x] + p /\ G(s) = g[x] + q /\ E(s) = e[x] + E(s \ {x})
        BY <1>1
    <2>2. f[x] \in Int /\ g[x] \in Int /\ e[x] = f[x] + k * g[x]
        BY <1>m
    <2>3. p \in Int /\ q \in Int /\ E(s \ {x}) = p + k * q
        BY <1>3
    <2> HIDE DEF p, q
    <2>4. k * (g[x] + q) = k * g[x] + k * q
        BY <2>2, <2>3
    <2>5. F(s) \in Int /\ G(s) \in Int /\ E(s) = F(s) + k * G(s)
        BY <2>1, <2>2, <2>3, <2>4
    <2>6. QED
        BY <2>5
<1> HIDE DEF P
<1>4. S \in P
    BY <1>2, <1>3, AllFiniteSets
<1>5. QED
    BY <1>4 DEF P, F, G, E

\* A sum over a part of a set is the sum of what is zero elsewhere.
Pads(g, S, f, R) ==
    /\ R \in SUBSET S
    /\ \A x \in R : f[x] \in Int
    /\ \A x \in S : g[x] = IF x \in R THEN f[x] ELSE 0

\* Padding with zeros leaves a sum as it is.
LEMMA SumOfPart ==
    ASSUME NEW S, IsFiniteSet(S), NEW R, NEW f, NEW g, Pads(g, S, f, R)
    PROVE  SumFunctionOnSet(f, R) \in Int /\ SumFunctionOnSet(g, S) = SumFunctionOnSet(f, R)
<1> DEFINE P == {s \in SUBSET S : SumFunctionOnSet(g, s) = SumFunctionOnSet(f, s \cap R)}
<1>p. /\ R \in SUBSET S /\ \A x \in R : f[x] \in Int
      /\ \A x \in S : g[x] = IF x \in R THEN f[x] ELSE 0
    BY DEF Pads
<1>1. \A x \in S : g[x] \in Int
    BY <1>p
<1>2. ASSUME NEW s \in SUBSET S
      PROVE  /\ SumFunctionOnSet(g, {}) = 0 /\ SumFunctionOnSet(f, {}) = 0
             /\ SumFunctionOnSet(g, s) \in Int /\ SumFunctionOnSet(f, s \cap R) \in Int
             /\ \A x \in s : SumFunctionOnSet(g, s) = g[x] + SumFunctionOnSet(g, s \ {x})
             /\ \A x \in s \cap R :
                  SumFunctionOnSet(f, s \cap R) = f[x] + SumFunctionOnSet(f, (s \cap R) \ {x})
    <2>1. IsFiniteSet(s) /\ IsFiniteSet(s \cap R)
        BY FS_Subset
    <2>2. QED
        BY <1>1, <1>p, <2>1, SumTakesOne
<1>3. {} \in P
    <2>1. {} \in SUBSET S /\ {} \cap R = {}
        OBVIOUS
    <2>2. QED
        BY <1>2, <2>1
<1>4. ASSUME NEW s \in SUBSET S, NEW x \in s, s \ {x} \in P PROVE s \in P
    <2>1. SumFunctionOnSet(g, s) = g[x] + SumFunctionOnSet(f, (s \ {x}) \cap R)
        BY <1>2, <1>4
    <2>2. SumFunctionOnSet(f, (s \ {x}) \cap R) \in Int
        <3>1. s \ {x} \in SUBSET S
            OBVIOUS
        <3>2. QED
            BY <1>2, <3>1
    <2>3. CASE x \in R
        <3>1. (s \ {x}) \cap R = (s \cap R) \ {x} /\ x \in s \cap R /\ g[x] = f[x]
            BY <1>p, <2>3
        <3>2. SumFunctionOnSet(f, s \cap R) = f[x] + SumFunctionOnSet(f, (s \cap R) \ {x})
            BY <1>2, <3>1
        <3>3. QED
            BY <2>1, <3>1, <3>2
    <2>4. CASE x \notin R
        <3>1. (s \ {x}) \cap R = s \cap R /\ g[x] = 0
            BY <1>p, <2>4
        <3> DEFINE p == SumFunctionOnSet(f, s \cap R)
        <3>2. SumFunctionOnSet(g, s) = 0 + p /\ p \in Int
            BY <2>1, <2>2, <3>1
        <3> HIDE DEF p
        <3>3. SumFunctionOnSet(g, s) = p
            BY <3>2
        <3>4. QED
            BY <3>3 DEF p
    <2>5. QED
        BY <2>3, <2>4
<1> HIDE DEF P
<1>5. S \in P
    BY <1>3, <1>4, AllFiniteSets
<1>6. S \cap R = R
    BY <1>p
<1>7. QED
    BY <1>2, <1>5, <1>6 DEF P

\* Ones count.
LEMMA SumCounts ==
    ASSUME NEW S, IsFiniteSet(S), NEW f, \A x \in S : f[x] = 1
    PROVE  SumFunctionOnSet(f, S) = Cardinality(S) /\ Cardinality(S) \in Nat
<1> DEFINE P == {s \in SUBSET S : SumFunctionOnSet(f, s) = Cardinality(s)}
<1>1. \A s \in SUBSET S : IsFiniteSet(s) /\ Cardinality(s) \in Nat
    BY FS_Subset, FS_CardinalityType
<1>2. ASSUME NEW s \in SUBSET S
      PROVE  /\ SumFunctionOnSet(f, {}) = 0
             /\ \A x \in s : SumFunctionOnSet(f, s) = f[x] + SumFunctionOnSet(f, s \ {x})
    <2>1. \A x \in s : f[x] \in Int
        OBVIOUS
    <2>2. QED
        BY <1>1, <2>1, SumTakesOne
<1>3. {} \in P
    <2>1. Cardinality({}) = 0
        BY FS_EmptySet
    <2>2. {} \in SUBSET S
        OBVIOUS
    <2>3. QED
        BY <1>2, <2>1, <2>2
<1>4. ASSUME NEW s \in SUBSET S, NEW x \in s, s \ {x} \in P PROVE s \in P
    <2>1. Cardinality(s \ {x}) = Cardinality(s) - 1
        BY <1>1, FS_RemoveElement
    <2>2. SumFunctionOnSet(f, s) = 1 + Cardinality(s \ {x})
        BY <1>2, <1>4
    <2>3. QED
        BY <1>1, <2>1, <2>2
<1> HIDE DEF P
<1>5. S \in P
    BY <1>3, <1>4, AllFiniteSets
<1>6. QED
    BY <1>1, <1>5 DEF P

\* A value does not change by being evaluated once.
LEMMA NowIs == \A f : Now(f) = f
BY Zenon DEF Now

\* The elements that precede i: heavier, or as heavy and listed first.
Before(A, w, i) == {j \in A : w[j] > w[i] \/ (w[j] = w[i] /\ j < i)}

\* Ranks count: as many elements rank below k as k says.
LEMMA RanksCount ==
    ASSUME NEW A \in SUBSET Nat, IsFiniteSet(A), NEW w \in [A -> Nat], NEW k \in 0..Cardinality(A)
    PROVE  Cardinality({i \in A : Cardinality(Before(A, w, i)) < k}) = k
<1> DEFINE n == Cardinality(A)
           r == [i \in A |-> Cardinality(Before(A, w, i))]
           L == {i \in A : r[i] < k}
           t == [i \in L |-> r[i]]
<1>1. \A s \in SUBSET A : IsFiniteSet(s) /\ Cardinality(s) \in Nat
    BY FS_Subset, FS_CardinalityType
<1>2. \A i \in A : Before(A, w, i) \in SUBSET A
    BY DEF Before
<1>3. n \in Nat
    BY FS_CardinalityType
<1>4. ASSUME NEW i \in A PROVE r[i] \in 0..n - 1
    <2>1. Before(A, w, i) \in SUBSET (A \ {i})
        BY DEF Before
    <2>2. IsFiniteSet(A \ {i}) /\ Cardinality(A \ {i}) = n - 1
        BY FS_RemoveElement
    <2>3. Cardinality(Before(A, w, i)) <= Cardinality(A \ {i})
        BY <2>1, <2>2, FS_Subset
    <2>4. Cardinality(Before(A, w, i)) \in Nat
        BY <1>1, <1>2
    <2>5. QED
        BY <1>3, <2>2, <2>3, <2>4
<1>5. ASSUME NEW i \in A, NEW j \in A, i \in Before(A, w, j) PROVE r[i] < r[j]
    <2>1. Before(A, w, i) \in SUBSET (Before(A, w, j) \ {i})
        <3>1. w[i] \in Nat /\ w[j] \in Nat /\ i \in Nat /\ j \in Nat
            OBVIOUS
        <3>2. ASSUME NEW x \in Before(A, w, i) PROVE x \in Before(A, w, j) /\ x # i
            <4>1. x \in A /\ x \in Nat /\ w[x] \in Nat
                BY DEF Before
            <4>2. QED
                BY <1>5, <3>1, <3>2, <4>1 DEF Before
        <3>3. QED
            BY <3>2
    <2>2. IsFiniteSet(Before(A, w, j)) /\ Cardinality(Before(A, w, j)) \in Nat
        BY <1>1, <1>2
    <2>3. /\ IsFiniteSet(Before(A, w, j) \ {i})
          /\ Cardinality(Before(A, w, j) \ {i}) = Cardinality(Before(A, w, j)) - 1
        BY <1>5, <2>2, FS_RemoveElement
    <2>4. Cardinality(Before(A, w, i)) <= Cardinality(Before(A, w, j) \ {i})
        BY <2>1, <2>3, FS_Subset
    <2>5. Cardinality(Before(A, w, i)) \in Nat
        BY <1>1, <1>2
    <2>6. QED
        BY <2>2, <2>3, <2>4, <2>5
<1>6. ASSUME NEW i \in A, NEW j \in A, r[i] = r[j] PROVE i = j
    <2>1. w[i] \in Nat /\ w[j] \in Nat /\ i \in Nat /\ j \in Nat
        OBVIOUS
    <2>a. \/ i = j
          \/ w[i] > w[j] \/ (w[i] = w[j] /\ i < j)
          \/ w[j] > w[i] \/ (w[j] = w[i] /\ j < i)
        BY <2>1
    <2>2. i = j \/ i \in Before(A, w, j) \/ j \in Before(A, w, i)
        BY <2>a, Zenon DEF Before
    <2>3. r[i] \in 0..n - 1 /\ r[j] \in 0..n - 1
        BY <1>4
    <2> HIDE DEF r
    <2>4. QED
        BY <1>3, <1>5, <1>6, <2>2, <2>3
<1>7. r \in [A -> 0..n - 1]
    BY <1>4
<1>8. r \in Injection(A, 0..n - 1)
    <2> HIDE DEF r
    <2>1. QED
        BY <1>6, <1>7 DEF Injection, IsInjective
<1>9. IsFiniteSet(0..n - 1) /\ Cardinality(0..n - 1) = n
    <2>1. 0 \in Int /\ n - 1 \in Int
        BY <1>3
    <2>2. /\ IsFiniteSet(0..n - 1)
          /\ Cardinality(0..n - 1) = IF 0 > n - 1 THEN 0 ELSE (n - 1) - 0 + 1
        BY <2>1, FS_Interval
    <2>3. QED
        BY <1>3, <2>2
<1>10. r \in Surjection(A, 0..n - 1)
    <2> HIDE DEF r
    <2>1. QED
        BY <1>8, <1>9, FS_Injection
<1>11. \A m \in 0..n - 1 : \E i \in A : r[i] = m
    <2> HIDE DEF r
    <2>1. QED
        BY <1>10 DEF Surjection
<1> HIDE DEF r
<1>12. t \in Bijection(L, 0..k - 1)
    <2>1. \A i \in L : r[i] \in 0..k - 1
        BY <1>3, <1>4
    <2>2. t \in [L -> 0..k - 1]
        BY <2>1
    <2>3. \A i, j \in L : t[i] = t[j] => i = j
        BY <1>6
    <2>4. ASSUME NEW m \in 0..k - 1 PROVE \E i \in L : t[i] = m
        <3>1. m \in 0..n - 1 /\ m < k
            BY <1>3
        <3>2. PICK i \in A : r[i] = m
            BY <1>11, <3>1
        <3>3. QED
            BY <3>1, <3>2
    <2> HIDE DEF t, L
    <2>5. QED
        BY <2>2, <2>3, <2>4 DEF Bijection, Injection, Surjection, IsInjective
<1>13. IsFiniteSet(L) /\ ExistsBijection(L, 0..k - 1)
    <2>1. L \in SUBSET A
        OBVIOUS
    <2> HIDE DEF t, L
    <2>2. QED
        BY <1>1, <1>12, <2>1 DEF ExistsBijection
<1>14. Cardinality(0..k - 1) = Cardinality(L)
    <2> HIDE DEF L
    <2>1. QED
        BY <1>13, FS_Bijection
<1>15. Cardinality(0..k - 1) = k
    <2>1. 0 \in Int /\ k - 1 \in Int /\ k \in Nat
        BY <1>3
    <2>2. Cardinality(0..k - 1) = IF 0 > k - 1 THEN 0 ELSE (k - 1) - 0 + 1
        BY <2>1, FS_Interval
    <2>3. QED
        BY <2>1, <2>2
<1>16. L = {i \in A : Cardinality(Before(A, w, i)) < k}
    BY DEF r
<1>17. QED
    BY <1>14, <1>15, <1>16

\* Sums scale.
LEMMA SumScale ==
    ASSUME NEW S, IsFiniteSet(S), NEW g, NEW e, NEW k \in Int,
           \A x \in S : g[x] \in Int /\ e[x] = k * g[x]
    PROVE  SumFunctionOnSet(g, S) \in Int /\ SumFunctionOnSet(e, S) = k * SumFunctionOnSet(g, S)
<1> DEFINE G == SumFunctionOnSet(g, S)
           E == SumFunctionOnSet(e, S)
<1>1. \A y \in Int : k * y = y + (k - 1) * y
    OBVIOUS
<1>2. Mixes(e, g, k - 1, g, S)
    BY <1>1 DEF Mixes
<1>3. k - 1 \in Int
    OBVIOUS
<1>4. G \in Int /\ E = G + (k - 1) * G
    BY <1>2, <1>3, SumLinear
<1> HIDE DEF G, E
<1>5. G \in Int /\ E = k * G
    BY <1>1, <1>4
<1>6. QED
    BY <1>5 DEF G, E

\* The rounded-down parts of R by weight fall short of it by less than one
\* each.
LEMMA PartsOfWhole ==
    ASSUME NEW A, IsFiniteSet(A), NEW w, \A i \in A : w[i] \in Nat,
           NEW W \in Nat \ {0}, NEW R \in Nat, W = SumFunctionOnSet(w, A),
           NEW part, \A i \in A : part[i] = (R * w[i]) \div W
    PROVE  /\ SumFunctionOnSet(part, A) \in Nat
           /\ SumFunctionOnSet(part, A) <= R
           /\ R <= SumFunctionOnSet(part, A) + Cardinality(A)
<1> DEFINE s == SumFunctionOnSet(part, A)
           n == Cardinality(A)
           low  == [i \in A |-> W * part[i]]
           all  == [i \in A |-> R * w[i]]
           ones == [i \in A |-> 1]
           high == [i \in A |-> low[i] + W * ones[i]]
<1>1. \A i \in A : part[i] \in Nat /\ W * part[i] <= R * w[i] /\ R * w[i] < W * part[i] + W
    <2> SUFFICES ASSUME NEW i \in A
                 PROVE part[i] \in Nat /\ W * part[i] <= R * w[i] /\ R * w[i] < W * part[i] + W
        OBVIOUS
    <2>1. R * w[i] \in Nat
        OBVIOUS
    <2>2. QED
        BY <2>1, Quotient
<1>2. s \in Nat
    BY <1>1, SumNat
<1>3. n \in Nat
    BY FS_CardinalityType
<1>4. \A i \in A : /\ low[i] \in Int /\ all[i] \in Int /\ high[i] \in Int
                   /\ low[i] <= all[i] /\ all[i] <= high[i] /\ part[i] \in Int /\ w[i] \in Int
                   /\ ones[i] = 1 /\ ones[i] \in Int
                   /\ low[i] = W * part[i] /\ all[i] = R * w[i] /\ high[i] = low[i] + W * ones[i]
    BY <1>1
<1>5. W \in Int /\ R \in Int
    OBVIOUS
<1> HIDE DEF low, all, ones, high
<1>6. SumFunctionOnSet(low, A) = W * s
    BY <1>4, <1>5, SumScale
<1>7. SumFunctionOnSet(all, A) = R * W
    BY <1>4, <1>5, SumScale
<1>8. SumFunctionOnSet(ones, A) = n
    BY <1>4, SumCounts
<1>9. SumFunctionOnSet(high, A) = SumFunctionOnSet(low, A) + W * SumFunctionOnSet(ones, A)
    <2>1. Mixes(high, low, W, ones, A)
        BY <1>4 DEF Mixes
    <2>2. QED
        BY <1>5, <2>1, SumLinear
<1>10. SumFunctionOnSet(low, A) <= SumFunctionOnSet(all, A)
    BY <1>4, SumMono
<1>11. SumFunctionOnSet(all, A) <= SumFunctionOnSet(high, A)
    BY <1>4, SumMono
<1> HIDE DEF s, n
<1>12. W * s <= W * R /\ W * R <= W * (s + n)
    <2>1. W * (s + n) = W * s + W * n /\ W * R = R * W
        BY <1>2, <1>3
    <2>2. QED
        BY <1>6, <1>7, <1>8, <1>9, <1>10, <1>11, <2>1
<1>13. s <= R /\ R <= s + n
    <2>1. s \in Int /\ R \in Int /\ s + n \in Int
        BY <1>2, <1>3
    <2>2. QED
        BY <1>12, <2>1, Cancel
<1>14. QED
    BY <1>2, <1>13 DEF s, n

\* Two parts are in the proportion of their weights, up to one unit.
LEMMA PartsInProportion ==
    ASSUME NEW W \in Nat \ {0}, NEW R \in Nat, NEW a \in Nat, NEW b \in Nat,
           NEW p, NEW q, p = (R * a) \div W, q = (R * b) \div W
    PROVE  p \in Nat /\ q \in Nat /\ q * a <= (p + 1) * b
<1>1. R * a \in Nat /\ R * b \in Nat
    OBVIOUS
<1>2. p \in Nat /\ q \in Nat /\ W * q <= R * b /\ R * a <= W * p + W
    BY <1>1, Quotient
<1>3. (W * q) * a <= (R * b) * a /\ (R * a) * b <= (W * p + W) * b
    BY <1>1, <1>2
<1>4. (R * b) * a = (R * a) * b /\ (W * q) * a = W * (q * a) /\ (W * p + W) * b = W * ((p + 1) * b)
    BY <1>2
<1>5. W * (q * a) <= W * ((p + 1) * b)
    BY <1>1, <1>2, <1>3, <1>4
<1>6. q * a \in Int /\ (p + 1) * b \in Int
    BY <1>2
<1>7. QED
    BY <1>2, <1>5, <1>6, Cancel

\* e is the sum of f and g, element by element.
PairSums(e, f, g, S) == \A x \in S : f[x] \in Int /\ g[x] \in Int /\ e[x] = f[x] + g[x]

\* Sums add up.
LEMMA SumPlus ==
    ASSUME NEW S, IsFiniteSet(S), NEW f, NEW g, NEW e, PairSums(e, f, g, S)
    PROVE  /\ SumFunctionOnSet(f, S) \in Int /\ SumFunctionOnSet(g, S) \in Int
           /\ SumFunctionOnSet(e, S) = SumFunctionOnSet(f, S) + SumFunctionOnSet(g, S)
<1> DEFINE k == 1
<1>0. k \in Int
    OBVIOUS
<1>1. \A y \in Int : y = k * y
    OBVIOUS
<1> HIDE DEF k
<1>2. Mixes(e, f, k, g, S)
    BY <1>1 DEF Mixes, PairSums
<1>3. /\ SumFunctionOnSet(f, S) \in Int /\ SumFunctionOnSet(g, S) \in Int
      /\ SumFunctionOnSet(e, S) = SumFunctionOnSet(f, S) + k * SumFunctionOnSet(g, S)
    BY <1>0, <1>2, SumLinear
<1>4. QED
    BY <1>1, <1>3

-----------------------------------------------------------------------------
(***************************************************************************)
(* The water-fill.                                                         *)
(***************************************************************************)
\* A claim on one axis.
Demand == [weight : Nat, min : Nat, max : 0..Unbounded, demand : 0..Unbounded]

\* What a demand is made of.
LEMMA DemandType ==
    ASSUME NEW d \in Demand
    PROVE  d.weight \in Nat /\ d.min \in Nat /\ effective_cap(d) \in Nat
BY DEF Demand, effective_cap, Least, Unbounded

\* What a pass of the fill keeps: the band is granted or left, floors first,
\* nobody is filled past what it can use, who is frozen cannot use more and
\* who is not can, and above the floors the grants are in the proportion of
\* the weights but for a crumb per pass: each pass but the last freezes
\* somebody.
Passes(s) == Cardinality(s.frozen) + (IF s.remaining = 0 THEN 1 ELSE 0)

Settled(c, s, i) ==
    /\ s.grant[i] >= c[i].min
    /\ s.grant[i] > c[i].min => s.grant[i] <= effective_cap(c[i]) /\ c[i].weight > 0
    /\ i \in s.frozen /\ c[i].weight > 0 => s.grant[i] >= effective_cap(c[i])
    /\ i \notin s.frozen => c[i].weight > 0 /\ s.grant[i] < effective_cap(c[i])

Close(c, s, i, j) ==
    (s.grant[j] - c[j].min - Passes(s)) * c[i].weight <= (s.grant[i] - c[i].min + Passes(s)) * c[j].weight

FillState(S) == [grant : [S -> Nat], frozen : SUBSET S, remaining : Nat]

Filled(band, c, s) ==
    /\ s \in FillState(DOMAIN c)
    /\ SumFunctionOnSet(s.grant, DOMAIN c) + s.remaining = band
    /\ \A i \in DOMAIN c : Settled(c, s, i)
    /\ \A i \in DOMAIN c \ s.frozen, j \in DOMAIN c : Close(c, s, i, j)

\* Claims of siblings on one axis.
Siblings(c) == \E S \in SUBSET Nat : IsFiniteSet(S) /\ c \in [S -> Demand]

\* Nobody left to fill, or nothing to fill them with.
Dry(c, s) == s.remaining = 0 \/ s.frozen = DOMAIN c

\* The parts of a pass: what each active claimant is offered, and who of them
\* it fills.
Active(c, s) == DOMAIN c \ s.frozen
WeightOf(c, s) == SumFunctionOnSet([i \in Active(c, s) |-> c[i].weight], Active(c, s))
Share(c, s) == [i \in Active(c, s) |-> (s.remaining * c[i].weight) \div WeightOf(c, s)]
Crumb(c, s) == s.remaining - SumFunctionOnSet(Share(c, s), Active(c, s))
Rank(c, s, i) == Cardinality({j \in Active(c, s) : \/ c[j].weight > c[i].weight
                                                   \/ c[j].weight = c[i].weight /\ j < i})
Lucky(c, s) == {i \in Active(c, s) : Rank(c, s, i) < Crumb(c, s)}
Want(c, s) == [i \in Active(c, s) |-> s.grant[i] + Share(c, s)[i] + (IF Rank(c, s, i) < Crumb(c, s) THEN 1 ELSE 0)]
Full(c, s) == {i \in Active(c, s) : Want(c, s)[i] > s.grant[i] /\ Want(c, s)[i] >= effective_cap(c[i])}

\* A pass of EvenPass with something left to share, by its parts.
LEMMA PassIs ==
    ASSUME NEW c, NEW s, WeightOf(c, s) # 0, s.remaining # 0
    PROVE  EvenPass(c, s) =
             [grant     |-> [i \in DOMAIN c |-> IF i \in Full(c, s) THEN effective_cap(c[i])
                                                ELSE IF i \in Active(c, s) THEN Want(c, s)[i] ELSE s.grant[i]],
              frozen    |-> s.frozen \cup Full(c, s),
              remaining |-> SumFunctionOnSet([i \in Full(c, s) |-> Want(c, s)[i] - effective_cap(c[i])], Full(c, s))]
BY NowIs, Zenon DEF EvenPass, WeightOf, Active, Share, Crumb, Rank, Want, Full

\* A pass with nothing to share, or nobody to share it with, does nothing.
LEMMA PassStays ==
    ASSUME NEW c, NEW s, WeightOf(c, s) = 0 \/ s.remaining = 0
    PROVE  EvenPass(c, s) = s
BY Zenon DEF EvenPass, WeightOf, Active

\* What a pass offers: every active claimant its part, and all the remainder
\* between them.
LEMMA OfferAdds ==
    ASSUME NEW c, Siblings(c), NEW s \in FillState(DOMAIN c), s.frozen # DOMAIN c,
           \A i \in Active(c, s) : c[i].weight > 0
    PROVE  /\ WeightOf(c, s) \in Nat \ {0}
           /\ \A i \in Active(c, s) :
                /\ Share(c, s)[i] = (s.remaining * c[i].weight) \div WeightOf(c, s)
                /\ Share(c, s)[i] \in Nat
           /\ Cardinality(Lucky(c, s)) = Crumb(c, s) /\ Crumb(c, s) \in Nat
           /\ SumFunctionOnSet(Share(c, s), Active(c, s)) \in Nat
<1> DEFINE A == Active(c, s)
           W == WeightOf(c, s)
           w == [i \in A |-> c[i].weight]
           T == SumFunctionOnSet(Share(c, s), A)
<1>1. PICK S \in SUBSET Nat : IsFiniteSet(S) /\ c \in [S -> Demand]
    BY DEF Siblings
<1>2. DOMAIN c = S /\ s.frozen \in SUBSET S /\ s.remaining \in Nat
    BY <1>1 DEF FillState
<1>3. A \in SUBSET S /\ A \in SUBSET Nat /\ A # {}
    BY <1>2 DEF Active
<1>4. IsFiniteSet(A) /\ Cardinality(A) \in Nat
    BY <1>1, <1>3, FS_Subset, FS_CardinalityType
<1>5. \A i \in A : c[i].weight \in Nat /\ c[i].weight > 0
    BY <1>1, <1>3, DemandType
<1>6. w \in [A -> Nat] /\ \A i \in A : w[i] \in Nat /\ w[i] > 0 /\ w[i] = c[i].weight
    BY <1>5
<1>7. W = SumFunctionOnSet(w, A)
    BY DEF WeightOf
<1> HIDE DEF w
<1>8. W \in Nat \ {0}
    <2>1. W \in Nat /\ \A i \in A : w[i] <= W
        BY <1>4, <1>6, <1>7, SumNat
    <2>2. PICK i \in A : TRUE
        BY <1>3
    <2>3. QED
        BY <1>6, <2>1, <2>2
<1>9. ASSUME NEW i \in A
      PROVE /\ Share(c, s)[i] = (s.remaining * w[i]) \div W
            /\ Share(c, s)[i] = (s.remaining * c[i].weight) \div W /\ Share(c, s)[i] \in Nat
    <2>1. Share(c, s)[i] = (s.remaining * c[i].weight) \div W
        BY DEF Share
    <2>2. s.remaining * w[i] \in Nat /\ w[i] = c[i].weight
        BY <1>2, <1>6
    <2> HIDE DEF W
    <2>3. Share(c, s)[i] = (s.remaining * w[i]) \div W
        BY <2>1, <2>2
    <2>4. QED
        BY <1>8, <2>1, <2>2, <2>3, Quotient
<1> HIDE DEF A, W
<1>10. T \in Nat /\ T <= s.remaining /\ s.remaining <= T + Cardinality(A)
    BY <1>2, <1>4, <1>6, <1>7, <1>8, <1>9, PartsOfWhole
<1>11. Crumb(c, s) = s.remaining - T
    BY DEF Crumb, A
<1>12. Crumb(c, s) \in 0..Cardinality(A) /\ Crumb(c, s) \in Nat
    BY <1>2, <1>4, <1>10, <1>11
<1>13. ASSUME NEW i \in A PROVE Rank(c, s, i) = Cardinality(Before(A, w, i))
    <2>1. \A j \in A : w[j] = c[j].weight
        BY <1>6
    <2>2. {j \in A : \/ c[j].weight > c[i].weight
                     \/ c[j].weight = c[i].weight /\ j < i} = Before(A, w, i)
        BY <2>1, Zenon DEF Before
    <2>3. QED
        BY <2>2, Zenon DEF Rank, A
<1>14. Lucky(c, s) = {i \in A : Cardinality(Before(A, w, i)) < Crumb(c, s)}
    BY <1>13, Zenon DEF Lucky, A
<1>15. Cardinality(Lucky(c, s)) = Crumb(c, s)
    BY <1>3, <1>4, <1>6, <1>12, <1>14, RanksCount
<1>16. QED
    BY <1>8, <1>9, <1>10, <1>12, <1>15 DEF A, W

\* What a pass grants: nobody less, an active claimant all it wants or all it
\* can use, and the remainder is what the full ones leave.
LEMMA PassGrants ==
    ASSUME NEW c, Siblings(c), NEW s \in FillState(DOMAIN c), ~Dry(c, s),
           \A i \in DOMAIN c : Settled(c, s, i)
    PROVE  LET n == EvenPass(c, s)
               A == Active(c, s)
           IN  /\ n \in FillState(DOMAIN c)
               /\ n.frozen = s.frozen \cup Full(c, s)
               /\ \A i \in Full(c, s) : n.grant[i] = effective_cap(c[i]) /\ n.grant[i] > s.grant[i]
               /\ \A i \in A : n.grant[i] <= s.grant[i] + Share(c, s)[i] + 1
               /\ \A i \in A \ Full(c, s) : /\ n.grant[i] >= s.grant[i] + Share(c, s)[i]
                                            /\ n.grant[i] < effective_cap(c[i])
               /\ \A i \in s.frozen : n.grant[i] = s.grant[i]
               /\ SumFunctionOnSet(n.grant, DOMAIN c) + n.remaining
                    = SumFunctionOnSet(s.grant, DOMAIN c) + s.remaining
               /\ Full(c, s) = {} => n.remaining = 0
<1> DEFINE n == EvenPass(c, s)
           A == Active(c, s)
           F == Full(c, s)
           L == Lucky(c, s)
           want == Want(c, s)
           share == Share(c, s)
<1>1. PICK S \in SUBSET Nat : IsFiniteSet(S) /\ c \in [S -> Demand]
    BY DEF Siblings
<1>2. /\ DOMAIN c = S /\ s.frozen \in SUBSET S /\ s.remaining \in Nat
      /\ s.grant \in [S -> Nat] /\ s.remaining # 0 /\ s.frozen # DOMAIN c
    BY <1>1 DEF FillState, Dry
<1>3. A \in SUBSET S /\ F \in SUBSET A /\ L \in SUBSET A /\ A = S \ s.frozen
    BY <1>2 DEF Active, Full, Lucky
<1>4. IsFiniteSet(A) /\ IsFiniteSet(F) /\ IsFiniteSet(L)
    <2>1. F \in SUBSET S /\ L \in SUBSET S
        BY <1>3
    <2>2. QED
        BY <1>1, <1>3, <2>1, FS_Subset
<1>5. \A i \in S : c[i].weight \in Nat /\ c[i].min \in Nat /\ effective_cap(c[i]) \in Nat
    BY <1>1, DemandType
<1>6. \A i \in A : c[i].weight > 0 /\ s.grant[i] < effective_cap(c[i])
    BY <1>2 DEF Settled, Active
<1>7. /\ WeightOf(c, s) \in Nat \ {0}
      /\ \A i \in A : share[i] \in Nat
      /\ Cardinality(L) = Crumb(c, s) /\ Crumb(c, s) \in Nat
      /\ SumFunctionOnSet(share, A) \in Nat
    BY <1>2, <1>6, OfferAdds
<1>8. ASSUME NEW i \in A
      PROVE  /\ want[i] = s.grant[i] + share[i] + (IF i \in L THEN 1 ELSE 0)
             /\ want[i] \in Nat /\ want[i] >= s.grant[i] + share[i] /\ want[i] <= s.grant[i] + share[i] + 1
             /\ i \in F <=> want[i] >= effective_cap(c[i])
    <2>1. want[i] = s.grant[i] + share[i] + (IF i \in L THEN 1 ELSE 0)
        BY DEF Want, Lucky
    <2>2. s.grant[i] \in Nat /\ share[i] \in Nat /\ effective_cap(c[i]) \in Nat
        BY <1>2, <1>3, <1>5, <1>7
    <2>3. s.grant[i] < effective_cap(c[i])
        BY <1>6
    <2>4. want[i] \in Nat /\ want[i] >= s.grant[i] + share[i] /\ want[i] <= s.grant[i] + share[i] + 1
        <3> HIDE DEF want, share, L
        <3>1. QED
            BY <2>1, <2>2
    <2>5. i \in F <=> (want[i] > s.grant[i] /\ want[i] >= effective_cap(c[i]))
        BY Zenon DEF Full
    <2> HIDE DEF want, share, L, F
    <2>6. QED
        BY <2>1, <2>2, <2>3, <2>4, <2>5
<1> DEFINE grant == [i \in S |-> IF i \in F THEN effective_cap(c[i])
                                 ELSE IF i \in A THEN want[i] ELSE s.grant[i]]
           back == [i \in F |-> want[i] - effective_cap(c[i])]
           left == SumFunctionOnSet(back, F)
<1>9. n = [grant |-> grant, frozen |-> s.frozen \cup F, remaining |-> left]
    BY <1>2, <1>7, PassIs, Zenon
<1> HIDE DEF want, share, L, F, A
<1>10. \A i \in F : back[i] \in Nat /\ back[i] = want[i] - effective_cap(c[i])
    <2> SUFFICES ASSUME NEW i \in F PROVE want[i] - effective_cap(c[i]) \in Nat
        OBVIOUS
    <2>1. i \in A /\ i \in S
        BY <1>3
    <2>2. want[i] \in Nat /\ effective_cap(c[i]) \in Nat /\ want[i] >= effective_cap(c[i])
        BY <1>5, <1>8, <2>1
    <2>3. QED
        BY <2>2
<1>11. grant \in [S -> Nat]
    <2> SUFFICES ASSUME NEW i \in S PROVE grant[i] \in Nat
        OBVIOUS
    <2>1. CASE i \in F
        BY <1>5, <2>1
    <2>2. CASE i \notin F /\ i \in A
        BY <1>8, <2>2
    <2>3. CASE i \notin F /\ i \notin A
        BY <1>2, <2>3
    <2>4. QED
        BY <2>1, <2>2, <2>3
<1>12. left \in Nat
    <2> HIDE DEF back
    <2>1. QED
        BY <1>4, <1>10, SumNat
<1>13. F = {} => left = 0
    <2> SUFFICES ASSUME F = {} PROVE left = 0
        OBVIOUS
    <2>1. left = SumFunctionOnSet(back, {})
        OBVIOUS
    <2> HIDE DEF back
    <2>2. QED
        BY <1>4, <1>10, <2>1, SumTakesOne
<1>14. SumFunctionOnSet(grant, S) + left = SumFunctionOnSet(s.grant, S) + s.remaining
    <2> DEFINE parts == [i \in S |-> IF i \in A THEN share[i] ELSE 0]
               ones  == [i \in L |-> 1]
               luck  == [i \in S |-> IF i \in L THEN ones[i] ELSE 0]
               over  == [i \in S |-> IF i \in F THEN back[i] ELSE 0]
               one   == [i \in S |-> s.grant[i] + parts[i]]
               two   == [i \in S |-> one[i] + luck[i]]
    <2>1. SumFunctionOnSet(parts, S) = SumFunctionOnSet(share, A)
        <3>1. \A i \in A : share[i] \in Int
            BY <1>7
        <3>2. \A i \in S : parts[i] = IF i \in A THEN share[i] ELSE 0
            OBVIOUS
        <3> HIDE DEF parts
        <3>3. Pads(parts, S, share, A)
            BY <1>3, <3>1, <3>2 DEF Pads
        <3>4. QED
            BY <1>1, <3>3, SumOfPart
    <2>2. SumFunctionOnSet(luck, S) = Crumb(c, s)
        <3>1. L \in SUBSET S
            BY <1>3
        <3>2. \A i \in L : ones[i] = 1
            OBVIOUS
        <3>3. \A i \in S : luck[i] = IF i \in L THEN ones[i] ELSE 0
            OBVIOUS
        <3> HIDE DEF luck, ones
        <3>4. \A i \in L : ones[i] \in Int
            BY <3>2
        <3>a. Pads(luck, S, ones, L)
            BY <3>1, <3>3, <3>4 DEF Pads
        <3>5. SumFunctionOnSet(luck, S) = SumFunctionOnSet(ones, L)
            BY <1>1, <3>a, SumOfPart
        <3>6. SumFunctionOnSet(ones, L) = Cardinality(L)
            BY <1>4, <3>2, SumCounts
        <3>7. QED
            BY <1>7, <3>5, <3>6
    <2>3. SumFunctionOnSet(over, S) = left
        <3>1. F \in SUBSET S
            BY <1>3
        <3>2. \A i \in S : over[i] = IF i \in F THEN back[i] ELSE 0
            OBVIOUS
        <3> HIDE DEF over, back
        <3>3. \A i \in F : back[i] \in Int
            BY <1>10
        <3>4. Pads(over, S, back, F)
            BY <3>1, <3>2, <3>3 DEF Pads
        <3>5. QED
            BY <1>1, <3>4, SumOfPart
    <2>4. ASSUME NEW i \in S
          PROVE  /\ s.grant[i] \in Int /\ parts[i] \in Int /\ luck[i] \in Int /\ over[i] \in Int
                 /\ one[i] = s.grant[i] + parts[i] /\ one[i] \in Int
                 /\ two[i] = one[i] + luck[i] /\ two[i] \in Int
        <3>1. s.grant[i] \in Int
            <4>1. s.grant[i] \in Nat
                BY <1>2
            <4>2. QED
                BY <4>1
        <3>2. parts[i] \in Int
            BY <1>7
        <3>3. luck[i] \in Int
            OBVIOUS
        <3>4. over[i] \in Int
            <4> HIDE DEF back
            <4>1. QED
                BY <1>10
        <3>5. one[i] = s.grant[i] + parts[i] /\ two[i] = one[i] + luck[i]
            OBVIOUS
        <3> HIDE DEF parts, luck, over, one, two
        <3>6. one[i] \in Int
            BY <3>1, <3>2, <3>5
        <3>7. two[i] \in Int
            BY <3>3, <3>5, <3>6
        <3>8. QED
            BY <3>1, <3>2, <3>3, <3>4, <3>5, <3>6, <3>7
    <2>5. ASSUME NEW i \in S PROVE two[i] = grant[i] + over[i] /\ grant[i] \in Int
        <3>1. CASE i \in A
            <4>1. parts[i] = share[i] /\ luck[i] = IF i \in L THEN 1 ELSE 0
                BY <3>1
            <4>2. two[i] = want[i] /\ want[i] \in Nat
                <5>1. want[i] = s.grant[i] + share[i] + (IF i \in L THEN 1 ELSE 0) /\ want[i] \in Nat
                    BY <1>8, <3>1
                <5> HIDE DEF one, two, parts, luck
                <5>2. QED
                    BY <2>4, <4>1, <5>1
            <4>3. CASE i \in F
                <5>1. over[i] = want[i] - effective_cap(c[i]) /\ grant[i] = effective_cap(c[i])
                    BY <4>3
                <5>2. effective_cap(c[i]) \in Nat
                    BY <1>5
                <5> HIDE DEF two, over, grant
                <5>3. QED
                    BY <4>2, <5>1, <5>2
            <4>4. CASE i \notin F
                <5>1. over[i] = 0 /\ grant[i] = want[i]
                    BY <3>1, <4>4
                <5> HIDE DEF two, over, grant
                <5>2. QED
                    BY <4>2, <5>1
            <4>5. QED
                BY <4>3, <4>4
        <3>2. CASE i \notin A
            <4>1. i \notin L /\ i \notin F
                BY <1>3, <3>2
            <4>2. parts[i] = 0 /\ luck[i] = 0 /\ over[i] = 0 /\ grant[i] = s.grant[i]
                BY <3>2, <4>1
            <4> HIDE DEF one, two, parts, luck, over, grant
            <4>3. QED
                BY <2>4, <4>2
        <3>3. QED
            BY <3>1, <3>2
    <2> HIDE DEF parts, luck, over, one, two, grant, back, left
    <2>6. /\ SumFunctionOnSet(s.grant, S) \in Int /\ SumFunctionOnSet(parts, S) \in Int
          /\ SumFunctionOnSet(one, S) = SumFunctionOnSet(s.grant, S) + SumFunctionOnSet(parts, S)
        <3>1. PairSums(one, s.grant, parts, S)
            BY <2>4 DEF PairSums
        <3>2. QED
            BY <1>1, <3>1, SumPlus
    <2>7. /\ SumFunctionOnSet(one, S) \in Int /\ SumFunctionOnSet(luck, S) \in Int
          /\ SumFunctionOnSet(two, S) = SumFunctionOnSet(one, S) + SumFunctionOnSet(luck, S)
        <3>1. PairSums(two, one, luck, S)
            BY <2>4 DEF PairSums
        <3>2. QED
            BY <1>1, <3>1, SumPlus
    <2>8. /\ SumFunctionOnSet(grant, S) \in Int /\ SumFunctionOnSet(over, S) \in Int
          /\ SumFunctionOnSet(two, S) = SumFunctionOnSet(grant, S) + SumFunctionOnSet(over, S)
        <3>1. PairSums(two, grant, over, S)
            BY <2>4, <2>5 DEF PairSums
        <3>2. QED
            BY <1>1, <3>1, SumPlus
    <2>9. Crumb(c, s) = s.remaining - SumFunctionOnSet(share, A)
        BY DEF Crumb, share, A
    <2>10. \A a, b, d, x, y, z \in Int :
             /\ (a + b) + d = x + y /\ d = z - b
             => x + y = a + z
        OBVIOUS
    <2>11. s.remaining \in Int /\ left \in Int /\ Crumb(c, s) \in Int
        BY <1>2, <1>7, <1>12
    <2>12. QED
        BY <2>1, <2>2, <2>3, <2>6, <2>7, <2>8, <2>9, <2>10, <2>11
<1>15. n.grant = grant /\ n.frozen = s.frozen \cup F /\ n.remaining = left
    BY <1>9
<1>16. n \in FillState(S)
    <2>1. s.frozen \cup F \in SUBSET S
        BY <1>2, <1>3
    <2> HIDE DEF grant, left
    <2>2. QED
        BY <1>9, <1>11, <1>12, <2>1 DEF FillState
<1>17. ASSUME NEW i \in F
       PROVE  n.grant[i] = effective_cap(c[i]) /\ n.grant[i] > s.grant[i]
    <2>1. i \in A /\ i \in S /\ n.grant[i] = effective_cap(c[i])
        BY <1>3, <1>15
    <2>2. effective_cap(c[i]) \in Nat /\ s.grant[i] \in Nat /\ s.grant[i] < effective_cap(c[i])
        BY <1>2, <1>5, <1>6, <2>1 DEF A
    <2>3. QED
        BY <2>1, <2>2
<1>18. ASSUME NEW i \in A PROVE n.grant[i] <= s.grant[i] + share[i] + 1
    <2>1. i \in S /\ want[i] \in Nat /\ want[i] <= s.grant[i] + share[i] + 1
        BY <1>3, <1>8
    <2>2. CASE i \in F
        <3>1. n.grant[i] = effective_cap(c[i]) /\ effective_cap(c[i]) \in Nat /\ want[i] >= effective_cap(c[i])
            BY <1>5, <1>8, <1>17, <2>1, <2>2
        <3>2. s.grant[i] \in Nat /\ share[i] \in Nat
            BY <1>2, <1>7, <2>1
        <3>3. QED
            BY <2>1, <3>1, <3>2
    <2>3. CASE i \notin F
        <3>1. n.grant[i] = want[i]
            BY <1>15, <2>1, <2>3
        <3>2. QED
            BY <2>1, <3>1
    <2>4. QED
        BY <2>2, <2>3
<1>19. ASSUME NEW i \in A, i \notin F
       PROVE  n.grant[i] >= s.grant[i] + share[i] /\ n.grant[i] < effective_cap(c[i])
    <2>1. i \in S /\ n.grant[i] = want[i]
        BY <1>3, <1>15, <1>19
    <2>2. want[i] \in Nat /\ effective_cap(c[i]) \in Nat /\ ~(want[i] >= effective_cap(c[i]))
        BY <1>5, <1>8, <1>19, <2>1
    <2>3. want[i] >= s.grant[i] + share[i]
        BY <1>8
    <2>4. QED
        BY <2>1, <2>2, <2>3
<1>20. ASSUME NEW i \in s.frozen PROVE n.grant[i] = s.grant[i]
    <2>1. i \in S /\ i \notin A /\ i \notin F
        BY <1>2, <1>3
    <2>2. QED
        BY <1>15, <2>1
<1> HIDE DEF n, grant, left
<1>21. QED
    BY <1>2, <1>13, <1>14, <1>15, <1>16, <1>17, <1>18, <1>19, <1>20 DEF n, A, F, share

\* What is shared by weight stays so, up to a crumb more on either side.
LEMMA CloseGrows ==
    ASSUME NEW a \in Nat, NEW b \in Nat, NEW x \in Int, NEW y \in Int, NEW k \in Nat, NEW m \in Nat,
           NEW p \in Nat, NEW q \in Nat, NEW u \in Int, NEW v \in Int,
           (y - k) * a <= (x + k) * b, q * a <= (p + 1) * b,
           m >= k + 1, v <= y + q + 1, u >= x + p
    PROVE  (v - m) * a <= (u + m) * b
<1>1. (v - m) * a <= ((y - k) + q) * a
    <2>1. v - m <= (y - k) + q
        OBVIOUS
    <2>2. \A d, e \in Int : d <= e => d * a <= e * a
        OBVIOUS
    <2>3. QED
        BY <2>1, <2>2
<1>2. ((x + k) + (p + 1)) * b <= (u + m) * b
    <2>1. (x + k) + (p + 1) <= u + m
        OBVIOUS
    <2>2. \A d, e \in Int : d <= e => d * b <= e * b
        OBVIOUS
    <2>3. QED
        BY <2>1, <2>2
<1>3. ((y - k) + q) * a = (y - k) * a + q * a
    OBVIOUS
<1>4. ((x + k) + (p + 1)) * b = (x + k) * b + (p + 1) * b
    OBVIOUS
<1> DEFINE c1 == (y - k) * a
           c2 == q * a
           c3 == (x + k) * b
           c4 == (p + 1) * b
<1>5. c1 \in Int /\ c2 \in Int /\ c3 \in Int /\ c4 \in Int /\ c1 <= c3 /\ c2 <= c4
    OBVIOUS
<1>6. (v - m) * a <= c1 + c2 /\ c3 + c4 <= (u + m) * b /\ (v - m) * a \in Int /\ (u + m) * b \in Int
    BY <1>1, <1>2, <1>3, <1>4
<1> HIDE DEF c1, c2, c3, c4
<1>7. QED
    BY <1>5, <1>6

\* The passes made so far are a number.
LEMMA PassesType ==
    ASSUME NEW S, IsFiniteSet(S), NEW s \in FillState(S)
    PROVE  Cardinality(s.frozen) \in Nat /\ Passes(s) \in Nat /\ IsFiniteSet(s.frozen)
<1>1. s.frozen \in SUBSET S
    BY DEF FillState
<1>2. IsFiniteSet(s.frozen) /\ Cardinality(s.frozen) \in Nat
    BY <1>1, FS_Subset, FS_CardinalityType
<1>3. QED
    BY <1>2 DEF Passes

\* A pass over a state that is not dry counts.
LEMMA PassCounts ==
    ASSUME NEW c, Siblings(c), NEW s \in FillState(DOMAIN c), ~Dry(c, s),
           \A i \in DOMAIN c : Settled(c, s, i)
    PROVE  /\ Passes(EvenPass(c, s)) >= Passes(s) + 1
           /\ \/ EvenPass(c, s).remaining = 0
              \/ Cardinality(EvenPass(c, s).frozen) >= Cardinality(s.frozen) + 1
<1> DEFINE n == EvenPass(c, s)
<1>1. PICK S \in SUBSET Nat : IsFiniteSet(S) /\ c \in [S -> Demand] /\ DOMAIN c = S
    BY DEF Siblings
<1>2. /\ n \in FillState(S) /\ n.frozen = s.frozen \cup Full(c, s)
      /\ Full(c, s) = {} => n.remaining = 0
    BY <1>1, PassGrants
<1> HIDE DEF n
<1>3. /\ Cardinality(s.frozen) \in Nat /\ IsFiniteSet(s.frozen)
      /\ Cardinality(n.frozen) \in Nat /\ IsFiniteSet(n.frozen)
    BY <1>1, <1>2, PassesType
<1>4. Passes(s) = Cardinality(s.frozen)
    BY <1>3 DEF Passes, Dry
<1>5. CASE Full(c, s) = {}
    <2>1. n.frozen = s.frozen /\ n.remaining = 0
        BY <1>2, <1>5
    <2>2. Passes(n) = Cardinality(s.frozen) + 1
        BY <2>1 DEF Passes
    <2>3. QED
        BY <1>3, <1>4, <2>1, <2>2 DEF n
<1>6. CASE Full(c, s) # {}
    <2>1. s.frozen \in SUBSET n.frozen /\ s.frozen # n.frozen
        <3>1. PICK x : x \in Full(c, s)
            BY <1>6
        <3>2. x \notin s.frozen
            BY <3>1 DEF Full, Active
        <3>3. QED
            BY <1>2, <3>1, <3>2
    <2>2. /\ Cardinality(s.frozen) <= Cardinality(n.frozen)
          /\ Cardinality(n.frozen) # Cardinality(s.frozen)
        BY <1>3, <2>1, FS_Subset
    <2>3. Cardinality(n.frozen) >= Cardinality(s.frozen) + 1
        BY <1>3, <2>2
    <2>4. Passes(n) >= Cardinality(n.frozen)
        BY <1>3 DEF Passes
    <2>5. Passes(n) \in Nat
        BY <1>1, <1>2, PassesType
    <2>6. QED
        BY <1>3, <1>4, <2>3, <2>4, <2>5 DEF n
<1>7. QED
    BY <1>5, <1>6

\* A dry state stays as it is.
LEMMA DryStays ==
    ASSUME NEW c, Siblings(c), NEW s \in FillState(DOMAIN c), Dry(c, s)
    PROVE  EvenPass(c, s) = s
<1>1. CASE s.remaining = 0
    BY <1>1, PassStays
<1>2. CASE s.frozen = DOMAIN c
    <2>1. Active(c, s) = {}
        BY <1>2 DEF Active
    <2>2. IsFiniteSet({}) /\ \A x \in {} : c[x].weight \in Int
        BY FS_EmptySet
    <2> DEFINE w == [i \in {} |-> c[i].weight]
    <2>3. \A x \in {} : w[x] \in Int
        OBVIOUS
    <2> HIDE DEF w
    <2>4. SumFunctionOnSet(w, {}) = 0
        BY <2>2, <2>3, SumTakesOne
    <2>5. WeightOf(c, s) = 0
        BY <2>1, <2>4 DEF WeightOf, w
    <2>6. QED
        BY <2>5, PassStays
<1>3. QED
    BY <1>1, <1>2 DEF Dry

\* Every pass keeps the fill.
LEMMA PassKeeps ==
    ASSUME NEW band \in Nat, NEW c, Siblings(c), NEW s, Filled(band, c, s)
    PROVE  Filled(band, c, EvenPass(c, s))
<1>1. PICK S \in SUBSET Nat : IsFiniteSet(S) /\ c \in [S -> Demand] /\ DOMAIN c = S
    BY DEF Siblings
<1>2. CASE Dry(c, s)
    <2>1. s \in FillState(DOMAIN c)
        BY DEF Filled
    <2>2. EvenPass(c, s) = s
        BY <1>2, <2>1, DryStays
    <2>3. QED
        BY <2>2
<1>3. CASE ~Dry(c, s)
    <2> DEFINE n == EvenPass(c, s)
               A == Active(c, s)
               F == Full(c, s)
               share == Share(c, s)
    <2>1. /\ s \in FillState(S) /\ SumFunctionOnSet(s.grant, S) + s.remaining = band
          /\ \A i \in S : Settled(c, s, i)
          /\ \A i \in A, j \in S : Close(c, s, i, j)
        BY <1>1 DEF Filled, Active
    <2>2. /\ n \in FillState(S)
          /\ n.frozen = s.frozen \cup F
          /\ \A i \in F : n.grant[i] = effective_cap(c[i]) /\ n.grant[i] > s.grant[i]
          /\ \A i \in A : n.grant[i] <= s.grant[i] + share[i] + 1
          /\ \A i \in A \ F : n.grant[i] >= s.grant[i] + share[i] /\ n.grant[i] < effective_cap(c[i])
          /\ \A i \in s.frozen : n.grant[i] = s.grant[i]
          /\ SumFunctionOnSet(n.grant, S) + n.remaining = SumFunctionOnSet(s.grant, S) + s.remaining
        BY <1>1, <1>3, <2>1, PassGrants, ZenonT(60)
    <2>3. F \in SUBSET A /\ A \in SUBSET S /\ A = S \ s.frozen
        BY <1>1 DEF Full, Active
    <2>4. \A i \in S : c[i].weight \in Nat /\ c[i].min \in Nat /\ effective_cap(c[i]) \in Nat
        BY <1>1, DemandType
    <2>5. \A i \in S : s.grant[i] \in Nat /\ n.grant[i] \in Nat
        BY <2>1, <2>2 DEF FillState
    <2>6. \A i \in A : c[i].weight > 0 /\ s.grant[i] < effective_cap(c[i]) /\ s.grant[i] >= c[i].min
        BY <1>1, <2>1, <2>3 DEF Settled
    <2>7. /\ WeightOf(c, s) \in Nat \ {0} /\ s.remaining \in Nat
          /\ \A i \in A : share[i] = (s.remaining * c[i].weight) \div WeightOf(c, s) /\ share[i] \in Nat
        <3>1. s.frozen # DOMAIN c /\ s.remaining \in Nat
            BY <1>3, <2>1 DEF Dry, FillState
        <3>2. QED
            BY <1>1, <2>1, <2>6, <3>1, OfferAdds
    <2>8. Passes(s) \in Nat /\ Passes(n) \in Nat /\ Passes(n) >= Passes(s) + 1
        BY <1>1, <1>3, <2>1, <2>2, PassesType, PassCounts
    <2> HIDE DEF n, A, F, share
    <2>9. ASSUME NEW i \in S PROVE Settled(c, n, i)
        <3>0. /\ c[i].weight \in Nat /\ c[i].min \in Nat /\ effective_cap(c[i]) \in Nat
              /\ s.grant[i] \in Nat /\ n.grant[i] \in Nat
            BY <2>4, <2>5
        <3>1. CASE i \in s.frozen
            <4>1. n.grant[i] = s.grant[i] /\ i \in n.frozen
                BY <2>2, <3>1
            <4>2. Settled(c, s, i)
                BY <2>1
            <4>3. QED
                BY <3>1, <4>1, <4>2 DEF Settled
        <3>2. CASE i \in F
            <4>1. i \in n.frozen /\ i \in A /\ n.grant[i] = effective_cap(c[i]) /\ n.grant[i] > s.grant[i]
                BY <2>2, <2>3, <3>2
            <4>2. c[i].weight > 0 /\ s.grant[i] >= c[i].min
                BY <2>6, <4>1
            <4>3. QED
                BY <3>0, <4>1, <4>2 DEF Settled
        <3>3. CASE i \in A \ F
            <4>1. i \notin n.frozen /\ share[i] \in Nat
                BY <2>2, <2>3, <2>7, <3>3
            <4>2. n.grant[i] >= s.grant[i] + share[i] /\ n.grant[i] < effective_cap(c[i])
                BY <2>2, <3>3
            <4>3. c[i].weight > 0 /\ s.grant[i] >= c[i].min
                BY <2>6, <3>3
            <4>4. QED
                BY <3>0, <4>1, <4>2, <4>3 DEF Settled
        <3>4. QED
            BY <2>3, <3>1, <3>2, <3>3
    <2>10. ASSUME NEW i \in S \ n.frozen, NEW j \in S PROVE Close(c, n, i, j)
        <3>1. i \in A /\ i \notin F
            BY <2>2, <2>3
        <3>2. /\ c[i].weight \in Nat /\ c[j].weight \in Nat /\ c[i].min \in Nat /\ c[j].min \in Nat
              /\ s.grant[i] \in Nat /\ n.grant[i] \in Nat /\ s.grant[j] \in Nat /\ n.grant[j] \in Nat
            BY <2>4, <2>5
        <3> DEFINE a == c[i].weight
                   b == c[j].weight
                   x == s.grant[i] - c[i].min
                   y == s.grant[j] - c[j].min
                   u == n.grant[i] - c[i].min
                   v == n.grant[j] - c[j].min
                   k == Passes(s)
                   m == Passes(n)
                   p == share[i]
        <3>3. (y - k) * a <= (x + k) * b
            BY <2>1, <3>1 DEF Close
        <3>4. p \in Nat /\ n.grant[i] >= s.grant[i] + p
            BY <2>2, <2>7, <3>1
        <3>5. u >= x + p
            BY <3>2, <3>4
        <3>6. \E q \in Nat : q * a <= (p + 1) * b /\ v <= y + q + 1
            <4>1. CASE j \in A
                <5>1. share[j] \in Nat /\ n.grant[j] <= s.grant[j] + share[j] + 1
                    BY <2>2, <2>7, <4>1
                <5>2. /\ share[j] = (s.remaining * c[j].weight) \div WeightOf(c, s)
                      /\ share[i] = (s.remaining * c[i].weight) \div WeightOf(c, s)
                    BY <2>7, <3>1, <4>1
                <5>3. share[j] * c[i].weight <= (share[i] + 1) * c[j].weight
                    BY <2>7, <3>2, <5>2, PartsInProportion
                <5>4. v <= y + share[j] + 1
                    BY <3>2, <5>1
                <5>5. QED
                    BY <5>1, <5>3, <5>4
            <4>2. CASE j \notin A
                <5>1. n.grant[j] = s.grant[j]
                    BY <2>2, <2>3, <4>2
                <5>2. 0 * a <= (p + 1) * b
                    BY <3>2, <3>4
                <5>3. v <= y + 0 + 1
                    BY <3>2, <5>1
                <5>4. QED
                    BY <5>2, <5>3
            <4>3. QED
                BY <4>1, <4>2
        <3>7. PICK q \in Nat : q * a <= (p + 1) * b /\ v <= y + q + 1
            BY <3>6
        <3>8. a \in Nat /\ b \in Nat /\ x \in Int /\ y \in Int /\ u \in Int /\ v \in Int
            BY <3>2
        <3>a. k \in Nat /\ m \in Nat /\ m >= k + 1
            BY <2>8
        <3>b. (v - m) * a <= (u + m) * b <=> Close(c, n, i, j)
            BY DEF Close
        <3> HIDE DEF a, b, x, y, u, v, k, m, p
        <3>9. (v - m) * a <= (u + m) * b
            BY <3>3, <3>4, <3>5, <3>7, <3>8, <3>a, CloseGrows
        <3>10. QED
            BY <3>9, <3>b
    <2>11. QED
        BY <1>1, <2>1, <2>2, <2>9, <2>10 DEF Filled, n
<1>4. QED
    BY <1>2, <1>3

\* The state before the first pass, and the passes.
Start(band, c) ==
    [grant     |-> [i \in DOMAIN c |-> c[i].min],
     frozen    |-> {i \in DOMAIN c : c[i].weight = 0 \/ c[i].min >= effective_cap(c[i])},
     remaining |-> band - SumFunctionOnSet([i \in DOMAIN c |-> c[i].min], DOMAIN c)]

Floors(c) == SumFunctionOnSet([i \in DOMAIN c |-> c[i].min], DOMAIN c)

PassesOf(c, start, N) == CHOOSE f : f = [n \in 0..N |-> IF n = 0 THEN start ELSE EvenPass(c, f[n - 1])]

\* allocate_even scales the floors down, or grants what its last pass left.
LEMMA EvenIs ==
    ASSUME NEW band, NEW c
    PROVE  /\ Floors(c) >= band => allocate_even(band, c) = ScaledFloors(band, c, Floors(c))
           /\ ~(Floors(c) >= band) =>
                 allocate_even(band, c)
                   = PassesOf(c, Start(band, c), Cardinality(DOMAIN c) + 1)[Cardinality(DOMAIN c) + 1].grant
BY Zenon DEF allocate_even, Floors, Start, PassesOf

\* The floors add up to a number no smaller than any of them.
LEMMA FloorsType ==
    ASSUME NEW c, Siblings(c)
    PROVE  Floors(c) \in Nat /\ \A i \in DOMAIN c : c[i].min \in Nat /\ c[i].min <= Floors(c)
<1>1. PICK S \in SUBSET Nat : IsFiniteSet(S) /\ c \in [S -> Demand] /\ DOMAIN c = S
    BY DEF Siblings
<1> DEFINE floor == [i \in S |-> c[i].min]
<1>2. \A i \in S : floor[i] \in Nat /\ floor[i] = c[i].min
    BY <1>1, DemandType
<1>3. Floors(c) = SumFunctionOnSet(floor, S)
    BY <1>1 DEF Floors
<1> HIDE DEF floor
<1>4. QED
    BY <1>1, <1>2, <1>3, SumNat

\* The floors themselves are a fill of the band.
LEMMA StartFilled ==
    ASSUME NEW band \in Nat, NEW c, Siblings(c), Floors(c) < band
    PROVE  Filled(band, c, Start(band, c))
<1>1. PICK S \in SUBSET Nat : IsFiniteSet(S) /\ c \in [S -> Demand] /\ DOMAIN c = S
    BY DEF Siblings
<1> DEFINE s == Start(band, c)
<1>2. \A i \in S : c[i].weight \in Nat /\ c[i].min \in Nat /\ effective_cap(c[i]) \in Nat
    BY <1>1, DemandType
<1>3. Floors(c) \in Nat
    BY FloorsType
<1>4. /\ s.grant = [i \in S |-> c[i].min] /\ s.remaining = band - Floors(c)
      /\ s.frozen = {i \in S : c[i].weight = 0 \/ c[i].min >= effective_cap(c[i])}
      /\ s = [grant |-> s.grant, frozen |-> s.frozen, remaining |-> s.remaining]
    BY <1>1 DEF Start, Floors
<1>5. Floors(c) = SumFunctionOnSet(s.grant, S)
    BY <1>1, <1>4 DEF Floors
<1> HIDE DEF s
<1>6. s \in FillState(S)
    <2>1. s.grant \in [S -> Nat]
        BY <1>2, <1>4
    <2>2. s.frozen \in SUBSET S
        BY <1>4
    <2>3. s.remaining \in Nat
        BY <1>3, <1>4
    <2>4. QED
        BY <1>4, <2>1, <2>2, <2>3 DEF FillState
<1>7. SumFunctionOnSet(s.grant, S) + s.remaining = band
    BY <1>3, <1>4, <1>5
<1>8. ASSUME NEW i \in S PROVE Settled(c, s, i)
    <2>1. s.grant[i] = c[i].min
        BY <1>4
    <2>2. i \in s.frozen <=> (c[i].weight = 0 \/ c[i].min >= effective_cap(c[i]))
        BY <1>4
    <2>3. c[i].weight \in Nat /\ c[i].min \in Nat /\ effective_cap(c[i]) \in Nat
        BY <1>2
    <2>4. QED
        BY <2>1, <2>2, <2>3 DEF Settled
<1>9. ASSUME NEW i \in S \ s.frozen, NEW j \in S PROVE Close(c, s, i, j)
    <2>1. s.grant[i] = c[i].min /\ s.grant[j] = c[j].min /\ Passes(s) \in Nat
        BY <1>1, <1>4, <1>6, PassesType
    <2>2. c[i].weight \in Nat /\ c[j].weight \in Nat /\ c[i].min \in Nat /\ c[j].min \in Nat
        BY <1>2
    <2>3. \A k, a, b \in Nat : (0 - k) * a <= (0 + k) * b
        <3> SUFFICES ASSUME NEW k \in Nat, NEW a \in Nat, NEW b \in Nat PROVE (0 - k) * a <= (0 + k) * b
            OBVIOUS
        <3>1. k * a \in Nat /\ k * b \in Nat /\ (0 - k) * a = 0 - k * a /\ (0 + k) * b = k * b
            OBVIOUS
        <3>2. QED
            BY <3>1
    <2>4. s.grant[j] - c[j].min = 0 /\ s.grant[i] - c[i].min = 0
        BY <2>1, <2>2
    <2>5. QED
        BY <2>1, <2>2, <2>3, <2>4 DEF Close
<1>10. QED
    BY <1>1, <1>6, <1>7, <1>8, <1>9 DEF Filled, s

\* After a pass for every claimant and one more, the fill is dry.
LEMMA FillEnds ==
    ASSUME NEW band \in Nat, NEW c, Siblings(c), Floors(c) < band
    PROVE  LET N == Cardinality(DOMAIN c) + 1
               s == PassesOf(c, Start(band, c), N)[N]
           IN  Filled(band, c, s) /\ Dry(c, s)
<1>1. PICK S \in SUBSET Nat : IsFiniteSet(S) /\ c \in [S -> Demand] /\ DOMAIN c = S
    BY DEF Siblings
<1> DEFINE N == Cardinality(DOMAIN c) + 1
           start == Start(band, c)
           pass == PassesOf(c, start, N)
           D == {s \in FillState(S) : Filled(band, c, s)}
           F == [z \in Nat \X D |-> EvenPass(c, z[2])]
           V == [n \in Nat |-> {s \in D : Dry(c, s) \/ Cardinality(s.frozen) >= n}]
<1>2. N \in Nat /\ N >= 1 /\ Cardinality(S) = N - 1
    BY <1>1, FS_CardinalityType
<1>3. \A s : Filled(band, c, s) => s \in D
    BY <1>1 DEF Filled
<1>4. start \in D
    BY <1>3, StartFilled
<1>5. \A s \in D : EvenPass(c, s) \in D
    BY <1>3, PassKeeps
<1>6. \A n \in Nat : \A s \in D : F[<<n, s>>] = EvenPass(c, s)
    OBVIOUS
<1> HIDE DEF D, F, start, N
<1>7. \E f : f = [n \in 0..N |-> IF n = 0 THEN start ELSE EvenPass(c, f[n - 1])]
    <2>1. \A n \in Nat : \A s \in D : F[<<n, s>>] \in D
        BY <1>5, <1>6
    <2>2. PICK f : Recursion(f, start, F, N) /\ \A n \in 0..N : f[n] \in D
        BY <1>2, <1>4, <2>1, RecursionIn
    <2>3. \A n \in 0..N : n # 0 => n - 1 \in Nat /\ n - 1 \in 0..N
        BY <1>2
    <2>4. \A n \in 0..N : n # 0 => F[<<n - 1, f[n - 1]>>] = EvenPass(c, f[n - 1])
        BY <1>6, <2>2, <2>3
    <2>5. f = [n \in 0..N |-> IF n = 0 THEN start ELSE EvenPass(c, f[n - 1])]
        BY <2>2, <2>4, Zenon DEF Recursion
    <2>6. QED
        BY <2>5, Zenon
<1>8. pass = [n \in 0..N |-> IF n = 0 THEN start ELSE EvenPass(c, pass[n - 1])]
    BY <1>7, Zenon DEF PassesOf
<1> HIDE DEF pass
<1>9. pass[0] = start /\ \A n \in Nat : n < N => pass[n + 1] = EvenPass(c, pass[n])
    <2>1. \A n \in 0..N : pass[n] = IF n = 0 THEN start ELSE EvenPass(c, pass[n - 1])
        BY <1>8, Zenon
    <2>2. 0 \in 0..N
        BY <1>2
    <2>3. pass[0] = start
        BY <2>1, <2>2, Zenon
    <2>4. ASSUME NEW n \in Nat, n < N PROVE pass[n + 1] = EvenPass(c, pass[n])
        <3>1. n + 1 \in 0..N /\ n + 1 # 0 /\ (n + 1) - 1 = n
            BY <1>2, <2>4
        <3>2. QED
            BY <2>1, <3>1, Zenon
    <2>5. QED
        BY <2>3, <2>4
<1>10. \A s \in D : s \in FillState(S) /\ Filled(band, c, s) /\ Cardinality(s.frozen) \in Nat
    BY <1>1, PassesType DEF D
<1>11. start \in V[0]
    BY <1>4, <1>10
<1>12. ASSUME NEW n \in Nat, n < N, pass[n] \in V[n] PROVE pass[n + 1] \in V[n + 1]
    <2> DEFINE s == pass[n]
               t == EvenPass(c, s)
    <2>1. s \in D /\ (Dry(c, s) \/ Cardinality(s.frozen) >= n)
        BY <1>12
    <2>2. pass[n + 1] = t /\ t \in D
        BY <1>5, <1>9, <1>12, <2>1
    <2>3. Dry(c, t) \/ Cardinality(t.frozen) >= n + 1
        <3>1. CASE Dry(c, s)
            <4>1. t = s
                BY <1>1, <1>10, <2>1, <3>1, DryStays
            <4>2. QED
                BY <3>1, <4>1
        <3>2. CASE ~Dry(c, s)
            <4>1. \A i \in DOMAIN c : Settled(c, s, i)
                BY <1>10, <2>1 DEF Filled
            <4>2. t.remaining = 0 \/ Cardinality(t.frozen) >= Cardinality(s.frozen) + 1
                BY <1>1, <1>10, <2>1, <3>2, <4>1, PassCounts
            <4>3. Cardinality(s.frozen) \in Nat /\ Cardinality(t.frozen) \in Nat
                BY <1>10, <2>1, <2>2
            <4>4. CASE t.remaining = 0
                BY <4>4 DEF Dry
            <4>5. CASE Cardinality(t.frozen) >= Cardinality(s.frozen) + 1
                <5>1. Cardinality(s.frozen) >= n
                    BY <2>1, <3>2
                <5> HIDE DEF s, t
                <5>2. QED
                    BY <4>3, <4>5, <5>1
            <4>6. QED
                BY <4>2, <4>4, <4>5
        <3>3. QED
            BY <3>1, <3>2
    <2> HIDE DEF s, t
    <2>4. n + 1 \in Nat
        OBVIOUS
    <2>5. QED
        BY <2>2, <2>3, <2>4
<1>13. \A n \in Nat : V[n] = {s \in D : Dry(c, s) \/ Cardinality(s.frozen) >= n}
    OBVIOUS
<1> HIDE DEF V
<1>14. \A n \in 0..N : pass[n] \in V[n]
    BY <1>2, <1>9, <1>11, <1>12, Follows
<1>15. pass[N] \in D /\ (Dry(c, pass[N]) \/ Cardinality(pass[N].frozen) >= N)
    <2>1. N \in 0..N
        BY <1>2
    <2>2. QED
        BY <1>2, <1>13, <1>14, <2>1
<1>16. Dry(c, pass[N])
    <2>1. pass[N].frozen \in SUBSET S /\ Cardinality(pass[N].frozen) \in Nat
        BY <1>10, <1>15 DEF FillState
    <2>2. Cardinality(pass[N].frozen) <= Cardinality(S)
        BY <1>1, <2>1, FS_Subset
    <2>3. ~(Cardinality(pass[N].frozen) >= N)
        BY <1>2, <2>1, <2>2
    <2>4. QED
        BY <1>15, <2>3
<1>17. QED
    BY <1>10, <1>15, <1>16 DEF pass, start, N

\* What a dry fill grants is fair.
LEMMA FilledIsFair ==
    ASSUME NEW band \in Nat, NEW c, Siblings(c), NEW s, Filled(band, c, s), Dry(c, s)
    PROVE  Fair(band, c, s.grant)
<1>1. PICK S \in SUBSET Nat : IsFiniteSet(S) /\ c \in [S -> Demand] /\ DOMAIN c = S
    BY DEF Siblings
<1> DEFINE g == s.grant
           used == SumFunctionOnSet(g, S)
           hungry == {i \in S : c[i].weight > 0 /\ g[i] < effective_cap(c[i])}
           n == Cardinality(S)
<1>2. /\ s \in FillState(S) /\ used + s.remaining = band
      /\ \A i \in S : Settled(c, s, i)
      /\ \A i \in S \ s.frozen, j \in S : Close(c, s, i, j)
    BY <1>1 DEF Filled
<1>3. g \in [S -> Nat] /\ s.remaining \in Nat /\ s.frozen \in SUBSET S
    BY <1>2 DEF FillState
<1>4. used \in Nat
    BY <1>1, <1>3, SumNat
<1>5. \A i \in S : c[i].weight \in Nat /\ c[i].min \in Nat /\ effective_cap(c[i]) \in Nat
    BY <1>1, DemandType
<1>6. used <= band
    BY <1>2, <1>3, <1>4
<1>7. ASSUME NEW i \in S
      PROVE  /\ g[i] - c[i].min >= 0
             /\ g[i] - c[i].min > 0 => g[i] <= effective_cap(c[i]) /\ c[i].weight > 0
    <2>1. g[i] \in Nat /\ c[i].min \in Nat
        BY <1>3, <1>5
    <2>2. g[i] >= c[i].min /\ (g[i] > c[i].min => g[i] <= effective_cap(c[i]) /\ c[i].weight > 0)
        BY <1>2 DEF Settled
    <2>3. QED
        BY <2>1, <2>2
<1>8. ASSUME NEW i \in hungry PROVE i \in S \ s.frozen
    <2>1. g[i] \in Nat /\ effective_cap(c[i]) \in Nat
        BY <1>3, <1>5
    <2>2. Settled(c, s, i)
        BY <1>2
    <2>3. QED
        BY <1>8, <2>1, <2>2 DEF Settled
<1>9. hungry # {} => used = band
    <2> SUFFICES ASSUME hungry # {} PROVE used = band
        OBVIOUS
    <2>1. s.frozen # S
        BY <1>8
    <2>2. s.remaining = 0
        BY <1>1, <2>1 DEF Dry
    <2>3. QED
        BY <1>2, <1>4, <2>2
<1>10. ASSUME NEW i \in hungry, NEW j \in S
       PROVE  (g[j] - c[j].min - n) * c[i].weight <= (g[i] - c[i].min + n) * c[j].weight
    <2>1. i \in S /\ i \notin s.frozen
        BY <1>8
    <2>2. Passes(s) \in Nat /\ Cardinality(s.frozen) \in Nat /\ IsFiniteSet(s.frozen) /\ n \in Nat
        BY <1>1, <1>2, PassesType, FS_CardinalityType
    <2>3. Passes(s) <= n
        <3>1. Cardinality(s.frozen) <= n /\ n # Cardinality(s.frozen)
            <4>1. S # s.frozen
                BY <2>1
            <4>2. QED
                BY <1>1, <1>3, <4>1, FS_Subset
        <3> HIDE DEF n
        <3>2. QED
            BY <2>2, <3>1 DEF Passes
    <2> DEFINE x == g[i] - c[i].min
               y == g[j] - c[j].min
               a == c[i].weight
               b == c[j].weight
               k == Passes(s)
    <2>4. (y - k) * a <= (x + k) * b
        BY <1>2, <2>1 DEF Close
    <2>5. x \in Int /\ y \in Int /\ a \in Nat /\ b \in Nat
        BY <1>3, <1>5, <2>1
    <2> HIDE DEF x, y, a, b, n, k
    <2>6. (y - n) * a <= (y - k) * a /\ (x + k) * b <= (x + n) * b
        <3>1. y - n <= y - k /\ x + k <= x + n
            BY <2>2, <2>3, <2>5 DEF k
        <3>2. \A d, e \in Int : \A m \in Nat : d <= e => d * m <= e * m
            OBVIOUS
        <3>3. y - n \in Int /\ y - k \in Int /\ x + k \in Int /\ x + n \in Int
            BY <2>2, <2>5 DEF k
        <3>4. QED
            BY <2>5, <3>1, <3>2, <3>3
    <2>7. /\ (y - n) * a \in Int /\ (y - k) * a \in Int
          /\ (x + k) * b \in Int /\ (x + n) * b \in Int
        BY <2>2, <2>5 DEF k
    <2>8. (y - n) * a <= (x + n) * b
        BY <2>4, <2>6, <2>7
    <2>9. QED
        BY <2>8 DEF x, y, a, b
<1>11. QED
    BY <1>1, <1>6, <1>7, <1>9, <1>10, Zenon DEF Fair

\* Floors that do not fit are scaled into the band.
LEMMA ScaledIsFair ==
    ASSUME NEW band \in Nat, NEW c, Siblings(c), Floors(c) >= band
    PROVE  /\ ScaledFloors(band, c, Floors(c)) \in [DOMAIN c -> Nat]
           /\ Fair(band, c, ScaledFloors(band, c, Floors(c)))
<1>1. PICK S \in SUBSET Nat : IsFiniteSet(S) /\ c \in [S -> Demand] /\ DOMAIN c = S
    BY DEF Siblings
<1> DEFINE W == Floors(c)
           w == [i \in S |-> c[i].min]
           g == ScaledFloors(band, c, W)
           used == SumFunctionOnSet(g, S)
           n == Cardinality(S)
<1>2. W \in Nat /\ \A i \in S : c[i].min \in Nat /\ c[i].min <= W
    BY <1>1, FloorsType
<1>3. \A i \in S : w[i] \in Nat /\ w[i] = c[i].min
    BY <1>2
<1>4. W = SumFunctionOnSet(w, S) /\ W = SumFunctionOnSet([i \in S |-> c[i].min], S)
    BY <1>1 DEF Floors
<1>5. \A i \in S : c[i].weight \in Nat /\ effective_cap(c[i]) \in Nat
    BY <1>1, DemandType
<1>6. g = [i \in S |-> IF W = 0 THEN 0 ELSE (c[i].min * band) \div W]
    BY <1>1 DEF ScaledFloors
<1> HIDE DEF W, g, w
<1>7. g \in [S -> Nat]
    <2> SUFFICES ASSUME NEW i \in S PROVE (IF W = 0 THEN 0 ELSE (c[i].min * band) \div W) \in Nat
        BY <1>6
    <2>1. c[i].min * band \in Nat
        BY <1>2
    <2>2. QED
        BY <1>2, <2>1, Quotient
<1>8. used \in Nat /\ n \in Nat
    BY <1>1, <1>7, SumNat, FS_CardinalityType
<1>9. ASSUME W = band
      PROVE  used = band /\ \A i \in S : g[i] = c[i].min
    <2>1. ASSUME NEW i \in S PROVE g[i] = c[i].min
        <3>1. CASE W = 0
            BY <1>2, <1>6, <3>1
        <3>2. CASE W # 0
            <4>1. g[i] = (c[i].min * W) \div W
                BY <1>6, <1>9, <3>2
            <4>2. \A m \in Nat : (m * W) \div W = m
                <5> SUFFICES ASSUME NEW m \in Nat PROVE (m * W) \div W = m
                    OBVIOUS
                <5> DEFINE q == (m * W) \div W
                <5>1. m * W \in Nat /\ m * W = W * m
                    BY <1>2
                <5>2. q \in Nat /\ W * q <= W * m /\ W * m < W * q + W
                    BY <1>2, <3>2, <5>1, Quotient
                <5> HIDE DEF q
                <5>3. q <= m
                    <6>1. q \in Int /\ m \in Int
                        BY <5>2
                    <6>2. QED
                        BY <1>2, <3>2, <5>2, <6>1, Cancel
                <5>4. m <= q
                    <6>1. ASSUME m >= q + 1 PROVE FALSE
                        <7>1. W * m >= W * (q + 1)
                            BY <1>2, <5>2, <6>1
                        <7>2. W * (q + 1) = W * q + W
                            BY <1>2, <5>2
                        <7>3. QED
                            BY <1>2, <5>2, <7>1, <7>2
                    <6>2. QED
                        BY <5>2, <6>1
                <5>5. QED
                    BY <5>2, <5>3, <5>4 DEF q
            <4>3. QED
                BY <1>2, <4>1, <4>2
        <3>3. QED
            BY <3>1, <3>2
    <2>2. ASSUME NEW i \in S PROVE w[i] \in Int /\ g[i] = w[i]
        <3>1. w[i] \in Nat /\ w[i] = c[i].min /\ g[i] = c[i].min
            BY <1>3, <2>1
        <3>2. QED
            BY <3>1
    <2>3. SumFunctionOnSet(w, S) = SumFunctionOnSet(g, S)
        BY <1>1, <2>2, SumSame
    <2>4. QED
        BY <1>4, <1>9, <2>1, <2>3
<1>10. used <= band
    <2>1. CASE W = 0
        <3>1. W = band
            BY <2>1 DEF W
        <3>2. QED
            BY <1>9, <3>1
    <2>2. CASE W # 0
        <3>1. \A i \in S : g[i] = (band * w[i]) \div W
            BY <1>2, <1>3, <1>6, <2>2
        <3>2. W \in Nat \ {0}
            BY <1>2, <2>2
        <3>3. QED
            BY <1>1, <1>3, <1>4, <3>1, <3>2, PartsOfWhole
    <2>3. QED
        BY <2>1, <2>2
<1>11. ASSUME W <= band
       PROVE  /\ \A i \in S : g[i] - c[i].min = 0
              /\ used = band
    <2>1. W = band
        BY <1>2, <1>11 DEF W
    <2>2. QED
        BY <1>2, <1>9, <2>1
<1>12. ASSUME W <= band, NEW i \in S, NEW j \in S
       PROVE  (g[j] - c[j].min - n) * c[i].weight <= (g[i] - c[i].min + n) * c[j].weight
    <2>1. g[j] - c[j].min = 0 /\ g[i] - c[i].min = 0
        BY <1>11, <1>12
    <2>2. \A a, b \in Nat : (0 - n) * a <= (0 + n) * b
        <3> HIDE DEF n
        <3> SUFFICES ASSUME NEW a \in Nat, NEW b \in Nat PROVE (0 - n) * a <= (0 + n) * b
            OBVIOUS
        <3>1. n * a \in Nat /\ n * b \in Nat /\ (0 - n) * a = 0 - n * a /\ (0 + n) * b = n * b
            BY <1>8
        <3>2. QED
            BY <3>1
    <2>3. QED
        BY <1>5, <2>1, <2>2
<1>13. Fair(band, c, g)
    <2>1. W <= band =>
            /\ \A i \in S : /\ g[i] - c[i].min >= 0
                            /\ g[i] - c[i].min > 0 => g[i] <= effective_cap(c[i]) /\ c[i].weight > 0
            /\ used = band
            /\ \A i, j \in S :
                 (g[j] - c[j].min - n) * c[i].weight <= (g[i] - c[i].min + n) * c[j].weight
        BY <1>11, <1>12
    <2>2. QED
        BY <1>1, <1>4, <1>10, <2>1, Zenon DEF Fair
<1>14. QED
    BY <1>1, <1>7, <1>13 DEF g, W

\* allocate_even is fair to any finite set of siblings, whatever their
\* weights, floors and caps: it hands out no more than the band, every floor
\* that fits, nothing past what a claimant can use, all of the band while
\* someone could use it, and the rest by weight up to a crumb per claimant.
THEOREM EvenIsFair ==
    ASSUME NEW band \in Nat, NEW c, Siblings(c)
    PROVE  allocate_even(band, c) \in [DOMAIN c -> Nat] /\ Fair(band, c, allocate_even(band, c))
<1>1. Floors(c) \in Nat
    BY FloorsType
<1>2. CASE Floors(c) >= band
    BY <1>2, EvenIs, ScaledIsFair
<1>3. CASE ~(Floors(c) >= band)
    <2> DEFINE N == Cardinality(DOMAIN c) + 1
               s == PassesOf(c, Start(band, c), N)[N]
    <2>1. allocate_even(band, c) = s.grant
        BY <1>3, EvenIs
    <2>2. Floors(c) < band
        BY <1>1, <1>3
    <2>3. Filled(band, c, s) /\ Dry(c, s)
        BY <2>2, FillEnds
    <2> HIDE DEF s
    <2>4. Fair(band, c, s.grant)
        BY <2>3, FilledIsFair
    <2>5. s.grant \in [DOMAIN c -> Nat]
        BY <2>3 DEF Filled, FillState
    <2>6. QED
        BY <2>1, <2>4, <2>5
<1>4. QED
    BY <1>2, <1>3

-----------------------------------------------------------------------------
(***************************************************************************)
(* The forest.                                                             *)
(***************************************************************************)
\* A spec: some of the entries hold claims.
Claimed(c) == \E D \in SUBSET Entries : c \in [D -> Claim]

\* Those who have children: claimants, or the root.
Heads(c) == Ids(c) \cup {Root}

\* A forest: claims whose ids and parents parse_forest accepts.
Forest(c) == Claimed(c) /\ parse_forest(c)

\* Entries, ids and parents of a forest: an id names one entry, and a
\* parent is an id or the root.
LEMMA ForestType ==
    ASSUME NEW c, Forest(c)
    PROVE  /\ DOMAIN c \in SUBSET Nat /\ IsFiniteSet(DOMAIN c) /\ Cardinality(DOMAIN c) \in Nat
           /\ Root \notin Ids(c)
           /\ \A e \in DOMAIN c : /\ c[e].parent \in Heads(c) /\ c[e].id \in Ids(c)
                                  /\ Entry(c, c[e].id) = e
                                  /\ c[e].demand \in DemandVectors
           /\ \A p \in Ids(c) : Entry(c, p) \in DOMAIN c /\ c[Entry(c, p)].id = p
<1>1. PICK D \in SUBSET Entries : c \in [D -> Claim]
    BY DEF Forest, Claimed
<1>2. DOMAIN c = D /\ Entries \subseteq Nat \ {0} /\ IsFiniteSet(Entries)
    BY <1>1, QuinhaoAssumption
<1>3. IsFiniteSet(D) /\ Cardinality(D) \in Nat
    BY <1>2, FS_Subset, FS_CardinalityType
<1>4. ASSUME NEW e \in D
      PROVE  c[e].id \in Entries /\ c[e].demand \in DemandVectors /\ c[e].parent \in Heads(c)
    <2>1. c[e] \in Claim
        BY <1>1
    <2>2. QED
        BY <1>2, <2>1 DEF Claim, Forest, parse_forest, Heads
<1>5. Root \notin Ids(c)
    BY <1>2, <1>4 DEF Ids, Root
<1>6. ASSUME NEW p \in Ids(c) PROVE Entry(c, p) \in D /\ c[Entry(c, p)].id = p
    BY <1>2 DEF Ids, Entry
<1>7. ASSUME NEW e \in D PROVE c[e].id \in Ids(c) /\ Entry(c, c[e].id) = e
    <2>1. c[e].id \in Ids(c)
        BY <1>2 DEF Ids
    <2>2. Entry(c, c[e].id) \in D /\ c[Entry(c, c[e].id)].id = c[e].id
        BY <1>6, <2>1
    <2>3. QED
        BY <1>2, <2>1, <2>2 DEF Forest, parse_forest
<1>8. QED
    BY <1>2, <1>3, <1>4, <1>5, <1>6, <1>7

\* The way up stays in the forest.
LEMMA UpType ==
    ASSUME NEW c, Forest(c), NEW x \in Heads(c)
    PROVE  Up(c, x) \in Heads(c)
<1>1. CASE x = Root
    BY <1>1 DEF Up, Heads
<1>2. CASE x # Root
    <2>1. Entry(c, x) \in DOMAIN c
        BY <1>2, ForestType DEF Heads
    <2>2. QED
        BY <1>2, <2>1, ForestType DEF Up
<1>3. QED
    BY <1>1, <1>2

\* The way up from p.
LEMMA AboveIs ==
    ASSUME NEW c, Forest(c), NEW p \in Heads(c)
    PROVE  /\ Above(c, p)[0] = p
           /\ \A n \in Nat : n < Cardinality(DOMAIN c) => Above(c, p)[n + 1] = Up(c, Above(c, p)[n])
<1> DEFINE N == Cardinality(DOMAIN c)
           D == Heads(c)
           up == Above(c, p)
           F == [z \in Nat \X D |-> Up(c, z[2])]
<1>1. N \in Nat
    BY ForestType
<1>2. \A n \in Nat : \A x \in D : F[<<n, x>>] = Up(c, x) /\ F[<<n, x>>] \in D
    BY UpType
<1> HIDE DEF D, F, N
<1>3. \E f : f = [n \in 0..N |-> IF n = 0 THEN p ELSE Up(c, f[n - 1])]
    <2>1. p \in D
        BY DEF D
    <2>2. PICK f : Recursion(f, p, F, N) /\ \A n \in 0..N : f[n] \in D
        BY <1>1, <1>2, <2>1, RecursionIn
    <2>3. \A n \in 0..N : n # 0 => n - 1 \in Nat /\ n - 1 \in 0..N
        BY <1>1
    <2>4. \A n \in 0..N : n # 0 => F[<<n - 1, f[n - 1]>>] = Up(c, f[n - 1])
        BY <1>2, <2>2, <2>3
    <2>5. f = [n \in 0..N |-> IF n = 0 THEN p ELSE Up(c, f[n - 1])]
        BY <2>2, <2>4, Zenon DEF Recursion
    <2>6. QED
        BY <2>5, Zenon
<1>4. up = [n \in 0..N |-> IF n = 0 THEN p ELSE Up(c, up[n - 1])]
    BY <1>3, Zenon DEF Above, N
<1> HIDE DEF up
<1>5. \A n \in 0..N : up[n] = IF n = 0 THEN p ELSE Up(c, up[n - 1])
    BY <1>4, Zenon
<1>6. up[0] = p
    <2>1. 0 \in 0..N
        BY <1>1
    <2>2. QED
        BY <1>5, <2>1, Zenon
<1>7. ASSUME NEW n \in Nat, n < N PROVE up[n + 1] = Up(c, up[n])
    <2>1. n + 1 \in 0..N /\ n + 1 # 0 /\ (n + 1) - 1 = n
        BY <1>1, <1>7
    <2>2. QED
        BY <1>5, <2>1, Zenon
<1>8. QED
    BY <1>6, <1>7 DEF up, N

\* The depth of a parent is where its way up first meets the root.
LEMMA DepthIs ==
    ASSUME NEW c, NEW p, Cardinality(DOMAIN c) \in Nat,
           NEW m \in 0..Cardinality(DOMAIN c), Above(c, p)[m] = Root
    PROVE  /\ Depth(c, p) \in 0..m /\ Above(c, p)[Depth(c, p)] = Root
           /\ \A k \in 0..Depth(c, p) - 1 : Above(c, p)[k] # Root
<1> DEFINE N == Cardinality(DOMAIN c)
           T == {n \in 0..N : Above(c, p)[n] = Root}
<1>1. T \subseteq Nat /\ T # {} /\ m \in T
    OBVIOUS
<1> HIDE DEF T
<1>2. PICK d \in T : \A n \in T : d <= n
    BY <1>1, LeastNatural
<1>3. d \in 0..N /\ Above(c, p)[d] = Root /\ d <= m /\ m <= N
    BY <1>1, <1>2 DEF T
<1>4. \A k \in 0..d - 1 : Above(c, p)[k] # Root
    <2> SUFFICES ASSUME NEW k \in 0..d - 1, Above(c, p)[k] = Root PROVE FALSE
        OBVIOUS
    <2>1. k \in 0..N /\ k < d
        BY <1>3
    <2>2. k \in T
        BY <2>1 DEF T
    <2>3. QED
        BY <1>2, <1>3, <2>1, <2>2
<1>5. /\ Depth(c, p) \in 0..N /\ Above(c, p)[Depth(c, p)] = Root
      /\ \A k \in 0..Depth(c, p) - 1 : Above(c, p)[k] # Root
    BY <1>3, <1>4, Zenon DEF Depth
<1>6. Depth(c, p) <= m
    <2>1. ASSUME m < Depth(c, p) PROVE FALSE
        <3>1. m \in 0..Depth(c, p) - 1
            BY <1>5, <2>1
        <3>2. QED
            BY <1>5, <3>1
    <2>2. QED
        BY <1>5, <2>1
<1>7. QED
    BY <1>5, <1>6

\* The parent of an entry has a depth, and is deeper than its own parent.
LEMMA DepthFalls ==
    ASSUME NEW c, Forest(c), NEW e \in DOMAIN c
    PROVE  /\ Depth(c, c[e].parent) \in 0..Cardinality(DOMAIN c)
           /\ c[e].parent # Root =>
                Depth(c, c[Entry(c, c[e].parent)].parent) < Depth(c, c[e].parent)
<1> DEFINE N == Cardinality(DOMAIN c)
           p == c[e].parent
           d == Depth(c, p)
           q == c[Entry(c, p)].parent
<1>1. N \in Nat /\ p \in Heads(c)
    BY ForestType
<1>2. Above(c, p)[N] = Root
    BY DEF Forest, parse_forest
<1>3. d \in 0..N /\ Above(c, p)[d] = Root
    <2>1. N \in 0..N
        BY <1>1
    <2>2. QED
        BY <1>1, <1>2, <2>1, DepthIs
<1>4. ASSUME p # Root PROVE Depth(c, q) < d
    <2>1. Up(c, p) = q /\ q \in Heads(c)
        <3>1. Up(c, p) = q
            BY <1>4 DEF Up
        <3>2. QED
            BY <1>1, <3>1, UpType
    <2> DEFINE a == Above(c, p)
               b == Above(c, q)
    <2>2. a[0] = p /\ \A n \in Nat : n < N => a[n + 1] = Up(c, a[n])
        BY <1>1, AboveIs
    <2>3. b[0] = q /\ \A n \in Nat : n < N => b[n + 1] = Up(c, b[n])
        BY <2>1, AboveIs
    <2> HIDE DEF a, b, N, q, d, p
    <2>4. d # 0
        BY <1>3, <1>4, <2>2 DEF a
    <2>5. d - 1 \in Nat /\ d \in Nat /\ d <= N
        BY <1>1, <1>3, <2>4
    <2> DEFINE T == {n \in Nat : n < N => b[n] = a[n + 1]}
    <2>6. 0 \in T
        <3> SUFFICES ASSUME 0 < N PROVE b[0] = a[0 + 1]
            OBVIOUS
        <3>1. a[0 + 1] = Up(c, a[0])
            BY <2>2
        <3>2. QED
            BY <2>1, <2>2, <2>3, <3>1
    <2>7. ASSUME NEW n \in Nat, n \in T PROVE n + 1 \in T
        <3> SUFFICES ASSUME n + 1 < N PROVE b[n + 1] = a[(n + 1) + 1]
            OBVIOUS
        <3>1. n < N /\ n + 1 \in Nat
            BY <1>1
        <3>2. b[n] = a[n + 1]
            BY <2>7, <3>1
        <3>3. b[n + 1] = Up(c, b[n])
            BY <2>3, <3>1
        <3>4. a[(n + 1) + 1] = Up(c, a[n + 1])
            BY <2>2, <3>1
        <3>5. QED
            BY <3>2, <3>3, <3>4
    <2> HIDE DEF T
    <2>8. \A n \in Nat : n \in T
        BY <2>6, <2>7, AllNaturals
    <2>9. b[d - 1] = a[d]
        <3>1. d - 1 < N /\ (d - 1) + 1 = d
            BY <1>1, <2>5
        <3>2. QED
            BY <2>5, <2>8, <3>1 DEF T
    <2>10. Above(c, q)[d - 1] = Root /\ d - 1 \in 0..N
        BY <1>1, <1>3, <2>5, <2>9 DEF a, b
    <2>11. Depth(c, q) \in 0..d - 1
        BY <1>1, <2>10, DepthIs DEF N
    <2>12. QED
        BY <2>5, <2>11
<1>5. QED
    BY <1>3, <1>4

\* What a level does: the split of the parents at its depth, and the grants
\* above as they were.
Grants(c) == [DOMAIN c -> [Dims -> Nat]]

SplitLevel(c, g, n, split) ==
    [e \in DOMAIN c |-> IF Depth(c, c[e].parent) = n THEN split[<<g, c[e].parent>>][e] ELSE g[e]]

Levels(f, c, split, N) ==
    f = [n \in 0..N |-> IF n = 0 THEN NoGrants(c) ELSE SplitLevel(c, f[n - 1], n - 1, split)]

\* A split into numbers that depends on the parent's own grant alone.
Splits(c, split) ==
    /\ \A g \in Grants(c), p \in Heads(c) : \A e \in Kids(c, p) : split[<<g, p>>][e] \in [Dims -> Nat]
    /\ \A g, h \in Grants(c), p \in Heads(c) :
         p = Root \/ g[Entry(c, p)] = h[Entry(c, p)] => split[<<g, p>>] = split[<<h, p>>]

\* A level of a split grants numbers.
LEMMA LevelType ==
    ASSUME NEW c, Forest(c), NEW split, Splits(c, split), NEW g \in Grants(c), NEW n
    PROVE  SplitLevel(c, g, n, split) \in Grants(c)
<1> SUFFICES ASSUME NEW e \in DOMAIN c
             PROVE  (IF Depth(c, c[e].parent) = n THEN split[<<g, c[e].parent>>][e] ELSE g[e]) \in [Dims -> Nat]
    BY Zenon DEF Grants, SplitLevel
<1>1. c[e].parent \in Heads(c) /\ e \in Kids(c, c[e].parent)
    BY ForestType DEF Kids
<1>2. split[<<g, c[e].parent>>][e] \in [Dims -> Nat]
    BY <1>1 DEF Splits
<1>3. g[e] \in [Dims -> Nat]
    BY DEF Grants
<1>4. QED
    BY <1>2, <1>3

\* The levels of a forest exist.
LEMMA LevelsExist ==
    ASSUME NEW c, Forest(c), NEW split, Splits(c, split), NEW N \in Nat
    PROVE  \E f : Levels(f, c, split, N) /\ \A n \in 0..N : f[n] \in Grants(c)
<1> DEFINE D == Grants(c)
           F == [z \in Nat \X D |-> SplitLevel(c, z[2], z[1], split)]
<1>1. \A n \in Nat : \A g \in D : F[<<n, g>>] = SplitLevel(c, g, n, split) /\ F[<<n, g>>] \in D
    BY LevelType
<1>2. NoGrants(c) \in D
    BY DEF NoGrants, Grants
<1> HIDE DEF D, F
<1>3. PICK f : Recursion(f, NoGrants(c), F, N) /\ \A n \in 0..N : f[n] \in D
    BY <1>1, <1>2, RecursionIn
<1>4. \A n \in 0..N : n # 0 => n - 1 \in Nat /\ n - 1 \in 0..N
    OBVIOUS
<1>5. \A n \in 0..N : n # 0 => F[<<n - 1, f[n - 1]>>] = SplitLevel(c, f[n - 1], n - 1, split)
    BY <1>1, <1>3, <1>4
<1>6. f = [n \in 0..N |-> IF n = 0 THEN NoGrants(c) ELSE SplitLevel(c, f[n - 1], n - 1, split)]
    BY <1>3, <1>5, Zenon DEF Recursion
<1>7. Levels(f, c, split, N)
    BY <1>6, Zenon DEF Levels
<1>8. QED
    BY <1>3, <1>7 DEF D

\* Once every depth has had its level, each entry has what the split of its
\* parent's own grant gives it.
LEMMA LevelsSettle ==
    ASSUME NEW c, Forest(c), NEW split, Splits(c, split), NEW N \in Nat, N = Cardinality(DOMAIN c) + 1,
           NEW f, Levels(f, c, split, N)
    PROVE  /\ f[N] \in Grants(c)
           /\ \A e \in DOMAIN c : f[N][e] = split[<<f[N], c[e].parent>>][e]
<1> DEFINE Own(g, e) == g[e] = split[<<g, c[e].parent>>][e]
           V == [n \in Nat |-> {g \in Grants(c) : \A e \in DOMAIN c : Depth(c, c[e].parent) < n => Own(g, e)}]
<1>1. \A e \in DOMAIN c : c[e].parent \in Heads(c) /\ Depth(c, c[e].parent) \in 0..Cardinality(DOMAIN c)
    BY ForestType, DepthFalls
<1>2. f[0] = NoGrants(c) /\ \A n \in Nat : n < N => f[n + 1] = SplitLevel(c, f[n], n, split)
    <2>1. \A n \in 0..N : f[n] = IF n = 0 THEN NoGrants(c) ELSE SplitLevel(c, f[n - 1], n - 1, split)
        BY Zenon DEF Levels
    <2>2. 0 \in 0..N
        OBVIOUS
    <2>3. f[0] = NoGrants(c)
        BY <2>1, <2>2, Zenon
    <2>4. ASSUME NEW n \in Nat, n < N PROVE f[n + 1] = SplitLevel(c, f[n], n, split)
        <3>1. n + 1 \in 0..N /\ n + 1 # 0 /\ (n + 1) - 1 = n
            BY <2>4
        <3>2. QED
            BY <2>1, <3>1, Zenon
    <2>5. QED
        BY <2>3, <2>4
<1>3. f[0] \in V[0]
    <2>1. NoGrants(c) \in Grants(c)
        BY DEF NoGrants, Grants
    <2>2. \A e \in DOMAIN c : ~(Depth(c, c[e].parent) < 0)
        BY <1>1
    <2>3. QED
        BY <1>2, <2>1, <2>2
<1>4. ASSUME NEW n \in Nat, NEW g \in V[n] PROVE SplitLevel(c, g, n, split) \in V[n + 1]
    <2> DEFINE h == SplitLevel(c, g, n, split)
    <2>1. g \in Grants(c) /\ \A e \in DOMAIN c : Depth(c, c[e].parent) < n => Own(g, e)
        BY <1>4
    <2>2. h \in Grants(c)
        BY <2>1, LevelType
    <2>3. ASSUME NEW e \in DOMAIN c
          PROVE  h[e] = IF Depth(c, c[e].parent) = n THEN split[<<g, c[e].parent>>][e] ELSE g[e]
        BY DEF SplitLevel
    <2> HIDE DEF h
    <2>4. ASSUME NEW e \in DOMAIN c, Depth(c, c[e].parent) <= n PROVE Own(h, e)
        <3> DEFINE p == c[e].parent
        <3>1. split[<<g, p>>] = split[<<h, p>>]
            <4>1. p = Root \/ g[Entry(c, p)] = h[Entry(c, p)]
                <5> SUFFICES ASSUME p # Root PROVE g[Entry(c, p)] = h[Entry(c, p)]
                    OBVIOUS
                <5>1. Entry(c, p) \in DOMAIN c
                    BY <1>1, ForestType DEF Heads
                <5>2. Depth(c, c[Entry(c, p)].parent) < Depth(c, p)
                    BY DepthFalls
                <5>3. Depth(c, c[Entry(c, p)].parent) # n
                    BY <1>1, <2>4, <5>1, <5>2
                <5>4. QED
                    BY <2>3, <5>1, <5>3
            <4>2. p \in Heads(c)
                BY <1>1
            <4>3. QED
                BY <2>1, <2>2, <4>1, <4>2 DEF Splits
        <3>2. CASE Depth(c, p) = n
            BY <2>3, <3>1, <3>2
        <3>3. CASE Depth(c, p) # n
            <4>1. Depth(c, p) < n
                BY <1>1, <2>4, <3>3
            <4>2. Own(g, e)
                BY <2>1, <4>1
            <4>3. QED
                BY <2>3, <3>1, <3>3, <4>2
        <3>4. QED
            BY <3>2, <3>3
    <2>5. ASSUME NEW e \in DOMAIN c, Depth(c, c[e].parent) < n + 1 PROVE Own(h, e)
        <3>1. Depth(c, c[e].parent) <= n
            BY <1>1, <2>5
        <3>2. QED
            BY <2>4, <3>1
    <2> HIDE DEF Own
    <2>6. n + 1 \in Nat
        OBVIOUS
    <2>7. QED
        BY <2>2, <2>5, <2>6 DEF h
<1>5. V[N] = {g \in Grants(c) : \A e \in DOMAIN c : Depth(c, c[e].parent) < N => Own(g, e)}
    OBVIOUS
<1> HIDE DEF V, Own
<1>6. \A n \in Nat : n < N /\ f[n] \in V[n] => f[n + 1] \in V[n + 1]
    BY <1>2, <1>4
<1>7. \A n \in 0..N : f[n] \in V[n]
    BY <1>3, <1>6, Follows
<1>8. f[N] \in V[N]
    <2>1. N \in 0..N
        OBVIOUS
    <2>2. QED
        BY <1>7, <2>1
<1>9. \A e \in DOMAIN c : Depth(c, c[e].parent) < N
    <2> SUFFICES ASSUME NEW e \in DOMAIN c PROVE Depth(c, c[e].parent) < N
        OBVIOUS
    <2>1. Cardinality(DOMAIN c) \in Nat /\ Depth(c, c[e].parent) \in 0..Cardinality(DOMAIN c)
        BY <1>1, ForestType
    <2>2. QED
        BY <2>1
<1>10. QED
    BY <1>5, <1>8, <1>9 DEF Own

-----------------------------------------------------------------------------
(***************************************************************************)
(* The axes one by one.                                                    *)
(***************************************************************************)
\* A level of allocate_fabric gives the children of the parents at its depth
\* their split, and keeps the rest.
LEMMA EvenLevelIs ==
    ASSUME NEW c, NEW g, NEW n, NEW pool
    PROVE  EvenLevel(c, g, n, pool)
             = [e \in DOMAIN c |-> IF Depth(c, c[e].parent) = n
                                   THEN EvenSplit(c, g, c[e].parent, pool)[e] ELSE g[e]]
<1> DEFINE at     == {e \in DOMAIN c : Depth(c, c[e].parent) = n}
           shares == Now([p \in {c[e].parent : e \in at} |-> Now(EvenSplit(c, g, p, pool))])
           all    == [e \in DOMAIN c |-> IF e \in at THEN shares[c[e].parent][e] ELSE g[e]]
<1>1. EvenLevel(c, g, n, pool) = Now(all)
    BY Zenon DEF EvenLevel, Level
<1>2. shares = [p \in {c[e].parent : e \in at} |-> Now(EvenSplit(c, g, p, pool))]
    BY NowIs, Zenon
<1> HIDE DEF shares
<1>3. \A e \in at : shares[c[e].parent] = EvenSplit(c, g, c[e].parent, pool)
    BY <1>2, NowIs, Zenon
<1>4. all = [e \in DOMAIN c |-> IF Depth(c, c[e].parent) = n
                                THEN EvenSplit(c, g, c[e].parent, pool)[e] ELSE g[e]]
    BY <1>3, Zenon
<1> HIDE DEF all
<1>5. QED
    BY <1>1, <1>4, NowIs, Zenon

\* What p's children ask on axis r.
DemandsOf(c, p, r) == [e \in Kids(c, p) |-> c[e].demand[r]]

\* What the children of a parent ask on an axis.
LEMMA DemandsAre ==
    ASSUME NEW c, Forest(c), NEW p, NEW r \in Dims
    PROVE  Siblings(DemandsOf(c, p, r)) /\ DOMAIN DemandsOf(c, p, r) = Kids(c, p)
<1>1. Kids(c, p) \in SUBSET DOMAIN c
    BY DEF Kids
<1>2. IsFiniteSet(Kids(c, p)) /\ Kids(c, p) \in SUBSET Nat
    BY <1>1, ForestType, FS_Subset
<1>3. \A e \in Kids(c, p) : c[e].demand[r] \in Demand
    BY <1>1, ForestType, QuinhaoAssumption DEF Demand
<1>4. DemandsOf(c, p, r) \in [Kids(c, p) -> Demand] /\ DOMAIN DemandsOf(c, p, r) = Kids(c, p)
    BY <1>3 DEF DemandsOf
<1>5. QED
    BY <1>2, <1>4 DEF Siblings

\* The band they split is a number.
LEMMA BandType ==
    ASSUME NEW c, Forest(c), NEW g \in Grants(c), NEW p \in Heads(c), NEW r \in Dims,
           NEW pool \in [Dims -> Nat], NEW unit \in Nat
    PROVE  BandOf(c, g, p, r, pool, unit) \in Nat
<1>1. CASE p = Root
    BY <1>1 DEF BandOf
<1>2. CASE p # Root
    <2>1. Entry(c, p) \in DOMAIN c
        BY <1>2, ForestType DEF Heads
    <2>2. g[Entry(c, p)][r] \in Nat
        BY <2>1 DEF Grants
    <2>3. QED
        BY <1>2, <2>2 DEF BandOf
<1>3. QED
    BY <1>1, <1>2

\* A split of allocate_fabric, axis by axis, is allocate_even of the band.
LEMMA EvenSplitIs ==
    ASSUME NEW c, Forest(c), NEW g \in Grants(c), NEW p \in Heads(c), NEW pool \in [Dims -> Nat],
           NEW e \in Kids(c, p)
    PROVE  /\ EvenSplit(c, g, p, pool)[e] \in [Dims -> Nat]
           /\ \A r \in Dims : EvenSplit(c, g, p, pool)[e][r]
                                = allocate_even(BandOf(c, g, p, r, pool, 1), DemandsOf(c, p, r))[e]
<1> DEFINE split == [r \in Dims |-> allocate_even(BandOf(c, g, p, r, pool, 1), DemandsOf(c, p, r))]
<1>1. EvenSplit(c, g, p, pool)[e] = [r \in Dims |-> split[r][e]]
    <2> DEFINE now == Now([r \in Dims |-> allocate_even(BandOf(c, g, p, r, pool, 1),
                                                        [i \in Kids(c, p) |-> c[i].demand[r]])])
    <2>1. now = split
        BY NowIs, Zenon DEF DemandsOf
    <2>2. EvenSplit(c, g, p, pool) = [i \in Kids(c, p) |-> Now([r \in Dims |-> now[r][i]])]
        BY Zenon DEF EvenSplit
    <2> HIDE DEF now, split
    <2>3. EvenSplit(c, g, p, pool)[e] = Now([r \in Dims |-> now[r][e]])
        BY <2>2, Zenon
    <2>4. QED
        BY <2>1, <2>3, NowIs, Zenon
<1>2. ASSUME NEW r \in Dims PROVE split[r][e] \in Nat
    <2>1. Siblings(DemandsOf(c, p, r)) /\ DOMAIN DemandsOf(c, p, r) = Kids(c, p)
        BY DemandsAre
    <2>2. BandOf(c, g, p, r, pool, 1) \in Nat
        BY BandType
    <2>3. allocate_even(BandOf(c, g, p, r, pool, 1), DemandsOf(c, p, r)) \in [Kids(c, p) -> Nat]
        BY <2>1, <2>2, EvenIsFair
    <2>4. QED
        BY <2>3
<1>3. \A r \in Dims : split[r][e] = allocate_even(BandOf(c, g, p, r, pool, 1), DemandsOf(c, p, r))[e]
    OBVIOUS
<1> HIDE DEF split
<1>4. QED
    BY <1>1, <1>2, <1>3

\* The split depends on nothing but the parent's own grant.
LEMMA EvenSplitSame ==
    ASSUME NEW c, NEW g, NEW h, NEW p, p = Root \/ g[Entry(c, p)] = h[Entry(c, p)], NEW pool
    PROVE  EvenSplit(c, g, p, pool) = EvenSplit(c, h, p, pool)
<1>1. \A r : BandOf(c, g, p, r, pool, 1) = BandOf(c, h, p, r, pool, 1)
    BY Zenon DEF BandOf
<1>2. [r \in Dims |-> allocate_even(BandOf(c, g, p, r, pool, 1), [e \in Kids(c, p) |-> c[e].demand[r]])]
        = [r \in Dims |-> allocate_even(BandOf(c, h, p, r, pool, 1), [e \in Kids(c, p) |-> c[e].demand[r]])]
    BY <1>1, Zenon
<1>3. QED
    BY <1>2, Zenon DEF EvenSplit

\* What allocate_fabric grants is, at every level, the split of the parent's
\* grant.
LEMMA FabricSplits ==
    ASSUME NEW c, Forest(c), NEW capacity, EvenBand(capacity) \in [Dims -> Nat]
    PROVE  /\ allocate_fabric(c, capacity) \in Grants(c)
           /\ \A e \in DOMAIN c :
                allocate_fabric(c, capacity)[e]
                  = EvenSplit(c, allocate_fabric(c, capacity), c[e].parent, EvenBand(capacity))[e]
<1> DEFINE N == Cardinality(DOMAIN c) + 1
           pool == EvenBand(capacity)
           split == [z \in Grants(c) \X Heads(c) |-> EvenSplit(c, z[1], z[2], pool)]
           level == CHOOSE f : f = [n \in 0..N |-> IF n = 0 THEN NoGrants(c)
                                      ELSE EvenLevel(c, f[n - 1], n - 1, pool)]
<1>1. allocate_fabric(c, capacity) = level[N]
    BY Zenon DEF allocate_fabric
<1>2. \A g \in Grants(c), p \in Heads(c) : split[<<g, p>>] = EvenSplit(c, g, p, pool)
    OBVIOUS
<1> HIDE DEF split, pool
<1>3. Splits(c, split)
    <2>1. pool \in [Dims -> Nat]
        BY DEF pool
    <2>2. ASSUME NEW g \in Grants(c), NEW p \in Heads(c), NEW e \in Kids(c, p)
          PROVE  split[<<g, p>>][e] \in [Dims -> Nat]
        BY <1>2, <2>1, EvenSplitIs
    <2>3. ASSUME NEW g \in Grants(c), NEW h \in Grants(c), NEW p \in Heads(c),
                 p = Root \/ g[Entry(c, p)] = h[Entry(c, p)]
          PROVE  split[<<g, p>>] = split[<<h, p>>]
        <3>1. EvenSplit(c, g, p, pool) = EvenSplit(c, h, p, pool)
            BY <2>3, EvenSplitSame
        <3>2. QED
            BY <1>2, <3>1
    <2>4. QED
        BY <2>2, <2>3 DEF Splits
<1>4. ASSUME NEW g \in Grants(c), NEW n
      PROVE  EvenLevel(c, g, n, pool) = SplitLevel(c, g, n, split)
    <2>1. \A e \in DOMAIN c : split[<<g, c[e].parent>>] = EvenSplit(c, g, c[e].parent, pool)
        BY <1>2, ForestType
    <2>2. [e \in DOMAIN c |-> IF Depth(c, c[e].parent) = n
                              THEN EvenSplit(c, g, c[e].parent, pool)[e] ELSE g[e]]
            = SplitLevel(c, g, n, split)
        BY <2>1, Zenon DEF SplitLevel
    <2>3. EvenLevel(c, g, n, pool)
            = [e \in DOMAIN c |-> IF Depth(c, c[e].parent) = n
                                  THEN EvenSplit(c, g, c[e].parent, pool)[e] ELSE g[e]]
        BY EvenLevelIs
    <2>4. QED
        BY <2>2, <2>3, Zenon
<1>5. N \in Nat
    BY ForestType
<1> HIDE DEF N
<1>6. \E f : f = [n \in 0..N |-> IF n = 0 THEN NoGrants(c)
                     ELSE EvenLevel(c, f[n - 1], n - 1, pool)]
    <2>1. PICK f : Levels(f, c, split, N) /\ \A n \in 0..N : f[n] \in Grants(c)
        BY <1>3, <1>5, LevelsExist
    <2>2. \A n \in 0..N : n # 0 => n - 1 \in 0..N
        BY <1>5
    <2>3. \A n \in 0..N : n # 0 =>
            EvenLevel(c, f[n - 1], n - 1, pool)
              = SplitLevel(c, f[n - 1], n - 1, split)
        BY <1>4, <2>1, <2>2
    <2>4. f = [n \in 0..N |-> IF n = 0 THEN NoGrants(c)
                     ELSE EvenLevel(c, f[n - 1], n - 1, pool)]
        BY <2>1, <2>3, Zenon DEF Levels
    <2>5. QED
        BY <2>4, Zenon
<1>7. level = [n \in 0..N |-> IF n = 0 THEN NoGrants(c)
                 ELSE EvenLevel(c, level[n - 1], n - 1, pool)]
    BY <1>6, Zenon
<1> HIDE DEF level
<1>8. Levels(level, c, split, N)
    <2>1. \A n \in 0..N : level[n] = IF n = 0 THEN NoGrants(c)
            ELSE EvenLevel(c, level[n - 1], n - 1, pool)
        BY <1>7, Zenon
    <2> DEFINE V == [n \in Nat |-> Grants(c)]
    <2>2. level[0] \in V[0]
        <3>1. 0 \in 0..N
            BY <1>5
        <3>2. level[0] = NoGrants(c)
            BY <2>1, <3>1, Zenon
        <3>3. QED
            BY <3>2 DEF NoGrants, Grants
    <2>3. ASSUME NEW n \in Nat, n < N, level[n] \in V[n] PROVE level[n + 1] \in V[n + 1]
        <3>1. n + 1 \in 0..N /\ n + 1 # 0 /\ (n + 1) - 1 = n /\ n + 1 \in Nat
            BY <1>5, <2>3
        <3>2. level[n + 1] = EvenLevel(c, level[n], n, pool)
            BY <2>1, <3>1, Zenon
        <3>3. level[n] \in Grants(c)
            BY <2>3
        <3>4. level[n + 1] = SplitLevel(c, level[n], n, split)
            BY <1>4, <3>2, <3>3
        <3>5. level[n + 1] \in Grants(c)
            BY <1>3, <3>3, <3>4, LevelType
        <3>6. QED
            BY <3>1, <3>5
    <2>4. \A n \in 0..N : V[n] = Grants(c)
        BY <1>5
    <2> HIDE DEF V
    <2>5. \A n \in 0..N : level[n] \in V[n]
        BY <1>5, <2>2, <2>3, Follows
    <2>6. \A n \in 0..N : n # 0 => n - 1 \in 0..N
        BY <1>5
    <2>7. \A n \in 0..N : n # 0 =>
            EvenLevel(c, level[n - 1], n - 1, pool)
              = SplitLevel(c, level[n - 1], n - 1, split)
        BY <1>4, <2>4, <2>5, <2>6
    <2>8. level = [n \in 0..N |-> IF n = 0 THEN NoGrants(c) ELSE SplitLevel(c, level[n - 1], n - 1, split)]
        BY <1>7, <2>7, Zenon
    <2>9. QED
        BY <2>8, Zenon DEF Levels
<1>9. /\ level[N] \in Grants(c)
      /\ \A e \in DOMAIN c : level[N][e] = split[<<level[N], c[e].parent>>][e]
    BY <1>3, <1>5, <1>8, LevelsSettle DEF N
<1>10. \A e \in DOMAIN c : level[N][e] = EvenSplit(c, level[N], c[e].parent, pool)[e]
    BY <1>2, <1>9, ForestType
<1>11. QED
    BY <1>1, <1>9, <1>10 DEF pool

\* The product of a finite set of numbers is a multiple of each.
LEMMA ProductMultiple ==
    ASSUME NEW T, IsFiniteSet(T), T \subseteq Nat \ {0}
    PROVE  /\ ProductSet(T) \in Nat \ {0}
           /\ \A d \in T : \E q \in Nat \ {0} : ProductSet(T) = d * q
<1> DEFINE F == [z \in T \X (Nat \ {0}) |-> z[1] * z[2]]
           h == CHOOSE h : h = [s \in SUBSET T |->
                                IF s = {} THEN 1
                                ELSE (CHOOSE x \in s : TRUE) * h[s \ {CHOOSE x \in s : TRUE}]]
<1>1. \A x \in T : \A y \in Nat \ {0} : F[<<x, y>>] = x * y /\ x * y \in Nat \ {0}
    OBVIOUS
<1>2. ProductSet(T) = h[T]
    BY Zenon DEF ProductSet, FoldSet, MapThenFoldSet
<1> HIDE DEF F
<1>3. 1 \in Nat \ {0} /\ \A x \in T : \A y \in Nat \ {0} : F[<<x, y>>] \in Nat \ {0}
    BY <1>1
<1>4. \E k : k = [s \in SUBSET T |-> IF s = {} THEN 1 ELSE First(s) * k[s \ {First(s)}]]
    <2> DEFINE V == Nat \ {0}
               b == 1
    <2>a. b \in V
        OBVIOUS
    <2>b. \A x \in T : \A y \in V : F[<<x, y>>] \in V
        BY <1>3
    <2> HIDE DEF V, b
    <2>c. \E k : Table(k, b, F, SUBSET T) /\ \A s \in SUBSET T : k[s] \in V
        BY <2>a, <2>b, TableExists, ZenonT(60)
    <2>1. PICK k : Table(k, 1, F, SUBSET T) /\ \A s \in SUBSET T : k[s] \in Nat \ {0}
        BY <2>c DEF V, b
    <2>2. \A s \in SUBSET T : s # {} => First(s) \in T /\ k[s \ {First(s)}] \in Nat \ {0}
        BY <2>1 DEF First
    <2>3. \A s \in SUBSET T : s # {} => F[<<First(s), k[s \ {First(s)}]>>] = First(s) * k[s \ {First(s)}]
        BY <1>1, <2>2
    <2>4. k = [s \in SUBSET T |-> IF s = {} THEN 1 ELSE First(s) * k[s \ {First(s)}]]
        BY <2>1, <2>3, Zenon DEF Table
    <2>5. QED
        BY <2>4, Zenon
<1>5. h = [s \in SUBSET T |-> IF s = {} THEN 1 ELSE First(s) * h[s \ {First(s)}]]
    BY <1>4, Zenon DEF First
<1> HIDE DEF h
<1>6. \A s \in SUBSET T : h[s] = IF s = {} THEN 1 ELSE First(s) * h[s \ {First(s)}]
    BY <1>5, Zenon
<1> DEFINE Good(s) == h[s] \in Nat \ {0} /\ \A d \in s : \E q \in Nat \ {0} : h[s] = d * q
           K == {n \in Nat : \A s \in SUBSET T : Cardinality(s) = n => Good(s)}
<1>7. \A s \in SUBSET T : IsFiniteSet(s) /\ Cardinality(s) \in Nat
    BY FS_Subset, FS_CardinalityType
<1>8. 0 \in K
    <2> SUFFICES ASSUME NEW s \in SUBSET T, Cardinality(s) = 0 PROVE Good(s)
        OBVIOUS
    <2>1. s = {}
        BY <1>7, FS_EmptySet
    <2>2. h[s] = 1
        BY <1>6, <2>1, Zenon
    <2>3. QED
        BY <2>1, <2>2
<1>9. ASSUME NEW n \in Nat, n \in K PROVE n + 1 \in K
    <2> SUFFICES ASSUME NEW s \in SUBSET T, Cardinality(s) = n + 1 PROVE Good(s)
        OBVIOUS
    <2>1. s # {}
        <3>1. Cardinality({}) = 0 /\ n + 1 # 0
            BY FS_EmptySet
        <3>2. QED
            BY <3>1
    <2> DEFINE x == First(s)
               r == s \ {x}
    <2>2. x \in s /\ x \in Nat \ {0}
        BY <2>1 DEF First
    <2>3. h[s] = x * h[r]
        BY <1>6, <2>1, Zenon
    <2> HIDE DEF x
    <2>4. Cardinality(r) = Cardinality(s) - 1 /\ r \in SUBSET T
        BY <1>7, <2>2, FS_RemoveElement
    <2>5. Cardinality(r) = n
        BY <2>4
    <2>6. Good(r)
        BY <1>9, <2>4, <2>5
    <2>7. h[r] \in Nat \ {0} /\ h[s] \in Nat \ {0}
        BY <2>2, <2>3, <2>6
    <2>8. ASSUME NEW d \in s PROVE \E q \in Nat \ {0} : h[s] = d * q
        <3>1. CASE d = x
            BY <2>3, <2>7, <3>1
        <3>2. CASE d # x
            <4>1. d \in r /\ d \in Nat \ {0}
                BY <3>2
            <4>2. PICK q \in Nat \ {0} : h[r] = d * q
                BY <2>6, <4>1
            <4>3. x * (d * q) = d * (x * q) /\ x * q \in Nat \ {0}
                BY <2>2, <4>1, <4>2
            <4>4. QED
                BY <2>3, <4>2, <4>3
        <3>3. QED
            BY <3>1, <3>2
    <2>9. QED
        BY <2>7, <2>8
<1> HIDE DEF K, Good
<1>10. Cardinality(T) \in K
    <2>1. T \in SUBSET T
        OBVIOUS
    <2>2. \A n \in Nat : n \in K
        BY <1>8, <1>9, AllNaturals
    <2>3. QED
        BY <1>7, <2>1, <2>2
<1>11. Good(T)
    BY <1>10 DEF K
<1>12. QED
    BY <1>2, <1>11 DEF Good

\* Quotients are ordered.
LEMMA RatioTrans ==
    ASSUME NEW a \in Nat, NEW b \in Nat, NEW c \in Nat,
           NEW x \in Nat \ {0}, NEW y \in Nat \ {0}, NEW z \in Nat \ {0}, a * y <= b * x, b * z <= c * y
    PROVE  a * z <= c * x
<1>1. (a * y) * z <= (b * x) * z /\ (b * z) * x <= (c * y) * x
    <2>1. \A d, e, m \in Nat : d <= e => d * m <= e * m
        OBVIOUS
    <2>2. a * y \in Nat /\ b * x \in Nat /\ b * z \in Nat /\ c * y \in Nat /\ x \in Nat /\ z \in Nat
        OBVIOUS
    <2>3. QED
        BY <2>1, <2>2
<1>2. (a * y) * z = y * (a * z) /\ (b * x) * z = (b * z) * x /\ (c * y) * x = y * (c * x)
    OBVIOUS
<1> DEFINE p == a * z
           q == c * x
           t == (b * z) * x
<1>3. p \in Int /\ q \in Int /\ t \in Int /\ y * p <= t /\ t <= y * q
    BY <1>1, <1>2
<1> HIDE DEF p, q, t
<1>4. y * p \in Int /\ y * q \in Int
    BY <1>3
<1>5. y * p <= y * q
    BY <1>3, <1>4
<1>6. p <= q
    BY <1>3, <1>5, Cancel
<1>7. QED
    BY <1>6 DEF p, q

\* Of finitely many quotients one is least.
LEMMA LeastRatio ==
    ASSUME NEW A, IsFiniteSet(A), A # {}, NEW num, NEW den,
           \A r \in A : num[r] \in Nat /\ den[r] \in Nat \ {0}
    PROVE  \E m \in A : \A r \in A : num[m] * den[r] <= num[r] * den[m]
<1> DEFINE Has(s) == \E m \in s : \A r \in s : num[m] * den[r] <= num[r] * den[m]
           P == {s \in SUBSET A : s = {} \/ Has(s)}
<1>1. {} \in P
    OBVIOUS
<1>2. ASSUME NEW s \in SUBSET A, NEW x \in s, s \ {x} \in P PROVE s \in P
    <2>0. num[x] \in Nat /\ den[x] \in Nat \ {0} /\ num[x] * den[x] <= num[x] * den[x]
        OBVIOUS
    <2>1. CASE s \ {x} = {}
        <3>1. \A r \in s : r = x
            BY <2>1
        <3>2. Has(s)
            BY <2>0, <3>1
        <3>3. QED
            BY <3>2
    <2>2. CASE s \ {x} # {}
        <3>1. PICK m \in s \ {x} : \A r \in s \ {x} : num[m] * den[r] <= num[r] * den[m]
            BY <1>2, <2>2
        <3>2. num[m] \in Nat /\ den[m] \in Nat \ {0} /\ m \in s
            OBVIOUS
        <3>3. CASE num[x] * den[m] <= num[m] * den[x]
            <4>1. ASSUME NEW r \in s PROVE num[x] * den[r] <= num[r] * den[x]
                <5>1. CASE r = x
                    BY <2>0, <5>1
                <5>2. CASE r # x
                    <6>1. num[r] \in Nat /\ den[r] \in Nat \ {0}
                        OBVIOUS
                    <6>2. num[m] * den[r] <= num[r] * den[m]
                        BY <3>1, <5>2
                    <6>3. QED
                        BY <2>0, <3>2, <3>3, <6>1, <6>2, RatioTrans
                <5>3. QED
                    BY <5>1, <5>2
            <4>2. QED
                BY <4>1
        <3>4. CASE ~(num[x] * den[m] <= num[m] * den[x])
            <4>1. num[m] * den[x] <= num[x] * den[m]
                <5>1. num[x] * den[m] \in Nat /\ num[m] * den[x] \in Nat
                    BY <2>0, <3>2
                <5>2. QED
                    BY <3>4, <5>1
            <4>2. \A r \in s : num[m] * den[r] <= num[r] * den[m]
                BY <3>1, <4>1
            <4>3. QED
                BY <3>2, <4>2
        <3>5. QED
            BY <3>3, <3>4
    <2>3. QED
        BY <2>1, <2>2
<1> HIDE DEF P
<1>3. A \in P
    BY <1>1, <1>2, AllFiniteSets
<1>4. QED
    BY <1>3 DEF P

-----------------------------------------------------------------------------
(***************************************************************************)
(* Dominant resources.                                                     *)
(***************************************************************************)
\* The parts of allocate_drf_band.
Dom(band, v) == [i \in DOMAIN v |-> dominant_axis(v[i], band)]
Taking(band, v) == {i \in DOMAIN v : Dom(band, v)[i] # NoAxis}
DomDemand(band, v, i) == v[i][Dom(band, v)[i]].demand
Common(band, v) == ProductSet({DomDemand(band, v, i) : i \in Taking(band, v)})
Pull(band, v, i, r) ==
    IF Finite(v[i][r].demand)
    THEN v[i][r].demand * band[Dom(band, v)[i]] * (Common(band, v) \div DomDemand(band, v, i)) ELSE 0
Total(band, v) ==
    [r \in Dims |-> IF band[r] > 0
                    THEN SumFunctionOnSet([i \in Taking(band, v) |-> Pull(band, v, i, r)], Taking(band, v)) ELSE 0]
BoundAxes(band, v) == {r \in Dims : Total(band, v)[r] > 0}
FirstAxis(band, v) ==
    CHOOSE q \in BoundAxes(band, v) :
        \A r \in BoundAxes(band, v) : band[q] * Total(band, v)[r] <= band[r] * Total(band, v)[q]

\* allocate_drf_band, by its parts.
LEMMA DrfIs ==
    ASSUME NEW band, NEW v
    PROVE  allocate_drf_band(band, v) =
             [i \in DOMAIN v |-> [r \in Dims |->
                IF i \notin Taking(band, v) \/ BoundAxes(band, v) = {} THEN 0
                ELSE (band[FirstAxis(band, v)] * Pull(band, v, i, r))
                       \div (100 * Total(band, v)[FirstAxis(band, v)])]]
<1> DEFINE dom    == Now([i \in DOMAIN v |-> dominant_axis(v[i], band)])
           taking == {i \in DOMAIN v : dom[i] # NoAxis}
           common == ProductSet({v[i][dom[i]].demand : i \in taking})
           pull(i, r) == IF Finite(v[i][r].demand)
                         THEN v[i][r].demand * band[dom[i]] * (common \div v[i][dom[i]].demand) ELSE 0
           total  == Now([r \in Dims |->
                          IF band[r] > 0 THEN SumFunctionOnSet([i \in taking |-> pull(i, r)], taking) ELSE 0])
           bound  == {r \in Dims : total[r] > 0}
           first  == CHOOSE q \in bound : \A r \in bound : band[q] * total[r] <= band[r] * total[q]
           grant(i) == [r \in Dims |-> IF i \notin taking \/ bound = {} THEN 0
                                       ELSE (band[first] * pull(i, r)) \div (100 * total[first])]
<1>1. allocate_drf_band(band, v) = [i \in DOMAIN v |-> Now(grant(i))]
    BY Zenon DEF allocate_drf_band
<1>2. dom = Dom(band, v)
    BY NowIs, Zenon DEF Dom
<1> HIDE DEF dom
<1>3. taking = Taking(band, v)
    BY <1>2, Zenon DEF Taking
<1> HIDE DEF taking
<1>4. common = Common(band, v)
    BY <1>2, <1>3, Zenon DEF Common, DomDemand
<1> HIDE DEF common
<1>5. \A i, r : pull(i, r) = Pull(band, v, i, r)
    BY <1>2, <1>4, Zenon DEF Pull, DomDemand
<1> HIDE DEF pull
<1>6. \A r : [i \in taking |-> pull(i, r)] = [i \in Taking(band, v) |-> Pull(band, v, i, r)]
    BY <1>3, <1>5, Zenon
<1>7. total = Total(band, v)
    <2>1. \A r : SumFunctionOnSet([i \in taking |-> pull(i, r)], taking)
                 = SumFunctionOnSet([i \in Taking(band, v) |-> Pull(band, v, i, r)], Taking(band, v))
        BY <1>3, <1>6, Zenon
    <2>2. [r \in Dims |-> IF band[r] > 0 THEN SumFunctionOnSet([i \in taking |-> pull(i, r)], taking) ELSE 0]
            = Total(band, v)
        BY <2>1, Zenon DEF Total
    <2>3. QED
        BY <2>2, NowIs, Zenon
<1> HIDE DEF total
<1>8. bound = BoundAxes(band, v)
    BY <1>7, Zenon DEF BoundAxes
<1> HIDE DEF bound
<1>9. first = FirstAxis(band, v)
    BY <1>7, <1>8, Zenon DEF FirstAxis
<1> HIDE DEF first
<1>10. \A i : grant(i) = [r \in Dims |->
                IF i \notin Taking(band, v) \/ BoundAxes(band, v) = {} THEN 0
                ELSE (band[FirstAxis(band, v)] * Pull(band, v, i, r))
                       \div (100 * Total(band, v)[FirstAxis(band, v)])]
    BY <1>3, <1>5, <1>7, <1>8, <1>9, Zenon
<1>11. \A i : Now(grant(i)) = [r \in Dims |->
                IF i \notin Taking(band, v) \/ BoundAxes(band, v) = {} THEN 0
                ELSE (band[FirstAxis(band, v)] * Pull(band, v, i, r))
                       \div (100 * Total(band, v)[FirstAxis(band, v)])]
    BY <1>10, NowIs, Zenon
<1> HIDE DEF grant
<1>12. QED
    BY <1>1, <1>11, Zenon

\* The claimants that allocate_drf_band takes: a dominant axis with a band,
\* on which the demand divides the common multiple.
LEMMA DomIs ==
    ASSUME NEW band \in [Dims -> Nat], NEW w, \A r \in Dims : w[r] \in Demand,
           dominant_axis(w, band) # NoAxis
    PROVE  /\ dominant_axis(w, band) \in Dims
           /\ band[dominant_axis(w, band)] > 0 /\ Finite(w[dominant_axis(w, band)].demand)
<1> DEFINE axes == {r \in Dims : Finite(w[r].demand) /\ band[r] > 0}
           dem == [r \in Dims |-> w[r].demand]
<1>1. axes # {} /\ axes \in SUBSET Dims
    BY DEF dominant_axis
<1>2. IsFiniteSet(axes)
    BY <1>1, QuinhaoAssumption, FS_Subset
<1>3. ASSUME NEW r \in axes PROVE band[r] \in Nat /\ dem[r] \in Nat \ {0}
    <2>1. r \in Dims /\ Finite(w[r].demand) /\ dem[r] = w[r].demand
        OBVIOUS
    <2>2. w[r] \in Demand
        BY <2>1
    <2>3. w[r].demand \in 0..Unbounded
        BY <2>2 DEF Demand
    <2> HIDE DEF dem, axes
    <2>4. dem[r] \in 0..Unbounded /\ dem[r] # 0
        BY <2>1, <2>3 DEF Finite
    <2>5. dem[r] \in Nat \ {0}
        BY <2>4 DEF Unbounded
    <2>6. QED
        BY <2>1, <2>5
<1>4. \A r \in Dims : dem[r] = w[r].demand
    OBVIOUS
<1>5. dominant_axis(w, band) = CHOOSE m \in axes : \A r \in axes : w[r].demand * band[m] <= w[m].demand * band[r]
    BY <1>1, Zenon DEF dominant_axis
<1>6. \A r \in axes : r \in Dims /\ band[r] > 0 /\ Finite(w[r].demand)
    OBVIOUS
<1> HIDE DEF dem, axes
<1>7. PICK m \in axes : \A r \in axes : band[m] * dem[r] <= band[r] * dem[m]
    BY <1>1, <1>2, <1>3, LeastRatio
<1>8. \A r \in axes : w[r].demand * band[m] <= w[m].demand * band[r]
    <2> SUFFICES ASSUME NEW r \in axes PROVE w[r].demand * band[m] <= w[m].demand * band[r]
        OBVIOUS
    <2>1. band[m] * dem[r] <= band[r] * dem[m]
        BY <1>7
    <2>2. band[m] \in Nat /\ band[r] \in Nat /\ dem[m] \in Nat /\ dem[r] \in Nat
        BY <1>3
    <2>3. dem[r] * band[m] <= dem[m] * band[r]
        BY <2>1, <2>2
    <2>4. dem[m] = w[m].demand /\ dem[r] = w[r].demand
        BY <1>4, <1>6
    <2>5. QED
        BY <2>3, <2>4
<1>9. dominant_axis(w, band) \in axes
    BY <1>5, <1>7, <1>8, Zenon
<1>10. QED
    BY <1>6, <1>9

\* What a claimant pulls on an axis, and on its dominant one.
LEMMA PullIs ==
    ASSUME NEW band \in [Dims -> Nat], NEW S, IsFiniteSet(S), NEW v \in [S -> DemandVectors]
    PROVE  /\ Common(band, v) \in Nat \ {0}
           /\ \A i \in Taking(band, v) :
                /\ i \in S /\ Dom(band, v)[i] = dominant_axis(v[i], band)
                /\ Dom(band, v)[i] \in Dims /\ band[Dom(band, v)[i]] \in Nat \ {0}
                /\ \A r \in Dims : Pull(band, v, i, r) \in Nat
                /\ Pull(band, v, i, Dom(band, v)[i]) = Common(band, v) * band[Dom(band, v)[i]]
<1> DEFINE T == Taking(band, v)
           dom == Dom(band, v)
           d(i) == DomDemand(band, v, i)
           C == Common(band, v)
           U == {d(i) : i \in T}
<1>1. \A i \in S : \A r \in Dims : v[i][r] \in Demand
    BY QuinhaoAssumption DEF Demand
<1>2. ASSUME NEW i \in T
      PROVE  /\ i \in S /\ dom[i] = dominant_axis(v[i], band)
             /\ dom[i] \in Dims /\ band[dom[i]] > 0 /\ Finite(v[i][dom[i]].demand)
    <2>1. i \in S /\ dom[i] = dominant_axis(v[i], band) /\ dominant_axis(v[i], band) # NoAxis
        BY DEF Taking, Dom
    <2>2. \A r \in Dims : v[i][r] \in Demand
        BY <1>1, <2>1
    <2>3. QED
        BY <2>1, <2>2, DomIs
<1>3. ASSUME NEW i \in T PROVE d(i) \in 1..Unbounded
    <2>1. v[i][dom[i]] \in Demand /\ Finite(v[i][dom[i]].demand)
        BY <1>1, <1>2
    <2>2. d(i) = v[i][dom[i]].demand
        BY DEF DomDemand
    <2> HIDE DEF dom, d
    <2>3. v[i][dom[i]].demand \in 0..Unbounded /\ v[i][dom[i]].demand # 0
        BY <2>1 DEF Demand, Finite
    <2>4. \A x \in 0..Unbounded : x # 0 => x \in 1..Unbounded
        BY DEF Unbounded
    <2>5. QED
        BY <2>2, <2>3, <2>4
<1> HIDE DEF d
<1>4. U \in SUBSET (1..Unbounded)
    BY <1>3
<1>5. IsFiniteSet(U) /\ U \subseteq Nat \ {0}
    <2>1. 1 \in Int /\ Unbounded \in Int
        BY DEF Unbounded
    <2>2. IsFiniteSet(1..Unbounded)
        BY <2>1, FS_Interval
    <2>3. \A x \in 1..Unbounded : x \in Nat \ {0}
        BY <2>1
    <2>4. QED
        BY <1>4, <2>2, <2>3, FS_Subset
<1>6. C = ProductSet(U)
    BY DEF Common, d
<1> HIDE DEF U
<1>7. C \in Nat \ {0} /\ \A x \in U : \E q \in Nat \ {0} : C = x * q
    BY <1>5, <1>6, ProductMultiple
<1>8. ASSUME NEW i \in T
      PROVE  C \div d(i) \in Nat /\ d(i) * (C \div d(i)) = C
    <2>1. d(i) \in U
        BY DEF U
    <2>2. PICK q \in Nat \ {0} : C = d(i) * q
        BY <1>7, <2>1
    <2>3. d(i) \in Nat \ {0}
        BY <1>5, <2>1
    <2>4. (d(i) * q) \div d(i) = q
        <3> DEFINE x == d(i)
                   y == (x * q) \div x
        <3>1. x * q \in Nat /\ x \in Nat \ {0}
            BY <2>3
        <3>2. y \in Nat /\ x * y <= x * q /\ x * q < x * y + x
            BY <3>1, Quotient
        <3>3. x * q < x * (y + 1)
            BY <3>1, <3>2
        <3> HIDE DEF x, y
        <3>4. y <= q
            <4>1. y \in Int /\ q \in Int
                BY <3>2
            <4>2. QED
                BY <3>1, <3>2, <4>1, Cancel
        <3>5. ~(y + 1 <= q)
            <4>1. \A m, n \in Nat : m <= n => x * m <= x * n
                BY <3>1
            <4>2. ASSUME y + 1 <= q PROVE FALSE
                <5>1. x * (y + 1) <= x * q
                    BY <3>2, <4>1, <4>2
                <5>2. x * (y + 1) \in Nat /\ x * q \in Nat
                    BY <3>1, <3>2
                <5>3. QED
                    BY <3>3, <5>1, <5>2
            <4>3. QED
                BY <4>2
        <3>6. y = q
            BY <3>2, <3>4, <3>5
        <3>7. QED
            BY <3>6 DEF x, y
    <2>5. QED
        BY <2>2, <2>4
<1>9. ASSUME NEW i \in T, NEW r \in Dims PROVE Pull(band, v, i, r) \in Nat
    <2>1. v[i][r] \in Demand /\ band[dom[i]] \in Nat /\ C \div d(i) \in Nat
        BY <1>1, <1>2, <1>8
    <2>2. v[i][r].demand \in Nat
        BY <2>1 DEF Demand
    <2>3. v[i][r].demand * band[dom[i]] * (C \div d(i)) \in Nat
        BY <2>1, <2>2
    <2>4. QED
        BY <2>3 DEF Pull, d
<1>10. ASSUME NEW i \in T PROVE Pull(band, v, i, dom[i]) = C * band[dom[i]]
    <2>1. Pull(band, v, i, dom[i]) = d(i) * band[dom[i]] * (C \div d(i))
        BY <1>2 DEF Pull, d, DomDemand
    <2>2. d(i) \in Nat /\ band[dom[i]] \in Nat /\ C \div d(i) \in Nat /\ d(i) * (C \div d(i)) = C
        BY <1>2, <1>3, <1>8 DEF Unbounded
    <2>3. \A x, y, z \in Nat : x * y * z = (x * z) * y
        OBVIOUS
    <2>4. QED
        BY <2>1, <2>2, <2>3
<1>11. \A i \in T : band[dom[i]] \in Nat \ {0}
    BY <1>2
<1>12. QED
    BY <1>2, <1>7, <1>9, <1>10, <1>11

\* The axis that saturates first, and how far the others are filled there.
LEMMA FirstIs ==
    ASSUME NEW band \in [Dims -> Nat], NEW S, IsFiniteSet(S), NEW v \in [S -> DemandVectors]
    PROVE  /\ IsFiniteSet(Taking(band, v)) /\ Taking(band, v) \in SUBSET S
           /\ \A r \in Dims : Total(band, v)[r] \in Nat
           /\ BoundAxes(band, v) # {} =>
                /\ FirstAxis(band, v) \in Dims /\ Total(band, v)[FirstAxis(band, v)] \in Nat \ {0}
                /\ \A r \in Dims : band[FirstAxis(band, v)] * Total(band, v)[r]
                                     <= band[r] * Total(band, v)[FirstAxis(band, v)]
<1> DEFINE T == Taking(band, v)
           total == Total(band, v)
           B == BoundAxes(band, v)
           q == FirstAxis(band, v)
<1>1. T \in SUBSET S /\ IsFiniteSet(T)
    <2>1. T \in SUBSET S
        BY DEF Taking
    <2>2. QED
        BY <2>1, FS_Subset
<1>2. ASSUME NEW r \in Dims PROVE total[r] \in Nat
    <2> DEFINE pull == [i \in T |-> Pull(band, v, i, r)]
    <2>1. \A i \in T : pull[i] \in Nat
        BY PullIs
    <2>2. total[r] = IF band[r] > 0 THEN SumFunctionOnSet(pull, T) ELSE 0
        BY DEF Total
    <2> HIDE DEF pull
    <2>3. SumFunctionOnSet(pull, T) \in Nat
        BY <1>1, <2>1, SumNat
    <2>4. QED
        BY <2>2, <2>3
<1>3. ASSUME B # {}
      PROVE  /\ q \in Dims /\ total[q] \in Nat \ {0}
             /\ \A r \in Dims : band[q] * total[r] <= band[r] * total[q]
    <2>1. B = {r \in Dims : total[r] > 0}
        BY DEF BoundAxes
    <2>2. q = CHOOSE x \in B : \A r \in B : band[x] * total[r] <= band[r] * total[x]
        BY DEF FirstAxis
    <2> HIDE DEF B, q, total
    <2>3. B \in SUBSET Dims /\ IsFiniteSet(B)
        <3>1. B \in SUBSET Dims
            BY <2>1
        <3>2. QED
            BY <3>1, QuinhaoAssumption, FS_Subset
    <2>4. \A r \in B : band[r] \in Nat /\ total[r] \in Nat \ {0}
        BY <1>2, <2>1
    <2>5. \E x \in B : \A r \in B : band[x] * total[r] <= band[r] * total[x]
        BY <1>3, <2>3, <2>4, LeastRatio
    <2>6. q \in B /\ \A r \in B : band[q] * total[r] <= band[r] * total[q]
        BY <2>2, <2>5, Zenon
    <2>7. band[q] \in Nat /\ total[q] \in Nat \ {0} /\ q \in Dims
        BY <2>3, <2>4, <2>6
    <2>8. ASSUME NEW r \in Dims, r \notin B PROVE band[q] * total[r] <= band[r] * total[q]
        <3>1. total[r] = 0
            BY <1>2, <2>1, <2>8
        <3>2. band[r] \in Nat
            OBVIOUS
        <3>3. band[r] * total[q] \in Nat /\ band[q] * 0 = 0
            BY <2>7, <3>2
        <3>4. QED
            BY <3>1, <3>3
    <2>9. QED
        BY <2>6, <2>7, <2>8
<1>4. QED
    BY <1>1, <1>2, <1>3

\* allocate_drf_band is fair to any finite set of siblings on any set of
\* axes: no axis with a band is over-allocated, and any two claimants' dominant
\* shares differ by a crumb at most.
THEOREM DrfIsFair ==
    ASSUME NEW band \in [Dims -> Nat], NEW S, IsFiniteSet(S), NEW v \in [S -> DemandVectors]
    PROVE  LET g == allocate_drf_band(band, v)
               dom == Dom(band, v)
           IN  /\ g \in [S -> [Dims -> Nat]]
               /\ \A r \in Dims : band[r] > 0 => 100 * SumFunctionOnSet([i \in S |-> g[i][r]], S) <= band[r]
               /\ \A e, f \in S : dom[e] # NoAxis /\ dom[f] # NoAxis =>
                    g[e][dom[e]] * band[dom[f]] <= (g[f][dom[f]] + 1) * band[dom[e]]
<1> DEFINE g == allocate_drf_band(band, v)
           dom == Dom(band, v)
           T == Taking(band, v)
           total == Total(band, v)
           B == BoundAxes(band, v)
           q == FirstAxis(band, v)
           C == Common(band, v)
           pull(i, r) == Pull(band, v, i, r)
<1>1. /\ C \in Nat \ {0}
      /\ \A i \in T : /\ i \in S /\ dom[i] \in Dims /\ band[dom[i]] \in Nat \ {0}
                      /\ \A r \in Dims : pull(i, r) \in Nat
                      /\ pull(i, dom[i]) = C * band[dom[i]]
    BY PullIs
<1>2. /\ IsFiniteSet(T) /\ T \in SUBSET S
      /\ \A r \in Dims : total[r] \in Nat
      /\ B # {} => /\ q \in Dims /\ total[q] \in Nat \ {0}
                   /\ \A r \in Dims : band[q] * total[r] <= band[r] * total[q]
    BY FirstIs
<1>3. g = [i \in S |-> [r \in Dims |-> IF i \notin T \/ B = {} THEN 0
                                       ELSE (band[q] * pull(i, r)) \div (100 * total[q])]]
    BY DrfIs
<1>4. \A i \in S : i \in T <=> dom[i] # NoAxis
    BY DEF Taking
<1>5. \A r \in Dims : band[r] > 0 => total[r] = SumFunctionOnSet([i \in T |-> pull(i, r)], T)
    BY DEF Total
<1> HIDE DEF g, dom, T, total, B, q, C, pull
<1>6. CASE B = {}
    <2>1. g = [i \in S |-> [r \in Dims |-> 0]]
        BY <1>3, <1>6, Zenon
    <2>2. g \in [S -> [Dims -> Nat]] /\ \A i \in S : \A r \in Dims : g[i][r] = 0
        BY <2>1
    <2>3. ASSUME NEW r \in Dims PROVE 100 * SumFunctionOnSet([i \in S |-> g[i][r]], S) <= band[r]
        <3> DEFINE z == [i \in S |-> g[i][r]]
        <3>1. \A i \in S : z[i] = 0
            BY <2>2
        <3> HIDE DEF z
        <3>2. ASSUME NEW i \in S PROVE z[i] \in Int /\ z[i] = 0 * z[i]
            <4>1. z[i] = 0
                BY <3>1
            <4>2. QED
                BY <4>1
        <3>3. SumFunctionOnSet(z, S) \in Int /\ SumFunctionOnSet(z, S) = 0 * SumFunctionOnSet(z, S)
            <4>1. 0 \in Int
                OBVIOUS
            <4>2. QED
                BY <3>2, <4>1, SumScale
        <3>4. SumFunctionOnSet(z, S) = 0
            BY <3>3
        <3>5. 100 * 0 <= band[r]
            OBVIOUS
        <3>6. QED
            BY <3>4, <3>5 DEF z
    <2>4. ASSUME NEW e \in S, NEW f \in S, dom[e] # NoAxis, dom[f] # NoAxis
          PROVE  g[e][dom[e]] * band[dom[f]] <= (g[f][dom[f]] + 1) * band[dom[e]]
        <3>1. e \in T /\ f \in T
            BY <1>4, <2>4
        <3>2. band[dom[e]] \in Nat /\ band[dom[f]] \in Nat /\ dom[e] \in Dims /\ dom[f] \in Dims
            BY <1>1, <3>1
        <3>3. g[e][dom[e]] = 0 /\ g[f][dom[f]] = 0
            BY <2>2, <3>2
        <3>4. 0 * band[dom[f]] <= (0 + 1) * band[dom[e]]
            BY <3>2
        <3>5. QED
            BY <3>3, <3>4
    <2>5. QED
        BY <2>2, <2>3, <2>4 DEF g, dom
<1>7. CASE B # {}
    <2> DEFINE K == band[q]
               D == 100 * total[q]
    <2>1. K \in Nat /\ D \in Nat \ {0} /\ total[q] \in Nat \ {0}
        BY <1>2, <1>7
    <2>2. ASSUME NEW i \in S, NEW r \in Dims
          PROVE  /\ i \in T => g[i][r] = (K * pull(i, r)) \div D
                 /\ i \notin T => g[i][r] = 0
                 /\ g[i][r] \in Nat
        <3>1. g[i][r] = IF i \notin T THEN 0 ELSE (K * pull(i, r)) \div D
            BY <1>3, <1>7
        <3> HIDE DEF K, D
        <3>2. CASE i \in T
            <4>1. K * pull(i, r) \in Nat
                BY <1>1, <2>1, <3>2
            <4>2. (K * pull(i, r)) \div D \in Nat
                BY <2>1, <4>1, Quotient
            <4>3. QED
                BY <3>1, <3>2, <4>2
        <3>3. CASE i \notin T
            BY <3>1, <3>3
        <3>4. QED
            BY <3>2, <3>3
    <2>3. g \in [S -> [Dims -> Nat]]
        <3>1. g = [i \in S |-> [r \in Dims |-> g[i][r]]]
            BY <1>3, Zenon
        <3>2. QED
            BY <2>2, <3>1
    <2> HIDE DEF K, D
    <2>4. ASSUME NEW r \in Dims, band[r] > 0
          PROVE  100 * SumFunctionOnSet([i \in S |-> g[i][r]], S) <= band[r]
        <3> DEFINE z == [i \in S |-> g[i][r]]
                   p == [i \in T |-> pull(i, r)]
                   low == [i \in T |-> D * z[i]]
                   high == [i \in T |-> K * p[i]]
        <3>1. ASSUME NEW i \in T
              PROVE  /\ z[i] \in Nat /\ p[i] \in Nat /\ low[i] = D * z[i] /\ high[i] = K * p[i]
                     /\ low[i] \in Int /\ high[i] \in Int /\ low[i] <= high[i]
            <4>1. i \in S /\ z[i] = g[i][r] /\ p[i] = pull(i, r) /\ low[i] = D * z[i] /\ high[i] = K * p[i]
                BY <1>1
            <4> HIDE DEF z, p, low, high
            <4>2. z[i] = (K * p[i]) \div D /\ p[i] \in Nat
                BY <1>1, <2>2, <4>1
            <4>3. K * p[i] \in Nat
                BY <2>1, <4>2
            <4>4. z[i] \in Nat /\ D * z[i] <= K * p[i]
                BY <2>1, <4>2, <4>3, Quotient
            <4>5. D * z[i] \in Nat
                BY <2>1, <4>4
            <4>6. QED
                BY <4>1, <4>2, <4>3, <4>4, <4>5
        <3>2. \A i \in S : z[i] = IF i \in T THEN z[i] ELSE 0
            BY <2>2
        <3>3. total[r] = SumFunctionOnSet(p, T) /\ total[r] \in Nat
            BY <1>2, <1>5, <2>4
        <3> HIDE DEF z, p, low, high
        <3> DEFINE s == SumFunctionOnSet(z, S)
        <3>4. s = SumFunctionOnSet(z, T)
            <4>1. Pads(z, S, z, T)
                <5>1. \A i \in T : z[i] \in Int
                    BY <3>1
                <5>2. QED
                    BY <1>2, <3>2, <5>1, Zenon DEF Pads
            <4>2. QED
                BY <4>1, SumOfPart
        <3>5. s \in Int /\ SumFunctionOnSet(low, T) = D * s
            <4>1. \A i \in T : z[i] \in Int /\ low[i] = D * z[i]
                BY <3>1
            <4>2. D \in Int
                BY <2>1
            <4>3. SumFunctionOnSet(z, T) \in Int /\ SumFunctionOnSet(low, T) = D * SumFunctionOnSet(z, T)
                BY <1>2, <4>1, <4>2, SumScale
            <4> HIDE DEF s
            <4>4. QED
                BY <3>4, <4>3
        <3>6. SumFunctionOnSet(high, T) = K * total[r]
            <4>1. \A i \in T : p[i] \in Int /\ high[i] = K * p[i]
                BY <3>1
            <4>2. K \in Int
                BY <2>1
            <4>3. QED
                BY <1>2, <3>3, <4>1, <4>2, SumScale
        <3>7. SumFunctionOnSet(low, T) <= SumFunctionOnSet(high, T)
            BY <1>2, <3>1, SumMono
        <3>8. D * s <= K * total[r]
            BY <3>5, <3>6, <3>7
        <3>9. K * total[r] <= band[r] * total[q]
            BY <1>2, <1>7 DEF K
        <3> HIDE DEF s
        <3>10. D * s = total[q] * (100 * s) /\ band[r] * total[q] = total[q] * band[r]
            BY <2>1, <3>5 DEF D
        <3>11. total[q] * (100 * s) <= total[q] * band[r]
            <4>1. D * s \in Int /\ K * total[r] \in Int /\ band[r] * total[q] \in Int
                BY <2>1, <3>3, <3>5
            <4>2. D * s <= band[r] * total[q]
                BY <3>8, <3>9, <4>1
            <4>3. QED
                BY <3>10, <4>2
        <3>12. 100 * s \in Int /\ band[r] \in Int
            BY <3>5
        <3>13. 100 * s <= band[r]
            BY <2>1, <3>11, <3>12, Cancel
        <3>14. QED
            BY <3>13 DEF s, z
    <2>5. ASSUME NEW e \in S, NEW f \in S, dom[e] # NoAxis, dom[f] # NoAxis
          PROVE  g[e][dom[e]] * band[dom[f]] <= (g[f][dom[f]] + 1) * band[dom[e]]
        <3>1. e \in T /\ f \in T
            BY <1>4, <2>5
        <3> DEFINE a == band[dom[f]]
                   b == band[dom[e]]
                   R == K * C
                   x == g[f][dom[f]]
                   y == g[e][dom[e]]
        <3>2. a \in Nat /\ b \in Nat /\ dom[e] \in Dims /\ dom[f] \in Dims
            BY <1>1, <3>1
        <3>3. y = (K * (C * b)) \div D /\ x = (K * (C * a)) \div D
            BY <1>1, <2>2, <3>1, <3>2
        <3>4. K * (C * b) = R * b /\ K * (C * a) = R * a /\ R \in Nat
            BY <1>1, <2>1, <3>2
        <3>5. y = (R * b) \div D /\ x = (R * a) \div D
            BY <3>3, <3>4
        <3> HIDE DEF a, b, R, x, y
        <3>6. y * a <= (x + 1) * b
            BY <2>1, <3>2, <3>4, <3>5, PartsInProportion
        <3>7. QED
            BY <3>6 DEF a, b, x, y
    <2>6. QED
        BY <2>3, <2>4, <2>5 DEF g, dom
<1>8. QED
    BY <1>6, <1>7

\* A level of allocate_drf_fabric gives the children of the parents at its
\* depth their split, and keeps the rest.
LEMMA DrfLevelIs ==
    ASSUME NEW c, NEW g, NEW n, NEW pool
    PROVE  DrfLevel(c, g, n, pool)
             = [e \in DOMAIN c |-> IF Depth(c, c[e].parent) = n
                                   THEN DrfSplit(c, g, c[e].parent, pool)[e] ELSE g[e]]
<1> DEFINE at     == {e \in DOMAIN c : Depth(c, c[e].parent) = n}
           shares == Now([p \in {c[e].parent : e \in at} |-> Now(DrfSplit(c, g, p, pool))])
           all    == [e \in DOMAIN c |-> IF e \in at THEN shares[c[e].parent][e] ELSE g[e]]
<1>1. DrfLevel(c, g, n, pool) = Now(all)
    BY Zenon DEF DrfLevel, Level
<1>2. shares = [p \in {c[e].parent : e \in at} |-> Now(DrfSplit(c, g, p, pool))]
    BY NowIs, Zenon
<1> HIDE DEF shares
<1>3. \A e \in at : shares[c[e].parent] = DrfSplit(c, g, c[e].parent, pool)
    BY <1>2, NowIs, Zenon
<1>4. all = [e \in DOMAIN c |-> IF Depth(c, c[e].parent) = n
                                THEN DrfSplit(c, g, c[e].parent, pool)[e] ELSE g[e]]
    BY <1>3, Zenon
<1> HIDE DEF all
<1>5. QED
    BY <1>1, <1>4, NowIs, Zenon

\* The bands p's children split, in hundredths, and what they ask.
DrfBands(c, g, p, pool) == [r \in Dims |-> BandOf(c, g, p, r, pool, 100)]
Asks(c, p) == [e \in Kids(c, p) |-> c[e].demand]

\* A split of allocate_drf_fabric is allocate_drf_band of the bands.
LEMMA DrfSplitIs ==
    ASSUME NEW c, Forest(c), NEW g \in Grants(c), NEW p \in Heads(c), NEW pool \in [Dims -> Nat]
    PROVE  /\ DrfSplit(c, g, p, pool) = allocate_drf_band(DrfBands(c, g, p, pool), Asks(c, p))
           /\ DrfSplit(c, g, p, pool) \in [Kids(c, p) -> [Dims -> Nat]]
           /\ DrfBands(c, g, p, pool) \in [Dims -> Nat]
           /\ Asks(c, p) \in [Kids(c, p) -> DemandVectors] /\ IsFiniteSet(Kids(c, p))
<1>1. DrfSplit(c, g, p, pool) = allocate_drf_band(DrfBands(c, g, p, pool), Asks(c, p))
    BY NowIs, Zenon DEF DrfSplit, DrfBands, Asks
<1>2. DrfBands(c, g, p, pool) \in [Dims -> Nat]
    <2>1. \A r \in Dims : BandOf(c, g, p, r, pool, 100) \in Nat
        BY BandType
    <2>2. QED
        BY <2>1 DEF DrfBands
<1>3. Kids(c, p) \in SUBSET DOMAIN c
    BY DEF Kids
<1>4. IsFiniteSet(Kids(c, p))
    BY <1>3, ForestType, FS_Subset
<1>5. Asks(c, p) \in [Kids(c, p) -> DemandVectors]
    BY <1>3, ForestType DEF Asks
<1>6. QED
    BY <1>1, <1>2, <1>4, <1>5, DrfIsFair

\* The split depends on nothing but the parent's own grant.
LEMMA DrfSplitSame ==
    ASSUME NEW c, NEW g, NEW h, NEW p, p = Root \/ g[Entry(c, p)] = h[Entry(c, p)], NEW pool
    PROVE  DrfSplit(c, g, p, pool) = DrfSplit(c, h, p, pool)
<1>1. \A r : BandOf(c, g, p, r, pool, 100) = BandOf(c, h, p, r, pool, 100)
    BY Zenon DEF BandOf
<1>2. [r \in Dims |-> BandOf(c, g, p, r, pool, 100)] = [r \in Dims |-> BandOf(c, h, p, r, pool, 100)]
    BY <1>1, Zenon
<1>3. QED
    BY <1>2, Zenon DEF DrfSplit

\* What allocate_drf_fabric grants is, at every level, the split of the parent's
\* grant.
LEMMA DrfFabricSplits ==
    ASSUME NEW c, Forest(c), NEW capacity, DrfPool(capacity) \in [Dims -> Nat]
    PROVE  /\ allocate_drf_fabric(c, capacity) \in Grants(c)
           /\ \A e \in DOMAIN c :
                allocate_drf_fabric(c, capacity)[e]
                  = DrfSplit(c, allocate_drf_fabric(c, capacity), c[e].parent, DrfPool(capacity))[e]
<1> DEFINE N == Cardinality(DOMAIN c) + 1
           pool == DrfPool(capacity)
           split == [z \in Grants(c) \X Heads(c) |-> DrfSplit(c, z[1], z[2], pool)]
           level == CHOOSE f : f = [n \in 0..N |-> IF n = 0 THEN NoGrants(c)
                                      ELSE DrfLevel(c, f[n - 1], n - 1, pool)]
<1>1. allocate_drf_fabric(c, capacity) = level[N]
    BY Zenon DEF allocate_drf_fabric
<1>2. \A g \in Grants(c), p \in Heads(c) : split[<<g, p>>] = DrfSplit(c, g, p, pool)
    OBVIOUS
<1> HIDE DEF split, pool
<1>3. Splits(c, split)
    <2>1. pool \in [Dims -> Nat]
        BY DEF pool
    <2>2. ASSUME NEW g \in Grants(c), NEW p \in Heads(c), NEW e \in Kids(c, p)
          PROVE  split[<<g, p>>][e] \in [Dims -> Nat]
        BY <1>2, <2>1, DrfSplitIs
    <2>3. ASSUME NEW g \in Grants(c), NEW h \in Grants(c), NEW p \in Heads(c),
                 p = Root \/ g[Entry(c, p)] = h[Entry(c, p)]
          PROVE  split[<<g, p>>] = split[<<h, p>>]
        <3>1. DrfSplit(c, g, p, pool) = DrfSplit(c, h, p, pool)
            BY <2>3, DrfSplitSame
        <3>2. QED
            BY <1>2, <3>1
    <2>4. QED
        BY <2>2, <2>3 DEF Splits
<1>4. ASSUME NEW g \in Grants(c), NEW n
      PROVE  DrfLevel(c, g, n, pool) = SplitLevel(c, g, n, split)
    <2>1. \A e \in DOMAIN c : split[<<g, c[e].parent>>] = DrfSplit(c, g, c[e].parent, pool)
        BY <1>2, ForestType
    <2>2. [e \in DOMAIN c |-> IF Depth(c, c[e].parent) = n
                              THEN DrfSplit(c, g, c[e].parent, pool)[e] ELSE g[e]]
            = SplitLevel(c, g, n, split)
        BY <2>1, Zenon DEF SplitLevel
    <2>3. DrfLevel(c, g, n, pool)
            = [e \in DOMAIN c |-> IF Depth(c, c[e].parent) = n
                                  THEN DrfSplit(c, g, c[e].parent, pool)[e] ELSE g[e]]
        BY DrfLevelIs
    <2>4. QED
        BY <2>2, <2>3, Zenon
<1>5. N \in Nat
    BY ForestType
<1> HIDE DEF N
<1>6. \E f : f = [n \in 0..N |-> IF n = 0 THEN NoGrants(c)
                     ELSE DrfLevel(c, f[n - 1], n - 1, pool)]
    <2>1. PICK f : Levels(f, c, split, N) /\ \A n \in 0..N : f[n] \in Grants(c)
        BY <1>3, <1>5, LevelsExist
    <2>2. \A n \in 0..N : n # 0 => n - 1 \in 0..N
        BY <1>5
    <2>3. \A n \in 0..N : n # 0 =>
            DrfLevel(c, f[n - 1], n - 1, pool)
              = SplitLevel(c, f[n - 1], n - 1, split)
        BY <1>4, <2>1, <2>2
    <2>4. f = [n \in 0..N |-> IF n = 0 THEN NoGrants(c)
                     ELSE DrfLevel(c, f[n - 1], n - 1, pool)]
        BY <2>1, <2>3, Zenon DEF Levels
    <2>5. QED
        BY <2>4, Zenon
<1>7. level = [n \in 0..N |-> IF n = 0 THEN NoGrants(c)
                 ELSE DrfLevel(c, level[n - 1], n - 1, pool)]
    BY <1>6, Zenon
<1> HIDE DEF level
<1>8. Levels(level, c, split, N)
    <2>1. \A n \in 0..N : level[n] = IF n = 0 THEN NoGrants(c)
            ELSE DrfLevel(c, level[n - 1], n - 1, pool)
        BY <1>7, Zenon
    <2> DEFINE V == [n \in Nat |-> Grants(c)]
    <2>2. level[0] \in V[0]
        <3>1. 0 \in 0..N
            BY <1>5
        <3>2. level[0] = NoGrants(c)
            BY <2>1, <3>1, Zenon
        <3>3. QED
            BY <3>2 DEF NoGrants, Grants
    <2>3. ASSUME NEW n \in Nat, n < N, level[n] \in V[n] PROVE level[n + 1] \in V[n + 1]
        <3>1. n + 1 \in 0..N /\ n + 1 # 0 /\ (n + 1) - 1 = n /\ n + 1 \in Nat
            BY <1>5, <2>3
        <3>2. level[n + 1] = DrfLevel(c, level[n], n, pool)
            BY <2>1, <3>1, Zenon
        <3>3. level[n] \in Grants(c)
            BY <2>3
        <3>4. level[n + 1] = SplitLevel(c, level[n], n, split)
            BY <1>4, <3>2, <3>3
        <3>5. level[n + 1] \in Grants(c)
            BY <1>3, <3>3, <3>4, LevelType
        <3>6. QED
            BY <3>1, <3>5
    <2>4. \A n \in 0..N : V[n] = Grants(c)
        BY <1>5
    <2> HIDE DEF V
    <2>5. \A n \in 0..N : level[n] \in V[n]
        BY <1>5, <2>2, <2>3, Follows
    <2>6. \A n \in 0..N : n # 0 => n - 1 \in 0..N
        BY <1>5
    <2>7. \A n \in 0..N : n # 0 =>
            DrfLevel(c, level[n - 1], n - 1, pool)
              = SplitLevel(c, level[n - 1], n - 1, split)
        BY <1>4, <2>4, <2>5, <2>6
    <2>8. level = [n \in 0..N |-> IF n = 0 THEN NoGrants(c) ELSE SplitLevel(c, level[n - 1], n - 1, split)]
        BY <1>7, <2>7, Zenon
    <2>9. QED
        BY <2>8, Zenon DEF Levels
<1>9. /\ level[N] \in Grants(c)
      /\ \A e \in DOMAIN c : level[N][e] = split[<<level[N], c[e].parent>>][e]
    BY <1>3, <1>5, <1>8, LevelsSettle DEF N
<1>10. \A e \in DOMAIN c : level[N][e] = DrfSplit(c, level[N], c[e].parent, pool)[e]
    BY <1>2, <1>9, ForestType
<1>11. QED
    BY <1>1, <1>9, <1>10 DEF pool

-----------------------------------------------------------------------------
(***************************************************************************)
(* The pool's controller.                                                  *)
(***************************************************************************)
\* The capacities an allocation may see, and the bands they give.
LEMMA CapacityType ==
    ASSUME NEW o \in Observed \cup {NoReading}
    PROVE  /\ to_capacity(o) \in [Dims -> 0..Unbounded]
           /\ EvenBand(to_capacity(o)) \in [Dims -> Nat] /\ DrfPool(to_capacity(o)) \in [Dims -> Nat]
<1> DEFINE k == to_capacity(o)
<1>1. k \in [Dims -> 0..Unbounded]
    BY QuinhaoAssumption DEF to_capacity, NoReading
<1> HIDE DEF k
<1>2. \A r \in Dims : k[r] \in Nat /\ k[r] * Setpoint \in Nat
    <2> SUFFICES ASSUME NEW r \in Dims PROVE k[r] \in Nat /\ k[r] * Setpoint \in Nat
        OBVIOUS
    <2>1. k[r] \in 0..Unbounded /\ Setpoint \in 1..100
        BY <1>1, QuinhaoAssumption
    <2>2. k[r] \in Nat /\ Setpoint \in Nat
        BY <2>1 DEF Unbounded
    <2>3. QED
        BY <2>2
<1>3. \A r \in Dims : (k[r] * Setpoint) \div 100 \in Nat
    BY <1>2, Quotient
<1>4. EvenBand(k) \in [Dims -> Nat] /\ DrfPool(k) \in [Dims -> Nat]
    BY <1>2, <1>3 DEF EvenBand, DrfPool
<1>5. QED
    BY <1>1, <1>4 DEF k

\* What allocate_fabric grants is fair at every level of the tree.
LEMMA FabricIsFair ==
    ASSUME NEW c, Forest(c), NEW capacity, EvenBand(capacity) \in [Dims -> Nat],
           NEW p \in Heads(c), NEW r \in Dims
    PROVE  LET g == allocate_fabric(c, capacity)
           IN  Fair(IF p = Root THEN EvenBand(capacity)[r] ELSE g[Entry(c, p)][r],
                    DemandsOf(c, p, r), [e \in Kids(c, p) |-> g[e][r]])
<1> DEFINE g == allocate_fabric(c, capacity)
           pool == EvenBand(capacity)
           b == BandOf(c, g, p, r, pool, 1)
           d == DemandsOf(c, p, r)
<1>1. g \in Grants(c) /\ \A e \in DOMAIN c : g[e] = EvenSplit(c, g, c[e].parent, pool)[e]
    BY FabricSplits
<1> HIDE DEF g
<1>2. b \in Nat
    BY <1>1, BandType
<1>3. b = IF p = Root THEN pool[r] ELSE g[Entry(c, p)][r]
    <2>1. CASE p = Root
        BY <2>1 DEF BandOf
    <2>2. CASE p # Root
        <3>1. Entry(c, p) \in DOMAIN c
            BY <2>2, ForestType DEF Heads
        <3>2. g[Entry(c, p)][r] \in Nat
            BY <1>1, <3>1 DEF Grants
        <3>3. QED
            BY <2>2, <3>2 DEF BandOf
    <2>3. QED
        BY <2>1, <2>2
<1>4. Siblings(d) /\ DOMAIN d = Kids(c, p)
    BY DemandsAre
<1> HIDE DEF b, d
<1>5. allocate_even(b, d) \in [Kids(c, p) -> Nat] /\ Fair(b, d, allocate_even(b, d))
    BY <1>2, <1>4, EvenIsFair
<1>6. ASSUME NEW e \in Kids(c, p) PROVE g[e][r] = allocate_even(b, d)[e]
    <2>1. e \in DOMAIN c /\ c[e].parent = p
        BY DEF Kids
    <2>2. EvenSplit(c, g, p, pool)[e][r] = allocate_even(b, d)[e]
        BY <1>1, EvenSplitIs DEF b, d
    <2>3. QED
        BY <1>1, <2>1, <2>2
<1>7. [e \in Kids(c, p) |-> g[e][r]] = allocate_even(b, d)
    BY <1>5, <1>6
<1>8. QED
    BY <1>3, <1>5, <1>7, Zenon DEF g, d

\* The spec and the band as the controller may find them.
QuinhaoType ==
    /\ Claimed(claims) /\ qband \in Observed \cup {NoReading}
    /\ qstatus.band = [r \in Dims |-> qstatus.band[r]]

\* Under the dominant-resource policy every level is fair, whatever the spec.
LEMMA DrfAlwaysFair ==
    ASSUME QuinhaoType
    PROVE  DrfFair
<1> SUFFICES ASSUME parse_forest(claims), NEW p \in {Root} \cup Ids(claims)
             PROVE  LET g    == allocate_drf_fabric(claims, to_capacity(qband))
                        band == DrfBand(g, p)
                        dom  == [e \in Kids(claims, p) |-> dominant_axis(claims[e].demand, band)]
                    IN /\ \A r \in Dims : band[r] > 0 => DrfBounded(g, p, r)
                       /\ \A e, f \in Kids(claims, p) :
                            dom[e] # NoAxis /\ dom[f] # NoAxis =>
                                g[e][dom[e]] * band[dom[f]] <= (g[f][dom[f]] + 1) * band[dom[e]]
    BY DEF DrfFair
<1> DEFINE c == claims
           S == Kids(claims, p)
           pool == DrfPool(to_capacity(qband))
           g == allocate_drf_fabric(claims, to_capacity(qband))
           band == DrfBands(c, g, p, pool)
           v == Asks(c, p)
           a == allocate_drf_band(band, v)
           dom == Dom(band, v)
<1>1. Forest(c) /\ p \in Heads(c)
    BY DEF QuinhaoType, Forest, Heads
<1>2. pool \in [Dims -> Nat]
    BY CapacityType DEF QuinhaoType
<1>3. g \in Grants(c) /\ \A e \in DOMAIN c : g[e] = DrfSplit(c, g, c[e].parent, pool)[e]
    BY <1>1, <1>2, DrfFabricSplits
<1>4. DrfBand(g, p) = band
    BY Zenon DEF DrfBand, DrfBands
<1>5. dom = [e \in S |-> dominant_axis(claims[e].demand, band)]
    <2>1. v = [e \in S |-> claims[e].demand]
        BY Zenon DEF Asks
    <2>2. DOMAIN v = S /\ \A e \in S : v[e] = claims[e].demand
        BY <2>1
    <2> HIDE DEF v, band
    <2>3. QED
        BY <2>2, Zenon DEF Dom
<1> HIDE DEF g, pool
<1>6. DrfSplit(c, g, p, pool) = a /\ band \in [Dims -> Nat] /\ v \in [S -> DemandVectors] /\ IsFiniteSet(S)
    BY <1>1, <1>2, <1>3, DrfSplitIs
<1>7. \A e \in S : g[e] = a[e]
    <2> SUFFICES ASSUME NEW e \in S PROVE g[e] = a[e]
        OBVIOUS
    <2>1. e \in DOMAIN c /\ c[e].parent = p
        BY DEF Kids
    <2>2. QED
        BY <1>3, <1>6, <2>1
<1> HIDE DEF a, band, v, dom, S
<1>8. /\ \A r \in Dims : band[r] > 0 => 100 * SumFunctionOnSet([i \in S |-> a[i][r]], S) <= band[r]
      /\ \A e, f \in S : dom[e] # NoAxis /\ dom[f] # NoAxis =>
           a[e][dom[e]] * band[dom[f]] <= (a[f][dom[f]] + 1) * band[dom[e]]
    BY <1>6, DrfIsFair DEF a, dom
<1>9. ASSUME NEW r \in Dims, band[r] > 0 PROVE DrfBounded(g, p, r)
    <2>1. [e \in S |-> g[e][r]] = [i \in S |-> a[i][r]]
        BY <1>7, Zenon
    <2>2. 100 * SumFunctionOnSet([e \in S |-> g[e][r]], S) <= band[r]
        BY <1>8, <1>9, <2>1
    <2>3. QED
        BY <1>4, <2>2, Zenon DEF DrfBounded, S
<1>10. ASSUME NEW e \in S, NEW f \in S, dom[e] # NoAxis, dom[f] # NoAxis
       PROVE  g[e][dom[e]] * band[dom[f]] <= (g[f][dom[f]] + 1) * band[dom[e]]
    BY <1>7, <1>8, <1>10
<1>11. QED
    <2>1. /\ \A r \in Dims : band[r] > 0 => DrfBounded(g, p, r)
          /\ \A e, f \in S : dom[e] # NoAxis /\ dom[f] # NoAxis =>
               g[e][dom[e]] * band[dom[f]] <= (g[f][dom[f]] + 1) * band[dom[e]]
        BY <1>9, <1>10
    <2>2. QED
        BY <1>4, <1>5, <2>1, Zenon DEF g, S

\* A ledger allocate computed is fair; one it did not compute is left as it was.
LEMMA PatchKeepsLedgerFair ==
    ASSUME QuinhaoType, LedgerFair, NEW o \in Observed \cup {NoReading},
           qstatus' = patch_status(qstatus, allocate(claims, o))
    PROVE  LedgerFair'
<1> DEFINE c == claims
           new == allocate(claims, o)
           k == to_capacity(o)
           banded == {r \in Dims : k[r] > 0}
           g == allocate_fabric(c, k)
<1>1. CASE ~parse_forest(c)
    <2>1. new.count = NoReading /\ new.band = [r \in Dims |-> NoReading] /\ DOMAIN new.grants = {}
        BY <1>1 DEF allocate
    <2> HIDE DEF new
    <2>2. /\ qstatus'.count = qstatus.count /\ qstatus'.entries = qstatus.entries
          /\ qstatus'.grants = qstatus.grants
          /\ qstatus'.band = [r \in Dims |-> qstatus.band[r]]
        BY <2>1 DEF patch_status, new
    <2>3. qstatus'.band = qstatus.band
        BY <2>2, Zenon DEF QuinhaoType
    <2>4. QED
        BY <2>2, <2>3 DEF LedgerFair
<1>2. CASE parse_forest(c)
    <2>1. Forest(c)
        BY <1>2 DEF Forest, QuinhaoType
    <2>2. /\ new.count = Cardinality(DOMAIN c)
          /\ new.entries = c
          /\ new.grants = [e \in DOMAIN c |-> [r \in banded |-> g[e][r]]]
          /\ \A r \in Dims : new.band[r] = IF r \in banded THEN EvenBand(k)[r] ELSE NoReading
        BY <1>2, Zenon DEF allocate
    <2> HIDE DEF new
    <2>3. CASE DOMAIN c = {}
        <3>1. new.count = 0
            BY <2>2, <2>3, FS_EmptySet
        <3>2. qstatus'.count = 0
            BY <3>1 DEF patch_status, NoReading, new
        <3>3. QED
            BY <3>2 DEF LedgerFair
    <2>4. CASE DOMAIN c # {}
        <3>1. Cardinality(DOMAIN c) # NoReading
            BY <2>1, ForestType DEF NoReading
        <3>2. DOMAIN new.grants = DOMAIN c
            BY <2>2
        <3>3. /\ qstatus'.entries = c /\ qstatus'.grants = new.grants
              /\ qstatus'.band = [r \in Dims |-> IF new.band[r] = NoReading THEN qstatus.band[r] ELSE new.band[r]]
            BY <2>2, <2>4, <3>2 DEF patch_status, new
        <3>4. k \in [Dims -> 0..Unbounded] /\ EvenBand(k) \in [Dims -> Nat]
            BY CapacityType
        <3> HIDE DEF k, g
        <3>5. ASSUME NEW r \in banded
              PROVE  /\ r \in Dims /\ qstatus'.band[r] = EvenBand(k)[r]
                     /\ \A e \in DOMAIN c : new.grants[e][r] = g[e][r]
            <4>1. r \in Dims /\ EvenBand(k)[r] # NoReading
                BY <3>4 DEF NoReading
            <4>2. new.band[r] = EvenBand(k)[r]
                BY <2>2, <4>1
            <4>3. \A e \in DOMAIN c : new.grants[e][r] = g[e][r]
                BY <2>2
            <4>4. QED
                BY <3>3, <4>1, <4>2, <4>3
        <3>6. \A e \in DOMAIN c : DOMAIN new.grants[e] = banded
            BY <2>2
        <3> HIDE DEF banded
        <3> DEFINE w == new.grants
        <3>7. ASSUME NEW p \in {Root} \cup Ids(c), NEW r \in UNION {DOMAIN w[e] : e \in DOMAIN w}
              PROVE  Fair(IF p = Root THEN qstatus'.band[r] ELSE w[Entry(c, p)][r],
                          [e \in Kids(c, p) |-> c[e].demand[r]], [e \in Kids(c, p) |-> w[e][r]])
            <4>1. r \in banded
                BY <3>2, <3>6
            <4>2. r \in Dims /\ p \in Heads(c)
                BY <3>5, <4>1 DEF Heads
            <4>3. Fair(IF p = Root THEN EvenBand(k)[r] ELSE g[Entry(c, p)][r],
                       DemandsOf(c, p, r), [e \in Kids(c, p) |-> g[e][r]])
                BY <2>1, <3>4, <4>2, FabricIsFair DEF g
            <4>4. p # Root => Entry(c, p) \in DOMAIN c
                BY <2>1, ForestType
            <4>5. (IF p = Root THEN qstatus'.band[r] ELSE w[Entry(c, p)][r])
                     = (IF p = Root THEN EvenBand(k)[r] ELSE g[Entry(c, p)][r])
                BY <3>5, <4>1, <4>4
            <4>6. [e \in Kids(c, p) |-> w[e][r]] = [e \in Kids(c, p) |-> g[e][r]]
                <5>1. Kids(c, p) \subseteq DOMAIN c
                    BY DEF Kids
                <5>2. QED
                    BY <3>5, <4>1, <5>1
            <4>7. QED
                BY <4>3, <4>5, <4>6, Zenon DEF DemandsOf
        <3>8. FairTree(c, w, qstatus'.band)
            BY <3>7, Zenon DEF FairTree
        <3>9. QED
            BY <3>3, <3>8 DEF LedgerFair
    <2>5. QED
        BY <2>3, <2>4
<1>3. QED
    BY <1>1, <1>2

\* An edit of the spec leaves claims.
LEMMA EditsClaimed ==
    ASSUME Claimed(claims), NEW e \in Entries,
           \/ claims' = [f \in DOMAIN claims \ {e} |-> claims[f]]
           \/ \E k \in Claim : claims' = [f \in DOMAIN claims \cup {e} |-> IF f = e THEN k ELSE claims[f]]
    PROVE  Claimed(claims')
<1>1. PICK D \in SUBSET Entries : claims \in [D -> Claim]
    BY DEF Claimed
<1>2. CASE claims' = [f \in DOMAIN claims \ {e} |-> claims[f]]
    <2>1. claims' \in [D \ {e} -> Claim] /\ D \ {e} \in SUBSET Entries
        BY <1>1, <1>2
    <2>2. QED
        BY <2>1 DEF Claimed
<1>3. ASSUME NEW k \in Claim, claims' = [f \in DOMAIN claims \cup {e} |-> IF f = e THEN k ELSE claims[f]]
      PROVE  Claimed(claims')
    <2>1. claims' \in [D \cup {e} -> Claim] /\ D \cup {e} \in SUBSET Entries
        BY <1>1, <1>3
    <2>2. QED
        BY <2>1 DEF Claimed
<1>4. QED
    BY <1>2, <1>3

\* A step of the controller, an edit of the spec and a move of the band each
\* keep the ledger fair.
LEMMA QuinhaoStep ==
    ASSUME QuinhaoType, LedgerFair, [QuinhaoNext]_quinhao_vars
    PROVE  QuinhaoType' /\ LedgerFair'
<1>1. CASE reconcile_quinhao_pool
    <2>1. PICK read \in BOOLEAN, patched \in BOOLEAN :
            /\ qstatus' = IF patched
                          THEN patch_status(qstatus, allocate(claims, IF read THEN qband ELSE NoReading))
                          ELSE qstatus
            /\ UNCHANGED <<claims, qband, qedits>>
        BY <1>1, Zenon DEF reconcile_quinhao_pool
    <2> DEFINE o == IF read THEN qband ELSE NoReading
    <2>2. o \in Observed \cup {NoReading}
        BY DEF QuinhaoType
    <2>3. claims' = claims /\ qband' = qband
        BY <2>1
    <2> HIDE DEF o
    <2>4. CASE qstatus' = patch_status(qstatus, allocate(claims, o))
        <3>1. LedgerFair'
            BY <2>2, <2>4, PatchKeepsLedgerFair
        <3>2. qstatus'.band = [r \in Dims |-> qstatus'.band[r]]
            BY <2>4 DEF patch_status
        <3>3. QED
            BY <2>3, <3>1, <3>2 DEF QuinhaoType
    <2>5. CASE qstatus' = qstatus
        BY <2>3, <2>5 DEF QuinhaoType, LedgerFair
    <2>6. QED
        BY <2>1, <2>4, <2>5 DEF o
<1>2. CASE SpecChanges
    <2>1. PICK e \in Entries :
            \/ claims' = [f \in DOMAIN claims \ {e} |-> claims[f]]
            \/ \E k \in Claim : claims' = [f \in DOMAIN claims \cup {e} |-> IF f = e THEN k ELSE claims[f]]
        BY <1>2 DEF SpecChanges
    <2>2. Claimed(claims')
        BY <2>1, EditsClaimed DEF QuinhaoType
    <2>3. qband' = qband /\ qstatus' = qstatus
        BY <1>2 DEF SpecChanges
    <2>4. QED
        BY <2>2, <2>3 DEF QuinhaoType, LedgerFair
<1>3. CASE BandMoves
    <2>1. qband' \in Observed /\ claims' = claims /\ qstatus' = qstatus
        BY <1>3 DEF BandMoves
    <2>2. QED
        BY <2>1 DEF QuinhaoType, LedgerFair
<1>4. CASE UNCHANGED quinhao_vars
    <2>1. qband' = qband /\ claims' = claims /\ qstatus' = qstatus
        BY <1>4 DEF quinhao_vars
    <2>2. QED
        BY <2>1 DEF QuinhaoType, LedgerFair
<1>5. QED
    BY <1>1, <1>2, <1>3, <1>4 DEF QuinhaoNext

\* The shares a pool hands out are fair: the stored ledger at every level of
\* the tree it was computed for, and the dominant-resource split of whatever
\* the spec claims, for every pool, every set of claims and every sequence of
\* edits, moves of the band and failed calls.
THEOREM SharesAlwaysFair == QuinhaoSpec => []SharesFair
<1>1. QuinhaoInit => QuinhaoType /\ LedgerFair
    <2> SUFFICES ASSUME QuinhaoInit PROVE QuinhaoType /\ LedgerFair
        OBVIOUS
    <2>1. Claimed(claims)
        BY DEF QuinhaoInit, Claimed
    <2>2. qstatus.band = [r \in Dims |-> NoReading] /\ qstatus.count = 0 /\ qband = NoReading
        BY DEF QuinhaoInit
    <2>3. qstatus.band = [r \in Dims |-> qstatus.band[r]]
        BY <2>2, Zenon
    <2>4. LedgerFair
        BY <2>2 DEF LedgerFair
    <2>5. QED
        BY <2>1, <2>2, <2>3, <2>4 DEF QuinhaoType
<1>2. QuinhaoType /\ LedgerFair /\ [QuinhaoNext]_quinhao_vars => QuinhaoType' /\ LedgerFair'
    BY QuinhaoStep
<1>3. QuinhaoType /\ LedgerFair => SharesFair
    BY DrfAlwaysFair DEF SharesFair
<1>4. QED
    BY <1>1, <1>2, <1>3, PTL DEF QuinhaoSpec
=============================================================================
