----------------------------- MODULE NumberProofs -----------------------------
(***************************************************************************)
(* What other proofs need of numbers: induction and recursion, stated for  *)
(* sets and functions rather than for operators, and sorting by rank.      *)
(***************************************************************************)
EXTENDS Ascending, WellFoundedInduction, FiniteSetTheorems, FunctionTheorems,
        SequenceTheorems, TLAPS

-----------------------------------------------------------------------------
(***************************************************************************)
(* Induction and recursion.                                                *)
(***************************************************************************)
LEMMA NatWellFounded == IsWellFoundedOn({ss \in Nat \X Nat : ss[1] < ss[2]}, Nat)
<1> SUFFICES ASSUME NEW f \in [Nat -> Nat],
                    \A n \in Nat : <<f[n + 1], f[n]>> \in {ss \in Nat \X Nat : ss[1] < ss[2]}
             PROVE  FALSE
    BY DEF IsWellFoundedOn
<1>1. \A n \in Nat : f[n + 1] < f[n]
    OBVIOUS
<1> QED
    BY NatLessThanWellFounded, <1>1 DEF IsWellFoundedOn, OpToRel

\* A set of natural numbers has a smallest one.
LEMMA Smallest ==
    ASSUME NEW T \in SUBSET Nat, T # {}
    PROVE  \E x \in T : \A y \in T : x <= y
<1>1. \E x \in T : \A y \in T : ~(<<y, x>> \in {ss \in Nat \X Nat : ss[1] < ss[2]})
    BY WFMin, NatWellFounded
<1>2. PICK x \in T : \A y \in T : ~(<<y, x>> \in {ss \in Nat \X Nat : ss[1] < ss[2]})
    BY <1>1
<1>3. \A y \in T : ~(y < x)
    BY <1>2
<1> QED
    BY <1>3

\* A set that has 0 and with every number below a limit the next one has all up to it.
LEMMA Induction ==
    ASSUME NEW N \in Nat, NEW P, 0 \in P, \A n \in 0 .. N - 1 : n \in P => n + 1 \in P
    PROVE  \A n \in 0 .. N : n \in P
<1> DEFINE Bad == {n \in 0 .. N : n \notin P}
<1> SUFFICES ASSUME Bad # {} PROVE FALSE
    OBVIOUS
<1>1. Bad \in SUBSET Nat
    OBVIOUS
<1>2. PICK x \in Bad : \A y \in Bad : x <= y
    BY <1>1, Smallest
<1>3. x # 0 /\ x - 1 \in 0 .. N - 1 /\ x - 1 \notin Bad
    BY <1>2
<1>4. x - 1 \in P
    BY <1>3
<1> QED
    BY <1>2, <1>3, <1>4

\* A step taken N times leads somewhere, and every place on the way is known.
Follows(f, N, V, base, step) ==
    /\ f \in [0 .. N -> V]
    /\ f[0] = base
    /\ \A n \in 1 .. N : f[n] = step[n][f[n - 1]]

StepsWithin(step, N, V) == step \in [1 .. N -> [V -> V]]

LEMMA Recursion ==
    ASSUME NEW N \in Nat, NEW V, NEW base \in V, NEW step, StepsWithin(step, N, V)
    PROVE  \E f : Follows(f, N, V, base, step)
<1> DEFINE Good(f, n) == f[0] = base /\ \A m \in 1 .. n : f[m] = step[m][f[m - 1]]
           P == {n \in 0 .. N : \E f \in [0 .. n -> V] : Good(f, n)}
<1>1. 0 \in P
    <2> DEFINE z == [m \in 0 .. 0 |-> base]
    <2>1. z \in [0 .. 0 -> V] /\ z[0] = base
        OBVIOUS
    <2> HIDE DEF z
    <2>2. Good(z, 0)
        BY <2>1
    <2> QED
        BY <2>1, <2>2
<1>2. ASSUME NEW n \in 0 .. N - 1, n \in P PROVE n + 1 \in P
    <2>1. PICK f \in [0 .. n -> V] : Good(f, n)
        BY <1>2
    <2> DEFINE g == [m \in 0 .. n + 1 |-> IF m = n + 1 THEN step[n + 1][f[n]] ELSE f[m]]
    <2>2. f[n] \in V /\ n + 1 \in 1 .. N /\ step[n + 1][f[n]] \in V
        BY DEF StepsWithin
    <2>3. g \in [0 .. n + 1 -> V]
        BY <2>2
    <2>4. g[0] = base
        BY <2>1
    <2>5. ASSUME NEW m \in 1 .. n + 1 PROVE g[m] = step[m][g[m - 1]]
        <3>1. CASE m = n + 1
            BY <3>1
        <3>2. CASE m # n + 1
            BY <2>1, <3>2
        <3> QED
            BY <3>1, <3>2
    <2>6. Good(g, n + 1)
        BY <2>4, <2>5
    <2> HIDE DEF g, Good
    <2> QED
        BY <2>3, <2>6
<1>3. \A n \in 0 .. N : n \in P
    <2> HIDE DEF P
    <2> QED
        BY <1>1, <1>2, Induction
<1> QED
    BY <1>3 DEF Follows

-----------------------------------------------------------------------------
(***************************************************************************)
(* Sorting by rank.                                                        *)
(***************************************************************************)
\* Where different elements have different ranks, each rank is taken.
LEMMA RanksTaken ==
    ASSUME NEW S, IsFiniteSet(S), NEW r \in [S -> 1 .. Cardinality(S)],
           \A x, y \in S : r[x] = r[y] => x = y
    PROVE  \A k \in 1 .. Cardinality(S) : \E x \in S : r[x] = k
<1> DEFINE n == Cardinality(S)
<1>1. n \in Nat
    BY FS_CardinalityType
<1>2. IsFiniteSet(1 .. n) /\ Cardinality(1 .. n) = n
    BY <1>1, FS_Interval
<1>3. r \in Injection(S, 1 .. n)
    BY Fun_IsInj
<1>4. r \in Surjection(S, 1 .. n)
    BY <1>2, <1>3, FS_Injection
<1> QED
    BY <1>4, Fun_SurjectionProperties

\* The elements before another one are fewer if they are among those of that one.
LEMMA FewerBefore ==
    ASSUME NEW S, IsFiniteSet(S), NEW A \in SUBSET S, NEW B \in SUBSET A, NEW x \in A, x \notin B
    PROVE  Cardinality(B) < Cardinality(A)
<1>1. IsFiniteSet(A)
    BY FS_Subset
<1>2. Cardinality(B) <= Cardinality(A) /\ (Cardinality(A) = Cardinality(B) => A = B) /\ IsFiniteSet(B)
    BY <1>1, FS_Subset
<1>3. Cardinality(A) \in Nat /\ Cardinality(B) \in Nat
    BY <1>1, <1>2, FS_CardinalityType
<1> QED
    BY <1>2, <1>3

\* The sequence holds each number once.
LEMMA AscendingOK ==
    ASSUME NEW S, S \subseteq Nat, IsFiniteSet(S)
    PROVE  /\ Ascending(S) \in Seq(S)
           /\ Len(Ascending(S)) = Cardinality(S)
           /\ \A i, j \in 1 .. Cardinality(S) : i # j => Ascending(S)[i] # Ascending(S)[j]
<1> DEFINE upto(n) == {m \in S : m <= n}
           r == [n \in S |-> Cardinality(upto(n))]
           c == Cardinality(S)
<1>1. c \in Nat
    BY FS_CardinalityType
<1>2. ASSUME NEW n \in S PROVE r[n] \in 1 .. c
    <2>1. upto(n) \in SUBSET S /\ n \in upto(n)
        OBVIOUS
    <2>2. IsFiniteSet(upto(n)) /\ Cardinality(upto(n)) <= c
        BY <2>1, FS_Subset
    <2>3. Cardinality(upto(n)) \in Nat /\ Cardinality(upto(n)) # 0
        BY <2>1, <2>2, FS_CardinalityType, FS_EmptySet
    <2> QED
        BY <1>1, <2>2, <2>3
<1>3. ASSUME NEW m \in S, NEW n \in S, m < n PROVE r[m] < r[n]
    <2>1. upto(n) \in SUBSET S /\ n \in upto(n)
        OBVIOUS
    <2>2. m \in Nat /\ n \in Nat /\ ~(n <= m)
        BY <1>3
    <2>3. \A k \in S : k <= m => k <= n
        BY <1>3
    <2>4. upto(m) \in SUBSET upto(n) /\ n \notin upto(m)
        BY <2>2, <2>3
    <2> QED
        BY <2>1, <2>4, FewerBefore
<1>4. \A m, n \in S : r[m] = r[n] => m = n
    <2> HIDE DEF r
    <2> SUFFICES ASSUME NEW m \in S, NEW n \in S, r[m] = r[n], m # n PROVE FALSE
        OBVIOUS
    <2>1. m < n \/ n < m
        OBVIOUS
    <2>2. r[m] \in Int /\ r[n] \in Int
        BY <1>2
    <2> QED
        BY <1>3, <2>1, <2>2
<1>5. \A k \in 1 .. c : \E n \in S : Cardinality(upto(n)) = k
    <2>1. r \in [S -> 1 .. c]
        BY <1>2
    <2>2. \A k \in 1 .. c : \E n \in S : r[n] = k
        BY <1>4, <2>1, RanksTaken
    <2> QED
        BY <2>2
<1>6. Ascending(S) = [k \in 1 .. c |-> CHOOSE n \in S : Cardinality(upto(n)) = k]
    BY DEF Ascending
<1> HIDE DEF upto, c
<1>7. \A k \in 1 .. c : Ascending(S)[k] \in S /\ Cardinality(upto(Ascending(S)[k])) = k
    BY <1>5, <1>6
<1>8. Ascending(S) \in [1 .. c -> S]
    BY <1>6, <1>7
<1>9. Ascending(S) \in Seq(S) /\ Len(Ascending(S)) = c
    BY <1>1, <1>8
<1>10. \A i, j \in 1 .. c : i # j => Ascending(S)[i] # Ascending(S)[j]
    BY <1>7
<1> QED
    BY <1>9, <1>10 DEF c

\* A sequence is one of its own elements.
LEMMA OwnElements ==
    ASSUME NEW S, NEW s \in Seq(S)
    PROVE  s \in Seq(Range(s))
<1>1. s = [i \in 1 .. Len(s) |-> s[i]] /\ Len(s) \in Nat /\ DOMAIN s = 1 .. Len(s)
    OBVIOUS
<1>2. \A i \in 1 .. Len(s) : s[i] \in Range(s)
    BY <1>1 DEF Range
<1> DEFINE R == Range(s)
<1>3. \A i \in 1 .. Len(s) : s[i] \in R
    BY <1>2
<1> HIDE DEF R
<1>4. s \in [1 .. Len(s) -> R]
    BY <1>1, <1>3
<1>5. s \in Seq(R)
    BY <1>1, <1>4
<1> QED
    BY <1>5 DEF R

=============================================================================
