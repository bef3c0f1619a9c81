----------------------------- MODULE Recursion -----------------------------
(***************************************************************************)
(* Finite sums, as a recursive function, and what proofs about recursive     *)
(* functions need: induction over the naturals and the existence of a         *)
(* function that is defined by recursion on them.  They are stated of sets    *)
(* and functions, never of operators, so that they can be cited.            *)
(***************************************************************************)
EXTENDS Integers, Sequences, FiniteSetTheorems, WellFoundedInduction, TLAPS

\* F[1] + ... + F[n].
SumUpTo(F, n) ==
    LET s[k \in 0..n] == IF k = 0 THEN 0 ELSE s[k - 1] + F[k]
    IN  s[n]

-----------------------------------------------------------------------------
\* Every set of naturals with an element has a least one.
LEMMA LeastNatural ==
    ASSUME NEW S \in SUBSET Nat, NEW n \in S
    PROVE  \E m \in S : \A k \in S : m <= k
<1>1. PICK m \in S : \A k \in S : ~ (<<k, m>> \in OpToRel(<, Nat))
    BY WFMin, NatLessThanWellFounded
<1>2. \A k \in S : ~ (k < m)
    BY <1>1 DEF OpToRel
<1> QED
    BY <1>2

LEMMA Greatest ==
    ASSUME NEW n \in Nat, NEW S \in SUBSET (1..n), S # {}
    PROVE  \E m \in S : \A k \in S : k <= m
<1> DEFINE P == {n - k : k \in S}
<1>1. PICK q \in P : TRUE
    OBVIOUS
<1>2. P \subseteq Nat
    OBVIOUS
<1>3. PICK p \in P : \A k \in P : p <= k
  <2> HIDE DEF P
  <2> QED
      BY <1>1, <1>2, LeastNatural
<1>4. PICK m \in S : p = n - m
    BY <1>3
<1>5. ASSUME NEW k \in S PROVE k <= m
  <2>1. n - m <= n - k
      BY <1>3, <1>4
  <2> QED
      BY <2>1
<1> QED
    BY <1>5

\* Induction over the naturals, for a set of them.
LEMMA Induction ==
    ASSUME NEW P \in SUBSET Nat, 0 \in P, \A n \in P : n + 1 \in P
    PROVE  \A n \in Nat : n \in P
<1> SUFFICES ASSUME NEW n \in Nat, n \notin P PROVE FALSE
    OBVIOUS
<1>1. PICK m \in Nat \ P : \A k \in Nat \ P : m <= k
    BY LeastNatural
<1>2. m # 0
    OBVIOUS
<1>3. m - 1 \in Nat /\ m - 1 \in P
    BY <1>1, <1>2
<1> QED
    BY <1>3

\* The values of a function defined by recursion, as far as n.
Approximates(g, n, q, step) ==
    /\ g[0] = q
    /\ \A k \in 0..(n - 1) : g[k + 1] = step[<<k, g[k]>>]

LEMMA Approximation ==
    ASSUME NEW q, NEW step
    PROVE  \A n \in Nat : \E g : Approximates(g, n, q, step)
<1> DEFINE P == {n \in Nat : \E g : Approximates(g, n, q, step)}
<1>1. 0 \in P
  <2>1. Approximates([k \in 0..0 |-> q], 0, q, step)
      BY DEF Approximates
  <2> QED
      BY <2>1
<1>2. ASSUME NEW n \in P PROVE n + 1 \in P
  <2>1. PICK g : Approximates(g, n, q, step)
      OBVIOUS
  <2> DEFINE h == [k \in 0..(n + 1) |-> IF k <= n THEN g[k] ELSE step[<<n, g[n]>>]]
  <2>2. Approximates(h, n + 1, q, step)
    <3>1. h[0] = q
        BY <2>1 DEF Approximates
    <3>2. ASSUME NEW k \in 0..n PROVE h[k + 1] = step[<<k, h[k]>>]
      <4>1. h[k] = g[k]
          OBVIOUS
      <4>2. CASE k = n
        <5>1. h[n + 1] = step[<<n, g[n]>>]
            OBVIOUS
        <5> QED
            BY <4>1, <4>2, <5>1
      <4>3. CASE k # n
        <5>1. k \in 0..(n - 1) /\ h[k + 1] = g[k + 1]
            BY <4>3
        <5> QED
            BY <2>1, <4>1, <5>1 DEF Approximates
      <4> QED
          BY <4>2, <4>3
    <3> HIDE DEF h
    <3> QED
        BY <3>1, <3>2 DEF Approximates
  <2> QED
      BY <2>2
<1> HIDE DEF P
<1>3. \A n \in Nat : n \in P
    BY <1>1, <1>2, Induction DEF P
<1> QED
    BY <1>3 DEF P

\* Two approximations agree where both are defined.
LEMMA ApproximationsAgree ==
    ASSUME NEW step, NEW q, NEW m \in Nat, NEW n \in Nat, m <= n, NEW g, NEW h,
           Approximates(g, m, q, step), Approximates(h, n, q, step)
    PROVE  g[m] = h[m]
<1> DEFINE P == {k \in Nat : k <= m => g[k] = h[k]}
<1>1. 0 \in P
    BY DEF Approximates
<1>2. ASSUME NEW k \in P PROVE k + 1 \in P
  <2>1. CASE k + 1 <= m
    <3>1. k \in 0..(m - 1) /\ k \in 0..(n - 1) /\ g[k] = h[k]
        BY <2>1
    <3>2. g[k + 1] = step[<<k, g[k]>>]
        BY <3>1 DEF Approximates
    <3>3. h[k + 1] = step[<<k, h[k]>>]
        BY <3>1 DEF Approximates
    <3> QED
        BY <3>1, <3>2, <3>3
  <2> QED
      BY <2>1
<1> HIDE DEF P
<1>3. \A k \in Nat : k \in P
    BY <1>1, <1>2, Induction DEF P
<1> QED
    BY <1>3 DEF P

Recurses(f, q, step) == f[0] = q /\ \A n \in Nat : f[n + 1] = step[<<n, f[n]>>]

\* A recursive definition over the naturals defines a function.
LEMMA RecursiveFunction ==
    ASSUME NEW q, NEW step
    PROVE  \E f : Recurses(f, q, step)
<1> DEFINE G(n) == CHOOSE g : Approximates(g, n, q, step)
           f == [n \in Nat |-> G(n)[n]]
<1>1. ASSUME NEW n \in Nat PROVE Approximates(G(n), n, q, step)
    BY Approximation
<1> HIDE DEF G
<1>2. f[0] = q
    BY <1>1 DEF Approximates
<1>3. ASSUME NEW n \in Nat PROVE f[n + 1] = step[<<n, f[n]>>]
  <2>1. G(n + 1)[n + 1] = step[<<n, G(n + 1)[n]>>]
      BY <1>1 DEF Approximates
  <2>2. G(n)[n] = G(n + 1)[n]
      BY <1>1, ApproximationsAgree
  <2> QED
      BY <2>1, <2>2
<1> QED
    BY <1>2, <1>3 DEF Recurses

\* What is true of the first value and kept by every step is true of every value.
LEMMA KeptByRecursion ==
    ASSUME NEW n \in Nat, NEW q, NEW step, NEW Good, NEW g, Approximates(g, n, q, step),
           q \in Good, \A k \in 0..(n - 1), b \in Good : step[<<k, b>>] \in Good
    PROVE  \A k \in 0..n : g[k] \in Good
<1> DEFINE P == {k \in Nat : k <= n => g[k] \in Good}
<1>1. 0 \in P
    BY DEF Approximates
<1>2. ASSUME NEW k \in P PROVE k + 1 \in P
  <2>1. CASE k + 1 <= n
    <3>1. k \in 0..(n - 1) /\ g[k] \in Good
        BY <2>1
    <3>2. g[k + 1] = step[<<k, g[k]>>]
        BY <3>1 DEF Approximates
    <3> QED
        BY <3>1, <3>2
  <2> QED
      BY <2>1
<1> HIDE DEF P
<1>3. \A k \in Nat : k \in P
    BY <1>1, <1>2, Induction DEF P
<1> QED
    BY <1>3 DEF P

-----------------------------------------------------------------------------
(* Sums. *)

\* s is the running sum of F.
RunningSum(s, F, n) ==
    /\ s[0] = 0
    /\ \A k \in 1..n : F[k] \in Int /\ s[k] = s[k - 1] + F[k]
    /\ \A k \in 0..n : s[k] \in Int

\* SumUpTo is defined by its recursion.
LEMMA SumDefined ==
    ASSUME NEW n \in Nat, NEW F \in [1..n -> Int]
    PROVE  \E s : RunningSum(s, F, n) /\ SumUpTo(F, n) = s[n]
<1> DEFINE step == [x \in Nat \X Int |-> x[2] + F[x[1] + 1]]
           Defines(g) == g = [k \in 0..n |-> IF k = 0 THEN 0 ELSE g[k - 1] + F[k]]
           s == CHOOSE g : Defines(g)
<1> HIDE DEF step
<1>1. PICK f : Recurses(f, 0, step)
    BY RecursiveFunction
<1>2. f[0] = 0 /\ \A k \in Nat : f[k + 1] = step[<<k, f[k]>>]
    BY <1>1 DEF Recurses
<1>3. \A k \in Nat : k <= n => f[k] \in Int /\ (k # 0 => f[k] = f[k - 1] + F[k])
  <2> DEFINE P == {k \in Nat : k <= n => f[k] \in Int /\ (k # 0 => f[k] = f[k - 1] + F[k])}
  <2>1. 0 \in P
      BY <1>2
  <2>2. ASSUME NEW k \in P, k + 1 <= n PROVE f[k + 1] \in Int /\ f[k + 1] = f[(k + 1) - 1] + F[k + 1]
    <3>1. k \in Nat /\ f[k] \in Int /\ (k + 1) - 1 = k /\ F[k + 1] \in Int
        BY <2>2
    <3>2. step[<<k, f[k]>>] = f[k] + F[k + 1]
        BY <3>1 DEF step
    <3> QED
        BY <1>2, <3>1, <3>2
  <2>3. ASSUME NEW k \in P PROVE k + 1 \in P
      BY <2>2
  <2> HIDE DEF P
  <2>4. \A k \in Nat : k \in P
      BY <2>1, <2>3, Induction DEF P
  <2> QED
      BY <2>4 DEF P
<1> DEFINE r == [k \in 0..n |-> f[k]]
<1>4. Defines(r)
    BY <1>2, <1>3
<1>5. Defines(s)
    BY <1>4
<1>6. SumUpTo(F, n) = s[n]
    BY DEF SumUpTo
<1> HIDE DEF s
<1>7. s[0] = 0 /\ \A k \in 1..n : s[k] = s[k - 1] + F[k]
    BY <1>5
<1>8. \A k \in 0..n : s[k] \in Int
  <2> DEFINE P == {k \in Nat : k <= n => s[k] \in Int}
  <2>1. 0 \in P
      BY <1>7
  <2>2. ASSUME NEW k \in P PROVE k + 1 \in P
      BY <1>7
  <2> HIDE DEF P
  <2>3. \A k \in Nat : k \in P
      BY <2>1, <2>2, Induction DEF P
  <2> QED
      BY <2>3 DEF P
<1>9. RunningSum(s, F, n)
    BY <1>7, <1>8 DEF RunningSum
<1> QED
    BY <1>6, <1>9

\* The sum of integers is one.
LEMMA SumType ==
    ASSUME NEW n \in Nat, NEW F \in [1..n -> Int]
    PROVE  SumUpTo(F, n) \in Int
<1>1. PICK s : RunningSum(s, F, n) /\ SumUpTo(F, n) = s[n]
    BY SumDefined
<1> QED
    BY <1>1 DEF RunningSum

\* G is F with its term i changed by d.
ChangedBy(F, G, n, i, d) == G[i] = F[i] + d /\ \A k \in 1..n : k # i => F[k] = G[k]

\* Where one term changes by d, so does the sum.
LEMMA PartialSumsDiffer ==
    ASSUME NEW n \in Nat, NEW F, NEW G, NEW s, NEW t, NEW i \in 1..n, NEW d \in Int,
           RunningSum(s, F, n), RunningSum(t, G, n), ChangedBy(F, G, n, i, d)
    PROVE  t[n] = s[n] + d
<1> DEFINE P == {k \in Nat : k <= n => t[k] = s[k] + (IF k < i THEN 0 ELSE d)}
<1>1. 0 \in P
    BY DEF RunningSum
<1>2. ASSUME NEW k \in P, k + 1 <= n
      PROVE  t[k + 1] = s[k + 1] + (IF k + 1 < i THEN 0 ELSE d)
  <2>1. k \in Nat /\ k \in 0..n /\ k + 1 \in 1..n /\ (k + 1) - 1 = k
      BY <1>2
  <2>2. /\ F[k + 1] \in Int /\ s[k] \in Int /\ t[k] \in Int
        /\ s[k + 1] = s[k] + F[k + 1] /\ t[k + 1] = t[k] + G[k + 1]
      BY <2>1 DEF RunningSum
  <2>3. t[k] = s[k] + (IF k < i THEN 0 ELSE d)
      BY <1>2
  <2>4. CASE k + 1 = i
      BY <2>1, <2>2, <2>3, <2>4 DEF ChangedBy
  <2>5. CASE k + 1 # i
    <3>1. t[k + 1] = t[k] + F[k + 1] /\ (k < i <=> k + 1 < i)
        BY <2>1, <2>2, <2>5 DEF ChangedBy
    <3> QED
        BY <2>2, <2>3, <3>1
  <2> QED
      BY <2>4, <2>5
<1>3. ASSUME NEW k \in P PROVE k + 1 \in P
    BY <1>2
<1> HIDE DEF P
<1>4. n \in P
    BY <1>1, <1>3, Induction DEF P
<1> QED
    BY <1>4 DEF P

LEMMA SumOneTerm ==
    ASSUME NEW n \in Nat, NEW F \in [1..n -> Int], NEW G \in [1..n -> Int], NEW i \in 1..n,
           NEW d \in Int, ChangedBy(F, G, n, i, d)
    PROVE  SumUpTo(G, n) = SumUpTo(F, n) + d
<1>1. PICK s : RunningSum(s, F, n) /\ SumUpTo(F, n) = s[n]
    BY SumDefined
<1>2. PICK t : RunningSum(t, G, n) /\ SumUpTo(G, n) = t[n]
    BY SumDefined
<1>3. t[n] = s[n] + d
    BY <1>1, <1>2, PartialSumsDiffer
<1> QED
    BY <1>1, <1>2, <1>3

\* The sum of nothing but zeroes, and of the same terms.
LEMMA SumZero ==
    ASSUME NEW n \in Nat, NEW F \in [1..n -> Int], \A k \in 1..n : F[k] = 0
    PROVE  SumUpTo(F, n) = 0
<1>1. PICK s : RunningSum(s, F, n) /\ SumUpTo(F, n) = s[n]
    BY SumDefined
<1> DEFINE P == {k \in Nat : k <= n => s[k] = 0}
<1>2. 0 \in P
    BY <1>1 DEF RunningSum
<1>3. ASSUME NEW k \in P PROVE k + 1 \in P
  <2>1. CASE k + 1 <= n
    <3>1. k + 1 \in 1..n /\ (k + 1) - 1 = k
        BY <2>1
    <3> QED
        BY <1>1, <2>1, <3>1 DEF RunningSum
  <2> QED
      BY <2>1
<1> HIDE DEF P
<1>4. n \in P
    BY <1>2, <1>3, Induction DEF P
<1> QED
    BY <1>1, <1>4 DEF P

-----------------------------------------------------------------------------
(* Folds over finite sets, as the community modules define them: one element after *)
(* the other is taken away, whichever pick names.                                  *)

Picks(pick, S) == \A T \in SUBSET S : T # {} => pick[T] \in T

\* g folds step over the subsets of S.
Folding(g, S, base, step, pick) ==
    g = [T \in SUBSET S |-> IF T = {} THEN base
                            ELSE step[<<pick[T], g[T \ {pick[T]}]>>]]

\* What adding the element that pick names keeps, every subset of a finite set has.
LEMMA PickInduction ==
    ASSUME NEW S, IsFiniteSet(S), NEW pick, Picks(pick, S), NEW P \in SUBSET SUBSET S, {} \in P,
           \A T \in SUBSET S : T # {} /\ T \ {pick[T]} \in P => T \in P
    PROVE  \A T \in SUBSET S : T \in P
<1> DEFINE Q == {n \in Nat : \A T \in SUBSET S : Cardinality(T) = n => T \in P}
<1>1. \A T \in SUBSET S : IsFiniteSet(T) /\ Cardinality(T) \in Nat
    BY FS_Subset, FS_CardinalityType
<1>2. 0 \in Q
    BY <1>1, FS_EmptySet
<1>3. ASSUME NEW n \in Q PROVE n + 1 \in Q
  <2> SUFFICES ASSUME NEW T \in SUBSET S, Cardinality(T) = n + 1 PROVE T \in P
      OBVIOUS
  <2>1. T # {} /\ pick[T] \in T
      BY <1>1, FS_EmptySet DEF Picks
  <2>2. Cardinality(T \ {pick[T]}) = n
    <3>1. Cardinality(T \ {pick[T]}) = Cardinality(T) - 1
        BY <1>1, <2>1, FS_RemoveElement
    <3> QED
        BY <3>1
  <2>3. T \ {pick[T]} \in P
      BY <2>2
  <2> QED
      BY <2>1, <2>3
<1> HIDE DEF Q
<1>4. \A n \in Nat : n \in Q
    BY <1>2, <1>3, Induction DEF Q
<1> QED
    BY <1>1, <1>4 DEF Q

\* What adding an element keeps, every subset of a finite set has.
LEMMA SubsetInduction ==
    ASSUME NEW S, IsFiniteSet(S), NEW P \in SUBSET SUBSET S, {} \in P,
           \A T \in SUBSET S : \A x \in T : T \ {x} \in P => T \in P
    PROVE  \A T \in SUBSET S : T \in P
<1> DEFINE pick == [T \in SUBSET S |-> CHOOSE x \in T : TRUE]
<1>1. Picks(pick, S)
    BY DEF Picks
<1> HIDE DEF pick
<1>2. \A T \in SUBSET S : T # {} /\ T \ {pick[T]} \in P => T \in P
    BY <1>1 DEF Picks
<1> DEFINE Q == P
<1>3. /\ Q \in SUBSET SUBSET S /\ {} \in Q
      /\ \A T \in SUBSET S : T # {} /\ T \ {pick[T]} \in Q => T \in Q
    BY <1>2
<1>4. \A T \in SUBSET S : T \in Q
  <2> HIDE DEF Q
  <2> QED
      BY <1>1, <1>3, PickInduction
<1> QED
    BY <1>4

\* The fold exists, and its values are among those that step keeps.
LEMMA FoldExists ==
    ASSUME NEW S, IsFiniteSet(S), NEW Values, NEW base \in Values,
           NEW step \in [S \X Values -> Values], NEW pick, Picks(pick, S)
    PROVE  \E g \in [SUBSET S -> Values] : Folding(g, S, base, step, pick)
<1> DEFINE Partial == [SUBSET S -> Values]
           longer == [x \in Nat \X Partial |->
                        [T \in SUBSET S |-> IF T = {} THEN base
                                            ELSE step[<<pick[T], x[2][T \ {pick[T]}]>>]]]
           start == [T \in SUBSET S |-> base]
<1>1. PICK f : Recurses(f, start, longer)
    BY RecursiveFunction
<1>2. \A n \in Nat, b \in Partial : longer[<<n, b>>] =
        [T \in SUBSET S |-> IF T = {} THEN base ELSE step[<<pick[T], b[T \ {pick[T]}]>>]]
    OBVIOUS
<1>3. \A n \in Nat, b \in Partial : longer[<<n, b>>] \in Partial
  <2> SUFFICES ASSUME NEW n \in Nat, NEW b \in Partial, NEW T \in SUBSET S, T # {}
               PROVE  step[<<pick[T], b[T \ {pick[T]}]>>] \in Values
      BY <1>2
  <2>1. pick[T] \in S /\ b[T \ {pick[T]}] \in Values
      BY DEF Picks
  <2> QED
      BY <2>1
<1>4. start \in Partial
    OBVIOUS
<1> HIDE DEF longer, start
<1>5. \A n \in Nat : f[n] \in Partial
  <2> DEFINE P == {n \in Nat : f[n] \in Partial}
  <2>1. 0 \in P
      BY <1>1, <1>4 DEF Recurses
  <2>2. ASSUME NEW n \in P PROVE n + 1 \in P
    <3>1. f[n + 1] = longer[<<n, f[n]>>] /\ longer[<<n, f[n]>>] \in Partial
        BY <1>1, <1>3 DEF Recurses
    <3> QED
        BY <3>1
  <2> HIDE DEF P
  <2>3. \A n \in Nat : n \in P
      BY <2>1, <2>2, Induction DEF P
  <2> QED
      BY <2>3 DEF P
<1> DEFINE g == [T \in SUBSET S |-> f[Cardinality(T)][T]]
<1>6. \A T \in SUBSET S : IsFiniteSet(T) /\ Cardinality(T) \in Nat
    BY FS_Subset, FS_CardinalityType
<1>7. g \in Partial
    BY <1>5, <1>6
<1>8. g[{}] = base
    BY <1>1, FS_EmptySet DEF Recurses, start
<1>9. ASSUME NEW T \in SUBSET S, T # {} PROVE g[T] = step[<<pick[T], g[T \ {pick[T]}]>>]
  <2> DEFINE R == T \ {pick[T]}
             n == Cardinality(R)
  <2>1. pick[T] \in T /\ R \in SUBSET S /\ n \in Nat
      BY <1>6, <1>9 DEF Picks
  <2>2. Cardinality(T) = n + 1
    <3>1. Cardinality(R) = Cardinality(T) - 1
        BY <1>6, <2>1, FS_RemoveElement
    <3> QED
        BY <1>6, <3>1
  <2>3. f[n + 1] = longer[<<n, f[n]>>]
      BY <1>1, <2>1 DEF Recurses
  <2>4. f[n + 1][T] = step[<<pick[T], f[n][R]>>]
    <3>1. f[n + 1] = [U \in SUBSET S |-> IF U = {} THEN base
                                        ELSE step[<<pick[U], f[n][U \ {pick[U]}]>>]]
        BY <1>2, <1>5, <2>1, <2>3
    <3> HIDE DEF n
    <3> QED
        BY <1>9, <3>1
  <2> QED
      BY <2>1, <2>2, <2>4
<1> HIDE DEF g
<1>10. Folding(g, S, base, step, pick)
    BY <1>7, <1>8, <1>9 DEF Folding
<1> QED
    BY <1>7, <1>10

-----------------------------------------------------------------------------
(* Sums over finite sets: SumFunctionOnSet of the module Functions. *)

\* g is the sum of F over every subset of S, whichever element is added last.
Sums(g, F, S) ==
    /\ g \in [SUBSET S -> Int] /\ g[{}] = 0
    /\ \A T \in SUBSET S : \A x \in T : g[T] = F[x] + g[T \ {x}]

\* g adds the elements in the order of pick.
AddingUp(g, F, S, pick) ==
    g = [T \in SUBSET S |-> IF T = {} THEN 0 ELSE F[pick[T]] + g[T \ {pick[T]}]]

\* The order of adding does not matter.
LEMMA AnyOrderSums ==
    ASSUME NEW S, IsFiniteSet(S), NEW F, \A x \in S : F[x] \in Int, NEW pick, Picks(pick, S),
           NEW g, AddingUp(g, F, S, pick)
    PROVE  Sums(g, F, S)
<1>1. g[{}] = 0 /\ \A T \in SUBSET S : T # {} =>
        pick[T] \in T /\ g[T] = F[pick[T]] + g[T \ {pick[T]}]
    BY DEF AddingUp, Picks
<1>2. g = [T \in SUBSET S |-> g[T]]
    BY DEF AddingUp
<1> DEFINE P == {T \in SUBSET S : g[T] \in Int /\ \A x \in T : g[T] = F[x] + g[T \ {x}]}
<1>3. {} \in P
    BY <1>1
<1> HIDE DEF P
<1>4. ASSUME NEW n \in Nat, \A T \in SUBSET S : Cardinality(T) <= n => T \in P,
             NEW T \in SUBSET S, Cardinality(T) = n + 1
      PROVE  T \in P
  <2>1. /\ IsFiniteSet(T) /\ T # {}
        /\ \A x \in T : IsFiniteSet(T \ {x}) /\ Cardinality(T \ {x}) = n
    <3>1. IsFiniteSet(T) /\ T # {}
        BY <1>4, FS_Subset, FS_EmptySet
    <3>2. ASSUME NEW x \in T PROVE IsFiniteSet(T \ {x}) /\ Cardinality(T \ {x}) = n
      <4>1. IsFiniteSet(T \ {x}) /\ Cardinality(T \ {x}) = Cardinality(T) - 1
          BY <3>1, FS_RemoveElement
      <4> QED
          BY <1>4, <4>1
    <3> QED
        BY <3>1, <3>2
  <2>2. ASSUME NEW x \in T PROVE T \ {x} \in P
    <3>1. T \ {x} \in SUBSET S /\ Cardinality(T \ {x}) <= n
        BY <2>1
    <3> QED
        BY <1>4, <3>1
  <2> DEFINE y == pick[T]
  <2>3. y \in T /\ g[T] = F[y] + g[T \ {y}]
      BY <1>1, <2>1
  <2> HIDE DEF y
  <2>4. g[T] \in Int
    <3>1. F[y] \in Int /\ g[T \ {y}] \in Int
        BY <2>2, <2>3 DEF P
    <3> QED
        BY <2>3, <3>1
  <2>5. ASSUME NEW x \in T, x # y PROVE g[T] = F[x] + g[T \ {x}]
    <3>1. /\ g[T \ {y}] = F[x] + g[(T \ {y}) \ {x}]
          /\ g[T \ {x}] = F[y] + g[(T \ {x}) \ {y}]
        BY <2>2, <2>3, <2>5 DEF P
    <3>2. (T \ {y}) \ {x} = (T \ {x}) \ {y}
        OBVIOUS
    <3>3. F[x] \in Int /\ F[y] \in Int /\ g[(T \ {x}) \ {y}] \in Int
      <4>1. Cardinality((T \ {x}) \ {y}) <= n
        <5>1. IsFiniteSet(T \ {x}) /\ Cardinality(T \ {x}) = n
            BY <2>1
        <5>2. Cardinality((T \ {x}) \ {y}) \in {n, n - 1}
            BY <5>1, FS_RemoveElement
        <5> QED
            BY <5>2
      <4>2. (T \ {x}) \ {y} \in P
          BY <1>4, <4>1
      <4> QED
          BY <2>3, <4>2 DEF P
    <3>4. g[T] = F[y] + (F[x] + g[(T \ {x}) \ {y}])
        BY <2>3, <3>1, <3>2
    <3> QED
        BY <3>1, <3>3, <3>4
  <2> QED
      BY <2>3, <2>4, <2>5 DEF P
<1>5. \A T \in SUBSET S : IsFiniteSet(T) /\ Cardinality(T) \in Nat
    BY FS_Subset, FS_CardinalityType
<1> DEFINE Q == {n \in Nat : \A T \in SUBSET S : Cardinality(T) <= n => T \in P}
<1>6. 0 \in Q
  <2>1. \A T \in SUBSET S : Cardinality(T) <= 0 => T = {}
      BY <1>5, FS_EmptySet
  <2> QED
      BY <1>3, <2>1
<1>7. ASSUME NEW n \in Q PROVE n + 1 \in Q
  <2>1. \A T \in SUBSET S : Cardinality(T) = n + 1 => T \in P
      BY <1>4
  <2> QED
      BY <1>5, <2>1
<1> HIDE DEF Q
<1>8. \A n \in Nat : n \in Q
    BY <1>6, <1>7, Induction DEF Q
<1>9. \A T \in SUBSET S : T \in P
    BY <1>5, <1>8 DEF Q
<1> QED
    BY <1>1, <1>2, <1>9 DEF P, Sums

LEMMA AddingExists ==
    ASSUME NEW S, IsFiniteSet(S), NEW F, \A x \in S : F[x] \in Int, NEW pick, Picks(pick, S)
    PROVE  \E g : AddingUp(g, F, S, pick)
<1> DEFINE step == [x \in S \X Int |-> F[x[1]] + x[2]]
<1>1. step \in [S \X Int -> Int]
    OBVIOUS
<1>2. \A x \in S, n \in Int : step[<<x, n>>] = F[x] + n
    OBVIOUS
<1> HIDE DEF step
<1>3. \E g \in [SUBSET S -> Int] : Folding(g, S, 0, step, pick)
  <2>1. 0 \in Int
      OBVIOUS
  <2> QED
      BY <1>1, <2>1, FoldExists, Zenon
<1>4. PICK g \in [SUBSET S -> Int] : Folding(g, S, 0, step, pick)
    BY <1>3
<1>5. ASSUME NEW T \in SUBSET S, T # {}
      PROVE  g[T] = F[pick[T]] + g[T \ {pick[T]}]
  <2>1. pick[T] \in S /\ g[T \ {pick[T]}] \in Int
      BY <1>5 DEF Picks
  <2>2. g[T] = step[<<pick[T], g[T \ {pick[T]}]>>]
      BY <1>4, <1>5 DEF Folding
  <2> QED
      BY <1>2, <2>1, <2>2
<1>6. g = [T \in SUBSET S |-> g[T]] /\ g[{}] = 0
    BY <1>4 DEF Folding
<1> QED
    BY <1>5, <1>6 DEF AddingUp

LEMMA SumsAgree ==
    ASSUME NEW S, IsFiniteSet(S), NEW R, S \subseteq R, NEW F, NEW G, \A x \in S : F[x] = G[x],
           NEW g, Sums(g, F, S), NEW h, Sums(h, G, R)
    PROVE  g[S] = h[S]
<1> DEFINE P == {T \in SUBSET S : g[T] = h[T]}
<1>1. {} \in P
    BY DEF Sums
<1>2. ASSUME NEW T \in SUBSET S, NEW x \in T, T \ {x} \in P PROVE T \in P
  <2>1. g[T] = F[x] + g[T \ {x}] /\ h[T] = G[x] + h[T \ {x}] /\ F[x] = G[x]
      BY DEF Sums
  <2> QED
      BY <1>2, <2>1
<1> HIDE DEF P
<1>3. S \in P
    BY <1>1, <1>2, SubsetInduction DEF P
<1> QED
    BY <1>3 DEF P

\* SumFunctionOnSet is such a sum.
LEMMA SumOnIs ==
    ASSUME NEW S, IsFiniteSet(S), NEW F, \A x \in S : F[x] \in Int
    PROVE  \E g : Sums(g, F, S) /\ SumFunctionOnSet(F, S) = g[S]
<1> DEFINE pick == [T \in SUBSET S |-> CHOOSE x \in T : TRUE]
           Defines(g) == g = [T \in SUBSET S |-> IF T = {} THEN 0
                                ELSE F[CHOOSE x \in T : TRUE] + g[T \ {CHOOSE x \in T : TRUE}]]
           sum == CHOOSE g : Defines(g)
<1>1. SumFunctionOnSet(F, S) = sum[S]
    BY DEF SumFunctionOnSet, FoldFunctionOnSet, MapThenFoldSet
<1>2. Picks(pick, S)
    BY DEF Picks
<1>3. ASSUME NEW g PROVE Defines(g) <=> AddingUp(g, F, S, pick)
    BY DEF AddingUp
<1> HIDE DEF pick, Defines
<1>4. PICK g : AddingUp(g, F, S, pick)
    BY <1>2, AddingExists
<1>5. Defines(sum)
    BY <1>3, <1>4
<1>6. Sums(sum, F, S)
    BY <1>2, <1>3, <1>5, AnyOrderSums
<1> QED
    BY <1>1, <1>6

\* Whatever adds up F adds up to it.
LEMMA AddingUpIs ==
    ASSUME NEW S, IsFiniteSet(S), NEW F, \A x \in S : F[x] \in Int, NEW pick, Picks(pick, S),
           NEW g, AddingUp(g, F, S, pick), NEW T \in SUBSET S
    PROVE  g[T] = SumFunctionOnSet(F, T)
<1>1. PICK h : Sums(h, F, T) /\ SumFunctionOnSet(F, T) = h[T]
    BY SumOnIs, FS_Subset
<1>2. Sums(g, F, S)
    BY AnyOrderSums
<1> QED
    BY <1>1, <1>2, SumsAgree, FS_Subset

LEMMA SumOnType ==
    ASSUME NEW S, IsFiniteSet(S), NEW F, \A x \in S : F[x] \in Int
    PROVE  SumFunctionOnSet(F, S) \in Int
<1>1. PICK g : Sums(g, F, S) /\ SumFunctionOnSet(F, S) = g[S]
    BY SumOnIs
<1> QED
    BY <1>1 DEF Sums

LEMMA SumOnEmpty == ASSUME NEW F PROVE SumFunctionOnSet(F, {}) = 0
<1>1. IsFiniteSet({}) /\ \A x \in {} : F[x] \in Int
    BY FS_EmptySet
<1> QED
    BY <1>1, SumOnIs DEF Sums

\* One element taken out.
LEMMA SumOnOne ==
    ASSUME NEW S, IsFiniteSet(S), NEW F, \A y \in S : F[y] \in Int, NEW x \in S
    PROVE  SumFunctionOnSet(F, S) = F[x] + SumFunctionOnSet(F, S \ {x})
<1>1. PICK g : Sums(g, F, S) /\ SumFunctionOnSet(F, S) = g[S]
    BY SumOnIs
<1>2. IsFiniteSet(S \ {x})
    BY FS_Subset
<1>3. PICK h : Sums(h, F, S \ {x}) /\ SumFunctionOnSet(F, S \ {x}) = h[S \ {x}]
    BY <1>2, SumOnIs
<1>4. h[S \ {x}] = g[S \ {x}]
    BY <1>1, <1>2, <1>3, SumsAgree
<1> QED
    BY <1>1, <1>3, <1>4 DEF Sums

\* Only the terms matter.
LEMMA SumOnSame ==
    ASSUME NEW S, IsFiniteSet(S), NEW F, NEW G, \A x \in S : F[x] \in Int /\ F[x] = G[x]
    PROVE  SumFunctionOnSet(F, S) = SumFunctionOnSet(G, S)
<1>1. PICK g : Sums(g, F, S) /\ SumFunctionOnSet(F, S) = g[S]
    BY SumOnIs
<1>2. PICK h : Sums(h, G, S) /\ SumFunctionOnSet(G, S) = h[S]
    BY SumOnIs
<1> QED
    BY <1>1, <1>2, SumsAgree

\* Greater terms have a greater sum.
LEMMA SumOnGrows ==
    ASSUME NEW S, IsFiniteSet(S), NEW F, NEW G,
           \A x \in S : F[x] \in Int /\ G[x] \in Int /\ F[x] <= G[x]
    PROVE  SumFunctionOnSet(F, S) <= SumFunctionOnSet(G, S)
<1>1. PICK g : Sums(g, F, S) /\ SumFunctionOnSet(F, S) = g[S]
    BY SumOnIs
<1>2. PICK h : Sums(h, G, S) /\ SumFunctionOnSet(G, S) = h[S]
    BY SumOnIs
<1> DEFINE P == {T \in SUBSET S : g[T] <= h[T]}
<1>3. {} \in P
    BY <1>1, <1>2 DEF Sums
<1>4. ASSUME NEW T \in SUBSET S, NEW x \in T, T \ {x} \in P PROVE T \in P
  <2>1. /\ g[T] = F[x] + g[T \ {x}] /\ h[T] = G[x] + h[T \ {x}]
        /\ F[x] <= G[x] /\ F[x] \in Int /\ G[x] \in Int
        /\ g[T \ {x}] \in Int /\ h[T \ {x}] \in Int
      BY <1>1, <1>2 DEF Sums
  <2> QED
      BY <1>4, <2>1
<1> HIDE DEF P
<1>5. S \in P
  <2>1. P \in SUBSET SUBSET S
      BY DEF P
  <2> QED
      BY <1>3, <1>4, <2>1, SubsetInduction
<1> QED
    BY <1>1, <1>2, <1>5 DEF P

\* Two sums are the sum of the sums of their terms.
LEMMA SumOnBoth ==
    ASSUME NEW S, IsFiniteSet(S), NEW F, NEW G, NEW H,
           \A x \in S : F[x] \in Int /\ G[x] \in Int /\ H[x] = F[x] + G[x]
    PROVE  SumFunctionOnSet(H, S) = SumFunctionOnSet(F, S) + SumFunctionOnSet(G, S)
<1>1. PICK f : Sums(f, F, S) /\ SumFunctionOnSet(F, S) = f[S]
    BY SumOnIs
<1>2. PICK g : Sums(g, G, S) /\ SumFunctionOnSet(G, S) = g[S]
    BY SumOnIs
<1>3. PICK h : Sums(h, H, S) /\ SumFunctionOnSet(H, S) = h[S]
    BY SumOnIs
<1> DEFINE P == {T \in SUBSET S : h[T] = f[T] + g[T]}
<1>4. {} \in P
    BY <1>1, <1>2, <1>3 DEF Sums
<1>5. ASSUME NEW T \in SUBSET S, NEW x \in T, T \ {x} \in P PROVE T \in P
  <2>1. /\ f[T] = F[x] + f[T \ {x}] /\ g[T] = G[x] + g[T \ {x}] /\ h[T] = H[x] + h[T \ {x}]
        /\ H[x] = F[x] + G[x] /\ F[x] \in Int /\ G[x] \in Int
        /\ f[T \ {x}] \in Int /\ g[T \ {x}] \in Int
      BY <1>1, <1>2, <1>3 DEF Sums
  <2> QED
      BY <1>5, <2>1
<1> HIDE DEF P
<1>6. S \in P
    BY <1>4, <1>5, SubsetInduction DEF P
<1> QED
    BY <1>1, <1>2, <1>3, <1>6 DEF P

\* The sum over a part and over the rest.
LEMMA SumOnSplit ==
    ASSUME NEW S, IsFiniteSet(S), NEW F, \A x \in S : F[x] \in Int, NEW A \in SUBSET S
    PROVE  SumFunctionOnSet(F, S) = SumFunctionOnSet(F, A) + SumFunctionOnSet(F, S \ A)
<1>1. PICK g : Sums(g, F, S) /\ SumFunctionOnSet(F, S) = g[S]
    BY SumOnIs
<1> DEFINE P == {T \in SUBSET S : g[T] = g[T \cap A] + g[T \ A]}
<1>2. {} \in P
    BY <1>1 DEF Sums
<1>3. ASSUME NEW T \in SUBSET S, NEW x \in T, T \ {x} \in P PROVE T \in P
  <2>1. /\ g[T] = F[x] + g[T \ {x}] /\ F[x] \in Int
        /\ g[(T \ {x}) \cap A] \in Int /\ g[(T \ {x}) \ A] \in Int
      BY <1>1 DEF Sums
  <2>2. g[T \ {x}] = g[(T \ {x}) \cap A] + g[(T \ {x}) \ A]
      BY <1>3
  <2>3. CASE x \in A
    <3>1. (T \ {x}) \cap A = (T \cap A) \ {x} /\ (T \ {x}) \ A = T \ A /\ x \in T \cap A
        BY <2>3
    <3>2. g[T \cap A] = F[x] + g[(T \cap A) \ {x}]
        BY <1>1, <3>1 DEF Sums
    <3>3. g[T] = F[x] + (g[(T \cap A) \ {x}] + g[T \ A]) /\ g[(T \cap A) \ {x}] \in Int /\ g[T \ A] \in Int
        BY <2>1, <2>2, <3>1
    <3>4. g[T] = g[T \cap A] + g[T \ A]
        BY <2>1, <3>2, <3>3
    <3> QED
        BY <3>4
  <2>4. CASE x \notin A
    <3>1. (T \ {x}) \cap A = T \cap A /\ (T \ {x}) \ A = (T \ A) \ {x} /\ x \in T \ A
        BY <2>4
    <3>2. g[T \ A] = F[x] + g[(T \ A) \ {x}]
        BY <1>1, <3>1 DEF Sums
    <3>3. g[T] = F[x] + (g[T \cap A] + g[(T \ A) \ {x}]) /\ g[T \cap A] \in Int /\ g[(T \ A) \ {x}] \in Int
        BY <2>1, <2>2, <3>1
    <3>4. g[T] = g[T \cap A] + g[T \ A]
        BY <2>1, <3>2, <3>3
    <3> QED
        BY <3>4
  <2> QED
      BY <2>3, <2>4
<1> HIDE DEF P
<1>4. S \in P
    BY <1>2, <1>3, SubsetInduction DEF P
<1>5. g[S] = g[A] + g[S \ A]
    BY <1>4 DEF P
<1>6. \A B \in SUBSET S : SumFunctionOnSet(F, B) = g[B]
  <2> SUFFICES ASSUME NEW B \in SUBSET S PROVE SumFunctionOnSet(F, B) = g[B]
      OBVIOUS
  <2>1. IsFiniteSet(B) /\ \A x \in B : F[x] \in Int
      BY FS_Subset
  <2>2. PICK h : Sums(h, F, B) /\ SumFunctionOnSet(F, B) = h[B]
      BY <2>1, SumOnIs
  <2> QED
      BY <1>1, <2>1, <2>2, SumsAgree
<1> QED
    BY <1>1, <1>5, <1>6

\* A multiple of every term.
LEMMA SumOnTimes ==
    ASSUME NEW S, IsFiniteSet(S), NEW F, NEW G, NEW c \in Int, \A x \in S : F[x] \in Int /\ G[x] = c * F[x]
    PROVE  SumFunctionOnSet(G, S) = c * SumFunctionOnSet(F, S)
<1>0. \A a \in Int, b \in Int : c * a \in Int /\ c * (a + b) = c * a + c * b
    OBVIOUS
<1>1. \A x \in S : G[x] \in Int
    BY <1>0
<1>2. PICK f : Sums(f, F, S) /\ SumFunctionOnSet(F, S) = f[S]
    BY SumOnIs
<1>3. PICK g : Sums(g, G, S) /\ SumFunctionOnSet(G, S) = g[S]
    BY <1>1, SumOnIs
<1> DEFINE P == {T \in SUBSET S : g[T] = c * f[T]}
<1>4. {} \in P
    BY <1>2, <1>3 DEF Sums
<1>5. ASSUME NEW T \in SUBSET S, NEW x \in T, T \ {x} \in P PROVE T \in P
  <2>1. /\ f[T] = F[x] + f[T \ {x}] /\ g[T] = G[x] + g[T \ {x}] /\ G[x] = c * F[x]
        /\ F[x] \in Int /\ f[T \ {x}] \in Int
      BY <1>2, <1>3 DEF Sums
  <2>2. g[T \ {x}] = c * f[T \ {x}]
      BY <1>5
  <2>3. g[T] = c * f[T]
      BY <1>0, <2>1, <2>2
  <2> QED
      BY <2>3
<1> HIDE DEF P
<1>6. S \in P
    BY <1>4, <1>5, SubsetInduction DEF P
<1> QED
    BY <1>2, <1>3, <1>6 DEF P

\* One term grows.
LEMMA SumOnAdded ==
    ASSUME NEW S, IsFiniteSet(S), NEW F, NEW G, NEW d \in S, NEW c \in Int,
           \A x \in S : F[x] \in Int, G[d] = F[d] + c, \A x \in S : x # d => G[x] = F[x]
    PROVE  SumFunctionOnSet(G, S) = SumFunctionOnSet(F, S) + c
<1>1. \A x \in S : G[x] \in Int
  <2> SUFFICES ASSUME NEW x \in S PROVE G[x] \in Int
      OBVIOUS
  <2>1. CASE x = d
      BY <2>1
  <2>2. CASE x # d
      BY <2>2
  <2> QED
      BY <2>1, <2>2
<1>2. SumFunctionOnSet(F, S) = F[d] + SumFunctionOnSet(F, S \ {d})
    BY SumOnOne
<1>3. SumFunctionOnSet(G, S) = G[d] + SumFunctionOnSet(G, S \ {d})
    BY <1>1, SumOnOne
<1>4. IsFiniteSet(S \ {d})
    BY FS_Subset
<1>5. SumFunctionOnSet(F, S \ {d}) = SumFunctionOnSet(G, S \ {d}) /\ SumFunctionOnSet(F, S \ {d}) \in Int
    BY <1>4, SumOnSame, SumOnType
<1> DEFINE rest == SumFunctionOnSet(F, S \ {d})
<1>6. rest \in Int /\ SumFunctionOnSet(F, S) = F[d] + rest /\ SumFunctionOnSet(G, S) = (F[d] + c) + rest
    BY <1>2, <1>3, <1>5
<1> HIDE DEF rest
<1> QED
    BY <1>6

\* The sum of one number, as often as the set has elements.
LEMMA SumOnConstant ==
    ASSUME NEW S, IsFiniteSet(S), NEW F, NEW c \in Int, \A x \in S : F[x] = c
    PROVE  SumFunctionOnSet(F, S) = c * Cardinality(S)
<1>1. PICK g : Sums(g, F, S) /\ SumFunctionOnSet(F, S) = g[S]
    BY SumOnIs
<1> DEFINE P == {T \in SUBSET S : g[T] = c * Cardinality(T)}
<1>2. \A T \in SUBSET S : IsFiniteSet(T) /\ Cardinality(T) \in Nat
    BY FS_Subset, FS_CardinalityType
<1>3. {} \in P
    BY <1>1, FS_EmptySet DEF Sums
<1>4. ASSUME NEW T \in SUBSET S, NEW x \in T, T \ {x} \in P PROVE T \in P
  <2> DEFINE n == Cardinality(T \ {x})
  <2>1. Cardinality(T \ {x}) = Cardinality(T) - 1
      BY <1>2, FS_RemoveElement
  <2>2. n \in Nat /\ Cardinality(T) = n + 1
      BY <1>2, <2>1
  <2>3. g[T] = c + g[T \ {x}] /\ g[T \ {x}] = c * n
      BY <1>1, <1>4 DEF Sums
  <2> HIDE DEF n
  <2>4. c * (n + 1) = c + c * n
      BY <2>2
  <2> QED
      BY <2>2, <2>3, <2>4
<1> HIDE DEF P
<1>5. S \in P
    BY <1>3, <1>4, SubsetInduction DEF P
<1> QED
    BY <1>1, <1>5 DEF P

-----------------------------------------------------------------------------
(* How often a sequence has something. *)

\* Where the elements of s are that belong to W.
Occurrences(s, W) == {i \in DOMAIN s : s[i] \in W}

LEMMA OccurrencesType ==
    ASSUME NEW T, NEW s \in Seq(T), NEW W
    PROVE  /\ IsFiniteSet(Occurrences(s, W)) /\ Cardinality(Occurrences(s, W)) \in Nat
           /\ Cardinality(Occurrences(s, W)) <= Len(s)
<1>1. Len(s) \in Nat /\ DOMAIN s = 1..Len(s)
    OBVIOUS
<1>2. Occurrences(s, W) \in SUBSET (1..Len(s))
    BY <1>1 DEF Occurrences
<1>3. IsFiniteSet(1..Len(s)) /\ Cardinality(1..Len(s)) = IF 1 > Len(s) THEN 0 ELSE Len(s) - 1 + 1
    BY <1>1, FS_Interval
<1>4. Cardinality(1..Len(s)) = Len(s)
    BY <1>1, <1>3
<1> QED
    BY <1>2, <1>3, <1>4, FS_Subset, FS_CardinalityType

LEMMA NoOccurrence ==
    ASSUME NEW W
    PROVE  Occurrences(<<>>, W) = {} /\ Cardinality(Occurrences(<<>>, W)) = 0
<1>1. Occurrences(<<>>, W) = {}
    BY DEF Occurrences
<1> QED
    BY <1>1, FS_EmptySet

LEMMA CountAppended ==
    ASSUME NEW T, NEW s \in Seq(T), NEW e \in T, NEW W
    PROVE  Cardinality(Occurrences(Append(s, e), W))
             = Cardinality(Occurrences(s, W)) + (IF e \in W THEN 1 ELSE 0)
<1> DEFINE n == Len(s) + 1
           new == Occurrences(Append(s, e), W)
           old == Occurrences(s, W)
<1>1. /\ DOMAIN Append(s, e) = 1..n /\ Append(s, e)[n] = e
      /\ \A i \in 1..Len(s) : Append(s, e)[i] = s[i]
    OBVIOUS
<1>0. Len(s) \in Nat /\ DOMAIN s = 1..Len(s)
    OBVIOUS
<1>2. n \notin old /\ IsFiniteSet(old)
  <2>1. n \notin old
      BY <1>0 DEF Occurrences
  <2> QED
      BY <2>1, OccurrencesType
<1>3. CASE e \in W
  <2>1. new = old \cup {n}
      BY <1>1, <1>3 DEF Occurrences
  <2> QED
      BY <1>2, <1>3, <2>1, FS_AddElement
<1>4. CASE e \notin W
  <2>1. new = old
      BY <1>1, <1>4 DEF Occurrences
  <2>2. Cardinality(old) \in Nat
      BY OccurrencesType
  <2> QED
      BY <1>4, <2>1, <2>2
<1> QED
    BY <1>3, <1>4

LEMMA CountTail ==
    ASSUME NEW T, NEW s \in Seq(T), s # <<>>, NEW W
    PROVE  Cardinality(Occurrences(s, W))
             = Cardinality(Occurrences(Tail(s), W)) + (IF Head(s) \in W THEN 1 ELSE 0)
<1> DEFINE all == Occurrences(s, W)
           rest == Occurrences(Tail(s), W)
           later == all \ {1}
           up == [i \in rest |-> i + 1]
<1>1. /\ DOMAIN s = 1..Len(s) /\ Len(s) \in Nat \ {0} /\ Head(s) = s[1] /\ Tail(s) \in Seq(T)
      /\ DOMAIN Tail(s) = 1..(Len(s) - 1) /\ \A i \in 1..(Len(s) - 1) : Tail(s)[i] = s[i + 1]
    OBVIOUS
<1>2. IsFiniteSet(rest) /\ IsFiniteSet(all) /\ Cardinality(rest) \in Nat /\ Cardinality(all) \in Nat
    BY <1>1, OccurrencesType
<1>3. \A i \in rest : i \in Int /\ i + 1 \in later
    BY <1>1 DEF Occurrences
<1>4. \A j \in later : j - 1 \in rest /\ (j - 1) + 1 = j
    BY <1>1 DEF Occurrences
<1>5. up \in Bijection(rest, later)
  <2>1. up \in [rest -> later]
      BY <1>3
  <2>2. \A i, j \in rest : up[i] = up[j] => i = j
      BY <1>3
  <2>3. \A j \in later : \E i \in rest : up[i] = j
      BY <1>4
  <2> QED
      BY <2>1, <2>2, <2>3 DEF Bijection, Injection, Surjection, IsInjective
<1>6. Cardinality(later) = Cardinality(rest)
    BY <1>2, <1>5, FS_Bijection DEF ExistsBijection
<1>7. 1 \in all <=> Head(s) \in W
    BY <1>1 DEF Occurrences
<1>8. Cardinality(later) = IF 1 \in all THEN Cardinality(all) - 1 ELSE Cardinality(all)
    BY <1>2, FS_RemoveElement
<1> QED
    BY <1>2, <1>6, <1>7, <1>8
\* What is left of a sequence has nothing more often than the sequence.
LEMMA CountPart ==
    ASSUME NEW T, NEW s \in Seq(T), NEW m \in Nat \ {0}, NEW n \in Nat, n <= Len(s), NEW W
    PROVE  /\ SubSeq(s, m, n) \in Seq(T)
           /\ Cardinality(Occurrences(SubSeq(s, m, n), W)) <= Cardinality(Occurrences(s, W))
<1> DEFINE part == SubSeq(s, m, n)
           some == Occurrences(part, W)
           all == Occurrences(s, W)
           at == [i \in some |-> m + i - 1]
<1>1. Len(s) \in Nat /\ DOMAIN s = 1..Len(s)
    OBVIOUS
<1>2. part \in Seq(T) /\ DOMAIN part = 1..Len(part) /\ Len(part) = (IF m <= n THEN n - m + 1 ELSE 0)
      /\ \A i \in 1..Len(part) : part[i] = s[m + i - 1]
    BY <1>1
<1>3. IsFiniteSet(all)
    BY OccurrencesType
<1>4. \A i \in some : i \in Int /\ m + i - 1 \in all
  <2>1. \A i \in 1..Len(part) : i \in Int /\ m + i - 1 \in 1..Len(s)
      BY <1>1, <1>2
  <2> HIDE DEF part
  <2> QED
      BY <1>1, <1>2, <2>1 DEF Occurrences
<1>5. at \in Injection(some, all)
  <2>1. at \in [some -> all]
      BY <1>4
  <2>2. \A i, j \in some : at[i] = at[j] => i = j
      BY <1>4
  <2> QED
      BY <2>1, <2>2 DEF Injection, IsInjective
<1> HIDE DEF at, some, all, part
<1>6. Cardinality(some) <= Cardinality(all)
    BY <1>3, <1>5, FS_Injection
<1> QED
    BY <1>2, <1>6 DEF some, all, part
-----------------------------------------------------------------------------
(* Fractions. *)

LEMMA Cancels ==
    ASSUME NEW x \in Nat, NEW y \in Nat, NEW m \in Nat \ {0}
    PROVE  x * m <= y * m <=> x <= y
<1>1. \A e \in Nat, f \in Nat : e <= f => e * m <= f * m
    OBVIOUS
<1>2. (y + 1) * m = y * m + m
    OBVIOUS
<1>3. x * m \in Nat /\ y * m \in Nat /\ (y + 1) * m \in Nat
    OBVIOUS
<1>4. CASE x <= y
    BY <1>1, <1>4
<1>5. CASE x > y
  <2>1. y + 1 <= x
      BY <1>5
  <2>2. (y + 1) * m <= x * m
      BY <1>1, <2>1
  <2> QED
      BY <1>2, <1>3, <1>5, <2>2
<1> QED
    BY <1>4, <1>5

\* a/b at least c/d and c/d at least e/f.
LEMMA FractionsOrdered ==
    ASSUME NEW a \in Nat, NEW b \in Nat \ {0}, NEW c \in Nat, NEW d \in Nat \ {0},
           NEW e \in Nat, NEW f \in Nat \ {0}, a * d >= c * b, c * f >= e * d
    PROVE  a * f >= e * b
<1>1. \A x, y, m \in Nat : x <= y => x * m <= y * m
    OBVIOUS
<1>2. c * b \in Nat /\ a * d \in Nat /\ e * d \in Nat /\ c * f \in Nat /\ a * f \in Nat /\ e * b \in Nat
    OBVIOUS
<1>3. (c * b) * f <= (a * d) * f
    BY <1>1, <1>2
<1>4. (e * d) * b <= (c * f) * b
    BY <1>1, <1>2
<1>5. (c * b) * f = (c * f) * b /\ (a * d) * f = (a * f) * d /\ (e * d) * b = (e * b) * d
    OBVIOUS
<1>6. (c * b) * f \in Nat /\ (a * f) * d \in Nat /\ (e * b) * d \in Nat
    OBVIOUS
<1>7. (e * b) * d <= (a * f) * d
  <2> DEFINE p == (e * b) * d
             q == (c * b) * f
             r == (a * f) * d
  <2>1. p <= q /\ q <= r /\ p \in Nat /\ q \in Nat /\ r \in Nat
      BY <1>3, <1>4, <1>5, <1>6
  <2> HIDE DEF p, q, r
  <2>2. p <= r
      BY <2>1
  <2> QED
      BY <2>2 DEF p, r
<1>8. e * b <= a * f
    BY <1>2, <1>7, Cancels
<1> QED
    BY <1>2, <1>8
-----------------------------------------------------------------------------
(* Ranks. *)

\* A strict total order of 1..n, as a set of pairs.
TotallyOrders(before, n) ==
    /\ \A i \in 1..n : <<i, i>> \notin before
    /\ \A i, j, k \in 1..n : <<i, j>> \in before /\ <<j, k>> \in before => <<i, k>> \in before
    /\ \A i, j \in 1..n : i # j => <<i, j>> \in before \/ <<j, i>> \in before

RanksBy(before, n) == [i \in 1..n |-> 1 + Cardinality({j \in 1..n : <<j, i>> \in before})]

\* Counting what comes before gives everything a place of its own, and follows the order.
LEMMA Ranked ==
    ASSUME NEW n \in Nat, NEW before, TotallyOrders(before, n), NEW rank, rank = RanksBy(before, n)
    PROVE  /\ \A p \in 1..n : \E i \in 1..n : rank[i] = p
           /\ \A i, j \in 1..n : rank[i] < rank[j] => <<i, j>> \in before
<1> USE DEF RanksBy
<1> DEFINE Past(i) == {j \in 1..n : <<j, i>> \in before}
<1>1. IsFiniteSet(1..n) /\ Cardinality(1..n) = n
  <2>1. IsFiniteSet(1..n) /\ Cardinality(1..n) = IF 1 > n THEN 0 ELSE n - 1 + 1
      BY FS_Interval
  <2> QED
      BY <2>1
<1>2. ASSUME NEW i \in 1..n
      PROVE  /\ IsFiniteSet(Past(i)) /\ Cardinality(Past(i)) \in Nat /\ Cardinality(Past(i)) < n
             /\ rank[i] = 1 + Cardinality(Past(i))
  <2>1. Past(i) \in SUBSET (1..n) /\ i \notin Past(i)
      BY DEF TotallyOrders
  <2>2. rank[i] = 1 + Cardinality(Past(i))
      OBVIOUS
  <2> HIDE DEF Past
  <2>3. IsFiniteSet(Past(i)) /\ Cardinality(Past(i)) <= Cardinality(1..n)
        /\ (Cardinality(Past(i)) = Cardinality(1..n) => 1..n = Past(i))
      BY <1>1, <2>1, FS_Subset
  <2>4. Cardinality(Past(i)) \in Nat
      BY <2>3, FS_CardinalityType
  <2>5. Cardinality(Past(i)) # n
      BY <1>1, <2>1, <2>3
  <2> QED
      BY <1>1, <2>2, <2>3, <2>4, <2>5
<1>3. ASSUME NEW i \in 1..n, NEW j \in 1..n, <<i, j>> \in before PROVE rank[i] < rank[j]
  <2>1. Past(i) \subseteq Past(j) /\ i \in Past(j) /\ i \notin Past(i)
      BY <1>3 DEF TotallyOrders
  <2>2. IsFiniteSet(Past(j)) /\ Cardinality(Past(i)) \in Nat /\ Cardinality(Past(j)) \in Nat
        /\ rank[i] = 1 + Cardinality(Past(i)) /\ rank[j] = 1 + Cardinality(Past(j))
      BY <1>2
  <2> HIDE DEF Past
  <2>3. Cardinality(Past(i)) <= Cardinality(Past(j))
        /\ (Cardinality(Past(i)) = Cardinality(Past(j)) => Past(j) = Past(i))
      BY <2>1, <2>2, FS_Subset
  <2>4. Cardinality(Past(i)) # Cardinality(Past(j))
      BY <2>1, <2>3
  <2> QED
      BY <2>2, <2>3, <2>4
<1>4. \A i \in 1..n : rank[i] \in 1..n
  <2> SUFFICES ASSUME NEW i \in 1..n PROVE rank[i] \in 1..n
      OBVIOUS
  <2> DEFINE m == Cardinality(Past(i))
  <2>1. m \in Nat /\ m < n /\ rank[i] = 1 + m
      BY <1>2
  <2> HIDE DEF m
  <2> QED
      BY <2>1
<1>5. rank \in Injection(1..n, 1..n)
  <2>1. rank = [i \in 1..n |-> rank[i]]
      OBVIOUS
  <2> HIDE DEF Past
  <2>2. rank \in [1..n -> 1..n]
      BY <1>4, <2>1
  <2>3. ASSUME NEW i \in 1..n, NEW j \in 1..n, rank[i] = rank[j] PROVE i = j
    <3>1. rank[i] \in Int /\ rank[j] \in Int
        BY <1>4
    <3>2. ~(rank[i] < rank[j]) /\ ~(rank[j] < rank[i])
        BY <2>3, <3>1
    <3> QED
        BY <1>3, <3>2 DEF TotallyOrders
  <2> QED
      BY <2>2, <2>3 DEF Injection, IsInjective
<1>6. rank \in Surjection(1..n, 1..n)
    BY <1>1, <1>5, FS_Injection
<1>7. ASSUME NEW i \in 1..n, NEW j \in 1..n, rank[i] < rank[j] PROVE <<i, j>> \in before
  <2>1. rank[i] \in Int /\ rank[j] \in Int
      BY <1>4
  <2>2. i # j /\ ~(rank[j] < rank[i])
      BY <1>7, <2>1
  <2> QED
      BY <1>3, <2>2 DEF TotallyOrders
<1> QED
    BY <1>6, <1>7 DEF Surjection
=============================================================================
