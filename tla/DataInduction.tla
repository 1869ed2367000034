--------------------------- MODULE DataInduction ---------------------------
(***************************************************************************)
(* Induction over the naturals, and what follows from it for the folds and  *)
(* the recursive functions of the models: such a function exists, and its   *)
(* value at a number depends on the arguments up to that number only.  The  *)
(* statements quantify over sets and functions, never over operators, so    *)
(* that a proof can cite them for any predicate it writes as a set.         *)
(***************************************************************************)
EXTENDS Integers, WellFoundedInduction, FiniteSetTheorems, TLAPS

\* The least-number principle for a set.
LEMMA LeastNumber ==
    ASSUME NEW T \in SUBSET Nat, T # {}
    PROVE  \E x \in T : \A y \in T : x <= y
<1> DEFINE R == {r \in Nat \X Nat : r[1] < r[2]}
<1>1. R = OpToRel(<, Nat)
  BY DEF OpToRel
<1>2. IsWellFoundedOn(R, Nat)
  BY NatLessThanWellFounded, <1>1, Zenon
<1>3. \A x, y \in Nat : y < x => <<y, x>> \in R
  OBVIOUS
<1> HIDE DEF R
<1>4. PICK x \in T : \A y \in T : ~ (<<y, x>> \in R)
  BY <1>2, WFMin, Zenon
<1>5. ASSUME NEW y \in T PROVE x <= y
  <2>1. x \in Nat /\ y \in Nat
    OBVIOUS
  <2>2. ~ (y < x)
    BY <1>3, <1>4, <2>1, Zenon
  <2> QED
    BY <2>1, <2>2
<1> QED
  BY <1>5

\* What holds of 0 and passes from a number to the next holds of all of them.
LEMMA Induction ==
    ASSUME NEW T, 0 \in T, \A i \in Nat : i \in T => i + 1 \in T
    PROVE  Nat \subseteq T
<1> SUFFICES ASSUME Nat \ T # {} PROVE FALSE
  OBVIOUS
<1>1. PICK x \in Nat \ T : \A y \in Nat \ T : x <= y
  BY LeastNumber
<1>2. x # 0 /\ x - 1 \in Nat
  BY <1>1
<1>3. x - 1 \in T
  BY <1>1, <1>2
<1> QED
  BY <1>1, <1>2, <1>3

\* The same up to a bound.
LEMMA InductionUpTo ==
    ASSUME NEW n \in Nat, NEW T, 0 \in T, \A i \in 0..n - 1 : i \in T => i + 1 \in T
    PROVE  0..n \subseteq T
<1> DEFINE U == {i \in Nat : i <= n => i \in T}
<1>1. 0 \in U
  OBVIOUS
<1>2. ASSUME NEW i \in Nat, i \in U PROVE i + 1 \in U
  BY <1>2
<1> HIDE DEF U
<1>3. Nat \subseteq U
  BY <1>1, <1>2, Induction
<1> QED
  BY <1>3 DEF U

-----------------------------------------------------------------------------
(* Iteration.  The definitions stay folded where the lemmas are cited: they *)
(* are what the provers match.                                              *)

\* step gives, for each number up to n, a function of D into itself.
Steps(step, n, D) == step \in [1..n -> [D -> D]]

\* f starts at start and takes the steps in order.
Iterates(f, step, n, D, start) ==
    /\ f \in [0..n -> D]
    /\ f[0] = start
    /\ \A i \in 1..n : f[i] = step[i][f[i - 1]]

\* f and g agree at a number when they agree at the one before.
StayEqual(f, g, n) == \A i \in 1..n : f[i - 1] = g[i - 1] => f[i] = g[i]

\* A function that computes its value at i from its value at i - 1 exists.
LEMMA IteratesExist ==
    ASSUME NEW n \in Nat, NEW D, NEW start \in D, NEW step, Steps(step, n, D)
    PROVE  \E f : Iterates(f, step, n, D, start)
<1> USE DEF Steps
<1> DEFINE OK(k, f) == f[0] = start /\ \A i \in 1..k : f[i] = step[i][f[i - 1]]
           Some(k) == \E f \in [0..k -> D] : OK(k, f)
           T == {k \in 0..n : Some(k)}
<1>1. 0 \in T
  <2>1. [i \in 0..0 |-> start] \in [0..0 -> D] /\ OK(0, [i \in 0..0 |-> start])
    OBVIOUS
  <2>2. Some(0)
    BY <2>1, Zenon
  <2> QED
    BY <2>2
<1>2. ASSUME NEW k \in 0..n - 1, k \in T PROVE k + 1 \in T
  <2>1. PICK f \in [0..k -> D] : OK(k, f)
    BY <1>2, Zenon
  <2> DEFINE g == [i \in 0..k + 1 |-> IF i = k + 1 THEN step[k + 1][f[k]] ELSE f[i]]
  <2>2. g \in [0..k + 1 -> D]
    BY <1>2, <2>1
  <2>3. OK(k + 1, g)
    <3>1. g[0] = start
      BY <1>2, <2>1
    <3>2. ASSUME NEW i \in 1..k + 1 PROVE g[i] = step[i][g[i - 1]]
      <4>1. CASE i = k + 1
        BY <1>2, <4>1
      <4>2. CASE i \in 1..k
        BY <1>2, <2>1, <4>2
      <4> QED
        BY <1>2, <4>1, <4>2
    <3> QED
      BY <3>1, <3>2
  <2>4. Some(k + 1)
    BY <2>2, <2>3, Zenon
  <2> HIDE DEF Some, g
  <2> QED
    BY <1>2, <2>4
<1>3. 0..n \subseteq T
  <2> HIDE DEF T
  <2> QED
    BY <1>1, <1>2, InductionUpTo
<1>4. Some(n)
  <2> HIDE DEF Some
  <2> QED
    BY <1>3
<1> QED
  BY <1>4, Zenon DEF Iterates

\* Two such functions agree as far as their steps do.
LEMMA IteratesAgree ==
    ASSUME NEW n \in Nat, NEW f, NEW g, f[0] = g[0], StayEqual(f, g, n)
    PROVE  \A i \in 0..n : f[i] = g[i]
<1> USE DEF StayEqual
<1> DEFINE T == {i \in 0..n : f[i] = g[i]}
<1>1. 0 \in T
  OBVIOUS
<1>2. ASSUME NEW i \in 0..n - 1, i \in T PROVE i + 1 \in T
  <2>1. i + 1 \in 1..n /\ (i + 1) - 1 = i
    BY <1>2
  <2> QED
    BY <1>2, <2>1
<1> HIDE DEF T
<1>3. 0..n \subseteq T
  BY <1>1, <1>2, InductionUpTo
<1> QED
  BY <1>3 DEF T
-----------------------------------------------------------------------------
(* Sums over a finite set, as the folds of the community modules compute    *)
(* them: a function on the subsets, each worth one member and the rest.     *)

\* The equation of the function it, for the worths g.
SumFrom(g, it, s) ==
    IF s = {} THEN 0
    ELSE g[CHOOSE x \in s : TRUE] + it[s \ {CHOOSE x \in s : TRUE}]

IsSum(it, g, H) == it = [s \in SUBSET H |-> SumFrom(g, it, s)]

LEMMA SumExists ==
    ASSUME NEW H, IsFiniteSet(H), NEW g \in [H -> Int]
    PROVE  \E it \in [SUBSET H -> Int] : IsSum(it, g, H)
<1> DEFINE First(s) == CHOOSE x \in s : TRUE
           Upto(k, it) == \A s \in SUBSET H : Cardinality(s) <= k => it[s] = SumFrom(g, it, s)
           T == {k \in Nat : \E it \in [SUBSET H -> Int] : Upto(k, it)}
<1>1. \A s \in SUBSET H : IsFiniteSet(s) /\ Cardinality(s) \in Nat
  BY FS_Subset, FS_CardinalityType
<1>2. ASSUME NEW s \in SUBSET H, s # {}
      PROVE  /\ First(s) \in H /\ s \ {First(s)} \in SUBSET H
             /\ Cardinality(s \ {First(s)}) = Cardinality(s) - 1
  <2>1. First(s) \in s
    BY <1>2
  <2> QED
    BY <1>1, <2>1, FS_RemoveElement
<1>3. ASSUME NEW it \in [SUBSET H -> Int], NEW s \in SUBSET H
      PROVE  SumFrom(g, it, s) \in Int
  BY <1>2 DEF SumFrom
<1>4. 0 \in T
  <2> DEFINE it == [s \in SUBSET H |-> 0]
  <2>1. it \in [SUBSET H -> Int]
    OBVIOUS
  <2>2. ASSUME NEW s \in SUBSET H, Cardinality(s) <= 0 PROVE it[s] = SumFrom(g, it, s)
    <3>1. s = {}
      BY <1>1, <2>2, FS_EmptySet
    <3> QED
      BY <3>1 DEF SumFrom
  <2> QED
    BY <2>1, <2>2
<1>5. ASSUME NEW k \in Nat, k \in T PROVE k + 1 \in T
  <2>1. PICK it \in [SUBSET H -> Int] : Upto(k, it)
    BY <1>5
  <2> DEFINE jt == [s \in SUBSET H |-> SumFrom(g, it, s)]
  <2>2. jt \in [SUBSET H -> Int]
    BY <1>3
  <2>3. ASSUME NEW s \in SUBSET H, Cardinality(s) <= k + 1 PROVE jt[s] = SumFrom(g, jt, s)
    <3>1. CASE s = {}
      BY <3>1 DEF SumFrom
    <3>2. CASE s # {}
      <4> DEFINE rest == s \ {First(s)}
      <4>1. rest \in SUBSET H /\ Cardinality(rest) <= k
        BY <1>1, <1>2, <2>3, <3>2
      <4>2. it[rest] = SumFrom(g, it, rest)
        BY <2>1, <4>1
      <4>3. jt[rest] = it[rest]
        BY <4>1, <4>2
      <4> QED
        BY <3>2, <4>3 DEF SumFrom
    <3> QED
      BY <3>1, <3>2
  <2> HIDE DEF jt
  <2> QED
    BY <2>2, <2>3
<1> HIDE DEF T
<1>6. Cardinality(H) \in T
  BY <1>1, <1>4, <1>5, Induction
<1>7. PICK it \in [SUBSET H -> Int] : Upto(Cardinality(H), it)
  BY <1>6 DEF T
<1>8. \A s \in SUBSET H : it[s] = SumFrom(g, it, s)
  BY <1>7, FS_Subset
<1>9. it = [s \in SUBSET H |-> SumFrom(g, it, s)]
  BY <1>8
<1> QED
  BY <1>9 DEF IsSum

\* The function itself.
SumOver(g, H) ==
    LET it[s \in SUBSET H] ==
            IF s = {} THEN 0
            ELSE LET x == CHOOSE x \in s : TRUE
                 IN  g[x] + it[s \ {x}]
    IN it

\* It has its equation.
LEMMA SumComputes ==
    ASSUME NEW H, IsFiniteSet(H), NEW g \in [H -> Int]
    PROVE  \A s \in SUBSET H : SumOver(g, H)[s] = SumFrom(g, SumOver(g, H), s)
<1> DEFINE Eqn(it) == [s \in SUBSET H |-> SumFrom(g, it, s)]
<1>1. PICK it \in [SUBSET H -> Int] : IsSum(it, g, H)
  BY SumExists
<1>2. it = Eqn(it)
  BY <1>1 DEF IsSum
<1>3. SumOver(g, H) = CHOOSE f : f = Eqn(f)
  BY DEF SumOver, SumFrom
<1> HIDE DEF Eqn
<1>4. SumOver(g, H) = Eqn(SumOver(g, H))
  BY <1>2, <1>3
<1> DEFINE f == SumOver(g, H)
<1>5. f = Eqn(f)
  BY <1>4
<1> HIDE DEF f
<1>6. \A s \in SUBSET H : f[s] = SumFrom(g, f, s)
  BY <1>5 DEF Eqn
<1> QED
  BY <1>6 DEF f

\* A sum of naturals is a natural, and it is zero only if all of them are.
LEMMA SumOfNaturals ==
    ASSUME NEW H, IsFiniteSet(H), NEW g \in [H -> Nat]
    PROVE  /\ SumOver(g, H)[H] \in Nat
           /\ SumOver(g, H)[H] > 0 <=> \E x \in H : g[x] > 0
<1> DEFINE f == SumOver(g, H)
           First(s) == CHOOSE x \in s : TRUE
           Right(s) == f[s] \in Nat /\ (f[s] > 0 <=> \E x \in s : g[x] > 0)
           T == {k \in Nat : \A s \in SUBSET H : Cardinality(s) = k => Right(s)}
<1>1. \A s \in SUBSET H : IsFiniteSet(s) /\ Cardinality(s) \in Nat
  BY FS_Subset, FS_CardinalityType
<1>2. \A s \in SUBSET H : f[s] = SumFrom(g, f, s)
  <2>1. g \in [H -> Int]
    OBVIOUS
  <2> QED
    BY <2>1, SumComputes
<1> HIDE DEF f
<1>3. 0 \in T
  <2>1. ASSUME NEW s \in SUBSET H, Cardinality(s) = 0 PROVE s = {}
    BY <1>1, <2>1, FS_EmptySet
  <2>2. f[{}] = 0
    BY <1>2 DEF SumFrom
  <2> QED
    BY <2>1, <2>2
<1>4. ASSUME NEW k \in Nat, k \in T PROVE k + 1 \in T
  <2> SUFFICES ASSUME NEW s \in SUBSET H, Cardinality(s) = k + 1 PROVE Right(s)
    OBVIOUS
  <2> DEFINE x == First(s)
             r == s \ {x}
  <2>1. s # {}
    BY FS_EmptySet
  <2>2. x \in s /\ f[s] = g[x] + f[r]
    BY <1>2, <2>1 DEF SumFrom
  <2> HIDE DEF x
  <2>3. r \in SUBSET H /\ Cardinality(r) = k
    BY <1>1, <2>2, FS_RemoveElement
  <2>4. Right(r)
    BY <1>4, <2>3
  <2>5. g[x] \in Nat
    BY <2>2
  <2>6. (\E y \in s : g[y] > 0) <=> g[x] > 0 \/ \E y \in r : g[y] > 0
    BY <2>2
  <2> HIDE DEF r
  <2> QED
    BY <2>2, <2>4, <2>5, <2>6
<1> HIDE DEF T
<1>5. Cardinality(H) \in T
  BY <1>1, <1>3, <1>4, Induction
<1>6. Right(H)
  BY <1>5 DEF T
<1> QED
  BY <1>6 DEF f

=============================================================================
