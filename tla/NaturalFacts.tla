---------------------------- MODULE NaturalFacts ----------------------------
(***************************************************************************)
(* Facts about the natural numbers that the proofs of the components need: *)
(* division, shares, and induction.  The library's induction theorems take *)
(* an operator as a parameter, which the provers cannot instantiate; with a *)
(* set in its place they follow from the least-number principle, which the *)
(* library states for sets (WFMin).  From them it follows that a recursive *)
(* function of the naturals exists, so that what the model defines as one, *)
(* with CHOOSE, has the values its definition gives.                       *)
(***************************************************************************)
EXTENDS Integers, WellFoundedInduction, TLAPS

-----------------------------------------------------------------------------
(* A number written as a remainder and a multiple has them as its % and \div. *)
LEMMA DivideUnique ==
  ASSUME NEW n \in Nat \ {0}, NEW q \in Nat, NEW r \in 0..(n - 1)
  PROVE  (r + n * q) \div n = q /\ (r + n * q) % n = r
<1> DEFINE a == r + n * q
           d == a \div n
           m == a % n
<1>1. a \in Nat /\ d \in Int /\ m \in 0..(n - 1)
  OBVIOUS
<1>2. a = n * d + m
  OBVIOUS
<1>3. n * (d - q) = r - m
  BY <1>1, <1>2
<1>4. d - q < 1
  <2>1. SUFFICES ASSUME d - q >= 1 PROVE FALSE
    BY <1>1
  <2>2. n * (d - q) >= n
    BY <2>1, <1>1
  <2>. QED  BY <2>2, <1>3, <1>1
<1>5. d - q > -1
  <2>1. SUFFICES ASSUME q - d >= 1 PROVE FALSE
    BY <1>1
  <2>2. n * (q - d) >= n
    BY <2>1, <1>1
  <2>3. n * (q - d) = m - r
    BY <1>3, <1>1
  <2>. QED  BY <2>2, <2>3, <1>1
<1>6. d = q
  BY <1>4, <1>5, <1>1
<1>. QED  BY <1>6, <1>3, <1>1

(* Dividing in two steps is dividing by the product.                       *)
LEMMA DivideTwice ==
  ASSUME NEW a \in Nat, NEW x \in Nat \ {0}, NEW y \in Nat \ {0}
  PROVE  (a \div x) \div y = a \div (x * y)
<1> DEFINE q == a \div x
           r == a % x
           p == q \div y
           s == q % y
<1>1. q \in Nat /\ r \in 0..(x - 1) /\ a = x * q + r
  OBVIOUS
<1>2. p \in Nat /\ s \in 0..(y - 1) /\ q = y * p + s
  BY <1>1
<1> HIDE DEF q, r, p, s
<1>3. a = (x * s + r) + (x * y) * p
  BY <1>1, <1>2
<1>4. x * y \in Nat \ {0} /\ x * s + r \in 0..(x * y - 1)
  <2>1. x * s <= x * (y - 1)
    BY <1>2
  <2>2. x * (y - 1) = x * y - x
    OBVIOUS
  <2>3. x * s \in Nat /\ x * y \in Nat
    BY <1>2
  <2>4. x * y >= x
    OBVIOUS
  <2>. QED  BY <2>1, <2>2, <2>3, <2>4, <1>1
<1>5. ((x * s + r) + (x * y) * p) \div (x * y) = p
  BY <1>2, <1>4, DivideUnique
<1>6. a \div (x * y) = p
  BY <1>3, <1>5
<1>. QED  BY <1>6 DEF p, q

(* What \div and % are.                                                    *)
LEMMA Remainder ==
  ASSUME NEW a \in Nat, NEW n \in Nat \ {0}
  PROVE  a \div n \in Nat /\ a % n \in 0..(n - 1) /\ a = n * (a \div n) + (a % n)
OBVIOUS

-----------------------------------------------------------------------------
(* A set of numbers that is not empty has a least one.                     *)
LEMMA LeastNumber ==
  ASSUME NEW T \in SUBSET Nat, T # {}
  PROVE  \E n \in T : \A m \in T : n <= m
<1>1. PICK n \in T : \A m \in T : <<m, n>> \notin OpToRel(<, Nat)
  BY NatLessThanWellFounded, WFMin
<1>2. \A m \in T : ~(m < n)
  BY <1>1 DEF OpToRel
<1>. QED  BY <1>2

(* A set with 0 and the successors of its numbers has all numbers.         *)
LEMMA NatInductionSet ==
  ASSUME NEW T, 0 \in T, \A n \in Nat : n \in T => n + 1 \in T
  PROVE  Nat \subseteq T
<1> SUFFICES ASSUME NEW k \in Nat, k \notin T PROVE FALSE
  OBVIOUS
<1> DEFINE Out == {n \in Nat : n \notin T}
<1>1. PICK n \in Out : \A m \in Out : n <= m
  <2>1. Out \in SUBSET Nat /\ Out # {}
    OBVIOUS
  <2> HIDE DEF Out
  <2>. QED  BY <2>1, LeastNumber
<1>2. n # 0
  OBVIOUS
<1>3. n - 1 \in Nat /\ n - 1 \notin Out
  BY <1>1, <1>2
<1>. QED  BY <1>3

(* f is the recursive function with that first value and those steps up to n. *)
Runs(f, base, step, n) == f[0] = base /\ \A k \in 1..n : f[k] = step[k][f[k - 1]]

(* Two that have the same steps agree as far as both go.                   *)
LEMMA RunsAgree ==
  ASSUME NEW f, NEW g, NEW base, NEW step, NEW m \in Nat, NEW n \in Nat, m <= n,
         Runs(f, base, step, m), Runs(g, base, step, n)
  PROVE  f[m] = g[m]
<1> DEFINE A == {k \in Nat : k <= m => f[k] = g[k]}
<1>1. 0 \in A
  BY DEF Runs
<1>2. ASSUME NEW k \in Nat, k \in A PROVE k + 1 \in A
  <2>1. CASE k + 1 <= m
    <3>1. k + 1 \in 1..m /\ k + 1 \in 1..n /\ (k + 1) - 1 = k
      BY <2>1
    <3>2. f[k + 1] = step[k + 1][f[k]] /\ g[k + 1] = step[k + 1][g[k]]
      BY <3>1 DEF Runs
    <3>3. f[k] = g[k]
      BY <1>2, <2>1
    <3>. QED  BY <3>2, <3>3
  <2>2. CASE ~(k + 1 <= m)
    BY <2>2
  <2>. QED  BY <2>1, <2>2
<1>3. Nat \subseteq A
  <2> HIDE DEF A
  <2>. QED  BY <1>1, <1>2, NatInductionSet
<1>. QED  BY <1>3

(* There is one up to every number ...                                     *)
LEMMA RunsExist ==
  ASSUME NEW S, NEW base \in S, NEW step \in [Nat -> [S -> S]], NEW n \in Nat
  PROVE  \E f \in [Nat -> S] : Runs(f, base, step, n)
<1> DEFINE T == {m \in Nat : \E f \in [Nat -> S] : Runs(f, base, step, m)}
<1>1. 0 \in T
  <2> DEFINE f == [k \in Nat |-> base]
  <2>1. f \in [Nat -> S] /\ Runs(f, base, step, 0)
    BY DEF Runs
  <2>. QED  BY <2>1
<1>2. ASSUME NEW m \in Nat, m \in T PROVE m + 1 \in T
  <2>1. PICK f \in [Nat -> S] : Runs(f, base, step, m)
    BY <1>2
  <2> DEFINE g == [f EXCEPT ![m + 1] = step[m + 1][f[m]]]
  <2>2. step[m + 1][f[m]] \in S
    OBVIOUS
  <2>3. g \in [Nat -> S] /\ g[m + 1] = step[m + 1][f[m]] /\ \A k \in 0..m : g[k] = f[k]
    BY <2>2
  <2> HIDE DEF g
  <2>4. ASSUME NEW k \in 1..(m + 1) PROVE g[k] = step[k][g[k - 1]]
    <3>1. CASE k \in 1..m
      <4>1. k - 1 \in 0..m /\ k \in 0..m
        BY <3>1
      <4>. QED  BY <2>1, <2>3, <3>1, <4>1 DEF Runs
    <3>2. CASE k = m + 1
      <4>1. k - 1 = m /\ m \in 0..m
        BY <3>2
      <4>. QED  BY <2>3, <3>2, <4>1
    <3>. QED  BY <3>1, <3>2
  <2>5. Runs(g, base, step, m + 1)
    <3>1. 0 \in 0..m
      OBVIOUS
    <3>. QED  BY <2>1, <2>3, <2>4, <3>1 DEF Runs
  <2>. QED  BY <2>3, <2>5
<1>3. Nat \subseteq T
  <2> HIDE DEF T
  <2>. QED  BY <1>1, <1>2, NatInductionSet
<1>. QED  BY <1>3

(* f is the function of the naturals with that first value and those steps.  *)
StepsOf(S) == [Nat -> [S -> S]]
Recurs(f, base, step) == f[0] = base /\ \A n \in Nat : f[n + 1] = step[n + 1][f[n]]

(* ... and so one for all: n goes to the value at n of one up to n.        *)
LEMMA RecursiveFunctionExists ==
  ASSUME NEW S, NEW base \in S, NEW step \in StepsOf(S)
  PROVE  \E f \in [Nat -> S] : Recurs(f, base, step)
<1> DEFINE Run(n) == CHOOSE f \in [Nat -> S] : Runs(f, base, step, n)
           F == [n \in Nat |-> Run(n)[n]]
<1>1. \A n \in Nat : Run(n) \in [Nat -> S] /\ Runs(Run(n), base, step, n)
  BY RunsExist DEF StepsOf
<1> HIDE DEF Run
<1>2. F \in [Nat -> S]
  BY <1>1
<1>3. F[0] = base
  BY <1>1 DEF Runs
<1>4. ASSUME NEW n \in Nat PROVE F[n + 1] = step[n + 1][F[n]]
  <2>1. n + 1 \in 1..(n + 1) /\ (n + 1) - 1 = n /\ n + 1 \in Nat /\ n <= n + 1
    OBVIOUS
  <2>2. Run(n + 1)[n + 1] = step[n + 1][Run(n + 1)[n]]
    BY <1>1, <2>1 DEF Runs
  <2>3. Run(n)[n] = Run(n + 1)[n]
    BY <1>1, <2>1, RunsAgree
  <2>. QED  BY <2>1, <2>2, <2>3
<1>. QED  BY <1>2, <1>3, <1>4 DEF Recurs
-----------------------------------------------------------------------------
(* A share of a number is not larger than it.                              *)
LEMMA ShareOfNumber ==
  ASSUME NEW a \in Nat, NEW n \in Nat, NEW h \in Nat \ {0}, n <= h
  PROVE  (a * n) \div h \in 0..a
<1>1. a * n \in Nat /\ a * h \in Nat
  OBVIOUS
<1>2. a * n <= a * h
  OBVIOUS
<1>3. (a * n) \div h \in Nat /\ h * ((a * n) \div h) <= a * n
  BY <1>1
<1>4. h * ((a * n) \div h) <= h * a
  BY <1>1, <1>2, <1>3
<1>. QED  BY <1>3, <1>4

Positive == Nat \ {0}

(* A fraction is at most another one.                                       *)
LEMMA FractionsTransitive ==
  ASSUME NEW a1 \in Nat, NEW a2 \in Nat, NEW a3 \in Nat,
         NEW b1 \in Positive, NEW b2 \in Positive, NEW b3 \in Positive,
         a1 * b2 <= a2 * b1, a2 * b3 <= a3 * b2
  PROVE  /\ a1 * b3 <= a3 * b1
         /\ a1 * b2 < a2 * b1 \/ a2 * b3 < a3 * b2 => a1 * b3 < a3 * b1
<1>1. /\ a1 * b2 \in Nat /\ a2 * b1 \in Nat /\ a2 * b3 \in Nat /\ a3 * b2 \in Nat
      /\ a1 * b3 \in Nat /\ a3 * b1 \in Nat
  BY DEF Positive
<1>2. ASSUME NEW x \in Nat, NEW y \in Nat, NEW c \in Positive, x <= y
      PROVE  x * c <= y * c /\ (x < y => x * c < y * c)
  BY <1>2 DEF Positive
<1>3. ASSUME NEW x \in Nat, NEW y \in Nat, NEW c \in Positive
      PROVE  (x * c <= y * c => x <= y) /\ (x * c < y * c => x < y)
  <2>1. x > y => x * c > y * c
    BY <1>2
  <2>2. x = y \/ x < y \/ x > y
    OBVIOUS
  <2>3. x * c \in Nat /\ y * c \in Nat
    BY DEF Positive
  <2>. QED  BY <2>1, <2>2, <2>3
<1>4. (a1 * b2) * b3 <= (a2 * b1) * b3 /\ (a1 * b2 < a2 * b1 => (a1 * b2) * b3 < (a2 * b1) * b3)
  BY <1>1, <1>2
<1>5. (a2 * b3) * b1 <= (a3 * b2) * b1 /\ (a2 * b3 < a3 * b2 => (a2 * b3) * b1 < (a3 * b2) * b1)
  BY <1>1, <1>2
<1>6. /\ (a2 * b1) * b3 = (a2 * b3) * b1
      /\ (a1 * b2) * b3 = (a1 * b3) * b2
      /\ (a3 * b2) * b1 = (a3 * b1) * b2
  BY DEF Positive
<1>7. /\ (a1 * b2) * b3 \in Nat /\ (a2 * b1) * b3 \in Nat /\ (a3 * b2) * b1 \in Nat
  BY <1>1 DEF Positive
<1>8. /\ (a1 * b3) * b2 <= (a3 * b1) * b2
      /\ a1 * b2 < a2 * b1 \/ a2 * b3 < a3 * b2 => (a1 * b3) * b2 < (a3 * b1) * b2
  BY <1>4, <1>5, <1>6, <1>7
<1>. QED  BY <1>1, <1>3, <1>8

(* Counting one layer more, over all GPUs.                                   *)
LEMMA OneCounted ==
  ASSUME NEW n \in Int, NEW a \in Int, NEW b \in Int, NEW f \in Int, NEW c \in Int,
         c = n * (a + b)
  PROVE  c + f * n = n * (a + (b + f))
<1>1. n * (a + (b + f)) = n * (a + b) + f * n
  OBVIOUS
<1>. QED  BY <1>1
=============================================================================
