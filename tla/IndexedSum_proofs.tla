--------------------------- MODULE IndexedSum_proofs ---------------------------
(***************************************************************************)
(* What IndexedSum!Sum computes, for every function and every number of    *)
(* summands: the facts the ledgers of the staking program, of the vote and *)
(* of the conversion vault are kept with.                                  *)
(*                                                                         *)
(* The induction behind each lemma is by a least counterexample:           *)
(* LeastNumber gives the smallest member of a set of naturals.             *)
(***************************************************************************)
EXTENDS IndexedSum, WellFoundedInduction, TLAPS

\* A non-empty set of naturals has a least member.
LEMMA LeastNumber ==
  ASSUME NEW T, T \subseteq Nat, T # {}
  PROVE  \E x \in T : \A y \in T : x <= y
<1> DEFINE R == {ss \in Nat \X Nat : ss[1] < ss[2]}
<1>1. IsWellFoundedOn(R, Nat)
  BY NatLessThanWellFounded DEF OpToRel
<1>2. PICK x \in T : \A y \in T : ~(<<y, x>> \in R)
  <2> HIDE DEF R
  <2> QED  BY <1>1, WFMin
<1>3. \A y \in T : ~(y < x)
  BY <1>2
<1> QED  BY <1>3

IsPartialSum(s, f, n) ==
  /\ s \in [0..n -> Int]
  /\ s[0] = 0
  /\ \A i \in 1..n : s[i] = s[i - 1] + f[i]

\* Every function has its partial sums.
LEMMA PartialSumExists ==
  ASSUME NEW n \in Nat, NEW f \in [1..n -> Int]
  PROVE  \E s : IsPartialSum(s, f, n)
<1> DEFINE T == {m \in 0..n : ~\E s : IsPartialSum(s, f, m)}
<1> n \in 0..n
  OBVIOUS
<1>1. SUFFICES ASSUME T # {} PROVE FALSE
  OBVIOUS
<1>2. PICK m \in T : \A k \in T : m <= k
  <2> T \subseteq Nat  OBVIOUS
  <2> HIDE DEF T
  <2> QED  BY <1>1, LeastNumber
<1>3. CASE m = 0
  <2>1. IsPartialSum([i \in 0..0 |-> 0], f, m)
    BY <1>3 DEF IsPartialSum
  <2> QED  BY <2>1
<1>4. CASE m # 0
  <2>1. PICK s : IsPartialSum(s, f, m - 1)
    BY <1>2, <1>4
  <2> DEFINE t == [i \in 0..m |-> IF i = m THEN s[m - 1] + f[m] ELSE s[i]]
  <2>2. t \in [0..m -> Int]
    BY <1>4, <2>1 DEF IsPartialSum
  <2>3. t[0] = 0
    BY <1>4, <2>1 DEF IsPartialSum
  <2>4. ASSUME NEW i \in 1..m PROVE t[i] = t[i - 1] + f[i]
    BY <1>4, <2>1 DEF IsPartialSum
  <2>5. IsPartialSum(t, f, m)
    BY <2>2, <2>3, <2>4 DEF IsPartialSum
  <2> QED  BY <2>5
<1> QED  BY <1>3, <1>4

\* Sum is the last of the partial sums, whichever function holds them.
LEMMA SumIsPartialSum ==
  ASSUME NEW n \in Nat, NEW f \in [1..n -> Int], NEW s, IsPartialSum(s, f, n)
  PROVE  Sum(f, n) = s[n]
<1> DEFINE Step(t) == [i \in 0..n |-> IF i = 0 THEN 0 ELSE t[i - 1] + f[i]]
           upto == CHOOSE t : t = Step(t)
           T == {i \in 0..n : upto[i] # s[i]}
<1>1. Sum(f, n) = upto[n]
  BY DEF Sum
<1>2. s = Step(s)
  BY DEF IsPartialSum
<1>3. upto = Step(upto)
  <2> HIDE DEF Step
  <2> QED  BY <1>2
<1>4. T = {}
  <2>1. SUFFICES ASSUME T # {} PROVE FALSE
    OBVIOUS
  <2>2. PICK m \in T : \A k \in T : m <= k
    <3> T \subseteq Nat  OBVIOUS
    <3> HIDE DEF T
    <3> QED  BY <2>1, LeastNumber
  <2> HIDE DEF upto
  <2>3. m # 0
    BY <1>3 DEF IsPartialSum
  <2>4. m - 1 \notin T /\ m - 1 \in 0..n
    BY <2>2, <2>3
  <2>5. upto[m - 1] = s[m - 1]
    BY <2>4
  <2>6. upto[m] = upto[m - 1] + f[m]
    BY <1>3, <2>3
  <2> QED  BY <2>3, <2>5, <2>6 DEF IsPartialSum
<1> HIDE DEF upto
<1> QED  BY <1>1, <1>4

\* A sum of integers is an integer.
LEMMA SumInt ==
  ASSUME NEW n \in Nat, NEW f \in [1..n -> Int]
  PROVE  Sum(f, n) \in Int
<1>1. PICK s : IsPartialSum(s, f, n)
  BY PartialSumExists
<1>2. Sum(f, n) = s[n]
  BY <1>1, SumIsPartialSum
<1> QED  BY <1>1, <1>2 DEF IsPartialSum

\* The empty ledger sums to zero.
LEMMA SumZero ==
  ASSUME NEW n \in Nat
  PROVE  Sum([i \in 1..n |-> 0], n) = 0
<1> DEFINE f == [i \in 1..n |-> 0]
           s == [i \in 0..n |-> 0]
<1>1. IsPartialSum(s, f, n)
  BY DEF IsPartialSum
<1>2. f \in [1..n -> Int]
  OBVIOUS
<1>3. s[n] = 0
  OBVIOUS
<1> HIDE DEF f, s
<1>4. Sum(f, n) = s[n]
  BY <1>1, <1>2, SumIsPartialSum
<1> QED  BY <1>3, <1>4 DEF f

\* Changing one summand changes the sum by as much.
LEMMA SumUpdate ==
  ASSUME NEW n \in Nat, NEW f \in [1..n -> Int], NEW u \in 1..n, NEW e \in Int
  PROVE  Sum([f EXCEPT ![u] = e], n) = Sum(f, n) - f[u] + e
<1> DEFINE g == [f EXCEPT ![u] = e]
<1>1. PICK s : IsPartialSum(s, f, n)
  BY PartialSumExists
<1> DEFINE t == [i \in 0..n |-> IF i < u THEN s[i] ELSE s[i] - f[u] + e]
<1>2. t \in [0..n -> Int] /\ t[0] = 0
  BY <1>1 DEF IsPartialSum
<1>3. ASSUME NEW i \in 1..n PROVE t[i] = t[i - 1] + g[i]
  <2>1. s[i] = s[i - 1] + f[i] /\ s[i - 1] \in Int /\ s[i] \in Int
    BY <1>1 DEF IsPartialSum
  <2>2. CASE i < u
    BY <2>1, <2>2
  <2>3. CASE i = u
    BY <2>1, <2>3
  <2>4. CASE i > u
    BY <2>1, <2>4
  <2> QED  BY <2>2, <2>3, <2>4
<1>4. g \in [1..n -> Int]
  OBVIOUS
<1>5. t[n] = s[n] - f[u] + e
  OBVIOUS
<1> HIDE DEF g, t
<1>6. IsPartialSum(t, g, n)
  BY <1>2, <1>3 DEF IsPartialSum
<1>7. Sum(g, n) = t[n]
  BY <1>4, <1>6, SumIsPartialSum
<1>8. Sum(f, n) = s[n]
  BY <1>1, SumIsPartialSum
<1> QED  BY <1>5, <1>7, <1>8 DEF g

\* A sum is linear: adding c times g to every summand adds c times g's sum.
LEMMA SumLinear ==
  ASSUME NEW n \in Nat, NEW f \in [1..n -> Int], NEW g \in [1..n -> Int],
         NEW c \in Int
  PROVE  Sum([i \in 1..n |-> f[i] + c * g[i]], n) = Sum(f, n) + c * Sum(g, n)
<1> DEFINE h == [i \in 1..n |-> f[i] + c * g[i]]
<1>1. PICK s : IsPartialSum(s, f, n)
  BY PartialSumExists
<1>2. PICK t : IsPartialSum(t, g, n)
  BY PartialSumExists
<1> DEFINE r == [i \in 0..n |-> s[i] + c * t[i]]
<1>3. \A x \in Int : c * x \in Int
  OBVIOUS
<1>4. r \in [0..n -> Int] /\ r[0] = 0
  BY <1>1, <1>2, <1>3 DEF IsPartialSum
<1>5. ASSUME NEW i \in 1..n PROVE r[i] = r[i - 1] + h[i]
  <2>1. s[i] = s[i - 1] + f[i] /\ s[i - 1] \in Int /\ f[i] \in Int
    BY <1>1 DEF IsPartialSum
  <2>2. t[i] = t[i - 1] + g[i] /\ t[i - 1] \in Int /\ g[i] \in Int
    BY <1>2 DEF IsPartialSum
  <2>3. c * t[i] = c * t[i - 1] + c * g[i]
    BY <2>2
  <2>4. r[i] = s[i] + c * t[i] /\ r[i - 1] = s[i - 1] + c * t[i - 1]
        /\ h[i] = f[i] + c * g[i]
    OBVIOUS
  <2>5. c * t[i - 1] \in Int /\ c * g[i] \in Int
    BY <1>3, <2>2
  <2> HIDE DEF r, h
  <2> QED  BY <2>1, <2>3, <2>4, <2>5
<1>6. h \in [1..n -> Int]
  BY <1>3
<1>7. r[n] = s[n] + c * t[n]
  OBVIOUS
<1> HIDE DEF h, r
<1>8. IsPartialSum(r, h, n)
  BY <1>4, <1>5 DEF IsPartialSum
<1>9. Sum(h, n) = r[n] /\ Sum(f, n) = s[n] /\ Sum(g, n) = t[n]
  BY <1>1, <1>2, <1>6, <1>8, SumIsPartialSum
<1> QED  BY <1>7, <1>9 DEF h

\* A sum of smaller summands is smaller.
LEMMA SumMonotone ==
  ASSUME NEW n \in Nat, NEW f \in [1..n -> Int], NEW g \in [1..n -> Int],
         \A i \in 1..n : f[i] <= g[i]
  PROVE  Sum(f, n) <= Sum(g, n)
<1>1. PICK s : IsPartialSum(s, f, n)
  BY PartialSumExists
<1>2. PICK t : IsPartialSum(t, g, n)
  BY PartialSumExists
<1> DEFINE T == {i \in 0..n : ~(s[i] <= t[i])}
<1>3. T = {}
  <2>1. SUFFICES ASSUME T # {} PROVE FALSE
    OBVIOUS
  <2>2. PICK m \in T : \A k \in T : m <= k
    <3> T \subseteq Nat  OBVIOUS
    <3> HIDE DEF T
    <3> QED  BY <2>1, LeastNumber
  <2>3. m # 0
    BY <1>1, <1>2 DEF IsPartialSum
  <2>4. m - 1 \in 0..n /\ m \in 1..n /\ s[m - 1] <= t[m - 1]
    BY <2>2, <2>3
  <2>5. s[m] = s[m - 1] + f[m] /\ s[m - 1] \in Int /\ f[m] \in Int
    BY <1>1, <2>4 DEF IsPartialSum
  <2>6. t[m] = t[m - 1] + g[m] /\ t[m - 1] \in Int /\ g[m] \in Int
    BY <1>2, <2>4 DEF IsPartialSum
  <2>7. f[m] <= g[m]
    BY <2>4
  <2>8. s[m] <= t[m]
    BY <2>4, <2>5, <2>6, <2>7
  <2> QED  BY <2>8
<1>4. s[n] <= t[n]
  <2> n \in 0..n  OBVIOUS
  <2> QED  BY <1>3
<1> QED  BY <1>1, <1>2, <1>4, SumIsPartialSum

\* A sum of naturals is a natural and no less than any of its summands.
LEMMA SumNat ==
  ASSUME NEW n \in Nat, NEW f \in [1..n -> Nat]
  PROVE  /\ Sum(f, n) \in Nat
         /\ \A u \in 1..n : f[u] <= Sum(f, n)
<1> DEFINE zero == [i \in 1..n |-> 0]
<1>1. f \in [1..n -> Int] /\ zero \in [1..n -> Int]
  OBVIOUS
<1>2. Sum(f, n) \in Int
  BY <1>1, SumInt
<1>3. Sum(zero, n) = 0
  BY SumZero
<1>4. \A i \in 1..n : zero[i] <= f[i]
  OBVIOUS
<1>5. 0 <= Sum(f, n)
  <2> HIDE DEF zero
  <2> QED  BY <1>1, <1>3, <1>4, SumMonotone
<1>6. ASSUME NEW u \in 1..n PROVE f[u] <= Sum(f, n)
  <2> DEFINE one == [zero EXCEPT ![u] = f[u]]
  <2>1. one \in [1..n -> Int]
    OBVIOUS
  <2>5. ASSUME NEW i \in 1..n PROVE one[i] <= f[i]
    <3>1. f[i] \in Nat /\ f[u] \in Nat
      OBVIOUS
    <3>2. one[i] = IF i = u THEN f[u] ELSE zero[i]
      OBVIOUS
    <3>3. zero[i] = 0
      OBVIOUS
    <3> HIDE DEF one, zero
    <3> QED  BY <3>1, <3>2, <3>3
  <2>2. zero[u] = 0 /\ f[u] \in Int
    OBVIOUS
  <2> HIDE DEF zero
  <2>3. Sum(one, n) = Sum(zero, n) - zero[u] + f[u]
    BY <1>1, <2>2, SumUpdate
  <2> HIDE DEF one
  <2>4. Sum(one, n) <= Sum(f, n)
    BY <1>1, <2>1, <2>5, SumMonotone
  <2> QED  BY <1>3, <2>2, <2>3, <2>4
<1> QED  BY <1>2, <1>5, <1>6

\* SumUpdate for two functions that agree everywhere but at u.
LEMMA SumPointwise ==
  ASSUME NEW n \in Nat, NEW f \in [1..n -> Int], NEW g \in [1..n -> Int],
         NEW u \in 1..n, \A i \in 1..n : i # u => g[i] = f[i]
  PROVE  Sum(g, n) = Sum(f, n) - f[u] + g[u]
<1>1. g = [f EXCEPT ![u] = g[u]]
  OBVIOUS
<1>2. g[u] \in Int
  OBVIOUS
<1> QED  BY <1>1, <1>2, SumUpdate

\* SumLinear for a function that is given by its values.
LEMMA SumCombination ==
  ASSUME NEW n \in Nat, NEW f \in [1..n -> Int], NEW g \in [1..n -> Int],
         NEW c \in Int, NEW h \in [1..n -> Int],
         \A i \in 1..n : h[i] = f[i] + c * g[i]
  PROVE  Sum(h, n) = Sum(f, n) + c * Sum(g, n)
<1>1. h = [i \in 1..n |-> f[i] + c * g[i]]
  OBVIOUS
<1> QED  BY <1>1, SumLinear

================================================================================
