---------------------------- MODULE AmmMath_proofs ----------------------------
(***************************************************************************)
(* What the swap formula promises, at any reserves, fee and amount.  It    *)
(* rests on one inequality, SpreadKept: with reserves a and b, input x and *)
(* output y, a*y <= x*(b - y).  It is the product check in another form,   *)
(* and the round trip follows from it.                                     *)
(***************************************************************************)
EXTENDS AmmMath, TLAPS

\* What SMT knows of a truncated quotient, as products.
LEMMA Quotient ==
  ASSUME NEW x \in Nat, NEW p \in Nat \ {0}
  PROVE  /\ x \div p \in Nat
         /\ p * (x \div p) <= x
         /\ x < p * (x \div p) + p
  OBVIOUS

\* Products keep the order of one factor.
LEMMA Scaled ==
  ASSUME NEW p \in Nat, NEW a \in Int, NEW b \in Int, a <= b
  PROVE  p * a <= p * b
<1>1. p * (b - a) >= 0
  OBVIOUS
<1> QED  BY <1>1

\* A positive factor can be cancelled.
LEMMA Cancelled ==
  ASSUME NEW p \in Nat \ {0}, NEW a \in Int, NEW b \in Int, p * a <= p * b
  PROVE  a <= b
<1>1. SUFFICES ASSUME b + 1 <= a PROVE FALSE
  OBVIOUS
<1>2. p * (b + 1) <= p * a
  BY <1>1, Scaled
<1>3. p * (b + 1) = p * b + p
  OBVIOUS
<1> QED  BY <1>2, <1>3

\* The fee only reduces the input.
LEMMA EffectiveInput ==
  ASSUME NEW x \in Nat, NEW fee \in Nat, fee <= BPS
  PROVE  /\ calculate_effective_input(x, fee) \in Nat
         /\ calculate_effective_input(x, fee) <= x
<1> DEFINE e == calculate_effective_input(x, fee)
<1>1. BPS \in Nat \ {0} /\ BPS - fee \in Nat /\ BPS - fee <= BPS
  BY BasisAssumption
<1>2. x * (BPS - fee) \in Nat
  BY <1>1
<1>3. e \in Nat /\ BPS * e <= x * (BPS - fee)
  BY <1>1, <1>2, Quotient DEF calculate_effective_input
<1>4. x * (BPS - fee) <= x * BPS
  BY <1>1, Scaled
<1>5. BPS * e <= BPS * x
  BY <1>1, <1>3, <1>4
<1>6. e <= x
  BY <1>1, <1>3, <1>5, Cancelled
<1> QED  BY <1>3, <1>6

\* The formula's output, never the whole side, and the inequality it keeps.
LEMMA SpreadKept ==
  ASSUME NEW a \in Nat \ {0}, NEW b \in Nat \ {0},
         NEW e \in Nat, NEW x \in Nat, e <= x
  PROVE  LET y == calculate_swap_output(a, b, e)
         IN  y \in Nat /\ y < b /\ a * y <= x * (b - y)
<1> DEFINE y == calculate_swap_output(a, b, e)
<1>1. a + e \in Nat \ {0} /\ b * e \in Nat
  OBVIOUS
<1>2. y \in Nat /\ (a + e) * y <= b * e
  BY <1>1, Quotient DEF calculate_swap_output
<1> HIDE DEF y
<1>3. (a + e) * y = a * y + e * y
  BY <1>2
<1>4. e * (b - y) = b * e - e * y
  BY <1>2
<1>5. a * y <= e * (b - y)
  BY <1>2, <1>3, <1>4
<1>6. y < b
  <2>1. SUFFICES ASSUME b <= y PROVE FALSE
    BY <1>2
  <2>2. e * (b - y) <= 0
    <3>1. e * (b - y) <= e * 0
      BY <1>2, <2>1, Scaled
    <3> QED  BY <3>1
  <2>3. a * 1 <= a * y
    BY <1>2, <2>1, Scaled
  <2> QED  BY <1>2, <1>5, <2>2, <2>3
<1>7. (b - y) * e <= (b - y) * x
  BY <1>2, <1>6, Scaled
<1>8. a * y <= x * (b - y)
  BY <1>2, <1>5, <1>7
<1> QED  BY <1>2, <1>6, <1>8 DEF y

\* The product of the reserves after a swap, from the inequality.
LEMMA ProductKept ==
  ASSUME NEW a \in Nat, NEW b \in Nat, NEW x \in Nat, NEW y \in Nat,
         a * y <= x * (b - y)
  PROVE  verify_k_invariant(a, b, a + x, b - y)
<1>1. (a + x) * (b - y) = a * (b - y) + x * (b - y)
  OBVIOUS
<1>2. a * (b - y) = a * b - a * y
  OBVIOUS
<1> QED  BY <1>1, <1>2 DEF verify_k_invariant

\* Sending the output back returns no more than was paid.
LEMMA NoGain ==
  ASSUME NEW a \in Nat \ {0}, NEW b \in Nat, NEW x \in Nat, NEW y \in Nat,
         y < b, a * y <= x * (b - y), NEW f \in Nat, f <= y
  PROVE  calculate_swap_output(b - y, a + x, f) <= x
<1> DEFINE z == calculate_swap_output(b - y, a + x, f)
           c == b - y
<1>1. c \in Nat \ {0} /\ c + f \in Nat \ {0} /\ (a + x) * f \in Nat
  OBVIOUS
<1>2. z \in Nat /\ (c + f) * z <= (a + x) * f
  BY <1>1, Quotient DEF calculate_swap_output
<1> HIDE DEF z
<1>3. a * f <= x * c
  <2>1. a * f <= a * y
    BY Scaled
  <2> QED  BY <2>1
<1> HIDE DEF c
<1>4. SUFFICES ASSUME x + 1 <= z PROVE FALSE
  BY <1>2 DEF z, c
<1>5. (c + f) * (x + 1) <= (c + f) * z
  BY <1>1, <1>2, <1>4, Scaled
<1>6. (c + f) * (x + 1) = x * c + c + x * f + f
  BY <1>1
<1>7. (a + x) * f = a * f + x * f
  OBVIOUS
<1> QED  BY <1>1, <1>2, <1>3, <1>5, <1>6, <1>7

\* The effective inputs of two parts are at most that of the whole.
LEMMA SplitInput ==
  ASSUME NEW x \in Nat, NEW z \in Nat, NEW fee \in Nat, fee <= BPS
  PROVE  calculate_effective_input(x, fee) + calculate_effective_input(z, fee)
           <= calculate_effective_input(x + z, fee)
<1> DEFINE g  == BPS - fee
           e  == calculate_effective_input(x, fee)
           f  == calculate_effective_input(z, fee)
           ef == calculate_effective_input(x + z, fee)
<1>1. BPS \in Nat \ {0} /\ g \in Nat
  BY BasisAssumption
<1>2. e = (x * g) \div BPS /\ f = (z * g) \div BPS /\ ef = ((x + z) * g) \div BPS
  BY DEF calculate_effective_input
<1> HIDE DEF g, e, f, ef
<1>3. /\ x * g \in Nat /\ z * g \in Nat /\ (x + z) * g \in Nat
      /\ (x + z) * g = x * g + z * g
  BY <1>1
<1>4. /\ e \in Nat /\ f \in Nat /\ ef \in Nat
      /\ BPS * e <= x * g /\ BPS * f <= z * g
      /\ (x + z) * g < BPS * ef + BPS
  BY <1>1, <1>2, <1>3, Quotient
<1>5. BPS * (e + f) = BPS * e + BPS * f /\ BPS * (ef + 1) = BPS * ef + BPS
  BY <1>1, <1>4
<1>6. ~(ef + 1 <= e + f)
  <2>1. SUFFICES ASSUME ef + 1 <= e + f PROVE FALSE
    OBVIOUS
  <2>2. BPS * (ef + 1) <= BPS * (e + f)
    BY <1>1, <1>4, <2>1, Scaled
  <2>3. /\ BPS * e \in Int /\ BPS * f \in Int /\ BPS * ef \in Int
        /\ BPS \in Int
    BY <1>1, <1>4
  <2> QED  BY <1>3, <1>4, <1>5, <2>2, <2>3
<1> QED  BY <1>4, <1>6 DEF e, f, ef

\* Two swaps in a row, of effective inputs e out of x and then f, against one of h.
LEMMA SplitLoses ==
  ASSUME NEW a \in Nat \ {0}, NEW b \in Nat \ {0}, NEW x \in Nat, NEW e \in Nat,
         NEW f \in Nat, NEW h \in Nat, e <= x, e + f <= h
  PROVE  LET y == calculate_swap_output(a, b, e)
         IN  y + calculate_swap_output(a + x, b - y, f)
               <= calculate_swap_output(a, b, h)
<1> DEFINE y == calculate_swap_output(a, b, e)
           w == calculate_swap_output(a + x, b - y, f)
           t == calculate_swap_output(a, b, h)
           c == b - y
           r == b - y - w
<1>1. y \in Nat /\ y < b /\ (a + e) * y <= b * e
  <2>1. a + e \in Nat \ {0} /\ b * e \in Nat
    OBVIOUS
  <2> QED  BY <2>1, SpreadKept, Quotient DEF calculate_swap_output
<1>2. t \in Nat /\ b * h < (a + h) * t + (a + h)
  <2>1. a + h \in Nat \ {0} /\ b * h \in Nat
    OBVIOUS
  <2> QED  BY <2>1, Quotient DEF calculate_swap_output
<1> HIDE DEF y, t
<1>3. c \in Nat \ {0} /\ a + x \in Nat \ {0}
  BY <1>1
<1>4. w \in Nat /\ w < c /\ (a + x + f) * w <= c * f
  <2>1. a + x + f \in Nat \ {0} /\ c * f \in Nat
    BY <1>3
  <2>2. w < c
    <3> HIDE DEF c
    <3>1. w = calculate_swap_output(a + x, c, f)
      BY DEF c
    <3> HIDE DEF w
    <3>2. f <= f
      OBVIOUS
    <3> QED  BY <1>3, <3>1, <3>2, SpreadKept
  <2>3. w = (c * f) \div (a + x + f)
    BY DEF calculate_swap_output
  <2> HIDE DEF c, w
  <2> QED  BY <2>1, <2>2, <2>3, Quotient
<1> HIDE DEF w
<1>5. r \in Nat /\ r <= c /\ r = c - w
  BY <1>1, <1>3, <1>4
<1> HIDE DEF c, r
\* What is left of the output side times what the input side would be without
\* the fee never falls below the product.
<1>6. a * b <= (a + e) * c
  <2>1. /\ (a + e) * c = (a + e) * b - (a + e) * y
        /\ (a + e) * b = a * b + b * e
    BY <1>1 DEF c
  <2>2. /\ (a + e) * y \in Int /\ (a + e) * b \in Int /\ a * b \in Int
        /\ b * e \in Int
    BY <1>1
  <2> QED  BY <1>1, <2>1, <2>2
<1>7. (a + x) * c <= (a + x + f) * r
  <2>1. /\ (a + x + f) * r = (a + x + f) * c - (a + x + f) * w
        /\ (a + x + f) * c = (a + x) * c + c * f
    <3> DEFINE q == a + x + f
    <3>1. q \in Nat /\ c \in Nat /\ w \in Nat
      BY <1>3, <1>4
    <3>2. q * c = (a + x) * c + f * c
      BY <1>3
    <3>3. f * c = c * f
      BY <1>3
    <3> HIDE DEF q
    <3>4. q * (c - w) = q * c - q * w
      BY <3>1
    <3> QED  BY <1>5, <3>2, <3>3, <3>4 DEF q
  <2>2. /\ (a + x + f) * w \in Int /\ (a + x + f) * c \in Int
        /\ (a + x) * c \in Int /\ c * f \in Int
    BY <1>3, <1>4
  <2> QED  BY <1>4, <2>1, <2>2
<1>8. (x - e) * r <= (x - e) * c
  BY <1>3, <1>5, Scaled
<1>9. (a + e) * c <= (a + e + f) * r
  <2>1. /\ (a + x) * c = (a + e) * c + (x - e) * c
        /\ (a + x + f) * r = (a + e + f) * r + (x - e) * r
    BY <1>3, <1>5
  <2>2. /\ (a + e) * c \in Int /\ (x - e) * c \in Int
        /\ (a + e + f) * r \in Int /\ (x - e) * r \in Int
    BY <1>3, <1>5
  <2> QED  BY <1>7, <1>8, <2>1, <2>2
<1>10. (a + e + f) * r <= (a + h) * r
  <2>1. r * (a + e + f) <= r * (a + h)
    BY <1>5, Scaled
  <2>2. /\ r * (a + e + f) = (a + e + f) * r
        /\ r * (a + h) = (a + h) * r
    BY <1>5
  <2> QED  BY <2>1, <2>2
<1>11. ~(r <= b - (t + 1))
  <2>1. SUFFICES ASSUME r <= b - (t + 1) PROVE FALSE
    OBVIOUS
  <2>2. (a + h) * r <= (a + h) * (b - (t + 1))
    BY <1>2, <1>5, <2>1, Scaled
  <2>3. (a + h) * (b - (t + 1)) = a * b + b * h - ((a + h) * t + (a + h))
    BY <1>2
  <2>4. /\ a * b \in Int /\ b * h \in Int /\ (a + h) * t \in Int
        /\ (a + h) * r \in Int /\ (a + e + f) * r \in Int /\ (a + e) * c \in Int
    BY <1>2, <1>3, <1>5
  <2> QED  BY <1>2, <1>6, <1>9, <1>10, <2>2, <2>3, <2>4
<1>12. y + w <= t
  BY <1>1, <1>2, <1>4, <1>5, <1>11 DEF c
<1> QED  BY <1>12 DEF y, w, t
================================================================================
