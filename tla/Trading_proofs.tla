---------------------------- MODULE Trading_proofs ----------------------------
(***************************************************************************)
(* Proofs about Trading for every rate, share and amount, and first about  *)
(* the pool alone, for every fee, amount and reserve.  Each lane takes a   *)
(* step of the pool, so what is shown of the pool holds whatever the lanes *)
(* do; the ledgers of the tax are an invariant of their own.  The swap     *)
(* formula's arithmetic is in AmmMath_proofs.                              *)
(***************************************************************************)
EXTENDS Trading, AmmMath_proofs

------------------------------------------------------------------------------
(* The pool, for every fee, amount and reserve: its own specification first.  *)

\* Nothing is recorded before the pool is created.
Unborn ==
  ~initialized => \A s \in Sides : reserve[s] = 0 /\ vault[s] = 0 /\ donated[s] = 0

\* No side of a created pool is ever empty.
Liquid == initialized => \A s \in Sides : reserve[s] > 0

PInv == TypeOK /\ VaultsMatchReserves /\ Unborn /\ Liquid

------------------------------------------------------------------------------
(* The invariant *)

\* The facts about a created pool that its properties use.
LEMMA PoolTypes ==
  ASSUME PInv, initialized, NEW s \in Sides
  PROVE  /\ other(s) \in Sides /\ other(s) # s
         /\ reserve[s] \in Nat \ {0} /\ reserve[other(s)] \in Nat \ {0}
         /\ lp_fee_bps \in Nat /\ lp_fee_bps <= BPS
  BY PoolAssumption, BasisAssumption DEF PInv, TypeOK, Liquid, Sides, other

\* A swap's output at the pool's reserves.
LEMMA SwapFacts ==
  ASSUME PInv, initialized, NEW s \in Sides, NEW x \in Nat
  PROVE  LET y == swap_output(s, x)
         IN  /\ y \in Nat /\ y < reserve[other(s)]
             /\ reserve[s] * y <= x * (reserve[other(s)] - y)
<1>1. calculate_effective_input(x, lp_fee_bps) \in Nat
      /\ calculate_effective_input(x, lp_fee_bps) <= x
  BY PoolTypes, EffectiveInput
<1> QED  BY <1>1, PoolTypes, SpreadKept DEF swap_output

\* The pool starts without a record.
LEMMA InitPInv == Init => PInv
<1> SUFFICES ASSUME Init PROVE PInv
  OBVIOUS
<1>1. admin \in Admins \cup {Burned, NoConfig} /\ initialized \in BOOLEAN
  BY DEF Init
<1>2. lp_fee_bps \in Nat /\ lp_fee_bps <= MAX_LP_FEE_BPS
  BY PoolAssumption DEF Init
<1>3. /\ reserve \in [Sides -> Nat] /\ vault \in [Sides -> Nat]
      /\ donated \in [Sides -> Nat]
  BY DEF Init
<1>4. TypeOK
  BY <1>1, <1>2, <1>3 DEF TypeOK
<1>5. VaultsMatchReserves /\ Unborn /\ Liquid
  BY DEF Init, VaultsMatchReserves, Unborn, Liquid
<1> QED  BY <1>4, <1>5 DEF PInv

\* Creation records the seed and puts it in the vaults.
LEMMA CreateInv ==
  ASSUME PInv, NEW fee \in Nat, NEW amount \in [Sides -> Nat],
         initialize_pool(fee, amount)
  PROVE  PInv'
<1>1. \A s \in Sides : donated[s] = 0
  BY DEF PInv, Unborn, initialize_pool
<1>2. TypeOK'
  BY DEF PInv, TypeOK, initialize_pool, valid_fee
<1>3. VaultsMatchReserves'
  BY <1>1 DEF VaultsMatchReserves, initialize_pool, PInv, TypeOK
<1>4. Unborn' /\ Liquid'
  BY DEF Unborn, Liquid, initialize_pool, Sides
<1> QED  BY <1>2, <1>3, <1>4 DEF PInv

\* A swap moves the same amounts in the record and in the vaults.
LEMMA SwapInv ==
  ASSUME PInv, NEW s \in Sides, NEW x \in Nat, NEW minimum \in Nat,
         swap_sol_pool(s, x, minimum)
  PROVE  PInv'
<1> DEFINE y == swap_output(s, x)
           t == other(s)
<1>1. initialized
  BY DEF swap_sol_pool
<1>2. y \in Nat /\ y < reserve[t]
  BY <1>1, SwapFacts
<1>3. t \in Sides /\ t # s /\ Sides = {s, t}
  BY DEF Sides, other
<1>4. /\ reserve' = [reserve EXCEPT ![s] = @ + x, ![t] = @ - y]
      /\ vault' = [vault EXCEPT ![s] = @ + x, ![t] = @ - y]
      /\ UNCHANGED <<admin, initialized, lp_fee_bps, donated>>
  BY DEF swap_sol_pool, after_swap
<1> HIDE DEF y, t
<1>5. /\ reserve \in [Sides -> Nat] /\ vault \in [Sides -> Nat]
      /\ donated \in [Sides -> Nat]
      /\ \A r \in Sides : reserve[r] > 0 /\ vault[r] = reserve[r] + donated[r]
  BY <1>1 DEF PInv, TypeOK, Liquid, VaultsMatchReserves
<1>6. /\ reserve'[s] = reserve[s] + x /\ reserve'[t] = reserve[t] - y
      /\ vault'[s] = vault[s] + x /\ vault'[t] = vault[t] - y
  BY <1>3, <1>4, <1>5
<1>7. reserve' \in [Sides -> Int] /\ vault' \in [Sides -> Int]
  BY <1>2, <1>3, <1>4, <1>5
<1>8. \A r \in Sides : /\ reserve'[r] \in Nat /\ reserve'[r] > 0
                       /\ vault'[r] \in Nat
                       /\ vault'[r] = reserve'[r] + donated'[r]
  BY <1>2, <1>3, <1>4, <1>5, <1>6
<1>9. reserve' \in [Sides -> Nat] /\ vault' \in [Sides -> Nat]
  BY <1>7, <1>8
<1>10. TypeOK'
  BY <1>4, <1>9 DEF PInv, TypeOK
<1>11. VaultsMatchReserves' /\ Liquid' /\ Unborn'
  BY <1>1, <1>4, <1>8 DEF VaultsMatchReserves, Liquid, Unborn
<1> QED  BY <1>10, <1>11 DEF PInv

\* An addition deposits what it records.
LEMMA AddInv ==
  ASSUME PInv, NEW amount \in Nat, NEW max_quote \in Nat,
         add_liquidity_double_sided(amount, max_quote)
  PROVE  PInv'
<1> DEFINE quote == compute_quote_side(amount, reserve[other(FactionSide)],
                                       reserve[FactionSide])
           deposit == [s \in Sides |-> IF s = FactionSide THEN amount ELSE quote]
<1>1. initialized
  BY DEF add_liquidity_double_sided
<1>2. FactionSide \in Sides
  BY PoolAssumption DEF Sides
<1>3. quote \in Nat
  <2>1. amount * reserve[other(FactionSide)] \in Nat
    BY <1>1, <1>2, PoolTypes
  <2> QED  BY <1>1, <1>2, <2>1, PoolTypes, Quotient DEF compute_quote_side
<1>4. /\ reserve' = [s \in Sides |-> reserve[s] + deposit[s]]
      /\ vault' = [s \in Sides |-> vault[s] + deposit[s]]
      /\ UNCHANGED <<admin, initialized, lp_fee_bps, donated>>
  BY DEF add_liquidity_double_sided
<1> HIDE DEF quote
<1>5. \A s \in Sides : deposit[s] \in Nat
  BY <1>3
<1> HIDE DEF deposit
<1>6. TypeOK'
  BY <1>4, <1>5 DEF PInv, TypeOK
<1>7. VaultsMatchReserves'
  BY <1>4, <1>5 DEF PInv, TypeOK, VaultsMatchReserves
<1>8. Liquid' /\ Unborn'
  BY <1>1, <1>4, <1>5 DEF PInv, TypeOK, Liquid, Unborn
<1> QED  BY <1>6, <1>7, <1>8 DEF PInv

\* A removal takes the same from the record and the vaults and leaves the floor.
LEMMA RemoveInv ==
  ASSUME PInv, NEW share \in Nat, remove_liquidity_double_sided(share)
  PROVE  PInv'
<1>1. initialized
  BY DEF remove_liquidity_double_sided
<1>2. \A s \in Sides : remove_amount(s, share) \in Nat
  <2>1. SUFFICES ASSUME NEW s \in Sides PROVE remove_amount(s, share) \in Nat
    OBVIOUS
  <2>2. reserve[s] * share \in Nat
    BY <1>1, PoolTypes
  <2> QED  BY <2>2, PoolAssumption, BasisAssumption, Quotient DEF remove_amount
<1>3. /\ \A s \in Sides : reserve[s] - remove_amount(s, share) >= DUST_FLOOR
      /\ reserve' = [s \in Sides |-> reserve[s] - remove_amount(s, share)]
      /\ vault' = [s \in Sides |-> vault[s] - remove_amount(s, share)]
      /\ UNCHANGED <<admin, initialized, lp_fee_bps, donated>>
  BY DEF remove_liquidity_double_sided
<1>4. \A s \in Sides : /\ reserve[s] - remove_amount(s, share) \in Nat \ {0}
                       /\ vault[s] - remove_amount(s, share) \in Nat
  BY <1>2, <1>3, PoolAssumption DEF PInv, TypeOK, VaultsMatchReserves
<1>5. TypeOK'
  BY <1>3, <1>4 DEF PInv, TypeOK
<1>6. VaultsMatchReserves'
  BY <1>2, <1>3 DEF PInv, TypeOK, VaultsMatchReserves
<1>7. Liquid' /\ Unborn'
  BY <1>1, <1>3, <1>4 DEF Liquid, Unborn
<1> QED  BY <1>5, <1>6, <1>7 DEF PInv

\* A gift is recorded nowhere but in the vault.
LEMMA DonateInv ==
  ASSUME PInv, NEW s \in Sides, Donate(s)
  PROVE  PInv'
<1>1. TypeOK'
  BY DEF PInv, TypeOK, Donate
<1>2. VaultsMatchReserves'
  BY DEF PInv, TypeOK, VaultsMatchReserves, Donate
<1>3. Liquid' /\ Unborn'
  BY DEF PInv, Liquid, Unborn, Donate
<1> QED  BY <1>1, <1>2, <1>3 DEF PInv

\* A step that leaves the pool alone.
LEMMA AdminInv ==
  ASSUME PInv, admin' \in Admins \cup {Burned, NoConfig},
         UNCHANGED <<initialized, lp_fee_bps, reserve, vault, donated>>
  PROVE  PInv'
  BY DEF PInv, TypeOK, VaultsMatchReserves, Unborn, Liquid

\* Every step keeps the invariant.
LEMMA NextPInv == PInv /\ [Next]_poolVars => PInv'
<1> SUFFICES ASSUME PInv, [Next]_poolVars PROVE PInv'
  OBVIOUS
<1> USE PoolAssumption, BasisAssumption DEF Amounts
<1>1. CASE UNCHANGED poolVars
  BY <1>1, AdminInv DEF poolVars, PInv, TypeOK
<1>2. ASSUME NEW a \in Admins, initialize_admin(a) \/ transfer_admin(a) PROVE PInv'
  BY <1>2, AdminInv DEF initialize_admin, transfer_admin
<1>3. CASE burn_admin
  BY <1>3, AdminInv DEF burn_admin
<1>4. ASSUME NEW fee \in Fees, NEW amount \in [Sides -> SeedAmounts],
             initialize_pool(fee, amount)
      PROVE  PInv'
  BY <1>4, CreateInv
<1>5. ASSUME NEW amount \in Amounts, NEW max_quote \in Amounts,
             add_liquidity_double_sided(amount, max_quote)
      PROVE  PInv'
  BY <1>5, AddInv
<1>6. ASSUME NEW share_bps \in Shares, remove_liquidity_double_sided(share_bps)
      PROVE  PInv'
  BY <1>6, RemoveInv
<1>7. ASSUME NEW s \in Sides, Donate(s) PROVE PInv'
  BY <1>7, DonateInv
<1>8. ASSUME NEW s \in Sides, NEW amount_in \in Amounts,
             NEW minimum \in Amounts \cup {0},
             swap_sol_pool(s, amount_in, minimum)
      PROVE  PInv'
  BY <1>8, SwapInv
<1> QED
  BY <1>1, <1>2, <1>3, <1>4, <1>5, <1>6, <1>7, <1>8 DEF Next, PoolUpkeep

------------------------------------------------------------------------------
(* The theorems *)

\* The strengthened invariant holds in every reachable state.
THEOREM Invariance == Spec => []PInv
  BY InitPInv, NextPInv, PTL DEF Spec

\* Every field of the pool keeps its type and the fee its ceiling.
THEOREM TypeCorrect == Spec => []TypeOK
<1>1. PInv => TypeOK
  BY DEF PInv
<1> QED  BY <1>1, Invariance, PTL

\* The vaults hold the recorded reserves and strangers' gifts, nothing else.
THEOREM VaultsMatch == Spec => []VaultsMatchReserves
<1>1. PInv => VaultsMatchReserves
  BY DEF PInv
<1> QED  BY <1>1, Invariance, PTL

\* The product check is a second line of defence: rounding never trips it, and
\* no swap empties a side, at any reserves, fee and amount.
THEOREM KCheckSilent == Spec => []KCheckNeverFires
<1>1. PInv => KCheckNeverFires
  <2>1. SUFFICES ASSUME PInv, initialized, NEW s \in Sides, NEW x \in Amounts
                 PROVE  LET y == swap_output(s, x)
                        IN  /\ y < reserve[other(s)]
                            /\ verify_k_invariant(reserve[s], reserve[other(s)],
                                 reserve[s] + x, reserve[other(s)] - y)
    BY DEF KCheckNeverFires
  <2>2. x \in Nat
    BY DEF Amounts
  <2> QED  BY <2>1, <2>2, SwapFacts, PoolTypes, ProductKept
<1> QED  BY <1>1, Invariance, PTL

\* No reserves, fee and amount make a swap and its reverse profitable.
THEOREM RoundTripsLose == Spec => []RoundTripLoses
<1>1. PInv => RoundTripLoses
  <2>1. SUFFICES ASSUME PInv, initialized, NEW s \in Sides, NEW x \in Amounts
                 PROVE  LET y == swap_output(s, x)
                        IN  calculate_swap_output(reserve[other(s)] - y,
                              reserve[s] + x,
                              calculate_effective_input(y, lp_fee_bps)) <= x
    BY DEF RoundTripLoses
  <2> DEFINE y == swap_output(s, x)
             f == calculate_effective_input(y, lp_fee_bps)
  <2>2. x \in Nat
    BY DEF Amounts
  <2>3. /\ y \in Nat /\ y < reserve[other(s)]
        /\ reserve[s] * y <= x * (reserve[other(s)] - y)
    BY <2>1, <2>2, SwapFacts
  <2> HIDE DEF y
  <2>4. f \in Nat /\ f <= y
    BY <2>1, <2>3, PoolTypes, EffectiveInput
  <2> HIDE DEF f
  <2>5. calculate_swap_output(reserve[other(s)] - y, reserve[s] + x, f) <= x
    BY <2>1, <2>2, <2>3, <2>4, PoolTypes, NoGain
  <2> QED  BY <2>5 DEF y, f
<1> QED  BY <1>1, Invariance, PTL

\* No reserves, fee and amounts make a trade cut in two pay more than in one piece.
THEOREM SplitsLose == Spec => []SplittingLoses
<1>1. PInv => SplittingLoses
  <2>1. SUFFICES ASSUME PInv, initialized, NEW s \in Sides, NEW x \in Amounts,
                        NEW z \in Amounts
                 PROVE  LET y == swap_output(s, x)
                        IN  y + calculate_swap_output(reserve[s] + x,
                              reserve[other(s)] - y,
                              calculate_effective_input(z, lp_fee_bps))
                            <= swap_output(s, x + z)
    BY DEF SplittingLoses
  <2> DEFINE e == calculate_effective_input(x, lp_fee_bps)
             f == calculate_effective_input(z, lp_fee_bps)
             h == calculate_effective_input(x + z, lp_fee_bps)
  <2>2. x \in Nat /\ z \in Nat /\ x + z \in Nat
    BY DEF Amounts
  <2>3. /\ e \in Nat /\ e <= x /\ f \in Nat /\ h \in Nat /\ e + f <= h
    BY <2>1, <2>2, PoolTypes, EffectiveInput, SplitInput
  <2> HIDE DEF e, f, h
  <2>4. reserve[s] \in Nat \ {0} /\ reserve[other(s)] \in Nat \ {0}
    BY <2>1, PoolTypes
  <2>5. LET y == calculate_swap_output(reserve[s], reserve[other(s)], e)
        IN  y + calculate_swap_output(reserve[s] + x, reserve[other(s)] - y, f)
              <= calculate_swap_output(reserve[s], reserve[other(s)], h)
    BY <2>2, <2>3, <2>4, SplitLoses
  <2> QED  BY <2>5 DEF e, f, h, swap_output
<1> QED  BY <1>1, Invariance, PTL

------------------------------------------------------------------------------
(* The lanes *)

\* An account that does not exist holds nothing.
Closed == ~intermediary => wsol = 0

Ledgers == NoTaxResidue /\ SharesHold /\ SweepAccounted /\ Closed

TInv == PInv /\ TradeTypeOK /\ Ledgers

------------------------------------------------------------------------------
(* Arithmetic *)

\* A tax is never more than what it is taken from.
LEMMA TaxFacts ==
  ASSUME NEW x \in Nat, NEW t \in Rates
  PROVE  /\ calculate_tax(x, t) \in Nat
         /\ calculate_tax(x, t) <= x
         /\ BPS * calculate_tax(x, t) <= x * t
<1> DEFINE y == calculate_tax(x, t)
<1>1. BPS \in Nat \ {0} /\ t \in Nat /\ t <= BPS
  BY PoolAssumption, BasisAssumption, TradingAssumption
<1>2. x * t \in Nat
  BY <1>1
<1>3. y \in Nat /\ BPS * y <= x * t
  BY <1>1, <1>2, Quotient DEF calculate_tax
<1>4. x * t <= x * BPS
  BY <1>1, Scaled
<1>5. BPS * y <= BPS * x
  BY <1>1, <1>3, <1>4
<1>6. y <= x
  BY <1>1, <1>3, <1>5, Cancelled
<1> QED  BY <1>3, <1>6

\* Shares of a tax: naturals, within it, and Carnage's within its proportion.
LEMMA SplitFacts ==
  ASSUME NEW x \in Nat
  PROVE  LET share == split_distribution(x)
         IN  /\ share.staking \in Nat /\ share.carnage \in Nat
             /\ share.staking + share.carnage <= x
             /\ share.carnage * BPS <= CARNAGE_BPS * x
<1> DEFINE s == (x * STAKING_BPS) \div BPS
           c == (x * CARNAGE_BPS) \div BPS
<1>1. /\ BPS \in Nat \ {0} /\ STAKING_BPS \in Nat /\ CARNAGE_BPS \in Nat
      /\ STAKING_BPS + CARNAGE_BPS <= BPS
  BY PoolAssumption, BasisAssumption, TradingAssumption
<1>2. x * STAKING_BPS \in Nat /\ x * CARNAGE_BPS \in Nat
  BY <1>1
<1>3. s \in Nat /\ BPS * s <= x * STAKING_BPS
  BY <1>1, <1>2, Quotient
<1>4. c \in Nat /\ BPS * c <= x * CARNAGE_BPS
  BY <1>1, <1>2, Quotient
<1> HIDE DEF s, c
<1>5. s + c <= x
  <2>1. x * (STAKING_BPS + CARNAGE_BPS) <= x * BPS
    BY <1>1, Scaled
  <2>2. x * (STAKING_BPS + CARNAGE_BPS) = x * STAKING_BPS + x * CARNAGE_BPS
    BY <1>1
  <2>3. BPS * (s + c) = BPS * s + BPS * c
    BY <1>1, <1>3, <1>4
  <2>4. BPS * (s + c) <= BPS * x
    BY <1>1, <1>3, <1>4, <2>1, <2>2, <2>3
  <2> QED  BY <1>1, <1>3, <1>4, <2>4, Cancelled
<1>6. c * BPS <= CARNAGE_BPS * x
  BY <1>1, <1>4
<1>7. CASE x < MICRO_TAX
  <2>1. split_distribution(x) = [staking |-> x, carnage |-> 0]
    BY <1>7 DEF split_distribution
  <2>2. 0 * BPS <= CARNAGE_BPS * x
    BY <1>1
  <2> QED  BY <2>1, <2>2
<1>8. CASE ~(x < MICRO_TAX)
  <2>1. split_distribution(x) = [staking |-> s, carnage |-> c]
    BY <1>8 DEF split_distribution, s, c
  <2> QED  BY <2>1, <1>3, <1>4, <1>5, <1>6
<1> QED  BY <1>7, <1>8

\* A gross output at the floor nets the minimum.
LEMMA FloorNets ==
  ASSUME NEW t \in Rates, t < BPS, NEW m \in Nat \ {0}, NEW g \in Nat,
         g >= gross_floor(m, t)
  PROVE  g - calculate_tax(g, t) >= m
<1> DEFINE c == BPS - t
           n == m * BPS + c - 1
           f == n \div c
           y == calculate_tax(g, t)
<1>1. BPS \in Nat \ {0} /\ t \in Nat /\ c \in Nat \ {0}
  BY PoolAssumption, BasisAssumption, TradingAssumption
<1>2. m * BPS \in Nat /\ n \in Nat
  BY <1>1
<1>3. f \in Int /\ n < c * f + c
  BY <1>1, <1>2
<1>4. gross_floor(m, t) = f
  BY <1>1 DEF gross_floor
<1> HIDE DEF f
<1>5. c * f <= c * g
  BY <1>1, <1>3, <1>4, Scaled
<1>6. m * BPS <= c * g
  BY <1>1, <1>2, <1>3, <1>5
<1>7. y \in Nat /\ BPS * y <= g * t
  BY TaxFacts
<1> HIDE DEF y
<1>8. c * g = g * BPS - g * t
  BY <1>1
<1>9. BPS * (g - y) = g * BPS - BPS * y
  BY <1>1, <1>7
<1>10. BPS * m <= BPS * (g - y)
  BY <1>1, <1>2, <1>6, <1>7, <1>8, <1>9
<1>11. m <= g - y
  BY <1>1, <1>7, <1>10, Cancelled
<1> QED  BY <1>7, <1>11 DEF y

------------------------------------------------------------------------------
(* The lanes and the pool *)

\* A swap from any lane is one of the pool's own steps.
LEMMA LaneSwap ==
  ASSUME PInv, NEW s \in Sides, NEW x \in Int, NEW minimum \in Nat,
         swap_sol_pool(s, x, minimum)
  PROVE  Next
<1>1. initialized /\ x > 0 /\ reserve[s] + x <= MaxReserve
  BY DEF swap_sol_pool
<1>2. reserve[s] \in Nat /\ MaxReserve \in Nat
  BY PoolAssumption, BasisAssumption DEF PInv, TypeOK
<1>3. x \in Amounts
  BY <1>1, <1>2 DEF Amounts
<1>4. calculate_effective_input(x, lp_fee_bps) \in Nat /\ swap_output(s, x) \in Nat
  BY <1>1, <1>3, SwapFacts, PoolTypes, EffectiveInput DEF Amounts
<1>5. swap_sol_pool(s, x, 0)
  BY <1>4 DEF swap_sol_pool
<1> QED  BY <1>3, <1>5 DEF Next

\* The floor of a sell is a natural number.
LEMMA FloorType ==
  ASSUME NEW t \in Rates, NEW m \in Nat
  PROVE  gross_floor(m, t) \in Nat
<1>1. BPS \in Nat \ {0} /\ t \in Nat
  BY PoolAssumption, BasisAssumption, TradingAssumption
<1>2. CASE m > 0 /\ t < BPS
  <2>1. m * BPS \in Nat
    BY <1>1
  <2>2. m * BPS + (BPS - t) - 1 \in Nat /\ BPS - t \in Nat \ {0}
    BY <1>1, <1>2, <2>1
  <2> QED  BY <1>2, <2>2, Quotient DEF gross_floor
<1>3. CASE ~(m > 0 /\ t < BPS)
  BY <1>3 DEF gross_floor
<1> QED  BY <1>2, <1>3

\* No lane touches the pool otherwise.
LEMMA LaneStep == TInv /\ [TradeNext]_tradeVars => [Next]_poolVars
<1> SUFFICES ASSUME TInv, [TradeNext]_tradeVars PROVE [Next]_poolVars
  OBVIOUS
<1> USE DEF TInv, Sides
<1>1. CASE UNCHANGED tradeVars
  BY <1>1 DEF tradeVars
<1>2. CASE Upkeep
  BY <1>2 DEF Upkeep, Next
<1>3. CASE initialize_wsol_intermediary
  BY <1>3 DEF initialize_wsol_intermediary
<1>4. ASSUME NEW x \in TradeAmounts, NEW m \in Minimums,
             \/ swap_sol_buy(x, m) \/ swap_sol_buy_wsol(x, m)
             \/ swap_spl_buy(x, m)
      PROVE  Next
  <2>1. x \in Nat /\ m \in Nat /\ Quote \in Sides
    BY PoolAssumption, BasisAssumption, TradingAssumption DEF Quote, other
  <2>2. x - calculate_tax(x, buy_tax_bps) \in Int
    BY <2>1, TaxFacts DEF TradeTypeOK
  <2>3. \E s \in Sides : swap_sol_pool(s, x - calculate_tax(x, buy_tax_bps), m)
    BY <1>4, <2>1 DEF swap_sol_buy, swap_sol_buy_wsol, swap_spl_buy
  <2> QED  BY <2>1, <2>2, <2>3, LaneSwap
<1>5. ASSUME NEW x \in TradeAmounts, NEW m \in Minimums,
             swap_sol_sell(x, m) \/ swap_spl_sell(x, m)
      PROVE  Next
  <2>1. x \in Nat /\ m \in Nat /\ FactionSide \in Sides
    BY PoolAssumption, BasisAssumption, TradingAssumption
  <2>2. gross_floor(m, sell_tax_bps) \in Nat
    BY <2>1, FloorType DEF TradeTypeOK
  <2>3. \E s \in Sides : swap_sol_pool(s, x, gross_floor(m, sell_tax_bps))
    BY <1>5, <2>1 DEF swap_sol_sell, swap_spl_sell
  <2> QED  BY <2>1, <2>2, <2>3, LaneSwap
<1>6. ASSUME NEW x \in TradeAmounts, NEW m \in Minimums \cup {0}, NEW s \in Sides,
             swap_arb_wallet(s, x, m) \/ swap_exempt(s, x)
      PROVE  Next
  BY <1>6, LaneSwap, TradingAssumption DEF swap_arb_wallet, swap_exempt
<1>7. ASSUME NEW x \in TradeAmounts \cup Minimums,
             withdraw_sweep(x) \/ distribute_swept(x)
      PROVE  UNCHANGED poolVars
  BY <1>7 DEF withdraw_sweep, distribute_swept
<1>8. CASE EpochMoves
  BY <1>8 DEF EpochMoves
<1>9. ASSUME NEW g \in Gifted, Stray(g) PROVE UNCHANGED poolVars
  BY <1>9 DEF Stray
<1> QED
  BY <1>1, <1>2, <1>3, <1>4, <1>5, <1>6, <1>7, <1>8, <1>9 DEF TradeNext

------------------------------------------------------------------------------
(* The ledgers of the tax *)

ShareTypes ==
  /\ escrow \in Nat /\ pending_rewards \in Nat /\ carnage_vault \in Nat
  /\ treasury \in Nat /\ taxed \in Nat

SweepTypes == sweep \in Nat /\ swept \in Nat /\ withdrawn \in Nat

UnwrapTypes == intermediary \in BOOLEAN /\ wsol \in Nat /\ swap_authority \in Nat

MarketTypes == buy_tax_bps \in Rates /\ sell_tax_bps \in Rates /\ halted \in BOOLEAN

\* The types of the state that is not the pool's.
LEMMA TradeTypes ==
  TradeTypeOK <=> /\ TypeOK /\ MarketTypes /\ UnwrapTypes /\ ShareTypes
                  /\ SweepTypes /\ strays \in [Gifted -> Nat]
  BY DEF TradeTypeOK, MarketTypes, UnwrapTypes, ShareTypes, SweepTypes

\* A split keeps the shares' ledger, whatever it splits.
LEMMA SplitStep ==
  ASSUME ShareTypes, SharesHold, NEW x \in Nat, execute_split_distribution(x)
  PROVE  ShareTypes' /\ SharesHold'
<1> DEFINE share == split_distribution(x)
           st == share.staking
           ca == share.carnage
<1>1. /\ st \in Nat /\ ca \in Nat /\ st + ca <= x /\ ca * BPS <= CARNAGE_BPS * x
  BY SplitFacts
<1>2. /\ escrow' = escrow + st /\ pending_rewards' = pending_rewards + st
      /\ carnage_vault' = carnage_vault + ca /\ taxed' = taxed + x
      /\ treasury' = treasury + (x - st - ca)
  BY DEF execute_split_distribution
<1> HIDE DEF st, ca
<1>3. ShareTypes'
  BY <1>1, <1>2 DEF ShareTypes
<1>4. /\ escrow' + carnage_vault' + treasury' = taxed'
      /\ pending_rewards' <= escrow'
  BY <1>1, <1>2 DEF ShareTypes, SharesHold
<1>5. carnage_vault' * BPS <= CARNAGE_BPS * taxed'
  <2>1. BPS \in Nat /\ CARNAGE_BPS \in Nat
    BY PoolAssumption, BasisAssumption, TradingAssumption
  <2>2. (carnage_vault + ca) * BPS = carnage_vault * BPS + ca * BPS
    BY <1>1, <2>1 DEF ShareTypes
  <2>3. CARNAGE_BPS * (taxed + x) = CARNAGE_BPS * taxed + CARNAGE_BPS * x
    BY <2>1 DEF ShareTypes
  <2>4. /\ carnage_vault * BPS \in Nat /\ ca * BPS \in Nat
        /\ CARNAGE_BPS * taxed \in Nat /\ CARNAGE_BPS * x \in Nat
    BY <1>1, <2>1 DEF ShareTypes
  <2>5. carnage_vault * BPS <= CARNAGE_BPS * taxed
    BY DEF SharesHold
  <2> QED  BY <1>1, <1>2, <2>2, <2>3, <2>4, <2>5
<1> QED  BY <1>3, <1>4, <1>5 DEF SharesHold

\* Unwrapping the tax leaves the swap authority what the account held besides.
LEMMA UnwrapStep ==
  ASSUME UnwrapTypes, ShareTypes, SharesHold, NEW tax \in Nat, NEW rest \in Nat,
         unwrap_and_share(rest + tax, tax)
  PROVE  /\ UnwrapTypes' /\ ShareTypes' /\ SharesHold'
         /\ swap_authority' = swap_authority + rest /\ wsol' = 0
<1>1. RENT \in Nat
  BY TradingAssumption
<1>2. swap_authority' = swap_authority + rest /\ wsol' = 0 /\ intermediary' = TRUE
  BY <1>1 DEF unwrap_and_share, UnwrapTypes
<1>3. ShareTypes' /\ SharesHold'
  BY SplitStep DEF unwrap_and_share
<1> QED  BY <1>2, <1>3 DEF UnwrapTypes

Frame == MarketTypes' /\ UnwrapTypes' /\ ShareTypes' /\ SweepTypes'
         /\ strays' \in [Gifted -> Nat] /\ Ledgers'

\* What a sell takes in and pays out.
LEMMA SellFacts ==
  ASSUME TInv, initialized, NEW s \in Sides, NEW x \in Nat
  PROVE  LET gross == swap_output(s, x)
             tax == calculate_tax(gross, sell_tax_bps)
         IN  gross \in Nat /\ tax \in Nat /\ tax <= gross
  BY SwapFacts, TaxFacts DEF TInv, TradeTypeOK

\* What a step leaves alone keeps its part of the invariant.
LEMMA Untouched ==
  ASSUME TInv
  PROVE  /\ UNCHANGED marketVars => MarketTypes'
         /\ UNCHANGED shareVars => ShareTypes' /\ SharesHold'
         /\ UNCHANGED <<unwrapVars, strays>>
              => UnwrapTypes' /\ NoTaxResidue' /\ Closed'
         /\ UNCHANGED <<sweepVars, strays>> => SweepTypes' /\ SweepAccounted'
         /\ UNCHANGED strays => strays' \in [Gifted -> Nat]
<1>1. /\ MarketTypes /\ UnwrapTypes /\ ShareTypes /\ SweepTypes
      /\ strays \in [Gifted -> Nat]
      /\ NoTaxResidue /\ SharesHold /\ SweepAccounted /\ Closed
  BY TradeTypes DEF TInv, Ledgers
<1>2. UNCHANGED marketVars => MarketTypes'
  BY <1>1 DEF marketVars, MarketTypes
<1>3. UNCHANGED shareVars => ShareTypes' /\ SharesHold'
  BY <1>1 DEF shareVars, ShareTypes, SharesHold
<1>4. UNCHANGED <<unwrapVars, strays>> => UnwrapTypes' /\ NoTaxResidue' /\ Closed'
  BY <1>1 DEF unwrapVars, UnwrapTypes, NoTaxResidue, Closed
<1>5. UNCHANGED <<sweepVars, strays>> => SweepTypes' /\ SweepAccounted'
  BY <1>1 DEF sweepVars, SweepTypes, SweepAccounted
<1> QED  BY <1>1, <1>2, <1>3, <1>4, <1>5

\* A step that splits x and touches nothing else of the ledgers.
LEMMA SplitOnly ==
  ASSUME TInv, NEW x \in Nat, execute_split_distribution(x),
         UNCHANGED <<marketVars, unwrapVars, sweepVars, strays>>
  PROVE  Frame
<1>1. ShareTypes' /\ SharesHold'
  BY SplitStep, TradeTypes DEF TInv, Ledgers
<1> QED  BY <1>1, Untouched DEF Frame, Ledgers

\* A step that unwraps rest + tax and splits the tax.
LEMMA UnwrapOnly ==
  ASSUME TInv, NEW tax \in Nat, NEW balance \in Int, balance = wsol + tax,
         unwrap_and_share(balance, tax), UNCHANGED <<marketVars, sweepVars, strays>>
  PROVE  Frame
<1>1. UnwrapTypes /\ ShareTypes /\ SharesHold /\ NoTaxResidue /\ wsol \in Nat
  BY TradeTypes DEF TInv, Ledgers, UnwrapTypes
<1>2. unwrap_and_share(wsol + tax, tax)
  OBVIOUS
<1>3. /\ UnwrapTypes' /\ ShareTypes' /\ SharesHold'
      /\ swap_authority' = swap_authority + wsol /\ wsol' = 0
  BY <1>1, <1>2, UnwrapStep
<1>4. NoTaxResidue' /\ Closed'
  BY <1>1, <1>3 DEF NoTaxResidue, Closed, UnwrapTypes
<1> QED  BY <1>3, <1>4, Untouched DEF Frame, Ledgers

\* A step that adds tax to the sweep account.
LEMMA SweepOnly ==
  ASSUME TInv, NEW tax \in Nat, sweep' = sweep + tax, swept' = swept + tax,
         UNCHANGED <<marketVars, unwrapVars, shareVars, withdrawn, strays>>
  PROVE  Frame
<1>1. SweepTypes /\ SweepAccounted /\ strays \in [Gifted -> Nat]
  BY TradeTypes DEF TInv, Ledgers
<1>2. SweepTypes' /\ SweepAccounted'
  BY <1>1 DEF SweepTypes, SweepAccounted, Gifted
<1> QED  BY <1>2, Untouched DEF Frame, Ledgers

\* Taxes are natural numbers that leave no negative input.
LEMMA BuyTax ==
  ASSUME TInv, NEW x \in Nat
  PROVE  calculate_tax(x, buy_tax_bps) \in Nat
  BY TaxFacts DEF TInv, TradeTypeOK

\* A gift is counted where it lands.
LEMMA StrayStep ==
  ASSUME TInv, NEW g \in Gifted, Stray(g)
  PROVE  Frame
<1>1. /\ UnwrapTypes /\ SweepTypes /\ strays \in [Gifted -> Nat]
      /\ NoTaxResidue /\ SweepAccounted /\ Closed
  BY TradeTypes DEF TInv, Ledgers
<1>2. strays' = [strays EXCEPT ![g] = @ + 1] /\ UNCHANGED <<marketVars, shareVars>>
  BY DEF Stray
<1>3. strays' \in [Gifted -> Nat]
  BY <1>1, <1>2
<1>4. CASE g = "intermediary"
  <2>1. /\ intermediary /\ wsol' = wsol + 1
        /\ UNCHANGED <<intermediary, swap_authority, sweep, swept, withdrawn>>
    BY <1>4 DEF Stray, sweepVars
  <2>2. /\ strays'["intermediary"] = strays["intermediary"] + 1
        /\ strays'["swap_authority"] = strays["swap_authority"]
        /\ strays'["sweep"] = strays["sweep"]
    BY <1>1, <1>2, <1>4 DEF Gifted
  <2>3. UnwrapTypes' /\ NoTaxResidue' /\ Closed'
    BY <1>1, <2>1, <2>2 DEF UnwrapTypes, NoTaxResidue, Closed, Gifted
  <2>4. SweepTypes' /\ SweepAccounted'
    BY <1>1, <2>1, <2>2 DEF SweepTypes, SweepAccounted
  <2> QED  BY <1>2, <1>3, <2>3, <2>4, Untouched DEF Frame, Ledgers
<1>5. CASE g = "swap_authority"
  <2>1. /\ swap_authority' = swap_authority + 1
        /\ UNCHANGED <<intermediary, wsol, sweep, swept, withdrawn>>
    BY <1>5 DEF Stray, sweepVars
  <2>2. /\ strays'["swap_authority"] = strays["swap_authority"] + 1
        /\ strays'["intermediary"] = strays["intermediary"]
        /\ strays'["sweep"] = strays["sweep"]
    BY <1>1, <1>2, <1>5 DEF Gifted
  <2>3. UnwrapTypes' /\ NoTaxResidue' /\ Closed'
    BY <1>1, <2>1, <2>2 DEF UnwrapTypes, NoTaxResidue, Closed, Gifted
  <2>4. SweepTypes' /\ SweepAccounted'
    BY <1>1, <2>1, <2>2 DEF SweepTypes, SweepAccounted
  <2> QED  BY <1>2, <1>3, <2>3, <2>4, Untouched DEF Frame, Ledgers
<1>6. CASE g = "sweep"
  <2>1. /\ sweep' = sweep + 1
        /\ UNCHANGED <<intermediary, wsol, swap_authority, swept, withdrawn>>
    BY <1>6 DEF Stray, unwrapVars
  <2>2. /\ strays'["sweep"] = strays["sweep"] + 1
        /\ strays'["intermediary"] = strays["intermediary"]
        /\ strays'["swap_authority"] = strays["swap_authority"]
    BY <1>1, <1>2, <1>6 DEF Gifted
  <2>3. UnwrapTypes' /\ NoTaxResidue' /\ Closed'
    BY <1>1, <2>1, <2>2 DEF UnwrapTypes, NoTaxResidue, Closed
  <2>4. SweepTypes' /\ SweepAccounted'
    BY <1>1, <2>1, <2>2 DEF SweepTypes, SweepAccounted, Gifted
  <2> QED  BY <1>2, <1>3, <2>3, <2>4, Untouched DEF Frame, Ledgers
<1> QED  BY <1>4, <1>5, <1>6 DEF Gifted

\* Every step keeps the types and the ledgers.
LEMMA LedgerStep == TInv /\ [TradeNext]_tradeVars => Frame
<1> SUFFICES ASSUME TInv, [TradeNext]_tradeVars PROVE Frame
  OBVIOUS
<1>0. ASSUME UNCHANGED <<marketVars, unwrapVars, shareVars, sweepVars, strays>>
      PROVE  Frame
  BY <1>0, Untouched DEF Frame, Ledgers
<1>1. CASE UNCHANGED tradeVars
  BY <1>0, <1>1 DEF tradeVars
<1>2. CASE Upkeep
  BY <1>0, <1>2 DEF Upkeep
<1>3. CASE initialize_wsol_intermediary
  <2>1. /\ ~intermediary /\ wsol' = 0 /\ intermediary' = TRUE
        /\ UNCHANGED <<marketVars, shareVars, sweepVars, strays, swap_authority>>
    BY <1>3 DEF initialize_wsol_intermediary
  <2>2. UnwrapTypes /\ NoTaxResidue /\ Closed
    BY TradeTypes DEF TInv, Ledgers
  <2>3. UnwrapTypes' /\ NoTaxResidue' /\ Closed'
    BY <2>1, <2>2 DEF UnwrapTypes, NoTaxResidue, Closed
  <2> QED  BY <2>1, <2>3, Untouched DEF Frame, Ledgers
<1>4. ASSUME NEW x \in TradeAmounts, NEW m \in Minimums, swap_sol_buy(x, m)
      PROVE  Frame
  BY <1>4, BuyTax, SplitOnly, TradingAssumption DEF swap_sol_buy
<1>5. ASSUME NEW x \in TradeAmounts, NEW m \in Minimums, swap_sol_buy_wsol(x, m)
      PROVE  Frame
  <2>1. calculate_tax(x, buy_tax_bps) \in Nat
    BY BuyTax, TradingAssumption
  <2>2. wsol + calculate_tax(x, buy_tax_bps) \in Int
    BY <2>1 DEF TInv, TradeTypeOK
  <2> QED  BY <1>5, <2>1, <2>2, UnwrapOnly DEF swap_sol_buy_wsol
<1>6. ASSUME NEW x \in TradeAmounts, NEW m \in Minimums, swap_sol_sell(x, m)
      PROVE  Frame
  <2> DEFINE gross == swap_output("B", x)
             out   == received(wsol, wsol + gross)
             tax   == calculate_tax(out, sell_tax_bps)
             left  == (wsol + gross) - (out - tax)
  <2>1. initialized /\ x \in Nat /\ "B" \in Sides
    BY <1>6, TradingAssumption DEF swap_sol_sell, Sides
  <2>2. gross \in Nat /\ wsol \in Nat
    BY <2>1, SellFacts DEF TInv, TradeTypeOK
  <2>3. out = gross
    <3> HIDE DEF gross
    <3> QED  BY <2>2 DEF received
  <2>4. tax \in Nat
    BY <2>1, <2>3, SellFacts
  <2>5. left = wsol + tax
    <3> HIDE DEF gross, tax, out
    <3> QED  BY <2>2, <2>3, <2>4
  <2>6. unwrap_and_share(left, tax)
    BY <1>6, Zenon DEF swap_sol_sell
  <2>8. UNCHANGED <<marketVars, sweepVars, strays>>
    BY <1>6 DEF swap_sol_sell
  <2> HIDE DEF left, tax
  <2>7. left \in Int
    BY <2>2, <2>4, <2>5
  <2> QED  BY <2>4, <2>5, <2>6, <2>7, <2>8, UnwrapOnly
<1>7. ASSUME NEW x \in TradeAmounts, NEW m \in Minimums, swap_spl_buy(x, m)
      PROVE  Frame
  BY <1>7, BuyTax, SweepOnly, TradingAssumption DEF swap_spl_buy
<1>8. ASSUME NEW x \in TradeAmounts, NEW m \in Minimums, swap_spl_sell(x, m)
      PROVE  Frame
  <2> DEFINE gross == swap_output(FactionSide, x)
             out   == received(sweep, sweep + gross)
             tax   == calculate_tax(out, sell_tax_bps)
  <2>1. initialized /\ x \in Nat /\ FactionSide \in Sides
    BY <1>8, PoolAssumption, BasisAssumption, TradingAssumption DEF swap_spl_sell, Sides
  <2>2. gross \in Nat /\ sweep \in Nat
    BY <2>1, SellFacts DEF TInv, TradeTypeOK
  <2>3. out = gross
    <3> HIDE DEF gross
    <3> QED  BY <2>2 DEF received
  <2>4. tax \in Nat
    BY <2>1, <2>3, SellFacts
  <2>5. (sweep + gross) - (out - tax) = sweep + tax
    <3> HIDE DEF gross, tax, out
    <3> QED  BY <2>2, <2>3, <2>4
  <2>6. sweep' = (sweep + gross) - (out - tax)
    BY <1>8, Zenon DEF swap_spl_sell
  <2>7. swept' = swept + tax
    BY <1>8, Zenon DEF swap_spl_sell
  <2>8. UNCHANGED <<marketVars, unwrapVars, shareVars, withdrawn, strays>>
    BY <1>8 DEF swap_spl_sell
  <2> HIDE DEF gross, out, tax
  <2> QED  BY <2>4, <2>5, <2>6, <2>7, <2>8, SweepOnly
<1>9. ASSUME NEW x \in TradeAmounts, NEW m \in Minimums, NEW s \in Sides,
             swap_arb_wallet(s, x, m) \/ swap_exempt(s, x)
      PROVE  Frame
  BY <1>0, <1>9 DEF swap_arb_wallet, swap_exempt
<1>10. ASSUME NEW x \in TradeAmounts, NEW s \in Sides, swap_exempt(s, x)
       PROVE  Frame
  BY <1>0, <1>10 DEF swap_exempt
<1>11. ASSUME NEW x \in Minimums, withdraw_sweep(x)
       PROVE  Frame
  <2>1. PICK n \in Nat : /\ n <= sweep
                         /\ sweep' = sweep - n /\ withdrawn' = withdrawn + n
                         /\ UNCHANGED <<marketVars, unwrapVars, shareVars, swept, strays>>
    BY <1>11, TradingAssumption DEF withdraw_sweep, TInv, TradeTypeOK
  <2>2. SweepTypes /\ SweepAccounted /\ strays \in [Gifted -> Nat]
    BY TradeTypes DEF TInv, Ledgers
  <2>3. SweepTypes' /\ SweepAccounted'
    BY <2>1, <2>2 DEF SweepTypes, SweepAccounted, Gifted
  <2> QED  BY <2>1, <2>3, Untouched DEF Frame, Ledgers
<1>12. ASSUME NEW x \in TradeAmounts, distribute_swept(x)
       PROVE  Frame
  BY <1>12, SplitOnly, TradingAssumption DEF distribute_swept
<1>13. CASE EpochMoves
  <2>1. /\ MarketTypes'
        /\ pending_rewards' \in {pending_rewards, 0}
        /\ UNCHANGED <<unwrapVars, escrow, carnage_vault, treasury, taxed,
                       sweepVars, strays>>
    BY <1>13 DEF EpochMoves, MarketTypes
  <2>2. ShareTypes /\ SharesHold
    BY TradeTypes DEF TInv, Ledgers
  <2>3. ShareTypes' /\ SharesHold'
    BY <2>1, <2>2 DEF ShareTypes, SharesHold
  <2> QED  BY <2>1, <2>3, Untouched DEF Frame, Ledgers
<1>14. ASSUME NEW g \in Gifted, Stray(g) PROVE Frame
  BY <1>14, StrayStep
<1> QED
  BY <1>1, <1>2, <1>3, <1>4, <1>5, <1>6, <1>7, <1>8, <1>9, <1>10, <1>11,
     <1>12, <1>13, <1>14 DEF TradeNext

\* The lanes start with empty ledgers.
LEMMA InitTInv == TradeInit => TInv
<1> SUFFICES ASSUME TradeInit PROVE TInv
  OBVIOUS
<1>1. PInv
  BY InitPInv DEF TradeInit
<1>2. MarketTypes
  BY DEF TradeInit, MarketTypes
<1>3. UnwrapTypes /\ ShareTypes /\ SweepTypes /\ strays \in [Gifted -> Nat]
  BY DEF TradeInit, UnwrapTypes, ShareTypes, SweepTypes
<1>4. NoTaxResidue /\ SweepAccounted /\ Closed
  BY DEF TradeInit, NoTaxResidue, SweepAccounted, Closed, Gifted
<1>5. SharesHold
  <2>1. BPS \in Nat /\ CARNAGE_BPS \in Nat
    BY PoolAssumption, BasisAssumption, TradingAssumption
  <2> QED  BY <2>1 DEF TradeInit, SharesHold
<1> QED  BY <1>1, <1>2, <1>3, <1>4, <1>5, TradeTypes DEF TInv, Ledgers, PInv

\* Every step keeps the invariant.
LEMMA NextTInv == TInv /\ [TradeNext]_tradeVars => TInv'
<1> SUFFICES ASSUME TInv, [TradeNext]_tradeVars PROVE TInv'
  OBVIOUS
<1>1. PInv'
  BY LaneStep, NextPInv DEF TInv
<1>2. Frame
  BY LedgerStep
<1>3. TypeOK'
  BY <1>1 DEF PInv
<1>4. TradeTypeOK'
  BY <1>2, <1>3
  DEF Frame, TradeTypeOK, MarketTypes, UnwrapTypes, ShareTypes, SweepTypes
<1> QED  BY <1>1, <1>2, <1>4 DEF TInv, Frame

------------------------------------------------------------------------------
(* The theorems *)

\* The strengthened invariant holds in every reachable state.
THEOREM TradeInvariance == TradeSpec => []TInv
  BY InitTInv, NextTInv, PTL DEF TradeSpec

\* Through whatever lane a trade comes, the pool takes one of its own steps: what
\* is proved of the pool holds under the tax program.
THEOREM LanesKeepThePool == TradeSpec => Spec
<1>1. TradeInit => Init
  BY DEF TradeInit
<1>2. TInv /\ [TradeNext]_tradeVars => [Next]_poolVars
  BY LaneStep
<1> QED  BY <1>1, <1>2, TradeInvariance, PTL DEF TradeSpec, Spec

\* Every field of the lanes keeps its type.
THEOREM TradeTypeCorrect == TradeSpec => []TradeTypeOK
<1>1. TInv => TradeTypeOK
  BY DEF TInv
<1> QED  BY <1>1, TradeInvariance, PTL

\* The intermediary and the swap authority hold gifts and nothing else.
THEOREM NothingLeftBehind == TradeSpec => []NoTaxResidue
<1>1. TInv => NoTaxResidue
  BY DEF TInv, Ledgers
<1> QED  BY <1>1, TradeInvariance, PTL

\* All tax is shared out, Carnage never above its proportion.
THEOREM TaxFullyShared == TradeSpec => []SharesHold
<1>1. TInv => SharesHold
  BY DEF TInv, Ledgers
<1> QED  BY <1>1, TradeInvariance, PTL

\* The sweep account holds the taxes not withdrawn and gifts.
THEOREM SweepExact == TradeSpec => []SweepAccounted
<1>1. TInv => SweepAccounted
  BY DEF TInv, Ledgers
<1> QED  BY <1>1, TradeInvariance, PTL

\* The gross floor of a sell implies its net limit.
THEOREM FloorSuffices == TradeSpec => []GrossFloorSuffices
<1>1. TInv => GrossFloorSuffices
  <2>1. SUFFICES ASSUME TInv, initialized, NEW x \in Amounts, NEW m \in Amounts,
                        sell_tax_bps < BPS,
                        swap_output(FactionSide, x) >= gross_floor(m, sell_tax_bps)
                 PROVE  swap_output(FactionSide, x)
                          - calculate_tax(swap_output(FactionSide, x), sell_tax_bps) >= m
    BY DEF GrossFloorSuffices
  <2>2. FactionSide \in Sides /\ x \in Nat /\ m \in Nat \ {0}
    BY PoolAssumption, BasisAssumption DEF Sides, Amounts
  <2>3. swap_output(FactionSide, x) \in Nat /\ sell_tax_bps \in Rates
    BY <2>1, <2>2, SellFacts DEF TInv, TradeTypeOK
  <2> QED  BY <2>1, <2>2, <2>3, FloorNets
<1> QED  BY <1>1, TradeInvariance, PTL
================================================================================
