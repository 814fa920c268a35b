-------------------------- MODULE CarnageFund_proofs --------------------------
(***************************************************************************)
(* Proofs about CarnageFund for every fee, rate, reserve and amount.       *)
(*                                                                         *)
(* The ledgers are inductive once two facts join them: the action drawn at *)
(* the reveal still fits the holdings when it is executed, and no pool is  *)
(* ever emptied.  The cap and the floor are arithmetic on top of them.     *)
(***************************************************************************)
EXTENDS CarnageFund, AmmMath_proofs

\* Nothing happens to the holdings between a reveal and its execution.
ActionFits ==
  /\ held_amount > 0 => held_token \in Mints
  /\ carnage_pending => (held_amount > 0 <=> carnage_action # "None")

PoolsAlive == \A m \in Mints : reserve_sol[m] > 0 /\ reserve_token[m] > 0

Ledgers == HoldingsInVault /\ PurchasesAccounted /\ SolAccounted

IInv == TypeOK /\ Ledgers /\ ActionFits /\ PoolsAlive

------------------------------------------------------------------------------
(* Arithmetic *)

\* A swap through the exempt lane: the inequality, and that the pool keeps some.
LEMMA LaneOutput ==
  ASSUME NEW a \in Nat \ {0}, NEW b \in Nat \ {0}, NEW x \in Nat
  PROVE  LET y == swap_exempt_output(a, b, x)
         IN  /\ calculate_effective_input(x, AMM_FEE_BPS) \in Nat
             /\ y \in Nat /\ y < b /\ a * y <= x * (b - y)
<1>1. /\ calculate_effective_input(x, AMM_FEE_BPS) \in Nat
      /\ calculate_effective_input(x, AMM_FEE_BPS) <= x
  BY FundAssumption, EffectiveInput
<1> QED  BY <1>1, SpreadKept DEF swap_exempt_output

\* Without an effective input there is no output.
LEMMA NoInputNoOutput ==
  ASSUME NEW a \in Nat \ {0}, NEW b \in Nat \ {0}, NEW x \in Nat,
         swap_exempt_output(a, b, x) > 0
  PROVE  calculate_effective_input(x, AMM_FEE_BPS) > 0 /\ x > 0
<1> DEFINE e == calculate_effective_input(x, AMM_FEE_BPS)
<1>1. e \in Nat /\ e <= x
  BY FundAssumption, EffectiveInput
<1>2. e # 0
  <2>1. SUFFICES ASSUME e = 0 PROVE FALSE
    OBVIOUS
  <2>2. swap_exempt_output(a, b, x) = (b * 0) \div (a + 0)
    BY <2>1 DEF swap_exempt_output, calculate_swap_output
  <2>3. (b * 0) \div (a + 0) = 0
    OBVIOUS
  <2> QED  BY <2>2, <2>3
<1> QED  BY <1>1, <1>2

\* A swap with an output passes every check of the lane and of the pool.
LEMMA LaneAccepts ==
  ASSUME NEW a \in Nat \ {0}, NEW b \in Nat \ {0}, NEW x \in Nat,
         swap_exempt_output(a, b, x) > 0
  PROVE  swap_exempt_accepts(a, b, x)
<1> DEFINE y == swap_exempt_output(a, b, x)
<1>1. y \in Nat /\ y < b /\ a * y <= x * (b - y)
  BY LaneOutput
<1>2. calculate_effective_input(x, AMM_FEE_BPS) > 0 /\ x > 0
  BY NoInputNoOutput
<1>3. verify_k_invariant(a, b, a + x, b - y)
  BY <1>1, ProductKept
<1> QED  BY <1>1, <1>2, <1>3 DEF swap_exempt_accepts

\* A product of positive factors, and the order of products.
LEMMA Positive ==
  ASSUME NEW a \in Nat \ {0}, NEW b \in Nat \ {0}
  PROVE  a * b \in Nat \ {0}
  OBVIOUS

\* With effective input e out of amount B, the output covers the fraction s/BPS
\* of the fee-free output whenever e covers that fraction of B.
LEMMA FloorCovered ==
  ASSUME NEW R \in Nat \ {0}, NEW T \in Nat \ {0}, NEW B \in Nat, NEW e \in Nat,
         NEW s \in Nat, e <= B, e * BPS >= B * s
  PROVE  calculate_swap_output(R, T, e) >= slippage_floor(R, T, B, s)
<1> DEFINE E == (T * B) \div (R + B)
           q == (E * s) \div BPS
           y == (T * e) \div (R + e)
<1>1. BPS \in Nat \ {0} /\ R + B \in Nat \ {0} /\ R + e \in Nat \ {0}
  BY BasisAssumption
<1>2. T * B \in Nat /\ T * e \in Nat
  OBVIOUS
<1>3. E \in Nat /\ (R + B) * E <= T * B
  BY <1>1, <1>2, Quotient
<1> HIDE DEF E
<1>4. E * s \in Nat
  BY <1>3
<1>5. q \in Nat /\ BPS * q <= E * s
  BY <1>1, <1>4, Quotient
<1> HIDE DEF q
<1>6. BPS * ((R + B) * q) <= BPS * (T * e)
  <2>1. (R + B) * (BPS * q) <= (R + B) * (E * s)
    BY <1>1, <1>4, <1>5, Scaled
  <2>2. s * ((R + B) * E) <= s * (T * B)
    BY <1>1, <1>2, <1>3, Scaled
  <2>3. T * (B * s) <= T * (e * BPS)
    BY <1>1, Scaled
  <2>4. (R + B) * (E * s) = s * ((R + B) * E)
    BY <1>1, <1>3
  <2>5. s * (T * B) = T * (B * s)
    OBVIOUS
  <2>6. T * (e * BPS) = BPS * (T * e)
    BY <1>1
  <2>7. (R + B) * (BPS * q) = BPS * ((R + B) * q)
    BY <1>1, <1>5
  <2>8. /\ (R + B) * (BPS * q) \in Int /\ (R + B) * (E * s) \in Int
        /\ s * (T * B) \in Int /\ T * (e * BPS) \in Int
    BY <1>1, <1>3, <1>5
  <2> QED  BY <2>1, <2>2, <2>3, <2>4, <2>5, <2>6, <2>7, <2>8
<1>7. (R + B) * q <= T * e
  <2>1. (R + B) * q \in Int
    BY <1>1, <1>5
  <2> QED  BY <1>1, <1>2, <1>6, <2>1, Cancelled
<1>8. (R + e) * q <= T * e
  <2>1. q * (R + e) <= q * (R + B)
    BY <1>5, Scaled
  <2> QED  BY <1>5, <1>7, <2>1
<1>9. q <= y
  <2>1. y \in Nat /\ (R + e) * q <= T * e
    BY <1>1, <1>2, <1>8, Quotient
  <2>2. T * e < (R + e) * y + (R + e)
    BY <1>1, <1>2, Quotient
  <2>3. SUFFICES ASSUME y + 1 <= q PROVE FALSE
    BY <1>5, <2>1
  <2> HIDE DEF y
  <2>4. (R + e) * (y + 1) <= (R + e) * q
    BY <1>1, <1>5, <2>1, <2>3, Scaled
  <2>5. (R + e) * (y + 1) = (R + e) * y + (R + e)
    BY <2>1
  <2>6. (R + e) * q \in Int /\ (R + e) * y \in Int
    BY <1>5, <2>1
  <2> QED  BY <1>2, <2>1, <2>2, <2>4, <2>5, <2>6
<1> QED  BY <1>9 DEF calculate_swap_output, slippage_floor, q, E

\* A cap D of the depth R, below f*N/(BPS*K) of it, keeps the price impact under f.
LEMMA ImpactBelow ==
  ASSUME NEW R \in Nat \ {0}, NEW D \in Nat, NEW f \in 1..CARNAGE_FRICTION_BPS_MAX,
         BPS * CARNAGE_CAP_K_DEN * D <= R * f * CARNAGE_CAP_K_NUM
  PROVE  (R + D) * (R + D) * BPS < R * R * (BPS + f)
<1> DEFINE N == CARNAGE_CAP_K_NUM
           K == CARNAGE_CAP_K_DEN
           F == CARNAGE_FRICTION_BPS_MAX
           P == BPS * K
           a == R * f * N
           rest == 2 * (R * D) * BPS + D * D * BPS
<1>1. /\ N \in Nat \ {0} /\ K \in Nat \ {0} /\ F \in Nat /\ BPS \in Nat \ {0}
      /\ f \in Nat \ {0} /\ f <= F
      /\ 2 * BPS * N * K + F * N * N < BPS * K * K
  BY BasisAssumption, FundAssumption
<1> HIDE DEF N, K, F
<1>2. P \in Nat \ {0} /\ a \in Nat \ {0}
  BY <1>1
<1>3. P * D <= a
  BY DEF N, K
<1> HIDE DEF P, a
<1>4. 2 * (R * (P * D)) * P <= 2 * (R * a) * P
  <2>1. (2 * R * P) * (P * D) <= (2 * R * P) * a
    BY <1>2, <1>3, Scaled
  <2> QED  BY <1>2, <2>1
<1>5. (P * D) * (P * D) <= a * a
  <2>1. (P * D) * (P * D) <= (P * D) * a
    BY <1>2, <1>3, Scaled
  <2>2. a * (P * D) <= a * a
    BY <1>2, <1>3, Scaled
  <2> QED  BY <1>2, <2>1, <2>2
<1>6. 2 * (R * a) * P + a * a = (R * R * f) * (2 * N * P + f * N * N)
  BY <1>1, <1>2 DEF a
<1>7. BPS * (2 * N * P + f * N * N) < P * P
  <2>1. (N * N) * f <= (N * N) * F
    BY <1>1, Scaled
  <2>2. 2 * BPS * N * K + f * N * N < BPS * K * K
    BY <1>1, <2>1
  <2>3. 2 * N * P + f * N * N < BPS * K * K
    BY <1>1, <2>2 DEF P
  <2>4. BPS * (2 * N * P + f * N * N) < BPS * (BPS * K * K)
    <3> DEFINE u == 2 * N * P + f * N * N
               v == BPS * K * K
    <3>1. u \in Int /\ v \in Int /\ u + 1 <= v
      BY <1>1, <1>2, <2>3
    <3> HIDE DEF u, v
    <3>2. BPS * (u + 1) <= BPS * v
      BY <1>1, <3>1, Scaled
    <3>3. BPS * u < BPS * v
      BY <1>1, <3>1, <3>2
    <3> QED  BY <3>3 DEF u, v
  <2>5. BPS * (BPS * K * K) = P * P
    BY <1>1 DEF P
  <2> QED  BY <2>4, <2>5
<1>8. (P * P) * rest <= BPS * ((R * R * f) * (2 * N * P + f * N * N))
  <2>1. (P * P) * rest = BPS * (2 * (R * (P * D)) * P + (P * D) * (P * D))
    BY <1>1, <1>2
  <2>2. 2 * (R * (P * D)) * P + (P * D) * (P * D) <= 2 * (R * a) * P + a * a
    BY <1>2, <1>4, <1>5
  <2>3. BPS * (2 * (R * (P * D)) * P + (P * D) * (P * D)) <= BPS * (2 * (R * a) * P + a * a)
    BY <1>1, <1>2, <2>2, Scaled
  <2> QED  BY <1>6, <2>1, <2>3
<1>9. BPS * ((R * R * f) * (2 * N * P + f * N * N)) < (P * P) * (R * R * f)
  <2> DEFINE w == R * R * f
             u == BPS * (2 * N * P + f * N * N)
             v == P * P
  <2>1. w \in Nat \ {0} /\ u \in Int /\ v \in Int /\ u + 1 <= v
    BY <1>1, <1>2, <1>7
  <2>2. BPS * (w * (2 * N * P + f * N * N)) = w * u
    BY <1>1, <1>2, <2>1
  <2> HIDE DEF w, u, v
  <2>3. w * (u + 1) <= w * v
    BY <2>1, Scaled
  <2>4. w * u < w * v
    BY <2>1, <2>3
  <2> QED  BY <2>1, <2>2, <2>4 DEF w, u, v
<1>10. rest < R * R * f
  <2> DEFINE w == R * R * f
  <2>1. P * P \in Nat \ {0} /\ rest \in Int /\ w \in Int
    BY <1>1, <1>2
  <2>2. SUFFICES ASSUME w <= rest PROVE FALSE
    BY <2>1
  <2>3. (P * P) * w <= (P * P) * rest
    BY <2>1, <2>2, Scaled
  <2>4. BPS * (w * (2 * N * P + f * N * N)) \in Int
        /\ (P * P) * w \in Int /\ (P * P) * rest \in Int
    BY <1>1, <1>2, <2>1
  <2> QED  BY <1>8, <1>9, <2>3, <2>4
<1>11. (R + D) * (R + D) * BPS = R * R * BPS + rest
  BY <1>1
<1>12. R * R * (BPS + f) = R * R * BPS + R * R * f
  BY <1>1
<1>13. rest \in Int /\ R * R * BPS \in Int /\ R * R * f \in Int
  BY <1>1
<1> HIDE DEF rest
<1> QED  BY <1>10, <1>11, <1>12, <1>13

------------------------------------------------------------------------------
(* What an execution finds and does *)

\* A sale leaves both pools alive, and brings less than the pool's whole SOL.
LEMMA DisposalFacts ==
  ASSUME IInv
  PROVE  /\ disposal.sol \in [Mints -> Nat \ {0}]
         /\ disposal.token \in [Mints -> Nat \ {0}]
         /\ disposal.output \in Nat
         /\ ~sells => disposal.output = 0
<1>1. /\ reserve_sol \in [Mints -> Nat \ {0}]
      /\ reserve_token \in [Mints -> Nat \ {0}]
      /\ held_amount \in Nat
  BY DEF IInv, TypeOK, PoolsAlive
<1>2. CASE ~sells
  BY <1>1, <1>2 DEF disposal
<1>3. CASE sells
  <2> DEFINE h == held_token
             y == swap_exempt_output(reserve_token[h], reserve_sol[h], held_amount)
  <2>1. h \in Mints
    BY <1>3 DEF IInv, ActionFits, sells
  <2>2. y \in Nat /\ y < reserve_sol[h]
    BY <1>1, <2>1, LaneOutput
  <2>3. disposal = [sol   |-> [reserve_sol EXCEPT ![h] = @ - y],
                    token |-> [reserve_token EXCEPT ![h] = @ + held_amount],
                    output |-> y]
    BY <1>3 DEF disposal, sell_into
  <2> HIDE DEF y, h
  <2>4. [reserve_sol EXCEPT ![h] = @ - y] \in [Mints -> Nat \ {0}]
    BY <1>1, <2>1, <2>2
  <2>5. [reserve_token EXCEPT ![h] = @ + held_amount] \in [Mints -> Nat \ {0}]
    BY <1>1, <2>1
  <2> QED  BY <1>3, <2>2, <2>3, <2>4, <2>5
<1> QED  BY <1>2, <1>3

\* The cap is a natural number.
LEMMA CapFacts ==
  ASSUME IInv
  PROVE  LET f == carnage_friction_bps(taxes[carnage_target])
         IN  /\ f \in 1..CARNAGE_FRICTION_BPS_MAX
             /\ buy_cap \in Nat
             /\ BPS * CARNAGE_CAP_K_DEN * buy_cap
                  <= disposal.sol[carnage_target] * f * CARNAGE_CAP_K_NUM
<1> DEFINE f == carnage_friction_bps(taxes[carnage_target])
           R == disposal.sol[carnage_target]
<1>1. taxes \in Rates /\ carnage_target \in Mints
  BY DEF IInv, TypeOK
<1>2. f \in 1..CARNAGE_FRICTION_BPS_MAX
  BY <1>1, FundAssumption DEF carnage_friction_bps
<1>3. R \in Nat
  BY <1>1, DisposalFacts
<1>4. buy_cap = (R * f * CARNAGE_CAP_K_NUM) \div (BPS * CARNAGE_CAP_K_DEN)
  BY DEF buy_cap, carnage_buy_cap_lamports
<1> HIDE DEF f, R
<1>5. f \in Nat /\ CARNAGE_CAP_K_NUM \in Nat \ {0} /\ CARNAGE_CAP_K_DEN \in Nat \ {0}
  BY <1>2, FundAssumption
<1>6. R * f * CARNAGE_CAP_K_NUM \in Nat /\ BPS * CARNAGE_CAP_K_DEN \in Nat \ {0}
  BY <1>3, <1>5, BasisAssumption
<1>7. buy_cap \in Nat /\ BPS * CARNAGE_CAP_K_DEN * buy_cap <= R * f * CARNAGE_CAP_K_NUM
  BY <1>4, <1>6, Quotient
<1> QED  BY <1>2, <1>7 DEF f, R

\* The amounts of the buy, the wrap within what the vault can spare.
LEMMA BuyFacts ==
  ASSUME IInv
  PROVE  /\ total_buy_amount \in Nat /\ wrap_amount \in Nat
         /\ total_buy_amount <= buy_cap
         /\ total_buy_amount <= disposal.output + wrap_amount
         /\ wrap_amount > 0 => wrap_amount + RENT <= sol_vault
         /\ wrap_amount <= sol_vault
         /\ tokens_bought \in Nat
         /\ tokens_bought < disposal.token[carnage_target]
<1>1. /\ sol_vault \in Nat /\ carnage_target \in Mints /\ RENT \in Nat
      /\ disposal.output \in Nat /\ buy_cap \in Nat
  BY DisposalFacts, CapFacts, FundAssumption DEF IInv, TypeOK
<1>2. /\ total_buy_amount \in Nat /\ wrap_amount \in Nat
      /\ total_buy_amount <= buy_cap
      /\ total_buy_amount <= disposal.output + wrap_amount
      /\ wrap_amount > 0 => wrap_amount + RENT <= sol_vault
      /\ wrap_amount <= sol_vault
  BY <1>1 DEF total_buy_amount, wrap_amount, without_rent, lesser
<1>3. /\ disposal.sol[carnage_target] \in Nat \ {0}
      /\ disposal.token[carnage_target] \in Nat \ {0}
  BY <1>1, DisposalFacts
<1>4. tokens_bought \in Nat /\ tokens_bought < disposal.token[carnage_target]
  BY <1>2, <1>3, LaneOutput DEF tokens_bought
<1> QED  BY <1>2, <1>4

\* The vaults after an execution.
LEMMA VaultFacts ==
  ASSUME IInv, carnage_pending, disposal_accepted
  PROVE  /\ vault_after \in [Mints -> Nat]
         /\ \A m \in Mints :
              /\ burned_now(m) \in Nat /\ sold_now(m) \in Nat
              /\ burned_now(m) + sold_now(m) = IF m = held_token THEN held_amount ELSE 0
              /\ vault_after[m] = token_gifts[m]
                                  + (IF m = carnage_target THEN tokens_bought ELSE 0)
<1>1. /\ vault \in [Mints -> Nat] /\ token_gifts \in [Mints -> Nat]
      /\ held_amount \in Nat /\ carnage_target \in Mints /\ carnage_action \in Actions
      /\ tokens_bought \in Nat
      /\ \A m \in Mints :
           vault[m] = token_gifts[m] + (IF m = held_token THEN held_amount ELSE 0)
  BY BuyFacts DEF IInv, TypeOK, Ledgers, HoldingsInVault
<1>2. held_amount > 0 <=> (sells \/ burns)
  BY <1>1 DEF IInv, ActionFits, sells, burns, Actions
<1>3. ~(sells /\ burns)
  BY DEF sells, burns
<1>4. \A m \in Mints : vault_after[m] = token_gifts[m]
                         + (IF m = carnage_target THEN tokens_bought ELSE 0)
  BY <1>1, <1>2 DEF vault_after
<1>5. vault_after \in [Mints -> Nat]
  BY <1>1, <1>4 DEF vault_after
<1>6. \A m \in Mints :
        /\ burned_now(m) \in Nat /\ sold_now(m) \in Nat
        /\ burned_now(m) + sold_now(m) = IF m = held_token THEN held_amount ELSE 0
  BY <1>1, <1>2, <1>3 DEF burned_now, sold_now
<1> QED  BY <1>4, <1>5, <1>6

------------------------------------------------------------------------------
(* The invariant *)

\* The fund starts empty, with two pools that are not.
LEMMA InitIInv == Init => IInv
<1> SUFFICES ASSUME Init PROVE IInv
  OBVIOUS
<1>1. PICK p \in [Mints -> Pools] : /\ reserve_sol = [m \in Mints |-> p[m][1]]
                                    /\ reserve_token = [m \in Mints |-> p[m][2]]
  BY DEF Init
<1>2. \A m \in Mints : p[m][1] \in Nat \ {0} /\ p[m][2] \in Nat \ {0}
  BY <1>1, FundAssumption
<1>3. /\ reserve_sol \in [Mints -> Nat] /\ reserve_token \in [Mints -> Nat]
      /\ PoolsAlive
  BY <1>1, <1>2 DEF PoolsAlive
<1>4. TypeOK
  BY <1>3 DEF Init, TypeOK, Mints, Actions
<1>5. Ledgers
  BY DEF Init, Ledgers, HoldingsInVault, PurchasesAccounted, SolAccounted, Mints
<1>6. ActionFits
  BY DEF Init, ActionFits
<1> QED  BY <1>3, <1>4, <1>5, <1>6 DEF IInv

\* An execution, at either slippage floor.
LEMMA ExecuteStep ==
  ASSUME IInv, carnage_pending, NEW s, execute_carnage_core(s)
  PROVE  IInv'
<1> DEFINE t == carnage_target
<1>1. /\ t \in Mints
      /\ disposal.sol \in [Mints -> Nat \ {0}] /\ disposal.token \in [Mints -> Nat \ {0}]
      /\ disposal.output \in Nat
      /\ total_buy_amount \in Nat /\ wrap_amount \in Nat /\ wrap_amount <= sol_vault
      /\ total_buy_amount <= disposal.output + wrap_amount
      /\ tokens_bought \in Nat /\ tokens_bought < disposal.token[t]
  BY DisposalFacts, BuyFacts DEF IInv, TypeOK
<1>2. disposal_accepted
  BY DEF execute_carnage_core
<1>3. /\ vault_after \in [Mints -> Nat]
      /\ \A m \in Mints :
           /\ burned_now(m) \in Nat /\ sold_now(m) \in Nat
           /\ burned_now(m) + sold_now(m) = IF m = held_token THEN held_amount ELSE 0
           /\ vault_after[m] = token_gifts[m] + (IF m = t THEN tokens_bought ELSE 0)
  BY <1>2, VaultFacts
<1>4. /\ reserve_sol' \in [Mints -> Nat \ {0}]
      /\ reserve_token' \in [Mints -> Nat \ {0}]
  BY <1>1 DEF execute_carnage_core
<1>5. TypeOK'
  <2>1. /\ sol_vault' \in Nat /\ carnage_wsol' \in Nat /\ vault' \in [Mints -> Nat]
    <3> DEFINE o == disposal.output
    <3>1. /\ sol_vault' = sol_vault - wrap_amount
          /\ carnage_wsol' = carnage_wsol + o + wrap_amount - total_buy_amount
          /\ vault' = vault_after
      BY DEF execute_carnage_core
    <3>2. /\ sol_vault \in Nat /\ carnage_wsol \in Nat /\ o \in Nat
          /\ total_buy_amount <= o + wrap_amount
      BY <1>1 DEF IInv, TypeOK
    <3> HIDE DEF o
    <3> QED  BY <1>1, <1>3, <3>1, <3>2
  <2>2. /\ held_token' \in Mints \cup {"None"} /\ held_amount' \in Nat
        /\ total_sol_spent' \in Nat /\ total_triggers' \in Nat
        /\ total_burned' \in [Mints -> Nat]
    BY <1>1, <1>3 DEF execute_carnage_core, IInv, TypeOK, sol_spent
  <2>3. /\ carnage_pending' \in BOOLEAN /\ carnage_action' \in Actions
        /\ carnage_target' \in Mints /\ taxes' \in Rates
    BY DEF execute_carnage_core, IInv, TypeOK, Actions
  <2>4. reserve_sol' \in [Mints -> Nat] /\ reserve_token' \in [Mints -> Nat]
    BY <1>4
  <2>5. /\ deposited' \in Nat /\ bounties' \in Nat /\ proceeds' \in Nat
        /\ bought' \in [Mints -> Nat] /\ sold' \in [Mints -> Nat]
    BY <1>1, <1>3 DEF execute_carnage_core, IInv, TypeOK
  <2>6. wsol_gifts' \in Nat /\ token_gifts' \in [Mints -> Nat] /\ trades' \in Nat
    BY DEF execute_carnage_core, IInv, TypeOK, giftVars
  <2> QED  BY <2>1, <2>2, <2>3, <2>4, <2>5, <2>6 DEF TypeOK
<1>6. HoldingsInVault'
  BY <1>3 DEF execute_carnage_core, HoldingsInVault, giftVars
<1>7. PurchasesAccounted'
  <2>1. \A m \in Mints : /\ bought[m] \in Nat /\ sold[m] \in Nat /\ total_burned[m] \in Nat
                         /\ bought[m] = total_burned[m] + sold[m]
                              + (IF m = held_token THEN held_amount ELSE 0)
    BY DEF IInv, TypeOK, Ledgers, PurchasesAccounted
  <2>2. \A m \in Mints : /\ total_burned'[m] = total_burned[m] + burned_now(m)
                         /\ sold'[m] = sold[m] + sold_now(m)
    BY DEF execute_carnage_core
  <2>3. bought \in [Mints -> Nat] /\ bought' = [bought EXCEPT ![t] = @ + tokens_bought]
    BY DEF execute_carnage_core, IInv, TypeOK
  <2>4. \A m \in Mints :
          bought'[m] = bought[m] + (IF m = t THEN tokens_bought ELSE 0)
    BY <1>1, <2>1, <2>3
  <2>5. held_token' = t /\ held_amount' = tokens_bought
    BY DEF execute_carnage_core
  <2> QED  BY <1>1, <1>3, <2>1, <2>2, <2>4, <2>5 DEF PurchasesAccounted
<1>8. SolAccounted'
  <2>1. sol_vault + carnage_wsol + total_sol_spent + bounties
          = deposited + proceeds + wsol_gifts
    BY DEF IInv, Ledgers, SolAccounted
  <2> DEFINE o == disposal.output
  <2>2. /\ sol_vault' = sol_vault - wrap_amount
        /\ carnage_wsol' = carnage_wsol + o + wrap_amount - total_buy_amount
        /\ total_sol_spent' = total_sol_spent + total_buy_amount
        /\ proceeds' = proceeds + o
        /\ UNCHANGED <<bounties, deposited, wsol_gifts>>
    BY DEF execute_carnage_core, giftVars, sol_spent
  <2>3. /\ sol_vault \in Nat /\ carnage_wsol \in Nat /\ total_sol_spent \in Nat
        /\ bounties \in Nat /\ deposited \in Nat /\ proceeds \in Nat /\ wsol_gifts \in Nat
        /\ o \in Nat
    BY <1>1 DEF IInv, TypeOK
  <2> HIDE DEF o
  <2> QED  BY <1>1, <2>1, <2>2, <2>3 DEF SolAccounted
<1>9. ActionFits'
  BY <1>1 DEF execute_carnage_core, ActionFits
<1>10. PoolsAlive'
  BY <1>4 DEF PoolsAlive
<1> QED  BY <1>5, <1>6, <1>7, <1>8, <1>9, <1>10 DEF IInv, Ledgers

\* A trade leaves the fund alone and both pools alive.
LEMMA TradeStep ==
  ASSUME IInv, NEW m \in Mints, NEW amount \in Nat, Trade(m, amount)
  PROVE  IInv'
<1>1. /\ reserve_sol \in [Mints -> Nat \ {0}] /\ reserve_token \in [Mints -> Nat \ {0}]
  BY DEF IInv, TypeOK, PoolsAlive
<1>2. /\ reserve_sol' \in [Mints -> Nat \ {0}] /\ reserve_token' \in [Mints -> Nat \ {0}]
  <2>1. CASE /\ reserve_sol' = [reserve_sol EXCEPT ![m] = @ + amount]
             /\ reserve_token' = [reserve_token EXCEPT ![m] =
                  @ - swap_exempt_output(reserve_sol[m], reserve_token[m], amount)]
    <3> DEFINE y == swap_exempt_output(reserve_sol[m], reserve_token[m], amount)
    <3>1. y \in Nat /\ y < reserve_token[m]
      BY <1>1, LaneOutput
    <3> HIDE DEF y
    <3>2. reserve_token' = [reserve_token EXCEPT ![m] = @ - y]
      BY <2>1 DEF y
    <3> QED  BY <1>1, <2>1, <3>1, <3>2
  <2>2. CASE /\ reserve_sol' = sell_into(m, amount).sol
             /\ reserve_token' = sell_into(m, amount).token
    <3> DEFINE y == swap_exempt_output(reserve_token[m], reserve_sol[m], amount)
    <3>1. y \in Nat /\ y < reserve_sol[m]
      BY <1>1, LaneOutput
    <3>2. /\ reserve_sol' = [reserve_sol EXCEPT ![m] = @ - y]
          /\ reserve_token' = [reserve_token EXCEPT ![m] = @ + amount]
      BY <2>2 DEF sell_into
    <3> HIDE DEF y
    <3> QED  BY <1>1, <3>1, <3>2
  <2> QED  BY <2>1, <2>2 DEF Trade
<1>3. UNCHANGED <<sol_vault, carnage_wsol, vault, stateVars, epochVars, flowVars, giftVars>>
      /\ trades' = trades + 1
  BY DEF Trade
<1>4. reserve_sol' \in [Mints -> Nat] /\ reserve_token' \in [Mints -> Nat] /\ PoolsAlive'
  BY <1>2 DEF PoolsAlive
<1>5. TypeOK'
  BY <1>3, <1>4 DEF IInv, TypeOK, stateVars, epochVars, flowVars, giftVars
<1>6. Ledgers' /\ ActionFits'
  BY <1>3 DEF IInv, Ledgers, HoldingsInVault, PurchasesAccounted, SolAccounted, ActionFits,
     stateVars, epochVars, flowVars, giftVars
<1> QED  BY <1>4, <1>5, <1>6 DEF IInv

\* Deposits, bounties and gifts move one amount each.
LEMMA FlowStep ==
  ASSUME IInv,
         \/ \E lamports \in Nat : Deposit(lamports)
         \/ PayBounty \/ GiftWsol \/ \E m \in Mints : GiftToken(m)
  PROVE  IInv'
<1> USE DEF IInv, Ledgers, ActionFits, PoolsAlive,
        stateVars, epochVars, poolVars, flowVars, giftVars
<1>1. ASSUME NEW lamports \in Nat, Deposit(lamports) PROVE IInv'
  <2>1. TypeOK'
    BY <1>1 DEF Deposit, TypeOK
  <2>2. HoldingsInVault' /\ PurchasesAccounted' /\ SolAccounted'
    BY <1>1 DEF Deposit, TypeOK, HoldingsInVault, PurchasesAccounted, SolAccounted
  <2> QED  BY <1>1, <2>1, <2>2 DEF Deposit
<1>2. CASE PayBounty
  <2>1. TypeOK'
    BY <1>2, FundAssumption DEF PayBounty, TypeOK, bounty_affordable
  <2>2. HoldingsInVault' /\ PurchasesAccounted' /\ SolAccounted'
    BY <1>2, FundAssumption
    DEF PayBounty, TypeOK, HoldingsInVault, PurchasesAccounted, SolAccounted
  <2> QED  BY <1>2, <2>1, <2>2 DEF PayBounty
<1>3. CASE GiftWsol
  <2>1. TypeOK'
    BY <1>3 DEF GiftWsol, TypeOK
  <2>2. HoldingsInVault' /\ PurchasesAccounted' /\ SolAccounted'
    BY <1>3 DEF GiftWsol, TypeOK, HoldingsInVault, PurchasesAccounted, SolAccounted
  <2> QED  BY <1>3, <2>1, <2>2 DEF GiftWsol
<1>4. ASSUME NEW m \in Mints, GiftToken(m) PROVE IInv'
  <2>1. TypeOK'
    BY <1>4 DEF GiftToken, TypeOK
  <2>2. HoldingsInVault' /\ PurchasesAccounted' /\ SolAccounted'
    BY <1>4 DEF GiftToken, TypeOK, HoldingsInVault, PurchasesAccounted, SolAccounted
  <2> QED  BY <1>4, <2>1, <2>2 DEF GiftToken
<1> QED  BY <1>1, <1>2, <1>3, <1>4

\* Scheduling draws an action that fits; expiry leaves none pending.
LEMMA PendingStep ==
  ASSUME IInv, ScheduleCarnage \/ ExpireCarnage \/ UNCHANGED vars
  PROVE  IInv'
<1> USE DEF stateVars, epochVars, poolVars, flowVars, giftVars
<1>1. CASE ScheduleCarnage
  <2>1. carnage_action' \in Actions
        /\ (held_amount > 0 <=> carnage_action' # "None")
    BY <1>1 DEF ScheduleCarnage, get_carnage_action, Actions
  <2>2. TypeOK'
    BY <1>1, <2>1 DEF ScheduleCarnage, IInv, TypeOK
  <2>3. Ledgers' /\ PoolsAlive'
    BY <1>1 DEF ScheduleCarnage, IInv, Ledgers, HoldingsInVault, PurchasesAccounted,
       SolAccounted, PoolsAlive
  <2>4. ActionFits'
    BY <1>1, <2>1 DEF ScheduleCarnage, IInv, ActionFits
  <2> QED  BY <2>2, <2>3, <2>4 DEF IInv
<1>2. CASE ExpireCarnage
  <2>1. TypeOK'
    BY <1>2 DEF ExpireCarnage, IInv, TypeOK, Actions
  <2>2. Ledgers' /\ PoolsAlive' /\ ActionFits'
    BY <1>2 DEF ExpireCarnage, IInv, Ledgers, HoldingsInVault, PurchasesAccounted,
       SolAccounted, PoolsAlive, ActionFits
  <2> QED  BY <2>1, <2>2 DEF IInv
<1>3. CASE UNCHANGED vars
  BY <1>3 DEF vars, IInv, TypeOK, Ledgers, HoldingsInVault, PurchasesAccounted,
     SolAccounted, PoolsAlive, ActionFits
<1> QED  BY <1>1, <1>2, <1>3

\* Every step keeps the invariant.
LEMMA NextIInv == IInv /\ [Next]_vars => IInv'
<1> SUFFICES ASSUME IInv, [Next]_vars PROVE IInv'
  OBVIOUS
<1>1. CASE execute_carnage_atomic
  BY <1>1, ExecuteStep DEF execute_carnage_atomic
<1>2. CASE execute_carnage
  BY <1>2, ExecuteStep DEF execute_carnage
<1>3. CASE \/ \E lamports \in Deposits : Deposit(lamports)
           \/ PayBounty \/ GiftWsol \/ \E m \in Mints : GiftToken(m)
  BY <1>3, FlowStep, FundAssumption
<1>4. ASSUME NEW m \in Mints, NEW amount \in Trades, Trade(m, amount) PROVE IInv'
  BY <1>4, TradeStep, FundAssumption
<1>5. CASE ScheduleCarnage \/ ExpireCarnage \/ UNCHANGED vars
  BY <1>5, PendingStep
<1> QED  BY <1>1, <1>2, <1>3, <1>4, <1>5 DEF Next

------------------------------------------------------------------------------
(* The theorems *)

\* The strengthened invariant holds in every reachable state.
THEOREM Invariance == Spec => []IInv
  BY InitIInv, NextIInv, PTL DEF Spec

\* Every field keeps its type; no balance is ever overdrawn.
THEOREM TypeCorrect == Spec => []TypeOK
<1>1. IInv => TypeOK
  BY DEF IInv
<1> QED  BY <1>1, Invariance, PTL

\* The vaults hold the recorded holdings and gifts: no execution orphans tokens.
THEOREM HoldingsBacked == Spec => []HoldingsInVault
<1>1. IInv => HoldingsInVault
  BY DEF IInv, Ledgers
<1> QED  BY <1>1, Invariance, PTL

\* Every purchase is burned, sold or still held.
THEOREM PurchasesTraced == Spec => []PurchasesAccounted
<1>1. IInv => PurchasesAccounted
  BY DEF IInv, Ledgers
<1> QED  BY <1>1, Invariance, PTL

\* All SOL that came in is held, spent or paid as a bounty.
THEOREM SolTraced == Spec => []SolAccounted
<1>1. IInv => SolAccounted
  BY DEF IInv, Ledgers
<1> QED  BY <1>1, Invariance, PTL

\* At any depth and rates the buy's price impact is below the friction.
THEOREM CapHolds == Spec => []CapBelowBreakEven
<1>1. IInv => CapBelowBreakEven
  <2> SUFFICES ASSUME IInv, carnage_pending PROVE CapBelowBreakEven
    BY DEF CapBelowBreakEven
  <2> DEFINE R == disposal.sol[carnage_target]
             D == total_buy_amount
             f == carnage_friction_bps(taxes[carnage_target])
             N == CARNAGE_CAP_K_NUM
             P == BPS * CARNAGE_CAP_K_DEN
  <2>1. /\ R \in Nat \ {0} /\ D \in Nat /\ D <= buy_cap /\ buy_cap \in Nat
        /\ f \in 1..CARNAGE_FRICTION_BPS_MAX
        /\ P * buy_cap <= R * f * N
    BY DisposalFacts, BuyFacts, CapFacts DEF IInv, TypeOK
  <2>2. P \in Nat /\ R * f * N \in Int
    BY <2>1, BasisAssumption, FundAssumption
  <2>3. P * D <= R * f * N
    <3>1. P * D <= P * buy_cap
      BY <2>1, <2>2, Scaled
    <3>2. P * D \in Int /\ P * buy_cap \in Int
      BY <2>1, <2>2
    <3> HIDE DEF P, R, f
    <3> QED  BY <2>1, <2>2, <3>1, <3>2
  <2>4. (R + D) * (R + D) * BPS < R * R * (BPS + f)
    BY <2>1, <2>3, ImpactBelow
  <2> QED  BY <2>4 DEF CapBelowBreakEven
<1> QED  BY <1>1, Invariance, PTL

\* No requirement of an execution refuses it but for a worthless sale or dust.
THEOREM ExecutionsPass == Spec => []OnlyDustReverts
<1>1. IInv => OnlyDustReverts
  <2> SUFFICES ASSUME IInv, carnage_pending,
                      NEW s \in {CARNAGE_SLIPPAGE_BPS_ATOMIC, CARNAGE_SLIPPAGE_BPS_FALLBACK},
                      sells => disposal.output > 0, ~dust(s)
               PROVE  disposal_accepted /\ buy_accepted(s)
    BY DEF OnlyDustReverts
  <2> DEFINE t == carnage_target
             R == disposal.sol[t]
             T == disposal.token[t]
             B == total_buy_amount
             e == calculate_effective_input(B, AMM_FEE_BPS)
  <2>1. /\ t \in Mints /\ R \in Nat \ {0} /\ T \in Nat \ {0}
        /\ disposal.output \in Nat /\ carnage_wsol \in Nat
        /\ B \in Nat /\ wrap_amount <= sol_vault /\ wrap_amount \in Nat
        /\ B <= disposal.output + wrap_amount
    BY DisposalFacts, BuyFacts DEF IInv, TypeOK
  <2>2. disposal_accepted
    <3>1. (sells \/ burns) => held_amount > 0 /\ held_token \in Mints
      BY DEF sells, burns, IInv, ActionFits
    <3>2. (sells \/ burns) => vault[held_token] >= held_amount
      BY <3>1 DEF IInv, TypeOK, Ledgers, HoldingsInVault
    <3>3. sells => swap_exempt_accepts(reserve_token[held_token],
                                       reserve_sol[held_token], held_amount)
      <4> SUFFICES ASSUME sells PROVE swap_exempt_accepts(reserve_token[held_token],
                                         reserve_sol[held_token], held_amount)
        OBVIOUS
      <4>1. /\ held_amount \in Nat
            /\ reserve_token[held_token] \in Nat \ {0}
            /\ reserve_sol[held_token] \in Nat \ {0}
        BY <3>1 DEF IInv, TypeOK, PoolsAlive
      <4>2. swap_exempt_output(reserve_token[held_token], reserve_sol[held_token],
                               held_amount) > 0
        BY DEF disposal, sell_into
      <4> QED  BY <4>1, <4>2, LaneAccepts
    <3> QED  BY <3>2, <3>3 DEF disposal_accepted
  <2>3. buy_accepted(s)
    <3> SUFFICES ASSUME B > 0
                 PROVE  /\ wrap_amount <= sol_vault
                        /\ B <= carnage_wsol + disposal.output + wrap_amount
                        /\ swap_exempt_accepts(R, T, B)
                        /\ tokens_bought >= slippage_floor(R, T, B, s)
      BY DEF buy_accepted
    <3>1. tokens_bought = swap_exempt_output(R, T, B)
      BY DEF tokens_bought
    <3>2. swap_exempt_output(R, T, B) # 0 /\ ~(e * BPS < B * s)
      BY DEF dust
    <3>3. swap_exempt_output(R, T, B) \in Nat /\ e \in Nat
      BY <2>1, LaneOutput
    <3>4. swap_exempt_accepts(R, T, B)
      BY <2>1, <3>2, <3>3, LaneAccepts
    <3>5. s \in Nat /\ e <= B
      BY <2>1, FundAssumption, BasisAssumption, EffectiveInput
    <3>6. e * BPS >= B * s
      <4>1. e * BPS \in Int /\ B * s \in Int
        BY <2>1, <3>3, <3>5, BasisAssumption
      <4> HIDE DEF e
      <4> QED  BY <3>2, <4>1
    <3>7. calculate_swap_output(R, T, e) >= slippage_floor(R, T, B, s)
      BY <2>1, <3>3, <3>5, <3>6, FloorCovered
    <3>8. tokens_bought >= slippage_floor(R, T, B, s)
      BY <3>1, <3>7 DEF swap_exempt_output
    <3>9. B <= carnage_wsol + disposal.output + wrap_amount
      <4> DEFINE o == disposal.output
      <4>1. o \in Nat /\ B <= o + wrap_amount
        BY <2>1
      <4> HIDE DEF o
      <4>2. B <= carnage_wsol + o + wrap_amount
        BY <2>1, <4>1
      <4> QED  BY <4>2 DEF o
    <3> QED  BY <2>1, <3>4, <3>8, <3>9
  <2> QED  BY <2>2, <2>3
<1> QED  BY <1>1, Invariance, PTL

\* A payment from the SOL vault leaves its rent.
THEOREM RentStays == Spec => RentKept
<1>1. IInv /\ [Next]_vars => [sol_vault' < sol_vault => sol_vault' >= RENT]_vars
  <2> SUFFICES ASSUME IInv, Next, sol_vault' < sol_vault PROVE sol_vault' >= RENT
    OBVIOUS
  <2>0. sol_vault \in Nat /\ RENT \in Nat /\ TRIGGER_BOUNTY_LAMPORTS \in Nat
        /\ Deposits \subseteq Nat
    BY FundAssumption DEF IInv, TypeOK
  <2>1. ASSUME NEW s, execute_carnage_core(s) PROVE sol_vault' >= RENT
    <3>1. sol_vault' = sol_vault - wrap_amount
      BY <2>1 DEF execute_carnage_core
    <3> QED  BY <2>0, <3>1, BuyFacts
  <2>2. CASE PayBounty
    BY <2>0, <2>2 DEF PayBounty, bounty_affordable
  <2>3. ASSUME NEW lamports \in Deposits, Deposit(lamports) PROVE FALSE
    BY <2>0, <2>3 DEF Deposit
  <2>4. CASE \/ ScheduleCarnage \/ ExpireCarnage \/ GiftWsol
             \/ \E m \in Mints : GiftToken(m)
             \/ \E m \in Mints, amount \in Trades : Trade(m, amount)
    BY <2>0, <2>4 DEF ScheduleCarnage, ExpireCarnage, GiftWsol, GiftToken, Trade
  <2> QED
    BY <2>1, <2>2, <2>3, <2>4 DEF Next, execute_carnage_atomic, execute_carnage
<1> QED  BY <1>1, Invariance, PTL DEF Spec, RentKept

================================================================================
