----------------------------- MODULE Votes_proofs -----------------------------
(***************************************************************************)
(* Proofs about the staking program, for every number of wallets,          *)
(* precision, cooldown and product width, and about the votes on top of    *)
(* it, for every week length and genesis.  The first part uses nothing of  *)
(* the votes; StakingUndisturbed, at the end, carries it over to VoteSpec. *)
(*                                                                         *)
(* Solvency is not inductive as RewardsAreFunded states it: it rounds each *)
(* wallet's share down, and the rounding of the next epoch starts from the *)
(* unrounded one.  The inductive form Covers compares, scaled by the       *)
(* precision, what is set aside with the unrounded products.               *)
(*                                                                         *)
(* BurnNeedsMajority speaks of the receipts as they stand now, while the   *)
(* singleton holds a copy taken at some finalization; Decided says the     *)
(* copy is still the tally, which holds because a finalized week is over   *)
(* and casts only reach the running one.                                   *)
(***************************************************************************)
EXTENDS Votes, IndexedSum_proofs

------------------------------------------------------------------------------
(* The ledgers *)

Earned    == Sum(rewards_earned, N)
Balances  == Sum(staked_balance, N)
accruals  == [u \in Users |-> accrual(u)]
Unsettled == Sum(accruals, N)

\* x lamports cover every earned counter and every unsettled product.
Covers(x) == PRECISION * (x - Earned) >= Unsettled

Reserve == escrow - RENT - gifts - pending_rewards

\* Before initialize_stake_pool nothing is recorded for anybody.
Blank ==
  ~initialized =>
    /\ stake_vault = 0 /\ pending_rewards = 0 /\ total_staked = 0
    /\ staked_balance = [u \in Users |-> 0]
    /\ rewards_earned = [u \in Users |-> 0]
    /\ owner = [u \in Users |-> FALSE]

Funded      == initialized => Covers(Reserve)
Distributed == Covers(total_distributed - total_claimed)

\* The account remembers the last claim, or it is COOLDOWN_SECONDS old.
ClaimRemembered ==
  \A u \in Users :
    claimed_at[u] > 0 =>
      /\ owner[u]
      /\ \/ last_claim_ts[u] = claimed_at[u]
         \/ unix_timestamp - claimed_at[u] >= COOLDOWN_SECONDS

\* The lamports there are, and those ever handed out, are counted in u64.
Counted == escrow <= U64_MAX /\ total_distributed <= U64_MAX

\* The dead stake keeps every divisor up, hence the cumulative down.
CumulativeBounded ==
  MINIMUM_STAKE * rewards_per_token_stored <= PRECISION * total_distributed

IInv ==
  /\ TypeOK /\ Blank /\ StakeIsBacked /\ Funded /\ Distributed
  /\ ClaimRemembered /\ Counted /\ CumulativeBounded

------------------------------------------------------------------------------
(* Arithmetic *)

\* The constants the sums are taken with.
LEMMA ConstantTypes ==
  N \in Nat /\ PRECISION \in Nat \ {0}
  BY StakingAssumption

\* Sums over the wallets are linear, at the family's length.
LEMMA WalletCombination ==
  ASSUME NEW a \in [1..N -> Int], NEW b \in [1..N -> Int],
         NEW h \in [1..N -> Int], NEW c \in Int,
         \A u \in 1..N : h[u] = a[u] + c * b[u]
  PROVE  Sum(h, N) = Sum(a, N) + c * Sum(b, N)
<1>1. N \in Nat
  BY ConstantTypes
<1> QED  BY <1>1, SumCombination, Zenon

\* Linearity with coefficient one: what is claimable is earned plus accrued.
LEMMA ClaimSum ==
  ASSUME NEW e, e \in [1..N -> Int], NEW k, k \in [1..N -> Int],
         NEW m, m \in [1..N -> Int], 1 \in Int,
         \A u \in 1..N : m[u] = e[u] + 1 * k[u]
  PROVE  Sum(m, N) = Sum(e, N) + 1 * Sum(k, N)
  BY WalletCombination, Zenon

\* Linearity with coefficient PRECISION, the unit of the cumulative.
LEMMA ScaledSum ==
  ASSUME NEW z, z \in [1..N -> Int], NEW k, k \in [1..N -> Int],
         NEW s, s \in [1..N -> Int], PRECISION \in Int,
         \A u \in 1..N : s[u] = z[u] + PRECISION * k[u]
  PROVE  Sum(s, N) = Sum(z, N) + PRECISION * Sum(k, N)
  BY WalletCombination, Zenon

USE ConstantTypes

\* A floor quotient, bounded on both sides.
LEMMA DivFacts ==
  ASSUME NEW x \in Nat, NEW p \in Nat \ {0}
  PROVE  /\ x \div p \in Nat
         /\ p * (x \div p) <= x
         /\ x < p * (x \div p) + p
  OBVIOUS

\* What a wallet accrued since its checkpoint, and the rounding of its share.
LEMMA AccrualType ==
  ASSUME TypeOK, NEW u \in Users
  PROVE  /\ accrual(u) \in Nat /\ accrued(u) \in Nat /\ claimable(u) \in Nat
         /\ PRECISION * accrued(u) <= accrual(u)
         /\ accrual(u) < PRECISION * accrued(u) + PRECISION
<1>1. /\ staked_balance[u] \in Nat /\ rewards_earned[u] \in Nat
      /\ rewards_per_token_stored - rewards_per_token_paid[u] \in Nat
  BY DEF TypeOK
<1>2. accrual(u) \in Nat
  BY <1>1 DEF accrual
<1>3. /\ accrued(u) \in Nat
      /\ PRECISION * accrued(u) <= accrual(u)
      /\ accrual(u) < PRECISION * accrued(u) + PRECISION
  BY <1>2, DivFacts DEF accrued
<1> QED  BY <1>1, <1>2, <1>3 DEF claimable

\* The families and sums the invariants are stated with have their types.
LEMMA LedgerTypes ==
  ASSUME TypeOK
  PROVE  /\ accruals \in [1..N -> Int] /\ staked_balance \in [1..N -> Int]
         /\ rewards_earned \in [1..N -> Int]
         /\ Earned \in Nat /\ Balances \in Nat /\ Unsettled \in Nat
<1>1. staked_balance \in [1..N -> Nat] /\ rewards_earned \in [1..N -> Nat]
  BY DEF TypeOK, Users
<1>2. accruals \in [1..N -> Nat]
  BY AccrualType DEF accruals, Users
<1>3. Earned \in Nat
  BY <1>1, SumNat DEF Earned
<1>4. Balances \in Nat
  BY <1>1, SumNat DEF Balances
<1>5. Unsettled \in Nat
  BY <1>2, SumNat DEF Unsettled
<1>6. \A f \in [1..N -> Nat] : f \in [1..N -> Int]
  OBVIOUS
<1> QED  BY <1>1, <1>2, <1>3, <1>4, <1>5, <1>6

\* Multiplying by a natural keeps an order.
LEMMA Scale ==
  ASSUME NEW p \in Nat, NEW a \in Int, NEW b \in Int, a <= b
  PROVE  p * a <= p * b /\ p * a \in Int /\ p * b \in Int
  OBVIOUS

\* Multiplying by a positive natural keeps a strict order.
LEMMA ScaleStrict ==
  ASSUME NEW p \in Nat \ {0}, NEW a \in Int, NEW b \in Int, a < b
  PROVE  p * a < p * b
  OBVIOUS

\* What one wallet's settlement does to the two sides of Covers.
LEMMA SettleArithmetic ==
  ASSUME NEW p \in Nat, NEW x \in Int, NEW y \in Int, NEW e \in Int,
         NEW e1 \in Int, NEW w \in Int, NEW old \in Int, NEW new \in Int,
         NEW a \in Int, NEW k \in Int,
         p * (x - e) >= w, p * k <= a,
         e1 = e - old + new, y >= x - (old + k) + new
  PROVE  p * (y - e1) >= w - a
<1>1. (x - e) - k <= y - e1
  OBVIOUS
<1>2. p * ((x - e) - k) <= p * (y - e1)
  BY <1>1, Scale
<1>3. p * ((x - e) - k) = p * (x - e) - p * k
  OBVIOUS
<1>4. p * (x - e) \in Int /\ p * k \in Int /\ p * (y - e1) \in Int
  OBVIOUS
<1> QED  BY <1>2, <1>3, <1>4

------------------------------------------------------------------------------
(* A step that settles one wallet *)

\* update_rewards of u, with the cumulative and the other balances unchanged.
Settles(u, earned) ==
  /\ update_rewards(u, earned)
  /\ rewards_per_token_stored' = rewards_per_token_stored
  /\ \A v \in Users \ {u} : staked_balance'[v] = staked_balance[v]

claims == [u \in Users |-> claimable(u)]

\* The family of the wallets' claims is one of naturals.
LEMMA ClaimsType ==
  ASSUME TypeOK
  PROVE  claims \in [1..N -> Nat] /\ claims \in [1..N -> Int]
  BY AccrualType DEF claims, Users

\* Settling one wallet changes no other wallet's claim.
LEMMA SettledClaims ==
  ASSUME TypeOK, TypeOK', NEW u \in Users, NEW earned \in Nat,
         Settles(u, earned)
  PROVE  /\ accrual(u)' = 0 /\ claimable(u)' = earned
         /\ \A v \in Users \ {u} : /\ accrual(v)' = accrual(v)
                                   /\ claimable(v)' = claimable(v)
<1>1. /\ rewards_earned'[u] = earned
      /\ rewards_per_token_paid'[u] = rewards_per_token_stored'
  BY DEF Settles, update_rewards, TypeOK
<1>2. staked_balance'[u] \in Nat /\ rewards_per_token_stored' \in Nat
  BY DEF TypeOK
<1>3. accrual(u)' = 0
  BY <1>1, <1>2 DEF accrual
<1>4. accrued(u)' = 0
  BY <1>3 DEF accrued
<1>5. claimable(u)' = earned
  BY <1>1, <1>4 DEF claimable
<1>6. ASSUME NEW v \in Users \ {u}
      PROVE  accrual(v)' = accrual(v) /\ claimable(v)' = claimable(v)
  <2>1. /\ rewards_earned'[v] = rewards_earned[v]
        /\ rewards_per_token_paid'[v] = rewards_per_token_paid[v]
        /\ staked_balance'[v] = staked_balance[v]
        /\ rewards_per_token_stored' = rewards_per_token_stored
    BY DEF Settles, update_rewards, TypeOK
  <2> QED  BY <2>1 DEF accrual, accrued, claimable
<1> QED  BY <1>3, <1>5, <1>6

\* Settling one wallet moves its own share in the sums, and nothing else.
LEMMA SettledSums ==
  ASSUME TypeOK, TypeOK', NEW u \in Users, NEW earned \in Nat,
         Settles(u, earned)
  PROVE  /\ Earned' = Earned - rewards_earned[u] + earned
         /\ Unsettled' = Unsettled - accrual(u)
         /\ Sum(claims, N)' = Sum(claims, N) - claimable(u) + earned
<1>1. /\ accrual(u)' = 0 /\ claimable(u)' = earned
      /\ \A v \in Users \ {u} : /\ accrual(v)' = accrual(v)
                                /\ claimable(v)' = claimable(v)
  BY SettledClaims
<1>2. rewards_earned' = [rewards_earned EXCEPT ![u] = earned]
  BY DEF Settles, update_rewards
<1>3. accruals[u] = accrual(u) /\ accruals'[u] = 0
      /\ \A v \in 1..N : v # u => accruals'[v] = accruals[v]
  BY <1>1 DEF accruals, Users
<1>4. claims[u] = claimable(u) /\ claims'[u] = earned
      /\ \A v \in 1..N : v # u => claims'[v] = claims[v]
  BY <1>1 DEF claims, Users
<1>5. ASSUME NEW v \in Users PROVE accrual(v)' \in Int /\ claimable(v)' \in Int
  <2>1. accrual(v) \in Int /\ claimable(v) \in Int
    BY AccrualType
  <2>2. CASE v = u
    BY <1>1, <2>2
  <2>3. CASE v # u
    BY <1>1, <2>1, <2>3
  <2> QED  BY <2>2, <2>3
<1>6. u \in 1..N
  BY DEF Users
<1>7. Earned' = Earned - rewards_earned[u] + earned
  <2>1. rewards_earned \in [1..N -> Int]
    BY LedgerTypes
  <2>2. rewards_earned' \in [1..N -> Int]
    BY DEF TypeOK, Users
  <2>3. rewards_earned'[u] = earned
        /\ \A v \in 1..N : v # u => rewards_earned'[v] = rewards_earned[v]
    BY <1>2, <1>6, <2>1
  <2>4. Sum(rewards_earned', N)
          = Sum(rewards_earned, N) - rewards_earned[u] + rewards_earned'[u]
    BY <1>6, <2>1, <2>2, <2>3, SumPointwise
  <2> QED  BY <2>3, <2>4 DEF Earned
<1>8. Unsettled' = Unsettled - accrual(u) + 0
  <2>1. accruals \in [1..N -> Int]
    BY LedgerTypes
  <2>2. accruals' \in [1..N -> Int]
    BY <1>5 DEF accruals, Users
  <2>3. Sum(accruals', N) = Sum(accruals, N) - accruals[u] + accruals'[u]
    BY <1>3, <1>6, <2>1, <2>2, SumPointwise
  <2> QED  BY <1>3, <2>3 DEF Unsettled
<1>9. Sum(claims, N)' = Sum(claims, N) - claimable(u) + earned
  <2>1. claims \in [1..N -> Int]
    BY ClaimsType
  <2>2. claims' \in [1..N -> Int]
    BY <1>5 DEF claims, Users
  <2>3. Sum(claims', N) = Sum(claims, N) - claims[u] + claims'[u]
    BY <1>4, <1>6, <2>1, <2>2, SumPointwise
  <2> QED  BY <1>4, <2>3
<1> QED  BY <1>7, <1>8, <1>9, LedgerTypes, AccrualType

\* A settlement keeps covered whatever is reduced by no more than it clears.
LEMMA SettleCovers ==
  ASSUME TypeOK, TypeOK', NEW u \in Users, NEW earned \in Nat,
         Settles(u, earned), NEW x \in Int, NEW y \in Int, Covers(x),
         y >= x - claimable(u) + earned
  PROVE  PRECISION * (y - Earned') >= Unsettled'
<1>1. Earned' = Earned - rewards_earned[u] + earned
      /\ Unsettled' = Unsettled - accrual(u)
  BY SettledSums
<1>2. Earned \in Int /\ Unsettled \in Int /\ rewards_earned[u] \in Int
      /\ accrual(u) \in Int /\ accrued(u) \in Int
      /\ PRECISION * accrued(u) <= accrual(u)
  <2>1. Earned \in Int /\ Unsettled \in Int
    BY LedgerTypes
  <2>2. rewards_earned[u] \in Int
    BY DEF TypeOK
  <2> QED  BY <2>1, <2>2, AccrualType
<1>3. Earned' \in Int
  BY <1>1, <1>2
<1>4. y >= x - (rewards_earned[u] + accrued(u)) + earned
  BY DEF claimable
<1>5. PRECISION * (x - Earned) >= Unsettled
  BY DEF Covers
<1>6. PRECISION \in Nat /\ earned \in Int
  OBVIOUS
<1>7. PRECISION * (y - Earned') >= Unsettled - accrual(u)
  BY <1>1, <1>2, <1>3, <1>4, <1>5, <1>6, SettleArithmetic
<1> QED  BY <1>1, <1>7

------------------------------------------------------------------------------
(* A step that closes an epoch, and steps that touch no wallet *)

\* A close adds its gain to every wallet's accrual in proportion to the balance.
LEMMA EpochSums ==
  ASSUME TypeOK, NEW g \in Nat,
         rewards_per_token_stored' = rewards_per_token_stored + g,
         UNCHANGED <<staked_balance, rewards_per_token_paid, rewards_earned>>
  PROVE  /\ Earned' = Earned /\ Balances' = Balances
         /\ Unsettled' = Unsettled + g * Balances
         /\ \A u \in Users : accrual(u)' = accrual(u) + g * staked_balance[u]
<1>1. Earned' = Earned /\ Balances' = Balances
  BY DEF Earned, Balances
<1>2. ASSUME NEW u \in Users
      PROVE  accrual(u)' = accrual(u) + g * staked_balance[u]
  <2>1. staked_balance[u] \in Int
        /\ rewards_per_token_stored - rewards_per_token_paid[u] \in Int
    BY DEF TypeOK
  <2>2. accrual(u)' = staked_balance[u]
          * ((rewards_per_token_stored - rewards_per_token_paid[u]) + g)
    BY DEF accrual, TypeOK
  <2>3. \A b, d \in Int : b * (d + g) = b * d + g * b
    OBVIOUS
  <2> QED  BY <2>1, <2>2, <2>3 DEF accrual
<1>3. accruals \in [1..N -> Int] /\ staked_balance \in [1..N -> Int]
  BY LedgerTypes
<1>4. \A u \in 1..N : accruals'[u] = accruals[u] + g * staked_balance[u]
  BY <1>2 DEF accruals, Users
<1>5. accruals' \in [1..N -> Int]
  <2>1. \A u \in Users : accrual(u) \in Int /\ g * staked_balance[u] \in Int
    BY AccrualType DEF TypeOK
  <2>2. \A u \in Users : accrual(u)' \in Int
    BY <1>2, <2>1
  <2> QED  BY <2>2 DEF accruals, Users
<1>6. Sum(accruals', N) = Sum(accruals, N) + g * Sum(staked_balance, N)
  <2>1. \A a, b, h \in [1..N -> Int] :
          (\A u \in 1..N : h[u] = a[u] + g * b[u])
            => Sum(h, N) = Sum(a, N) + g * Sum(b, N)
    <3> g \in Int  OBVIOUS
    <3> QED  BY SumCombination
  <2> QED  BY <1>3, <1>4, <1>5, <2>1
<1>7. Unsettled' = Unsettled + g * Balances
  BY <1>6 DEF Unsettled, Balances
<1> QED  BY <1>1, <1>2, <1>7

\* Steps that leave the ledgers alone leave the sums alone.
LEMMA FrameSums ==
  ASSUME UNCHANGED <<staked_balance, rewards_per_token_paid, rewards_earned,
                     rewards_per_token_stored>>
  PROVE  /\ Earned' = Earned /\ Balances' = Balances /\ Unsettled' = Unsettled
         /\ Sum(claims, N)' = Sum(claims, N)
         /\ \A u \in Users : claimable(u)' = claimable(u)
<1>1. \A u \in Users : accrual(u)' = accrual(u) /\ claimable(u)' = claimable(u)
  BY DEF accrual, accrued, claimable
<1>2. accruals' = accruals /\ claims' = claims
  BY <1>1 DEF accruals, claims
<1> QED  BY <1>1, <1>2 DEF Earned, Balances, Unsettled

------------------------------------------------------------------------------
(* The steps, one lemma each for what the conjuncts of IInv need of it *)

\* What a stake does to the ledgers.
LEMMA StakeFacts ==
  ASSUME TypeOK, NEW u \in Users, NEW amount \in 1..Purse, stake(u, amount)
  PROVE  /\ claimable(u) \in Nat /\ amount \in Nat /\ initialized
         /\ Settles(u, claimable(u))
         /\ staked_balance' = [staked_balance EXCEPT ![u] = @ + amount]
<1>1. claimable(u) \in Nat
  BY AccrualType
<1>2. staked_balance' = [staked_balance EXCEPT ![u] = @ + amount]
  BY DEF stake
<1>3. amount \in Nat
  BY StakingAssumption
<1>4. \A v \in Users \ {u} : staked_balance'[v] = staked_balance[v]
  BY <1>2 DEF TypeOK
<1>5. Settles(u, claimable(u))
  BY <1>4 DEF stake, Settles
<1> QED  BY <1>1, <1>2, <1>3, <1>5 DEF stake

\* What an unstake does to the ledgers, forfeited rewards included.
LEMMA UnstakeFacts ==
  ASSUME IInv, NEW u \in Users, NEW amount \in 1..Purse, unstake(u, amount)
  PROVE  /\ claimable(u) \in Nat /\ initialized
         /\ unstake_amount(u, amount) \in Nat
         /\ unstake_amount(u, amount) <= staked_balance[u]
         /\ staked_balance[u] <= total_staked
         /\ Settles(u, 0)
         /\ staked_balance' =
              [staked_balance EXCEPT ![u] = @ - unstake_amount(u, amount)]
<1> TypeOK
  BY DEF IInv
<1>1. claimable(u) \in Nat
  BY AccrualType
<1>2. initialized
  BY DEF unstake, IInv, Blank, TypeOK
<1>3. staked_balance' =
        [staked_balance EXCEPT ![u] = @ - unstake_amount(u, amount)]
  BY DEF unstake
<1>4. \A v \in Users \ {u} : staked_balance'[v] = staked_balance[v]
  BY <1>3 DEF TypeOK
<1>5. Settles(u, 0)
  BY <1>4 DEF unstake, Settles
<1>6. amount \in Nat /\ staked_balance[u] \in Nat /\ amount <= staked_balance[u]
  BY StakingAssumption DEF unstake, withdrawable, TypeOK
<1>7. unstake_amount(u, amount) \in Nat
      /\ unstake_amount(u, amount) <= staked_balance[u]
  BY <1>6 DEF unstake_amount
<1>8. staked_balance[u] <= Balances
  <2>1. staked_balance \in [1..N -> Nat] /\ u \in 1..N
    BY DEF TypeOK, Users
  <2> QED  BY <2>1, SumNat DEF Balances
<1>9. total_staked = MINIMUM_STAKE + Balances
  BY <1>2 DEF IInv, StakeIsBacked, Balances
<1>10. staked_balance[u] <= total_staked
  BY <1>6, <1>8, <1>9, LedgerTypes, StakingAssumption
<1> QED  BY <1>1, <1>2, <1>3, <1>5, <1>7, <1>10

\* What a claim does to the ledgers.
LEMMA ClaimFacts ==
  ASSUME TypeOK, NEW u \in Users, claim(u)
  PROVE  /\ claimable(u) \in Nat /\ claimable(u) <= escrow - RENT
         /\ escrow - claimable(u) \in Nat
         /\ Settles(u, 0)
         /\ staked_balance' = staked_balance
<1>1. claimable(u) \in Nat
  BY AccrualType
<1>2. escrow \in Nat /\ RENT \in Nat
  BY StakingAssumption DEF TypeOK
<1>3. claimable(u) > 0 /\ available >= claimable(u)
  BY DEF claim, payable
<1>4. claimable(u) <= escrow - RENT /\ escrow - claimable(u) \in Nat
  BY <1>1, <1>2, <1>3 DEF available
<1>5. staked_balance' = staked_balance
  BY DEF claim
<1>6. Settles(u, 0)
  BY <1>5 DEF claim, Settles
<1> QED  BY <1>1, <1>4, <1>5, <1>6

\* What an epoch's close does: its gain hands out no more than was pending.
LEMMA CloseFacts ==
  ASSUME TypeOK, NEW epoch \in 1..MaxEpoch, update_cumulative(epoch)
  PROVE  /\ gain \in Nat /\ handed_out \in Nat /\ handed_out <= pending_rewards
         /\ gain * total_staked <= PRECISION * handed_out
         /\ rewards_per_token_stored' = rewards_per_token_stored + gain
         /\ total_distributed' = total_distributed + handed_out
         /\ pending_rewards' = 0 /\ initialized
         /\ UNCHANGED <<userVars, total_staked, total_claimed, vaultVars, gifts>>
<1>1. /\ rewards_per_token_stored' = rewards_per_token_stored + gain
      /\ total_distributed' = total_distributed + handed_out
      /\ pending_rewards' = 0 /\ initialized
      /\ UNCHANGED <<userVars, total_staked, total_claimed, vaultVars, gifts>>
  BY DEF update_cumulative
<1>2. pending_rewards \in Nat /\ total_staked \in Nat
  BY DEF TypeOK
<1>3. handed_out \in Nat /\ handed_out <= pending_rewards
  BY <1>2 DEF handed_out, shared
<1>4. CASE pending_rewards > 0 /\ total_staked > 0
  <2>1. pending_rewards * PRECISION \in Nat /\ total_staked \in Nat \ {0}
    BY <1>2, <1>4
  <2>2. gain = (pending_rewards * PRECISION) \div total_staked
    BY <1>4 DEF gain, shared, reward_per_token
  <2>3. gain \in Nat /\ total_staked * gain <= pending_rewards * PRECISION
    BY <2>1, <2>2, DivFacts
  <2>4. handed_out = pending_rewards
    BY <1>4 DEF handed_out, shared
  <2>5. gain * total_staked = total_staked * gain
        /\ PRECISION * pending_rewards = pending_rewards * PRECISION
    BY <1>2, <2>3
  <2> QED  BY <1>1, <1>3, <2>3, <2>4, <2>5
<1>5. CASE ~(pending_rewards > 0 /\ total_staked > 0)
  <2>1. gain = 0 /\ handed_out = 0
    BY <1>5 DEF gain, handed_out, shared
  <2> QED  BY <1>1, <1>2, <1>3, <2>1
<1> QED  BY <1>4, <1>5

------------------------------------------------------------------------------
(* TypeOK *)

\* Every step keeps the types.
LEMMA TypeStep ==
  ASSUME IInv, [Next]_vars
  PROVE  TypeOK'
<1> TypeOK
  BY DEF IInv
<1>1. CASE initialize_stake_pool
  BY <1>1, StakingAssumption DEF initialize_stake_pool, TypeOK, userVars
<1>2. ASSUME NEW u \in Users, NEW amount \in 1..Purse, stake(u, amount)
      PROVE  TypeOK'
  <2>1. claimable(u) \in Nat /\ amount \in Nat
    BY <1>2, StakeFacts
  <2>2. /\ rewards_earned' \in [Users -> Nat]
        /\ rewards_per_token_paid' \in [Users -> Nat]
        /\ \A v \in Users : rewards_per_token_paid'[v] <= rewards_per_token_stored
    BY <1>2, <2>1 DEF stake, update_rewards, TypeOK
  <2>3. staked_balance' \in [Users -> Nat] /\ last_claim_ts' \in [Users -> Nat]
    BY <1>2, <2>1 DEF stake, TypeOK
  <2>4. owner' \in [Users -> BOOLEAN]
    BY <1>2 DEF stake, TypeOK
  <2>5. total_staked' \in Nat /\ stake_vault' \in Nat
    BY <1>2, <2>1 DEF stake, TypeOK
  <2> QED  BY <1>2, <2>2, <2>3, <2>4, <2>5 DEF stake, TypeOK
<1>3. ASSUME NEW u \in Users, NEW amount \in 1..Purse, unstake(u, amount)
      PROVE  TypeOK'
  <2> DEFINE out == unstake_amount(u, amount)
  <2>1. /\ claimable(u) \in Nat /\ out \in Nat /\ out <= staked_balance[u]
        /\ staked_balance[u] <= total_staked
        /\ staked_balance' = [staked_balance EXCEPT ![u] = @ - out]
    BY <1>3, UnstakeFacts
  <2>2. /\ rewards_earned' \in [Users -> Nat]
        /\ rewards_per_token_paid' \in [Users -> Nat]
        /\ \A v \in Users : rewards_per_token_paid'[v] <= rewards_per_token_stored
    BY <1>3 DEF unstake, update_rewards, TypeOK
  <2>3. last_claim_ts' \in [Users -> Nat]
    BY <1>3 DEF unstake, TypeOK
  <2>4. /\ total_staked' = total_staked - out
        /\ stake_vault' = stake_vault - out /\ stake_vault >= out
        /\ pending_rewards' = pending_rewards + claimable(u)
    BY <1>3 DEF unstake, releasable
  <2> HIDE DEF out
  <2>5. staked_balance' \in [Users -> Nat]
    BY <2>1 DEF TypeOK
  <2>6. /\ total_staked' \in Nat /\ stake_vault' \in Nat
        /\ pending_rewards' \in Nat
    BY <2>1, <2>4 DEF TypeOK
  <2> QED  BY <1>3, <2>2, <2>3, <2>5, <2>6 DEF unstake, TypeOK
<1>4. ASSUME NEW u \in Users, claim(u)
      PROVE  TypeOK'
  <2>1. claimable(u) \in Nat /\ escrow - claimable(u) \in Nat
    BY <1>4, ClaimFacts
  <2>2. /\ rewards_earned' \in [Users -> Nat]
        /\ rewards_per_token_paid' \in [Users -> Nat]
        /\ \A v \in Users : rewards_per_token_paid'[v] <= rewards_per_token_stored
    BY <1>4 DEF claim, update_rewards, TypeOK
  <2>3. last_claim_ts' \in [Users -> Nat] /\ claimed_at' \in [Users -> Nat]
    BY <1>4 DEF claim, TypeOK
  <2>4. escrow' \in Nat /\ total_claimed' \in Nat
    BY <1>4, <2>1 DEF claim, TypeOK
  <2> QED  BY <1>4, <2>2, <2>3, <2>4 DEF claim, TypeOK
<1>5. ASSUME NEW amount \in Deposits, deposit_rewards(amount)
      PROVE  TypeOK'
  BY <1>5, StakingAssumption DEF deposit_rewards, TypeOK, userVars
<1>6. ASSUME NEW epoch \in 1..MaxEpoch, update_cumulative(epoch)
      PROVE  TypeOK'
  <2>1. /\ gain \in Nat /\ handed_out \in Nat
        /\ rewards_per_token_stored' = rewards_per_token_stored + gain
        /\ total_distributed' = total_distributed + handed_out
    BY <1>6, CloseFacts
  <2>2. epoch \in Nat
    BY StakingAssumption
  <2> QED  BY <1>6, <2>1, <2>2
           DEF update_cumulative, TypeOK, userVars, vaultVars
<1>7. CASE Gift
  BY <1>7 DEF Gift, TypeOK, poolVars, userVars
<1>8. CASE Tick
  BY <1>8 DEF Tick, TypeOK, poolVars, userVars, vaultVars
<1>9. CASE UNCHANGED vars
  BY <1>9 DEF vars, TypeOK, poolVars, userVars, vaultVars
<1> QED
  BY <1>1, <1>2, <1>3, <1>4, <1>5, <1>6, <1>7, <1>8, <1>9 DEF Next

------------------------------------------------------------------------------
(* StakeIsBacked, and the blank pool before initialize_stake_pool *)

\* Every step keeps the stake backed by the vault.
LEMMA BackedStep ==
  ASSUME IInv, TypeOK', [Next]_vars
  PROVE  Blank' /\ StakeIsBacked'
<1> TypeOK /\ Blank /\ StakeIsBacked
  BY DEF IInv
<1>a. initialized => total_staked = MINIMUM_STAKE + Balances
                     /\ stake_vault = total_staked
  BY DEF StakeIsBacked, Balances
<1>b. /\ staked_balance \in [1..N -> Int] /\ staked_balance' \in [1..N -> Int]
      /\ Balances \in Nat
  <2>1. staked_balance \in [1..N -> Int] /\ Balances \in Nat
    BY LedgerTypes
  <2>2. staked_balance' \in [1..N -> Int]
    BY DEF TypeOK, Users
  <2> QED  BY <2>1, <2>2
<1>c. ASSUME initialized', total_staked' = MINIMUM_STAKE + Balances',
             stake_vault' = total_staked'
      PROVE  Blank' /\ StakeIsBacked'
  BY <1>c DEF Blank, StakeIsBacked, Balances
<1>1. CASE initialize_stake_pool
  <2>1. staked_balance = [u \in 1..N |-> 0] /\ stake_vault = 0
    BY <1>1 DEF initialize_stake_pool, Blank, Users
  <2>2. Balances = 0
    BY <2>1, SumZero DEF Balances
  <2>3. Balances' = Balances
    BY <1>1 DEF initialize_stake_pool, userVars, Balances
  <2> QED  BY <1>1, <1>c, <2>1, <2>2, <2>3, StakingAssumption
           DEF initialize_stake_pool
<1>2. ASSUME NEW u \in Users, NEW amount \in 1..Purse, stake(u, amount)
      PROVE  Blank' /\ StakeIsBacked'
  <2>1. staked_balance' = [staked_balance EXCEPT ![u] = @ + amount]
        /\ amount \in Nat /\ initialized
    BY <1>2, StakeFacts
  <2>2. u \in 1..N /\ staked_balance[u] \in Int
    BY <1>b DEF Users
  <2>3. staked_balance'[u] = staked_balance[u] + amount
        /\ \A v \in 1..N : v # u => staked_balance'[v] = staked_balance[v]
    BY <2>1, <2>2, <1>b
  <2>4. Balances' = Balances - staked_balance[u] + staked_balance'[u]
    BY <1>b, <2>2, <2>3, SumPointwise DEF Balances
  <2>5. Balances' = Balances + amount
    BY <1>b, <2>1, <2>2, <2>3, <2>4
  <2>6. total_staked' = total_staked + amount
        /\ stake_vault' = stake_vault + amount /\ initialized'
    BY <1>2 DEF stake
  <2>7. total_staked' = MINIMUM_STAKE + Balances'
    BY <1>a, <1>b, <2>1, <2>5, <2>6, StakingAssumption
  <2>8. stake_vault' = total_staked'
    BY <1>a, <2>1, <2>6
  <2> QED  BY <1>c, <2>6, <2>7, <2>8
<1>3. ASSUME NEW u \in Users, NEW amount \in 1..Purse, unstake(u, amount)
      PROVE  Blank' /\ StakeIsBacked'
  <2> DEFINE out == unstake_amount(u, amount)
  <2>1. staked_balance' = [staked_balance EXCEPT ![u] = @ - out]
        /\ out \in Nat /\ initialized
    BY <1>3, UnstakeFacts
  <2>6. total_staked' = total_staked - out
        /\ stake_vault' = stake_vault - out /\ initialized'
    BY <1>3, <2>1 DEF unstake
  <2> HIDE DEF out
  <2>2. u \in 1..N /\ staked_balance[u] \in Int
    BY <1>b DEF Users
  <2>3. staked_balance'[u] = staked_balance[u] - out
        /\ \A v \in 1..N : v # u => staked_balance'[v] = staked_balance[v]
    BY <2>1, <2>2, <1>b
  <2>4. Balances' = Balances - staked_balance[u] + staked_balance'[u]
    BY <1>b, <2>2, <2>3, SumPointwise DEF Balances
  <2>5. Balances' = Balances - out
    BY <1>b, <2>1, <2>2, <2>3, <2>4
  <2>7. total_staked' = MINIMUM_STAKE + Balances'
    BY <1>a, <1>b, <2>1, <2>5, <2>6, StakingAssumption
  <2>8. stake_vault' = total_staked'
    BY <1>a, <2>1, <2>6
  <2> QED  BY <1>c, <2>6, <2>7, <2>8
<1>4. ASSUME NEW u \in Users, claim(u)
      PROVE  Blank' /\ StakeIsBacked'
  <2>1. initialized
    BY <1>4 DEF claim, Blank, TypeOK
  <2> QED  BY <1>4, <1>a, <1>c, <2>1 DEF claim, Balances
<1>5. ASSUME NEW amount \in Deposits, deposit_rewards(amount)
      PROVE  Blank' /\ StakeIsBacked'
  BY <1>5, <1>a, <1>c DEF deposit_rewards, userVars, Balances
<1>6. ASSUME NEW epoch \in 1..MaxEpoch, update_cumulative(epoch)
      PROVE  Blank' /\ StakeIsBacked'
  BY <1>6, <1>a, <1>c DEF update_cumulative, userVars, vaultVars, Balances
<1>7. CASE Gift
  BY <1>7 DEF Gift, poolVars, userVars, Blank, StakeIsBacked
<1>8. CASE Tick
  BY <1>8 DEF Tick, poolVars, userVars, vaultVars, Blank, StakeIsBacked
<1>9. CASE UNCHANGED vars
  BY <1>9 DEF vars, poolVars, userVars, vaultVars, Blank, StakeIsBacked
<1> QED
  BY <1>1, <1>2, <1>3, <1>4, <1>5, <1>6, <1>7, <1>8, <1>9 DEF Next

------------------------------------------------------------------------------
(* Solvency *)

\* Every step keeps the claims covered by the escrow and by the distributions.
LEMMA CoverStep ==
  ASSUME IInv, TypeOK', [Next]_vars
  PROVE  Funded' /\ Distributed'
<1> TypeOK /\ Blank /\ Funded /\ Distributed
  BY DEF IInv
<1> DEFINE D == total_distributed - total_claimed
<1>a. /\ Reserve \in Int /\ D \in Int /\ Reserve' \in Int /\ D' \in Int
      /\ Earned \in Nat /\ Unsettled \in Nat
  <2>1. Earned \in Nat /\ Unsettled \in Nat
    BY LedgerTypes
  <2>2. D \in Int /\ D' \in Int
    BY DEF TypeOK
  <2>3. Reserve \in Int
    BY StakingAssumption DEF TypeOK, Reserve
  <2>4. Reserve' \in Int
    BY StakingAssumption DEF TypeOK, Reserve
  <2> HIDE DEF D
  <2> QED  BY <2>1, <2>2, <2>3, <2>4
<1>b. Covers(D) /\ (initialized => Covers(Reserve))
  BY DEF Funded, Distributed
<1>c. ASSUME initialized' => PRECISION * (Reserve' - Earned') >= Unsettled',
             PRECISION * (D' - Earned') >= Unsettled'
      PROVE  Funded' /\ Distributed'
  BY <1>c DEF Funded, Distributed, Covers
\* A step that settles u keeps both covers when it clears enough of each.
<1>d. ASSUME NEW u \in Users, NEW earned \in Nat, Settles(u, earned), initialized,
             Reserve' >= Reserve - claimable(u) + earned,
             D' >= D - claimable(u) + earned
      PROVE  Funded' /\ Distributed'
  <2> HIDE DEF D
  <2>1. PRECISION * (Reserve' - Earned') >= Unsettled'
    BY <1>a, <1>b, <1>d, SettleCovers
  <2>2. PRECISION * (D' - Earned') >= Unsettled'
    BY <1>a, <1>b, <1>d, SettleCovers
  <2> QED  BY <1>c, <2>1, <2>2
\* A step that leaves the wallets and the cumulative alone.
<1>e. ASSUME UNCHANGED <<staked_balance, rewards_per_token_paid, rewards_earned,
                         rewards_per_token_stored>>,
             initialized' => initialized /\ Reserve' >= Reserve, D' >= D
      PROVE  Funded' /\ Distributed'
  <2> HIDE DEF D
  <2>1. Earned' = Earned /\ Unsettled' = Unsettled
    BY <1>e, FrameSums
  <2>2. ASSUME NEW x \in Int, NEW y \in Int, y >= x, Covers(x)
        PROVE  PRECISION * (y - Earned) >= Unsettled
    <3>1. x - Earned \in Int /\ y - Earned \in Int /\ x - Earned <= y - Earned
      BY <1>a, <2>2
    <3>2. PRECISION * (x - Earned) <= PRECISION * (y - Earned)
          /\ PRECISION * (x - Earned) \in Int /\ PRECISION * (y - Earned) \in Int
      BY <3>1, Scale
    <3>3. PRECISION * (x - Earned) >= Unsettled
      BY <2>2 DEF Covers
    <3> QED  BY <1>a, <3>2, <3>3
  <2>3. PRECISION * (D' - Earned') >= Unsettled'
    BY <1>a, <1>b, <1>e, <2>1, <2>2
  <2>4. initialized' => PRECISION * (Reserve' - Earned') >= Unsettled'
    BY <1>a, <1>b, <1>e, <2>1, <2>2
  <2> QED  BY <1>c, <2>3, <2>4
<1>1. CASE initialize_stake_pool
  <2>1. /\ rewards_earned = [u \in 1..N |-> 0] /\ pending_rewards = 0
        /\ staked_balance = [u \in Users |-> 0]
    BY <1>1 DEF initialize_stake_pool, Blank, Users
  <2>2. UNCHANGED <<staked_balance, rewards_per_token_paid, rewards_earned,
                    rewards_per_token_stored, total_distributed, total_claimed,
                    pending_rewards>>
    BY <1>1 DEF initialize_stake_pool, userVars
  <2>3. Earned = 0
    BY <2>1, SumZero DEF Earned
  <2>4. Unsettled = 0
    <3>1. ASSUME NEW u \in Users PROVE accrual(u) = 0
      <4>1. rewards_per_token_stored - rewards_per_token_paid[u] \in Int
        BY DEF TypeOK
      <4>2. staked_balance[u] = 0
        BY <2>1
      <4>3. \A d \in Int : 0 * d = 0
        OBVIOUS
      <4> QED  BY <4>1, <4>2, <4>3 DEF accrual
    <3>2. accruals = [u \in 1..N |-> 0]
      BY <3>1 DEF accruals, Users
    <3> QED  BY <3>2, SumZero DEF Unsettled
  <2>5. Earned' = 0 /\ Unsettled' = 0
    BY <2>2, <2>3, <2>4, FrameSums
  <2>6. Reserve' = 0
    <3>1. escrow' - RENT - gifts' = 0
      BY <1>1, StakingAssumption DEF initialize_stake_pool, TypeOK
    <3> QED  BY <2>1, <2>2, <3>1, <1>a DEF Reserve
  <2>7. PRECISION * (Reserve' - Earned') >= Unsettled'
    BY <2>5, <2>6
  <2>8. D' = D
    BY <2>2
  <2> HIDE DEF D
  <2>9. PRECISION * (D' - Earned') >= Unsettled'
    BY <1>b, <2>3, <2>4, <2>5, <2>8 DEF Covers
  <2> QED  BY <1>c, <2>7, <2>9
<1>2. ASSUME NEW u \in Users, NEW amount \in 1..Purse, stake(u, amount)
      PROVE  Funded' /\ Distributed'
  <2>1. claimable(u) \in Nat /\ Settles(u, claimable(u)) /\ initialized
    BY <1>2, StakeFacts
  <2>2. Reserve' = Reserve /\ D' = D
    BY <1>2 DEF stake, Reserve
  <2>3. Reserve' >= Reserve - claimable(u) + claimable(u)
        /\ D' >= D - claimable(u) + claimable(u)
    <3> HIDE DEF D
    <3> QED  BY <1>a, <2>1, <2>2
  <2> HIDE DEF D
  <2> QED  BY <1>d, <2>1, <2>3
<1>3. ASSUME NEW u \in Users, NEW amount \in 1..Purse, unstake(u, amount)
      PROVE  Funded' /\ Distributed'
  <2>1. claimable(u) \in Nat /\ Settles(u, 0) /\ initialized
    BY <1>3, UnstakeFacts
  <2>2. /\ UNCHANGED <<escrow, gifts, total_distributed, total_claimed>>
        /\ pending_rewards' = pending_rewards + claimable(u)
    BY <1>3 DEF unstake
  <2>3. Reserve' >= Reserve - claimable(u) + 0
    BY <2>1, <2>2, StakingAssumption DEF Reserve, TypeOK
  <2>4. D' >= D - claimable(u) + 0
    BY <2>1, <2>2 DEF TypeOK
  <2> HIDE DEF D
  <2> QED  BY <1>d, <2>1, <2>3, <2>4
<1>4. ASSUME NEW u \in Users, claim(u)
      PROVE  Funded' /\ Distributed'
  <2>1. claimable(u) \in Nat /\ Settles(u, 0)
    BY <1>4, ClaimFacts
  <2>2. /\ UNCHANGED <<pending_rewards, gifts, total_distributed>>
        /\ escrow' = escrow - claimable(u)
        /\ total_claimed' = total_claimed + claimable(u)
        /\ initialized
    BY <1>4 DEF claim, Blank, TypeOK
  <2>3. Reserve' >= Reserve - claimable(u) + 0
    BY <2>1, <2>2, StakingAssumption DEF Reserve, TypeOK
  <2>4. D' >= D - claimable(u) + 0
    BY <2>1, <2>2 DEF TypeOK
  <2> HIDE DEF D
  <2> QED  BY <1>d, <2>1, <2>2, <2>3, <2>4
<1>5. ASSUME NEW amount \in Deposits, deposit_rewards(amount)
      PROVE  Funded' /\ Distributed'
  <2>1. /\ UNCHANGED <<staked_balance, rewards_per_token_paid, rewards_earned,
                       rewards_per_token_stored, total_distributed,
                       total_claimed, gifts, initialized>>
        /\ escrow' = escrow + amount
        /\ pending_rewards' = pending_rewards + amount
    BY <1>5 DEF deposit_rewards, userVars
  <2>2. Reserve' = Reserve /\ D' = D
    BY <2>1, StakingAssumption DEF Reserve, TypeOK
  <2>3. Reserve' >= Reserve /\ D' >= D
    <3> HIDE DEF D
    <3> QED  BY <1>a, <2>2
  <2> HIDE DEF D
  <2> QED  BY <1>e, <2>1, <2>3
<1>6. ASSUME NEW epoch \in 1..MaxEpoch, update_cumulative(epoch)
      PROVE  Funded' /\ Distributed'
  <2>1. /\ gain \in Nat /\ handed_out \in Nat /\ handed_out <= pending_rewards
        /\ gain * total_staked <= PRECISION * handed_out
        /\ rewards_per_token_stored' = rewards_per_token_stored + gain
        /\ total_distributed' = total_distributed + handed_out
        /\ pending_rewards' = 0 /\ initialized
        /\ UNCHANGED <<userVars, total_staked, total_claimed, vaultVars, gifts>>
    BY <1>6, CloseFacts
  <2>2. Earned' = Earned /\ Unsettled' = Unsettled + gain * Balances
    BY <2>1, EpochSums DEF userVars
  <2>3. gain * Balances <= PRECISION * handed_out
    <3>1. Balances \in Nat /\ Balances <= total_staked /\ total_staked \in Nat
      BY <2>1, LedgerTypes, StakingAssumption
      DEF IInv, StakeIsBacked, Balances, TypeOK
    <3>2. gain * Balances <= gain * total_staked
          /\ gain * Balances \in Int /\ gain * total_staked \in Int
      BY <2>1, <3>1, Scale
    <3>3. PRECISION * handed_out \in Int
      BY <2>1
    <3> QED  BY <2>1, <3>2, <3>3
  <2>4. ASSUME NEW x \in Int, NEW y \in Int, y >= x + handed_out, Covers(x)
        PROVE  PRECISION * (y - Earned) >= Unsettled + gain * Balances
    <3>1. /\ (x - Earned) + handed_out \in Int /\ y - Earned \in Int
          /\ (x - Earned) + handed_out <= y - Earned
      BY <1>a, <2>1, <2>4
    <3>2. PRECISION * ((x - Earned) + handed_out) <= PRECISION * (y - Earned)
      BY <3>1, Scale
    <3>3. PRECISION * ((x - Earned) + handed_out)
            = PRECISION * (x - Earned) + PRECISION * handed_out
      BY <1>a, <2>1
    <3>4. PRECISION * (x - Earned) >= Unsettled
      BY <2>4 DEF Covers
    <3>5. /\ PRECISION * (x - Earned) \in Int /\ PRECISION * handed_out \in Int
          /\ gain * Balances \in Int /\ PRECISION * (y - Earned) \in Int
      BY <1>a, <2>1, <3>1, LedgerTypes
    <3> QED  BY <1>a, <2>3, <3>2, <3>3, <3>4, <3>5
  <2>5. Reserve' >= Reserve + handed_out
    BY <2>1, StakingAssumption DEF Reserve, TypeOK, vaultVars
  <2>6. D' >= D + handed_out
    BY <2>1 DEF TypeOK
  <2> HIDE DEF D
  <2>7. PRECISION * (Reserve' - Earned') >= Unsettled'
    BY <1>a, <1>b, <2>1, <2>2, <2>4, <2>5
  <2>8. PRECISION * (D' - Earned') >= Unsettled'
    BY <1>a, <1>b, <2>2, <2>4, <2>6
  <2> QED  BY <1>c, <2>7, <2>8
<1>7. CASE Gift
  <2>1. /\ UNCHANGED <<poolVars, userVars>>
        /\ escrow' = escrow + 1 /\ gifts' = gifts + 1
    BY <1>7 DEF Gift
  <2>2. Reserve' >= Reserve /\ D' >= D
    BY <2>1, StakingAssumption DEF Reserve, TypeOK, poolVars
  <2> HIDE DEF D
  <2> QED  BY <1>e, <2>1, <2>2 DEF poolVars, userVars
<1>8. CASE Tick \/ UNCHANGED vars
  <2>1. UNCHANGED <<poolVars, userVars, vaultVars, gifts>>
    BY <1>8 DEF Tick, vars
  <2>2. Reserve' = Reserve /\ D' = D
    BY <2>1 DEF Reserve, poolVars, vaultVars
  <2>3. Reserve' >= Reserve /\ D' >= D
    <3> HIDE DEF D
    <3> QED  BY <1>a, <2>2
  <2> HIDE DEF D
  <2> QED  BY <1>e, <2>1, <2>3 DEF poolVars, userVars
<1> QED
  BY <1>1, <1>2, <1>3, <1>4, <1>5, <1>6, <1>7, <1>8 DEF Next

------------------------------------------------------------------------------
(* The cooldown *)

\* Every step keeps the claim that starts a cooldown on record.
LEMMA CooldownStep ==
  ASSUME IInv, TypeOK', [Next]_vars
  PROVE  ClaimRemembered'
<1> TypeOK /\ ClaimRemembered /\ COOLDOWN_SECONDS \in Nat
  BY StakingAssumption DEF IInv
<1>1. ASSUME UNCHANGED <<owner, last_claim_ts, claimed_at>>,
             unix_timestamp' >= unix_timestamp
      PROVE  ClaimRemembered'
  <2>1. unix_timestamp \in Int /\ unix_timestamp' \in Int
        /\ \A v \in Users : claimed_at[v] \in Int
    BY DEF TypeOK
  <2> QED  BY <1>1, <2>1 DEF ClaimRemembered
<1>2. ASSUME NEW u \in Users, NEW amount \in 1..Purse, stake(u, amount)
      PROVE  ClaimRemembered'
  BY <1>2 DEF stake, is_new_user, ClaimRemembered, TypeOK
<1>3. ASSUME NEW u \in Users, NEW amount \in 1..Purse, unstake(u, amount)
      PROVE  ClaimRemembered'
  <2>1. claimed_at[u] > 0 => unix_timestamp - claimed_at[u] >= COOLDOWN_SECONDS
    BY <1>3 DEF unstake, cooled_down, ClaimRemembered, TypeOK
  <2>2. \A v \in Users \ {u} : last_claim_ts'[v] = last_claim_ts[v]
    BY <1>3 DEF unstake, TypeOK
  <2>3. UNCHANGED <<owner, claimed_at, unix_timestamp>>
    BY <1>3 DEF unstake
  <2> QED  BY <2>1, <2>2, <2>3 DEF ClaimRemembered
<1>4. ASSUME NEW u \in Users, claim(u)
      PROVE  ClaimRemembered'
  <2>1. /\ last_claim_ts' = [last_claim_ts EXCEPT ![u] = unix_timestamp]
        /\ claimed_at' = [claimed_at EXCEPT ![u] = unix_timestamp]
        /\ owner[u] /\ UNCHANGED <<owner, unix_timestamp>>
    BY <1>4 DEF claim
  <2> QED  BY <2>1 DEF ClaimRemembered, TypeOK
<1>5. ASSUME NEW amount \in Deposits, deposit_rewards(amount)
      PROVE  ClaimRemembered'
  BY <1>1, <1>5 DEF deposit_rewards, userVars, TypeOK
<1>6. ASSUME NEW epoch \in 1..MaxEpoch, update_cumulative(epoch)
      PROVE  ClaimRemembered'
  BY <1>1, <1>6 DEF update_cumulative, userVars, TypeOK
<1>7. CASE initialize_stake_pool \/ Gift \/ Tick \/ UNCHANGED vars
  BY <1>1, <1>7 DEF initialize_stake_pool, Gift, Tick, vars, userVars, TypeOK
<1> QED
  BY <1>2, <1>3, <1>4, <1>5, <1>6, <1>7 DEF Next

\* Stake leaves only once the remembered claim is old enough.
LEMMA CooldownAction ==
  ASSUME IInv, [Next]_vars, NEW u \in Users,
         staked_balance'[u] < staked_balance[u], claimed_at[u] > 0
  PROVE  unix_timestamp - claimed_at[u] >= COOLDOWN_SECONDS
<1> TypeOK /\ ClaimRemembered
  BY DEF IInv
<1>1. ASSUME NEW v \in Users, NEW amount \in 1..Purse, stake(v, amount)
      PROVE  FALSE
  <2>1. staked_balance' = [staked_balance EXCEPT ![v] = @ + amount]
        /\ amount \in Nat
    BY <1>1, StakeFacts
  <2> QED  BY <2>1 DEF TypeOK
<1>2. ASSUME NEW v \in Users, NEW amount \in 1..Purse, unstake(v, amount)
      PROVE  unix_timestamp - claimed_at[u] >= COOLDOWN_SECONDS
  <2>1. staked_balance' =
          [staked_balance EXCEPT ![v] = @ - unstake_amount(v, amount)]
    BY <1>2, UnstakeFacts
  <2>2. u = v
    BY <2>1 DEF TypeOK
  <2> QED  BY <1>2, <2>2, StakingAssumption
           DEF unstake, cooled_down, ClaimRemembered, TypeOK
<1>3. CASE UNCHANGED staked_balance
  BY <1>3 DEF TypeOK
<1> QED
  BY <1>1, <1>2, <1>3
  DEF Next, initialize_stake_pool, claim, deposit_rewards, update_cumulative,
      Gift, Tick, vars, userVars

------------------------------------------------------------------------------
(* The widths *)

\* Every step keeps the lamport counters within u64.
LEMMA CountedStep ==
  ASSUME IInv, [Next]_vars
  PROVE  Counted'
<1> TypeOK /\ escrow <= U64_MAX /\ total_distributed <= U64_MAX
  BY DEF IInv, Counted
<1>1. CASE initialize_stake_pool
  BY <1>1, WidthAssumption DEF initialize_stake_pool, Counted
<1>2. ASSUME NEW u \in Users, claim(u)
      PROVE  Counted'
  <2>1. claimable(u) \in Nat /\ escrow \in Nat /\ U64_MAX \in Nat
    BY <1>2, ClaimFacts, WidthAssumption DEF TypeOK
  <2>2. escrow' = escrow - claimable(u) /\ UNCHANGED total_distributed
    BY <1>2 DEF claim
  <2> QED  BY <2>1, <2>2 DEF Counted
<1>3. ASSUME NEW amount \in Deposits, deposit_rewards(amount)
      PROVE  Counted'
  BY <1>3 DEF deposit_rewards, Counted
<1>4. ASSUME NEW epoch \in 1..MaxEpoch, update_cumulative(epoch)
      PROVE  Counted'
  BY <1>4 DEF update_cumulative, vaultVars, Counted
<1>5. CASE Gift
  BY <1>5, WidthAssumption DEF Gift, poolVars, Counted, TypeOK
<1>6. ASSUME UNCHANGED <<escrow, total_distributed>>
      PROVE  Counted'
  BY <1>6 DEF Counted
<1> QED
  BY <1>1, <1>2, <1>3, <1>4, <1>5, <1>6
  DEF Next, stake, unstake, Tick, vars, poolVars, vaultVars

\* A close adds at most its share of PRECISION per unit of the dead stake.
LEMMA GainBounded ==
  ASSUME TypeOK, NEW g \in Nat, NEW h \in Nat, NEW total \in Nat,
         MINIMUM_STAKE <= total, g * total <= PRECISION * h
  PROVE  MINIMUM_STAKE * (rewards_per_token_stored + g)
           <= MINIMUM_STAKE * rewards_per_token_stored + PRECISION * h
<1>1. MINIMUM_STAKE \in Nat /\ rewards_per_token_stored \in Nat /\ PRECISION \in Nat
  BY StakingAssumption DEF TypeOK
<1>2. g * MINIMUM_STAKE <= g * total
      /\ g * MINIMUM_STAKE \in Int /\ g * total \in Int
  BY <1>1, Scale
<1>3. MINIMUM_STAKE * (rewards_per_token_stored + g)
        = MINIMUM_STAKE * rewards_per_token_stored + g * MINIMUM_STAKE
  BY <1>1
<1>4. PRECISION * h \in Int /\ MINIMUM_STAKE * rewards_per_token_stored \in Int
  BY <1>1
<1> QED  BY <1>2, <1>3, <1>4

\* Once the pool exists, its divisor is never below the dead stake.
LEMMA DeadStakeStays ==
  ASSUME IInv, initialized
  PROVE  total_staked \in Nat \ {0} /\ MINIMUM_STAKE <= total_staked
  BY LedgerTypes, StakingAssumption DEF IInv, StakeIsBacked, Balances

\* Every step keeps the cumulative bounded by the distributions.
LEMMA CumulativeStep ==
  ASSUME IInv, [Next]_vars
  PROVE  CumulativeBounded'
<1> TypeOK /\ CumulativeBounded
  BY DEF IInv
<1>1. ASSUME NEW epoch \in 1..MaxEpoch, update_cumulative(epoch)
      PROVE  CumulativeBounded'
  <2>1. /\ gain \in Nat /\ handed_out \in Nat
        /\ gain * total_staked <= PRECISION * handed_out
        /\ rewards_per_token_stored' = rewards_per_token_stored + gain
        /\ total_distributed' = total_distributed + handed_out
        /\ initialized
    BY <1>1, CloseFacts
  <2>2. total_staked \in Nat /\ MINIMUM_STAKE <= total_staked
    BY <2>1, DeadStakeStays
  <2>3. MINIMUM_STAKE * (rewards_per_token_stored + gain)
          <= MINIMUM_STAKE * rewards_per_token_stored + PRECISION * handed_out
    BY <2>1, <2>2, GainBounded
  <2>4. MINIMUM_STAKE \in Nat /\ rewards_per_token_stored \in Nat
        /\ total_distributed \in Nat
    BY StakingAssumption DEF TypeOK
  <2>5. PRECISION * (total_distributed + handed_out)
          = PRECISION * total_distributed + PRECISION * handed_out
    BY <2>1, <2>4
  <2>6. /\ MINIMUM_STAKE * (rewards_per_token_stored + gain) \in Int
        /\ MINIMUM_STAKE * rewards_per_token_stored \in Int
        /\ PRECISION * total_distributed \in Int /\ PRECISION * handed_out \in Int
    BY <2>1, <2>4
  <2> QED  BY <2>1, <2>3, <2>5, <2>6 DEF CumulativeBounded
<1>2. ASSUME UNCHANGED <<rewards_per_token_stored, total_distributed>>
      PROVE  CumulativeBounded'
  BY <1>2 DEF CumulativeBounded
<1> QED
  BY <1>1, <1>2
  DEF Next, initialize_stake_pool, stake, unstake, claim, deposit_rewards, Gift,
      Tick, vars, poolVars

------------------------------------------------------------------------------
(* What the inductive invariant gives *)

\* The initial state satisfies the invariant.
LEMMA InitIInv ==
  ASSUME Init
  PROVE  IInv
<1>1. TypeOK
  <2>1. initialized \in BOOLEAN
    BY DEF Init
  <2>2. owner \in [Users -> BOOLEAN]
    BY DEF Init
  <2>3. /\ unix_timestamp \in Nat \ {0}
        /\ \A u \in Users : rewards_per_token_paid[u] <= rewards_per_token_stored
    BY DEF Init
  <2> QED  BY <2>1, <2>2, <2>3 DEF Init, TypeOK
<1>2. Blank /\ StakeIsBacked /\ Funded
  BY DEF Init, Blank, StakeIsBacked, Funded
<1>3. ClaimRemembered
  BY DEF Init, ClaimRemembered
<1>4. Earned = 0
  BY SumZero DEF Init, Earned, Users
<1>5. Unsettled = 0
  <2>1. \A u \in Users : accrual(u) = 0
    BY DEF Init, accrual
  <2>2. accruals = [u \in 1..N |-> 0]
    BY <2>1 DEF accruals, Users
  <2> QED  BY <2>2, SumZero DEF Unsettled
<1>6. Distributed
  <2>1. total_distributed = 0 /\ total_claimed = 0
    BY DEF Init
  <2> QED  BY <1>4, <1>5, <2>1 DEF Distributed, Covers
<1>7. Counted /\ CumulativeBounded
  <2>1. \A p, q \in Nat : q * 0 <= p * 0
    OBVIOUS
  <2> QED  BY <2>1, WidthAssumption, StakingAssumption
           DEF Init, Counted, CumulativeBounded
<1> QED  BY <1>1, <1>2, <1>3, <1>6, <1>7 DEF IInv

\* The strengthened invariant is inductive.
LEMMA StepIInv ==
  ASSUME IInv, [Next]_vars
  PROVE  IInv'
<1>1. TypeOK'
  BY TypeStep
<1> QED  BY <1>1, BackedStep, CoverStep, CooldownStep, CountedStep,
           CumulativeStep DEF IInv

\* What covers the unrounded products a covers the rounded shares k: with the
\* earned counters e they make the claims m.
LEMMA RoundedSums ==
  ASSUME NEW e \in [1..N -> Int], NEW k \in [1..N -> Int],
         NEW a \in [1..N -> Int], NEW m \in [1..N -> Int], NEW x \in Int,
         \A u \in 1..N : m[u] = e[u] + 1 * k[u],
         \A u \in 1..N : PRECISION * k[u] <= a[u],
         PRECISION * (x - Sum(e, N)) >= Sum(a, N)
  PROVE  x >= Sum(m, N)
<1> DEFINE zero == [u \in 1..N |-> 0]
           s    == [u \in 1..N |-> PRECISION * k[u]]
<1>1. zero \in [1..N -> Int] /\ s \in [1..N -> Int]
  OBVIOUS
<1>2. \A u \in 1..N : s[u] = zero[u] + PRECISION * k[u]
  OBVIOUS
<1>3. \A u \in 1..N : s[u] <= a[u]
  OBVIOUS
<1>4. Sum(zero, N) = 0
  BY SumZero
<1>5. PRECISION \in Int /\ 1 \in Int
  OBVIOUS
<1> HIDE DEF zero, s
<1>6. Sum(m, N) = Sum(e, N) + 1 * Sum(k, N)
  BY <1>5, ClaimSum
<1>7. Sum(s, N) = Sum(zero, N) + PRECISION * Sum(k, N)
  BY <1>1, <1>2, <1>5, ScaledSum
<1>8. Sum(s, N) <= Sum(a, N)
  BY <1>1, <1>3, SumMonotone
<1>9. Sum(k, N) \in Int /\ Sum(e, N) \in Int /\ Sum(a, N) \in Int
  BY SumInt
<1>10. PRECISION * Sum(k, N) <= PRECISION * (x - Sum(e, N))
  <2>1. PRECISION * Sum(k, N) \in Int /\ PRECISION * (x - Sum(e, N)) \in Int
    BY <1>9
  <2> QED  BY <1>4, <1>7, <1>8, <1>9, <2>1
<1>11. Sum(k, N) <= x - Sum(e, N)
  <2>1. SUFFICES ASSUME x - Sum(e, N) < Sum(k, N)
                 PROVE  FALSE
    BY <1>9
  <2>2. PRECISION * (x - Sum(e, N)) < PRECISION * Sum(k, N)
    BY <1>9, <2>1, ScaleStrict
  <2>3. PRECISION * (x - Sum(e, N)) \in Int /\ PRECISION * Sum(k, N) \in Int
    BY <1>9
  <2> QED  BY <1>10, <2>2, <2>3
<1> QED  BY <1>6, <1>9, <1>11

\* A cover stated in units of 1/PRECISION covers the rounded claims too.
LEMMA CoversClaims ==
  ASSUME TypeOK, NEW x \in Int, Covers(x)
  PROVE  x >= Sum(claims, N) /\ Sum(claims, N) \in Int
<1> DEFINE rounded == [u \in 1..N |-> accrued(u)]
<1>1. rounded \in [1..N -> Int]
  BY AccrualType DEF Users
<1>2. accruals \in [1..N -> Int] /\ rewards_earned \in [1..N -> Int]
  BY LedgerTypes
<1>3. claims \in [1..N -> Int]
  BY ClaimsType
<1>4. \A u \in 1..N : claims[u] = rewards_earned[u] + 1 * rounded[u]
  BY AccrualType DEF claims, claimable, Users
<1>5. \A u \in 1..N : PRECISION * rounded[u] <= accruals[u]
  BY AccrualType DEF accruals, Users
<1>6. PRECISION * (x - Sum(rewards_earned, N)) >= Sum(accruals, N)
  BY DEF Covers, Earned, Unsettled
<1> HIDE DEF rounded
<1>7. x >= Sum(claims, N)
  BY <1>1, <1>2, <1>3, <1>4, <1>5, <1>6, RoundedSums
<1> QED  BY <1>3, <1>7, SumInt

\* The invariant implies a solvent escrow.
LEMMA FundedFromIInv ==
  ASSUME IInv
  PROVE  RewardsAreFunded
<1> TypeOK
  BY DEF IInv
<1>1. SUFFICES ASSUME initialized
               PROVE  escrow >= RENT + gifts + Owed
  BY DEF RewardsAreFunded
<1>2. Reserve \in Int /\ Covers(Reserve)
  BY <1>1, StakingAssumption DEF IInv, Funded, Reserve, TypeOK
<1>3. Reserve >= Sum(claims, N) /\ Sum(claims, N) \in Int
  BY <1>2, CoversClaims
<1>4. Owed = pending_rewards + Sum(claims, N)
  BY DEF Owed, claims
<1> QED  BY <1>3, <1>4, StakingAssumption DEF Reserve, TypeOK

\* The invariant implies that claims stay within the distributions.
LEMMA DistributedFromIInv ==
  ASSUME IInv
  PROVE  ClaimedWithinDistributed
<1> TypeOK
  BY DEF IInv
<1>1. total_distributed - total_claimed \in Int
      /\ Covers(total_distributed - total_claimed)
  BY DEF IInv, Distributed, TypeOK
<1>2. total_distributed - total_claimed >= Sum(claims, N)
      /\ Sum(claims, N) \in Int
  BY <1>1, CoversClaims
<1>3. ClaimedWithinDistributed
        <=> total_claimed + Sum(claims, N) <= total_distributed
  BY DEF ClaimedWithinDistributed, claims
<1> QED  BY <1>2, <1>3 DEF TypeOK

\* A wallet's unsettled product is at most PRECISION times all that was ever
\* distributed, because the other parts of that sum are not negative.
LEMMA AccrualBounded ==
  ASSUME IInv, NEW u \in Users
  PROVE  accrual(u) <= PRECISION * total_distributed
<1> TypeOK
  BY DEF IInv
<1>1. /\ total_distributed \in Nat /\ total_claimed \in Nat
      /\ Earned \in Nat /\ Unsettled \in Nat /\ accrual(u) \in Nat
  BY LedgerTypes, AccrualType DEF TypeOK
<1>2. accrual(u) <= Unsettled
  <2>1. accruals \in [1..N -> Nat] /\ u \in 1..N /\ accruals[u] = accrual(u)
    BY AccrualType DEF accruals, Users
  <2> QED  BY <2>1, SumNat DEF Unsettled
<1> DEFINE x == total_distributed - total_claimed - Earned
<1>3. Unsettled <= PRECISION * x
  BY DEF IInv, Distributed, Covers
<1>4. x \in Int /\ x <= total_distributed
  BY <1>1
<1> HIDE DEF x
<1>5. PRECISION * x <= PRECISION * total_distributed
      /\ PRECISION * x \in Int /\ PRECISION * total_distributed \in Int
  BY <1>1, <1>4, Scale
<1> QED  BY <1>1, <1>2, <1>3, <1>5

\* One wallet's claim is within what is owed and within what was distributed.
LEMMA ClaimBounded ==
  ASSUME IInv, NEW u \in Users
  PROVE  /\ total_claimed + claimable(u) <= total_distributed
         /\ initialized => RENT + gifts + pending_rewards + claimable(u) <= escrow
<1> TypeOK
  BY DEF IInv
<1>1. claimable(u) <= Sum(claims, N) /\ Sum(claims, N) \in Nat
  <2>1. claims \in [1..N -> Nat] /\ u \in 1..N /\ claims[u] = claimable(u)
    BY ClaimsType DEF claims, Users
  <2> QED  BY <2>1, SumNat
<1>2. /\ total_claimed + Sum(claims, N) <= total_distributed
      /\ initialized =>
           escrow >= RENT + gifts + (pending_rewards + Sum(claims, N))
  BY FundedFromIInv, DistributedFromIInv
  DEF ClaimedWithinDistributed, RewardsAreFunded, Owed, claims
<1>3. /\ total_claimed \in Nat /\ total_distributed \in Nat /\ escrow \in Nat
      /\ gifts \in Nat /\ pending_rewards \in Nat /\ RENT \in Nat
      /\ claimable(u) \in Nat
  BY AccrualType, StakingAssumption DEF TypeOK
<1> QED  BY <1>1, <1>2, <1>3

\* The invariant implies that the checked arithmetic of a settlement succeeds.
LEMMA SettlesFromIInv ==
  ASSUME IInv, NEW u \in Users
  PROVE  settles(u)
<1> TypeOK
  BY DEF IInv
<1>1. /\ total_distributed \in Nat /\ total_claimed \in Nat
      /\ claimable(u) \in Nat /\ accrual(u) \in Nat
      /\ U64_MAX \in Nat /\ U128_MAX \in Nat /\ total_distributed <= U64_MAX
  BY AccrualType, WidthAssumption DEF IInv, Counted, TypeOK
<1>2. PRECISION * total_distributed <= PRECISION * U64_MAX
      /\ PRECISION * total_distributed \in Int /\ PRECISION * U64_MAX \in Int
  BY <1>1, Scale
<1>3. accrual(u) <= U128_MAX
  BY <1>1, <1>2, AccrualBounded, WidthAssumption
<1>4. claimable(u) <= U64_MAX
  BY <1>1, ClaimBounded
<1> QED  BY <1>3, <1>4 DEF settles

\* The invariant implies that the checked arithmetic of a close succeeds.
LEMMA CloseFitsFromIInv ==
  ASSUME IInv, initialized, total_distributed + pending_rewards <= U64_MAX
  PROVE  cumulative_fits
<1> TypeOK /\ CumulativeBounded
  BY DEF IInv
<1>1. /\ total_distributed \in Nat /\ pending_rewards \in Nat
      /\ rewards_per_token_stored \in Nat /\ total_staked \in Nat \ {0}
      /\ MINIMUM_STAKE \in Nat \ {0} /\ MINIMUM_STAKE <= total_staked
      /\ U64_MAX \in Nat /\ U128_MAX \in Nat
  BY DeadStakeStays, StakingAssumption, WidthAssumption DEF TypeOK
<1>2. handed_out \in Nat /\ handed_out <= pending_rewards
  BY <1>1 DEF handed_out
<1>3. gain \in Nat /\ gain * total_staked <= PRECISION * handed_out
  <2>1. CASE shared
    <3>1. gain = (pending_rewards * PRECISION) \div total_staked
          /\ handed_out = pending_rewards
      BY <2>1 DEF gain, handed_out, reward_per_token
    <3>2. pending_rewards * PRECISION \in Nat
      BY <1>1
    <3>3. gain \in Nat /\ total_staked * gain <= pending_rewards * PRECISION
      BY <1>1, <3>1, <3>2, DivFacts
    <3>4. gain * total_staked = total_staked * gain
          /\ PRECISION * pending_rewards = pending_rewards * PRECISION
      BY <1>1, <3>3
    <3> QED  BY <3>1, <3>3, <3>4
  <2>2. CASE ~shared
    BY <1>1, <2>2 DEF gain, handed_out
  <2> QED  BY <2>1, <2>2
<1>4. PRECISION * (total_distributed + handed_out) <= U128_MAX
  <2>1. total_distributed + handed_out \in Nat
        /\ total_distributed + handed_out <= U64_MAX
    BY <1>1, <1>2
  <2>2. PRECISION * (total_distributed + handed_out) <= PRECISION * U64_MAX
        /\ PRECISION * (total_distributed + handed_out) \in Int
        /\ PRECISION * U64_MAX \in Int
    BY <1>1, <2>1, Scale
  <2> QED  BY <1>1, <2>2, WidthAssumption
<1>5. PRECISION * (total_distributed + handed_out)
        = PRECISION * total_distributed + PRECISION * handed_out
      /\ PRECISION * total_distributed \in Nat /\ PRECISION * handed_out \in Nat
  BY <1>1, <1>2
<1>6. handed_out * PRECISION <= U128_MAX
  <2>1. handed_out * PRECISION = PRECISION * handed_out
    BY <1>2
  <2> QED  BY <1>1, <1>4, <1>5, <2>1
<1>7. rewards_per_token_stored + gain <= U128_MAX
  <2> DEFINE r == rewards_per_token_stored + gain
  <2>1. MINIMUM_STAKE * r
          <= MINIMUM_STAKE * rewards_per_token_stored + PRECISION * handed_out
    BY <1>1, <1>2, <1>3, GainBounded
  <2>2. MINIMUM_STAKE * rewards_per_token_stored <= PRECISION * total_distributed
        /\ MINIMUM_STAKE * rewards_per_token_stored \in Int
    BY <1>1 DEF CumulativeBounded
  <2>3. r \in Nat
    BY <1>1, <1>3
  <2> HIDE DEF r
  <2>4. r * 1 <= r * MINIMUM_STAKE /\ r * MINIMUM_STAKE = MINIMUM_STAKE * r
        /\ r * MINIMUM_STAKE \in Int
    <3>1. 1 \in Int /\ MINIMUM_STAKE \in Int /\ 1 <= MINIMUM_STAKE
      BY <1>1
    <3> QED  BY <2>3, <3>1, Scale
  <2>5. r <= U128_MAX
    BY <1>1, <1>4, <1>5, <2>1, <2>2, <2>3, <2>4
  <2> QED  BY <2>5 DEF r
<1> QED  BY <1>6, <1>7 DEF cumulative_fits

\* The invariant implies that nobody is locked in.
LEMMA ExitsFromIInv ==
  ASSUME IInv
  PROVE  ExitsStayOpen
<1> TypeOK
  BY DEF IInv
<1>1. SUFFICES ASSUME initialized
               PROVE  /\ \A u \in Users : payable(u) /\ releasable(u, staked_balance[u])
                      /\ total_distributed + pending_rewards <= U64_MAX
                           => cumulative_fits
  BY DEF ExitsStayOpen
<1>2. ASSUME NEW u \in Users
      PROVE  payable(u) /\ releasable(u, staked_balance[u])
  <2>1. settles(u)
    BY SettlesFromIInv
  <2>2. /\ total_claimed + claimable(u) <= total_distributed
        /\ RENT + gifts + pending_rewards + claimable(u) <= escrow
    BY <1>1, ClaimBounded
  <2>3. /\ total_claimed \in Nat /\ total_distributed \in Nat /\ escrow \in Nat
        /\ gifts \in Nat /\ pending_rewards \in Nat /\ RENT \in Nat
        /\ claimable(u) \in Nat /\ U64_MAX \in Nat
        /\ escrow <= U64_MAX /\ total_distributed <= U64_MAX
    BY AccrualType, StakingAssumption, WidthAssumption DEF IInv, Counted, TypeOK
  <2>4. payable(u)
    BY <2>1, <2>2, <2>3 DEF payable, available
  <2>5. stake_vault >= staked_balance[u]
    <3>1. staked_balance \in [1..N -> Nat] /\ u \in 1..N
      BY DEF TypeOK, Users
    <3>2. staked_balance[u] <= Balances
      BY <3>1, SumNat DEF Balances
    <3>3. stake_vault = MINIMUM_STAKE + Balances
      BY <1>1 DEF IInv, StakeIsBacked, Balances
    <3>4. staked_balance[u] \in Nat /\ Balances \in Nat /\ MINIMUM_STAKE \in Nat
      BY <3>1, LedgerTypes, StakingAssumption
    <3> QED  BY <3>2, <3>3, <3>4
  <2>6. releasable(u, staked_balance[u])
    BY <2>1, <2>2, <2>3, <2>5 DEF releasable
  <2> QED  BY <2>4, <2>6
<1> QED  BY <1>1, <1>2, CloseFitsFromIInv

------------------------------------------------------------------------------
(* The action properties *)

\* Outside a close, what is owed moves with the escrow.
LEMMA ConservesAction ==
  ASSUME IInv, [Next]_vars, initialized, last_update_epoch' = last_update_epoch
  PROVE  Owed' - Owed = (escrow' - gifts') - (escrow - gifts)
<1> TypeOK
  BY DEF IInv
<1>a. TypeOK'
  BY TypeStep
<1>b. /\ Owed = pending_rewards + Sum(claims, N)
      /\ Owed' = pending_rewards' + Sum(claims, N)'
  BY DEF Owed, claims
<1>c. /\ pending_rewards \in Int /\ escrow \in Int /\ gifts \in Int
      /\ Sum(claims, N) \in Int
  BY ClaimsType, SumInt DEF TypeOK
<1>1. ASSUME NEW u \in Users, NEW amount \in 1..Purse, stake(u, amount)
      PROVE  Owed' - Owed = (escrow' - gifts') - (escrow - gifts)
  <2>1. claimable(u) \in Nat /\ Settles(u, claimable(u))
    BY <1>1, StakeFacts
  <2>2. Sum(claims, N)' = Sum(claims, N) - claimable(u) + claimable(u)
    BY <1>a, <2>1, SettledSums
  <2>3. UNCHANGED <<pending_rewards, escrow, gifts>>
    BY <1>1 DEF stake
  <2> QED  BY <1>b, <1>c, <2>1, <2>2, <2>3
<1>2. ASSUME NEW u \in Users, NEW amount \in 1..Purse, unstake(u, amount)
      PROVE  Owed' - Owed = (escrow' - gifts') - (escrow - gifts)
  <2>1. claimable(u) \in Nat /\ Settles(u, 0)
    BY <1>2, UnstakeFacts
  <2>2. Sum(claims, N)' = Sum(claims, N) - claimable(u) + 0
    BY <1>a, <2>1, SettledSums
  <2>3. UNCHANGED <<escrow, gifts>>
        /\ pending_rewards' = pending_rewards + claimable(u)
    BY <1>2 DEF unstake
  <2> QED  BY <1>b, <1>c, <2>1, <2>2, <2>3
<1>3. ASSUME NEW u \in Users, claim(u)
      PROVE  Owed' - Owed = (escrow' - gifts') - (escrow - gifts)
  <2>1. claimable(u) \in Nat /\ Settles(u, 0)
    BY <1>3, ClaimFacts
  <2>2. Sum(claims, N)' = Sum(claims, N) - claimable(u) + 0
    BY <1>a, <2>1, SettledSums
  <2>3. UNCHANGED <<pending_rewards, gifts>>
        /\ escrow' = escrow - claimable(u)
    BY <1>3 DEF claim
  <2> QED  BY <1>b, <1>c, <2>1, <2>2, <2>3
<1>4. ASSUME NEW amount \in Deposits, deposit_rewards(amount)
      PROVE  Owed' - Owed = (escrow' - gifts') - (escrow - gifts)
  <2>1. /\ UNCHANGED <<userVars, rewards_per_token_stored, gifts>>
        /\ escrow' = escrow + amount
        /\ pending_rewards' = pending_rewards + amount
    BY <1>4 DEF deposit_rewards
  <2>2. Sum(claims, N)' = Sum(claims, N)
    BY <2>1, FrameSums DEF userVars
  <2>3. amount \in Int
    BY StakingAssumption
  <2> QED  BY <1>b, <1>c, <2>1, <2>2, <2>3
<1>5. ASSUME NEW epoch \in 1..MaxEpoch, update_cumulative(epoch)
      PROVE  FALSE
  BY <1>5, StakingAssumption DEF update_cumulative, TypeOK
<1>6. CASE Gift \/ Tick \/ UNCHANGED vars
  <2>1. /\ UNCHANGED <<userVars, rewards_per_token_stored, pending_rewards>>
        /\ \/ UNCHANGED <<escrow, gifts>>
           \/ escrow' = escrow + 1 /\ gifts' = gifts + 1
    BY <1>6 DEF Gift, Tick, vars, poolVars, vaultVars
  <2>2. Sum(claims, N)' = Sum(claims, N)
    BY <2>1, FrameSums DEF userVars
  <2> QED  BY <1>b, <1>c, <2>1, <2>2
<1>7. ~initialize_stake_pool
  BY DEF initialize_stake_pool
<1> QED
  BY <1>1, <1>2, <1>3, <1>4, <1>5, <1>6, <1>7 DEF Next

\* acc1 is the rounded share of a product that grew from a by g * b.
LEMMA RoundedGain ==
  ASSUME NEW p \in Nat \ {0}, NEW a \in Nat, NEW g \in Nat, NEW b \in Nat,
         NEW acc \in Nat, NEW acc1 \in Nat, NEW total \in Nat \ {0}, NEW h \in Nat,
         a < p * acc + p, p * acc1 <= a + g * b, g * total <= p * h
  PROVE  (acc1 - acc - 1) * total < b * h
<1> DEFINE d == acc1 - acc - 1
<1>1. d \in Int /\ p * d = p * acc1 - p * acc - p
  OBVIOUS
<1>2. p * d < g * b
  <2>1. p * acc1 \in Int /\ p * acc \in Int /\ g * b \in Int
    OBVIOUS
  <2> HIDE DEF d
  <2> QED  BY <1>1, <2>1
<1> HIDE DEF d
<1>3. total * (p * d) < total * (g * b)
  <2>1. p * d \in Int /\ g * b \in Int
    BY <1>1
  <2> QED  BY <1>2, <2>1, ScaleStrict
<1>4. b * (g * total) <= b * (p * h)
  <2>1. g * total \in Int /\ p * h \in Int
    OBVIOUS
  <2> QED  BY <2>1, Scale
<1>5. /\ total * (p * d) = p * (d * total) /\ total * (g * b) = b * (g * total)
      /\ b * (p * h) = p * (b * h)
  BY <1>1
<1>6. d * total \in Int /\ b * h \in Int
  BY <1>1
<1>7. p * (d * total) < p * (b * h)
  <2>1. /\ p * (d * total) \in Int /\ p * (b * h) \in Int
        /\ b * (g * total) \in Int
    BY <1>6
  <2> QED  BY <1>3, <1>4, <1>5, <2>1
<1>8. ~(b * h <= d * total)
  <2>1. SUFFICES ASSUME b * h <= d * total PROVE FALSE
    OBVIOUS
  <2>2. p * (b * h) <= p * (d * total)
        /\ p * (b * h) \in Int /\ p * (d * total) \in Int
    BY <1>6, <2>1, Scale
  <2> QED  BY <1>7, <2>2
<1> QED  BY <1>6, <1>8 DEF d

\* Only a close raises a claim, by less than one lamport above pro rata.
LEMMA ShareAction ==
  ASSUME IInv, [Next]_vars, NEW u \in Users, claimable(u)' > claimable(u)
  PROVE  /\ last_update_epoch' > last_update_epoch
         /\ (claimable(u)' - claimable(u) - 1) * total_staked
              < staked_balance[u] * pending_rewards
<1> TypeOK
  BY DEF IInv
<1>a. TypeOK' /\ claimable(u) \in Nat
  BY TypeStep, AccrualType
<1>1. ASSUME NEW v \in Users, NEW earned \in Nat, Settles(v, earned),
             earned <= claimable(v)
      PROVE  FALSE
  <2>1. claimable(v)' = earned
        /\ \A w \in Users \ {v} : claimable(w)' = claimable(w)
    BY <1>a, <1>1, SettledClaims
  <2>2. CASE u = v
    BY <1>a, <1>1, <2>1, <2>2
  <2>3. CASE u # v
    BY <1>a, <2>1, <2>3
  <2> QED  BY <2>2, <2>3
<1>2. ASSUME NEW v \in Users, NEW amount \in 1..Purse, stake(v, amount)
      PROVE  FALSE
  <2>1. claimable(v) \in Nat /\ Settles(v, claimable(v))
    BY <1>2, StakeFacts
  <2> QED  BY <1>1, <2>1
<1>3. ASSUME NEW v \in Users, NEW amount \in 1..Purse, unstake(v, amount)
      PROVE  FALSE
  <2>1. claimable(v) \in Nat /\ Settles(v, 0)
    BY <1>3, UnstakeFacts
  <2> QED  BY <1>1, <2>1
<1>4. ASSUME NEW v \in Users, claim(v)
      PROVE  FALSE
  <2>1. claimable(v) \in Nat /\ Settles(v, 0)
    BY <1>4, ClaimFacts
  <2> QED  BY <1>1, <2>1
<1>5. ASSUME NEW epoch \in 1..MaxEpoch, update_cumulative(epoch)
      PROVE  /\ last_update_epoch' > last_update_epoch
             /\ (claimable(u)' - claimable(u) - 1) * total_staked
                  < staked_balance[u] * pending_rewards
  <2>1. /\ gain \in Nat /\ handed_out \in Nat /\ handed_out <= pending_rewards
        /\ gain * total_staked <= PRECISION * handed_out
        /\ rewards_per_token_stored' = rewards_per_token_stored + gain
        /\ initialized /\ UNCHANGED userVars
    BY <1>5, CloseFacts
  <2>2. accrual(u)' = accrual(u) + gain * staked_balance[u]
    BY <2>1, EpochSums DEF userVars
  <2>3. /\ accrual(u) \in Nat /\ accrued(u) \in Nat
        /\ accrual(u) < PRECISION * accrued(u) + PRECISION
    BY AccrualType
  <2>4. staked_balance[u] \in Nat /\ pending_rewards \in Nat
    BY DEF TypeOK
  <2>5. accrued(u)' \in Nat /\ PRECISION * accrued(u)' <= accrual(u)'
    <3>1. accrual(u)' \in Nat
      BY <2>1, <2>2, <2>3, <2>4
    <3>2. accrued(u)' = accrual(u)' \div PRECISION
      BY DEF accrued
    <3> QED  BY <3>1, <3>2, DivFacts
  <2>6. total_staked \in Nat \ {0}
    BY <2>1, LedgerTypes, StakingAssumption
    DEF IInv, StakeIsBacked, Balances
  <2>7. (accrued(u)' - accrued(u) - 1) * total_staked
          < staked_balance[u] * handed_out
    BY <2>1, <2>2, <2>3, <2>4, <2>5, <2>6, RoundedGain
  <2>8. claimable(u)' - claimable(u) = accrued(u)' - accrued(u)
    <3>1. rewards_earned'[u] = rewards_earned[u] /\ rewards_earned[u] \in Int
      BY <2>1 DEF userVars, TypeOK
    <3> QED  BY <2>3, <2>5, <3>1 DEF claimable
  <2>9. staked_balance[u] * handed_out <= staked_balance[u] * pending_rewards
        /\ staked_balance[u] * handed_out \in Int
        /\ staked_balance[u] * pending_rewards \in Int
    BY <2>1, <2>4, Scale
  <2>10. (claimable(u)' - claimable(u) - 1) * total_staked
           < staked_balance[u] * pending_rewards
    <3>1. (accrued(u)' - accrued(u) - 1) * total_staked \in Int
      BY <2>3, <2>5, <2>6
    <3> QED  BY <2>7, <2>8, <2>9, <3>1
  <2>11. last_update_epoch' > last_update_epoch
    BY <1>5 DEF update_cumulative
  <2> QED  BY <2>10, <2>11
<1>6. CASE UNCHANGED <<userVars, rewards_per_token_stored>>
  <2>1. claimable(u)' = claimable(u)
    BY <1>6, FrameSums DEF userVars
  <2> QED  BY <1>a, <2>1
<1>7. ASSUME NEW amount \in Deposits, deposit_rewards(amount)
      PROVE  UNCHANGED <<userVars, rewards_per_token_stored>>
  BY <1>7 DEF deposit_rewards
<1>8. initialize_stake_pool \/ Gift \/ Tick \/ UNCHANGED vars
        => UNCHANGED <<userVars, rewards_per_token_stored>>
  BY DEF initialize_stake_pool, Gift, Tick, vars, poolVars
<1> QED
  BY <1>2, <1>3, <1>4, <1>5, <1>6, <1>7, <1>8 DEF Next

------------------------------------------------------------------------------
(* The ledger *)

\* acc1 is the rounded share of a product that grew from a by g * b, and g the
\* rounded quotient of p * h by total: what the two roundings may cost.
LEMMA RoundedLoss ==
  ASSUME NEW p \in Nat \ {0}, NEW a \in Nat, NEW g \in Nat, NEW b \in Nat,
         NEW acc \in Nat, NEW acc1 \in Nat, NEW total \in Nat \ {0}, NEW h \in Nat,
         p * acc <= a, a + g * b < p * acc1 + p, p * h <= g * total + total
  PROVE  /\ acc <= acc1
         /\ p * (b * h) < total * (p * ((acc1 - acc) + 1) + b)
<1> DEFINE d == (acc1 - acc) + 1
<1>1. d \in Int /\ p * d = p * acc1 - p * acc + p
  OBVIOUS
<1>2. g * b < p * d /\ p * d \in Int /\ g * b \in Nat
  <2>1. p * acc1 \in Int /\ p * acc \in Int /\ g * b \in Nat
    OBVIOUS
  <2> HIDE DEF d
  <2> QED  BY <1>1, <2>1
<1> HIDE DEF d
<1>3. acc <= acc1
  <2>1. SUFFICES ASSUME d <= 0 PROVE FALSE
    BY <1>1 DEF d
  <2>2. p * d <= p * 0
    BY <1>1, <2>1, Scale
  <2> QED  BY <1>2, <2>2
<1>4. total * (g * b) < total * (p * d)
  BY <1>2, ScaleStrict
<1>5. b * (p * h) <= b * (g * total + total)
  <2>1. p * h \in Int /\ g * total + total \in Int
    OBVIOUS
  <2> QED  BY <2>1, Scale
<1>6. /\ b * (p * h) = p * (b * h)
      /\ b * (g * total + total) = total * (g * b) + total * b
      /\ total * (p * d + b) = total * (p * d) + total * b
  BY <1>2, <1>1
<1>7. /\ p * (b * h) \in Int /\ total * (g * b) \in Int /\ total * b \in Int
      /\ total * (p * d) \in Int
  BY <1>1, <1>2
<1>8. p * (b * h) < total * (p * d + b)
  BY <1>4, <1>5, <1>6, <1>7
<1> QED  BY <1>3, <1>8 DEF d

\* A close of an existing pool hands out all that is pending, and its gain is
\* the exact quotient but for one unit.
LEMMA CloseExact ==
  ASSUME TypeOK, total_staked \in Nat \ {0}
  PROVE  /\ handed_out = pending_rewards /\ gain \in Nat
         /\ gain * total_staked <= PRECISION * pending_rewards
         /\ PRECISION * pending_rewards <= gain * total_staked + total_staked
<1>1. pending_rewards \in Nat
  BY DEF TypeOK
<1>2. CASE pending_rewards > 0
  <2>1. gain = (pending_rewards * PRECISION) \div total_staked
        /\ handed_out = pending_rewards
    BY <1>2 DEF gain, handed_out, shared, reward_per_token
  <2>2. pending_rewards * PRECISION \in Nat
    BY <1>1
  <2>3. /\ gain \in Nat /\ total_staked * gain <= pending_rewards * PRECISION
        /\ pending_rewards * PRECISION < total_staked * gain + total_staked
    BY <2>1, <2>2, DivFacts
  <2>4. gain * total_staked = total_staked * gain
        /\ PRECISION * pending_rewards = pending_rewards * PRECISION
        /\ gain * total_staked \in Int
    BY <1>1, <2>3
  <2> QED  BY <2>1, <2>2, <2>3, <2>4
<1>3. CASE pending_rewards = 0
  <2>1. gain = 0 /\ handed_out = 0
    BY <1>3 DEF gain, handed_out, shared
  <2> QED  BY <1>3, <2>1
<1> QED  BY <1>1, <1>2, <1>3

\* The escrow is as solvent after a step as the invariant makes it.
LEMMA FundedNext == IInv' => RewardsAreFunded'
<1>1. IInv => RewardsAreFunded
  BY FundedFromIInv
<1> QED  BY <1>1, PTL

\* The claims after a step are numbers of lamports.
LEMMA ClaimsNext == TypeOK' => (claims \in [1..N -> Nat])'
<1>1. TypeOK => claims \in [1..N -> Nat]
  BY ClaimsType
<1> QED  BY <1>1, PTL

\* A close credits each wallet within a lamport of its part.
LEMMA CloseCredits ==
  ASSUME IInv, NEW epoch \in 1..MaxEpoch, update_cumulative(epoch), NEW u \in Users
  PROVE  Ledger!ProRata(u, claimable(u)' - claimable(u))
<1> TypeOK
  BY DEF IInv
<1>1. /\ initialized /\ UNCHANGED userVars
      /\ rewards_per_token_stored' = rewards_per_token_stored + gain
  BY CloseFacts
<1>2. total_staked \in Nat \ {0}
  BY <1>1, DeadStakeStays
<1>3. /\ gain \in Nat
      /\ gain * total_staked <= PRECISION * pending_rewards
      /\ PRECISION * pending_rewards <= gain * total_staked + total_staked
  BY <1>2, CloseExact
<1>4. accrual(u)' = accrual(u) + gain * staked_balance[u]
  BY <1>1, <1>3, EpochSums DEF userVars
<1>5. /\ accrual(u) \in Nat /\ accrued(u) \in Nat
      /\ PRECISION * accrued(u) <= accrual(u)
      /\ accrual(u) < PRECISION * accrued(u) + PRECISION
  BY AccrualType
<1>6. staked_balance[u] \in Nat /\ pending_rewards \in Nat
  BY DEF TypeOK
<1>7. /\ accrued(u)' \in Nat /\ PRECISION * accrued(u)' <= accrual(u)'
      /\ accrual(u)' < PRECISION * accrued(u)' + PRECISION
  <2>1. accrual(u)' \in Nat
    BY <1>3, <1>4, <1>5, <1>6
  <2>2. accrued(u)' = accrual(u)' \div PRECISION
    BY DEF accrued
  <2> QED  BY <2>1, <2>2, DivFacts
<1>8. (accrued(u)' - accrued(u) - 1) * total_staked
        < staked_balance[u] * pending_rewards
  BY <1>2, <1>3, <1>4, <1>5, <1>6, <1>7, RoundedGain
<1>9. /\ accrued(u) <= accrued(u)'
      /\ PRECISION * (staked_balance[u] * pending_rewards)
           < total_staked * (PRECISION * ((accrued(u)' - accrued(u)) + 1)
                               + staked_balance[u])
  BY <1>2, <1>3, <1>4, <1>5, <1>6, <1>7, RoundedLoss
<1>10. claimable(u)' - claimable(u) = accrued(u)' - accrued(u)
  <2>1. rewards_earned'[u] = rewards_earned[u] /\ rewards_earned[u] \in Int
    BY <1>1 DEF userVars, TypeOK
  <2> QED  BY <1>5, <1>7, <2>1 DEF claimable
<1> QED  BY <1>5, <1>7, <1>8, <1>9, <1>10 DEF Ledger!ProRata

\* A close is a distribution of the ledger, funded as a whole.
LEMMA CloseDistributes ==
  ASSUME IInv, [Next]_vars, NEW epoch \in 1..MaxEpoch, update_cumulative(epoch)
  PROVE  Ledger!Distribute
<1> TypeOK
  BY DEF IInv
<1>1. /\ initialized /\ initialized' /\ pending_rewards' = 0
      /\ UNCHANGED <<userVars, total_staked, vaultVars, gifts>>
  BY CloseFacts DEF update_cumulative
<1>2. total_staked > 0
  BY <1>1, DeadStakeStays
<1>3. IInv' /\ TypeOK'
  BY StepIInv DEF IInv
<1>4. claims' \in [1..N -> Nat]
  BY <1>3, ClaimsNext
<1>5. \A u \in 1..N : Ledger!ProRata(u, claims'[u] - claims[u])
  <2>1. ASSUME NEW u \in Users
        PROVE  Ledger!ProRata(u, claims'[u] - claims[u])
    <3>1. claims'[u] = claimable(u)' /\ claims[u] = claimable(u)
      BY DEF claims
    <3> QED  BY <3>1, CloseCredits
  <2> QED  BY <2>1 DEF Users
<1>6. Sum(claims', N) <= escrow - RENT - gifts
  <2>1. escrow' >= RENT + gifts' + (pending_rewards' + Sum(claims', N))
    BY <1>1, <1>3, FundedNext DEF RewardsAreFunded, Owed, claims
  <2>2. /\ escrow \in Int /\ RENT \in Int /\ gifts \in Int
        /\ Sum(claims', N) \in Int
    BY <1>4, SumNat, StakingAssumption DEF TypeOK
  <2> QED  BY <1>1, <2>1, <2>2 DEF vaultVars
<1>7. Ledger!Sum(claims', N) = Sum(claims', N)
  BY DEF Ledger!Sum, Sum
<1> QED
  BY <1>1, <1>2, <1>4, <1>5, <1>6, <1>7
  DEF Ledger!Distribute, Ledger!Wallets, claims, userVars, vaultVars

\* Settling u leaves the other claims alone: the family changes at u only.
LEMMA SettledFamily ==
  ASSUME TypeOK, TypeOK', NEW u \in Users, NEW earned \in Nat,
         Settles(u, earned)
  PROVE  claims' = [claims EXCEPT ![u] = earned]
<1>1. /\ claimable(u)' = earned
      /\ \A v \in Users \ {u} : claimable(v)' = claimable(v)
  BY SettledClaims
<1> QED  BY <1>1 DEF claims

\* A balance that changed by d at u only.
LEMMA MovedBalance ==
  ASSUME TypeOK, NEW u \in Users, NEW d \in Int,
         staked_balance' = [staked_balance EXCEPT ![u] = @ + d],
         total_staked' = total_staked + d
  PROVE  /\ staked_balance' = [staked_balance EXCEPT ![u] = staked_balance'[u]]
         /\ staked_balance'[u] = staked_balance[u] + d
         /\ staked_balance[u] \in Int
         /\ total_staked' - total_staked = staked_balance'[u] - staked_balance[u]
<1>1. staked_balance \in [Users -> Nat] /\ total_staked \in Nat
  BY DEF TypeOK
<1>2. staked_balance'[u] = staked_balance[u] + d
  BY <1>1
<1>3. staked_balance' = [staked_balance EXCEPT ![u] = staked_balance'[u]]
  BY <1>1, <1>2
<1> QED  BY <1>1, <1>2, <1>3

\* Every step of the program is a step of the ledger, or changes nothing in it.
LEMMA LedgerStep ==
  ASSUME IInv, [Next]_vars
  PROVE  [Ledger!LedgerNext]_(Ledger!ledgerVars)
<1> TypeOK
  BY DEF IInv
<1>a. TypeOK'
  BY TypeStep
<1>b. claims \in [1..N -> Nat]
  BY ClaimsType
\* A step that leaves the wallets and the cumulative alone keeps the claims.
<1>c. UNCHANGED <<userVars, rewards_per_token_stored>> => claims' = claims
  BY FrameSums DEF userVars, claims
<1>1. CASE initialize_stake_pool
  <2>1. /\ total_staked = 0 /\ ~initialized /\ initialized'
        /\ total_staked' = MINIMUM_STAKE
        /\ UNCHANGED <<pending_rewards, staked_balance, userVars,
                       rewards_per_token_stored>>
    BY <1>1 DEF initialize_stake_pool, userVars, IInv, Blank
  <2>2. escrow' - RENT - gifts' = 0
    BY <1>1, StakingAssumption DEF initialize_stake_pool, TypeOK
  <2>3. total_staked' > 0
    BY <2>1, StakingAssumption
  <2>4. Ledger!Open
    BY <1>c, <2>1, <2>2, <2>3 DEF Ledger!Open, claims
  <2> QED  BY <2>4 DEF Ledger!LedgerNext
<1>2. ASSUME NEW u \in Users, NEW amount \in 1..Purse, stake(u, amount)
      PROVE  Ledger!LedgerNext
  <2>1. /\ claimable(u) \in Nat /\ amount \in Nat /\ initialized
        /\ Settles(u, claimable(u))
        /\ staked_balance' = [staked_balance EXCEPT ![u] = @ + amount]
    BY <1>2, StakeFacts
  <2>2. /\ amount > 0 /\ total_staked' = total_staked + amount /\ initialized'
        /\ UNCHANGED <<escrow, gifts, pending_rewards, initialized>>
    BY <1>2, <2>1 DEF stake
  <2>3. claims' = claims
    <3>1. claims' = [claims EXCEPT ![u] = claimable(u)] /\ claims[u] = claimable(u)
      BY <1>a, <2>1, SettledFamily DEF claims
    <3> QED  BY <1>b, <3>1
  <2>4. amount \in Int
    BY <2>1
  <2>5. /\ staked_balance' = [staked_balance EXCEPT ![u] = staked_balance'[u]]
        /\ staked_balance'[u] = staked_balance[u] + amount
        /\ staked_balance[u] \in Int
        /\ total_staked' - total_staked = staked_balance'[u] - staked_balance[u]
    BY <2>1, <2>2, <2>4, MovedBalance
  <2>6. staked_balance'[u] > staked_balance[u]
    BY <2>1, <2>2, <2>5
  <2>7. Ledger!Enter(u)
    BY <2>2, <2>3, <2>5, <2>6 DEF Ledger!Enter, Ledger!Move, claims
  <2> QED  BY <2>7 DEF Ledger!LedgerNext, Ledger!Wallets, Users
<1>3. ASSUME NEW u \in Users, NEW amount \in 1..Purse, unstake(u, amount)
      PROVE  Ledger!LedgerNext
  <2> DEFINE out == unstake_amount(u, amount)
  <2>1. /\ claimable(u) \in Nat /\ initialized /\ Settles(u, 0)
        /\ out \in Nat /\ out <= staked_balance[u]
        /\ staked_balance' = [staked_balance EXCEPT ![u] = @ - out]
    BY <1>3, UnstakeFacts
  <2>2. /\ total_staked' = total_staked - out
        /\ pending_rewards' = pending_rewards + claimable(u)
        /\ UNCHANGED <<escrow, gifts, initialized>>
    BY <1>3 DEF unstake
  <2>3. out > 0
    <3>1. amount > 0 /\ staked_balance[u] >= amount
          /\ staked_balance[u] \in Nat /\ amount \in Nat
      BY <1>3, StakingAssumption DEF unstake, withdrawable, TypeOK
    <3> QED  BY <3>1 DEF unstake_amount
  <2> HIDE DEF out
  <2>4. claims' = [claims EXCEPT ![u] = 0] /\ claims[u] = claimable(u)
    BY <1>a, <2>1, SettledFamily DEF claims
  <2>5. /\ staked_balance' = [staked_balance EXCEPT ![u] = @ + (0 - out)]
        /\ total_staked' = total_staked + (0 - out) /\ 0 - out \in Int
    <3>1. staked_balance[u] \in Int /\ total_staked \in Int
      BY DEF TypeOK
    <3>2. /\ staked_balance[u] - out = staked_balance[u] + (0 - out)
          /\ total_staked - out = total_staked + (0 - out) /\ 0 - out \in Int
      BY <2>1, <3>1
    <3> QED  BY <2>1, <2>2, <3>2
  <2>6. /\ staked_balance' = [staked_balance EXCEPT ![u] = staked_balance'[u]]
        /\ staked_balance'[u] = staked_balance[u] + (0 - out)
        /\ staked_balance[u] \in Int
        /\ total_staked' - total_staked = staked_balance'[u] - staked_balance[u]
    BY <2>5, MovedBalance
  <2>7. staked_balance'[u] < staked_balance[u]
    BY <2>1, <2>3, <2>6
  <2>8. Ledger!Leave(u)
    BY <2>1, <2>2, <2>4, <2>6, <2>7 DEF Ledger!Leave, Ledger!Move, claims
  <2> QED  BY <2>8 DEF Ledger!LedgerNext, Ledger!Wallets, Users
<1>4. ASSUME NEW u \in Users, claim(u)
      PROVE  Ledger!LedgerNext
  <2>1. claimable(u) \in Nat /\ Settles(u, 0)
    BY <1>4, ClaimFacts
  <2>2. /\ claimable(u) > 0 /\ escrow' = escrow - claimable(u) /\ initialized
        /\ UNCHANGED <<pending_rewards, gifts, initialized, staked_balance,
                       total_staked>>
    BY <1>4 DEF claim, IInv, Blank, TypeOK
  <2>3. claims' = [claims EXCEPT ![u] = 0] /\ claims[u] = claimable(u)
    BY <1>a, <2>1, SettledFamily DEF claims
  <2>4. escrow' - RENT - gifts' = (escrow - RENT - gifts) - claimable(u)
    BY <2>1, <2>2, StakingAssumption DEF TypeOK
  <2>5. Ledger!Collect(u)
    BY <2>2, <2>3, <2>4 DEF Ledger!Collect, claims
  <2> QED  BY <2>5 DEF Ledger!LedgerNext, Ledger!Wallets, Users
<1>5. ASSUME NEW amount \in Deposits, deposit_rewards(amount)
      PROVE  Ledger!LedgerNext
  <2>1. /\ amount > 0 /\ initialized
        /\ escrow' = escrow + amount
        /\ pending_rewards' = pending_rewards + amount
        /\ UNCHANGED <<userVars, rewards_per_token_stored, gifts, initialized,
                       total_staked, staked_balance>>
    BY <1>5 DEF deposit_rewards, userVars
  <2>2. /\ pending_rewards' > pending_rewards
        /\ (escrow' - RENT - gifts') - (escrow - RENT - gifts)
             = pending_rewards' - pending_rewards
    BY <2>1, StakingAssumption DEF TypeOK
  <2>3. Ledger!Fund
    BY <1>c, <2>1, <2>2 DEF Ledger!Fund, claims
  <2> QED  BY <2>3 DEF Ledger!LedgerNext
<1>6. ASSUME NEW epoch \in 1..MaxEpoch, update_cumulative(epoch)
      PROVE  Ledger!LedgerNext
  BY <1>6, CloseDistributes DEF Ledger!LedgerNext
<1>7. CASE Gift \/ Tick \/ UNCHANGED vars
  <2>1. /\ UNCHANGED <<userVars, rewards_per_token_stored, pending_rewards,
                       initialized, total_staked, staked_balance>>
        /\ \/ UNCHANGED <<escrow, gifts>>
           \/ escrow' = escrow + 1 /\ gifts' = gifts + 1
    BY <1>7 DEF Gift, Tick, vars, poolVars, vaultVars, userVars
  <2>2. escrow' - RENT - gifts' = escrow - RENT - gifts
    BY <2>1, StakingAssumption DEF TypeOK
  <2> QED  BY <1>c, <2>1, <2>2 DEF Ledger!ledgerVars, claims
<1> QED
  BY <1>1, <1>2, <1>3, <1>4, <1>5, <1>6, <1>7 DEF Next

------------------------------------------------------------------------------
(* Theorems *)

\* The strengthened invariant holds in every reachable state.
THEOREM Invariance == Spec => []IInv
<1>1. Init => IInv
  BY InitIInv
<1>2. IInv /\ [Next]_vars => IInv'
  BY StepIInv
<1> QED  BY <1>1, <1>2, PTL DEF Spec

\* Every account field keeps its type and no checkpoint overtakes the pool's
\* cumulative: the checked subtraction of update_rewards never fails.
THEOREM TypeCorrect == Spec => []TypeOK
<1>1. IInv => TypeOK
  BY DEF IInv
<1> QED  BY <1>1, Invariance, PTL

\* The stake vault holds the dead stake and every wallet's balance, no more and
\* no less: unstake never takes another wallet's PROFIT and never fails for want
\* of it.
THEOREM VaultBacked == Spec => []StakeIsBacked
<1>1. IInv => StakeIsBacked
  BY DEF IInv
<1> QED  BY <1>1, Invariance, PTL

\* The escrow covers rent, pending rewards and every wallet's share: claim never
\* fails for want of lamports.
THEOREM Solvency == Spec => []RewardsAreFunded
<1>1. IInv => RewardsAreFunded
  BY FundedFromIInv
<1> QED  BY <1>1, Invariance, PTL

\* Claims stay within what update_cumulative reported as distributed.
THEOREM ClaimsBounded == Spec => []ClaimedWithinDistributed
<1>1. IInv => ClaimedWithinDistributed
  BY DistributedFromIInv
<1> QED  BY <1>1, Invariance, PTL

\* No settlement, claim, unstake or close ever fails for a width, a rounding or a
\* balance, for any number of wallets and any amounts: the Overflow errors of
\* update_rewards, claim and unstake are unreachable.
THEOREM ExitsAlwaysOpen == Spec => []ExitsStayOpen
<1>1. IInv => ExitsStayOpen
  BY ExitsFromIInv
<1> QED  BY <1>1, Invariance, PTL

\* Between two closes what is owed moves with the escrow, lamport for lamport.
THEOREM Conservation == Spec => SettlementConserves
<1>1. IInv /\ [Next]_vars
        => [(initialized /\ last_update_epoch' = last_update_epoch)
              => Owed' - Owed = (escrow' - gifts') - (escrow - gifts)]_vars
  BY ConservesAction
<1> QED  BY <1>1, Invariance, PTL DEF Spec, SettlementConserves

\* Only a close raises a claim, and by less than a lamport above the share.
THEOREM ProRata == Spec => ShareIsProRata
<1>1. IInv /\ [Next]_vars
        => [\A u \in Users : claimable(u)' > claimable(u) =>
              /\ last_update_epoch' > last_update_epoch
              /\ (claimable(u)' - claimable(u) - 1) * total_staked
                   < staked_balance[u] * pending_rewards]_vars
  BY ShareAction
<1> QED  BY <1>1, Invariance, PTL DEF Spec, ShareIsProRata

\* The program with its lazy settlements implements the ledger that credits at
\* once: each close within a lamport of pro rata on both sides, everything else
\* to the lamport.
THEOREM LedgerImplemented == Spec => ImplementsLedger
<1>1. Init => Ledger!LedgerInit
  <2>1. ASSUME Init
        PROVE  [u \in Users |-> claimable(u)] = [u \in Ledger!Wallets |-> 0]
    <3>1. IInv /\ TypeOK
      BY <2>1, InitIInv DEF IInv
    <3>2. ASSUME NEW u \in Users PROVE claimable(u) = 0
      <4>1. rewards_earned[u] = 0 /\ staked_balance[u] = 0
            /\ rewards_per_token_stored - rewards_per_token_paid[u] = 0
        BY <2>1 DEF Init
      <4>2. accrued(u) = 0
        BY <4>1 DEF accrued, accrual
      <4> QED  BY <4>1, <4>2 DEF claimable
    <3> QED  BY <3>2 DEF Ledger!Wallets, Users
  <2> QED  BY <2>1 DEF Init, Ledger!LedgerInit, Ledger!Wallets, Users
<1>2. IInv /\ [Next]_vars => [Ledger!LedgerNext]_(Ledger!ledgerVars)
  BY LedgerStep
<1> QED  BY <1>1, <1>2, Invariance, PTL DEF Spec, ImplementsLedger, Ledger!LedgerSpec

\* No stake leaves within the cooldown of the wallet's last claim.
THEOREM Cooldown == Spec => CooldownKept
<1>1. IInv /\ [Next]_vars
        => [\A u \in Users :
              staked_balance'[u] < staked_balance[u] /\ claimed_at[u] > 0
                => unix_timestamp - claimed_at[u] >= COOLDOWN_SECONDS]_vars
  BY CooldownAction
<1> QED  BY <1>1, Invariance, PTL DEF Spec, CooldownKept

------------------------------------------------------------------------------
(* The votes *)

HIDE ConstantTypes

\* The singleton is the one initialize wrote, or the outcome of an ended week.
Decided ==
  IF haul_policy.effective_week = 0 THEN haul_policy.policy = POLICY_LP_ADD
  ELSE LET last == haul_policy.last_finalized_week IN
       /\ after_genesis
       /\ last \in Weeks
       /\ haul_policy.effective_week = last + 1
       /\ last < current_week
       /\ haul_policy.policy = winner(tally[last])

VInv == IInv /\ VoteTypeOK /\ TallyIsReceipts /\ Decided

\* The week arithmetic stays within the naturals and follows the clock.
LEMMA WeekFacts ==
  ASSUME TypeOK
  PROVE  /\ Weeks \subseteq Nat
         /\ after_genesis => current_week \in Nat
         /\ \A t \in Nat : after_genesis /\ t >= unix_timestamp =>
              /\ t >= GENESIS_MONDAY_00_UTC
              /\ week_of(t) \in Nat /\ week_of(t) >= current_week
<1> /\ unix_timestamp \in Nat /\ GENESIS_MONDAY_00_UTC \in Nat
    /\ WEEK_SECONDS \in Nat \ {0} /\ MaxTime \in Nat
  BY VotesAssumption, StakingAssumption DEF TypeOK
<1>1. Weeks \subseteq Nat
  BY DEF Weeks
<1>2. after_genesis => current_week \in Nat
  BY DEF after_genesis, current_week, week_of
<1>3. ASSUME NEW t \in Nat, after_genesis, t >= unix_timestamp
      PROVE  /\ t >= GENESIS_MONDAY_00_UTC
             /\ week_of(t) \in Nat /\ week_of(t) >= current_week
  <2> DEFINE a == unix_timestamp - GENESIS_MONDAY_00_UTC
             b == t - GENESIS_MONDAY_00_UTC
  <2>1. a \in Nat /\ b \in Nat /\ a <= b
    BY <1>3 DEF after_genesis
  <2>2. \A x, y \in Nat, p \in Nat \ {0} : x <= y => x \div p <= y \div p
    <3> SUFFICES ASSUME NEW x \in Nat, NEW y \in Nat, NEW p \in Nat \ {0},
                        x <= y, x \div p > y \div p
                 PROVE  FALSE
      OBVIOUS
    <3>1. /\ x \div p \in Nat /\ p * (x \div p) <= x
          /\ y \div p \in Nat /\ y < p * (y \div p) + p
      BY DivFacts
    <3>2. p * (y \div p + 1) <= p * (x \div p)
      BY <3>1, Scale
    <3>3. p * (y \div p + 1) = p * (y \div p) + p
      BY <3>1
    <3> HIDE DEF a, b
    <3> QED  BY <3>1, <3>2, <3>3
  <2>3. a \div WEEK_SECONDS <= b \div WEEK_SECONDS /\ b \div WEEK_SECONDS \in Nat
    BY <2>1, <2>2
  <2> QED  BY <2>1, <2>3, <1>3 DEF week_of, current_week, after_genesis
<1> QED  BY <1>1, <1>2, <1>3

\* No step of the staking program, nor a vote, turns the clock back.
LEMMA ClockAdvances ==
  ASSUME TypeOK, VoteNext \/ UNCHANGED allVars
  PROVE  unix_timestamp' \in Nat /\ unix_timestamp' >= unix_timestamp
<1> unix_timestamp \in Nat
  BY DEF TypeOK
<1>1. CASE Tick
  BY <1>1 DEF Tick
<1>2. ASSUME NEW u \in Users, NEW amount \in 1..Purse,
             stake(u, amount) \/ unstake(u, amount)
      PROVE  unix_timestamp' = unix_timestamp
  BY <1>2 DEF stake, unstake
<1>3. ASSUME NEW u \in Users, claim(u) PROVE unix_timestamp' = unix_timestamp
  BY <1>3 DEF claim
<1>4. CASE initialize_stake_pool \/ Gift
  BY <1>4 DEF initialize_stake_pool, Gift
<1>5. CASE \E amount \in Deposits : deposit_rewards(amount)
  BY <1>5 DEF deposit_rewards
<1>6. CASE \E epoch \in 1..MaxEpoch : update_cumulative(epoch)
  BY <1>6 DEF update_cumulative
<1>7. ASSUME UNCHANGED stakingVars PROVE unix_timestamp' = unix_timestamp
  BY <1>7 DEF stakingVars, vars
<1>8. CASE Next
  BY <1>1, <1>2, <1>3, <1>4, <1>5, <1>6, <1>8 DEF Next
<1> QED
  BY <1>7, <1>8 DEF VoteNext, initialize, cast_vote, finalize_week, allVars

\* With the singleton and the tallies unchanged, time only confirms Decided.
LEMMA DecidedKept ==
  ASSUME VInv, VoteNext \/ UNCHANGED allVars, UNCHANGED <<tally, haul_policy>>
  PROVE  Decided'
<1> TypeOK /\ Decided
  BY DEF VInv, VoteTypeOK
<1>1. unix_timestamp' \in Nat /\ unix_timestamp' >= unix_timestamp
  BY ClockAdvances
<1>2. after_genesis => /\ after_genesis' /\ current_week' \in Nat
                       /\ current_week \in Nat /\ current_week' >= current_week
  BY <1>1, WeekFacts DEF after_genesis, current_week, week_of
<1>3. Weeks \subseteq Nat
  BY WeekFacts
<1>4. ASSUME haul_policy.last_finalized_week \in Weeks, after_genesis,
             haul_policy.last_finalized_week < current_week
      PROVE  haul_policy.last_finalized_week < current_week'
  <2> DEFINE last == haul_policy.last_finalized_week
  <2>1. last \in Nat /\ last < current_week
    BY <1>3, <1>4
  <2> HIDE DEF last
  <2>2. last < current_week'
    BY <2>1, <1>2, <1>4
  <2> QED  BY <2>2 DEF last
<1> QED  BY <1>2, <1>4 DEF Decided

\* The tally of a cast's week gains the weight its receipt locks.
LEMMA CastStep ==
  ASSUME VInv, NEW u \in Users, NEW w \in Weeks, NEW choice \in Policies,
         cast_vote(u, w, choice)
  PROVE  VoteTypeOK' /\ TallyIsReceipts' /\ Decided'
<1> TypeOK /\ VoteTypeOK /\ TallyIsReceipts /\ Decided
  BY DEF VInv, VoteTypeOK
<1> DEFINE weight == staked_balance[u]
<1>1. weight \in Nat
  BY DEF TypeOK
<1>2. TypeOK'
  BY DEF cast_vote, stakingVars, vars, poolVars, userVars, vaultVars, TypeOK, Users
<1>3. /\ tally[w] \in Weight /\ receipt[w] \in [Users -> [choice : Policies, weight : Nat]]
      /\ receipt[w][u] = NoReceipt
  BY DEF VoteTypeOK, cast_vote, unvoted
<1>4. tally' = [tally EXCEPT ![w] =
        [burn |-> tally[w].burn + IF choice = POLICY_BURN THEN weight ELSE 0,
         lp   |-> tally[w].lp + IF choice = POLICY_BURN THEN 0 ELSE weight]]
  <2>1. tally[w] = [burn |-> tally[w].burn, lp |-> tally[w].lp]
        /\ tally[w].burn + 0 = tally[w].burn /\ tally[w].lp + 0 = tally[w].lp
    BY <1>3 DEF Weight
  <2>2. CASE choice = POLICY_BURN
    <3>1. tally' = [tally EXCEPT ![w] = [tally[w] EXCEPT !.burn = @ + weight]]
      BY <2>2 DEF cast_vote, VoteTypeOK
    <3>2. [tally[w] EXCEPT !.burn = @ + weight]
            = [burn |-> tally[w].burn + weight, lp |-> tally[w].lp]
      BY <2>1
    <3> QED  BY <2>1, <2>2, <3>1, <3>2
  <2>3. CASE choice # POLICY_BURN
    <3>1. tally' = [tally EXCEPT ![w] = [tally[w] EXCEPT !.lp = @ + weight]]
      BY <2>3 DEF cast_vote, VoteTypeOK
    <3>2. [tally[w] EXCEPT !.lp = @ + weight]
            = [burn |-> tally[w].burn, lp |-> tally[w].lp + weight]
      BY <2>1
    <3> QED  BY <2>1, <2>3, <3>1, <3>2
  <2> QED  BY <2>2, <2>3
<1>5. receipt' = [receipt EXCEPT ![w] =
        [receipt[w] EXCEPT ![u] = [choice |-> choice, weight |-> weight]]]
  BY <1>3 DEF cast_vote, VoteTypeOK
<1>6. VoteTypeOK'
  <2>1. [burn |-> tally[w].burn + IF choice = POLICY_BURN THEN weight ELSE 0,
         lp   |-> tally[w].lp + IF choice = POLICY_BURN THEN 0 ELSE weight] \in Weight
    BY <1>1, <1>3 DEF Weight
  <2>2. tally' \in [Weeks -> Weight]
    BY <1>4, <2>1 DEF VoteTypeOK
  <2>3. [receipt[w] EXCEPT ![u] = [choice |-> choice, weight |-> weight]]
          \in [Users -> [choice : Policies, weight : Nat]]
    BY <1>1, <1>3
  <2>4. receipt' \in [Weeks -> [Users -> [choice : Policies, weight : Nat]]]
    BY <1>5, <2>3 DEF VoteTypeOK
  <2>5. policy_exists' = policy_exists /\ haul_policy' = haul_policy
    BY DEF cast_vote
  <2> QED  BY <1>2, <2>2, <2>4, <2>5 DEF VoteTypeOK
<1>7. ASSUME NEW p \in Policies
      PROVE  Cast(w, p)' = Cast(w, p) + IF choice = p THEN weight ELSE 0
  <2> DEFINE f == [v \in Users |-> IF receipt[w][v].choice = p
                                   THEN receipt[w][v].weight ELSE 0]
             g == [v \in Users |-> IF receipt'[w][v].choice = p
                                   THEN receipt'[w][v].weight ELSE 0]
             d == IF choice = p THEN weight ELSE 0
  <2>1. f \in [1..N -> Int] /\ d \in Int /\ f[u] = 0 /\ u \in 1..N
    <3>1. \A v \in Users : receipt[w][v] \in [choice : Policies, weight : Nat]
      BY <1>3
    <3>2. \A v \in Users : receipt[w][v].weight \in Nat
      BY <3>1
    <3>3. receipt[w][u].weight = 0
      BY <1>3 DEF NoReceipt
    <3> QED  BY <1>1, <3>2, <3>3 DEF Users
  <2>2. g = [f EXCEPT ![u] = d]
    BY <1>3, <1>5 DEF VoteTypeOK
  <2>3. N \in Nat
    BY ConstantTypes
  <2>4. Cast(w, p) = Sum(f, N) /\ Cast(w, p)' = Sum(g, N)
    BY DEF Cast
  <2>5. Sum(f, N) \in Int
    <3> HIDE DEF f
    <3> QED  BY <2>1, <2>3, SumInt
  <2>6. Sum([f EXCEPT ![u] = d], N) = Sum(f, N) - f[u] + d
    <3> HIDE DEF f, d
    <3> QED  BY <2>1, <2>3, SumUpdate
  <2>7. Sum(g, N) = Sum(f, N) + d
    <3> HIDE DEF f, g, d
    <3> QED  BY <2>1, <2>2, <2>5, <2>6
  <2> QED  BY <2>4, <2>7
<1>8. ASSUME NEW v \in Weeks, v # w, NEW p \in Policies
      PROVE  tally'[v] = tally[v] /\ Cast(v, p)' = Cast(v, p)
  BY <1>4, <1>5, <1>8 DEF Cast, VoteTypeOK
<1>9. TallyIsReceipts'
  <2> SUFFICES ASSUME NEW v \in Weeks
               PROVE  (tally[v] = [burn |-> Cast(v, POLICY_BURN),
                                   lp |-> Cast(v, POLICY_LP_ADD)])'
    BY DEF TallyIsReceipts
  <2>0. POLICY_BURN \in Policies /\ POLICY_LP_ADD \in Policies
    BY DEF Policies
  <2>1. CASE v # w
    BY <1>8, <2>0, <2>1 DEF TallyIsReceipts
  <2>2. CASE v = w
    <3>1. /\ Cast(w, POLICY_BURN)' = Cast(w, POLICY_BURN)
                                     + IF choice = POLICY_BURN THEN weight ELSE 0
          /\ Cast(w, POLICY_LP_ADD)' = Cast(w, POLICY_LP_ADD)
                                     + IF choice = POLICY_LP_ADD THEN weight ELSE 0
      BY <1>7, <2>0
    <3>2. choice = POLICY_LP_ADD <=> choice # POLICY_BURN
      BY DEF Policies, POLICY_BURN, POLICY_LP_ADD
    <3>3. tally'[w] = [burn |-> tally[w].burn + IF choice = POLICY_BURN THEN weight ELSE 0,
                       lp   |-> tally[w].lp + IF choice = POLICY_BURN THEN 0 ELSE weight]
      BY <1>4 DEF VoteTypeOK
    <3>4. tally[w].burn = Cast(w, POLICY_BURN) /\ tally[w].lp = Cast(w, POLICY_LP_ADD)
      <4>1. tally[w] = [burn |-> Cast(w, POLICY_BURN), lp |-> Cast(w, POLICY_LP_ADD)]
        BY DEF TallyIsReceipts
      <4> QED  BY <4>1
    <3> QED  BY <2>2, <3>1, <3>2, <3>3, <3>4
  <2> QED  BY <2>1, <2>2
<1>10. Decided'
  <2>1. /\ haul_policy' = haul_policy /\ unix_timestamp' = unix_timestamp
        /\ w = current_week
    BY DEF cast_vote, stakingVars, vars, castable
  <2>2. Weeks \subseteq Nat
    BY WeekFacts
  <2>3. ASSUME NEW last \in Weeks, last < current_week PROVE tally'[last] = tally[last]
    BY <1>4, <2>1, <2>2, <2>3 DEF VoteTypeOK
  <2> QED
    BY <2>1, <2>3 DEF Decided, after_genesis, current_week, winner
<1> QED  BY <1>6, <1>9, <1>10

\* A finalization copies the outcome of a week that no cast reaches any more.
LEMMA FinalizeStep ==
  ASSUME VInv, NEW w \in Weeks, finalize_week(w)
  PROVE  VoteTypeOK' /\ TallyIsReceipts' /\ Decided'
<1> TypeOK /\ VoteTypeOK /\ TallyIsReceipts
  BY DEF VInv, VoteTypeOK
<1>1. w \in Nat /\ Weeks \subseteq Nat
  BY WeekFacts
<1>2. TypeOK'
  BY DEF finalize_week, stakingVars, vars, poolVars, userVars, vaultVars, TypeOK, Users
<1>3. tally[w] \in Weight
  BY DEF VoteTypeOK
<1>4. winner(tally[w]) \in Policies
  BY DEF winner, Policies
<1>5. VoteTypeOK'
  BY <1>1, <1>2, <1>3, <1>4 DEF VoteTypeOK, finalize_week
<1>6. TallyIsReceipts'
  BY DEF TallyIsReceipts, Cast, finalize_week
<1>7. /\ haul_policy'.effective_week = w + 1 /\ haul_policy'.last_finalized_week = w
      /\ haul_policy'.policy = winner(tally[w]) /\ tally' = tally
      /\ unix_timestamp' = unix_timestamp /\ after_genesis /\ w < current_week
  <2>1. UNCHANGED stakingVars /\ ended(w)
    BY DEF finalize_week
  <2>2. after_genesis /\ current_week > w
    BY <2>1 DEF ended
  <2>3. current_week \in Nat
    BY <2>2, WeekFacts
  <2>4. w < current_week
    BY <2>2, <2>3, <1>1
  <2> QED  BY <2>1, <2>2, <2>4 DEF finalize_week, stakingVars, vars
<1>8. w + 1 # 0
  BY <1>1
<1> QED  BY <1>5, <1>6, <1>7, <1>8 DEF Decided, after_genesis, current_week, winner

\* A step of the composition is a step of the staking program or leaves it alone.
LEMMA StakingStep ==
  ASSUME VoteNext \/ UNCHANGED allVars
  PROVE  [Next]_vars
  BY DEF VoteNext, initialize, cast_vote, finalize_week, allVars, stakingVars

\* The strengthened invariant holds initially.
LEMMA VoteInitVInv ==
  ASSUME VoteInit
  PROVE  VInv
<1>1. IInv
  BY InitIInv DEF VoteInit
<1>2. TypeOK
  BY <1>1 DEF IInv
<1>3. VoteTypeOK
  BY <1>2 DEF VoteInit, VoteTypeOK, Weight, NoReceipt, Policies
<1>4. TallyIsReceipts
  <2> SUFFICES ASSUME NEW w \in Weeks, NEW p \in Policies PROVE Cast(w, p) = 0
    BY DEF TallyIsReceipts, VoteInit, Policies
  <2> DEFINE f == [u \in Users |-> IF receipt[w][u].choice = p
                                   THEN receipt[w][u].weight ELSE 0]
  <2>1. f \in [1..N -> Int] /\ \A u \in 1..N : f[u] = 0
    BY DEF VoteInit, NoReceipt, Users
  <2>2. N \in Nat
    BY ConstantTypes
  <2>3. Cast(w, p) = Sum(f, N)
    BY DEF Cast
  <2> HIDE DEF f
  <2> QED  BY <2>1, <2>2, <2>3, SumZero
<1>5. Decided
  BY DEF VoteInit, Decided
<1> QED  BY <1>1, <1>3, <1>4, <1>5 DEF VInv

\* Every step preserves the strengthened invariant.
LEMMA VoteStep ==
  ASSUME VInv, VoteNext \/ UNCHANGED allVars
  PROVE  VInv'
<1>1. IInv'
  BY StakingStep, StepIInv DEF VInv
<1>2. TypeOK'
  BY <1>1 DEF IInv
<1>3. ASSUME UNCHANGED <<tally, receipt, haul_policy>>, policy_exists' \in BOOLEAN
      PROVE  VoteTypeOK' /\ TallyIsReceipts' /\ Decided'
  BY <1>2, <1>3, DecidedKept DEF VInv, VoteTypeOK, TallyIsReceipts, Cast
<1>4. CASE \E u \in Users, w \in Weeks, choice \in Policies : cast_vote(u, w, choice)
  BY <1>1, <1>4, CastStep DEF VInv
<1>5. CASE \E w \in Weeks : finalize_week(w)
  BY <1>1, <1>5, FinalizeStep DEF VInv
<1>6. CASE initialize
  BY <1>1, <1>3, <1>6 DEF VInv, initialize
<1>7. CASE UNCHANGED voteVars
  BY <1>1, <1>3, <1>7 DEF VInv, VoteTypeOK, voteVars
<1> QED  BY <1>4, <1>5, <1>6, <1>7 DEF VoteNext, allVars

------------------------------------------------------------------------------
\* The strengthened invariant holds in every reachable state.
THEOREM VoteInvariance == VoteSpec => []VInv
<1>1. VoteInit => VInv
  BY VoteInitVInv
<1>2. VInv /\ [VoteNext]_allVars => VInv'
  BY VoteStep
<1> QED  BY <1>1, <1>2, PTL DEF VoteSpec

\* Every account of the vote program keeps its type.
THEOREM VoteTypeCorrect == VoteSpec => []VoteTypeOK
<1>1. VInv => VoteTypeOK
  BY DEF VInv
<1> QED  BY <1>1, VoteInvariance, PTL

\* A tally is the sum of the receipts of its week: cast_vote counts each wallet
\* once, whatever happens to its stake.
THEOREM TalliesAreReceipts == VoteSpec => []TallyIsReceipts
<1>1. VInv => TallyIsReceipts
  BY DEF VInv
<1> QED  BY <1>1, VoteInvariance, PTL

\* What a reader of the singleton burns on is a majority of the receipts of the
\* week before.
THEOREM MajorityBurns == VoteSpec => []BurnNeedsMajority
<1>1. ASSUME VInv, after_genesis, reader_policy = POLICY_BURN
      PROVE  /\ haul_policy.effective_week = current_week
             /\ Cast(current_week - 1, POLICY_BURN)
                  > Cast(current_week - 1, POLICY_LP_ADD)
  <2> DEFINE last == haul_policy.last_finalized_week
             e == haul_policy.effective_week
  <2>1. TypeOK /\ Decided /\ TallyIsReceipts /\ VoteTypeOK
    BY <1>1 DEF VInv, VoteTypeOK
  <2>2. current_week \in Nat /\ Weeks \subseteq Nat /\ e \in Nat
    BY <1>1, <2>1, WeekFacts DEF VoteTypeOK
  <2>3. ~(e < current_week) /\ haul_policy.policy = POLICY_BURN
    BY <1>1 DEF reader_policy, POLICY_BURN, POLICY_LP_ADD
  <2>4. e # 0
    BY <2>1, <2>3 DEF Decided, POLICY_BURN, POLICY_LP_ADD
  <2>5. /\ last \in Weeks /\ e = last + 1 /\ last < current_week
        /\ winner(tally[last]) = POLICY_BURN
    BY <2>1, <2>3, <2>4 DEF Decided
  <2>6. tally[last].burn > tally[last].lp
    BY <2>5 DEF winner, POLICY_BURN, POLICY_LP_ADD
  <2>7. tally[last] = [burn |-> Cast(last, POLICY_BURN), lp |-> Cast(last, POLICY_LP_ADD)]
    BY <2>1, <2>5 DEF TallyIsReceipts
  <2>8. last \in Nat
    BY <2>2, <2>5
  <2> HIDE DEF last, e
  <2>9. e = current_week /\ last = current_week - 1
    BY <2>2, <2>3, <2>5, <2>8
  <2> QED  BY <2>6, <2>7, <2>9 DEF e
<1>2. VInv => BurnNeedsMajority
  BY <1>1 DEF BurnNeedsMajority
<1> QED  BY <1>2, VoteInvariance, PTL

\* Decisions are only ever replaced by those of later weeks, none ahead of time.
THEOREM DecisionsOnlyAdvance == VoteSpec => DecisionsAdvance
<1>1. ASSUME VInv, VoteNext, haul_policy' # haul_policy
      PROVE  /\ haul_policy'.effective_week > haul_policy.effective_week
             /\ haul_policy'.effective_week <= current_week
  <2>1. PICK w \in Weeks : finalize_week(w)
    BY <1>1 DEF VoteNext, initialize, cast_vote, voteVars
  <2>2. TypeOK /\ Decided /\ VoteTypeOK
    BY <1>1 DEF VInv, VoteTypeOK
  <2>3. /\ after_genesis /\ current_week > w /\ haul_policy'.effective_week = w + 1
        /\ not_yet_finalized(w)
    BY <2>1 DEF finalize_week, ended
  <2>4. current_week \in Nat /\ Weeks \subseteq Nat /\ w \in Nat
    BY <2>2, <2>3, WeekFacts
  <2> DEFINE e == haul_policy.effective_week
             last == haul_policy.last_finalized_week
  <2>5. e \in Nat /\ last \in Nat
    BY <2>2 DEF VoteTypeOK
  <2>6. e = 0 \/ (e = last + 1 /\ w > last)
    BY <2>2, <2>3 DEF Decided, not_yet_finalized
  <2> HIDE DEF e, last
  <2>7. w + 1 > e /\ w + 1 <= current_week
    BY <2>3, <2>4, <2>5, <2>6
  <2> QED  BY <2>3, <2>7 DEF e
<1>2. VInv /\ [VoteNext]_allVars
        => [haul_policy' # haul_policy =>
              /\ haul_policy'.effective_week > haul_policy.effective_week
              /\ haul_policy'.effective_week <= current_week]_allVars
  BY <1>1
<1> QED  BY <1>2, VoteInvariance, PTL DEF VoteSpec, DecisionsAdvance

\* The composition behaves as the staking program: cast_vote and finalize_week
\* read its accounts and write none, so its theorems hold here too.
THEOREM StakingUndisturbed == VoteSpec => Spec
<1>1. VoteInit => Init
  BY DEF VoteInit
<1>2. [VoteNext]_allVars => [Next]_vars
  BY StakingStep
<1> QED  BY <1>1, <1>2, PTL DEF VoteSpec, Spec

================================================================================
