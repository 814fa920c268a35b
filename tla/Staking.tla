-------------------------------- MODULE Staking --------------------------------
(***************************************************************************)
(* The staking program: wallets stake PROFIT, tax SOL arrives in an escrow *)
(* as pending rewards, and the epoch program folds the pending rewards     *)
(* into a cumulative reward per token once per epoch.  A wallet's share is *)
(* only computed when the wallet acts, so what is owed to it lives in      *)
(* three places (its earned counter, the cumulative it has not settled     *)
(* yet, the pool's pending counter) and must stay covered by the escrow.   *)
(*                                                                         *)
(* Wallets are numbered 1..N.  Each instruction is atomic: a failed one    *)
(* leaves no trace and is a disabled action here.  Left out because no     *)
(* guard reads them: the slot stamps and the per-wallet claim total.  The  *)
(* sums of PROFIT have no width, as its supply fits in u64; everything     *)
(* counted in lamports has, U64_MAX, and so have the products, U128_MAX.   *)
(***************************************************************************)
EXTENDS IndexedSum

CONSTANTS
  N,                 \* number of wallets that may stake
  PRECISION,         \* scale of the cumulative reward per token
  MINIMUM_STAKE,     \* the dead stake, and the smallest remainder left staked
  COOLDOWN_SECONDS,  \* wait between a claim and an unstake
  RENT,              \* rent-exempt minimum of the escrow account
  U64_MAX,           \* largest value of a lamport counter
  U128_MAX,          \* largest value of the reward products
  Purse,             \* PROFIT each wallet can stake (bound)
  Deposits,          \* staking portions one tax payment can bring (bound)
  MaxPending,        \* pending rewards beyond which no deposit comes (bound)
  MaxEpoch,          \* last epoch closed (bound)
  MaxTime,           \* last second of the clock (bound)
  MaxGifts           \* lamports strangers send to the escrow (bound)

ASSUME StakingAssumption ==
  /\ N \in Nat \ {0} /\ PRECISION \in Nat \ {0} /\ MINIMUM_STAKE \in Nat \ {0}
  /\ COOLDOWN_SECONDS \in Nat /\ RENT \in Nat
  /\ Purse \in Nat /\ Deposits \subseteq Nat /\ MaxPending \in Nat
  /\ MaxEpoch \in Nat /\ MaxTime \in Nat /\ MaxGifts \in Nat

\* The precision is below 2^64, so a u64 counter times it fits in u128.
ASSUME WidthAssumption ==
  /\ U64_MAX \in Nat /\ U128_MAX \in Nat
  /\ RENT <= U64_MAX /\ PRECISION * U64_MAX <= U128_MAX

VARIABLES
  initialized, total_staked, rewards_per_token_stored, pending_rewards,
  last_update_epoch, total_distributed, total_claimed,
  escrow,                \* lamports of the escrow_vault account
  stake_vault,           \* PROFIT held by the stake_vault account
  owner,                 \* owner[u]: the wallet's UserStake account exists
  staked_balance, rewards_per_token_paid, rewards_earned, last_claim_ts,
  unix_timestamp,        \* Clock::unix_timestamp
  gifts,                 \* lamports sent to the escrow outside deposit_rewards
  claimed_at             \* history: when the wallet last claimed, 0 if never

poolVars  == <<initialized, total_staked, rewards_per_token_stored,
               pending_rewards, last_update_epoch, total_distributed,
               total_claimed>>
userVars  == <<owner, staked_balance, rewards_per_token_paid, rewards_earned,
               last_claim_ts>>
vaultVars == <<escrow, stake_vault>>
vars == <<poolVars, userVars, vaultVars, unix_timestamp, gifts, claimed_at>>

Users == 1..N

------------------------------------------------------------------------------
(* Reward arithmetic *)

\* The product of update_rewards: balance times the cumulative not yet settled.
accrual_from_zero(u) == staked_balance[u] * rewards_per_token_stored \* mutant
accrual(u) ==
  staked_balance[u] * (rewards_per_token_stored - rewards_per_token_paid[u])
accrued_rounded_up(u) ==                                            \* mutant
  (accrual(u) + PRECISION - 1) \div PRECISION
accrued(u) == accrual(u) \div PRECISION
claimable(u) == rewards_earned[u] + accrued(u)

\* The checked arithmetic of update_rewards: past a width the instruction that
\* settles u fails.
settles(u) == accrual(u) <= U128_MAX /\ claimable(u) <= U64_MAX

update_rewards_dropped(u, earned) ==                                \* mutant
  /\ settles(u)
  /\ rewards_earned' = [rewards_earned EXCEPT ![u] = IF earned = 0 THEN 0 ELSE @]
  /\ rewards_per_token_paid' =
       [rewards_per_token_paid EXCEPT ![u] = rewards_per_token_stored]

\* update_rewards, followed by the instruction's own use of the earned amount.
update_rewards(u, earned) ==
  /\ settles(u)
  /\ rewards_earned' = [rewards_earned EXCEPT ![u] = earned]
  /\ rewards_per_token_paid' =
       [rewards_per_token_paid EXCEPT ![u] = rewards_per_token_stored]

reward_per_token_coarse(rewards, total) ==                         \* mutant
  (rewards \div total) * PRECISION
reward_per_token(rewards, total) == (rewards * PRECISION) \div total

\* What a close adds to the cumulative and reports as distributed.
shared     == pending_rewards > 0 /\ total_staked > 0
gain       == IF shared THEN reward_per_token(pending_rewards, total_staked) ELSE 0
handed_out == IF shared THEN pending_rewards ELSE 0

\* The checked u128 arithmetic of a close.
cumulative_fits ==
  /\ handed_out * PRECISION <= U128_MAX
  /\ rewards_per_token_stored + gain <= U128_MAX

available == IF escrow >= RENT THEN escrow - RENT ELSE 0

\* What claim and unstake ask of the pool, the escrow and the vault.
payable(u) ==
  /\ settles(u)
  /\ available >= claimable(u)
  /\ total_claimed + claimable(u) <= U64_MAX
releasable(u, amount) ==
  /\ settles(u)
  /\ pending_rewards + claimable(u) <= U64_MAX
  /\ stake_vault >= amount

is_new_user_always(u) == TRUE                                       \* mutant
is_new_user(u) == ~owner[u]
withdrawable(u, amount) == amount > 0 /\ staked_balance[u] >= amount
cooled_down(u) ==
  last_claim_ts[u] > 0 => unix_timestamp - last_claim_ts[u] >= COOLDOWN_SECONDS
\* A remainder below MINIMUM_STAKE is not left behind: all is unstaked.
unstake_amount(u, amount) ==
  IF staked_balance[u] - amount \in 1..(MINIMUM_STAKE - 1)
  THEN staked_balance[u] ELSE amount

------------------------------------------------------------------------------
Init ==
  /\ initialized = FALSE
  /\ total_staked = 0 /\ rewards_per_token_stored = 0 /\ pending_rewards = 0
  /\ last_update_epoch = 0 /\ total_distributed = 0 /\ total_claimed = 0
  /\ escrow = 0 /\ stake_vault = 0
  /\ owner = [u \in Users |-> FALSE]
  /\ staked_balance = [u \in Users |-> 0]
  /\ rewards_per_token_paid = [u \in Users |-> 0]
  /\ rewards_earned = [u \in Users |-> 0]
  /\ last_claim_ts = [u \in Users |-> 0]
  /\ unix_timestamp = 1 /\ gifts = 0
  /\ claimed_at = [u \in Users |-> 0]

initialize_without_dead_stake ==                                    \* mutant
  /\ ~initialized
  /\ initialized' = TRUE
  /\ stake_vault' = stake_vault + MINIMUM_STAKE
  /\ escrow' = IF escrow >= RENT THEN escrow ELSE RENT
  /\ gifts' = IF escrow >= RENT THEN escrow - RENT ELSE 0
  /\ UNCHANGED <<total_staked, rewards_per_token_stored, pending_rewards,
                 last_update_epoch, total_distributed, total_claimed, userVars,
                 unix_timestamp, claimed_at>>

\* initialize_stake_pool: the escrow is topped up to its rent; the authority's dead stake moves in.
initialize_stake_pool ==
  /\ ~initialized
  /\ initialized' = TRUE
  /\ total_staked' = MINIMUM_STAKE
  /\ stake_vault' = stake_vault + MINIMUM_STAKE
  /\ escrow' = IF escrow >= RENT THEN escrow ELSE RENT
  /\ gifts' = IF escrow >= RENT THEN escrow - RENT ELSE 0
  /\ UNCHANGED <<rewards_per_token_stored, pending_rewards, last_update_epoch,
                 total_distributed, total_claimed, userVars, unix_timestamp,
                 claimed_at>>

stake(u, amount) ==
  /\ initialized
  /\ amount > 0
  /\ staked_balance[u] + amount <= Purse
  /\ update_rewards(u, claimable(u))
  /\ owner' = [owner EXCEPT ![u] = TRUE]
  /\ last_claim_ts' =
       [last_claim_ts EXCEPT ![u] = IF is_new_user(u) THEN 0 ELSE @]
  /\ staked_balance' = [staked_balance EXCEPT ![u] = @ + amount]
  /\ total_staked' = total_staked + amount
  /\ stake_vault' = stake_vault + amount
  /\ UNCHANGED <<initialized, rewards_per_token_stored, pending_rewards,
                 last_update_epoch, total_distributed, total_claimed, escrow,
                 unix_timestamp, gifts, claimed_at>>

\* Everything earned is forfeited back to the pool, also by a partial unstake.
unstake(u, amount) ==
  LET out == unstake_amount(u, amount) IN
  /\ owner[u]
  /\ withdrawable(u, amount)
  /\ cooled_down(u)
  /\ releasable(u, out)
  /\ update_rewards(u, 0)
  /\ pending_rewards' = pending_rewards + claimable(u)
  /\ staked_balance' = [staked_balance EXCEPT ![u] = @ - out]
  /\ total_staked' = total_staked - out
  /\ last_claim_ts' =
       [last_claim_ts EXCEPT ![u] = IF staked_balance[u] = out THEN 0 ELSE @]
  /\ stake_vault' = stake_vault - out
  /\ UNCHANGED <<initialized, rewards_per_token_stored, last_update_epoch,
                 total_distributed, total_claimed, owner, escrow,
                 unix_timestamp, gifts, claimed_at>>

claim(u) ==
  LET due == claimable(u) IN
  /\ owner[u]
  /\ due > 0
  /\ payable(u)
  /\ update_rewards(u, 0)
  /\ last_claim_ts' = [last_claim_ts EXCEPT ![u] = unix_timestamp]
  /\ total_claimed' = total_claimed + due
  /\ escrow' = escrow - due
  /\ claimed_at' = [claimed_at EXCEPT ![u] = unix_timestamp]
  /\ UNCHANGED <<initialized, total_staked, rewards_per_token_stored,
                 pending_rewards, last_update_epoch, total_distributed, owner,
                 staked_balance, stake_vault, unix_timestamp, gifts>>

\* The tax program moves the lamports first, then reports them, in one
\* transaction.
deposit_rewards(amount) ==
  /\ initialized
  /\ amount > 0
  /\ pending_rewards + amount <= MaxPending
  /\ escrow + amount <= U64_MAX
  /\ escrow + amount >= pending_rewards + amount
  /\ escrow' = escrow + amount
  /\ pending_rewards' = pending_rewards + amount
  /\ UNCHANGED <<initialized, total_staked, rewards_per_token_stored,
                 last_update_epoch, total_distributed, total_claimed, userVars,
                 stake_vault, unix_timestamp, gifts, claimed_at>>

\* The epoch program closes an epoch.
update_cumulative(epoch) ==
  /\ initialized
  /\ epoch > last_update_epoch
  /\ cumulative_fits
  /\ total_distributed + handed_out <= U64_MAX
  /\ rewards_per_token_stored' = rewards_per_token_stored + gain
  /\ total_distributed' = total_distributed + handed_out
  /\ pending_rewards' = 0
  /\ last_update_epoch' = epoch
  /\ UNCHANGED <<initialized, total_staked, total_claimed, userVars, vaultVars,
                 unix_timestamp, gifts, claimed_at>>

\* Anybody may send lamports to the escrow's address.
Gift ==
  /\ gifts < MaxGifts /\ escrow < U64_MAX
  /\ gifts' = gifts + 1
  /\ escrow' = escrow + 1
  /\ UNCHANGED <<poolVars, userVars, stake_vault, unix_timestamp, claimed_at>>

Tick ==
  /\ unix_timestamp < MaxTime
  /\ unix_timestamp' = unix_timestamp + 1
  /\ UNCHANGED <<poolVars, userVars, vaultVars, gifts, claimed_at>>

Next ==
  \/ initialize_stake_pool
  \/ \E u \in Users, amount \in 1..Purse : stake(u, amount) \/ unstake(u, amount)
  \/ \E u \in Users : claim(u)
  \/ \E amount \in Deposits : deposit_rewards(amount)
  \/ \E epoch \in 1..MaxEpoch : update_cumulative(epoch)
  \/ Gift
  \/ Tick

Spec == Init /\ [][Next]_vars

------------------------------------------------------------------------------
(* Properties *)

\* Every variable keeps its type; a checkpoint never runs ahead of the pool.
TypeOK ==
  /\ initialized \in BOOLEAN
  /\ total_staked \in Nat /\ rewards_per_token_stored \in Nat
  /\ pending_rewards \in Nat /\ last_update_epoch \in Nat
  /\ total_distributed \in Nat /\ total_claimed \in Nat
  /\ escrow \in Nat /\ stake_vault \in Nat
  /\ owner \in [Users -> BOOLEAN]
  /\ staked_balance \in [Users -> Nat]
  /\ rewards_per_token_paid \in [Users -> Nat]
  /\ rewards_earned \in [Users -> Nat]
  /\ last_claim_ts \in [Users -> Nat]
  /\ unix_timestamp \in Nat \ {0} /\ gifts \in Nat
  /\ claimed_at \in [Users -> Nat]
  /\ \A u \in Users : rewards_per_token_paid[u] <= rewards_per_token_stored

\* The pool's total is the dead stake plus every wallet's balance, and the
\* vault holds exactly that: no order of stakes, partial unstakes and unstakes
\* widened to the whole balance lets a wallet take another's PROFIT, and the
\* divisor of update_cumulative never misses a staker.
StakeIsBacked ==
  initialized => /\ total_staked = MINIMUM_STAKE + Sum(staked_balance, N)
                 /\ stake_vault = total_staked

\* What the program owes its wallets, wherever it is recorded.
Owed == pending_rewards + Sum([u \in Users |-> claimable(u)], N)

\* The escrow always covers its rent, the pending rewards and every wallet's
\* settled and unsettled share together, although deposit_rewards compares it
\* with the pending counter alone: claim never meets an empty escrow.
RewardsAreFunded == initialized => escrow >= RENT + gifts + Owed

\* Claims, and what could still be claimed, never exceed what the epochs handed
\* out: forfeited rewards that are handed out again count twice there, rounding
\* is always to the pool's side.
ClaimedWithinDistributed ==
  total_claimed + Sum([u \in Users |-> claimable(u)], N) <= total_distributed

\* Outside an epoch's close no step creates or loses a lamport of what is owed:
\* a deposit adds what it brought, a claim subtracts what it paid, a stake
\* settles without a rounding loss, an unstake forfeits exactly what it clears.
SettlementConserves ==
  [][(initialized /\ last_update_epoch' = last_update_epoch)
       => Owed' - Owed = (escrow' - gifts') - (escrow - gifts)]_vars

\* Only the close of an epoch raises what a wallet can claim, and by less than
\* one lamport above its pro rata share of the rewards pending at the close:
\* no stake, partial unstake or claim placed around it brings more.
ShareIsProRata ==
  [][\A u \in Users : claimable(u)' > claimable(u) =>
       /\ last_update_epoch' > last_update_epoch
       /\ (claimable(u)' - claimable(u) - 1) * total_staked
            < staked_balance[u] * pending_rewards]_vars

\* Stake leaves a wallet's account only COOLDOWN_SECONDS after its last claim,
\* also when a full exit and a new stake lie between the two: clearing
\* last_claim_ts at a full exit opens no way around the cooldown.
CooldownKept ==
  [][\A u \in Users :
       staked_balance'[u] < staked_balance[u] /\ claimed_at[u] > 0
         => unix_timestamp - claimed_at[u] >= COOLDOWN_SECONDS]_vars

\* No rounding, width or balance ever locks a wallet in: whatever it holds and
\* however long it waits, its settlement fits, the escrow can pay its claim, the
\* pool can take back what it forfeits and the vault can return all its stake.
\* And no close overflows before the u64 count of all distributions does.  The
\* comment of update_rewards expects the product to reach u128 after a century.
ExitsStayOpen ==
  initialized =>
    /\ \A u \in Users : payable(u) /\ releasable(u, staked_balance[u])
    /\ total_distributed + pending_rewards <= U64_MAX => cumulative_fits

\* Settling lazily, by checkpoints against one cumulative, is as good as
\* crediting every wallet at each close, within a lamport of its pro rata part on
\* either side: no wallet is favoured and none short-changed by when it acts.
Ledger == INSTANCE RewardLedger WITH
  Grain  <- PRECISION,
  pool   <- pending_rewards,
  funds  <- IF initialized THEN escrow - RENT - gifts ELSE 0,
  stakes <- staked_balance,
  total  <- total_staked,
  share  <- [u \in Users |-> claimable(u)]
ImplementsLedger == Ledger!LedgerSpec

==============================================================================
