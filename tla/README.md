# Verification of the Fantastical Finance Factory programs

This directory holds TLA+ models of the on-chain programs of this repository, the TLC runs that check
them on small instances and the TLAPS proofs of what holds for every value of their constants. All
source paths below are relative to `programs/`.

| To do | In this directory |
|---|---|
| check a run | `tlc -config MCVotes.cfg MCVotes` (`PROJECT.json`, "runs", lists module and configuration of each) |
| check the proofs of a module | `tlapm Votes_proofs.tla` |
| find the code of a definition | `PROJECT.json`, "map" |
| find what could go wrong where | `PROJECT.json`, "hazards" |

## 1. The system

Seven Anchor programs. Three tokens: CRIME and FRAUD (the factions, ZIG and ZAG on the site) and PROFIT
(MOTION). An instruction is one transaction: it takes effect whole or not at all, the programs it calls
included. So an instruction is one atomic action of a model, and a failed one is a disabled action.
What interleaves is instructions, of anybody, and everything between them: time, the oracle, transfers
by strangers to protocol accounts.

```
 oracle (ORAO) <--request/reveal-- epoch-program --update_cumulative--> staking <--deposit_rewards-- tax-program
                                     |   ^                                ^                              |
                                     |   +-- rates, pause, roles (read) --|------------------------------+
                                     +--swap_exempt--> tax-program --swap_sol_pool--> amm                |
                                                                          vote-program (reads stakes)    |
 conversion-vault, transfer-hook: called by users and by Token-2022                 sweep, escrow, treasury
```

| Component | State | Operations | What is hard |
|---|---|---|---|
| epoch lifecycle (`epoch-program`) | `EpochState`: epoch clock, randomness request, rates, Carnage fields; `CarnageFundState`: holdings | trigger, retry, consume, terminal fallback, execute (two paths), expire, activate | an oracle that is late or silent, retries racing late answers, two executors and an expiry racing, guards of three kinds of signer, migration in mid-transition |
| tax and Carnage derivation | none | `derive_taxes`, `get_carnage_action` | independent rolls that must agree with the cheap side |
| Carnage money (`helpers/carnage_execution.rs`) | fund vaults, WSOL account | burn or sell the holdings, buy up to a depth cap | balances read around CPIs, proceeds above the cap |
| ArbConfig (`epoch-program`) | roles, timing, pause flag | update, propose and accept authority, pause and resume | changes in mid-epoch, role overlap, replaced proposals |
| staking | `StakePool`, one `UserStake` per wallet, escrow, stake vault | stake, unstake, claim, deposit, close of an epoch | lazily settled shares, roundings, forfeits handed out again, cooldown |
| weekly vote (`vote-program`) | one `Tally` per week, one `Receipt` per week and wallet, `HaulPolicy` | initialize, cast, finalize | stakes that move, late casts, cranks in any order |
| AMM pool | `PoolState`, `AdminConfig`, two vaults | admin, create, swap, add and remove liquidity | roundings at every skew, recorded reserves against vault balances |
| tax program | WSOL intermediary, swap authority, sweep account | five taxed lanes, two untaxed, withdrawal, distribution | close and re-creation of an account in one instruction, balance differences, rounding of the limits |
| conversion vault | vault balances | convert (three amount modes), one-time extraction | remainders, a balance read earlier |
| transfer hook | whitelist, authority | add entry, hand over and burn the authority, check a transfer | irreversibility |

What makes each correct:

* **epoch lifecycle.** Epochs advance one at a time, each is closed exactly once, nothing waits for an
  operator or for the oracle, a reveal cannot be chosen among several, at most one Carnage per epoch and
  only the one scheduled in it, rates always on the side they were rolled for.
* **staking.** The escrow covers everything owed at any time, nobody gets more than a pro rata share, no
  lamport of a share is lost outside the roundings, stake stays backed, the cooldown holds.
* **votes.** A tally is its receipts, a decision in force has the votes behind it, decisions move forward.
* **pool.** Roundings favour the pool, vaults and reserves agree.
* **tax program.** Every lamport of tax reaches a destination, no account keeps a residue or pays out
  others' money, a limit the pool accepted is not refused afterwards.
* **Carnage money.** The record of the holdings and the vaults agree, every token bought and every lamport
  received can be traced, a buy stays below the move that would pay a front-runner, and an execution is
  never refused for a reason that would persist.
* **conversion vault and hook.** No order of conversions gains, what was funded once can always be redeemed,
  a route leaves its owner's earlier holdings alone, the whitelist is final after the burn.
* **ArbConfig.** No key holds two powers, only the candidate named last succeeds, the operators are never
  locked out of a recovery, and the timing stays what the lifecycle relies on.

## 2. Modules

| Module | Models | Notes |
|---|---|---|
| `TaxDerivation` | `helpers/tax_derivation.rs`, `helpers/carnage.rs` | operators on the first eight bytes of a reveal |
| `EpochMachine` | the epoch lifecycle | variables are the fields of `EpochState`, with the fund's holdings, the staking program's `last_update_epoch` and the oracle's request accounts |
| `EpochLifecycle` | what users are promised | abstract: three phases and two counters |
| `EpochRefinement` | the mapping | `EpochMachine` implements `EpochLifecycle` |
| `IndexedSum` | sums over wallets and accounts | a recursive function, so that it can be proved about |
| `RewardLedger` | what stakers are promised | abstract: every close credits every wallet at once |
| `Staking` | the staking program | wallets are `1..N`; `ImplementsLedger` maps it to `RewardLedger` |
| `Votes` | the vote program on top of `Staking` | reads the balances, as `cast_vote` does |
| `AmmPool` | one pool | |
| `AmmMath` | `amm/src/helpers/math.rs` | operators, shared by the pool and the Carnage Fund |
| `Trading` | the tax program on top of `AmmPool` | a step of a lane contains the pool's step, as its CPI does |
| `CarnageFund` | `helpers/carnage_execution.rs`, the fund's deposits and bounties | two pools |
| `TransferHook` | the transfer hook, with Token-2022's transfers | |
| `ConversionVault` | the vault program on top of `TransferHook` | every leg of a conversion is a transfer the hook sees |
| `Handover` | what a two-step transfer of authority promises | abstract |
| `ArbConfig` | roles, timing and the operator's pause | `ImplementsHandover` maps it to `Handover` |
| `MC*` | instances for TLC | |
| `*_proofs` | theorems | sections 5 and 6 |

An action has the name of its instruction (of its handler for the epoch program, in capitals) and the
primed variables are what the handler assigns. A definition followed by the word `mutant` is a plausible
mistake in the definition below it; `PROJECT.json` pairs every property with one that breaks it.

**EpochMachine.** A request account is named by its seed `<<epoch, attempt>>` (`helpers/vrf.rs`);
`request_v2` fails if the account exists. Accounts at our seeds can only be made by our own CPI, whose
seed contains the program's address. The oracle reveals any request at any time or never (`Fulfil`).
Callers are keepers (the two wallets of `ArbConfig`) or strangers, whose guards open later. `Horizons`
stops the clock where no guard can change any more. Initial states are a fresh deployment and a state of
the previous release, with or without a request of its oracle, but with no Carnage pending: `activate_epoch_safety`
refuses that, and the upgraded program lets nobody execute or expire it before the activation, so the model takes
the upgrade to be made when none is. Timing changes at any moment to any value
`ArbConfig` admits. Not modelled: `pending_seed_slot` and the two summary rates (only written and shown),
and the devnet-only `force_carnage`; the bounty of the trigger is in `CarnageFund`, the operator's pause in
`ArbConfig`.

**Staking.** A wallet's share is in three places: `rewards_earned`, the product of balance and unsettled
cumulative (`accrual`), and the pool's `pending_rewards`. What the arithmetic of rewards can overflow has its
width: lamports of the escrow, the pending rewards and the two totals `U64_MAX`, products and the cumulative
`U128_MAX`. Amounts of PROFIT are naturals, as all of them together fit in u64. Left out: slot stamps and the
wallets' own claim totals, which no guard reads, and PROFIT sent to the stake vault from outside.

**RewardLedger.** Five quantities and no checkpoints: the epoch's pool, the lamports set aside, stakes, their
total and the shares. `Distribute` gives each wallet its part of the pool to within a lamport above and, below,
a lamport and the stake over `Grain`, the price of rounding the cumulative; every other step moves one wallet's
share whole or leaves the shares alone. Shares of the program are what `claim` would pay now, so a wallet is
credited by the mapping although the program has not looked at it for many epochs.

**Votes.** Weeks are buckets of the staking clock. An absent tally reads as zero (the handler's explicit
branch) and an absent receipt is `NoReceipt`.

**AmmPool.** `FactionSide` says on which side the faction token lies, which the code reads off the mint.
The reentrancy lock is set and cleared within an instruction, so no state shows it. Mint policy, signatures
and account identities are left out.

**Trading.** The pool's quote mint is WSOL, as the SOL lanes require; the lanes for any quote accept it
too. Rates, pause and the staking close (which resets the pending rewards) are an environment that may do
anything the epoch program could. Closing a token account moves its rent and its balance to the swap
authority, which pays the shares and the rent of the next one. Left out: traders' own balances, the
runtime's rent rule for other accounts, identity checks.

**CarnageFund.** An execution, by either path, is one action with its disposal, its wrap and its buy; the
reserves a later part reads are the ones the earlier part left, as the code reads them again. The two paths
differ in the slippage floor only; slots and generations are in `EpochMachine`, so an execution may run
whenever one is pending, expire, or be preceded by trades in both pools. Histories (`deposited`, `bounties`,
`proceeds`, `bought`, `sold`, gifts) exist for the balance sheets. Left out: u64 limits and the accounts of
the transfer hook; the WSOL account of the fund and the one a sale is paid into are counted as one.

**TransferHook.** A whitelist entry is an account that exists or not. That the call comes from Token-2022,
for a transfer in progress, is taken for granted, and so is that no lamports lie at the address of a mint's meta list
before it is registered, which `create_account` would refuse. The hook program of a mint never changes. A signer
is any key, a handler's own checks decide.

**ConversionVault.** `Note` is a client reading a balance, `Route` one transaction of a swap into that account
and `convert_v2` with the balance noted, anything may happen between the two. The vault may find any of a
set of whitelists, as the two programs are deployed apart. Left out: delegates of token accounts, and the burns
of Carnage, so that a mint's supply is constant; a burn would only lower what may come back to be redeemed.

**ArbConfig.** Optional arguments are given always, leaving one out being the same as giving the current
value; `new_authority` keeps its three forms (not given, withdraw, name). `offer` is the history the
refinement maps: what the incumbent said last, whatever the account stores.

## 3. Runs

| Run | Question | Size |
|---|---|---|
| `epoch_safety` | Do all interleavings of keepers, strangers, oracle, clock and configuration keep the lifecycle safe and a way out open to strangers, from both kinds of initial state? | 1.34 million states |
| `epoch_live` | Do transitions, Carnage and epochs finish with strangers alone, and is this the promised lifecycle? | 156 thousand states |
| `staking` | Is the escrow solvent, the stake backed, the cooldown kept and every wallet able to claim and leave in any order of instructions, and is this the promised ledger? | 415 thousand states |
| `votes` | Do tallies, decisions and readers agree while stakes move? | 583 thousand states |
| `amm_pool` | Do the roundings favour the pool, there and back and cut in two, and the vaults match, at every reachable skew? | 6 thousand states |
| `trading` | Does tax taken in lamports, in WSOL and through the sweep account reach its destinations to the lamport, and does the gross floor suffice? | 151 thousand states |
| `carnage_fund` | Do the fund's records, vaults and SOL agree over three executions, with trades, gifts, bounties and expiries between schedule and execution? | 280 thousand states |
| `carnage_doc_stranded` | The comment on sale proceeds against the code | violation |
| `transfer_hook` | Is the whitelist final whoever held the authority? | 201 states |
| `conversion_vault` | Does the vault keep its worth and its ability to redeem over three conversions in every mode, with transfers and upkeep of the hook between? | 91 thousand states |
| `arb_config` | Do roles stay apart and recoverable under any updates and hand-overs? | 439 states up to symmetry |

Bounds and why they are enough:

* **Epoch.** One model slot stands for about 150. Timeout 1, grace 1, three attempts, lifetime 8, Carnage
  deadline 2, lock 1, epoch lengths 2 and 3 with a pause of 1, two epochs. This keeps the order relations of
  the real constants: the lifetime holds more than all reveal windows, the public retry opens half way
  through one, an epoch can be shorter than a window. Two epochs are what it takes for the leavings of one
  to meet the other; four reveals cover flip or not, Carnage or not, sale or burn.
* **Staking.** Two wallets, two closes, precision 4, minimum stake 2, a purse of 3, deposits of 1 and 3:
  most divisions are inexact, and a remainder falls on each side of the minimum. `U64_MAX` is 10 and `U128_MAX`
  40, the smallest that keep `PRECISION * U64_MAX <= U128_MAX`, as 10^18 and the real widths do: the totals reach
  the small width, and the products come as near to the large one as they ever can. The proofs remove these
  bounds.
* **Votes.** Two wallets and three weeks of one second: a skipped week, a late crank and an exit and
  new stake within one week all occur.
* **Pool and trading.** A basis of 10 instead of 10000, so that small amounts round in every way the real
  ones do; reserves to 16 and to 10, fees up to beyond the cap, shares up to the whole. Five lamports of tax
  lie on both sides of the amount below which the stakers have it all. `trading` leaves the pool's liquidity
  alone, which `amm_pool` changes.
* **Carnage.** The code's own basis, fee, cap, friction and slippage, rates at both ends of the friction
  range, and pools of a few hundred units, where the cap is a few lamports and every floor shows. Three
  executions are a buy, a disposal of what it bought with a buy, and one that meets the leavings of both;
  two deposits pay for them.
* **Vault.** A rate of 2, eight tokens, three conversions and two transfers: a remainder, its conversion back
  through the other faction, and a third conversion that would take what the first two gained. Balances read
  become stale in both directions.
* **Hook.** Two keys and a third to hand over to, a mint whose hook is another program.
* **ArbConfig.** Six keys, five roles: one key is always free. The keys but the founder's are symmetric.

`CHECK_DEADLOCK FALSE` is in the configurations of `Staking` and of the pool alone, which may stop: the bounds
on time, purses and gifts are used up, or the AMM's admin is burned before any pool exists. All other runs
check deadlock.

**Fairness** (`epoch_live` only). Slots pass, and four instructions are eventually sent while they stay
admissible: a stranger's trigger, the terminal fallback, the expiry of a Carnage, the migration. Each is
open to any signer in the code (the first is paid a bounty). Nothing is assumed of the oracle, the keepers,
a consumer of randomness or an executor, so these may be absent for ever.

## 4. Where the code and its comments differ

| Where | Comment | Code |
|---|---|---|
| `epoch_state.rs:93` | the CRIME buy tax is the low or high summary rate | every token rolls its own; the summary is the minimum and maximum of all four |
| `epoch_state.rs:150` | last epoch in which Carnage was triggered | written by an execution only; one that expires does not show |
| `epoch_state.rs:171` | the migration runs with no VRF pending | a pending foreign request is accepted, and made resolvable |
| `staking/src/helpers/math.rs:65` | after a century of rewards a product could overflow, and the user retries next epoch | it cannot: the product is at most the precision times `total_distributed`, which is a u64 |
| `finalize_week.rs:25` | catch-up materializes the most recent completed week, older ones never | any completed week above the mark can be finalized, an older skipped one first |
| `carnage_execution.rs:289` | adding the proceeds of a sale to the buy avoids stranding them | the sum is cut to the depth cap; the proceeds above it stay in the WSOL account, which no later execution counts |
| `convert_v2.rs:35` | delta mode converts exactly what the preceding swap deposited | it converts the difference to a balance the caller read before, whatever moved since |
| `conversion-vault/src/lib.rs:62` | any signer can initialize | the payer must be the upgrade authority |

A run shows the stranded proceeds, the one that concerns what happens to somebody's money; the others are read
off the lines named, but for the overflow, which a theorem refutes (`ExitsAlwaysOpen`). What bounds the life of
the pool is the u64 `total_distributed`, which counts a forfeited share again each time it is handed out: once
that is full no epoch can close with rewards, but claims and exits still pass. The stranded proceeds are not
lost track of (`SolAccounted`), they are just not spent. A late finalization of an older week does not mislead a
reader: its effective week is past, so the default applies (`BurnNeedsMajority`). What a route does leave alone
is what its owner held when the balance was read (`RouteKeepsHoldings`).

## 5. Proofs

Theorems hold for all constants that satisfy the named assumptions (`SlotConstants`, `ConfigConstants`,
`DataConstants`, `StakingAssumption`, `WidthAssumption`, `VotesAssumption`, `BasisAssumption`, `PoolAssumption`,
`TradingAssumption`, `FundAssumption`, `HookAssumption`, `VaultAssumption`, `SupplyAssumption`,
`ConfigAssumption`); TLC evaluates these in every run. Every safety property of the passing runs is proved, and
so are the types and some properties no run checks (in brackets):

| Module | Proved |
|---|---|
| `EpochMachine_proofs` | `StrangersNeverLockedOut`, `SeedNeverReused`, `BoundToNewestRequest`, `StakingInStep`, `FullRevealWindow`, `CarnageBoundToEpoch`, `CarnageMatchesHoldings`, `RatesFavourCheapSide`, `CarnageOncePerEpoch` (`TypeOK`, `OnePhaseAtATime`, `PauseNeverShortened`, deadlines within reach); the machine implements `LifecycleSafety` |
| `IndexedSum_proofs` | lemmas only: sums over any number of indices, their linearity, updates and order |
| `Votes_proofs` | of staking: `ExitsStayOpen`, `StakeIsBacked`, `RewardsAreFunded`, `SettlementConserves`, `CooldownKept`, `ImplementsLedger` (`TypeOK`, `ShareIsProRata`, `ClaimedWithinDistributed`); of the vote: `TallyIsReceipts`, `BurnNeedsMajority`, `DecisionsAdvance` (`VoteTypeOK`); the composed system implements `Staking` |
| `AmmMath_proofs` | floors and products: what the swap formula keeps, for all reserves, fees and amounts |
| `Trading_proofs` | of the pool: `VaultsMatchReserves`, `KCheckNeverFires`, `RoundTripLoses`, `SplittingLoses` (`TypeOK`); of the lanes: `NoTaxResidue`, `SharesHold`, `SweepAccounted`, `GrossFloorSuffices` (`TradeTypeOK`); the lanes implement `AmmPool` |
| `CarnageFund_proofs` | `HoldingsInVault`, `PurchasesAccounted`, `SolAccounted`, `CapBelowBreakEven`, `OnlyDustReverts` (`TypeOK`, `RentKept`) |
| `ConversionVault_proofs` | of the hook: `WhitelistFinal` (`HookTypeOK`, `NoPeerTransfer`); of the vault: `WorthKept`, `Redeemable`, `RouteKeepsHoldings` (`VaultTypeOK`, the supply of each mint) |
| `ArbConfig_proofs` | `RolesSeparate`, `Recoverable` (`TypeOK`); `ArbConfig` implements `Handover` |

The arguments:

* **Epoch.** The invariant `IInv` adds to the properties what makes them inductive, above all that the
  requests that exist are of epochs and attempts already made (so the next seed is new), and that a request
  is never younger than its transition nor replaced so late that its window would pass the transition's end
  (so `FullRevealWindow` survives a retry). One lemma per instruction. `StrangersNeverLockedOut` is the safety half
  of progress: in every phase an instruction open to strangers is admissible once a deadline is past, and no
  deadline moves further away than its constant (`DeadlinesInReach`). It rests on the new seed and on staking being
  in step, the two ways an admissible instruction could still fail in a call it makes.
* **Staking.** Rounding is not inductive in lamports: several settlements of one wallet may together round
  down more than one. `Covers` states solvency scaled by `PRECISION`, where a close adds at most
  `PRECISION` times what was pending and a settlement loses nothing; the claims in lamports follow from the
  floor of each. The inductions on sums over wallets are done by least counterexample, as the
  provers cannot instantiate the library's induction theorem. `ShareIsProRata` is not run: `ImplementsLedger`
  contains it.
* **Widths.** All that is paid or accrued was distributed (`Distributed`, a `Covers` of its own), and what was
  distributed is a u64 (`Counted`). So an accrual is at most `PRECISION` times a u64, which `WidthAssumption` puts
  below u128. The cumulative cannot be bounded through the wallets, who come and go, but through the dead stake,
  which never leaves (`DeadStakeStays`): a close adds at most `PRECISION` times what it hands out over
  `MINIMUM_STAKE` (`CumulativeBounded`).
* **Ledger.** A settlement is invisible (the claim before and after is the same number), a claim and an exit clear
  one share, and a close credits every wallet: `RoundedGain` and `RoundedLoss` bound what the rounding of the
  cumulative and of the share may add and take. That the shares of a close are funded is `Solvency` after it.
* **Votes.** The invariant ties the snapshot in the policy to the tally of a week that is over, and a week
  that is over has a tally no cast changes. `StakingUndisturbed` carries every staking theorem over.
* **Pool.** Everything rests on `SpreadKept`: the output times the input reserve is at most the effective
  input times what stays in the output reserve. Product and round trip are consequences, by arithmetic on
  floors. For a trade cut in two the floors of the fee only lose (`SplitInput`), and what is left of the output
  reserve is compared with what one swap leaves, product by product (`SplitLoses`).
* **Trading.** Each lane's step is a step of the pool (`LanesKeepThePool`), so the pool's invariant holds
  throughout; on top of it the accounts of the tax program form a balance sheet, one line per property.
* **Carnage.** The fund's accounts are a balance sheet over the histories, and the invariant adds what the
  action drawn at the reveal guarantees: holdings only with an action that disposes of them. The cap follows
  from the code's own compile-time assertion on K, an assumption of the module: the floor of the formula stays
  below K f, and (1 + K f)^2 < 1 + f. `OnlyDustReverts` goes through the requirements one by one: the output
  of each swap is below the reserve, and the slippage floor, taken from the same reserves, is below the output.
* **Vault.** In units of the faction tokens a conversion to PROFIT makes the vault richer by less than the
  rate and never poorer, one back leaves it even; transfers and the extraction are entries of the sheet, and so
  are conversions paid to an account of the vault's own. `Redeemable` is a statement on the tokens not in the vault,
  so it needs what transfers conserve: the sum over all token accounts of a mint. The accounts are enumerated
  (`account_at`, with `SupplyAssumption` that the enumeration is one to one), and a transfer changes two terms of the
  sum.
* **ArbConfig.** An update is validated as a whole against
  the roles it results in, and `pending_authority` equals the history `offer`: this is what makes the mapping
  to `Handover` go through.

## 6. Only model-checked

Liveness (`EpochAdvances`) and the liveness half of `ImplementsLifecycle`: temporal reasoning under fairness
and `ENABLED` are beyond the prover. What is proved of them is the safety half of the refinement and
`StrangersNeverLockedOut`. The disagreement of section 4 that has a run is shown by a counterexample of TLC.

## 7. Plan

Done, in this order: `TaxDerivation`, `EpochMachine`, `EpochLifecycle` with refinement and proofs; `Staking`;
`Votes` over it; `AmmPool`; `Trading` over it; `CarnageFund`; `TransferHook` and `ConversionVault` over it;
`Handover` and `ArbConfig`; `RewardLedger`; each with its proofs. What could come next:

* the way of a reward through trade, deposit, close and claim as one composition, with the ledger in the place of
  `Staking` and the abstract lifecycle in that of `EpochMachine`;
* the timing of `ArbConfig` as the environment of `EpochMachine`, a composition whose assumption is `ConfigTypes`.

## 8. Not modelled

Decoding of account bytes, account and mint identity checks, extensions of Token-2022 mints, events and
error codes, release identities and cluster selection: none of them changes state, and the models take the
accounts to be the right ones. The readers of foreign accounts are such decoding, pinned by size assertions
and unit tests of the code. The staking program's `test_deposit_rewards` and the epoch program's
`force_carnage` are not in the deployed build. Interface descriptions are generated. Of the token programs,
the oracle and the runtime only what the programs rely on is modelled: who may move what, requests that exist
once, and atomic instructions.
