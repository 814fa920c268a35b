------------------------------ MODULE CarnageFund ------------------------------
(***************************************************************************)
(* The money of the Carnage Fund: SOL arrives as a share of the tax, pays  *)
(* the bounties of epoch triggers, and is spent by the executions a reveal *)
(* schedules.  An execution burns or sells what the fund holds and buys    *)
(* the target token, within a cap taken from the depth of its pool.        *)
(*                                                                         *)
(* EpochMachine has the slots, generations and deadlines that say when an  *)
(* execution may run; here it may run whenever one is pending, expire      *)
(* unexecuted, and be separated from its scheduling by trades in both      *)
(* pools.  An execution is one transaction with everything it calls: a     *)
(* failed requirement reverts it all.  The swaps are the untaxed lane of   *)
(* the tax program; the pools' LP fee is the AMM_FEE_BPS of the epoch      *)
(* program.  Transfer hooks, account checks and u64 limits are left out.   *)
(***************************************************************************)
EXTENDS AmmMath

CONSTANTS
  AMM_FEE_BPS,
  CARNAGE_CAP_K_NUM, CARNAGE_CAP_K_DEN,
  CARNAGE_FRICTION_BPS_MAX,
  CARNAGE_SLIPPAGE_BPS_ATOMIC, CARNAGE_SLIPPAGE_BPS_FALLBACK,
  TRIGGER_BOUNTY_LAMPORTS,
  RENT,               \* lamports that keep the SOL vault alive
  Rates,              \* the <<buy, sell>> rates of each token a reveal may draw
  Pools,              \* the reserves a pool may start with: <<sol, token>>
  Deposits, Trades,   \* amounts deposited and traded (bounds)
  MaxDeposited, MaxTriggers, MaxTrades, MaxGifts   \* (bounds)

Mints == {"CRIME", "FRAUD"}

ASSUME FundAssumption ==
  /\ AMM_FEE_BPS \in Nat /\ AMM_FEE_BPS <= BPS
  /\ CARNAGE_CAP_K_NUM \in Nat \ {0} /\ CARNAGE_CAP_K_DEN \in Nat \ {0}
  /\ CARNAGE_CAP_K_DEN > CARNAGE_CAP_K_NUM
  /\ CARNAGE_FRICTION_BPS_MAX \in 1..BPS
  \* the const assertion of constants.rs
  /\ 2 * BPS * CARNAGE_CAP_K_NUM * CARNAGE_CAP_K_DEN
       + CARNAGE_FRICTION_BPS_MAX * CARNAGE_CAP_K_NUM * CARNAGE_CAP_K_NUM
     < BPS * CARNAGE_CAP_K_DEN * CARNAGE_CAP_K_DEN
  /\ CARNAGE_SLIPPAGE_BPS_ATOMIC \in 0..BPS
  /\ CARNAGE_SLIPPAGE_BPS_FALLBACK \in 0..CARNAGE_SLIPPAGE_BPS_ATOMIC
  /\ TRIGGER_BOUNTY_LAMPORTS \in Nat /\ RENT \in Nat
  /\ Rates \subseteq [Mints -> Nat \X Nat]
  /\ \A r \in Rates, m \in Mints :
       r[m][1] + r[m][2] + 2 * AMM_FEE_BPS \in 1..CARNAGE_FRICTION_BPS_MAX
  /\ Pools \subseteq (Nat \ {0}) \X (Nat \ {0})
  /\ Deposits \subseteq Nat /\ Trades \subseteq Nat
  /\ MaxDeposited \in Nat /\ MaxTriggers \in Nat /\ MaxTrades \in Nat /\ MaxGifts \in Nat

VARIABLES
  sol_vault,          \* lamports of the SOL vault
  carnage_wsol,       \* balance of the fund's WSOL account
  vault,              \* balances of its CRIME and FRAUD vaults
  held_token, held_amount, total_sol_spent, total_triggers,
  total_burned,       \* total_crime_burned and total_fraud_burned
  carnage_pending, carnage_action, carnage_target, taxes,   \* EpochState
  reserve_sol, reserve_token,                               \* the two pools
  deposited, bounties, proceeds,   \* history: SOL in, bounties out, sales
  bought,             \* history: tokens bought, by mint
  sold,               \* history: tokens sold, by mint
  wsol_gifts, token_gifts, trades  \* history: strangers' gifts, and trades

stateVars == <<held_token, held_amount, total_sol_spent, total_triggers, total_burned>>
epochVars == <<carnage_pending, carnage_action, carnage_target, taxes>>
poolVars  == <<reserve_sol, reserve_token>>
flowVars  == <<deposited, bounties, proceeds, bought, sold>>
giftVars  == <<wsol_gifts, token_gifts>>
vars == <<sol_vault, carnage_wsol, vault, stateVars, epochVars, poolVars, flowVars,
          giftVars, trades>>

Actions == {"None", "Burn", "Sell"}

------------------------------------------------------------------------------
(* The swaps *)

\* What a pool with these reserves pays for an amount.
swap_exempt_output(reserve_in, reserve_out, amount) ==
  calculate_swap_output(reserve_in, reserve_out,
                        calculate_effective_input(amount, AMM_FEE_BPS))

\* What the tax program's exempt lane and the pool behind it require.
swap_exempt_accepts(reserve_in, reserve_out, amount) ==
  LET output == swap_exempt_output(reserve_in, reserve_out, amount) IN
  /\ amount > 0
  /\ calculate_effective_input(amount, AMM_FEE_BPS) > 0
  /\ output > 0
  /\ output <= reserve_out
  /\ verify_k_invariant(reserve_in, reserve_out, reserve_in + amount, reserve_out - output)

\* Reserves with some tokens of mint m swapped in, or some SOL.
sell_into(m, amount) ==
  LET output == swap_exempt_output(reserve_token[m], reserve_sol[m], amount) IN
  [sol   |-> [reserve_sol EXCEPT ![m] = @ - output],
   token |-> [reserve_token EXCEPT ![m] = @ + amount],
   output |-> output]

------------------------------------------------------------------------------
(* The cap and the floor *)

carnage_friction_bps(pair) == pair[1] + pair[2] + 2 * AMM_FEE_BPS

carnage_buy_cap_at_k_2(pair, sol) ==                                \* mutant
  (sol * carnage_friction_bps(pair)) \div (2 * BPS)
carnage_buy_cap_lamports(pair, sol) ==
  (sol * carnage_friction_bps(pair) * CARNAGE_CAP_K_NUM) \div (BPS * CARNAGE_CAP_K_DEN)

slippage_floor_at_spot(sol, token, amount, slippage_bps) ==         \* mutant
  (((token * amount) \div sol) * slippage_bps) \div BPS
slippage_floor(sol, token, amount, slippage_bps) ==
  (((token * amount) \div (sol + amount)) * slippage_bps) \div BPS

without_rent(lamports) == IF lamports > RENT THEN lamports - RENT ELSE 0

lesser(a, b) == IF a <= b THEN a ELSE b

------------------------------------------------------------------------------
(* One execution, from the state it finds *)

sells == carnage_action = "Sell" /\ held_amount > 0
burns == carnage_action = "Burn" /\ held_amount > 0

\* The pools and the proceeds once the holdings are disposed of.
disposal ==
  IF sells THEN sell_into(held_token, held_amount)
  ELSE [sol |-> reserve_sol, token |-> reserve_token, output |-> 0]

\* The cap reads the target pool after the sale.
buy_cap == carnage_buy_cap_lamports(taxes[carnage_target], disposal.sol[carnage_target])

total_buy_amount ==
  lesser(lesser(without_rent(sol_vault), buy_cap) + disposal.output, buy_cap)

wrap_amount ==
  IF total_buy_amount > disposal.output THEN total_buy_amount - disposal.output ELSE 0

sol_spent_of_the_vault == wrap_amount                               \* mutant
sol_spent == total_buy_amount

tokens_bought ==
  IF total_buy_amount > 0
  THEN swap_exempt_output(disposal.sol[carnage_target], disposal.token[carnage_target],
                          total_buy_amount)
  ELSE 0

\* What the handler and the programs it calls require before it commits.
disposal_accepted ==
  /\ sells => swap_exempt_accepts(reserve_token[held_token], reserve_sol[held_token],
                                  held_amount)
  /\ (sells \/ burns) => vault[held_token] >= held_amount
buy_accepted(slippage_bps) ==
  LET sol == disposal.sol[carnage_target]
      token == disposal.token[carnage_target]
  IN
  total_buy_amount > 0 =>
    /\ wrap_amount <= sol_vault
    /\ total_buy_amount <= carnage_wsol + disposal.output + wrap_amount
    /\ swap_exempt_accepts(sol, token, total_buy_amount)
    /\ sol > 0 /\ token > 0 =>
         tokens_bought >= slippage_floor(sol, token, total_buy_amount, slippage_bps)

burned_of_the_target(m) ==                                          \* mutant
  IF burns /\ m = carnage_target THEN held_amount ELSE 0
burned_now(m) == IF burns /\ m = held_token THEN held_amount ELSE 0
sold_now(m)   == IF sells /\ m = held_token THEN held_amount ELSE 0

\* The token vaults: holdings out, purchase in; both may be the same vault.
vault_after ==
  [m \in Mints |->
     vault[m] - (IF (sells \/ burns) /\ m = held_token THEN held_amount ELSE 0)
              + (IF m = carnage_target THEN tokens_bought ELSE 0)]

execute_carnage_core(slippage_bps) ==
  /\ disposal_accepted
  /\ buy_accepted(slippage_bps)
  /\ sol_vault' = sol_vault - wrap_amount
  /\ carnage_wsol' = carnage_wsol + disposal.output + wrap_amount - total_buy_amount
  /\ vault' = vault_after
  /\ reserve_sol' = [disposal.sol EXCEPT ![carnage_target] = @ + total_buy_amount]
  /\ reserve_token' = [disposal.token EXCEPT ![carnage_target] = @ - tokens_bought]
  /\ total_burned' = [m \in Mints |-> total_burned[m] + burned_now(m)]
  /\ held_token' = carnage_target
  /\ held_amount' = tokens_bought
  /\ total_sol_spent' = total_sol_spent + sol_spent
  /\ total_triggers' = total_triggers + 1
  /\ carnage_pending' = FALSE
  /\ carnage_action' = "None"
  /\ proceeds' = proceeds + disposal.output
  /\ bought' = [bought EXCEPT ![carnage_target] = @ + tokens_bought]
  /\ sold' = [m \in Mints |-> sold[m] + sold_now(m)]
  /\ UNCHANGED <<carnage_target, taxes, deposited, bounties, giftVars, trades>>

------------------------------------------------------------------------------
Init ==
  /\ sol_vault = 0
  /\ carnage_wsol = 0 /\ vault = [m \in Mints |-> 0]
  /\ held_token = "None" /\ held_amount = 0
  /\ total_sol_spent = 0 /\ total_triggers = 0
  /\ total_burned = [m \in Mints |-> 0]
  /\ carnage_pending = FALSE /\ carnage_action = "None" /\ carnage_target = "CRIME"
  /\ taxes \in Rates
  /\ \E p \in [Mints -> Pools] : /\ reserve_sol = [m \in Mints |-> p[m][1]]
                                 /\ reserve_token = [m \in Mints |-> p[m][2]]
  /\ deposited = 0 /\ bounties = 0 /\ proceeds = 0
  /\ bought = [m \in Mints |-> 0] /\ sold = [m \in Mints |-> 0]
  /\ wsol_gifts = 0 /\ token_gifts = [m \in Mints |-> 0] /\ trades = 0

\* Either way of executing: bundled with the reveal, or after the lock window.
execute_carnage_atomic ==
  /\ carnage_pending /\ total_triggers < MaxTriggers
  /\ execute_carnage_core(CARNAGE_SLIPPAGE_BPS_ATOMIC)

execute_carnage ==
  /\ carnage_pending /\ total_triggers < MaxTriggers
  /\ execute_carnage_core(CARNAGE_SLIPPAGE_BPS_FALLBACK)

\* The Carnage share of a tax, in lamports.
Deposit(lamports) ==
  /\ deposited + lamports <= MaxDeposited
  /\ sol_vault' = sol_vault + lamports
  /\ deposited' = deposited + lamports
  /\ UNCHANGED <<carnage_wsol, vault, stateVars, epochVars, poolVars, bounties,
                 proceeds, bought, sold, giftVars, trades>>

bounty_affordable == sol_vault >= TRIGGER_BOUNTY_LAMPORTS + RENT

\* A trigger pays its caller if the vault can, and is free of charge if not.
PayBounty ==
  /\ ~carnage_pending
  /\ bounty_affordable
  /\ sol_vault' = sol_vault - TRIGGER_BOUNTY_LAMPORTS
  /\ bounties' = bounties + TRIGGER_BOUNTY_LAMPORTS
  /\ UNCHANGED <<carnage_wsol, vault, stateVars, epochVars, poolVars, deposited,
                 proceeds, bought, sold, giftVars, trades>>

get_carnage_action_any == {"None", "Burn", "Sell"}                  \* mutant
\* The actions a reveal may draw.
get_carnage_action == IF held_amount > 0 THEN {"Burn", "Sell"} ELSE {"None"}

\* consume_randomness: new rates, and perhaps an execution.
ScheduleCarnage ==
  /\ ~carnage_pending
  /\ taxes' \in Rates
  /\ carnage_action' \in get_carnage_action
  /\ carnage_target' \in Mints
  /\ carnage_pending' = TRUE
  /\ UNCHANGED <<sol_vault, carnage_wsol, vault, stateVars, poolVars, flowVars,
                 giftVars, trades>>

ExpireCarnage ==
  /\ carnage_pending
  /\ carnage_pending' = FALSE
  /\ carnage_action' = "None"
  /\ UNCHANGED <<sol_vault, carnage_wsol, vault, stateVars, carnage_target, taxes,
                 poolVars, flowVars, giftVars, trades>>

\* Somebody else's swap in one of the pools.
Trade(m, amount) ==
  /\ trades < MaxTrades
  /\ trades' = trades + 1
  /\ \/ /\ swap_exempt_accepts(reserve_sol[m], reserve_token[m], amount)
        /\ reserve_sol' = [reserve_sol EXCEPT ![m] = @ + amount]
        /\ reserve_token' = [reserve_token EXCEPT ![m] =
             @ - swap_exempt_output(reserve_sol[m], reserve_token[m], amount)]
     \/ /\ swap_exempt_accepts(reserve_token[m], reserve_sol[m], amount)
        /\ reserve_sol' = sell_into(m, amount).sol
        /\ reserve_token' = sell_into(m, amount).token
  /\ UNCHANGED <<sol_vault, carnage_wsol, vault, stateVars, epochVars, flowVars, giftVars>>

gifts == wsol_gifts + token_gifts["CRIME"] + token_gifts["FRAUD"]

\* Anybody may send tokens to the fund's accounts.
GiftWsol ==
  /\ gifts < MaxGifts
  /\ wsol_gifts' = wsol_gifts + 1
  /\ carnage_wsol' = carnage_wsol + 1
  /\ UNCHANGED <<sol_vault, vault, stateVars, epochVars, poolVars, flowVars,
                 token_gifts, trades>>
GiftToken(m) ==
  /\ gifts < MaxGifts
  /\ token_gifts' = [token_gifts EXCEPT ![m] = @ + 1]
  /\ vault' = [vault EXCEPT ![m] = @ + 1]
  /\ UNCHANGED <<sol_vault, carnage_wsol, stateVars, epochVars, poolVars, flowVars,
                 wsol_gifts, trades>>

Next ==
  \/ execute_carnage_atomic
  \/ execute_carnage
  \/ \E lamports \in Deposits : Deposit(lamports)
  \/ PayBounty
  \/ ScheduleCarnage
  \/ ExpireCarnage
  \/ \E m \in Mints, amount \in Trades : Trade(m, amount)
  \/ GiftWsol
  \/ \E m \in Mints : GiftToken(m)

Spec == Init /\ [][Next]_vars

------------------------------------------------------------------------------
(* Properties *)

\* Every field keeps its type.
TypeOK ==
  /\ sol_vault \in Nat /\ carnage_wsol \in Nat /\ vault \in [Mints -> Nat]
  /\ held_token \in Mints \cup {"None"} /\ held_amount \in Nat
  /\ total_sol_spent \in Nat /\ total_triggers \in Nat
  /\ total_burned \in [Mints -> Nat]
  /\ carnage_pending \in BOOLEAN /\ carnage_action \in Actions
  /\ carnage_target \in Mints /\ taxes \in Rates
  /\ reserve_sol \in [Mints -> Nat] /\ reserve_token \in [Mints -> Nat]
  /\ deposited \in Nat /\ bounties \in Nat /\ proceeds \in Nat
  /\ bought \in [Mints -> Nat] /\ sold \in [Mints -> Nat]
  /\ wsol_gifts \in Nat /\ token_gifts \in [Mints -> Nat] /\ trades \in Nat

\* The one record held_token/held_amount stands for two vaults: whatever order
\* of buys, burns and sales, a vault holds exactly what the record says and
\* strangers' gifts.  Holdings would be orphaned if an execution bought over
\* them, which the action drawn at the reveal, not the execution, prevents.
HoldingsInVault ==
  \A m \in Mints :
    vault[m] = token_gifts[m] + (IF m = held_token THEN held_amount ELSE 0)

\* Every token the fund ever bought is burned, sold or held now.
PurchasesAccounted ==
  \A m \in Mints :
    bought[m] = total_burned[m] + sold[m] + (IF m = held_token THEN held_amount ELSE 0)

\* Lamports and WSOL that reached the fund, from taxes, from gifts and from its
\* sales, are in its two accounts, were spent on buys, or paid for bounties.
SolAccounted ==
  sol_vault + carnage_wsol + total_sol_spent + bounties
    = deposited + proceeds + wsol_gifts

\* No payment from the SOL vault, bounty or wrap, leaves it below its rent.
RentKept == [][sol_vault' < sol_vault => sol_vault' >= RENT]_vars

\* A buy moves the price of the target by a factor that stays under one plus the
\* round-trip friction of its pool: (1 + D/R)^2 < 1 + f, at the reserves the
\* execution finds after its own sale, and never uses more than the cap.
CapBelowBreakEven ==
  carnage_pending =>
    LET R == disposal.sol[carnage_target]
        D == total_buy_amount
        f == carnage_friction_bps(taxes[carnage_target])
    IN  R > 0 => (R + D) * (R + D) * BPS < R * R * (BPS + f)

\* A buy so small that the fee's rounding alone exceeds the tolerance, or that
\* buys no whole token.
dust(slippage_bps) ==
  LET e == calculate_effective_input(total_buy_amount, AMM_FEE_BPS) IN
  /\ total_buy_amount > 0
  /\ \/ e * BPS < total_buy_amount * slippage_bps
     \/ swap_exempt_output(disposal.sol[carnage_target], disposal.token[carnage_target],
                           total_buy_amount) = 0

\* An execution that is pending can be carried out, whatever happened to pools
\* and vaults since it was scheduled: the only executions the requirements refuse
\* are those whose sale brings nothing or whose buy is dust.
OnlyDustReverts ==
  \A slippage_bps \in {CARNAGE_SLIPPAGE_BPS_ATOMIC, CARNAGE_SLIPPAGE_BPS_FALLBACK} :
    carnage_pending /\ (sells => disposal.output > 0) /\ ~dust(slippage_bps)
      => disposal_accepted /\ buy_accepted(slippage_bps)

\* carnage_execution.rs says that adding the proceeds to the buy avoids
\* stranding them: no proceeds stay in the WSOL account.
ProceedsNotStranded == carnage_wsol = wsol_gifts

==============================================================================
