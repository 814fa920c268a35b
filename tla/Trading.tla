-------------------------------- MODULE Trading --------------------------------
(***************************************************************************)
(* The tax program's lanes into one faction/WSOL pool: the taxed buys and  *)
(* sells, the lanes of the Carnage Fund and the registered wallets, and    *)
(* the way of the tax to stakers, Carnage and treasury, either at once in  *)
(* lamports or through a sweep account emptied later.                      *)
(*                                                                         *)
(* Tax taken in WSOL passes through one protocol account, the              *)
(* intermediary: it is closed to the swap authority to unwrap it, the      *)
(* shares are paid out, and it is created again from the rent it freed.    *)
(* Instructions are atomic: a failed one leaves no trace.  The tax rates   *)
(* and the pauses are the epoch program's; here they may be any.  Traders' *)
(* own balances, the runtime's rent rules for other accounts, and the      *)
(* identity checks of accounts and mints are left out.                     *)
(***************************************************************************)
EXTENDS AmmPool

CONSTANTS
  STAKING_BPS, CARNAGE_BPS,   \* shares of the tax; the treasury has the rest
  MICRO_TAX,                  \* a smaller tax goes to stakers whole
  RENT,                       \* lamports of an empty token account
  Rates,                      \* tax rates, in basis points
  TradeAmounts, Minimums,     \* amounts traded and slippage limits (bounds)
  MaxTaxed, MaxSwept,         \* tax beyond which nothing is charged (bounds)
  MaxStrays                   \* gifts to each protocol account (bound)

ASSUME TradingAssumption ==
  /\ STAKING_BPS \in Nat /\ CARNAGE_BPS \in Nat
  /\ STAKING_BPS + CARNAGE_BPS <= BPS
  /\ MICRO_TAX \in Nat /\ RENT \in Nat
  /\ Rates \subseteq 0..BPS
  /\ TradeAmounts \subseteq Nat /\ Minimums \subseteq Nat
  /\ MaxTaxed \in Nat /\ MaxSwept \in Nat /\ MaxStrays \in Nat

VARIABLES
  buy_tax_bps, sell_tax_bps, halted,   \* EpochState, as the lanes read it
  intermediary,      \* does the WSOL intermediary exist
  wsol,              \* its token balance
  swap_authority,    \* lamports of the swap authority
  escrow, pending_rewards,             \* staking escrow and its counter
  carnage_vault, treasury,
  sweep,             \* balance of the sweep account of the quote mint
  taxed,             \* history: lamports split so far
  swept, withdrawn,  \* history: quote tax put in and taken out of the sweep
  strays             \* history: what strangers sent to protocol accounts

marketVars == <<buy_tax_bps, sell_tax_bps, halted>>
unwrapVars == <<intermediary, wsol, swap_authority>>
shareVars  == <<escrow, pending_rewards, carnage_vault, treasury, taxed>>
sweepVars  == <<sweep, swept, withdrawn>>
tradeVars  == <<poolVars, marketVars, unwrapVars, shareVars, sweepVars, strays>>

Gifted == {"intermediary", "swap_authority", "sweep"}
Quote  == other(FactionSide)

------------------------------------------------------------------------------
(* helpers/tax_math.rs, helpers/split.rs *)

calculate_tax(amount, tax_bps) == (amount * tax_bps) \div BPS

split_distribution_carnage_rounded_up(total) ==                     \* mutant
  [staking |-> (total * STAKING_BPS) \div BPS,
   carnage |-> (total * CARNAGE_BPS + BPS - 1) \div BPS]
split_distribution(total) ==
  IF total < MICRO_TAX
  THEN [staking |-> total, carnage |-> 0]
  ELSE [staking |-> (total * STAKING_BPS) \div BPS,
        carnage |-> (total * CARNAGE_BPS) \div BPS]

execute_split_distribution(total) ==
  LET share == split_distribution(total) IN
  /\ taxed + total <= MaxTaxed
  /\ escrow' = escrow + share.staking
  /\ pending_rewards' = pending_rewards + share.staking
  /\ carnage_vault' = carnage_vault + share.carnage
  /\ treasury' = treasury + (total - share.staking - share.carnage)
  /\ taxed' = taxed + total

\* The gross output a sell asks of the pool for its net minimum.
gross_floor_before_tax(minimum, tax_bps) == minimum                 \* mutant
gross_floor(minimum, tax_bps) ==
  IF minimum > 0 /\ tax_bps < BPS
  THEN (minimum * BPS + (BPS - tax_bps) - 1) \div (BPS - tax_bps)
  ELSE 0

\* What a sell brought in, from the receiving account's balances.
received_whole(before, after) == after                              \* mutant
received(before, after) == after - before

open == ~halted

\* Unwrap the intermediary, share out the tax, create the intermediary again.
unwrap_and_share(balance, tax) ==
  LET freed == swap_authority + RENT + balance IN
  /\ intermediary
  /\ freed >= tax + RENT
  /\ execute_split_distribution(tax)
  /\ swap_authority' = freed - tax - RENT
  /\ wsol' = 0
  /\ intermediary' = TRUE

------------------------------------------------------------------------------
TradeInit ==
  /\ Init
  /\ buy_tax_bps \in Rates /\ sell_tax_bps \in Rates /\ halted = FALSE
  /\ intermediary = FALSE /\ wsol = 0 /\ swap_authority = 0
  /\ escrow = 0 /\ pending_rewards = 0 /\ carnage_vault = 0 /\ treasury = 0
  /\ sweep = 0 /\ taxed = 0 /\ swept = 0 /\ withdrawn = 0
  /\ strays = [g \in Gifted |-> 0]

\* The upgrade authority pays the first rent.
initialize_wsol_intermediary ==
  /\ ~intermediary
  /\ intermediary' = TRUE
  /\ wsol' = 0
  /\ UNCHANGED <<poolVars, marketVars, swap_authority, shareVars, sweepVars, strays>>

\* SOL for the faction token; the tax leaves the buyer's wallet in lamports.
swap_sol_buy(amount_in, minimum_output) ==
  LET tax == calculate_tax(amount_in, buy_tax_bps) IN
  /\ open
  /\ FactionSide = "B"
  /\ amount_in - tax > 0
  /\ execute_split_distribution(tax)
  /\ swap_sol_pool("A", amount_in - tax, minimum_output)
  /\ UNCHANGED <<marketVars, unwrapVars, sweepVars, strays>>

\* The same with the tax taken in WSOL, through the intermediary.
swap_sol_buy_wsol(amount_in, minimum_output) ==
  LET tax == calculate_tax(amount_in, buy_tax_bps) IN
  /\ open
  /\ FactionSide = "B"
  /\ amount_in - tax > 0
  /\ unwrap_and_share(wsol + tax, tax)
  /\ swap_sol_pool("A", amount_in - tax, minimum_output)
  /\ UNCHANGED <<marketVars, sweepVars, strays>>

\* The faction token for WSOL: the pool pays the intermediary, which forwards
\* the net output and keeps the tax.
swap_sol_sell(amount_in, minimum_output) ==
  LET wsol_after   == wsol + swap_output("B", amount_in)
      gross_output == received(wsol, wsol_after)
      tax          == calculate_tax(gross_output, sell_tax_bps)
      net_output   == gross_output - tax
  IN
  /\ open
  /\ FactionSide = "B"
  /\ initialized
  /\ swap_sol_pool("B", amount_in, gross_floor(minimum_output, sell_tax_bps))
  /\ net_output > 0
  /\ net_output >= minimum_output
  /\ unwrap_and_share(wsol_after - net_output, tax)
  /\ UNCHANGED <<marketVars, sweepVars, strays>>

\* The lanes for any quote mint leave the tax in the sweep account.
swap_spl_buy(amount_in, minimum_output) ==
  LET tax == calculate_tax(amount_in, buy_tax_bps) IN
  /\ open
  /\ amount_in > 0
  /\ amount_in - tax > 0
  /\ swept + tax <= MaxSwept
  /\ sweep' = sweep + tax
  /\ swept' = swept + tax
  /\ swap_sol_pool(Quote, amount_in - tax, minimum_output)
  /\ UNCHANGED <<marketVars, unwrapVars, shareVars, withdrawn, strays>>

swap_spl_sell(amount_in, minimum_output) ==
  LET sweep_after == sweep + swap_output(FactionSide, amount_in)
      gross       == received(sweep, sweep_after)
      tax         == calculate_tax(gross, sell_tax_bps)
      net         == gross - tax
  IN
  /\ open
  /\ initialized
  /\ amount_in > 0
  /\ swap_sol_pool(FactionSide, amount_in, gross_floor(minimum_output, sell_tax_bps))
  /\ net > 0
  /\ net >= minimum_output
  /\ swept + tax <= MaxSwept
  /\ sweep' = sweep_after - net
  /\ swept' = swept + tax
  /\ UNCHANGED <<marketVars, unwrapVars, shareVars, withdrawn, strays>>

\* The untaxed lanes, open during a pause: the Carnage Fund's, which takes any
\* price, and the registered wallets'.
swap_exempt(s, amount_in) ==
  /\ amount_in > 0
  /\ swap_sol_pool(s, amount_in, 0)
  /\ UNCHANGED <<marketVars, unwrapVars, shareVars, sweepVars, strays>>

swap_arb_wallet(s, amount_in, min_out) ==
  /\ amount_in > 0
  /\ swap_sol_pool(s, amount_in, min_out)
  /\ UNCHANGED <<marketVars, unwrapVars, shareVars, sweepVars, strays>>

\* A registered wallet takes an amount from the sweep account, 0 meaning all.
withdraw_sweep(amount) ==
  LET to_move == IF amount = 0 THEN sweep ELSE amount IN
  /\ amount <= sweep
  /\ to_move > 0
  /\ sweep' = sweep - to_move
  /\ withdrawn' = withdrawn + to_move
  /\ UNCHANGED <<poolVars, marketVars, unwrapVars, shareVars, swept, strays>>

\* A registered wallet has lamports shared out like a tax.
distribute_swept(lamports) ==
  /\ lamports > 0
  /\ execute_split_distribution(lamports)
  /\ UNCHANGED <<poolVars, marketVars, unwrapVars, sweepVars, strays>>

\* The epoch program sets rates and pauses, and its close takes the pending
\* rewards into the cumulative.
EpochMoves ==
  /\ buy_tax_bps' \in Rates /\ sell_tax_bps' \in Rates /\ halted' \in BOOLEAN
  /\ pending_rewards' \in {pending_rewards, 0}
  /\ UNCHANGED <<poolVars, unwrapVars, escrow, carnage_vault, treasury, taxed,
                 sweepVars, strays>>

\* Anybody may send WSOL or lamports to the protocol's accounts.
Stray(g) ==
  /\ strays[g] < MaxStrays
  /\ strays' = [strays EXCEPT ![g] = @ + 1]
  /\ \/ g = "intermediary" /\ intermediary /\ wsol' = wsol + 1
        /\ UNCHANGED <<intermediary, swap_authority, sweepVars>>
     \/ g = "swap_authority" /\ swap_authority' = swap_authority + 1
        /\ UNCHANGED <<intermediary, wsol, sweepVars>>
     \/ g = "sweep" /\ sweep' = sweep + 1
        /\ UNCHANGED <<unwrapVars, swept, withdrawn>>
  /\ UNCHANGED <<poolVars, marketVars, shareVars>>

Upkeep == PoolUpkeep /\ UNCHANGED <<marketVars, unwrapVars, shareVars, sweepVars, strays>>

TradeNext ==
  \/ Upkeep
  \/ initialize_wsol_intermediary
  \/ \E amount_in \in TradeAmounts, minimum \in Minimums :
       \/ swap_sol_buy(amount_in, minimum)
       \/ swap_sol_buy_wsol(amount_in, minimum)
       \/ swap_sol_sell(amount_in, minimum)
       \/ swap_spl_buy(amount_in, minimum)
       \/ swap_spl_sell(amount_in, minimum)
       \/ \E s \in Sides : swap_arb_wallet(s, amount_in, minimum)
  \/ \E s \in Sides, amount_in \in TradeAmounts : swap_exempt(s, amount_in)
  \/ \E amount \in Minimums : withdraw_sweep(amount)
  \/ \E lamports \in TradeAmounts : distribute_swept(lamports)
  \/ EpochMoves
  \/ \E g \in Gifted : Stray(g)

TradeSpec == TradeInit /\ [][TradeNext]_tradeVars

------------------------------------------------------------------------------
(* Properties *)

\* Every field keeps its type.
TradeTypeOK ==
  /\ TypeOK
  /\ buy_tax_bps \in Rates /\ sell_tax_bps \in Rates /\ halted \in BOOLEAN
  /\ intermediary \in BOOLEAN /\ wsol \in Nat /\ swap_authority \in Nat
  /\ escrow \in Nat /\ pending_rewards \in Nat /\ carnage_vault \in Nat
  /\ treasury \in Nat /\ sweep \in Nat /\ taxed \in Nat
  /\ swept \in Nat /\ withdrawn \in Nat
  /\ strays \in [Gifted -> Nat]

\* After any number of unwraps, failed and successful lanes and gifts in between,
\* the intermediary and the swap authority together hold what strangers sent,
\* to the lamport: no tax is left behind, the rent freed by closing the account
\* pays for the next one, and nobody's gift is paid out as tax or as proceeds.
NoTaxResidue ==
  swap_authority + wsol = strays["intermediary"] + strays["swap_authority"]

\* Whatever sequence of taxes was split, and however small each one, all of it
\* reached a destination, rounding never favoured the Carnage Fund, and the
\* counter the stakers are paid from never runs ahead of the escrow.
SharesHold ==
  /\ escrow + carnage_vault + treasury = taxed
  /\ carnage_vault * BPS <= CARNAGE_BPS * taxed
  /\ pending_rewards <= escrow

\* The sweep account holds the quote taxes not withdrawn yet and gifts: a sell
\* that passes its whole output through the account takes out only its own net.
SweepAccounted == sweep + withdrawn = swept + strays["sweep"]

\* A sell the pool accepts at the floor the lane computes for it never fails the
\* lane's own limit after tax, at any reserves and rate the pool reaches.
GrossFloorSuffices ==
  initialized =>
    \A amount_in \in Amounts, minimum \in Amounts :
      LET gross == swap_output(FactionSide, amount_in)
      IN  sell_tax_bps < BPS /\ gross >= gross_floor(minimum, sell_tax_bps)
            => gross - calculate_tax(gross, sell_tax_bps) >= minimum

==============================================================================
