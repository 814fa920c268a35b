-------------------------------- MODULE AmmPool --------------------------------
(***************************************************************************)
(* One constant-product pool of the AMM program: creation under an admin,  *)
(* swaps in both directions with the LP fee left in the pool, governed     *)
(* additions and removals of liquidity.  The pool account records reserves *)
(* and the tokens lie in two vault accounts, which anybody may send tokens *)
(* to; every price is computed from the recorded reserves.                 *)
(*                                                                         *)
(* Each instruction is atomic, with its transfers: a failed one leaves no  *)
(* trace.  The reentrancy lock is set and cleared within an instruction,   *)
(* so no state between instructions shows it.  Wallets and the governance  *)
(* authority are the holders of those roles in ArbConfig; signature checks *)
(* and mint policy are left out.  Amounts fit in u64 and products in u128. *)
(***************************************************************************)
EXTENDS AmmMath

CONSTANTS
  MAX_LP_FEE_BPS,    \* largest LP fee a pool is created with
  DUST_FLOOR,        \* what a removal leaves on each side at least
  FactionSide,       \* the side of the faction mint; the other is the quote
  Admins,            \* keys that may become AMM admin
  Burned, NoConfig,  \* admin: the default key; the account does not exist
  Fees,              \* LP fees tried at creation (bound)
  SeedAmounts,       \* seed liquidity tried (bound)
  Shares,            \* removal shares tried (bound)
  MaxReserve,        \* largest reserve, so the largest amount paid in (bound)
  MaxGifts           \* tokens strangers send to each vault (bound)

ASSUME PoolAssumption ==
  /\ MAX_LP_FEE_BPS \in Nat /\ MAX_LP_FEE_BPS <= BPS
  /\ DUST_FLOOR \in Nat \ {0} /\ FactionSide \in {"A", "B"}
  /\ Burned \notin Admins /\ NoConfig \notin Admins /\ Burned # NoConfig
  /\ Fees \subseteq Nat /\ SeedAmounts \subseteq Nat
  /\ Shares \subseteq Nat /\ MaxReserve \in Nat /\ MaxGifts \in Nat

VARIABLES
  admin,        \* AdminConfig::admin
  initialized, lp_fee_bps,
  reserve,      \* reserve_a and reserve_b
  vault,        \* balances of vault_a and vault_b
  donated       \* history: tokens the vaults got outside the program

poolVars == <<admin, initialized, lp_fee_bps, reserve, vault, donated>>

Sides == {"A", "B"}
Amounts == 1..MaxReserve
other(s) == IF s = "A" THEN "B" ELSE "A"

------------------------------------------------------------------------------
(* The arithmetic of the handlers, at the pool's reserves *)

\* What a swap of amount_in of side s pays, fee and rounding deducted.
swap_output(s, amount_in) ==
  calculate_swap_output(reserve[s], reserve[other(s)],
                        calculate_effective_input(amount_in, lp_fee_bps))

\* The reserves a swap writes: the fee stays in the pool with the input.
after_swap_without_fee(s, amount_in, amount_out) ==                 \* mutant
  [reserve EXCEPT ![s] = @ + calculate_effective_input(amount_in, lp_fee_bps),
                  ![other(s)] = @ - amount_out]
after_swap(s, amount_in, amount_out) ==
  [reserve EXCEPT ![s] = @ + amount_in, ![other(s)] = @ - amount_out]

compute_quote_side(faction_amount, reserve_quote, reserve_faction) ==
  (faction_amount * reserve_quote) \div reserve_faction

remove_amount(s, share_bps) == (reserve[s] * share_bps) \div BPS

------------------------------------------------------------------------------
Init ==
  /\ admin = NoConfig
  /\ initialized = FALSE /\ lp_fee_bps = 0
  /\ reserve = [s \in Sides |-> 0]
  /\ vault = [s \in Sides |-> 0]
  /\ donated = [s \in Sides |-> 0]

\* initialize_admin: the upgrade authority names the first admin.
initialize_admin(a) ==
  /\ admin = NoConfig
  /\ admin' = a
  /\ UNCHANGED <<initialized, lp_fee_bps, reserve, vault, donated>>

transfer_admin(a) ==
  /\ admin \in Admins
  /\ admin' = a
  /\ UNCHANGED <<initialized, lp_fee_bps, reserve, vault, donated>>

burn_admin ==
  /\ admin \in Admins
  /\ admin' = Burned
  /\ UNCHANGED <<initialized, lp_fee_bps, reserve, vault, donated>>

valid_fee(fee) == fee <= MAX_LP_FEE_BPS

\* The vaults are created by the same instruction, so nothing was sent to them.
initialize_pool(fee, amount) ==
  /\ admin \in Admins
  /\ ~initialized
  /\ \A s \in Sides : amount[s] > 0
  /\ valid_fee(fee)
  /\ initialized' = TRUE
  /\ lp_fee_bps' = fee
  /\ reserve' = amount
  /\ vault' = amount
  /\ UNCHANGED <<admin, donated>>

\* The pool's side of a swap: the whole of swap_sol_pool but for the caller's
\* token accounts.
swap_sol_pool(s, amount_in, minimum_amount_out) ==
  LET effective_input == calculate_effective_input(amount_in, lp_fee_bps)
      amount_out      == swap_output(s, amount_in)
      new_reserve     == after_swap(s, amount_in, amount_out)
  IN
  /\ initialized
  /\ amount_in > 0
  /\ effective_input > 0
  /\ amount_out > 0
  /\ amount_out >= minimum_amount_out
  /\ reserve[s] + amount_in <= MaxReserve
  /\ amount_out <= reserve[other(s)]
  /\ verify_k_invariant(reserve[s], reserve[other(s)],
                        new_reserve[s], new_reserve[other(s)])
  /\ reserve' = new_reserve
  /\ vault' = [vault EXCEPT ![s] = @ + amount_in, ![other(s)] = @ - amount_out]
  /\ UNCHANGED <<admin, initialized, lp_fee_bps, donated>>

\* An approved wallet pays both sides, the quote at the pool's own price.
add_liquidity_double_sided(faction_amount, max_quote) ==
  LET quote_amount == compute_quote_side(faction_amount,
                        reserve[other(FactionSide)], reserve[FactionSide])
      deposit      == [s \in Sides |-> IF s = FactionSide THEN faction_amount
                                                          ELSE quote_amount]
  IN
  /\ initialized
  /\ faction_amount > 0
  /\ reserve[FactionSide] > 0
  /\ quote_amount > 0
  /\ quote_amount <= max_quote
  /\ \A s \in Sides : reserve[s] + deposit[s] <= MaxReserve
  /\ reserve' = [s \in Sides |-> reserve[s] + deposit[s]]
  /\ vault' = [s \in Sides |-> vault[s] + deposit[s]]
  /\ UNCHANGED <<admin, initialized, lp_fee_bps, donated>>

\* The governance authority takes a share of both sides.
remove_liquidity_double_sided(share_bps) ==
  /\ initialized
  /\ share_bps \in 1..(BPS - 1)
  /\ \A s \in Sides : /\ remove_amount(s, share_bps) > 0
                      /\ reserve[s] - remove_amount(s, share_bps) >= DUST_FLOOR
  /\ reserve' = [s \in Sides |-> reserve[s] - remove_amount(s, share_bps)]
  /\ vault' = [s \in Sides |-> vault[s] - remove_amount(s, share_bps)]
  /\ UNCHANGED <<admin, initialized, lp_fee_bps, donated>>

\* Anybody may send tokens to a vault.
Donate(s) ==
  /\ initialized
  /\ donated[s] < MaxGifts
  /\ vault' = [vault EXCEPT ![s] = @ + 1]
  /\ donated' = [donated EXCEPT ![s] = @ + 1]
  /\ UNCHANGED <<admin, initialized, lp_fee_bps, reserve>>

\* What governance, the approved wallets and strangers do to the pool.
PoolUpkeep ==
  \/ \E a \in Admins : initialize_admin(a) \/ transfer_admin(a)
  \/ burn_admin
  \/ \E fee \in Fees, amount \in [Sides -> SeedAmounts] : initialize_pool(fee, amount)
  \/ \E amount, max_quote \in Amounts : add_liquidity_double_sided(amount, max_quote)
  \/ \E share_bps \in Shares : remove_liquidity_double_sided(share_bps)
  \/ \E s \in Sides : Donate(s)

\* The tax program decides which amounts reach the pool; here they are any.
Next ==
  \/ PoolUpkeep
  \/ \E s \in Sides, amount_in \in Amounts, minimum \in Amounts \cup {0} :
       swap_sol_pool(s, amount_in, minimum)

Spec == Init /\ [][Next]_poolVars

------------------------------------------------------------------------------
(* Properties *)

\* Every field keeps its type.
TypeOK ==
  /\ admin \in Admins \cup {Burned, NoConfig}
  /\ initialized \in BOOLEAN
  /\ lp_fee_bps \in Nat /\ lp_fee_bps <= MAX_LP_FEE_BPS
  /\ reserve \in [Sides -> Nat]
  /\ vault \in [Sides -> Nat]
  /\ donated \in [Sides -> Nat]

\* Each vault holds its recorded reserve and what strangers sent to it, no token
\* more or less, after any mixture of swaps and liquidity changes: a swap or a
\* removal never fails for want of tokens and no fee is left unrecorded.
VaultsMatchReserves == \A s \in Sides : vault[s] = reserve[s] + donated[s]

\* At every reserve the pool reaches, the two roundings of the swap formula stay
\* on the pool's side: the final check of the product never rejects a swap that
\* passed the other checks, and no swap empties a side.
KCheckNeverFires ==
  initialized =>
    \A s \in Sides, amount_in \in Amounts :
      LET amount_out == swap_output(s, amount_in)
      IN  /\ amount_out < reserve[other(s)]
          /\ verify_k_invariant(reserve[s], reserve[other(s)],
                                reserve[s] + amount_in,
                                reserve[other(s)] - amount_out)

\* Swapping an amount in and its whole output straight back never returns more
\* than the amount, whatever the fee and however far the reserves are skewed.
RoundTripLoses ==
  initialized =>
    \A s \in Sides, amount_in \in Amounts :
      LET amount_out == swap_output(s, amount_in)
      IN  calculate_swap_output(
            reserve[other(s)] - amount_out, reserve[s] + amount_in,
            calculate_effective_input(amount_out, lp_fee_bps)) <= amount_in

\* A trade cut in two, one part after the other, never pays more than the trade in
\* one piece: the roundings of fee and output, and the price the first part
\* leaves, are all on the pool's side, so no dust is won by cutting a trade up.
SplittingLoses ==
  initialized =>
    \A s \in Sides, first, second \in Amounts :
      LET amount_out == swap_output(s, first)
      IN  amount_out + calculate_swap_output(
            reserve[s] + first, reserve[other(s)] - amount_out,
            calculate_effective_input(second, lp_fee_bps))
          <= swap_output(s, first + second)

==============================================================================
