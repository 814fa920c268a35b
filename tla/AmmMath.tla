-------------------------------- MODULE AmmMath --------------------------------
(***************************************************************************)
(* The integer arithmetic of a constant-product swap, as the AMM program   *)
(* computes it: every product is exact, every quotient rounds down.        *)
(***************************************************************************)
EXTENDS Integers

CONSTANT BPS   \* BPS_DENOMINATOR

ASSUME BasisAssumption == BPS \in Nat \ {0}

calculate_effective_input_fee_floored(amount_in, fee_bps) ==                   \* mutant
  amount_in - (amount_in * fee_bps) \div BPS
\* What is left of an input once the LP fee is taken.
calculate_effective_input(amount_in, fee_bps) == (amount_in * (BPS - fee_bps)) \div BPS

calculate_swap_output_rounded_up(reserve_in, reserve_out, effective_input) == \* mutant
  (reserve_out * effective_input + reserve_in + effective_input - 1)
     \div (reserve_in + effective_input)
calculate_swap_output_at_spot(reserve_in, reserve_out, effective_input) ==    \* mutant
  (reserve_out * effective_input) \div reserve_in
\* What the pool pays for it.
calculate_swap_output(reserve_in, reserve_out, effective_input) ==
  (reserve_out * effective_input) \div (reserve_in + effective_input)

verify_k_invariant(in_before, out_before, in_after, out_after) ==
  in_after * out_after >= in_before * out_before

==============================================================================
