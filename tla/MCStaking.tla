------------------------------- MODULE MCStaking -------------------------------
(***************************************************************************)
(* Small instances of Staking.  A precision of 4 and a dead stake of 2     *)
(* make most divisions of the reward arithmetic inexact, and a purse of 3  *)
(* leaves remainders on both sides of the minimum stake.                   *)
(***************************************************************************)
EXTENDS Staking

MCDeposits == {1, 3}
==============================================================================
