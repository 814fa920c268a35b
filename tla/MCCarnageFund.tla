----------------------------- MODULE MCCarnageFund -----------------------------
(***************************************************************************)
(* The program's own basis, fee, cap and floors; pools of a few dozen      *)
(* lamports, where the cap is a handful of lamports and every rounding of  *)
(* the arithmetic shows; rates at the two ends of the friction range.      *)
(***************************************************************************)
EXTENDS CarnageFund

MCRates    == {[CRIME |-> <<100, 1100>>, FRAUD |-> <<1100, 100>>],
               [CRIME |-> <<1400, 400>>, FRAUD |-> <<400, 1400>>]}
MCPools    == {<<120, 260>>}
MCDeposits == {7, 13}
MCTrades   == {60}
================================================================================
