------------------------------- MODULE MCTrading -------------------------------
(***************************************************************************)
(* A basis of 10 so that taxes, shares and floors round; the rates tax the *)
(* larger trades and leave the smallest untaxed.  The pool keeps its       *)
(* liquidity: MCAmmPool changes it.                                        *)
(***************************************************************************)
EXTENDS Trading

MCFees     == {1}
MCSeeds    == {5}
MCShares   == {}
MCRates    == {4}
MCTrades   == {2, 5}
MCMinimums == {0, 2}
================================================================================
