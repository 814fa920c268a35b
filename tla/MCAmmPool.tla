------------------------------- MODULE MCAmmPool -------------------------------
(***************************************************************************)
(* Two administrators, a basis of 10 so that fees and shares round, and    *)
(* reserves small enough that every skew of the pool is reached.           *)
(***************************************************************************)
EXTENDS AmmPool

MCFees    == {0, 3, 6}
MCSeeds   == {4, 7}
MCShares  == {1, 3, 5, 9, 10}
================================================================================
