------------------------------- MODULE MCVotes -------------------------------
(***************************************************************************)
(* Two wallets over three weeks of one second each; no rewards flow, since *)
(* votes read only the balances.                                           *)
(***************************************************************************)
EXTENDS Votes

NoDeposits == {}

==============================================================================
