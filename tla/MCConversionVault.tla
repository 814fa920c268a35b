-------------------------- MODULE MCConversionVault --------------------------
(***************************************************************************)
(* A rate of two; a trader with an account of each mint, a pool, and the   *)
(* operators.                                                              *)
(***************************************************************************)
EXTENDS ConversionVault

MCMintOf ==
  [trader_crime |-> "CRIME", trader_fraud |-> "FRAUD", trader_profit |-> "PROFIT",
   pool |-> "CRIME", operators |-> "PROFIT",
   vault_crime |-> "CRIME", vault_fraud |-> "FRAUD", vault_profit |-> "PROFIT"]
MCAccounts == DOMAIN MCMintOf
MCAccountAt ==
  <<"trader_crime", "trader_fraud", "trader_profit", "pool", "operators",
    "vault_crime", "vault_fraud", "vault_profit">>
MCOwnerOf ==
  [a \in MCAccounts |->
     CASE a \in {"trader_crime", "trader_fraud", "trader_profit"} -> "trader"
       [] a = "pool" -> "amm"
       [] a = "operators" -> "squads"
       [] OTHER -> "vault_config"]
MCKeys == {"trader", "amm", "squads"}
MCAddresses == {"vault_crime", "vault_fraud", "vault_profit", "pool"}
MCWhitelists == {{"pool", "vault_crime", "vault_profit"}}
MCGenesis ==
  [a \in MCAccounts |->
     CASE a = "trader_crime" -> 2 [] a = "pool" -> 1 [] a = "trader_fraud" -> 1
       [] a = "operators" -> 4 [] OTHER -> 0]
==============================================================================
