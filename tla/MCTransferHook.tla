---------------------------- MODULE MCTransferHook ----------------------------
(***************************************************************************)
(* Two keys; one hooked mint with two wallets and a pool, and one mint     *)
(* whose hook is another program.                                          *)
(***************************************************************************)
EXTENDS TransferHook

MCMintOf  == [wallet_1 |-> "CRIME", wallet_2 |-> "CRIME", pool |-> "CRIME",
              foreign |-> "OTHER"]
MCAccounts == DOMAIN MCMintOf
MCOwnerOf == [wallet_1 |-> "alice", wallet_2 |-> "bob", pool |-> "amm", foreign |-> "bob"]
MCKeys    == {"alice", "bob", "amm"}
MCAddresses == {"pool", "wallet_2", "default"}
MCGenesis == [wallet_1 |-> 1, wallet_2 |-> 1, pool |-> 2, foreign |-> 1]
==============================================================================
