SPECIFICATION HookSpec
CONSTANTS
  Keys <- MCKeys
  upgrade_authority = "alice"
  Accounts <- MCAccounts
  Mints = {"CRIME", "OTHER"}
  mint_of <- MCMintOf
  owner_of <- MCOwnerOf
  HookedMints = {"CRIME"}
  Addresses <- MCAddresses
  Genesis <- MCGenesis
PROPERTIES
  WhitelistFinal
