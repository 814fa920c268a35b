SPECIFICATION VaultSpec
CONSTANTS
  Keys <- MCKeys
  upgrade_authority = "squads"
  Accounts <- MCAccounts
  Mints = {"CRIME", "FRAUD", "PROFIT"}
  mint_of <- MCMintOf
  owner_of <- MCOwnerOf
  HookedMints = {"CRIME", "FRAUD", "PROFIT"}
  Addresses <- MCAddresses
  Genesis <- MCGenesis
  CONVERSION_RATE = 2
  EXTRACT_AMOUNT_RAW = 1
  U64_MAX = 100
  squads_vault = "squads"
  destination_ata = "operators"
  NumAccounts = 8
  account_at <- MCAccountAt
  Whitelists <- MCWhitelists
  MaxConversions = 3
  MaxTransfers = 2
INVARIANTS
  WorthKept
  Redeemable
PROPERTIES
  RouteKeepsHoldings
