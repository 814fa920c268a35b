---------------------------- MODULE ConversionVault ----------------------------
(***************************************************************************)
(* The conversion vault on top of the transfer hook its transfers go       *)
(* through: RATE CRIME or FRAUD against one PROFIT, either way, for an     *)
(* exact amount, a whole balance, or what arrived since a balance was      *)
(* read; and the one extraction of PROFIT by the operators.                *)
(*                                                                         *)
(* The vault's token accounts are the three made at initialization.        *)
(* Whoever converts owns the input account; the output account may be      *)
(* anybody's.                                                              *)
(***************************************************************************)
EXTENDS TransferHook, IndexedSum

CONSTANTS
  CONVERSION_RATE, EXTRACT_AMOUNT_RAW, U64_MAX,
  squads_vault,        \* the key that may extract
  destination_ata,     \* its PROFIT account
  NumAccounts, account_at,   \* the accounts in some order, to add up balances
  Whitelists,          \* whitelists the vault may find at its deployment
  MaxConversions, MaxTransfers   \* (bounds)

Factions == {"CRIME", "FRAUD"}
PROFIT == "PROFIT"
VaultOf == [CRIME |-> "vault_crime", FRAUD |-> "vault_fraud", PROFIT |-> "vault_profit"]
VaultAccounts == {"vault_crime", "vault_fraud", "vault_profit"}

ASSUME VaultAssumption ==
  /\ CONVERSION_RATE \in Nat \ {0} /\ EXTRACT_AMOUNT_RAW \in Nat \ {0}
  /\ U64_MAX \in Nat
  /\ squads_vault \in Keys
  /\ destination_ata \in Accounts \ VaultAccounts /\ mint_of[destination_ata] = PROFIT
  /\ Mints = Factions \cup {PROFIT} /\ HookedMints = Mints
  /\ VaultAccounts \subseteq Accounts
  /\ \A m \in Mints : mint_of[VaultOf[m]] = m
  /\ \A a \in VaultAccounts : owner_of[a] \notin Keys /\ Genesis[a] = 0
  /\ Whitelists \subseteq SUBSET (Addresses \ {default_address})
  /\ MaxConversions \in Nat /\ MaxTransfers \in Nat

\* What the accounts of a mint hold together.
of_mint(held, m) ==
  [i \in 1..NumAccounts |-> IF mint_of[account_at[i]] = m THEN held[account_at[i]] ELSE 0]
mint_total(held, m) == Sum(of_mint(held, m), NumAccounts)

ASSUME SupplyAssumption ==
  /\ NumAccounts \in Nat /\ account_at \in [1..NumAccounts -> Accounts]
  /\ \A a \in Accounts : \E i \in 1..NumAccounts :
       account_at[i] = a /\ \A j \in 1..NumAccounts : account_at[j] = a => j = i
  /\ \A m \in Mints : mint_total(Genesis, m) <= U64_MAX   \* a mint's supply is a u64

VARIABLES
  vault_initialized,   \* VaultConfig and its token accounts exist
  migrated,            \* MigrationConfig exists
  note,                \* a balance somebody read, to send as pre_balance; one at a time
  contributed,         \* history: worth of what others gave to the vault
  conversions, transfers   \* history: how many (bounded)

NoNote == [account |-> "none", balance |-> 0]

vaultVars == <<allHookVars, vault_initialized, migrated, note, contributed,
               conversions, transfers>>

\* Anything in units of the faction tokens.
worth(mint, amount) == IF mint = PROFIT THEN CONVERSION_RATE * amount ELSE amount

------------------------------------------------------------------------------
(* Conversion *)

valid_pair(input, output) ==
  \/ input \in Factions /\ output = PROFIT
  \/ input = PROFIT /\ output \in Factions

compute_output_rounded_up(input, amount_in) ==                      \* mutant
  IF input = PROFIT THEN amount_in * CONVERSION_RATE
  ELSE (amount_in + CONVERSION_RATE - 1) \div CONVERSION_RATE
compute_output(input, amount_in) ==
  IF input = PROFIT THEN amount_in * CONVERSION_RATE ELSE amount_in \div CONVERSION_RATE

\* The vault takes an amount from the input account and pays the output account.
exchangeable(held, user_input, user_output, amount) ==
  LET input  == mint_of[user_input]
      output == mint_of[user_output]
      out    == compute_output(input, amount)
      paid   == transferred(held, user_input, VaultOf[input], amount)
  IN
  /\ vault_initialized
  /\ amount > 0 /\ valid_pair(input, output)
  /\ out > 0 /\ out <= U64_MAX
  /\ transferable(held, user_input, VaultOf[input], amount)
  /\ transferable(paid, VaultOf[output], user_output, out)

exchanged(held, user_input, user_output, amount) ==
  LET input  == mint_of[user_input]
      output == mint_of[user_output]
      paid   == transferred(held, user_input, VaultOf[input], amount)
  IN transferred(paid, VaultOf[output], user_output, compute_output(input, amount))

\* What an output account of the vault's own gives back to it.
returned(user_input, user_output, amount) ==
  IF user_output \in VaultAccounts
  THEN worth(mint_of[user_output], compute_output(mint_of[user_input], amount))
  ELSE 0

effective_amount_of_all(held, user_input, amount_in, pre_balance) ==  \* mutant
  IF amount_in > 0 THEN amount_in ELSE held[user_input]
\* convert_v2's three modes: exact, what arrived since pre_balance, everything.
effective_amount(held, user_input, amount_in, pre_balance) ==
  IF amount_in > 0 THEN amount_in ELSE held[user_input] - pre_balance

------------------------------------------------------------------------------
VaultInit ==
  /\ authority = upgrade_authority
  /\ whitelist \in Whitelists
  /\ meta_lists = Mints
  /\ balance = Genesis
  /\ vault_initialized = FALSE /\ migrated = FALSE
  /\ note = NoNote
  /\ contributed = 0 /\ conversions = 0 /\ transfers = 0

may_initialize(payer) == payer = upgrade_authority

initialize(payer) ==
  /\ may_initialize(payer)
  /\ ~vault_initialized
  /\ vault_initialized' = TRUE
  /\ UNCHANGED <<allHookVars, migrated, note, contributed, conversions, transfers>>

exchange(held, user_input, user_output, amount) ==
  /\ conversions < MaxConversions
  /\ exchangeable(held, user_input, user_output, amount)
  /\ balance' = exchanged(held, user_input, user_output, amount)
  /\ contributed' = contributed + returned(user_input, user_output, amount)
  /\ conversions' = conversions + 1
  /\ UNCHANGED <<hookVars, vault_initialized, migrated, transfers>>

convert(user, user_input, user_output, amount_in) ==
  /\ owner_of[user_input] = user
  /\ exchange(balance, user_input, user_output, amount_in)
  /\ UNCHANGED note

convert_v2(user, user_input, user_output, amount_in, minimum_output, pre_balance) ==
  LET amount == effective_amount(balance, user_input, amount_in, pre_balance) IN
  /\ owner_of[user_input] = user
  /\ compute_output(mint_of[user_input], amount) >= minimum_output
  /\ exchange(balance, user_input, user_output, amount)
  /\ UNCHANGED note

extract_profit(signer) ==
  /\ vault_initialized /\ ~migrated
  /\ signer = squads_vault
  /\ transferable(balance, VaultOf[PROFIT], destination_ata, EXTRACT_AMOUNT_RAW)
  /\ balance' = transferred(balance, VaultOf[PROFIT], destination_ata, EXTRACT_AMOUNT_RAW)
  /\ migrated' = TRUE
  /\ UNCHANGED <<hookVars, vault_initialized, note, contributed, conversions, transfers>>

\* Somebody reads the balance of an account of theirs, to route through it.
Note(account) ==
  /\ owner_of[account] \in Keys
  /\ note = NoNote
  /\ note' = [account |-> account, balance |-> balance[account]]
  /\ UNCHANGED <<allHookVars, vault_initialized, migrated, contributed, conversions,
                 transfers>>

\* One transaction: a swap pays into the noted account, and convert_v2 follows with
\* amount_in 0 and the balance noted before.
Route(source, user_output, deposit, minimum_output) ==
  LET a      == note.account
      held   == transferred(balance, source, a, deposit)
      amount == effective_amount(held, a, 0, note.balance)
  IN
  /\ note # NoNote /\ valid_pair(mint_of[a], mint_of[user_output])
  /\ owner_of[source] \in Keys /\ source # a
  /\ transferable(balance, source, a, deposit)
  /\ held[a] >= note.balance
  /\ compute_output(mint_of[a], amount) >= minimum_output
  /\ exchange(held, a, user_output, amount)
  /\ note' = NoNote

HolderTransfer(source, destination, amount) ==
  /\ destination \in VaultAccounts => vault_initialized
  /\ transfers < MaxTransfers
  /\ Transfer(source, destination, amount)
  /\ contributed' = contributed +
       (IF destination \in VaultAccounts THEN worth(mint_of[source], amount) ELSE 0)
  /\ transfers' = transfers + 1
  /\ UNCHANGED <<vault_initialized, migrated, note, conversions>>

HookUpkeep ==
  /\ HookAdmin
  /\ UNCHANGED <<vault_initialized, migrated, note, contributed, conversions, transfers>>

Conversion(user_input, user_output) ==
  LET user == owner_of[user_input] IN
  /\ user \in Keys
  /\ valid_pair(mint_of[user_input], mint_of[user_output])
  /\ \/ \E amount_in \in 1..balance[user_input] :
          convert(user, user_input, user_output, amount_in)
     \/ \E amount_in \in {0, 1}, minimum_output \in {0, 1} :
          \E pre_balance \in 0..balance[user_input] :
            convert_v2(user, user_input, user_output, amount_in, minimum_output,
                       pre_balance)

VaultNext ==
  \/ \E key \in Keys : initialize(key) \/ extract_profit(key)
  \/ \E user_input, user_output \in Accounts : Conversion(user_input, user_output)
  \/ \E account \in Accounts : Note(account)
  \/ \E source, user_output \in Accounts :
       \E deposit \in 1..balance[source], minimum_output \in {0, 1} :
         Route(source, user_output, deposit, minimum_output)
  \/ \E source, destination \in Accounts :
       \E amount \in 1..balance[source] : HolderTransfer(source, destination, amount)
  \/ HookUpkeep

VaultSpec == VaultInit /\ [][VaultNext]_vaultVars

------------------------------------------------------------------------------
(* Properties *)

\* Every field keeps its type.
VaultTypeOK ==
  /\ HookTypeOK
  /\ vault_initialized \in BOOLEAN /\ migrated \in BOOLEAN
  /\ note.account \in Accounts \cup {"none"} /\ note.balance \in Nat
  /\ contributed \in Nat /\ conversions \in Nat /\ transfers \in Nat

vault_worth ==
  balance["vault_crime"] + balance["vault_fraud"] + CONVERSION_RATE * balance["vault_profit"]

extracted == IF migrated THEN EXTRACT_AMOUNT_RAW ELSE 0

\* No order of conversions, in any mode, through any of the tokens, takes worth
\* out of the vault: it keeps all that was ever given to it but the one
\* extraction, and gains less than one PROFIT's worth at each conversion.
WorthKept ==
  LET kept == vault_worth + CONVERSION_RATE * extracted IN
  /\ contributed <= kept
  /\ kept <= contributed + (CONVERSION_RATE - 1) * conversions

faction_supply == mint_total(Genesis, "CRIME") + mint_total(Genesis, "FRAUD")

\* A vault that was given PROFIT for the extraction and, once, for all CRIME and
\* FRAUD there is, can always redeem them: with its accounts on the whitelist, no
\* holder's conversion of at least one PROFIT's worth is ever refused, whatever
\* was converted, extracted, transferred or burned of authority before.
Redeemable ==
  /\ vault_initialized /\ VaultAccounts \subseteq whitelist
  /\ contributed >= CONVERSION_RATE * EXTRACT_AMOUNT_RAW + faction_supply
  => \A a, b \in Accounts \ VaultAccounts :
       /\ mint_of[a] \in Factions /\ mint_of[b] = PROFIT
       /\ balance[a] >= CONVERSION_RATE
       => exchangeable(balance, a, b, balance[a])

\* A route through the vault converts everything but what its owner held when the
\* balance was read, whatever reached or left the account since.
RouteKeepsHoldings ==
  [][note # NoNote /\ note' = NoNote
       => balance'[note.account] = note.balance]_vaultVars

==============================================================================
