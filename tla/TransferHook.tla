------------------------------ MODULE TransferHook ------------------------------
(***************************************************************************)
(* The transfer hook of the three tokens: Token-2022 lets a transfer pass  *)
(* only if the hook does, which asks for a whitelisted source or           *)
(* destination.  One authority fills the whitelist and registers the       *)
(* mints; it can be handed over and, for ever, be burned.                  *)
(*                                                                         *)
(* A whitelist entry is an account at an address derived from the token    *)
(* account: it exists or not, and nothing ever closes it.  Balances are    *)
(* Token-2022's; its transfers and the account resolution are external.    *)
(***************************************************************************)
EXTENDS Naturals

CONSTANTS
  Keys,
  upgrade_authority,   \* of the hook program and of the conversion vault
  Accounts, Mints,
  mint_of, owner_of,   \* of a token account
  HookedMints,         \* mints whose extension names this program
  Addresses,           \* what the authority may try to whitelist
  Genesis              \* the balances before the first transfer

Absent == "absent"     \* the authority's account does not exist yet
Burned == "burned"
default_address == "default"   \* and the system program

ASSUME HookAssumption ==
  /\ upgrade_authority \in Keys
  /\ {Absent, Burned, default_address} \cap Keys = {}
  /\ mint_of \in [Accounts -> Mints]
  /\ HookedMints \subseteq Mints
  /\ Genesis \in [Accounts -> Nat]

VARIABLES
  authority, whitelist,   \* WhitelistAuthority, and the WhitelistEntry accounts
  meta_lists,             \* mints with an ExtraAccountMetaList
  balance                 \* token balances

hookVars == <<authority, whitelist, meta_lists>>
allHookVars == <<hookVars, balance>>

is_whitelisted(account) == account \in whitelist

transfer_hook_of_destination(source, destination, amount) ==        \* mutant
  amount > 0 /\ is_whitelisted(destination)
\* What the hook asks of a transfer that Token-2022 is making.
transfer_hook(source, destination, amount) ==
  /\ amount > 0
  /\ is_whitelisted(source) \/ is_whitelisted(destination)

\* Token-2022 accepts a transfer from these balances, signatures aside.
transferable(held, source, destination, amount) ==
  /\ mint_of[source] = mint_of[destination]
  /\ mint_of[source] \in meta_lists
  /\ amount <= held[source]
  /\ transfer_hook(source, destination, amount)

\* The balances after it; a transfer to the same account moves nothing.
transferred(held, source, destination, amount) ==
  IF source = destination THEN held
  ELSE [held EXCEPT ![source] = @ - amount, ![destination] = @ + amount]

------------------------------------------------------------------------------
HookInit ==
  /\ authority = Absent
  /\ whitelist = {} /\ meta_lists = {}
  /\ balance = Genesis

initialize_authority(signer) ==
  /\ signer = upgrade_authority
  /\ authority = Absent
  /\ authority' = signer
  /\ UNCHANGED <<whitelist, meta_lists, balance>>

add_whitelist_entry(signer, address) ==
  /\ authority = signer
  /\ address # default_address
  /\ address \notin whitelist
  /\ whitelist' = whitelist \cup {address}
  /\ UNCHANGED <<authority, meta_lists, balance>>

initialize_extra_account_meta_list(signer, mint) ==
  /\ authority = signer
  /\ mint \in HookedMints
  /\ mint \notin meta_lists
  /\ meta_lists' = meta_lists \cup {mint}
  /\ UNCHANGED <<authority, whitelist, balance>>

transfer_authority_unsigned(signer, new_authority) ==               \* mutant
  /\ new_authority # default_address
  /\ authority # Absent
  /\ authority' = new_authority
  /\ UNCHANGED <<whitelist, meta_lists, balance>>
transfer_authority(signer, new_authority) ==
  /\ new_authority # default_address
  /\ authority = signer
  /\ authority' = new_authority
  /\ UNCHANGED <<whitelist, meta_lists, balance>>

\* Burning again is accepted, from anybody, and does nothing.
burn_authority(signer) ==
  /\ authority # Absent
  /\ authority \in {Burned, signer}
  /\ authority' = Burned
  /\ UNCHANGED <<whitelist, meta_lists, balance>>

\* A holder's transfer, of a wallet or of a pool.
Transfer(source, destination, amount) ==
  /\ owner_of[source] \in Keys
  /\ transferable(balance, source, destination, amount)
  /\ balance' = transferred(balance, source, destination, amount)
  /\ UNCHANGED hookVars

\* What the authority may do, or pretend to.
HookAdmin ==
  \E signer \in Keys :
    \/ initialize_authority(signer)
    \/ \E address \in Addresses : add_whitelist_entry(signer, address)
    \/ \E mint \in Mints : initialize_extra_account_meta_list(signer, mint)
    \/ \E new_authority \in Keys \cup {default_address} :
         transfer_authority(signer, new_authority)
    \/ burn_authority(signer)

HookNext ==
  \/ HookAdmin
  \/ \E source, destination \in Accounts :
       \E amount \in 0..balance[source] : Transfer(source, destination, amount)

HookSpec == HookInit /\ [][HookNext]_allHookVars

------------------------------------------------------------------------------
(* Properties *)

\* Every field keeps its type.
HookTypeOK ==
  /\ authority \in Keys \cup {Absent, Burned}
  /\ whitelist \subseteq Addresses \ {default_address}
  /\ meta_lists \subseteq HookedMints
  /\ balance \in [Accounts -> Nat]

\* Once burned, by whomever the authority had been handed to, the hook is what
\* it is for ever: the authority stays burned, no entry and no mint is added.
\* Before that, entries and mints are only ever added, so a transfer that passed
\* the hook always will.
WhitelistFinal ==
  [][/\ authority = Burned => UNCHANGED hookVars
     /\ whitelist \subseteq whitelist' /\ meta_lists \subseteq meta_lists']_allHookVars

\* Two accounts off the whitelist never deal with each other: in no step, however
\* many transfers it makes, does one of them lose and another one of the same
\* mint gain.
NoPeerTransfer ==
  [][\A a, b \in Accounts :
       /\ mint_of[a] = mint_of[b]
       /\ balance'[a] < balance[a] /\ balance'[b] > balance[b]
       => is_whitelisted(a) \/ is_whitelisted(b)]_allHookVars

==============================================================================
