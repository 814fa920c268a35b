------------------------- MODULE ConversionVault_proofs -------------------------
(***************************************************************************)
(* What the transfer hook and the conversion vault promise for any tokens  *)
(* accounts, rate, supply and whitelist.  The argument about the vault is  *)
(* the worth of its three accounts in units of the faction tokens: a       *)
(* transfer moves worth, and a conversion takes at least what it pays.     *)
(***************************************************************************)
EXTENDS ConversionVault, IndexedSum_proofs

------------------------------------------------------------------------------
(* The hook *)

\* A transfer that Token-2022 accepts keeps the balances' type.
LEMMA TransferTypes ==
  ASSUME NEW held \in [Accounts -> Nat], NEW s \in Accounts, NEW d \in Accounts,
         NEW amount \in Nat, transferable(held, s, d, amount)
  PROVE  transferred(held, s, d, amount) \in [Accounts -> Nat]
<1>1. amount <= held[s]
  BY DEF transferable
<1>2. CASE s = d
  BY <1>2 DEF transferred
<1>3. CASE s # d
  <2>1. [held EXCEPT ![s] = @ - amount] \in [Accounts -> Nat]
    BY <1>1
  <2> QED  BY <1>3, <2>1 DEF transferred
<1> QED  BY <1>2, <1>3

\* The authority's actions leave the balances alone, add to the lists, and keep
\* their types.
LEMMA AdminSteps ==
  ASSUME HookTypeOK, HookAdmin
  PROVE  /\ HookTypeOK'
         /\ balance' = balance
         /\ whitelist \subseteq whitelist' /\ meta_lists \subseteq meta_lists'
         /\ authority = Burned => UNCHANGED hookVars
<1> USE HookAssumption
<1>1. PICK signer \in Keys :
        \/ initialize_authority(signer)
        \/ \E address \in Addresses : add_whitelist_entry(signer, address)
        \/ \E mint \in Mints : initialize_extra_account_meta_list(signer, mint)
        \/ \E new_authority \in Keys \cup {default_address} :
             transfer_authority(signer, new_authority)
        \/ burn_authority(signer)
  BY DEF HookAdmin
<1>2. signer # Absent /\ signer # Burned /\ Absent # Burned
  BY DEF Absent, Burned
<1>3. CASE initialize_authority(signer)
  BY <1>2, <1>3 DEF initialize_authority, HookTypeOK, hookVars
<1>4. ASSUME NEW address \in Addresses, add_whitelist_entry(signer, address)
      PROVE  /\ HookTypeOK' /\ balance' = balance
             /\ whitelist \subseteq whitelist' /\ meta_lists \subseteq meta_lists'
             /\ authority # Burned
  BY <1>2, <1>4 DEF add_whitelist_entry, HookTypeOK
<1>5. ASSUME NEW mint \in Mints, initialize_extra_account_meta_list(signer, mint)
      PROVE  /\ HookTypeOK' /\ balance' = balance
             /\ whitelist \subseteq whitelist' /\ meta_lists \subseteq meta_lists'
             /\ authority # Burned
  BY <1>2, <1>5 DEF initialize_extra_account_meta_list, HookTypeOK
<1>6. ASSUME NEW new_authority \in Keys \cup {default_address},
             transfer_authority(signer, new_authority)
      PROVE  /\ HookTypeOK' /\ balance' = balance
             /\ whitelist \subseteq whitelist' /\ meta_lists \subseteq meta_lists'
             /\ authority # Burned
  BY <1>2, <1>6 DEF transfer_authority, HookTypeOK
<1>7. CASE burn_authority(signer)
  BY <1>7 DEF burn_authority, HookTypeOK, hookVars
<1> QED  BY <1>1, <1>3, <1>4, <1>5, <1>6, <1>7

\* A holder's transfer changes balances only, and keeps their type.
LEMMA TransferSteps ==
  ASSUME HookTypeOK, NEW s \in Accounts, NEW d \in Accounts, NEW amount \in Nat,
         Transfer(s, d, amount)
  PROVE  HookTypeOK' /\ UNCHANGED hookVars
<1>1. balance' \in [Accounts -> Nat]
  BY TransferTypes DEF HookTypeOK, Transfer
<1> QED  BY <1>1 DEF Transfer, HookTypeOK, hookVars

\* A step of the hook's own specification is the authority's, or a transfer.
LEMMA HookSteps ==
  ASSUME HookTypeOK, HookNext
  PROVE  \/ HookAdmin
         \/ \E s, d \in Accounts : \E amount \in Nat : Transfer(s, d, amount)
  BY DEF HookNext, HookTypeOK

\* Types of the hook's accounts and of the balances, in every run of the hook:
\* among them, that the default address is never whitelisted nor an authority.
THEOREM HookTypeCorrect == HookSpec => []HookTypeOK
<1>1. HookInit => HookTypeOK
  BY HookAssumption DEF HookInit, HookTypeOK
<1>2. HookTypeOK /\ [HookNext]_allHookVars => HookTypeOK'
  <2> SUFFICES ASSUME HookTypeOK, [HookNext]_allHookVars PROVE HookTypeOK'
    OBVIOUS
  <2>1. CASE HookNext
    BY <2>1, HookSteps, AdminSteps, TransferSteps
  <2>2. CASE UNCHANGED allHookVars
    BY <2>2 DEF allHookVars, hookVars, HookTypeOK
  <2> QED  BY <2>1, <2>2
<1> QED  BY <1>1, <1>2, PTL DEF HookSpec

\* Burning is final, and before it the lists only grow.
THEOREM BurnIsFinal == HookSpec => WhitelistFinal
<1> DEFINE Final == /\ authority = Burned => UNCHANGED hookVars
                    /\ whitelist \subseteq whitelist' /\ meta_lists \subseteq meta_lists'
<1>1. HookTypeOK /\ [HookNext]_allHookVars => [Final]_allHookVars
  <2> SUFFICES ASSUME HookTypeOK, HookNext PROVE Final
    OBVIOUS
  <2>1. CASE HookAdmin
    BY <2>1, AdminSteps
  <2>2. ASSUME NEW s \in Accounts, NEW d \in Accounts, NEW amount \in Nat,
               Transfer(s, d, amount)
        PROVE  Final
    BY <2>2, TransferSteps DEF hookVars
  <2> QED  BY <2>1, <2>2, HookSteps
<1> QED  BY <1>1, HookTypeCorrect, PTL DEF HookSpec, WhitelistFinal

\* A transfer takes from its source only and gives to its destination only.
LEMMA TransferMoves ==
  ASSUME NEW held \in [Accounts -> Nat], NEW s \in Accounts, NEW d \in Accounts,
         NEW amount \in Nat, NEW a \in Accounts
  PROVE  /\ transferred(held, s, d, amount)[a] < held[a] => a = s
         /\ transferred(held, s, d, amount)[a] > held[a] => a = d
  BY DEF transferred

\* No transfer between two accounts off the whitelist.
THEOREM PeersNeverDeal == HookSpec => NoPeerTransfer
<1> DEFINE Apart == \A a, b \in Accounts :
                      /\ mint_of[a] = mint_of[b]
                      /\ balance'[a] < balance[a] /\ balance'[b] > balance[b]
                      => is_whitelisted(a) \/ is_whitelisted(b)
<1>1. HookTypeOK /\ [HookNext]_allHookVars => [Apart]_allHookVars
  <2> SUFFICES ASSUME HookTypeOK, HookNext PROVE Apart
    OBVIOUS
  <2>1. CASE HookAdmin
    BY <2>1, AdminSteps DEF HookTypeOK
  <2>2. ASSUME NEW s \in Accounts, NEW d \in Accounts, NEW amount \in Nat,
               Transfer(s, d, amount)
        PROVE  Apart
    <3>1. is_whitelisted(s) \/ is_whitelisted(d)
      BY <2>2 DEF Transfer, transferable, transfer_hook
    <3>2. balance' = transferred(balance, s, d, amount)
      BY <2>2 DEF Transfer
    <3> QED  BY <3>1, <3>2, TransferMoves DEF HookTypeOK
  <2> QED  BY <2>1, <2>2, HookSteps
<1> QED  BY <1>1, HookTypeCorrect, PTL DEF HookSpec, NoPeerTransfer

------------------------------------------------------------------------------
(* The vault *)

\* The worth of the vault's accounts, for any balances, and an account's part of it.
worth_of(held) ==
  held["vault_crime"] + held["vault_fraud"] + CONVERSION_RATE * held["vault_profit"]
part(account, amount) ==
  IF account \in VaultAccounts THEN worth(mint_of[account], amount) ELSE 0

\* The vault's accounts, by mint.
LEMMA VaultMints ==
  /\ VaultAccounts \subseteq Accounts
  /\ mint_of["vault_crime"] = "CRIME" /\ mint_of["vault_fraud"] = "FRAUD"
  /\ mint_of["vault_profit"] = "PROFIT"
  /\ \A m \in Mints : /\ VaultOf[m] \in VaultAccounts /\ mint_of[VaultOf[m]] = m
                       /\ worth(m, 0) = 0
                       /\ \A n \in Nat : worth(m, n) \in Nat
  /\ \A a \in Accounts : mint_of[a] \in Mints
BY HookAssumption, VaultAssumption DEF VaultAccounts, VaultOf, Factions, PROFIT, worth

\* A transfer takes its worth from the source and gives it to the destination.
LEMMA WorthMoves ==
  ASSUME NEW held \in [Accounts -> Nat], NEW s \in Accounts, NEW d \in Accounts,
         NEW amount \in Nat, mint_of[s] = mint_of[d], amount <= held[s]
  PROVE  worth_of(transferred(held, s, d, amount))
           = worth_of(held) - part(s, amount) + part(d, amount)
<1> DEFINE R == CONVERSION_RATE
           p == held["vault_profit"]
<1>1. /\ R \in Nat /\ "vault_crime" \in Accounts /\ "vault_fraud" \in Accounts
      /\ "vault_profit" \in Accounts
  BY VaultAssumption, VaultMints DEF VaultAccounts
<1>2. /\ R * (p + amount) = R * p + R * amount /\ R * (p - amount) = R * p - R * amount
      /\ R * p \in Nat /\ R * amount \in Nat
  BY <1>1
<1> HIDE DEF R
<1>3. CASE s = d
  BY <1>1, <1>2, <1>3 DEF transferred, worth_of, part, worth, R
<1>4. CASE s # d
  <2> DEFINE after == [held EXCEPT ![s] = @ - amount, ![d] = @ + amount]
  <2>1. transferred(held, s, d, amount) = after
    BY <1>4 DEF transferred
  <2>2. after[s] = held[s] - amount /\ after[d] = held[d] + amount
    BY <1>4
  <2>3. \A a \in Accounts : a # s /\ a # d => after[a] = held[a]
    OBVIOUS
  <2> HIDE DEF after
  <2>4. worth_of(after) = after["vault_crime"] + after["vault_fraud"]
                            + R * after["vault_profit"]
    BY DEF worth_of, R
  <2>5. worth_of(held) = held["vault_crime"] + held["vault_fraud"] + R * p
    BY DEF worth_of, R
  <2>6. \A a \in Accounts : part(a, amount) =
          IF a = "vault_profit" THEN R * amount
          ELSE IF a \in {"vault_crime", "vault_fraud"} THEN amount ELSE 0
    BY VaultMints DEF part, worth, VaultAccounts, PROFIT, R
  <2>7. s \in VaultAccounts /\ d \in VaultAccounts => FALSE
    BY <1>4, VaultMints DEF VaultAccounts
  <2>8. CASE s \in VaultAccounts
    <3>1. part(d, amount) = 0
      BY <2>7, <2>8 DEF part
    <3>2. CASE s = "vault_crime"
      BY <1>1, <1>2, <2>1, <2>2, <2>3, <2>4, <2>5, <2>6, <2>7, <2>8, <3>1, <3>2 DEF VaultAccounts
    <3>3. CASE s = "vault_fraud"
      BY <1>1, <1>2, <2>1, <2>2, <2>3, <2>4, <2>5, <2>6, <2>7, <2>8, <3>1, <3>3 DEF VaultAccounts
    <3>4. CASE s = "vault_profit"
      BY <1>1, <1>2, <2>1, <2>2, <2>3, <2>4, <2>5, <2>6, <2>7, <2>8, <3>1, <3>4 DEF VaultAccounts
    <3> QED  BY <2>8, <3>2, <3>3, <3>4 DEF VaultAccounts
  <2>9. CASE s \notin VaultAccounts
    <3>1. part(s, amount) = 0
      BY <2>9 DEF part
    <3>2. CASE d = "vault_crime"
      BY <1>1, <1>2, <2>1, <2>2, <2>3, <2>4, <2>5, <2>6, <2>9, <3>1, <3>2 DEF VaultAccounts
    <3>3. CASE d = "vault_fraud"
      BY <1>1, <1>2, <2>1, <2>2, <2>3, <2>4, <2>5, <2>6, <2>9, <3>1, <3>3 DEF VaultAccounts
    <3>4. CASE d = "vault_profit"
      BY <1>1, <1>2, <2>1, <2>2, <2>3, <2>4, <2>5, <2>6, <2>9, <3>1, <3>4 DEF VaultAccounts
    <3>5. CASE d \notin VaultAccounts
      BY <1>1, <1>2, <2>1, <2>3, <2>4, <2>5, <2>6, <2>9, <3>1, <3>5 DEF VaultAccounts
    <3> QED  BY <3>2, <3>3, <3>4, <3>5 DEF VaultAccounts
  <2> QED  BY <2>8, <2>9
<1> QED  BY <1>3, <1>4

\* A conversion pays at most what it takes, and less than one PROFIT's worth less.
LEMMA OutputWorth ==
  ASSUME NEW input \in Mints, NEW output \in Mints, valid_pair(input, output),
         NEW amount \in Nat
  PROVE  /\ compute_output(input, amount) \in Nat
         /\ worth(output, compute_output(input, amount)) <= worth(input, amount)
         /\ worth(input, amount)
              <= worth(output, compute_output(input, amount)) + (CONVERSION_RATE - 1)
<1> DEFINE R == CONVERSION_RATE
           q == amount \div R
<1>1. R \in Nat \ {0}
  BY VaultAssumption
<1>2. q \in Nat /\ R * q <= amount /\ amount < R * q + R
  BY <1>1
<1>3. amount * R \in Nat /\ amount * R = R * amount
  BY <1>1
<1> HIDE DEF R, q
<1>4. CASE input \in Factions /\ output = PROFIT
  <2>1. compute_output(input, amount) = q /\ worth(input, amount) = amount
        /\ worth(output, q) = R * q
    BY <1>4 DEF compute_output, worth, Factions, PROFIT, R, q
  <2>2. R * q \in Nat
    BY <1>1, <1>2
  <2> QED  BY <1>1, <1>2, <2>1, <2>2 DEF R
<1>5. CASE input = PROFIT /\ output \in Factions
  <2>1. compute_output(input, amount) = amount * R /\ worth(input, amount) = R * amount
        /\ worth(output, amount * R) = amount * R
    BY <1>5 DEF compute_output, worth, Factions, PROFIT, R
  <2> QED  BY <1>1, <1>3, <2>1 DEF R
<1> QED  BY <1>4, <1>5 DEF valid_pair

\* A conversion from any balances keeps their type; the vault's worth grows by
\* what the output returned to it, and by less than one PROFIT's worth.
LEMMA ExchangeKeeps ==
  ASSUME NEW held \in [Accounts -> Nat], NEW ui \in Accounts, NEW uo \in Accounts,
         NEW amount \in Nat, ui \notin VaultAccounts, exchangeable(held, ui, uo, amount)
  PROVE  /\ exchanged(held, ui, uo, amount) \in [Accounts -> Nat]
         /\ returned(ui, uo, amount) \in Nat
         /\ worth_of(held) + returned(ui, uo, amount)
              <= worth_of(exchanged(held, ui, uo, amount))
         /\ worth_of(exchanged(held, ui, uo, amount))
              <= worth_of(held) + returned(ui, uo, amount) + (CONVERSION_RATE - 1)
<1> DEFINE input  == mint_of[ui]
           output == mint_of[uo]
           out    == compute_output(input, amount)
           paid   == transferred(held, ui, VaultOf[input], amount)
           after  == transferred(paid, VaultOf[output], uo, out)
<1>1. /\ input \in Mints /\ output \in Mints
      /\ VaultOf[input] \in VaultAccounts /\ VaultOf[output] \in VaultAccounts
      /\ mint_of[VaultOf[input]] = input /\ mint_of[VaultOf[output]] = output
      /\ VaultAccounts \subseteq Accounts
  BY VaultMints
<1>2. /\ valid_pair(input, output)
      /\ transferable(held, ui, VaultOf[input], amount)
      /\ transferable(paid, VaultOf[output], uo, out)
  BY DEF exchangeable
<1>3. /\ out \in Nat /\ worth(output, out) <= worth(input, amount)
      /\ worth(input, amount) <= worth(output, out) + (CONVERSION_RATE - 1)
      /\ worth(output, out) \in Nat /\ worth(input, amount) \in Nat
  BY <1>1, <1>2, OutputWorth, VaultMints
<1>4. exchanged(held, ui, uo, amount) = after
  BY DEF exchanged
<1>5. paid \in [Accounts -> Nat]
  BY <1>1, <1>2, TransferTypes
<1>6. worth_of(paid) = worth_of(held) - part(ui, amount) + part(VaultOf[input], amount)
  BY <1>1, <1>2, WorthMoves DEF transferable
<1>7. part(ui, amount) = 0 /\ part(VaultOf[input], amount) = worth(input, amount)
  BY <1>1 DEF part
<1> HIDE DEF out, paid
<1>8. after \in [Accounts -> Nat]
  BY <1>1, <1>2, <1>3, <1>5, TransferTypes
<1>9. worth_of(after) = worth_of(paid) - part(VaultOf[output], out) + part(uo, out)
  BY <1>1, <1>2, <1>3, <1>5, WorthMoves DEF transferable
<1>10. part(VaultOf[output], out) = worth(output, out)
       /\ part(uo, out) = returned(ui, uo, amount)
  BY <1>1 DEF part, returned, out
<1>11. part(uo, out) \in Nat
  BY <1>1, <1>3, VaultMints DEF part
<1>12. worth_of(held) \in Nat
  BY VaultAssumption DEF worth_of, VaultAccounts
<1>13. CONVERSION_RATE \in Nat
  BY VaultAssumption
<1> HIDE DEF after
<1> QED  BY <1>3, <1>4, <1>6, <1>7, <1>8, <1>9, <1>10, <1>11, <1>12, <1>13

------------------------------------------------------------------------------
\* The note is of an account of a holder.
NoteOwned ==
  note = NoNote \/ (note.account \in Accounts /\ owner_of[note.account] \in Keys)

VaultInv == VaultTypeOK /\ WorthKept /\ NoteOwned

\* The whole of WorthKept, by the parts of a step.
LEMMA WorthSteps ==
  ASSUME VaultTypeOK, WorthKept, NEW given \in Nat, NEW n \in {0, 1},
         balance' \in [Accounts -> Nat],
         contributed' = contributed + given, conversions' = conversions + n,
         migrated' = migrated,
         worth_of(balance) + given <= worth_of(balance'),
         worth_of(balance') <= worth_of(balance) + given + n * (CONVERSION_RATE - 1)
  PROVE  WorthKept'
<1> DEFINE R == CONVERSION_RATE
           x == CONVERSION_RATE * extracted
           V == worth_of(balance)
           W == worth_of(balance')
<1>1. R - 1 \in Nat /\ R \in Nat /\ conversions \in Nat /\ contributed \in Nat
  BY VaultAssumption DEF VaultTypeOK
<1>2. x \in Nat /\ extracted' = extracted
  BY <1>1, VaultAssumption DEF extracted
<1>3. vault_worth = V /\ vault_worth' = W
  BY DEF vault_worth, worth_of
<1>4. V \in Nat /\ W \in Nat
  <2>1. balance \in [Accounts -> Nat] /\ balance' \in [Accounts -> Nat]
    BY DEF VaultTypeOK, HookTypeOK
  <2>2. \A held \in [Accounts -> Nat] : worth_of(held) \in Nat
    BY VaultAssumption DEF worth_of, VaultAccounts
  <2> QED  BY <2>1, <2>2
<1>5. (R - 1) * (conversions + n) = (R - 1) * conversions + n * (R - 1)
      /\ (R - 1) * conversions \in Nat /\ n * (R - 1) \in Nat
  BY <1>1
<1>6. contributed <= V + x /\ V + x <= contributed + (R - 1) * conversions
  BY <1>3 DEF WorthKept
<1> HIDE DEF V, W, x, R
<1>7. contributed' <= W + x
  BY <1>1, <1>2, <1>4, <1>6 DEF V, W
<1>8. W + x <= contributed' + (R - 1) * conversions'
  BY <1>1, <1>2, <1>4, <1>5, <1>6 DEF V, W, R
<1>9. (CONVERSION_RATE * extracted)' = x
  BY <1>2 DEF x
<1> QED  BY <1>3, <1>7, <1>8, <1>9 DEF WorthKept, R

\* The step that convert, convert_v2 and a route share, from the vault's worth.
LEMMA ExchangeSteps ==
  ASSUME VaultInv, NEW held \in [Accounts -> Nat], worth_of(held) = worth_of(balance),
         NEW ui \in Accounts, NEW uo \in Accounts, NEW amount \in Int,
         ui \notin VaultAccounts, exchange(held, ui, uo, amount),
         note' \in {note, NoNote}
  PROVE  VaultInv'
<1>1. amount \in Nat /\ exchangeable(held, ui, uo, amount)
  BY DEF exchange, exchangeable
<1>2. balance' = exchanged(held, ui, uo, amount)
  BY DEF exchange
<1>3. /\ balance' \in [Accounts -> Nat] /\ returned(ui, uo, amount) \in Nat
      /\ worth_of(balance) + returned(ui, uo, amount) <= worth_of(balance')
      /\ worth_of(balance')
           <= worth_of(balance) + returned(ui, uo, amount) + (CONVERSION_RATE - 1)
  BY <1>1, <1>2, ExchangeKeeps
<1>4. HookTypeOK'
  BY <1>3 DEF exchange, hookVars, HookTypeOK, VaultInv, VaultTypeOK
<1>5. VaultTypeOK'
  BY <1>3, <1>4 DEF exchange, VaultInv, VaultTypeOK, NoNote
<1>6. WorthKept'
  <2>1. 1 * (CONVERSION_RATE - 1) = CONVERSION_RATE - 1
    BY VaultAssumption
  <2>2. contributed' = contributed + returned(ui, uo, amount)
        /\ conversions' = conversions + 1 /\ migrated' = migrated
    BY DEF exchange
  <2> QED  BY <1>3, <2>1, <2>2, WorthSteps DEF VaultInv
<1>7. NoteOwned'
  BY DEF VaultInv, NoteOwned
<1> QED  BY <1>5, <1>6, <1>7 DEF VaultInv

\* A step that moves no tokens and changes neither count nor sentinel.
LEMMA QuietSteps ==
  ASSUME VaultInv, UNCHANGED <<balance, contributed, conversions, migrated>>
  PROVE  WorthKept'
<1>1. worth_of(balance') = worth_of(balance) /\ worth_of(balance) \in Nat
      /\ balance' \in [Accounts -> Nat]
  BY VaultAssumption DEF worth_of, VaultInv, VaultTypeOK, HookTypeOK, VaultAccounts
<1>2. contributed' = contributed + 0 /\ conversions' = conversions + 0
      /\ 0 * (CONVERSION_RATE - 1) = 0
  BY VaultAssumption DEF VaultInv, VaultTypeOK
<1> QED  BY <1>1, <1>2, WorthSteps DEF VaultInv

\* Holders' accounts are not the vault's.
LEMMA HoldersApart ==
  ASSUME NEW a \in Accounts, owner_of[a] \in Keys
  PROVE  a \notin VaultAccounts
BY VaultAssumption

\* A conversion keeps the invariant, in either instruction.
LEMMA ConversionSteps ==
  ASSUME VaultInv, NEW ui \in Accounts, NEW uo \in Accounts, Conversion(ui, uo)
  PROVE  VaultInv'
<1>1. balance \in [Accounts -> Nat]
  BY DEF VaultInv, VaultTypeOK, HookTypeOK
<1>2. owner_of[ui] \in Keys /\ ui \notin VaultAccounts
  BY HoldersApart DEF Conversion
<1>3. ASSUME NEW amount_in \in 1..balance[ui], convert(owner_of[ui], ui, uo, amount_in)
      PROVE  VaultInv'
  BY <1>1, <1>2, <1>3, ExchangeSteps DEF convert
<1>4. ASSUME NEW amount_in \in {0, 1}, NEW minimum_output \in {0, 1},
             NEW pre_balance \in 0..balance[ui],
             convert_v2(owner_of[ui], ui, uo, amount_in, minimum_output, pre_balance)
      PROVE  VaultInv'
  <2> DEFINE amount == effective_amount(balance, ui, amount_in, pre_balance)
  <2>1. amount \in Int
    BY <1>1 DEF effective_amount
  <2>2. exchange(balance, ui, uo, amount) /\ note' = note
    BY <1>4 DEF convert_v2
  <2> HIDE DEF amount
  <2> QED  BY <1>1, <1>2, <2>1, <2>2, ExchangeSteps
<1> QED  BY <1>3, <1>4 DEF Conversion

\* The balances a route converts from, and what it converts.
LEMMA RouteFacts ==
  ASSUME VaultInv, NEW source \in Accounts, NEW uo \in Accounts, NEW deposit \in Nat,
         NEW minimum_output \in {0, 1}, Route(source, uo, deposit, minimum_output)
  PROVE  LET a      == note.account
             held   == transferred(balance, source, a, deposit)
             amount == effective_amount(held, a, 0, note.balance)
         IN  /\ a \in Accounts /\ a \notin VaultAccounts
             /\ held \in [Accounts -> Nat] /\ worth_of(held) = worth_of(balance)
             /\ amount \in Nat /\ amount = held[a] - note.balance
             /\ valid_pair(mint_of[a], mint_of[uo])
             /\ exchange(held, a, uo, amount)
<1> DEFINE a    == note.account
           held == transferred(balance, source, a, deposit)
<1>1. note # NoNote /\ owner_of[source] \in Keys /\ transferable(balance, source, a, deposit)
      /\ held[a] >= note.balance /\ valid_pair(mint_of[a], mint_of[uo])
      /\ exchange(held, a, uo, effective_amount(held, a, 0, note.balance))
  BY DEF Route
<1>2. a \in Accounts /\ owner_of[a] \in Keys
  BY <1>1 DEF VaultInv, NoteOwned
<1>3. a \notin VaultAccounts /\ source \notin VaultAccounts
  BY <1>1, <1>2, HoldersApart
<1>4. balance \in [Accounts -> Nat] /\ note.balance \in Nat
  BY DEF VaultInv, VaultTypeOK, HookTypeOK
<1>5. held \in [Accounts -> Nat]
  BY <1>1, <1>2, <1>4, TransferTypes
<1>6. worth_of(held) = worth_of(balance) - part(source, deposit) + part(a, deposit)
  BY <1>1, <1>2, <1>4, WorthMoves DEF transferable
<1>7. part(source, deposit) = 0 /\ part(a, deposit) = 0
  BY <1>3 DEF part
<1>8. worth_of(balance) \in Nat
  BY <1>4, VaultAssumption DEF worth_of, VaultAccounts
<1> HIDE DEF held
<1>9. effective_amount(held, a, 0, note.balance) = held[a] - note.balance
  BY DEF effective_amount
<1>10. held[a] - note.balance \in Nat
  BY <1>1, <1>2, <1>4, <1>5
<1> QED  BY <1>1, <1>2, <1>3, <1>5, <1>6, <1>7, <1>8, <1>9, <1>10 DEF held

\* A route keeps the invariant.
LEMMA RouteSteps ==
  ASSUME VaultInv, NEW source \in Accounts, NEW uo \in Accounts, NEW deposit \in Nat,
         NEW minimum_output \in {0, 1}, Route(source, uo, deposit, minimum_output)
  PROVE  VaultInv'
<1> DEFINE held   == transferred(balance, source, note.account, deposit)
           amount == effective_amount(held, note.account, 0, note.balance)
<1>1. /\ note.account \in Accounts /\ note.account \notin VaultAccounts
      /\ held \in [Accounts -> Nat] /\ worth_of(held) = worth_of(balance)
      /\ amount \in Nat /\ exchange(held, note.account, uo, amount)
  BY RouteFacts
<1>2. note' = NoNote
  BY DEF Route
<1> HIDE DEF held, amount
<1> QED  BY <1>1, <1>2, ExchangeSteps

\* A holder's transfer keeps the invariant.
LEMMA HolderSteps ==
  ASSUME VaultInv, NEW s \in Accounts, NEW d \in Accounts, NEW amount \in Nat,
         HolderTransfer(s, d, amount)
  PROVE  VaultInv'
<1> DEFINE given == part(d, amount)
<1>1. Transfer(s, d, amount) /\ owner_of[s] \in Keys
      /\ transferable(balance, s, d, amount) /\ balance' = transferred(balance, s, d, amount)
  BY DEF HolderTransfer, Transfer
<1>2. HookTypeOK /\ HookTypeOK'
  BY <1>1, TransferSteps DEF VaultInv, VaultTypeOK
<1>3. mint_of[s] = mint_of[d] /\ amount <= balance[s]
  BY <1>1 DEF transferable
<1>4. worth_of(balance') = worth_of(balance) - part(s, amount) + given
  BY <1>1, <1>2, <1>3, WorthMoves DEF HookTypeOK
<1>5. part(s, amount) = 0 /\ given \in Nat
  BY <1>1, HoldersApart, VaultMints DEF part
<1>6. contributed' = contributed + given
  BY <1>3 DEF HolderTransfer, part
<1>7. worth_of(balance) \in Nat /\ balance' \in [Accounts -> Nat]
  BY <1>2, VaultAssumption DEF worth_of, VaultAccounts, HookTypeOK
<1>8. conversions' = conversions + 0 /\ 0 * (CONVERSION_RATE - 1) = 0
      /\ migrated' = migrated
  BY VaultAssumption DEF HolderTransfer, VaultInv, VaultTypeOK
<1> HIDE DEF given
<1>9. WorthKept'
  BY <1>4, <1>5, <1>6, <1>7, <1>8, WorthSteps DEF VaultInv
<1>10. VaultTypeOK'
  BY <1>2, <1>5, <1>6 DEF HolderTransfer, VaultInv, VaultTypeOK
<1>11. NoteOwned'
  BY DEF HolderTransfer, VaultInv, NoteOwned
<1> QED  BY <1>9, <1>10, <1>11 DEF VaultInv

\* The extraction is the one withdrawal.
LEMMA ExtractSteps ==
  ASSUME VaultInv, NEW key \in Keys, extract_profit(key)
  PROVE  VaultInv'
<1> DEFINE R == CONVERSION_RATE
           e == EXTRACT_AMOUNT_RAW
           V == worth_of(balance)
<1>1. /\ ~migrated /\ migrated' = TRUE
      /\ transferable(balance, "vault_profit", destination_ata, e)
      /\ balance' = transferred(balance, "vault_profit", destination_ata, e)
      /\ contributed' = contributed /\ conversions' = conversions
  BY DEF extract_profit, VaultOf, PROFIT
<1>2. /\ "vault_profit" \in Accounts /\ destination_ata \in Accounts \ VaultAccounts
      /\ e \in Nat /\ R \in Nat /\ balance \in [Accounts -> Nat]
      /\ conversions \in Nat /\ contributed \in Nat
  BY VaultAssumption DEF VaultAccounts, VaultInv, VaultTypeOK, HookTypeOK
<1>3. balance' \in [Accounts -> Nat]
  BY <1>1, <1>2, TransferTypes
<1>4. worth_of(balance') = V - part("vault_profit", e) + part(destination_ata, e)
  BY <1>1, <1>2, WorthMoves DEF transferable
<1>5. part("vault_profit", e) = R * e /\ part(destination_ata, e) = 0
  BY <1>2, VaultMints DEF part, worth, VaultAccounts, PROFIT
<1>6. V \in Nat /\ R * e \in Nat /\ R * 0 = 0
  BY <1>2, VaultAssumption DEF worth_of, VaultAccounts
<1>7. vault_worth = V /\ vault_worth' = worth_of(balance')
  BY DEF vault_worth, worth_of
<1>8. extracted = 0 /\ extracted' = e
  BY <1>1 DEF extracted
<1> HIDE DEF V, R, e
<1>9. vault_worth' + R * e = V
  BY <1>4, <1>5, <1>6, <1>7
<1>10. contributed <= V /\ V <= contributed + (R - 1) * conversions
  BY <1>6, <1>7, <1>8 DEF WorthKept, VaultInv, R
<1>11. WorthKept'
  BY <1>1, <1>8, <1>9, <1>10 DEF WorthKept, R
<1>12. VaultTypeOK'
  BY <1>3 DEF extract_profit, VaultInv, VaultTypeOK, HookTypeOK, hookVars
<1>13. NoteOwned'
  BY DEF extract_profit, VaultInv, NoteOwned
<1> QED  BY <1>11, <1>12, <1>13 DEF VaultInv

\* A step of the vault, by action.
LEMMA VaultSteps ==
  ASSUME VaultInv, VaultNext
  PROVE  VaultInv'
<1>1. balance \in [Accounts -> Nat] /\ HookTypeOK /\ VaultTypeOK /\ NoteOwned
  BY DEF VaultInv, VaultTypeOK, HookTypeOK
<1>2. ASSUME NEW key \in Keys, initialize(key)
      PROVE  VaultInv'
  <2>1. WorthKept'
    BY <1>2, QuietSteps DEF initialize, allHookVars
  <2> QED  BY <1>1, <1>2, <2>1 DEF initialize, allHookVars, hookVars, VaultInv, VaultTypeOK,
                HookTypeOK, NoteOwned
<1>3. ASSUME NEW key \in Keys, extract_profit(key)
      PROVE  VaultInv'
  BY <1>3, ExtractSteps
<1>4. ASSUME NEW ui \in Accounts, NEW uo \in Accounts, Conversion(ui, uo)
      PROVE  VaultInv'
  BY <1>4, ConversionSteps
<1>5. ASSUME NEW account \in Accounts, Note(account)
      PROVE  VaultInv'
  <2>1. WorthKept'
    BY <1>5, QuietSteps DEF Note, allHookVars
  <2>2. VaultTypeOK' /\ NoteOwned'
    BY <1>1, <1>5 DEF Note, allHookVars, hookVars, VaultTypeOK, HookTypeOK, NoteOwned
  <2> QED  BY <2>1, <2>2 DEF VaultInv
<1>6. ASSUME NEW source \in Accounts, NEW uo \in Accounts,
             NEW deposit \in 1..balance[source], NEW minimum_output \in {0, 1},
             Route(source, uo, deposit, minimum_output)
      PROVE  VaultInv'
  <2>1. deposit \in Nat
    OBVIOUS
  <2> QED  BY <1>6, <2>1, RouteSteps
<1>7. ASSUME NEW source \in Accounts, NEW destination \in Accounts,
             NEW amount \in 1..balance[source], HolderTransfer(source, destination, amount)
      PROVE  VaultInv'
  <2>1. amount \in Nat
    OBVIOUS
  <2> QED  BY <1>7, <2>1, HolderSteps
<1>8. CASE HookUpkeep
  <2>1. HookTypeOK' /\ balance' = balance
    BY <1>1, <1>8, AdminSteps DEF HookUpkeep
  <2>2. WorthKept'
    BY <1>8, <2>1, QuietSteps DEF HookUpkeep
  <2>3. VaultTypeOK' /\ NoteOwned'
    BY <1>1, <1>8, <2>1 DEF HookUpkeep, VaultTypeOK, NoteOwned
  <2> QED  BY <2>2, <2>3 DEF VaultInv
<1> QED  BY <1>2, <1>3, <1>4, <1>5, <1>6, <1>7, <1>8 DEF VaultNext

\* The invariant of the vault holds in every run.
THEOREM VaultInvariance == VaultSpec => []VaultInv
<1>1. VaultInit => VaultInv
  <2> SUFFICES ASSUME VaultInit PROVE VaultInv
    OBVIOUS
  <2>1. VaultTypeOK /\ NoteOwned
    BY HookAssumption, VaultAssumption
       DEF VaultInit, VaultTypeOK, HookTypeOK, NoteOwned, NoNote
  <2>2. balance["vault_crime"] = 0 /\ balance["vault_fraud"] = 0 /\ balance["vault_profit"] = 0
        /\ contributed = 0 /\ conversions = 0 /\ extracted = 0
    BY VaultAssumption DEF VaultInit, VaultAccounts, extracted
  <2>3. CONVERSION_RATE * 0 = 0 /\ (CONVERSION_RATE - 1) * 0 = 0
    BY VaultAssumption
  <2>4. WorthKept
    BY <2>2, <2>3 DEF WorthKept, vault_worth
  <2> QED  BY <2>1, <2>4 DEF VaultInv
<1>2. VaultInv /\ [VaultNext]_vaultVars => VaultInv'
  <2> SUFFICES ASSUME VaultInv, [VaultNext]_vaultVars PROVE VaultInv'
    OBVIOUS
  <2>1. CASE VaultNext
    BY <2>1, VaultSteps
  <2>2. CASE UNCHANGED vaultVars
    <3>1. UNCHANGED <<balance, contributed, conversions, migrated, note, vault_initialized,
                      transfers, authority, whitelist, meta_lists>>
      BY <2>2 DEF vaultVars, allHookVars, hookVars
    <3>2. WorthKept'
      BY <3>1, QuietSteps
    <3>3. VaultTypeOK' /\ NoteOwned'
      BY <3>1 DEF VaultInv, VaultTypeOK, HookTypeOK, NoteOwned
    <3> QED  BY <3>2, <3>3 DEF VaultInv
  <2> QED  BY <2>1, <2>2
<1> QED  BY <1>1, <1>2, PTL DEF VaultSpec

\* Types of the vault and of the hook under it, whatever is converted.
THEOREM VaultTypeCorrect == VaultSpec => []VaultTypeOK
<1>1. VaultInv => VaultTypeOK
  BY DEF VaultInv
<1> QED  BY <1>1, VaultInvariance, PTL

\* No order of conversions takes worth out of the vault, at any rate.
THEOREM WorthNeverLost == VaultSpec => []WorthKept
<1>1. VaultInv => WorthKept
  BY DEF VaultInv
<1> QED  BY <1>1, VaultInvariance, PTL

\* What a route leaves its owner is the balance that was read before it.
LEMMA RouteLeaves ==
  ASSUME VaultInv, NEW source \in Accounts, NEW uo \in Accounts, NEW deposit \in Nat,
         NEW minimum_output \in {0, 1}, Route(source, uo, deposit, minimum_output)
  PROVE  balance'[note.account] = note.balance
<1> DEFINE a      == note.account
           held   == transferred(balance, source, a, deposit)
           amount == effective_amount(held, a, 0, note.balance)
           input  == mint_of[a]
           output == mint_of[uo]
           out    == compute_output(input, amount)
           paid   == transferred(held, a, VaultOf[input], amount)
<1>1. /\ a \in Accounts /\ a \notin VaultAccounts
      /\ held \in [Accounts -> Nat]
      /\ amount \in Nat /\ amount = held[a] - note.balance
      /\ valid_pair(input, output) /\ exchange(held, a, uo, amount)
  BY RouteFacts
<1>2. /\ VaultOf[input] \in VaultAccounts /\ VaultOf[output] \in VaultAccounts
      /\ VaultAccounts \subseteq Accounts
  BY <1>1, VaultMints
<1>3. uo # a
  BY <1>1 DEF valid_pair, Factions, PROFIT
<1>4. note.balance \in Nat /\ held[a] \in Nat
  BY <1>1 DEF VaultInv, VaultTypeOK
<1>5. balance' = transferred(paid, VaultOf[output], uo, out)
  BY <1>1 DEF exchange, exchanged
<1>6. VaultOf[input] # a /\ VaultOf[output] # a
  BY <1>1, <1>2
<1> HIDE DEF held, amount, input, output, out
<1>7. paid \in [Accounts -> Int] /\ paid[a] = held[a] - amount
  BY <1>1, <1>2, <1>6 DEF transferred
<1> HIDE DEF paid
<1>8. transferred(paid, VaultOf[output], uo, out)[a] = paid[a]
  BY <1>1, <1>2, <1>3, <1>6, <1>7 DEF transferred
<1> QED  BY <1>1, <1>4, <1>5, <1>7, <1>8

\* A route converts what its owner did not hold when the balance was read.
THEOREM RouteKept == VaultSpec => RouteKeepsHoldings
<1> DEFINE Kept == note # NoNote /\ note' = NoNote => balance'[note.account] = note.balance
<1>1. VaultInv /\ [VaultNext]_vaultVars => [Kept]_vaultVars
  <2> SUFFICES ASSUME VaultInv, VaultNext, note # NoNote, note' = NoNote
               PROVE  balance'[note.account] = note.balance
    OBVIOUS
  <2>1. PICK source \in Accounts, uo \in Accounts :
          \E deposit \in 1..balance[source], minimum_output \in {0, 1} :
            Route(source, uo, deposit, minimum_output)
    BY DEF VaultNext, initialize, extract_profit, Conversion, convert, convert_v2, Note,
           HolderTransfer, HookUpkeep
  <2>2. balance[source] \in Nat
    BY DEF VaultInv, VaultTypeOK, HookTypeOK
  <2>3. PICK deposit \in Nat, minimum_output \in {0, 1} :
          Route(source, uo, deposit, minimum_output)
    BY <2>1, <2>2
  <2> QED  BY <2>3, RouteLeaves
<1> QED  BY <1>1, VaultInvariance, PTL DEF VaultSpec, RouteKeepsHoldings

------------------------------------------------------------------------------
(* Redemption: what the holders of a mint hold together never changes, so     *)
(* what one of them wants redeemed is backed by what the vault does not hold. *)

\* A mint's balances, in the order they are summed in.
LEMMA SummandTypes ==
  ASSUME NEW held, NEW m
  PROVE  /\ NumAccounts \in Nat
         /\ held \in [Accounts -> Nat] => of_mint(held, m) \in [1..NumAccounts -> Nat]
         /\ held \in [Accounts -> Int] => of_mint(held, m) \in [1..NumAccounts -> Int]
BY SupplyAssumption DEF of_mint

\* Every account has its own place in that order.
LEMMA PlaceOf ==
  ASSUME NEW a \in Accounts
  PROVE  \E i \in 1..NumAccounts :
           account_at[i] = a /\ \A j \in 1..NumAccounts : account_at[j] = a => j = i
BY SupplyAssumption

\* Changing one account's balance changes its mint's total by as much.
LEMMA OneAccount ==
  ASSUME NEW held \in [Accounts -> Int], NEW after \in [Accounts -> Int],
         NEW a \in Accounts, NEW m,
         \A b \in Accounts : b # a => after[b] = held[b]
  PROVE  mint_total(after, m)
           = mint_total(held, m) + (IF mint_of[a] = m THEN after[a] - held[a] ELSE 0)
<1> DEFINE f == of_mint(held, m)
           g == of_mint(after, m)
<1>1. NumAccounts \in Nat /\ f \in [1..NumAccounts -> Int] /\ g \in [1..NumAccounts -> Int]
  BY SummandTypes
<1>2. PICK i \in 1..NumAccounts :
        account_at[i] = a /\ \A j \in 1..NumAccounts : account_at[j] = a => j = i
  BY PlaceOf
<1>3. /\ f[i] = IF mint_of[a] = m THEN held[a] ELSE 0
      /\ g[i] = IF mint_of[a] = m THEN after[a] ELSE 0
  BY <1>2 DEF of_mint
<1>4. ASSUME NEW j \in 1..NumAccounts, j # i PROVE g[j] = f[j]
  <2>1. account_at[j] \in Accounts /\ account_at[j] # a
    BY <1>2, <1>4, SupplyAssumption
  <2> QED  BY <2>1 DEF of_mint
<1> HIDE DEF f, g
<1>5. Sum(g, NumAccounts) = Sum(f, NumAccounts) - f[i] + g[i]
  BY <1>1, <1>2, <1>4, SumPointwise
<1>6. Sum(f, NumAccounts) \in Int
  BY <1>1, SumInt
<1>7. mint_total(held, m) = Sum(f, NumAccounts) /\ mint_total(after, m) = Sum(g, NumAccounts)
  BY DEF mint_total, f, g
<1> QED  BY <1>3, <1>5, <1>6, <1>7

\* A mint's total is a natural, and neither one nor two of its accounts hold more.
LEMMA HeldWithin ==
  ASSUME NEW held \in [Accounts -> Nat], NEW m
  PROVE  /\ mint_total(held, m) \in Nat
         /\ \A x \in Accounts : mint_of[x] = m => held[x] <= mint_total(held, m)
         /\ \A x, y \in Accounts : x # y /\ mint_of[x] = m /\ mint_of[y] = m
              => held[x] + held[y] <= mint_total(held, m)
<1>1. ASSUME NEW h \in [Accounts -> Nat]
      PROVE  /\ mint_total(h, m) \in Nat
             /\ \A x \in Accounts : mint_of[x] = m => h[x] <= mint_total(h, m)
  <2> DEFINE f == of_mint(h, m)
  <2>1. NumAccounts \in Nat /\ f \in [1..NumAccounts -> Nat]
    BY SummandTypes
  <2>2. ASSUME NEW x \in Accounts, mint_of[x] = m PROVE h[x] <= mint_total(h, m)
    <3>1. PICK i \in 1..NumAccounts : account_at[i] = x
      BY PlaceOf
    <3>2. f[i] = h[x]
      BY <2>2, <3>1 DEF of_mint
    <3> HIDE DEF f
    <3>3. f[i] <= Sum(f, NumAccounts)
      BY <2>1, SumNat
    <3> QED  BY <3>2, <3>3 DEF mint_total, f
  <2>3. mint_total(h, m) \in Nat
    <3> HIDE DEF f
    <3>1. Sum(f, NumAccounts) \in Nat
      BY <2>1, SumNat
    <3> QED  BY <3>1 DEF mint_total, f
  <2> QED  BY <2>2, <2>3
<1>2. ASSUME NEW x \in Accounts, NEW y \in Accounts, x # y, mint_of[x] = m, mint_of[y] = m
      PROVE  held[x] + held[y] <= mint_total(held, m)
  <2> DEFINE rest == [held EXCEPT ![y] = 0]
  <2>1. rest \in [Accounts -> Nat] /\ rest[x] = held[x] /\ rest[y] = 0
        /\ \A b \in Accounts : b # y => rest[b] = held[b]
    BY <1>2
  <2>2. held \in [Accounts -> Int] /\ rest \in [Accounts -> Int]
    BY <2>1
  <2> HIDE DEF rest
  <2>3. mint_total(rest, m) = mint_total(held, m) + (0 - held[y])
    BY <1>2, <2>1, <2>2, OneAccount
  <2>4. rest[x] <= mint_total(rest, m) /\ mint_total(held, m) \in Nat
    BY <1>1, <1>2, <2>1
  <2> QED  BY <2>1, <2>3, <2>4
<1> QED  BY <1>1, <1>2

\* A transfer keeps every mint's total.
LEMMA TransferConserves ==
  ASSUME NEW held \in [Accounts -> Nat], NEW s \in Accounts, NEW d \in Accounts,
         NEW amount \in Nat, transferable(held, s, d, amount), NEW m
  PROVE  mint_total(transferred(held, s, d, amount), m) = mint_total(held, m)
<1>1. CASE s = d
  BY <1>1 DEF transferred
<1>2. CASE s # d
  <2> DEFINE taken == [held EXCEPT ![s] = @ - amount]
             after == transferred(held, s, d, amount)
  <2>1. mint_of[s] = mint_of[d]
    BY DEF transferable
  <2>2. held \in [Accounts -> Int] /\ taken \in [Accounts -> Int] /\ after \in [Accounts -> Int]
    BY TransferTypes
  <2>3. /\ \A b \in Accounts : b # s => taken[b] = held[b]
        /\ taken[s] - held[s] = 0 - amount
    OBVIOUS
  <2>4. /\ \A b \in Accounts : b # d => after[b] = taken[b]
        /\ after[d] - taken[d] = amount
    BY <1>2 DEF transferred
  <2> HIDE DEF taken, after
  <2>5. mint_total(taken, m)
          = mint_total(held, m) + (IF mint_of[s] = m THEN 0 - amount ELSE 0)
    BY <2>2, <2>3, OneAccount
  <2>6. mint_total(after, m)
          = mint_total(taken, m) + (IF mint_of[d] = m THEN amount ELSE 0)
    BY <2>2, <2>4, OneAccount
  <2>7. mint_total(held, m) \in Nat
    BY HeldWithin
  <2> QED  BY <2>1, <2>5, <2>6, <2>7 DEF after
<1> QED  BY <1>1, <1>2

\* So does a conversion, which is two transfers.
LEMMA ExchangeConserves ==
  ASSUME NEW held \in [Accounts -> Nat], NEW ui \in Accounts, NEW uo \in Accounts,
         NEW amount \in Int, exchangeable(held, ui, uo, amount), NEW m
  PROVE  mint_total(exchanged(held, ui, uo, amount), m) = mint_total(held, m)
<1> DEFINE input  == mint_of[ui]
           output == mint_of[uo]
           out    == compute_output(input, amount)
           paid   == transferred(held, ui, VaultOf[input], amount)
<1>1. /\ VaultOf[input] \in Accounts /\ VaultOf[output] \in Accounts
      /\ input \in Mints /\ output \in Mints
  BY VaultMints
<1>2. /\ amount \in Nat /\ valid_pair(input, output)
      /\ transferable(held, ui, VaultOf[input], amount)
      /\ transferable(paid, VaultOf[output], uo, out)
  BY DEF exchangeable
<1>3. out \in Nat
  BY <1>1, <1>2, OutputWorth
<1>4. paid \in [Accounts -> Nat] /\ mint_total(paid, m) = mint_total(held, m)
  BY <1>1, <1>2, TransferTypes, TransferConserves
<1>5. exchanged(held, ui, uo, amount) = transferred(paid, VaultOf[output], uo, out)
  BY DEF exchanged
<1> HIDE DEF paid, out
<1> QED  BY <1>1, <1>2, <1>3, <1>4, <1>5, TransferConserves

\* Every mint is registered with the hook, and its supply is what it was.
SupplyKept ==
  /\ meta_lists = Mints
  /\ \A m \in Mints : mint_total(balance, m) = mint_total(Genesis, m)

\* A step of the vault keeps both.
LEMMA SupplySteps ==
  ASSUME VaultInv, SupplyKept, VaultNext
  PROVE  SupplyKept'
<1>1. balance \in [Accounts -> Nat] /\ HookTypeOK /\ meta_lists = Mints
      /\ HookedMints = Mints
  BY VaultAssumption DEF VaultInv, VaultTypeOK, HookTypeOK, SupplyKept
<1>2. SUFFICES ASSUME NEW m \in Mints
               PROVE  meta_lists' = Mints /\ mint_total(balance', m) = mint_total(balance, m)
  <2>1. ASSUME NEW m \in Mints PROVE mint_total(balance, m) = mint_total(Genesis, m)
    BY DEF SupplyKept
  <2>2. Mints # {}
    BY VaultAssumption
  <2> QED  BY <2>1, <2>2 DEF SupplyKept
<1>3. ASSUME NEW key \in Keys, initialize(key)
      PROVE  meta_lists' = Mints /\ balance' = balance
  BY <1>1, <1>3 DEF initialize, allHookVars, hookVars
<1>4. ASSUME NEW key \in Keys, extract_profit(key)
      PROVE  meta_lists' = Mints /\ mint_total(balance', m) = mint_total(balance, m)
  <2>1. /\ transferable(balance, VaultOf[PROFIT], destination_ata, EXTRACT_AMOUNT_RAW)
        /\ balance' = transferred(balance, VaultOf[PROFIT], destination_ata, EXTRACT_AMOUNT_RAW)
        /\ meta_lists' = meta_lists
    BY <1>4 DEF extract_profit, hookVars
  <2>2. VaultOf[PROFIT] \in Accounts /\ destination_ata \in Accounts
        /\ EXTRACT_AMOUNT_RAW \in Nat
    BY VaultAssumption DEF VaultOf, PROFIT, VaultAccounts
  <2> QED  BY <1>1, <2>1, <2>2, TransferConserves
<1>5. ASSUME NEW held \in [Accounts -> Nat], NEW ui \in Accounts, NEW uo \in Accounts,
             NEW amount \in Int, exchange(held, ui, uo, amount)
      PROVE  meta_lists' = Mints /\ mint_total(balance', m) = mint_total(held, m)
  BY <1>1, <1>5, ExchangeConserves DEF exchange, hookVars
<1>6. ASSUME NEW ui \in Accounts, NEW uo \in Accounts, Conversion(ui, uo)
      PROVE  meta_lists' = Mints /\ mint_total(balance', m) = mint_total(balance, m)
  <2>1. ASSUME NEW amount_in \in 1..balance[ui], convert(owner_of[ui], ui, uo, amount_in)
        PROVE  meta_lists' = Mints /\ mint_total(balance', m) = mint_total(balance, m)
    BY <1>1, <1>5, <2>1 DEF convert
  <2>2. ASSUME NEW amount_in \in {0, 1}, NEW minimum_output \in {0, 1},
               NEW pre_balance \in 0..balance[ui],
               convert_v2(owner_of[ui], ui, uo, amount_in, minimum_output, pre_balance)
        PROVE  meta_lists' = Mints /\ mint_total(balance', m) = mint_total(balance, m)
    <3> DEFINE amount == effective_amount(balance, ui, amount_in, pre_balance)
    <3>1. amount \in Int
      BY <1>1 DEF effective_amount
    <3>2. exchange(balance, ui, uo, amount)
      BY <2>2 DEF convert_v2
    <3> HIDE DEF amount
    <3> QED  BY <1>1, <1>5, <3>1, <3>2
  <2> QED  BY <1>6, <2>1, <2>2 DEF Conversion
<1>7. ASSUME NEW account \in Accounts, Note(account)
      PROVE  meta_lists' = Mints /\ balance' = balance
  BY <1>1, <1>7 DEF Note, allHookVars, hookVars
<1>8. ASSUME NEW source \in Accounts, NEW uo \in Accounts, NEW deposit \in Nat,
             NEW minimum_output \in {0, 1}, Route(source, uo, deposit, minimum_output)
      PROVE  meta_lists' = Mints /\ mint_total(balance', m) = mint_total(balance, m)
  <2> DEFINE held   == transferred(balance, source, note.account, deposit)
             amount == effective_amount(held, note.account, 0, note.balance)
  <2>1. /\ note.account \in Accounts /\ held \in [Accounts -> Nat]
        /\ amount \in Nat /\ exchange(held, note.account, uo, amount)
    BY <1>8, RouteFacts
  <2>2. transferable(balance, source, note.account, deposit)
    BY <1>8 DEF Route
  <2>3. mint_total(held, m) = mint_total(balance, m)
    BY <1>1, <2>1, <2>2, TransferConserves
  <2> HIDE DEF held, amount
  <2> QED  BY <1>5, <2>1, <2>3
<1>9. ASSUME NEW source \in Accounts, NEW destination \in Accounts, NEW amount \in Nat,
             HolderTransfer(source, destination, amount)
      PROVE  meta_lists' = Mints /\ mint_total(balance', m) = mint_total(balance, m)
  <2>1. /\ transferable(balance, source, destination, amount)
        /\ balance' = transferred(balance, source, destination, amount)
        /\ meta_lists' = meta_lists
    BY <1>9 DEF HolderTransfer, Transfer, hookVars
  <2> QED  BY <1>1, <2>1, TransferConserves
<1>10. CASE HookUpkeep
  <2>1. HookTypeOK' /\ balance' = balance /\ meta_lists \subseteq meta_lists'
    BY <1>1, <1>10, AdminSteps DEF HookUpkeep
  <2> QED  BY <1>1, <2>1 DEF HookTypeOK
<1>11. \A a \in Accounts : \A n \in 1..balance[a] : n \in Nat
  OBVIOUS
<1> QED  BY <1>3, <1>4, <1>6, <1>7, <1>8, <1>9, <1>10, <1>11 DEF VaultNext

\* No step of the vault or of a holder mints or burns.
THEOREM SupplyInvariance == VaultSpec => []SupplyKept
<1>1. VaultInit => SupplyKept
  BY DEF VaultInit, SupplyKept
<1>2. VaultInv /\ SupplyKept /\ [VaultNext]_vaultVars => SupplyKept'
  <2> SUFFICES ASSUME VaultInv, SupplyKept, [VaultNext]_vaultVars PROVE SupplyKept'
    OBVIOUS
  <2>1. CASE VaultNext
    BY <2>1, SupplySteps
  <2>2. CASE UNCHANGED vaultVars
    BY <2>2 DEF vaultVars, allHookVars, hookVars, SupplyKept
  <2> QED  BY <2>1, <2>2
<1> QED  BY <1>1, <1>2, VaultInvariance, PTL DEF VaultSpec

\* A holder's share of a supply, the worth kept and the worth given leave enough
\* PROFIT in the vault to redeem the whole share.
LEMMA ProfitSuffices ==
  ASSUME VaultInv, SupplyKept,
         contributed >= CONVERSION_RATE * EXTRACT_AMOUNT_RAW + faction_supply,
         NEW a \in Accounts \ VaultAccounts, mint_of[a] \in Factions
  PROVE  /\ balance[a] \div CONVERSION_RATE <= balance["vault_profit"]
         /\ balance[a] <= U64_MAX
<1> DEFINE R == CONVERSION_RATE
           c == balance["vault_crime"]
           f == balance["vault_fraud"]
           p == balance["vault_profit"]
           x == balance[a]
           q == x \div R
           C == mint_total(Genesis, "CRIME")
           F == mint_total(Genesis, "FRAUD")
           e == R * EXTRACT_AMOUNT_RAW
<1>1. /\ R \in Nat \ {0} /\ EXTRACT_AMOUNT_RAW \in Nat /\ U64_MAX \in Nat
      /\ "CRIME" \in Mints /\ "FRAUD" \in Mints
      /\ "vault_crime" \in Accounts /\ "vault_fraud" \in Accounts /\ "vault_profit" \in Accounts
      /\ a \in Accounts /\ a # "vault_crime" /\ a # "vault_fraud"
  BY VaultAssumption DEF Factions, VaultAccounts
<1>2. balance \in [Accounts -> Nat] /\ contributed \in Nat
  BY DEF VaultInv, VaultTypeOK, HookTypeOK
<1>3. c \in Nat /\ f \in Nat /\ p \in Nat /\ x \in Nat
  BY <1>1, <1>2
<1>4. /\ mint_total(balance, "CRIME") = C /\ mint_total(balance, "FRAUD") = F
      /\ C <= U64_MAX /\ F <= U64_MAX
  BY <1>1, SupplyAssumption DEF SupplyKept
<1>5. C \in Nat /\ F \in Nat
  BY <1>2, <1>4, HeldWithin
<1>6. mint_of["vault_crime"] = "CRIME" /\ mint_of["vault_fraud"] = "FRAUD"
  BY VaultMints
<1>7. c <= C /\ f <= F
  BY <1>1, <1>2, <1>4, <1>6, HeldWithin
<1>9. x <= U64_MAX /\ c + f + x <= C + F
  <2>1. CASE mint_of[a] = "CRIME"
    <3>1. c + x <= C /\ x <= C
      BY <1>1, <1>2, <1>4, <1>6, <2>1, HeldWithin
    <3> HIDE DEF c, f, p, x, C, F
    <3> QED  BY <1>1, <1>3, <1>4, <1>5, <1>7, <3>1
  <2>2. CASE mint_of[a] = "FRAUD"
    <3>1. f + x <= F /\ x <= F
      BY <1>1, <1>2, <1>4, <1>6, <2>2, HeldWithin
    <3> HIDE DEF c, f, p, x, C, F
    <3> QED  BY <1>1, <1>3, <1>4, <1>5, <1>7, <3>1
  <2> QED  BY <2>1, <2>2 DEF Factions
<1>10. R * p \in Nat /\ e \in Nat /\ R * extracted \in Nat /\ R * extracted <= e
  <2>1. R * 0 = 0 /\ R * p \in Nat /\ e \in Nat
    BY <1>1, <1>3
  <2> QED  BY <2>1 DEF extracted
<1>11. contributed <= c + f + R * p + R * extracted
  BY DEF VaultInv, WorthKept, vault_worth
<1>12. contributed >= e + (C + F)
  BY DEF faction_supply
<1> HIDE DEF c, f, p, x, C, F, e
<1>13. x <= R * p
  BY <1>2, <1>3, <1>5, <1>9, <1>10, <1>11, <1>12
<1>14. q \in Nat /\ R * q <= x
  BY <1>1, <1>3
<1> HIDE DEF R, q
<1>15. q <= p
  <2>1. SUFFICES ASSUME p + 1 <= q PROVE FALSE
    BY <1>3, <1>14
  <2>2. R * (q - (p + 1)) >= 0
    BY <1>1, <1>3, <1>14, <2>1
  <2>3. R * (q - (p + 1)) = R * q - R * p - R
    BY <1>1, <1>3, <1>14
  <2>4. R * q \in Nat
    BY <1>1, <1>14
  <2> QED  BY <1>1, <1>3, <1>10, <1>13, <1>14, <2>2, <2>3, <2>4
<1> QED  BY <1>9, <1>15 DEF q, x, p, R

\* Once it was given enough, the vault never refuses a holder's redemption.
THEOREM AlwaysRedeemable == VaultSpec => []Redeemable
<1>1. VaultInv /\ SupplyKept => Redeemable
  <2> SUFFICES ASSUME VaultInv, SupplyKept,
                      vault_initialized, VaultAccounts \subseteq whitelist,
                      contributed >= CONVERSION_RATE * EXTRACT_AMOUNT_RAW + faction_supply,
                      NEW a \in Accounts \ VaultAccounts, NEW b \in Accounts \ VaultAccounts,
                      mint_of[a] \in Factions, mint_of[b] = PROFIT,
                      balance[a] >= CONVERSION_RATE
               PROVE  exchangeable(balance, a, b, balance[a])
    BY DEF Redeemable
  <2> DEFINE R     == CONVERSION_RATE
             x     == balance[a]
             input == mint_of[a]
             out   == compute_output(input, x)
             paid  == transferred(balance, a, VaultOf[input], x)
  <2>1. /\ R \in Nat \ {0} /\ balance \in [Accounts -> Nat] /\ meta_lists = Mints
        /\ a \in Accounts /\ b \in Accounts /\ x \in Nat /\ x > 0 /\ U64_MAX \in Nat
    BY VaultAssumption DEF VaultInv, VaultTypeOK, HookTypeOK, SupplyKept
  <2>2. /\ input \in Mints /\ PROFIT \in Mints
        /\ VaultOf[input] \in VaultAccounts /\ mint_of[VaultOf[input]] = input
        /\ VaultOf[PROFIT] = "vault_profit" /\ "vault_profit" \in VaultAccounts
        /\ mint_of["vault_profit"] = PROFIT
        /\ input # PROFIT /\ VaultAccounts \subseteq Accounts
    BY VaultMints, VaultAssumption DEF Factions, PROFIT, VaultOf, VaultAccounts
  <2>3. valid_pair(input, PROFIT)
    BY DEF valid_pair
  <2>4. out = x \div R
    BY <2>2 DEF compute_output
  <2>5. x \div R \in Nat /\ x \div R > 0 /\ x \div R <= x
    BY <2>1
  <2>6. x \div R <= balance["vault_profit"] /\ x <= U64_MAX
    BY ProfitSuffices
  <2>7. out \in Nat /\ out > 0 /\ out <= U64_MAX /\ out <= balance["vault_profit"]
    BY <2>1, <2>4, <2>5, <2>6
  <2>8. transferable(balance, a, VaultOf[input], x)
    BY <2>1, <2>2 DEF transferable, transfer_hook, is_whitelisted
  <2>9. paid["vault_profit"] = balance["vault_profit"]
    <3>1. a # "vault_profit" /\ VaultOf[input] # "vault_profit"
      BY <2>2
    <3> QED  BY <2>1, <2>2, <3>1 DEF transferred
  <2> HIDE DEF out, paid
  <2>10. transferable(paid, VaultOf[PROFIT], b, out)
    BY <2>1, <2>2, <2>7, <2>9 DEF transferable, transfer_hook, is_whitelisted
  <2> QED  BY <2>1, <2>3, <2>7, <2>8, <2>10 DEF exchangeable, out, paid
<1> QED  BY <1>1, VaultInvariance, SupplyInvariance, PTL

==============================================================================
