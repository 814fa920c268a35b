------------------------------- MODULE ArbConfig -------------------------------
(***************************************************************************)
(* The operators' configuration of the epoch program: who may change it,   *)
(* which wallets trade in the exclusivity window, who may pause trading,   *)
(* and the two timing values; and the pause flag those keys set and clear. *)
(*                                                                         *)
(* Every optional argument but new_authority is given: to leave it out is  *)
(* to give the current value.                                              *)
(***************************************************************************)
EXTENDS Naturals

CONSTANTS
  Keys, upgrade_authority,
  NoKey,               \* Pubkey::default()
  NotGiven,
  MIN_EPOCH_LENGTH_SLOTS, MAX_EPOCH_LENGTH_SLOTS, MAX_PAUSE_SLOTS,
  TimingArgs           \* values tried for the two timing fields

ASSUME ConfigAssumption ==
  /\ upgrade_authority \in Keys
  /\ NoKey \notin Keys /\ NotGiven \notin Keys \cup {NoKey}
  /\ MIN_EPOCH_LENGTH_SLOTS \in Nat /\ MAX_EPOCH_LENGTH_SLOTS \in Nat
  /\ MAX_PAUSE_SLOTS \in Nat
  /\ TimingArgs \subseteq Nat

VARIABLES
  initialized,         \* the ArbConfig account exists
  authority, pending_authority,
  wallet_a, wallet_b,
  pause_authority, pause_tripwire,
  pause_slots, epoch_length_slots,
  trading_paused,      \* of EpochState
  offer                \* history: whom the incumbent named last, or nobody

configVars == <<initialized, authority, pending_authority, wallet_a, wallet_b,
                pause_authority, pause_tripwire, pause_slots, epoch_length_slots>>
vars == <<configVars, trading_paused, offer>>

------------------------------------------------------------------------------
(* Validation *)

validate_arb_config_bounds(pause, epoch_length) ==
  /\ pause <= MAX_PAUSE_SLOTS
  /\ epoch_length \in MIN_EPOCH_LENGTH_SLOTS..MAX_EPOCH_LENGTH_SLOTS
  /\ pause < epoch_length

\* The wallets may be one key, no other two roles may.
validate_role_overlap(key, a, b, primary, tripwire) ==
  /\ key \notin {a, b, primary, tripwire}
  /\ {a, b} \cap {primary, tripwire} = {}
  /\ primary # tripwire

valid_roles(key, a, b, primary, tripwire) ==
  /\ NoKey \notin {key, a, b, primary, tripwire}
  /\ validate_role_overlap(key, a, b, primary, tripwire)

\* A successor named, or none, under the resulting roles.
validate_candidate(new_authority, a, b, primary, tripwire) ==
  new_authority \in Keys => validate_role_overlap(new_authority, a, b, primary, tripwire)

validate_resulting_config(new_authority, a, b, primary, tripwire, pause, epoch_length) ==
  /\ validate_arb_config_bounds(pause, epoch_length)
  /\ valid_roles(authority, a, b, primary, tripwire)
  /\ validate_candidate(new_authority, a, b, primary, tripwire)

------------------------------------------------------------------------------
Init ==
  /\ initialized = FALSE
  /\ authority = NoKey /\ pending_authority = NoKey
  /\ wallet_a = NoKey /\ wallet_b = NoKey
  /\ pause_authority = NoKey /\ pause_tripwire = NoKey
  /\ pause_slots = 0 /\ epoch_length_slots = 0
  /\ trading_paused = FALSE
  /\ offer = NoKey

initialize_arb_config(payer, a, b, primary, tripwire, pause, epoch_length) ==
  /\ ~initialized
  /\ payer = upgrade_authority
  /\ validate_arb_config_bounds(pause, epoch_length)
  /\ valid_roles(payer, a, b, primary, tripwire)
  /\ initialized' = TRUE
  /\ authority' = payer /\ pending_authority' = NoKey
  /\ wallet_a' = a /\ wallet_b' = b
  /\ pause_authority' = primary /\ pause_tripwire' = tripwire
  /\ pause_slots' = pause /\ epoch_length_slots' = epoch_length
  /\ UNCHANGED <<trading_paused, offer>>

resulting_candidate_kept(new_authority) ==                          \* mutant
  IF new_authority \in Keys THEN new_authority ELSE pending_authority
resulting_candidate(new_authority) ==
  IF new_authority = NotGiven THEN pending_authority ELSE new_authority

update_arb_config(signer, new_authority, a, b, primary, tripwire, pause, epoch_length) ==
  /\ initialized
  /\ signer = authority
  /\ validate_resulting_config(new_authority, a, b, primary, tripwire, pause, epoch_length)
  /\ pending_authority' = resulting_candidate(new_authority)
  /\ wallet_a' = a /\ wallet_b' = b
  /\ pause_authority' = primary /\ pause_tripwire' = tripwire
  /\ pause_slots' = pause /\ epoch_length_slots' = epoch_length
  /\ offer' = IF new_authority = NotGiven THEN offer ELSE new_authority
  /\ UNCHANGED <<initialized, authority, trading_paused>>

validate_acceptance_unchecked(signer) ==                            \* mutant
  pending_authority # NoKey /\ signer = pending_authority
\* Roles may have moved onto the candidate since it was named.
validate_acceptance(signer) ==
  /\ pending_authority # NoKey
  /\ signer = pending_authority
  /\ validate_role_overlap(signer, wallet_a, wallet_b, pause_authority, pause_tripwire)

accept_arb_config_authority(new_authority) ==
  /\ initialized
  /\ validate_acceptance(new_authority)
  /\ authority' = new_authority
  /\ pending_authority' = NoKey
  /\ offer' = NoKey
  /\ UNCHANGED <<initialized, wallet_a, wallet_b, pause_authority, pause_tripwire,
                 pause_slots, epoch_length_slots, trading_paused>>

is_authorized_setter(signer) == signer \in {pause_authority, pause_tripwire}

set_trading_pause(signer) ==
  /\ initialized
  /\ is_authorized_setter(signer)
  /\ trading_paused' = TRUE
  /\ UNCHANGED <<configVars, offer>>

clears_a_pause(signer, primary) == trading_paused /\ signer = primary    \* mutant
\* Clearing what is clear already succeeds.
clears(signer, primary) == signer = primary

clear_trading_pause(signer) ==
  /\ initialized
  /\ clears(signer, pause_authority)
  /\ trading_paused' = FALSE
  /\ UNCHANGED <<configVars, offer>>

Next ==
  \/ \E key, a, b, primary, tripwire \in Keys \cup {NoKey} :
       /\ valid_roles(key, a, b, primary, tripwire)
       /\ \E pause, epoch_length \in TimingArgs :
            \/ initialize_arb_config(key, a, b, primary, tripwire, pause, epoch_length)
            \/ \E new_authority \in Keys \cup {NoKey, NotGiven} :
                 update_arb_config(key, new_authority, a, b, primary, tripwire, pause,
                                   epoch_length)
  \/ \E key \in Keys :
       \/ accept_arb_config_authority(key)
       \/ set_trading_pause(key)
       \/ clear_trading_pause(key)

Spec == Init /\ [][Next]_vars

------------------------------------------------------------------------------
(* Properties *)

\* Every field keeps its type, and the timing is what the epoch machine takes for
\* granted of it: within bounds, and a pause shorter than an epoch.
TypeOK ==
  /\ initialized \in BOOLEAN /\ trading_paused \in BOOLEAN
  /\ {pending_authority, offer} \subseteq Keys \cup {NoKey}
  /\ initialized =>
       /\ {authority, wallet_a, wallet_b, pause_authority, pause_tripwire} \subseteq Keys
       /\ pause_slots \in 0..MAX_PAUSE_SLOTS
       /\ epoch_length_slots \in MIN_EPOCH_LENGTH_SLOTS..MAX_EPOCH_LENGTH_SLOTS
       /\ pause_slots < epoch_length_slots

wallets == {wallet_a, wallet_b}

\* No key ever comes to hold two powers: not by a hand-over whose candidate was
\* given another role since it was named, nor by any batch of changes.
RolesSeparate ==
  initialized =>
    /\ authority \notin wallets \cup {pause_authority, pause_tripwire}
    /\ pause_authority \notin wallets \cup {pause_tripwire}
    /\ pause_tripwire \notin wallets

\* No state locks the incumbent out of a recovery, pending hand-over or not: in one
\* transaction it replaces the key of any role by any key that has none, moves
\* both wallets onto a surviving one, and lifts the pause with the new
\* primary key, also when somebody has just lifted it.
Recoverable ==
  LET roles == wallets \cup {authority, pause_authority, pause_tripwire}
      accepted(a, b, primary, tripwire) ==
        validate_resulting_config(NotGiven, a, b, primary, tripwire, pause_slots,
                                  epoch_length_slots)
  IN
  initialized =>
    /\ \A spare \in Keys \ roles :
         /\ accepted(wallet_a, wallet_b, spare, pause_tripwire) /\ clears(spare, spare)
         /\ accepted(wallet_a, wallet_b, pause_authority, spare)
         /\ accepted(spare, wallet_b, pause_authority, pause_tripwire)
         /\ accepted(wallet_a, spare, pause_authority, pause_tripwire)
    /\ \A survivor \in wallets :
         accepted(survivor, survivor, pause_authority, pause_tripwire)

\* The authority is handed over in two steps: to the candidate the incumbent named
\* last, if it did not withdraw that, and once.
TwoStep == INSTANCE Handover WITH
  Founder   <- upgrade_authority,
  NoOne     <- NoKey,
  owner     <- authority,
  candidate <- offer
ImplementsHandover == TwoStep!Spec

==============================================================================
