----------------------------- MODULE EpochMachine -----------------------------
(***************************************************************************)
(* The epoch program's EpochState singleton: one randomness request per    *)
(* epoch, its retries and its deterministic fallback, the Carnage          *)
(* execution a reveal may schedule, and the migration of a state written   *)
(* by the release before the bounded lifecycle.                            *)
(*                                                                         *)
(* Every instruction is one transaction, hence one atomic action: a failed *)
(* requirement, in the handler or in a program it calls, reverts it all.   *)
(* Slots are the only clock.  The oracle (ORAO) is external: it owns the   *)
(* request accounts and fulfils them whenever it likes, or never.          *)
(***************************************************************************)
EXTENDS TaxDerivation

CONSTANTS
  Keepers,                  \* wallet_a and wallet_b of ArbConfig
  Strangers,                \* every other signer
  VRF_TIMEOUT_SLOTS,
  GRACE_SLOTS,
  MAX_VRF_ATTEMPTS,
  MAX_VRF_PENDING_SLOTS,
  CARNAGE_DEADLINE_SLOTS,
  CARNAGE_LOCK_SLOTS,
  Timings,                  \* the legal <<epoch_length_slots, pause_slots>> pairs
  MAX_EPOCH_LENGTH_SLOTS,
  Reveals,                  \* the VRF values the oracle may reveal
  Purchases,                \* token amounts one Carnage buy may bring in
  MaxEpoch,                 \* bound: no transition is triggered from this epoch
  LegacyEpochs              \* epochs a pre-migration state may be found in

Callers == Keepers \cup Strangers

ASSUME SlotConstants ==
  /\ VRF_TIMEOUT_SLOTS \in Nat
  /\ GRACE_SLOTS \in Nat
  /\ MAX_VRF_ATTEMPTS \in Nat \ {0}
  /\ MAX_VRF_PENDING_SLOTS \in Nat
  /\ MAX_VRF_PENDING_SLOTS > VRF_TIMEOUT_SLOTS * MAX_VRF_ATTEMPTS
  /\ VRF_TIMEOUT_SLOTS < MAX_VRF_PENDING_SLOTS
  /\ CARNAGE_DEADLINE_SLOTS \in Nat
  /\ CARNAGE_LOCK_SLOTS \in Nat
  /\ CARNAGE_LOCK_SLOTS < CARNAGE_DEADLINE_SLOTS

ASSUME ConfigConstants ==
  /\ MAX_EPOCH_LENGTH_SLOTS \in Nat
  /\ Timings \subseteq (1..MAX_EPOCH_LENGTH_SLOTS) \X Nat
  /\ \A t \in Timings : t[2] < t[1]

ASSUME DataConstants ==
  /\ Reveals \subseteq VrfResult
  /\ Purchases \subseteq Nat
  /\ MaxEpoch \in Nat
  /\ LegacyEpochs \subseteq Nat

VARIABLES
  slot,                       \* Clock::get()?.slot
  arb_config,                 \* the timing fields of ArbConfig: [len, pause]
  \* EpochState
  safety_version, current_epoch, epoch_start_slot, pause_end_slot,
  cheap_side, taxes,
  vrf_pending, taxes_confirmed, vrf_request_slot, vrf_transition_start_slot,
  vrf_attempts, pending_randomness_account,
  carnage_pending, carnage_target, carnage_action, carnage_generation,
  carnage_deadline_slot, carnage_lock_slot, last_carnage_epoch,
  last_degraded_epoch, last_vrf_fallback_reason,
  held_amount, total_triggers, \* CarnageFundState
  last_update_epoch,          \* StakePool, written by the update_cumulative CPI
  requested, fulfilled        \* ORAO request accounts that exist / are revealed

configVars  == <<slot, arb_config>>
clockVars   == <<current_epoch, epoch_start_slot>>
taxVars     == <<cheap_side, taxes>>
vrfVars     == <<vrf_pending, taxes_confirmed, vrf_request_slot,
                 pending_randomness_account>>
attemptVars == <<vrf_transition_start_slot, vrf_attempts>>
carnageVars == <<carnage_pending, carnage_action, carnage_generation,
                 carnage_deadline_slot, carnage_lock_slot>>
degradedVars == <<last_degraded_epoch, last_vrf_fallback_reason>>
fundVars    == <<held_amount, total_triggers, last_carnage_epoch>>
oracleVars  == <<requested, fulfilled>>

vars == <<configVars, safety_version, clockVars, pause_end_slot, taxVars,
          vrfVars, attemptVars, carnageVars, carnage_target, degradedVars,
          fundVars, last_update_epoch, oracleVars>>

-----------------------------------------------------------------------------
(* Request accounts.  A request account's address is derived from the seed *)
(* of (epoch, attempt); NoAccount is Pubkey::default() and LegacyAccount a *)
(* request of the oracle used before the migration.                        *)

NoAccount     == <<>>
LegacyAccount == <<"legacy">>
Seed_without_attempt(e, a) == <<e, 1>>                          \* mutant
Seed(e, a)    == <<e, a>>

SeedsUpTo(e)  == {Seed(d, a) : d \in 0..e, a \in 1..MAX_VRF_ATTEMPTS}

\* request_v2 initialises the account and fails if it already exists.
request_v2(seed) == seed \notin requested /\ requested' = requested \cup {seed}

\* Trigger and retry store the request they made and its slot.
BindRequest_first_only(seed) ==                                 \* mutant
  /\ vrf_request_slot' = slot
  /\ pending_randomness_account' =
       IF vrf_pending THEN pending_randomness_account ELSE seed
BindRequest(seed) ==
  /\ vrf_request_slot' = slot
  /\ pending_randomness_account' = seed

-----------------------------------------------------------------------------
(* Guards shared by the handlers.                                          *)

epoch_due_slot == epoch_start_slot + arb_config.len
is_epoch_due   == slot >= epoch_due_slot
never_open     == FALSE                                         \* mutant
is_grace_open  == slot >= epoch_due_slot + GRACE_SLOTS

is_public_retry_open == slot > vrf_request_slot + VRF_TIMEOUT_SLOTS + GRACE_SLOTS
no_window_check == TRUE                                         \* mutant
retry_preserves_full_reveal_window ==
  slot + VRF_TIMEOUT_SLOTS < vrf_transition_start_slot + MAX_VRF_PENDING_SLOTS

attempts_left == vrf_attempts < MAX_VRF_ATTEMPTS

\* What trigger_epoch_transition requires of the epoch it leaves behind.
quiescent_but_carnage == ~vrf_pending /\ taxes_confirmed        \* mutant
quiescent == ~vrf_pending /\ taxes_confirmed /\ ~carnage_pending

trigger_pause_end_slot  == slot + arb_config.pause

TerminalReason == {"None", "FinalAttempt", "AbsoluteAge"}

terminal_vrf_reason ==
  CASE slot - vrf_transition_start_slot >= MAX_VRF_PENDING_SLOTS -> "AbsoluteAge"
    [] /\ slot - vrf_transition_start_slot < MAX_VRF_PENDING_SLOTS
       /\ vrf_attempts >= MAX_VRF_ATTEMPTS
       /\ slot - vrf_request_slot > VRF_TIMEOUT_SLOTS -> "FinalAttempt"
    [] OTHER -> "None"

Active == safety_version = 1

\* update_cumulative, called by both ways of closing an epoch, refuses an
\* epoch it has already finalised.
finalize_ignored == UNCHANGED last_update_epoch                 \* mutant
staking_accepts == current_epoch > last_update_epoch
finalize_staking_epoch ==
  /\ staking_accepts
  /\ last_update_epoch' = current_epoch

\* Both ways of closing an epoch clear the request but leave vrf_attempts and
\* vrf_transition_start_slot behind.
ClearVrf ==
  /\ vrf_pending' = FALSE
  /\ taxes_confirmed' = TRUE
  /\ vrf_request_slot' = 0
  /\ pending_randomness_account' = NoAccount

\* Everything of a pending Carnage but its target.
ClearCarnage_keeps_pending ==                                   \* mutant
  /\ carnage_action' = "None"
  /\ UNCHANGED <<carnage_pending, carnage_generation, carnage_deadline_slot,
                 carnage_lock_slot>>
ClearCarnage_keeps_generation ==                                \* mutant
  /\ carnage_pending' = FALSE
  /\ carnage_action' = "None"
  /\ carnage_deadline_slot' = 0
  /\ carnage_lock_slot' = 0
  /\ UNCHANGED carnage_generation
ClearCarnage ==
  /\ carnage_pending' = FALSE
  /\ carnage_action' = "None"
  /\ carnage_generation' = 0
  /\ carnage_deadline_slot' = 0
  /\ carnage_lock_slot' = 0

-----------------------------------------------------------------------------
(* Initial states.                                                         *)

\* A fresh deployment: initialize_epoch_state and initialize_carnage_fund.
InitFresh ==
  /\ slot = 0
  /\ safety_version = 1
  /\ current_epoch = 0 /\ epoch_start_slot = 0 /\ pause_end_slot = 0
  /\ cheap_side = "CRIME" /\ taxes = genesis_taxes
  /\ vrf_pending = FALSE /\ taxes_confirmed = TRUE
  /\ vrf_request_slot = 0 /\ pending_randomness_account = NoAccount
  /\ held_amount = 0 /\ total_triggers = 0 /\ last_carnage_epoch = 0
  /\ last_update_epoch = 0

\* The deployed singleton the upgrade finds: the bytes the new fields were
\* carved from are zero, no Carnage is pending, and a request of the previous
\* oracle may be outstanding.
InitLegacy ==
  /\ slot = 0
  /\ safety_version = 0
  /\ current_epoch \in LegacyEpochs
  /\ epoch_start_slot = 0 /\ pause_end_slot = 0
  /\ cheap_side \in Token /\ taxes = derive_taxes([i \in 0..7 |-> 192], cheap_side)
  /\ vrf_pending \in BOOLEAN /\ taxes_confirmed = ~vrf_pending
  /\ vrf_request_slot = 0
  /\ pending_randomness_account = IF vrf_pending THEN LegacyAccount ELSE NoAccount
  /\ vrf_pending => current_epoch > 0
  /\ last_update_epoch = IF vrf_pending THEN current_epoch - 1 ELSE current_epoch
  /\ held_amount \in Purchases /\ total_triggers = 0
  /\ last_carnage_epoch \in 0..last_update_epoch

Init ==
  /\ arb_config \in {[len |-> t[1], pause |-> t[2]] : t \in Timings}
  /\ InitFresh \/ InitLegacy
  /\ vrf_transition_start_slot = 0 /\ vrf_attempts = 0
  /\ carnage_pending = FALSE /\ carnage_target = "CRIME" /\ carnage_action = "None"
  /\ carnage_generation = 0 /\ carnage_deadline_slot = 0 /\ carnage_lock_slot = 0
  /\ last_degraded_epoch = 0 /\ last_vrf_fallback_reason = "None"
  /\ requested = {} /\ fulfilled = {}

-----------------------------------------------------------------------------
(* The environment.                                                        *)

\* Slots after which some guard changes its value.  Once the clock is past
\* all of them a further slot changes nothing, so it stops there: this is what
\* keeps the model finite without a bound on time.
Horizons ==
  {epoch_start_slot + MAX_EPOCH_LENGTH_SLOTS + GRACE_SLOTS, pause_end_slot}
    \cup (IF vrf_pending
          THEN {vrf_request_slot + VRF_TIMEOUT_SLOTS + GRACE_SLOTS + 1,
                vrf_transition_start_slot + MAX_VRF_PENDING_SLOTS}
          ELSE {})
    \cup (IF carnage_pending THEN {carnage_deadline_slot + 1} ELSE {})

Tick ==
  /\ \E h \in Horizons : slot < h
  /\ slot' = slot + 1
  /\ UNCHANGED <<arb_config, safety_version, clockVars, pause_end_slot, taxVars,
                 vrfVars, attemptVars, carnageVars, carnage_target, degradedVars,
                 fundVars, last_update_epoch, oracleVars>>

\* The oracle reveals a request, the current one or one a retry replaced.
Fulfil(seed) ==
  /\ seed \in requested \ fulfilled
  /\ fulfilled' = fulfilled \cup {seed}
  /\ UNCHANGED <<configVars, safety_version, clockVars, pause_end_slot, taxVars,
                 vrfVars, attemptVars, carnageVars, carnage_target, degradedVars,
                 fundVars, last_update_epoch, requested>>

\* update_arb_config, restricted to the two timing fields; it takes effect at
\* once, in the middle of an epoch or of a transition.
UpdateArbConfig(t) ==
  /\ arb_config' = [len |-> t[1], pause |-> t[2]]
  /\ UNCHANGED <<slot, safety_version, clockVars, pause_end_slot, taxVars,
                 vrfVars, attemptVars, carnageVars, carnage_target, degradedVars,
                 fundVars, last_update_epoch, oracleVars>>

-----------------------------------------------------------------------------
(* The instructions.                                                       *)

may_trigger(c) ==
  /\ Active
  /\ current_epoch < MaxEpoch
  /\ is_epoch_due
  /\ c \in Keepers \/ is_grace_open
  /\ quiescent

TriggerEpochTransition(c) ==
  /\ may_trigger(c)
  /\ request_v2(Seed(current_epoch + 1, 1))
  /\ current_epoch' = current_epoch + 1
  /\ epoch_start_slot' = slot
  /\ pause_end_slot' = trigger_pause_end_slot
  /\ BindRequest(Seed(current_epoch + 1, 1))
  /\ vrf_transition_start_slot' = slot
  /\ vrf_attempts' = 1
  /\ vrf_pending' = TRUE
  /\ taxes_confirmed' = FALSE
  /\ UNCHANGED <<configVars, safety_version, taxVars, carnageVars, carnage_target,
                 degradedVars, fundVars, last_update_epoch, fulfilled>>

RetryEpochVrf(c) ==
  /\ Active
  /\ vrf_pending /\ vrf_attempts > 0
  /\ slot - vrf_request_slot > VRF_TIMEOUT_SLOTS
  /\ c \in Keepers \/ is_public_retry_open
  /\ attempts_left
  /\ slot - vrf_transition_start_slot < MAX_VRF_PENDING_SLOTS
  /\ retry_preserves_full_reveal_window
  /\ pending_randomness_account # Seed(current_epoch, vrf_attempts + 1)
  /\ request_v2(Seed(current_epoch, vrf_attempts + 1))
  /\ BindRequest(Seed(current_epoch, vrf_attempts + 1))
  /\ vrf_attempts' = vrf_attempts + 1
  /\ UNCHANGED <<configVars, safety_version, clockVars, pause_end_slot, taxVars,
                 vrf_pending, taxes_confirmed, vrf_transition_start_slot,
                 carnageVars, carnage_target, degradedVars, fundVars,
                 last_update_epoch, fulfilled>>

consume_pause_end_slot ==
  IF slot + arb_config.pause >= pause_end_slot
  THEN slot + arb_config.pause
  ELSE pause_end_slot

\* The part of consume_randomness that schedules a Carnage execution.
ScheduleCarnage(vrf) ==
  \/ /\ is_carnage_triggered(vrf)
     /\ carnage_pending' = TRUE
     /\ carnage_generation' = current_epoch
     /\ carnage_action' = get_carnage_action(vrf, held_amount > 0)
     /\ carnage_target' = get_carnage_target(vrf)
     /\ carnage_deadline_slot' = slot + CARNAGE_DEADLINE_SLOTS
     /\ carnage_lock_slot' = slot + CARNAGE_LOCK_SLOTS
  \/ /\ ~is_carnage_triggered(vrf)
     /\ ClearCarnage
     /\ UNCHANGED carnage_target

\* The value vrf of a request is chosen when it is consumed: nothing reads it
\* earlier.  An account given by the caller is one of the existing requests.
ConsumeRandomness(account, vrf) ==
  /\ Active
  /\ vrf_pending /\ vrf_attempts > 0
  /\ terminal_vrf_reason = "None"
  /\ account = pending_randomness_account
  /\ account = Seed(current_epoch, vrf_attempts)
  /\ account \in fulfilled
  /\ cheap_side' = derive_cheap_side(vrf, cheap_side)
  /\ taxes' = derive_taxes(vrf, cheap_side)
  /\ pause_end_slot' = consume_pause_end_slot
  /\ ClearVrf
  /\ finalize_staking_epoch
  /\ ScheduleCarnage(vrf)
  /\ UNCHANGED <<configVars, safety_version, clockVars, attemptVars, degradedVars,
                 fundVars, oracleVars>>

may_fall_back ==
  /\ Active
  /\ vrf_pending /\ vrf_attempts > 0
  /\ ~carnage_pending
  /\ terminal_vrf_reason # "None"

TerminalVrfFallback ==
  /\ may_fall_back
  /\ finalize_staking_epoch
  /\ ClearVrf
  /\ last_degraded_epoch' = current_epoch
  /\ last_vrf_fallback_reason' = terminal_vrf_reason
  /\ ClearCarnage
  /\ UNCHANGED <<configVars, safety_version, clockVars, pause_end_slot, taxVars,
                 attemptVars, carnage_target, fundVars, oracleVars>>

\* execute_carnage_core without its money: whatever was held is burned or sold
\* (or, with nothing held, left alone) and the amount just bought replaces it.
execute_carnage_core(bought) ==
  /\ held_amount' = bought
  /\ total_triggers' = total_triggers + 1
  /\ last_carnage_epoch' = current_epoch
  /\ ClearCarnage
  /\ UNCHANGED <<configVars, safety_version, clockVars, pause_end_slot, taxVars,
                 vrfVars, attemptVars, carnage_target, degradedVars,
                 last_update_epoch, oracleVars>>

\* The fallback path, after the lock window.
ExecuteCarnage(generation, bought) ==
  /\ Active
  /\ carnage_pending
  /\ generation = current_epoch /\ generation = carnage_generation
  /\ slot =< carnage_deadline_slot
  /\ slot > carnage_lock_slot
  /\ execute_carnage_core(bought)

\* The atomic path, open from the reveal on; it does nothing, successfully,
\* when no Carnage is pending.
ExecuteCarnageAtomic(generation, bought) ==
  /\ Active
  /\ generation = current_epoch
  /\ carnage_pending
  /\ generation = carnage_generation
  /\ slot =< carnage_deadline_slot
  /\ execute_carnage_core(bought)

may_expire(generation) ==
  /\ Active
  /\ carnage_pending
  /\ generation = current_epoch /\ generation = carnage_generation
  /\ slot > carnage_deadline_slot

ExpireCarnage(generation) ==
  /\ may_expire(generation)
  /\ ClearCarnage
  /\ UNCHANGED <<configVars, safety_version, clockVars, pause_end_slot, taxVars,
                 vrfVars, attemptVars, carnage_target, degradedVars, fundVars,
                 last_update_epoch, oracleVars>>

may_activate == safety_version = 0 /\ ~carnage_pending

ActivateEpochSafety ==
  /\ may_activate
  /\ vrf_transition_start_slot' = IF vrf_pending THEN slot ELSE 0
  /\ vrf_attempts' = IF vrf_pending THEN MAX_VRF_ATTEMPTS ELSE 0
  /\ carnage_generation' = 0
  /\ last_degraded_epoch' = 0
  /\ last_vrf_fallback_reason' = "None"
  /\ safety_version' = 1
  /\ UNCHANGED <<configVars, clockVars, pause_end_slot, taxVars, vrfVars,
                 carnage_pending, carnage_action, carnage_deadline_slot,
                 carnage_lock_slot, carnage_target, fundVars, last_update_epoch,
                 oracleVars>>

-----------------------------------------------------------------------------
Next ==
  \/ Tick
  \/ \E seed \in requested : Fulfil(seed)
  \/ \E t \in Timings : UpdateArbConfig(t)
  \/ \E c \in Callers : TriggerEpochTransition(c)
  \/ \E c \in Callers : RetryEpochVrf(c)
  \/ \E account \in requested, vrf \in Reveals : ConsumeRandomness(account, vrf)
  \/ TerminalVrfFallback
  \/ \E generation \in 0..current_epoch, bought \in Purchases :
        \/ ExecuteCarnage(generation, bought)
        \/ ExecuteCarnageAtomic(generation, bought)
  \/ \E generation \in 0..current_epoch : ExpireCarnage(generation)
  \/ ActivateEpochSafety

Spec == Init /\ [][Next]_vars

\* Slots pass, and each instruction that anyone may send is eventually sent if
\* it stays admissible.  Nothing is assumed of the oracle, of the keepers, of a
\* consumer of the randomness or of an executor of Carnage.
Fairness ==
  /\ WF_vars(Tick)
  /\ WF_vars(\E c \in Strangers : TriggerEpochTransition(c))
  /\ WF_vars(TerminalVrfFallback)
  /\ WF_vars(ExpireCarnage(current_epoch))
  /\ WF_vars(ActivateEpochSafety)

FairSpec == Spec /\ Fairness
-----------------------------------------------------------------------------
(* Properties.                                                             *)

AccountOK(a) == a \in {NoAccount, LegacyAccount} \cup SeedsUpTo(current_epoch)

TypeOK ==
  /\ slot \in Nat
  /\ arb_config \in {[len |-> t[1], pause |-> t[2]] : t \in Timings}
  /\ safety_version \in {0, 1}
  /\ current_epoch \in Nat
  /\ epoch_start_slot \in Nat
  /\ pause_end_slot \in Nat
  /\ cheap_side \in Token /\ taxes \in TaxConfig
  /\ vrf_pending \in BOOLEAN
  /\ taxes_confirmed \in BOOLEAN
  /\ vrf_request_slot \in 0..slot
  /\ vrf_transition_start_slot \in 0..slot
  /\ vrf_attempts \in 0..MAX_VRF_ATTEMPTS
  /\ AccountOK(pending_randomness_account)
  /\ carnage_pending \in BOOLEAN
  /\ carnage_target \in Token
  /\ carnage_action \in Action
  /\ carnage_generation \in 0..current_epoch
  /\ carnage_deadline_slot \in Nat
  /\ carnage_lock_slot \in Nat
  /\ last_carnage_epoch \in 0..current_epoch
  /\ last_degraded_epoch \in 0..current_epoch
  /\ last_vrf_fallback_reason \in TerminalReason
  /\ held_amount \in Nat /\ total_triggers \in Nat
  /\ last_update_epoch \in Nat
  /\ requested \subseteq SeedsUpTo(current_epoch)
  /\ fulfilled \subseteq requested

\* The trigger's two flags are always each other's negation, so an epoch is
\* either awaiting its reveal or closed; and a Carnage is pending only in a
\* closed epoch, hence no transition ever starts under it (the three
\* requirements of trigger_epoch_transition, terminal_vrf_fallback's second).
OnePhaseAtATime ==
  /\ vrf_pending = ~taxes_confirmed
  /\ carnage_pending => ~vrf_pending /\ Active

\* The uniqueness invariant epoch_vrf_seed's comment asks to be tested: the
\* next trigger and the next retry always ask for an account that does not
\* exist yet, so request_v2 can never brick them.
SeedNeverReused ==
  /\ Seed(current_epoch + 1, 1) \notin requested
  /\ vrf_pending => Seed(current_epoch, vrf_attempts + 1) \notin requested

\* Anti-reroll: while a transition is pending, the account consume_randomness
\* accepts is the newest request of this epoch, whatever older request the
\* oracle reveals late; a request inherited by the migration is never it.
BoundToNewestRequest ==
  vrf_pending /\ Active =>
    \/ /\ pending_randomness_account = Seed(current_epoch, vrf_attempts)
       /\ pending_randomness_account \in requested
       /\ \A s \in requested : s[1] = current_epoch => s[2] =< vrf_attempts
    \/ /\ pending_randomness_account = LegacyAccount
       /\ vrf_attempts = MAX_VRF_ATTEMPTS
       /\ \A s \in requested : s[1] < current_epoch

\* Staking has finalised every epoch but the pending one.  So the
\* update_cumulative CPI of consume_randomness and terminal_vrf_fallback never
\* refuses the epoch, and neither way out of a transition can be blocked by it.
StakingInStep ==
  last_update_epoch = IF vrf_pending THEN current_epoch - 1 ELSE current_epoch

\* Every request, the first and each replacement, keeps its whole reveal
\* window: no terminal condition closes the transition while the request is at
\* most VRF_TIMEOUT_SLOTS old (retry_preserves_full_reveal_window, and the
\* test final_attempt_gets_its_full_reveal_window).
FullRevealWindow ==
  vrf_pending /\ Active /\ slot =< vrf_request_slot + VRF_TIMEOUT_SLOTS =>
    terminal_vrf_reason = "None"

\* A pending Carnage belongs to the epoch that scheduled it and the fields
\* that describe it are clear otherwise, so no executor acts on the leavings
\* of an earlier epoch.
CarnageBoundToEpoch ==
  IF carnage_pending
  THEN /\ carnage_generation = current_epoch
       /\ last_carnage_epoch < current_epoch
       /\ carnage_lock_slot < carnage_deadline_slot
  ELSE /\ carnage_generation = 0 /\ carnage_action = "None"
       /\ carnage_deadline_slot = 0 /\ carnage_lock_slot = 0

\* consume_randomness picks the action from the holdings it reads; executors
\* read the holdings again, slots later.  The two agree: an action that leaves
\* the holdings alone never meets any, so a buy never overwrites tokens that
\* were neither burned nor sold.
CarnageMatchesHoldings ==
  carnage_pending => (carnage_action = "None" <=> held_amount = 0)

\* At most one Carnage executes per epoch, by whichever path, in epoch order.
CarnageOncePerEpoch ==
  [][total_triggers' # total_triggers =>
       last_carnage_epoch' > last_carnage_epoch]_vars

\* A trading pause that runs is not cut short by the next transition, by a
\* late reveal or by a fallback, as long as pause_slots is not lowered.
PauseNeverShortened ==
  [][(\A s, t \in Timings : s[2] = t[2]) => pause_end_slot' >= pause_end_slot]_vars

\* The cheap side is low to buy and high to sell, the other side the reverse,
\* at every moment and whatever closed the epoch: the side and the four rates,
\* each rolled on its own, never drift apart (a fallback keeps both).
RatesFavourCheapSide ==
  \A t \in Token :
    LET low  == {LOW_RATES[i] : i \in 1..4}
        high == {HIGH_RATES[i] : i \in 1..4}
    IN  IF t = cheap_side THEN taxes[t].buy \in low  /\ taxes[t].sell \in high
                          ELSE taxes[t].buy \in high /\ taxes[t].sell \in low

\* Nobody can be locked out, by anybody: a stranger may migrate at once; close a
\* transition, with staking accepting the epoch, once its lifetime is over; expire
\* a Carnage once its deadline is; and open the next epoch, under a request that
\* does not exist, once the grace is.  Each wait is bounded by a constant from
\* any moment on, also when the epoch's length changes under it.
StrangersNeverLockedOut ==
  CASE ~Active         -> may_activate
    [] Active /\ vrf_pending ->
         slot >= vrf_transition_start_slot + MAX_VRF_PENDING_SLOTS
           => may_fall_back /\ staking_accepts
    [] Active /\ ~vrf_pending /\ carnage_pending ->
         /\ carnage_deadline_slot =< slot + CARNAGE_DEADLINE_SLOTS
         /\ slot > carnage_deadline_slot => may_expire(current_epoch)
    [] OTHER ->
         /\ epoch_due_slot =< slot + MAX_EPOCH_LENGTH_SLOTS
         /\ current_epoch < MaxEpoch /\ slot >= epoch_due_slot + GRACE_SLOTS
              => \A c \in Strangers : /\ may_trigger(c)
                                      /\ Seed(current_epoch + 1, 1) \notin requested

\* No state the lifecycle reaches is stuck: the next epoch is always reached,
\* with no keeper, oracle or executor at work, only strangers.
EpochAdvances ==
  \A e \in 0..(MaxEpoch - 1) : (current_epoch = e) ~> (current_epoch = e + 1)

=============================================================================
