------------------------- MODULE EpochMachine_proofs -------------------------
(***************************************************************************)
(* Proofs about EpochMachine for every value of its constants: every       *)
(* number of attempts, every length of the windows, any set of timings,    *)
(* any set of reveals and any number of epochs.                            *)
(***************************************************************************)
EXTENDS EpochRefinement, TLAPS

(***************************************************************************)
(* What the invariants need besides each other.  Before the migration no   *)
(* request of ours exists and only a foreign one may be pending; the       *)
(* requests of the current epoch are numbered up to vrf_attempts; a        *)
(* pending request, even with its whole window ahead, ends before the      *)
(* absolute lifetime; and Carnage has not yet run in an epoch that is      *)
(* still awaiting its reveal.                                              *)
(***************************************************************************)
BeforeMigration ==
  ~Active => /\ requested = {}
             /\ vrf_attempts = 0
             /\ vrf_pending => pending_randomness_account = LegacyAccount

RequestsNumbered ==
  \A s \in requested : s[1] = current_epoch => s[2] =< vrf_attempts

WindowFits ==
  vrf_pending /\ Active =>
    vrf_request_slot + VRF_TIMEOUT_SLOTS
      < vrf_transition_start_slot + MAX_VRF_PENDING_SLOTS

NoCarnageYet ==
  vrf_pending => current_epoch > 0 /\ last_carnage_epoch < current_epoch

IInv ==
  /\ TypeOK
  /\ OnePhaseAtATime
  /\ BeforeMigration
  /\ RequestsNumbered
  /\ WindowFits
  /\ NoCarnageYet
  /\ SeedNeverReused
  /\ BoundToNewestRequest
  /\ StakingInStep
  /\ CarnageBoundToEpoch
  /\ CarnageMatchesHoldings

-----------------------------------------------------------------------------
\* Any reveal yields legal rates and a legal cheap side.
LEMMA DeriveTyped ==
  ASSUME NEW vrf \in VrfResult, NEW c \in Token
  PROVE  /\ derive_taxes(vrf, c) \in TaxConfig
         /\ derive_cheap_side(vrf, c) \in Token
<1>1. ASSUME NEW b \in 0..7
      PROVE  /\ LOW_RATES[1 + (vrf[b] % 4)] \in Rate
             /\ HIGH_RATES[1 + (vrf[b] % 4)] \in Rate
  <2>1. vrf[b] \in 0..255
    BY <1>1 DEF VrfResult, Byte
  <2>2. 1 + (vrf[b] % 4) \in 1..4
    BY <2>1
  <2>3. QED BY <2>2 DEF Rate
<1>2. \A t \in Token : magnitude(vrf, t) \in [low : Rate, high : Rate]
  BY <1>1 DEF magnitude, Token
<1>3. derive_cheap_side(vrf, c) \in Token
  BY DEF derive_cheap_side, opposite, Token
<1>4. QED BY <1>2, <1>3 DEF derive_taxes, TaxConfig

\* The rates of a fresh deployment are a tax configuration.
LEMMA GenesisTyped == genesis_taxes \in TaxConfig
<1>1. 300 \in Rate
  <2>1. LOW_RATES[3] = 300 BY DEF LOW_RATES
  <2>2. QED BY <2>1 DEF Rate
<1>2. 1400 \in Rate
  <2>1. HIGH_RATES[4] = 1400 BY DEF HIGH_RATES
  <2>2. QED BY <2>1 DEF Rate
<1>3. QED
  BY <1>1, <1>2 DEF genesis_taxes, TaxConfig, Token, GENESIS_LOW_TAX_BPS,
                    GENESIS_HIGH_TAX_BPS

\* The timing in force is one of the given ones, so it consists of naturals.
LEMMA ConfigTyped ==
  ASSUME arb_config \in {[len |-> t[1], pause |-> t[2]] : t \in Timings}
  PROVE  arb_config.len \in Nat /\ arb_config.pause \in Nat
BY ConfigConstants

\* What a member of the set of seeds is.
LEMMA SeedsAre ==
  ASSUME NEW e \in Nat, NEW s \in SeedsUpTo(e)
  PROVE  s[1] \in 0..e /\ s[2] \in 1..MAX_VRF_ATTEMPTS
BY DEF SeedsUpTo, Seed

\* The set of possible request accounts grows with the epochs and the attempts.
LEMMA SeedsGrow ==
  ASSUME NEW e \in Nat
  PROVE  SeedsUpTo(e) \subseteq SeedsUpTo(e + 1)
BY DEF SeedsUpTo

\* A request's own account is among the possible ones of its epoch.
LEMMA SeedIn ==
  ASSUME NEW e \in Nat, NEW d \in 0..e, NEW a \in 1..MAX_VRF_ATTEMPTS
  PROVE  Seed(d, a) \in SeedsUpTo(e)
BY DEF SeedsUpTo

\* The timing constants, under the names the proofs cite.
LEMMA SlotFacts ==
  /\ VRF_TIMEOUT_SLOTS \in Nat /\ GRACE_SLOTS \in Nat
  /\ MAX_VRF_ATTEMPTS \in Nat /\ MAX_VRF_ATTEMPTS >= 1
  /\ MAX_VRF_PENDING_SLOTS \in Nat
  /\ VRF_TIMEOUT_SLOTS < MAX_VRF_PENDING_SLOTS
  /\ CARNAGE_DEADLINE_SLOTS \in Nat /\ CARNAGE_LOCK_SLOTS \in Nat
  /\ CARNAGE_LOCK_SLOTS < CARNAGE_DEADLINE_SLOTS
BY SlotConstants

\* What the two kinds of initial state have in common.
LEMMA InitCommon ==
  ASSUME Init
  PROVE  /\ slot = 0 /\ safety_version \in {0, 1}
         /\ current_epoch \in Nat
         /\ epoch_start_slot = 0 /\ pause_end_slot = 0
         /\ cheap_side \in Token /\ taxes \in TaxConfig
         /\ vrf_pending \in BOOLEAN /\ taxes_confirmed = ~vrf_pending
         /\ vrf_pending => /\ pending_randomness_account = LegacyAccount
                           /\ safety_version = 0 /\ current_epoch > 0
         /\ AccountOK(pending_randomness_account)
         /\ vrf_request_slot = 0
         /\ held_amount \in Nat /\ total_triggers = 0
         /\ last_update_epoch \in Nat
         /\ last_update_epoch = IF vrf_pending THEN current_epoch - 1 ELSE current_epoch
         /\ last_carnage_epoch \in 0..last_update_epoch
<1>1. CASE InitFresh
  <2>1. cheap_side \in Token /\ taxes \in TaxConfig
    BY <1>1, GenesisTyped DEF InitFresh, Token
  <2>2. AccountOK(pending_randomness_account)
    BY <1>1 DEF InitFresh, AccountOK
  <2>3. vrf_pending \in BOOLEAN /\ taxes_confirmed = ~vrf_pending /\ ~vrf_pending
    BY <1>1, Zenon DEF InitFresh
  <2>4. /\ slot = 0 /\ safety_version \in {0, 1} /\ current_epoch \in Nat
        /\ epoch_start_slot = 0 /\ pause_end_slot = 0 /\ vrf_request_slot = 0
        /\ held_amount \in Nat /\ total_triggers = 0
        /\ last_update_epoch \in Nat /\ last_update_epoch = current_epoch
        /\ last_carnage_epoch \in 0..last_update_epoch
    BY <1>1 DEF InitFresh
  <2>5. QED
    BY <2>1, <2>2, <2>3, <2>4
<1>2. CASE InitLegacy
  <2>1. [i \in 0..7 |-> 192] \in VrfResult
    BY DEF VrfResult, Byte
  <2>2. taxes \in TaxConfig
    BY <1>2, <2>1, DeriveTyped DEF InitLegacy
  <2>3. current_epoch \in Nat /\ last_update_epoch \in Nat
    BY <1>2, DataConstants DEF InitLegacy
  <2>4. held_amount \in Nat
    BY <1>2, DataConstants DEF InitLegacy
  <2>5. AccountOK(pending_randomness_account)
    BY <1>2 DEF InitLegacy, AccountOK
  <2>6. QED
    BY <1>2, <2>2, <2>3, <2>4, <2>5 DEF InitLegacy
<1>3. QED BY <1>1, <1>2 DEF Init

\* A fresh deployment and a state before the migration satisfy the invariant.
LEMMA InitIInv == Init => IInv
<1> SUFFICES ASSUME Init PROVE IInv
  OBVIOUS
<1> USE SlotFacts, InitCommon
<1>1. TypeOK
  <2>1. /\ vrf_transition_start_slot = 0 /\ vrf_attempts = 0
        /\ carnage_pending = FALSE /\ carnage_target \in Token
        /\ carnage_action \in Action /\ carnage_generation = 0
        /\ carnage_deadline_slot = 0 /\ carnage_lock_slot = 0
        /\ last_degraded_epoch = 0 /\ last_vrf_fallback_reason \in TerminalReason
        /\ requested = {} /\ fulfilled = {}
    BY DEF Init, Action, TerminalReason, Token
  <2>2. arb_config \in {[len |-> t[1], pause |-> t[2]] : t \in Timings}
    BY DEF Init
  <2>3. last_carnage_epoch \in 0..current_epoch
    OBVIOUS
  <2>4. requested \subseteq SeedsUpTo(current_epoch) /\ fulfilled \subseteq requested
    BY <2>1
  <2>5. /\ vrf_request_slot \in 0..slot /\ vrf_transition_start_slot \in 0..slot
        /\ vrf_attempts \in 0..MAX_VRF_ATTEMPTS
        /\ carnage_generation \in 0..current_epoch
        /\ last_degraded_epoch \in 0..current_epoch
    BY <2>1
  <2>6. /\ vrf_pending \in BOOLEAN /\ taxes_confirmed \in BOOLEAN
        /\ carnage_pending \in BOOLEAN
    BY <2>1, Zenon
  <2>7. QED
    BY <2>1, <2>2, <2>3, <2>4, <2>5, <2>6 DEF TypeOK
<1>2. OnePhaseAtATime
  BY DEF Init, OnePhaseAtATime
<1>3. BeforeMigration /\ RequestsNumbered
  BY DEF Init, BeforeMigration, RequestsNumbered, Active
<1>4. WindowFits /\ NoCarnageYet
  BY DEF WindowFits, NoCarnageYet, Active
<1>5. SeedNeverReused /\ BoundToNewestRequest
  <2>1. SeedNeverReused
    BY DEF Init, SeedNeverReused
  <2>2. ~(vrf_pending /\ Active)
    BY DEF Active
  <2>3. QED
    BY <2>1, <2>2 DEF BoundToNewestRequest
<1>6. StakingInStep
  BY DEF StakingInStep
<1>7. CarnageBoundToEpoch /\ CarnageMatchesHoldings
  BY DEF Init, CarnageBoundToEpoch, CarnageMatchesHoldings
<1>8. QED
  BY <1>1, <1>2, <1>3, <1>4, <1>5, <1>6, <1>7 DEF IInv

-----------------------------------------------------------------------------
(* The environment's steps disturb the types only.                         *)

\* Time passing keeps the invariant.
LEMMA TickInv ==
  ASSUME IInv, Tick
  PROVE  IInv'
<1>1. TypeOK'
  <2>1. slot' \in Nat /\ vrf_request_slot' \in 0..slot' /\ vrf_transition_start_slot' \in 0..slot'
    BY DEF IInv, TypeOK, Tick, vrfVars, attemptVars
  <2>2. QED
    BY <2>1 DEF IInv, TypeOK, AccountOK, Tick, clockVars, taxVars, vrfVars, attemptVars,
       carnageVars, degradedVars, fundVars, oracleVars
<1>2. QED
  BY <1>1 DEF IInv, OnePhaseAtATime, BeforeMigration, RequestsNumbered, WindowFits,
     NoCarnageYet, SeedNeverReused, BoundToNewestRequest, StakingInStep,
     CarnageBoundToEpoch, CarnageMatchesHoldings, Active, Tick, clockVars, taxVars,
     vrfVars, attemptVars, carnageVars, degradedVars, fundVars, oracleVars

\* The oracle answering a request keeps the invariant.
LEMMA FulfilInv ==
  ASSUME IInv, NEW seed \in requested, Fulfil(seed)
  PROVE  IInv'
<1>1. TypeOK'
  BY DEF IInv, TypeOK, AccountOK, Fulfil, configVars, clockVars, taxVars, vrfVars,
     attemptVars, carnageVars, degradedVars, fundVars
<1>2. QED
  BY <1>1 DEF IInv, OnePhaseAtATime, BeforeMigration, RequestsNumbered, WindowFits,
     NoCarnageYet, SeedNeverReused, BoundToNewestRequest, StakingInStep,
     CarnageBoundToEpoch, CarnageMatchesHoldings, Active, Fulfil, configVars, clockVars,
     taxVars, vrfVars, attemptVars, carnageVars, degradedVars, fundVars

\* Changing the timing, even in mid-epoch, keeps the invariant.
LEMMA UpdateArbConfigInv ==
  ASSUME IInv, NEW t \in Timings, UpdateArbConfig(t)
  PROVE  IInv'
<1>1. TypeOK'
  BY DEF IInv, TypeOK, AccountOK, UpdateArbConfig, clockVars, taxVars, vrfVars,
     attemptVars, carnageVars, degradedVars, fundVars, oracleVars
<1>2. QED
  BY <1>1 DEF IInv, OnePhaseAtATime, BeforeMigration, RequestsNumbered, WindowFits,
     NoCarnageYet, SeedNeverReused, BoundToNewestRequest, StakingInStep,
     CarnageBoundToEpoch, CarnageMatchesHoldings, Active, UpdateArbConfig, clockVars,
     taxVars, vrfVars, attemptVars, carnageVars, degradedVars, fundVars, oracleVars

\* The invariant speaks of the variables only.
LEMMA StutterInv ==
  ASSUME IInv, UNCHANGED vars
  PROVE  IInv'
<1>1. TypeOK'
  BY DEF IInv, TypeOK, AccountOK, vars, configVars, clockVars, taxVars, vrfVars,
     attemptVars, carnageVars, degradedVars, fundVars, oracleVars
<1>2. QED
  BY <1>1 DEF IInv, OnePhaseAtATime, BeforeMigration, RequestsNumbered, WindowFits,
     NoCarnageYet, SeedNeverReused, BoundToNewestRequest, StakingInStep,
     CarnageBoundToEpoch, CarnageMatchesHoldings, Active, vars, configVars, clockVars,
     taxVars, vrfVars, attemptVars, carnageVars, degradedVars, fundVars, oracleVars

-----------------------------------------------------------------------------
(* The instructions.                                                       *)

\* Opening a transition keeps the invariant: its request account is new.
LEMMA TriggerInv ==
  ASSUME IInv, NEW c \in Callers, TriggerEpochTransition(c)
  PROVE  IInv'
<1> USE SlotFacts DEF TriggerEpochTransition, may_trigger
<1> DEFINE e == current_epoch + 1
<1>1. /\ current_epoch \in Nat /\ e \in Nat /\ current_epoch' = e
      /\ slot \in Nat /\ slot' = slot
      /\ vrf_pending' = TRUE /\ ~vrf_pending /\ ~carnage_pending
      /\ arb_config.pause \in Nat
  BY ConfigTyped DEF IInv, TypeOK, quiescent, configVars
<1>2. /\ requested \subseteq SeedsUpTo(current_epoch)
      /\ requested' = requested \cup {Seed(e, 1)}
  BY DEF IInv, TypeOK, request_v2
<1>3. requested' \subseteq SeedsUpTo(e) /\ Seed(e, 1) \in SeedsUpTo(e)
  BY <1>1, <1>2, SeedsGrow, SeedIn
<1>4. /\ pending_randomness_account' = Seed(e, 1)
      /\ vrf_request_slot' = slot /\ vrf_transition_start_slot' = slot
      /\ vrf_attempts' = 1
  BY DEF BindRequest
<1>5. \A s \in requested : s[1] < e
  BY <1>1, <1>2, SeedsAre
<1>6. TypeOK'
  <2>1. AccountOK(pending_randomness_account)'
    BY <1>1, <1>3, <1>4 DEF AccountOK
  <2>2. pause_end_slot' \in Nat /\ epoch_start_slot' \in Nat
    BY <1>1 DEF trigger_pause_end_slot
  <2>3. /\ carnage_generation' \in 0..e /\ last_carnage_epoch' \in 0..e
        /\ last_degraded_epoch' \in 0..e /\ current_epoch' \in Nat
    BY <1>1 DEF IInv, TypeOK, carnageVars, fundVars, degradedVars
  <2>4. vrf_pending' \in BOOLEAN /\ taxes_confirmed' \in BOOLEAN
    BY Zenon
  <2>5. fulfilled' \subseteq requested'
    BY <1>2 DEF IInv, TypeOK
  <2>6. /\ vrf_request_slot' \in 0..slot' /\ vrf_transition_start_slot' \in 0..slot'
        /\ vrf_attempts' \in 0..MAX_VRF_ATTEMPTS
    BY <1>1, <1>4
  <2>7. QED
    BY <1>1, <1>3, <2>1, <2>2, <2>3, <2>4, <2>5, <2>6
       DEF IInv, TypeOK, configVars, taxVars, carnageVars, degradedVars, fundVars
<1>7. OnePhaseAtATime'
  BY <1>1 DEF OnePhaseAtATime, carnageVars
<1>8. BeforeMigration'
  BY DEF BeforeMigration, Active
<1>9. RequestsNumbered'
  BY <1>1, <1>2, <1>4, <1>5 DEF RequestsNumbered, Seed
<1>10. WindowFits'
  BY <1>1, <1>4 DEF WindowFits
<1>11. NoCarnageYet'
  BY <1>1 DEF IInv, TypeOK, NoCarnageYet, fundVars
<1>12. SeedNeverReused'
  <2>1. /\ Seed(e, 1)[1] = e /\ Seed(e, 1)[2] = 1
        /\ Seed(e, 2)[1] = e /\ Seed(e, 2)[2] = 2
        /\ Seed(e + 1, 1)[1] = e + 1
    BY DEF Seed
  <2>2. \A s \in requested : s[1] \in Int /\ s[1] < e
    BY <1>1, <1>2, <1>5, SeedsAre
  <2>3. Seed(e + 1, 1) \notin requested'
    BY <1>1, <1>2, <2>1, <2>2
  <2>4. Seed(e, 2) \notin requested'
    BY <1>1, <1>2, <2>1, <2>2
  <2>5. QED
    BY <1>1, <1>4, <2>3, <2>4 DEF SeedNeverReused
<1>13. BoundToNewestRequest'
  BY <1>1, <1>2, <1>4, <1>5 DEF BoundToNewestRequest, Seed
<1>14. StakingInStep'
  BY <1>1 DEF IInv, StakingInStep
<1>15. CarnageBoundToEpoch' /\ CarnageMatchesHoldings'
  BY <1>1 DEF IInv, CarnageBoundToEpoch, CarnageMatchesHoldings, carnageVars, fundVars
<1>16. QED
  BY <1>6, <1>7, <1>8, <1>9, <1>10, <1>11, <1>12, <1>13, <1>14, <1>15 DEF IInv

\* Replacing a request keeps the invariant: the newer request is bound, with a
\* full window of its own.
LEMMA RetryInv ==
  ASSUME IInv, NEW c \in Callers, RetryEpochVrf(c)
  PROVE  IInv'
<1> USE SlotFacts DEF RetryEpochVrf
<1> DEFINE n == vrf_attempts + 1
           seed == Seed(current_epoch, n)
<1>1. /\ current_epoch \in Nat /\ current_epoch' = current_epoch
      /\ slot \in Nat /\ slot' = slot
      /\ vrf_attempts \in Nat /\ n \in 1..MAX_VRF_ATTEMPTS /\ vrf_attempts' = n
      /\ vrf_transition_start_slot \in Nat
      /\ vrf_transition_start_slot' = vrf_transition_start_slot
  BY DEF IInv, TypeOK, configVars, clockVars, attempts_left
<1>2. vrf_pending /\ vrf_pending' = vrf_pending /\ Active /\ Active'
  BY DEF Active
<1>3. /\ requested \subseteq SeedsUpTo(current_epoch)
      /\ requested' = requested \cup {seed}
      /\ seed \in SeedsUpTo(current_epoch)
  BY <1>1, SeedIn DEF IInv, TypeOK, request_v2
<1>4. pending_randomness_account' = seed /\ vrf_request_slot' = slot
  BY DEF BindRequest
<1>5. \A s \in requested' : s[1] = current_epoch => s[2] =< n
  <2>1. \A s \in requested : s[1] = current_epoch => s[2] =< vrf_attempts
    BY DEF IInv, RequestsNumbered
  <2>2. \A s \in requested : s[2] \in Nat
    BY <1>1, <1>3, SeedsAre
  <2>3. seed[2] = n
    BY DEF Seed
  <2>4. QED
    BY <1>1, <1>3, <2>1, <2>2, <2>3
<1>6. TypeOK'
  <2>1. AccountOK(pending_randomness_account)'
    BY <1>1, <1>3, <1>4 DEF AccountOK
  <2>2. requested' \subseteq SeedsUpTo(current_epoch') /\ fulfilled' \subseteq requested'
    BY <1>1, <1>3 DEF IInv, TypeOK
  <2>3. vrf_request_slot' \in 0..slot' /\ vrf_attempts' \in 0..MAX_VRF_ATTEMPTS
    BY <1>1, <1>4
  <2>4. QED
    BY <2>1, <2>2, <2>3 DEF IInv, TypeOK, configVars, clockVars, taxVars, carnageVars,
       degradedVars, fundVars
<1>7. OnePhaseAtATime' /\ BeforeMigration' /\ NoCarnageYet' /\ StakingInStep'
      /\ CarnageBoundToEpoch' /\ CarnageMatchesHoldings'
  BY <1>1, <1>2 DEF IInv, OnePhaseAtATime, BeforeMigration, NoCarnageYet, StakingInStep,
     CarnageBoundToEpoch, CarnageMatchesHoldings, Active, carnageVars, fundVars
<1>8. RequestsNumbered'
  BY <1>1, <1>5 DEF RequestsNumbered
<1>9. WindowFits'
  BY <1>1, <1>4 DEF WindowFits, retry_preserves_full_reveal_window
<1>10. SeedNeverReused'
  <2>1. \A s \in requested' : s[1] =< current_epoch
    BY <1>1, <1>3, SeedsAre
  <2>2. /\ Seed(current_epoch + 1, 1)[1] = current_epoch + 1
        /\ Seed(current_epoch, n + 1)[1] = current_epoch
        /\ Seed(current_epoch, n + 1)[2] = n + 1
    BY DEF Seed
  <2>3. QED
    BY <1>1, <1>5, <2>1, <2>2 DEF SeedNeverReused
<1>11. BoundToNewestRequest'
  BY <1>1, <1>3, <1>4, <1>5 DEF BoundToNewestRequest
<1>12. QED
  BY <1>6, <1>7, <1>8, <1>9, <1>10, <1>11 DEF IInv

\* What every way of closing an epoch has in common.
LEMMA CloseInv ==
  ASSUME IInv, vrf_pending, Active, ClearVrf, finalize_staking_epoch,
         UNCHANGED <<configVars, safety_version, clockVars, attemptVars, fundVars, oracleVars>>
  PROVE  /\ OnePhaseAtATime'
         /\ BeforeMigration' /\ RequestsNumbered' /\ WindowFits' /\ NoCarnageYet'
         /\ SeedNeverReused' /\ BoundToNewestRequest' /\ StakingInStep'
         /\ vrf_pending' \in BOOLEAN /\ taxes_confirmed' \in BOOLEAN
         /\ vrf_request_slot' \in 0..slot' /\ AccountOK(pending_randomness_account)'
         /\ last_update_epoch' \in Nat
<1> USE DEF ClearVrf, configVars, clockVars, attemptVars, fundVars, oracleVars
<1>1. vrf_pending' = FALSE /\ taxes_confirmed' = TRUE /\ Active'
  BY DEF Active
<1>2. OnePhaseAtATime'
  BY <1>1 DEF OnePhaseAtATime
<1>3. BeforeMigration' /\ WindowFits' /\ NoCarnageYet' /\ BoundToNewestRequest'
  BY <1>1 DEF BeforeMigration, WindowFits, NoCarnageYet, BoundToNewestRequest
<1>4. RequestsNumbered' /\ SeedNeverReused'
  BY <1>1 DEF IInv, RequestsNumbered, SeedNeverReused
<1>5. StakingInStep' /\ last_update_epoch' \in Nat
  BY <1>1 DEF IInv, TypeOK, StakingInStep, finalize_staking_epoch
<1>6. vrf_request_slot' \in 0..slot' /\ AccountOK(pending_randomness_account)'
  BY DEF IInv, TypeOK, AccountOK
<1>7. QED
  BY <1>1, <1>2, <1>3, <1>4, <1>5, <1>6, Zenon

\* Consuming a reveal keeps the invariant: the staking CPI accepts the epoch.
LEMMA ConsumeInv ==
  ASSUME IInv, NEW account \in requested, NEW vrf \in Reveals,
         ConsumeRandomness(account, vrf)
  PROVE  IInv'
<1> USE SlotFacts DEF ConsumeRandomness
<1>1. /\ vrf \in VrfResult
      /\ derive_taxes(vrf, cheap_side) \in TaxConfig
      /\ derive_cheap_side(vrf, cheap_side) \in Token
  BY DataConstants, DeriveTyped DEF IInv, TypeOK
<1>2. /\ OnePhaseAtATime'
      /\ BeforeMigration' /\ RequestsNumbered' /\ WindowFits' /\ NoCarnageYet'
      /\ SeedNeverReused' /\ BoundToNewestRequest' /\ StakingInStep'
      /\ vrf_pending' \in BOOLEAN /\ taxes_confirmed' \in BOOLEAN
      /\ vrf_request_slot' \in 0..slot' /\ AccountOK(pending_randomness_account)'
      /\ last_update_epoch' \in Nat
  BY CloseInv
<1>3. /\ slot \in Nat /\ slot' = slot
      /\ current_epoch \in Nat /\ current_epoch' = current_epoch
      /\ last_carnage_epoch' = last_carnage_epoch /\ last_carnage_epoch < current_epoch
      /\ held_amount \in Nat /\ held_amount' = held_amount
  BY DEF IInv, TypeOK, NoCarnageYet, configVars, clockVars, fundVars
<1>4. pause_end_slot' \in Nat
  BY ConfigTyped, <1>3 DEF IInv, TypeOK, consume_pause_end_slot
<1>5. /\ carnage_pending' \in BOOLEAN
      /\ carnage_target' \in Token
      /\ carnage_action' \in Action
      /\ carnage_generation' \in 0..current_epoch
      /\ carnage_deadline_slot' \in Nat /\ carnage_lock_slot' \in Nat
      /\ CarnageBoundToEpoch' /\ CarnageMatchesHoldings'
  <2>1. CASE is_carnage_triggered(vrf)
    <3>1. /\ carnage_pending' = TRUE /\ carnage_generation' = current_epoch
          /\ carnage_action' = get_carnage_action(vrf, held_amount > 0)
          /\ carnage_target' = get_carnage_target(vrf)
          /\ carnage_deadline_slot' = slot + CARNAGE_DEADLINE_SLOTS
          /\ carnage_lock_slot' = slot + CARNAGE_LOCK_SLOTS
      BY <2>1 DEF ScheduleCarnage
    <3>2. carnage_pending' \in BOOLEAN
      BY <3>1, Zenon
    <3>3. carnage_action' \in Action /\ (carnage_action' = "None" <=> held_amount = 0)
      <4>1. CASE held_amount > 0
        BY <1>3, <3>1, <4>1 DEF get_carnage_action, Action
      <4>2. CASE ~(held_amount > 0)
        BY <1>3, <3>1, <4>2 DEF get_carnage_action, Action
      <4>3. QED BY <4>1, <4>2
    <3>4. carnage_target' \in Token
      BY <3>1 DEF get_carnage_target, Token
    <3>5. /\ carnage_generation' \in 0..current_epoch
          /\ carnage_deadline_slot' \in Nat /\ carnage_lock_slot' \in Nat
          /\ carnage_lock_slot' < carnage_deadline_slot'
      BY <1>3, <3>1
    <3>6. CarnageBoundToEpoch'
      BY <1>3, <3>1, <3>5 DEF CarnageBoundToEpoch
    <3>7. CarnageMatchesHoldings'
      BY <1>3, <3>3 DEF CarnageMatchesHoldings
    <3>8. QED
      BY <3>2, <3>3, <3>4, <3>5, <3>6, <3>7
  <2>2. CASE ~is_carnage_triggered(vrf)
    <3>1. ClearCarnage /\ UNCHANGED carnage_target
      BY <2>2 DEF ScheduleCarnage
    <3>2. carnage_pending' \in BOOLEAN
      BY <3>1, Zenon DEF ClearCarnage
    <3>3. QED
      BY <1>3, <3>1, <3>2 DEF ClearCarnage, IInv, TypeOK, Action, CarnageBoundToEpoch,
         CarnageMatchesHoldings
  <2>3. QED BY <2>1, <2>2
<1>6. TypeOK'
  BY <1>1, <1>2, <1>3, <1>4, <1>5 DEF IInv, TypeOK, configVars, clockVars, attemptVars,
     degradedVars, fundVars, oracleVars
<1>7. QED
  BY <1>2, <1>5, <1>6 DEF IInv

\* What clearing a Carnage leaves.
LEMMA ClearInv ==
  ASSUME TypeOK, ClearCarnage, UNCHANGED <<slot, current_epoch>>
  PROVE  /\ carnage_pending' \in BOOLEAN /\ carnage_action' \in Action
         /\ carnage_generation' \in 0..current_epoch'
         /\ carnage_deadline_slot' \in Nat /\ carnage_lock_slot' \in Nat
         /\ CarnageBoundToEpoch' /\ CarnageMatchesHoldings'
<1>1. carnage_pending' \in BOOLEAN
  BY Zenon DEF ClearCarnage
<1>2. QED
  BY <1>1 DEF ClearCarnage, TypeOK, Action, CarnageBoundToEpoch, CarnageMatchesHoldings

\* The terminal fallback keeps the invariant.
LEMMA TerminalInv ==
  ASSUME IInv, TerminalVrfFallback
  PROVE  IInv'
<1> USE SlotFacts DEF TerminalVrfFallback, may_fall_back
<1>1. /\ OnePhaseAtATime'
      /\ BeforeMigration' /\ RequestsNumbered' /\ WindowFits' /\ NoCarnageYet'
      /\ SeedNeverReused' /\ BoundToNewestRequest' /\ StakingInStep'
      /\ vrf_pending' \in BOOLEAN /\ taxes_confirmed' \in BOOLEAN
      /\ vrf_request_slot' \in 0..slot' /\ AccountOK(pending_randomness_account)'
      /\ last_update_epoch' \in Nat
  BY CloseInv
<1>2. /\ carnage_pending' \in BOOLEAN /\ carnage_action' \in Action
      /\ carnage_generation' \in 0..current_epoch'
      /\ carnage_deadline_slot' \in Nat /\ carnage_lock_slot' \in Nat
      /\ CarnageBoundToEpoch' /\ CarnageMatchesHoldings'
  BY ClearInv DEF IInv, configVars, clockVars
<1>3. last_vrf_fallback_reason' \in TerminalReason
  BY DEF terminal_vrf_reason, TerminalReason
<1>4. last_degraded_epoch' \in 0..current_epoch'
  BY DEF IInv, TypeOK, clockVars
<1>5. TypeOK'
  BY <1>1, <1>2, <1>3, <1>4 DEF IInv, TypeOK, configVars, clockVars, taxVars, attemptVars,
     fundVars, oracleVars
<1>6. QED
  BY <1>1, <1>2, <1>5 DEF IInv

\* Both execution paths end in execute_carnage_core.
LEMMA CoreInv ==
  ASSUME IInv, carnage_pending, NEW bought \in Purchases, execute_carnage_core(bought)
  PROVE  IInv'
<1> USE SlotFacts DEF execute_carnage_core
<1>1. /\ carnage_pending' \in BOOLEAN /\ carnage_action' \in Action
      /\ carnage_generation' \in 0..current_epoch'
      /\ carnage_deadline_slot' \in Nat /\ carnage_lock_slot' \in Nat
      /\ CarnageBoundToEpoch' /\ CarnageMatchesHoldings'
  BY ClearInv DEF IInv, configVars, clockVars
<1>2. ~vrf_pending /\ Active
  BY DEF IInv, OnePhaseAtATime
<1>3. /\ held_amount' \in Nat /\ total_triggers' \in Nat
      /\ last_carnage_epoch' \in 0..current_epoch'
  BY DataConstants DEF IInv, TypeOK, clockVars
<1>4. TypeOK'
  BY <1>1, <1>3 DEF IInv, TypeOK, AccountOK, configVars, clockVars, taxVars, vrfVars,
     attemptVars, degradedVars, oracleVars
<1>5. OnePhaseAtATime' /\ BeforeMigration' /\ WindowFits' /\ NoCarnageYet'
      /\ BoundToNewestRequest' /\ StakingInStep'
  BY <1>2 DEF IInv, OnePhaseAtATime, BeforeMigration, WindowFits, NoCarnageYet,
     BoundToNewestRequest, StakingInStep, Active, clockVars, vrfVars, attemptVars, oracleVars
<1>6. RequestsNumbered' /\ SeedNeverReused'
  BY DEF IInv, RequestsNumbered, SeedNeverReused, clockVars, vrfVars, attemptVars, oracleVars
<1>7. QED
  BY <1>1, <1>4, <1>5, <1>6 DEF IInv

\* Expiring a Carnage keeps the invariant.
LEMMA ExpireInv ==
  ASSUME IInv, NEW generation, ExpireCarnage(generation)
  PROVE  IInv'
<1> USE SlotFacts DEF ExpireCarnage, may_expire
<1>1. /\ carnage_pending' \in BOOLEAN /\ carnage_action' \in Action
      /\ carnage_generation' \in 0..current_epoch'
      /\ carnage_deadline_slot' \in Nat /\ carnage_lock_slot' \in Nat
      /\ CarnageBoundToEpoch' /\ CarnageMatchesHoldings'
  BY ClearInv DEF IInv, configVars, clockVars
<1>2. ~vrf_pending
  BY DEF IInv, OnePhaseAtATime
<1>3. TypeOK'
  BY <1>1 DEF IInv, TypeOK, AccountOK, configVars, clockVars, taxVars, vrfVars,
     attemptVars, degradedVars, fundVars, oracleVars
<1>4. OnePhaseAtATime' /\ BeforeMigration' /\ WindowFits' /\ NoCarnageYet'
      /\ BoundToNewestRequest' /\ StakingInStep'
  BY <1>2 DEF IInv, OnePhaseAtATime, BeforeMigration, WindowFits, NoCarnageYet,
     BoundToNewestRequest, StakingInStep, Active, clockVars, vrfVars, attemptVars, oracleVars
<1>5. RequestsNumbered' /\ SeedNeverReused'
  BY DEF IInv, RequestsNumbered, SeedNeverReused, clockVars, vrfVars, attemptVars, oracleVars
<1>6. QED
  BY <1>1, <1>3, <1>4, <1>5 DEF IInv

\* The migration keeps the invariant, whatever request was pending.
LEMMA ActivateInv ==
  ASSUME IInv, ActivateEpochSafety
  PROVE  IInv'
<1> USE SlotFacts DEF ActivateEpochSafety, may_activate
<1>1. /\ ~Active /\ Active' /\ ~carnage_pending /\ ~carnage_pending'
      /\ requested = {} /\ requested' = {}
      /\ vrf_pending' = vrf_pending
      /\ vrf_pending => pending_randomness_account = LegacyAccount
      /\ slot \in Nat /\ slot' = slot
  BY DEF IInv, TypeOK, BeforeMigration, Active, configVars, vrfVars, oracleVars
<1>2. TypeOK'
  <2>1. /\ vrf_transition_start_slot' \in 0..slot'
        /\ vrf_attempts' \in 0..MAX_VRF_ATTEMPTS
        /\ last_vrf_fallback_reason' \in TerminalReason
        /\ safety_version' \in {0, 1}
    BY <1>1 DEF TerminalReason
  <2>2. carnage_generation' \in 0..current_epoch' /\ last_degraded_epoch' \in 0..current_epoch'
    BY DEF IInv, TypeOK, clockVars
  <2>3. QED
    BY <2>1, <2>2 DEF IInv, TypeOK, AccountOK, configVars, clockVars, taxVars, vrfVars,
       fundVars, oracleVars
<1>3. OnePhaseAtATime' /\ BeforeMigration' /\ RequestsNumbered' /\ NoCarnageYet'
      /\ StakingInStep' /\ CarnageBoundToEpoch' /\ CarnageMatchesHoldings'
  BY <1>1 DEF IInv, OnePhaseAtATime, BeforeMigration, RequestsNumbered, NoCarnageYet,
     StakingInStep, CarnageBoundToEpoch, CarnageMatchesHoldings, clockVars, vrfVars, fundVars
<1>4. WindowFits'
  BY <1>1 DEF IInv, TypeOK, WindowFits, vrfVars
<1>5. SeedNeverReused'
  BY <1>1 DEF SeedNeverReused
<1>6. BoundToNewestRequest'
  BY <1>1 DEF BoundToNewestRequest, vrfVars
<1>7. QED
  BY <1>2, <1>3, <1>4, <1>5, <1>6 DEF IInv

\* The strengthened invariant is inductive.
LEMMA NextInv == IInv /\ [Next]_vars => IInv'
<1> SUFFICES ASSUME IInv, [Next]_vars PROVE IInv'
  OBVIOUS
<1>1. CASE Tick
  BY <1>1, TickInv
<1>2. ASSUME NEW seed \in requested, Fulfil(seed) PROVE IInv'
  BY <1>2, FulfilInv
<1>3. ASSUME NEW t \in Timings, UpdateArbConfig(t) PROVE IInv'
  BY <1>3, UpdateArbConfigInv
<1>4. ASSUME NEW c \in Callers, TriggerEpochTransition(c) PROVE IInv'
  BY <1>4, TriggerInv
<1>5. ASSUME NEW c \in Callers, RetryEpochVrf(c) PROVE IInv'
  BY <1>5, RetryInv
<1>6. ASSUME NEW account \in requested, NEW vrf \in Reveals,
             ConsumeRandomness(account, vrf)
      PROVE  IInv'
  BY <1>6, ConsumeInv
<1>7. CASE TerminalVrfFallback
  BY <1>7, TerminalInv
<1>8. ASSUME NEW generation \in 0..current_epoch, NEW bought \in Purchases,
             \/ ExecuteCarnage(generation, bought)
             \/ ExecuteCarnageAtomic(generation, bought)
      PROVE  IInv'
  BY <1>8, CoreInv DEF ExecuteCarnage, ExecuteCarnageAtomic
<1>9. ASSUME NEW generation \in 0..current_epoch, ExpireCarnage(generation)
      PROVE  IInv'
  BY <1>9, ExpireInv
<1>10. CASE ActivateEpochSafety
  BY <1>10, ActivateInv
<1>11. CASE UNCHANGED vars
  BY <1>11, StutterInv
<1>12. QED
  BY <1>1, <1>2, <1>3, <1>4, <1>5, <1>6, <1>7, <1>8, <1>9, <1>10, <1>11 DEF Next

-----------------------------------------------------------------------------
(* The theorems.                                                           *)

\* The inductive invariant: TypeOK and every safety property of the lifecycle
\* hold in every reachable state, whatever the constants.
THEOREM Invariance == Spec => []IInv
<1>1. Init => IInv
  BY InitIInv
<1>2. IInv /\ [Next]_vars => IInv'
  BY NextInv
<1>3. QED
  BY <1>1, <1>2, PTL DEF Spec

\* Type correctness: in particular no request account exists but at the seeds
\* of the epochs and attempts made so far.
THEOREM TypeCorrect == Spec => []TypeOK
BY Invariance, PTL DEF IInv

\* An epoch awaits its reveal or is closed, and only a closed one may have a
\* Carnage pending.
THEOREM PhasesExclusive == Spec => []OnePhaseAtATime
BY Invariance, PTL DEF IInv

\* epoch_vrf_seed never yields an account that exists: no trigger and no retry
\* is ever refused by the oracle.
THEOREM SeedsUnique == Spec => []SeedNeverReused
BY Invariance, PTL DEF IInv

\* Anti-reroll: consume_randomness accepts the newest request of the epoch only.
THEOREM NoReroll == Spec => []BoundToNewestRequest
BY Invariance, PTL DEF IInv

\* The staking CPI never refuses the epoch the program closes.
THEOREM StakingNeverBlocks == Spec => []StakingInStep
BY Invariance, PTL DEF IInv

\* A pending Carnage is of the current epoch and has not run yet.
THEOREM CarnageBound == Spec => []CarnageBoundToEpoch
BY Invariance, PTL DEF IInv

\* The action chosen at the reveal still fits the holdings at execution.
THEOREM CarnageFitsHoldings == Spec => []CarnageMatchesHoldings
BY Invariance, PTL DEF IInv

\* Each request keeps its reveal window: neither terminal condition holds while
\* the request is at most VRF_TIMEOUT_SLOTS old.
THEOREM RevealWindowKept == Spec => []FullRevealWindow
<1>1. IInv => FullRevealWindow
  <2> SUFFICES ASSUME IInv, vrf_pending, Active,
                      slot =< vrf_request_slot + VRF_TIMEOUT_SLOTS
               PROVE  terminal_vrf_reason = "None"
    BY DEF FullRevealWindow
  <2>1. /\ slot \in Nat /\ vrf_request_slot \in Nat /\ vrf_transition_start_slot \in Nat
        /\ vrf_attempts \in Nat
    BY SlotFacts DEF IInv, TypeOK
  <2>2. slot - vrf_transition_start_slot < MAX_VRF_PENDING_SLOTS
    BY <2>1, SlotFacts DEF IInv, WindowFits
  <2>3. ~(slot - vrf_request_slot > VRF_TIMEOUT_SLOTS)
    BY <2>1, SlotFacts
  <2>4. QED
    BY <2>1, <2>2, <2>3, SlotFacts DEF terminal_vrf_reason
<1>2. QED
  BY <1>1, Invariance, PTL

\* A reveal puts the cheap side's own low rate on its buys, and so on.
LEMMA DeriveFavours ==
  ASSUME NEW vrf \in VrfResult, NEW c \in Token, NEW t \in Token
  PROVE  LET low  == {LOW_RATES[i] : i \in 1..4}
             high == {HIGH_RATES[i] : i \in 1..4}
             tax  == derive_taxes(vrf, c)
         IN  IF t = derive_cheap_side(vrf, c)
             THEN tax[t].buy \in low  /\ tax[t].sell \in high
             ELSE tax[t].buy \in high /\ tax[t].sell \in low
<1>1. ASSUME NEW b \in 0..7 PROVE 1 + (vrf[b] % 4) \in 1..4
  <2>1. vrf[b] \in 0..255
    BY <1>1 DEF VrfResult, Byte
  <2>2. QED BY <2>1
<1>2. /\ magnitude(vrf, t).low \in {LOW_RATES[i] : i \in 1..4}
      /\ magnitude(vrf, t).high \in {HIGH_RATES[i] : i \in 1..4}
  BY <1>1 DEF magnitude
<1>3. QED BY <1>2 DEF derive_taxes

\* Neither a reveal, a fallback nor the migration separates the four rates
\* from the cheap side they were rolled for.
THEOREM RatesFollowTheSide == Spec => []RatesFavourCheapSide
<1>1. Init => RatesFavourCheapSide
  <2>1. ASSUME InitFresh PROVE RatesFavourCheapSide
    <3>1. /\ 300 \in {LOW_RATES[i] : i \in 1..4}
          /\ 1400 \in {HIGH_RATES[i] : i \in 1..4}
      <4>1. LOW_RATES[3] = 300 /\ HIGH_RATES[4] = 1400
        BY DEF LOW_RATES, HIGH_RATES
      <4>2. QED BY <4>1
    <3>2. /\ genesis_taxes["CRIME"].buy = 300  /\ genesis_taxes["CRIME"].sell = 1400
          /\ genesis_taxes["FRAUD"].buy = 1400 /\ genesis_taxes["FRAUD"].sell = 300
      BY DEF genesis_taxes, GENESIS_LOW_TAX_BPS, GENESIS_HIGH_TAX_BPS, Token
    <3>3. cheap_side = "CRIME" /\ taxes = genesis_taxes
      BY <2>1 DEF InitFresh
    <3>4. QED
      BY <3>1, <3>2, <3>3 DEF RatesFavourCheapSide, Token
  <2>2. ASSUME InitLegacy PROVE RatesFavourCheapSide
    <3>1. [i \in 0..7 |-> 192] \in VrfResult
      BY DEF VrfResult, Byte
    <3>2. derive_cheap_side([i \in 0..7 |-> 192], cheap_side) = cheap_side
      BY DEF derive_cheap_side, FLIP_THRESHOLD
    <3>3. cheap_side \in Token /\ taxes = derive_taxes([i \in 0..7 |-> 192], cheap_side)
      BY <2>2 DEF InitLegacy
    <3>4. QED
      BY <3>1, <3>2, <3>3, DeriveFavours DEF RatesFavourCheapSide
  <2>3. QED BY <2>1, <2>2 DEF Init
<1>2. IInv /\ RatesFavourCheapSide /\ [Next]_vars => RatesFavourCheapSide'
  <2> SUFFICES ASSUME IInv, RatesFavourCheapSide, [Next]_vars
               PROVE  RatesFavourCheapSide'
    OBVIOUS
  <2>1. CASE UNCHANGED taxVars
    BY <2>1 DEF RatesFavourCheapSide, taxVars
  <2>2. ASSUME NEW account \in requested, NEW vrf \in Reveals,
               ConsumeRandomness(account, vrf)
        PROVE  RatesFavourCheapSide'
    <3>1. vrf \in VrfResult /\ cheap_side \in Token
      BY DataConstants DEF IInv, TypeOK
    <3>2. cheap_side' = derive_cheap_side(vrf, cheap_side) /\ taxes' = derive_taxes(vrf, cheap_side)
      BY <2>2 DEF ConsumeRandomness
    <3>3. QED
      BY <3>1, <3>2, DeriveFavours DEF RatesFavourCheapSide
  <2>3. QED
    BY <2>1, <2>2 DEF Next, Tick, Fulfil, UpdateArbConfig, TriggerEpochTransition,
       RetryEpochVrf, TerminalVrfFallback, ExecuteCarnage, ExecuteCarnageAtomic,
       execute_carnage_core, ExpireCarnage, ActivateEpochSafety, vars
<1>3. QED
  BY <1>1, <1>2, Invariance, PTL DEF Spec

-----------------------------------------------------------------------------
(* Action properties.                                                      *)

\* A Carnage executes only while pending, in an epoch in which none has.
THEOREM CarnageAtMostOnce == Spec => CarnageOncePerEpoch
<1>1. IInv /\ [Next]_vars =>
        [total_triggers' # total_triggers =>
           last_carnage_epoch' > last_carnage_epoch]_vars
  <2> SUFFICES ASSUME IInv, Next, total_triggers' # total_triggers
               PROVE  last_carnage_epoch' > last_carnage_epoch
    OBVIOUS
  <2>1. PICK bought \in Purchases : carnage_pending /\ execute_carnage_core(bought)
    BY DEF Next, Tick, Fulfil, UpdateArbConfig, TriggerEpochTransition, RetryEpochVrf,
       ConsumeRandomness, TerminalVrfFallback, ExecuteCarnage, ExecuteCarnageAtomic,
       ExpireCarnage, ActivateEpochSafety, fundVars
  <2>2. last_carnage_epoch < current_epoch
    BY <2>1 DEF IInv, CarnageBoundToEpoch
  <2>3. last_carnage_epoch' = current_epoch
    BY <2>1 DEF execute_carnage_core
  <2>4. QED
    BY <2>2, <2>3 DEF IInv, TypeOK
<1>2. QED
  BY <1>1, Invariance, PTL DEF Spec, CarnageOncePerEpoch

\* With one pause length, the pause that runs never reaches further than a
\* pause started now.
SamePause  == \A s, t \in Timings : s[2] = t[2]
PauseBound == SamePause => pause_end_slot =< slot + arb_config.pause

\* What a step may do to the pause and to what bounds it.
LEMMA PauseStep ==
  ASSUME IInv, Next
  PROVE  /\ slot' \in {slot, slot + 1}
         /\ \/ arb_config' = arb_config /\ pause_end_slot' = pause_end_slot
            \/ arb_config' = arb_config /\ slot' = slot
                  /\ pause_end_slot' = trigger_pause_end_slot
            \/ arb_config' = arb_config /\ slot' = slot
                  /\ pause_end_slot' = consume_pause_end_slot
            \/ /\ \E t \in Timings : arb_config' = [len |-> t[1], pause |-> t[2]]
               /\ pause_end_slot' = pause_end_slot
BY DEF Next, Tick, Fulfil, UpdateArbConfig, TriggerEpochTransition, RetryEpochVrf,
   ConsumeRandomness, TerminalVrfFallback, ExecuteCarnage, ExecuteCarnageAtomic,
   execute_carnage_core, ExpireCarnage, ActivateEpochSafety, configVars

\* No step lowers the bounds that keep a running pause in force.
LEMMA PauseBoundStep ==
  ASSUME IInv, PauseBound, Next, SamePause
  PROVE  PauseBound' /\ pause_end_slot' >= pause_end_slot
<1>1. /\ slot \in Nat /\ slot' \in Nat /\ slot' >= slot /\ pause_end_slot \in Nat
      /\ arb_config \in {[len |-> t[1], pause |-> t[2]] : t \in Timings}
      /\ arb_config.pause \in Nat
  BY PauseStep, ConfigTyped DEF IInv, TypeOK
<1>2. pause_end_slot =< slot + arb_config.pause
  BY DEF PauseBound
<1>3. arb_config'.pause = arb_config.pause
  <2>1. CASE arb_config' = arb_config
    BY <2>1
  <2>2. CASE \E t \in Timings : arb_config' = [len |-> t[1], pause |-> t[2]]
    BY <1>1, <2>2 DEF SamePause
  <2>3. QED BY <2>1, <2>2, PauseStep
<1>4. CASE pause_end_slot' = pause_end_slot
  BY <1>1, <1>2, <1>3, <1>4 DEF PauseBound
<1>5. CASE slot' = slot /\ pause_end_slot' = trigger_pause_end_slot
  BY <1>1, <1>2, <1>3, <1>5 DEF PauseBound, trigger_pause_end_slot
<1>6. CASE slot' = slot /\ pause_end_slot' = consume_pause_end_slot
  BY <1>1, <1>2, <1>3, <1>6 DEF PauseBound, consume_pause_end_slot
<1>7. QED
  BY <1>4, <1>5, <1>6, PauseStep

\* A running trading pause is never cut short while pause_slots keeps its value.
THEOREM PauseKept == Spec => PauseNeverShortened
<1>1. Init => PauseBound
  <2> SUFFICES ASSUME Init PROVE PauseBound
    OBVIOUS
  <2>1. arb_config.pause \in Nat
    BY ConfigTyped DEF Init
  <2>2. slot = 0 /\ pause_end_slot = 0
    BY InitCommon
  <2>3. QED BY <2>1, <2>2 DEF PauseBound
<1>2. IInv /\ PauseBound /\ [Next]_vars => PauseBound'
  <2>1. ASSUME UNCHANGED vars, PauseBound PROVE PauseBound'
    BY <2>1 DEF vars, configVars, PauseBound
  <2>2. ASSUME IInv, PauseBound, Next PROVE PauseBound'
    BY <2>2, PauseBoundStep DEF PauseBound, SamePause
  <2>3. QED BY <2>1, <2>2
<1>3. IInv /\ PauseBound /\ [Next]_vars =>
        [SamePause => pause_end_slot' >= pause_end_slot]_vars
  BY PauseBoundStep
<1>4. PauseNeverShortened <=> [][SamePause => pause_end_slot' >= pause_end_slot]_vars
  BY DEF PauseNeverShortened, SamePause
<1>5. QED
  BY <1>1, <1>2, <1>3, <1>4, Invariance, PTL DEF Spec

-----------------------------------------------------------------------------
(* Nobody is locked out.                                                   *)

\* The deadlines an epoch and a Carnage are given are not further away than the
\* constants say, and no epoch started in the future.
Deadlines ==
  /\ epoch_start_slot =< slot
  /\ carnage_deadline_slot =< slot + CARNAGE_DEADLINE_SLOTS

\* A step sets both from the running clock, or leaves them to it.
LEMMA DeadlineStep ==
  ASSUME IInv, Deadlines, [Next]_vars
  PROVE  Deadlines'
<1>1. slot \in Nat /\ epoch_start_slot \in Nat /\ carnage_deadline_slot \in Nat
  BY DEF IInv, TypeOK
<1>2. slot' \in {slot, slot + 1}
  BY <1>1 DEF Next, Tick, Fulfil, UpdateArbConfig, TriggerEpochTransition, RetryEpochVrf,
     ConsumeRandomness, TerminalVrfFallback, ExecuteCarnage, ExecuteCarnageAtomic,
     execute_carnage_core, ExpireCarnage, ActivateEpochSafety, configVars, vars
<1>3. epoch_start_slot' \in {epoch_start_slot, slot}
  BY DEF Next, Tick, Fulfil, UpdateArbConfig, TriggerEpochTransition, RetryEpochVrf,
     ConsumeRandomness, TerminalVrfFallback, ExecuteCarnage, ExecuteCarnageAtomic,
     execute_carnage_core, ExpireCarnage, ActivateEpochSafety, clockVars, vars
<1>4. carnage_deadline_slot' \in {carnage_deadline_slot, 0, slot + CARNAGE_DEADLINE_SLOTS}
  <2>1. ASSUME NEW vrf, ScheduleCarnage(vrf)
        PROVE  carnage_deadline_slot' \in {0, slot + CARNAGE_DEADLINE_SLOTS}
    BY <2>1 DEF ScheduleCarnage, ClearCarnage
  <2> QED
    BY <2>1 DEF Next, Tick, Fulfil, UpdateArbConfig, TriggerEpochTransition, RetryEpochVrf,
       ConsumeRandomness, TerminalVrfFallback, ExecuteCarnage, ExecuteCarnageAtomic,
       execute_carnage_core, ExpireCarnage, ActivateEpochSafety, ClearCarnage, carnageVars, vars
<1>5. /\ carnage_deadline_slot' \in Nat
      /\ carnage_deadline_slot' =< slot + CARNAGE_DEADLINE_SLOTS
      /\ CARNAGE_DEADLINE_SLOTS \in Nat
  BY <1>1, <1>4, SlotConstants DEF Deadlines
<1>6. epoch_start_slot' \in Nat /\ epoch_start_slot' =< slot
  BY <1>1, <1>3 DEF Deadlines
<1>7. slot' \in Nat /\ slot =< slot'
  BY <1>1, <1>2
<1>8. epoch_start_slot' =< slot'
  BY <1>1, <1>6, <1>7
<1>9. carnage_deadline_slot' =< slot' + CARNAGE_DEADLINE_SLOTS
  <2>1. \A d, s, t, c \in Nat : d =< s + c /\ s =< t => d =< t + c
    OBVIOUS
  <2>2. slot \in Nat /\ slot' \in Nat /\ carnage_deadline_slot' \in Nat
        /\ CARNAGE_DEADLINE_SLOTS \in Nat
    BY <1>1, <1>5, <1>7
  <2> QED
    BY <1>5, <1>7, <2>1, <2>2
<1> QED
  BY <1>8, <1>9 DEF Deadlines

\* The clock keeps the deadlines in reach.
THEOREM DeadlinesInReach == Spec => []Deadlines
<1>1. Init => Deadlines
  BY SlotFacts DEF Init, InitFresh, InitLegacy, Deadlines
<1>2. IInv /\ Deadlines /\ [Next]_vars => Deadlines'
  BY DeadlineStep
<1> QED
  BY <1>1, <1>2, Invariance, PTL DEF Spec

\* Whatever keepers, oracle and executors do or fail to do, a stranger's
\* instruction is admitted within a bounded number of slots: the safety half of
\* EpochAdvances, for all constants.
THEOREM NobodyLockedOut == Spec => []StrangersNeverLockedOut
<1>1. IInv /\ Deadlines => StrangersNeverLockedOut
  <2> SUFFICES ASSUME IInv, Deadlines PROVE StrangersNeverLockedOut
    OBVIOUS
  <2>1. /\ slot \in Nat /\ vrf_transition_start_slot \in Nat /\ vrf_attempts \in Nat
        /\ current_epoch \in Nat /\ safety_version \in {0, 1}
        /\ arb_config.len \in 1..MAX_EPOCH_LENGTH_SLOTS /\ epoch_start_slot \in Nat
        /\ MAX_EPOCH_LENGTH_SLOTS \in Nat
    BY ConfigConstants DEF IInv, TypeOK
  <2>2. CASE ~Active
    <3>1. may_activate
      BY <2>1, <2>2 DEF IInv, OnePhaseAtATime, Active, may_activate
    <3> QED
      BY <2>2, <3>1 DEF StrangersNeverLockedOut
  <2>3. CASE Active /\ vrf_pending
    <3>1. vrf_attempts > 0
      <4>1. CASE pending_randomness_account = Seed(current_epoch, vrf_attempts)
        <5>1. Seed(current_epoch, vrf_attempts) \in SeedsUpTo(current_epoch)
          BY <2>3, <4>1, SlotFacts DEF IInv, TypeOK, BoundToNewestRequest, LegacyAccount, Seed
        <5>2. Seed(current_epoch, vrf_attempts)[2] = vrf_attempts
          BY DEF Seed
        <5> QED
          BY <2>1, <5>1, <5>2, SeedsAre
      <4>2. CASE vrf_attempts = MAX_VRF_ATTEMPTS
        BY <4>2, SlotFacts
      <4> QED
        BY <2>3, <4>1, <4>2 DEF IInv, BoundToNewestRequest
    <3>2. staking_accepts /\ ~carnage_pending
      BY <2>1, <2>3 DEF IInv, StakingInStep, OnePhaseAtATime, staking_accepts
    <3>3. ASSUME slot >= vrf_transition_start_slot + MAX_VRF_PENDING_SLOTS
          PROVE  terminal_vrf_reason # "None"
      <4>1. slot - vrf_transition_start_slot >= MAX_VRF_PENDING_SLOTS
        BY <2>1, <3>3, SlotFacts
      <4>2. ~(slot - vrf_transition_start_slot < MAX_VRF_PENDING_SLOTS)
        BY <2>1, <4>1, SlotFacts
      <4> QED
        BY <4>1, <4>2 DEF terminal_vrf_reason
    <3> QED
      BY <2>3, <3>1, <3>2, <3>3 DEF StrangersNeverLockedOut, may_fall_back
  <2>4. CASE Active /\ ~vrf_pending /\ carnage_pending
    <3>1. carnage_generation = current_epoch
      BY <2>4 DEF IInv, CarnageBoundToEpoch
    <3> QED
      BY <2>4, <3>1 DEF StrangersNeverLockedOut, Deadlines, may_expire
  <2>5. CASE Active /\ ~vrf_pending /\ ~carnage_pending
    <3>1. quiescent
      BY <2>5 DEF IInv, OnePhaseAtATime, quiescent
    <3>2. epoch_due_slot \in Nat /\ epoch_due_slot =< slot + MAX_EPOCH_LENGTH_SLOTS
      BY <2>1 DEF Deadlines, epoch_due_slot
    <3>3. ASSUME slot >= epoch_due_slot + GRACE_SLOTS
          PROVE  is_epoch_due /\ is_grace_open
      BY <2>1, <3>2, <3>3, SlotFacts DEF is_epoch_due, is_grace_open
    <3>4. Seed(current_epoch + 1, 1) \notin requested
      BY DEF IInv, SeedNeverReused
    <3> QED
      BY <2>5, <3>1, <3>2, <3>3, <3>4 DEF StrangersNeverLockedOut, may_trigger
  <2> QED
    BY <2>2, <2>3, <2>4, <2>5
<1> QED
  BY <1>1, Invariance, DeadlinesInReach, PTL

-----------------------------------------------------------------------------
(* Refinement.                                                             *)

\* Initial states map to initial states of the abstract lifecycle.
LEMMA LifecycleInitial == Init => Abstract!LifecycleInit
<1> SUFFICES ASSUME Init PROVE Abstract!LifecycleInit
  OBVIOUS
<1>1. ~carnage_pending
  BY DEF Init
<1>2. QED
  BY <1>1, InitCommon DEF Abstract!LifecycleInit, phase_of

\* Every step maps to a step of the abstract lifecycle or a stutter.
LEMMA LifecycleStep == IInv /\ [Next]_vars => [Abstract!LifecycleNext]_(Abstract!lifecycleVars)
<1> SUFFICES ASSUME IInv, [Next]_vars
             PROVE  Abstract!LifecycleNext \/ UNCHANGED Abstract!lifecycleVars
  OBVIOUS
<1> DEFINE Same == UNCHANGED <<current_epoch, phase_of, last_update_epoch>>
<1>1. Same => UNCHANGED Abstract!lifecycleVars
  BY DEF Abstract!lifecycleVars
<1>2. ASSUME UNCHANGED <<clockVars, vrf_pending, carnage_pending, last_update_epoch>>
      PROVE  Same
  BY <1>2 DEF clockVars, phase_of
<1>3. ASSUME NEW c \in Callers, TriggerEpochTransition(c) PROVE Abstract!Begin
  BY <1>3 DEF TriggerEpochTransition, may_trigger, quiescent, phase_of, Abstract!Begin
<1>4. ASSUME vrf_pending, ~carnage_pending, ClearVrf, finalize_staking_epoch, UNCHANGED clockVars
      PROVE  Abstract!Close
  BY <1>4 DEF ClearVrf, finalize_staking_epoch, clockVars, phase_of, Abstract!Close
<1>5. ASSUME NEW account \in requested, NEW vrf \in Reveals,
             ConsumeRandomness(account, vrf)
      PROVE  Abstract!Close
  BY <1>4, <1>5 DEF ConsumeRandomness, IInv, OnePhaseAtATime
<1>6. ASSUME TerminalVrfFallback PROVE Abstract!Close
  BY <1>4, <1>6 DEF TerminalVrfFallback, may_fall_back
<1>7. ASSUME carnage_pending, ClearCarnage,
             UNCHANGED <<clockVars, vrf_pending, last_update_epoch>>
      PROVE  Abstract!EndCarnage
  BY <1>7 DEF ClearCarnage, clockVars, phase_of, Abstract!EndCarnage, IInv, OnePhaseAtATime
<1>8. ASSUME NEW generation, NEW bought \in Purchases,
             \/ ExecuteCarnage(generation, bought)
             \/ ExecuteCarnageAtomic(generation, bought)
      PROVE  Abstract!EndCarnage
  BY <1>7, <1>8 DEF ExecuteCarnage, ExecuteCarnageAtomic, execute_carnage_core, vrfVars
<1>9. ASSUME NEW generation, ExpireCarnage(generation) PROVE Abstract!EndCarnage
  BY <1>7, <1>9 DEF ExpireCarnage, may_expire, vrfVars
<1>10. CASE Tick \/ ActivateEpochSafety \/ UNCHANGED vars
  BY <1>1, <1>2, <1>10 DEF Tick, ActivateEpochSafety, vars, vrfVars, carnageVars
<1>11. ASSUME NEW seed \in requested, Fulfil(seed) PROVE Same
  BY <1>2, <1>11 DEF Fulfil, vrfVars, carnageVars
<1>12. ASSUME NEW t \in Timings, UpdateArbConfig(t) PROVE Same
  BY <1>2, <1>12 DEF UpdateArbConfig, vrfVars, carnageVars
<1>13. ASSUME NEW c \in Callers, RetryEpochVrf(c) PROVE Same
  BY <1>2, <1>13 DEF RetryEpochVrf, carnageVars
<1> HIDE DEF Same
<1>14. QED
  BY <1>1, <1>3, <1>5, <1>6, <1>8, <1>9, <1>10, <1>11, <1>12, <1>13
     DEF Next, Abstract!LifecycleNext

\* The epoch program implements the promised lifecycle (its safety part): no
\* instruction skips an epoch, closes one twice, or starts one under a Carnage.
THEOREM LifecycleImplemented == Spec => ImplementsLifecycleSafety
<1>1. Spec => Abstract!LifecycleInit
  BY LifecycleInitial DEF Spec
<1>2. QED
  BY <1>1, LifecycleStep, Invariance, PTL
     DEF Spec, ImplementsLifecycleSafety, Abstract!LifecycleSafety
=============================================================================
