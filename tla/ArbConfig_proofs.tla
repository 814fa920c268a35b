---------------------------- MODULE ArbConfig_proofs ----------------------------
(***************************************************************************)
(* Proofs about ArbConfig for any number of keys and any bounds.  The      *)
(* invariant is the conjunction of the properties with one fact the        *)
(* hand-over needs: the stored candidate is the one offered last.          *)
(***************************************************************************)
EXTENDS ArbConfig, TLAPS

\* The account remembers what the incumbent asked for, and before there is an
\* account there is neither incumbent nor candidate.
OfferStored ==
  /\ pending_authority = offer
  /\ ~initialized => authority = NoKey /\ offer = NoKey

ConfigInv == TypeOK /\ RolesSeparate /\ OfferStored

\* The account is born with the roles that were validated.
LEMMA InitializeSteps ==
  ASSUME ConfigInv,
         NEW key \in Keys \cup {NoKey}, NEW a \in Keys \cup {NoKey},
         NEW b \in Keys \cup {NoKey}, NEW primary \in Keys \cup {NoKey},
         NEW tripwire \in Keys \cup {NoKey}, NEW pause \in TimingArgs,
         NEW epoch_length \in TimingArgs, valid_roles(key, a, b, primary, tripwire),
         initialize_arb_config(key, a, b, primary, tripwire, pause, epoch_length)
  PROVE  ConfigInv' /\ TwoStep!Found
<1>1. /\ {key, a, b, primary, tripwire} \subseteq Keys
      /\ key \notin {a, b, primary, tripwire}
      /\ primary \notin {a, b, tripwire} /\ tripwire \notin {a, b}
  BY DEF valid_roles, validate_role_overlap
<1>2. TypeOK'
  BY <1>1, ConfigAssumption
     DEF initialize_arb_config, validate_arb_config_bounds, TypeOK, ConfigInv
<1>3. RolesSeparate'
  BY <1>1 DEF initialize_arb_config, RolesSeparate, wallets
<1>4. OfferStored' /\ TwoStep!Found
  BY DEF initialize_arb_config, ConfigInv, OfferStored, TwoStep!Found
<1> QED  BY <1>2, <1>3, <1>4 DEF ConfigInv

\* An update validates all that results before it writes any of it.
LEMMA UpdateSteps ==
  ASSUME ConfigInv,
         NEW key \in Keys \cup {NoKey}, NEW a \in Keys \cup {NoKey},
         NEW b \in Keys \cup {NoKey}, NEW primary \in Keys \cup {NoKey},
         NEW tripwire \in Keys \cup {NoKey}, NEW pause \in TimingArgs,
         NEW epoch_length \in TimingArgs, NEW new_authority \in Keys \cup {NoKey, NotGiven},
         valid_roles(key, a, b, primary, tripwire),
         update_arb_config(key, new_authority, a, b, primary, tripwire, pause, epoch_length)
  PROVE  /\ ConfigInv'
         /\ \/ UNCHANGED <<authority, offer>>
            \/ \E candidate \in Keys \cup {NoKey} : TwoStep!Name(candidate)
<1>1. /\ {key, a, b, primary, tripwire} \subseteq Keys
      /\ key \notin {a, b, primary, tripwire}
      /\ primary \notin {a, b, tripwire} /\ tripwire \notin {a, b}
  BY DEF valid_roles, validate_role_overlap
<1>2. initialized /\ key = authority /\ authority' = authority /\ initialized' = initialized
  BY DEF update_arb_config
<1>3. TypeOK'
  BY <1>1, <1>2, ConfigAssumption
     DEF update_arb_config, validate_resulting_config, validate_arb_config_bounds,
         resulting_candidate, TypeOK, ConfigInv
<1>4. RolesSeparate'
  BY <1>1, <1>2 DEF update_arb_config, RolesSeparate, wallets
<1>5. OfferStored'
  BY <1>2 DEF update_arb_config, resulting_candidate, ConfigInv, OfferStored
<1>6. CASE new_authority = NotGiven
  BY <1>2, <1>3, <1>4, <1>5, <1>6 DEF update_arb_config, ConfigInv
<1>7. CASE new_authority \in Keys \cup {NoKey}
  <2>1. authority # NoKey
    BY <1>1, <1>2, ConfigAssumption
  <2>2. offer' = new_authority
    BY <1>7, ConfigAssumption DEF update_arb_config
  <2>3. TwoStep!Name(new_authority)
    BY <1>2, <2>1, <2>2 DEF TwoStep!Name
  <2> QED  BY <1>3, <1>4, <1>5, <1>7, <2>3 DEF ConfigInv
<1> QED  BY <1>6, <1>7

\* An acceptance hands over to the stored candidate, who has no other role by then.
LEMMA AcceptSteps ==
  ASSUME ConfigInv, NEW key \in Keys, accept_arb_config_authority(key)
  PROVE  ConfigInv' /\ TwoStep!Succeed
<1>1. TypeOK'
  BY DEF accept_arb_config_authority, TypeOK, ConfigInv
<1>2. RolesSeparate'
  BY DEF accept_arb_config_authority, validate_acceptance, validate_role_overlap,
         RolesSeparate, wallets, ConfigInv
<1>3. OfferStored' /\ TwoStep!Succeed
  BY DEF accept_arb_config_authority, validate_acceptance, ConfigInv, OfferStored,
         TwoStep!Succeed
<1> QED  BY <1>1, <1>2, <1>3 DEF ConfigInv

\* The pause keys change nothing but the flag.
LEMMA PauseSteps ==
  ASSUME ConfigInv, NEW key \in Keys, set_trading_pause(key) \/ clear_trading_pause(key)
  PROVE  ConfigInv' /\ UNCHANGED <<authority, offer>>
BY DEF set_trading_pause, clear_trading_pause, configVars, ConfigInv, TypeOK, RolesSeparate,
       wallets, OfferStored

\* Every step keeps the invariant and is a step of the hand-over, or none of it.
LEMMA ConfigSteps ==
  ASSUME ConfigInv, [Next]_vars
  PROVE  ConfigInv' /\ [TwoStep!Next]_<<authority, offer>>
<1>1. ASSUME NEW key \in Keys \cup {NoKey}, NEW a \in Keys \cup {NoKey},
             NEW b \in Keys \cup {NoKey}, NEW primary \in Keys \cup {NoKey},
             NEW tripwire \in Keys \cup {NoKey}, NEW pause \in TimingArgs,
             NEW epoch_length \in TimingArgs, valid_roles(key, a, b, primary, tripwire),
             \/ initialize_arb_config(key, a, b, primary, tripwire, pause, epoch_length)
             \/ \E new_authority \in Keys \cup {NoKey, NotGiven} :
                  update_arb_config(key, new_authority, a, b, primary, tripwire, pause,
                                    epoch_length)
      PROVE  ConfigInv' /\ [TwoStep!Next]_<<authority, offer>>
  <2>1. CASE initialize_arb_config(key, a, b, primary, tripwire, pause, epoch_length)
    BY <1>1, <2>1, InitializeSteps DEF TwoStep!Next
  <2>2. ASSUME NEW new_authority \in Keys \cup {NoKey, NotGiven},
               update_arb_config(key, new_authority, a, b, primary, tripwire, pause,
                                 epoch_length)
        PROVE  ConfigInv' /\ [TwoStep!Next]_<<authority, offer>>
    BY <1>1, <2>2, UpdateSteps DEF TwoStep!Next
  <2> QED  BY <1>1, <2>1, <2>2
<1>2. ASSUME NEW key \in Keys, accept_arb_config_authority(key)
      PROVE  ConfigInv' /\ [TwoStep!Next]_<<authority, offer>>
  BY <1>2, AcceptSteps DEF TwoStep!Next
<1>3. ASSUME NEW key \in Keys, set_trading_pause(key) \/ clear_trading_pause(key)
      PROVE  ConfigInv' /\ [TwoStep!Next]_<<authority, offer>>
  BY <1>3, PauseSteps
<1>4. CASE UNCHANGED vars
  BY <1>4 DEF vars, configVars, ConfigInv, TypeOK, RolesSeparate, wallets, OfferStored
<1> QED  BY <1>1, <1>2, <1>3, <1>4 DEF Next

\* The invariant, in every run.
THEOREM ConfigInvariance == Spec => []ConfigInv
<1>1. Init => ConfigInv
  BY DEF Init, ConfigInv, TypeOK, RolesSeparate, OfferStored
<1>2. ConfigInv /\ [Next]_vars => ConfigInv'
  BY ConfigSteps
<1> QED  BY <1>1, <1>2, PTL DEF Spec

\* Types, and the timing the epoch machine relies on, for all bounds.
THEOREM ConfigTypes == Spec => []TypeOK
<1>1. ConfigInv => TypeOK
  BY DEF ConfigInv
<1> QED  BY <1>1, ConfigInvariance, PTL

\* No key ever holds two powers.
THEOREM PowersApart == Spec => []RolesSeparate
<1>1. ConfigInv => RolesSeparate
  BY DEF ConfigInv
<1> QED  BY <1>1, ConfigInvariance, PTL

\* No state locks the incumbent out of a recovery.
THEOREM AlwaysRecoverable == Spec => []Recoverable
<1>1. ConfigInv => Recoverable
  <2> SUFFICES ASSUME ConfigInv, initialized PROVE Recoverable
    BY DEF Recoverable
  <2> DEFINE accepted(a, b, primary, tripwire) ==
               validate_resulting_config(NotGiven, a, b, primary, tripwire, pause_slots,
                                         epoch_length_slots)
  <2>1. /\ {authority, wallet_a, wallet_b, pause_authority, pause_tripwire} \subseteq Keys
        /\ validate_arb_config_bounds(pause_slots, epoch_length_slots)
    BY DEF ConfigInv, TypeOK, validate_arb_config_bounds
  <2>2. \A a, b, primary, tripwire \in Keys :
          validate_role_overlap(authority, a, b, primary, tripwire)
            => accepted(a, b, primary, tripwire)
    BY <2>1, ConfigAssumption
       DEF validate_resulting_config, valid_roles, validate_candidate
  <2>3. /\ authority \notin {wallet_a, wallet_b, pause_authority, pause_tripwire}
        /\ pause_authority \notin {wallet_a, wallet_b, pause_tripwire}
        /\ pause_tripwire \notin {wallet_a, wallet_b}
    BY DEF ConfigInv, RolesSeparate, wallets
  <2> HIDE DEF accepted
  <2>4. ASSUME NEW spare \in Keys \ {wallet_a, wallet_b, authority, pause_authority,
                                     pause_tripwire}
        PROVE  /\ accepted(wallet_a, wallet_b, spare, pause_tripwire)
               /\ accepted(wallet_a, wallet_b, pause_authority, spare)
               /\ accepted(spare, wallet_b, pause_authority, pause_tripwire)
               /\ accepted(wallet_a, spare, pause_authority, pause_tripwire)
    BY <2>1, <2>2, <2>3 DEF validate_role_overlap
  <2>5. ASSUME NEW survivor \in {wallet_a, wallet_b}
        PROVE  accepted(survivor, survivor, pause_authority, pause_tripwire)
    BY <2>1, <2>2, <2>3 DEF validate_role_overlap
  <2> QED  BY <2>4, <2>5 DEF Recoverable, wallets, clears, accepted
<1> QED  BY <1>1, ConfigInvariance, PTL

\* The code's three instructions implement the two-step hand-over.
THEOREM HandoverImplemented == Spec => ImplementsHandover
<1>1. Init => TwoStep!Init
  BY DEF Init, TwoStep!Init
<1>2. ConfigInv /\ [Next]_vars => [TwoStep!Next]_<<authority, offer>>
  BY ConfigSteps
<1> QED  BY <1>1, <1>2, ConfigInvariance, PTL DEF Spec, ImplementsHandover, TwoStep!Spec

==============================================================================
