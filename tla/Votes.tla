--------------------------------- MODULE Votes ---------------------------------
(***************************************************************************)
(* The vote program on top of the staking program: every week each staker  *)
(* may cast one vote, weighted by the stake its wallet holds at that       *)
(* moment, and once the week is over anybody may write its outcome into    *)
(* the policy singleton that governs the following week.  Stakes go on     *)
(* changing between a cast, the end of the week and the finalization.      *)
(*                                                                         *)
(* Weeks are the buckets of the staking program's clock.  An absent tally  *)
(* account reads as zero weights, the explicit branch of finalize_week, so *)
(* tally has an entry for every week; an absent receipt is NoReceipt.      *)
(***************************************************************************)
EXTENDS Staking

CONSTANTS
  GENESIS_MONDAY_00_UTC,  \* first second of week 0
  WEEK_SECONDS            \* length of a week

ASSUME VotesAssumption ==
  /\ GENESIS_MONDAY_00_UTC \in Nat
  /\ WEEK_SECONDS \in Nat \ {0}

VARIABLES
  tally,        \* tally[w]: the weights cast in week w
  receipt,      \* receipt[w][u]: what u cast in week w
  policy_exists,  \* the policy singleton was created
  haul_policy   \* the policy singleton

voteVars    == <<tally, receipt, policy_exists, haul_policy>>
stakingVars == vars
allVars     == <<stakingVars, voteVars>>

POLICY_BURN   == 0
POLICY_LP_ADD == 1
Policies == {POLICY_BURN, POLICY_LP_ADD}

week_of(ts) == (ts - GENESIS_MONDAY_00_UTC) \div WEEK_SECONDS
after_genesis == unix_timestamp >= GENESIS_MONDAY_00_UTC
current_week == week_of(unix_timestamp)
Weeks == IF MaxTime < GENESIS_MONDAY_00_UTC THEN {} ELSE 0..week_of(MaxTime)

\* The PDA of a vote that was not cast.
NoReceipt == [choice |-> POLICY_LP_ADD, weight |-> 0]

castable_late(week_index) ==                                        \* mutant
  after_genesis /\ week_index <= current_week
castable(week_index) == after_genesis /\ week_index = current_week
ended(target_week) == after_genesis /\ current_week > target_week

unvoted_ever(u, week_index) == TRUE                                 \* mutant
\* The receipt account is created by init: it must not exist.
unvoted(u, week_index) == receipt[week_index][u] = NoReceipt

not_yet_finalized_ever(target_week) == TRUE                         \* mutant
\* Virgin state, or above the high-water mark.
not_yet_finalized(target_week) ==
  \/ haul_policy.effective_week = 0
  \/ target_week > haul_policy.last_finalized_week

winner(weights) ==
  IF weights.burn > weights.lp THEN POLICY_BURN ELSE POLICY_LP_ADD

------------------------------------------------------------------------------
VoteInit ==
  /\ Init
  /\ tally = [w \in Weeks |-> [burn |-> 0, lp |-> 0]]
  /\ receipt = [w \in Weeks |-> [u \in Users |-> NoReceipt]]
  /\ policy_exists = FALSE
  /\ haul_policy = [policy |-> POLICY_LP_ADD, effective_week |-> 0,
                    last_finalized_week |-> 0, weights |-> [burn |-> 0, lp |-> 0],
                    default_applied |-> TRUE]

\* initialize: anybody, once; the values it writes are fixed, those of VoteInit.
initialize ==
  /\ ~policy_exists
  /\ policy_exists' = TRUE
  /\ UNCHANGED <<tally, receipt, haul_policy, stakingVars>>

\* cast_vote: the weight is the stake of the moment, read from the wallet's
\* UserStake account; tally and receipt are written together.
cast_vote(u, week_index, choice) ==
  LET weight == staked_balance[u] IN
  /\ castable(week_index)
  /\ owner[u] /\ weight > 0
  /\ unvoted(u, week_index)
  /\ tally' = IF choice = POLICY_BURN
              THEN [tally EXCEPT ![week_index].burn = @ + weight]
              ELSE [tally EXCEPT ![week_index].lp = @ + weight]
  /\ receipt' = [receipt EXCEPT
       ![week_index][u] = [choice |-> choice, weight |-> weight]]
  /\ UNCHANGED <<policy_exists, haul_policy, stakingVars>>

\* finalize_week: any signer, any week that is over and above the mark.
finalize_week(target_week) ==
  LET weights == tally[target_week] IN
  /\ policy_exists
  /\ ended(target_week)
  /\ not_yet_finalized(target_week)
  /\ haul_policy' = [policy |-> winner(weights),
                     effective_week |-> target_week + 1,
                     last_finalized_week |-> target_week,
                     weights |-> weights,
                     default_applied |-> weights.burn = weights.lp]
  /\ UNCHANGED <<tally, receipt, policy_exists, stakingVars>>

VoteNext ==
  \/ initialize
  \/ \E u \in Users, w \in Weeks, choice \in Policies : cast_vote(u, w, choice)
  \/ \E w \in Weeks : finalize_week(w)
  \/ Next /\ UNCHANGED voteVars

VoteSpec == VoteInit /\ [][VoteNext]_allVars

------------------------------------------------------------------------------
(* Properties *)

Weight == [burn : Nat, lp : Nat]

\* Every account keeps its type.
VoteTypeOK ==
  /\ TypeOK
  /\ tally \in [Weeks -> Weight]
  /\ receipt \in [Weeks -> [Users -> [choice : Policies, weight : Nat]]]
  /\ policy_exists \in BOOLEAN
  /\ haul_policy \in [policy : Policies, effective_week : Nat,
                      last_finalized_week : Nat, weights : Weight,
                      default_applied : BOOLEAN]

\* The weight cast for a choice in week w, wallet by wallet.
Cast(w, choice) ==
  Sum([u \in Users |-> IF receipt[w][u].choice = choice
                       THEN receipt[w][u].weight ELSE 0], N)

\* A week's tally counts every wallet once, with the weight and the choice its
\* receipt locked, however the wallet's stake moved before and after the cast.
TallyIsReceipts ==
  \A w \in Weeks : tally[w] = [burn |-> Cast(w, POLICY_BURN),
                               lp   |-> Cast(w, POLICY_LP_ADD)]

\* What an off-chain reader applies in the current week: the singleton if it is
\* about this week, else the LP-add default.
reader_policy ==
  IF haul_policy.effective_week < current_week THEN POLICY_LP_ADD
  ELSE haul_policy.policy

\* A reader burns only in a week before which strictly more weight was cast for
\* burning, counting the receipts as they stand now: no vote cast late, twice or
\* for another week, and no stale or repeated finalization gets there.
BurnNeedsMajority ==
  after_genesis /\ reader_policy = POLICY_BURN
    => /\ haul_policy.effective_week = current_week
       /\ Cast(current_week - 1, POLICY_BURN) > Cast(current_week - 1, POLICY_LP_ADD)

\* The decision that governs a week is written once, and after it only the
\* decisions of later weeks: with several cranks racing, policy and snapshot
\* change only together with a larger effective_week, never one still to come.
DecisionsAdvance ==
  [][haul_policy' # haul_policy =>
       /\ haul_policy'.effective_week > haul_policy.effective_week
       /\ haul_policy'.effective_week <= current_week]_allVars

==============================================================================
