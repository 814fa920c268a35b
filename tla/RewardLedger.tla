----------------------------- MODULE RewardLedger -----------------------------
(***************************************************************************)
(* What staking promises its wallets: a ledger that credits every wallet   *)
(* at the moment an epoch closes.  There are no checkpoints, no cumulative *)
(* and no settlements here; a share is a number of lamports that only a    *)
(* close can raise, a claim pays and an exit returns to the pool.          *)
(***************************************************************************)
EXTENDS IndexedSum

CONSTANTS N,         \* number of wallets
          Grain      \* credits are exact to a lamport and stake / Grain

VARIABLES pool,      \* rewards of the epoch that runs
          funds,     \* lamports set aside for pool and shares
          stakes,    \* stakes[u]: what wallet u has staked
          total,     \* all that is staked, the dead stake included
          share      \* share[u]: what wallet u could claim now

ledgerVars == <<pool, funds, stakes, total, share>>

Wallets == 1..N

LedgerInit ==
  /\ pool = 0 /\ funds = 0 /\ total = 0
  /\ stakes = [u \in Wallets |-> 0]
  /\ share = [u \in Wallets |-> 0]

Open ==
  /\ total = 0 /\ total' > 0
  /\ UNCHANGED <<pool, funds, stakes, share>>

\* Rewards arrive with the lamports that pay them.
Fund ==
  /\ pool' > pool
  /\ funds' - funds = pool' - pool
  /\ UNCHANGED <<stakes, total, share>>

\* Stake of one wallet moves in or out; nobody else's stake or share does.
Move(u) ==
  /\ stakes' = [stakes EXCEPT ![u] = stakes'[u]]
  /\ total' - total = stakes'[u] - stakes[u]
  /\ UNCHANGED funds

Enter(u) ==
  /\ Move(u)
  /\ stakes'[u] > stakes[u]
  /\ UNCHANGED <<pool, share>>

\* Whoever takes stake out leaves the whole share behind.
Leave(u) ==
  /\ Move(u)
  /\ stakes'[u] < stakes[u]
  /\ pool' = pool + share[u]
  /\ share' = [share EXCEPT ![u] = 0]

Collect(u) ==
  /\ share[u] > 0
  /\ funds' = funds - share[u]
  /\ share' = [share EXCEPT ![u] = 0]
  /\ UNCHANGED <<pool, stakes, total>>

\* Less than a lamport above the pro rata part of the pool, and less than a
\* lamport and stake / Grain below it.
ProRata(u, credit) ==
  /\ credit >= 0
  /\ (credit - 1) * total < stakes[u] * pool
  /\ Grain * (stakes[u] * pool) < total * (Grain * (credit + 1) + stakes[u])

\* An epoch closes: the pool becomes shares, all of them funded.
Distribute ==
  /\ total > 0
  /\ pool' = 0
  /\ share' \in [Wallets -> Nat]
  /\ \A u \in Wallets : ProRata(u, share'[u] - share[u])
  /\ Sum(share', N) <= funds
  /\ UNCHANGED <<funds, stakes, total>>

LedgerNext ==
  \/ Open \/ Fund \/ Distribute
  \/ \E u \in Wallets : Enter(u) \/ Leave(u) \/ Collect(u)

LedgerSpec == LedgerInit /\ [][LedgerNext]_ledgerVars

==============================================================================
