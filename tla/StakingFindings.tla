-------------------------- MODULE StakingFindings --------------------------
(***************************************************************************)
(* What the documentation and the comments of the staking program say, and *)
(* the code does not do.  Each run of this module ends in a counterexample *)
(* (see README.md, Findings).                                              *)
(***************************************************************************)
EXTENDS StakingProps

Pays(v, i) ==
  LET m == deposits[v][i].voting_mint_config_idx
  IN  /\ vault'[v][m] < vault[v][m]
      /\ Owed(deposits'[v][i]) < Owed(deposits[v][i])

\* README.md:23, tokens are withdrawable only when the lockup period has
\* expired: about withdraw, which looks at the cooldown alone.
PaidOnlyAfterExpiry ==
  [][\A v \in Voters, i \in Slots :
       Pays(v, i) => Expired(deposits[v][i].lockup, now)]_vars

\* README.md:149, the slashed tokens go to the treasury when the stake is
\* withdrawn: about the penalty, which should stay on the books till then.
VaultHoldsOnlyEntries ==
  \A v \in Voters, m \in MintIdx : Open(v) => OwedIn(v, m) = vault[v][m]

\* close_voter.rs:57, closing a voter transfers all funds from the vaults.
ClosedVaultsEmpty ==
  \A v \in Voters, m \in MintIdx : status[v] = "closed" => vault[v][m] = 0

\* README.md:121, stake locks the tokens for the time specified when the
\* entry was created: about end_ts as stake computes it.
StakeLocksForPeriod ==
  [][\A v \in Voters, i \in Slots :
       LET old == deposits[v][i]
           new == deposits'[v][i]
       IN  /\ old.is_used /\ IsStaked(new)
           /\ old.amount_deposited_native = 0
           /\ new.amount_deposited_native > 0
           => now + ToSecs(new.lockup.period) <= new.lockup.end_ts]_vars

\* README.md:149, the owner of a slashed stake can withdraw the rest of it:
\* about an unlocked entry that no flag and no vote holds back.
SlashedStakeCanBeWithdrawn ==
  \A v \in Voters, i \in Slots :
    LET d == deposits[v][i]
    IN  /\ Active(v, i) /\ ~Restricted(v) /\ GovernanceAllows(v)
        /\ d.slashing_penalty > 0 /\ ~IsStaked(d) /\ CooledDown(d)
        => ENABLED Withdraw(v, i, d.voting_mint_config_idx,
                            d.amount_deposited_native)
=============================================================================
