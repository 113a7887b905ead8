-------------------------- MODULE MCStakingHistory --------------------------
(***************************************************************************)
(* The instance of the history module for TLC.                             *)
(***************************************************************************)
EXTENDS StakingHistory, StakingTimeLock

\* State constraints, as in MCStaking.
NoVotesCast == proposing = {} /\ \A v \in Voters : cast[v] = NoVote
NoRestriction == \A v \in Voters : ~Restricted(v)

\* State constraints: entry 0 holds tokens and is not slashed, entry 1 is the
\* one that is staked.
FirstEntryHolds ==
  \A v \in Voters :
    deposits[v][0].is_used => /\ deposits[v][0].lockup.kind = "None"
                              /\ deposits[v][0].slashing_penalty = 0
SecondEntryStakes ==
  \A v \in Voters :
    deposits[v][1].is_used => deposits[v][1].lockup.kind = "Constant"

WithoutRecords ==
  <<now, status, deposits, penalties, wallet, vault, treasury, mining,
    lastStaked>>
=============================================================================
