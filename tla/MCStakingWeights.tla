-------------------------- MODULE MCStakingWeights --------------------------
(***************************************************************************)
(* The instance of the staking program against a strict rewards program.   *)
(***************************************************************************)
EXTENDS StakingWeights

\* State constraint: nothing follows an irregular call.
Regular == irregular = {}

\* State constraints: entry 0 holds tokens, the others are staked, and entry 2
\* is created after entry 1.
FirstEntryHolds ==
  \A v \in Voters :
    deposits[v][0].is_used => deposits[v][0].lockup.kind = "None"
OthersStake ==
  \A v \in Voters, i \in Slots \ {0} :
    deposits[v][i].is_used => deposits[v][i].lockup.kind = "Constant"
InOrder ==
  \A v \in Voters : deposits[v][2].is_used => deposits[v][1].is_used

\* State constraint: entry 2 keeps its period and is not slashed.
LastEntryPlain ==
  \A v \in Voters :
    LET d == deposits[v][2]
    IN  d.is_used => d.lockup.period = "ThreeMonths" /\ d.slashing_penalty = 0

\* State constraint: rewards are decreased and minting is restricted while at
\* most one entry is staked.
PenalizedHasOneStake ==
  \A v \in Voters :
    penalties[v] # NoPenalties => ~deposits[v][2].is_used

\* State constraints, as in MCStaking.
NoVotesCast == proposing = {} /\ \A v \in Voters : cast[v] = NoVote
NoRestriction == \A v \in Voters : ~Restricted(v)

WithoutRecords ==
  <<now, status, deposits, penalties, wallet, vault, treasury, mining,
    irregular>>
=============================================================================
