----------------------------- MODULE MCStaking -----------------------------
(***************************************************************************)
(* Instances of the staking program for TLC.                               *)
(***************************************************************************)
EXTENDS StakingProps, TLC

\* State constraint of the runs that are not about votes.
NoVotesCast == proposing = {} /\ \A v \in Voters : cast[v] = NoVote

\* State constraint: tokenflow restrictions only matter to withdraw.
NoRestriction == \A v \in Voters : ~Restricted(v)

\* State constraint: restrictions, proposals and rewards, which MCProgress follows,
\* come to voters without entries only.
PlainVoters ==
  \A v \in Voters :
    Restricted(v) \/ v \in proposing \/ mining.earned[v] + mining.paid[v] > 0
      => deposits[v] = NoDeposits

\* State constraint: a second voter comes when the first has a stake, and delegates
\* to it; nothing else happens then.
SecondDelegates ==
  \A v, w \in Voters :
    v # w /\ status[v] # "absent" /\ status[w] # "absent" =>
      /\ now = GenesisTs /\ treasury = 0 /\ StakedBy(v) + StakedBy(w) > 0
      /\ status[v] = "open" /\ cast[v] = NoVote /\ record[v].weight = 0
      /\ v \notin proposing
      /\ penalties[v] = NoPenalties /\ mining.earned[v] = 0
      /\ \A i \in Slots :
           LET d == deposits[v][i]
           IN  d.is_used => /\ d.lockup.kind = IF i = 0 THEN "None" ELSE "Constant"
                            /\ ~d.lockup.cooldown_requested
                            /\ d.slashing_penalty = 0

\* State constraint: of an entry that holds and one that stakes, entry 0 holds.
\* The program does not tell indexes apart, so the other order shows nothing new.
HoldsBeforeStakes ==
  \A v \in Voters :
    ~ /\ deposits[v][0].is_used /\ deposits[v][0].lockup.kind = "Constant"
      /\ deposits[v][1].is_used /\ deposits[v][1].lockup.kind = "None"

\* State constraint: one token each.
OneTokenEach == \A v \in Voters, m \in MintIdx : vault[v][m] <= 1

\* State constraint: extending an entry in its cooldown and withdrawing again
\* can be repeated, and each time the rewards program counts more.
LedgerBounded ==
  \A v \in Voters : mining.counted[v] <= Supply /\ mining.delegated[v] <= Supply

\* State constraint: nothing follows an irregular step on the holding entry.
HoldingEntryPlain ==
  \A v \in Voters :
    LET d == deposits[v][0]
    IN  d.is_used => /\ d.delegate = v /\ d.slashing_penalty = 0
                     /\ ~d.lockup.cooldown_requested

\* State constraint: nothing follows a close_voter that named another pool.
ClosedInThisPool ==
  \A v \in Voters : status[v] = "closed" => v \notin mining.opened

\* View of those runs: without votes no guard reads the weight record.
WithoutRecords ==
  <<now, status, deposits, penalties, wallet, vault, treasury, mining>>

\* State constraint: entry 0, when in use, is the one that deposits go to.
FirstEntryHolds ==
  \A v \in Voters :
    deposits[v][0].is_used => deposits[v][0].lockup.kind = "None"

\* State constraint: entry 1, when in use, is the one that is staked.
SecondEntryStakes ==
  \A v \in Voters :
    deposits[v][1].is_used => deposits[v][1].lockup.kind = "Constant"

VoterSymmetry == Permutations(Voters)
=============================================================================
