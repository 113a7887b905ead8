------------------------- MODULE MCStakingProgress -------------------------
(***************************************************************************)
(* The instance of the progress module: owners who want their tokens back, *)
(* and a delegate whose own stake is elsewhere.  A state constraint would  *)
(* cut behaviours short, so the bounds are part of the steps; no fair step *)
(* leads out of them.                                                      *)
(***************************************************************************)
EXTENDS StakingProgress

\* Bound: entry 0 holds tokens, entry 1 is the one that is staked; entry 0 is
\* made at the start, slashed while there is no other, and not put in a
\* cooldown, which would hold nothing back.
EntriesInOrder(v) ==
  /\ deposits[v][0].is_used =>
       /\ deposits[v][0].lockup.kind = "None"
       /\ deposits[v][0].lockup.start_ts = GenesisTs
       /\ ~deposits[v][0].lockup.cooldown_requested
       /\ deposits[v][0].slashing_penalty > 0 => ~deposits[v][1].is_used
  /\ deposits[v][1].is_used => deposits[v][1].lockup.kind = "Constant"

Of(v, P(_)) == \E i \in Slots : deposits[v][i].is_used /\ P(deposits[v][i])

OfMint(v, m) == Of(v, LAMBDA d : d.voting_mint_config_idx = m)

Delegating(v) == Of(v, LAMBDA d : d.delegate # v)

\* Bound: one mint at a time, with all tokens of the others in the wallet.
OneMint(v) ==
  \A m \in MintIdx : OfMint(v, m) =>
    \A n \in MintIdx \ {m} : ~OfMint(v, n) /\ wallet[n] = Supply

\* Bound: of a vote, a proposal and a restriction one at a time, and with own
\* entries of the governing mint.  Withdraw looks at each of them and at nothing
\* that two of them have in common.
OneHindrance(v) ==
  LET hindered == {x \in 1 .. 3 : \/ x = 1 /\ cast[v] # NoVote
                                  \/ x = 2 /\ v \in proposing
                                  \/ x = 3 /\ Restricted(v)}
  IN  /\ Cardinality(hindered) <= 1
      /\ cast[v] \in {NoVote, Supply}
      /\ Delegating(v) \/ (\E m \in MintIdx \ {GoverningIdx} : OfMint(v, m))
           => hindered = {}

\* Bound: rewards come to owners without entries; claim reads no entry.
RewardsApart(v) ==
  mining.earned[v] + mining.paid[v] > 0 => deposits[v] = NoDeposits

\* Bound: the delegate is there first, has stakes of the governing mint delegated
\* to it, and closes its mining under one.
DelegateBetimes(v) ==
  /\ Delegating(v) => OfMint(v, GoverningIdx)
  /\ \A d \in StakedElsewhere :
       /\ status[v] # "absent" => status[d] # "absent"
       /\ status[d] = "closed" => d \notin mining.opened /\ StakedTo(v, d) > 0

Bounded ==
  \A v \in Leaving :
    /\ EntriesInOrder(v) /\ OneMint(v) /\ OneHindrance(v)
    /\ RewardsApart(v) /\ DelegateBetimes(v)

\* Bound: the record is brought up to date, so that a vote or a proposal may
\* follow, while all tokens of the mint are deposited.
FullRecords ==
  \A v \in Leaving :
    deposits'[v] = deposits[v] /\ record'[v].current /\ ~record[v].current =>
      record'[v].weight = Supply

\* Bound: the delegate opens and closes its voter and does nothing else.
Steps ==
  \/ \E v \in Leaving :
       \/ UserStep(v) \/ AuthorityStep(v)
       \/ GovernanceStep(v) \/ Distribute(v)
  \/ \E d \in StakedElsewhere : CreateVoter(d) \/ CloseVoter(d)
  \/ NextSlot \/ LateSlot

MCNext == Steps /\ Bounded' /\ FullRecords /\ NoLateStart /\ KeepBarred

MCSpec == PInit /\ [][MCNext]_pvars /\ Fairness
=============================================================================
