-------------------------- MODULE StakingProgress --------------------------
(***************************************************************************)
(* What the owner of a stake can count on, and what a punished one cannot. *)
(*                                                                         *)
(* A history variable keeps the voters under a tokenflow restriction that  *)
(* was not lifted, closed ones included.  After MaxTs callers start no     *)
(* lockup, and the clock goes on while one or its cooldown is running.     *)
(***************************************************************************)
EXTENDS StakingProps

CONSTANT Leaving   \* voters who want their tokens back

ASSUME LeavingAssumption == Leaving \subseteq Voters

VARIABLE barred

pvars == <<vars, barred>>

Lifted(v) == Restricted(v) /\ ~Restricted(v)' /\ Open(v)'

KeepBarred ==
  barred' = {v \in Voters : Restricted(v)' \/ (v \in barred /\ ~Lifted(v))}

NoLateStart ==
  \A v \in Voters, i \in Slots :
    LET old == deposits[v][i].lockup
        new == deposits'[v][i].lockup
    IN  deposits'[v][i].is_used /\ new.start_ts # old.start_ts => now <= MaxTs

LockRuns(lockup, ts) == lockup.end_ts > ts \/ lockup.cooldown_ends_at > ts

LateSlot ==
  /\ now >= MaxTs
  /\ \E v \in Voters, i \in Slots : LockRuns(deposits[v][i].lockup, now)
  /\ now' = now + 1
  /\ record' = [v \in Voters |-> [record[v] EXCEPT !.current = FALSE]]
  /\ UNCHANGED <<status, deposits, penalties, tokens, mining, cast, proposing>>

PInit == Init /\ barred = {}

PNext == (Next \/ LateSlot) /\ NoLateStart /\ KeepBarred

-----------------------------------------------------------------------------
(* Fairness.  The clock goes on.  A voter who wants the tokens back sends   *)
(* unlock_tokens until it is accepted, takes votes back, and withdraws as   *)
(* often as it takes: the authority may restrict and allow the tokenflow,   *)
(* and votes may be cast again, in between.  Nobody else has to do anything.*)

Tick == (NextSlot \/ LateSlot) /\ now' > now /\ KeepBarred

TakeVoteBack(v) == RelinquishVote(v) /\ KeepBarred

UnlockStake(v, i) ==
  IsStaked(deposits[v][i]) /\ UnlockTokens(v, i) /\ KeepBarred

WithdrawAll(v, i) ==
  LET d == deposits[v][i]
  IN  /\ d.amount_deposited_native > 0
      /\ d.voting_mint_config_idx \in MintIdx
      /\ Withdraw(v, i, d.voting_mint_config_idx, d.amount_deposited_native)
      /\ KeepBarred

Persistent(v) ==
  /\ WF_pvars(TakeVoteBack(v))
  /\ \A i \in Slots :
       WF_pvars(UnlockStake(v, i)) /\ SF_pvars(WithdrawAll(v, i))

Fairness == WF_pvars(Tick) /\ \A v \in Leaving : Persistent(v)

PSpec == PInit /\ [][PNext]_pvars /\ Fairness

-----------------------------------------------------------------------------
Holds(v, i) ==
  Active(v, i) /\ deposits[v][i].amount_deposited_native > 0

Unhindered(v) == ~Restricted(v) /\ v \notin proposing

\* Two dead ends that the code has: withdraw sends the penalty of an entry of
\* another mint to an account of the governing mint (finding stuck_penalty), and
\* unlock_tokens needs the mining of a delegate who may have closed it.  (A
\* strict rewards program refuses to close it, see DelegatesStayOpen.)
DeadEnd(v, i) ==
  LET d == deposits[v][i]
  IN  \/ d.slashing_penalty > 0 /\ d.voting_mint_config_idx # GoverningIdx
      \/ IsStaked(d) /\ d.delegate \notin mining.opened

\* Whatever stake, extend_stake, slash in full or in part, votes and restrictions
\* come in between: once a voter who wants the tokens back stays without a
\* restriction and an open proposal, every entry that holds tokens is emptied or
\* comes to one of the two dead ends.  There is no third: no other state
\* of the entry, of its penalty or of the vault in which unlock_tokens, the end
\* of the cooldown and withdraw can not all follow.
NoEntryHoldsForever ==
  \A v \in Leaving :
    <>[]Unhindered(v) =>
      \A i \in Slots : Holds(v, i) ~> (~Holds(v, i) \/ DeadEnd(v, i))

\* From restrict_tokenflow until allow_tokenflow, whoever calls them, a voter is
\* paid nothing, no tokens by withdraw and no rewards by claim: close_voter
\* forgets the restriction, and create_voter does not make the voter anew.
PunishedGetNothing ==
  [][\A v \in barred :
       /\ \A m \in MintIdx : vault'[v][m] >= vault[v][m]
       /\ mining'.paid[v] = mining.paid[v]]_pvars
=============================================================================
