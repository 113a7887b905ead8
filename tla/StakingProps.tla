---------------------------- MODULE StakingProps ----------------------------
(***************************************************************************)
(* What the staking program should guarantee.  Each definition says which  *)
(* code it is about.                                                       *)
(***************************************************************************)
EXTENDS Staking

\* Tokens the program owes on behalf of an entry: what the owner may withdraw
\* and what withdraw will send to the treasury.
Owed(d) == d.amount_deposited_native + d.slashing_penalty

OwedFor(d, mint) ==
  IF d.is_used /\ d.voting_mint_config_idx = mint THEN Owed(d) ELSE 0

OwedIn(v, mint) == SumOver([i \in Slots |-> OwedFor(deposits[v][i], mint)])

\* Every vault holds at least the amounts and the penalties of the entries of
\* its mint: deposit, stake, extend_stake, slash, withdraw and
\* close_deposit_entry keep the books and the token account in step, so
\* that withdraw is never refused for want of tokens.
VaultCoversEntries ==
  \A v \in Voters, m \in MintIdx : Open(v) => OwedIn(v, m) <= vault[v][m]

\* The lockup of an entry in use is one Lockup::new could have made for its
\* current start, whatever stake and extend_stake did to it since; a cooldown
\* ends at most CooldownSecs away, and none is set that was not asked for;
\* an entry of kind None holds no lock at all.
EntryWellFormed(d, ts) ==
  d.is_used =>
    /\ ValidLockup(d.lockup.kind, d.lockup.period)
    /\ d.lockup.start_ts <= ts
    /\ d.lockup.end_ts = d.lockup.start_ts + ToSecs(d.lockup.period)
    /\ d.delegate_last_update_ts <= ts
    /\ d.lockup.cooldown_requested =>
         d.lockup.cooldown_ends_at <= ts + CooldownSecs
    /\ ~d.lockup.cooldown_requested => d.lockup.cooldown_ends_at = 0

EntriesWellFormed ==
  \A v \in Voters, i \in Slots : EntryWellFormed(deposits[v][i], now)

\* The weight a voter can vote with never exceeds what its entries hold: every
\* handler that takes weight away (withdraw, slash) rewrites the record, and
\* the others move weight between entries or add to it.
RecordCoveredByEntries ==
  \A v \in Voters : Open(v) => record[v].weight <= Weight(deposits[v])

\* Votes that still count are backed by tokens in custody, of a closed voter
\* too: withdraw is refused until they are relinquished.
VotesBackedByVaults ==
  \A v \in Voters :
    cast[v] <= SumOver([i \in Slots |->
      IF i \in MintIdx THEN vault[v][i] ELSE 0])

\* While an entry stays in use nothing brings its end closer, and its period
\* is never exchanged for a weaker one before the end: stake, extend_stake and
\* unlock_tokens only ever move end_ts forward.
LockHolds(old, new, ts) ==
  old.is_used /\ new.is_used =>
    /\ old.lockup.end_ts <= new.lockup.end_ts
    /\ ts < old.lockup.end_ts /\ old.lockup.kind = "Constant" =>
         Rank(old.lockup.period) <= Rank(new.lockup.period)

LockNeverShortens ==
  [][\A v \in Voters, i \in Slots :
       LockHolds(deposits[v][i], deposits'[v][i], now)]_vars

\* Tokens of a staked entry stay in it until it is unlocked: no instruction,
\* close_voter included, lowers what the entry owes or frees the entry.
FundsStay(old, new) ==
  IsStaked(old) /\ old.amount_deposited_native > 0 =>
    new.is_used /\ Owed(old) <= Owed(new)

StakedFundsStay ==
  [][\A v \in Voters, i \in Slots :
       FundsStay(deposits[v][i], deposits'[v][i])]_vars

-----------------------------------------------------------------------------
(* The staking program against the rewards program (StrictRewards = TRUE). *)

StakedBy(v) == SumOver([i \in Slots |-> AmountLocked(deposits[v][i])])

StakedTo(v, d) ==
  SumOver([i \in Slots |->
    IF deposits[v][i].delegate = d THEN AmountLocked(deposits[v][i]) ELSE 0])

\* Calls the program accepts on an entry that is not staked, although the
\* rewards program is told of an amount: unlocking or re-delegating tokens
\* that were never staked, slashing them, and staking or extending into an
\* entry whose cooldown was already requested.
Irregular(old, new) ==
  /\ old.is_used /\ new.is_used /\ ~IsStaked(old)
  /\ \/ old.lockup.cooldown_requested # new.lockup.cooldown_requested
     \/ old.slashing_penalty < new.slashing_penalty
     \/ old.delegate # new.delegate
     \/ /\ old.lockup.kind = "Constant"
        /\ old.amount_deposited_native < new.amount_deposited_native

\* slash is irregular for a delegate, of a staked entry too: it passes no
\* delegate mining, and the delegate keeps the slashed amount.
IrregularForDelegate(old, new) ==
  \/ Irregular(old, new)
  \/ old.slashing_penalty < new.slashing_penalty

\* What the rewards program holds for a delegate moves with the stakes of
\* others delegated to it in every step but the irregular ones: stake,
\* extend_stake, unlock_tokens and change_delegate name the same delegate and
\* the same amounts, and withdraw, close_deposit_entry and close_voter only
\* touch entries that are not delegated any more.
DelegatesFollowStakes ==
  [][\A v \in Voters :
       /\ deposits[v] # deposits'[v]
       /\ \A i \in Slots :
            ~IrregularForDelegate(deposits[v][i], deposits'[v][i])
       => \A d \in Voters \ {v} :
            mining'.delegated[d] - mining.delegated[d]
              = StakedTo(v, d)' - StakedTo(v, d)]_vars
=============================================================================
