------------------------------ MODULE Staking ------------------------------
(***************************************************************************)
(* The staking program: programs/mpl-staking.  One action per instruction; *)
(* an instruction is atomic, and one that fails leaves no trace, so its    *)
(* error returns are the guards of its action.                             *)
(*                                                                         *)
(* Around it, modelled from how it is used: the token program (wallet,     *)
(* vault, treasury), the rewards program (RewardsLedger), the governance   *)
(* program (cast, proposing) and the clock.                                *)
(*                                                                         *)
(* The voters are those of one registrar.  Where the accounts of an        *)
(* instruction do not tie the voter to the registrar, or a delegate to     *)
(* either, what the accounts of another registrar allow is included.       *)
(***************************************************************************)
EXTENDS DepositEntry, FiniteSets

CONSTANTS
  NumDeposits,          \* length of Voter.deposits (32)
  GoverningIdx,         \* index of realm_governing_token_mint
  MinOwnWeightedStake,  \* Voter::MIN_OWN_WEIGHTED_STAKE
  DelegateThreshold,    \* DELEGATE_UPDATE_DIFF_THRESHOLD
  StrictRewards,        \* see RewardsLedger
  StakedElsewhere,      \* who has a weighted stake with another registrar
  MaxEarned,            \* see RewardsLedger
  MaxDecrease,          \* bound: weighted stake taken by decrease_rewards
  MintingDates,         \* bound: timestamps passed to restrict_batch_minting
  CallerPeriods,        \* bound: the periods callers ask for
  Supply,               \* bound: tokens of each mint in the initial wallets
  GenesisTs, MaxTs      \* bound: first and last value of the clock

ASSUME StakingAssumption ==
  /\ NumDeposits \in Nat /\ MintIdx \subseteq Nat /\ GoverningIdx \in Int
  /\ MinOwnWeightedStake \in Nat \ {0}
  /\ DelegateThreshold \in Nat /\ StrictRewards \in BOOLEAN
  /\ StakedElsewhere \subseteq Voters
  /\ CallerPeriods \subseteq LockupPeriod
  /\ Supply \in Nat /\ GenesisTs \in Nat /\ MaxTs \in Nat
  /\ MaxEarned \in Nat /\ MaxDecrease \in Nat /\ MintingDates \subseteq Nat
  /\ GenesisTs <= MaxTs
  \* Real timestamps are far beyond the threshold: an entry that was never
  \* delegated (delegate_last_update_ts = 0) may be delegated at once.
  /\ DelegateThreshold < GenesisTs

\* Only some accounts of the chain are ever voter authorities.
ASSUME VotersAssumption == IsFiniteSet(Voters)

\* Registrar.voting_mints has 2 elements and Voter.deposits 32: a sum over the
\* deposits' indexes reaches every mint.
ASSUME MintsAssumption == MintIdx \subseteq 0 .. NumDeposits - 1

VARIABLES
  now,         \* Clock::unix_timestamp
  status,      \* the Voter account of each authority
  deposits,    \* Voter.deposits
  penalties,   \* the penalties of the Voter other than slashes
  record,      \* VoterWeightRecord: weight, and whether expiry is this slot
  wallet,      \* tokens of each mint outside the program's custody
  vault,       \* token account of each voter and mint
  treasury,    \* the realm's holding account of the governing mint
  mining,      \* the rewards program
  cast,        \* weight of the votes not relinquished, or NoVote
  proposing    \* voters with a proposal that is not finalised

tokens == <<wallet, vault, treasury>>
vars == <<now, status, deposits, penalties, record, tokens, mining, cast,
          proposing>>

Rewards == INSTANCE RewardsLedger

Slots == 0 .. NumDeposits - 1
Amounts == 0 .. Supply
NoVote == -1

PenaltyType ==
  [tokenflow_restricted : BOOLEAN, decreased_weighted_stake_by : Nat,
   batch_minting_restricted_until : Nat]

NoPenalties ==
  [tokenflow_restricted |-> FALSE, decreased_weighted_stake_by |-> 0,
   batch_minting_restricted_until |-> 0]

TypeOK ==
  /\ now \in Nat
  /\ status \in [Voters -> {"absent", "open", "closed"}]
  /\ deposits \in [Voters -> [Slots -> EntryType]]
  /\ penalties \in [Voters -> PenaltyType]
  /\ record \in [Voters -> [weight : Nat, current : BOOLEAN]]
  /\ wallet \in [MintIdx -> Nat]
  /\ vault \in [Voters -> [MintIdx -> Nat]]
  /\ treasury \in Nat
  /\ mining \in Rewards!MiningType
  /\ cast \in [Voters -> Nat \cup {NoVote}]
  /\ proposing \subseteq Voters

-----------------------------------------------------------------------------
(* Sums over the deposits of a voter: the folds of voter.rs. *)

SumTo(len, f) ==
  LET sum[n \in 0 .. len] == IF n = 0 THEN 0 ELSE sum[n - 1] + f[n - 1]
  IN  sum[len]

SumOver(f) == SumTo(NumDeposits, f)

Weight(entries) ==
  SumOver([i \in Slots |-> IF entries[i].is_used
                           THEN VotingPower(entries[i]) ELSE 0])

OwnWeightedStake(v) ==
  SumOver([i \in Slots |-> WeightedStake(deposits[v][i], now)])

NoDeposits == [i \in Slots |-> EmptyEntry]

Open(v) == status[v] = "open"
Active(v, i) == Open(v) /\ deposits[v][i].is_used

Restricted(v) == penalties[v].tokenflow_restricted

UpdateEntry(v, i, entry) == deposits' = [deposits EXCEPT ![v][i] = entry]

\* Mutated form of RefreshRecord: the weight from before the handler.
RefreshRecordFirst(v) ==
  record' = [record EXCEPT ![v] = [weight |-> Weight(deposits[v]),
                                   current |-> TRUE]]

\* The record is rewritten from the deposits as the handler leaves them.
RefreshRecord(v) ==
  record' = [record EXCEPT ![v] = [weight |-> Weight(deposits'[v]),
                                   current |-> TRUE]]

-----------------------------------------------------------------------------
Init ==
  /\ now = GenesisTs
  /\ status = [v \in Voters |-> "absent"]
  /\ deposits = [v \in Voters |-> NoDeposits]
  /\ penalties = [v \in Voters |-> NoPenalties]
  /\ record = [v \in Voters |-> [weight |-> 0, current |-> FALSE]]
  /\ wallet = [m \in MintIdx |-> Supply]
  /\ vault = [v \in Voters |-> [m \in MintIdx |-> 0]]
  /\ treasury = 0
  /\ mining = Rewards!NoMining
  /\ cast = [v \in Voters |-> NoVote]
  /\ proposing = {}

\* Mutated form of CreateVoter: the weight record is initialized if needed.
RecreateVoter(v) ==
  /\ ~Open(v)
  /\ status' = [status EXCEPT ![v] = "open"]
  /\ Rewards!InitializeMining(v)
  /\ UNCHANGED <<now, deposits, penalties, record, tokens, cast, proposing>>

\* The init constraint of voter_weight_record fails for an authority whose
\* voter was closed: closing leaves that account behind.  (A fresh record has
\* weight 0 and no expiry; it is taken for one of an earlier slot.)
CreateVoter(v) ==
  /\ status[v] = "absent"
  /\ status' = [status EXCEPT ![v] = "open"]
  /\ Rewards!InitializeMining(v)
  /\ UNCHANGED <<now, deposits, penalties, record, tokens, cast, proposing>>

\* Delegating to somebody else needs their own weighted stake, with whichever
\* registrar: delegate_voter is not tied to the one of the voter.
MayDelegateTo(v, delegate) ==
  \/ delegate \in {v} \cup StakedElsewhere
  \/ Open(delegate) /\ OwnWeightedStake(delegate) >= MinOwnWeightedStake

CreateDepositEntry(v, i, delegate, kind, period, mint) ==
  /\ Open(v)
  /\ MayDelegateTo(v, delegate)
  /\ kind = "None" /\ period = "None" => delegate = v
  /\ ~deposits[v][i].is_used
  /\ ValidLockup(kind, period)
  /\ UpdateEntry(v, i, NewEntry(delegate, mint, NewLockup(kind, now, period)))
  /\ UNCHANGED <<now, status, penalties, record, tokens, mining, cast, proposing>>

\* Deposits of zero return before anything is done.
Deposit(v, i, mint, amount) ==
  /\ amount \in 1 .. wallet[mint]
  /\ Active(v, i)
  /\ LET entry == deposits[v][i] IN
     /\ entry.lockup.kind = "None" /\ entry.lockup.period = "None"
     /\ entry.voting_mint_config_idx = mint
     /\ UpdateEntry(v, i, Plus(entry, amount))
  /\ wallet' = [wallet EXCEPT ![mint] = @ - amount]
  /\ vault' = [vault EXCEPT ![v][mint] = @ + amount]
  /\ UNCHANGED <<now, status, penalties, record, treasury, mining, cast, proposing>>

\* The source of stake and extend_stake gives `amount` before the target is
\* looked at, so a target equal to the source is read after it has given.
Given(v, source, amount) ==
  [deposits[v] EXCEPT ![source] = Minus(@, amount)]

\* Mutated form of SourceGives: the amount is not compared.
SourceGivesAnything(v, source, amount) ==
  Active(v, source) /\ deposits[v][source].lockup.kind = "None"

SourceGives(v, source, amount) ==
  /\ Active(v, source)
  /\ deposits[v][source].lockup.kind = "None"
  /\ amount <= AmountUnlocked(deposits[v][source])

\* Mutated form of SameMint: entries of different mints are compatible.
AnyMint(v, source, target) == Active(v, target)

SameMint(v, source, target) ==
  /\ Active(v, target)
  /\ deposits[v][target].voting_mint_config_idx
       = deposits[v][source].voting_mint_config_idx

Stake(v, source, target, amount) ==
  LET given == Given(v, source, amount)
      entry == given[target]
  IN  /\ SourceGives(v, source, amount)
      /\ SameMint(v, source, target)
      /\ entry.amount_deposited_native = 0
      /\ deposits' = [deposits EXCEPT
           ![v] = [given EXCEPT ![target] = Staked(entry, amount, now)]]
      /\ Rewards!DepositMining(v, entry.delegate, amount, entry.lockup.period)
      /\ UNCHANGED <<now, status, penalties, record, tokens, cast, proposing>>

UnlockTokens(v, i) ==
  LET entry == deposits[v][i]
  IN  /\ Active(v, i)
      /\ ~entry.lockup.cooldown_requested
      /\ now >= entry.lockup.end_ts
      /\ UpdateEntry(v, i, CoolingDown(entry, now))
      /\ Rewards!WithdrawMining(v, entry.delegate,
                                entry.amount_deposited_native)
      /\ UNCHANGED <<now, status, penalties, record, tokens, cast, proposing>>

ExtendStake(v, source, target, period, amount) ==
  LET given == Given(v, source, amount)
      entry == given[target]
  IN  /\ SourceGives(v, source, amount)
      /\ SameMint(v, source, target)
      /\ entry.lockup.period # "None" /\ entry.lockup.kind # "None"
      /\ Rank(period) >= Rank(CurrentPeriod(entry, now))
      /\ deposits' = [deposits EXCEPT
           ![v] = [given EXCEPT
                     ![target] = Extended(entry, period, amount, now)]]
      /\ Rewards!ExtendMining(v, entry.delegate, CurrentPeriod(entry, now),
                              period, entry.lockup.start_ts,
                              entry.amount_deposited_native, amount)
      /\ UNCHANGED <<now, status, penalties, record, tokens, cast, proposing>>

ChangeDelegate(v, i, delegate) ==
  LET entry == deposits[v][i]
  IN  /\ Active(v, i)
      /\ now - entry.delegate_last_update_ts > DelegateThreshold
      /\ delegate # entry.delegate
      /\ MayDelegateTo(v, delegate)
      /\ UpdateEntry(v, i, Delegated(entry, delegate, now))
      /\ Rewards!ChangeDelegateMining(v, entry.delegate, delegate,
                                      entry.amount_deposited_native)
      /\ UNCHANGED <<now, status, penalties, record, tokens, cast, proposing>>

\* Mutated form of CooledDown: the cooldown need not have been asked for.
CooledDownUnasked(entry) ==
  entry.lockup.kind = "Constant" => now >= entry.lockup.cooldown_ends_at

\* Funds of a Constant entry leave after the cooldown asked for has passed.
CooledDown(entry) ==
  entry.lockup.kind = "Constant" =>
    /\ entry.lockup.cooldown_requested
    /\ now >= entry.lockup.cooldown_ends_at

\* Mutated form of GovernanceAllows: the token owner record is not asked.
GovernanceUnasked(v) == TRUE

\* assert_can_withdraw_governing_tokens of the token owner record: votes are
\* relinquished, proposals of the voter finalised or cancelled.
GovernanceAllows(v) == cast[v] = NoVote /\ v \notin proposing

\* The penalty is paid from the same vault into the treasury, an account of
\* the governing mint: for another mint the transfer fails.
Withdraw(v, i, mint, amount) ==
  LET entry == deposits[v][i]
      penalty == entry.slashing_penalty
  IN  /\ Active(v, i)
      /\ ~Restricted(v)
      /\ GovernanceAllows(v)
      /\ CooledDown(entry)
      /\ amount <= AmountUnlocked(entry)
      /\ mint = entry.voting_mint_config_idx
      /\ penalty > 0 => mint = GoverningIdx
      /\ amount + penalty <= vault[v][mint]
      /\ UpdateEntry(v, i, Withdrawn(entry, amount))
      /\ RefreshRecord(v)
      /\ vault' = [vault EXCEPT ![v][mint] = @ - amount - penalty]
      /\ wallet' = [wallet EXCEPT ![mint] = @ + amount]
      /\ treasury' = treasury + penalty
      /\ UNCHANGED <<now, status, penalties, mining, cast, proposing>>

CloseDepositEntry(v, i) ==
  /\ Active(v, i)
  /\ deposits[v][i].amount_deposited_native = 0
  /\ UpdateEntry(v, i, EmptyEntry)
  /\ UNCHANGED <<now, status, penalties, record, tokens, mining, cast, proposing>>

\* The date a slash passes on: none once the lockup is over.  (The comparison
\* is strict, that of Expired is not.)
ExpirationDate(entry, ts) ==
  IF ts > entry.lockup.end_ts THEN Rewards!NoDate ELSE entry.lockup.end_ts

\* The penalties.  Each is signed by the authority of a registrar.  Slash and
\* decrease_rewards are taken to be given accounts of the voter's own; the other
\* three may be signed by the authority of any registrar: their accounts
\* (Penalty in penalties/mod.rs) do not tie the voter to the registrar.
Slash(v, i, amount) ==
  LET entry == deposits[v][i]
  IN  /\ Active(v, i)
      /\ amount <= entry.amount_deposited_native
      /\ UpdateEntry(v, i, Slashed(entry, amount))
      /\ RefreshRecord(v)
      /\ Rewards!SlashMining(v, amount,
                             amount * PeriodMultiplier(entry.lockup.period),
                             ExpirationDate(entry, now))
      /\ UNCHANGED <<now, status, penalties, tokens, cast, proposing>>

RestrictTokenflow(v) ==
  /\ Open(v) /\ ~Restricted(v)
  /\ penalties' = [penalties EXCEPT ![v].tokenflow_restricted = TRUE]
  /\ UNCHANGED <<now, status, deposits, record, tokens, mining, cast, proposing>>

AllowTokenflow(v) ==
  /\ Open(v) /\ Restricted(v)
  /\ penalties' = [penalties EXCEPT ![v].tokenflow_restricted = FALSE]
  /\ UNCHANGED <<now, status, deposits, record, tokens, mining, cast, proposing>>

\* The timestamp replaces the one before, an earlier one too.
RestrictBatchMinting(v, until) ==
  /\ Open(v)
  /\ penalties' = [penalties EXCEPT ![v].batch_minting_restricted_until = until]
  /\ UNCHANGED <<now, status, deposits, record, tokens, mining, cast, proposing>>

DecreaseRewards(v, weight) ==
  /\ Open(v)
  /\ penalties[v].decreased_weighted_stake_by + weight <= MaxDecrease
  /\ penalties' = [penalties EXCEPT ![v].decreased_weighted_stake_by = @ + weight]
  /\ Rewards!DecreaseRewardsMining(v, weight)
  /\ UNCHANGED <<now, status, deposits, record, tokens, cast, proposing>>

\* The governance, proposal and vote record that claim wants to see may be
\* arbitrary accounts, of any owner: that they fit says nothing of `cast`.
Claim(v) ==
  /\ Open(v)
  /\ ~Restricted(v)
  /\ Rewards!ClaimMining(v)
  /\ UNCHANGED <<now, status, deposits, penalties, record, tokens, cast, proposing>>

\* Mutated form of NothingLocked: an expired stake may be dropped.
NothingLockedNow(v) ==
  \A i \in Slots : \/ AmountLocked(deposits[v][i]) = 0
                   \/ Expired(deposits[v][i].lockup, now)

NothingLocked(v) == \A i \in Slots : AmountLocked(deposits[v][i]) = 0

\* remaining_accounts must hold one account per active entry, all of which are
\* taken as vaults: no target account is left and the loop that would check,
\* empty and close the vaults has no iteration.  The registrar and its pool may
\* be others than the voter's, and the mining that is closed one of that pool.
CloseVoter(v) ==
  /\ Open(v)
  /\ NothingLocked(v)
  /\ status' = [status EXCEPT ![v] = "closed"]
  /\ deposits' = [deposits EXCEPT ![v] = NoDeposits]
  /\ penalties' = [penalties EXCEPT ![v] = NoPenalties]
  /\ Rewards!CloseMining(v) \/ UNCHANGED mining
  /\ UNCHANGED <<now, record, tokens, cast, proposing>>

UpdateVoterWeightRecord(v) ==
  /\ Open(v)
  /\ deposits' = deposits
  /\ RefreshRecord(v)
  /\ UNCHANGED <<now, status, penalties, tokens, mining, cast, proposing>>

-----------------------------------------------------------------------------
(* The environment. *)

\* Governance takes the weight of a record of this very slot, for a vote and
\* for a proposal.
CastVote(v) ==
  /\ record[v].current /\ cast[v] = NoVote
  /\ cast' = [cast EXCEPT ![v] = record[v].weight]
  /\ UNCHANGED <<now, status, deposits, penalties, record, tokens, mining,
                 proposing>>

\* The voter relinquishes, or the proposal is decided first.
RelinquishVote(v) ==
  /\ cast[v] # NoVote
  /\ cast' = [cast EXCEPT ![v] = NoVote]
  /\ UNCHANGED <<now, status, deposits, penalties, record, tokens, mining,
                 proposing>>

CreateProposal(v) ==
  /\ record[v].current
  /\ proposing' = proposing \cup {v}
  /\ UNCHANGED <<now, status, deposits, penalties, record, tokens, mining, cast>>

\* The last open proposal of the voter is finalised or cancelled.
FinalizeProposal(v) ==
  /\ v \in proposing
  /\ proposing' = proposing \ {v}
  /\ UNCHANGED <<now, status, deposits, penalties, record, tokens, mining, cast>>

Distribute(v) ==
  /\ Rewards!DistributeRewards(v)
  /\ UNCHANGED <<now, status, deposits, penalties, record, tokens, cast, proposing>>

\* The next slot: every record goes stale, the clock may or may not tick.
NextSlot ==
  /\ now' \in {now, now + 1} /\ now' <= MaxTs
  /\ record' = [v \in Voters |-> [record[v] EXCEPT !.current = FALSE]]
  /\ UNCHANGED <<status, deposits, penalties, tokens, mining, cast, proposing>>

-----------------------------------------------------------------------------
UserStep(v) ==
  \/ CreateVoter(v)
  \/ \E i \in Slots, m \in MintIdx, d \in Voters, k \in LockupKind,
        p \in CallerPeriods : CreateDepositEntry(v, i, d, k, p, m)
  \/ \E i \in Slots, m \in MintIdx, a \in Amounts : Deposit(v, i, m, a)
  \/ \E i, j \in Slots, a \in Amounts : Stake(v, i, j, a)
  \/ \E i \in Slots : UnlockTokens(v, i)
  \/ \E i, j \in Slots, p \in CallerPeriods, a \in Amounts :
        ExtendStake(v, i, j, p, a)
  \/ \E i \in Slots, d \in Voters : ChangeDelegate(v, i, d)
  \/ \E i \in Slots, m \in MintIdx, a \in Amounts : Withdraw(v, i, m, a)
  \/ \E i \in Slots : CloseDepositEntry(v, i)
  \/ Claim(v)
  \/ CloseVoter(v)
  \/ UpdateVoterWeightRecord(v)

AuthorityStep(v) ==
  \/ \E i \in Slots, a \in Amounts : Slash(v, i, a)
  \/ RestrictTokenflow(v)
  \/ AllowTokenflow(v)
  \/ \E until \in MintingDates : RestrictBatchMinting(v, until)
  \/ \E weight \in 1 .. MaxDecrease : DecreaseRewards(v, weight)

GovernanceStep(v) ==
  \/ CastVote(v) \/ RelinquishVote(v)
  \/ CreateProposal(v) \/ FinalizeProposal(v)

Next ==
  \/ \E v \in Voters :
       \/ UserStep(v) \/ AuthorityStep(v)
       \/ GovernanceStep(v) \/ Distribute(v)
  \/ NextSlot

Spec == Init /\ [][Next]_vars
=============================================================================
