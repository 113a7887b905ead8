# mplx-staking in TLA+

TLA+ models of the `mpl-staking` program, TLC configurations that check them on
small instances, and TLAPS proofs that carry the main results over to every
instance. Paths below are those of the repository; `instructions/` stands for
`programs/mpl-staking/src/instructions/`, `state/` for
`program-states/src/state/`.

## The system

Users of a DAO put governance tokens into the custody of the program, lock some
of them up for a period, earn rewards for what is locked, and vote with all of
it. The program is a set of Solana instructions over accounts. An instruction is
atomic: when any check or any call to another program fails, nothing of it has
happened. What is hard is not the inside of one instruction but the sequences
of them: thirty-two slots that are filled, emptied, extended, slashed and
reused by different callers at arbitrary times, while three sets of books (the
deposit entries, the token vaults, the rewards program) and two copies of the
weight (the record and the votes cast) have to stay in step.

| Component | State | Operations | Should guarantee | Modelled in |
|---|---|---|---|---|
| Lockup, deposit entry (`state/lockup.rs`, `state/deposit_entry.rs`) | kind, period, start, end, cooldown; amount, penalty, delegate, mint index | what each handler does to one entry; expiry, weight | a lock only moves forward; a payout waits for the cooldown | `Lockup`, `DepositEntry` |
| Voter (`state/voter.rs`, `instructions/`) | 32 entries, penalties, vaults | create_voter, create_deposit_entry, deposit, stake, unlock_tokens, extend_stake, change_delegate, withdraw, claim, close_deposit_entry, close_voter | vaults cover the entries; staked funds stay; tokens come back in the end, but for known dead ends | `Staking` |
| Penalties (`instructions/penalties/`) | penalty of an entry, tokenflow flag, decreased weight and minting date of the voter | slash, restrict_tokenflow, allow_tokenflow, decrease_rewards, restrict_batch_minting | a slash moves tokens from amount to penalty, loses none; who is restricted is paid nothing | `Staking` |
| Weight record (`voter.rs`, `governance.rs`, update_voter_weight_record) | weight and slot of expiry | written by update, withdraw, slash | never more than the entries hold; votes backed by custody | `Staking` |
| Registrar (`state/registrar.rs`) | table of two mints, authority | create_registrar, configure_voting_mint | one index per mint, for ever | `Registrar` |
| Calls to the rewards program (`cpi_instructions.rs`) | none of its own | one call per stake operation, claim and decrease_rewards | amounts, weights and dates told match what is staked, at every time | `RewardsLedger` |
| log_voter_info | none | logs, changes nothing | - | not modelled |
| Governance, token, rewards programs | votes, token accounts, mining accounts | used through calls | external | environment of `Staking`, `RewardsLedger` |
| TypeScript client and IDL | none | generated interface | - | not modelled |

Interactions: a user instruction reads the clock, changes entries, and calls the
token program (deposit, withdraw) or the rewards program (stake, unlock_tokens,
extend_stake, change_delegate, slash, close_voter, create_voter). Withdraw asks
governance whether votes or proposals are outstanding. Governance reads the weight record at
the moment of a vote or a proposal and at no other. The authority of a registrar slashes
and restricts at any time; restrict_tokenflow, allow_tokenflow and
restrict_batch_minting take that of any registrar, since their accounts
(`instructions/penalties/mod.rs:19-27`) do not tie the voter to one. claim asks for a
governance, a proposal and a vote record, which may be arbitrary accounts. Two voters
meet in one place: the delegate of an entry is another voter, of this or another
registrar, whose stake is looked at when it is named and whose mining account is
in every later call about that entry.

`PROJECT.json` lists the hazards at their lines, with the properties for each.

## The modules

- `Lockup`: record, order and lengths of the periods, expiry, multiplier. The
  lengths are constants; only `0 < Flex <= 3 months <= 6 months <= 1 year` is
  assumed (`SecsAssumption`).
- `DepositEntry`: one operator per change a handler makes to an entry
  (`Staked`, `CoolingDown`, `Extended`, `Delegated`, `Slashed`, `Withdrawn`, ...).
- `RewardsLedger`: the rewards program from the caller's side, one operator per
  call of `cpi_instructions.rs` with the arguments of the call. The repository
  holds that program's binary only, so the module keeps the two ends of what it
  may answer: with `StrictRewards` it counts amounts for owners and delegates,
  weighs each amount with its period's multiplier until the date the arguments
  of the call give, and refuses to take away what it does not count, deposits
  for period None and the closing of a mining others delegate to; without, it
  accepts everything and the counts are left out. Safety of custody and of locks
  is checked with the lenient one, where more behaviours are possible.
- `Staking`: state and one action per instruction, `Spec`. Guards are the error
  returns; a handler that writes twice (stake takes from the source, then reads
  the target, which may be the same entry) keeps its order (`Given`). Account
  constraints enter through `Open` and `Active`. A transfer the vault cannot
  pay makes the action impossible, as it makes the instruction fail.
- `StakingProps`: the properties of states and steps. Four modules add a
  history variable each, and nothing else, for the properties about the past:
  `StakingHistory` (when an entry last held a stake), `StakingWeights` (which
  voters made a call the rewards program cannot follow), `StakingDelegates` (about
  which delegates it was told of tokens that were not staked) and
  `StakingProgress` (who is under a restriction that was not lifted; also
  fairness, and what voters who want their tokens back, `Leaving`, can count on).
  `StakingFindings`: statements of the documentation the code does not keep.
- `TimeLock`: the abstract specification, what the program promises its users
  without how it keeps its books: accounts that are liquid, locked or under
  notice, money that moves between them, a reserve that pays. It does not know
  handlers, kinds, periods, delegates, records or the rewards program.
  `StakingTimeLock` is the refinement mapping: an entry is an account
  (`Account`), its kind and cooldown flag are the account's state, its
  `slashing_penalty` the fine, the vault the reserve; `BankSpec` is `TimeLock`'s
  specification under it. Liberties the code takes are liberties of `TimeLock`:
  a lock may be prolonged while under notice without the notice starting again
  (extend_stake), an empty account may be dropped with its fine
  (close_deposit_entry), an owner may leave unlocked money behind (close_voter).
- `Registrar`: create_registrar, the table of mints and `max_vote_weight`, with
  supplies and a realm authority that change under it. `Staking` uses its
  result: an entry names a mint by its index, and the index keeps its mint.
- `MCStaking`, `MCStakingHistory`, `MCStakingWeights`, `MCStakingDelegates`,
  `MCStakingProgress`, `MCRegistrar`: instances for TLC.
- `SumProofs`, `StakingProofs`, `CustodyProofs`, `VotingProofs`, `PayoutProofs`,
  `TimeLockProofs`, `RewardsProofs`, `RegistrarProofs`: the proofs.

State of `Staking` and the code:

| Variable | Code |
|---|---|
| `now` | `clock_unix_timestamp()` |
| `status[v]` | the Voter account: not created, created, closed by close_voter |
| `deposits[v][i]` | `Voter.deposits[i]`; an unused entry is one value, `EmptyEntry` |
| `penalties[v]` | bit 0 of `Voter.penalties`, `decreased_weighted_stake_by`, `batch_minting_restricted_until` |
| `record[v]` | `VoterWeightRecord.voter_weight`; `current` while `voter_weight_expiry` is the present slot |
| `wallet[m]`, `vault[v][m]`, `treasury` | token accounts outside custody, the voter's associated account of the mint, the realm's holding account |
| `mining` | mining accounts of the rewards program: counted and delegated amounts, weight beyond the amount by the date it ends, rewards earned and paid |
| `cast[v]` | weight of votes not yet relinquished, or `NoVote` |
| `proposing` | voters with a proposal that is neither finalised nor cancelled; with `cast` what `assert_can_withdraw_governing_tokens` asks for |

Abstractions. Keys are model values and signatures hold by construction: a user
action is taken by the authority of its own voter, an authority action by the
authority of a registrar. The voters are those of one registrar. Accounts of another
registrar come in where the constraints of an instruction let them: a delegate may
have its stake there (`StakedElsewhere`), close_voter may close a mining of another
pool and leave the voter's open (the second disjunct of `CloseVoter`), and the
restrictions do not depend on whose authority it is. slash and
decrease_rewards are modelled with accounts of the voter's own registrar only. For
decrease_rewards the constraints say so; slash ties the weight record to the registrar
and to the owner of the voter, and the voter to that record only by its owner and a bump.
It also takes the owner of the mining as a parameter and does not
compare it with the voter; the model passes the right one. Which program a caller names
as the rewards program is not checked either, beyond its being executable: what
is checked and proved under `StrictRewards` is about callers who name the real one.
The voter who
deposits and the one who owns the entry may differ in the code; wallets are
summed per mint, so nothing tells them apart. Tokens sent to a vault directly
only add to it and are left out. Amounts are unbounded integers: every addition
and subtraction of the handlers is checked, so an overflow is a failed
instruction, and the proofs show that no subtraction goes below zero.
The stored vote weight is one number per voter: votes on several proposals with
the same tokens are the business of governance. A mint index in `MintIdx` is a
configured one (`Registrar`: at most one per mint, and there are no more mints than
entries, `MintsAssumption`).

## The runs

All runs start in a state without voters. Deadlock is checked: the record can
always be refreshed or a supply changed. The number of states is that of the
distinct states.

| Run | Instance | Shows | States |
|---|---|---|---|
| `weights` | 1 voter, 3 entries, 1 mint, 2 tokens, periods None, Flex, ThreeMonths, clock 2..4, strict rewards, decrease_rewards and restrict_batch_minting once | `TypeOK`, `VaultCoversEntries`, `WeightsAgree` | 64 733 |
| `locks` | 1 voter, 2 entries, 1 token, periods None, Flex, ThreeMonths, cooldown 2 s, clock 2..5 | `EntriesWellFormed`, `LockNeverShortens`, `StakedFundsStay`, `PayoutAfterCooldown`, the refinement `BankSpec` | 81 871 |
| `voting` | 1 voter and a second to delegate to, 2 entries, 2 mints with 1 token each, votes and proposals | `VaultCoversEntries`, `RecordCoveredByEntries`, `VotesBackedByVaults` | 219 002 |
| `delegation` | 2 voters, 2 entries and 1 token each, strict rewards | `DelegatesStayOpen`, `DelegatesFollowStakes` | 139 358 |
| `progress` | 1 voter who leaves and 1 delegate with stake elsewhere, 2 entries, 2 mints with 2 tokens each, slashes, votes, proposals, restrictions, rewards, fairness | `NoEntryHoldsForever`, `PunishedGetNothing` | 65 142 |
| `registrar` | 3 mints, 2 indexes, 2 authorities or none, supplies 0..3, u64 maximum 8 | `TypeOK`, `MintHasOneIndex`, `IndexKeepsItsMint` | 1 044 |

Six more runs end in a counterexample (Findings).

Bounds and why they are enough. Two entries are the least at which a source and
a target, or two entries sharing a vault, exist; the code never relates three. `weights` has
three, one to hold tokens and two staked ones, because what the rewards program
counts is one sum for all stakes of a voter: a wrong amount taken away shows only
when another stake is there to take it from.
Two tokens allow an amount to be split, one in use on each side. The clock
starts at 2, above the delegation threshold, since real time is (an entry that
was never delegated has time 0), and runs long enough for a lock of one second
to be made, to expire, to be unlocked and to cool down, and for an extension
after that. Periods shrink to 1, 2, 3 and 4 seconds; their order is that of the
code. In `weights` the stake that is
weighed has multiplier 2 and may be split, so that every argument of a call is
told from every other. `MIN_OWN_WEIGHTED_STAKE` is 1, so that a delegate with and one without
enough stake exist. The threshold of change_delegate is 1 second, or 0 in
`delegation`. With `MaxEarned` 1 there is something to claim, once.

`StakedElsewhere` is empty but in `progress`: wherever a delegate is at all, the
runs are about delegates with a stake in the model.

State constraints, all in the MC modules: `NoVotesCast` and `NoRestriction` cut
off votes, proposals and restrictions where the properties do not speak of them (besides the
actions that set them, only withdraw and claim read them, and only to refuse);
`VIEW WithoutRecords` then leaves the weight record out, which no guard reads
without votes. `FirstEntryHolds` and `SecondEntryStakes` leave entry 0 to deposits
and entry 1 to stakes, so that entry 1 is the one with a history (`OthersStake` and
`InOrder`: the same with entries 1 and 2, created in this order).
`PenalizedHasOneStake` lets rewards be decreased while one entry is staked. `LastEntryPlain`
keeps entry 2 as it was staked, three months and not slashed, while entry 1 goes
through everything. `PlainVoters` in `voting` lets
proposals, restrictions and rewards come to voters without entries only,
`SecondDelegates` lets a second voter come to be named a delegate and do nothing
else, and `HoldsBeforeStakes` leaves out the second of two orders of entries. `Regular` in
`weights` ends a behaviour after an irregular call: the property does not speak of
its voter any more. `delegation` is the narrowest run: one token each, entry 0 holds and
entry 1 stakes, the two voters are symmetric, and a behaviour ends when the holding
entry is unlocked, slashed or delegated (`HoldingEntryPlain`) or a voter closes with
the pool of another registrar (`ClosedInThisPool`), which leaves its mining open. `LedgerBounded` stops counting
at the supply: stakes into a cooling entry could raise the counts for ever (see the
observations below).

`progress` has no state constraint and no symmetry, since both could hide a behaviour
from a liveness property: its bounds (`Bounded`, `FullRecords`, `Steps` in
`MCStakingProgress`) are conjuncts of the steps and keep the voter from starting
something, never from finishing it. No unlock_tokens of a stake, withdraw in full,
relinquishing or tick leads out of them, so a fair step is enabled in the
instance whenever it is in the model. They are: entry 0 holds and entry 1 stakes, and
entry 0 is slashed before entry 1 exists; tokens of one mint at a time; one vote,
proposal or restriction at a time, and with entries of the governing mint that are not
delegated; rewards before the entries; the delegate first,
its closing under a stake of the governing mint; records refreshed with all
tokens deposited. Past `MaxTs` the clock goes on (`LateSlot`) for as long as a lock or a
cooldown is running, while callers start no new one. The run checks no deadlock: when
nothing runs any more the clock stands. A slash of one token of two leaves an
entry with both an amount and a penalty, of either mint, and each of the two dead
ends is reached: without either of them in `DeadEnd` the property is violated.

Fairness is assumed in `progress` only, and only of the clock and of voters who
want their tokens back (`Leaving`); nobody schedules the users of this program, and for
a user who does not try nothing can be promised. The clock goes on (weak
fairness). The owner sends unlock_tokens until it is accepted and relinquishes
votes (weak fairness: once possible, both stay possible until somebody does
them). Withdraw needs strong fairness: a vote cast again disables it for a while, so
it is not possible all the time, only again and again, and a client that retries
hits one of these times. Nothing is assumed of
the authority, of governance or of stake and extend_stake. Restrictions and open
proposals are in the premise of the property instead: from some time on the voter has
neither. A proposal is finalised or cancelled in governance, and were it only
required that each one ends, a restriction, a vote and a proposal in turn could
leave no moment clear of all three.

What the properties say of the code, in short:
- `VaultCoversEntries`: at any time each vault can pay amount and penalty of
  every entry of its mint; withdraw is never refused for want of tokens because
  of what another entry did.
- `EntriesWellFormed`: reuse of a slot leaks no lock or cooldown of an earlier
  stake; `end = start + period` always, also after an extension in cooldown.
- `LockNeverShortens`: an action property over every instruction; the boundary
  `now = end_ts` decides it.
- `StakedFundsStay`: neither withdraw, close_deposit_entry nor close_voter nor an
  operation on another entry takes tokens out of a stake that was not unlocked.
- `PayoutAfterCooldown`: whichever sequence led there, a payout of tokens that
  were once staked comes a full cooldown after they last were.
- `RecordCoveredByEntries`, `VotesBackedByVaults`: weight is never voted with
  twice, not even with a record made stale in the same slot.
- `WeightsAgree`: the rewards program, which knows only the arguments of the
  calls and the clock, gives a voter the weight `weighted_stake` gives, at every
  second: the period and start extend_stake passes, the weighted amount and the
  date slash passes, the bare amount unlock_tokens passes and the change of
  multiplier at `end_ts` fit together. It holds until the voter makes one of the
  calls named `Irregular`, `Reweighed` or `Late`, which the observations below
  describe.
- `DelegatesFollowStakes`, `DelegatesStayOpen`: the same for the native amount
  held for a delegate; and no delegate can close the mining that unlock_tokens
  and extend_stake of others need, until a call `Misleads` the rewards program
  about it: it then takes tokens from the delegate that were never staked with it,
  holds too little for the stakes that were, and lets the mining be closed.
- `NoEntryHoldsForever`: whatever sequence of stakes, extensions, slashes, votes and
  restrictions came before, an entry that holds tokens is emptied, if its owner tries and
  restrictions and open proposals come to an end, or it comes to one of two
  dead ends. One is finding 5: a slashed entry of the other mint. The
  other is a stake whose delegate has closed its mining, which unlock_tokens names
  (only if the rewards program lets the delegate close it, see `DelegatesStayOpen`).
  That there is no third is the claim.
- `PunishedGetNothing`: withdraw and claim refuse while a restriction runs (until
  allow_tokenflow, by whichever registrar's authority), and closing the voter is no way around it, because the weight record it leaves
  behind keeps create_voter from making a voter without the flag.
- `BankSpec`: seen through its entries and vaults, every instruction is one
  step of the time lock. It is stronger than the lock properties together: it
  also says what may not change in each step.
- `MintHasOneIndex`, `IndexKeepsItsMint`: an entry is paid in its own token.

Every property has a mutant in `PROJECT.json`: a mutated form of one mapped
definition, kept next to it in the module and used nowhere, under which the run
finds the property violated.

## Findings

1. `early_payout`. extend_stake accepts an entry in its cooldown, restarts the
   lockup and leaves the cooldown running; withdraw looks at the cooldown only.
   Tokens leave before the new lockup ends, against `README.md:23`.
2. `dropped_penalty`. close_deposit_entry looks at the amount only. A stake
   slashed in full is closed with its penalty, and the tokens stay in a vault
   that owes them to nobody, against `README.md:149`.
3. `closed_vault`. close_voter takes one account per active entry and treats all
   as vaults; the loop over vaults and targets has no iteration. The voter is
   closed, the vault is not emptied, against `close_voter.rs:57`.
4. `late_stake`. stake computes the end of the lock from the creation of the
   entry, against `README.md:121` and `lockup.rs:53`.
5. `stuck_penalty`. The penalty is always paid into the account of the governing
   mint, so a slashed entry of the other mint cannot be withdrawn at all.
6. `max_vote_weight`. Every supply is added twice, against `lib.rs:56`.

Observations without a run of their own. unlock_tokens accepts an entry of kind
None (its end is its start) and then asks the rewards program to take away an
amount that was never staked, from the owner and from the delegate of the entry,
who may after that close its mining under the stakes of others; change_delegate accepts such an entry too, while
create_deposit_entry insists on the owner as its delegate. slash passes no
delegate, which keeps the slashed amount. A stake or an extension into an entry
in its cooldown is counted by the rewards program, is withdrawn when the cooldown
ends, and is never taken away again. Even an extension by nothing of such an entry, when
the voter has another stake as large, has the rewards program weigh for the new
period tokens it does not count any more (`Reweighed`). After a late stake (finding 4) the rewards
program weighs the stake longer than the lock lasts, and an extension then passes
a start it does not know. restrict_batch_minting may bring its date forward.
The registrar keeps the authority the realm had at its creation. close_voter
closes the mining without claiming. A mint configured below the u64 limit may
outgrow it: `max_vote_weight` is not looked at again.

## The proofs

All with TLAPS, for every value of the constants that satisfies the named
assumptions `SecsAssumption`, `KeyAssumption`, `StakingAssumption`,
`MintsAssumption` (the table of mints is no longer than the table of entries: 2
and 32), `VotersAssumption` (the voters are finitely many), `NeverAssumption` and
`RegistrarAssumption`. No assumption bounds the number of voters, mints, entries,
tokens or seconds. The theorems of `RewardsProofs` name one hypothesis more,
`StrictRewards`: against a rewards program that accepts everything nothing is
counted, and the properties do not speak of it.

- `SumProofs`. `SumTo` is a recursive function, for sums over the table of
  entries (`SumOver`), over the dates of the rewards program and over all voters;
  the lemmas say that it is an integer, that its partial sums exist, and that
  changing one argument changes the sum by the difference. The induction over
  the length is that of a set of indexes.
- `StakingProofs`, on one entry. An entry step is one of nine changes (created,
  moved from or to, staked, unlocked, extended, re-delegated, paid out, slashed,
  freed) with the guard its instruction has. Four lemmas show for one
  entry that such a step preserves its type and its well-formedness, never
  shortens its lock and never takes staked funds.
- `StakingProofs`, on the program. `EveryStepIsEntryStep`: every step of `Next` is an entry step
  or a stutter for each entry of each voter; one proof step per action. With it
  `TypeCorrect`, `EntriesStayWellFormed`, `LocksNeverShorten` and
  `StakedFundsAreSafe` follow. The inductive invariant is `IInv`, type
  correctness and well-formed entries: `TypeOK` alone is inductive, but
  an extension sets the end to `now` plus a period that is no shorter, and that
  is later than the old end only because the old end was `start + period` with
  `start <= now`.
- `CustodyProofs`. `VaultsCoverEntries` by `CustodyInv`: type correctness, the
  property, and that a voter not yet created has no entries (else create_voter
  would open a voter that owes). The proof has one step per action: the owed sum
  changes in one entry (deposit, withdraw, close_deposit_entry, slash) or in two
  whose changes cancel (stake, extend_stake, where `SameMint` is what makes them
  cancel in the same vault).
- `VotingProofs`. `RecordsAreCovered` and `VotesAreBacked` by `VotesInv`: amounts
  and penalties of an open voter's entries, added up over all mints, do not exceed
  what all its vaults hold; its record weighs no more than its entries; and every
  record and every vote, those of a closed voter too, weigh no more than the
  vaults hold. The record belongs to the invariant of votes because governance may
  take it at any moment of its slot, and the penalties because withdraw pays both
  at once. An amount counts in one vault only: summed over all indexes
  each change of an entry meets one change of a vault (`MintsAssumption` lets the
  sum reach every mint).
- `PayoutProofs`. `PayoutsAfterCooldown` by `HistoryInv`: an entry that once held a
  stake is of kind Constant, and if its cooldown was requested, the cooldown ends
  a full `CooldownSecs` after the last moment it held one. It is an invariant
  because a staked entry has no cooldown and no handler ever clears one that
  was requested, except by freeing the entry. `PunishedAreNotPaid` by `BarredInv`:
  a voter that was restricted and not released still is, or it is closed. It
  rests on three facts about all instructions: a closed voter stays closed, only
  withdraw lowers a vault, and only claim pays rewards.
- `TimeLockProofs`. `StakingIsATimeLock`: under `IInv`, each action maps to the step of
  `TimeLock` it is meant to be (stake and extend_stake to `Move`, withdraw to
  `PayOut`, ...) or leaves accounts and vaults alone; unlock_tokens of an entry of
  kind None is a stuttering step. One lemma per kind of step, `StepRefines` puts
  them together. The side conditions `until >= ...` of `Move` come from
  `EntriesWellFormed`.
- `RewardsProofs`. The argument goes through single steps: `StepEffects` says that
  a step either leaves what is staked and what the rewards program counts alone,
  or changes one entry and the ledger of its owner as one of the five calls does
  (stake, unlock_tokens, extend_stake, change_delegate, slash), each with the
  amounts, period, start and date the handler passes. One lemma per call
  (`StakeEffect`, ..., `SlashEffect`) shows that the change of the entry and the
  change of the ledger are the same number; the rest is sums.
  `DelegatesAreFollowed` follows step by step.
  `DelegatesAlwaysOpen` by `DelegInv`: what a delegate that nobody was misled about
  holds is at least the sum of the stakes of all voters delegated to it (at least,
  since slash leaves it the slashed amount), and who has a stake is open. The sum
  over all voters is what close_voter's refusal needs, since one number is
  held per delegate, whoever staked.
  `WeightsAlwaysAgree` by `WeightsInv`, for each voter without an irregular call: the counted
  amount is the sum of its staked entries; on every date from now on, not only
  today, the weight the rewards program keeps beyond that date is the weight of
  the entries that end beyond it; an entry in its cooldown has ended (so that
  unlock_tokens may pass the bare amount); and the weight cut off by
  decrease_rewards is the one the voter account records. `WeightsAgree` itself is
  not inductive: an extension takes the old weight away on a date in the future,
  and whether that is the right one only shows when the clock gets there.
  TLC checked both invariants first, on the instances of the two runs.
- `RegistrarProofs`. `TypeOK` of the table, `OneIndexPerMint` and
  `IndexesKeepTheirMints`.

Only model-checked: `NoEntryHoldsForever`, which is liveness. Every other property
of a passing run is the statement of a theorem.

## Not modelled

- periods_left, period_current, periods_total, remove_past_periods and strictness
  of `state/lockup.rs`, weight_baseline and weight_locked_guaranteed of
  `state/voter.rs`: no instruction changes an account through them.
- is_batch_minting_restricted: read by no instruction of this program; the model
  keeps the date.
- log_voter_info and its events, error codes, size assertions, the Anchor wrapper
  of the record: no state.
- The encoding of calls and accounts, and seeds and bumps of addresses.
- Rent, payers and lamports: no property is about them.
- What governance proposals decide, and the rewards pool: other programs; what of them the
  handlers depend on is in the environment of `Staking` and in `RewardsLedger`.
- The TypeScript client: no state.

## Plan

The order of the work: lockup and entry, the voter's instructions with custody,
penalties, record and votes, rewards calls, registrar, then weights and dates of
the rewards calls, progress, the abstract time lock, and the proofs of each.
Left for later: an instance with two mints under strict rewards, which is too large
today; and, for the proofs, that a strict rewards program never refuses the owner
who never made an irregular call (the guards of unlock_tokens and extend_stake follow from
`WeightsInv` and `DelegInv`).

Out of reach of the prover and left to TLC: liveness, `ENABLED`, and what a
recursive definition computes beyond the sum lemmas.
