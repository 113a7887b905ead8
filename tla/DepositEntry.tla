---------------------------- MODULE DepositEntry ----------------------------
(***************************************************************************)
(* One deposit entry of a voter:                                           *)
(* program-states/src/state/deposit_entry.rs, and the changes the handlers *)
(* make to a single entry.                                                 *)
(***************************************************************************)
EXTENDS Lockup

CONSTANTS
  Voters,        \* voter authorities; also the wallets of delegates
  NoKey,         \* Pubkey::default(), the delegate of an entry not in use
  MintIdx        \* indexes of the configured mints in registrar.voting_mints

ASSUME KeyAssumption == NoKey \notin Voters

EntryType ==
  [is_used : BOOLEAN, lockup : LockupType, delegate : Voters \cup {NoKey},
   amount_deposited_native : Nat, slashing_penalty : Nat,
   delegate_last_update_ts : Nat, voting_mint_config_idx : MintIdx \cup {0}]

\* An entry that is not in use.  A fresh voter is zeroed (None, None) and
\* DepositEntry::default() has lockup Constant, Flex; nothing reads the fields
\* of an unused entry (every access goes through active_deposit_mut or tests
\* is_used, and create_deposit_entry overwrites all), so both are one value.
EmptyEntry ==
  [is_used |-> FALSE, lockup |-> NewLockup("None", 0, "None"),
   delegate |-> NoKey, amount_deposited_native |-> 0, slashing_penalty |-> 0,
   delegate_last_update_ts |-> 0, voting_mint_config_idx |-> 0]

NewEntry(delegate, idx, lockup) ==
  [is_used |-> TRUE, lockup |-> lockup, delegate |-> delegate,
   amount_deposited_native |-> 0, slashing_penalty |-> 0,
   delegate_last_update_ts |-> 0, voting_mint_config_idx |-> idx]

\* Mutated form of IsStaked: forgets the cooldown.
IsStakedInCooldown(d) ==
  d.is_used /\ d.lockup.kind # "None" /\ d.lockup.period # "None"

IsStaked(d) ==
  /\ d.is_used
  /\ d.lockup.kind # "None"
  /\ d.lockup.period # "None"
  /\ ~d.lockup.cooldown_requested

AmountLocked(d) == IF IsStaked(d) THEN d.amount_deposited_native ELSE 0

AmountUnlocked(d) == IF IsStaked(d) THEN 0 ELSE d.amount_deposited_native

VotingPower(d) == d.amount_deposited_native

WeightedStake(d, ts) ==
  IF IsStaked(d) THEN Multiplier(d.lockup, ts) * d.amount_deposited_native
                 ELSE 0

(***************************************************************************)
(* What each handler does to the entry it works on, once its checks have   *)
(* passed.                                                                 *)
(***************************************************************************)
Plus(d, amount) == [d EXCEPT !.amount_deposited_native = @ + amount]
Minus(d, amount) == [d EXCEPT !.amount_deposited_native = @ - amount]

\* stake: the end is computed from the start written by create_deposit_entry,
\* not from the time of the stake.
Ending(lockup) ==
  [lockup EXCEPT !.end_ts = lockup.start_ts + ToSecs(lockup.period)]

Staked(d, amount, ts) ==
  [d EXCEPT !.amount_deposited_native = @ + amount,
            !.delegate_last_update_ts = ts,
            !.lockup = Ending(@)]

\* Mutated form of Cooling: the cooldown is over as soon as it starts.
CoolingAtOnce(lockup, ts) ==
  [lockup EXCEPT !.cooldown_requested = TRUE, !.cooldown_ends_at = ts]

Cooling(lockup, ts) ==
  [lockup EXCEPT !.cooldown_requested = TRUE,
                 !.cooldown_ends_at = ts + CooldownSecs]

CoolingDown(d, ts) == [d EXCEPT !.lockup = Cooling(@, ts)]

\* The period an extension is compared with: Flex once the lockup expired.
CurrentPeriod(d, ts) ==
  IF Expired(d.lockup, ts) THEN "Flex" ELSE d.lockup.period

\* Mutated form of Restarted: keeps the old start when computing the end.
RestartedAtOldStart(lockup, period, ts) ==
  [lockup EXCEPT !.start_ts = ts, !.end_ts = lockup.start_ts + ToSecs(period),
                 !.period = period]

Restarted(lockup, period, ts) ==
  [lockup EXCEPT !.start_ts = ts, !.end_ts = ts + ToSecs(period),
                 !.period = period]

Extended(d, period, amount, ts) ==
  [d EXCEPT !.amount_deposited_native = @ + amount,
            !.lockup = Restarted(@, period, ts)]

\* Mutated form of Delegated: the new delegate is not stored.
Untold(d, delegate, ts) == [d EXCEPT !.delegate_last_update_ts = ts]

Delegated(d, delegate, ts) ==
  [d EXCEPT !.delegate = delegate, !.delegate_last_update_ts = ts]

\* Mutated form of Slashed: the penalty is recorded, the amount is kept.
SlashedTwice(d, amount) == [d EXCEPT !.slashing_penalty = @ + amount]

Slashed(d, amount) ==
  [d EXCEPT !.amount_deposited_native = @ - amount,
            !.slashing_penalty = @ + amount]

\* withdraw resets an entry that is left empty, unless it is of kind None.
Exhausted(d) ==
  /\ d.amount_deposited_native = 0
  /\ d.lockup.kind # "None"
  /\ d.lockup.period # "None"
  /\ d.slashing_penalty = 0

\* Mutated form of Withdrawn: the penalty stays on the entry after it was paid.
PenaltyKept(d, amount) ==
  LET left == Minus(d, amount)
  IN  IF Exhausted(left) THEN EmptyEntry ELSE left

Withdrawn(d, amount) ==
  LET left == [d EXCEPT !.amount_deposited_native = @ - amount,
                        !.slashing_penalty = 0]
  IN  IF Exhausted(left) THEN EmptyEntry ELSE left
=============================================================================
