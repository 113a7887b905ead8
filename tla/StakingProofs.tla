--------------------------- MODULE StakingProofs ---------------------------
(***************************************************************************)
(* Theorems of the staking program, for every number of voters, mints and  *)
(* entries, every supply and every length of the periods.                  *)
(*                                                                         *)
(* The argument goes through single entries.  The first part says what an  *)
(* instruction can do to one deposit entry, an EntryStep, and what such a  *)
(* step keeps: the entry's type, the shape of its lockup, its end and its  *)
(* funds.  EveryStepIsEntryStep says that no instruction does anything     *)
(* else.                                                                   *)
(***************************************************************************)
EXTENDS StakingProps, SumProofs

-----------------------------------------------------------------------------
(* What an instruction can do to an entry. *)

Creates(old, new) ==
  /\ ~old.is_used
  /\ \E delegate \in Voters, mint \in MintIdx,
        kind \in LockupKind, period \in LockupPeriod :
       /\ ValidLockup(kind, period)
       /\ new = NewEntry(delegate, mint, NewLockup(kind, now, period))

Moves(old, new) ==
  /\ old.is_used /\ old.lockup.kind = "None"
  /\ \E amount \in Nat :
       \/ new = Plus(old, amount)
       \/ amount <= old.amount_deposited_native /\ new = Minus(old, amount)

Stakes(old, new) ==
  /\ old.is_used
  /\ \E amount \in Nat :
       \/ /\ old.amount_deposited_native = 0
          /\ new = Staked(old, amount, now)
       \/ /\ old.lockup.kind = "None"
          /\ old.amount_deposited_native = amount
          /\ new = Staked(Minus(old, amount), amount, now)

Unlocks(old, new) ==
  /\ old.is_used /\ ~old.lockup.cooldown_requested
  /\ now >= old.lockup.end_ts
  /\ new = CoolingDown(old, now)

Extends(old, new) ==
  /\ old.is_used /\ old.lockup.kind # "None" /\ old.lockup.period # "None"
  /\ \E amount \in Nat, period \in LockupPeriod :
       /\ Rank(period) >= Rank(CurrentPeriod(old, now))
       /\ new = Extended(old, period, amount, now)

Redelegates(old, new) ==
  old.is_used /\ \E delegate \in Voters : new = Delegated(old, delegate, now)

Pays(old, new) ==
  /\ old.is_used
  /\ \E amount \in Nat : amount <= AmountUnlocked(old)
                         /\ new = Withdrawn(old, amount)
  /\ CooledDown(old)

Punishes(old, new) ==
  /\ old.is_used
  /\ \E amount \in Nat : amount <= old.amount_deposited_native
                         /\ new = Slashed(old, amount)

Frees(old, new) == AmountLocked(old) = 0 /\ new = EmptyEntry

EntryStep(old, new) ==
  \/ new = old
  \/ Creates(old, new)
  \/ Moves(old, new)
  \/ Stakes(old, new)
  \/ Unlocks(old, new)
  \/ Extends(old, new)
  \/ Redelegates(old, new)
  \/ Pays(old, new)
  \/ Punishes(old, new)
  \/ Frees(old, new)

-----------------------------------------------------------------------------
(* Facts about periods and single entries. *)

\* A longer period in the order of the enum has at least as many seconds, and
\* no period has a negative number of them.
LEMMA PeriodFacts ==
  /\ \A p \in LockupPeriod : ToSecs(p) \in Nat /\ Rank(p) \in Nat
  /\ \A p, q \in LockupPeriod : Rank(p) <= Rank(q) => ToSecs(p) <= ToSecs(q)
  /\ \A p \in LockupPeriod : Rank(p) = 0 <=> p = "None"
BY SecsAssumption DEF LockupPeriod, ToSecs, Rank

\* An entry not in use is an entry.
LEMMA EmptyEntryType == EmptyEntry \in EntryType
BY DEF EmptyEntry, EntryType, LockupType, NewLockup, LockupKind, LockupPeriod,
       ToSecs

\* stake takes an entry to an entry.
LEMMA StakedType ==
  ASSUME NEW d \in EntryType, NEW amount \in Nat, now \in Nat
  PROVE  Staked(d, amount, now) \in EntryType
<1>1. /\ d.lockup \in LockupType
      /\ d.amount_deposited_native + amount \in Nat
  BY DEF EntryType
<1>2. d.lockup.start_ts + ToSecs(d.lockup.period) \in Nat
  BY <1>1, PeriodFacts DEF LockupType
<1>3. Ending(d.lockup) \in LockupType
  BY <1>1, <1>2, Zenon DEF Ending, LockupType
<1> QED
  BY <1>1, <1>3, Zenon DEF Staked, EntryType

\* Every step takes an entry to an entry.
LEMMA EntryStepType ==
  ASSUME NEW old \in EntryType, NEW new, now \in Nat, EntryStep(old, new)
  PROVE  new \in EntryType
<1>1. CASE new = old
  BY <1>1
<1>2. CASE Creates(old, new)
  <2>1. PICK delegate \in Voters, mint \in MintIdx,
             kind \in LockupKind, period \in LockupPeriod :
               new = NewEntry(delegate, mint, NewLockup(kind, now, period))
    BY <1>2 DEF Creates
  <2>2. NewLockup(kind, now, period) \in LockupType
    BY PeriodFacts DEF NewLockup, LockupType
  <2> QED
    BY <2>1, <2>2 DEF NewEntry, EntryType
<1>3. CASE Moves(old, new)
  BY <1>3 DEF Moves, Plus, Minus, EntryType
<1>4. CASE Stakes(old, new)
  <2>1. PICK amount \in Nat :
          \/ /\ old.amount_deposited_native = 0
             /\ new = Staked(old, amount, now)
          \/ /\ old.amount_deposited_native = amount
             /\ new = Staked(Minus(old, amount), amount, now)
    BY <1>4 DEF Stakes
  <2>2. ASSUME old.amount_deposited_native = amount
        PROVE  Minus(old, amount) \in EntryType
    <3>1. old.amount_deposited_native - amount \in Nat
      BY <2>2
    <3> QED
      BY <3>1, Zenon DEF Minus, EntryType
  <2> QED
    BY <2>1, <2>2, StakedType
<1>5. CASE Unlocks(old, new)
  <2>1. old.lockup \in LockupType /\ now + CooldownSecs \in Nat
    BY SecsAssumption DEF EntryType
  <2>2. Cooling(old.lockup, now) \in LockupType
    BY <2>1, Zenon DEF Cooling, LockupType
  <2> QED
    BY <1>5, <2>2, Zenon DEF Unlocks, CoolingDown, EntryType
<1>6. CASE Extends(old, new)
  <2>1. PICK amount \in Nat, period \in LockupPeriod :
          new = Extended(old, period, amount, now)
    BY <1>6 DEF Extends
  <2>2. /\ old.lockup \in LockupType
        /\ now + ToSecs(period) \in Nat
        /\ old.amount_deposited_native + amount \in Nat
    BY PeriodFacts DEF EntryType
  <2>3. Restarted(old.lockup, period, now) \in LockupType
    BY <2>2, Zenon DEF Restarted, LockupType
  <2> QED
    BY <2>1, <2>2, <2>3, Zenon DEF Extended, EntryType
<1>7. CASE Redelegates(old, new)
  BY <1>7 DEF Redelegates, Delegated, EntryType
<1>8. CASE Pays(old, new)
  <2>1. PICK amount \in Nat :
          amount <= old.amount_deposited_native /\ new = Withdrawn(old, amount)
    BY <1>8 DEF Pays, AmountUnlocked, EntryType
  <2>2. old.amount_deposited_native - amount \in Nat /\ 0 \in Nat
    BY <2>1 DEF EntryType
  <2>3. [old EXCEPT !.amount_deposited_native = @ - amount,
                    !.slashing_penalty = 0] \in EntryType
    BY <2>2, Zenon DEF EntryType
  <2> QED
    BY <2>1, <2>3, EmptyEntryType, Zenon DEF Withdrawn
<1>9. CASE Punishes(old, new)
  <2>1. PICK amount \in Nat :
          amount <= old.amount_deposited_native /\ new = Slashed(old, amount)
    BY <1>9 DEF Punishes
  <2>2. /\ old.amount_deposited_native - amount \in Nat
        /\ old.slashing_penalty + amount \in Nat
    BY <2>1 DEF EntryType
  <2> QED
    BY <2>1, <2>2, Zenon DEF Slashed, EntryType
<1>10. CASE Frees(old, new)
  BY <1>10, EmptyEntryType DEF Frees
<1> QED
  BY <1>1, <1>2, <1>3, <1>4, <1>5, <1>6, <1>7, <1>8, <1>9, <1>10 DEF EntryStep

-----------------------------------------------------------------------------
(* What an EntryStep keeps. *)

\* What Minus leaves alone.
LEMMA MinusFields ==
  ASSUME NEW d \in EntryType, NEW amount \in Nat
  PROVE  /\ Minus(d, amount).lockup = d.lockup
         /\ Minus(d, amount).is_used = d.is_used
         /\ Minus(d, amount).amount_deposited_native
              = d.amount_deposited_native - amount
BY DEF Minus, EntryType

\* Fields of the results of the changes.
LEMMA ChangedFields ==
  ASSUME NEW d \in EntryType, NEW amount
  PROVE  /\ Plus(d, amount).lockup = d.lockup
         /\ Plus(d, amount).is_used = d.is_used
         /\ Plus(d, amount).delegate_last_update_ts = d.delegate_last_update_ts
         /\ Minus(d, amount).delegate_last_update_ts = d.delegate_last_update_ts
         /\ Staked(d, amount, now).lockup = Ending(d.lockup)
         /\ Staked(d, amount, now).is_used = d.is_used
         /\ Staked(d, amount, now).delegate_last_update_ts = now
         /\ CoolingDown(d, now).lockup = Cooling(d.lockup, now)
         /\ CoolingDown(d, now).is_used = d.is_used
         /\ CoolingDown(d, now).delegate_last_update_ts
              = d.delegate_last_update_ts
         /\ \A period :
              /\ Extended(d, period, amount, now).lockup
                   = Restarted(d.lockup, period, now)
              /\ Extended(d, period, amount, now).is_used = d.is_used
              /\ Extended(d, period, amount, now).delegate_last_update_ts
                   = d.delegate_last_update_ts
         /\ \A delegate :
              /\ Delegated(d, delegate, now).lockup = d.lockup
              /\ Delegated(d, delegate, now).is_used = d.is_used
              /\ Delegated(d, delegate, now).delegate_last_update_ts = now
         /\ Slashed(d, amount).lockup = d.lockup
         /\ Slashed(d, amount).is_used = d.is_used
         /\ Slashed(d, amount).delegate_last_update_ts
              = d.delegate_last_update_ts
BY Zenon DEF EntryType, Plus, Minus, Staked, CoolingDown, Extended, Delegated,
             Slashed

\* The amounts and the mint in them.
LEMMA MoneyFields ==
  ASSUME NEW d \in EntryType, NEW amount
  PROVE  /\ Plus(d, amount).amount_deposited_native
              = d.amount_deposited_native + amount
         /\ Plus(d, amount).slashing_penalty = d.slashing_penalty
         /\ Plus(d, amount).voting_mint_config_idx = d.voting_mint_config_idx
         /\ Minus(d, amount).amount_deposited_native
              = d.amount_deposited_native - amount
         /\ Minus(d, amount).slashing_penalty = d.slashing_penalty
         /\ Minus(d, amount).voting_mint_config_idx = d.voting_mint_config_idx
         /\ Minus(d, amount).lockup = d.lockup
         /\ Minus(d, amount).is_used = d.is_used
         /\ Staked(d, amount, now).amount_deposited_native
              = d.amount_deposited_native + amount
         /\ Staked(d, amount, now).slashing_penalty = d.slashing_penalty
         /\ Staked(d, amount, now).voting_mint_config_idx
              = d.voting_mint_config_idx
         /\ CoolingDown(d, now).amount_deposited_native
              = d.amount_deposited_native
         /\ CoolingDown(d, now).slashing_penalty = d.slashing_penalty
         /\ CoolingDown(d, now).voting_mint_config_idx
              = d.voting_mint_config_idx
         /\ \A period :
              /\ Extended(d, period, amount, now).amount_deposited_native
                   = d.amount_deposited_native + amount
              /\ Extended(d, period, amount, now).slashing_penalty
                   = d.slashing_penalty
              /\ Extended(d, period, amount, now).voting_mint_config_idx
                   = d.voting_mint_config_idx
         /\ \A delegate :
              /\ Delegated(d, delegate, now).amount_deposited_native
                   = d.amount_deposited_native
              /\ Delegated(d, delegate, now).slashing_penalty
                   = d.slashing_penalty
              /\ Delegated(d, delegate, now).voting_mint_config_idx
                   = d.voting_mint_config_idx
         /\ Slashed(d, amount).amount_deposited_native
              = d.amount_deposited_native - amount
         /\ Slashed(d, amount).slashing_penalty = d.slashing_penalty + amount
         /\ Slashed(d, amount).voting_mint_config_idx
              = d.voting_mint_config_idx
BY Zenon DEF EntryType, Plus, Minus, Staked, CoolingDown, Extended, Delegated,
             Slashed

\* Fields of a lockup that stake, unlock_tokens or extend_stake wrote.
LEMMA ChangedLockup ==
  ASSUME NEW lockup \in LockupType
  PROVE  /\ Ending(lockup).kind = lockup.kind
         /\ Ending(lockup).period = lockup.period
         /\ Ending(lockup).start_ts = lockup.start_ts
         /\ Ending(lockup).end_ts = lockup.start_ts + ToSecs(lockup.period)
         /\ Ending(lockup).cooldown_requested = lockup.cooldown_requested
         /\ Ending(lockup).cooldown_ends_at = lockup.cooldown_ends_at
         /\ Cooling(lockup, now).kind = lockup.kind
         /\ Cooling(lockup, now).period = lockup.period
         /\ Cooling(lockup, now).start_ts = lockup.start_ts
         /\ Cooling(lockup, now).end_ts = lockup.end_ts
         /\ Cooling(lockup, now).cooldown_requested = TRUE
         /\ Cooling(lockup, now).cooldown_ends_at = now + CooldownSecs
BY Zenon DEF LockupType, Ending, Cooling

\* extend_stake changes the period and both ends of a lockup, nothing else.
LEMMA RestartedLockup ==
  ASSUME NEW lockup \in LockupType, NEW period
  PROVE  /\ Restarted(lockup, period, now).kind = lockup.kind
         /\ Restarted(lockup, period, now).period = period
         /\ Restarted(lockup, period, now).start_ts = now
         /\ Restarted(lockup, period, now).end_ts = now + ToSecs(period)
         /\ Restarted(lockup, period, now).cooldown_requested
              = lockup.cooldown_requested
         /\ Restarted(lockup, period, now).cooldown_ends_at
              = lockup.cooldown_ends_at
BY Zenon DEF LockupType, Restarted

\* withdraw either empties the entry or leaves its lockup alone.
LEMMA WithdrawnFields ==
  ASSUME NEW d \in EntryType, NEW amount \in Nat
  PROVE  \/ ~Withdrawn(d, amount).is_used
         \/ /\ Withdrawn(d, amount).lockup = d.lockup
            /\ Withdrawn(d, amount).is_used = d.is_used
            /\ Withdrawn(d, amount).delegate_last_update_ts
                 = d.delegate_last_update_ts
<1> DEFINE left == [d EXCEPT !.amount_deposited_native = @ - amount,
                             !.slashing_penalty = 0]
<1>1. /\ left.lockup = d.lockup /\ left.is_used = d.is_used
      /\ left.delegate_last_update_ts = d.delegate_last_update_ts
  BY Zenon DEF EntryType
<1>2. Withdrawn(d, amount) = IF Exhausted(left) THEN EmptyEntry ELSE left
  BY Zenon DEF Withdrawn
<1>3. ~EmptyEntry.is_used
  BY DEF EmptyEntry
<1> HIDE DEF left
<1> QED
  BY <1>1, <1>2, <1>3, Zenon

\* The change of a lockup that a step of an entry in use amounts to.
LockupStep(old, new) ==
  \/ new = old
  \/ new = Ending(old)
  \/ /\ ~old.cooldown_requested /\ now >= old.end_ts
     /\ new = Cooling(old, now)
  \/ /\ old.kind # "None" /\ old.period # "None"
     /\ \E period \in LockupPeriod :
          /\ Rank(period) >= Rank(IF Expired(old, now) THEN "Flex"
                                                       ELSE old.period)
          /\ new = Restarted(old, period, now)

\* An entry that is in use after a step was made by it with a new lockup, or
\* was in use before and its lockup went through a LockupStep.
LEMMA StepOfEntry ==
  ASSUME NEW old \in EntryType, NEW new, now \in Nat,
         EntryStep(old, new), new.is_used
  PROVE  \/ new = old
         \/ Creates(old, new)
         \/ /\ old.is_used
            /\ LockupStep(old.lockup, new.lockup)
            /\ new.delegate_last_update_ts
                 \in {old.delegate_last_update_ts, now}
<1>1. CASE Moves(old, new)
  BY <1>1, ChangedFields, MinusFields DEF Moves, LockupStep
<1>2. CASE Stakes(old, new)
  <2>1. PICK amount \in Nat :
          \/ new = Staked(old, amount, now)
          \/ /\ old.amount_deposited_native = amount
             /\ new = Staked(Minus(old, amount), amount, now)
    BY <1>2 DEF Stakes
  <2>2. CASE new = Staked(old, amount, now)
    BY <1>2, <2>2, ChangedFields DEF Stakes, LockupStep
  <2>3. CASE /\ old.amount_deposited_native = amount
             /\ new = Staked(Minus(old, amount), amount, now)
    <3>1. Minus(old, amount) \in EntryType
      <4>1. old.amount_deposited_native - amount \in Nat
        BY <2>3
      <4> QED
        BY <4>1, Zenon DEF Minus, EntryType
    <3> QED
      BY <1>2, <2>3, <3>1, ChangedFields, MinusFields DEF Stakes, LockupStep
  <2> QED
    BY <2>1, <2>2, <2>3
<1>3. CASE Unlocks(old, new)
  BY <1>3, ChangedFields DEF Unlocks, LockupStep
<1>4. CASE Extends(old, new)
  <2>1. PICK amount \in Nat, period \in LockupPeriod :
          /\ Rank(period) >= Rank(CurrentPeriod(old, now))
          /\ new = Extended(old, period, amount, now)
    BY <1>4 DEF Extends
  <2>2. /\ new.lockup = Restarted(old.lockup, period, now)
        /\ new.delegate_last_update_ts = old.delegate_last_update_ts
    BY <2>1, ChangedFields
  <2>3. LockupStep(old.lockup, new.lockup)
    BY <1>4, <2>1, <2>2 DEF Extends, LockupStep, CurrentPeriod
  <2> QED
    BY <1>4, <2>2, <2>3 DEF Extends
<1>5. CASE Redelegates(old, new)
  BY <1>5, ChangedFields DEF Redelegates, LockupStep
<1>6. CASE Pays(old, new)
  BY <1>6, WithdrawnFields DEF Pays, LockupStep
<1>7. CASE Punishes(old, new)
  BY <1>7, ChangedFields DEF Punishes, LockupStep
<1>8. CASE Frees(old, new)
  BY <1>8 DEF Frees, EmptyEntry
<1> QED
  BY <1>1, <1>2, <1>3, <1>4, <1>5, <1>6, <1>7, <1>8 DEF EntryStep

\* An entry stays well formed through every step.
LEMMA EntryStepWellFormed ==
  ASSUME NEW old \in EntryType, NEW new, now \in Nat,
         EntryStep(old, new), EntryWellFormed(old, now)
  PROVE  EntryWellFormed(new, now)
<1> SUFFICES ASSUME new.is_used
             PROVE  EntryWellFormed(new, now)
  BY DEF EntryWellFormed
<1>1. CASE new = old
  BY <1>1
<1>2. CASE Creates(old, new)
  <2>1. PICK delegate \in Voters, mint \in MintIdx,
             kind \in LockupKind, period \in LockupPeriod :
               /\ ValidLockup(kind, period)
               /\ new = NewEntry(delegate, mint, NewLockup(kind, now, period))
    BY <1>2 DEF Creates
  <2> QED
    BY <2>1 DEF NewEntry, NewLockup, EntryWellFormed
<1>3. CASE /\ old.is_used
           /\ LockupStep(old.lockup, new.lockup)
           /\ new.delegate_last_update_ts
                \in {old.delegate_last_update_ts, now}
  <2> DEFINE was == old.lockup
             is == new.lockup
  <2>1. /\ was \in LockupType /\ was.kind \in LockupKind
        /\ was.period \in LockupPeriod
        /\ was.start_ts \in Nat /\ was.cooldown_requested \in BOOLEAN
    BY DEF EntryType, LockupType
  <2>2. /\ ValidLockup(was.kind, was.period) /\ was.start_ts <= now
        /\ was.end_ts = was.start_ts + ToSecs(was.period)
        /\ was.cooldown_requested => was.cooldown_ends_at <= now + CooldownSecs
        /\ ~was.cooldown_requested => was.cooldown_ends_at = 0
        /\ old.delegate_last_update_ts <= now
    BY <1>3 DEF EntryWellFormed
  <2>3. new.delegate_last_update_ts <= now
    BY <1>3, <2>2
  <2> HIDE DEF was, is
  <2>4. /\ ValidLockup(is.kind, is.period) /\ is.start_ts <= now
        /\ is.end_ts = is.start_ts + ToSecs(is.period)
        /\ is.cooldown_requested => is.cooldown_ends_at <= now + CooldownSecs
        /\ ~is.cooldown_requested => is.cooldown_ends_at = 0
    <3>1. CASE is = was
      BY <2>2, <3>1
    <3>2. CASE is = Ending(was)
      BY <2>1, <2>2, <3>2, ChangedLockup
    <3>3. CASE is = Cooling(was, now)
      <4>1. /\ is.kind = was.kind /\ is.period = was.period
            /\ is.start_ts = was.start_ts /\ is.end_ts = was.end_ts
            /\ is.cooldown_requested
            /\ is.cooldown_ends_at = now + CooldownSecs
        BY <2>1, <3>3, ChangedLockup, Zenon
      <4> QED
        BY <2>2, <4>1, SecsAssumption
    <3>4. ASSUME NEW period \in LockupPeriod,
                 was.kind # "None", was.period # "None",
                 Rank(period) >= Rank(IF Expired(was, now) THEN "Flex"
                                                           ELSE was.period),
                 is = Restarted(was, period, now)
          PROVE  /\ ValidLockup(is.kind, is.period) /\ is.start_ts <= now
                 /\ is.end_ts = is.start_ts + ToSecs(is.period)
                 /\ is.cooldown_requested =>
                      is.cooldown_ends_at <= now + CooldownSecs
                 /\ ~is.cooldown_requested => is.cooldown_ends_at = 0
      <4>1. period # "None"
        BY <2>1, <3>4 DEF Rank, LockupPeriod
      <4>2. was.kind = "Constant"
        BY <2>1, <3>4 DEF LockupKind
      <4>3. /\ is.kind = was.kind /\ is.period = period
            /\ is.start_ts = now /\ is.end_ts = now + ToSecs(period)
            /\ is.cooldown_requested = was.cooldown_requested
            /\ is.cooldown_ends_at = was.cooldown_ends_at
        BY <2>1, <3>4, RestartedLockup
      <4> QED
        BY <2>1, <2>2, <4>1, <4>2, <4>3 DEF ValidLockup
    <3> QED
      BY <1>3, <3>1, <3>2, <3>3, <3>4 DEF LockupStep, was, is
  <2> QED
    BY <2>3, <2>4 DEF EntryWellFormed, is
<1> QED
  BY <1>1, <1>2, <1>3, StepOfEntry

\* A step moves the end of a lockup forward only, and its period up only while
\* it runs.
LEMMA EntryStepLockHolds ==
  ASSUME NEW old \in EntryType, NEW new, now \in Nat,
         EntryStep(old, new), EntryWellFormed(old, now)
  PROVE  LockHolds(old, new, now)
<1> DEFINE was == old.lockup
           is == new.lockup
<1> SUFFICES ASSUME old.is_used, new.is_used
             PROVE  /\ was.end_ts <= is.end_ts
                    /\ now < was.end_ts /\ was.kind = "Constant" =>
                         Rank(was.period) <= Rank(is.period)
  BY DEF LockHolds
<1>1. /\ was \in LockupType /\ was.period \in LockupPeriod
      /\ was.start_ts \in Nat /\ was.end_ts \in Nat
      /\ was.cooldown_requested \in BOOLEAN
  BY DEF EntryType, LockupType
<1>2. /\ was.start_ts <= now
      /\ was.end_ts = was.start_ts + ToSecs(was.period)
  BY DEF EntryWellFormed
<1>3. is = was \/ LockupStep(was, is)
  BY StepOfEntry DEF Creates
<1> HIDE DEF was, is
<1>4. CASE is = was
  BY <1>1, <1>4, PeriodFacts
<1>5. CASE is = Ending(was) \/ is = Cooling(was, now)
  <2>1. is.end_ts = was.end_ts /\ is.period = was.period
    BY <1>1, <1>2, <1>5, ChangedLockup, Zenon
  <2> QED
    BY <1>1, <2>1, PeriodFacts
<1>7. ASSUME NEW period \in LockupPeriod,
             was.kind # "None",
             Rank(period) >= Rank(IF Expired(was, now) THEN "Flex"
                                                       ELSE was.period),
             is = Restarted(was, period, now)
      PROVE  /\ was.end_ts <= is.end_ts
             /\ now < was.end_ts /\ was.kind = "Constant" =>
                  Rank(was.period) <= Rank(is.period)
  <2>1. is.period = period /\ is.end_ts = now + ToSecs(period)
    BY <1>1, <1>7, RestartedLockup
  <2>2. /\ ToSecs(period) \in Nat /\ Rank(was.period) \in Nat
        /\ Rank(period) \in Nat
        /\ Rank(was.period) <= Rank(period) =>
             ToSecs(was.period) <= ToSecs(period)
        /\ ToSecs(was.period) \in Nat
    BY <1>1, PeriodFacts
  <2>3. CASE Expired(was, now)
    <3>1. now >= was.end_ts
      BY <1>1, <1>7, <2>3 DEF Expired, SecondsLeft
    <3> QED
      BY <1>1, <2>1, <2>2, <3>1
  <2>4. CASE ~Expired(was, now)
    <3>1. Rank(was.period) <= Rank(period)
      BY <1>7, <2>2, <2>4
    <3> QED
      BY <1>1, <1>2, <2>1, <2>2, <3>1
  <2> QED
    BY <2>3, <2>4
<1> QED
  BY <1>3, <1>4, <1>5, <1>7 DEF LockupStep

\* What a change does to what the program owes.
LEMMA ChangedOwed ==
  ASSUME NEW d \in EntryType, NEW amount \in Nat
  PROVE  /\ Owed(d) \in Nat
         /\ Owed(CoolingDown(d, now)) = Owed(d)
         /\ \A delegate : Owed(Delegated(d, delegate, now)) = Owed(d)
         /\ \A period : Owed(Extended(d, period, amount, now)) = Owed(d) + amount
         /\ Owed(Slashed(d, amount)) = Owed(d)
<1>1. d.amount_deposited_native \in Nat /\ d.slashing_penalty \in Nat
  BY DEF EntryType
<1>2. /\ CoolingDown(d, now).amount_deposited_native = d.amount_deposited_native
      /\ CoolingDown(d, now).slashing_penalty = d.slashing_penalty
      /\ \A delegate :
           /\ Delegated(d, delegate, now).amount_deposited_native
                = d.amount_deposited_native
           /\ Delegated(d, delegate, now).slashing_penalty = d.slashing_penalty
      /\ \A period :
           /\ Extended(d, period, amount, now).amount_deposited_native
                = d.amount_deposited_native + amount
           /\ Extended(d, period, amount, now).slashing_penalty
                = d.slashing_penalty
      /\ Slashed(d, amount).amount_deposited_native
           = d.amount_deposited_native - amount
      /\ Slashed(d, amount).slashing_penalty = d.slashing_penalty + amount
  BY Zenon DEF EntryType, CoolingDown, Delegated, Extended, Slashed
<1> QED
  BY <1>1, <1>2 DEF Owed

\* A step leaves the funds of a staked entry where they are.
LEMMA EntryStepFundsStay ==
  ASSUME NEW old \in EntryType, NEW new, now \in Nat, EntryStep(old, new)
  PROVE  FundsStay(old, new)
<1> SUFFICES ASSUME IsStaked(old), old.amount_deposited_native > 0
             PROVE  new.is_used /\ Owed(old) <= Owed(new)
  BY DEF FundsStay
<1>1. /\ old.is_used /\ old.lockup.kind = "Constant"
      /\ ~old.lockup.cooldown_requested
      /\ old.amount_deposited_native \in Nat /\ Owed(old) \in Nat
  BY ChangedOwed DEF IsStaked, EntryType, LockupType, LockupKind
<1>2. CASE new = old
  BY <1>1, <1>2
<1>3. ~Creates(old, new) /\ ~Moves(old, new)
  BY <1>1 DEF Creates, Moves
<1>4. ~Stakes(old, new)
  BY <1>1 DEF Stakes
<1>5. CASE Unlocks(old, new)
  BY <1>1, <1>5, ChangedFields, ChangedOwed DEF Unlocks
<1>6. CASE Extends(old, new)
  <2>1. PICK amount \in Nat, period \in LockupPeriod :
          new = Extended(old, period, amount, now)
    BY <1>6 DEF Extends
  <2>2. new.is_used
    BY <1>1, <2>1, ChangedFields
  <2>3. Owed(Extended(old, period, amount, now)) = Owed(old) + amount
    BY ChangedOwed
  <2> QED
    BY <1>1, <2>1, <2>2, <2>3
<1>7. CASE Redelegates(old, new)
  BY <1>1, <1>7, ChangedFields, ChangedOwed DEF Redelegates
<1>8. ~Pays(old, new)
  BY <1>1 DEF Pays, CooledDown
<1>9. CASE Punishes(old, new)
  BY <1>1, <1>9, ChangedFields, ChangedOwed DEF Punishes
<1>10. ~Frees(old, new)
  BY <1>1 DEF Frees, AmountLocked
<1> QED
  BY <1>2, <1>3, <1>4, <1>5, <1>6, <1>7, <1>8, <1>9, <1>10 DEF EntryStep

-----------------------------------------------------------------------------
(* Every instruction takes every entry through an EntryStep. *)

EntryStepsOnly ==
  /\ deposits' \in [Voters -> [Slots -> EntryType]]
  /\ \A w \in Voters, j \in Slots : EntryStep(deposits[w][j], deposits'[w][j])

\* An instruction that leaves the deposits alone takes every entry nowhere.
LEMMA UnchangedSteps == TypeOK /\ deposits' = deposits => EntryStepsOnly
BY DEF EntryStepsOnly, EntryStep, TypeOK

\* A handler that writes a single entry.
LEMMA UpdateSteps ==
  ASSUME TypeOK, NEW v \in Voters, NEW i \in Slots, NEW e,
         UpdateEntry(v, i, e), EntryStep(deposits[v][i], e)
  PROVE  EntryStepsOnly
<1>1. deposits' = [deposits EXCEPT ![v][i] = e]
  BY DEF UpdateEntry
<1>2. deposits \in [Voters -> [Slots -> EntryType]] /\ e \in EntryType
  BY EntryStepType DEF TypeOK
<1> SUFFICES ASSUME NEW w \in Voters, NEW j \in Slots
             PROVE  EntryStep(deposits[w][j], deposits'[w][j])
  BY <1>1, <1>2 DEF EntryStepsOnly
<1>3. CASE w = v /\ j = i
  BY <1>1, <1>2, <1>3
<1>4. CASE ~(w = v /\ j = i)
  <2>1. deposits'[w][j] = deposits[w][j]
    BY <1>1, <1>2, <1>4
  <2> QED
    BY <2>1 DEF EntryStep
<1> QED
  BY <1>3, <1>4

\* Giving to another entry: only the source and the target change, and the
\* source, of kind None, gives what it has.
LEMMA GivingSteps ==
  ASSUME TypeOK, NEW v \in Voters, NEW source \in Slots, NEW target \in Slots,
         NEW amount \in Nat, SourceGives(v, source, amount), NEW e,
         deposits' = [deposits EXCEPT
           ![v] = [Given(v, source, amount) EXCEPT ![target] = e]],
         EntryStep(deposits[v][target], e)
  PROVE  EntryStepsOnly
<1>1. /\ deposits \in [Voters -> [Slots -> EntryType]]
      /\ deposits[v] \in [Slots -> EntryType]
      /\ e \in EntryType
  BY EntryStepType DEF TypeOK
<1>0. deposits' \in [Voters -> [Slots -> EntryType]]
  <2>1. amount <= deposits[v][source].amount_deposited_native
    BY <1>1 DEF SourceGives, AmountUnlocked, IsStaked
  <2>2. deposits[v][source].amount_deposited_native - amount \in Nat
    BY <1>1, <2>1 DEF EntryType
  <2>3. Minus(deposits[v][source], amount) \in EntryType
    BY <1>1, <2>2, Zenon DEF Minus, EntryType
  <2>4. Given(v, source, amount) \in [Slots -> EntryType]
    BY <1>1, <2>3 DEF Given
  <2> QED
    BY <1>1, <2>4
<1> SUFFICES ASSUME NEW w \in Voters, NEW j \in Slots
             PROVE  EntryStep(deposits[w][j], deposits'[w][j])
  BY <1>0 DEF EntryStepsOnly
<1>2. CASE w # v
  <2>1. deposits'[w] = deposits[w]
    BY <1>1, <1>2
  <2> QED
    BY <2>1 DEF EntryStep
<1>3. CASE w = v
  <2> DEFINE given == Given(v, source, amount)
  <2>1. deposits'[v] = [given EXCEPT ![target] = e]
    BY <1>1
  <2>2. /\ DOMAIN given = Slots
        /\ \A k \in Slots : given[k] = IF k = source
                                      THEN Minus(deposits[v][k], amount)
                                      ELSE deposits[v][k]
    BY <1>1 DEF Given
  <2> HIDE DEF given
  <2>3. CASE j = target
    BY <1>3, <2>1, <2>2, <2>3
  <2>4. CASE j # target /\ j = source
    <3>1. deposits'[v][j] = Minus(deposits[v][j], amount)
      BY <2>1, <2>2, <2>4
    <3>2. Moves(deposits[v][j], Minus(deposits[v][j], amount))
      BY <2>4 DEF SourceGives, Active, AmountUnlocked, IsStaked, Moves
    <3> QED
      BY <1>3, <3>1, <3>2 DEF EntryStep
  <2>5. CASE j # target /\ j # source
    <3>1. deposits'[v][j] = deposits[v][j]
      BY <2>1, <2>2, <2>5
    <3> QED
      BY <1>3, <3>1 DEF EntryStep
  <2> QED
    BY <2>3, <2>4, <2>5
<1> QED
  BY <1>2, <1>3

\* The target of stake and extend_stake as it is when the source has given.
LEMMA GivenTarget ==
  ASSUME TypeOK, NEW v \in Voters, NEW source \in Slots, NEW target \in Slots,
         NEW amount \in Nat
  PROVE  Given(v, source, amount)[target] =
           IF target = source THEN Minus(deposits[v][target], amount)
                              ELSE deposits[v][target]
BY DEF TypeOK, Given

\* Its period and its amount have their types, whatever the source gave.
LEMMA GivenPeriod ==
  ASSUME TypeOK, NEW v \in Voters, NEW source \in Slots, NEW target \in Slots,
         NEW amount \in Nat
  PROVE  Given(v, source, amount)[target].lockup.period \in LockupPeriod
<1>1. deposits[v][target] \in EntryType
  BY DEF TypeOK
<1>2. deposits[v][target].lockup.period \in LockupPeriod
  BY <1>1 DEF EntryType, LockupType
<1>3. Minus(deposits[v][target], amount).lockup = deposits[v][target].lockup
  BY <1>1, MinusFields
<1> QED
  BY <1>2, <1>3, GivenTarget

\* The source has what it gives: no amount becomes negative.
LEMMA GivenAmount ==
  ASSUME TypeOK, NEW v \in Voters, NEW source \in Slots, NEW target \in Slots,
         NEW amount \in Nat, SourceGives(v, source, amount)
  PROVE  Given(v, source, amount)[target].amount_deposited_native \in Nat
<1>1. deposits[v][target] \in EntryType /\ deposits[v][source] \in EntryType
  BY DEF TypeOK
<1>2. amount <= deposits[v][source].amount_deposited_native
  BY <1>1 DEF SourceGives, AmountUnlocked, IsStaked
<1>3. deposits[v][target].amount_deposited_native \in Nat
  BY <1>1 DEF EntryType
<1>4. Minus(deposits[v][target], amount).amount_deposited_native
        = deposits[v][target].amount_deposited_native - amount
  BY <1>1, MinusFields
<1> QED
  BY <1>2, <1>3, <1>4, GivenTarget

\* stake is a step of its source and of its target.
LEMMA StakeSteps ==
  ASSUME TypeOK, NEW v \in Voters, NEW source \in Slots, NEW target \in Slots,
         NEW amount \in Amounts, Stake(v, source, target, amount)
  PROVE  EntryStepsOnly
<1> DEFINE entry == Given(v, source, amount)[target]
           old == deposits[v][target]
<1>1. old \in EntryType /\ amount \in Nat
  BY StakingAssumption DEF TypeOK, Amounts
<1>2. /\ SourceGives(v, source, amount)
      /\ old.is_used
      /\ entry.amount_deposited_native = 0
      /\ deposits' = [deposits EXCEPT
           ![v] = [Given(v, source, amount) EXCEPT
                     ![target] = Staked(entry, amount, now)]]
  BY DEF Stake, SameMint, Active
<1>3. entry = IF target = source THEN Minus(old, amount) ELSE old
  BY <1>1, GivenTarget
<1> HIDE DEF entry
<1>4. Stakes(old, Staked(entry, amount, now))
  <2>1. CASE target = source
    <3>1. entry = Minus(old, amount) /\ old.lockup.kind = "None"
      BY <1>2, <1>3, <2>1 DEF SourceGives
    <3>2. old.amount_deposited_native = amount
      BY <1>1, <1>2, <3>1, MinusFields DEF EntryType
    <3> QED
      BY <1>1, <1>2, <3>1, <3>2 DEF Stakes
  <2>2. CASE target # source
    <3>1. entry = old
      BY <1>3, <2>2
    <3> QED
      BY <1>1, <1>2, <3>1 DEF Stakes
  <2> QED
    BY <2>1, <2>2
<1>5. EntryStep(old, Staked(entry, amount, now))
  BY <1>4 DEF EntryStep
<1> QED
  BY <1>1, <1>2, <1>5, GivingSteps

\* So is extend_stake.
LEMMA ExtendSteps ==
  ASSUME TypeOK, NEW v \in Voters, NEW source \in Slots, NEW target \in Slots,
         NEW period \in CallerPeriods, NEW amount \in Amounts,
         ExtendStake(v, source, target, period, amount)
  PROVE  EntryStepsOnly
<1> DEFINE entry == Given(v, source, amount)[target]
           old == deposits[v][target]
<1>1. old \in EntryType /\ amount \in Nat /\ period \in LockupPeriod
  BY StakingAssumption DEF TypeOK, Amounts
<1>2. /\ SourceGives(v, source, amount)
      /\ old.is_used
      /\ entry.lockup.period # "None" /\ entry.lockup.kind # "None"
      /\ Rank(period) >= Rank(CurrentPeriod(entry, now))
      /\ deposits' = [deposits EXCEPT
           ![v] = [Given(v, source, amount) EXCEPT
                     ![target] = Extended(entry, period, amount, now)]]
  BY DEF ExtendStake, SameMint, Active
<1>3. entry = IF target = source THEN Minus(old, amount) ELSE old
  BY <1>1, GivenTarget
<1> HIDE DEF entry
<1>4. target # source
  BY <1>1, <1>2, <1>3, MinusFields DEF SourceGives
<1>5. entry = old
  BY <1>3, <1>4
<1>6. Extends(old, Extended(entry, period, amount, now))
  BY <1>1, <1>2, <1>5 DEF Extends
<1>7. EntryStep(old, Extended(entry, period, amount, now))
  BY <1>6 DEF EntryStep
<1> QED
  BY <1>1, <1>2, <1>7, GivingSteps

\* Every step of the program is, for every deposit entry, one of the entry
\* changes of the handlers with its guard, or none.
THEOREM EveryStepIsEntryStep ==
  ASSUME TypeOK, [Next]_vars
  PROVE  EntryStepsOnly
<1>1. ASSUME NEW v \in Voters, UserStep(v)
      PROVE  EntryStepsOnly
  <2>1. CASE CreateVoter(v)
    BY <2>1, UnchangedSteps DEF CreateVoter
  <2>2. ASSUME NEW i \in Slots, NEW m \in MintIdx, NEW d \in Voters,
               NEW k \in LockupKind, NEW p \in CallerPeriods,
               CreateDepositEntry(v, i, d, k, p, m)
        PROVE  EntryStepsOnly
    <3>1. Creates(deposits[v][i], NewEntry(d, m, NewLockup(k, now, p)))
      BY <2>2, StakingAssumption DEF CreateDepositEntry, Creates
    <3> QED
      BY <2>2, <3>1, UpdateSteps DEF CreateDepositEntry, EntryStep
  <2>3. ASSUME NEW i \in Slots, NEW m \in MintIdx, NEW a \in Amounts,
               Deposit(v, i, m, a)
        PROVE  EntryStepsOnly
    <3>1. a \in Nat
      BY StakingAssumption DEF Amounts
    <3>2. Moves(deposits[v][i], Plus(deposits[v][i], a))
      BY <2>3, <3>1 DEF Deposit, Moves, Active
    <3> QED
      BY <2>3, <3>2, UpdateSteps DEF Deposit, EntryStep
  <2>4. ASSUME NEW i \in Slots, NEW j \in Slots, NEW a \in Amounts,
               Stake(v, i, j, a)
        PROVE  EntryStepsOnly
    BY <2>4, StakeSteps
  <2>5. ASSUME NEW i \in Slots, UnlockTokens(v, i)
        PROVE  EntryStepsOnly
    <3>1. Unlocks(deposits[v][i], CoolingDown(deposits[v][i], now))
      BY <2>5 DEF UnlockTokens, Unlocks, Active
    <3> QED
      BY <2>5, <3>1, UpdateSteps DEF UnlockTokens, EntryStep
  <2>6. ASSUME NEW i \in Slots, NEW j \in Slots, NEW p \in CallerPeriods,
               NEW a \in Amounts, ExtendStake(v, i, j, p, a)
        PROVE  EntryStepsOnly
    BY <2>6, ExtendSteps
  <2>7. ASSUME NEW i \in Slots, NEW d \in Voters, ChangeDelegate(v, i, d)
        PROVE  EntryStepsOnly
    <3>1. Redelegates(deposits[v][i], Delegated(deposits[v][i], d, now))
      BY <2>7 DEF ChangeDelegate, Redelegates, Active
    <3> QED
      BY <2>7, <3>1, UpdateSteps DEF ChangeDelegate, EntryStep
  <2>8. ASSUME NEW i \in Slots, NEW m \in MintIdx, NEW a \in Amounts,
               Withdraw(v, i, m, a)
        PROVE  EntryStepsOnly
    <3>1. a \in Nat
      BY StakingAssumption DEF Amounts
    <3>2. Pays(deposits[v][i], Withdrawn(deposits[v][i], a))
      BY <2>8, <3>1 DEF Withdraw, Pays, Active
    <3> QED
      BY <2>8, <3>2, UpdateSteps DEF Withdraw, EntryStep
  <2>9. ASSUME NEW i \in Slots, CloseDepositEntry(v, i)
        PROVE  EntryStepsOnly
    <3>1. Frees(deposits[v][i], EmptyEntry)
      BY <2>9 DEF CloseDepositEntry, Frees, AmountLocked
    <3> QED
      BY <2>9, <3>1, UpdateSteps DEF CloseDepositEntry, EntryStep
  <2>10. CASE CloseVoter(v)
    <3>0. deposits' \in [Voters -> [Slots -> EntryType]]
      BY <2>10, EmptyEntryType DEF CloseVoter, NoDeposits, TypeOK
    <3> SUFFICES ASSUME NEW w \in Voters, NEW j \in Slots
                 PROVE  EntryStep(deposits[w][j], deposits'[w][j])
      BY <3>0 DEF EntryStepsOnly
    <3>1. deposits'[w][j] = IF w = v THEN EmptyEntry ELSE deposits[w][j]
      BY <2>10 DEF CloseVoter, NoDeposits, TypeOK
    <3>2. w = v => Frees(deposits[w][j], EmptyEntry)
      BY <2>10 DEF CloseVoter, NothingLocked, Frees
    <3> QED
      BY <3>1, <3>2 DEF EntryStep
  <2>11. CASE Claim(v) \/ UpdateVoterWeightRecord(v)
    BY <2>11, UnchangedSteps DEF Claim, UpdateVoterWeightRecord
  <2> QED
    BY <1>1, <2>1, <2>2, <2>3, <2>4, <2>5, <2>6, <2>7, <2>8, <2>9, <2>10, <2>11
       DEF UserStep
<1>2. ASSUME NEW v \in Voters, AuthorityStep(v)
      PROVE  EntryStepsOnly
  <2>1. ASSUME NEW i \in Slots, NEW a \in Amounts, Slash(v, i, a)
        PROVE  EntryStepsOnly
    <3>1. a \in Nat
      BY StakingAssumption DEF Amounts
    <3>2. Punishes(deposits[v][i], Slashed(deposits[v][i], a))
      BY <2>1, <3>1 DEF Slash, Punishes, Active
    <3> QED
      BY <2>1, <3>2, UpdateSteps DEF Slash, EntryStep
  <2>2. CASE deposits' = deposits
    BY <2>2, UnchangedSteps
  <2> QED
    BY <1>2, <2>1, <2>2 DEF AuthorityStep, RestrictTokenflow, AllowTokenflow,
       RestrictBatchMinting, DecreaseRewards
<1>3. ASSUME NEW v \in Voters, GovernanceStep(v) \/ Distribute(v)
      PROVE  EntryStepsOnly
  BY <1>3, UnchangedSteps DEF GovernanceStep, CastVote, RelinquishVote,
     CreateProposal, FinalizeProposal,
     Distribute
<1>4. CASE NextSlot \/ UNCHANGED vars
  BY <1>4, UnchangedSteps DEF NextSlot, vars
<1> QED
  BY <1>1, <1>2, <1>3, <1>4 DEF Next

-----------------------------------------------------------------------------
(* Types. *)

\* The fields of the mining accounts.
LEMMA MiningFields ==
  ASSUME mining \in Rewards!MiningType
  PROVE  /\ mining.opened \in SUBSET Voters
         /\ mining.counted \in [Voters -> Int]
         /\ mining.delegated \in [Voters -> Int]
         /\ mining.excess \in [Voters -> [Rewards!Dates -> Int]]
         /\ mining.cut \in [Voters -> Nat]
         /\ mining.earned \in [Voters -> Nat]
         /\ mining.paid \in [Voters -> Nat]
BY DEF Rewards!MiningType

\* What an amount weighs beyond itself is a number, and adding it at a date
\* leaves a number at every date.
LEMMA LaterType ==
  /\ \A a \in Int, p \in LockupPeriod : Rewards!Excess(a, p) \in Int
  /\ \A x \in [Rewards!Dates -> Int], w \in Int : \A date :
       Rewards!Later(x, date, w) \in [Rewards!Dates -> Int]
<1>1. ASSUME NEW a \in Int, NEW p \in LockupPeriod
      PROVE  Rewards!Excess(a, p) \in Int
  BY DEF LockupPeriod, Rewards!Excess, Rewards!PeriodMultiplier
<1>2. ASSUME NEW x \in [Rewards!Dates -> Int], NEW w \in Int, NEW date
      PROVE  Rewards!Later(x, date, w) \in [Rewards!Dates -> Int]
  <2>1. date \in Rewards!Dates => x[date] + w \in Int
    OBVIOUS
  <2> DEFINE sum == x[date] + w
  <2>2. [x EXCEPT ![date] = sum]
          = [k \in Rewards!Dates |-> IF k = date THEN sum ELSE x[k]]
    BY Zenon
  <2> HIDE DEF sum
  <2>3. [k \in Rewards!Dates |-> IF k = date THEN sum ELSE x[k]]
          \in [Rewards!Dates -> Int]
    BY <2>1 DEF sum
  <2> QED
    BY <2>2, <2>3 DEF Rewards!Later, sum
<1> QED
  BY <1>1, <1>2

\* What the rewards program counts stays a count, whatever call is made.
LEMMA BookedType ==
  ASSUME mining \in Rewards!MiningType, NEW o \in Voters, NEW d \in Voters,
         NEW a \in Int, NEW x \in [Rewards!Dates -> Int]
  PROVE  Rewards!Booked(o, d, a, x) \in Rewards!MiningType
<1> DEFINE s == Rewards!Share(o, d, a)
           counted == [mining.counted EXCEPT ![o] = @ + a]
           delegated == [mining.delegated EXCEPT ![d] = @ + s]
           excess == [mining.excess EXCEPT ![o] = x]
<1>1. s \in Int
  BY DEF Rewards!Share
<1>2. /\ counted \in [Voters -> Int] /\ delegated \in [Voters -> Int]
      /\ excess \in [Voters -> [Rewards!Dates -> Int]]
  BY <1>1, MiningFields
<1>3. [mining EXCEPT !.counted[o] = @ + a, !.delegated[d] = @ + s,
                     !.excess[o] = x]
        = [mining EXCEPT !.counted = counted, !.delegated = delegated,
                         !.excess = excess]
  BY Zenon DEF Rewards!MiningType
<1> HIDE DEF counted, delegated, excess
<1>4. [mining EXCEPT !.counted = counted, !.delegated = delegated,
                     !.excess = excess] \in Rewards!MiningType
  BY <1>2, Zenon DEF Rewards!MiningType
<1> QED
  BY <1>3, <1>4 DEF Rewards!Booked

\* The calls that book an amount keep the types.
LEMMA BookingType ==
  ASSUME mining \in Rewards!MiningType, NEW v \in Voters, NEW d \in Voters,
         NEW a \in Nat
  PROVE  /\ \A p \in LockupPeriod :
              Rewards!DepositMining(v, d, a, p) => mining' \in Rewards!MiningType
         /\ \A p, q \in LockupPeriod, b \in Nat : \A start :
              Rewards!ExtendMining(v, d, p, q, start, b, a)
                => mining' \in Rewards!MiningType
         /\ Rewards!WithdrawMining(v, d, a) => mining' \in Rewards!MiningType
         /\ \A w \in Int : \A ends :
              Rewards!SlashMining(v, a, w, ends)
                => mining' \in Rewards!MiningType
<1>1. mining.excess[v] \in [Rewards!Dates -> Int]
  BY MiningFields
<1>2. ASSUME NEW p \in LockupPeriod, Rewards!DepositMining(v, d, a, p)
      PROVE  mining' \in Rewards!MiningType
  <2>1. PICK date : mining' = Rewards!Booked(v, d, a,
          Rewards!Later(mining.excess[v], date, Rewards!Excess(a, p)))
    BY <1>2 DEF Rewards!DepositMining
  <2> QED
    BY <1>1, <2>1, LaterType, BookedType
<1>3. ASSUME NEW p \in LockupPeriod, NEW q \in LockupPeriod, NEW b \in Nat,
             NEW start, Rewards!ExtendMining(v, d, p, q, start, b, a)
      PROVE  mining' \in Rewards!MiningType
  <2>1. PICK ends, date :
          mining' = Rewards!Booked(v, d, a,
            Rewards!Later(
              Rewards!Later(mining.excess[v], ends, -Rewards!Excess(b, p)),
              date, Rewards!Excess(b + a, q)))
    BY <1>3 DEF Rewards!ExtendMining
  <2>2. -Rewards!Excess(b, p) \in Int /\ Rewards!Excess(b + a, q) \in Int
    BY LaterType
  <2> QED
    BY <1>1, <2>1, <2>2, LaterType, BookedType
<1>4. ASSUME Rewards!WithdrawMining(v, d, a)
      PROVE  mining' \in Rewards!MiningType
  <2>1. -a \in Int
    OBVIOUS
  <2> QED
    BY <1>1, <1>4, <2>1, BookedType DEF Rewards!WithdrawMining
<1>5. ASSUME NEW w \in Int, NEW ends, Rewards!SlashMining(v, a, w, ends)
      PROVE  mining' \in Rewards!MiningType
  <2>1. -a \in Int /\ a - w \in Int
    OBVIOUS
  <2>2. PICK x \in [Rewards!Dates -> Int] :
          mining' = Rewards!Booked(v, v, -a, x)
    BY <1>1, <1>5, <2>1, LaterType DEF Rewards!SlashMining
  <2> QED
    BY <2>1, <2>2, BookedType
<1> QED
  BY <1>2, <1>3, <1>4, <1>5

\* So do the others.
LEMMA RewardsType ==
  ASSUME mining \in Rewards!MiningType, NEW v \in Voters
  PROVE  /\ Rewards!InitializeMining(v) => mining' \in Rewards!MiningType
         /\ \A d, e \in Voters, a \in Nat :
              Rewards!ChangeDelegateMining(v, d, e, a)
                => mining' \in Rewards!MiningType
         /\ \A w \in Nat : Rewards!DecreaseRewardsMining(v, w)
                => mining' \in Rewards!MiningType
         /\ Rewards!ClaimMining(v) => mining' \in Rewards!MiningType
         /\ Rewards!CloseMining(v) => mining' \in Rewards!MiningType
         /\ Rewards!DistributeRewards(v) => mining' \in Rewards!MiningType
<1>1. ASSUME NEW o \in SUBSET Voters
      PROVE  [mining EXCEPT !.opened = o] \in Rewards!MiningType
  BY MiningFields, Zenon DEF Rewards!MiningType
<1>2. /\ Rewards!InitializeMining(v) => mining' \in Rewards!MiningType
      /\ Rewards!CloseMining(v) => mining' \in Rewards!MiningType
  <2>1. /\ mining.opened \cup {v} \in SUBSET Voters
        /\ mining.opened \ {v} \in SUBSET Voters
    BY MiningFields
  <2> QED
    BY <1>1, <2>1, Zenon DEF Rewards!InitializeMining, Rewards!CloseMining
<1>3. ASSUME NEW d \in Voters, NEW e \in Voters, NEW a \in Nat,
             Rewards!ChangeDelegateMining(v, d, e, a)
      PROVE  mining' \in Rewards!MiningType
  <2>1. Rewards!Moved(v, d, e, a) \in [Voters -> Int]
    BY MiningFields DEF Rewards!Moved, Rewards!Share
  <2>2. [mining EXCEPT !.delegated = Rewards!Moved(v, d, e, a)]
          \in Rewards!MiningType
    BY <2>1, Zenon DEF Rewards!MiningType
  <2> QED
    BY <1>3, <2>2 DEF Rewards!ChangeDelegateMining
<1>4. ASSUME NEW w \in Nat, Rewards!DecreaseRewardsMining(v, w)
      PROVE  mining' \in Rewards!MiningType
  <2> DEFINE cut == [mining.cut EXCEPT ![v] = @ + w]
  <2>1. cut \in [Voters -> Nat]
    BY MiningFields
  <2>2. mining' = [mining EXCEPT !.cut = cut]
    BY <1>4, Zenon DEF Rewards!DecreaseRewardsMining, Rewards!MiningType
  <2> QED
    BY <2>1, <2>2, Zenon DEF Rewards!MiningType
<1>5. ASSUME NEW paid \in [Voters -> Nat], NEW earned \in [Voters -> Nat]
      PROVE  [mining EXCEPT !.paid = paid, !.earned = earned]
               \in Rewards!MiningType
  BY Zenon DEF Rewards!MiningType
<1>6. ASSUME Rewards!ClaimMining(v)
      PROVE  mining' \in Rewards!MiningType
  <2> DEFINE paid == [mining.paid EXCEPT ![v] = @ + mining.earned[v]]
             earned == [mining.earned EXCEPT ![v] = 0]
  <2>1. paid \in [Voters -> Nat] /\ earned \in [Voters -> Nat]
    BY MiningFields
  <2>2. mining' = [mining EXCEPT !.paid = paid, !.earned = earned]
    BY <1>6, Zenon DEF Rewards!ClaimMining, Rewards!MiningType
  <2> QED
    BY <1>5, <2>1, <2>2
<1>7. ASSUME Rewards!DistributeRewards(v)
      PROVE  mining' \in Rewards!MiningType
  <2> DEFINE earned == [mining.earned EXCEPT ![v] = @ + 1]
  <2>1. earned \in [Voters -> Nat]
    BY MiningFields
  <2>2. mining' = [mining EXCEPT !.earned = earned]
    BY <1>7, Zenon DEF Rewards!DistributeRewards, Rewards!MiningType
  <2> QED
    BY <2>1, <2>2, Zenon DEF Rewards!MiningType
<1> QED
  BY <1>2, <1>3, <1>4, <1>6, <1>7

\* The weight of a voter is a natural number.
LEMMA WeightType ==
  ASSUME NEW entries \in [Slots -> EntryType]
  PROVE  Weight(entries) \in Nat
<1> DEFINE f == [i \in Slots |-> IF entries[i].is_used
                                THEN VotingPower(entries[i]) ELSE 0]
<1>1. f \in [Slots -> Nat]
  BY DEF VotingPower, EntryType
<1> QED
  BY <1>1, SumType DEF Weight

\* Rewriting a record leaves records.
LEMMA RecordType ==
  ASSUME TypeOK, NEW v \in Voters,
         deposits' \in [Voters -> [Slots -> EntryType]], RefreshRecord(v)
  PROVE  record' \in [Voters -> [weight : Nat, current : BOOLEAN]]
<1>1. Weight(deposits'[v]) \in Nat
  BY WeightType
<1>2. [weight |-> Weight(deposits'[v]), current |-> TRUE]
        \in [weight : Nat, current : BOOLEAN]
  BY <1>1, Zenon
<1> QED
  BY <1>2 DEF RefreshRecord, TypeOK

\* The initial state has the types.
LEMMA InitType == Init => TypeOK
<1> SUFFICES ASSUME Init
             PROVE  TypeOK
  OBVIOUS
<1>1. deposits \in [Voters -> [Slots -> EntryType]]
  BY EmptyEntryType DEF Init, NoDeposits
<1>2. record \in [Voters -> [weight : Nat, current : BOOLEAN]]
  BY DEF Init
<1>3. mining \in Rewards!MiningType
  BY DEF Init, Rewards!NoMining, Rewards!MiningType
<1>4. /\ cast \in [Voters -> Nat \cup {NoVote}]
      /\ penalties \in [Voters -> PenaltyType]
  BY DEF Init, NoPenalties, PenaltyType
<1> QED
  BY <1>1, <1>2, <1>3, <1>4, StakingAssumption DEF Init, TypeOK

\* Writing one penalty of one voter leaves penalties.
LEMMA PenaltiesType ==
  ASSUME penalties \in [Voters -> PenaltyType], NEW v \in Voters
  PROVE  /\ \A b \in BOOLEAN :
              [penalties EXCEPT ![v].tokenflow_restricted = b]
                \in [Voters -> PenaltyType]
         /\ \A t \in Nat :
              [penalties EXCEPT ![v].batch_minting_restricted_until = t]
                \in [Voters -> PenaltyType]
         /\ \A w \in Nat :
              [penalties EXCEPT ![v].decreased_weighted_stake_by = @ + w]
                \in [Voters -> PenaltyType]
<1>1. penalties[v] \in PenaltyType
  OBVIOUS
<1>2. \A b \in BOOLEAN :
        [penalties[v] EXCEPT !.tokenflow_restricted = b] \in PenaltyType
  BY <1>1, Zenon DEF PenaltyType
<1>3. \A t \in Nat :
        [penalties[v] EXCEPT !.batch_minting_restricted_until = t]
          \in PenaltyType
  BY <1>1, Zenon DEF PenaltyType
<1>4. \A w \in Nat : penalties[v].decreased_weighted_stake_by + w \in Nat
  BY <1>1 DEF PenaltyType
<1>5. \A w \in Nat :
        [penalties[v] EXCEPT !.decreased_weighted_stake_by = @ + w]
          \in PenaltyType
  BY <1>1, <1>4, Zenon DEF PenaltyType
<1> QED
  BY <1>2, <1>3, <1>5, Zenon

\* Every step keeps the types.
LEMMA NextType ==
  ASSUME TypeOK, [Next]_vars
  PROVE  TypeOK'
<1>1. deposits' \in [Voters -> [Slots -> EntryType]]
  BY EveryStepIsEntryStep DEF EntryStepsOnly
<1>2. ASSUME NEW v \in Voters, UserStep(v)
      PROVE  TypeOK'
  <2>1. CASE CreateVoter(v)
    BY <1>1, <2>1, RewardsType DEF CreateVoter, TypeOK, tokens
  <2>2. ASSUME NEW i \in Slots, NEW m \in MintIdx, NEW d \in Voters,
               NEW k \in LockupKind, NEW p \in CallerPeriods,
               CreateDepositEntry(v, i, d, k, p, m)
        PROVE  TypeOK'
    BY <1>1, <2>2 DEF CreateDepositEntry, TypeOK, tokens
  <2>3. ASSUME NEW i \in Slots, NEW m \in MintIdx, NEW a \in Amounts,
               Deposit(v, i, m, a)
        PROVE  TypeOK'
    <3>1. /\ wallet[m] - a \in Nat
          /\ vault[v][m] + a \in Nat
      BY <2>3 DEF Deposit, TypeOK
    <3>2. wallet' \in [MintIdx -> Nat] /\ vault' \in [Voters -> [MintIdx -> Nat]]
      BY <2>3, <3>1 DEF Deposit, TypeOK
    <3> QED
      BY <1>1, <2>3, <3>2 DEF Deposit, TypeOK
  <2>4. ASSUME NEW i \in Slots, NEW j \in Slots, NEW a \in Amounts,
               Stake(v, i, j, a)
        PROVE  TypeOK'
    <3> DEFINE delegate == Given(v, i, a)[j].delegate
               period == Given(v, i, a)[j].lockup.period
    <3>1. Rewards!DepositMining(v, delegate, a, period)
      BY <2>4 DEF Stake
    <3>2. delegate \in Voters /\ a \in Nat
      BY <3>1, StakingAssumption DEF Rewards!DepositMining, Rewards!Opened,
         Rewards!MiningType, TypeOK, Amounts
    <3>3. period \in LockupPeriod
      BY <3>2, GivenPeriod
    <3>4. mining' \in Rewards!MiningType
      BY <3>1, <3>2, <3>3, BookingType DEF TypeOK
    <3> QED
      BY <1>1, <2>4, <3>4 DEF Stake, TypeOK, tokens
  <2>5. ASSUME NEW i \in Slots, UnlockTokens(v, i)
        PROVE  TypeOK'
    <3> DEFINE delegate == deposits[v][i].delegate
               amount == deposits[v][i].amount_deposited_native
    <3>1. Rewards!WithdrawMining(v, delegate, amount)
      BY <2>5 DEF UnlockTokens
    <3>2. delegate \in Voters /\ amount \in Nat
      BY <3>1 DEF Rewards!WithdrawMining, Rewards!Opened,
         Rewards!MiningType, TypeOK, EntryType
    <3>3. mining' \in Rewards!MiningType
      BY <3>1, <3>2, BookingType DEF TypeOK
    <3> QED
      BY <1>1, <2>5, <3>3 DEF UnlockTokens, TypeOK, tokens
  <2>6. ASSUME NEW i \in Slots, NEW j \in Slots, NEW p \in CallerPeriods,
               NEW a \in Amounts, ExtendStake(v, i, j, p, a)
        PROVE  TypeOK'
    <3> DEFINE entry == Given(v, i, a)[j]
    <3>1. Rewards!ExtendMining(v, entry.delegate, CurrentPeriod(entry, now), p,
                               entry.lockup.start_ts,
                               entry.amount_deposited_native, a)
      BY <2>6 DEF ExtendStake
    <3>2. entry.delegate \in Voters /\ a \in Nat /\ p \in LockupPeriod
      BY <3>1, StakingAssumption DEF Rewards!ExtendMining, Rewards!Opened,
         Rewards!MiningType, TypeOK, Amounts
    <3>3. CurrentPeriod(entry, now) \in LockupPeriod
      BY <3>2, GivenPeriod DEF CurrentPeriod, LockupPeriod
    <3>4. entry.amount_deposited_native \in Nat
      BY <2>6, <3>2, GivenAmount DEF ExtendStake
    <3> HIDE DEF entry
    <3>5. mining' \in Rewards!MiningType
      BY <3>1, <3>2, <3>3, <3>4, BookingType DEF TypeOK
    <3> QED
      BY <1>1, <2>6, <3>5 DEF ExtendStake, TypeOK, tokens
  <2>7. ASSUME NEW i \in Slots, NEW d \in Voters, ChangeDelegate(v, i, d)
        PROVE  TypeOK'
    <3> DEFINE delegate == deposits[v][i].delegate
               amount == deposits[v][i].amount_deposited_native
    <3>1. Rewards!ChangeDelegateMining(v, delegate, d, amount)
      BY <2>7 DEF ChangeDelegate
    <3>2. delegate \in Voters /\ amount \in Nat
      BY <3>1 DEF Rewards!ChangeDelegateMining, Rewards!Opened,
         Rewards!MiningType, TypeOK, EntryType
    <3>3. mining' \in Rewards!MiningType
      BY <3>1, <3>2, RewardsType DEF TypeOK
    <3> QED
      BY <1>1, <2>7, <3>3 DEF ChangeDelegate, TypeOK, tokens
  <2>8. ASSUME NEW i \in Slots, NEW m \in MintIdx, NEW a \in Amounts,
               Withdraw(v, i, m, a)
        PROVE  TypeOK'
    <3> DEFINE penalty == deposits[v][i].slashing_penalty
    <3>1. /\ penalty \in Nat /\ a \in Nat /\ vault[v][m] \in Nat
          /\ a + penalty <= vault[v][m]
      BY <2>8, StakingAssumption DEF Withdraw, TypeOK, EntryType, Amounts
    <3>2. /\ vault[v][m] - a - penalty \in Nat
          /\ wallet[m] + a \in Nat /\ treasury + penalty \in Nat
      BY <3>1 DEF TypeOK
    <3>3. /\ vault' \in [Voters -> [MintIdx -> Nat]]
          /\ wallet' \in [MintIdx -> Nat] /\ treasury' \in Nat
      BY <2>8, <3>2 DEF Withdraw, TypeOK
    <3>4. record' \in [Voters -> [weight : Nat, current : BOOLEAN]]
      BY <1>1, <2>8, RecordType DEF Withdraw
    <3> QED
      BY <1>1, <2>8, <3>3, <3>4 DEF Withdraw, TypeOK
  <2>9. ASSUME NEW i \in Slots, CloseDepositEntry(v, i)
        PROVE  TypeOK'
    BY <1>1, <2>9 DEF CloseDepositEntry, TypeOK, tokens
  <2>10. CASE CloseVoter(v)
    <3>1. penalties' \in [Voters -> PenaltyType]
      BY <2>10 DEF CloseVoter, NoPenalties, PenaltyType, TypeOK
    <3> QED
      BY <1>1, <2>10, <3>1, RewardsType DEF CloseVoter, TypeOK, tokens
  <2>11. CASE UpdateVoterWeightRecord(v)
    <3>1. record' \in [Voters -> [weight : Nat, current : BOOLEAN]]
      BY <1>1, <2>11, RecordType DEF UpdateVoterWeightRecord
    <3> QED
      BY <1>1, <2>11, <3>1 DEF UpdateVoterWeightRecord, TypeOK, tokens
  <2>12. CASE Claim(v)
    BY <1>1, <2>12, RewardsType DEF Claim, TypeOK, tokens
  <2> QED
    BY <1>2, <2>1, <2>2, <2>3, <2>4, <2>5, <2>6, <2>7, <2>8, <2>9, <2>10, <2>11,
       <2>12
       DEF UserStep
<1>3. ASSUME NEW v \in Voters, AuthorityStep(v)
      PROVE  TypeOK'
  <2>1. ASSUME NEW i \in Slots, NEW a \in Amounts, Slash(v, i, a)
        PROVE  TypeOK'
    <3>1. record' \in [Voters -> [weight : Nat, current : BOOLEAN]]
      BY <1>1, <2>1, RecordType DEF Slash
    <3>2. a * PeriodMultiplier(deposits[v][i].lockup.period) \in Int
      <4>1. deposits[v][i].lockup.period \in LockupPeriod
        BY DEF TypeOK, EntryType, LockupType
      <4>2. PeriodMultiplier(deposits[v][i].lockup.period) \in Int
        BY <4>1 DEF LockupPeriod, PeriodMultiplier
      <4> QED
        BY <4>2, StakingAssumption DEF Amounts
    <3>3. a \in Nat
      BY StakingAssumption DEF Amounts
    <3>4. mining' \in Rewards!MiningType
      BY <2>1, <3>2, <3>3, BookingType DEF Slash, TypeOK
    <3> QED
      BY <1>1, <2>1, <3>1, <3>4 DEF Slash, TypeOK, tokens
  <2>2. CASE RestrictTokenflow(v) \/ AllowTokenflow(v)
    <3>1. penalties' \in [Voters -> PenaltyType]
      <4>1. PICK b \in BOOLEAN :
              penalties' = [penalties EXCEPT ![v].tokenflow_restricted = b]
        BY <2>2 DEF RestrictTokenflow, AllowTokenflow
      <4> QED
        BY <4>1, PenaltiesType DEF TypeOK
    <3> QED
      BY <1>1, <2>2, <3>1 DEF RestrictTokenflow, AllowTokenflow, TypeOK, tokens
  <2>3. ASSUME NEW until \in MintingDates, RestrictBatchMinting(v, until)
        PROVE  TypeOK'
    <3>1. penalties' \in [Voters -> PenaltyType]
      BY <2>3, StakingAssumption, PenaltiesType
         DEF RestrictBatchMinting, TypeOK
    <3> QED
      BY <1>1, <2>3, <3>1 DEF RestrictBatchMinting, TypeOK, tokens
  <2>4. ASSUME NEW weight \in 1 .. MaxDecrease, DecreaseRewards(v, weight)
        PROVE  TypeOK'
    <3>1. weight \in Nat
      BY StakingAssumption
    <3>2. penalties' \in [Voters -> PenaltyType]
      BY <2>4, <3>1, PenaltiesType DEF DecreaseRewards, TypeOK
    <3>3. mining' \in Rewards!MiningType
      BY <2>4, <3>1, RewardsType DEF DecreaseRewards, TypeOK
    <3> QED
      BY <1>1, <2>4, <3>2, <3>3 DEF DecreaseRewards, TypeOK, tokens
  <2> QED
    BY <1>3, <2>1, <2>2, <2>3, <2>4 DEF AuthorityStep
<1>4. ASSUME NEW v \in Voters, GovernanceStep(v)
      PROVE  TypeOK'
  <2>1. record[v].weight \in Nat
    BY DEF TypeOK
  <2>2. cast' \in [Voters -> Nat \cup {NoVote}]
    BY <1>4, <2>1 DEF GovernanceStep, CastVote, RelinquishVote, CreateProposal,
       FinalizeProposal, TypeOK
  <2> QED
    BY <1>1, <1>4, <2>2 DEF GovernanceStep, CastVote, RelinquishVote,
       CreateProposal, FinalizeProposal, TypeOK,
       tokens
<1>5. CASE NextSlot
  <2>1. record' \in [Voters -> [weight : Nat, current : BOOLEAN]]
    BY <1>5 DEF NextSlot, TypeOK
  <2>2. now' \in Nat
    BY <1>5 DEF NextSlot, TypeOK
  <2> QED
    BY <1>1, <1>5, <2>1, <2>2 DEF NextSlot, TypeOK, tokens
<1>6. ASSUME NEW v \in Voters, Distribute(v)
      PROVE  TypeOK'
  BY <1>1, <1>6, RewardsType DEF Distribute, TypeOK, tokens
<1>7. CASE UNCHANGED vars
  BY <1>1, <1>7 DEF vars, tokens, TypeOK
<1> QED
  BY <1>2, <1>3, <1>4, <1>5, <1>6, <1>7 DEF Next

-----------------------------------------------------------------------------
(* Theorems. *)

\* Every variable of the program keeps its type: in particular no handler takes
\* an amount, a penalty or a vault below zero.
THEOREM TypeCorrect == Spec => []TypeOK
<1>1. TypeOK /\ [Next]_vars => TypeOK'
  BY NextType
<1> QED
  BY InitType, <1>1, PTL DEF Spec

\* The inductive invariant: whether an entry keeps its shape depends on the
\* entries having the types of EntryType.
IInv == TypeOK /\ EntriesWellFormed

\* The clock never goes back.
LEMMA ClockForward ==
  ASSUME TypeOK, [Next]_vars
  PROVE  now' \in Nat /\ now <= now'
<1>1. ASSUME NEW v \in Voters, UserStep(v)
      PROVE  now' = now
  BY <1>1, SMTT(30) DEF UserStep, CreateVoter, CreateDepositEntry, Deposit, Stake,
     UnlockTokens, ExtendStake, ChangeDelegate, Withdraw, CloseDepositEntry,
     Claim, CloseVoter, UpdateVoterWeightRecord
<1>2. ASSUME NEW v \in Voters,
             AuthorityStep(v) \/ GovernanceStep(v) \/ Distribute(v)
      PROVE  now' = now
  BY <1>2 DEF AuthorityStep, Slash, RestrictTokenflow, AllowTokenflow,
     RestrictBatchMinting, DecreaseRewards, GovernanceStep, CastVote,
     RelinquishVote, CreateProposal, FinalizeProposal, Distribute
<1>3. CASE NextSlot
  BY <1>3 DEF NextSlot, TypeOK
<1>4. CASE UNCHANGED vars
  BY <1>4 DEF vars, TypeOK
<1> QED
  BY <1>1, <1>2, <1>3, <1>4 DEF Next, TypeOK

\* A well-formed entry stays so as time passes.
LEMMA WellFormedLater ==
  ASSUME NEW d \in EntryType, NEW t \in Nat, NEW u \in Nat, t <= u,
         EntryWellFormed(d, t)
  PROVE  EntryWellFormed(d, u)
<1>1. /\ d.lockup.start_ts \in Nat /\ d.lockup.cooldown_ends_at \in Nat
      /\ d.delegate_last_update_ts \in Nat
  BY DEF EntryType, LockupType
<1> QED
  BY <1>1, SecsAssumption DEF EntryWellFormed

\* The lockup of an entry in use is, at every time and after any sequence of
\* instructions, one that Lockup::new, unlock_tokens and extend_stake make.
THEOREM EntriesStayWellFormed == Spec => []EntriesWellFormed
<1>1. Init => IInv
  <2> SUFFICES ASSUME Init, NEW v \in Voters, NEW i \in Slots
               PROVE  EntryWellFormed(deposits[v][i], now)
    BY InitType DEF IInv, EntriesWellFormed
  <2> QED
    BY DEF Init, NoDeposits, EmptyEntry, EntryWellFormed
<1>2. ASSUME IInv, [Next]_vars
      PROVE  IInv'
  <2> SUFFICES ASSUME NEW v \in Voters, NEW i \in Slots
               PROVE  EntryWellFormed(deposits'[v][i], now')
    BY <1>2, NextType DEF IInv, EntriesWellFormed
  <2>1. /\ deposits[v][i] \in EntryType /\ deposits'[v][i] \in EntryType
        /\ EntryStep(deposits[v][i], deposits'[v][i])
        /\ EntryWellFormed(deposits[v][i], now)
        /\ now \in Nat
    BY <1>2, EveryStepIsEntryStep
       DEF IInv, EntryStepsOnly, EntriesWellFormed, TypeOK
  <2>2. EntryWellFormed(deposits'[v][i], now)
    BY <2>1, EntryStepWellFormed
  <2> QED
    BY <1>2, <2>1, <2>2, ClockForward, WellFormedLater DEF IInv
<1>3. IInv => EntriesWellFormed
  BY DEF IInv
<1> QED
  BY <1>1, <1>2, <1>3, PTL DEF Spec

\* Nothing a user, the authority or the clock does brings the end of a lockup
\* closer or weakens its period before the end.
THEOREM LocksNeverShorten == Spec => LockNeverShortens
<1>1. ASSUME TypeOK, EntriesWellFormed, [Next]_vars
      PROVE  [\A v \in Voters, i \in Slots :
                LockHolds(deposits[v][i], deposits'[v][i], now)]_vars
  <2> SUFFICES ASSUME NEW v \in Voters, NEW i \in Slots
               PROVE  LockHolds(deposits[v][i], deposits'[v][i], now)
    OBVIOUS
  <2>1. /\ deposits[v][i] \in EntryType /\ now \in Nat
        /\ EntryStep(deposits[v][i], deposits'[v][i])
        /\ EntryWellFormed(deposits[v][i], now)
    BY <1>1, EveryStepIsEntryStep
       DEF EntryStepsOnly, EntriesWellFormed, TypeOK
  <2> QED
    BY <2>1, EntryStepLockHolds
<1> QED
  BY <1>1, TypeCorrect, EntriesStayWellFormed, PTL DEF Spec, LockNeverShortens

\* Tokens of a staked entry never leave it before it is unlocked, whatever the
\* other instructions, the authority and close_voter do.
THEOREM StakedFundsAreSafe == Spec => StakedFundsStay
<1>1. ASSUME TypeOK, [Next]_vars
      PROVE  [\A v \in Voters, i \in Slots :
                FundsStay(deposits[v][i], deposits'[v][i])]_vars
  <2> SUFFICES ASSUME NEW v \in Voters, NEW i \in Slots
               PROVE  FundsStay(deposits[v][i], deposits'[v][i])
    OBVIOUS
  <2>1. /\ deposits[v][i] \in EntryType /\ now \in Nat
        /\ EntryStep(deposits[v][i], deposits'[v][i])
    BY <1>1, EveryStepIsEntryStep DEF EntryStepsOnly, TypeOK
  <2> QED
    BY <2>1, EntryStepFundsStay
<1> QED
  BY <1>1, TypeCorrect, PTL DEF Spec, StakedFundsStay
=============================================================================
