---------------------------- MODULE PayoutProofs ----------------------------
(***************************************************************************)
(* Staked tokens are not paid out before a full cooldown: theorem          *)
(* PayoutsAfterCooldown, over the history of when they were last staked.   *)
(* A punished voter is paid nothing: theorem PunishedAreNotPaid, over the   *)
(* history of who was restricted.                                          *)
(***************************************************************************)
EXTENDS StakingHistory, StakingProgress, StakingProofs

\* The cooldown of an entry that once held a stake ends a full cooldown after
\* the last moment it did, and only an entry of kind Constant can have held one.
\* (An entry in use names a configured mint; EntryType allows 0 for the others.)
HistoryOf(d, last, ts) ==
  /\ last \in Nat \cup {Never}
  /\ ~d.is_used => last = Never
  /\ d.is_used => d.voting_mint_config_idx \in MintIdx
  /\ last # Never =>
       /\ last <= ts
       /\ d.lockup.kind = "Constant"
       /\ d.lockup.cooldown_requested =>
            last + CooldownSecs <= d.lockup.cooldown_ends_at

HistoryInv ==
  /\ lastStaked \in [Voters -> [Slots -> Nat \cup {Never}]]
  /\ \A v \in Voters, i \in Slots :
       HistoryOf(deposits[v][i], lastStaked[v][i], now)

\* What the history variable becomes.
Recorded(d, last, ts) ==
  IF ~d.is_used THEN Never
  ELSE IF IsStaked(d) /\ d.amount_deposited_native > 0 THEN ts
  ELSE last

\* withdraw leaves the mint of the entry, or the entry unused.
LEMMA WithdrawnMint ==
  ASSUME NEW d \in EntryType, NEW amount
  PROVE  Withdrawn(d, amount).is_used =>
           Withdrawn(d, amount).voting_mint_config_idx
             = d.voting_mint_config_idx
<1> DEFINE left == [d EXCEPT !.amount_deposited_native = @ - amount,
                             !.slashing_penalty = 0]
<1>1. left.voting_mint_config_idx = d.voting_mint_config_idx
  BY Zenon DEF EntryType
<1>2. Withdrawn(d, amount) = IF Exhausted(left) THEN EmptyEntry ELSE left
  BY Zenon DEF Withdrawn
<1>3. ~EmptyEntry.is_used
  BY DEF EmptyEntry
<1> HIDE DEF left
<1> QED
  BY <1>1, <1>2, <1>3

\* An entry in use keeps its mint through every step.
LEMMA EntryMint ==
  ASSUME NEW old \in EntryType, NEW new, EntryStep(old, new), new.is_used,
         old.is_used => old.voting_mint_config_idx \in MintIdx
  PROVE  new.voting_mint_config_idx \in MintIdx
<1>1. CASE Creates(old, new)
  BY <1>1 DEF Creates, NewEntry
<1>2. CASE Stakes(old, new)
  <2>1. PICK amount \in Nat :
          \/ new = Staked(old, amount, now)
          \/ /\ old.amount_deposited_native = amount
             /\ new = Staked(Minus(old, amount), amount, now)
    BY <1>2 DEF Stakes
  <2>2. CASE new = Staked(old, amount, now)
    BY <1>2, <2>2, MoneyFields DEF Stakes
  <2>3. CASE /\ old.amount_deposited_native = amount
             /\ new = Staked(Minus(old, amount), amount, now)
    <3>1. old.amount_deposited_native - amount \in Nat
      BY <2>3
    <3>2. Minus(old, amount) \in EntryType
      BY <3>1, Zenon DEF Minus, EntryType
    <3> QED
      BY <1>2, <2>3, <3>2, MoneyFields DEF Stakes
  <2> QED
    BY <2>1, <2>2, <2>3
<1>3. CASE Pays(old, new)
  BY <1>3, WithdrawnMint DEF Pays
<1>4. CASE Frees(old, new)
  BY <1>4 DEF Frees, EmptyEntry
<1>5. CASE Moves(old, new) \/ Punishes(old, new)
  BY <1>5, MoneyFields DEF Moves, Punishes
<1>6. CASE Unlocks(old, new) \/ Redelegates(old, new)
  BY <1>6, MoneyFields DEF Unlocks, Redelegates
<1>7. CASE Extends(old, new)
  <2>1. PICK amount \in Nat, period \in LockupPeriod :
          new = Extended(old, period, amount, now)
    BY <1>7 DEF Extends
  <2>2. Extended(old, period, amount, now).voting_mint_config_idx
          = old.voting_mint_config_idx
    BY Zenon DEF Extended, EntryType
  <2>3. new.is_used => old.is_used
    BY <1>7 DEF Extends
  <2> QED
    BY <2>1, <2>2, <2>3
<1>8. CASE new = old
  BY <1>8
<1> QED
  BY <1>1, <1>2, <1>3, <1>4, <1>5, <1>6, <1>7, <1>8 DEF EntryStep

\* A step of an entry keeps its history.
LEMMA EntryHistory ==
  ASSUME NEW old \in EntryType, NEW new \in EntryType, now \in Nat,
         NEW ts \in Nat, now <= ts, EntryStep(old, new),
         NEW last, HistoryOf(old, last, now)
  PROVE  HistoryOf(new, Recorded(new, last, ts), ts)
<1> DEFINE is == new.lockup
           was == old.lockup
<1>0. /\ last # Never => last \in Nat
      /\ new.is_used => new.voting_mint_config_idx \in MintIdx
  BY EntryMint DEF HistoryOf
<1>1. CASE ~new.is_used
  BY <1>1 DEF Recorded, HistoryOf
<1>2. CASE new.is_used /\ IsStaked(new) /\ new.amount_deposited_native > 0
  <2>1. Recorded(new, last, ts) = ts
    BY <1>2 DEF Recorded
  <2>2. is.kind = "Constant" /\ ~is.cooldown_requested
    BY <1>2 DEF IsStaked, EntryType, LockupType, LockupKind
  <2> QED
    BY <1>0, <1>2, <2>1, <2>2 DEF HistoryOf
<1>3. CASE new.is_used /\ ~(IsStaked(new) /\ new.amount_deposited_native > 0)
  <2>1. Recorded(new, last, ts) = last
    BY <1>3 DEF Recorded
  <2>2. CASE last = Never
    BY <1>0, <1>3, <2>1, <2>2 DEF HistoryOf
  <2>3. CASE last # Never
    <3>1. /\ old.is_used /\ last \in Nat /\ last <= now /\ was.kind = "Constant"
          /\ was.cooldown_requested =>
               last + CooldownSecs <= was.cooldown_ends_at
      BY <1>0, <2>3 DEF HistoryOf
    <3>2. was \in LockupType
      BY DEF EntryType
    <3>3. is = was \/ LockupStep(was, is)
      BY <1>3, <3>1, StepOfEntry DEF Creates
    <3> HIDE DEF was, is
    <3>4. /\ is.kind = "Constant"
          /\ is.cooldown_requested =>
               last + CooldownSecs <= is.cooldown_ends_at
      <4>1. CASE is = was
        BY <3>1, <4>1
      <4>2. CASE is = Ending(was)
        BY <3>1, <3>2, <4>2, ChangedLockup
      <4>3. CASE is = Cooling(was, now)
        <5>1. /\ is.kind = was.kind
              /\ is.cooldown_ends_at = now + CooldownSecs
          BY <3>2, <4>3, ChangedLockup
        <5> QED
          BY <3>1, <5>1, SecsAssumption
      <4>4. ASSUME NEW period \in LockupPeriod, is = Restarted(was, period, now)
            PROVE  /\ is.kind = "Constant"
                   /\ is.cooldown_requested =>
                        last + CooldownSecs <= is.cooldown_ends_at
        BY <3>1, <3>2, <4>4, RestartedLockup
      <4> QED
        BY <3>3, <4>1, <4>2, <4>3, <4>4 DEF LockupStep
    <3>5. last <= ts
      BY <3>1
    <3> QED
      BY <1>0, <1>3, <2>1, <2>3, <3>1, <3>4, <3>5 DEF HistoryOf, is
  <2> QED
    BY <2>2, <2>3
<1> QED
  BY <1>1, <1>2, <1>3

\* Initially nothing was staked.
LEMMA InitHistory == HInit => HistoryInv
BY DEF HInit, Init, HistoryInv, HistoryOf, NoDeposits, EmptyEntry

\* Every step keeps the history of every entry.
LEMMA NextHistory ==
  ASSUME TypeOK, HistoryInv, [HNext]_hvars
  PROVE  HistoryInv'
<1>1. CASE HNext
  <2>1. /\ TypeOK' /\ EntryStepsOnly /\ now' \in Nat /\ now <= now'
    BY <1>1, NextType, EveryStepIsEntryStep, ClockForward DEF HNext
  <2>2. lastStaked' = [v \in Voters |-> [i \in Slots |->
                         Recorded(deposits'[v][i], lastStaked[v][i], now')]]
    BY <1>1 DEF HNext, Recorded
  <2>3. ASSUME NEW v \in Voters, NEW i \in Slots
        PROVE  HistoryOf(deposits'[v][i], lastStaked'[v][i], now')
    <3>1. /\ deposits[v][i] \in EntryType /\ deposits'[v][i] \in EntryType
          /\ EntryStep(deposits[v][i], deposits'[v][i]) /\ now \in Nat
      BY <2>1 DEF TypeOK, EntryStepsOnly
    <3>2. HistoryOf(deposits[v][i], lastStaked[v][i], now)
      BY DEF HistoryInv
    <3>3. lastStaked'[v][i]
            = Recorded(deposits'[v][i], lastStaked[v][i], now')
      BY <2>2
    <3> QED
      BY <2>1, <3>1, <3>2, <3>3, EntryHistory
  <2>4. lastStaked' \in [Voters -> [Slots -> Nat \cup {Never}]]
    <3>1. \A v \in Voters, i \in Slots :
            lastStaked'[v][i] \in Nat \cup {Never}
      BY <2>3 DEF HistoryOf
    <3> QED
      BY <2>2, <3>1
  <2> QED
    BY <2>3, <2>4 DEF HistoryInv
<1>2. CASE UNCHANGED hvars
  BY <1>2 DEF hvars, vars, HistoryInv
<1> QED
  BY <1>1, <1>2

\* Only withdraw takes tokens out of a vault.
LEMMA OnlyWithdrawPays ==
  ASSUME TypeOK, [Next]_vars, NEW v \in Voters, NEW m \in MintIdx,
         vault'[v][m] < vault[v][m]
  PROVE  \E i \in Slots, n \in MintIdx, a \in Amounts : Withdraw(v, i, n, a)
<1>0. vault \in [Voters -> [MintIdx -> Nat]] /\ vault' # vault
  BY DEF TypeOK
<1>1. ASSUME NEW w \in Voters, UserStep(w)
      PROVE  \E i \in Slots, n \in MintIdx, a \in Amounts : Withdraw(v, i, n, a)
  <2>1. ASSUME NEW i \in Slots, NEW n \in MintIdx, NEW a \in Amounts,
               Deposit(w, i, n, a)
        PROVE  FALSE
    <3>1. a \in Nat /\ vault' = [vault EXCEPT ![w][n] = @ + a]
      BY <2>1, StakingAssumption DEF Deposit, Amounts
    <3> QED
      BY <1>0, <3>1
  <2>2. ASSUME NEW i \in Slots, NEW n \in MintIdx, NEW a \in Amounts,
               Withdraw(w, i, n, a)
        PROVE  w = v
    BY <1>0, <2>2 DEF Withdraw
  <2> QED
    BY <1>0, <1>1, <2>1, <2>2 DEF UserStep, CreateVoter, CreateDepositEntry,
       Stake, UnlockTokens, ExtendStake, ChangeDelegate, CloseDepositEntry,
       Claim, CloseVoter, UpdateVoterWeightRecord, tokens
<1>2. ASSUME NEW w \in Voters,
             AuthorityStep(w) \/ GovernanceStep(w) \/ Distribute(w)
      PROVE  FALSE
  BY <1>0, <1>2 DEF AuthorityStep, Slash, RestrictTokenflow, AllowTokenflow,
     RestrictBatchMinting, DecreaseRewards, GovernanceStep, CastVote,
     RelinquishVote, CreateProposal, FinalizeProposal, Distribute, tokens
<1>3. ASSUME NextSlot \/ UNCHANGED vars
      PROVE  FALSE
  BY <1>0, <1>3 DEF NextSlot, vars, tokens
<1> QED
  BY <1>1, <1>2, <1>3 DEF Next

\* Whatever sequence of instructions staked tokens go through, they leave the
\* vault no sooner than a cooldown after they were last staked.
THEOREM PayoutsAfterCooldown == HSpec => PayoutAfterCooldown
<1>1. ASSUME TypeOK, HistoryInv, [HNext]_hvars
      PROVE  [\A v \in Voters, i \in Slots :
                LET old == deposits[v][i]
                    m   == old.voting_mint_config_idx
                IN  /\ old.is_used /\ vault'[v][m] < vault[v][m]
                    /\ Owed(deposits'[v][i]) < Owed(old)
                    /\ lastStaked[v][i] # Never
                    => now >= lastStaked[v][i] + CooldownSecs]_hvars
  <2> DEFINE m(v, i) == deposits[v][i].voting_mint_config_idx
  <2> SUFFICES ASSUME NEW v \in Voters, NEW i \in Slots,
                      deposits[v][i].is_used,
                      vault'[v][m(v, i)] < vault[v][m(v, i)],
                      Owed(deposits'[v][i]) < Owed(deposits[v][i]),
                      lastStaked[v][i] # Never
               PROVE  now >= lastStaked[v][i] + CooldownSecs
    OBVIOUS
  <2>1. [Next]_vars
    BY <1>1 DEF HNext, hvars
  <2>2. PICK j \in Slots, n \in MintIdx, a \in Amounts : Withdraw(v, j, n, a)
    <3>1. m(v, i) \in MintIdx
      BY <1>1 DEF HistoryInv, HistoryOf
    <3> QED
      BY <1>1, <2>1, <3>1, OnlyWithdrawPays
  <2>3. j = i
    <3>1. /\ deposits \in [Voters -> [Slots -> EntryType]]
          /\ UpdateEntry(v, j, Withdrawn(deposits[v][j], a))
      BY <1>1, <2>2 DEF TypeOK, Withdraw
    <3>2. j # i => deposits'[v][i] = deposits[v][i]
      BY <3>1 DEF UpdateEntry
    <3>3. Owed(deposits[v][i]) \in Int
      BY <3>1 DEF Owed, EntryType
    <3> QED
      BY <3>2, <3>3
  <2>4. HistoryOf(deposits[v][i], lastStaked[v][i], now)
    BY <1>1 DEF HistoryInv
  <2> QED
    BY <1>1, <2>2, <2>3, <2>4, SecsAssumption
       DEF HistoryOf, Withdraw, CooledDown, TypeOK, EntryType, LockupType
<1>2. HSpec => []TypeOK
  <2>1. HInit => Init
    BY DEF HInit
  <2>2. [HNext]_hvars => [Next]_vars
    BY DEF HNext, hvars
  <2> QED
    BY <2>1, <2>2, TypeCorrect, PTL DEF HSpec, Spec
<1> QED
  BY InitHistory, NextHistory, <1>1, <1>2, PTL DEF HSpec, PayoutAfterCooldown

-----------------------------------------------------------------------------
(* Restrictions.  Closing a voter clears its restriction, so barred says     *)
(* more than tokenflow_restricted; what is left is that a closed voter stays *)
(* closed.                                                                   *)

BarredInv ==
  /\ barred \subseteq Voters
  /\ \A v \in Voters : Restricted(v) => Open(v)
  /\ \A v \in barred : Restricted(v) \/ status[v] = "closed"

\* A closed voter is never opened again, an open one can only be closed, and
\* only an open voter is restricted.
StatusStep(v) ==
  /\ status[v] = "closed" => status'[v] = "closed"
  /\ Open(v) => status'[v] \in {"open", "closed"}
  /\ (Restricted(v) => Open(v)) => (Restricted(v)' => Open(v)')

\* Every instruction keeps to StatusStep.
LEMMA NextStatus ==
  ASSUME TypeOK, [Next]_vars, NEW v \in Voters
  PROVE  StatusStep(v)
<1>0. /\ status \in [Voters -> {"absent", "open", "closed"}]
      /\ penalties \in [Voters -> PenaltyType]
  BY DEF TypeOK
<1>1. ASSUME NEW w \in Voters, UserStep(w)
      PROVE  StatusStep(v)
  <2>1. CASE CreateVoter(w)
    BY <1>0, <2>1 DEF CreateVoter, StatusStep, Open, Restricted
  <2>2. CASE CloseVoter(w)
    <3>1. /\ Open(w)
          /\ status' = [status EXCEPT ![w] = "closed"]
          /\ penalties' = [penalties EXCEPT ![w] = NoPenalties]
      BY <2>2 DEF CloseVoter
    <3> QED
      BY <1>0, <3>1 DEF StatusStep, Open, Restricted, NoPenalties
  <2> QED
    BY <1>1, <2>1, <2>2, SMTT(30) DEF UserStep, CreateDepositEntry, Deposit, Stake,
       UnlockTokens, ExtendStake, ChangeDelegate, Withdraw, CloseDepositEntry,
       Claim, UpdateVoterWeightRecord, StatusStep, Open, Restricted
<1>2. ASSUME NEW w \in Voters, AuthorityStep(w)
      PROVE  StatusStep(v)
  <2>1. CASE RestrictTokenflow(w) \/ AllowTokenflow(w)
    BY <1>0, <2>1 DEF RestrictTokenflow, AllowTokenflow, StatusStep, Open,
       Restricted, PenaltyType
  <2>2. ASSUME NEW until \in MintingDates, RestrictBatchMinting(w, until)
        PROVE  StatusStep(v)
    BY <1>0, <2>2 DEF RestrictBatchMinting, StatusStep, Open, Restricted,
       PenaltyType
  <2>3. ASSUME NEW weight \in 1 .. MaxDecrease, DecreaseRewards(w, weight)
        PROVE  StatusStep(v)
    BY <1>0, <2>3 DEF DecreaseRewards, StatusStep, Open, Restricted,
       PenaltyType
  <2> QED
    BY <1>2, <2>1, <2>2, <2>3 DEF AuthorityStep, Slash, StatusStep, Open,
       Restricted
<1>3. ASSUME NEW w \in Voters, GovernanceStep(w) \/ Distribute(w)
      PROVE  StatusStep(v)
  BY <1>3 DEF GovernanceStep, CastVote, RelinquishVote, CreateProposal,
     FinalizeProposal, Distribute, StatusStep,
     Open, Restricted
<1>4. ASSUME NextSlot \/ UNCHANGED vars
      PROVE  StatusStep(v)
  BY <1>4 DEF NextSlot, vars, StatusStep, Open, Restricted
<1> QED
  BY <1>1, <1>2, <1>3, <1>4 DEF Next

\* Of the calls to the rewards program only claim pays, and only its owner.
LEMMA CallsDoNotPay ==
  ASSUME mining \in Rewards!MiningType, NEW w \in Voters
  PROVE  /\ Rewards!InitializeMining(w) => mining'.paid = mining.paid
         /\ Rewards!CloseMining(w) => mining'.paid = mining.paid
         /\ Rewards!DistributeRewards(w) => mining'.paid = mining.paid
         /\ \A x : Rewards!DecreaseRewardsMining(w, x)
                     => mining'.paid = mining.paid
         /\ \A d, a, p : Rewards!DepositMining(w, d, a, p)
                            => mining'.paid = mining.paid
         /\ \A d, a : Rewards!WithdrawMining(w, d, a)
                         => mining'.paid = mining.paid
         /\ \A d, p, q, s, a, b : Rewards!ExtendMining(w, d, p, q, s, a, b)
                                     => mining'.paid = mining.paid
         /\ \A d, e, a : Rewards!ChangeDelegateMining(w, d, e, a)
                            => mining'.paid = mining.paid
         /\ \A a, x, date : Rewards!SlashMining(w, a, x, date)
                               => mining'.paid = mining.paid
         /\ \A v \in Voters \ {w} : Rewards!ClaimMining(w)
                                      => mining'.paid[v] = mining.paid[v]
<1>1. \A o, d, a, x : Rewards!Booked(o, d, a, x).paid = mining.paid
  BY DEF Rewards!Booked, Rewards!MiningType
<1>2. /\ Rewards!InitializeMining(w) => mining'.paid = mining.paid
      /\ Rewards!CloseMining(w) => mining'.paid = mining.paid
      /\ Rewards!DistributeRewards(w) => mining'.paid = mining.paid
  BY DEF Rewards!MiningType, Rewards!InitializeMining, Rewards!CloseMining,
     Rewards!DistributeRewards
<1>3. \A x : Rewards!DecreaseRewardsMining(w, x) => mining'.paid = mining.paid
  BY DEF Rewards!MiningType, Rewards!DecreaseRewardsMining
<1>4. \A d, a, p : Rewards!DepositMining(w, d, a, p)
                     => mining'.paid = mining.paid
  BY <1>1 DEF Rewards!DepositMining
<1>5. \A d, a : Rewards!WithdrawMining(w, d, a) => mining'.paid = mining.paid
  BY <1>1 DEF Rewards!WithdrawMining
<1>6. \A d, p, q, s, a, b : Rewards!ExtendMining(w, d, p, q, s, a, b)
                              => mining'.paid = mining.paid
  BY <1>1 DEF Rewards!ExtendMining
<1>7. \A d, e, a : Rewards!ChangeDelegateMining(w, d, e, a)
                     => mining'.paid = mining.paid
  BY DEF Rewards!MiningType, Rewards!ChangeDelegateMining
<1>8. \A a, x, date : Rewards!SlashMining(w, a, x, date)
                        => mining'.paid = mining.paid
  BY <1>1 DEF Rewards!SlashMining
<1>9. \A v \in Voters \ {w} : Rewards!ClaimMining(w)
                               => mining'.paid[v] = mining.paid[v]
  BY DEF Rewards!MiningType, Rewards!ClaimMining
<1> QED
  BY <1>2, <1>3, <1>4, <1>5, <1>6, <1>7, <1>8, <1>9

\* Rewards reach a voter by its own claim only.
LEMMA OnlyClaimPays ==
  ASSUME TypeOK, [Next]_vars, NEW v \in Voters,
         mining'.paid[v] # mining.paid[v]
  PROVE  Claim(v)
<1>0. mining \in Rewards!MiningType
  BY DEF TypeOK
<1>1. ASSUME NEW w \in Voters, UserStep(w)
      PROVE  Claim(v)
  <2>1. CASE Claim(w)
    BY <1>0, <2>1, CallsDoNotPay DEF Claim
  <2> QED
    BY <1>0, <1>1, <2>1, CallsDoNotPay, SMTT(30) DEF UserStep, CreateVoter,
       CreateDepositEntry, Deposit, Stake, UnlockTokens, ExtendStake,
       ChangeDelegate, Withdraw, CloseDepositEntry, CloseVoter,
       UpdateVoterWeightRecord
<1>2. ASSUME NEW w \in Voters,
             AuthorityStep(w) \/ GovernanceStep(w) \/ Distribute(w)
      PROVE  FALSE
  BY <1>0, <1>2, CallsDoNotPay DEF AuthorityStep, Slash, RestrictTokenflow,
     AllowTokenflow, RestrictBatchMinting, DecreaseRewards, GovernanceStep,
     CastVote, RelinquishVote, CreateProposal, FinalizeProposal, Distribute
<1>3. ASSUME NextSlot \/ UNCHANGED vars
      PROVE  FALSE
  BY <1>3 DEF NextSlot, vars
<1> QED
  BY <1>1, <1>2, <1>3 DEF Next

\* The clock running on changes no account.
LEMMA LateSlotKeeps ==
  ASSUME TypeOK, LateSlot
  PROVE  /\ TypeOK'
         /\ \A v \in Voters : StatusStep(v)
         /\ vault' = vault /\ mining' = mining
<1>1. UNCHANGED <<status, deposits, penalties, tokens, mining, cast, proposing>>
  BY DEF LateSlot
<1>2. now' \in Nat
  BY DEF LateSlot, TypeOK
<1>3. record' \in [Voters -> [weight : Nat, current : BOOLEAN]]
  BY DEF LateSlot, TypeOK
<1> QED
  BY <1>1, <1>2, <1>3 DEF TypeOK, tokens, StatusStep, Open, Restricted,
     Rewards!MiningType, Rewards!Dates

\* BarredInv is inductive.
LEMMA NextBarred ==
  ASSUME TypeOK, BarredInv, [PNext]_pvars
  PROVE  TypeOK' /\ BarredInv'
<1>1. CASE UNCHANGED pvars
  BY <1>1, NextType DEF pvars, vars, BarredInv, Restricted, Open
<1>2. CASE PNext
  <2>1. TypeOK' /\ \A v \in Voters : StatusStep(v)
    BY <1>2, NextType, NextStatus, LateSlotKeeps DEF PNext
  <2>2. \A v \in Voters : Restricted(v)' => Open(v)'
    BY <2>1 DEF BarredInv, StatusStep
  <2>3. ASSUME NEW v \in barred'
        PROVE  Restricted(v)' \/ status'[v] = "closed"
    <3>1. /\ v \in Voters
          /\ Restricted(v)' \/ (v \in barred /\ ~Lifted(v))
      BY <1>2, <2>3 DEF PNext, KeepBarred
    <3> QED
      BY <2>1, <3>1 DEF BarredInv, StatusStep, Lifted, Open
  <2> QED
    <3>1. barred' \subseteq Voters
      BY <1>2 DEF PNext, KeepBarred
    <3> QED
      BY <2>1, <2>2, <2>3, <3>1 DEF BarredInv, Open, Restricted
<1> QED
  BY <1>1, <1>2

\* Whatever a punished voter does, closing the voter included, neither its
\* vaults nor the rewards program pays until the restriction is lifted.
THEOREM PunishedAreNotPaid == PSpec => PunishedGetNothing
<1>1. PInit => TypeOK /\ BarredInv
  BY InitType DEF PInit, Init, BarredInv, Restricted, NoPenalties
<1>2. ASSUME TypeOK, BarredInv, [PNext]_pvars
      PROVE  [\A v \in barred :
                /\ \A m \in MintIdx : vault'[v][m] >= vault[v][m]
                /\ mining'.paid[v] = mining.paid[v]]_pvars
  <2> SUFFICES ASSUME PNext, NEW v \in barred
               PROVE  /\ \A m \in MintIdx : vault'[v][m] >= vault[v][m]
                      /\ mining'.paid[v] = mining.paid[v]
    BY <1>2
  <2>1. TypeOK' /\ vault \in [Voters -> [MintIdx -> Nat]]
              /\ vault' \in [Voters -> [MintIdx -> Nat]]
    BY <1>2, NextBarred DEF TypeOK
  <2>2. v \in Voters /\ (Restricted(v) \/ ~Open(v))
    BY <1>2 DEF BarredInv, Open
  <2>3. CASE LateSlot
    BY <1>2, <2>1, <2>2, <2>3, LateSlotKeeps
  <2>4. CASE Next
    <3>1. ASSUME NEW m \in MintIdx, vault'[v][m] < vault[v][m]
          PROVE  FALSE
      BY <1>2, <2>2, <2>4, <3>1, OnlyWithdrawPays DEF Withdraw, Active
    <3>2. mining'.paid[v] = mining.paid[v]
      BY <1>2, <2>2, <2>4, OnlyClaimPays DEF Claim
    <3> QED
      BY <2>1, <2>2, <3>1, <3>2
  <2> QED
    BY <2>3, <2>4 DEF PNext
<1> QED
  BY <1>1, <1>2, NextBarred, PTL DEF PSpec, PunishedGetNothing
=============================================================================
