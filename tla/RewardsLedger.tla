--------------------------- MODULE RewardsLedger ---------------------------
(***************************************************************************)
(* The external rewards program, as the staking program uses it.  One      *)
(* operator per call of cpi_instructions.rs, with what the call passes; it *)
(* is a conjunct of the handler that makes the call: when the rewards      *)
(* program refuses, the whole instruction is undone, so the handler is not *)
(* enabled.                                                                *)
(*                                                                         *)
(* The program is not part of the repository, so what it does is kept to   *)
(* what the calls say: it adds up the native amounts it is told of for     *)
(* each owner and each delegate, and it weighs an amount with the          *)
(* multiplier of its period until the date on which the period ends.       *)
(* StrictRewards chooses between the two ends of what it may answer: TRUE  *)
(* counts, and refuses to take away more than it counts, a deposit for     *)
(* LockupPeriod::None and the closing of a mining that others delegate to; *)
(* FALSE accepts every call and leaves what it counts out of the state.    *)
(* TRUE presumes that callers name the real program: the handlers only     *)
(* check that the account of rewards_program is executable.                *)
(***************************************************************************)
EXTENDS Lockup

CONSTANTS
  Voters, StrictRewards, MaxTs,
  MaxEarned    \* bound: rewards one owner earns in all

VARIABLES
  now,
  mining       \* the mining accounts, field by field for all owners

\* The dates on which a period that starts by MaxTs can end.
Dates == 0 .. MaxTs + OneYearSecs

NoDate == -1   \* None, for Option<u64>

MiningType ==
  [opened    : SUBSET Voters,             \* minings that exist
   counted   : [Voters -> Int],           \* native amount staked by the owner
   delegated : [Voters -> Int],           \* native amount delegated to it
   excess    : [Voters -> [Dates -> Int]],\* weight beyond counted, by its end
   cut       : [Voters -> Nat],           \* weight taken by decrease_rewards
   earned    : [Voters -> Nat],           \* rewards not claimed yet
   paid      : [Voters -> Nat]]           \* rewards claimed

NoMining ==
  LET nothing == [v \in Voters |-> 0]
  IN  [opened |-> {}, counted |-> nothing, delegated |-> nothing,
       excess |-> [v \in Voters |-> [date \in Dates |-> 0]],
       cut |-> nothing, earned |-> nothing, paid |-> nothing]

\* A stake delegated to its own owner is not counted as delegated.
Share(owner, delegate, amount) == IF delegate = owner THEN 0 ELSE amount

\* What an amount weighs beyond itself until its period ends.
Excess(amount, period) ==
  IF period = "None" THEN 0 ELSE amount * (PeriodMultiplier(period) - 1)

Later(excess, date, weight) == [excess EXCEPT ![date] = @ + weight]

Booked(owner, delegate, amount, excess) ==
  IF StrictRewards
  THEN [mining EXCEPT
          !.counted[owner] = @ + amount,
          !.delegated[delegate] = @ + Share(owner, delegate, amount),
          !.excess[owner] = excess]
  ELSE mining

\* The amount can be taken from what is counted for owner and delegate.
Covered(owner, delegate, amount) ==
  /\ amount <= mining.counted[owner]
  /\ Share(owner, delegate, amount) <= mining.delegated[delegate]

Opened(keys) == keys \subseteq mining.opened

-----------------------------------------------------------------------------
(* The calls. *)

InitializeMining(owner) ==
  mining' = [mining EXCEPT !.opened = @ \cup {owner}]

\* The period is passed, not the end of the entry: it runs from now.
DepositMining(owner, delegate, amount, period) ==
  /\ Opened({owner, delegate})
  /\ StrictRewards => period # "None"
  /\ mining' = Booked(owner, delegate, amount,
                 Later(mining.excess[owner], now + ToSecs(period),
                       Excess(amount, period)))

\* The old period and the old start say which weight the base loses on which
\* date; base and additional weigh for the new period from now.
ExtendMining(owner, delegate, old, new, start, base, additional) ==
  LET ends == start + ToSecs(old)
      rest == Later(mining.excess[owner], ends, -Excess(base, old))
  IN  /\ Opened({owner, delegate})
      /\ StrictRewards =>
           /\ Covered(owner, delegate, base)
           /\ Excess(base, old) <= mining.excess[owner][ends]
      /\ mining' = Booked(owner, delegate, additional,
                     Later(rest, now + ToSecs(new),
                           Excess(base + additional, new)))

WithdrawMining(owner, delegate, amount) ==
  /\ Opened({owner, delegate})
  /\ StrictRewards => Covered(owner, delegate, amount)
  /\ mining' = Booked(owner, delegate, -amount, mining.excess[owner])

\* What is delegated once the owner's amount has moved from old to new.
Moved(owner, old, new, amount) ==
  [d \in Voters |-> mining.delegated[d]
                      - (IF d = old THEN Share(owner, d, amount) ELSE 0)
                      + (IF d = new THEN Share(owner, d, amount) ELSE 0)]

ChangeDelegateMining(owner, old, new, amount) ==
  /\ Opened({owner, old, new})
  /\ StrictRewards => Covered(owner, old, amount)
  /\ mining' = IF StrictRewards
               THEN [mining EXCEPT !.delegated = Moved(owner, old, new, amount)]
               ELSE mining

\* slash passes no delegate mining: what was delegated stays delegated.  The
\* weighted amount matters while a date is passed with it.
SlashMining(owner, amount, weighted, ends) ==
  /\ Opened({owner})
  /\ StrictRewards =>
       /\ amount <= mining.counted[owner]
       /\ ends # NoDate =>
            weighted - amount \in 0 .. mining.excess[owner][ends]
  /\ mining' = Booked(owner, owner, -amount,
                 IF ends = NoDate THEN mining.excess[owner]
                 ELSE Later(mining.excess[owner], ends, amount - weighted))

DecreaseRewardsMining(owner, weight) ==
  /\ Opened({owner})
  /\ mining' = [mining EXCEPT !.cut[owner] = @ + weight]

ClaimMining(owner) ==
  /\ Opened({owner})
  /\ mining' = [mining EXCEPT !.paid[owner] = @ + mining.earned[owner],
                              !.earned[owner] = 0]

CloseMining(owner) ==
  /\ Opened({owner})
  /\ StrictRewards => mining.delegated[owner] = 0
  /\ mining' = [mining EXCEPT !.opened = @ \ {owner}]

-----------------------------------------------------------------------------
\* DistributeRewards, called by its own authority: an owner earns something.
DistributeRewards(owner) ==
  /\ owner \in mining.opened
  /\ mining.earned[owner] + mining.paid[owner] < MaxEarned
  /\ mining' = [mining EXCEPT !.earned[owner] = @ + 1]
=============================================================================
