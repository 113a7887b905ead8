--------------------------- MODULE StakingWeights ---------------------------
(***************************************************************************)
(* The staking program with a history variable for what the rewards        *)
(* program counts: the voters who made a call on an entry in a state such  *)
(* a call is not meant for.  It changes nothing else.                      *)
(***************************************************************************)
EXTENDS StakingProps

VARIABLE irregular

wvars == <<vars, irregular>>

\* A stake into an entry created earlier: stake ends the lock a period after
\* the creation, the rewards program a period after the call.
Late(old, new) ==
  /\ old.is_used /\ old.lockup.kind = "Constant"
  /\ old.amount_deposited_native = 0 /\ new.amount_deposited_native > 0
  /\ old.lockup.start_ts = new.lockup.start_ts
  /\ old.lockup.start_ts # now

\* Even an extension by nothing: when its cooldown runs, the rewards program
\* does not count the entry any more, but weighs it for the new period.
Reweighed(old, new) ==
  /\ old.is_used /\ new.is_used /\ old.lockup.cooldown_requested
  /\ old.lockup.start_ts # new.lockup.start_ts

WInit == Init /\ irregular = {}

WNext ==
  /\ Next
  /\ irregular' = irregular \cup
       {v \in Voters : \E i \in Slots :
          \/ Irregular(deposits[v][i], deposits'[v][i])
          \/ Reweighed(deposits[v][i], deposits'[v][i])
          \/ Late(deposits[v][i], deposits'[v][i])}

WSpec == WInit /\ [][WNext]_wvars

\* The weights with a date after ts, added up.
ExcessAfter(excess, ts) ==
  SumTo(MaxTs + OneYearSecs + 1,
        [date \in Rewards!Dates |-> IF date > ts THEN excess[date] ELSE 0])

\* The weight the rewards program gives the owner now.
RewardsWeight(v) ==
  mining.counted[v] - mining.cut[v]
    + ExcessAfter(mining.excess[v], now)

\* The rewards program weighs a voter as the staking program does, at every
\* time and after any sequence of calls: the old period and start passed by
\* extend_stake, the weighted amount and date passed by slash, the bare amount
\* passed by unlock_tokens and the one change of multiplier at end_ts leave
\* nothing behind, and decrease_rewards takes what the voter account records.
WeightsAgree ==
  \A v \in Voters \ irregular : Open(v) =>
    /\ mining.counted[v] = StakedBy(v)
    /\ RewardsWeight(v)
         = OwnWeightedStake(v) - penalties[v].decreased_weighted_stake_by
=============================================================================
