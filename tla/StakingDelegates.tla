-------------------------- MODULE StakingDelegates --------------------------
(***************************************************************************)
(* The staking program with a history variable: the delegates from whom    *)
(* the rewards program was told to take tokens that were not staked.  It   *)
(* changes nothing else.                                                   *)
(***************************************************************************)
EXTENDS StakingProps

VARIABLE misled

dvars == <<vars, misled>>

\* unlock_tokens of tokens that were never staked, and change_delegate of
\* tokens that are not staked, never or not any more.
Misleads(old, new) ==
  /\ old.is_used /\ new.is_used /\ ~IsStaked(old)
  /\ old.amount_deposited_native > 0
  /\ \/ old.lockup.cooldown_requested # new.lockup.cooldown_requested
     \/ old.delegate # new.delegate

DInit == Init /\ misled = {}

DNext ==
  /\ Next
  /\ misled' = misled \cup
       {d \in Voters : \E v \in Voters \ {d}, i \in Slots :
          /\ deposits[v][i].delegate = d
          /\ Misleads(deposits[v][i], deposits'[v][i])}

DSpec == DInit /\ [][DNext]_dvars

\* While stakes are delegated to a voter its mining stays open, and they can be
\* unlocked and extended: close_voter looks at the delegate's own entries only,
\* and relies on the rewards program to know what is delegated to it.  The
\* rewards program knows at least that much, unless it was misled about the
\* delegate.
DelegatesStayOpen ==
  \A v, d \in Voters :
    (d = v \/ d \notin misled) /\ StakedTo(v, d) > 0 => d \in mining.opened
=============================================================================
