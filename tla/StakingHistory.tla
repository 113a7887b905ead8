--------------------------- MODULE StakingHistory ---------------------------
(***************************************************************************)
(* The staking program with a history variable: when the tokens of an      *)
(* entry were last staked.  It changes nothing else.                       *)
(***************************************************************************)
EXTENDS StakingProps

CONSTANT Never   \* the entry has held no stake since it was created

ASSUME NeverAssumption == Never \notin Nat

VARIABLE lastStaked

hvars == <<vars, lastStaked>>

HInit == Init /\ lastStaked = [v \in Voters |-> [i \in Slots |-> Never]]

HNext ==
  /\ Next
  /\ lastStaked' = [v \in Voters |-> [i \in Slots |->
       LET new == deposits'[v][i]
       IN  IF ~new.is_used THEN Never
           ELSE IF IsStaked(new) /\ new.amount_deposited_native > 0 THEN now'
           ELSE lastStaked[v][i]]]

HSpec == HInit /\ [][HNext]_hvars

\* Tokens that were staked leave the vault only when a full cooldown has
\* passed since they last were, whichever sequence of stake, unlock_tokens,
\* extend_stake, slash and withdraw led there.
PayoutAfterCooldown ==
  [][\A v \in Voters, i \in Slots :
       LET old == deposits[v][i]
           m   == old.voting_mint_config_idx
       IN  /\ old.is_used /\ vault'[v][m] < vault[v][m]
           /\ Owed(deposits'[v][i]) < Owed(old)
           /\ lastStaked[v][i] # Never
           => now >= lastStaked[v][i] + CooldownSecs]_hvars
=============================================================================
