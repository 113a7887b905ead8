-------------------------- MODULE StakingTimeLock --------------------------
(***************************************************************************)
(* The staking program as an implementation of TimeLock.                   *)
(***************************************************************************)
EXTENDS StakingProps

\* An entry of kind None is liquid, even if unlock_tokens was called on it.
AccountState(d) ==
  IF d.lockup.kind = "None" THEN "liquid"
  ELSE IF d.lockup.cooldown_requested THEN "notice" ELSE "locked"

Account(d) ==
  IF ~d.is_used THEN [state |-> "none"]
  ELSE [state    |-> AccountState(d),
        currency |-> d.voting_mint_config_idx,
        balance  |-> d.amount_deposited_native,
        fine     |-> d.slashing_penalty,
        until    |-> IF d.lockup.kind = "None" THEN 0 ELSE d.lockup.end_ts,
        ready    |-> IF d.lockup.kind = "None" THEN 0
                                               ELSE d.lockup.cooldown_ends_at]

accounts == [v \in Voters |-> [i \in Slots |-> Account(deposits[v][i])]]

Bank == INSTANCE TimeLock WITH
  Owners <- Voters, Numbers <- Slots, Currencies <- MintIdx, Sums <- Amounts,
  Notice <- CooldownSecs,
  clock <- now, account <- accounts, reserve <- vault

\* Every instruction, seen through its entries and vaults, is a step of the
\* time lock or none: whatever a voter calls in whatever order, a lock is not
\* shortened, notice is not given early, and the vault pays nothing but ready
\* money and its penalty.
BankSpec == Bank!Spec
=============================================================================
