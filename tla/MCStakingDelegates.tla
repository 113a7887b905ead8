------------------------- MODULE MCStakingDelegates -------------------------
(***************************************************************************)
(* The instance of the staking program with voters delegating to others.   *)
(***************************************************************************)
EXTENDS StakingDelegates, MCStaking

DelegatesView == <<WithoutRecords, misled>>
=============================================================================
