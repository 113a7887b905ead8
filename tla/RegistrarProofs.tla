-------------------------- MODULE RegistrarProofs --------------------------
(* Theorems of the registrar's table, for any mints and any table length. *)
EXTENDS Registrar, TLAPS

\* The table holds mints and unused indexes only.
THEOREM TypeCorrect == Spec => []TypeOK
<1>1. Init => TypeOK
  BY DEF Init, TypeOK
<1>2. TypeOK /\ [Next]_vars => TypeOK'
  <2> SUFFICES ASSUME TypeOK, [Next]_vars
               PROVE  TypeOK'
    OBVIOUS
  <2>1. ASSUME NEW key \in Keys, NEW mint \in Mints, NEW idx \in Indexes,
               ConfigureVotingMint(key, mint, idx)
        PROVE  TypeOK'
    BY <2>1 DEF ConfigureVotingMint, TypeOK
  <2>2. ASSUME NEW mint \in Mints, ChangeSupply(mint)
        PROVE  TypeOK'
    BY <2>2 DEF ChangeSupply, TypeOK
  <2>3. ASSUME NEW key \in Keys, CreateRegistrar(key)
        PROVE  TypeOK'
    BY <2>3 DEF CreateRegistrar, TypeOK
  <2>4. ASSUME NEW key \in Keys \cup {NoKey}, SetRealmAuthority(key)
        PROVE  TypeOK'
    BY <2>4 DEF SetRealmAuthority, TypeOK
  <2>5. CASE UNCHANGED vars
    BY <2>5 DEF vars, TypeOK
  <2> QED
    BY <2>1, <2>2, <2>3, <2>4, <2>5 DEF Next
<1> QED
  BY <1>1, <1>2, PTL DEF Spec

\* configure_voting_mint never gives a mint a second index.
THEOREM OneIndexPerMint == Spec => []MintHasOneIndex
<1>1. Init => MintHasOneIndex
  BY DEF Init, MintHasOneIndex
<1>2. TypeOK /\ MintHasOneIndex /\ [Next]_vars => MintHasOneIndex'
  <2> SUFFICES ASSUME TypeOK, MintHasOneIndex, [Next]_vars
               PROVE  MintHasOneIndex'
    OBVIOUS
  <2>1. ASSUME NEW key \in Keys, NEW mint \in Mints, NEW idx \in Indexes,
               ConfigureVotingMint(key, mint, idx)
        PROVE  MintHasOneIndex'
    <3>1. \A k \in Indexes : voting_mints'[k] = IF k = idx THEN mint
                                                           ELSE voting_mints[k]
      BY <2>1 DEF ConfigureVotingMint, TypeOK
    <3>2. \A k \in Indexes : voting_mints[k] = mint => k = idx
      BY <2>1, RegistrarAssumption DEF ConfigureVotingMint, IndexIsFree,
         Configured, IsIndexOf, MintHasOneIndex
    <3> QED
      BY <3>1, <3>2 DEF MintHasOneIndex
  <2>2. CASE voting_mints' = voting_mints
    BY <2>2 DEF MintHasOneIndex
  <2> QED
    BY <2>1, <2>2 DEF Next, CreateRegistrar, SetRealmAuthority, ChangeSupply, vars
<1> QED
  BY <1>1, <1>2, TypeCorrect, PTL DEF Spec

\* No configuration gives an index that a deposit entry may name to another
\* mint.
THEOREM IndexesKeepTheirMints == Spec => IndexKeepsItsMint
<1>1. ASSUME TypeOK, [Next]_vars
      PROVE  [\A i \in Indexes : voting_mints[i] # NoMint =>
                voting_mints'[i] = voting_mints[i]]_vars
  <2>1. ASSUME NEW key \in Keys, NEW mint \in Mints, NEW idx \in Indexes,
               ConfigureVotingMint(key, mint, idx), NEW i \in Indexes,
               voting_mints[i] # NoMint
        PROVE  voting_mints'[i] = voting_mints[i]
    <3>1. voting_mints[idx] \in {NoMint, mint}
      BY <2>1 DEF ConfigureVotingMint, IndexIsFree, IsIndexOf
    <3>2. voting_mints' = [voting_mints EXCEPT ![idx] = mint]
      BY <2>1 DEF ConfigureVotingMint
    <3> QED
      BY <1>1, <2>1, <3>1, <3>2 DEF TypeOK
  <2> QED
    BY <1>1, <2>1 DEF Next, CreateRegistrar, SetRealmAuthority, ChangeSupply, vars
<1> QED
  BY <1>1, TypeCorrect, PTL DEF Spec, IndexKeepsItsMint
=============================================================================
