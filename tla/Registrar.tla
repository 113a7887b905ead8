----------------------------- MODULE Registrar -----------------------------
(***************************************************************************)
(* The registrar and its table of voting mints:                            *)
(* program-states/src/state/registrar.rs, create_registrar and             *)
(* configure_voting_mint.  The deposit entries of every voter name a mint  *)
(* by its index in this table.                                             *)
(***************************************************************************)
EXTENDS Integers

CONSTANTS
  Keys,            \* those who may become the realm's authority
  NoKey,           \* None: a realm without authority, or no registrar yet
  Mints,           \* keys of token mints
  NoMint,          \* Pubkey::default(), an index not in use
  NumMints,        \* length of Registrar.voting_mints (2)
  U64Max,          \* largest u64
  MaxSupply        \* bound: largest supply a mint reaches

ASSUME RegistrarAssumption ==
  /\ NoMint \notin Mints /\ NoKey \notin Keys
  /\ NumMints \in Nat /\ U64Max \in Nat /\ MaxSupply \in Nat

VARIABLES
  authority,       \* Realm.authority, kept by the governance program
  realm_authority, \* Registrar.realm_authority, NoKey before create_registrar
  voting_mints,    \* the table
  supply           \* Mint.supply, kept by the token program

vars == <<authority, realm_authority, voting_mints, supply>>

Indexes == 0 .. NumMints - 1

TypeOK ==
  /\ authority \in Keys \cup {NoKey}
  /\ realm_authority \in Keys \cup {NoKey}
  /\ voting_mints \in [Indexes -> Mints \cup {NoMint}]
  /\ supply \in [Mints -> 0 .. MaxSupply]

Init ==
  /\ authority \in Keys \cup {NoKey}
  /\ realm_authority = NoKey
  /\ voting_mints = [i \in Indexes |-> NoMint]
  /\ supply \in [Mints -> 0 .. MaxSupply]

\* The signer must be the authority of the realm; a realm without one panics.
\* The init constraint lets this happen once.
CreateRegistrar(signer) ==
  /\ realm_authority = NoKey
  /\ signer = authority
  /\ realm_authority' = signer
  /\ UNCHANGED <<authority, voting_mints, supply>>

\* position: the first index that holds the mint.
IsIndexOf(mint, i) ==
  /\ voting_mints[i] = mint
  /\ \A j \in Indexes : j < i => voting_mints[j] # mint

Configured(mint) == \E i \in Indexes : voting_mints[i] = mint

\* max_vote_weight of a table: the loop adds the supply of each mint twice.
MaxVoteWeight(table) ==
  LET sum[n \in 0 .. NumMints] ==
        IF n = 0 THEN 0
        ELSE sum[n - 1] + (IF table[n - 1] = NoMint THEN 0
                           ELSE 2 * supply[table[n - 1]])
  IN  sum[NumMints]

\* Mutated form of IndexIsFree: the index may be taken.
IndexIsAny(mint, idx) ==
  IF Configured(mint) THEN IsIndexOf(mint, idx) ELSE TRUE

\* Mutated form of IndexIsFree: a configured mint gets another index.
IndexIsUnused(mint, idx) == voting_mints[idx] = NoMint

\* A known mint keeps its index, a new one takes an unused index.
IndexIsFree(mint, idx) ==
  IF Configured(mint) THEN IsIndexOf(mint, idx)
                      ELSE voting_mints[idx] = NoMint

\* Mutated form of ConfigureVotingMint: writes one past the index.
ConfigureNextIndex(signer, mint, idx) ==
  /\ IndexIsFree(mint, idx)
  /\ signer = realm_authority
  /\ voting_mints' = [i \in Indexes \cup {idx + 1} |->
                        IF i = idx + 1 THEN mint ELSE voting_mints[i]]
  /\ UNCHANGED <<authority, realm_authority, supply>>

\* has_one asks for the key the registrar was created with, whoever is the
\* authority of the realm by now.  The overflow of max_vote_weight undoes the
\* whole instruction.
ConfigureVotingMint(signer, mint, idx) ==
  /\ signer = realm_authority
  /\ IndexIsFree(mint, idx)
  /\ voting_mints' = [voting_mints EXCEPT ![idx] = mint]
  /\ MaxVoteWeight(voting_mints') <= U64Max
  /\ UNCHANGED <<authority, realm_authority, supply>>

\* The mint's authority issues or burns tokens at any time.
ChangeSupply(mint) ==
  /\ supply' \in {[supply EXCEPT ![mint] = n] : n \in 0 .. MaxSupply}
  /\ UNCHANGED <<authority, realm_authority, voting_mints>>

\* The realm gets another authority, or none.
SetRealmAuthority(key) ==
  /\ authority' = key
  /\ UNCHANGED <<realm_authority, voting_mints, supply>>

Next ==
  \/ \E key \in Keys :
       \/ CreateRegistrar(key)
       \/ \E mint \in Mints, idx \in Indexes :
            ConfigureVotingMint(key, mint, idx)
  \/ \E key \in Keys \cup {NoKey} : SetRealmAuthority(key)
  \/ \E mint \in Mints : ChangeSupply(mint)

Spec == Init /\ [][Next]_vars

\* A mint has at most one index: the first position that
\* voting_mint_config_index finds is the only one, so the index in a deposit
\* entry and the one looked up by withdraw agree.
MintHasOneIndex ==
  \A i, j \in Indexes :
    voting_mints[i] = voting_mints[j] /\ voting_mints[i] # NoMint => i = j

\* A configured index keeps its mint for ever, so an entry created for one
\* mint is never paid out in another.
IndexKeepsItsMint ==
  [][\A i \in Indexes :
       voting_mints[i] # NoMint => voting_mints'[i] = voting_mints[i]]_vars

\* lib.rs documents max_vote_weight as supply(A) + supply(B).
MaxVoteWeightIsTotalSupply ==
  LET total[n \in 0 .. NumMints] ==
        IF n = 0 THEN 0
        ELSE total[n - 1] + (IF voting_mints[n - 1] = NoMint THEN 0
                             ELSE supply[voting_mints[n - 1]])
  IN  MaxVoteWeight(voting_mints) = total[NumMints]
=============================================================================
