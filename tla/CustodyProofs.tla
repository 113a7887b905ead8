--------------------------- MODULE CustodyProofs ---------------------------
(***************************************************************************)
(* The books and the token accounts agree: theorem VaultsCoverEntries, for *)
(* any number of voters, mints and entries.                                *)
(***************************************************************************)
EXTENDS StakingProofs

\* What a voter owes in a mint, entry by entry.
Owing(entries, mint) == [i \in Slots |-> OwedFor(entries[i], mint)]

\* What a voter owes is a sum of natural numbers.
LEMMA OwingType ==
  ASSUME NEW entries \in [Slots -> EntryType], NEW mint
  PROVE  /\ Owing(entries, mint) \in [Slots -> Nat]
         /\ SumOver(Owing(entries, mint)) \in Nat
<1>1. \A i \in Slots : OwedFor(entries[i], mint) \in Nat
  BY ChangedOwed DEF OwedFor
<1> QED
  BY <1>1, SumType DEF Owing

\* A change of one entry changes what is owed by the difference.
LEMMA OwingChange ==
  ASSUME NEW old \in [Slots -> EntryType], NEW new \in [Slots -> EntryType],
         NEW j \in Slots, \A i \in Slots \ {j} : new[i] = old[i], NEW mint
  PROVE  SumOver(Owing(new, mint))
           = SumOver(Owing(old, mint)) + OwedFor(new[j], mint)
                                       - OwedFor(old[j], mint)
<1> DEFINE f == Owing(old, mint)
           g == Owing(new, mint)
<1>1. f \in [Slots -> Int] /\ g \in [Slots -> Int]
  BY OwingType
<1>2. /\ \A i \in Slots \ {j} : f[i] = g[i]
      /\ f[j] = OwedFor(old[j], mint) /\ g[j] = OwedFor(new[j], mint)
  BY DEF Owing
<1> HIDE DEF f, g
<1>3. SumOver(g) = SumOver(f) + g[j] - f[j]
  BY <1>1, <1>2, SumChange
<1> QED
  BY <1>2, <1>3 DEF f, g

-----------------------------------------------------------------------------
(* What a step does to what the program owes for one entry. *)

\* What is owed for the results of the changes, in the mint of the entry.
LEMMA OwedForChanged ==
  ASSUME NEW d \in EntryType, NEW amount \in Nat, NEW mint
  PROVE  /\ OwedFor(d, mint) \in Nat
         /\ OwedFor(EmptyEntry, mint) = 0
         /\ d.is_used /\ d.voting_mint_config_idx = mint
              => OwedFor(d, mint) = d.amount_deposited_native
                                      + d.slashing_penalty
         /\ d.is_used /\ d.voting_mint_config_idx = mint =>
              /\ OwedFor(Plus(d, amount), mint) = OwedFor(d, mint) + amount
              /\ OwedFor(Minus(d, amount), mint) = OwedFor(d, mint) - amount
              /\ OwedFor(Staked(d, amount, now), mint) = OwedFor(d, mint) + amount
              /\ \A period : OwedFor(Extended(d, period, amount, now), mint)
                               = OwedFor(d, mint) + amount
         /\ d.is_used /\ d.voting_mint_config_idx # mint =>
              /\ OwedFor(d, mint) = 0
              /\ OwedFor(Plus(d, amount), mint) = 0
              /\ OwedFor(Minus(d, amount), mint) = 0
              /\ OwedFor(Staked(d, amount, now), mint) = 0
              /\ \A period : OwedFor(Extended(d, period, amount, now), mint) = 0
         /\ OwedFor(CoolingDown(d, now), mint) = OwedFor(d, mint)
         /\ \A delegate : OwedFor(Delegated(d, delegate, now), mint)
                            = OwedFor(d, mint)
         /\ OwedFor(Slashed(d, amount), mint) = OwedFor(d, mint)
<1>1. d.amount_deposited_native \in Nat /\ d.slashing_penalty \in Nat
  BY DEF EntryType
<1>9. OwedFor(EmptyEntry, mint) = 0
  BY DEF OwedFor, EmptyEntry
<1>10. OwedFor(Plus(d, amount), mint) =
         IF d.is_used /\ d.voting_mint_config_idx = mint
         THEN d.amount_deposited_native + amount + d.slashing_penalty ELSE 0
  BY <1>1, ChangedFields, MoneyFields DEF OwedFor, Owed
<1>11. OwedFor(Minus(d, amount), mint) =
         IF d.is_used /\ d.voting_mint_config_idx = mint
         THEN d.amount_deposited_native - amount + d.slashing_penalty ELSE 0
  BY <1>1, ChangedFields, MoneyFields DEF OwedFor, Owed
<1>12. OwedFor(Staked(d, amount, now), mint) =
         IF d.is_used /\ d.voting_mint_config_idx = mint
         THEN d.amount_deposited_native + amount + d.slashing_penalty ELSE 0
  BY <1>1, ChangedFields, MoneyFields DEF OwedFor, Owed
<1>13. ASSUME NEW period
       PROVE  OwedFor(Extended(d, period, amount, now), mint) =
                IF d.is_used /\ d.voting_mint_config_idx = mint
                THEN d.amount_deposited_native + amount + d.slashing_penalty
                ELSE 0
  <2> DEFINE e == Extended(d, period, amount, now)
  <2>1. /\ e.is_used = d.is_used
        /\ e.voting_mint_config_idx = d.voting_mint_config_idx
        /\ e.amount_deposited_native = d.amount_deposited_native + amount
        /\ e.slashing_penalty = d.slashing_penalty
    BY ChangedFields, MoneyFields
  <2> HIDE DEF e
  <2> QED
    BY <1>1, <2>1 DEF OwedFor, Owed, e
<1>14. OwedFor(d, mint) =
         IF d.is_used /\ d.voting_mint_config_idx = mint
         THEN d.amount_deposited_native + d.slashing_penalty ELSE 0
  BY DEF OwedFor, Owed
<1>15. OwedFor(CoolingDown(d, now), mint) = OwedFor(d, mint)
  BY ChangedFields, MoneyFields DEF OwedFor, Owed
<1>16. \A delegate : OwedFor(Delegated(d, delegate, now), mint)
                       = OwedFor(d, mint)
  BY ChangedFields, MoneyFields DEF OwedFor, Owed
<1>17. OwedFor(Slashed(d, amount), mint) = OwedFor(d, mint)
  BY <1>1, ChangedFields, MoneyFields DEF OwedFor, Owed
<1> QED
  BY <1>1, <1>9, <1>10, <1>11, <1>12, <1>13, <1>14, <1>15, <1>16, <1>17

\* withdraw settles the amount it pays and the whole penalty.
LEMMA OwedForWithdrawn ==
  ASSUME NEW d \in EntryType, NEW amount \in Nat, NEW mint, d.is_used
  PROVE  OwedFor(Withdrawn(d, amount), mint)
           = IF d.voting_mint_config_idx = mint
             THEN OwedFor(d, mint) - amount - d.slashing_penalty ELSE 0
<1> DEFINE left == [d EXCEPT !.amount_deposited_native = @ - amount,
                             !.slashing_penalty = 0]
<1>1. d.amount_deposited_native \in Nat /\ d.slashing_penalty \in Nat
  BY DEF EntryType
<1>2. /\ left.amount_deposited_native = d.amount_deposited_native - amount
      /\ left.slashing_penalty = 0 /\ left.is_used = d.is_used
      /\ left.voting_mint_config_idx = d.voting_mint_config_idx
  BY Zenon DEF EntryType
<1>3. Withdrawn(d, amount) = IF Exhausted(left) THEN EmptyEntry ELSE left
  BY Zenon DEF Withdrawn
<1> HIDE DEF left
<1>4. OwedFor(left, mint) = IF d.voting_mint_config_idx = mint
                            THEN d.amount_deposited_native - amount ELSE 0
  BY <1>1, <1>2 DEF OwedFor, Owed
<1>5. Exhausted(left) => d.amount_deposited_native - amount = 0
  BY <1>2 DEF Exhausted
<1>6. OwedFor(EmptyEntry, mint) = 0
  BY DEF OwedFor, EmptyEntry
<1>7. OwedFor(Withdrawn(d, amount), mint)
        = IF d.voting_mint_config_idx = mint
          THEN d.amount_deposited_native - amount ELSE 0
  BY <1>3, <1>4, <1>5, <1>6
<1> QED
  BY <1>1, <1>7 DEF OwedFor, Owed

\* The sums after a handler that writes a single entry.
LEMMA UpdateOwed ==
  ASSUME TypeOK, deposits' \in [Voters -> [Slots -> EntryType]],
         NEW v \in Voters, NEW i \in Slots, NEW e, UpdateEntry(v, i, e),
         NEW w \in Voters, NEW m
  PROVE  SumOver(Owing(deposits'[w], m))
           = IF w = v THEN SumOver(Owing(deposits[w], m))
                             + OwedFor(e, m) - OwedFor(deposits[v][i], m)
                      ELSE SumOver(Owing(deposits[w], m))
<1>1. /\ deposits \in [Voters -> [Slots -> EntryType]]
      /\ deposits' = [deposits EXCEPT ![v][i] = e]
  BY DEF TypeOK, UpdateEntry
<1>2. CASE w = v
  <2>1. /\ deposits[v] \in [Slots -> EntryType]
        /\ deposits'[v] \in [Slots -> EntryType]
        /\ deposits'[v][i] = e
        /\ \A k \in Slots \ {i} : deposits'[v][k] = deposits[v][k]
    BY <1>1
  <2> QED
    BY <1>2, <2>1, OwingChange
<1>3. CASE w # v
  <2>1. deposits'[w] = deposits[w]
    BY <1>1, <1>3
  <2> QED
    BY <1>3, <2>1
<1> QED
  BY <1>2, <1>3

\* stake and extend_stake: the target, an entry of the same mint as the source,
\* becomes e and gets what the source gives.
Gives(v, source, target, amount, e) ==
  /\ SourceGives(v, source, amount)
  /\ SameMint(v, source, target)
  /\ deposits' = [deposits EXCEPT
                    ![v] = [Given(v, source, amount) EXCEPT ![target] = e]]
  /\ \A m : OwedFor(e, m) = OwedFor(Given(v, source, amount)[target], m)
                + (IF deposits[v][target].voting_mint_config_idx = m
                   THEN amount ELSE 0)

\* The sums after stake or extend_stake are those before.
LEMMA GivingOwed ==
  ASSUME TypeOK, deposits' \in [Voters -> [Slots -> EntryType]],
         NEW v \in Voters, NEW source \in Slots, NEW target \in Slots,
         NEW amount \in Nat, NEW e, Gives(v, source, target, amount, e),
         NEW m, NEW w \in Voters
  PROVE  SumOver(Owing(deposits'[w], m)) = SumOver(Owing(deposits[w], m))
<1>0. /\ SourceGives(v, source, amount)
      /\ SameMint(v, source, target)
      /\ deposits' = [deposits EXCEPT
                        ![v] = [Given(v, source, amount) EXCEPT ![target] = e]]
      /\ OwedFor(e, m) = OwedFor(Given(v, source, amount)[target], m)
           + (IF deposits[v][target].voting_mint_config_idx = m
              THEN amount ELSE 0)
  BY DEF Gives
<1> DEFINE given == Given(v, source, amount)
           idx == deposits[v][source].voting_mint_config_idx
           share == IF idx = m THEN amount ELSE 0
<1>1. /\ deposits \in [Voters -> [Slots -> EntryType]]
      /\ deposits[v] \in [Slots -> EntryType]
      /\ deposits[v][source] \in EntryType
      /\ deposits[v][source].is_used
  BY <1>0 DEF TypeOK, SourceGives, Active
<1>2. CASE w = v
  <2>1. Minus(deposits[v][source], amount) \in EntryType
    <3>1. deposits[v][source].amount_deposited_native - amount \in Nat
      BY <1>0, <1>1 DEF SourceGives, AmountUnlocked, IsStaked, EntryType
    <3> QED
      BY <1>1, <3>1, Zenon DEF Minus, EntryType
  <2>2. /\ given \in [Slots -> EntryType]
        /\ given[source] = Minus(deposits[v][source], amount)
        /\ \A k \in Slots \ {source} : given[k] = deposits[v][k]
    BY <1>1, <2>1 DEF Given
  <2>3. /\ deposits'[v] \in [Slots -> EntryType]
        /\ deposits'[v][target] = e
        /\ \A k \in Slots \ {target} : deposits'[v][k] = given[k]
    BY <1>0, <1>1, <2>2
  <2>4. OwedFor(e, m) = OwedFor(given[target], m) + share
    BY <1>0 DEF SameMint
  <2> HIDE DEF given
  <2>5. SumOver(Owing(given, m))
          = SumOver(Owing(deposits[v], m)) + OwedFor(given[source], m)
              - OwedFor(deposits[v][source], m)
    <3> DEFINE before == deposits[v]
    <3>1. /\ before \in [Slots -> EntryType] /\ given \in [Slots -> EntryType]
          /\ \A k \in Slots \ {source} : given[k] = before[k]
      BY <1>1, <2>2
    <3> HIDE DEF before
    <3>2. SumOver(Owing(given, m))
            = SumOver(Owing(before, m)) + OwedFor(given[source], m)
                - OwedFor(before[source], m)
      BY <3>1, OwingChange, ZenonT(30)
    <3> QED
      BY <3>2 DEF before
  <2>6. SumOver(Owing(deposits'[v], m))
          = SumOver(Owing(given, m)) + OwedFor(e, m) - OwedFor(given[target], m)
    <3> DEFINE after == deposits'[v]
    <3>1. /\ after \in [Slots -> EntryType] /\ after[target] = e
          /\ \A k \in Slots \ {target} : after[k] = given[k]
      BY <2>3
    <3> HIDE DEF after
    <3>2. SumOver(Owing(after, m))
            = SumOver(Owing(given, m)) + OwedFor(after[target], m)
                - OwedFor(given[target], m)
      BY <2>2, <3>1, OwingChange, ZenonT(30)
    <3> QED
      BY <3>1, <3>2 DEF after
  <2>7. OwedFor(given[source], m) = OwedFor(deposits[v][source], m) - share
    BY <1>1, <2>2, OwedForChanged
  <2>8. /\ SumOver(Owing(deposits[v], m)) \in Nat /\ share \in Nat
        /\ OwedFor(deposits[v][source], m) \in Nat
        /\ OwedFor(given[target], m) \in Nat
    BY <1>1, <2>2, OwingType, OwedForChanged
  <2> HIDE DEF share
  <2> QED
    BY <1>2, <2>4, <2>5, <2>6, <2>7, <2>8
<1>3. CASE w # v
  <2>1. deposits'[w] = deposits[w]
    BY <1>0, <1>1, <1>3
  <2> QED
    BY <2>1
<1> QED
  BY <1>2, <1>3

-----------------------------------------------------------------------------
(* The invariant. *)

\* What VaultCoversEntries needs to be inductive: a voter that is created
\* finds no entries left by anybody.
CustodyInv ==
  /\ TypeOK
  /\ VaultCoversEntries
  /\ \A v \in Voters : status[v] = "absent" => deposits[v] = NoDeposits

\* No entries, nothing owed.
LEMMA NothingOwed ==
  ASSUME NEW m
  PROVE  SumOver(Owing(NoDeposits, m)) <= 0
<1> DEFINE f == Owing(NoDeposits, m)
<1>1. f \in [Slots -> Int] /\ \A i \in Slots : f[i] = 0
  BY DEF Owing, NoDeposits, OwedFor, EmptyEntry
<1> HIDE DEF f
<1>2. SumOver(f) = 0
  BY <1>1, SumZeros
<1> QED
  BY <1>2 DEF f

\* It is enough that no step lowers what a vault holds beyond what is owed.
LEMMA StillCovered ==
  ASSUME CustodyInv, TypeOK', status' = status,
         \A w \in Voters, m \in MintIdx : Open(w) =>
            SumOver(Owing(deposits'[w], m)) - vault'[w][m]
              <= SumOver(Owing(deposits[w], m)) - vault[w][m],
         \A w \in Voters : status[w] = "absent" => deposits'[w] = deposits[w]
  PROVE  CustodyInv'
<1> SUFFICES ASSUME NEW w \in Voters, NEW m \in MintIdx, Open(w)
             PROVE  SumOver(Owing(deposits'[w], m)) <= vault'[w][m]
  BY DEF CustodyInv, VaultCoversEntries, OwedIn, Owing, Open
<1>1. SumOver(Owing(deposits[w], m)) <= vault[w][m]
  BY DEF CustodyInv, VaultCoversEntries, OwedIn, Owing
<1>2. /\ deposits[w] \in [Slots -> EntryType] /\ vault[w][m] \in Int
      /\ deposits'[w] \in [Slots -> EntryType] /\ vault'[w][m] \in Int
  BY DEF CustodyInv, TypeOK
<1>3. /\ SumOver(Owing(deposits[w], m)) \in Nat
      /\ SumOver(Owing(deposits'[w], m)) \in Nat
  BY <1>2, OwingType
<1> QED
  BY <1>1, <1>2, <1>3

\* A handler that writes one entry of an open voter and no vault, and leaves no
\* more owed for the entry than before.
LEMMA UpdateCovered ==
  ASSUME CustodyInv, TypeOK', status' = status, vault' = vault,
         NEW v \in Voters, NEW i \in Slots, NEW e, Open(v),
         UpdateEntry(v, i, e),
         \A m \in MintIdx : OwedFor(e, m) <= OwedFor(deposits[v][i], m)
  PROVE  CustodyInv'
<1>1. /\ TypeOK /\ deposits' \in [Voters -> [Slots -> EntryType]]
      /\ deposits \in [Voters -> [Slots -> EntryType]]
      /\ e \in EntryType
  <2>1. deposits'[v][i] = e
    BY DEF CustodyInv, TypeOK, UpdateEntry
  <2> QED
    BY <2>1 DEF CustodyInv, TypeOK
<1>2. ASSUME NEW w \in Voters, NEW m \in MintIdx
      PROVE  SumOver(Owing(deposits'[w], m)) - vault'[w][m]
               <= SumOver(Owing(deposits[w], m)) - vault[w][m]
  <2>1. SumOver(Owing(deposits'[w], m))
           = IF w = v THEN SumOver(Owing(deposits[w], m))
                             + OwedFor(e, m) - OwedFor(deposits[v][i], m)
                      ELSE SumOver(Owing(deposits[w], m))
    BY <1>1, UpdateOwed
  <2>2. /\ SumOver(Owing(deposits[w], m)) \in Nat /\ vault[w][m] \in Nat
        /\ OwedFor(e, m) \in Nat /\ OwedFor(deposits[v][i], m) \in Nat
    <3>1. /\ deposits[w] \in [Slots -> EntryType]
          /\ deposits[v][i] \in EntryType
      BY <1>1
    <3>2. vault[w][m] \in Nat
      BY <1>1 DEF TypeOK
    <3> QED
      BY <1>1, <3>1, <3>2, OwingType, ChangedOwed DEF OwedFor
  <2> QED
    BY <2>1, <2>2
<1>3. \A w \in Voters : status[w] = "absent" => deposits'[w] = deposits[w]
  BY <1>1 DEF UpdateEntry, Open
<1> QED
  BY <1>2, <1>3, StillCovered

\* deposit and withdraw move tokens between the wallet and one vault, and the
\* books of one entry with them.
Books(v, i, e, mint, change) ==
  /\ Open(v)
  /\ UpdateEntry(v, i, e)
  /\ vault' = [vault EXCEPT ![v][mint] = vault[v][mint] + change]
  /\ \A m : OwedFor(e, m) = OwedFor(deposits[v][i], m)
                              + (IF m = mint THEN change ELSE 0)

\* An instruction that moves the books of one entry, and the vault of its mint
\* by the same amount, keeps the vaults covered.
LEMMA MoveCovered ==
  ASSUME CustodyInv, TypeOK', status' = status,
         NEW v \in Voters, NEW i \in Slots, NEW e, NEW mint \in MintIdx,
         NEW change \in Int, Books(v, i, e, mint, change)
  PROVE  CustodyInv'
<1>0. /\ Open(v) /\ UpdateEntry(v, i, e)
      /\ vault' = [vault EXCEPT ![v][mint] = vault[v][mint] + change]
      /\ \A m : OwedFor(e, m) = OwedFor(deposits[v][i], m)
                                  + (IF m = mint THEN change ELSE 0)
  BY DEF Books
<1>1. /\ TypeOK /\ deposits' \in [Voters -> [Slots -> EntryType]]
      /\ deposits \in [Voters -> [Slots -> EntryType]]
      /\ vault \in [Voters -> [MintIdx -> Nat]]
  BY DEF CustodyInv, TypeOK
<1>2. ASSUME NEW w \in Voters, NEW m \in MintIdx
      PROVE  SumOver(Owing(deposits'[w], m)) - vault'[w][m]
               <= SumOver(Owing(deposits[w], m)) - vault[w][m]
  <2> DEFINE share == IF w = v /\ m = mint THEN change ELSE 0
             before == SumOver(Owing(deposits[w], m))
  <2>1. SumOver(Owing(deposits'[w], m))
           = IF w = v THEN before + OwedFor(e, m) - OwedFor(deposits[v][i], m)
                      ELSE before
    BY <1>0, <1>1, UpdateOwed
  <2>2. before \in Nat /\ OwedFor(deposits[v][i], m) \in Nat
    <3>1. deposits[w] \in [Slots -> EntryType] /\ deposits[v][i] \in EntryType
      BY <1>1
    <3> QED
      BY <3>1, OwingType, ChangedOwed DEF OwedFor
  <2>3. share \in Int /\ vault[w][m] \in Nat
    BY <1>1
  <2>4. vault'[w][m] = vault[w][m] + share
    BY <1>0, <1>1
  <2>5. w = v => OwedFor(e, m) = OwedFor(deposits[v][i], m) + share
    BY <1>0
  <2>6. w # v => share = 0
    OBVIOUS
  <2> HIDE DEF share
  <2> QED
    BY <2>1, <2>2, <2>3, <2>4, <2>5, <2>6
<1>3. \A w \in Voters : status[w] = "absent" => deposits'[w] = deposits[w]
  BY <1>0, <1>1 DEF UpdateEntry, Open
<1> QED
  BY <1>2, <1>3, StillCovered

\* The handlers that give from one entry to another.
LEMMA GivingCovered ==
  ASSUME CustodyInv, TypeOK', status' = status, vault' = vault,
         NEW v \in Voters, NEW source \in Slots, NEW target \in Slots,
         NEW amount \in Nat, NEW e, Gives(v, source, target, amount, e)
  PROVE  CustodyInv'
<1>1. /\ TypeOK /\ deposits' \in [Voters -> [Slots -> EntryType]]
      /\ deposits \in [Voters -> [Slots -> EntryType]]
      /\ vault \in [Voters -> [MintIdx -> Nat]]
  BY DEF CustodyInv, TypeOK
<1>2. ASSUME NEW w \in Voters, NEW m \in MintIdx
      PROVE  SumOver(Owing(deposits'[w], m)) - vault'[w][m]
               <= SumOver(Owing(deposits[w], m)) - vault[w][m]
  <2>1. SumOver(Owing(deposits'[w], m)) = SumOver(Owing(deposits[w], m))
    BY <1>1, GivingOwed
  <2>2. deposits[w] \in [Slots -> EntryType] /\ vault[w][m] \in Nat
    BY <1>1
  <2> QED
    BY <2>1, <2>2, OwingType
<1>3. \A w \in Voters : status[w] = "absent" => deposits'[w] = deposits[w]
  BY <1>1 DEF Gives, SourceGives, Active, Open
<1> QED
  BY <1>2, <1>3, StillCovered

\* The target of a giving handler is an entry in use, after the source gave.
LEMMA TargetOwed ==
  ASSUME TypeOK, NEW v \in Voters, NEW source \in Slots, NEW target \in Slots,
         NEW amount \in Nat,
         SourceGives(v, source, amount), SameMint(v, source, target)
  PROVE  /\ Given(v, source, amount)[target] \in EntryType
         /\ Given(v, source, amount)[target].is_used
         /\ Given(v, source, amount)[target].voting_mint_config_idx
              = deposits[v][target].voting_mint_config_idx
<1> DEFINE old == deposits[v][target]
<1>1. old \in EntryType /\ old.is_used
  BY DEF TypeOK, SameMint, Active
<1>2. CASE target = source
  <2>1. old.amount_deposited_native - amount \in Nat
    BY <1>1, <1>2 DEF SourceGives, AmountUnlocked, IsStaked, EntryType
  <2>2. Minus(old, amount) \in EntryType
    BY <1>1, <2>1, Zenon DEF Minus, EntryType
  <2>3. /\ Minus(old, amount).is_used = old.is_used
        /\ Minus(old, amount).voting_mint_config_idx = old.voting_mint_config_idx
    BY <1>1, Zenon DEF Minus, EntryType
  <2> QED
    BY <1>1, <1>2, <2>2, <2>3, GivenTarget
<1>3. CASE target # source
  BY <1>1, <1>3, GivenTarget
<1> QED
  BY <1>2, <1>3

\* Nothing is owed at the start.
LEMMA InitCustody == Init => CustodyInv
<1> SUFFICES ASSUME Init
             PROVE  CustodyInv
  OBVIOUS
<1>1. TypeOK
  BY InitType
<1>2. \A v \in Voters : ~Open(v) /\ deposits[v] = NoDeposits
  BY DEF Init, Open
<1> QED
  BY <1>1, <1>2 DEF CustodyInv, VaultCoversEntries

\* A step that leaves entries and vaults alone, and opens nothing, keeps it.
LEMMA BooksUntouched ==
  ASSUME CustodyInv, TypeOK', UNCHANGED <<status, deposits, vault>>
  PROVE  CustodyInv'
BY DEF CustodyInv, VaultCoversEntries, OwedIn, Open

\* Every step keeps the invariant.
LEMMA NextCustody ==
  ASSUME CustodyInv, [Next]_vars
  PROVE  CustodyInv'
<1>1. /\ TypeOK /\ TypeOK'
      /\ deposits \in [Voters -> [Slots -> EntryType]]
      /\ deposits' \in [Voters -> [Slots -> EntryType]]
      /\ vault \in [Voters -> [MintIdx -> Nat]]
  BY NextType DEF CustodyInv, TypeOK
<1>2. ASSUME NEW v \in Voters, UserStep(v)
      PROVE  CustodyInv'
  <2>1. CASE CreateVoter(v)
    <3> SUFFICES ASSUME NEW w \in Voters, NEW m \in MintIdx, status'[w] = "open"
                 PROVE  SumOver(Owing(deposits[w], m)) <= vault[w][m]
      BY <1>1, <2>1 DEF CreateVoter, CustodyInv, VaultCoversEntries, OwedIn, Owing,
         Open, tokens, TypeOK
    <3>1. CASE w = v
      <4>1. deposits[w] = NoDeposits
        BY <2>1, <3>1 DEF CreateVoter, CustodyInv
      <4>2. SumOver(Owing(NoDeposits, m)) <= 0 /\ vault[w][m] \in Nat
        BY <1>1, NothingOwed
      <4>3. SumOver(Owing(deposits[w], m)) \in Nat
        <5>1. deposits[w] \in [Slots -> EntryType]
          BY <1>1
        <5> QED
          BY <5>1, OwingType
      <4> QED
        BY <4>1, <4>2, <4>3
    <3>2. CASE w # v
      BY <2>1, <3>2 DEF CreateVoter, CustodyInv, VaultCoversEntries, OwedIn,
         Owing, Open, TypeOK
    <3> QED
      BY <3>1, <3>2
  <2>2. ASSUME NEW i \in Slots, NEW m \in MintIdx, NEW d \in Voters,
               NEW k \in LockupKind, NEW p \in CallerPeriods,
               CreateDepositEntry(v, i, d, k, p, m)
        PROVE  CustodyInv'
    <3> DEFINE e == NewEntry(d, m, NewLockup(k, now, p))
    <3>1. \A n \in MintIdx : OwedFor(e, n) = 0 /\ OwedFor(deposits[v][i], n) = 0
      BY <2>2 DEF CreateDepositEntry, NewEntry, OwedFor, Owed
    <3>2. /\ UpdateEntry(v, i, e) /\ Open(v) /\ status' = status
          /\ vault' = vault
      BY <2>2 DEF CreateDepositEntry, tokens
    <3> HIDE DEF e
    <3>3. \A n \in MintIdx : OwedFor(e, n) <= OwedFor(deposits[v][i], n)
      BY <3>1
    <3> QED
      BY <1>1, <3>2, <3>3, UpdateCovered
  <2>3. ASSUME NEW i \in Slots, NEW m \in MintIdx, NEW a \in Amounts,
               Deposit(v, i, m, a)
        PROVE  CustodyInv'
    <3> DEFINE d == deposits[v][i]
               e == Plus(deposits[v][i], a)
    <3>1. /\ a \in Nat /\ d \in EntryType /\ d.is_used
          /\ d.voting_mint_config_idx = m
      BY <1>1, <2>3, StakingAssumption DEF Amounts, Deposit, Active
    <3>2. \A n : OwedFor(e, n) = OwedFor(d, n) + (IF n = m THEN a ELSE 0)
      BY <3>1, OwedForChanged
    <3>3. /\ UpdateEntry(v, i, e) /\ Open(v) /\ status' = status
          /\ vault' = [vault EXCEPT ![v][m] = vault[v][m] + a]
      BY <1>1, <2>3 DEF Deposit, Active
    <3> HIDE DEF e
    <3>4. Books(v, i, e, m, a)
      BY <3>2, <3>3 DEF Books
    <3> QED
      BY <1>1, <3>1, <3>3, <3>4, MoveCovered
  <2>4. ASSUME NEW i \in Slots, NEW j \in Slots, NEW a \in Amounts,
               Stake(v, i, j, a)
        PROVE  CustodyInv'
    <3> DEFINE d == Given(v, i, a)[j]
               e == Staked(Given(v, i, a)[j], a, now)
    <3>1. /\ a \in Nat /\ SourceGives(v, i, a) /\ SameMint(v, i, j)
          /\ status' = status /\ vault' = vault
          /\ deposits' = [deposits EXCEPT
                            ![v] = [Given(v, i, a) EXCEPT ![j] = e]]
      BY <2>4, StakingAssumption DEF Amounts, Stake, tokens
    <3>2. /\ d \in EntryType /\ d.is_used
          /\ d.voting_mint_config_idx = deposits[v][j].voting_mint_config_idx
      BY <1>1, <3>1, TargetOwed
    <3> HIDE DEF d
    <3>3. \A m : OwedFor(Staked(d, a, now), m)
                  = OwedFor(d, m) + (IF d.voting_mint_config_idx = m
                                     THEN a ELSE 0)
      BY <3>1, <3>2, OwedForChanged
    <3>4. Gives(v, i, j, a, e)
      BY <3>1, <3>2, <3>3 DEF Gives, d
    <3> QED
      BY <1>1, <3>1, <3>4, GivingCovered
  <2>5. ASSUME NEW i \in Slots, UnlockTokens(v, i)
        PROVE  CustodyInv'
    <3> DEFINE d == deposits[v][i]
    <3>1. d \in EntryType /\ d.amount_deposited_native \in Nat
      BY <1>1 DEF EntryType
    <3>2. \A m \in MintIdx : /\ OwedFor(CoolingDown(d, now), m) = OwedFor(d, m)
                             /\ OwedFor(d, m) \in Nat
      BY <3>1, OwedForChanged
    <3>3. \A m \in MintIdx : OwedFor(CoolingDown(d, now), m) <= OwedFor(d, m)
      BY <3>2
    <3> QED
      BY <1>1, <2>5, <3>3, UpdateCovered DEF UnlockTokens, Active, tokens
  <2>6. ASSUME NEW i \in Slots, NEW j \in Slots, NEW p \in CallerPeriods,
               NEW a \in Amounts, ExtendStake(v, i, j, p, a)
        PROVE  CustodyInv'
    <3> DEFINE d == Given(v, i, a)[j]
               e == Extended(Given(v, i, a)[j], p, a, now)
    <3>1. /\ a \in Nat /\ SourceGives(v, i, a) /\ SameMint(v, i, j)
          /\ status' = status /\ vault' = vault
          /\ deposits' = [deposits EXCEPT
                            ![v] = [Given(v, i, a) EXCEPT ![j] = e]]
      BY <2>6, StakingAssumption DEF Amounts, ExtendStake, tokens
    <3>2. /\ d \in EntryType /\ d.is_used
          /\ d.voting_mint_config_idx = deposits[v][j].voting_mint_config_idx
      BY <1>1, <3>1, TargetOwed
    <3> HIDE DEF d
    <3>3. \A m : OwedFor(Extended(d, p, a, now), m)
                  = OwedFor(d, m) + (IF d.voting_mint_config_idx = m
                                     THEN a ELSE 0)
      BY <3>1, <3>2, OwedForChanged
    <3>4. Gives(v, i, j, a, e)
      BY <3>1, <3>2, <3>3 DEF Gives, d
    <3> QED
      BY <1>1, <3>1, <3>4, GivingCovered
  <2>7. ASSUME NEW i \in Slots, NEW k \in Voters, ChangeDelegate(v, i, k)
        PROVE  CustodyInv'
    <3> DEFINE d == deposits[v][i]
    <3>1. d \in EntryType /\ d.amount_deposited_native \in Nat
      BY <1>1 DEF EntryType
    <3>2. \A m \in MintIdx : /\ OwedFor(Delegated(d, k, now), m) = OwedFor(d, m)
                             /\ OwedFor(d, m) \in Nat
      BY <3>1, OwedForChanged
    <3>3. \A m \in MintIdx : OwedFor(Delegated(d, k, now), m) <= OwedFor(d, m)
      BY <3>2
    <3> QED
      BY <1>1, <2>7, <3>3, UpdateCovered DEF ChangeDelegate, Active, tokens
  <2>8. ASSUME NEW i \in Slots, NEW m \in MintIdx, NEW a \in Amounts,
               Withdraw(v, i, m, a)
        PROVE  CustodyInv'
    <3> DEFINE d == deposits[v][i]
               e == Withdrawn(deposits[v][i], a)
               change == -(a + d.slashing_penalty)
    <3>1. /\ a \in Nat /\ d \in EntryType /\ d.is_used
          /\ d.voting_mint_config_idx = m /\ d.slashing_penalty \in Nat
      BY <1>1, <2>8, StakingAssumption DEF Amounts, Withdraw, Active, EntryType
    <3>2. \A n : OwedFor(e, n) = OwedFor(d, n) + (IF n = m THEN change ELSE 0)
      <4> SUFFICES ASSUME NEW n
                   PROVE  OwedFor(e, n) = OwedFor(d, n)
                                           + (IF n = m THEN change ELSE 0)
        OBVIOUS
      <4>1. OwedFor(e, n) = IF m = n THEN OwedFor(d, n) - a - d.slashing_penalty
                                     ELSE 0
        BY <3>1, OwedForWithdrawn
      <4>2. OwedFor(d, n) \in Nat /\ (m # n => OwedFor(d, n) = 0)
        BY <3>1, OwedForChanged
      <4> HIDE DEF e
      <4> QED
        BY <3>1, <4>1, <4>2
    <3>3. /\ UpdateEntry(v, i, e) /\ Open(v) /\ status' = status
          /\ vault' = [vault EXCEPT ![v][m] = vault[v][m] - a - d.slashing_penalty]
      BY <1>1, <2>8 DEF Withdraw, Active
    <3>4. /\ change \in Int
          /\ vault[v][m] - a - d.slashing_penalty = vault[v][m] + change
      BY <1>1, <3>1
    <3> HIDE DEF e, change
    <3>5. Books(v, i, e, m, change)
      BY <3>2, <3>3, <3>4 DEF Books
    <3> QED
      BY <1>1, <3>3, <3>4, <3>5, MoveCovered
  <2>9. ASSUME NEW i \in Slots, CloseDepositEntry(v, i)
        PROVE  CustodyInv'
    <3> DEFINE d == deposits[v][i]
    <3>1. d \in EntryType
      BY <1>1
    <3>2. \A m \in MintIdx : OwedFor(EmptyEntry, m) = 0 /\ OwedFor(d, m) \in Nat
      BY <3>1, OwedForChanged
    <3>3. \A m \in MintIdx : OwedFor(EmptyEntry, m) <= OwedFor(d, m)
      BY <3>2
    <3> QED
      BY <1>1, <2>9, <3>3, UpdateCovered DEF CloseDepositEntry, Active, tokens
  <2>10. CASE CloseVoter(v)
    <3> SUFFICES ASSUME NEW w \in Voters
                 PROVE  /\ status'[w] = "absent" => deposits'[w] = NoDeposits
                        /\ \A m \in MintIdx : status'[w] = "open" =>
                             SumOver(Owing(deposits'[w], m)) <= vault'[w][m]
      BY <1>1 DEF CustodyInv, VaultCoversEntries, OwedIn, Owing, Open
    <3>1. CASE w = v
      BY <1>1, <2>10, <3>1 DEF CloseVoter, TypeOK
    <3>2. CASE w # v
      BY <1>1, <2>10, <3>2 DEF CloseVoter, CustodyInv, VaultCoversEntries,
         OwedIn, Owing, Open, tokens, TypeOK
    <3> QED
      BY <3>1, <3>2
  <2>11. CASE Claim(v) \/ UpdateVoterWeightRecord(v)
    BY <1>1, <2>11, BooksUntouched DEF Claim, UpdateVoterWeightRecord, tokens
  <2> QED
    BY <1>2, <2>1, <2>2, <2>3, <2>4, <2>5, <2>6, <2>7, <2>8, <2>9, <2>10, <2>11
       DEF UserStep
<1>3. ASSUME NEW v \in Voters, AuthorityStep(v)
      PROVE  CustodyInv'
  <2>1. ASSUME NEW i \in Slots, NEW a \in Amounts, Slash(v, i, a)
        PROVE  CustodyInv'
    <3> DEFINE d == deposits[v][i]
    <3>1. d \in EntryType /\ a \in Nat
      BY <1>1, StakingAssumption DEF Amounts
    <3>2. \A m \in MintIdx : /\ OwedFor(Slashed(d, a), m) = OwedFor(d, m)
                             /\ OwedFor(d, m) \in Nat
      BY <3>1, OwedForChanged
    <3>3. \A m \in MintIdx : OwedFor(Slashed(d, a), m) <= OwedFor(d, m)
      BY <3>2
    <3> QED
      BY <1>1, <2>1, <3>3, UpdateCovered DEF Slash, Active, tokens
  <2>2. CASE UNCHANGED <<status, deposits, vault>>
    BY <1>1, <2>2, BooksUntouched
  <2> QED
    BY <1>3, <2>1, <2>2 DEF AuthorityStep, RestrictTokenflow, AllowTokenflow,
       RestrictBatchMinting, DecreaseRewards, tokens
<1>4. ASSUME NEW v \in Voters, GovernanceStep(v) \/ Distribute(v)
      PROVE  CustodyInv'
  BY <1>1, <1>4, BooksUntouched
     DEF GovernanceStep, CastVote, RelinquishVote, CreateProposal,
         FinalizeProposal, Distribute, tokens
<1>5. CASE NextSlot \/ UNCHANGED vars
  BY <1>1, <1>5, BooksUntouched DEF NextSlot, vars, tokens
<1> QED
  BY <1>2, <1>3, <1>4, <1>5 DEF Next

\* Whatever users, the authority and the clock do, the token account of every
\* open voter holds at least what its entries can be paid and fined.
THEOREM VaultsCoverEntries == Spec => []VaultCoversEntries
<1>1. CustodyInv => VaultCoversEntries
  BY DEF CustodyInv
<1> QED
  BY InitCustody, NextCustody, <1>1, PTL DEF Spec
=============================================================================
