---------------------------- MODULE VotingProofs ----------------------------
(***************************************************************************)
(* Votes are backed by tokens: theorems RecordsAreCovered and              *)
(* VotesAreBacked, for any number of voters, mints and entries.            *)
(***************************************************************************)
EXTENDS CustodyProofs

-----------------------------------------------------------------------------
(* Two sums over the entries of a voter, which change alike: what votes    *)
(* (fines = 0) and, with the fines, what is owed (fines = 1).              *)

Part(d, fines) ==
  IF d.is_used
  THEN d.amount_deposited_native + (IF fines = 1 THEN d.slashing_penalty ELSE 0)
  ELSE 0

Parts(entries, fines) == [i \in Slots |-> Part(entries[i], fines)]
Total(entries, fines) == SumOver(Parts(entries, fines))

\* All tokens in the vaults of a voter.
Holdings(v) == [i \in Slots |-> IF i \in MintIdx THEN vault[v][i] ELSE 0]
Custody(v) == SumOver(Holdings(v))

\* The weight of the record is the sum without the fines.
LEMMA WeightIsTotal ==
  ASSUME NEW entries \in [Slots -> EntryType]
  PROVE  Weight(entries) = Total(entries, 0)
<1>1. \A i \in Slots : Part(entries[i], 0)
        = IF entries[i].is_used THEN VotingPower(entries[i]) ELSE 0
  BY DEF VotingPower, Part, EntryType
<1>2. Parts(entries, 0)
        = [i \in Slots |-> IF entries[i].is_used
                            THEN VotingPower(entries[i]) ELSE 0]
  BY <1>1 DEF Parts
<1> QED
  BY <1>2 DEF Weight, Total

\* The sums are naturals, and the fines only add to them.
LEMMA TotalType ==
  ASSUME NEW entries \in [Slots -> EntryType], NEW fines \in {0, 1}
  PROVE  /\ \A i \in Slots : Part(entries[i], fines) \in Nat
         /\ Parts(entries, fines) \in [Slots -> Nat]
         /\ Total(entries, fines) \in Nat
<1>1. \A i \in Slots : Part(entries[i], fines) \in Nat
  BY DEF Part, EntryType
<1>2. Parts(entries, fines) \in [Slots -> Nat]
  BY <1>1 DEF Parts
<1> QED
  BY <1>1, <1>2, SumType DEF Total

\* A change of one entry changes the sum by the difference.
LEMMA TotalChange ==
  ASSUME NEW old \in [Slots -> EntryType], NEW new \in [Slots -> EntryType],
         NEW j \in Slots, \A i \in Slots \ {j} : new[i] = old[i],
         NEW fines \in {0, 1}
  PROVE  Total(new, fines)
           = Total(old, fines) + Part(new[j], fines) - Part(old[j], fines)
<1> DEFINE f == Parts(old, fines)
           g == Parts(new, fines)
<1>1. f \in [Slots -> Int] /\ g \in [Slots -> Int]
  BY TotalType
<1>2. /\ \A i \in Slots \ {j} : f[i] = g[i]
      /\ f[j] = Part(old[j], fines) /\ g[j] = Part(new[j], fines)
  BY DEF Parts
<1> HIDE DEF f, g
<1>3. SumOver(g) = SumOver(f) + g[j] - f[j]
  BY <1>1, <1>2, SumChange
<1> QED
  BY <1>2, <1>3 DEF f, g, Total

\* What the handlers do to the part of an entry in use.
LEMMA PartChanged ==
  ASSUME NEW d \in EntryType, d.is_used, NEW amount \in Nat,
         NEW fines \in {0, 1}
  PROVE  /\ Part(d, fines) \in Nat
         /\ Part(Plus(d, amount), fines) = Part(d, fines) + amount
         /\ Part(Minus(d, amount), fines) = Part(d, fines) - amount
         /\ Part(Staked(d, amount, now), fines) = Part(d, fines) + amount
         /\ \A period : Part(Extended(d, period, amount, now), fines)
                          = Part(d, fines) + amount
         /\ Part(CoolingDown(d, now), fines) = Part(d, fines)
         /\ \A delegate : Part(Delegated(d, delegate, now), fines)
                            = Part(d, fines)
         /\ Part(Slashed(d, amount), 1) = Part(d, 1)
         /\ Part(EmptyEntry, fines) = 0
<1>1. d.amount_deposited_native \in Nat /\ d.slashing_penalty \in Nat
  BY DEF EntryType
<1>2. Part(EmptyEntry, fines) = 0
  BY DEF Part, EmptyEntry
<1>3. Part(Plus(d, amount), fines) = Part(d, fines) + amount
  BY <1>1, ChangedFields, MoneyFields DEF Part
<1>4. Part(Minus(d, amount), fines) = Part(d, fines) - amount
  BY <1>1, ChangedFields, MoneyFields DEF Part
<1>5. Part(Staked(d, amount, now), fines) = Part(d, fines) + amount
  BY <1>1, ChangedFields, MoneyFields DEF Part
<1>6. ASSUME NEW period
      PROVE  Part(Extended(d, period, amount, now), fines)
               = Part(d, fines) + amount
  <2> DEFINE e == Extended(d, period, amount, now)
  <2>1. e.is_used = d.is_used
    BY ChangedFields
  <2>2. /\ e.amount_deposited_native = d.amount_deposited_native + amount
        /\ e.slashing_penalty = d.slashing_penalty
    BY MoneyFields
  <2> HIDE DEF e
  <2> QED
    BY <1>1, <2>1, <2>2 DEF Part, e
<1>7. Part(CoolingDown(d, now), fines) = Part(d, fines)
  BY ChangedFields, MoneyFields DEF Part
<1>8. \A delegate : Part(Delegated(d, delegate, now), fines) = Part(d, fines)
  BY ChangedFields, MoneyFields DEF Part
<1>9. Part(Slashed(d, amount), 1) = Part(d, 1)
  BY <1>1, ChangedFields, MoneyFields DEF Part
<1>10. Part(d, fines) \in Nat
  BY <1>1 DEF Part
<1> QED
  BY <1>2, <1>3, <1>4, <1>5, <1>6, <1>7, <1>8, <1>9, <1>10

\* withdraw settles what it pays and the fine.
LEMMA PartWithdrawn ==
  ASSUME NEW d \in EntryType, d.is_used, NEW amount \in Nat
  PROVE  Part(Withdrawn(d, amount), 1)
           = Part(d, 1) - amount - d.slashing_penalty
<1> DEFINE left == [d EXCEPT !.amount_deposited_native = @ - amount,
                             !.slashing_penalty = 0]
<1>1. d.amount_deposited_native \in Nat /\ d.slashing_penalty \in Nat
  BY DEF EntryType
<1>2. /\ left.amount_deposited_native = d.amount_deposited_native - amount
      /\ left.slashing_penalty = 0 /\ left.is_used = d.is_used
  BY Zenon DEF EntryType
<1>3. Withdrawn(d, amount) = IF Exhausted(left) THEN EmptyEntry ELSE left
  BY Zenon DEF Withdrawn
<1> HIDE DEF left
<1>4. Part(left, 1) = d.amount_deposited_native - amount
  BY <1>1, <1>2 DEF Part
<1>5. Exhausted(left) => d.amount_deposited_native - amount = 0
  BY <1>2 DEF Exhausted
<1>6. Part(EmptyEntry, 1) = 0
  BY DEF Part, EmptyEntry
<1>7. Part(Withdrawn(d, amount), 1) = d.amount_deposited_native - amount
  BY <1>3, <1>4, <1>5, <1>6
<1> QED
  BY <1>1, <1>7 DEF Part

\* The sums after a handler that writes a single entry.
LEMMA UpdateTotal ==
  ASSUME TypeOK, deposits' \in [Voters -> [Slots -> EntryType]],
         NEW v \in Voters, NEW i \in Slots, NEW e, UpdateEntry(v, i, e),
         NEW w \in Voters, NEW fines \in {0, 1}
  PROVE  Total(deposits'[w], fines)
           = Total(deposits[w], fines)
               + (IF w = v THEN Part(e, fines) - Part(deposits[v][i], fines)
                           ELSE 0)
<1>1. /\ deposits \in [Voters -> [Slots -> EntryType]]
      /\ deposits' = [deposits EXCEPT ![v][i] = e]
  BY DEF TypeOK, UpdateEntry
<1>2. CASE w = v
  <2>1. /\ deposits[v] \in [Slots -> EntryType]
        /\ deposits'[v] \in [Slots -> EntryType]
        /\ deposits'[v][i] = e
        /\ \A k \in Slots \ {i} : deposits'[v][k] = deposits[v][k]
    BY <1>1
  <2>2. e \in EntryType
    BY <2>1
  <2>3. Total(deposits'[v], fines)
          = Total(deposits[v], fines) + Part(e, fines)
              - Part(deposits[v][i], fines)
    BY <2>1, TotalChange
  <2>4. /\ Total(deposits[v], fines) \in Nat
        /\ Part(e, fines) \in Nat /\ Part(deposits[v][i], fines) \in Nat
    BY <2>1, TotalType
  <2> QED
    BY <1>2, <2>3, <2>4
<1>3. CASE w # v
  <2>1. deposits'[w] = deposits[w] /\ deposits[w] \in [Slots -> EntryType]
    BY <1>1, <1>3
  <2>2. Total(deposits[w], fines) \in Nat
    BY <2>1, TotalType
  <2> QED
    BY <1>3, <2>1, <2>2
<1> QED
  BY <1>2, <1>3

\* stake and extend_stake, with e the target as the handler leaves it.
GivesTo(v, source, target, amount, e) ==
  /\ SourceGives(v, source, amount)
  /\ deposits' = [deposits EXCEPT
       ![v] = [Given(v, source, amount) EXCEPT ![target] = e]]

\* They keep the sums.
LEMMA GivingTotal ==
  ASSUME TypeOK, deposits' \in [Voters -> [Slots -> EntryType]],
         NEW v \in Voters, NEW source \in Slots, NEW target \in Slots,
         NEW amount \in Nat, NEW e, GivesTo(v, source, target, amount, e),
         NEW fines \in {0, 1},
         Part(e, fines) = Part(Given(v, source, amount)[target], fines) + amount,
         NEW w \in Voters
  PROVE  Total(deposits'[w], fines) = Total(deposits[w], fines)
<1> DEFINE given == Given(v, source, amount)
<1>0. /\ SourceGives(v, source, amount)
      /\ deposits' = [deposits EXCEPT ![v] = [given EXCEPT ![target] = e]]
  BY DEF GivesTo
<1>1. /\ deposits \in [Voters -> [Slots -> EntryType]]
      /\ deposits[v] \in [Slots -> EntryType]
      /\ deposits[v][source] \in EntryType
      /\ deposits[v][source].is_used
  BY <1>0 DEF TypeOK, SourceGives, Active
<1>2. CASE w = v
  <2>1. Minus(deposits[v][source], amount) \in EntryType
    <3>1. deposits[v][source].amount_deposited_native - amount \in Nat
      BY <1>0, <1>1 DEF SourceGives, AmountUnlocked, IsStaked, EntryType
    <3> QED
      BY <1>1, <3>1, Zenon DEF Minus, EntryType
  <2>2. /\ given \in [Slots -> EntryType]
        /\ given[source] = Minus(deposits[v][source], amount)
        /\ \A k \in Slots \ {source} : given[k] = deposits[v][k]
    BY <1>1, <2>1 DEF Given
  <2>3. /\ deposits'[v] \in [Slots -> EntryType]
        /\ deposits'[v][target] = e
        /\ \A k \in Slots \ {target} : deposits'[v][k] = given[k]
    BY <1>0, <1>1, <2>2
  <2>4. Part(e, fines) = Part(given[target], fines) + amount
    OBVIOUS
  <2> HIDE DEF given
  <2>5. Total(given, fines)
          = Total(deposits[v], fines) + Part(given[source], fines)
              - Part(deposits[v][source], fines)
    BY <1>1, <2>2, TotalChange
  <2>6. Total(deposits'[v], fines)
          = Total(given, fines) + Part(e, fines) - Part(given[target], fines)
    <3> DEFINE after == deposits'[v]
    <3>1. /\ after \in [Slots -> EntryType] /\ after[target] = e
          /\ \A k \in Slots \ {target} : after[k] = given[k]
      BY <2>3
    <3> HIDE DEF after
    <3>2. Total(after, fines)
            = Total(given, fines) + Part(after[target], fines)
                - Part(given[target], fines)
      BY <2>2, <3>1, TotalChange
    <3> QED
      BY <3>1, <3>2 DEF after
  <2>7. Part(given[source], fines) = Part(deposits[v][source], fines) - amount
    <3> DEFINE src == deposits[v][source]
    <3>1. src \in EntryType /\ src.is_used
      BY <1>1
    <3> HIDE DEF src
    <3>2. Part(Minus(src, amount), fines) = Part(src, fines) - amount
      BY <3>1, PartChanged
    <3> QED
      BY <2>2, <3>2 DEF src
  <2>8. /\ Total(deposits[v], fines) \in Nat
        /\ Part(deposits[v][source], fines) \in Nat
        /\ Part(given[target], fines) \in Nat
    BY <1>1, <2>2, TotalType
  <2> QED
    BY <1>2, <2>4, <2>5, <2>6, <2>7, <2>8
<1>3. CASE w # v
  BY <1>0, <1>1, <1>3
<1> QED
  BY <1>2, <1>3

\* The weight is at most what is owed.
LEMMA WeightIsOwed ==
  ASSUME NEW entries \in [Slots -> EntryType]
  PROVE  Total(entries, 0) <= Total(entries, 1)
<1>1. \A i \in Slots : Part(entries[i], 0) <= Part(entries[i], 1)
  BY DEF Part, EntryType
<1>2. /\ Parts(entries, 0) \in [Slots -> Int]
      /\ Parts(entries, 1) \in [Slots -> Int]
  BY TotalType
<1>3. \A i \in Slots : Parts(entries, 0)[i] <= Parts(entries, 1)[i]
  BY <1>1 DEF Parts
<1> QED
  BY <1>2, <1>3, SumMonotone DEF Total

\* Without entries both sums are nothing.
LEMMA NoTotal ==
  ASSUME NEW fines \in {0, 1}
  PROVE  Total(NoDeposits, fines) <= 0
<1>1. \A i \in Slots : OwedFor(NoDeposits[i], 0) = 0
  BY DEF NoDeposits, OwedFor, EmptyEntry
<1>2. Parts(NoDeposits, fines) = Owing(NoDeposits, 0)
  BY <1>1 DEF Parts, Part, Owing, NoDeposits, EmptyEntry
<1> QED
  BY <1>2, NothingOwed DEF Total

\* A transfer to or from one vault changes the holdings of its owner by it.
LEMMA CustodyChange ==
  ASSUME vault \in [Voters -> [MintIdx -> Nat]],
         vault' \in [Voters -> [MintIdx -> Nat]],
         NEW v \in Voters, NEW m \in MintIdx, NEW change \in Int,
         vault' = [vault EXCEPT ![v][m] = vault[v][m] + change],
         NEW w \in Voters
  PROVE  Custody(w)' = Custody(w) + (IF w = v THEN change ELSE 0)
<1> DEFINE f == [i \in Slots |-> IF i \in MintIdx THEN vault[w][i] ELSE 0]
           g == [i \in Slots |-> IF i \in MintIdx THEN vault'[w][i] ELSE 0]
<1>1. Custody(w) = SumOver(f) /\ Custody(w)' = SumOver(g)
  BY DEF Custody, Holdings
<1>2. m \in Slots
  BY MintsAssumption DEF Slots
<1>3. /\ f \in [Slots -> Nat] /\ g \in [Slots -> Nat]
      /\ \A i \in Slots \ {m} : f[i] = g[i]
      /\ g[m] = f[m] + (IF w = v THEN change ELSE 0)
  BY <1>2
<1> HIDE DEF f, g
<1>4. f \in [Slots -> Int] /\ g \in [Slots -> Int] /\ SumOver(f) \in Nat
  BY <1>3, SumType
<1>5. SumOver(g) = SumOver(f) + g[m] - f[m]
  BY <1>2, <1>3, <1>4, SumChange
<1> QED
  BY <1>1, <1>2, <1>3, <1>4, <1>5

\* What a voter's vaults hold is a sum of natural numbers.
LEMMA CustodyType ==
  ASSUME vault \in [Voters -> [MintIdx -> Nat]], NEW v \in Voters
  PROVE  Custody(v) \in Nat
<1>1. Holdings(v) \in [Slots -> Nat]
  BY DEF Holdings
<1> QED
  BY <1>1, SumType DEF Custody

-----------------------------------------------------------------------------
(* The invariant. *)

\* What VotesBackedByVaults needs to be inductive: the record of a voter, of a
\* closed one too, which governance may still take in its slot, is backed; so
\* is what an open voter is owed, from which withdraw rewrites the record; and
\* a voter that is created finds nothing.
VotesInv ==
  /\ TypeOK
  /\ \A v \in Voters :
       /\ status[v] = "absent" => /\ deposits[v] = NoDeposits
                                  /\ record[v].weight = 0
       /\ Open(v) => /\ record[v].weight <= Total(deposits[v], 0)
                     /\ Total(deposits[v], 1) <= Custody(v)
       /\ record[v].weight <= Custody(v)
       /\ cast[v] <= Custody(v)

\* How a step may change a record: not at all, with no less behind it, or to
\* what the entries hold.
RecordStep(w) ==
  \/ /\ record'[w].weight = record[w].weight
     /\ Open(w) => Total(deposits[w], 0) <= Total(deposits'[w], 0)
     /\ Custody(w) <= Custody(w)'
  \/ /\ Open(w) /\ record'[w].weight = Total(deposits'[w], 0)

\* How it may change a vote: the vote stays, with no less behind it, or is the
\* weight of the record, or is no vote.
CastStep(w) ==
  \/ cast'[w] <= 0
  \/ /\ cast'[w] \in {cast[w], record[w].weight}
     /\ Custody(w) <= Custody(w)'

\* A step that opens and closes nothing keeps the invariant if it keeps what is
\* owed covered.
LEMMA StillBacked ==
  ASSUME VotesInv, TypeOK', status' = status,
         \A w \in Voters : status[w] = "absent" =>
            /\ deposits'[w] = deposits[w]
            /\ record'[w].weight = record[w].weight,
         \A w \in Voters : Open(w) =>
            Total(deposits'[w], 1) - Custody(w)'
              <= Total(deposits[w], 1) - Custody(w),
         \A w \in Voters : RecordStep(w) /\ CastStep(w)
  PROVE  VotesInv'
<1> SUFFICES ASSUME NEW w \in Voters
             PROVE  /\ status[w] = "absent" => /\ deposits'[w] = NoDeposits
                                               /\ record'[w].weight = 0
                    /\ Open(w) => /\ record'[w].weight <= Total(deposits'[w], 0)
                                  /\ Total(deposits'[w], 1) <= Custody(w)'
                    /\ record'[w].weight <= Custody(w)'
                    /\ cast'[w] <= Custody(w)'
  BY DEF VotesInv, Open
<1>1. /\ deposits[w] \in [Slots -> EntryType]
      /\ deposits'[w] \in [Slots -> EntryType]
      /\ vault \in [Voters -> [MintIdx -> Nat]]
      /\ vault' \in [Voters -> [MintIdx -> Nat]]
      /\ record[w].weight \in Nat /\ record'[w].weight \in Nat
      /\ cast[w] \in Int /\ cast'[w] \in Int
  <2>1. /\ cast[w] \in Nat \cup {NoVote}
        /\ cast'[w] \in Nat \cup {NoVote}
    BY DEF VotesInv, TypeOK
  <2> QED
    BY <2>1 DEF VotesInv, TypeOK, NoVote
<1>2. /\ Total(deposits[w], 0) \in Nat /\ Total(deposits[w], 1) \in Nat
      /\ Total(deposits'[w], 0) \in Nat /\ Total(deposits'[w], 1) \in Nat
      /\ Total(deposits'[w], 0) <= Total(deposits'[w], 1)
  BY <1>1, TotalType, WeightIsOwed
<1>3. Custody(w) \in Nat /\ Custody(w)' \in Nat
  <2>1. Custody(w) \in Nat
    BY <1>1, CustodyType
  <2>2. Holdings(w)' \in [Slots -> Nat]
    BY <1>1 DEF Holdings
  <2>3. Custody(w)' \in Nat
    BY <2>2, SumType DEF Custody
  <2> QED
    BY <2>1, <2>3
<1>4. /\ record[w].weight <= Custody(w) /\ cast[w] <= Custody(w)
      /\ Open(w) => /\ record[w].weight <= Total(deposits[w], 0)
                    /\ Total(deposits[w], 1) <= Custody(w)
      /\ status[w] = "absent" => /\ deposits[w] = NoDeposits
                                 /\ record[w].weight = 0
  BY DEF VotesInv
<1>5. Open(w) => Total(deposits'[w], 1) <= Custody(w)'
  BY <1>2, <1>3, <1>4
<1>6. RecordStep(w) /\ CastStep(w)
  OBVIOUS
<1>7. /\ Open(w) => record'[w].weight <= Total(deposits'[w], 0)
      /\ record'[w].weight <= Custody(w)'
  <2>1. CASE /\ record'[w].weight = record[w].weight
             /\ Open(w) => Total(deposits[w], 0) <= Total(deposits'[w], 0)
             /\ Custody(w) <= Custody(w)'
    BY <1>1, <1>2, <1>3, <1>4, <2>1
  <2>2. CASE Open(w) /\ record'[w].weight = Total(deposits'[w], 0)
    BY <1>2, <1>3, <1>5, <2>2
  <2> QED
    BY <1>6, <2>1, <2>2 DEF RecordStep
<1>8. cast'[w] <= Custody(w)'
  <2>1. CASE cast'[w] <= 0
    BY <1>1, <1>3, <2>1
  <2>2. CASE cast'[w] \in {cast[w], record[w].weight} /\ Custody(w) <= Custody(w)'
    BY <1>1, <1>3, <1>4, <2>2
  <2> QED
    BY <1>6, <2>1, <2>2 DEF CastStep
<1> QED
  BY <1>4, <1>5, <1>7, <1>8

-----------------------------------------------------------------------------
(* The steps. *)

\* A step without a transfer leaves the holdings.
LEMMA CustodySame ==
  ASSUME vault' = vault, NEW w
  PROVE  Custody(w)' = Custody(w)
BY DEF Custody, Holdings

\* A step that touches neither entries nor vaults.
LEMMA QuietBacked ==
  ASSUME VotesInv, TypeOK', UNCHANGED <<status, deposits, vault>>,
         \A w \in Voters : record'[w].weight = record[w].weight,
         \A w \in Voters : \/ cast'[w] <= 0
                           \/ cast'[w] \in {cast[w], record[w].weight}
  PROVE  VotesInv'
<1> SUFFICES ASSUME NEW w \in Voters
             PROVE  /\ Open(w) => Total(deposits'[w], 1) - Custody(w)'
                                    <= Total(deposits[w], 1) - Custody(w)
                    /\ RecordStep(w) /\ CastStep(w)
  BY StillBacked
<1>1. /\ deposits[w] \in [Slots -> EntryType]
      /\ vault \in [Voters -> [MintIdx -> Nat]]
  BY DEF VotesInv, TypeOK
<1>2. /\ Custody(w)' = Custody(w) /\ Custody(w) \in Nat
      /\ Total(deposits[w], 0) \in Nat /\ Total(deposits[w], 1) \in Nat
  BY <1>1, CustodySame, CustodyType, TotalType
<1> QED
  BY <1>2 DEF RecordStep, CastStep

\* A handler that writes one entry, transfers nothing, leaves the record and
\* the entry's weight, and owes no more for it.
LEMMA UpdateBacked ==
  ASSUME VotesInv, TypeOK', UNCHANGED <<status, vault, record, cast>>,
         NEW v \in Voters, NEW i \in Slots, NEW e, Open(v),
         UpdateEntry(v, i, e),
         Part(e, 0) = Part(deposits[v][i], 0),
         Part(e, 1) <= Part(deposits[v][i], 1)
  PROVE  VotesInv'
<1>0. /\ TypeOK /\ deposits \in [Voters -> [Slots -> EntryType]]
      /\ deposits' \in [Voters -> [Slots -> EntryType]]
      /\ vault \in [Voters -> [MintIdx -> Nat]]
  BY DEF VotesInv, TypeOK
<1> SUFFICES ASSUME NEW w \in Voters
             PROVE  /\ status[w] = "absent" => deposits'[w] = deposits[w]
                    /\ Open(w) => Total(deposits'[w], 1) - Custody(w)'
                                    <= Total(deposits[w], 1) - Custody(w)
                    /\ RecordStep(w) /\ CastStep(w)
  BY StillBacked
<1>1. /\ Total(deposits'[w], 0) = Total(deposits[w], 0)
      /\ Total(deposits'[w], 1) <= Total(deposits[w], 1)
  <2>0. e \in EntryType
    <3>1. deposits'[v][i] = e
      BY <1>0 DEF UpdateEntry
    <3> QED
      BY <1>0, <3>1
  <2>1. /\ Total(deposits[w], 0) \in Nat /\ Total(deposits[w], 1) \in Nat
        /\ Part(deposits[v][i], 0) \in Nat /\ Part(deposits[v][i], 1) \in Nat
    BY <1>0, TotalType
  <2>2. Part(e, 1) \in Nat
    BY <2>0 DEF Part, EntryType
  <2>3. /\ Total(deposits'[w], 0)
             = Total(deposits[w], 0)
                 + (IF w = v THEN Part(e, 0) - Part(deposits[v][i], 0) ELSE 0)
        /\ Total(deposits'[w], 1)
             = Total(deposits[w], 1)
                 + (IF w = v THEN Part(e, 1) - Part(deposits[v][i], 1) ELSE 0)
    BY <1>0, UpdateTotal
  <2> QED
    BY <2>1, <2>2, <2>3
<1>2. /\ Custody(w)' = Custody(w) /\ Custody(w) \in Nat
      /\ Total(deposits[w], 0) \in Nat /\ Total(deposits[w], 1) \in Nat
      /\ Total(deposits'[w], 1) \in Nat
  BY <1>0, CustodySame, CustodyType, TotalType
<1>3. status[w] = "absent" => deposits'[w] = deposits[w]
  BY <1>0 DEF UpdateEntry, Open
<1> QED
  BY <1>1, <1>2, <1>3 DEF RecordStep, CastStep

\* stake and extend_stake.
LEMMA GivingBacked ==
  ASSUME VotesInv, TypeOK', UNCHANGED <<status, vault, record, cast>>,
         NEW v \in Voters, NEW source \in Slots, NEW target \in Slots,
         NEW amount \in Nat, NEW e, GivesTo(v, source, target, amount, e),
         \A fines \in {0, 1} :
           Part(e, fines) = Part(Given(v, source, amount)[target], fines)
                              + amount
  PROVE  VotesInv'
<1>0. /\ TypeOK /\ deposits \in [Voters -> [Slots -> EntryType]]
      /\ deposits' \in [Voters -> [Slots -> EntryType]]
      /\ vault \in [Voters -> [MintIdx -> Nat]]
  BY DEF VotesInv, TypeOK
<1> SUFFICES ASSUME NEW w \in Voters
             PROVE  /\ status[w] = "absent" => deposits'[w] = deposits[w]
                    /\ Open(w) => Total(deposits'[w], 1) - Custody(w)'
                                    <= Total(deposits[w], 1) - Custody(w)
                    /\ RecordStep(w) /\ CastStep(w)
  BY StillBacked
<1>1. /\ Total(deposits'[w], 0) = Total(deposits[w], 0)
      /\ Total(deposits'[w], 1) = Total(deposits[w], 1)
  <2> SUFFICES ASSUME NEW fines \in {0, 1}
               PROVE  Total(deposits'[w], fines) = Total(deposits[w], fines)
    OBVIOUS
  <2>1. Part(e, fines) = Part(Given(v, source, amount)[target], fines)
                           + amount
    OBVIOUS
  <2> QED
    BY <1>0, <2>1, GivingTotal
<1>2. /\ Custody(w)' = Custody(w) /\ Custody(w) \in Nat
      /\ Total(deposits[w], 0) \in Nat /\ Total(deposits[w], 1) \in Nat
  BY <1>0, CustodySame, CustodyType, TotalType
<1>3. status[w] = "absent" => deposits'[w] = deposits[w]
  BY <1>0 DEF GivesTo, SourceGives, Active, Open
<1> QED
  BY <1>1, <1>2, <1>3 DEF RecordStep, CastStep

\* deposit: what is owed and what is held grow by the same.
LEMMA DepositBacked ==
  ASSUME VotesInv, TypeOK', NEW v \in Voters, NEW i \in Slots,
         NEW m \in MintIdx, NEW a \in Amounts, Deposit(v, i, m, a)
  PROVE  VotesInv'
<1> DEFINE d == deposits[v][i]
           e == Plus(deposits[v][i], a)
<1>0. /\ TypeOK /\ deposits \in [Voters -> [Slots -> EntryType]]
      /\ deposits' \in [Voters -> [Slots -> EntryType]]
      /\ vault \in [Voters -> [MintIdx -> Nat]]
      /\ vault' \in [Voters -> [MintIdx -> Nat]]
  BY DEF VotesInv, TypeOK
<1>1. /\ a \in Nat /\ d \in EntryType /\ d.is_used /\ Open(v)
      /\ UpdateEntry(v, i, e) /\ UNCHANGED <<status, record, cast>>
      /\ vault' = [vault EXCEPT ![v][m] = vault[v][m] + a]
  BY <1>0, StakingAssumption DEF Deposit, Active, Amounts
<1>2. \A fines \in {0, 1} : Part(e, fines) = Part(d, fines) + a
                             /\ Part(d, fines) \in Nat
  BY <1>1, PartChanged
<1> HIDE DEF d, e
<1> SUFFICES ASSUME NEW w \in Voters
             PROVE  /\ status[w] = "absent" => deposits'[w] = deposits[w]
                    /\ Open(w) => Total(deposits'[w], 1) - Custody(w)'
                                    <= Total(deposits[w], 1) - Custody(w)
                    /\ RecordStep(w) /\ CastStep(w)
  BY <1>1, StillBacked
<1>3. /\ Total(deposits'[w], 0)
           = Total(deposits[w], 0)
               + (IF w = v THEN Part(e, 0) - Part(d, 0) ELSE 0)
      /\ Total(deposits'[w], 1)
           = Total(deposits[w], 1)
               + (IF w = v THEN Part(e, 1) - Part(d, 1) ELSE 0)
  BY <1>0, <1>1, UpdateTotal DEF d
<1>4. /\ Total(deposits[w], 0) \in Nat /\ Total(deposits[w], 1) \in Nat
      /\ Custody(w) \in Nat
  BY <1>0, CustodyType, TotalType
<1>5. Custody(w)' = Custody(w) + (IF w = v THEN a ELSE 0)
  <2>1. a \in Int
    BY <1>1
  <2> QED
    BY <1>0, <1>1, <2>1, CustodyChange
<1>6. status[w] = "absent" => deposits'[w] = deposits[w]
  BY <1>0, <1>1 DEF UpdateEntry, Open
<1>7. /\ Part(e, 0) = Part(d, 0) + a /\ Part(d, 0) \in Nat
      /\ Part(e, 1) = Part(d, 1) + a /\ Part(d, 1) \in Nat
  BY <1>2
<1> QED
  BY <1>1, <1>3, <1>4, <1>5, <1>6, <1>7 DEF RecordStep, CastStep

\* The record that a handler rewrites is the sum over the entries it leaves.
LEMMA Refreshed ==
  ASSUME TypeOK, TypeOK', NEW v \in Voters, RefreshRecord(v), NEW w \in Voters
  PROVE  record'[w].weight = IF w = v THEN Total(deposits'[v], 0)
                                      ELSE record[w].weight
<1>1. /\ record \in [Voters -> [weight : Nat, current : BOOLEAN]]
      /\ deposits'[v] \in [Slots -> EntryType]
  BY DEF TypeOK
<1>2. record' = [record EXCEPT ![v] = [weight |-> Weight(deposits'[v]),
                                       current |-> TRUE]]
  BY DEF RefreshRecord
<1>3. Weight(deposits'[v]) = Total(deposits'[v], 0)
  BY <1>1, WeightIsTotal
<1> QED
  BY <1>1, <1>2, <1>3

\* withdraw: what is owed and what is held shrink by the same, the record is
\* rewritten, and no vote that counts is left.
LEMMA WithdrawBacked ==
  ASSUME VotesInv, TypeOK', NEW v \in Voters, NEW i \in Slots,
         NEW m \in MintIdx, NEW a \in Amounts, Withdraw(v, i, m, a)
  PROVE  VotesInv'
<1> DEFINE d == deposits[v][i]
           e == Withdrawn(deposits[v][i], a)
           change == -(a + d.slashing_penalty)
<1>0. /\ TypeOK /\ deposits \in [Voters -> [Slots -> EntryType]]
      /\ deposits' \in [Voters -> [Slots -> EntryType]]
      /\ vault \in [Voters -> [MintIdx -> Nat]]
      /\ vault' \in [Voters -> [MintIdx -> Nat]]
  BY DEF VotesInv, TypeOK
<1>1. /\ a \in Nat /\ d \in EntryType /\ d.is_used /\ Open(v)
      /\ d.slashing_penalty \in Nat
      /\ UpdateEntry(v, i, e) /\ UNCHANGED <<status, cast>>
      /\ GovernanceAllows(v) /\ RefreshRecord(v)
      /\ vault' = [vault EXCEPT ![v][m] = vault[v][m] - a - d.slashing_penalty]
  BY <1>0, StakingAssumption DEF Withdraw, Active, Amounts, EntryType
<1>2. /\ change \in Int
      /\ vault[v][m] - a - d.slashing_penalty = vault[v][m] + change
  BY <1>0, <1>1
<1>3. Part(e, 1) = Part(d, 1) + change /\ Part(d, 1) \in Nat
  <2>1. Part(e, 1) = Part(d, 1) - a - d.slashing_penalty
    BY <1>1, PartWithdrawn
  <2>2. Part(d, 1) \in Nat
    BY <1>1, PartChanged
  <2> HIDE DEF e
  <2> QED
    BY <1>1, <2>1, <2>2
<1>4. vault' = [vault EXCEPT ![v][m] = vault[v][m] + change]
  BY <1>1, <1>2
<1> HIDE DEF d, e, change
<1>5. \A w \in Voters :
        record'[w].weight = IF w = v THEN Total(deposits'[v], 0)
                                     ELSE record[w].weight
  BY <1>0, <1>1, Refreshed
<1> SUFFICES ASSUME NEW w \in Voters
             PROVE  /\ status[w] = "absent" => deposits'[w] = deposits[w]
                    /\ status[w] = "absent" =>
                         record'[w].weight = record[w].weight
                    /\ Open(w) => Total(deposits'[w], 1) - Custody(w)'
                                    <= Total(deposits[w], 1) - Custody(w)
                    /\ RecordStep(w) /\ CastStep(w)
  BY <1>1, StillBacked
<1>6. Total(deposits'[w], 1)
        = Total(deposits[w], 1)
            + (IF w = v THEN Part(e, 1) - Part(d, 1) ELSE 0)
  BY <1>0, <1>1, UpdateTotal DEF d
<1>7. /\ Total(deposits[w], 0) \in Nat /\ Total(deposits[w], 1) \in Nat
      /\ Custody(w) \in Nat
  BY <1>0, CustodyType, TotalType
<1>8. Custody(w)' = Custody(w) + (IF w = v THEN change ELSE 0)
  BY <1>0, <1>2, <1>4, CustodyChange
<1>9. CASE w = v
  <2>1. cast'[w] <= 0
    BY <1>1, <1>9 DEF GovernanceAllows, NoVote
  <2> QED
    BY <1>1, <1>2, <1>3, <1>5, <1>6, <1>7, <1>8, <1>9, <2>1
       DEF RecordStep, CastStep, Open
<1>10. CASE w # v
  <2>1. deposits'[w] = deposits[w]
    BY <1>0, <1>1, <1>10 DEF UpdateEntry
  <2>2. Custody(w)' = Custody(w) /\ record'[w].weight = record[w].weight
    BY <1>5, <1>7, <1>8, <1>10
  <2> QED
    BY <1>1, <1>7, <2>1, <2>2 DEF RecordStep, CastStep
<1> QED
  BY <1>9, <1>10

\* slash: the fine is owed instead, and the record is rewritten.
LEMMA SlashBacked ==
  ASSUME VotesInv, TypeOK', NEW v \in Voters, NEW i \in Slots,
         NEW a \in Amounts, Slash(v, i, a)
  PROVE  VotesInv'
<1> DEFINE d == deposits[v][i]
           e == Slashed(deposits[v][i], a)
<1>0. /\ TypeOK /\ deposits \in [Voters -> [Slots -> EntryType]]
      /\ deposits' \in [Voters -> [Slots -> EntryType]]
      /\ vault \in [Voters -> [MintIdx -> Nat]]
  BY DEF VotesInv, TypeOK
<1>1. /\ a \in Nat /\ d \in EntryType /\ d.is_used /\ Open(v)
      /\ UpdateEntry(v, i, e) /\ UNCHANGED <<status, vault, cast>>
      /\ RefreshRecord(v)
  BY <1>0, StakingAssumption DEF Slash, Active, Amounts, tokens
<1>3. Part(e, 1) = Part(d, 1) /\ Part(d, 1) \in Nat
  BY <1>1, PartChanged
<1> HIDE DEF d, e
<1>5. \A w \in Voters :
        record'[w].weight = IF w = v THEN Total(deposits'[v], 0)
                                     ELSE record[w].weight
  BY <1>0, <1>1, Refreshed
<1> SUFFICES ASSUME NEW w \in Voters
             PROVE  /\ status[w] = "absent" => deposits'[w] = deposits[w]
                    /\ status[w] = "absent" =>
                         record'[w].weight = record[w].weight
                    /\ Open(w) => Total(deposits'[w], 1) - Custody(w)'
                                    <= Total(deposits[w], 1) - Custody(w)
                    /\ RecordStep(w) /\ CastStep(w)
  BY <1>1, StillBacked
<1>6. Total(deposits'[w], 1)
        = Total(deposits[w], 1)
            + (IF w = v THEN Part(e, 1) - Part(d, 1) ELSE 0)
  BY <1>0, <1>1, UpdateTotal DEF d
<1>7. /\ Total(deposits[w], 0) \in Nat /\ Total(deposits[w], 1) \in Nat
      /\ Custody(w)' = Custody(w) /\ Custody(w) \in Nat
  BY <1>0, <1>1, CustodySame, CustodyType, TotalType
<1>9. CASE w = v
  BY <1>1, <1>3, <1>5, <1>6, <1>7, <1>9 DEF RecordStep, CastStep, Open
<1>10. CASE w # v
  <2>1. deposits'[w] = deposits[w]
    BY <1>0, <1>1, <1>10 DEF UpdateEntry
  <2>2. record'[w].weight = record[w].weight
    BY <1>5, <1>10
  <2> QED
    BY <1>1, <1>7, <2>1, <2>2 DEF RecordStep, CastStep
<1> QED
  BY <1>9, <1>10

\* update_voter_weight_record rewrites the record of entries nobody touched.
LEMMA RefreshBacked ==
  ASSUME VotesInv, TypeOK', NEW v \in Voters, UpdateVoterWeightRecord(v)
  PROVE  VotesInv'
<1>0. /\ TypeOK /\ deposits \in [Voters -> [Slots -> EntryType]]
      /\ vault \in [Voters -> [MintIdx -> Nat]]
  BY DEF VotesInv, TypeOK
<1>1. /\ Open(v) /\ UNCHANGED <<status, deposits, vault, cast>>
      /\ RefreshRecord(v)
  BY DEF UpdateVoterWeightRecord, tokens
<1>2. \A w \in Voters :
        record'[w].weight = IF w = v THEN Total(deposits'[v], 0)
                                     ELSE record[w].weight
  BY <1>0, <1>1, Refreshed
<1> SUFFICES ASSUME NEW w \in Voters
             PROVE  /\ status[w] = "absent" =>
                         record'[w].weight = record[w].weight
                    /\ Open(w) => Total(deposits'[w], 1) - Custody(w)'
                                    <= Total(deposits[w], 1) - Custody(w)
                    /\ RecordStep(w) /\ CastStep(w)
  BY <1>1, StillBacked
<1>3. /\ Total(deposits[w], 0) \in Nat /\ Total(deposits[w], 1) \in Nat
      /\ Custody(w)' = Custody(w) /\ Custody(w) \in Nat
  BY <1>0, <1>1, CustodySame, CustodyType, TotalType
<1> QED
  BY <1>1, <1>2, <1>3 DEF RecordStep, CastStep, Open

-----------------------------------------------------------------------------
(* The theorems. *)

\* Initially there are no votes, no weights and no entries.
LEMMA InitVotes == Init => VotesInv
<1> SUFFICES ASSUME Init
             PROVE  VotesInv
  OBVIOUS
<1>1. TypeOK
  BY InitType
<1> SUFFICES ASSUME NEW v \in Voters
             PROVE  /\ ~Open(v) /\ deposits[v] = NoDeposits
                    /\ record[v].weight = 0
                    /\ record[v].weight <= Custody(v) /\ cast[v] <= Custody(v)
  BY <1>1 DEF VotesInv
<1>2. /\ ~Open(v) /\ deposits[v] = NoDeposits /\ record[v].weight = 0
      /\ cast[v] = NoVote
  BY DEF Init, Open
<1>3. Custody(v) \in Nat
  BY <1>1, CustodyType DEF TypeOK
<1> QED
  BY <1>2, <1>3 DEF NoVote

\* Opening and closing a voter: the first finds nothing, the second leaves the
\* record and the vaults.
LEMMA StatusBacked ==
  ASSUME VotesInv, TypeOK', NEW v \in Voters, CreateVoter(v) \/ CloseVoter(v)
  PROVE  VotesInv'
<1> SUFFICES ASSUME NEW w \in Voters
             PROVE  /\ status'[w] = "absent" => /\ deposits'[w] = NoDeposits
                                                /\ record'[w].weight = 0
                    /\ status'[w] = "open" =>
                         /\ record'[w].weight <= Total(deposits'[w], 0)
                         /\ Total(deposits'[w], 1) <= Custody(w)'
                    /\ record'[w].weight <= Custody(w)'
                    /\ cast'[w] <= Custody(w)'
  BY DEF VotesInv, Open
<1>1. /\ UNCHANGED <<record, vault, cast>>
      /\ status \in [Voters -> {"absent", "open", "closed"}]
      /\ deposits \in [Voters -> [Slots -> EntryType]]
      /\ vault \in [Voters -> [MintIdx -> Nat]]
  BY DEF VotesInv, TypeOK, CreateVoter, CloseVoter, tokens
<1>2. /\ Custody(w)' = Custody(w) /\ Custody(w) \in Nat
      /\ record[w].weight <= Custody(w) /\ cast[w] <= Custody(w)
  BY <1>1, CustodySame, CustodyType DEF VotesInv
<1>3. CASE w = v /\ CreateVoter(v)
  <2>1. /\ status'[w] = "open" /\ deposits'[w] = NoDeposits
        /\ record[w].weight = 0
    BY <1>1, <1>3 DEF VotesInv, CreateVoter
  <2>2. /\ NoDeposits \in [Slots -> EntryType]
        /\ Total(NoDeposits, 0) <= 0 /\ Total(NoDeposits, 1) <= 0
    BY EmptyEntryType, NoTotal DEF NoDeposits
  <2>3. Total(NoDeposits, 0) \in Nat /\ Total(NoDeposits, 1) \in Nat
    BY <2>2, TotalType
  <2> QED
    BY <1>1, <1>2, <2>1, <2>2, <2>3
<1>4. CASE w = v /\ CloseVoter(v)
  BY <1>1, <1>2, <1>4 DEF CloseVoter
<1>5. CASE w # v
  <2>1. status'[w] = status[w] /\ deposits'[w] = deposits[w]
    BY <1>1, <1>5 DEF CreateVoter, CloseVoter
  <2> QED
    BY <1>1, <1>2, <2>1 DEF VotesInv, Open
<1> QED
  BY <1>3, <1>4, <1>5

\* Every step keeps the invariant.
LEMMA NextVotes ==
  ASSUME VotesInv, [Next]_vars
  PROVE  VotesInv'
<1>1. /\ TypeOK /\ TypeOK'
      /\ deposits \in [Voters -> [Slots -> EntryType]]
      /\ record \in [Voters -> [weight : Nat, current : BOOLEAN]]
  BY NextType DEF VotesInv, TypeOK
<1>2. ASSUME NEW v \in Voters, UserStep(v)
      PROVE  VotesInv'
  <2>1. CASE CreateVoter(v) \/ CloseVoter(v)
    BY <1>1, <2>1, StatusBacked
  <2>2. ASSUME NEW i \in Slots, NEW m \in MintIdx, NEW d \in Voters,
               NEW k \in LockupKind, NEW p \in CallerPeriods,
               CreateDepositEntry(v, i, d, k, p, m)
        PROVE  VotesInv'
    <3> DEFINE e == NewEntry(d, m, NewLockup(k, now, p))
    <3>1. /\ Part(e, 0) = Part(deposits[v][i], 0)
          /\ Part(e, 1) <= Part(deposits[v][i], 1)
      BY <2>2 DEF CreateDepositEntry, NewEntry, Part
    <3>2. /\ UpdateEntry(v, i, e) /\ Open(v)
          /\ UNCHANGED <<status, vault, record, cast>>
      BY <2>2 DEF CreateDepositEntry, tokens
    <3> HIDE DEF e
    <3> QED
      BY <1>1, <3>1, <3>2, UpdateBacked
  <2>3. ASSUME NEW i \in Slots, NEW m \in MintIdx, NEW a \in Amounts,
               Deposit(v, i, m, a)
        PROVE  VotesInv'
    BY <1>1, <2>3, DepositBacked
  <2>4. ASSUME NEW i \in Slots, NEW j \in Slots, NEW a \in Amounts,
               Stake(v, i, j, a)
        PROVE  VotesInv'
    <3> DEFINE d == Given(v, i, a)[j]
               e == Staked(Given(v, i, a)[j], a, now)
    <3>1. /\ a \in Nat /\ SourceGives(v, i, a) /\ SameMint(v, i, j)
          /\ UNCHANGED <<status, vault, record, cast>>
          /\ GivesTo(v, i, j, a, e)
      BY <2>4, StakingAssumption DEF Amounts, Stake, tokens, GivesTo
    <3>2. d \in EntryType /\ d.is_used
      BY <1>1, <3>1, TargetOwed
    <3> HIDE DEF d
    <3>3. \A fines \in {0, 1} :
            Part(Staked(d, a, now), fines) = Part(d, fines) + a
      BY <3>1, <3>2, PartChanged
    <3>4. \A fines \in {0, 1} :
            Part(e, fines) = Part(Given(v, i, a)[j], fines) + a
      BY <3>3 DEF d
    <3> HIDE DEF e
    <3> QED
      BY <1>1, <3>1, <3>4, GivingBacked
  <2>5. ASSUME NEW i \in Slots, UnlockTokens(v, i)
        PROVE  VotesInv'
    <3> DEFINE d == deposits[v][i]
               e == CoolingDown(deposits[v][i], now)
    <3>1. /\ d \in EntryType /\ d.is_used /\ Open(v) /\ UpdateEntry(v, i, e)
          /\ UNCHANGED <<status, vault, record, cast>>
      BY <1>1, <2>5 DEF UnlockTokens, Active, tokens
    <3>2. /\ Part(e, 0) = Part(d, 0) /\ Part(e, 1) = Part(d, 1)
          /\ Part(d, 1) \in Nat
      BY <3>1, PartChanged
    <3> HIDE DEF e
    <3> QED
      BY <1>1, <3>1, <3>2, UpdateBacked
  <2>6. ASSUME NEW i \in Slots, NEW j \in Slots, NEW p \in CallerPeriods,
               NEW a \in Amounts, ExtendStake(v, i, j, p, a)
        PROVE  VotesInv'
    <3> DEFINE d == Given(v, i, a)[j]
               e == Extended(Given(v, i, a)[j], p, a, now)
    <3>1. /\ a \in Nat /\ SourceGives(v, i, a) /\ SameMint(v, i, j)
          /\ UNCHANGED <<status, vault, record, cast>>
          /\ GivesTo(v, i, j, a, e)
      BY <2>6, StakingAssumption DEF Amounts, ExtendStake, tokens, GivesTo
    <3>2. d \in EntryType /\ d.is_used
      BY <1>1, <3>1, TargetOwed
    <3> HIDE DEF d
    <3>3. \A fines \in {0, 1} :
            Part(Extended(d, p, a, now), fines) = Part(d, fines) + a
      BY <3>1, <3>2, PartChanged
    <3>4. \A fines \in {0, 1} :
            Part(e, fines) = Part(Given(v, i, a)[j], fines) + a
      BY <3>3 DEF d
    <3> HIDE DEF e
    <3> QED
      BY <1>1, <3>1, <3>4, GivingBacked
  <2>7. ASSUME NEW i \in Slots, NEW k \in Voters, ChangeDelegate(v, i, k)
        PROVE  VotesInv'
    <3> DEFINE d == deposits[v][i]
               e == Delegated(deposits[v][i], k, now)
    <3>1. /\ d \in EntryType /\ d.is_used /\ Open(v) /\ UpdateEntry(v, i, e)
          /\ UNCHANGED <<status, vault, record, cast>>
      BY <1>1, <2>7 DEF ChangeDelegate, Active, tokens
    <3>2. /\ Part(e, 0) = Part(d, 0) /\ Part(e, 1) = Part(d, 1)
          /\ Part(d, 1) \in Nat
      BY <3>1, PartChanged
    <3> HIDE DEF e
    <3> QED
      BY <1>1, <3>1, <3>2, UpdateBacked
  <2>8. ASSUME NEW i \in Slots, NEW m \in MintIdx, NEW a \in Amounts,
               Withdraw(v, i, m, a)
        PROVE  VotesInv'
    BY <1>1, <2>8, WithdrawBacked
  <2>9. ASSUME NEW i \in Slots, CloseDepositEntry(v, i)
        PROVE  VotesInv'
    <3> DEFINE d == deposits[v][i]
    <3>1. /\ d \in EntryType /\ d.is_used /\ Open(v)
          /\ d.amount_deposited_native = 0
          /\ UpdateEntry(v, i, EmptyEntry)
          /\ UNCHANGED <<status, vault, record, cast>>
      BY <1>1, <2>9 DEF CloseDepositEntry, Active, tokens
    <3>2. /\ Part(EmptyEntry, 0) = Part(d, 0)
          /\ Part(EmptyEntry, 1) <= Part(d, 1)
      BY <3>1 DEF Part, EmptyEntry, EntryType
    <3> QED
      BY <1>1, <3>1, <3>2, UpdateBacked
  <2>10. CASE Claim(v)
    BY <1>1, <2>10, QuietBacked DEF Claim, tokens
  <2>11. CASE UpdateVoterWeightRecord(v)
    BY <1>1, <2>11, RefreshBacked
  <2> QED
    BY <1>2, <2>1, <2>2, <2>3, <2>4, <2>5, <2>6, <2>7, <2>8, <2>9, <2>10, <2>11
       DEF UserStep
<1>3. ASSUME NEW v \in Voters, AuthorityStep(v)
      PROVE  VotesInv'
  <2>1. ASSUME NEW i \in Slots, NEW a \in Amounts, Slash(v, i, a)
        PROVE  VotesInv'
    BY <1>1, <2>1, SlashBacked
  <2>2. CASE UNCHANGED <<status, deposits, vault, record, cast>>
    BY <1>1, <2>2, QuietBacked
  <2> QED
    BY <1>3, <2>1, <2>2 DEF AuthorityStep, RestrictTokenflow, AllowTokenflow,
       RestrictBatchMinting, DecreaseRewards, tokens
<1>4. ASSUME NEW v \in Voters, GovernanceStep(v) \/ Distribute(v)
      PROVE  VotesInv'
  <2>1. UNCHANGED <<status, deposits, vault, record>>
    BY <1>4 DEF GovernanceStep, CastVote, RelinquishVote, CreateProposal,
           FinalizeProposal, Distribute, tokens
  <2>2. \A w \in Voters : \/ cast'[w] <= 0
                          \/ cast'[w] \in {cast[w], record[w].weight}
    <3>1. cast \in [Voters -> Nat \cup {NoVote}]
      BY <1>1 DEF TypeOK
    <3> QED
      BY <1>4, <3>1 DEF GovernanceStep, CastVote, RelinquishVote, CreateProposal,
           FinalizeProposal, Distribute,
         NoVote
  <2> QED
    BY <1>1, <2>1, <2>2, QuietBacked
<1>5. CASE NextSlot \/ UNCHANGED vars
  <2>1. /\ UNCHANGED <<status, deposits, vault, cast>>
        /\ \A w \in Voters : record'[w].weight = record[w].weight
    BY <1>1, <1>5 DEF NextSlot, vars, tokens
  <2> QED
    BY <1>1, <2>1, QuietBacked
<1> QED
  BY <1>2, <1>3, <1>4, <1>5 DEF Next

\* The weight an open voter can vote with is never more than its entries hold,
\* whatever it and the authority do between two refreshes of the record.
THEOREM RecordsAreCovered == Spec => []RecordCoveredByEntries
<1>1. VotesInv => RecordCoveredByEntries
  <2> SUFFICES ASSUME VotesInv, NEW v \in Voters, Open(v)
               PROVE  record[v].weight <= Weight(deposits[v])
    BY DEF RecordCoveredByEntries
  <2>1. deposits[v] \in [Slots -> EntryType]
    BY DEF VotesInv, TypeOK
  <2> QED
    BY <2>1, WeightIsTotal DEF VotesInv
<1> QED
  BY InitVotes, NextVotes, <1>1, PTL DEF Spec

\* A vote that counts is backed by tokens in the vaults of its voter, even if
\* the voter was closed meanwhile.
THEOREM VotesAreBacked == Spec => []VotesBackedByVaults
<1>1. VotesInv => VotesBackedByVaults
  BY DEF VotesInv, VotesBackedByVaults, Custody, Holdings
<1> QED
  BY InitVotes, NextVotes, <1>1, PTL DEF Spec
=============================================================================
