--------------------------- MODULE RewardsProofs ---------------------------
(***************************************************************************)
(* The staking program against a strict rewards program: what it is told   *)
(* of delegates and of weights agrees with the entries, for any number of  *)
(* voters, mints and entries and any lengths of the periods.               *)
(*                                                                         *)
(* The argument goes through single steps: StepEffects says that a step    *)
(* leaves stakes and ledger alone, or changes one entry and the ledger of  *)
(* its owner as one of the five calls does.  The rest is sums.             *)
(***************************************************************************)
EXTENDS StakingWeights, StakingDelegates, StakingProofs, FiniteSetTheorems

-----------------------------------------------------------------------------
(* Sums over all voters. *)

Count == Cardinality(Voters)

Numbers(g) ==
  /\ g \in [Below(Count) -> Voters]
  /\ \A v \in Voters : \E k \in Below(Count) : g[k] = v
  /\ \A k, l \in Below(Count) : g[k] = g[l] => k = l

Nth == CHOOSE g : Numbers(g)

SumOfVoters(h) == SumTo(Count, [k \in Below(Count) |-> h[Nth[k]]])

\* The voters can be numbered from 0.
LEMMA VotersNumbered == Count \in Nat /\ Numbers(Nth)
<1>1. Count \in Nat /\ ExistsBijection(1 .. Count, Voters)
  BY VotersAssumption, FS_CardinalityType DEF Count
<1>2. PICK b \in Bijection(1 .. Count, Voters) : TRUE
  BY <1>1 DEF ExistsBijection
<1>3. /\ b \in [1 .. Count -> Voters]
      /\ \A v \in Voters : \E k \in 1 .. Count : b[k] = v
      /\ \A k, l \in 1 .. Count : b[k] = b[l] => k = l
  BY <1>2 DEF Bijection, Injection, Surjection, IsInjective
<1> HIDE DEF Count
<1> DEFINE g == [k \in Below(Count) |-> b[k + 1]]
<1>4. \A k \in Below(Count) : k + 1 \in 1 .. Count /\ k \in Int
  BY <1>1 DEF Below
<1>5. g \in [Below(Count) -> Voters]
  BY <1>3, <1>4
<1>6. ASSUME NEW v \in Voters
      PROVE  \E k \in Below(Count) : g[k] = v
  <2>1. PICK l \in 1 .. Count : b[l] = v
    BY <1>3
  <2>2. l - 1 \in Below(Count) /\ (l - 1) + 1 = l
    BY <1>1, <2>1 DEF Below
  <2> QED
    BY <2>1, <2>2
<1>7. ASSUME NEW k \in Below(Count), NEW l \in Below(Count), g[k] = g[l]
      PROVE  k = l
  <2>1. k + 1 = l + 1
    BY <1>3, <1>4, <1>7
  <2> QED
    BY <1>4, <2>1
<1>8. Numbers(g)
  BY <1>5, <1>6, <1>7 DEF Numbers
<1> QED
  BY <1>1, <1>8 DEF Nth

\* Changing the term of one voter changes the sum by the difference.
LEMMA SumOfVotersChange ==
  ASSUME NEW f \in [Voters -> Int], NEW g \in [Voters -> Int],
         NEW v \in Voters, \A w \in Voters \ {v} : f[w] = g[w]
  PROVE  SumOfVoters(g) = SumOfVoters(f) + g[v] - f[v]
<1>1. Count \in Nat /\ Numbers(Nth)
  BY VotersNumbered
<1> DEFINE a == [k \in Below(Count) |-> f[Nth[k]]]
           b == [k \in Below(Count) |-> g[Nth[k]]]
<1>2. PICK j \in Below(Count) : Nth[j] = v
  BY <1>1 DEF Numbers
<1>3. a \in [Below(Count) -> Int] /\ b \in [Below(Count) -> Int]
  BY <1>1 DEF Numbers
<1>4. \A k \in Below(Count) \ {j} : a[k] = b[k]
  BY <1>1, <1>2 DEF Numbers
<1>5. a[j] = f[v] /\ b[j] = g[v]
  BY <1>2
<1>6. SumOfVoters(f) = SumTo(Count, a) /\ SumOfVoters(g) = SumTo(Count, b)
  BY DEF SumOfVoters
<1> HIDE DEF a, b
<1> QED
  BY <1>1, <1>3, <1>4, <1>5, <1>6, SumToChange

\* The sum of naturals is a natural, no smaller than any of them.
LEMMA SumOfVotersType ==
  ASSUME NEW f \in [Voters -> Nat]
  PROVE  /\ SumOfVoters(f) \in Nat
         /\ \A v \in Voters : f[v] <= SumOfVoters(f)
<1>1. ASSUME NEW h \in [Voters -> Nat]
      PROVE  SumOfVoters(h) \in Nat
  BY VotersNumbered, SumToType DEF SumOfVoters, Numbers
<1>2. ASSUME NEW v \in Voters
      PROVE  f[v] <= SumOfVoters(f)
  <2> DEFINE g == [f EXCEPT ![v] = 0]
  <2>1. g \in [Voters -> Nat] /\ g[v] = 0 /\ \A w \in Voters \ {v} : f[w] = g[w]
    OBVIOUS
  <2> HIDE DEF g
  <2>2. f \in [Voters -> Int] /\ g \in [Voters -> Int]
    BY <2>1
  <2>3. SumOfVoters(g) = SumOfVoters(f) + 0 - f[v]
    BY <2>1, <2>2, SumOfVotersChange
  <2>4. SumOfVoters(g) \in Nat /\ SumOfVoters(f) \in Nat /\ f[v] \in Nat
    BY <1>1, <2>1
  <2> QED
    BY <2>3, <2>4
<1> QED
  BY <1>1, <1>2

\* A sum of zeros is zero.
LEMMA SumOfVotersZeros ==
  ASSUME NEW f \in [Voters -> Int], \A v \in Voters : f[v] = 0
  PROVE  SumOfVoters(f) = 0
<1>1. /\ [k \in Below(Count) |-> f[Nth[k]]] \in [Below(Count) -> Int]
      /\ \A k \in Below(Count) : f[Nth[k]] = 0
  BY VotersNumbered DEF Numbers
<1> QED
  BY <1>1, VotersNumbered, SumToZeros DEF SumOfVoters

-----------------------------------------------------------------------------
(* Entries: what is staked, and to whom, and what it weighs. *)

Idle(d) == AmountLocked(d) = 0

LockedTo(d, delegate) == IF d.delegate = delegate THEN AmountLocked(d) ELSE 0

\* What a stake weighs beyond its amount after ts.
Extra(d, ts) ==
  IF IsStaked(d) /\ d.lockup.end_ts > ts
  THEN Rewards!Excess(d.amount_deposited_native, d.lockup.period) ELSE 0

\* The rewards program and the lockups count seconds and multipliers alike;
\* Excess is additive, and nothing for Flex.
LEMMA ExcessFacts ==
  ASSUME NEW p \in LockupPeriod, NEW a \in Int, NEW b \in Int
  PROVE  /\ Rewards!ToSecs(p) = ToSecs(p)
         /\ Rewards!PeriodMultiplier(p) = PeriodMultiplier(p)
         /\ PeriodMultiplier(p) \in Nat
         /\ Rewards!Excess(a, p) \in Int
         /\ Rewards!Excess(0, p) = 0
         /\ Rewards!Excess(a, "Flex") = 0
         /\ Rewards!Excess(a + b, p)
              = Rewards!Excess(a, p) + Rewards!Excess(b, p)
         /\ Rewards!Excess(a - b, p)
              = Rewards!Excess(a, p) - Rewards!Excess(b, p)
         /\ p # "None" => a * PeriodMultiplier(p) - a = Rewards!Excess(a, p)
<1>1. /\ Rewards!ToSecs(p) = ToSecs(p)
      /\ Rewards!PeriodMultiplier(p) = PeriodMultiplier(p)
      /\ PeriodMultiplier(p) \in Nat
  BY DEF LockupPeriod, Rewards!ToSecs, ToSecs, Rewards!PeriodMultiplier,
     PeriodMultiplier
<1>2. \A x \in Int : Rewards!Excess(x, p) =
        CASE p = "None" -> 0 [] p = "Flex" -> 0 [] p = "ThreeMonths" -> x
          [] p = "SixMonths" -> 3 * x [] p = "OneYear" -> 5 * x
  BY DEF LockupPeriod, Rewards!Excess, Rewards!PeriodMultiplier
<1>3. Rewards!Excess(a, "Flex") = 0
  BY DEF Rewards!Excess, Rewards!PeriodMultiplier
<1>4. /\ Rewards!Excess(a, p) \in Int
      /\ Rewards!Excess(0, p) = 0
      /\ Rewards!Excess(a + b, p) = Rewards!Excess(a, p) + Rewards!Excess(b, p)
      /\ Rewards!Excess(a - b, p) = Rewards!Excess(a, p) - Rewards!Excess(b, p)
  BY <1>2 DEF LockupPeriod
<1>5. p # "None" => a * PeriodMultiplier(p) - a = Rewards!Excess(a, p)
  BY <1>2 DEF LockupPeriod, PeriodMultiplier
<1> QED
  BY <1>1, <1>3, <1>4, <1>5

\* The measures of an entry are numbers, and zero when nothing is staked.
LEMMA MeasureFacts ==
  ASSUME NEW d \in EntryType
  PROVE  /\ AmountLocked(d) \in Nat
         /\ \A delegate : LockedTo(d, delegate) \in Nat
         /\ \A ts : Extra(d, ts) \in Int
         /\ Idle(d) => /\ AmountLocked(d) = 0
                       /\ \A delegate : LockedTo(d, delegate) = 0
                       /\ \A ts : Extra(d, ts) = 0
<1>1. /\ d.amount_deposited_native \in Nat /\ d.lockup.period \in LockupPeriod
      /\ 0 \in Int /\ d.amount_deposited_native \in Int
  BY DEF EntryType, LockupType
<1>2. /\ Rewards!Excess(d.amount_deposited_native, d.lockup.period) \in Int
      /\ Rewards!Excess(0, d.lockup.period) = 0
  BY <1>1, ExcessFacts
<1>3. AmountLocked(d) \in Nat
  BY <1>1 DEF AmountLocked
<1>4. \A ts : Extra(d, ts) \in Int
  BY <1>2 DEF Extra
<1>5. Idle(d) => \A ts : Extra(d, ts) = 0
  BY <1>2 DEF Idle, AmountLocked, Extra
<1> QED
  BY <1>3, <1>4, <1>5 DEF LockedTo, Idle

\* What is counted for a voter is a sum over its entries.
StakedIn(entries) == SumOver([i \in Slots |-> AmountLocked(entries[i])])

StakedToIn(entries, delegate) ==
  SumOver([i \in Slots |-> LockedTo(entries[i], delegate)])

ExtraIn(entries, ts) == SumOver([i \in Slots |-> Extra(entries[i], ts)])

\* The sums when at most one entry changes that is not idle before and after.
LEMMA MeasureChange ==
  ASSUME NEW old \in [Slots -> EntryType], NEW new \in [Slots -> EntryType],
         NEW j \in Slots,
         \A i \in Slots \ {j} : new[i] = old[i] \/ (Idle(old[i]) /\ Idle(new[i]))
  PROVE  /\ StakedIn(new)
              = StakedIn(old) + AmountLocked(new[j]) - AmountLocked(old[j])
         /\ \A d : StakedToIn(new, d)
              = StakedToIn(old, d) + LockedTo(new[j], d) - LockedTo(old[j], d)
         /\ \A ts : ExtraIn(new, ts)
              = ExtraIn(old, ts) + Extra(new[j], ts) - Extra(old[j], ts)
<1>1. StakedIn(new)
        = StakedIn(old) + AmountLocked(new[j]) - AmountLocked(old[j])
  <2> DEFINE f == [i \in Slots |-> AmountLocked(old[i])]
             g == [i \in Slots |-> AmountLocked(new[i])]
  <2>1. f \in [Slots -> Int] /\ g \in [Slots -> Int]
    BY MeasureFacts
  <2>2. \A i \in Slots \ {j} : f[i] = g[i]
    BY MeasureFacts
  <2>3. f[j] = AmountLocked(old[j]) /\ g[j] = AmountLocked(new[j])
    OBVIOUS
  <2>4. StakedIn(old) = SumOver(f) /\ StakedIn(new) = SumOver(g)
    BY DEF StakedIn
  <2> HIDE DEF f, g
  <2> QED
    BY <2>1, <2>2, <2>3, <2>4, SumChange
<1>2. ASSUME NEW d
      PROVE  StakedToIn(new, d)
               = StakedToIn(old, d) + LockedTo(new[j], d) - LockedTo(old[j], d)
  <2> DEFINE f == [i \in Slots |-> LockedTo(old[i], d)]
             g == [i \in Slots |-> LockedTo(new[i], d)]
  <2>1. f \in [Slots -> Int] /\ g \in [Slots -> Int]
    BY MeasureFacts
  <2>2. \A i \in Slots \ {j} : f[i] = g[i]
    BY MeasureFacts
  <2>3. f[j] = LockedTo(old[j], d) /\ g[j] = LockedTo(new[j], d)
    OBVIOUS
  <2>4. StakedToIn(old, d) = SumOver(f) /\ StakedToIn(new, d) = SumOver(g)
    BY DEF StakedToIn
  <2> HIDE DEF f, g
  <2> QED
    BY <2>1, <2>2, <2>3, <2>4, SumChange
<1>3. ASSUME NEW ts
      PROVE  ExtraIn(new, ts)
               = ExtraIn(old, ts) + Extra(new[j], ts) - Extra(old[j], ts)
  <2> DEFINE f == [i \in Slots |-> Extra(old[i], ts)]
             g == [i \in Slots |-> Extra(new[i], ts)]
  <2>1. f \in [Slots -> Int] /\ g \in [Slots -> Int]
    BY MeasureFacts
  <2>2. \A i \in Slots \ {j} : f[i] = g[i]
    BY MeasureFacts
  <2>3. f[j] = Extra(old[j], ts) /\ g[j] = Extra(new[j], ts)
    OBVIOUS
  <2>4. ExtraIn(old, ts) = SumOver(f) /\ ExtraIn(new, ts) = SumOver(g)
    BY DEF ExtraIn
  <2> HIDE DEF f, g
  <2> QED
    BY <2>1, <2>2, <2>3, <2>4, SumChange
<1> QED
  BY <1>1, <1>2, <1>3

\* Sums over entries are numbers, and zero when all entries are idle.
LEMMA MeasureSums ==
  ASSUME NEW entries \in [Slots -> EntryType]
  PROVE  /\ StakedIn(entries) \in Nat
         /\ \A d : StakedToIn(entries, d) \in Nat
         /\ \A ts : ExtraIn(entries, ts) \in Int
         /\ (\A i \in Slots : Idle(entries[i])) =>
              /\ StakedIn(entries) = 0
              /\ \A d : StakedToIn(entries, d) = 0
              /\ \A ts : ExtraIn(entries, ts) = 0
<1>1. /\ [i \in Slots |-> AmountLocked(entries[i])] \in [Slots -> Nat]
      /\ \A d : [i \in Slots |-> LockedTo(entries[i], d)] \in [Slots -> Nat]
      /\ \A ts : [i \in Slots |-> Extra(entries[i], ts)] \in [Slots -> Int]
  BY MeasureFacts
<1>2. StakedIn(entries) \in Nat /\ \A d : StakedToIn(entries, d) \in Nat
  BY <1>1, SumType DEF StakedIn, StakedToIn
<1>3. ASSUME NEW f \in [Slots -> Int]
      PROVE  SumOver(f) \in Int
  BY SumIsInt
<1>4. \A ts : ExtraIn(entries, ts) \in Int
  BY <1>1, <1>3 DEF ExtraIn
<1>5. ASSUME \A i \in Slots : Idle(entries[i])
      PROVE  /\ StakedIn(entries) = 0
             /\ \A d : StakedToIn(entries, d) = 0
             /\ \A ts : ExtraIn(entries, ts) = 0
  <2>1. ASSUME NEW f \in [Slots -> Nat], \A i \in Slots : f[i] = 0
        PROVE  SumOver(f) = 0
    <3>1. f \in [Slots -> Int]
      OBVIOUS
    <3> QED
      BY <2>1, <3>1, SumZeros
  <2>2. StakedIn(entries) = 0
    BY <1>1, <1>5, <2>1, MeasureFacts DEF StakedIn
  <2>3. \A d : StakedToIn(entries, d) = 0
    BY <1>1, <1>5, <2>1, MeasureFacts DEF StakedToIn
  <2>4. \A ts : ExtraIn(entries, ts) = 0
    BY <1>1, <1>5, SumZeros, MeasureFacts DEF ExtraIn
  <2> QED
    BY <2>2, <2>3, <2>4
<1> QED
  BY <1>2, <1>4, <1>5

-----------------------------------------------------------------------------
(* The ledger: what the calls do to it, when it is strict. *)

\* The dates are the indexes of a sum.
LEMMA DatesBelow ==
  /\ MaxTs + OneYearSecs + 1 \in Nat
  /\ Rewards!Dates = Below(MaxTs + OneYearSecs + 1)
BY StakingAssumption, SecsAssumption DEF Rewards!Dates, Below

\* A weight added at a date counts until then.
LEMMA ExcessChange ==
  ASSUME NEW x \in [Rewards!Dates -> Int], NEW date \in Rewards!Dates,
         NEW w \in Int, NEW ts \in Int
  PROVE  /\ ExcessAfter(x, ts) \in Int
         /\ ExcessAfter(Rewards!Later(x, date, w), ts)
              = ExcessAfter(x, ts) + (IF date > ts THEN w ELSE 0)
<1> DEFINE len == MaxTs + OneYearSecs + 1
           y == Rewards!Later(x, date, w)
           f == [k \in Rewards!Dates |-> IF k > ts THEN x[k] ELSE 0]
           g == [k \in Rewards!Dates |-> IF k > ts THEN y[k] ELSE 0]
<1>1. len \in Nat /\ Rewards!Dates = Below(len)
  BY DatesBelow
<1>2. /\ y \in [Rewards!Dates -> Int]
      /\ \A k \in Rewards!Dates : y[k] = IF k = date THEN x[k] + w ELSE x[k]
  BY LaterType DEF Rewards!Later
<1>3. ExcessAfter(x, ts) = SumTo(len, f) /\ ExcessAfter(y, ts) = SumTo(len, g)
  BY DEF ExcessAfter
<1> HIDE DEF len, y
<1>4. f \in [Below(len) -> Int] /\ g \in [Below(len) -> Int]
  BY <1>1, <1>2
<1>5. date \in Below(len) /\ \A k \in Below(len) \ {date} : f[k] = g[k]
  BY <1>1, <1>2
<1>6. g[date] - f[date] = IF date > ts THEN w ELSE 0
  BY <1>2
<1>a. f[date] \in Int /\ g[date] \in Int
  BY <1>4, <1>5
<1> HIDE DEF f, g
<1>7. SumTo(len, g) = SumTo(len, f) + g[date] - f[date]
  BY <1>1, <1>4, <1>5, SumToChange
<1>8. SumTo(len, f) \in Int
  BY <1>1, <1>4, SumToInt
<1> QED
  BY <1>3, <1>6, <1>a, <1>7, <1>8 DEF y

\* Booking for an owner and a delegate, field by field.
LEMMA BookedFields ==
  ASSUME mining \in Rewards!MiningType, StrictRewards, NEW o \in Voters,
         NEW d \in Voters, NEW a \in Int, NEW x \in [Rewards!Dates -> Int],
         mining' = Rewards!Booked(o, d, a, x)
  PROVE  /\ mining'.opened = mining.opened
         /\ mining'.cut = mining.cut
         /\ \A w \in Voters : mining'.counted[w] =
              IF w = o THEN mining.counted[w] + a ELSE mining.counted[w]
         /\ \A w \in Voters : mining'.delegated[w] =
              IF w = d /\ d # o THEN mining.delegated[w] + a
                                ELSE mining.delegated[w]
         /\ \A w \in Voters : mining'.excess[w] =
              IF w = o THEN x ELSE mining.excess[w]
<1> DEFINE s == Rewards!Share(o, d, a)
           counted == [mining.counted EXCEPT ![o] = @ + a]
           delegated == [mining.delegated EXCEPT ![d] = @ + s]
           excess == [mining.excess EXCEPT ![o] = x]
<1>1. s = IF d = o THEN 0 ELSE a
  BY DEF Rewards!Share
<1>2. /\ mining.counted \in [Voters -> Int] /\ mining.delegated \in [Voters -> Int]
      /\ mining.excess \in [Voters -> [Rewards!Dates -> Int]]
  BY MiningFields
<1>3. mining' = [mining EXCEPT !.counted[o] = @ + a, !.delegated[d] = @ + s,
                               !.excess[o] = x]
  BY DEF Rewards!Booked
<1>4. mining' = [mining EXCEPT !.counted = counted, !.delegated = delegated,
                               !.excess = excess]
  BY <1>3, Zenon DEF Rewards!MiningType
<1> HIDE DEF counted, delegated, excess, s
<1>5. /\ mining'.opened = mining.opened /\ mining'.cut = mining.cut
      /\ mining'.counted = counted /\ mining'.delegated = delegated
      /\ mining'.excess = excess
  BY <1>4, Zenon DEF Rewards!MiningType
<1>6. \A w \in Voters : counted[w] =
        IF w = o THEN mining.counted[w] + a ELSE mining.counted[w]
  BY <1>2 DEF counted
<1>7. \A w \in Voters : delegated[w] =
        IF w = d THEN mining.delegated[w] + s ELSE mining.delegated[w]
  BY <1>2 DEF delegated
<1>8. \A w \in Voters : excess[w] = IF w = o THEN x ELSE mining.excess[w]
  BY <1>2 DEF excess
<1>9. \A w \in Voters : mining.delegated[w] + 0 = mining.delegated[w]
  BY <1>2
<1> QED
  BY <1>1, <1>5, <1>6, <1>7, <1>8, <1>9

-----------------------------------------------------------------------------
(* What a step does to stakes and ledger. *)

\* Only entry j of v changes what is staked.
Focus(v, j) ==
  /\ \A w \in Voters \ {v} : deposits'[w] = deposits[w]
  /\ \A i \in Slots \ {j} : \/ deposits'[v][i] = deposits[v][i]
                            \/ Idle(deposits[v][i]) /\ Idle(deposits'[v][i])

\* An entry of v goes from old to new: what is delegated goes with it unless
\* the call is irregular, and stays enough unless it misleads.
DelegatedEffect(v, old, new) ==
  \A d \in Voters :
    LET change == mining'.delegated[d] - mining.delegated[d]
        staked == IF d = v THEN 0 ELSE LockedTo(new, d) - LockedTo(old, d)
    IN  /\ ~IrregularForDelegate(old, new) => change = staked
        /\ (old.delegate = d /\ d # v => ~Misleads(old, new))
             => change >= staked
        /\ LockedTo(new, d) > LockedTo(old, d) => d \in mining.opened

Kept(old, new) == ~(Irregular(old, new) \/ Reweighed(old, new) \/ Late(old, new))

\* A stake is unlocked after its start: the shortest period takes time.
CooledLater(d) ==
  d.is_used /\ d.lockup.kind = "Constant" /\ d.lockup.cooldown_requested
    => d.lockup.start_ts < now

\* The amount counted and the weight go with it, after a call that is meant for
\* the state of the entry.
WeightEffect(v, old, new) ==
  /\ \A w \in Voters \ {v} : /\ mining'.counted[w] = mining.counted[w]
                             /\ mining'.excess[w] = mining.excess[w]
  /\ Kept(old, new) /\ CooledLater(old) =>
       /\ mining'.counted[v]
            = mining.counted[v] + AmountLocked(new) - AmountLocked(old)
       /\ \A ts \in Rewards!Dates : ts >= now =>
            ExcessAfter(mining'.excess[v], ts)
              = ExcessAfter(mining.excess[v], ts) + Extra(new, ts) - Extra(old, ts)

Effect(v, j) ==
  /\ Focus(v, j)
  /\ v \in mining.opened /\ mining'.opened = mining.opened
  /\ now' = now /\ mining'.cut = mining.cut
  /\ DelegatedEffect(v, deposits[v][j], deposits'[v][j])
  /\ WeightEffect(v, deposits[v][j], deposits'[v][j])

\* A handler that writes one entry.
LEMMA FocusUpdate ==
  ASSUME TypeOK, NEW v \in Voters, NEW i \in Slots, NEW e, UpdateEntry(v, i, e)
  PROVE  Focus(v, i) /\ deposits'[v][i] = e
BY DEF TypeOK, UpdateEntry, Focus

\* What stake and extend_stake do to the entries.
Gives(v, source, target, amount, e) ==
  /\ SourceGives(v, source, amount)
  /\ deposits' = [deposits EXCEPT
       ![v] = [Given(v, source, amount) EXCEPT ![target] = e]]

\* The source, of kind None, is idle.
LEMMA FocusGiving ==
  ASSUME TypeOK, NEW v \in Voters, NEW source \in Slots, NEW target \in Slots,
         source # target, NEW amount \in Nat, NEW e,
         Gives(v, source, target, amount, e)
  PROVE  Focus(v, target) /\ deposits'[v][target] = e
<1>1. /\ deposits \in [Voters -> [Slots -> EntryType]]
      /\ deposits[v] \in [Slots -> EntryType]
      /\ deposits[v][source] \in EntryType
  BY DEF TypeOK
<1> DEFINE given == Given(v, source, amount)
           rest == Minus(deposits[v][source], amount)
<1>2. given = [deposits[v] EXCEPT ![source] = rest]
  BY DEF Given
<1>3. rest.lockup = deposits[v][source].lockup
  BY <1>1, MinusFields
<1>4. Idle(deposits[v][source]) /\ Idle(rest)
  BY <1>3 DEF Gives, SourceGives, Idle, AmountLocked, IsStaked
<1> HIDE DEF given, rest
<1>5. /\ deposits'[v] = [given EXCEPT ![target] = e]
      /\ \A w \in Voters \ {v} : deposits'[w] = deposits[w]
  BY <1>1 DEF given, Gives
<1>6. /\ deposits'[v][target] = e
      /\ \A i \in Slots \ {target} : deposits'[v][i] = given[i]
      /\ \A i \in Slots \ {source} : given[i] = deposits[v][i]
      /\ given[source] = rest
  BY <1>1, <1>2, <1>5
<1>7. ASSUME NEW i \in Slots \ {target}
      PROVE  \/ deposits'[v][i] = deposits[v][i]
             \/ Idle(deposits[v][i]) /\ Idle(deposits'[v][i])
  BY <1>4, <1>6
<1> QED
  BY <1>5, <1>6, <1>7 DEF Focus

\* The delegate in the results of the changes.
LEMMA DelegateFields ==
  ASSUME NEW d \in EntryType, NEW amount
  PROVE  /\ Staked(d, amount, now).delegate = d.delegate
         /\ CoolingDown(d, now).delegate = d.delegate
         /\ \A period : Extended(d, period, amount, now).delegate = d.delegate
         /\ \A delegate : Delegated(d, delegate, now).delegate = delegate
         /\ Slashed(d, amount).delegate = d.delegate
BY Zenon DEF EntryType, Staked, CoolingDown, Extended, Delegated, Slashed

\* A call that names the delegate of the entry and books the amount staked.
LEMMA BookedForDelegate ==
  ASSUME mining \in Rewards!MiningType, StrictRewards, NEW v \in Voters,
         NEW old \in EntryType, NEW new \in EntryType,
         new.delegate = old.delegate, old.delegate \in mining.opened,
         NEW s \in Int, NEW x \in [Rewards!Dates -> Int],
         mining' = Rewards!Booked(v, old.delegate, s, x),
         ~IrregularForDelegate(old, new) =>
           s = AmountLocked(new) - AmountLocked(old),
         ~Misleads(old, new) => s >= AmountLocked(new) - AmountLocked(old)
  PROVE  DelegatedEffect(v, old, new)
<1> DEFINE e == old.delegate
           locked == AmountLocked(new) - AmountLocked(old)
<1>1. e \in Voters /\ \A d \in Voters : mining.delegated[d] \in Int
  BY MiningFields
<1>2. \A d \in Voters : mining'.delegated[d] =
        IF d = e /\ e # v THEN mining.delegated[d] + s ELSE mining.delegated[d]
  BY <1>1, BookedFields
<1>3. AmountLocked(new) \in Nat /\ AmountLocked(old) \in Nat
  BY MeasureFacts
<1> SUFFICES ASSUME NEW d \in Voters
             PROVE  LET change == mining'.delegated[d] - mining.delegated[d]
                        staked == IF d = v THEN 0
                                  ELSE LockedTo(new, d) - LockedTo(old, d)
                    IN  /\ ~IrregularForDelegate(old, new) => change = staked
                        /\ (old.delegate = d /\ d # v => ~Misleads(old, new))
                             => change >= staked
                        /\ LockedTo(new, d) > LockedTo(old, d)
                             => d \in mining.opened
  BY DEF DelegatedEffect
<1>4. LockedTo(new, d) - LockedTo(old, d) = IF d = e THEN locked ELSE 0
  BY <1>3 DEF LockedTo
<1>5. LockedTo(new, d) > LockedTo(old, d) => d \in mining.opened
  BY <1>3 DEF LockedTo
<1>6. mining'.delegated[d] - mining.delegated[d]
        = IF d = e /\ e # v THEN s ELSE 0
  BY <1>1, <1>2
<1>7. locked \in Int
  BY <1>3
<1> HIDE DEF locked
<1> QED
  BY <1>4, <1>5, <1>6, <1>7 DEF locked

\* A call that books the amount staked and leaves the weight it should.
LEMMA BookedForOwner ==
  ASSUME mining \in Rewards!MiningType, StrictRewards, NEW v \in Voters,
         NEW old, NEW new, NEW d \in Voters,
         NEW s \in Int, NEW x \in [Rewards!Dates -> Int],
         mining' = Rewards!Booked(v, d, s, x),
         Kept(old, new) /\ CooledLater(old) =>
           /\ mining.counted[v] + s
                = mining.counted[v] + AmountLocked(new) - AmountLocked(old)
           /\ \A ts \in Rewards!Dates : ts >= now =>
                ExcessAfter(x, ts) = ExcessAfter(mining.excess[v], ts)
                                       + Extra(new, ts) - Extra(old, ts)
  PROVE  /\ WeightEffect(v, old, new)
         /\ mining'.opened = mining.opened /\ mining'.cut = mining.cut
BY BookedFields DEF WeightEffect

\* What is known of an entry.
LEMMA EntryFacts ==
  ASSUME IInv, NEW v \in Voters, NEW i \in Slots
  PROVE  LET d == deposits[v][i]
         IN  /\ d \in EntryType /\ d.lockup \in LockupType
             /\ d.amount_deposited_native \in Nat /\ d.slashing_penalty \in Nat
             /\ d.lockup.period \in LockupPeriod /\ d.lockup.kind \in LockupKind
             /\ d.lockup.start_ts \in Nat /\ d.lockup.end_ts \in Nat
             /\ d.lockup.cooldown_requested \in BOOLEAN
             /\ d.is_used =>
                  /\ ValidLockup(d.lockup.kind, d.lockup.period)
                  /\ d.lockup.start_ts <= now
                  /\ d.lockup.end_ts = d.lockup.start_ts + ToSecs(d.lockup.period)
<1> DEFINE d == deposits[v][i]
<1>1. d \in EntryType /\ EntryWellFormed(d, now)
  BY DEF IInv, TypeOK, EntriesWellFormed
<1> HIDE DEF d
<1>2. d.lockup \in LockupType
  BY <1>1 DEF EntryType
<1> QED
  BY <1>1, <1>2 DEF EntryType, LockupType, EntryWellFormed, d

\* unlock_tokens: the weight beyond the amount is gone by its end.
LEMMA UnlockEffect ==
  ASSUME IInv, StrictRewards, NEW v \in Voters, NEW i \in Slots,
         UnlockTokens(v, i)
  PROVE  Effect(v, i)
<1> DEFINE old == deposits[v][i]
           new == CoolingDown(old, now)
           s == -old.amount_deposited_native
<1>1. /\ old.is_used /\ ~old.lockup.cooldown_requested /\ now >= old.lockup.end_ts
      /\ UpdateEntry(v, i, new) /\ now' = now
      /\ {v, old.delegate} \subseteq mining.opened
      /\ mining' = Rewards!Booked(v, old.delegate, s, mining.excess[v])
  BY DEF UnlockTokens, Active, Rewards!WithdrawMining, Rewards!Opened
<1>2. /\ old \in EntryType /\ old.lockup \in LockupType
      /\ old.amount_deposited_native \in Nat /\ old.slashing_penalty \in Nat
      /\ old.lockup.end_ts \in Nat
      /\ now \in Nat /\ mining \in Rewards!MiningType
  BY EntryFacts DEF IInv, TypeOK
<1>3. Focus(v, i) /\ deposits'[v][i] = new
  BY <1>1, FocusUpdate DEF IInv
<1>4. new \in EntryType
  BY <1>1, <1>2, EntryStepType DEF EntryStep, Unlocks
<1>5. /\ new.delegate = old.delegate /\ new.is_used = old.is_used
      /\ new.amount_deposited_native = old.amount_deposited_native
      /\ new.slashing_penalty = old.slashing_penalty
      /\ new.lockup = Cooling(old.lockup, now)
  BY <1>2, DelegateFields, ChangedFields, MoneyFields
<1>6. new.lockup.cooldown_requested
  BY <1>2, <1>5, ChangedLockup
<1>7. old.delegate \in Voters /\ mining.excess[v] \in [Rewards!Dates -> Int]
  BY <1>1, <1>2, MiningFields
<1> HIDE DEF old, new
<1>8. ~Irregular(old, new) => IsStaked(old)
  BY <1>1, <1>5, <1>6 DEF Irregular
<1>9. ~Misleads(old, new) => IsStaked(old) \/ old.amount_deposited_native = 0
  <2>1. old.amount_deposited_native > 0 \/ old.amount_deposited_native = 0
    BY <1>2
  <2> QED
    BY <1>1, <1>5, <1>6, <2>1, Zenon DEF Misleads
<1>10. s \in Int /\ ~IsStaked(new) /\ AmountLocked(new) = 0
  BY <1>2, <1>6 DEF IsStaked, AmountLocked
<1>11. IsStaked(old) => AmountLocked(old) = -s
  BY <1>2 DEF AmountLocked
<1>12. ~IrregularForDelegate(old, new) =>
         s = AmountLocked(new) - AmountLocked(old)
  BY <1>8, <1>10, <1>11 DEF IrregularForDelegate
<1>13. ~Misleads(old, new) => s >= AmountLocked(new) - AmountLocked(old)
  BY <1>2, <1>9, <1>10, <1>11 DEF AmountLocked
<1>14. DelegatedEffect(v, old, new)
  BY <1>1, <1>2, <1>4, <1>5, <1>7, <1>10, <1>12, <1>13, BookedForDelegate
<1>15. \A ts \in Rewards!Dates : ts >= now =>
         Extra(new, ts) = 0 /\ Extra(old, ts) = 0
  BY <1>1, <1>2, <1>10 DEF Extra, Rewards!Dates
<1>16. \A ts \in Rewards!Dates : ExcessAfter(mining.excess[v], ts) \in Int
  <2>1. 0 \in Rewards!Dates /\ Rewards!Dates \subseteq Int
    BY StakingAssumption, SecsAssumption DEF Rewards!Dates
  <2> QED
    BY <1>7, <2>1, ExcessChange
<1>17. Kept(old, new) =>
         /\ mining.counted[v] + s
              = mining.counted[v] + AmountLocked(new) - AmountLocked(old)
         /\ \A ts \in Rewards!Dates : ts >= now =>
              ExcessAfter(mining.excess[v], ts)
                = ExcessAfter(mining.excess[v], ts) + Extra(new, ts)
                    - Extra(old, ts)
  <2>1. Kept(old, new) => s = AmountLocked(new) - AmountLocked(old)
    BY <1>8, <1>10, <1>11 DEF Kept
  <2>2. mining.counted[v] \in Int /\ AmountLocked(old) \in Nat
    BY <1>2, MiningFields, MeasureFacts
  <2> HIDE DEF s
  <2> QED
    BY <1>10, <1>15, <1>16, <2>1, <2>2
<1>18. /\ WeightEffect(v, old, new)
       /\ mining'.opened = mining.opened /\ mining'.cut = mining.cut
  BY <1>1, <1>2, <1>7, <1>10, <1>17, BookedForOwner
<1> QED
  BY <1>1, <1>3, <1>14, <1>18 DEF Effect, old, new

\* No period is longer than a year.
LEMMA LongestPeriod == \A p \in LockupPeriod : ToSecs(p) <= OneYearSecs
BY SecsAssumption DEF LockupPeriod, ToSecs

\* slash: the delegate keeps what is slashed; the weight goes from the end of
\* the entry, or from nowhere when there is none left.
LEMMA SlashEffect ==
  ASSUME IInv, now <= MaxTs, StrictRewards, NEW v \in Voters, NEW i \in Slots,
         NEW a \in Amounts, Slash(v, i, a)
  PROVE  Effect(v, i)
<1> DEFINE old == deposits[v][i]
           new == Slashed(old, a)
           w == a * PeriodMultiplier(old.lockup.period)
           ends == ExpirationDate(old, now)
           x == IF ends = Rewards!NoDate THEN mining.excess[v]
                ELSE Rewards!Later(mining.excess[v], ends, a - w)
<1>1. /\ old.is_used /\ a <= old.amount_deposited_native
      /\ UpdateEntry(v, i, new) /\ now' = now
      /\ v \in mining.opened
      /\ mining' = Rewards!Booked(v, v, -a, x)
  BY DEF Slash, Active, Rewards!SlashMining, Rewards!Opened
<1>2. /\ old \in EntryType /\ old.lockup \in LockupType
      /\ old.amount_deposited_native \in Nat /\ old.slashing_penalty \in Nat
      /\ old.lockup.period \in LockupPeriod
      /\ old.lockup.start_ts \in Nat /\ old.lockup.end_ts \in Nat
      /\ ValidLockup(old.lockup.kind, old.lockup.period)
      /\ old.lockup.start_ts <= now
      /\ old.lockup.end_ts = old.lockup.start_ts + ToSecs(old.lockup.period)
      /\ now \in Nat /\ mining \in Rewards!MiningType /\ a \in Nat
  BY <1>1, EntryFacts, StakingAssumption DEF IInv, TypeOK, Amounts
<1>3. Focus(v, i) /\ deposits'[v][i] = new
  BY <1>1, FocusUpdate DEF IInv
<1>4. new \in EntryType
  BY <1>1, <1>2, EntryStepType DEF EntryStep, Punishes
<1>5. /\ new.delegate = old.delegate /\ new.is_used = old.is_used
      /\ new.amount_deposited_native = old.amount_deposited_native - a
      /\ new.slashing_penalty = old.slashing_penalty + a
      /\ new.lockup = old.lockup
  BY <1>2, DelegateFields, ChangedFields, MoneyFields
<1>6. /\ IsStaked(new) = IsStaked(old)
      /\ IsStaked(old) => old.lockup.period # "None"
  BY <1>5 DEF IsStaked
<1>7. /\ mining.excess[v] \in [Rewards!Dates -> Int]
      /\ mining.counted[v] \in Int
      /\ \A d \in Voters : mining.delegated[d] \in Int
      /\ w \in Int
      /\ IsStaked(old) => w - a = Rewards!Excess(a, old.lockup.period)
      /\ a = 0 => w = 0
  <2>1. PeriodMultiplier(old.lockup.period) \in Nat
    BY <1>2, ExcessFacts
  <2>2. w \in Int /\ (a = 0 => w = 0)
    BY <1>2, <2>1
  <2>3. IsStaked(old) => w - a = Rewards!Excess(a, old.lockup.period)
    <3>1. a \in Int
      BY <1>2
    <3> HIDE DEF old
    <3>2. old.lockup.period # "None" =>
            w - a = Rewards!Excess(a, old.lockup.period)
      BY <1>2, <3>1, ExcessFacts, Zenon
    <3> QED
      BY <1>6, <3>2
  <2> QED
    BY <1>2, <2>2, <2>3, MiningFields
<1>8. ends = IF now > old.lockup.end_ts THEN Rewards!NoDate
                                        ELSE old.lockup.end_ts
  BY DEF ExpirationDate
<1>9. old.lockup.end_ts \in Rewards!Dates /\ old.lockup.end_ts # Rewards!NoDate
  <2>1. ToSecs(old.lockup.period) <= OneYearSecs
    <3> HIDE DEF old
    <3> QED
      BY <1>2, LongestPeriod
  <2> QED
    BY <1>2, <2>1, StakingAssumption, SecsAssumption, PeriodFacts
       DEF Rewards!Dates, Rewards!NoDate
<1>10. x \in [Rewards!Dates -> Int]
  BY <1>2, <1>7, LaterType
<1> HIDE DEF old, new, w, ends
<1>11. DelegatedEffect(v, old, new)
  <2>1. \A d \in Voters : mining'.delegated[d] - mining.delegated[d] = 0
    <3>1. \A d \in Voters : mining'.delegated[d] = mining.delegated[d]
      BY <1>1, <1>2, <1>10, BookedFields
    <3> QED
      BY <1>7, <3>1
  <2>2. \A d : /\ LockedTo(new, d) <= LockedTo(old, d)
               /\ LockedTo(new, d) \in Nat /\ LockedTo(old, d) \in Nat
               /\ ~IrregularForDelegate(old, new) =>
                    LockedTo(new, d) = LockedTo(old, d)
    <3>1. AmountLocked(new) <= AmountLocked(old)
      BY <1>1, <1>2, <1>5, <1>6 DEF AmountLocked
    <3>2. ~IrregularForDelegate(old, new) => AmountLocked(new) = AmountLocked(old)
      BY <1>2, <1>5, <1>6 DEF AmountLocked, IrregularForDelegate
    <3>3. AmountLocked(new) \in Nat /\ AmountLocked(old) \in Nat
      BY <1>2, <1>4, MeasureFacts
    <3> QED
      BY <1>5, <3>1, <3>2, <3>3 DEF LockedTo
  <2> QED
    BY <2>1, <2>2 DEF DelegatedEffect
<1>12. Kept(old, new) => IsStaked(old) \/ a = 0
  BY <1>1, <1>2, <1>5 DEF Kept, Irregular
<1>13. ASSUME Kept(old, new)
       PROVE  -a = AmountLocked(new) - AmountLocked(old)
  BY <1>2, <1>5, <1>6, <1>12, <1>13 DEF AmountLocked
<1>14. ASSUME Kept(old, new), NEW ts \in Rewards!Dates, ts >= now
       PROVE  ExcessAfter(x, ts) = ExcessAfter(mining.excess[v], ts)
                                     + Extra(new, ts) - Extra(old, ts)
  <2>1. ts \in Int /\ 0 \in Rewards!Dates
    BY StakingAssumption, SecsAssumption DEF Rewards!Dates
  <2>2. ExcessAfter(mining.excess[v], ts) \in Int
    BY <1>7, <2>1, ExcessChange
  <2>3. Extra(new, ts) \in Int /\ Extra(old, ts) \in Int
    BY <1>2, <1>4, MeasureFacts
  <2>4. CASE ends = Rewards!NoDate
    <3>1. now > old.lockup.end_ts /\ x = mining.excess[v]
      BY <1>8, <1>9, <2>4
    <3>2. Extra(new, ts) = 0 /\ Extra(old, ts) = 0
      BY <1>2, <1>5, <1>14, <2>1, <3>1 DEF Extra
    <3> QED
      BY <2>2, <3>1, <3>2
  <2>5. CASE ends # Rewards!NoDate
    <3>1. ends = old.lockup.end_ts
      BY <1>8, <2>5
    <3>2. a - w \in Int
      BY <1>2, <1>7
    <3>3. ExcessAfter(x, ts) = ExcessAfter(mining.excess[v], ts)
            + (IF old.lockup.end_ts > ts THEN a - w ELSE 0)
      BY <1>7, <1>9, <2>1, <2>5, <3>1, <3>2, ExcessChange
    <3>4. IsStaked(old) =>
            Rewards!Excess(old.amount_deposited_native - a, old.lockup.period)
              = Rewards!Excess(old.amount_deposited_native, old.lockup.period)
                  - Rewards!Excess(a, old.lockup.period)
      BY <1>2, ExcessFacts
    <3>5. /\ Rewards!Excess(old.amount_deposited_native, old.lockup.period) \in Int
          /\ Rewards!Excess(a, old.lockup.period) \in Int
      BY <1>2, ExcessFacts
    <3>6. Extra(new, ts) - Extra(old, ts)
            = IF old.lockup.end_ts > ts THEN a - w ELSE 0
      <4>1. CASE IsStaked(old)
        BY <1>2, <1>5, <1>6, <1>7, <3>4, <3>5, <4>1 DEF Extra
      <4>2. CASE ~IsStaked(old)
        BY <1>2, <1>6, <1>7, <1>12, <1>14, <4>2 DEF Extra
      <4> QED
        BY <4>1, <4>2
    <3> QED
      BY <2>2, <2>3, <3>2, <3>3, <3>6
  <2> QED
    BY <2>4, <2>5
<1>15. /\ WeightEffect(v, old, new)
       /\ mining'.opened = mining.opened /\ mining'.cut = mining.cut
  <2> HIDE DEF x
  <2>1. -a \in Int /\ AmountLocked(new) \in Nat /\ AmountLocked(old) \in Nat
    BY <1>2, <1>4, MeasureFacts
  <2>2. Kept(old, new) =>
          /\ mining.counted[v] + (-a)
               = mining.counted[v] + AmountLocked(new) - AmountLocked(old)
          /\ \A ts \in Rewards!Dates : ts >= now =>
               ExcessAfter(x, ts) = ExcessAfter(mining.excess[v], ts)
                                      + Extra(new, ts) - Extra(old, ts)
    BY <1>7, <1>13, <1>14, <2>1
  <2> QED
    BY <1>1, <1>2, <1>10, <2>1, <2>2, BookedForOwner
<1> QED
  BY <1>1, <1>3, <1>11, <1>15 DEF Effect, old, new

\* change_delegate: the amount moves from one delegate to the other.
LEMMA RedelegateEffect ==
  ASSUME IInv, StrictRewards, NEW v \in Voters, NEW i \in Slots,
         NEW e \in Voters, ChangeDelegate(v, i, e)
  PROVE  Effect(v, i)
<1> DEFINE old == deposits[v][i]
           new == Delegated(old, e, now)
           n == old.amount_deposited_native
           moved == Rewards!Moved(v, old.delegate, e, n)
<1>1. /\ old.is_used /\ e # old.delegate
      /\ UpdateEntry(v, i, new) /\ now' = now
      /\ {v, old.delegate, e} \subseteq mining.opened
      /\ mining' = [mining EXCEPT !.delegated = moved]
  BY DEF ChangeDelegate, Active, Rewards!ChangeDelegateMining, Rewards!Opened
<1>2. /\ old \in EntryType /\ n \in Nat /\ old.slashing_penalty \in Nat
      /\ now \in Nat /\ mining \in Rewards!MiningType
  BY EntryFacts DEF IInv, TypeOK
<1>3. Focus(v, i) /\ deposits'[v][i] = new
  BY <1>1, FocusUpdate DEF IInv
<1>4. new \in EntryType
  BY <1>1, <1>2, EntryStepType DEF EntryStep, Redelegates
<1>5. /\ new.delegate = e /\ new.is_used = old.is_used
      /\ new.amount_deposited_native = n
      /\ new.slashing_penalty = old.slashing_penalty
      /\ new.lockup = old.lockup
  BY <1>2, DelegateFields, ChangedFields, MoneyFields
<1>6. /\ \A d \in Voters : mining.delegated[d] \in Int
      /\ \A d \in Voters : moved[d] = mining.delegated[d]
           - (IF d = old.delegate THEN Rewards!Share(v, d, n) ELSE 0)
           + (IF d = e THEN Rewards!Share(v, d, n) ELSE 0)
  BY <1>2, MiningFields DEF Rewards!Moved
<1> HIDE DEF old, new, n, moved
<1>7. /\ mining'.opened = mining.opened /\ mining'.cut = mining.cut
      /\ mining'.counted = mining.counted /\ mining'.excess = mining.excess
      /\ mining'.delegated = moved
  BY <1>1, <1>2, Zenon DEF Rewards!MiningType
<1>8. \A d \in Voters : mining'.delegated[d] - mining.delegated[d]
        = IF d = v THEN 0
          ELSE IF d = old.delegate THEN -n
          ELSE IF d = e THEN n ELSE 0
  BY <1>1, <1>2, <1>6, <1>7 DEF Rewards!Share
<1>9. /\ AmountLocked(new) = AmountLocked(old)
      /\ AmountLocked(old) = IF IsStaked(old) THEN n ELSE 0
  BY <1>5 DEF AmountLocked, IsStaked, n
<1>10. ~IrregularForDelegate(old, new) => IsStaked(old)
  BY <1>1, <1>5 DEF IrregularForDelegate, Irregular
<1>11. ~Misleads(old, new) => IsStaked(old) \/ n = 0
  <2>1. n > 0 \/ n = 0
    BY <1>2
  <2> QED
    BY <1>1, <1>5, <2>1, Zenon DEF Misleads, n
<1>12. DelegatedEffect(v, old, new)
  <2> SUFFICES ASSUME NEW d \in Voters
               PROVE  LET change == mining'.delegated[d] - mining.delegated[d]
                          staked == IF d = v THEN 0
                                    ELSE LockedTo(new, d) - LockedTo(old, d)
                      IN  /\ ~IrregularForDelegate(old, new) => change = staked
                          /\ (old.delegate = d /\ d # v => ~Misleads(old, new))
                               => change >= staked
                          /\ LockedTo(new, d) > LockedTo(old, d)
                               => d \in mining.opened
    BY DEF DelegatedEffect
  <2>1. LockedTo(new, d) - LockedTo(old, d) =
          IF ~IsStaked(old) THEN 0
          ELSE IF d = old.delegate THEN -n ELSE IF d = e THEN n ELSE 0
    BY <1>1, <1>2, <1>5, <1>9 DEF LockedTo
  <2>2. LockedTo(new, d) > LockedTo(old, d) => d \in mining.opened
    BY <1>1, <1>2, <1>5, <1>9 DEF LockedTo
  <2> QED
    BY <1>2, <1>8, <1>10, <1>11, <2>1, <2>2
<1>13. WeightEffect(v, old, new)
  <2>1. /\ mining.counted[v] \in Int /\ AmountLocked(old) \in Nat
        /\ mining.excess[v] \in [Rewards!Dates -> Int]
    BY <1>2, MiningFields, MeasureFacts
  <2>2. \A ts : Extra(new, ts) = Extra(old, ts) /\ Extra(old, ts) \in Int
    BY <1>2, <1>5, MeasureFacts DEF Extra, IsStaked, n
  <2>3. \A ts \in Rewards!Dates : ExcessAfter(mining.excess[v], ts) \in Int
    <3>1. 0 \in Rewards!Dates /\ Rewards!Dates \subseteq Int
      BY StakingAssumption, SecsAssumption DEF Rewards!Dates
    <3> QED
      BY <2>1, <3>1, ExcessChange
  <2> QED
    BY <1>7, <1>9, <2>1, <2>2, <2>3 DEF WeightEffect
<1> QED
  BY <1>1, <1>3, <1>7, <1>12, <1>13 DEF Effect, old, new

\* The dates lockups end at are dates of the ledger.
LEMMA EndsAreDates ==
  ASSUME NEW start \in Nat, start <= MaxTs, NEW p \in LockupPeriod
  PROVE  start + ToSecs(p) \in Rewards!Dates /\ start + ToSecs(p) \in Nat
<1>1. ToSecs(p) \in Nat /\ ToSecs(p) <= OneYearSecs
  BY SecsAssumption DEF ToSecs, LockupPeriod
<1> QED
  BY <1>1, StakingAssumption, SecsAssumption DEF Rewards!Dates

\* stake: the weight lasts for a period from now, which is where the entry ends
\* when it was created now.
LEMMA StakeEffect ==
  ASSUME IInv, now <= MaxTs, StrictRewards, NEW v \in Voters,
         NEW source \in Slots, NEW j \in Slots, NEW a \in Amounts,
         Stake(v, source, j, a)
  PROVE  Effect(v, j)
<1> DEFINE old == deposits[v][j]
           new == Staked(old, a, now)
           p == old.lockup.period
           date == now + ToSecs(p)
           x == Rewards!Later(mining.excess[v], date, Rewards!Excess(a, p))
<1>1. /\ a \in Nat /\ now \in Nat /\ mining \in Rewards!MiningType
      /\ old \in EntryType /\ old.lockup \in LockupType
      /\ old.amount_deposited_native \in Nat /\ old.slashing_penalty \in Nat
      /\ p \in LockupPeriod /\ old.lockup.kind \in LockupKind
      /\ old.lockup.start_ts \in Nat
      /\ old.lockup.cooldown_requested \in BOOLEAN
      /\ old.is_used => /\ ValidLockup(old.lockup.kind, p)
                        /\ old.lockup.start_ts <= now
                        /\ old.lockup.end_ts = old.lockup.start_ts + ToSecs(p)
  BY EntryFacts, StakingAssumption DEF IInv, TypeOK, Amounts
<1>2. source # j /\ old.is_used /\ SourceGives(v, source, a)
      /\ p # "None" /\ old.lockup.kind = "Constant"
      /\ Given(v, source, a)[j] = old
  <2>1. /\ SourceGives(v, source, a) /\ old.is_used
        /\ Given(v, source, a)[j].lockup.period # "None"
    BY DEF Stake, SameMint, Active, Rewards!DepositMining
  <2>2. Given(v, source, a)[j] = IF j = source THEN Minus(old, a) ELSE old
    BY <1>1, GivenTarget DEF IInv
  <2>3. p # "None"
    BY <1>1, <2>1, <2>2, MinusFields
  <2>4. old.lockup.kind = "Constant"
    BY <1>1, <2>1, <2>3 DEF ValidLockup
  <2>5. source # j
    BY <2>1, <2>4 DEF SourceGives
  <2> QED
    BY <2>1, <2>2, <2>3, <2>4, <2>5
<1>3. /\ old.amount_deposited_native = 0
      /\ deposits' = [deposits EXCEPT
           ![v] = [Given(v, source, a) EXCEPT ![j] = new]]
      /\ now' = now
      /\ {v, old.delegate} \subseteq mining.opened
      /\ mining' = Rewards!Booked(v, old.delegate, a, x)
  <2>1. Rewards!ToSecs(p) = ToSecs(p)
    BY <1>1, ExcessFacts
  <2> HIDE DEF old
  <2> QED
    BY <1>2, <2>1 DEF Stake, Rewards!DepositMining, Rewards!Opened
<1>4. Focus(v, j) /\ deposits'[v][j] = new
  <2> HIDE DEF new
  <2>1. TypeOK
    BY DEF IInv
  <2>2. Gives(v, source, j, a, new)
    BY <1>2, <1>3 DEF Gives
  <2> QED
    BY <1>1, <1>2, <2>1, <2>2, FocusGiving
<1>5. new \in EntryType
  BY <1>1, StakedType
<1>6. /\ new.delegate = old.delegate /\ new.is_used = old.is_used
      /\ new.amount_deposited_native = a
      /\ new.slashing_penalty = old.slashing_penalty
      /\ new.lockup = Ending(old.lockup)
  <2>1. new.amount_deposited_native = old.amount_deposited_native + a
    BY <1>1, MoneyFields
  <2> QED
    BY <1>1, <1>3, <2>1, DelegateFields, ChangedFields, MoneyFields
<1>7. /\ new.lockup.kind = old.lockup.kind /\ new.lockup.period = p
      /\ new.lockup.start_ts = old.lockup.start_ts
      /\ new.lockup.end_ts = old.lockup.start_ts + ToSecs(p)
      /\ new.lockup.cooldown_requested = old.lockup.cooldown_requested
  <2> HIDE DEF old, new
  <2>1. old.lockup \in LockupType /\ new.lockup = Ending(old.lockup)
    BY <1>1, <1>6
  <2> QED
    BY <2>1, ChangedLockup, ZenonT(30)
<1>8. old.delegate \in Voters /\ mining.excess[v] \in [Rewards!Dates -> Int]
      /\ mining.counted[v] \in Int /\ x \in [Rewards!Dates -> Int]
      /\ Rewards!Excess(a, p) \in Int /\ Rewards!Excess(0, p) = 0
  <2>1. old.delegate \in Voters /\ mining.excess[v] \in [Rewards!Dates -> Int]
        /\ mining.counted[v] \in Int
    BY <1>1, <1>3, MiningFields
  <2>2. Rewards!Excess(a, p) \in Int /\ Rewards!Excess(0, p) = 0
    <3> HIDE DEF p
    <3>1. a \in Int
      BY <1>1
    <3> QED
      BY <1>1, <3>1, ExcessFacts
  <2> QED
    BY <2>1, <2>2, LaterType
<1>9. date \in Rewards!Dates
  BY <1>1, EndsAreDates
<1> HIDE DEF old, new, x, p, date
<1>10. /\ AmountLocked(old) = 0
       /\ AmountLocked(new) = IF old.lockup.cooldown_requested THEN 0 ELSE a
  BY <1>1, <1>2, <1>3, <1>6, <1>7 DEF AmountLocked, IsStaked
<1>11. ~Irregular(old, new) => ~old.lockup.cooldown_requested \/ a = 0
  <2>1. 0 < a \/ a = 0
    BY <1>1
  <2> QED
    BY <1>2, <1>3, <1>6, <2>1 DEF Irregular, IsStaked
<1>12. DelegatedEffect(v, old, new)
  <2>1. ~IrregularForDelegate(old, new) =>
          a = AmountLocked(new) - AmountLocked(old)
    BY <1>1, <1>10, <1>11 DEF IrregularForDelegate
  <2>2. a >= AmountLocked(new) - AmountLocked(old)
    BY <1>1, <1>10
  <2>3. a \in Int
    BY <1>1
  <2> QED
    BY <1>1, <1>3, <1>5, <1>6, <1>8, <2>1, <2>2, <2>3, BookedForDelegate
<1>13. ASSUME Kept(old, new), NEW ts \in Rewards!Dates, ts >= now
       PROVE  ExcessAfter(x, ts) = ExcessAfter(mining.excess[v], ts)
                                     + Extra(new, ts) - Extra(old, ts)
  <2>1. ts \in Int /\ 0 \in Rewards!Dates
    BY StakingAssumption, SecsAssumption DEF Rewards!Dates
  <2>2. /\ ExcessAfter(mining.excess[v], ts) \in Int
        /\ ExcessAfter(x, ts) = ExcessAfter(mining.excess[v], ts)
             + (IF date > ts THEN Rewards!Excess(a, p) ELSE 0)
    <3> DEFINE weight == Rewards!Excess(a, p)
               before == mining.excess[v]
    <3>1. weight \in Int /\ before \in [Rewards!Dates -> Int]
      BY <1>8
    <3>2. x = Rewards!Later(before, date, weight)
      BY DEF x
    <3> HIDE DEF weight, before
    <3>3. /\ ExcessAfter(before, ts) \in Int
          /\ ExcessAfter(x, ts)
               = ExcessAfter(before, ts) + (IF date > ts THEN weight ELSE 0)
      BY <1>9, <2>1, <3>1, <3>2, ExcessChange
    <3> QED
      BY <3>3 DEF weight, before
  <2>3. Extra(old, ts) = 0
    BY <1>3, <1>8 DEF Extra, p
  <2>4. Extra(new, ts) = IF date > ts THEN Rewards!Excess(a, p) ELSE 0
    <3>1. CASE a = 0
      BY <1>6, <1>7, <1>8, <3>1 DEF Extra
    <3>2. CASE a # 0
      <4>1. a > 0 /\ ~old.lockup.cooldown_requested
        BY <1>1, <1>11, <1>13, <3>2 DEF Kept
      <4>2. old.lockup.start_ts = now
        BY <1>2, <1>3, <1>6, <1>7, <1>13, <4>1 DEF Kept, Late
      <4>3. new.lockup.end_ts = date /\ IsStaked(new)
        BY <1>2, <1>6, <1>7, <4>1, <4>2 DEF IsStaked, date
      <4> QED
        BY <1>6, <1>7, <4>3 DEF Extra
    <3> QED
      BY <3>1, <3>2
  <2> QED
    BY <1>8, <2>2, <2>3, <2>4
<1>14. /\ WeightEffect(v, old, new)
       /\ mining'.opened = mining.opened /\ mining'.cut = mining.cut
  <2>1. Kept(old, new) =>
          /\ mining.counted[v] + a
               = mining.counted[v] + AmountLocked(new) - AmountLocked(old)
          /\ \A ts \in Rewards!Dates : ts >= now =>
               ExcessAfter(x, ts) = ExcessAfter(mining.excess[v], ts)
                                      + Extra(new, ts) - Extra(old, ts)
    BY <1>1, <1>8, <1>10, <1>11, <1>13 DEF Kept
  <2>2. a \in Int
    BY <1>1
  <2> QED
    BY <1>1, <1>3, <1>8, <2>1, <2>2, BookedForOwner
<1> QED
  BY <1>3, <1>4, <1>12, <1>14 DEF Effect, old, new

\* extend_stake: the weight of the amount there goes from where it was put, and
\* comes back with the new amount for the new period.
LEMMA ExtendEffect ==
  ASSUME IInv, now <= MaxTs, StrictRewards, NEW v \in Voters,
         NEW source \in Slots, NEW j \in Slots, NEW q \in CallerPeriods,
         NEW a \in Amounts, ExtendStake(v, source, j, q, a)
  PROVE  Effect(v, j)
<1> DEFINE old == deposits[v][j]
           new == Extended(old, q, a, now)
           n == old.amount_deposited_native
           was == CurrentPeriod(old, now)
           ends == old.lockup.start_ts + ToSecs(was)
           date == now + ToSecs(q)
           rest == Rewards!Later(mining.excess[v], ends, -Rewards!Excess(n, was))
           x == Rewards!Later(rest, date, Rewards!Excess(n + a, q))
<1>1. /\ a \in Nat /\ now \in Nat /\ mining \in Rewards!MiningType
      /\ q \in LockupPeriod
      /\ old \in EntryType /\ old.lockup \in LockupType
      /\ n \in Nat /\ old.slashing_penalty \in Nat
      /\ old.lockup.period \in LockupPeriod /\ old.lockup.kind \in LockupKind
      /\ old.lockup.start_ts \in Nat /\ old.lockup.end_ts \in Nat
      /\ old.lockup.cooldown_requested \in BOOLEAN
      /\ old.is_used =>
           /\ old.lockup.start_ts <= now
           /\ old.lockup.end_ts = old.lockup.start_ts
                                    + ToSecs(old.lockup.period)
  BY EntryFacts, StakingAssumption DEF IInv, TypeOK, Amounts
<1>2. /\ SourceGives(v, source, a) /\ old.is_used
      /\ old.lockup.period # "None" /\ old.lockup.kind = "Constant"
      /\ source # j
      /\ Given(v, source, a)[j] = old
  <2>1. /\ SourceGives(v, source, a) /\ old.is_used
        /\ Given(v, source, a)[j].lockup.period # "None"
        /\ Given(v, source, a)[j].lockup.kind # "None"
    BY DEF ExtendStake, SameMint, Active
  <2>2. Given(v, source, a)[j] = IF j = source THEN Minus(old, a) ELSE old
    BY <1>1, GivenTarget DEF IInv
  <2>3. old.lockup.period # "None" /\ old.lockup.kind # "None"
    BY <1>1, <2>1, <2>2, MinusFields
  <2>4. source # j
    BY <2>1, <2>3 DEF SourceGives
  <2> QED
    BY <1>1, <2>1, <2>2, <2>3, <2>4 DEF LockupKind
<1>3. was \in LockupPeriod
  BY <1>1 DEF CurrentPeriod, LockupPeriod
<1>4. /\ deposits' = [deposits EXCEPT
           ![v] = [Given(v, source, a) EXCEPT ![j] = new]]
      /\ now' = now
      /\ Rank(q) >= Rank(was)
      /\ {v, old.delegate} \subseteq mining.opened
      /\ mining' = Rewards!Booked(v, old.delegate, a, x)
  <2>1. Rewards!ToSecs(q) = ToSecs(q) /\ Rewards!ToSecs(was) = ToSecs(was)
    BY <1>1, <1>3 DEF LockupPeriod, Rewards!ToSecs, ToSecs
  <2> HIDE DEF old
  <2> QED
    BY <1>2, <2>1 DEF ExtendStake, Rewards!ExtendMining, Rewards!Opened
<1>5. Focus(v, j) /\ deposits'[v][j] = new
  <2> HIDE DEF new
  <2>1. TypeOK
    BY DEF IInv
  <2>2. Gives(v, source, j, a, new)
    BY <1>2, <1>4 DEF Gives
  <2> QED
    BY <1>1, <1>2, <2>1, <2>2, FocusGiving
<1>6. new \in EntryType
  <2>1. Extends(old, new)
    BY <1>1, <1>2, <1>4 DEF Extends
  <2> QED
    BY <1>1, <2>1, EntryStepType DEF EntryStep
<1>7. /\ new.delegate = old.delegate /\ new.is_used = old.is_used
      /\ new.amount_deposited_native = n + a
      /\ new.slashing_penalty = old.slashing_penalty
      /\ new.lockup = Restarted(old.lockup, q, now)
  <2> HIDE DEF old
  <2>1. old \in EntryType
    BY <1>1
  <2>2. new.delegate = old.delegate
    BY <2>1, DelegateFields, SMTT(30)
  <2>3. new.is_used = old.is_used /\ new.lockup = Restarted(old.lockup, q, now)
    BY <2>1, ChangedFields
  <2>4. /\ new.amount_deposited_native = old.amount_deposited_native + a
        /\ new.slashing_penalty = old.slashing_penalty
    BY <2>1, Zenon DEF Extended, EntryType
  <2> QED
    BY <2>2, <2>3, <2>4
<1>8. /\ new.lockup.kind = old.lockup.kind /\ new.lockup.period = q
      /\ new.lockup.start_ts = now /\ new.lockup.end_ts = date
      /\ new.lockup.cooldown_requested = old.lockup.cooldown_requested
  <2> HIDE DEF old, new
  <2>1. old.lockup \in LockupType /\ new.lockup = Restarted(old.lockup, q, now)
    BY <1>1, <1>7
  <2> QED
    BY <2>1, RestartedLockup
<1>9. q # "None"
  <2> HIDE DEF old
  <2>1. was # "None"
    BY <1>2 DEF CurrentPeriod
  <2>2. Rank(q) >= Rank(was) /\ Rank(was) \in Nat /\ Rank(was) # 0
    BY <1>3, <1>4, <2>1, PeriodFacts
  <2> QED
    BY <1>1, <2>2, PeriodFacts
<1>10. old.delegate \in Voters /\ mining.excess[v] \in [Rewards!Dates -> Int]
       /\ mining.counted[v] \in Int
  BY <1>1, <1>4, MiningFields
<1>11. /\ Rewards!Excess(n, was) \in Int /\ -Rewards!Excess(n, was) \in Int
       /\ Rewards!Excess(n + a, q) \in Int /\ Rewards!Excess(n, "Flex") = 0
  <2> HIDE DEF n, was
  <2>1. n \in Int /\ a \in Int /\ n + a \in Int
    BY <1>1
  <2>2. Rewards!Excess(n, was) \in Int /\ Rewards!Excess(n + a, q) \in Int
    BY <1>1, <1>3, <2>1, LaterType
  <2>3. Rewards!Excess(n, "Flex") = 0
    BY <2>1 DEF Rewards!Excess, Rewards!PeriodMultiplier
  <2> QED
    BY <2>2, <2>3
<1>12. ends \in Rewards!Dates /\ date \in Rewards!Dates
  <2>1. old.lockup.start_ts <= MaxTs
    BY <1>1, <1>2, StakingAssumption
  <2> QED
    BY <1>1, <1>3, <2>1, EndsAreDates
<1>13. rest \in [Rewards!Dates -> Int] /\ x \in [Rewards!Dates -> Int]
  BY <1>10, <1>11, LaterType
<1>14. was = IF now >= old.lockup.end_ts THEN "Flex" ELSE old.lockup.period
  BY <1>1, <1>2 DEF CurrentPeriod, Expired, SecondsLeft
<1> HIDE DEF old, new, x, n, was, ends, date, rest
<1>15. /\ AmountLocked(old) = IF old.lockup.cooldown_requested THEN 0 ELSE n
       /\ AmountLocked(new) = IF old.lockup.cooldown_requested THEN 0 ELSE n + a
  BY <1>1, <1>2, <1>7, <1>8, <1>9 DEF AmountLocked, IsStaked, n
<1>16. ~Irregular(old, new) => ~old.lockup.cooldown_requested \/ a = 0
  <2>1. n < n + a \/ a = 0
    BY <1>1
  <2> QED
    BY <1>2, <1>7, <2>1 DEF Irregular, IsStaked, n
<1>17. DelegatedEffect(v, old, new)
  <2>1. ~IrregularForDelegate(old, new) =>
          a = AmountLocked(new) - AmountLocked(old)
    BY <1>1, <1>15, <1>16 DEF IrregularForDelegate
  <2>2. a >= AmountLocked(new) - AmountLocked(old)
    BY <1>1, <1>15
  <2>3. a \in Int
    BY <1>1
  <2> QED
    BY <1>1, <1>4, <1>6, <1>7, <1>10, <1>13, <2>1, <2>2, <2>3, BookedForDelegate
<1>18. ASSUME Kept(old, new), CooledLater(old)
       PROVE  ~old.lockup.cooldown_requested
  BY <1>1, <1>2, <1>7, <1>8, <1>18 DEF Kept, Reweighed, CooledLater
<1>19. ASSUME Kept(old, new), CooledLater(old), NEW ts \in Rewards!Dates,
              ts >= now
       PROVE  ExcessAfter(x, ts) = ExcessAfter(mining.excess[v], ts)
                                     + Extra(new, ts) - Extra(old, ts)
  <2>1. ts \in Int /\ 0 \in Rewards!Dates
    BY StakingAssumption, SecsAssumption DEF Rewards!Dates
  <2>2. /\ ExcessAfter(mining.excess[v], ts) \in Int
        /\ ExcessAfter(rest, ts) = ExcessAfter(mining.excess[v], ts)
             + (IF ends > ts THEN -Rewards!Excess(n, was) ELSE 0)
    BY <1>10, <1>11, <1>12, <2>1, ExcessChange DEF rest
  <2>3. ExcessAfter(x, ts) = ExcessAfter(rest, ts)
             + (IF date > ts THEN Rewards!Excess(n + a, q) ELSE 0)
    BY <1>11, <1>12, <1>13, <2>1, ExcessChange DEF x
  <2>4. IsStaked(old) /\ IsStaked(new)
    BY <1>2, <1>7, <1>8, <1>9, <1>18, <1>19 DEF IsStaked
  <2>5. Extra(new, ts) = IF date > ts THEN Rewards!Excess(n + a, q) ELSE 0
    BY <1>7, <1>8, <2>4 DEF Extra
  <2>6. Extra(old, ts) = IF ends > ts THEN Rewards!Excess(n, was) ELSE 0
    <3>1. CASE now >= old.lockup.end_ts
      BY <1>1, <1>11, <1>14, <1>19, <2>1, <3>1 DEF Extra
    <3>2. CASE ~(now >= old.lockup.end_ts)
      BY <1>1, <1>2, <1>14, <2>4, <3>2 DEF Extra, ends, n
    <3> QED
      BY <3>1, <3>2
  <2> QED
    BY <1>11, <2>2, <2>3, <2>5, <2>6
<1>20. /\ WeightEffect(v, old, new)
       /\ mining'.opened = mining.opened /\ mining'.cut = mining.cut
  <2>1. Kept(old, new) /\ CooledLater(old) =>
          /\ mining.counted[v] + a
               = mining.counted[v] + AmountLocked(new) - AmountLocked(old)
          /\ \A ts \in Rewards!Dates : ts >= now =>
               ExcessAfter(x, ts) = ExcessAfter(mining.excess[v], ts)
                                      + Extra(new, ts) - Extra(old, ts)
    BY <1>1, <1>10, <1>15, <1>18, <1>19
  <2>2. a \in Int
    BY <1>1
  <2> QED
    BY <1>1, <1>4, <1>10, <1>13, <2>1, <2>2, BookedForOwner
<1> QED
  BY <1>4, <1>5, <1>17, <1>20 DEF Effect, old, new

-----------------------------------------------------------------------------
(* All other steps. *)

LedgerKept ==
  /\ mining'.counted = mining.counted
  /\ mining'.delegated = mining.delegated
  /\ mining'.excess = mining.excess

EntriesQuiet ==
  \A w \in Voters, i \in Slots :
    \/ deposits'[w][i] = deposits[w][i]
    \/ Idle(deposits[w][i]) /\ Idle(deposits'[w][i])

\* Nothing staked changes; a mining is closed when nothing is delegated to it
\* and its owner has nothing staked.
Quiet ==
  /\ EntriesQuiet /\ LedgerKept
  /\ \/ mining.opened \subseteq mining'.opened
     \/ \E v \in Voters : /\ mining'.opened = mining.opened \ {v}
                          /\ mining.delegated[v] = 0
                          /\ \A i \in Slots : Idle(deposits[v][i])

\* The calls that book no amount.
LEMMA CallsWithoutAmount ==
  ASSUME mining \in Rewards!MiningType, NEW v \in Voters
  PROVE  /\ \/ Rewards!InitializeMining(v)
            \/ \E w : Rewards!DecreaseRewardsMining(v, w)
            \/ Rewards!ClaimMining(v)
            \/ Rewards!DistributeRewards(v)
            => LedgerKept /\ mining.opened \subseteq mining'.opened
         /\ Rewards!CloseMining(v) =>
              LedgerKept /\ mining'.opened = mining.opened \ {v}
<1>1. ASSUME Rewards!InitializeMining(v)
      PROVE  LedgerKept /\ mining.opened \subseteq mining'.opened
  <2>1. mining' = [mining EXCEPT !.opened = mining.opened \cup {v}]
    BY <1>1, Zenon DEF Rewards!InitializeMining
  <2>2. LedgerKept /\ mining'.opened = mining.opened \cup {v}
    BY <2>1, Zenon DEF LedgerKept, Rewards!MiningType
  <2> QED
    BY <2>2
<1>2. ASSUME NEW w, Rewards!DecreaseRewardsMining(v, w)
      PROVE  LedgerKept /\ mining'.opened = mining.opened
  BY <1>2, Zenon DEF Rewards!DecreaseRewardsMining, LedgerKept, Rewards!MiningType
<1>3. Rewards!ClaimMining(v) => LedgerKept /\ mining'.opened = mining.opened
  BY Zenon DEF Rewards!ClaimMining, LedgerKept, Rewards!MiningType
<1>4. Rewards!DistributeRewards(v) =>
        LedgerKept /\ mining'.opened = mining.opened
  BY Zenon DEF Rewards!DistributeRewards, LedgerKept, Rewards!MiningType
<1>5. Rewards!CloseMining(v) =>
        LedgerKept /\ mining'.opened = mining.opened \ {v}
  BY Zenon DEF Rewards!CloseMining, LedgerKept, Rewards!MiningType
<1> QED
  BY <1>1, <1>2, <1>3, <1>4, <1>5

\* Writing an idle entry over an idle one.
LEMMA QuietUpdate ==
  ASSUME TypeOK, NEW v \in Voters, NEW i \in Slots, NEW e,
         UpdateEntry(v, i, e), Idle(deposits[v][i]), Idle(e)
  PROVE  EntriesQuiet
BY FocusUpdate DEF Focus, EntriesQuiet

\* The entries that create_deposit_entry, deposit, withdraw and the closing
\* handlers leave are idle.
LEMMA IdleEntries ==
  ASSUME NEW d \in EntryType, NEW a \in Nat
  PROVE  /\ \A e, m, lockup : Idle(NewEntry(e, m, lockup))
         /\ Idle(EmptyEntry)
         /\ d.lockup.kind = "None" => Idle(d) /\ Idle(Plus(d, a))
         /\ CooledDown(d) => Idle(d) /\ Idle(Withdrawn(d, a))
<1>1. \A e, m, lockup : Idle(NewEntry(e, m, lockup))
  BY DEF Idle, AmountLocked, NewEntry
<1>2. Idle(EmptyEntry)
  BY DEF Idle, AmountLocked, EmptyEntry
<1>3. d.lockup.kind = "None" => Idle(d) /\ Idle(Plus(d, a))
  BY ChangedFields DEF Idle, AmountLocked, IsStaked
<1>4. ASSUME CooledDown(d)
      PROVE  Idle(d) /\ Idle(Withdrawn(d, a))
  <2>1. d.lockup.kind \in {"None", "Constant"}
    BY DEF EntryType, LockupType, LockupKind
  <2>2. ~IsStaked(d)
    BY <1>4, <2>1 DEF CooledDown, IsStaked
  <2>3. ~IsStaked(Withdrawn(d, a))
    BY <2>2, WithdrawnFields DEF IsStaked
  <2> QED
    BY <2>2, <2>3 DEF Idle, AmountLocked
<1> QED
  BY <1>1, <1>2, <1>3, <1>4

\* Every step is quiet, or one of the five calls.
LEMMA StepEffects ==
  ASSUME IInv, now <= MaxTs, StrictRewards, [Next]_vars
  PROVE  Quiet \/ \E v \in Voters, j \in Slots : Effect(v, j)
<1>1. TypeOK /\ mining \in Rewards!MiningType
      /\ deposits \in [Voters -> [Slots -> EntryType]] /\ Amounts \subseteq Nat
  BY StakingAssumption DEF IInv, TypeOK, Amounts
<1>2. deposits' = deposits => EntriesQuiet
  BY DEF EntriesQuiet
<1>3. EntriesQuiet /\ mining' = mining => Quiet
  BY DEF Quiet, LedgerKept
<1>4. ASSUME NEW v \in Voters, UserStep(v)
      PROVE  Quiet \/ \E w \in Voters, j \in Slots : Effect(w, j)
  <2>1. CASE CreateVoter(v)
    BY <1>1, <1>2, <2>1, CallsWithoutAmount DEF CreateVoter, Quiet
  <2>2. ASSUME NEW i \in Slots, NEW m \in MintIdx, NEW d \in Voters,
               NEW k \in LockupKind, NEW p \in CallerPeriods,
               CreateDepositEntry(v, i, d, k, p, m)
        PROVE  Quiet
    <3>1. Idle(deposits[v][i])
      BY <2>2 DEF CreateDepositEntry, Idle, AmountLocked, IsStaked
    <3>2. Idle(NewEntry(d, m, NewLockup(k, now, p)))
      BY <1>1, IdleEntries
    <3> QED
      BY <1>1, <1>3, <2>2, <3>1, <3>2, QuietUpdate DEF CreateDepositEntry
  <2>3. ASSUME NEW i \in Slots, NEW m \in MintIdx, NEW a \in Amounts,
               Deposit(v, i, m, a)
        PROVE  Quiet
    <3>1. Idle(deposits[v][i]) /\ Idle(Plus(deposits[v][i], a))
      BY <1>1, <2>3, IdleEntries DEF Deposit
    <3> QED
      BY <1>1, <1>3, <2>3, <3>1, QuietUpdate DEF Deposit
  <2>4. ASSUME NEW i \in Slots, NEW j \in Slots, NEW a \in Amounts,
               Stake(v, i, j, a)
        PROVE  Effect(v, j)
    BY <2>4, StakeEffect
  <2>5. ASSUME NEW i \in Slots, UnlockTokens(v, i)
        PROVE  Effect(v, i)
    BY <2>5, UnlockEffect
  <2>6. ASSUME NEW i \in Slots, NEW j \in Slots, NEW p \in CallerPeriods,
               NEW a \in Amounts, ExtendStake(v, i, j, p, a)
        PROVE  Effect(v, j)
    BY <2>6, ExtendEffect
  <2>7. ASSUME NEW i \in Slots, NEW d \in Voters, ChangeDelegate(v, i, d)
        PROVE  Effect(v, i)
    BY <2>7, RedelegateEffect
  <2>8. ASSUME NEW i \in Slots, NEW m \in MintIdx, NEW a \in Amounts,
               Withdraw(v, i, m, a)
        PROVE  Quiet
    <3>1. Idle(deposits[v][i]) /\ Idle(Withdrawn(deposits[v][i], a))
      BY <1>1, <2>8, IdleEntries DEF Withdraw
    <3> QED
      BY <1>1, <1>3, <2>8, <3>1, QuietUpdate DEF Withdraw
  <2>9. ASSUME NEW i \in Slots, CloseDepositEntry(v, i)
        PROVE  Quiet
    <3>1. Idle(deposits[v][i])
      BY <2>9 DEF CloseDepositEntry, Idle, AmountLocked
    <3>2. Idle(EmptyEntry)
      BY DEF Idle, AmountLocked, EmptyEntry
    <3> QED
      BY <1>1, <1>3, <2>9, <3>1, <3>2, QuietUpdate DEF CloseDepositEntry
  <2>10. CASE CloseVoter(v)
    <3>1. \A i \in Slots : Idle(deposits[v][i])
      BY <2>10 DEF CloseVoter, NothingLocked, Idle
    <3>2. \A w \in Voters, i \in Slots : deposits'[w][i]
            = IF w = v THEN EmptyEntry ELSE deposits[w][i]
      BY <1>1, <2>10 DEF CloseVoter, NoDeposits
    <3>3. Idle(EmptyEntry)
      BY DEF Idle, AmountLocked, EmptyEntry
    <3>4. EntriesQuiet
      BY <3>1, <3>2, <3>3 DEF EntriesQuiet
    <3>5. CASE Rewards!CloseMining(v)
      <4>1. /\ LedgerKept /\ mining'.opened = mining.opened \ {v}
            /\ mining.delegated[v] = 0
        BY <1>1, <3>5, CallsWithoutAmount DEF Rewards!CloseMining
      <4> QED
        BY <3>1, <3>4, <4>1 DEF Quiet
    <3>6. CASE UNCHANGED mining
      BY <3>4, <3>6 DEF Quiet, LedgerKept
    <3> QED
      BY <2>10, <3>5, <3>6 DEF CloseVoter
  <2>11. CASE Claim(v)
    BY <1>1, <1>2, <2>11, CallsWithoutAmount DEF Claim, Quiet
  <2>12. CASE UpdateVoterWeightRecord(v)
    BY <1>2, <1>3, <2>12 DEF UpdateVoterWeightRecord
  <2> QED
    BY <1>4, <2>1, <2>2, <2>3, <2>4, <2>5, <2>6, <2>7, <2>8, <2>9, <2>10,
       <2>11, <2>12 DEF UserStep
<1>5. ASSUME NEW v \in Voters, AuthorityStep(v)
      PROVE  Quiet \/ \E w \in Voters, j \in Slots : Effect(w, j)
  <2>1. ASSUME NEW i \in Slots, NEW a \in Amounts, Slash(v, i, a)
        PROVE  Effect(v, i)
    BY <2>1, SlashEffect
  <2>2. CASE \/ RestrictTokenflow(v) \/ AllowTokenflow(v)
             \/ \E until \in MintingDates : RestrictBatchMinting(v, until)
    BY <1>2, <1>3, <2>2
       DEF RestrictTokenflow, AllowTokenflow, RestrictBatchMinting
  <2>3. ASSUME NEW w \in 1 .. MaxDecrease, DecreaseRewards(v, w)
        PROVE  Quiet
    BY <1>1, <1>2, <2>3, CallsWithoutAmount DEF DecreaseRewards, Quiet
  <2> QED
    BY <1>5, <2>1, <2>2, <2>3 DEF AuthorityStep
<1>6. ASSUME NEW v \in Voters, GovernanceStep(v)
      PROVE  Quiet
  BY <1>2, <1>3, <1>6 DEF GovernanceStep, CastVote, RelinquishVote,
     CreateProposal, FinalizeProposal
<1>7. ASSUME NEW v \in Voters, Distribute(v)
      PROVE  Quiet
  BY <1>1, <1>2, <1>7, CallsWithoutAmount DEF Distribute, Quiet
<1>8. CASE NextSlot \/ UNCHANGED vars
  BY <1>2, <1>3, <1>8 DEF NextSlot, vars
<1> QED
  BY <1>4, <1>5, <1>6, <1>7, <1>8 DEF Next

\* Quiet entries are worth what they were.
LEMMA QuietMeasures ==
  ASSUME NEW old \in [Slots -> EntryType], NEW new \in [Slots -> EntryType],
         \A i \in Slots : new[i] = old[i] \/ (Idle(old[i]) /\ Idle(new[i]))
  PROVE  /\ StakedIn(new) = StakedIn(old)
         /\ \A d : StakedToIn(new, d) = StakedToIn(old, d)
         /\ \A ts : ExtraIn(new, ts) = ExtraIn(old, ts)
<1>1. \A i \in Slots : AmountLocked(new[i]) = AmountLocked(old[i])
  BY DEF Idle
<1>2. \A i \in Slots : \A d : LockedTo(new[i], d) = LockedTo(old[i], d)
  BY MeasureFacts
<1>3. \A i \in Slots : \A ts : Extra(new[i], ts) = Extra(old[i], ts)
  BY MeasureFacts
<1> QED
  BY <1>1, <1>2, <1>3 DEF StakedIn, StakedToIn, ExtraIn

-----------------------------------------------------------------------------
(* Delegates. *)

\* The sums of the properties are the sums over the entries.
LEMMA StakedSums ==
  /\ \A v : StakedBy(v) = StakedIn(deposits[v])
  /\ \A v, d : StakedTo(v, d) = StakedToIn(deposits[v], d)
  /\ \A v, d : StakedTo(v, d)' = StakedToIn(deposits'[v], d)
BY DEF StakedBy, StakedIn, StakedTo, StakedToIn, LockedTo

\* A step leaves entries.
LEMMA EntriesAfter ==
  ASSUME TypeOK, [Next]_vars, NEW v \in Voters
  PROVE  /\ deposits[v] \in [Slots -> EntryType]
         /\ deposits'[v] \in [Slots -> EntryType]
BY EveryStepIsEntryStep DEF TypeOK, EntryStepsOnly

\* The clock stays in its bound.
LEMMA ClockBounded ==
  ASSUME TypeOK, now <= MaxTs, [Next]_vars
  PROVE  now' <= MaxTs
<1>1. ASSUME NEW v \in Voters, UserStep(v)
      PROVE  now' = now
  <2>1. CreateVoter(v) \/ Claim(v) \/ CloseVoter(v) \/ UpdateVoterWeightRecord(v)
          => now' = now
    BY DEF CreateVoter, Claim, CloseVoter, UpdateVoterWeightRecord
  <2>2. /\ \A i, m, d, k, p : CreateDepositEntry(v, i, d, k, p, m) => now' = now
        /\ \A i, m, a : Deposit(v, i, m, a) => now' = now
    BY DEF CreateDepositEntry, Deposit
  <2>3. /\ \A i, j, a : Stake(v, i, j, a) => now' = now
        /\ \A i, j, p, a : ExtendStake(v, i, j, p, a) => now' = now
    BY DEF Stake, ExtendStake
  <2>4. /\ \A i : UnlockTokens(v, i) => now' = now
        /\ \A i, d : ChangeDelegate(v, i, d) => now' = now
    BY DEF UnlockTokens, ChangeDelegate
  <2>5. /\ \A i, m, a : Withdraw(v, i, m, a) => now' = now
        /\ \A i : CloseDepositEntry(v, i) => now' = now
    BY DEF Withdraw, CloseDepositEntry
  <2> QED
    BY <1>1, <2>1, <2>2, <2>3, <2>4, <2>5, Zenon DEF UserStep
<1>2. ASSUME NEW v \in Voters,
             AuthorityStep(v) \/ GovernanceStep(v) \/ Distribute(v)
      PROVE  now' = now
  BY <1>2 DEF AuthorityStep, Slash, RestrictTokenflow, AllowTokenflow,
     RestrictBatchMinting, DecreaseRewards, GovernanceStep, CastVote,
     RelinquishVote, CreateProposal, FinalizeProposal, Distribute
<1>3. NextSlot \/ UNCHANGED vars => now' <= MaxTs
  BY DEF NextSlot, vars
<1> QED
  BY <1>1, <1>2, <1>3 DEF Next

\* What the proofs about the ledger start from.
InTimeAndStrict == now <= MaxTs /\ StrictRewards
RInv == IInv /\ InTimeAndStrict

\* It holds throughout, against a strict rewards program.
LEMMA AlwaysRInv == StrictRewards /\ Spec => []RInv
<1>1. StrictRewards /\ Init => InTimeAndStrict
  BY StakingAssumption DEF Init, InTimeAndStrict
<1>2. ASSUME TypeOK, InTimeAndStrict, [Next]_vars
      PROVE  InTimeAndStrict'
  BY <1>2, ClockBounded DEF InTimeAndStrict
<1>3. TypeOK /\ EntriesWellFormed /\ InTimeAndStrict => RInv
  BY DEF RInv, IInv
<1> QED
  BY <1>1, <1>2, <1>3, TypeCorrect, EntriesStayWellFormed, PTL DEF Spec

\* What is delegated moves with the stakes in every step but the irregular ones.
THEOREM DelegatesAreFollowed ==
  StrictRewards /\ Spec => DelegatesFollowStakes
<1>1. ASSUME RInv, [Next]_vars
      PROVE  [\A v \in Voters :
                /\ deposits[v] # deposits'[v]
                /\ \A i \in Slots :
                     ~IrregularForDelegate(deposits[v][i], deposits'[v][i])
                => \A d \in Voters \ {v} :
                     mining'.delegated[d] - mining.delegated[d]
                       = StakedTo(v, d)' - StakedTo(v, d)]_vars
  <2> SUFFICES ASSUME NEW v \in Voters, deposits[v] # deposits'[v],
                      \A i \in Slots :
                        ~IrregularForDelegate(deposits[v][i], deposits'[v][i]),
                      NEW d \in Voters \ {v}
               PROVE  mining'.delegated[d] - mining.delegated[d]
                        = StakedTo(v, d)' - StakedTo(v, d)
    OBVIOUS
  <2>1. /\ IInv /\ TypeOK /\ now <= MaxTs /\ StrictRewards
        /\ mining.delegated[d] \in Int
    BY <1>1, MiningFields DEF RInv, InTimeAndStrict, IInv, TypeOK
  <2>2. /\ deposits[v] \in [Slots -> EntryType]
        /\ deposits'[v] \in [Slots -> EntryType]
    BY <1>1, <2>1, EntriesAfter
  <2>3. /\ StakedTo(v, d) = StakedToIn(deposits[v], d)
        /\ StakedTo(v, d)' = StakedToIn(deposits'[v], d)
        /\ StakedToIn(deposits[v], d) \in Nat
    BY <2>2, StakedSums, MeasureSums
  <2>4. CASE Quiet
    <3>1. StakedToIn(deposits'[v], d) = StakedToIn(deposits[v], d)
      BY <2>2, <2>4, QuietMeasures DEF Quiet, EntriesQuiet
    <3>2. mining'.delegated[d] = mining.delegated[d]
      BY <2>4 DEF Quiet, LedgerKept
    <3> QED
      BY <2>1, <2>3, <3>1, <3>2
  <2>5. ASSUME NEW w \in Voters, NEW j \in Slots, Effect(w, j)
        PROVE  mining'.delegated[d] - mining.delegated[d]
                 = StakedTo(v, d)' - StakedTo(v, d)
    <3>1. w = v
      BY <2>5 DEF Effect, Focus
    <3>2. /\ deposits[v][j] \in EntryType /\ deposits'[v][j] \in EntryType
          /\ \A i \in Slots \ {j} : \/ deposits'[v][i] = deposits[v][i]
                                    \/ Idle(deposits[v][i]) /\ Idle(deposits'[v][i])
      BY <2>2, <2>5, <3>1 DEF Effect, Focus
    <3>3. StakedToIn(deposits'[v], d) = StakedToIn(deposits[v], d)
            + LockedTo(deposits'[v][j], d) - LockedTo(deposits[v][j], d)
      BY <2>2, <3>2, MeasureChange
    <3>4. mining'.delegated[d] - mining.delegated[d]
            = LockedTo(deposits'[v][j], d) - LockedTo(deposits[v][j], d)
      BY <2>5, <3>1 DEF Effect, DelegatedEffect
    <3>5. /\ LockedTo(deposits'[v][j], d) \in Nat
          /\ LockedTo(deposits[v][j], d) \in Nat
      BY <3>2, MeasureFacts
    <3> QED
      BY <2>3, <3>3, <3>4, <3>5
  <2> QED
    BY <1>1, <2>1, <2>4, <2>5, StepEffects
<1> QED
  BY <1>1, AlwaysRInv, PTL DEF Spec, DelegatesFollowStakes
StakersOpen ==
  \A v \in Voters, i \in Slots : ~Idle(deposits[v][i]) => v \in mining.opened

\* What others have staked to d.
DelegatedTo(d) ==
  [w \in Voters |-> IF w = d THEN 0 ELSE StakedToIn(deposits[w], d)]

\* The inductive invariant: a mining that others delegate to cannot be closed
\* because what is delegated, all owners together, is known.
DelegInv ==
  /\ StakersOpen
  /\ \A d \in Voters \ misled :
       SumOfVoters(DelegatedTo(d)) <= mining.delegated[d]
  /\ DelegatesStayOpen

\* A delegate is not misled by any entry of others, or remembered.
LEMMA NotMisled ==
  ASSUME [DNext]_dvars, NEW d \in Voters, d \notin misled'
  PROVE  /\ [Next]_vars /\ d \notin misled
         /\ \A v \in Voters \ {d}, i \in Slots :
              deposits[v][i].delegate = d =>
                ~Misleads(deposits[v][i], deposits'[v][i])
<1>1. CASE DNext
  BY <1>1 DEF DNext
<1>2. CASE UNCHANGED dvars
  <2>1. deposits' = deposits /\ misled' = misled /\ UNCHANGED vars
    BY <1>2 DEF dvars, vars
  <2>2. \A e : ~Misleads(e, e)
    BY DEF Misleads
  <2> QED
    BY <2>1, <2>2
<1> QED
  BY <1>1, <1>2

\* The stakes delegated to a voter by others, one by one, are naturals.
LEMMA DelegatedToType ==
  ASSUME TypeOK, [Next]_vars, NEW d \in Voters
  PROVE  /\ DelegatedTo(d) \in [Voters -> Nat]
         /\ DelegatedTo(d)' \in [Voters -> Nat]
         /\ \A w \in Voters : w # d =>
              /\ DelegatedTo(d)[w] = StakedToIn(deposits[w], d)
              /\ DelegatedTo(d)'[w] = StakedToIn(deposits'[w], d)
         /\ DelegatedTo(d)[d] = 0 /\ DelegatedTo(d)'[d] = 0
<1>1. \A w \in Voters : /\ StakedToIn(deposits[w], d) \in Nat
                        /\ StakedToIn(deposits'[w], d) \in Nat
  BY EntriesAfter, MeasureSums
<1> QED
  BY <1>1 DEF DelegatedTo

\* One call: what is delegated to d grows with the stakes, or is taken away no
\* faster.
LEMMA EffectOnDelegate ==
  ASSUME TypeOK, [DNext]_dvars, NEW v \in Voters, NEW j \in Slots, Effect(v, j),
         NEW d \in Voters, d \notin misled',
         SumOfVoters(DelegatedTo(d)) <= mining.delegated[d]
  PROVE  SumOfVoters(DelegatedTo(d)') <= mining'.delegated[d]
<1>1. /\ [Next]_vars
      /\ d # v /\ deposits[v][j].delegate = d =>
           ~Misleads(deposits[v][j], deposits'[v][j])
  BY NotMisled
<1>2. /\ deposits[v] \in [Slots -> EntryType]
      /\ deposits'[v] \in [Slots -> EntryType]
      /\ deposits[v][j] \in EntryType /\ deposits'[v][j] \in EntryType
  BY <1>1, EntriesAfter
<1> DEFINE f == DelegatedTo(d)
           g == DelegatedTo(d)'
           more == LockedTo(deposits'[v][j], d) - LockedTo(deposits[v][j], d)
<1>3. f \in [Voters -> Nat] /\ g \in [Voters -> Nat]
  BY <1>1, DelegatedToType
<1>4. \A w \in Voters \ {v} : f[w] = g[w]
  <2>1. \A w \in Voters \ {v} : deposits'[w] = deposits[w]
    BY DEF Effect, Focus
  <2> QED
    BY <1>1, <2>1, DelegatedToType
<1>5. g[v] - f[v] = IF d = v THEN 0 ELSE more
  <2>1. StakedToIn(deposits'[v], d) = StakedToIn(deposits[v], d)
          + LockedTo(deposits'[v][j], d) - LockedTo(deposits[v][j], d)
    BY <1>2, MeasureChange DEF Effect, Focus
  <2>2. StakedToIn(deposits[v], d) \in Nat
    BY <1>2, MeasureSums
  <2>3. /\ LockedTo(deposits'[v][j], d) \in Nat
        /\ LockedTo(deposits[v][j], d) \in Nat
    BY <1>2, MeasureFacts
  <2> QED
    BY <1>1, <2>1, <2>2, <2>3, DelegatedToType
<1>6. mining'.delegated[d] - mining.delegated[d] >= IF d = v THEN 0 ELSE more
  <2>1. DelegatedEffect(v, deposits[v][j], deposits'[v][j])
    BY DEF Effect
  <2> QED
    BY <1>1, <2>1 DEF DelegatedEffect
<1>7. SumOfVoters(f) \in Nat /\ SumOfVoters(g) \in Nat
  BY <1>3, SumOfVotersType
<1>8. mining.delegated[d] \in Int /\ mining'.delegated[d] \in Int
  <2>1. TypeOK'
    BY <1>1, NextType
  <2> QED
    BY <2>1, MiningFields DEF TypeOK, Rewards!MiningType
<1> HIDE DEF f, g, more
<1>9. SumOfVoters(g) = SumOfVoters(f) + g[v] - f[v]
  <2>1. f \in [Voters -> Int] /\ g \in [Voters -> Int]
    BY <1>3
  <2> QED
    BY <1>4, <2>1, SumOfVotersChange
<1>10. f[v] \in Nat /\ g[v] \in Nat
  BY <1>3
<1>11. SumOfVoters(f) <= mining.delegated[d]
  BY DEF f
<1>12. SumOfVoters(g) <= mining'.delegated[d]
  BY <1>5, <1>6, <1>7, <1>8, <1>9, <1>10, <1>11
<1> QED
  BY <1>12 DEF g

\* DelegInv is inductive.
LEMMA NextDelegInv ==
  ASSUME RInv, DelegInv, [DNext]_dvars
  PROVE  DelegInv'
<1>1. /\ [Next]_vars /\ TypeOK /\ TypeOK'
      /\ Quiet \/ \E v \in Voters, j \in Slots : Effect(v, j)
  <2>1. [Next]_vars
    BY DEF DNext, dvars
  <2> QED
    BY <2>1, StepEffects, NextType DEF RInv, InTimeAndStrict, IInv
<1>2. \A v \in Voters : /\ deposits[v] \in [Slots -> EntryType]
                        /\ deposits'[v] \in [Slots -> EntryType]
  BY <1>1, EntriesAfter
<1>3. \A d \in Voters : mining.delegated[d] \in Int
  BY <1>1, MiningFields DEF TypeOK
<1>4. StakersOpen'
  <2> SUFFICES ASSUME NEW w \in Voters, NEW i \in Slots, ~Idle(deposits'[w][i])
               PROVE  w \in mining'.opened
    BY DEF StakersOpen, Idle
  <2>1. CASE Quiet
    <3>1. deposits'[w][i] = deposits[w][i] /\ ~Idle(deposits[w][i])
      BY <2>1 DEF Quiet, EntriesQuiet
    <3> QED
      BY <2>1, <3>1 DEF Quiet, DelegInv, StakersOpen
  <2>2. ASSUME NEW v \in Voters, NEW j \in Slots, Effect(v, j)
        PROVE  w \in mining'.opened
    BY <2>2 DEF Effect, Focus, DelegInv, StakersOpen
  <2> QED
    BY <1>1, <2>1, <2>2
<1>5. ASSUME NEW d \in Voters \ misled'
      PROVE  SumOfVoters(DelegatedTo(d)') <= mining'.delegated[d]
  <2>1. /\ d \notin misled /\ d \in Voters
        /\ SumOfVoters(DelegatedTo(d)) <= mining.delegated[d]
    BY <1>5, NotMisled DEF DelegInv
  <2>2. CASE Quiet
    <3>1. \A w \in Voters :
            StakedToIn(deposits'[w], d) = StakedToIn(deposits[w], d)
      BY <1>2, <2>2, QuietMeasures DEF Quiet, EntriesQuiet
    <3>2. DelegatedTo(d)' = DelegatedTo(d)
      BY <3>1 DEF DelegatedTo
    <3> QED
      BY <2>1, <2>2, <3>2 DEF Quiet, LedgerKept
  <2>3. ASSUME NEW v \in Voters, NEW j \in Slots, Effect(v, j)
        PROVE  SumOfVoters(DelegatedTo(d)') <= mining'.delegated[d]
    BY <1>1, <1>5, <2>1, <2>3, EffectOnDelegate
  <2> QED
    BY <1>1, <2>2, <2>3
<1>6. ASSUME NEW v \in Voters, NEW d \in Voters, d = v \/ d \notin misled',
             StakedToIn(deposits'[v], d) > 0
      PROVE  d \in mining'.opened
  <2>1. \E i \in Slots : ~Idle(deposits'[v][i])
    BY <1>2, <1>6, MeasureSums
  <2>2. CASE d = v
    <3>1. PICK i \in Slots : ~Idle(deposits'[v][i])
      BY <2>1
    <3> QED
      BY <1>4, <2>2, <3>1 DEF StakersOpen, Idle
  <2>3. CASE d # v /\ Quiet
    <3>1. /\ d \notin misled /\ SumOfVoters(DelegatedTo(d)) <= mining.delegated[d]
      BY <1>6, <2>3, NotMisled DEF DelegInv
    <3>2. StakedToIn(deposits'[v], d) = StakedToIn(deposits[v], d)
      BY <1>2, <2>3, QuietMeasures DEF Quiet, EntriesQuiet
    <3>3. d \in mining.opened
      BY <1>6, <3>1, <3>2, StakedSums DEF DelegInv, DelegatesStayOpen
    <3>4. mining.delegated[d] # 0
      <4>1. /\ DelegatedTo(d) \in [Voters -> Nat]
            /\ DelegatedTo(d)[v] = StakedToIn(deposits[v], d)
        BY <1>1, <2>3, DelegatedToType
      <4>2. /\ SumOfVoters(DelegatedTo(d)) \in Nat
            /\ DelegatedTo(d)[v] <= SumOfVoters(DelegatedTo(d))
        BY <4>1, SumOfVotersType
      <4>3. StakedToIn(deposits[v], d) \in Nat
        BY <1>2, MeasureSums
      <4> QED
        BY <1>3, <1>6, <3>1, <3>2, <4>1, <4>2, <4>3
    <3> QED
      BY <2>3, <3>3, <3>4 DEF Quiet
  <2>4. ASSUME d # v, NEW u \in Voters, NEW j \in Slots, Effect(u, j)
        PROVE  d \in mining'.opened
    <3>1. mining'.opened = mining.opened
      BY <2>4 DEF Effect
    <3>2. d \notin misled
      BY <1>6, <2>4, NotMisled
    <3>3. CASE StakedToIn(deposits[v], d) > 0
      BY <3>1, <3>2, <3>3, StakedSums DEF DelegInv, DelegatesStayOpen
    <3>4. CASE ~(StakedToIn(deposits[v], d) > 0)
      <4>1. u = v
        BY <1>6, <2>4, <3>4 DEF Effect, Focus
      <4>2. /\ deposits[v][j] \in EntryType /\ deposits'[v][j] \in EntryType
        BY <1>2, <2>4
      <4>3. StakedToIn(deposits'[v], d) = StakedToIn(deposits[v], d)
              + LockedTo(deposits'[v][j], d) - LockedTo(deposits[v][j], d)
        BY <1>2, <2>4, <4>1, MeasureChange DEF Effect, Focus
      <4>4. LockedTo(deposits'[v][j], d) > LockedTo(deposits[v][j], d)
        <5>1. /\ StakedToIn(deposits[v], d) \in Nat
              /\ LockedTo(deposits'[v][j], d) \in Nat
              /\ LockedTo(deposits[v][j], d) \in Nat
          BY <1>2, <4>2, MeasureSums, MeasureFacts
        <5> QED
          BY <1>6, <3>4, <4>3, <5>1
      <4>5. d \in mining.opened
        BY <2>4, <4>1, <4>4 DEF Effect, DelegatedEffect
      <4> QED
        BY <3>1, <4>5
    <3> QED
      BY <3>3, <3>4
  <2> QED
    BY <1>1, <2>2, <2>3, <2>4
<1>7. DelegatesStayOpen'
  BY <1>6, StakedSums DEF DelegatesStayOpen
<1> QED
  BY <1>4, <1>5, <1>7 DEF DelegInv

\* While stakes are delegated to a voter its mining stays open, unless the
\* rewards program was told to take from it tokens that were not staked.
THEOREM DelegatesAlwaysOpen ==
  StrictRewards /\ DSpec => []DelegatesStayOpen
<1>1. DInit => DelegInv
  <2> SUFFICES ASSUME DInit
               PROVE  DelegInv
    OBVIOUS
  <2>1. TypeOK /\ Init
    BY InitType DEF DInit
  <2>2. \A v \in Voters, i \in Slots : Idle(deposits[v][i])
    BY <2>1 DEF Init, NoDeposits, EmptyEntry, Idle, AmountLocked
  <2>3. \A v \in Voters : /\ deposits[v] \in [Slots -> EntryType]
                          /\ \A d : StakedToIn(deposits[v], d) = 0
    BY <2>1, <2>2, MeasureSums DEF TypeOK
  <2>4. ASSUME NEW d \in Voters
        PROVE  SumOfVoters(DelegatedTo(d)) <= mining.delegated[d]
    <3>1. /\ DelegatedTo(d) \in [Voters -> Int]
          /\ \A w \in Voters : DelegatedTo(d)[w] = 0
      BY <2>3 DEF DelegatedTo
    <3>2. SumOfVoters(DelegatedTo(d)) = 0
      BY <3>1, SumOfVotersZeros
    <3>3. mining.delegated[d] = 0
      BY <2>1 DEF Init, Rewards!NoMining
    <3> QED
      BY <3>2, <3>3
  <2>5. DelegatesStayOpen
    BY <2>3, StakedSums DEF DelegatesStayOpen
  <2> QED
    BY <2>2, <2>4, <2>5 DEF DelegInv, StakersOpen
<1>2. RInv /\ DelegInv /\ [DNext]_dvars => DelegInv'
  BY NextDelegInv
<1>3. DInit => Init
  BY DEF DInit
<1>4. [DNext]_dvars => [Next]_vars
  BY DEF DNext, dvars
<1>5. DelegInv => DelegatesStayOpen
  BY DEF DelegInv
<1> QED
  BY <1>1, <1>2, <1>3, <1>4, <1>5, AlwaysRInv, PTL DEF Spec, DSpec

-----------------------------------------------------------------------------
(* Weights. *)

Decreased(v) == penalties[v].decreased_weighted_stake_by

\* decrease_rewards is recorded on both sides.
CutRecorded == \A v \in Voters : status[v] # "closed" => mining.cut[v] = Decreased(v)

\* A call that is not decrease_rewards takes no weight.
LEMMA CutsKept ==
  ASSUME mining \in Rewards!MiningType, NEW v \in Voters
  PROVE  /\ \/ Rewards!InitializeMining(v)
            \/ Rewards!ClaimMining(v)
            \/ Rewards!DistributeRewards(v)
            \/ Rewards!CloseMining(v)
            => mining'.cut = mining.cut
         /\ \A w \in Nat : Rewards!DecreaseRewardsMining(v, w) =>
              \A u \in Voters : mining'.cut[u] =
                IF u = v THEN mining.cut[u] + w ELSE mining.cut[u]
<1>1. Rewards!InitializeMining(v) => mining'.cut = mining.cut
  BY Zenon DEF Rewards!InitializeMining, Rewards!MiningType
<1>2. Rewards!ClaimMining(v) => mining'.cut = mining.cut
  BY Zenon DEF Rewards!ClaimMining, Rewards!MiningType
<1>3. Rewards!DistributeRewards(v) => mining'.cut = mining.cut
  BY Zenon DEF Rewards!DistributeRewards, Rewards!MiningType
<1>4. Rewards!CloseMining(v) => mining'.cut = mining.cut
  BY Zenon DEF Rewards!CloseMining, Rewards!MiningType
<1>5. ASSUME NEW w \in Nat, Rewards!DecreaseRewardsMining(v, w)
      PROVE  \A u \in Voters : mining'.cut[u] =
               IF u = v THEN mining.cut[u] + w ELSE mining.cut[u]
  <2> DEFINE cut == [mining.cut EXCEPT ![v] = @ + w]
  <2>1. mining' = [mining EXCEPT !.cut = cut]
    BY <1>5, Zenon DEF Rewards!DecreaseRewardsMining, Rewards!MiningType
  <2> HIDE DEF cut
  <2>2. mining'.cut = cut
    BY <2>1, Zenon DEF Rewards!MiningType
  <2>3. mining.cut \in [Voters -> Nat]
    BY MiningFields
  <2> QED
    BY <2>2, <2>3 DEF cut
<1> QED
  BY <1>1, <1>2, <1>3, <1>4, <1>5

\* CutRecorded is inductive.
LEMMA NextCut ==
  ASSUME RInv, CutRecorded, [Next]_vars
  PROVE  CutRecorded'
<1>1. /\ IInv /\ TypeOK /\ mining \in Rewards!MiningType
      /\ now <= MaxTs /\ StrictRewards
      /\ penalties \in [Voters -> PenaltyType]
      /\ status \in [Voters -> {"absent", "open", "closed"}]
  BY DEF RInv, InTimeAndStrict, IInv, TypeOK
<1>2. ASSUME status' = status, penalties' = penalties, mining'.cut = mining.cut
      PROVE  CutRecorded'
  BY <1>2 DEF CutRecorded, Decreased
<1>3. ASSUME NEW v \in Voters, UserStep(v)
      PROVE  CutRecorded'
  <2>1. CASE CreateVoter(v)
    <3>1. mining'.cut = mining.cut
      BY <1>1, <2>1, CutsKept DEF CreateVoter
    <3>2. /\ penalties' = penalties
          /\ \A w \in Voters : status'[w] # "closed" => status[w] # "closed"
      BY <1>1, <2>1 DEF CreateVoter
    <3> QED
      BY <3>1, <3>2 DEF CutRecorded, Decreased
  <2>2. CASE CloseVoter(v)
    <3>1. mining'.cut = mining.cut
      BY <1>1, <2>2, CutsKept DEF CloseVoter
    <3>2. /\ status'[v] = "closed"
          /\ \A w \in Voters \ {v} : /\ penalties'[w] = penalties[w]
                                     /\ status'[w] = status[w]
      BY <1>1, <2>2 DEF CloseVoter
    <3> QED
      BY <3>1, <3>2 DEF CutRecorded, Decreased
  <2>3. ASSUME NEW i \in Slots, NEW j \in Slots, NEW a \in Amounts,
               Stake(v, i, j, a)
        PROVE  CutRecorded'
    <3>1. Effect(v, j)
      BY <1>1, <2>3, StakeEffect
    <3> QED
      BY <1>2, <2>3, <3>1 DEF Stake, Effect
  <2>4. ASSUME NEW i \in Slots, UnlockTokens(v, i)
        PROVE  CutRecorded'
    <3>1. Effect(v, i)
      BY <1>1, <2>4, UnlockEffect
    <3> QED
      BY <1>2, <2>4, <3>1 DEF UnlockTokens, Effect
  <2>5. ASSUME NEW i \in Slots, NEW j \in Slots, NEW p \in CallerPeriods,
               NEW a \in Amounts, ExtendStake(v, i, j, p, a)
        PROVE  CutRecorded'
    <3>1. Effect(v, j)
      BY <1>1, <2>5, ExtendEffect
    <3> QED
      BY <1>2, <2>5, <3>1 DEF ExtendStake, Effect
  <2>6. ASSUME NEW i \in Slots, NEW d \in Voters, ChangeDelegate(v, i, d)
        PROVE  CutRecorded'
    <3>1. Effect(v, i)
      BY <1>1, <2>6, RedelegateEffect
    <3> QED
      BY <1>2, <2>6, <3>1 DEF ChangeDelegate, Effect
  <2>7. CASE Claim(v)
    BY <1>1, <1>2, <2>7, CutsKept DEF Claim
  <2>8. CASE status' = status /\ penalties' = penalties /\ mining' = mining
    BY <1>2, <2>8
  <2> QED
    BY <1>3, <2>1, <2>2, <2>3, <2>4, <2>5, <2>6, <2>7, <2>8 DEF UserStep,
       CreateDepositEntry, Deposit, Withdraw, CloseDepositEntry,
       UpdateVoterWeightRecord
<1>4. ASSUME NEW v \in Voters, AuthorityStep(v)
      PROVE  CutRecorded'
  <2>1. ASSUME NEW i \in Slots, NEW a \in Amounts, Slash(v, i, a)
        PROVE  CutRecorded'
    <3>1. Effect(v, i)
      BY <1>1, <2>1, SlashEffect
    <3> QED
      BY <1>2, <2>1, <3>1 DEF Slash, Effect
  <2>2. CASE \/ RestrictTokenflow(v) \/ AllowTokenflow(v)
             \/ \E until \in MintingDates : RestrictBatchMinting(v, until)
    <3>1. \/ \E b \in BOOLEAN : penalties' = [penalties EXCEPT
               ![v] = [penalties[v] EXCEPT !.tokenflow_restricted = b]]
          \/ \E t : penalties' = [penalties EXCEPT
               ![v] = [penalties[v] EXCEPT !.batch_minting_restricted_until = t]]
      BY <2>2 DEF RestrictTokenflow, AllowTokenflow, RestrictBatchMinting
    <3>a. PICK p : /\ penalties' = [penalties EXCEPT ![v] = p]
                   /\ p.decreased_weighted_stake_by = Decreased(v)
      <4>1. penalties[v] \in PenaltyType
        BY <1>1
      <4> QED
        BY <3>1, <4>1, Zenon DEF Decreased, PenaltyType
    <3>2. \A w \in Voters : Decreased(w)' = Decreased(w)
      BY <1>1, <3>a DEF Decreased
    <3>3. status' = status /\ mining' = mining
      BY <2>2 DEF RestrictTokenflow, AllowTokenflow, RestrictBatchMinting
    <3> QED
      BY <3>2, <3>3 DEF CutRecorded
  <2>3. ASSUME NEW w \in 1 .. MaxDecrease, DecreaseRewards(v, w)
        PROVE  CutRecorded'
    <3> DEFINE sum == Decreased(v) + w
    <3>1. w \in Nat /\ status' = status
      BY <2>3, StakingAssumption DEF DecreaseRewards
    <3>2. \A u \in Voters : mining'.cut[u] =
            IF u = v THEN mining.cut[u] + w ELSE mining.cut[u]
      BY <1>1, <2>3, <3>1, CutsKept DEF DecreaseRewards
    <3>3. penalties' = [penalties EXCEPT ![v] =
            [penalties[v] EXCEPT !.decreased_weighted_stake_by = sum]]
      BY <1>1, <2>3, Zenon DEF DecreaseRewards, Decreased, PenaltyType
    <3> HIDE DEF sum
    <3>4. /\ Decreased(v)' = sum
          /\ \A u \in Voters \ {v} : Decreased(u)' = Decreased(u)
      BY <1>1, <3>3, Zenon DEF Decreased, PenaltyType
    <3> QED
      BY <3>1, <3>2, <3>4 DEF CutRecorded, sum
  <2> QED
    BY <1>4, <2>1, <2>2, <2>3 DEF AuthorityStep
<1>5. ASSUME NEW v \in Voters, GovernanceStep(v)
      PROVE  CutRecorded'
  BY <1>2, <1>5 DEF GovernanceStep, CastVote, RelinquishVote,
     CreateProposal, FinalizeProposal
<1>6. ASSUME NEW v \in Voters, Distribute(v)
      PROVE  CutRecorded'
  BY <1>1, <1>2, <1>6, CutsKept DEF Distribute
<1>7. CASE NextSlot \/ UNCHANGED vars
  BY <1>2, <1>7 DEF NextSlot, vars
<1> QED
  BY <1>3, <1>4, <1>5, <1>6, <1>7 DEF Next

\* What the rewards program holds for v is what the entries of v are worth, now
\* and on every date to come.
WeighedRight(v) ==
  /\ \A i \in Slots : CooledLater(deposits[v][i])
  /\ mining.counted[v] = StakedIn(deposits[v])
  /\ \A ts \in Rewards!Dates : ts >= now =>
       ExcessAfter(mining.excess[v], ts) = ExtraIn(deposits[v], ts)

\* The inductive invariant: the weights agree on every date, not only today.
WeightsInv == CutRecorded /\ \A v \in Voters \ irregular : WeighedRight(v)

\* The calls on entries of a voter who is not irregular were meant for their
\* states.
LEMMA NotIrregular ==
  ASSUME [WNext]_wvars, NEW v \in Voters, v \notin irregular'
  PROVE  /\ [Next]_vars /\ v \notin irregular
         /\ \A i \in Slots :
              \/ Kept(deposits[v][i], deposits'[v][i])
              \/ deposits'[v][i] = deposits[v][i]
<1>1. CASE WNext
  BY <1>1 DEF WNext, Kept
<1>2. CASE UNCHANGED wvars
  BY <1>2 DEF wvars, vars
<1> QED
  BY <1>1, <1>2

\* A cooldown runs from a later time than the lock, and extend_stake, which
\* starts the lock anew, is not meant for an entry in its cooldown.
LEMMA NextCooledLater ==
  ASSUME IInv, [Next]_vars, NEW v \in Voters, NEW i \in Slots,
         CooledLater(deposits[v][i]),
         \/ Kept(deposits[v][i], deposits'[v][i])
         \/ deposits'[v][i] = deposits[v][i]
  PROVE  CooledLater(deposits[v][i])'
<1> DEFINE old == deposits[v][i]
           new == deposits'[v][i]
           was == old.lockup
           is == new.lockup
<1>1. /\ old \in EntryType /\ was \in LockupType /\ now \in Nat
      /\ was.start_ts \in Nat /\ was.period \in LockupPeriod
      /\ now' \in Nat /\ now <= now'
      /\ EntryStep(old, new)
      /\ old.is_used => /\ ValidLockup(was.kind, was.period)
                        /\ was.end_ts = was.start_ts + ToSecs(was.period)
  BY EntryFacts, EveryStepIsEntryStep, ClockForward
     DEF IInv, TypeOK, EntryStepsOnly
<1> SUFFICES ASSUME new.is_used, is.kind = "Constant", is.cooldown_requested
             PROVE  is.start_ts < now'
  BY DEF CooledLater
<1>2. Kept(old, new) \/ new = old
  OBVIOUS
<1>3. CooledLater(old)
  OBVIOUS
<1> HIDE DEF old, new
<1>4. CASE new = old
  BY <1>1, <1>3, <1>4 DEF CooledLater
<1>5. ~Creates(old, new)
  <2>1. Creates(old, new) => ~is.cooldown_requested
    BY DEF Creates, NewEntry, NewLockup
  <2> QED
    BY <2>1
<1>6. CASE /\ new # old /\ old.is_used /\ LockupStep(was, is)
  <2>1. Kept(old, new)
    BY <1>2, <1>6
  <2>2. old.is_used /\ new.is_used /\ CooledLater(old)
    BY <1>3, <1>6
  <2>3. was.kind = "Constant" /\ was.cooldown_requested => was.start_ts < now
    BY <2>2 DEF CooledLater
  <2>4. was.cooldown_requested => was.start_ts = is.start_ts
    BY <2>1, <2>2 DEF Kept, Reweighed
  <2> HIDE DEF was, is
  <2>5. CASE is = was
    BY <1>1, <2>3, <2>5
  <2>6. CASE is = Ending(was)
    <3>1. /\ is.kind = was.kind /\ is.start_ts = was.start_ts
          /\ is.cooldown_requested = was.cooldown_requested
      BY <1>1, <2>6, ChangedLockup
    <3> QED
      BY <1>1, <2>3, <3>1
  <2>7. CASE now >= was.end_ts /\ is = Cooling(was, now)
    <3>1. is.kind = was.kind /\ is.start_ts = was.start_ts
      BY <1>1, <2>7, ChangedLockup
    <3>2. was.period # "None" /\ was.end_ts = was.start_ts + ToSecs(was.period)
      BY <1>1, <2>2, <3>1 DEF ValidLockup
    <3>3. ToSecs(was.period) \in Nat /\ ToSecs(was.period) > 0
      BY <1>1, <3>2, SecsAssumption DEF ToSecs, LockupPeriod
    <3> QED
      BY <1>1, <2>7, <3>1, <3>2, <3>3
  <2>8. ASSUME NEW period \in LockupPeriod, is = Restarted(was, period, now)
        PROVE  is.start_ts < now'
    <3>1. /\ is.kind = was.kind /\ is.start_ts = now
          /\ is.cooldown_requested = was.cooldown_requested
      BY <1>1, <2>8, RestartedLockup
    <3> QED
      BY <1>1, <2>3, <2>4, <3>1
  <2> QED
    BY <1>6, <2>5, <2>6, <2>7, <2>8 DEF LockupStep
<1> QED
  BY <1>1, <1>4, <1>5, <1>6, StepOfEntry

\* WeightsInv is inductive.
LEMMA NextWeightsInv ==
  ASSUME RInv, WeightsInv, [WNext]_wvars
  PROVE  WeightsInv'
<1>1. /\ [Next]_vars /\ IInv /\ TypeOK /\ now \in Nat /\ now' \in Nat
      /\ now <= now'
      /\ Quiet \/ \E v \in Voters, j \in Slots : Effect(v, j)
  <2>1. [Next]_vars
    BY DEF WNext, wvars
  <2> QED
    BY <2>1, StepEffects, ClockForward DEF RInv, InTimeAndStrict, IInv, TypeOK
<1>2. CutRecorded'
  BY <1>1, NextCut DEF WeightsInv
<1>3. ASSUME NEW v \in Voters \ irregular'
      PROVE  WeighedRight(v)'
  <2>1. /\ v \in Voters /\ WeighedRight(v)
        /\ \A i \in Slots : \/ Kept(deposits[v][i], deposits'[v][i])
                            \/ deposits'[v][i] = deposits[v][i]
    BY <1>3, NotIrregular DEF WeightsInv
  <2>2. \A i \in Slots : CooledLater(deposits[v][i])'
    BY <1>1, <2>1, NextCooledLater DEF WeighedRight
  <2>3. /\ deposits[v] \in [Slots -> EntryType]
        /\ deposits'[v] \in [Slots -> EntryType]
    BY <1>1, <2>1, EntriesAfter
  <2>4. \A ts \in Rewards!Dates : ts >= now' => ts >= now
    BY <1>1 DEF Rewards!Dates
  <2>5. CASE \/ Quiet
             \/ \E w \in Voters \ {v}, j \in Slots : Effect(w, j)
    <3>1. /\ mining'.counted[v] = mining.counted[v]
          /\ mining'.excess[v] = mining.excess[v]
      BY <2>1, <2>5 DEF Quiet, LedgerKept, Effect, WeightEffect
    <3>2. \A i \in Slots :
            \/ deposits'[v][i] = deposits[v][i]
            \/ Idle(deposits[v][i]) /\ Idle(deposits'[v][i])
      BY <2>1, <2>5 DEF Quiet, EntriesQuiet, Effect, Focus
    <3>3. /\ StakedIn(deposits'[v]) = StakedIn(deposits[v])
          /\ \A ts : ExtraIn(deposits'[v], ts) = ExtraIn(deposits[v], ts)
      BY <2>3, <3>2, QuietMeasures
    <3> QED
      BY <2>1, <2>2, <2>4, <3>1, <3>3 DEF WeighedRight
  <2>6. ASSUME NEW j \in Slots, Effect(v, j)
        PROVE  WeighedRight(v)'
    <3> DEFINE old == deposits[v][j]
               new == deposits'[v][j]
    <3>1. /\ now' = now /\ WeightEffect(v, old, new) /\ CooledLater(old)
          /\ \A i \in Slots \ {j} :
               \/ deposits'[v][i] = deposits[v][i]
               \/ Idle(deposits[v][i]) /\ Idle(deposits'[v][i])
      BY <2>1, <2>6 DEF Effect, Focus, WeighedRight
    <3>2. Kept(old, new)
      <4>1. \A e \in EntryType : Kept(e, e)
        BY DEF EntryType, Kept, Irregular, Reweighed, Late
      <4> QED
        BY <2>1, <2>3, <4>1
    <3>3. /\ StakedIn(deposits'[v]) = StakedIn(deposits[v])
               + AmountLocked(new) - AmountLocked(old)
          /\ \A ts : ExtraIn(deposits'[v], ts)
               = ExtraIn(deposits[v], ts) + Extra(new, ts) - Extra(old, ts)
      BY <2>3, <3>1, MeasureChange
    <3>4. /\ mining'.counted[v]
               = mining.counted[v] + AmountLocked(new) - AmountLocked(old)
          /\ \A ts \in Rewards!Dates : ts >= now =>
               ExcessAfter(mining'.excess[v], ts)
                 = ExcessAfter(mining.excess[v], ts)
                     + Extra(new, ts) - Extra(old, ts)
      BY <3>1, <3>2 DEF WeightEffect
    <3> HIDE DEF old, new
    <3>5. mining'.counted[v] = StakedIn(deposits'[v])
      BY <2>1, <3>3, <3>4 DEF WeighedRight
    <3>6. \A ts \in Rewards!Dates : ts >= now' =>
            ExcessAfter(mining'.excess[v], ts) = ExtraIn(deposits'[v], ts)
      BY <2>1, <2>4, <3>3, <3>4 DEF WeighedRight
    <3> QED
      BY <2>2, <3>5, <3>6 DEF WeighedRight
  <2> QED
    BY <1>1, <2>1, <2>5, <2>6
<1> QED
  BY <1>2, <1>3 DEF WeightsInv

\* The multiplier of an entry is that of its amount and of what it has extra.
LEMMA WeightOfEntry ==
  ASSUME IInv, NEW v \in Voters, NEW i \in Slots
  PROVE  WeightedStake(deposits[v][i], now)
           = AmountLocked(deposits[v][i]) + Extra(deposits[v][i], now)
<1> DEFINE d == deposits[v][i]
           n == d.amount_deposited_native
           p == d.lockup.period
<1>1. /\ d \in EntryType /\ n \in Nat /\ p \in LockupPeriod /\ now \in Nat
      /\ d.lockup.start_ts \in Nat /\ d.lockup.end_ts \in Nat
      /\ d.is_used => d.lockup.start_ts <= now
  BY EntryFacts DEF IInv, TypeOK
<1> HIDE DEF d
<1>2. CASE ~IsStaked(d)
  BY <1>2 DEF WeightedStake, AmountLocked, Extra, d
<1>3. CASE IsStaked(d)
  <2>1. /\ Multiplier(d.lockup, now)
             = PeriodMultiplier(IF now < d.lockup.end_ts THEN p ELSE "Flex")
        /\ p # "None"
    BY <1>1, <1>3 DEF IsStaked, Multiplier
  <2>2. /\ WeightedStake(d, now) = Multiplier(d.lockup, now) * n
        /\ AmountLocked(d) = n
        /\ Extra(d, now) = IF d.lockup.end_ts > now
                           THEN Rewards!Excess(n, p) ELSE 0
    BY <1>3 DEF WeightedStake, AmountLocked, Extra
  <2> HIDE DEF n, p
  <2>3. CASE now < d.lockup.end_ts
    <3>1. PeriodMultiplier(p) * n = n + Rewards!Excess(n, p)
      BY <1>1, <2>1 DEF LockupPeriod, PeriodMultiplier, Rewards!Excess,
         Rewards!PeriodMultiplier
    <3> QED
      BY <1>1, <2>1, <2>2, <2>3, <3>1 DEF d
  <2>4. CASE ~(now < d.lockup.end_ts)
    <3>1. PeriodMultiplier("Flex") * n = n
      BY <1>1 DEF PeriodMultiplier
    <3> QED
      BY <1>1, <2>1, <2>2, <2>4, <3>1 DEF d
  <2> QED
    BY <2>3, <2>4
<1> QED
  BY <1>2, <1>3

\* The rewards program weighs every voter as the staking program does, at every
\* time and after any calls that are meant for the state of the entries.
THEOREM WeightsAlwaysAgree ==
  StrictRewards /\ WSpec => []WeightsAgree
<1>1. WInit => WeightsInv
  <2> SUFFICES ASSUME WInit
               PROVE  WeightsInv
    OBVIOUS
  <2>1. TypeOK /\ Init
    BY InitType DEF WInit
  <2>2. \A v \in Voters, i \in Slots :
          Idle(deposits[v][i]) /\ CooledLater(deposits[v][i])
    BY <2>1
       DEF Init, NoDeposits, EmptyEntry, Idle, AmountLocked, CooledLater
  <2>3. ASSUME NEW v \in Voters
        PROVE  WeighedRight(v)
    <3>1. /\ StakedIn(deposits[v]) = 0
          /\ \A ts : ExtraIn(deposits[v], ts) = 0
      BY <2>1, <2>2, MeasureSums DEF TypeOK
    <3>2. mining.counted[v] = 0 /\ mining.excess[v] = [d \in Rewards!Dates |-> 0]
      BY <2>1 DEF Init, Rewards!NoMining
    <3>3. ASSUME NEW ts \in Rewards!Dates
          PROVE  ExcessAfter(mining.excess[v], ts) = 0
      <4> DEFINE len == MaxTs + OneYearSecs + 1
                 f == [date \in Rewards!Dates |->
                         IF date > ts THEN mining.excess[v][date] ELSE 0]
      <4>1. len \in Nat /\ Rewards!Dates = Below(len)
        BY DatesBelow
      <4>2. ExcessAfter(mining.excess[v], ts) = SumTo(len, f)
        BY DEF ExcessAfter
      <4> HIDE DEF len
      <4>3. f \in [Below(len) -> Int] /\ \A k \in Below(len) : f[k] = 0
        BY <3>2, <4>1
      <4> HIDE DEF f
      <4> QED
        BY <4>1, <4>2, <4>3, SumToZeros
    <3> QED
      BY <2>2, <3>1, <3>2, <3>3 DEF WeighedRight
  <2>4. CutRecorded
    BY <2>1 DEF Init, Rewards!NoMining, NoPenalties, CutRecorded, Decreased
  <2> QED
    BY <2>3, <2>4 DEF WeightsInv
<1>2. RInv /\ WeightsInv /\ [WNext]_wvars => WeightsInv'
  BY NextWeightsInv
<1>3. WInit => Init
  BY DEF WInit
<1>4. [WNext]_wvars => [Next]_vars
  BY DEF WNext, wvars
<1>5. ASSUME RInv, WeightsInv
      PROVE  WeightsAgree
  <2> SUFFICES ASSUME NEW v \in Voters \ irregular, Open(v)
               PROVE  /\ mining.counted[v] = StakedBy(v)
                      /\ RewardsWeight(v) = OwnWeightedStake(v) - Decreased(v)
    BY DEF WeightsAgree, Decreased
  <2>1. /\ IInv /\ TypeOK /\ v \in Voters /\ WeighedRight(v)
        /\ deposits[v] \in [Slots -> EntryType]
        /\ now \in Rewards!Dates /\ now >= now
        /\ mining.cut[v] = Decreased(v) /\ Decreased(v) \in Int
    <3>1. mining.cut[v] \in Nat /\ status[v] # "closed"
      BY <1>5, MiningFields DEF RInv, IInv, TypeOK, Open
    <3>2. now \in Nat /\ now <= MaxTs
      BY <1>5 DEF RInv, InTimeAndStrict, IInv, TypeOK
    <3>3. now \in Rewards!Dates
      BY <3>2, StakingAssumption, SecsAssumption DEF Rewards!Dates
    <3> QED
      BY <1>5, <3>1, <3>2, <3>3
         DEF RInv, IInv, TypeOK, WeightsInv, CutRecorded
  <2> DEFINE f == [i \in Slots |-> AmountLocked(deposits[v][i])]
             g == [i \in Slots |-> Extra(deposits[v][i], now)]
             h == [i \in Slots |-> WeightedStake(deposits[v][i], now)]
  <2>2. f \in [Slots -> Int] /\ g \in [Slots -> Int]
    BY <2>1, MeasureFacts
  <2>3. h = [i \in Slots |-> f[i] + g[i]]
    BY <2>1, WeightOfEntry
  <2>4. /\ StakedBy(v) = SumOver(f) /\ OwnWeightedStake(v) = SumOver(h)
        /\ StakedIn(deposits[v]) = SumOver(f)
        /\ ExtraIn(deposits[v], now) = SumOver(g)
    BY DEF StakedBy, OwnWeightedStake, StakedIn, ExtraIn
  <2> HIDE DEF f, g, h
  <2>5. SumOver(h) = SumOver(f) + SumOver(g)
    BY <2>2, <2>3, SumAdd
  <2>6. SumOver(f) \in Int /\ SumOver(g) \in Int
    BY <2>2, SumIsInt
  <2>7. /\ mining.counted[v] = SumOver(f)
        /\ ExcessAfter(mining.excess[v], now) = SumOver(g)
    BY <2>1, <2>4 DEF WeighedRight
  <2> QED
    BY <2>1, <2>4, <2>5, <2>6, <2>7 DEF RewardsWeight
<1> QED
  BY <1>1, <1>2, <1>3, <1>4, <1>5, AlwaysRInv, PTL DEF Spec, WSpec
=============================================================================
