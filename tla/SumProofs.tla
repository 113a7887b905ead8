----------------------------- MODULE SumProofs -----------------------------
(***************************************************************************)
(* Facts about SumTo, and about SumOver, the folds over the deposits of a  *)
(* voter.  The sum is a recursive function; what holds of it is proved by   *)
(* induction over the set of indexes up to which it holds.                 *)
(***************************************************************************)
EXTENDS Staking, WellFoundedInduction, TLAPS

Below(len) == 0 .. len - 1

\* s is the function of partial sums of f up to k.
SumsUpTo(s, f, k) ==
  \A n \in 0 .. k : s[n] = IF n = 0 THEN 0 ELSE s[n - 1] + f[n - 1]

\* Induction from 0 to len, for a set instead of a predicate.
LEMMA UpToLength ==
  ASSUME NEW len \in Nat, NEW T \in SUBSET (0 .. len), 0 \in T,
         \A k \in 1 .. len : k - 1 \in T => k \in T
  PROVE  T = 0 .. len
<1> DEFINE Rest == (0 .. len) \ T
<1>1. CASE Rest # {}
  <2>1. IsWellFoundedOn(OpToRel(<, Nat), Nat)
    BY NatLessThanWellFounded
  <2>2. Rest \subseteq Nat
    OBVIOUS
  <2>3. PICK x \in Rest : \A y \in Rest : ~(<<y, x>> \in OpToRel(<, Nat))
    BY <1>1, <2>1, <2>2, WFMin
  <2>4. \A y \in Rest : ~(y < x)
    BY <2>2, <2>3 DEF OpToRel
  <2>a. x \in 0 .. len /\ x # 0
    BY <2>3
  <2>5. x \in 1 .. len
    BY <2>a
  <2>6. x - 1 \in 0 .. len /\ x - 1 < x
    BY <2>5
  <2>7. x - 1 \in T
    BY <2>4, <2>6
  <2> QED
    BY <2>3, <2>5, <2>7
<1> QED
  BY <1>1

\* The partial sums of a function into the integers exist.
LEMMA PartialSumsExist ==
  ASSUME NEW len \in Nat, NEW f \in [Below(len) -> Int]
  PROVE  \E s \in [0 .. len -> Int] : SumsUpTo(s, f, len)
<1> DEFINE Idx == 0 .. len
           T == {k \in Idx : \E s \in [Idx -> Int] : SumsUpTo(s, f, k)}
<1>1. 0 \in T
  <2>1. SumsUpTo([n \in Idx |-> 0], f, 0)
    BY DEF SumsUpTo
  <2> QED
    BY <2>1
<1>2. ASSUME NEW k \in 1 .. len, k - 1 \in T
      PROVE  k \in T
  <2>1. k \in Idx /\ k - 1 \in Idx /\ k - 1 \in Below(len)
    BY DEF Below
  <2>2. PICK s \in [Idx -> Int] : SumsUpTo(s, f, k - 1)
    BY <1>2
  <2> DEFINE t == [s EXCEPT ![k] = s[k - 1] + f[k - 1]]
  <2>3. t \in [Idx -> Int]
    BY <2>1, <2>2
  <2>4. ASSUME NEW n \in 0 .. k
        PROVE  t[n] = IF n = 0 THEN 0 ELSE t[n - 1] + f[n - 1]
    <3>1. CASE n = k
      BY <2>1, <2>2, <3>1
    <3>2. CASE n # k
      <4>1. n \in 0 .. k - 1 /\ n - 1 # k /\ n \in Idx
        BY <2>1, <3>2
      <4>2. s[n] = IF n = 0 THEN 0 ELSE s[n - 1] + f[n - 1]
        BY <2>2, <4>1 DEF SumsUpTo
      <4>3. t[n] = s[n] /\ (n # 0 => t[n - 1] = s[n - 1])
        BY <2>1, <2>2, <3>2, <4>1
      <4> QED
        BY <4>2, <4>3
    <3> QED
      BY <3>1, <3>2
  <2>5. SumsUpTo(t, f, k)
    BY <2>4 DEF SumsUpTo
  <2> QED
    BY <2>1, <2>3, <2>5
<1> HIDE DEF T
<1>3. T \in SUBSET Idx
  BY DEF T
<1>4. T = Idx
  BY <1>1, <1>2, <1>3, UpToLength
<1>5. len \in Idx
  OBVIOUS
<1> QED
  BY <1>4, <1>5 DEF T

\* SumTo(len, f) is the last of the partial sums.
LEMMA SumToPartial ==
  ASSUME NEW len \in Nat, NEW f \in [Below(len) -> Int]
  PROVE  \E s \in [0 .. len -> Int] :
            SumsUpTo(s, f, len) /\ SumTo(len, f) = s[len]
<1> DEFINE Idx == 0 .. len
           IsSum(s) == s = [n \in Idx |->
                              IF n = 0 THEN 0 ELSE s[n - 1] + f[n - 1]]
           t == CHOOSE s : IsSum(s)
           T == {k \in Idx : t[k] \in Int}
<1>1. PICK s \in [Idx -> Int] : SumsUpTo(s, f, len)
  BY PartialSumsExist
<1>2. IsSum(s)
  BY <1>1 DEF SumsUpTo
<1>3. IsSum(t)
  BY <1>2
<1>4. SumTo(len, f) = t[len]
  BY DEF SumTo
<1> HIDE DEF t
<1>5. \A n \in Idx : t[n] = IF n = 0 THEN 0 ELSE t[n - 1] + f[n - 1]
  BY <1>3
<1>6. 0 \in T
  BY <1>5
<1>7. ASSUME NEW k \in 1 .. len, k - 1 \in T
      PROVE  k \in T
  <2>1. k \in Idx /\ k # 0 /\ k - 1 \in Below(len)
    BY DEF Below
  <2> QED
    BY <1>5, <1>7, <2>1
<1>8. T = Idx
  BY <1>6, <1>7, UpToLength
<1>9. t \in [Idx -> Int]
  BY <1>3, <1>8
<1> QED
  BY <1>4, <1>5, <1>9 DEF SumsUpTo

\* The sum of naturals is a natural.
LEMMA SumToType ==
  ASSUME NEW len \in Nat, NEW f \in [Below(len) -> Nat]
  PROVE  SumTo(len, f) \in Nat
<1>1. PICK s \in [0 .. len -> Int] :
        SumsUpTo(s, f, len) /\ SumTo(len, f) = s[len]
  BY SumToPartial
<1> DEFINE T == {k \in 0 .. len : s[k] \in Nat}
<1>2. 0 \in T
  BY <1>1 DEF SumsUpTo
<1>3. ASSUME NEW k \in 1 .. len, k - 1 \in T
      PROVE  k \in T
  <2>1. k \in 0 .. len /\ k # 0 /\ k - 1 \in Below(len)
    BY DEF Below
  <2>2. s[k] = s[k - 1] + f[k - 1]
    BY <1>1, <2>1 DEF SumsUpTo
  <2> QED
    BY <1>3, <2>1, <2>2
<1>4. T = 0 .. len
  BY <1>2, <1>3, UpToLength
<1> QED
  BY <1>1, <1>4

\* Changing one summand changes the sum by the difference.
LEMMA SumToChange ==
  ASSUME NEW len \in Nat, NEW f \in [Below(len) -> Int], NEW g \in [Below(len) -> Int], NEW j \in Below(len),
         \A i \in Below(len) \ {j} : f[i] = g[i]
  PROVE  SumTo(len, g) = SumTo(len, f) + g[j] - f[j]
<1>1. PICK s \in [0 .. len -> Int] :
        SumsUpTo(s, f, len) /\ SumTo(len, f) = s[len]
  BY SumToPartial
<1>2. PICK t \in [0 .. len -> Int] :
        SumsUpTo(t, g, len) /\ SumTo(len, g) = t[len]
  BY SumToPartial
<1> DEFINE Diff(k) == IF k <= j THEN 0 ELSE g[j] - f[j]
           T == {k \in 0 .. len : t[k] = s[k] + Diff(k)}
<1>3. 0 \in T
  BY <1>1, <1>2 DEF SumsUpTo, Below
<1>4. ASSUME NEW k \in 1 .. len, k - 1 \in T
      PROVE  k \in T
  <2>1. k \in 0 .. len /\ k # 0 /\ k - 1 \in Below(len)
    BY DEF Below
  <2>2. s[k] = s[k - 1] + f[k - 1] /\ t[k] = t[k - 1] + g[k - 1]
    BY <1>1, <1>2, <2>1 DEF SumsUpTo
  <2>3. s[k - 1] \in Int /\ t[k - 1] \in Int /\ j \in Int
        /\ f[k - 1] \in Int /\ g[k - 1] \in Int
    BY <1>1, <1>2, <2>1 DEF Below
  <2>4. CASE k - 1 = j
    BY <1>4, <2>1, <2>2, <2>3, <2>4
  <2>5. CASE k - 1 # j
    <3>1. f[k - 1] = g[k - 1]
      BY <2>1, <2>5
    <3>2. Diff(k) = Diff(k - 1)
      BY <2>1, <2>3, <2>5
    <3>3. Diff(k) \in Int
      BY <2>3
    <3> HIDE DEF Diff
    <3> QED
      BY <1>4, <2>1, <2>2, <2>3, <3>1, <3>2, <3>3
  <2> QED
    BY <2>4, <2>5
<1>5. T = 0 .. len
  BY <1>3, <1>4, UpToLength
<1>6. ~(len <= j)
  BY DEF Below
<1>a. len \in T
  <2>1. len \in 0 .. len
    OBVIOUS
  <2> QED
    BY <1>5, <2>1
<1>b. Diff(len) = g[j] - f[j]
  BY <1>6
<1>7. t[len] = s[len] + (g[j] - f[j])
  BY <1>a, <1>b
<1>8. s[len] \in Int /\ g[j] \in Int /\ f[j] \in Int
  BY <1>1
<1> QED
  BY <1>1, <1>2, <1>7, <1>8

\* A sum of larger terms is larger.
LEMMA SumToMonotone ==
  ASSUME NEW len \in Nat, NEW f \in [Below(len) -> Int],
         NEW g \in [Below(len) -> Int],
         \A i \in Below(len) : f[i] <= g[i]
  PROVE  SumTo(len, f) <= SumTo(len, g)
<1>1. PICK s \in [0 .. len -> Int] :
        SumsUpTo(s, f, len) /\ SumTo(len, f) = s[len]
  BY SumToPartial
<1>2. PICK t \in [0 .. len -> Int] :
        SumsUpTo(t, g, len) /\ SumTo(len, g) = t[len]
  BY SumToPartial
<1> DEFINE T == {k \in 0 .. len : s[k] <= t[k]}
<1>3. 0 \in T
  BY <1>1, <1>2 DEF SumsUpTo
<1>4. ASSUME NEW k \in 1 .. len, k - 1 \in T
      PROVE  k \in T
  <2>1. k \in 0 .. len /\ k # 0 /\ k - 1 \in Below(len)
    BY DEF Below
  <2>2. s[k] = s[k - 1] + f[k - 1] /\ t[k] = t[k - 1] + g[k - 1]
    BY <1>1, <1>2, <2>1 DEF SumsUpTo
  <2>3. /\ s[k - 1] \in Int /\ t[k - 1] \in Int /\ s[k - 1] <= t[k - 1]
        /\ f[k - 1] \in Int /\ g[k - 1] \in Int /\ f[k - 1] <= g[k - 1]
    BY <1>4, <2>1
  <2> QED
    BY <2>1, <2>2, <2>3
<1>5. T = 0 .. len
  BY <1>3, <1>4, UpToLength
<1> QED
  BY <1>1, <1>2, <1>5

\* The sum of the terms of two functions is the sum of their sums.
LEMMA SumToAdd ==
  ASSUME NEW len \in Nat, NEW f \in [Below(len) -> Int],
         NEW g \in [Below(len) -> Int], NEW h \in [Below(len) -> Int],
         \A i \in Below(len) : h[i] = f[i] + g[i]
  PROVE  SumTo(len, h) = SumTo(len, f) + SumTo(len, g)
<1>1. PICK s \in [0 .. len -> Int] :
        SumsUpTo(s, f, len) /\ SumTo(len, f) = s[len]
  BY SumToPartial
<1>2. PICK t \in [0 .. len -> Int] :
        SumsUpTo(t, g, len) /\ SumTo(len, g) = t[len]
  BY SumToPartial
<1>3. PICK u \in [0 .. len -> Int] :
        SumsUpTo(u, h, len) /\ SumTo(len, h) = u[len]
  BY SumToPartial
<1> DEFINE T == {k \in 0 .. len : u[k] = s[k] + t[k]}
<1>4. 0 \in T
  BY <1>1, <1>2, <1>3 DEF SumsUpTo
<1>5. ASSUME NEW k \in 1 .. len, k - 1 \in T
      PROVE  k \in T
  <2>1. k \in 0 .. len /\ k # 0 /\ k - 1 \in Below(len)
    BY DEF Below
  <2>2. /\ s[k] = s[k - 1] + f[k - 1] /\ t[k] = t[k - 1] + g[k - 1]
        /\ u[k] = u[k - 1] + h[k - 1]
    BY <1>1, <1>2, <1>3, <2>1 DEF SumsUpTo
  <2>3. /\ s[k - 1] \in Int /\ t[k - 1] \in Int
        /\ u[k - 1] = s[k - 1] + t[k - 1]
        /\ f[k - 1] \in Int /\ g[k - 1] \in Int
        /\ h[k - 1] = f[k - 1] + g[k - 1]
    BY <1>5, <2>1
  <2>4. PICK a, b, c, d \in Int :
          s[k - 1] = a /\ t[k - 1] = b /\ f[k - 1] = c /\ g[k - 1] = d
    BY <2>3
  <2>5. s[k] = a + c /\ t[k] = b + d /\ u[k] = (a + b) + (c + d)
    BY <2>2, <2>3, <2>4
  <2>6. u[k] = s[k] + t[k]
    BY <2>5
  <2> QED
    BY <2>1, <2>6
<1>6. T = 0 .. len
  BY <1>4, <1>5, UpToLength
<1>7. len \in 0 .. len
  OBVIOUS
<1>8. u[len] = s[len] + t[len]
  BY <1>6, <1>7
<1> QED
  BY <1>1, <1>2, <1>3, <1>8

\* A sum of zeros is zero.
LEMMA SumToZeros ==
  ASSUME NEW len \in Nat, NEW f \in [Below(len) -> Int],
         \A i \in Below(len) : f[i] = 0
  PROVE  SumTo(len, f) = 0
<1>1. SumTo(len, f) = SumTo(len, f) + SumTo(len, f)
  BY SumToAdd
<1>2. SumTo(len, f) \in Nat
  <2>1. f \in [Below(len) -> Nat]
    OBVIOUS
  <2> QED
    BY <2>1, SumToType
<1>3. \A n \in Nat : n = n + n => n = 0
  OBVIOUS
<1> QED
  BY <1>1, <1>2, <1>3

\* The sum of integers is an integer.
LEMMA SumToInt ==
  ASSUME NEW len \in Nat, NEW f \in [Below(len) -> Int]
  PROVE  SumTo(len, f) \in Int
<1>1. PICK s \in [0 .. len -> Int] :
        SumsUpTo(s, f, len) /\ SumTo(len, f) = s[len]
  BY SumToPartial
<1>2. len \in 0 .. len
  OBVIOUS
<1> QED
  BY <1>1, <1>2

-----------------------------------------------------------------------------
(* The same for the deposits of a voter. *)

\* The deposits are numbered from 0.
LEMMA SlotsBelow == NumDeposits \in Nat /\ Slots = Below(NumDeposits)
BY StakingAssumption DEF Slots, Below

\* The sum of naturals is a natural.
LEMMA SumType ==
  ASSUME NEW f \in [Slots -> Nat]
  PROVE  SumOver(f) \in Nat
BY SlotsBelow, SumToType DEF SumOver

\* The sum of integers is an integer.
LEMMA SumIsInt ==
  ASSUME NEW f \in [Slots -> Int]
  PROVE  SumOver(f) \in Int
BY SlotsBelow, SumToInt DEF SumOver

\* Changing one summand changes the sum by the difference.
LEMMA SumChange ==
  ASSUME NEW f \in [Slots -> Int], NEW g \in [Slots -> Int], NEW j \in Slots,
         \A i \in Slots \ {j} : f[i] = g[i]
  PROVE  SumOver(g) = SumOver(f) + g[j] - f[j]
BY SlotsBelow, SumToChange DEF SumOver

\* A sum of larger terms is larger.
LEMMA SumMonotone ==
  ASSUME NEW f \in [Slots -> Int], NEW g \in [Slots -> Int],
         \A i \in Slots : f[i] <= g[i]
  PROVE  SumOver(f) <= SumOver(g)
BY SlotsBelow, SumToMonotone DEF SumOver

\* The sum of the terms of two functions is the sum of their sums.
LEMMA SumAdd ==
  ASSUME NEW f \in [Slots -> Int], NEW g \in [Slots -> Int],
         NEW h \in [Slots -> Int], \A i \in Slots : h[i] = f[i] + g[i]
  PROVE  SumOver(h) = SumOver(f) + SumOver(g)
BY SlotsBelow, SumToAdd DEF SumOver

\* A sum of zeros is zero.
LEMMA SumZeros ==
  ASSUME NEW f \in [Slots -> Int], \A i \in Slots : f[i] = 0
  PROVE  SumOver(f) = 0
BY SlotsBelow, SumToZeros DEF SumOver
=============================================================================
