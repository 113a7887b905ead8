------------------------------- MODULE Lockup -------------------------------
(***************************************************************************)
(* The lockup of a deposit entry: program-states/src/state/lockup.rs.      *)
(*                                                                         *)
(* Pure operators over a record with the fields of `struct Lockup`.  The   *)
(* number of seconds of a period is a constant, so that TLC can use a day  *)
(* of one second and the proofs can leave it open; only the order of the   *)
(* periods matters to the handlers.                                        *)
(***************************************************************************)
EXTENDS Integers

CONSTANTS
  FlexSecs,          \* LockupPeriod::Flex.to_secs()         5 days
  ThreeMonthsSecs,   \* LockupPeriod::ThreeMonths.to_secs()  90 days
  SixMonthsSecs,     \* LockupPeriod::SixMonths.to_secs()    180 days
  OneYearSecs,       \* LockupPeriod::OneYear.to_secs()      365 days
  CooldownSecs       \* COOLDOWN_SECS                        5 days

ASSUME SecsAssumption ==
  /\ FlexSecs \in Nat /\ ThreeMonthsSecs \in Nat
  /\ SixMonthsSecs \in Nat /\ OneYearSecs \in Nat
  /\ CooldownSecs \in Nat
  /\ 0 < FlexSecs
  /\ FlexSecs <= ThreeMonthsSecs
  /\ ThreeMonthsSecs <= SixMonthsSecs
  /\ SixMonthsSecs <= OneYearSecs

LockupKind == {"None", "Constant"}
LockupPeriod == {"None", "Flex", "ThreeMonths", "SixMonths", "OneYear"}

\* The derived order of `enum LockupPeriod`: the order of its variants.
Rank(period) ==
  CASE period = "None" -> 0
    [] period = "Flex" -> 1
    [] period = "ThreeMonths" -> 2
    [] period = "SixMonths" -> 3
    [] period = "OneYear" -> 4

ToSecs(period) ==
  CASE period = "None" -> 0
    [] period = "Flex" -> FlexSecs
    [] period = "ThreeMonths" -> ThreeMonthsSecs
    [] period = "SixMonths" -> SixMonthsSecs
    [] period = "OneYear" -> OneYearSecs

PeriodMultiplier(period) ==
  CASE period = "None" -> 0
    [] period = "Flex" -> 1
    [] period = "ThreeMonths" -> 2
    [] period = "SixMonths" -> 4
    [] period = "OneYear" -> 6

LockupType ==
  [kind : LockupKind, period : LockupPeriod, start_ts : Nat, end_ts : Nat,
   cooldown_requested : BOOLEAN, cooldown_ends_at : Nat]

(***************************************************************************)
(* Lockup::new refuses a kind without a period and a period without a      *)
(* kind, and otherwise returns NewLockup.                                  *)
(***************************************************************************)
ValidLockup(kind, period) ==
  \/ kind = "None" /\ period = "None"
  \/ kind = "Constant" /\ period # "None"

NewLockup(kind, start, period) ==
  [kind |-> kind, period |-> period,
   start_ts |-> start, end_ts |-> start + ToSecs(period),
   cooldown_requested |-> FALSE, cooldown_ends_at |-> 0]

SecondsLeft(lockup, ts) ==
  IF lockup.kind = "None" \/ ts >= lockup.end_ts THEN 0
                                                 ELSE lockup.end_ts - ts

\* Mutated form of Expired: compares with the start of the lockup.
ExpiredAtStart(lockup, ts) == ts >= lockup.start_ts

Expired(lockup, ts) == SecondsLeft(lockup, ts) = 0

\* Weight of one staked token at ts: nothing before the start or in the
\* cooldown, the period's own multiplier until end_ts, then that of Flex.
Multiplier(lockup, ts) ==
  IF ts < lockup.start_ts \/ lockup.cooldown_requested THEN 0
  ELSE PeriodMultiplier(IF ts < lockup.end_ts THEN lockup.period ELSE "Flex")
=============================================================================
