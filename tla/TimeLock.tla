------------------------------ MODULE TimeLock ------------------------------
(***************************************************************************)
(* What the staking program promises, without how it keeps its books: a    *)
(* bank of accounts that are liquid, locked, or under notice.  Money goes  *)
(* into liquid accounts and from there into the others; a lock ends by     *)
(* notice, given when its time is over, and the money is paid out when the *)
(* notice period is over too.                                              *)
(***************************************************************************)
EXTENDS Integers

CONSTANTS
  Owners, Numbers,   \* each owner has one account for each number
  Currencies,
  Sums,              \* the amounts that are moved, natural numbers
  Notice             \* length of the notice period, a natural number

VARIABLES
  clock,
  account,    \* for each owner and number
  reserve     \* money kept for each owner and currency

bank == <<clock, account, reserve>>

\* A number that is not in use.
NoAccount == [state |-> "none"]

NewAccount(state, currency, until) ==
  [state |-> state, currency |-> currency, balance |-> 0, fine |-> 0,
   until |-> until, ready |-> 0]

Used(o, i) == account[o][i].state # "none"

SetAccount(o, i, new) == account' = [account EXCEPT ![o][i] = new]

Paid(a, sum) == [a EXCEPT !.balance = @ - sum]
Noticed(a, ready) == [a EXCEPT !.state = "notice", !.ready = ready]

Init ==
  /\ clock \in Nat
  /\ account = [o \in Owners |-> [i \in Numbers |-> NoAccount]]
  /\ reserve = [o \in Owners |-> [c \in Currencies |-> 0]]

Tick == clock' = clock + 1 /\ UNCHANGED <<account, reserve>>

Open(o, i, currency) ==
  /\ ~Used(o, i) /\ Used(o, i)'
  /\ \/ SetAccount(o, i, NewAccount("liquid", currency, 0))
     \/ LET until == account'[o][i].until
        IN  /\ until >= clock
            /\ SetAccount(o, i, NewAccount("locked", currency, until))
  /\ UNCHANGED <<clock, reserve>>

Put(o, i, sum) ==
  /\ Used(o, i) /\ account[o][i].state = "liquid"
  /\ SetAccount(o, i, Paid(account[o][i], -sum))
  /\ reserve' = [reserve EXCEPT ![o][account[o][i].currency] = @ + sum]
  /\ UNCHANGED clock

\* From a liquid account into any account of the currency: a lock may become
\* longer by this, never shorter, and a notice that was given stands.
Move(o, i, j, sum) ==
  /\ Used(o, i) /\ account[o][i].state = "liquid"
  /\ Used(o, j) /\ Used(o, j)'
  /\ account[o][j].currency = account[o][i].currency
  /\ sum <= account[o][i].balance
  /\ LET given == [account[o] EXCEPT ![i] = Paid(@, sum)]
         until == account'[o][j].until
     IN  /\ until >= given[j].until
         /\ account' = [account EXCEPT
              ![o] = [given EXCEPT
                        ![j] = [Paid(@, -sum) EXCEPT !.until = until]]]
  /\ UNCHANGED <<clock, reserve>>

GiveNotice(o, i) ==
  /\ Used(o, i) /\ account[o][i].state = "locked"
  /\ clock >= account[o][i].until
  /\ SetAccount(o, i, Noticed(account[o][i], clock + Notice))
  /\ UNCHANGED <<clock, reserve>>

\* What was fined is paid out with the rest, to somebody else.
PayOut(o, i, sum) ==
  LET a    == account[o][i]
      left == [Paid(a, sum) EXCEPT !.fine = 0]
  IN  /\ Used(o, i)
      /\ \/ a.state = "liquid"
         \/ a.state = "notice" /\ clock >= a.ready
      /\ sum <= a.balance
      /\ sum + a.fine <= reserve[o][a.currency]
      /\ \/ SetAccount(o, i, left)
         \/ left.balance = 0 /\ SetAccount(o, i, NoAccount)
      /\ reserve' = [reserve EXCEPT ![o][a.currency] = @ - sum - a.fine]
      /\ UNCHANGED clock

Fine(o, i, sum) ==
  /\ Used(o, i) /\ sum <= account[o][i].balance
  /\ SetAccount(o, i, [Paid(account[o][i], sum) EXCEPT !.fine = @ + sum])
  /\ UNCHANGED <<clock, reserve>>

Drop(o, i) ==
  /\ Used(o, i) /\ account[o][i].balance = 0
  /\ SetAccount(o, i, NoAccount)
  /\ UNCHANGED <<clock, reserve>>

\* An owner leaves, and leaves behind what is not locked.
Leave(o) ==
  /\ \A i \in Numbers :
       Used(o, i) /\ account[o][i].state = "locked" => account[o][i].balance = 0
  /\ account' = [account EXCEPT ![o] = [i \in Numbers |-> NoAccount]]
  /\ UNCHANGED <<clock, reserve>>

Next ==
  \/ Tick
  \/ \E o \in Owners :
       \/ \E i \in Numbers, c \in Currencies : Open(o, i, c)
       \/ \E i \in Numbers, s \in Sums : Put(o, i, s) \/ PayOut(o, i, s)
       \/ \E i, j \in Numbers, s \in Sums : Move(o, i, j, s)
       \/ \E i \in Numbers, s \in Sums : Fine(o, i, s)
       \/ \E i \in Numbers : GiveNotice(o, i) \/ Drop(o, i)
       \/ Leave(o)

Spec == Init /\ [][Next]_bank
=============================================================================
