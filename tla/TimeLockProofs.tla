-------------------------- MODULE TimeLockProofs --------------------------
(***************************************************************************)
(* The staking program implements TimeLock: every step is a step of the    *)
(* time lock, or none, for any number of voters, entries and mints.        *)
(***************************************************************************)
EXTENDS StakingTimeLock, CustodyProofs

-----------------------------------------------------------------------------
(* The account of an entry. *)

Acc(state, currency, balance, fine, until, ready) ==
  [state |-> state, currency |-> currency, balance |-> balance, fine |-> fine,
   until |-> until, ready |-> ready]

Until(d) == IF d.lockup.kind = "None" THEN 0 ELSE d.lockup.end_ts
Ready(d) == IF d.lockup.kind = "None" THEN 0 ELSE d.lockup.cooldown_ends_at

\* The account of an entry, field by field.
LEMMA AccountOf ==
  ASSUME NEW d
  PROVE  /\ d.is_used =>
              Account(d) = Acc(AccountState(d), d.voting_mint_config_idx,
                               d.amount_deposited_native, d.slashing_penalty,
                               Until(d), Ready(d))
         /\ ~d.is_used => Account(d) = Bank!NoAccount
BY DEF Account, Acc, Until, Ready, Bank!NoAccount

\* The fields of an account, and what the steps of the time lock make of it.
LEMMA AccFields ==
  ASSUME NEW s, NEW c, NEW b, NEW f, NEW u, NEW r
  PROVE  /\ Acc(s, c, b, f, u, r).state = s
         /\ Acc(s, c, b, f, u, r).currency = c
         /\ Acc(s, c, b, f, u, r).balance = b
         /\ Acc(s, c, b, f, u, r).fine = f
         /\ Acc(s, c, b, f, u, r).until = u
         /\ Acc(s, c, b, f, u, r).ready = r
BY DEF Acc

\* Paying changes the balance.
LEMMA AccPaid ==
  ASSUME NEW s, NEW c, NEW b, NEW f, NEW u, NEW r, NEW n
  PROVE  Bank!Paid(Acc(s, c, b, f, u, r), n) = Acc(s, c, b - n, f, u, r)
BY SMT DEF Acc, Bank!Paid

\* A new end.
LEMMA AccUntil ==
  ASSUME NEW s, NEW c, NEW b, NEW f, NEW u, NEW r, NEW x
  PROVE  [Acc(s, c, b, f, u, r) EXCEPT !.until = x] = Acc(s, c, b, f, x, r)
BY SMT DEF Acc

\* A new fine.
LEMMA AccFine ==
  ASSUME NEW s, NEW c, NEW b, NEW f, NEW u, NEW r, NEW x
  PROVE  [Acc(s, c, b, f, u, r) EXCEPT !.fine = x] = Acc(s, c, b, x, u, r)
BY SMT DEF Acc

\* Notice.
LEMMA AccNotice ==
  ASSUME NEW s, NEW c, NEW b, NEW f, NEW u, NEW r, NEW x
  PROVE  Bank!Noticed(Acc(s, c, b, f, u, r), x) = Acc("notice", c, b, f, u, x)
<1> DEFINE a == Acc(s, c, b, f, u, r)
           e == [a EXCEPT !.state = "notice"]
<1>1. e = Acc("notice", c, b, f, u, r)
  BY SMT DEF Acc
<1>2. [Acc("notice", c, b, f, u, r) EXCEPT !.ready = x]
        = Acc("notice", c, b, f, u, x)
  BY SMT DEF Acc
<1>3. Bank!Noticed(a, x) = [e EXCEPT !.ready = x]
  BY Zenon DEF Bank!Noticed
<1> QED
  BY <1>1, <1>2, <1>3

\* An account is in use exactly when its entry is.
LEMMA AccountUsed ==
  ASSUME NEW d
  PROVE  /\ Account(d).state # "none" <=> d.is_used
         /\ AccountState(d) \in {"liquid", "notice", "locked"}
         /\ AccountState(d) = "liquid" <=> d.lockup.kind = "None"
         /\ AccountState(d) # "none"
BY DEF Account, AccountState

\* The account of one entry, before and after a step.
LEMMA AccountsAt ==
  ASSUME NEW v \in Voters, NEW i \in Slots
  PROVE  /\ accounts[v][i] = Account(deposits[v][i])
         /\ accounts'[v][i] = Account(deposits'[v][i])
         /\ Bank!Used(v, i) <=> deposits[v][i].is_used
         /\ Bank!Used(v, i)' <=> deposits'[v][i].is_used
<1>1. /\ accounts[v][i] = Account(deposits[v][i])
      /\ accounts'[v][i] = Account(deposits'[v][i])
  BY DEF accounts
<1> QED
  BY <1>1, AccountUsed DEF Bank!Used

\* A handler that writes a single entry writes a single account.
LEMMA UpdateAccounts ==
  ASSUME TypeOK, NEW v \in Voters, NEW i \in Slots, NEW e, UpdateEntry(v, i, e)
  PROVE  /\ Bank!SetAccount(v, i, Account(e))
         /\ deposits'[v][i] = e
         /\ Account(e) = Account(deposits[v][i]) => accounts' = accounts
<1>1. /\ deposits \in [Voters -> [Slots -> EntryType]]
      /\ deposits' = [deposits EXCEPT ![v][i] = e]
  BY DEF TypeOK, UpdateEntry
<1>2. \A w \in Voters, j \in Slots :
        deposits'[w][j] = IF w = v /\ j = i THEN e ELSE deposits[w][j]
  BY <1>1
<1>3. accounts' = [w \in Voters |-> [j \in Slots |->
                     IF w = v /\ j = i THEN Account(e)
                                       ELSE Account(deposits[w][j])]]
  BY <1>2 DEF accounts
<1>4. [accounts EXCEPT ![v][i] = Account(e)]
        = [w \in Voters |-> [j \in Slots |->
             IF w = v /\ j = i THEN Account(e) ELSE Account(deposits[w][j])]]
  BY DEF accounts
<1>5. ASSUME Account(e) = Account(deposits[v][i])
      PROVE  accounts' = accounts
  BY <1>3, <1>5 DEF accounts
<1> QED
  BY <1>2, <1>3, <1>4, <1>5 DEF Bank!SetAccount

\* An account with the fields of a changed entry.
LEMMA AccountFrom ==
  ASSUME NEW d, d.is_used, NEW e, e.is_used,
         e.voting_mint_config_idx = d.voting_mint_config_idx
  PROVE  /\ Account(d) = Acc(AccountState(d), d.voting_mint_config_idx,
                             d.amount_deposited_native, d.slashing_penalty,
                             Until(d), Ready(d))
         /\ Account(e) = Acc(AccountState(e), d.voting_mint_config_idx,
                             e.amount_deposited_native, e.slashing_penalty,
                             Until(e), Ready(e))
         /\ e.lockup = d.lockup => /\ AccountState(e) = AccountState(d)
                                   /\ Until(e) = Until(d)
                                   /\ Ready(e) = Ready(d)
BY AccountOf DEF AccountState, Until, Ready

\* The handlers that leave the lockup alone: deposit, the source of stake and
\* extend_stake, change_delegate, slash.
LEMMA MoneyAccount ==
  ASSUME NEW d \in EntryType, d.is_used, NEW amount \in Nat
  PROVE  /\ Account(Plus(d, amount)) = Bank!Paid(Account(d), -amount)
         /\ Account(Minus(d, amount)) = Bank!Paid(Account(d), amount)
         /\ \A delegate : Account(Delegated(d, delegate, now)) = Account(d)
         /\ Account(Slashed(d, amount))
              = [Bank!Paid(Account(d), amount) EXCEPT
                   !.fine = d.slashing_penalty + amount]
<1> DEFINE A(n, f) == Acc(AccountState(d), d.voting_mint_config_idx, n, f,
                          Until(d), Ready(d))
           b == d.amount_deposited_native
           p == d.slashing_penalty
<1>1. b \in Nat /\ p \in Nat
  BY DEF EntryType
<1>2. Account(d) = A(b, p)
  BY AccountOf
<1>3. Account(Plus(d, amount)) = A(b + amount, p)
  BY AccountFrom, ChangedFields, MoneyFields
<1>4. Account(Minus(d, amount)) = A(b - amount, p)
  BY AccountFrom, MoneyFields
<1>5. ASSUME NEW delegate
      PROVE  Account(Delegated(d, delegate, now)) = A(b, p)
  BY AccountFrom, ChangedFields, MoneyFields
<1>6. Account(Slashed(d, amount)) = A(b - amount, p + amount)
  BY AccountFrom, ChangedFields, MoneyFields
<1>7. /\ Bank!Paid(A(b, p), -amount) = A(b - (-amount), p)
      /\ Bank!Paid(A(b, p), amount) = A(b - amount, p)
      /\ [A(b - amount, p) EXCEPT !.fine = p + amount]
           = A(b - amount, p + amount)
  BY AccPaid, AccFine
<1>8. b - (-amount) = b + amount
  BY <1>1
<1> HIDE DEF A
<1> QED
  BY <1>2, <1>3, <1>4, <1>5, <1>6, <1>7, <1>8

\* unlock_tokens: notice for a Constant entry, nothing for one of kind None.
LEMMA CoolingAccount ==
  ASSUME NEW d \in EntryType, d.is_used
  PROVE  /\ d.lockup.kind = "None" => Account(CoolingDown(d, now)) = Account(d)
         /\ d.lockup.kind # "None" =>
              Account(CoolingDown(d, now))
                = Bank!Noticed(Account(d), now + CooldownSecs)
<1> DEFINE e == CoolingDown(d, now)
           c == d.voting_mint_config_idx
           b == d.amount_deposited_native
           f == d.slashing_penalty
<1>0. d.lockup \in LockupType
  BY DEF EntryType
<1>1. /\ e.is_used /\ e.voting_mint_config_idx = c
      /\ e.amount_deposited_native = b /\ e.slashing_penalty = f
      /\ e.lockup = Cooling(d.lockup, now)
  BY ChangedFields, MoneyFields
<1>2. /\ e.lockup.kind = d.lockup.kind /\ e.lockup.end_ts = d.lockup.end_ts
      /\ e.lockup.cooldown_requested = TRUE
      /\ e.lockup.cooldown_ends_at = now + CooldownSecs
  BY <1>0, <1>1, ChangedLockup
<1> HIDE DEF e
<1>3. /\ Account(d) = Acc(AccountState(d), c, b, f, Until(d), Ready(d))
      /\ Account(e) = Acc(AccountState(e), c, b, f, Until(e), Ready(e))
  BY <1>1, AccountFrom
<1>4. ASSUME d.lockup.kind = "None"
      PROVE  Account(e) = Account(d)
  BY <1>2, <1>3, <1>4 DEF AccountState, Until, Ready
<1>5. ASSUME d.lockup.kind # "None"
      PROVE  Account(e) = Bank!Noticed(Account(d), now + CooldownSecs)
  <2>1. Account(e) = Acc("notice", c, b, f, Until(d), now + CooldownSecs)
    BY <1>2, <1>3, <1>5 DEF AccountState, Until, Ready
  <2> QED
    <3>1. Bank!Noticed(Acc(AccountState(d), c, b, f, Until(d), Ready(d)),
                       now + CooldownSecs)
            = Acc("notice", c, b, f, Until(d), now + CooldownSecs)
      BY AccNotice
    <3> QED
      BY <1>3, <2>1, <3>1
<1> QED
  BY <1>4, <1>5 DEF e

\* The target of stake and extend_stake: the kind and the cooldown stay.
LEMMA LongerAccount ==
  ASSUME NEW d \in EntryType, d.is_used, NEW e, e.is_used, NEW amount \in Nat,
         e.voting_mint_config_idx = d.voting_mint_config_idx,
         e.amount_deposited_native = d.amount_deposited_native + amount,
         e.slashing_penalty = d.slashing_penalty,
         e.lockup.kind = d.lockup.kind,
         e.lockup.cooldown_requested = d.lockup.cooldown_requested,
         e.lockup.cooldown_ends_at = d.lockup.cooldown_ends_at
  PROVE  Account(e) = [Bank!Paid(Account(d), -amount) EXCEPT
                         !.until = Account(e).until]
<1> DEFINE A(n, u) == Acc(AccountState(d), d.voting_mint_config_idx, n,
                          d.slashing_penalty, u, Ready(d))
           b == d.amount_deposited_native
<1>1. b - (-amount) = b + amount
  BY DEF EntryType
<1>2. AccountState(e) = AccountState(d) /\ Ready(e) = Ready(d)
  BY DEF AccountState, Ready
<1>3. Account(d) = A(b, Until(d)) /\ Account(e) = A(b + amount, Until(e))
  BY <1>2, AccountFrom
<1>4. /\ Bank!Paid(A(b, Until(d)), -amount) = A(b - (-amount), Until(d))
      /\ [A(b + amount, Until(d)) EXCEPT !.until = Until(e)]
           = A(b + amount, Until(e))
      /\ A(b + amount, Until(e)).until = Until(e)
  BY AccFields, AccPaid, AccUntil
<1> HIDE DEF A
<1> QED
  BY <1>1, <1>3, <1>4

-----------------------------------------------------------------------------
(* The handlers, one by one. *)

\* The fields of the account of an entry in use.
LEMMA AccountFields ==
  ASSUME NEW d, d.is_used
  PROVE  /\ Account(d).state = AccountState(d)
         /\ Account(d).currency = d.voting_mint_config_idx
         /\ Account(d).balance = d.amount_deposited_native
         /\ Account(d).fine = d.slashing_penalty
         /\ Account(d).until = Until(d)
         /\ Account(d).ready = Ready(d)
BY AccountOf, AccFields

\* stake and extend_stake: e is the target as the handler leaves it.
LEMMA MoveStep ==
  ASSUME TypeOK, NEW v \in Voters, NEW source \in Slots, NEW target \in Slots,
         NEW amount \in Nat,
         SourceGives(v, source, amount), SameMint(v, source, target),
         NEW e, e.is_used,
         deposits' = [deposits EXCEPT
           ![v] = [Given(v, source, amount) EXCEPT ![target] = e]],
         Account(e) = [Bank!Paid(Account(Given(v, source, amount)[target]),
                                 -amount) EXCEPT !.until = Account(e).until],
         Until(Given(v, source, amount)[target]) <= Until(e),
         UNCHANGED <<now, vault>>
  PROVE  Bank!Move(v, source, target, amount)
<1> DEFINE src == deposits[v][source]
           given == Given(v, source, amount)
           G == [accounts[v] EXCEPT ![source] = Bank!Paid(@, amount)]
<1>1. /\ deposits \in [Voters -> [Slots -> EntryType]]
      /\ src \in EntryType /\ src.is_used /\ src.lockup.kind = "None"
      /\ amount <= src.amount_deposited_native
      /\ deposits[v][target].is_used
      /\ deposits[v][target].voting_mint_config_idx
           = src.voting_mint_config_idx
  BY DEF TypeOK, SourceGives, SameMint, Active, AmountUnlocked, IsStaked
<1>2. Account(Minus(src, amount)) = Bank!Paid(Account(src), amount)
  BY <1>1, MoneyAccount
<1>3. \A k \in Slots :
        given[k] = IF k = source THEN Minus(src, amount) ELSE deposits[v][k]
  BY <1>1 DEF Given
<1>4. accounts[v] = [k \in Slots |-> Account(deposits[v][k])]
  BY DEF accounts
<1>5. \A k \in Slots : G[k] = Account(given[k])
  BY <1>2, <1>3, <1>4
<1>6. DOMAIN G = Slots /\ G = [k \in Slots |-> G[k]]
  BY <1>4
<1>7. \A w \in Voters, k \in Slots :
        deposits'[w][k] = IF w = v THEN IF k = target THEN e ELSE given[k]
                                   ELSE deposits[w][k]
  <2>1. /\ DOMAIN deposits = Voters /\ DOMAIN deposits[v] = Slots
        /\ DOMAIN Given(v, source, amount) = Slots
    BY <1>1 DEF Given
  <2> QED
    BY <2>1
<1> HIDE DEF G, given
<1>8. accounts' = [accounts EXCEPT ![v] = [G EXCEPT ![target] = Account(e)]]
  <2>1. accounts' = [w \in Voters |-> [k \in Slots |->
          IF w = v THEN IF k = target THEN Account(e) ELSE G[k]
                   ELSE accounts[w][k]]]
    BY <1>5, <1>7 DEF accounts
  <2>2. [G EXCEPT ![target] = Account(e)]
          = [k \in Slots |-> IF k = target THEN Account(e) ELSE G[k]]
    BY <1>6
  <2>3. accounts = [w \in Voters |-> [k \in Slots |-> accounts[w][k]]]
    BY DEF accounts
  <2> QED
    BY <2>1, <2>2, <2>3
<1>9. accounts'[v][target] = Account(e) /\ deposits'[v][target] = e
  BY <1>7 DEF accounts
<1>10. G[target] = Account(given[target])
  BY <1>5
<1>11. /\ Bank!Used(v, source) /\ Bank!Used(v, target) /\ Bank!Used(v, target)'
       /\ accounts[v][source] = Account(src)
       /\ accounts[v][target] = Account(deposits[v][target])
  BY <1>1, <1>9, AccountsAt
<1>12. /\ accounts[v][source].state = "liquid"
       /\ accounts[v][target].currency = accounts[v][source].currency
       /\ amount <= accounts[v][source].balance
  BY <1>1, <1>11, AccountFields, AccountUsed
<1>13. given[target].is_used
  BY <1>1, <1>3, MinusFields
<1>14. accounts'[v][target].until >= G[target].until
  BY <1>9, <1>10, <1>13, AccountFields DEF given, Until, TypeOK
<1>15. Account(e) = [Bank!Paid(G[target], -amount) EXCEPT
                       !.until = accounts'[v][target].until]
  BY <1>9, <1>10 DEF given
<1> QED
  BY <1>8, <1>11, <1>12, <1>14, <1>15 DEF Bank!Move, G

\* create_deposit_entry opens an account; a lock begins with the current time
\* or later.
LEMMA OpenStep ==
  ASSUME TypeOK, NEW v \in Voters, NEW i \in Slots, NEW m \in MintIdx,
         NEW delegate \in Voters, NEW k \in LockupKind,
         NEW p \in CallerPeriods, CreateDepositEntry(v, i, delegate, k, p, m)
  PROVE  Bank!Open(v, i, m)
<1> DEFINE e == NewEntry(delegate, m, NewLockup(k, now, p))
<1>1. /\ UpdateEntry(v, i, e) /\ ~deposits[v][i].is_used
      /\ now' = now /\ vault' = vault
  BY DEF CreateDepositEntry, tokens
<1>2. /\ e.is_used /\ e.voting_mint_config_idx = m
      /\ e.amount_deposited_native = 0 /\ e.slashing_penalty = 0
      /\ e.lockup.kind = k /\ e.lockup.cooldown_requested = FALSE
      /\ e.lockup.cooldown_ends_at = 0 /\ e.lockup.end_ts = now + ToSecs(p)
  BY DEF NewEntry, NewLockup
<1> HIDE DEF e
<1>3. /\ Bank!SetAccount(v, i, Account(e)) /\ deposits'[v][i] = e
  BY <1>1, UpdateAccounts
<1>4. ~Bank!Used(v, i) /\ Bank!Used(v, i)' /\ accounts'[v][i] = Account(e)
  BY <1>1, <1>2, <1>3, AccountsAt
<1>5. Account(e) = Acc(AccountState(e), m, 0, 0, Until(e), Ready(e))
  BY <1>2, AccountOf
<1>6. \A state, u : Bank!NewAccount(state, m, u) = Acc(state, m, 0, 0, u, 0)
  BY DEF Bank!NewAccount, Acc
<1>7. CASE k = "None"
  <2>1. Account(e) = Bank!NewAccount("liquid", m, 0)
    BY <1>2, <1>5, <1>6, <1>7 DEF AccountState, Until, Ready
  <2> QED
    BY <1>1, <1>3, <1>4, <2>1 DEF Bank!Open
<1>8. CASE k # "None"
  <2>1. Account(e) = Bank!NewAccount("locked", m, Until(e))
    BY <1>2, <1>5, <1>6, <1>8 DEF AccountState, Until, Ready
  <2>2. accounts'[v][i].until = Until(e)
    BY <1>2, <1>4, AccountFields
  <2>3. Until(e) >= now
    BY <1>2, <1>8, PeriodFacts, StakingAssumption DEF Until, TypeOK
  <2> QED
    BY <1>1, <1>3, <1>4, <2>1, <2>2, <2>3 DEF Bank!Open
<1> QED
  BY <1>7, <1>8

\* deposit puts money into a liquid account.
LEMMA PutStep ==
  ASSUME TypeOK, NEW v \in Voters, NEW i \in Slots, NEW m \in MintIdx,
         NEW amount \in Amounts, Deposit(v, i, m, amount)
  PROVE  Bank!Put(v, i, amount)
<1> DEFINE d == deposits[v][i]
<1>1. /\ d \in EntryType /\ d.is_used /\ d.lockup.kind = "None"
      /\ d.voting_mint_config_idx = m /\ amount \in Nat
      /\ UpdateEntry(v, i, Plus(d, amount)) /\ now' = now
      /\ vault' = [vault EXCEPT ![v][m] = @ + amount]
  BY StakingAssumption DEF TypeOK, Deposit, Active, Amounts
<1>2. Bank!SetAccount(v, i, Account(Plus(d, amount)))
  BY <1>1, UpdateAccounts
<1>3. Account(Plus(d, amount)) = Bank!Paid(Account(d), -amount)
  BY <1>1, MoneyAccount
<1>4. /\ Bank!Used(v, i) /\ accounts[v][i] = Account(d)
      /\ Account(d).state = "liquid" /\ Account(d).currency = m
  BY <1>1, AccountsAt, AccountFields, AccountUsed
<1> QED
  BY <1>1, <1>2, <1>3, <1>4 DEF Bank!Put

\* stake moves money; a lock that has begun is not made shorter.
LEMMA StakeMoves ==
  ASSUME IInv, NEW v \in Voters, NEW i \in Slots, NEW j \in Slots,
         NEW amount \in Amounts, Stake(v, i, j, amount)
  PROVE  Bank!Move(v, i, j, amount)
<1> DEFINE d == Given(v, i, amount)[j]
           e == Staked(d, amount, now)
<1>1. /\ TypeOK /\ amount \in Nat
      /\ SourceGives(v, i, amount) /\ SameMint(v, i, j)
      /\ deposits' = [deposits EXCEPT ![v] =
                        [Given(v, i, amount) EXCEPT ![j] = e]]
      /\ UNCHANGED <<now, vault>>
  BY StakingAssumption DEF IInv, Stake, Amounts, tokens
<1>2. d \in EntryType /\ d.is_used /\ d.lockup \in LockupType
  BY <1>1, TargetOwed DEF EntryType
<1>3. /\ deposits[v][j] \in EntryType /\ deposits[v][j].is_used
      /\ EntryWellFormed(deposits[v][j], now)
  BY <1>1 DEF IInv, TypeOK, EntriesWellFormed, SameMint, Active
<1>4. d.lockup = deposits[v][j].lockup
  BY <1>1, <1>3, GivenTarget, MinusFields
<1>5. /\ d.lockup.end_ts = d.lockup.start_ts + ToSecs(d.lockup.period)
      /\ d.lockup.end_ts \in Nat
  BY <1>2, <1>3, <1>4 DEF EntryWellFormed, LockupType
<1> HIDE DEF d
<1>6. /\ e.is_used /\ e.lockup = Ending(d.lockup)
      /\ e.voting_mint_config_idx = d.voting_mint_config_idx
      /\ e.amount_deposited_native = d.amount_deposited_native + amount
      /\ e.slashing_penalty = d.slashing_penalty
  BY <1>2, ChangedFields, MoneyFields
<1>7. /\ e.lockup.kind = d.lockup.kind /\ e.lockup.end_ts = d.lockup.end_ts
      /\ e.lockup.cooldown_requested = d.lockup.cooldown_requested
      /\ e.lockup.cooldown_ends_at = d.lockup.cooldown_ends_at
  BY <1>2, <1>5, <1>6, ChangedLockup
<1> HIDE DEF e
<1>8. Account(e) = [Bank!Paid(Account(d), -amount) EXCEPT
                      !.until = Account(e).until]
  BY <1>1, <1>2, <1>6, <1>7, LongerAccount
<1>9. Until(d) <= Until(e)
  BY <1>5, <1>7 DEF Until
<1> QED
  BY <1>1, <1>6, <1>8, <1>9, MoveStep DEF d

\* extend_stake moves money and makes the lock longer.
LEMMA ExtendMoves ==
  ASSUME IInv, EntryStepsOnly, NEW v \in Voters, NEW i \in Slots,
         NEW j \in Slots, NEW p \in CallerPeriods, NEW amount \in Amounts,
         ExtendStake(v, i, j, p, amount)
  PROVE  Bank!Move(v, i, j, amount)
<1> DEFINE d == Given(v, i, amount)[j]
           e == Extended(d, p, amount, now)
<1>1. /\ TypeOK /\ amount \in Nat /\ p \in LockupPeriod
      /\ SourceGives(v, i, amount) /\ SameMint(v, i, j)
      /\ deposits' = [deposits EXCEPT ![v] =
                        [Given(v, i, amount) EXCEPT ![j] = e]]
      /\ UNCHANGED <<now, vault>>
  BY StakingAssumption DEF IInv, ExtendStake, Amounts, tokens
<1>2. d \in EntryType /\ d.is_used /\ d.lockup \in LockupType
  BY <1>1, TargetOwed DEF EntryType
<1>3. /\ deposits[v][j] \in EntryType /\ deposits[v][j].is_used
      /\ EntryWellFormed(deposits[v][j], now) /\ now \in Nat
      /\ EntryStep(deposits[v][j], deposits'[v][j])
  BY <1>1 DEF IInv, TypeOK, EntriesWellFormed, SameMint, Active, EntryStepsOnly
<1>4. d.lockup = deposits[v][j].lockup
  BY <1>1, <1>3, GivenTarget, MinusFields
<1>5. deposits'[v][j] = e
  <2>1. DOMAIN Given(v, i, amount) = Slots /\ DOMAIN deposits = Voters
    BY <1>1 DEF TypeOK, Given
  <2> QED
    BY <1>1, <2>1
<1> HIDE DEF d
<1>6. /\ e.is_used /\ e.lockup = Restarted(d.lockup, p, now)
      /\ e.voting_mint_config_idx = d.voting_mint_config_idx
      /\ e.amount_deposited_native = d.amount_deposited_native + amount
      /\ e.slashing_penalty = d.slashing_penalty
  BY <1>2, ChangedFields, MoneyFields
<1>7. /\ e.lockup.kind = d.lockup.kind
      /\ e.lockup.cooldown_requested = d.lockup.cooldown_requested
      /\ e.lockup.cooldown_ends_at = d.lockup.cooldown_ends_at
  BY <1>2, <1>6, RestartedLockup
<1> HIDE DEF e
<1>8. Account(e) = [Bank!Paid(Account(d), -amount) EXCEPT
                      !.until = Account(e).until]
  BY <1>1, <1>2, <1>6, <1>7, LongerAccount
<1>9. Until(d) <= Until(e)
  <2>1. LockHolds(deposits[v][j], e, now)
    BY <1>3, <1>5, EntryStepLockHolds
  <2> QED
    BY <1>3, <1>4, <1>6, <1>7, <2>1 DEF LockHolds, Until
<1> QED
  BY <1>1, <1>6, <1>8, <1>9, MoveStep DEF d

\* unlock_tokens gives notice on a locked account, whose time is over, and does
\* nothing to a liquid one.
LEMMA NoticeStep ==
  ASSUME IInv, NEW v \in Voters, NEW i \in Slots, UnlockTokens(v, i)
  PROVE  Bank!GiveNotice(v, i) \/ UNCHANGED <<now, accounts, vault>>
<1> DEFINE d == deposits[v][i]
           e == CoolingDown(d, now)
<1>1. /\ TypeOK /\ d \in EntryType /\ d.is_used
      /\ ~d.lockup.cooldown_requested /\ now >= d.lockup.end_ts
      /\ UpdateEntry(v, i, e) /\ UNCHANGED <<now, vault>>
  BY DEF IInv, TypeOK, UnlockTokens, Active, tokens
<1>2. /\ Bank!SetAccount(v, i, Account(e))
      /\ Account(e) = Account(d) => accounts' = accounts
  BY <1>1, UpdateAccounts
<1>3. CASE d.lockup.kind = "None"
  BY <1>1, <1>2, <1>3, CoolingAccount
<1>4. CASE d.lockup.kind # "None"
  <2>1. Account(e) = Bank!Noticed(Account(d), now + CooldownSecs)
    BY <1>1, <1>4, CoolingAccount
  <2>2. /\ Bank!Used(v, i) /\ accounts[v][i] = Account(d)
        /\ Account(d).state = "locked" /\ now >= Account(d).until
    BY <1>1, <1>4, AccountsAt, AccountFields DEF AccountState, Until
  <2> QED
    BY <1>1, <1>2, <2>1, <2>2 DEF Bank!GiveNotice
<1> QED
  BY <1>3, <1>4

\* withdraw pays out of a liquid account, or of one whose notice is over, and
\* may close the account that it empties.
LEMMA PayStep ==
  ASSUME TypeOK, NEW v \in Voters, NEW i \in Slots, NEW m \in MintIdx,
         NEW amount \in Amounts, Withdraw(v, i, m, amount)
  PROVE  Bank!PayOut(v, i, amount)
<1> DEFINE d == deposits[v][i]
           e == Withdrawn(d, amount)
           left == [d EXCEPT !.amount_deposited_native = @ - amount,
                             !.slashing_penalty = 0]
           n == d.amount_deposited_native - amount
           acc == [Bank!Paid(Account(d), amount) EXCEPT !.fine = 0]
<1>1. /\ d \in EntryType /\ d.is_used /\ d.voting_mint_config_idx = m
      /\ amount \in Nat /\ d.amount_deposited_native \in Nat
      /\ d.slashing_penalty \in Nat /\ vault[v][m] \in Nat
      /\ CooledDown(d) /\ amount <= AmountUnlocked(d)
      /\ amount + d.slashing_penalty <= vault[v][m]
      /\ UpdateEntry(v, i, e) /\ now' = now
      /\ vault' = [vault EXCEPT ![v][m] = @ - amount - d.slashing_penalty]
  BY StakingAssumption DEF TypeOK, EntryType, Withdraw, Active, Amounts
<1>2. amount <= d.amount_deposited_native
  BY <1>1 DEF AmountUnlocked
<1>3. /\ left.amount_deposited_native = n /\ left.slashing_penalty = 0
      /\ left.is_used = d.is_used /\ left.lockup = d.lockup
      /\ left.voting_mint_config_idx = d.voting_mint_config_idx
  BY <1>1, Zenon DEF EntryType
<1>4. e = IF Exhausted(left) THEN EmptyEntry ELSE left
  BY Zenon DEF Withdrawn
<1> HIDE DEF left
<1>5. acc = Acc(AccountState(d), m, n, 0, Until(d), Ready(d))
  <2>1. Account(d) = Acc(AccountState(d), m, d.amount_deposited_native,
                         d.slashing_penalty, Until(d), Ready(d))
    BY <1>1, AccountOf
  <2>2. Bank!Paid(Acc(AccountState(d), m, d.amount_deposited_native,
                      d.slashing_penalty, Until(d), Ready(d)), amount)
          = Acc(AccountState(d), m, n, d.slashing_penalty, Until(d), Ready(d))
    BY AccPaid
  <2>3. [Acc(AccountState(d), m, n, d.slashing_penalty, Until(d), Ready(d))
           EXCEPT !.fine = 0]
          = Acc(AccountState(d), m, n, 0, Until(d), Ready(d))
    BY AccFine
  <2> QED
    BY <2>1, <2>2, <2>3
<1> HIDE DEF acc
<1>6. Account(left) = acc
  BY <1>1, <1>3, <1>5, AccountFrom
<1>7. acc.balance = n
  BY <1>5, AccFields
<1>8. \/ Account(e) = acc
      \/ acc.balance = 0 /\ Account(e) = Bank!NoAccount
  <2>1. Account(EmptyEntry) = Bank!NoAccount
    BY AccountOf DEF EmptyEntry
  <2> QED
    BY <1>3, <1>4, <1>6, <1>7, <2>1 DEF Exhausted
<1>9. Bank!SetAccount(v, i, Account(e))
  BY <1>1, UpdateAccounts
<1>10. /\ Bank!Used(v, i) /\ accounts[v][i] = Account(d)
       /\ Account(d).currency = m /\ Account(d).fine = d.slashing_penalty
       /\ amount <= Account(d).balance
       /\ amount + Account(d).fine <= vault[v][m]
  BY <1>1, <1>2, AccountsAt, AccountFields
<1>11. \/ Account(d).state = "liquid"
       \/ Account(d).state = "notice" /\ now >= Account(d).ready
  <2>1. d.lockup.kind \in LockupKind
    BY <1>1 DEF EntryType, LockupType
  <2> QED
    BY <1>1, <2>1, AccountFields DEF AccountState, Ready, CooledDown, LockupKind
<1>12. vault' = [vault EXCEPT ![v][m] = @ - amount - Account(d).fine]
  BY <1>1, <1>10
<1> QED
  BY <1>1, <1>8, <1>9, <1>10, <1>11, <1>12 DEF Bank!PayOut, acc

\* slash fines.
LEMMA FineStep ==
  ASSUME TypeOK, NEW v \in Voters, NEW i \in Slots, NEW amount \in Amounts,
         Slash(v, i, amount)
  PROVE  Bank!Fine(v, i, amount)
<1> DEFINE d == deposits[v][i]
           paid == Bank!Paid(Account(d), amount)
<1>1. /\ d \in EntryType /\ d.is_used /\ amount \in Nat
      /\ amount <= d.amount_deposited_native
      /\ UpdateEntry(v, i, Slashed(d, amount)) /\ UNCHANGED <<now, vault>>
  BY StakingAssumption DEF TypeOK, Slash, Active, Amounts, tokens
<1>2. Bank!SetAccount(v, i, Account(Slashed(d, amount)))
  BY <1>1, UpdateAccounts
<1>3. Account(Slashed(d, amount))
        = [paid EXCEPT !.fine = d.slashing_penalty + amount]
  BY <1>1, MoneyAccount
<1>4. paid.fine = d.slashing_penalty
  <2>1. paid = Acc(AccountState(d), d.voting_mint_config_idx,
                   d.amount_deposited_native - amount, d.slashing_penalty,
                   Until(d), Ready(d))
    BY <1>1, AccountOf, AccPaid
  <2> HIDE DEF paid
  <2> QED
    BY <2>1, AccFields
<1>5. /\ Bank!Used(v, i) /\ accounts[v][i] = Account(d)
      /\ amount <= Account(d).balance
  BY <1>1, AccountsAt, AccountFields
<1>6. [paid EXCEPT !.fine = @ + amount]
        = [paid EXCEPT !.fine = d.slashing_penalty + amount]
  BY <1>4
<1>7. Bank!SetAccount(v, i, [paid EXCEPT !.fine = @ + amount])
  BY <1>2, <1>3, <1>6
<1> QED
  BY <1>1, <1>5, <1>7 DEF Bank!Fine

\* close_deposit_entry drops an account without money.
LEMMA DropStep ==
  ASSUME TypeOK, NEW v \in Voters, NEW i \in Slots, CloseDepositEntry(v, i)
  PROVE  Bank!Drop(v, i)
<1> DEFINE d == deposits[v][i]
<1>1. /\ d.is_used /\ d.amount_deposited_native = 0
      /\ UpdateEntry(v, i, EmptyEntry) /\ UNCHANGED <<now, vault>>
  BY DEF CloseDepositEntry, Active, tokens
<1>2. Bank!SetAccount(v, i, Account(EmptyEntry))
  BY <1>1, UpdateAccounts
<1>3. Account(EmptyEntry) = Bank!NoAccount
  BY AccountOf DEF EmptyEntry
<1>4. Bank!Used(v, i) /\ accounts[v][i].balance = 0
  BY <1>1, AccountsAt, AccountFields
<1> QED
  BY <1>1, <1>2, <1>3, <1>4 DEF Bank!Drop

\* close_voter leaves no locked money behind.
LEMMA LeaveStep ==
  ASSUME IInv, NEW v \in Voters, CloseVoter(v)
  PROVE  Bank!Leave(v)
<1>1. /\ deposits \in [Voters -> [Slots -> EntryType]]
      /\ deposits' = [deposits EXCEPT ![v] = NoDeposits]
      /\ NothingLocked(v) /\ UNCHANGED <<now, vault>>
  BY DEF IInv, TypeOK, CloseVoter, tokens
<1>2. ASSUME NEW i \in Slots, Bank!Used(v, i), accounts[v][i].state = "locked"
      PROVE  accounts[v][i].balance = 0
  <2> DEFINE d == deposits[v][i]
  <2>1. d.is_used /\ accounts[v][i] = Account(d)
    BY <1>2, AccountsAt
  <2>2. d.lockup.kind # "None" /\ ~d.lockup.cooldown_requested
    BY <1>2, <2>1, AccountFields DEF AccountState
  <2>3. d.lockup.period # "None"
    BY <2>1, <2>2 DEF IInv, EntriesWellFormed, EntryWellFormed, ValidLockup
  <2>4. AmountLocked(d) = 0
    BY <1>1 DEF NothingLocked
  <2>5. d.amount_deposited_native = 0
    BY <2>1, <2>2, <2>3, <2>4 DEF AmountLocked, IsStaked
  <2> QED
    BY <2>1, <2>5, AccountFields
<1>3. accounts' = [accounts EXCEPT ![v] = [i \in Slots |-> Bank!NoAccount]]
  <2>1. Account(EmptyEntry) = Bank!NoAccount
    BY AccountOf DEF EmptyEntry
  <2>2. \A w \in Voters, i \in Slots :
          deposits'[w][i] = IF w = v THEN EmptyEntry ELSE deposits[w][i]
    BY <1>1 DEF NoDeposits
  <2>3. accounts' = [w \in Voters |-> [i \in Slots |->
          IF w = v THEN Bank!NoAccount ELSE accounts[w][i]]]
    BY <2>1, <2>2 DEF accounts
  <2>4. accounts = [w \in Voters |-> [i \in Slots |-> accounts[w][i]]]
    BY DEF accounts
  <2> QED
    BY <2>3, <2>4
<1> QED
  BY <1>1, <1>2, <1>3 DEF Bank!Leave

-----------------------------------------------------------------------------
(* The refinement. *)

\* Entries that are left alone are accounts that are left alone.
LEMMA AccountsUntouched ==
  ASSUME deposits' = deposits
  PROVE  accounts' = accounts
BY DEF accounts

\* A step of the staking program is a step of the time lock, or none.
LEMMA StepRefines ==
  ASSUME IInv, [Next]_vars
  PROVE  [Bank!Next]_<<now, accounts, vault>>
<1> DEFINE Stutter == UNCHANGED <<now, accounts, vault>>
<1>1. TypeOK /\ EntryStepsOnly
  BY EveryStepIsEntryStep DEF IInv
<1>2. ASSUME NEW v \in Voters, UserStep(v)
      PROVE  Bank!Next \/ Stutter
  <2>1. ASSUME NEW i \in Slots, NEW m \in MintIdx, NEW d \in Voters,
               NEW k \in LockupKind, NEW p \in CallerPeriods,
               CreateDepositEntry(v, i, d, k, p, m)
        PROVE  Bank!Next
    BY <1>1, <2>1, OpenStep DEF Bank!Next
  <2>2. ASSUME NEW i \in Slots, NEW m \in MintIdx, NEW a \in Amounts,
               Deposit(v, i, m, a) \/ Withdraw(v, i, m, a)
        PROVE  Bank!Next
    BY <1>1, <2>2, PutStep, PayStep DEF Bank!Next
  <2>3. ASSUME NEW i \in Slots, NEW j \in Slots, NEW a \in Amounts,
               Stake(v, i, j, a)
        PROVE  Bank!Next
    BY <2>3, StakeMoves DEF Bank!Next
  <2>4. ASSUME NEW i \in Slots, NEW j \in Slots, NEW p \in CallerPeriods,
               NEW a \in Amounts, ExtendStake(v, i, j, p, a)
        PROVE  Bank!Next
    BY <1>1, <2>4, ExtendMoves DEF Bank!Next
  <2>5. ASSUME NEW i \in Slots, UnlockTokens(v, i)
        PROVE  Bank!Next \/ Stutter
    BY <2>5, NoticeStep DEF Bank!Next
  <2>6. ASSUME NEW i \in Slots, NEW d \in Voters, ChangeDelegate(v, i, d)
        PROVE  Stutter
    <3> DEFINE e == Delegated(deposits[v][i], d, now)
    <3>1. /\ deposits[v][i] \in EntryType /\ deposits[v][i].is_used
          /\ UpdateEntry(v, i, e) /\ UNCHANGED <<now, vault>>
      BY <1>1, <2>6 DEF TypeOK, ChangeDelegate, Active, tokens
    <3>2. Account(e) = Account(deposits[v][i])
      BY <3>1, MoneyAccount
    <3> QED
      BY <1>1, <3>1, <3>2, UpdateAccounts
  <2>7. ASSUME NEW i \in Slots, CloseDepositEntry(v, i)
        PROVE  Bank!Next
    BY <1>1, <2>7, DropStep DEF Bank!Next
  <2>8. CASE CloseVoter(v)
    BY <2>8, LeaveStep DEF Bank!Next
  <2>9. CASE CreateVoter(v) \/ Claim(v) \/ UpdateVoterWeightRecord(v)
    BY <2>9, AccountsUntouched
       DEF CreateVoter, Claim, UpdateVoterWeightRecord, tokens
  <2> QED
    BY <1>2, <2>1, <2>2, <2>3, <2>4, <2>5, <2>6, <2>7, <2>8, <2>9 DEF UserStep
<1>3. ASSUME NEW v \in Voters, AuthorityStep(v)
      PROVE  Bank!Next \/ Stutter
  <2>1. ASSUME NEW i \in Slots, NEW a \in Amounts, Slash(v, i, a)
        PROVE  Bank!Next
    BY <1>1, <2>1, FineStep DEF Bank!Next
  <2>2. ASSUME UNCHANGED <<now, deposits, vault>>
        PROVE  Stutter
    BY <2>2, AccountsUntouched
  <2> QED
    BY <1>3, <2>1, <2>2 DEF AuthorityStep, RestrictTokenflow, AllowTokenflow,
       RestrictBatchMinting, DecreaseRewards, tokens
<1>4. ASSUME NEW v \in Voters, GovernanceStep(v) \/ Distribute(v)
      PROVE  Stutter
  BY <1>4, AccountsUntouched
     DEF GovernanceStep, CastVote, RelinquishVote, CreateProposal,
         FinalizeProposal, Distribute, tokens
<1>5. CASE NextSlot
  <2>1. /\ now' = now \/ now' = now + 1
        /\ accounts' = accounts /\ vault' = vault
    BY <1>5, AccountsUntouched DEF NextSlot, tokens
  <2> QED
    BY <2>1 DEF Bank!Next, Bank!Tick
<1>6. CASE UNCHANGED vars
  BY <1>6, AccountsUntouched DEF vars, tokens
<1> QED
  BY <1>2, <1>3, <1>4, <1>5, <1>6 DEF Next

\* The initial state is one of the time lock: no accounts, empty reserves.
LEMMA InitRefines == Init => Bank!Init
<1> SUFFICES ASSUME Init
             PROVE  Bank!Init
  OBVIOUS
<1>1. Account(EmptyEntry) = Bank!NoAccount
  BY AccountOf DEF EmptyEntry
<1>2. accounts = [v \in Voters |-> [i \in Slots |-> Bank!NoAccount]]
  BY <1>1 DEF Init, accounts, NoDeposits
<1> QED
  BY <1>2, StakingAssumption DEF Init, Bank!Init

\* The staking program keeps the promises of the time lock, for any number of
\* voters, entries, mints and tokens and any cooldown.
THEOREM StakingIsATimeLock == Spec => BankSpec
<1>1. []IInv /\ [][Next]_vars => [][Bank!Next]_<<now, accounts, vault>>
  BY StepRefines, PTL
<1>2. Spec => []IInv
  BY TypeCorrect, EntriesStayWellFormed, PTL DEF IInv
<1> QED
  BY <1>1, <1>2, InitRefines, PTL DEF Spec, BankSpec, Bank!Spec, Bank!bank
=============================================================================
