----------------------------- MODULE BookProofs -----------------------------
(***************************************************************************)
(* The books of Bonus balance: pending_balance is the sum of the pending   *)
(* accruals, balance is explained by the accruals credited and by          *)
(* audit_log, accruals go through their life in one direction, a request's *)
(* file is delivered against its price once, and the two balances          *)
(* implement AccountBook.                                                  *)
(*                                                                         *)
(* PendingBacked and BalanceExplained are not inductive alone: that a row  *)
(* added is new, and that a row credited is not counted twice, rests on    *)
(* the numbering of the calls and on the three sets being disjoint.        *)
(*                                                                         *)
(* The referral tree is rooted, however users register, are blocked and    *)
(* deleted; and it says who earns, how much and how often: every accrual   *)
(* is for the referrer that many levels above its source, of the amount    *)
(* its row explains, and once per call and level; and those of a deal are  *)
(* pending for one issue at a time.                                        *)
(*                                                                         *)
(* That a referrer's id is the smaller one rests on ids being given out    *)
(* without gaps.  AccrualReachesUpline speaks of the tree as it is now, so *)
(* it rests on the tree above a registered user never changing;            *)
(* AccrualPaidOnce on uplines that only go down in id.                     *)
(***************************************************************************)
EXTENDS BonusProofs

CallsCounted == \A a \in AllAccruals : a.call <= calls

OneStatus ==
    /\ accruals.pending \cap accruals.credited = {}
    /\ accruals.cancelled \cap (accruals.pending \cup accruals.credited) = {}

Books == CallsCounted /\ OneStatus /\ PendingBacked /\ BalanceExplained

\* The rows of a user distribute over union and difference.
LEMMA OfSets ==
  \A u, S, R : Of(u, S \cup R) = Of(u, S) \cup Of(u, R) /\ Of(u, S \ R) = Of(u, S) \ Of(u, R)
  BY DEF Of

\* Rows that are new add their sum to the user's.
LEMMA TotalAdded ==
  ASSUME NEW S \in SUBSET Accrual, IsFiniteSet(S), NEW R \in SUBSET Accrual, IsFiniteSet(R),
         S \cap R = {}, NEW u
  PROVE  /\ Total(Of(u, S \cup R)) = Total(Of(u, S)) + Total(Of(u, R))
         /\ Total(Of(u, S)) \in Nat /\ Total(Of(u, R)) \in Nat
  <1>1. Priced(Of(u, S)) /\ Priced(Of(u, R)) BY AccrualsPriced
  <1>2. Of(u, S) \cap Of(u, R) = {} BY DEF Of
  <1> QED BY <1>1, <1>2, OfSets, TotalUnion, TotalNat

\* Rows that leave take their sum from the user's.
LEMMA TotalTaken ==
  ASSUME NEW S \in SUBSET Accrual, IsFiniteSet(S), NEW R \in SUBSET S, NEW u
  PROVE  /\ Total(Of(u, S)) = Total(Of(u, R)) + Total(Of(u, S \ R))
         /\ Total(Of(u, R)) \in Nat /\ Total(Of(u, S \ R)) \in Nat
  <1>1. Priced(Of(u, S)) BY AccrualsPriced
  <1>2. Of(u, R) \in SUBSET Of(u, S) /\ Of(u, S \ R) \in SUBSET Of(u, S) BY DEF Of
  <1>3. Total(Of(u, S)) = Total(Of(u, R)) + Total(Of(u, S) \ Of(u, R))
    BY <1>1, <1>2, TotalMinus
  <1> QED BY <1>1, <1>2, <1>3, OfSets, PricedSubset, TotalNat

\* The clamp at zero never bites: as long as pending_balance is the sum of
\* the pending rows, releasing some of them leaves the sum of the others.
LEMMA ReleasedExactly ==
  ASSUME TypeInv, PendingBacked, NEW rows \in SUBSET accruals.pending
  PROVE  /\ Released(rows) = [u \in User |-> pending[u] - Total(Of(u, rows))]
         /\ \A u \in User : /\ Released(rows)[u] = Total(Of(u, accruals.pending \ rows))
                            /\ Released(rows)[u] \in Nat
                            /\ Total(Of(u, rows)) \in Nat
  <1>1. accruals.pending \in SUBSET Accrual /\ IsFiniteSet(accruals.pending)
    BY DEF TypeInv, TypeOK, ReferralTypeOK, FiniteAccruals
  <1>2. ASSUME NEW u \in User
        PROVE  /\ AtLeastZero(pending[u] - Total(Of(u, rows))) = pending[u] - Total(Of(u, rows))
               /\ pending[u] - Total(Of(u, rows)) = Total(Of(u, accruals.pending \ rows))
               /\ pending[u] - Total(Of(u, rows)) \in Nat
               /\ Total(Of(u, rows)) \in Nat
    <2>1. pending[u] = Total(Of(u, rows)) + Total(Of(u, accruals.pending \ rows))
          /\ Total(Of(u, rows)) \in Nat /\ Total(Of(u, accruals.pending \ rows)) \in Nat
      BY <1>1, TotalTaken DEF PendingBacked
    <2>2. pending[u] - Total(Of(u, rows)) = Total(Of(u, accruals.pending \ rows))
      BY <2>1
    <2> QED BY <2>1, <2>2 DEF AtLeastZero
  <1> QED BY <1>2 DEF Released

\* The books are balanced initially.
LEMMA BooksInit == Init => Books
  <1> SUFFICES ASSUME Init PROVE Books OBVIOUS
  <1>1. accruals = [pending |-> {}, credited |-> {}, cancelled |-> {}] BY DEF Init, ReferralInit
  <1>2. \A u : Total(Of(u, {})) = 0
    <2>1. \A u : Of(u, {}) = {} BY DEF Of
    <2> QED BY <2>1, TotalEmpty
  <1>3. PendingBacked BY <1>1, <1>2 DEF Init, AccountsInit, PendingBacked
  <1>4. BalanceExplained BY <1>1, <1>2 DEF Init, AccountsInit, BalanceExplained
  <1>5. CallsCounted /\ OneStatus BY <1>1 DEF CallsCounted, OneStatus, AllAccruals
  <1> QED BY <1>3, <1>4, <1>5 DEF Books

\* accrue_for_source keeps the books: its rows are new, and pending_balance
\* grows by their sum.
LEMMA AccrueBooks ==
  ASSUME TypeInv, Books,
         NEW source \in User, NEW mils \in Nat, NEW platform \in PlatformValues,
         NEW available \in Int, NEW deal \in Deal \cup {NoDeal},
         AccrueForSource(source, mils, platform, available, deal)
  PROVE  Books'
  <1> DEFINE new == NewAccruals(source, mils, platform, available, deal)
  <1>1. new \in SUBSET Accrual /\ IsFiniteSet(new) /\ \A a \in new : a.call = calls + 1
    BY NewAccrualsType DEF TypeInv, TypeOK
  <1>2. /\ accruals' = [accruals EXCEPT !.pending = @ \cup new]
        /\ pending' = [u \in User |-> pending[u] + Total(Of(u, new))]
        /\ calls' = calls + 1
        /\ UNCHANGED <<status, referrer, balance, audit>>
    BY DEF AccrueForSource
  <1> HIDE DEF new
  <1>3. /\ accruals'.pending = accruals.pending \cup new
        /\ accruals'.credited = accruals.credited
        /\ accruals'.cancelled = accruals.cancelled
    BY <1>2 DEF TypeInv, TypeOK, ReferralTypeOK
  <1>4. calls \in Nat /\ \A a \in AllAccruals : a.call \in Nat /\ a.call <= calls
    BY ReferralAssumption
    DEF TypeInv, TypeOK, ReferralTypeOK, Books, CallsCounted, AllAccruals, Accrual
  <1>5. new \cap AllAccruals = {} BY <1>1, <1>4
  <1>6. CallsCounted'
    <2>1. AllAccruals' = AllAccruals \cup new BY <1>3 DEF AllAccruals
    <2>2. \A a \in AllAccruals \cup new : a.call <= calls + 1 BY <1>1, <1>4
    <2> QED BY <2>1, <2>2, <1>2 DEF CallsCounted
  <1>7. OneStatus' BY <1>3, <1>5 DEF Books, OneStatus, AllAccruals
  <1>8. PendingBacked'
    <2>1. accruals.pending \in SUBSET Accrual /\ IsFiniteSet(accruals.pending)
      BY DEF TypeInv, TypeOK, ReferralTypeOK, FiniteAccruals
    <2>2. accruals.pending \cap new = {} BY <1>5 DEF AllAccruals
    <2>3. ASSUME NEW u \in User
          PROVE  pending'[u] = Total(Of(u, accruals.pending \cup new))
      BY <2>1, <2>2, <1>1, <1>2, TotalAdded DEF Books, PendingBacked
    <2> QED BY <2>3, <1>3 DEF PendingBacked
  <1>9. BalanceExplained' BY <1>2, <1>3 DEF Books, BalanceExplained
  <1> QED BY <1>6, <1>7, <1>8, <1>9 DEF Books

\* cancel_pending_for_deal keeps the books.
LEMMA CancelBooks ==
  ASSUME TypeInv, Books, NEW d \in Deal, CancelPendingForDeal(d)
  PROVE  Books'
  <1> DEFINE rows == {a \in accruals.pending : a.deal = d}
  <1>1. rows \in SUBSET accruals.pending OBVIOUS
  <1>2. /\ accruals' = [accruals EXCEPT !.pending = @ \ rows, !.cancelled = @ \cup rows]
        /\ pending' = Released(rows)
        /\ UNCHANGED <<status, referrer, balance, audit, calls>>
    BY DEF CancelPendingForDeal
  <1> HIDE DEF rows
  <1>3. /\ accruals'.pending = accruals.pending \ rows
        /\ accruals'.credited = accruals.credited
        /\ accruals'.cancelled = accruals.cancelled \cup rows
    BY <1>2 DEF TypeInv, TypeOK, ReferralTypeOK
  <1>4. AllAccruals' = AllAccruals BY <1>1, <1>3 DEF AllAccruals
  <1>5. CallsCounted' BY <1>2, <1>4 DEF Books, CallsCounted
  <1>6. OneStatus' BY <1>1, <1>3 DEF Books, OneStatus
  <1>7. PendingBacked' BY <1>1, <1>2, <1>3, ReleasedExactly DEF Books, PendingBacked
  <1>8. BalanceExplained' BY <1>2, <1>3 DEF Books, BalanceExplained
  <1> QED BY <1>5, <1>6, <1>7, <1>8 DEF Books

\* process_matured_accruals keeps the books: the rows it credits were
\* pending, so the balance is explained by them once.
LEMMA MatureBooks ==
  ASSUME TypeInv, Books, NEW payees, ProcessMatured(payees)
  PROVE  Books'
  <1> DEFINE rows == Matured(payees)
  <1>1. rows \in SUBSET accruals.pending BY DEF Matured
  <1>2. /\ accruals' = [accruals EXCEPT !.pending = @ \ rows, !.credited = @ \cup rows]
        /\ balance' = [u \in User |-> balance[u] + Total(Of(u, rows))]
        /\ pending' = Released(rows)
        /\ UNCHANGED <<status, referrer, audit, deals, calls, today>>
    BY DEF ProcessMatured
  <1> HIDE DEF rows
  <1>3. /\ accruals'.pending = accruals.pending \ rows
        /\ accruals'.credited = accruals.credited \cup rows
        /\ accruals'.cancelled = accruals.cancelled
    BY <1>2 DEF TypeInv, TypeOK, ReferralTypeOK
  <1>4. AllAccruals' = AllAccruals BY <1>1, <1>3 DEF AllAccruals
  <1>5. CallsCounted' BY <1>2, <1>4 DEF Books, CallsCounted
  <1>6. OneStatus' BY <1>1, <1>3 DEF Books, OneStatus
  <1>7. PendingBacked' BY <1>1, <1>2, <1>3, ReleasedExactly DEF Books, PendingBacked
  <1>8. BalanceExplained'
    <2>1. /\ accruals.credited \in SUBSET Accrual /\ IsFiniteSet(accruals.credited)
          /\ accruals.pending \in SUBSET Accrual /\ IsFiniteSet(accruals.pending)
      BY DEF TypeInv, TypeOK, ReferralTypeOK, FiniteAccruals
    <2>2. rows \in SUBSET Accrual /\ IsFiniteSet(rows) BY <2>1, <1>1, FS_Subset
    <2>3. accruals.credited \cap rows = {} BY <1>1 DEF Books, OneStatus
    <2>4. ASSUME NEW u \in User
          PROVE  balance'[u] + audit[u].debit + audit[u].exchange
                   = Total(Of(u, accruals.credited \cup rows)) + audit[u].credit
      <3>1. /\ Total(Of(u, accruals.credited \cup rows))
                 = Total(Of(u, accruals.credited)) + Total(Of(u, rows))
            /\ Total(Of(u, accruals.credited)) \in Nat /\ Total(Of(u, rows)) \in Nat
        BY <2>1, <2>2, <2>3, TotalAdded
      <3>2. balance'[u] = balance[u] + Total(Of(u, rows)) BY <1>2
      <3>3. balance[u] + audit[u].debit + audit[u].exchange
              = Total(Of(u, accruals.credited)) + audit[u].credit
        BY DEF Books, BalanceExplained
      <3>4. balance[u] \in Nat /\ audit[u] \in [credit : Nat, debit : Nat, exchange : Nat]
        BY DEF TypeInv, TypeOK, AccountsTypeOK
      <3> QED BY <3>1, <3>2, <3>3, <3>4
    <2> QED BY <2>4, <1>2, <1>3 DEF BalanceExplained
  <1> QED BY <1>5, <1>6, <1>7, <1>8 DEF Books

\* A step that leaves balances, accruals and audit alone keeps the books.
LEMMA QuietBooks ==
  ASSUME Books, UNCHANGED <<balance, pending, audit, accruals, calls>>
  PROVE  Books'
  BY DEF Books, CallsCounted, OneStatus, PendingBacked, BalanceExplained, AllAccruals

\* BonusService.debit keeps the books: the audit row makes up for what
\* leaves the balance.
LEMMA DebitBooks ==
  ASSUME TypeInv, Books, NEW u \in User, NEW amount \in Nat,
         NEW reason \in {"debit", "exchange"}, Debit(u, amount, reason),
         UNCHANGED <<accruals, calls>>
  PROVE  Books'
  <1> USE DEF Debit
  <1>1. CallsCounted' /\ OneStatus' /\ PendingBacked'
    BY DEF Books, CallsCounted, OneStatus, PendingBacked, AllAccruals
  <1>2. ASSUME NEW v \in User
        PROVE  balance'[v] + audit'[v].debit + audit'[v].exchange
                 = balance[v] + audit[v].debit + audit[v].exchange
               /\ audit'[v].credit = audit[v].credit
    <2>1. /\ balance \in [User -> Nat]
          /\ audit \in [User -> [credit : Nat, debit : Nat, exchange : Nat]]
      BY DEF TypeInv, TypeOK, AccountsTypeOK
    <2>2. CASE v # u
      BY <2>1, <2>2
    <2>3. CASE v = u /\ reason = "debit"
      <3>1. balance'[u] = balance[u] - amount BY <2>1
      <3>2. /\ audit'[u].debit = audit[u].debit + amount
            /\ audit'[u].exchange = audit[u].exchange /\ audit'[u].credit = audit[u].credit
        BY <2>1, <2>3
      <3> QED BY <3>1, <3>2, <2>1, <2>3
    <2>4. CASE v = u /\ reason = "exchange"
      <3>1. balance'[u] = balance[u] - amount BY <2>1
      <3>2. /\ audit'[u].exchange = audit[u].exchange + amount
            /\ audit'[u].debit = audit[u].debit /\ audit'[u].credit = audit[u].credit
        BY <2>1, <2>4
      <3> QED BY <3>1, <3>2, <2>1, <2>4
    <2> QED BY <2>2, <2>3, <2>4
  <1>3. BalanceExplained' BY <1>2 DEF Books, BalanceExplained
  <1> QED BY <1>1, <1>3 DEF Books

\* BonusService.credit keeps the books.
LEMMA CreditBooks ==
  ASSUME TypeInv, Books, NEW u \in User, NEW mils \in ManualAmounts, CreditBonus(u, mils),
         UNCHANGED <<accruals, calls>>
  PROVE  Books'
  <1> DEFINE amount == Quantize(mils)
  <1>a. amount \in Nat BY AccountsAssumption, RoundingNat
  <1>b. /\ balance' = [balance EXCEPT ![u] = @ + amount]
        /\ audit' = [audit EXCEPT ![u].credit = @ + amount]
        /\ UNCHANGED <<status, referrer, pending>>
    BY DEF CreditBonus
  <1> HIDE DEF amount
  <1>1. CallsCounted' /\ OneStatus' /\ PendingBacked'
    BY <1>b DEF Books, CallsCounted, OneStatus, PendingBacked, AllAccruals
  <1>2. ASSUME NEW v \in User
        PROVE  balance'[v] + audit'[v].debit + audit'[v].exchange
                 = Total(Of(v, accruals.credited)) + audit'[v].credit
    <2>1. /\ balance \in [User -> Nat]
          /\ audit \in [User -> [credit : Nat, debit : Nat, exchange : Nat]]
      BY DEF TypeInv, TypeOK, AccountsTypeOK
    <2>2. /\ balance[v] + audit[v].debit + audit[v].exchange
               = Total(Of(v, accruals.credited)) + audit[v].credit
          /\ Total(Of(v, accruals.credited)) \in Nat
      BY AccrualsPriced
      DEF Books, BalanceExplained, TypeInv, TypeOK, ReferralTypeOK, FiniteAccruals
    <2>3. CASE v # u
      BY <2>1, <2>2, <2>3, <1>b
    <2>4. CASE v = u
      <3>1. /\ balance'[v] = balance[v] + amount
            /\ audit'[v].credit = audit[v].credit + amount
            /\ audit'[v].debit = audit[v].debit /\ audit'[v].exchange = audit[v].exchange
        BY <2>1, <2>4, <1>b
      <3>2. audit[v] \in [credit : Nat, debit : Nat, exchange : Nat] /\ balance[v] \in Nat
        BY <2>1
      <3> QED BY <3>1, <3>2, <2>2, <1>a
    <2> QED BY <2>3, <2>4
  <1>3. BalanceExplained' BY <1>2 DEF BalanceExplained
  <1> QED BY <1>1, <1>3 DEF Books

-----------------------------------------------------------------------------
(* What every step does to the books, by cases that forget the rest. *)

Accrues ==
    \E source \in User, mils \in Nat, platform \in PlatformValues, available \in Int,
       deal \in Deal \cup {NoDeal} : AccrueForSource(source, mils, platform, available, deal)

Debits ==
    \E u \in User, amount \in Nat, reason \in {"debit", "exchange"} : Debit(u, amount, reason)

Credits == \E u \in User, mils \in ManualAmounts : CreditBonus(u, mils)

Adjusts == (Debits \/ Credits) /\ UNCHANGED <<accruals, calls>>

Quiet == UNCHANGED <<balance, pending, audit, accruals, calls>>

\* What the operations on users do to the balances.
LEMMA AccountsStepBooks ==
  ASSUME AccountsNext PROVE Debits \/ Credits \/ UNCHANGED <<balance, pending, audit>>
  <1>1. ASSUME NEW u \in User, NEW mils \in ManualAmounts, DebitBonus(u, mils) PROVE Debits
    BY <1>1, AccountsAssumption, RoundingNat DEF DebitBonus, Debits
  <1> QED BY <1>1 DEF AccountsNext, Register, BlockUser, UnblockUser, DeleteUser, Credits

\* What deals, accruals and the clock do to the balances.
LEMMA ReferralStepBooks ==
  ASSUME TypeInv, ReferralNext
  PROVE  \/ Accrues
         \/ \E d \in Deal : CancelPendingForDeal(d)
         \/ \E payees : ProcessMatured(payees)
         \/ Quiet
  <1>0. ReferralTypeOK /\ DealsOwned BY DEF TypeInv, TypeOK
  <1>1. ASSUME NEW d \in Deal, NEW platform \in PlatformValues, IssueDeal(d, platform)
        PROVE  Accrues
    <2>1. deals[d] \in DealRow /\ deals[d].user \in User
      BY <1>0, <1>1 DEF IssueDeal, DealsOwned, ReferralTypeOK
    <2>2. MilsPerCent * deals[d].amount \in Nat /\ deals[d].accrual_date \in Int
      BY <2>1 DEF DealRow, MilsPerCent
    <2>3. AccrueForSource(deals[d].user, MilsPerCent * deals[d].amount, platform,
                          deals[d].accrual_date, d)
      BY <1>1 DEF IssueDeal
    <2> QED BY <2>1, <2>2, <2>3 DEF Accrues
  <1>2. ASSUME NEW u \in User, NEW mils \in PolicyAmounts, NEW platform \in PlatformValues,
               AccrueManually(u, mils, platform)
        PROVE  Accrues
    <2>1. today + platform.delay \in Int /\ mils \in Nat
      BY <1>0, ReferralAssumption DEF ReferralTypeOK, PlatformValue
    <2>2. AccrueForSource(u, mils, platform, today + platform.delay, NoDeal)
      BY <1>2 DEF AccrueManually
    <2> QED BY <2>1, <2>2 DEF Accrues
  <1> QED BY <1>1, <1>2 DEF ReferralNext, CreateDeal, WithdrawDeal, MoveDeal, UpdateAmount,
             ProcessPending, NextDay, Quiet, accountVars

\* What the exchange does to the balances.
LEMMA ExchangeStepBooks ==
  ASSUME TypeInv, ExchangeNext PROVE Debits \/ UNCHANGED <<balance, pending, audit>>
  <1>1. ASSUME NEW c \in Certificate, CompleteRequest(c) PROVE Debits
    <2>1. certificates[c].user \in User /\ certificates[c].amount \in Nat
      BY <1>1 DEF CompleteRequest, OpenStatus, TypeInv, TypeOK, ExchangeTypeOK, RequestsOwned, Request
    <2> QED BY <1>1, <2>1 DEF CompleteRequest, Debits
  <1> QED BY <1>1 DEF ExchangeNext, CreatePartner, UpdatePartner, CreateRequest, MoveRequest,
             CancelRequest, accountVars

\* What a step does to the balances.
LEMMA StepBooks ==
  ASSUME TypeInv, [Next]_vars
  PROVE  \/ Accrues
         \/ \E d \in Deal : CancelPendingForDeal(d)
         \/ \E payees : ProcessMatured(payees)
         \/ Adjusts
         \/ Quiet
  <1>1. CASE AccountsNext /\ UNCHANGED referralVars
    BY <1>1, AccountsStepBooks DEF Adjusts, Quiet, referralVars
  <1>2. CASE ReferralNext
    BY <1>2, ReferralStepBooks
  <1>3. CASE ExchangeNext /\ UNCHANGED referralVars
    BY <1>3, ExchangeStepBooks DEF Adjusts, Quiet, referralVars
  <1>4. CASE OnlyTemplates
    BY <1>4 DEF OnlyTemplates, Quiet, accountVars, referralVars
  <1> QED BY <1>1, <1>2, <1>3, <1>4, StepSplit

\* Every step keeps the books.
LEMMA BooksStep == TypeInv /\ Books /\ [Next]_vars => Books'
  <1> SUFFICES ASSUME TypeInv, Books, [Next]_vars PROVE Books' OBVIOUS
  <1>1. CASE Accrues BY <1>1, AccrueBooks DEF Accrues
  <1>2. CASE \E d \in Deal : CancelPendingForDeal(d) BY <1>2, CancelBooks
  <1>3. CASE \E payees : ProcessMatured(payees) BY <1>3, MatureBooks
  <1>4. CASE Adjusts BY <1>4, DebitBooks, CreditBooks DEF Adjusts, Debits, Credits
  <1>5. CASE Quiet BY <1>5, QuietBooks DEF Quiet
  <1> QED BY <1>1, <1>2, <1>3, <1>4, <1>5, StepBooks

\* The books always balance.
THEOREM BooksInvariant == Spec => []Books
  BY TypeInvariant, BooksInit, BooksStep, PTL DEF Spec

\* pending_balance is always the sum of the user's pending accruals, for any
\* number of users, deals and calls.
THEOREM PendingAlwaysBacked == Spec => []PendingBacked
  <1>1. Books => PendingBacked BY DEF Books
  <1> QED BY <1>1, BooksInvariant, PTL

\* Every cent of every balance is always accounted for by credited accruals
\* and audit rows.
THEOREM BalanceAlwaysExplained == Spec => []BalanceExplained
  <1>1. Books => BalanceExplained BY DEF Books
  <1> QED BY <1>1, BooksInvariant, PTL

-----------------------------------------------------------------------------
\* Every step is a step of AccountBook or leaves both balances alone.
LEMMA BookStep ==
  ASSUME TypeInv, TypeInv', Books, [Next]_vars
  PROVE  [Book!BookNext]_(Book!bookVars)
  <1> USE DEF Book!BookNext, Book!bookVars
  <1>0. /\ balance \in [User -> Nat] /\ pending \in [User -> Nat]
        /\ balance' \in [User -> Nat] /\ pending' \in [User -> Nat]
    BY DEF TypeInv, TypeOK, AccountsTypeOK
  <1>a. Book!Solvent BY <1>0 DEF Book!Solvent
  <1>1. CASE Accrues
    <2>1. PICK source \in User, mils \in Nat, platform \in PlatformValues, available \in Int,
               deal \in Deal \cup {NoDeal} :
                 AccrueForSource(source, mils, platform, available, deal)
      BY <1>1 DEF Accrues
    <2> DEFINE new == NewAccruals(source, mils, platform, available, deal)
    <2>2. pending' = [u \in User |-> pending[u] + Total(Of(u, new))] /\ UNCHANGED balance
      BY <2>1 DEF AccrueForSource
    <2>3. \A u \in User : Total(Of(u, new)) \in Nat
      BY NewAccrualsType, AccrualsPriced DEF TypeInv, TypeOK
    <2> HIDE DEF new
    <2>4. \A u \in User : pending'[u] >= pending[u] BY <2>2, <2>3, <1>0
    <2> QED BY <2>2, <2>4, <1>a DEF Book!Earn
  <1>2. ASSUME NEW d \in Deal, CancelPendingForDeal(d) PROVE Book!BookNext
    <2>1. PICK rows \in SUBSET accruals.pending : pending' = Released(rows)
      BY <1>2 DEF CancelPendingForDeal
    <2>2. UNCHANGED balance BY <1>2 DEF CancelPendingForDeal
    <2>3. \A u \in User : pending'[u] <= pending[u]
      <3>1. \A u \in User : /\ pending'[u] = pending[u] - Total(Of(u, rows))
                            /\ Total(Of(u, rows)) \in Nat
        BY <2>1, ReleasedExactly DEF Books
      <3> QED BY <3>1, <1>0
    <2> QED BY <2>2, <2>3, <1>a DEF Book!Void
  <1>3. ASSUME NEW payees, ProcessMatured(payees) PROVE Book!BookNext
    <2> DEFINE rows == Matured(payees)
    <2>1. rows \in SUBSET accruals.pending BY DEF Matured
    <2>2. /\ pending' = Released(rows)
          /\ balance' = [u \in User |-> balance[u] + Total(Of(u, rows))]
      BY <1>3 DEF ProcessMatured
    <2> HIDE DEF rows
    <2>3. \A u \in User : /\ pending'[u] = pending[u] - Total(Of(u, rows))
                          /\ Total(Of(u, rows)) \in Nat
      BY <2>1, <2>2, ReleasedExactly DEF Books
    <2>4. \A u \in User : /\ pending'[u] <= pending[u]
                          /\ balance'[u] - balance[u] = pending[u] - pending'[u]
      BY <2>2, <2>3, <1>0
    <2> QED BY <2>4, <1>a DEF Book!Mature
  <1>4. CASE Adjusts
    <2>1. ASSUME NEW u \in User, NEW amount, NEW reason, Debit(u, amount, reason)
          PROVE  Book!Adjust
      BY <2>1, <1>0 DEF Debit, Book!Adjust
    <2>2. ASSUME NEW u \in User, NEW mils \in ManualAmounts, CreditBonus(u, mils)
          PROVE  Book!Adjust
      BY <2>2, <1>0 DEF CreditBonus, Book!Adjust
    <2> QED BY <2>1, <2>2, <1>4, <1>a DEF Adjusts, Debits, Credits
  <1>5. CASE Quiet BY <1>5 DEF Quiet
  <1> QED BY <1>1, <1>2, <1>3, <1>4, <1>5, StepBooks

\* The platform implements AccountBook: bonuses are held first, become
\* available cent for cent, and no account is overdrawn.
THEOREM ImplementsAccountBook == Spec => KeepsBook
  <1>1. Init => Book!BookInit BY DEF Init, AccountsInit, Book!BookInit
  <1>2. TypeInv /\ TypeInv' /\ Books /\ [Next]_vars => [Book!BookNext]_(Book!bookVars)
    BY BookStep
  <1> QED BY <1>1, <1>2, TypeInvariant, BooksInvariant, PTL DEF Spec, KeepsBook, Book!BookSpec

-----------------------------------------------------------------------------
\* A step adds accruals, cancels pending ones, or credits pending ones that
\* are due.
LEMMA LifecycleStep ==
  ASSUME TypeInv, [Next]_vars
  PROVE  /\ accruals.credited \subseteq accruals'.credited
         /\ accruals.cancelled \subseteq accruals'.cancelled
         /\ accruals.pending \subseteq AllAccruals'
         /\ accruals'.credited \ accruals.credited
              \subseteq {a \in accruals.pending : a.available <= today}
  <1>0. accruals \in [pending : SUBSET Accrual, credited : SUBSET Accrual,
                      cancelled : SUBSET Accrual]
    BY DEF TypeInv, TypeOK, ReferralTypeOK
  <1> USE DEF AllAccruals
  <1>1. CASE Accrues
    <2>1. PICK new : accruals' = [accruals EXCEPT !.pending = @ \cup new]
      BY <1>1 DEF Accrues, AccrueForSource
    <2> QED BY <2>1, <1>0
  <1>2. ASSUME NEW d \in Deal, CancelPendingForDeal(d)
        PROVE  /\ accruals'.credited = accruals.credited
               /\ accruals.cancelled \subseteq accruals'.cancelled
               /\ accruals.pending \subseteq AllAccruals'
    <2>1. PICK rows : accruals' = [accruals EXCEPT !.pending = @ \ rows, !.cancelled = @ \cup rows]
      BY <1>2 DEF CancelPendingForDeal
    <2> QED BY <2>1, <1>0
  <1>3. ASSUME NEW payees, ProcessMatured(payees)
        PROVE  /\ accruals.credited \subseteq accruals'.credited
               /\ accruals.cancelled = accruals'.cancelled
               /\ accruals.pending \subseteq AllAccruals'
               /\ accruals'.credited \ accruals.credited \subseteq Matured(payees)
    <2> DEFINE rows == Matured(payees)
    <2>1. accruals' = [accruals EXCEPT !.pending = @ \ rows, !.credited = @ \cup rows]
      BY <1>3 DEF ProcessMatured
    <2> HIDE DEF rows
    <2>2. /\ accruals'.pending = accruals.pending \ rows
          /\ accruals'.credited = accruals.credited \cup rows
          /\ accruals'.cancelled = accruals.cancelled
      BY <2>1, <1>0
    <2> QED BY <2>2 DEF rows
  <1>4. CASE UNCHANGED accruals BY <1>4
  <1> QED BY <1>1, <1>2, <1>3, <1>4, StepBooks DEF Adjusts, Quiet, Matured

\* No accrual is lost, changed, paid twice or paid before its available_at,
\* in any step of any behaviour.
THEOREM AccrualsKeepLifecycle == Spec => AccrualLifecycle
  <1>1. TypeInv /\ [Next]_vars =>
          [/\ accruals.credited \subseteq accruals'.credited
           /\ accruals.cancelled \subseteq accruals'.cancelled
           /\ accruals.pending \subseteq AllAccruals'
           /\ accruals'.credited \ accruals.credited
                \subseteq {a \in accruals.pending : a.available <= today}]_vars
    BY LifecycleStep
  <1> QED BY <1>1, TypeInvariant, PTL DEF Spec, AccrualLifecycle

-----------------------------------------------------------------------------
(* Certificates and what was paid for them. *)

HasFile(c) == certificates[c].file
Receipt(c) == [id |-> c, amount |-> certificates[c].amount]
Receipts(u) == {Receipt(c) : c \in {c \in Certificate : HasFile(c) /\ certificates[c].user = u}}

\* Only completion attaches a file, and completed requests are never open
\* again; so a completed one is not paid for twice.
FilesFinal == \A c \in Certificate : HasFile(c) => certificates[c].status \in FinalStatus

Receivable ==
    /\ FilesFinal
    /\ IsFiniteSet({c \in Certificate : HasFile(c)})
    /\ CertificatesPaid

FilesKept ==
    /\ \A u \in User : audit'[u].exchange = audit[u].exchange
    /\ \A c \in Certificate :
         /\ HasFile(c)' = HasFile(c)
         /\ HasFile(c) => /\ certificates'[c].status \in FinalStatus
                          /\ certificates'[c].user = certificates[c].user
                          /\ certificates'[c].amount = certificates[c].amount

\* The receipts of a user have a sum.
LEMMA ReceiptsPriced ==
  ASSUME TypeInv, Receivable, NEW u
  PROVE  Priced(Receipts(u)) /\ Total(Receipts(u)) \in Nat
  <1> DEFINE own == {c \in Certificate : HasFile(c) /\ certificates[c].user = u}
             f == [c \in own |-> Receipt(c)]
  <1>1. own \in SUBSET {c \in Certificate : HasFile(c)} OBVIOUS
  <1>2. IsFiniteSet(own) BY <1>1, FS_Subset DEF Receivable
  <1>3. f \in Surjection(own, Receipts(u)) BY DEF Surjection, Receipts
  <1>4. IsFiniteSet(Receipts(u)) BY <1>2, <1>3, FS_Surjection
  <1>5. \A c \in Certificate : certificates[c].amount \in Nat
    BY DEF TypeInv, TypeOK, ExchangeTypeOK, Request
  <1>6. \A r \in Receipts(u) : r.amount \in Nat BY <1>5 DEF Receipts, Receipt
  <1>7. Priced(Receipts(u)) BY <1>4, <1>6 DEF Priced
  <1> QED BY <1>7, TotalNat

\* Nothing is paid and nothing is owed initially.
LEMMA ReceivableInit == Init => Receivable
  <1> SUFFICES ASSUME Init PROVE Receivable OBVIOUS
  <1>1. \A c \in Certificate : ~ HasFile(c) BY DEF Init, ExchangeInit, NoRequest, HasFile
  <1>2. FilesFinal BY <1>1 DEF FilesFinal
  <1>3. {c \in Certificate : HasFile(c)} = {} BY <1>1
  <1>4. ASSUME NEW u \in User
        PROVE  Total({[id |-> c, amount |-> certificates[c].amount] : c \in
                       {c \in Certificate : certificates[c].file /\ certificates[c].user = u}}) = 0
    <2>1. {[id |-> c, amount |-> certificates[c].amount] : c \in
             {c \in Certificate : certificates[c].file /\ certificates[c].user = u}} = {}
      BY <1>1 DEF HasFile
    <2> QED BY <2>1, TotalEmpty
  <1>5. \A u \in User : audit[u].exchange = 0 BY DEF Init, AccountsInit
  <1> QED BY <1>2, <1>3, <1>4, <1>5, FS_EmptySet DEF Receivable, CertificatesPaid

\* Operations on users leave what was paid for certificates alone.
LEMMA AccountsKeepExchange ==
  ASSUME TypeInv, AccountsNext
  PROVE  \A u \in User : audit'[u].exchange = audit[u].exchange
  <1>0. audit \in [User -> [credit : Nat, debit : Nat, exchange : Nat]]
    BY DEF TypeInv, TypeOK, AccountsTypeOK
  <1>1. ASSUME NEW u \in User, NEW mils \in ManualAmounts, CreditBonus(u, mils)
        PROVE  \A v \in User : audit'[v].exchange = audit[v].exchange
    BY <1>0, <1>1 DEF CreditBonus
  <1>2. ASSUME NEW u \in User, NEW mils \in ManualAmounts, DebitBonus(u, mils)
        PROVE  \A v \in User : audit'[v].exchange = audit[v].exchange
    BY <1>0, <1>2 DEF DebitBonus, Debit
  <1> QED BY <1>1, <1>2 DEF AccountsNext, Register, BlockUser, UnblockUser, DeleteUser

\* Apart from completion no step touches a file or what was paid for one.
LEMMA StepFiles ==
  ASSUME TypeInv, FilesFinal, [Next]_vars
  PROVE  FilesKept \/ \E c \in Certificate : CompleteRequest(c)
  <1>0. /\ certificates \in [Certificate -> Request]
        /\ \A c \in Certificate : certificates[c] \in Request
    BY DEF TypeInv, TypeOK, ExchangeTypeOK
  <1>a. ASSUME UNCHANGED certificates, \A u \in User : audit'[u].exchange = audit[u].exchange
        PROVE  FilesKept
    BY <1>a DEF FilesKept, FilesFinal, HasFile
  <1>1. CASE AccountsNext /\ UNCHANGED exchangeVars
    BY <1>1, <1>a, AccountsKeepExchange DEF exchangeVars
  <1>2. CASE (ReferralNext /\ UNCHANGED exchangeVars) \/ OnlyTemplates
    <2>1. UNCHANGED audit
      BY <1>2 DEF ReferralNext, CreateDeal, IssueDeal, WithdrawDeal, MoveDeal, UpdateAmount,
         AccrueManually, ProcessPending, ProcessMatured, NextDay, AccrueForSource,
         CancelPendingForDeal, accountVars, OnlyTemplates
    <2> QED BY <2>1, <1>2, <1>a DEF exchangeVars, OnlyTemplates
  <1>3. ASSUME NEW c \in Certificate, NEW row \in Request, UNCHANGED audit,
               certificates' = [certificates EXCEPT ![c] = row],
               row.file = HasFile(c),
               HasFile(c) => /\ row.status \in FinalStatus
                             /\ row.user = certificates[c].user /\ row.amount = certificates[c].amount
        PROVE  FilesKept
    BY <1>0, <1>3 DEF FilesKept, FilesFinal, HasFile
  <1>4. ASSUME NEW c \in Certificate, NEW u \in User, NEW p \in Partner,
               NEW mils \in RequestAmounts, CreateRequest(c, u, p, mils)
        PROVE  FilesKept
    <2> DEFINE row == [status |-> "new", user |-> u, amount |-> Quantize(mils), file |-> FALSE]
    <2>1. row \in Request
      <3>1. Quantize(mils) \in Nat BY ExchangeAssumption, RoundingNat
      <3> QED BY <3>1 DEF Request, CertificateStatus, OpenStatus
    <2>2. certificates' = [certificates EXCEPT ![c] = row] /\ UNCHANGED audit
      BY <1>4 DEF CreateRequest, accountVars
    <2>3. ~ HasFile(c) /\ HasFile(c) \in BOOLEAN
      BY <1>0, <1>4 DEF CreateRequest, FilesFinal, FinalStatus, HasFile, Request
    <2>4. row.file = FALSE OBVIOUS
    <2> HIDE DEF row
    <2> QED BY <1>3, <2>1, <2>2, <2>3, <2>4
  <1>5. ASSUME NEW c \in Certificate, NEW new \in OpenStatus, MoveRequest(c, new)
        PROVE  FilesKept
    <2> DEFINE row == [certificates[c] EXCEPT !.status = new]
    <2>1. row \in Request /\ row.file = HasFile(c)
      BY <1>0 DEF Request, CertificateStatus, HasFile
    <2>2. certificates' = [certificates EXCEPT ![c] = row] /\ UNCHANGED audit
      BY <1>5 DEF MoveRequest, accountVars
    <2>3. ~ HasFile(c) BY <1>5 DEF MoveRequest, FilesFinal, OpenStatus, FinalStatus
    <2> HIDE DEF row
    <2> QED BY <1>3, <2>1, <2>2, <2>3
  <1>6. ASSUME NEW c \in Certificate, CancelRequest(c) PROVE FilesKept
    <2> DEFINE row == [certificates[c] EXCEPT !.status = "cancelled"]
    <2>1. /\ row \in Request /\ row.file = HasFile(c) /\ row.status \in FinalStatus
          /\ row.user = certificates[c].user /\ row.amount = certificates[c].amount
      BY <1>0 DEF Request, CertificateStatus, FinalStatus, HasFile
    <2>2. certificates' = [certificates EXCEPT ![c] = row] /\ UNCHANGED audit
      BY <1>6 DEF CancelRequest, accountVars
    <2> HIDE DEF row
    <2> QED BY <1>3, <2>1, <2>2
  <1>7. CASE ExchangeNext
    BY <1>7, <1>a, <1>4, <1>5, <1>6 DEF ExchangeNext, CreatePartner, UpdatePartner, accountVars
  <1> QED BY <1>1, <1>2, <1>7, StepSplit

\* Completion adds one receipt to its user's, of what it debits.
LEMMA CompleteReceivable ==
  ASSUME TypeInv, Receivable, NEW c \in Certificate, CompleteRequest(c)
  PROVE  Receivable'
  <1> DEFINE user == certificates[c].user
             amount == certificates[c].amount
             row == [certificates[c] EXCEPT !.status = "completed", !.file = TRUE]
  <1>0. /\ certificates \in [Certificate -> Request] /\ certificates[c] \in Request
        /\ audit \in [User -> [credit : Nat, debit : Nat, exchange : Nat]]
    BY DEF TypeInv, TypeOK, ExchangeTypeOK, AccountsTypeOK
  <1>1. user \in User /\ amount \in Nat
    BY <1>0 DEF CompleteRequest, OpenStatus, TypeInv, RequestsOwned, Request
  <1>2. ~ HasFile(c) BY DEF CompleteRequest, Receivable, FilesFinal, OpenStatus, FinalStatus
  <1>3. /\ certificates' = [certificates EXCEPT ![c] = row]
        /\ row.status = "completed" /\ row.file = TRUE /\ row.user = user /\ row.amount = amount
    BY <1>0 DEF CompleteRequest, Request
  <1>4. audit' = [audit EXCEPT ![user]["exchange"] = @ + amount]
    BY DEF CompleteRequest, Debit
  <1> HIDE DEF row, user, amount
  <1>5. \A d \in Certificate : certificates'[d] = IF d = c THEN row ELSE certificates[d]
    BY <1>0, <1>3
  <1>6. \A d \in Certificate : HasFile(d)' <=> d = c \/ HasFile(d) BY <1>3, <1>5 DEF HasFile
  <1>7. FilesFinal'
    <2>1. ASSUME NEW d \in Certificate, certificates'[d].file
          PROVE  certificates'[d].status \in FinalStatus
      <3>1. CASE d = c BY <3>1, <1>3, <1>5 DEF FinalStatus
      <3>2. CASE d # c BY <3>2, <2>1, <1>5 DEF Receivable, FilesFinal, HasFile
      <3> QED BY <3>1, <3>2
    <2> QED BY <2>1 DEF FilesFinal, HasFile
  <1>8. IsFiniteSet({d \in Certificate : HasFile(d)})'
    <2>1. {d \in Certificate : HasFile(d)}' = {d \in Certificate : HasFile(d)} \cup {c}
      BY <1>6
    <2> QED BY <2>1, FS_AddElement DEF Receivable
  <1>9. ASSUME NEW u \in User PROVE audit'[u].exchange = Total(Receipts(u)')
    <2>1. audit[u].exchange = Total(Receipts(u))
      BY DEF Receivable, CertificatesPaid, Receipts, Receipt, HasFile
    <2>2. CASE u # user
      <3>1. audit'[u].exchange = audit[u].exchange BY <2>2, <1>0, <1>4
      <3>2. Receipts(u)' = Receipts(u)
        BY <2>2, <1>2, <1>3, <1>5, <1>6 DEF Receipts, Receipt, HasFile
      <3> QED BY <2>1, <3>1, <3>2
    <2>3. CASE u = user
      <3> DEFINE receipt == [id |-> c, amount |-> amount]
      <3>1. audit'[u].exchange = audit[u].exchange + amount BY <2>3, <1>0, <1>1, <1>4
      <3>2. Receipts(u)' = Receipts(u) \cup {receipt}
        BY <2>3, <1>2, <1>3, <1>5, <1>6 DEF Receipts, Receipt, HasFile
      <3>3. receipt \notin Receipts(u)
        <4>1. \A r \in Receipts(u) : r.id # c BY <1>2 DEF Receipts, Receipt
        <4> QED BY <4>1
      <3>4. Priced(Receipts(u)) /\ Total(Receipts(u)) \in Nat BY ReceiptsPriced
      <3>5. Priced({receipt})
        <4>1. IsFiniteSet({receipt}) BY FS_Singleton
        <4>2. receipt.amount \in Nat BY <1>1
        <4> HIDE DEF receipt
        <4> QED BY <4>1, <4>2 DEF Priced
      <3>6. Total({receipt}) = amount
        <4>1. Total({receipt}) = receipt.amount + Total({receipt} \ {receipt})
          BY <3>5, TotalRemove
        <4>2. {receipt} \ {receipt} = {} OBVIOUS
        <4> QED BY <4>1, <4>2, <1>1, TotalEmpty
      <3>7. Receipts(u) \cap {receipt} = {} BY <3>3
      <3>8. Total(Receipts(u) \cup {receipt}) = Total(Receipts(u)) + amount
        BY <3>4, <3>5, <3>6, <3>7, TotalUnion
      <3> QED BY <2>1, <3>1, <3>2, <3>8
    <2> QED BY <2>2, <2>3
  <1>10. CertificatesPaid' BY <1>9 DEF CertificatesPaid, Receipts, Receipt, HasFile
  <1> QED BY <1>7, <1>8, <1>10 DEF Receivable

\* Every step keeps certificates paid.
LEMMA ReceivableStep == TypeInv /\ Receivable /\ [Next]_vars => Receivable'
  <1> SUFFICES ASSUME TypeInv, Receivable, [Next]_vars PROVE Receivable' OBVIOUS
  <1>1. CASE FilesKept
    <2>1. FilesFinal' BY <1>1 DEF FilesKept, FilesFinal, HasFile, Receivable
    <2>2. {c \in Certificate : HasFile(c)}' = {c \in Certificate : HasFile(c)}
      BY <1>1 DEF FilesKept
    <2>3. ASSUME NEW u \in User PROVE Receipts(u)' = Receipts(u)
      BY <1>1 DEF FilesKept, Receipts, Receipt, HasFile
    <2>4. CertificatesPaid'
      <3>1. \A u \in User : audit'[u].exchange = Total(Receipts(u)')
        BY <2>3, <1>1 DEF FilesKept, Receivable, CertificatesPaid, Receipts, Receipt, HasFile
      <3> QED BY <3>1 DEF CertificatesPaid, Receipts, Receipt, HasFile
    <2> QED BY <2>1, <2>2, <2>4 DEF Receivable
  <1> QED BY <1>1, StepFiles, CompleteReceivable DEF Receivable

\* What a user paid is always what the certificates with a file are worth,
\* for any number of requests, partners and manual operations.
THEOREM CertificatesAlwaysPaid == Spec => []CertificatesPaid
  <1>1. Receivable => CertificatesPaid BY DEF Receivable
  <1> QED BY <1>1, TypeInvariant, ReceivableInit, ReceivableStep, PTL DEF Spec

-----------------------------------------------------------------------------
\* A completed or cancelled request is written by cancel only, which leaves
\* its user, amount and file as they are.
LEMMA FinalStep ==
  ASSUME TypeInv, [Next]_vars, NEW c \in Certificate, certificates[c].status \in FinalStatus
  PROVE  /\ certificates'[c].status \in {certificates[c].status, "cancelled"}
         /\ [certificates'[c] EXCEPT !.status = ""] = [certificates[c] EXCEPT !.status = ""]
  <1> DEFINE Stays == /\ certificates'[c].status \in {certificates[c].status, "cancelled"}
                      /\ [certificates'[c] EXCEPT !.status = ""]
                           = [certificates[c] EXCEPT !.status = ""]
  <1> SUFFICES Stays OBVIOUS
  <1>0. /\ certificates \in [Certificate -> Request] /\ certificates[c] \in Request
    BY DEF TypeInv, TypeOK, ExchangeTypeOK
  <1>a. ASSUME certificates'[c] = certificates[c] PROVE Stays BY <1>a
  <1>1. ASSUME NEW d \in Certificate, NEW u \in User, NEW p \in Partner,
               NEW mils \in RequestAmounts, CreateRequest(d, u, p, mils)
        PROVE  certificates'[c] = certificates[c]
    BY <1>0, <1>1 DEF CreateRequest, FinalStatus
  <1>2. ASSUME NEW d \in Certificate, NEW new \in OpenStatus, MoveRequest(d, new)
        PROVE  certificates'[c] = certificates[c]
    BY <1>0, <1>2 DEF MoveRequest, FinalStatus, OpenStatus
  <1>3. ASSUME NEW d \in Certificate, CompleteRequest(d) PROVE certificates'[c] = certificates[c]
    BY <1>0, <1>3 DEF CompleteRequest, FinalStatus, OpenStatus
  <1>4. ASSUME NEW d \in Certificate, CancelRequest(d) PROVE Stays
    <2>1. certificates' = [certificates EXCEPT ![d] = [certificates[d] EXCEPT !.status = "cancelled"]]
      BY <1>4 DEF CancelRequest
    <2>2. CASE c # d BY <2>1, <2>2, <1>0, <1>a
    <2>3. CASE c = d
      <3>1. certificates'[c] = [certificates[c] EXCEPT !.status = "cancelled"]
        BY <2>1, <2>3, <1>0
      <3>2. \A r \in Request : /\ [r EXCEPT !.status = "cancelled"].status = "cancelled"
                               /\ [[r EXCEPT !.status = "cancelled"] EXCEPT !.status = ""]
                                    = [r EXCEPT !.status = ""]
        BY DEF Request
      <3> QED BY <3>1, <3>2, <1>0
    <2> QED BY <2>2, <2>3
  <1>5. CASE UNCHANGED certificates BY <1>5, <1>a
  <1> HIDE DEF Stays
  <1>6. CASE ExchangeNext
    BY <1>1, <1>2, <1>3, <1>4, <1>5, <1>6, <1>a DEF ExchangeNext, CreatePartner, UpdatePartner
  <1> QED BY <1>5, <1>6, StepSplit DEF OnlyTemplates, exchangeVars

\* A finalised request changes no more, but that a completed one may still be
\* cancelled; user, amount and file stay with it.
THEOREM FinalRequestsStay == Spec => FinalRequestStays
  <1>1. TypeInv /\ [Next]_vars =>
          [\A c \in Certificate : certificates[c].status \in FinalStatus =>
             /\ certificates'[c].status \in {certificates[c].status, "cancelled"}
             /\ [certificates'[c] EXCEPT !.status = ""]
                  = [certificates[c] EXCEPT !.status = ""]]_vars
    BY FinalStep
  <1> QED BY <1>1, TypeInvariant, PTL DEF Spec, FinalRequestStays

-----------------------------------------------------------------------------
(* The tree. *)

IdsDense == \A u \in User : Registered(u) => \A v \in 1..(u - 1) : Registered(v)

DealersKnown ==
    \A d \in Deal : deals[d].status # "absent" => Registered(deals[d].user)

TreeInv == TreeIsRooted /\ IdsDense /\ DealersKnown

TreeStays == UNCHANGED referrer /\ \A u \in User : Registered(u)' <=> Registered(u)

\* The founding users form a tree.
LEMMA TreeInit == Init => TreeInv
  <1> SUFFICES ASSUME Init PROVE TreeInv OBVIOUS
  <1> USE DEF Init
  <1>1. \A u \in User : Registered(u) <=> u \in 1..Len(FoundingReferrers)
    BY AccountsAssumption DEF AccountsInit, Registered, Founder
  <1>2. TreeIsRooted
    <2>1. ASSUME NEW u \in User PROVE referrer[u] < u
      BY AccountsAssumption DEF AccountsInit, Founder, User, NoUser
    <2>2. ASSUME NEW u \in User, referrer[u] # NoUser PROVE Registered(referrer[u])
      <3>1. u \in 1..Len(FoundingReferrers) /\ referrer[u] = FoundingReferrers[u]
        BY <2>2, AccountsAssumption DEF AccountsInit, Founder
      <3>2. referrer[u] \in 1..Len(FoundingReferrers)
        BY <3>1, <2>2, AccountsAssumption DEF NoUser
      <3> QED BY <3>2, <1>1, AccountsAssumption DEF User
    <2> QED BY <2>1, <2>2 DEF TreeIsRooted
  <1>3. IdsDense BY <1>1, AccountsAssumption DEF IdsDense, User
  <1>4. DealersKnown BY DEF ReferralInit, DealersKnown, NoRow
  <1> QED BY <1>2, <1>3, <1>4 DEF TreeInv

\* Among the operations on users only registration touches the tree.
LEMMA AccountsStepTree ==
  ASSUME AccountsTypeOK, AccountsNext
  PROVE  TreeStays \/ \E u \in User, r \in User \cup {NoUser} : Register(u, r)
  <1>1. ASSUME NEW u \in User, BlockUser(u) \/ UnblockUser(u) \/ DeleteUser(u) PROVE TreeStays
    BY <1>1 DEF TreeStays, BlockUser, UnblockUser, DeleteUser, Registered, AccountsTypeOK
  <1>2. ASSUME NEW u \in User, NEW mils \in ManualAmounts,
               CreditBonus(u, mils) \/ DebitBonus(u, mils)
        PROVE  TreeStays
    BY <1>2 DEF TreeStays, CreditBonus, DebitBonus, Debit, Registered
  <1> QED BY <1>1, <1>2 DEF AccountsNext

\* Deals, accruals, partners and certificates leave users.status and
\* referrer_id alone.
LEMMA OtherStepTree ==
  ASSUME ReferralNext \/ ExchangeNext \/ UNCHANGED accountVars
  PROVE  UNCHANGED <<status, referrer>>
  <1>1. CASE ReferralNext
    BY <1>1 DEF ReferralNext, CreateDeal, IssueDeal, WithdrawDeal, MoveDeal, UpdateAmount,
       AccrueManually, ProcessPending, ProcessMatured, NextDay, AccrueForSource,
       CancelPendingForDeal, accountVars
  <1>2. CASE ExchangeNext
    BY <1>2 DEF ExchangeNext, CreatePartner, UpdatePartner, CreateRequest, MoveRequest,
       CompleteRequest, CancelRequest, Debit, accountVars
  <1>3. CASE UNCHANGED accountVars
    BY <1>3 DEF accountVars
  <1> QED BY <1>1, <1>2, <1>3

\* A step registers one user or leaves the tree as it is.
LEMMA StepTree ==
  ASSUME TypeInv, [Next]_vars
  PROVE  TreeStays \/ \E u \in User, r \in User \cup {NoUser} : Register(u, r) /\ UNCHANGED deals
  <1>1. CASE AccountsNext /\ UNCHANGED referralVars
    BY <1>1, AccountsStepTree DEF TypeInv, TypeOK, referralVars
  <1>2. CASE ReferralNext \/ ExchangeNext \/ OnlyTemplates
    BY <1>2, OtherStepTree DEF OnlyTemplates, TreeStays, Registered
  <1> QED BY <1>1, <1>2, StepSplit

DealAdded ==
    \E d \in Deal, row \in DealRow : deals' = [deals EXCEPT ![d] = row] /\ Registered(row.user)

DealersKept ==
    \A d \in Deal : /\ deals'[d].user = deals[d].user
                    /\ deals'[d].status # "absent" => deals[d].status # "absent"

\* A step adds or replaces a deal of a registered user, or leaves every deal
\* with its user.
LEMMA DealersStep ==
  ASSUME TypeInv, [Next]_vars
  PROVE  DealAdded \/ DealersKept
  <1>0. deals \in [Deal -> DealRow] BY DEF TypeInv, TypeOK, ReferralTypeOK
  <1>a. ASSUME UNCHANGED deals PROVE DealersKept BY <1>a DEF DealersKept
  <1>1. ASSUME NEW d \in Deal, NEW u \in User, NEW mils \in PolicyAmounts,
               NEW date \in PolicyDates, NEW platform \in PlatformValues,
               CreateDeal(d, u, mils, date, platform)
        PROVE  DealAdded
    <2> DEFINE row == [status |-> "new", user |-> u, amount |-> Quantize(mils),
                       accrual_date |-> date + platform.delay, parked |-> FALSE]
    <2>1. row \in DealRow
      <3>1. date + platform.delay \in Int
        BY ReferralAssumption DEF PlatformValue
      <3>2. "new" \in DealStatus BY ReferralAssumption DEF DealStatus
      <3>3. Quantize(mils) \in Nat BY ReferralAssumption, RoundingNat
      <3> QED BY <3>1, <3>2, <3>3 DEF DealRow
    <2>2. deals' = [deals EXCEPT ![d] = row] /\ Registered(u) BY <1>1 DEF CreateDeal
    <2>3. row.user = u OBVIOUS
    <2> HIDE DEF row
    <2> QED BY <2>1, <2>2, <2>3 DEF DealAdded
  <1>2. ASSUME NEW d \in Deal, NEW platform \in PlatformValues, IssueDeal(d, platform)
        PROVE  DealersKept
    BY <1>0, <1>2 DEF IssueDeal, DealRow, DealersKept
  <1>3. ASSUME NEW d \in Deal, NEW new \in CancelStatus, WithdrawDeal(d, new)
        PROVE  DealersKept
    BY <1>0, <1>3 DEF WithdrawDeal, DealRow, DealersKept
  <1>4. ASSUME NEW d \in Deal, NEW new \in DealStatus, MoveDeal(d, new) PROVE DealersKept
    BY <1>0, <1>4 DEF MoveDeal, DealRow, DealersKept
  <1>5. ASSUME NEW d \in Deal, NEW mils \in PolicyAmounts, UpdateAmount(d, mils) PROVE DealersKept
    BY <1>0, <1>5 DEF UpdateAmount, DealRow, DealersKept
  <1>6. ASSUME NEW u \in User, NEW mils \in PolicyAmounts, NEW platform \in PlatformValues,
               AccrueManually(u, mils, platform)
        PROVE  DealersKept
    BY <1>6, <1>a DEF AccrueManually
  <1>7. ASSUME NEW payees, ProcessMatured(payees) PROVE DealersKept
    BY <1>7, <1>a DEF ProcessMatured
  <1>8. CASE NextDay \/ UNCHANGED referralVars
    BY <1>8, <1>a DEF NextDay, referralVars
  <1>9. CASE ReferralNext
    BY <1>1, <1>2, <1>3, <1>4, <1>5, <1>6, <1>7, <1>8, <1>9 DEF ReferralNext, ProcessPending
  <1> QED BY <1>8, <1>9, StepSplit DEF OnlyTemplates

\* Every step keeps the tree invariant.
LEMMA TreeStep == TypeInv /\ TreeInv /\ [Next]_vars => TreeInv'
  <1> SUFFICES ASSUME TypeInv, TreeInv, [Next]_vars PROVE TreeInv' OBVIOUS
  <1> USE DEF TreeInv
  <1>0. /\ referrer \in [User -> User \cup {NoUser}]
        /\ status \in [User -> UserStatus]
        /\ TypeInv'
    BY TypeInvStep DEF TypeInv, TypeOK, AccountsTypeOK
  <1>1. \A u \in User : Registered(u) => Registered(u)'
    BY <1>0, StepTree DEF TreeStays, Register, Registered
  <1>2. TreeIsRooted' /\ IdsDense'
    <2>1. CASE TreeStays
      <3>1. \A u \in User : u - 1 \in Int /\ 1..(u - 1) \subseteq User
        BY AccountsAssumption DEF User
      <3>2. IdsDense' BY <2>1, <3>1 DEF TreeStays, IdsDense
      <3>3. TreeIsRooted' BY <2>1, <1>0 DEF TreeStays, TreeIsRooted
      <3> QED BY <3>2, <3>3
    <2>2. ASSUME NEW u \in User, NEW r \in User \cup {NoUser}, Register(u, r)
          PROVE  TreeIsRooted' /\ IdsDense'
      <3>1. /\ ~ Registered(u) /\ (r # NoUser => Registered(r))
            /\ \A v \in 1..(u - 1) : Registered(v)
            /\ referrer' = [referrer EXCEPT ![u] = r]
            /\ status' = [status EXCEPT ![u] = "active"]
        BY <2>2 DEF Register, Registered
      <3>2. r < u
        <4>1. CASE r = NoUser BY <4>1, AccountsAssumption DEF User, NoUser
        <4>2. CASE r # NoUser
          <5>1. r \in User /\ Registered(r) BY <4>2, <3>1
          <5>2. u \notin 1..(r - 1) /\ r # u BY <5>1, <3>1 DEF IdsDense
          <5> QED BY <5>1, <5>2, AccountsAssumption DEF User
        <4> QED BY <4>1, <4>2
      <3>3. TreeIsRooted'
        <4>1. \A v \in User : referrer'[v] < v BY <3>1, <3>2, <1>0 DEF TreeIsRooted
        <4>2. ASSUME NEW v \in User, referrer'[v] # NoUser PROVE status'[referrer'[v]] # "none"
          <5>1. referrer'[v] \in User /\ Registered(referrer'[v])
            BY <4>2, <3>1, <1>0 DEF TreeIsRooted
          <5> QED BY <5>1, <3>1, <1>0 DEF Registered
        <4> QED BY <4>1, <4>2 DEF TreeIsRooted, Registered
      <3>4. IdsDense'
        <4>1. ASSUME NEW v \in User, Registered(v)', NEW w \in 1..(v - 1)
              PROVE  Registered(w)'
          <5>1. w \in User BY AccountsAssumption DEF User
          <5>2. Registered(w)
            BY <4>1, <3>1, <1>0 DEF Registered, IdsDense
          <5> QED BY <5>1, <5>2, <1>1
        <4> QED BY <4>1 DEF IdsDense
      <3> QED BY <3>3, <3>4
    <2> QED BY <2>1, <2>2, StepTree
  <1>3. DealersKnown'
    <2>1. DealsOwned /\ deals \in [Deal -> DealRow]
      BY DEF TypeInv, TypeOK, ReferralTypeOK
    <2>2. CASE DealersKept
      <3>1. ASSUME NEW d \in Deal, deals'[d].status # "absent"
            PROVE  status'[deals'[d].user] # "none"
        <4>1. deals[d].user \in User /\ Registered(deals[d].user)
          BY <3>1, <2>1, <2>2 DEF DealersKnown, DealsOwned, DealersKept
        <4> QED BY <4>1, <1>1, <2>2 DEF Registered, DealersKept
      <3> QED BY <3>1 DEF DealersKnown, Registered
    <2>3. CASE DealAdded
      <3>1. PICK e \in Deal, row \in DealRow :
               deals' = [deals EXCEPT ![e] = row] /\ Registered(row.user)
        BY <2>3 DEF DealAdded
      <3>2. ASSUME NEW d \in Deal, deals'[d].status # "absent"
            PROVE  status'[deals'[d].user] # "none"
        <4>1. deals'[d].user \in User /\ Registered(deals'[d].user)
          BY <3>1, <3>2, <2>1, <1>0 DEF DealersKnown, DealsOwned, TypeInv
        <4> QED BY <4>1, <1>1 DEF Registered
      <3> QED BY <3>2 DEF DealersKnown, Registered
    <2> QED BY <2>2, <2>3, DealersStep
  <1> QED BY <1>2, <1>3

\* The tree invariant always holds: ids are handed out without gaps, so
\* whoever brings in a new user registered before.
THEOREM TreeInvariant == Spec => []TreeInv
  BY TypeInvariant, TreeInit, TreeStep, PTL DEF Spec

\* The referral tree is rooted whatever the number of users: get_upline_ids
\* never walks in a circle.
THEOREM TreeAlwaysRooted == Spec => []TreeIsRooted
  <1>1. TreeInv => TreeIsRooted BY DEF TreeInv
  <1> QED BY <1>1, TreeInvariant, PTL

-----------------------------------------------------------------------------
(* The accruals. *)

\* The row is for a registered source and an earner who is.
ForUpline(a) ==
    /\ Registered(a.source) /\ Registered(a.user)
    /\ a.user = Upline(a.source)[a.level]
    /\ a.user < a.source
    /\ referrer[a.user] # NoUser

OncePerCall ==
    \A a, b \in AllAccruals : a # b /\ a.call = b.call => a.level # b.level /\ a.user # b.user

Explained(a) ==
    LET shown == LevelAmount(MilsPerCent * a.base, a.percent) IN
    /\ a.deal # NoDeal => a.amount = shown
    /\ a.amount \in (shown - 1)..(shown + 1)

EarningsInv ==
    /\ \A a \in AllAccruals : ForUpline(a) /\ Explained(a)
    /\ OncePerCall

-----------------------------------------------------------------------------
(* The tree above a user. *)

\* A parent registered before the child.
LEMMA ParentBelow ==
  ASSUME TypeInv, TreeInv, NEW u \in User \cup {NoUser}
  PROVE  /\ Parent(u) \in User \cup {NoUser}
         /\ Parent(u) # NoUser => u # NoUser /\ Parent(u) < u /\ Registered(Parent(u))
  BY DEF TypeInv, TypeOK, AccountsTypeOK, TreeInv, TreeIsRooted, Parent

\* get_upline_ids names different users, each of a smaller id than the one
\* before.
LEMMA UplineDescends ==
  ASSUME TypeInv, TreeInv, NEW u \in User, NEW l \in Level, Upline(u)[l] # NoUser
  PROVE  /\ Upline(u)[l] \in User /\ Upline(u)[l] < u
         /\ \A m \in Level : m < l => Upline(u)[l] < Upline(u)[m]
  <1> DEFINE a == Parent(u)
             b == Parent(a)
             c == Parent(b)
             d == Parent(c)
  <1>1. a \in User \cup {NoUser} /\ (a # NoUser => a < u) BY ParentBelow
  <1>2. b \in User \cup {NoUser} /\ (b # NoUser => a # NoUser /\ b < a) BY <1>1, ParentBelow
  <1>3. c \in User \cup {NoUser} /\ (c # NoUser => b # NoUser /\ c < b) BY <1>2, ParentBelow
  <1>4. d \in User \cup {NoUser} /\ (d # NoUser => c # NoUser /\ d < c) BY <1>3, ParentBelow
  <1>5. Upline(u) = <<a, b, c, d>> BY DEF Upline
  <1> HIDE DEF a, b, c, d
  <1>6. Level = {1, 2, 3, 4} BY DEF Level, MAX_LEVELS
  <1>7. \A x \in User : x \in Nat /\ x # NoUser BY UserIsId
  <1>8. /\ Upline(u)[1] = a /\ Upline(u)[2] = b /\ Upline(u)[3] = c /\ Upline(u)[4] = d
    BY <1>5
  <1> QED BY <1>1, <1>2, <1>3, <1>4, <1>6, <1>7, <1>8

\* A registered user stays registered and keeps the referrer.
LEMMA KnownStays ==
  ASSUME TypeInv, [Next]_vars, NEW u \in User, Registered(u)
  PROVE  Registered(u)' /\ referrer'[u] = referrer[u]
  BY StepTree DEF TypeInv, TypeOK, AccountsTypeOK, TreeStays, Register, Registered

\* So the upline of a registered user never changes.
LEMMA UplineStays ==
  ASSUME TypeInv, TreeInv, [Next]_vars, NEW u \in User, Registered(u)
  PROVE  Upline(u)' = Upline(u)
  <1>1. ASSUME NEW x \in User \cup {NoUser}, x # NoUser => Registered(x)
        PROVE  /\ (IF x = NoUser THEN NoUser ELSE referrer'[x]) = Parent(x)
               /\ Parent(x) \in User \cup {NoUser}
               /\ Parent(x) # NoUser => Registered(Parent(x))
    BY <1>1, ParentBelow, KnownStays DEF Parent
  <1> DEFINE a == Parent(u)
             b == Parent(a)
             c == Parent(b)
             d == Parent(c)
             Up(x) == IF x = NoUser THEN NoUser ELSE referrer'[x]
  <1>2. Up(u) = a /\ a \in User \cup {NoUser} /\ (a # NoUser => Registered(a)) BY <1>1
  <1>3. Up(a) = b /\ b \in User \cup {NoUser} /\ (b # NoUser => Registered(b)) BY <1>1, <1>2
  <1>4. Up(b) = c /\ c \in User \cup {NoUser} /\ (c # NoUser => Registered(c)) BY <1>1, <1>3
  <1>5. Up(c) = d BY <1>1, <1>4
  <1>6. Upline(u) = <<a, b, c, d>> BY DEF Upline
  <1>7. Upline(u)' = <<Up(u), Up(Up(u)), Up(Up(Up(u))), Up(Up(Up(Up(u))))>>
    BY DEF Upline, Parent
  <1> HIDE DEF a, b, c, d, Up
  <1> QED BY <1>2, <1>3, <1>4, <1>5, <1>6, <1>7

-----------------------------------------------------------------------------
(* The rows of one call. *)

\* What accrue_for_source writes in a row.
LEMMA NewRowShape ==
  ASSUME NEW source, NEW mils, NEW platform, NEW available, NEW deal,
         NEW a \in NewAccruals(source, mils, platform, available, deal)
  PROVE  /\ a.call = calls + 1 /\ a.level \in Level /\ a.source = source /\ a.deal = deal
         /\ a.user = Upline(source)[a.level]
         /\ a.base = Quantize(mils)
         /\ a.percent = platform.percent[a.level]
         /\ a.amount = LevelAmount(mils, a.percent)
         /\ Earns(source, a.level, platform.rule)
         /\ a = [call |-> calls + 1, level |-> a.level, user |-> Upline(source)[a.level],
                 source |-> source, deal |-> deal, base |-> Quantize(mils),
                 percent |-> platform.percent[a.level],
                 amount |-> LevelAmount(mils, platform.percent[a.level]),
                 available |-> available]
  BY DEF NewAccruals

\* The earner is up the tree, active and not the owner.
LEMMA NewRowForUpline ==
  ASSUME TypeInv, TreeInv, NEW source \in User, Registered(source), NEW mils,
         NEW platform, NEW available, NEW deal,
         NEW a \in NewAccruals(source, mils, platform, available, deal)
  PROVE  ForUpline(a) /\ status[a.user] = "active"
  <1>1. /\ a.source = source /\ a.level \in Level /\ a.user = Upline(source)[a.level]
        /\ Earns(source, a.level, platform.rule)
    BY NewRowShape
  <1>2. a.user < source BY <1>1, UplineDescends DEF Earns
  <1> QED BY <1>1, <1>2 DEF ForUpline, Earns, Registered

\* Two rows of one call differ in level and in user.
LEMMA NewRowsDiffer ==
  ASSUME TypeInv, TreeInv, NEW source \in User, NEW mils, NEW platform, NEW available, NEW deal,
         NEW a \in NewAccruals(source, mils, platform, available, deal),
         NEW b \in NewAccruals(source, mils, platform, available, deal), a # b
  PROVE  a.level # b.level /\ a.user # b.user
  <1>1. /\ a.level \in Level /\ b.level \in Level /\ a.level # b.level
        /\ a.user = Upline(source)[a.level] /\ a.user # NoUser
        /\ b.user = Upline(source)[b.level] /\ b.user # NoUser
    BY NewRowShape DEF Earns
  <1>2. a.level \in Int /\ b.level \in Int BY <1>1 DEF Level, MAX_LEVELS
  <1>3. CASE a.level < b.level
    <2>1. Upline(source)[b.level] < Upline(source)[a.level] /\ Upline(source)[a.level] \in User
          /\ Upline(source)[b.level] \in User
      BY <1>1, <1>3, UplineDescends
    <2>2. \A v, w \in User : v < w => v # w BY UserIsId
    <2>3. Upline(source)[a.level] # Upline(source)[b.level] BY <2>1, <2>2
    <2> QED BY <2>3, <1>1
  <1>4. CASE b.level < a.level
    <2>1. Upline(source)[a.level] < Upline(source)[b.level] /\ Upline(source)[b.level] \in User
          /\ Upline(source)[a.level] \in User
      BY <1>1, <1>4, UplineDescends
    <2>2. \A v, w \in User : v < w => v # w BY UserIsId
    <2>3. Upline(source)[a.level] # Upline(source)[b.level] BY <2>1, <2>2
    <2> QED BY <2>3, <1>1
  <1> QED BY <1>1, <1>2, <1>3, <1>4

\* A percentage of the amount, and of the amount rounded to cents, differ by
\* a cent at most; for a whole number of cents they are the same.
LEMMA RoundedBase ==
  ASSUME NEW mils \in Nat, NEW percent \in 0..BasisPoints
  PROVE  LET shown == LevelAmount(MilsPerCent * Quantize(mils), percent) IN
         LevelAmount(mils, percent) \in (shown - 1)..(shown + 1)
  <1> DEFINE q == Quantize(mils)
             x == mils * percent
             y == (10 * q) * percent
             lost == 10 * q - mils
             z == lost * percent
             Cents(n) == (2 * n + 100000) \div 200000
  <1>1. q \in Nat /\ lost \in -5..5 BY DEF Quantize, HalfUp, MilsPerCent
  <1>2. percent \in Int /\ 0 <= percent /\ percent <= 10000 BY DEF BasisPoints
  <1>3. x \in Int /\ y \in Int /\ z \in Int /\ y - x = z BY <1>1, <1>2
  <1>4. LevelAmount(mils, percent) = Cents(x) /\ LevelAmount(MilsPerCent * q, percent) = Cents(y)
    BY DEF LevelAmount, HalfUp, MilsPerCent, BasisPoints
  <1> HIDE DEF x, y
  <1>5. -50000 <= z /\ z <= 50000
    <2>1. 5 - lost \in Nat /\ 5 + lost \in Nat /\ percent \in Nat /\ lost \in Int BY <1>1, <1>2
    <2>2. \A m, n \in Nat : m * n \in Nat OBVIOUS
    <2>3. (5 - lost) * percent \in Nat /\ (5 + lost) * percent \in Nat BY <2>1, <2>2
    <2> HIDE DEF lost
    <2>4. (5 - lost) * percent = 5 * percent - z /\ (5 + lost) * percent = 5 * percent + z
      BY <2>1
    <2> HIDE DEF z
    <2> QED BY <1>2, <1>3, <2>3, <2>4
  <1> HIDE DEF z, lost
  <1>6. \A n \in Int : /\ Cents(n) \in Int /\ 200000 * Cents(n) <= 2 * n + 100000
                       /\ 2 * n + 100000 < 200000 * Cents(n) + 200000
    OBVIOUS
  <1> HIDE DEF Cents
  <1>7. Cents(x) \in (Cents(y) - 1)..(Cents(y) + 1)
    <2> DEFINE cx == Cents(x)
               cy == Cents(y)
    <2>1. /\ cx \in Int /\ 200000 * cx <= 2 * x + 100000 /\ 2 * x + 100000 < 200000 * cx + 200000
          /\ cy \in Int /\ 200000 * cy <= 2 * y + 100000 /\ 2 * y + 100000 < 200000 * cy + 200000
      BY <1>3, <1>6
    <2>2. y - x <= 50000 /\ x - y <= 50000 BY <1>3, <1>5
    <2> HIDE DEF cx, cy
    <2>3. cx - 1 <= cy /\ cy - 1 <= cx BY <1>3, <2>1, <2>2
    <2>4. cx \in (cy - 1)..(cy + 1) BY <2>1, <2>3
    <2> QED BY <2>4 DEF cx, cy
  <1> HIDE DEF q
  <1> QED BY <1>4, <1>7 DEF q

\* Whole cents survive rounding.
LEMMA WholeCents == ASSUME NEW cents \in Nat PROVE Quantize(MilsPerCent * cents) = cents
  BY DEF Quantize, HalfUp, MilsPerCent

-----------------------------------------------------------------------------
(* What a step does to the accruals. *)

\* A call of accrue_for_source: for a registered source, and for whole cents
\* when it is for a deal.
Grants(source, mils, platform, available, deal) ==
    /\ Registered(source)
    /\ AccrueForSource(source, mils, platform, available, deal)
    /\ deal # NoDeal => \E cents \in Nat : mils = MilsPerCent * cents

SomeGrant ==
    \E source \in User, mils \in Nat, platform \in PlatformValues, available \in Int,
       deal \in Deal \cup {NoDeal} : Grants(source, mils, platform, available, deal)

RowsKept == AllAccruals' = AllAccruals

\* Moving rows between the statuses keeps them.
LEMMA MovedRows ==
  ASSUME TypeInv, (\E d \in Deal : CancelPendingForDeal(d)) \/ (\E payees : ProcessMatured(payees))
  PROVE  AllAccruals' = AllAccruals
  <1>0. accruals \in [pending : SUBSET Accrual, credited : SUBSET Accrual,
                      cancelled : SUBSET Accrual]
    BY DEF TypeInv, TypeOK, ReferralTypeOK
  <1>1. ASSUME NEW d \in Deal, CancelPendingForDeal(d) PROVE AllAccruals' = AllAccruals
    <2>1. PICK rows \in SUBSET accruals.pending :
            accruals' = [accruals EXCEPT !.pending = @ \ rows, !.cancelled = @ \cup rows]
      BY <1>1 DEF CancelPendingForDeal
    <2> QED BY <2>1, <1>0 DEF AllAccruals
  <1>2. ASSUME NEW payees, ProcessMatured(payees) PROVE AllAccruals' = AllAccruals
    <2>1. PICK rows \in SUBSET accruals.pending :
            accruals' = [accruals EXCEPT !.pending = @ \ rows, !.credited = @ \cup rows]
      BY <1>2 DEF ProcessMatured, Matured
    <2> QED BY <2>1, <1>0 DEF AllAccruals
  <1> QED BY <1>1, <1>2

\* Issuing a deal, and a manual accrual, grant; everything else keeps the
\* rows.
LEMMA StepEarnings ==
  ASSUME TypeInv, TreeInv, [Next]_vars
  PROVE  SomeGrant \/ RowsKept
  <1>0. /\ deals \in [Deal -> DealRow] /\ DealsOwned /\ today \in Int
        /\ \A d \in Deal : deals[d] \in DealRow
    BY ReferralAssumption DEF TypeInv, TypeOK, ReferralTypeOK
  <1>a. ASSUME UNCHANGED accruals PROVE RowsKept
    BY <1>a DEF RowsKept, AllAccruals
  <1>1. ASSUME NEW d \in Deal, NEW u \in User, NEW mils \in PolicyAmounts,
               NEW date \in PolicyDates, NEW platform \in PlatformValues,
               CreateDeal(d, u, mils, date, platform)
        PROVE  RowsKept
    BY <1>1, <1>a DEF CreateDeal
  <1>2. ASSUME NEW d \in Deal, NEW platform \in PlatformValues, IssueDeal(d, platform)
        PROVE  SomeGrant
    <2> DEFINE mils == MilsPerCent * deals[d].amount
    <2>1. deals[d].user \in User /\ Registered(deals[d].user)
      BY <1>0, <1>2 DEF IssueDeal, DealsOwned, TreeInv, DealersKnown
    <2>2. deals[d].amount \in Nat /\ mils \in Nat /\ deals[d].accrual_date \in Int
      BY <1>0 DEF DealRow, MilsPerCent
    <2>3. AccrueForSource(deals[d].user, mils, platform, deals[d].accrual_date, d)
      BY <1>2 DEF IssueDeal
    <2>4. Grants(deals[d].user, mils, platform, deals[d].accrual_date, d)
      BY <2>1, <2>2, <2>3 DEF Grants
    <2> HIDE DEF mils
    <2> QED BY <2>1, <2>2, <2>4 DEF SomeGrant
  <1>3. ASSUME NEW d \in Deal, NEW new \in CancelStatus, WithdrawDeal(d, new)
        PROVE  RowsKept
    BY <1>3, MovedRows DEF WithdrawDeal, RowsKept
  <1>4. ASSUME NEW d \in Deal, NEW new \in DealStatus, MoveDeal(d, new) PROVE RowsKept
    BY <1>4, <1>a DEF MoveDeal
  <1>5. ASSUME NEW d \in Deal, NEW mils \in PolicyAmounts, UpdateAmount(d, mils) PROVE RowsKept
    BY <1>5, <1>a DEF UpdateAmount
  <1>6. ASSUME NEW u \in User, NEW mils \in PolicyAmounts, NEW platform \in PlatformValues,
               AccrueManually(u, mils, platform)
        PROVE  SomeGrant
    <2>1. today + platform.delay \in Int /\ mils \in Nat
      BY <1>0, ReferralAssumption DEF PlatformValue
    <2>2. Grants(u, mils, platform, today + platform.delay, NoDeal)
      BY <1>6 DEF AccrueManually, Grants, Registered
    <2> QED BY <2>1, <2>2 DEF SomeGrant
  <1>7. ASSUME NEW payees, ProcessMatured(payees) PROVE RowsKept
    BY <1>7, MovedRows DEF RowsKept
  <1>8. CASE NextDay \/ UNCHANGED referralVars
    BY <1>8, <1>a DEF NextDay, referralVars
  <1>9. CASE ReferralNext
    BY <1>1, <1>2, <1>3, <1>4, <1>5, <1>6, <1>7, <1>8, <1>9 DEF ReferralNext, ProcessPending
  <1> QED BY <1>8, <1>9, StepSplit DEF OnlyTemplates

-----------------------------------------------------------------------------
\* Nothing is earned initially.
LEMMA EarningsInit == Init => EarningsInv
  <1> SUFFICES ASSUME Init PROVE EarningsInv OBVIOUS
  <1>1. AllAccruals = {} BY DEF Init, ReferralInit, AllAccruals
  <1> QED BY <1>1 DEF EarningsInv, OncePerCall

\* A row keeps being for its source's upline.
LEMMA ForUplineStays ==
  ASSUME TypeInv, TreeInv, [Next]_vars, NEW a \in Accrual, ForUpline(a)
  PROVE  ForUpline(a)'
  <1>1. a.source \in User /\ a.user \in User BY DEF Accrual
  <1>2. Upline(a.source)' = Upline(a.source) BY <1>1, UplineStays DEF ForUpline
  <1>3. /\ Registered(a.source)' /\ Registered(a.user)' /\ referrer'[a.user] = referrer[a.user]
    BY <1>1, KnownStays DEF ForUpline
  <1> QED BY <1>2, <1>3 DEF ForUpline

\* A grant adds rows that are as they should be.
LEMMA GrantKeeps ==
  ASSUME TypeInv, TreeInv, Books, EarningsInv, [Next]_vars, SomeGrant
  PROVE  EarningsInv'
  <1>1. PICK source \in User, mils \in Nat, platform \in PlatformValues, available \in Int,
             deal \in Deal \cup {NoDeal} : Grants(source, mils, platform, available, deal)
    BY DEF SomeGrant
  <1> DEFINE new == NewAccruals(source, mils, platform, available, deal)
  <1>2. new \subseteq Accrual /\ \A a \in new : a.call = calls + 1
    BY NewAccrualsType DEF TypeInv, TypeOK
  <1>3. AllAccruals' = AllAccruals \cup new
    <2>1. accruals' = [accruals EXCEPT !.pending = @ \cup new]
      BY <1>1 DEF Grants, AccrueForSource
    <2> HIDE DEF new
    <2> QED BY <2>1 DEF TypeInv, TypeOK, ReferralTypeOK, AllAccruals
  <1>4. /\ AllAccruals \subseteq Accrual /\ calls \in Nat
        /\ \A a \in AllAccruals : a.call \in Nat /\ a.call <= calls
    BY ReferralAssumption
    DEF TypeInv, TypeOK, ReferralTypeOK, Books, CallsCounted, AllAccruals, Accrual
  <1>5. \A a \in AllAccruals, b \in new : a.call # b.call BY <1>2, <1>4
  <1>6. ASSUME NEW a \in new PROVE ForUpline(a) /\ Explained(a)
    <2>1. ForUpline(a) BY <1>1, NewRowForUpline DEF Grants
    <2>2. /\ a.deal = deal /\ a.base = Quantize(mils) /\ a.amount = LevelAmount(mils, a.percent)
      BY NewRowShape
    <2>3. a.percent \in 0..BasisPoints BY <1>2 DEF Accrual
    <2>4. a.amount \in (LevelAmount(MilsPerCent * a.base, a.percent) - 1)..
                        (LevelAmount(MilsPerCent * a.base, a.percent) + 1)
      BY <2>2, <2>3, RoundedBase
    <2>5. ASSUME deal # NoDeal PROVE a.amount = LevelAmount(MilsPerCent * a.base, a.percent)
      <3>1. PICK cents \in Nat : mils = MilsPerCent * cents BY <1>1, <2>5 DEF Grants
      <3>2. MilsPerCent * a.base = mils BY <3>1, <2>2, WholeCents
      <3> QED BY <3>2, <2>2
    <2> QED BY <2>1, <2>2, <2>4, <2>5 DEF Explained
  <1>7. \A a \in new, b \in new : a # b => a.level # b.level /\ a.user # b.user
    BY NewRowsDiffer
  <1> HIDE DEF new
  <1>9. ASSUME NEW a \in AllAccruals' PROVE ForUpline(a)' /\ Explained(a)'
    <2>1. ForUpline(a) /\ Explained(a) /\ a \in Accrual
      BY <1>2, <1>3, <1>4, <1>6 DEF EarningsInv
    <2> QED BY <2>1, ForUplineStays DEF Explained
  <1>10. OncePerCall'
    <2>1. ASSUME NEW a \in AllAccruals', NEW b \in AllAccruals', a # b, a.call = b.call
          PROVE  a.level # b.level /\ a.user # b.user
      <3>1. (a \in AllAccruals /\ b \in AllAccruals) \/ (a \in new /\ b \in new)
        BY <2>1, <1>3, <1>5
      <3> QED BY <3>1, <2>1, <1>7 DEF EarningsInv, OncePerCall
    <2> QED BY <2>1 DEF OncePerCall
  <1> QED BY <1>9, <1>10 DEF EarningsInv

\* Every step keeps what was earned and why.
LEMMA EarningsStep == TypeInv /\ TreeInv /\ Books /\ EarningsInv /\ [Next]_vars => EarningsInv'
  <1> SUFFICES ASSUME TypeInv, TreeInv, Books, EarningsInv, [Next]_vars PROVE EarningsInv'
    OBVIOUS
  <1>1. CASE SomeGrant BY <1>1, GrantKeeps
  <1>2. CASE RowsKept
    <2>1. AllAccruals' = AllAccruals BY <1>2 DEF RowsKept
    <2>2. AllAccruals \subseteq Accrual BY DEF TypeInv, TypeOK, ReferralTypeOK, AllAccruals
    <2>3. \A a \in AllAccruals : ForUpline(a)' /\ Explained(a)'
      BY <2>2, ForUplineStays DEF EarningsInv, Explained
    <2>4. OncePerCall' BY <2>1 DEF EarningsInv, OncePerCall
    <2> QED BY <2>1, <2>3, <2>4 DEF EarningsInv
  <1> QED BY <1>1, <1>2, StepEarnings

\* What is earned, by whom, how much and how often, is always right.
THEOREM EarningsInvariant == Spec => []EarningsInv
  BY TypeInvariant, TreeInvariant, BooksInvariant, EarningsInit, EarningsStep, PTL DEF Spec

\* Every accrual is for the referrer that many levels above its source, who
\* registered before and owns no tree, however the tree grows later.
THEOREM AccrualsReachUpline == Spec => []AccrualReachesUpline
  <1>1. EarningsInv => AccrualReachesUpline BY DEF EarningsInv, ForUpline, AccrualReachesUpline
  <1> QED BY <1>1, EarningsInvariant, PTL

\* One call pays a level once and a user at one level, and no row has two
\* statuses.
THEOREM AccrualsPaidOnce == Spec => []AccrualPaidOnce
  <1>1. EarningsInv /\ Books => AccrualPaidOnce
    BY DEF EarningsInv, OncePerCall, Books, OneStatus, AccrualPaidOnce
  <1> QED BY <1>1, EarningsInvariant, BooksInvariant, PTL

\* The amount of every accrual follows from the base and percentage in its
\* row, whatever amount was asked for and whatever the settings were.
THEOREM AmountsFollowRows == Spec => []AmountFollowsRow
  <1>1. EarningsInv => AmountFollowsRow BY DEF EarningsInv, Explained, AmountFollowsRow
  <1> QED BY <1>1, EarningsInvariant, PTL

-----------------------------------------------------------------------------
\* New accruals are for users who are active in the step that adds them.
THEOREM ActiveUsersEarn == Spec => OnlyActiveEarn
  <1>1. ASSUME TypeInv, TreeInv, EarningsInv, [Next]_vars
        PROVE  \A a \in AllAccruals' \ AllAccruals : status[a.user] = "active"
    <2>1. CASE SomeGrant
      <3>1. PICK source \in User, mils \in Nat, platform \in PlatformValues, available \in Int,
                 deal \in Deal \cup {NoDeal} : Grants(source, mils, platform, available, deal)
        BY <2>1 DEF SomeGrant
      <3> DEFINE new == NewAccruals(source, mils, platform, available, deal)
      <3>2. \A a \in new : status[a.user] = "active"
        BY <1>1, <3>1, NewRowForUpline DEF Grants
      <3>3. accruals' = [accruals EXCEPT !.pending = @ \cup new]
        BY <3>1 DEF Grants, AccrueForSource
      <3> HIDE DEF new
      <3>4. AllAccruals' = AllAccruals \cup new
        BY <1>1, <3>3 DEF TypeInv, TypeOK, ReferralTypeOK, AllAccruals
      <3> QED BY <3>2, <3>4
    <2>2. CASE RowsKept BY <2>2 DEF RowsKept
    <2> QED BY <1>1, <2>1, <2>2, StepEarnings
  <1>2. TypeInv /\ TreeInv /\ EarningsInv /\ [Next]_vars =>
          [\A a \in AllAccruals' \ AllAccruals : status[a.user] = "active"]_vars
    BY <1>1
  <1> QED BY <1>2, TypeInvariant, TreeInvariant, EarningsInvariant, PTL DEF Spec, OnlyActiveEarn

\* A deal leaves policy_issued for rejected or error by the withdrawal only,
\* which takes all its pending accruals along and leaves balances alone.
THEOREM WithdrawalsVoid == Spec => WithdrawalVoidsDeal
  <1> DEFINE Voids == \A d \in Deal :
               deals[d].status = "policy_issued" /\ deals'[d].status \in CancelStatus
                 => /\ \A a \in accruals'.pending : a.deal # d
                    /\ balance' = balance
  <1>1. ASSUME TypeInv, [Next]_vars PROVE Voids
    <2>0. /\ deals \in [Deal -> DealRow]
          /\ accruals \in [pending : SUBSET Accrual, credited : SUBSET Accrual,
                            cancelled : SUBSET Accrual]
          /\ \A d \in Deal : deals[d] \in DealRow
      BY <1>1 DEF TypeInv, TypeOK, ReferralTypeOK
    <2>1. ASSUME NEW e \in Deal, NEW new \in CancelStatus, WithdrawDeal(e, new) PROVE Voids
      <3> DEFINE rows == {a \in accruals.pending : a.deal = e}
      <3>1. /\ accruals' = [accruals EXCEPT !.pending = @ \ rows, !.cancelled = @ \cup rows]
            /\ balance' = balance
        BY <2>1 DEF WithdrawDeal, CancelPendingForDeal
      <3>2. \A d \in Deal \ {e} : deals'[d] = deals[d] BY <2>1, <2>0 DEF WithdrawDeal
      <3>3. accruals'.pending = accruals.pending \ rows
        <4> HIDE DEF rows
        <4> QED BY <3>1, <2>0
      <3>4. "policy_issued" \notin CancelStatus BY DEF CancelStatus
      <3> QED BY <3>1, <3>2, <3>3, <3>4
    <2>2. ASSUME NEW d \in Deal, deals[d].status = "policy_issued", deals'[d].status \in CancelStatus
          PROVE  \E e \in Deal, new \in CancelStatus : WithdrawDeal(e, new)
      <3>1. "policy_issued" \notin CancelStatus /\ "absent" # "policy_issued"
        BY DEF CancelStatus
      <3>2. ASSUME NEW e \in Deal, NEW u \in User, NEW mils \in PolicyAmounts,
                   NEW date \in PolicyDates, NEW platform \in PlatformValues
            PROVE  ~ CreateDeal(e, u, mils, date, platform)
        BY <2>0, <2>2, <3>1 DEF CreateDeal
      <3>3. ASSUME NEW e \in Deal, NEW platform \in PlatformValues
            PROVE  ~ IssueDeal(e, platform)
        BY <2>0, <2>2, <3>1 DEF IssueDeal, DealRow
      <3>4. ASSUME NEW e \in Deal, NEW new \in DealStatus PROVE ~ MoveDeal(e, new)
        <4>1. SUFFICES ASSUME MoveDeal(e, new) PROVE FALSE OBVIOUS
        <4> DEFINE issued == deals[e].status = "policy_issued"
                   row == [deals[e] EXCEPT !.status = new, !.parked = deals[e].parked \/ issued]
        <4>2. deals' = [deals EXCEPT ![e] = row] BY <4>1 DEF MoveDeal
        <4>3. row.status = new BY <2>0 DEF DealRow
        <4> HIDE DEF row
        <4>4. e = d /\ new \in CancelStatus BY <4>2, <4>3, <2>0, <2>2, <3>1
        <4> QED BY <4>1, <4>4, <2>2 DEF MoveDeal
      <3>5. ASSUME NEW e \in Deal, NEW mils \in PolicyAmounts PROVE ~ UpdateAmount(e, mils)
        BY <2>0, <2>2, <3>1 DEF UpdateAmount, DealRow
      <3>6. deals' # deals BY <2>2, <3>1
      <3>7. ReferralNext BY <1>1, <3>6, StepSplit DEF OnlyTemplates, referralVars
      <3> QED BY <3>2, <3>3, <3>4, <3>5, <3>6, <3>7
               DEF ReferralNext, AccrueManually, ProcessPending, ProcessMatured, NextDay
    <2> QED BY <2>1, <2>2
  <1>2. TypeInv /\ [Next]_vars => [Voids]_vars BY <1>1
  <1> QED BY <1>2, TypeInvariant, PTL DEF Spec, WithdrawalVoidsDeal

-----------------------------------------------------------------------------
(* Which accruals of a deal are pending together. *)

\* A deal that is not there yet was never parked.
NewUnparked == \A d \in Deal : deals[d].status = "absent" => ~ deals[d].parked

OneIssueInv == PendingOfOneIssue /\ NewUnparked

\* No deal but d gets pending rows, and d has those of one issue or is parked.
LEMMA OneIssueOfDeal ==
  ASSUME TypeInv, TypeInv', OneIssueInv, NEW d \in Deal, NEW row,
         deals' = [deals EXCEPT ![d] = row], row.status # "absent",
         \A a \in accruals'.pending : a.deal \notin {d, NoDeal} => a \in accruals.pending,
         ~ row.parked =>
           \A a \in accruals'.pending : a.deal = d =>
             /\ row.status = "policy_issued"
             /\ \A b \in accruals'.pending : b.deal = d => b.call = a.call
  PROVE  OneIssueInv'
  <1>1. deals \in [Deal -> DealRow] /\ \A a \in accruals'.pending : a.deal \in Deal \cup {NoDeal}
    BY DEF TypeInv, TypeOK, ReferralTypeOK, Accrual
  <1>2. deals'[d] = row /\ \A e \in Deal \ {d} : deals'[e] = deals[e] BY <1>1
  <1>3. ASSUME NEW a \in accruals'.pending, a.deal # NoDeal, ~ deals'[a.deal].parked
        PROVE  /\ deals'[a.deal].status = "policy_issued"
               /\ \A b \in accruals'.pending : b.deal = a.deal => b.call = a.call
    <2>1. CASE a.deal = d BY <2>1, <1>2, <1>3
    <2>2. CASE a.deal # d
      <3>1. a \in accruals.pending /\ deals'[a.deal] = deals[a.deal] BY <2>2, <1>1, <1>2, <1>3
      <3>2. \A b \in accruals'.pending : b.deal = a.deal => b \in accruals.pending
        BY <2>2, <1>3
      <3> QED BY <3>1, <3>2, <1>3 DEF OneIssueInv, PendingOfOneIssue
    <2> QED BY <2>1, <2>2
  <1>4. NewUnparked' BY <1>2 DEF OneIssueInv, NewUnparked
  <1> QED BY <1>3, <1>4 DEF OneIssueInv, PendingOfOneIssue

\* Where deals stay and no row of a deal is added, nothing is to be shown.
LEMMA OneIssueStays ==
  ASSUME OneIssueInv, UNCHANGED deals,
         \A a \in accruals'.pending : a.deal # NoDeal => a \in accruals.pending
  PROVE  OneIssueInv'
  BY DEF OneIssueInv, NewUnparked, PendingOfOneIssue

\* The pending rows of a deal before it is issued are those of a parked one.
LEMMA OneIssueStep == TypeInv /\ OneIssueInv /\ [Next]_vars => OneIssueInv'
  <1> SUFFICES ASSUME TypeInv, OneIssueInv, [Next]_vars PROVE OneIssueInv' OBVIOUS
  <1>t. TypeInv' BY TypeInvStep
  <1>0. /\ deals \in [Deal -> DealRow] /\ \A d \in Deal : deals[d] \in DealRow /\ d # NoDeal
        /\ accruals \in [pending : SUBSET Accrual, credited : SUBSET Accrual,
                          cancelled : SUBSET Accrual]
    BY ReferralAssumption DEF TypeInv, TypeOK, ReferralTypeOK
  <1>a. ASSUME UNCHANGED <<accruals, deals>> PROVE OneIssueInv'
    BY <1>a, OneIssueStays
  <1>b. ASSUME NEW d \in Deal, ~ deals[d].parked, deals[d].status # "policy_issued"
        PROVE  \A a \in accruals.pending : a.deal # d
    BY <1>0, <1>b DEF OneIssueInv, PendingOfOneIssue
  <1>1. ASSUME NEW d \in Deal, NEW u \in User, NEW mils \in PolicyAmounts,
               NEW date \in PolicyDates, NEW platform \in PlatformValues,
               CreateDeal(d, u, mils, date, platform)
        PROVE  OneIssueInv'
    <2>1. PICK row : /\ deals' = [deals EXCEPT ![d] = row] /\ row.status = "new"
                     /\ UNCHANGED accruals
      BY <1>1 DEF CreateDeal
    <2>2. \A a \in accruals'.pending : a.deal # d
      BY <1>1, <1>b, <2>1 DEF CreateDeal, OneIssueInv, NewUnparked
    <2> QED BY <1>t, <2>1, <2>2, OneIssueOfDeal
  <1>2. ASSUME NEW d \in Deal, NEW platform \in PlatformValues, IssueDeal(d, platform)
        PROVE  OneIssueInv'
    <2> DEFINE row == [deals[d] EXCEPT !.status = "policy_issued"]
               new == NewAccruals(deals[d].user, MilsPerCent * deals[d].amount, platform,
                                  deals[d].accrual_date, d)
    <2>1. deals' = [deals EXCEPT ![d] = row] BY <1>2 DEF IssueDeal
    <2>2. accruals' = [accruals EXCEPT !.pending = @ \cup new]
      BY <1>2 DEF IssueDeal, AccrueForSource
    <2>3. \A a \in new : a.deal = d /\ a.call = calls + 1 BY DEF NewAccruals
    <2>4. row.status = "policy_issued" /\ row.parked = deals[d].parked BY <1>0 DEF DealRow
    <2> HIDE DEF row, new
    <2>5. accruals'.pending = accruals.pending \cup new BY <2>2, <1>0
    <2>6. ~ row.parked => \A a \in accruals.pending : a.deal # d
      BY <1>2, <1>b, <2>4 DEF IssueDeal
    <2> QED BY <1>t, <2>1, <2>3, <2>4, <2>5, <2>6, OneIssueOfDeal
  <1>3. ASSUME NEW d \in Deal, NEW new \in CancelStatus, WithdrawDeal(d, new)
        PROVE  OneIssueInv'
    <2> DEFINE rows == {a \in accruals.pending : a.deal = d}
    <2>1. accruals' = [accruals EXCEPT !.pending = @ \ rows, !.cancelled = @ \cup rows]
      BY <1>3 DEF WithdrawDeal, CancelPendingForDeal
    <2>2. accruals'.pending = accruals.pending \ rows
      <3> HIDE DEF rows
      <3> QED BY <2>1, <1>0
    <2> DEFINE row == [deals[d] EXCEPT !.status = new, !.parked = FALSE]
    <2>3. deals' = [deals EXCEPT ![d] = row] BY <1>3 DEF WithdrawDeal
    <2>4. row.status # "absent" BY <1>0 DEF DealRow, CancelStatus
    <2>5. \A a \in accruals'.pending : a \in accruals.pending /\ a.deal # d BY <2>2
    <2> HIDE DEF row
    <2> QED BY <1>t, <2>3, <2>4, <2>5, OneIssueOfDeal
  <1>4. ASSUME NEW d \in Deal, NEW new \in DealStatus, MoveDeal(d, new)
        PROVE  OneIssueInv'
    <2> DEFINE issued == deals[d].status = "policy_issued"
               row == [deals[d] EXCEPT !.status = new, !.parked = deals[d].parked \/ issued]
    <2>1. deals' = [deals EXCEPT ![d] = row] /\ UNCHANGED accruals BY <1>4 DEF MoveDeal
    <2>2. row.status = new /\ (row.parked <=> deals[d].parked \/ issued) BY <1>0 DEF DealRow
    <2>3. new # "absent" BY ReferralAssumption DEF DealStatus, CancelStatus
    <2> HIDE DEF row
    <2>4. ~ row.parked => \A a \in accruals'.pending : a.deal # d BY <2>1, <2>2, <1>b
    <2> QED BY <1>t, <2>1, <2>2, <2>3, <2>4, OneIssueOfDeal
  <1>5. ASSUME NEW d \in Deal, NEW mils \in PolicyAmounts, UpdateAmount(d, mils)
        PROVE  OneIssueInv'
    <2> DEFINE row == [deals[d] EXCEPT !.amount = Quantize(mils)]
    <2>1. deals' = [deals EXCEPT ![d] = row] /\ UNCHANGED accruals /\ row.status # "absent"
      BY <1>5, <1>0 DEF UpdateAmount, DealRow
    <2>2. row.parked = deals[d].parked /\ row.status = deals[d].status
      BY <1>0 DEF DealRow
    <2> HIDE DEF row
    <2>3. ~ row.parked =>
            \A a \in accruals'.pending : a.deal = d =>
              /\ row.status = "policy_issued"
              /\ \A b \in accruals'.pending : b.deal = d => b.call = a.call
      BY <2>1, <2>2, <1>0 DEF OneIssueInv, PendingOfOneIssue
    <2> QED BY <1>t, <2>1, <2>2, <2>3, OneIssueOfDeal
  <1>6. ASSUME NEW u \in User, NEW mils \in PolicyAmounts, NEW platform \in PlatformValues,
               AccrueManually(u, mils, platform)
        PROVE  OneIssueInv'
    <2> DEFINE new == NewAccruals(u, mils, platform, today + platform.delay, NoDeal)
    <2>1. accruals' = [accruals EXCEPT !.pending = @ \cup new] /\ UNCHANGED deals
      BY <1>6 DEF AccrueManually, AccrueForSource
    <2>2. \A a \in new : a.deal = NoDeal BY DEF NewAccruals
    <2> HIDE DEF new
    <2>3. accruals'.pending = accruals.pending \cup new BY <2>1, <1>0
    <2> QED BY <2>1, <2>2, <2>3, OneIssueStays
  <1>7. ASSUME NEW payees, ProcessMatured(payees) PROVE OneIssueInv'
    <2>1. PICK rows \in SUBSET accruals.pending :
            accruals' = [accruals EXCEPT !.pending = @ \ rows, !.credited = @ \cup rows]
      BY <1>7 DEF ProcessMatured, Matured
    <2>2. accruals'.pending = accruals.pending \ rows BY <2>1, <1>0
    <2>3. UNCHANGED deals BY <1>7 DEF ProcessMatured
    <2> QED BY <2>2, <2>3, OneIssueStays
  <1>8. CASE NextDay \/ UNCHANGED referralVars
    BY <1>8, <1>a DEF NextDay, referralVars
  <1>9. CASE ReferralNext
    BY <1>1, <1>2, <1>3, <1>4, <1>5, <1>6, <1>7, <1>8, <1>9 DEF ReferralNext, ProcessPending
  <1> QED BY <1>8, <1>9, StepSplit DEF OnlyTemplates

\* Whatever the sequence of issues, moves and withdrawals, the pending
\* accruals of a deal are those of the issue in force, unless the deal left
\* policy_issued without being withdrawn.
THEOREM PendingOfIssueInForce == Spec => []PendingOfOneIssue
  <1>1. Init => OneIssueInv
    BY DEF Init, ReferralInit, NoRow, OneIssueInv, NewUnparked, PendingOfOneIssue
  <1>2. OneIssueInv => PendingOfOneIssue BY DEF OneIssueInv
  <1> QED BY <1>1, <1>2, OneIssueStep, TypeInvariant, PTL DEF Spec
=============================================================================
