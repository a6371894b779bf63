------------------------------ MODULE Referral ------------------------------
(***************************************************************************)
(* Deals and the referral bonuses they earn: ReferralService, DealService  *)
(* and the two endpoints of the referrals router that change state.        *)
(*                                                                         *)
(* A row of referral_accruals is immutable but for its status, so the      *)
(* table is three sets of rows, one per status.  (call, level) is its key: *)
(* one call of accrue_for_source adds at most one row per level.           *)
(*                                                                         *)
(* What SettingsService.get_values returns is any member of PlatformValues:*)
(* an administrator may have saved it, and the cache may still serve it.   *)
(***************************************************************************)
EXTENDS Accounts

CONSTANTS
    Deal,           \* deal ids
    WorkStatus,     \* deal statuses with no effect on bonuses; "new" is one
    PolicyAmounts,  \* amounts (mils) of policies and of manual accruals
    PolicyDates,    \* policy dates, in days
    PlatformValues, \* what get_values may return
    MaxDay,         \* bound: the last day
    MaxCalls        \* bound: calls of accrue_for_source that commit

MAX_LEVELS == 4
Level == 1..MAX_LEVELS
NoDeal == "no deal"
CancelStatus == {"rejected", "error"}
DealStatus == WorkStatus \cup CancelStatus \cup {"policy_issued"}
PlatformValue == [percent : [Level -> 0..BasisPoints],
                  rule : {"zero", "skip"}, delay : Nat]

ASSUME ReferralAssumption ==
    /\ MaxDay \in Nat /\ MaxCalls \in Nat
    /\ PolicyAmounts \subseteq Nat
    /\ PolicyDates \subseteq Int
    /\ PlatformValues \subseteq PlatformValue
    /\ "new" \in WorkStatus
    /\ WorkStatus \cap (CancelStatus \cup {"policy_issued", "absent"}) = {}
    /\ NoDeal \notin Deal

VARIABLES
    deals,     \* the deals table, and "parked" (see DealRow)
    accruals,  \* referral_accruals, by status
    calls,     \* committed calls of accrue_for_source
    today      \* the day of utcnow()

referralVars == <<deals, accruals, calls, today>>

NoRow == [status |-> "absent", user |-> NoUser, amount |-> 0, accrual_date |-> 0,
          parked |-> FALSE]

\* "parked" is read off deal_status_events: the deal has left policy_issued
\* by a change that cancels nothing, and was not withdrawn since.
DealRow == [status : DealStatus \cup {"absent"}, user : User \cup {NoUser},
            amount : Nat, accrual_date : Int, parked : BOOLEAN]

Accrual == [call : Nat, level : Level, user : User, source : User,
            deal : Deal \cup {NoDeal}, base : Nat, percent : 0..BasisPoints,
            amount : Nat, available : Int]

ReferralTypeOK ==
    /\ deals \in [Deal -> DealRow]
    /\ accruals \in [pending : SUBSET Accrual, credited : SUBSET Accrual,
                     cancelled : SUBSET Accrual]
    /\ calls \in 0..MaxCalls
    /\ today \in 0..MaxDay

ReferralInit ==
    /\ deals = [d \in Deal |-> NoRow]
    /\ accruals = [pending |-> {}, credited |-> {}, cancelled |-> {}]
    /\ calls = 0
    /\ today = 0

-----------------------------------------------------------------------------
(* ReferralService *)

Parent(u) == IF u = NoUser THEN NoUser ELSE referrer[u]

\* Mutant of Upline: the list starts with the user.
UplineFromSelf(u) == <<u, Parent(u), Parent(Parent(u)), Parent(Parent(Parent(u)))>>

\* get_upline_ids: the referrers at levels 1 to 4, NoUser past the root.
Upline(u) ==
    LET first == Parent(u)
        second == Parent(first)
        third == Parent(second)
    IN  <<first, second, third, Parent(third)>>

\* Mutant of Earns: a blocked or deleted referrer is paid under the rule "skip".
EarnsWhateverStatus(source, level, rule) ==
    LET up == Upline(source) IN
    /\ up[level] # NoUser
    /\ referrer[up[level]] # NoUser
    /\ rule = "zero" => \A below \in 1..level : status[up[below]] = "active"

\* Who is paid at a level: an active referrer who is not the owner (the root),
\* and under the rule "zero" nobody above the first inactive one.
Earns(source, level, rule) ==
    LET up == Upline(source) IN
    /\ up[level] # NoUser
    /\ status[up[level]] = "active"
    /\ referrer[up[level]] # NoUser
    /\ rule = "zero" => \A below \in 1..(level - 1) : status[up[below]] = "active"

\* Mutant of NewAccruals: the amount is the first level's at every level.
NewAccrualsFirstPercent(source, mils, platform, available, deal) ==
    { [call |-> calls + 1, level |-> level, user |-> Upline(source)[level],
       source |-> source, deal |-> deal, base |-> Quantize(mils),
       percent |-> platform.percent[level],
       amount |-> LevelAmount(mils, platform.percent[1]),
       available |-> available] :
      level \in {l \in Level : Earns(source, l, platform.rule)} }

\* The rows one call adds: a level whose amount rounds to zero gets none.
NewAccruals(source, mils, platform, available, deal) ==
    { [call |-> calls + 1, level |-> level, user |-> Upline(source)[level],
       source |-> source, deal |-> deal, base |-> Quantize(mils),
       percent |-> platform.percent[level],
       amount |-> LevelAmount(mils, platform.percent[level]),
       available |-> available] :
      level \in {l \in Level : /\ Earns(source, l, platform.rule)
                               /\ LevelAmount(mils, platform.percent[l]) > 0} }

AccrueForSource(source, mils, platform, available, deal) ==
    LET new == NewAccruals(source, mils, platform, available, deal) IN
    /\ mils > 0
    /\ calls < MaxCalls
    /\ calls' = calls + 1
    /\ accruals' = [accruals EXCEPT !.pending = @ \cup new]
    /\ pending' = [u \in User |-> pending[u] + Total(Of(u, new))]
    /\ UNCHANGED <<status, referrer, balance, audit>>

\* What leaves pending_balance with a set of rows, clamped at zero.
Released(rows) == [u \in User |-> AtLeastZero(pending[u] - Total(Of(u, rows)))]

\* Mutants of CancelPendingForDeal: pending_balance is forgotten; only the
\* accruals of the latest call are cancelled.
CancelRowsOnly(d) ==
    LET rows == {a \in accruals.pending : a.deal = d} IN
    /\ accruals' = [accruals EXCEPT !.pending = @ \ rows, !.cancelled = @ \cup rows]
    /\ UNCHANGED <<accountVars, calls>>

CancelLatestCall(d) ==
    LET rows == {a \in accruals.pending : a.deal = d /\ a.call = calls} IN
    /\ accruals' = [accruals EXCEPT !.pending = @ \ rows, !.cancelled = @ \cup rows]
    /\ pending' = Released(rows)
    /\ UNCHANGED <<status, referrer, balance, audit, calls>>

CancelPendingForDeal(d) ==
    LET rows == {a \in accruals.pending : a.deal = d} IN
    /\ accruals' = [accruals EXCEPT !.pending = @ \ rows, !.cancelled = @ \cup rows]
    /\ pending' = Released(rows)
    /\ UNCHANGED <<status, referrer, balance, audit, calls>>

\* Mutants of Matured: available_at is not looked at; inactive users are left out.
MaturedAnyTime(payees) == {a \in accruals.pending : a.user \in payees}
MaturedActive(payees) ==
    {a \in accruals.pending : /\ a.available <= today
                              /\ a.user \in payees
                              /\ status[a.user] = "active"}

Matured(payees) == {a \in accruals.pending : a.available <= today /\ a.user \in payees}

\* Mutants of ProcessMatured: the rows stay pending; only active users are credited.
ProcessKeepingRows(payees) ==
    LET rows == Matured(payees) IN
    /\ rows # {}
    /\ \A a \in rows : Sends(a.user, "bonus_accrued")
    /\ accruals' = [accruals EXCEPT !.credited = @ \cup rows]
    /\ balance' = [u \in User |-> balance[u] + Total(Of(u, rows))]
    /\ pending' = Released(rows)
    /\ UNCHANGED <<status, referrer, audit, deals, calls, today>>

ProcessCreditingActive(payees) ==
    LET rows == Matured(payees) IN
    /\ rows # {}
    /\ \A a \in rows : Sends(a.user, "bonus_accrued")
    /\ accruals' = [accruals EXCEPT !.pending = @ \ rows, !.credited = @ \cup rows]
    /\ balance' = [u \in User |->
                     balance[u] + IF status[u] = "active" THEN Total(Of(u, rows)) ELSE 0]
    /\ pending' = Released(rows)
    /\ UNCHANGED <<status, referrer, audit, deals, calls, today>>

\* process_matured_accruals: the hourly job pays everyone, the endpoint its
\* caller, in one transaction, which one SMS that raises rolls back for all.
ProcessMatured(payees) ==
    LET rows == Matured(payees) IN
    /\ rows # {}
    /\ \A a \in rows : Sends(a.user, "bonus_accrued")
    /\ accruals' = [accruals EXCEPT !.pending = @ \ rows, !.credited = @ \cup rows]
    /\ balance' = [u \in User |-> balance[u] + Total(Of(u, rows))]
    /\ pending' = Released(rows)
    /\ UNCHANGED <<status, referrer, audit, deals, calls, today>>

ProcessPending(u) == status[u] = "active" /\ ProcessMatured({u})

\* POST /referrals/accrue/: the caller's upline, no deal, the default delay.
AccrueManually(u, mils, platform) ==
    /\ status[u] = "active"
    /\ AccrueForSource(u, mils, platform, today + platform.delay, NoDeal)
    /\ UNCHANGED <<deals, today>>

-----------------------------------------------------------------------------
(* DealService *)

CreateDeal(d, u, mils, date, platform) ==
    /\ deals[d].status = "absent"
    /\ mils > 0
    /\ Registered(u)
    /\ deals' = [deals EXCEPT ![d] = [status |-> "new", user |-> u,
                    amount |-> Quantize(mils), accrual_date |-> date + platform.delay,
                    parked |-> FALSE]]
    /\ UNCHANGED <<accountVars, accruals, calls, today>>

\* Mutant of IssueDeal: the new status is not compared with the present one.
IssueDealAgain(d, platform) ==
    LET deal == deals[d] IN
    /\ deal.status # "absent"
    /\ AccrueForSource(deal.user, MilsPerCent * deal.amount, platform, deal.accrual_date, d)
    /\ deals' = [deals EXCEPT ![d].status = "policy_issued"]
    /\ UNCHANGED today

\* change_status to policy_issued, from any other status.  A stored amount of
\* 0.00 makes accrue_for_source raise, and the call changes nothing.
IssueDeal(d, platform) ==
    LET deal == deals[d] IN
    /\ deal.status \notin {"absent", "policy_issued"}
    /\ AccrueForSource(deal.user, MilsPerCent * deal.amount, platform, deal.accrual_date, d)
    /\ deals' = [deals EXCEPT ![d].status = "policy_issued"]
    /\ UNCHANGED today

\* change_status from policy_issued to rejected or error.
WithdrawDeal(d, new) ==
    /\ deals[d].status = "policy_issued"
    /\ new \in CancelStatus
    /\ CancelPendingForDeal(d)
    /\ deals' = [deals EXCEPT ![d] = [@ EXCEPT !.status = new, !.parked = FALSE]]
    /\ UNCHANGED today

\* Every other change_status: any status but the present one will do.
MoveDeal(d, new) ==
    LET issued == deals[d].status = "policy_issued" IN
    /\ deals[d].status \notin {"absent", new}
    /\ new # "policy_issued"
    /\ ~ (issued /\ new \in CancelStatus)
    /\ deals' = [deals EXCEPT ![d] =
                   [@ EXCEPT !.status = new, !.parked = deals[d].parked \/ issued]]
    /\ UNCHANGED <<accountVars, accruals, calls, today>>

UpdateAmount(d, mils) ==
    /\ deals[d].status # "absent"
    /\ mils > 0
    /\ deals' = [deals EXCEPT ![d].amount = Quantize(mils)]
    /\ UNCHANGED <<accountVars, accruals, calls, today>>

-----------------------------------------------------------------------------
NextDay ==
    /\ today < MaxDay
    /\ today' = today + 1
    /\ UNCHANGED <<accountVars, deals, accruals, calls>>

ReferralNext ==
    \/ \E d \in Deal, platform \in PlatformValues :
        \/ \E u \in User, mils \in PolicyAmounts, date \in PolicyDates :
            CreateDeal(d, u, mils, date, platform)
        \/ IssueDeal(d, platform)
    \/ \E d \in Deal :
        \/ \E new \in CancelStatus : WithdrawDeal(d, new)
        \/ \E new \in DealStatus : MoveDeal(d, new)
        \/ \E mils \in PolicyAmounts : UpdateAmount(d, mils)
    \/ \E u \in User :
        \/ \E mils \in PolicyAmounts, platform \in PlatformValues :
            AccrueManually(u, mils, platform)
        \/ ProcessPending(u)
    \/ ProcessMatured(User)
    \/ NextDay
=============================================================================
