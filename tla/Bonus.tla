-------------------------------- MODULE Bonus --------------------------------
(***************************************************************************)
(* The bonus platform: accounts, referral bonuses and the exchange of      *)
(* bonuses for certificates, which meet in users.balance and               *)
(* users.pending_balance.                                                  *)
(***************************************************************************)
EXTENDS Referral, Exchange

vars == <<accountVars, referralVars, exchangeVars, broken>>

TypeOK == AccountsTypeOK /\ ReferralTypeOK /\ ExchangeTypeOK /\ TemplatesTypeOK

Init == AccountsInit /\ ReferralInit /\ ExchangeInit /\ TemplatesInit

Next ==
    \/ AccountsNext /\ UNCHANGED <<referralVars, exchangeVars, broken>>
    \/ ReferralNext /\ UNCHANGED <<exchangeVars, broken>>
    \/ ExchangeNext /\ UNCHANGED <<referralVars, broken>>
    \/ \E new \in SUBSET BadTemplates :
        SaveTemplates(new) /\ UNCHANGED <<referralVars, exchangeVars>>

Spec == Init /\ [][Next]_vars

\* The scheduler tries the accrual job every hour, and time passes.  A try
\* that finds a broken template is no step: ProcessMatured is not enabled.
JobRuns == ProcessMatured(User) /\ UNCHANGED <<exchangeVars, broken>>
TimePasses == NextDay /\ UNCHANGED <<exchangeVars, broken>>
FairSpec == Spec /\ WF_vars(JobRuns) /\ WF_vars(TimePasses)

-----------------------------------------------------------------------------
AllAccruals == accruals.pending \cup accruals.credited \cup accruals.cancelled

\* pending_balance is the sum of the user's pending accruals: the clamp at
\* zero in cancel_pending_for_deal and process_matured_accruals never bites.
PendingBacked == \A u \in User : pending[u] = Total(Of(u, accruals.pending))

\* Every cent of balance is accounted for: accruals credited, plus manual
\* credits, less manual debits and certificates, as audit_log has them.
BalanceExplained ==
    \A u \in User :
        balance[u] + audit[u].debit + audit[u].exchange
            = Total(Of(u, accruals.credited)) + audit[u].credit

\* What a user paid for certificates is what the certificates with a file are
\* worth: none is handed out unpaid or paid twice, cancelled later or not.
CertificatesPaid ==
    \A u \in User :
        audit[u].exchange =
            Total({[id |-> c, amount |-> certificates[c].amount] : c \in
                     {c \in Certificate : certificates[c].file /\ certificates[c].user = u}})

\* Each accrual is for the referrer that many levels above its source, who
\* registered earlier and is not the owner of a tree.
AccrualReachesUpline ==
    \A a \in AllAccruals :
        /\ a.user = Upline(a.source)[a.level]
        /\ a.user < a.source
        /\ referrer[a.user] # NoUser

\* (call, level) is a key of all accruals whatever their status, and one call
\* never pays a user at two levels.
AccrualPaidOnce ==
    /\ accruals.pending \cap accruals.credited = {}
    /\ accruals.cancelled \cap (accruals.pending \cup accruals.credited) = {}
    /\ \A a, b \in AllAccruals :
        a # b /\ a.call = b.call => a.level # b.level /\ a.user # b.user

\* The amount of an accrual follows from the base and the percentage its row
\* shows: exactly for a deal, to a cent for a manual accrual, whose base is
\* rounded in the row but not in the product.
AmountFollowsRow ==
    \A a \in AllAccruals :
        LET shown == LevelAmount(MilsPerCent * a.base, a.percent) IN
        /\ a.deal # NoDeal => a.amount = shown
        /\ a.amount \in (shown - 1)..(shown + 1)

\* The pending accruals of a deal are of one issue, the one in force: none
\* outlives a withdrawal and none is added to those of an issue still in
\* force.  Only a deal that left policy_issued without a withdrawal, which
\* change_status lets pass, may have others.
PendingOfOneIssue ==
    \A a \in accruals.pending : a.deal # NoDeal /\ ~ deals[a.deal].parked =>
        /\ deals[a.deal].status = "policy_issued"
        /\ \A b \in accruals.pending : b.deal = a.deal => b.call = a.call

\* An accrual is never lost or changed; it leaves "pending" only, once, and
\* becomes "credited" no earlier than its available_at.
AccrualLifecycle ==
    [][ /\ accruals.credited \subseteq accruals'.credited
        /\ accruals.cancelled \subseteq accruals'.cancelled
        /\ accruals.pending \subseteq AllAccruals'
        /\ accruals'.credited \ accruals.credited
             \subseteq {a \in accruals.pending : a.available <= today}
      ]_vars

\* Bonuses are granted to active users only, although matured ones reach a
\* user whatever the status is by then.
OnlyActiveEarn ==
    [][\A a \in AllAccruals' \ AllAccruals : status[a.user] = "active"]_vars

\* Withdrawing an issued deal leaves none of its accruals pending, those of
\* earlier issues included, and takes nothing from any balance.
WithdrawalVoidsDeal ==
    [][\A d \in Deal :
         deals[d].status = "policy_issued" /\ deals'[d].status \in CancelStatus
           => /\ \A a \in accruals'.pending : a.deal # d
              /\ balance' = balance]_vars

\* A finalised certificate request changes no more, except that a completed
\* one may be cancelled; user, amount and file stay with it.
FinalRequestStays ==
    [][\A c \in Certificate : certificates[c].status \in FinalStatus =>
         /\ certificates'[c].status \in {certificates[c].status, "cancelled"}
         /\ [certificates'[c] EXCEPT !.status = ""] = [certificates[c] EXCEPT !.status = ""]
      ]_vars

\* The two balances keep the promise of AccountBook.
Book == INSTANCE AccountBook WITH
            Account <- User, available <- balance, held <- pending
KeepsBook == Book!BookSpec

\* Every pending accrual that falls due within the modelled days is credited
\* or cancelled in the end: the job and the clock see to it, whatever happens
\* beside them, unless the template of its SMS is broken again and again or
\* stays so.  Then the job fails for everybody, whoever is owed.
Unsettled(call) == \E a \in accruals.pending : a.call = call /\ a.available <= MaxDay
EventuallySettled ==
    <>[]("bonus_accrued" \notin broken) =>
        \A call \in 1..MaxCalls : Unsettled(call) ~> ~ Unsettled(call)

-----------------------------------------------------------------------------
(* What the repository says and the code does not keep. *)

\* "при отмене выпущенного полиса pending-начисления отменяются"
\* (app/models/deals.py:18-19)
NoPendingOnCancelledDeal ==
    \A a \in accruals.pending :
        a.deal # NoDeal => deals[a.deal].status \notin CancelStatus
=============================================================================
