\* Two deals issued, withdrawn and issued again by one chain of three, while
\* the accruals of earlier issues mature under the hourly job, which a broken
\* template may stop for a while.
SPECIFICATION FairSpec
CONSTANTS
    MaxUsers = 3
    FoundingReferrers <- Chain3
    ManualAmounts = {}
    MaxCredit = 0
    BadTemplates = {"bonus_accrued"}
    Deal = {d1, d2}
    WorkStatus = {"new"}
    PolicyAmounts = {165}
    PolicyDates = {0}
    PlatformValues <- JustZero
    MaxDay = 1
    MaxCalls = 2
    Partner = {}
    Certificate = {}
    LimitAmounts = {}
    RequestAmounts = {}
INVARIANTS
    PendingBacked
    AccrualPaidOnce
    PendingOfOneIssue
    BalanceExplained
PROPERTIES
    AccrualLifecycle
    WithdrawalVoidsDeal
    EventuallySettled
