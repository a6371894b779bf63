\* A withdrawn policy whose accruals stay pending: policy_issued, paid, rejected.
SPECIFICATION Spec
CONSTANTS
    MaxUsers = 3
    FoundingReferrers <- Chain3
    ManualAmounts = {}
    MaxCredit = 0
    BadTemplates = {}
    Deal = {d1}
    WorkStatus = {"new", "paid"}
    PolicyAmounts = {500}
    PolicyDates = {0}
    PlatformValues <- JustZero
    MaxDay = 1
    MaxCalls = 1
    Partner = {}
    Certificate = {}
    LimitAmounts = {}
    RequestAmounts = {}
INVARIANTS
    NoPendingOnCancelledDeal
