\* Who earns and how much: one accrual over a chain of an owner and four users,
\* longer than the four levels, with a sixth who may join anywhere before or
\* after it, under every combination of blocked and deleted users and both
\* rules, with amounts that round up, down to zero, and to a stored 0.00.
SPECIFICATION Spec
CONSTANTS
    MaxUsers = 6
    FoundingReferrers <- Chain5
    ManualAmounts = {}
    MaxCredit = 0
    BadTemplates = {}
    Deal = {}
    WorkStatus = {"new"}
    PolicyAmounts = {4, 165, 5000}
    PolicyDates = {0}
    PlatformValues <- BothRules
    MaxDay = 1
    MaxCalls = 1
    Partner = {}
    Certificate = {}
    LimitAmounts = {}
    RequestAmounts = {}
INVARIANTS
    TreeIsRooted
    AccrualReachesUpline
    AmountFollowsRow
PROPERTIES
    OnlyActiveEarn
    KeepsBook
CHECK_DEADLOCK FALSE
