\* The accrual job and the endpoint credit the same accrual.
SPECIFICATION Spec
CONSTANTS
    Session = {s1, s2}
    User = {1}
    Deal = {d1}
    Issued = {d1}
    Certificate = {}
    Holder <- HeldByFirst
    Share = 2
    Price = 3
    Funds = 0
    Ops <- MaturingOps
INVARIANTS
    CreditedOnce
CHECK_DEADLOCK FALSE
