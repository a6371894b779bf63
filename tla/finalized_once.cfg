\* Two managers complete the same request.
SPECIFICATION Spec
CONSTANTS
    Session = {s1, s2}
    User = {1}
    Deal = {}
    Issued = {}
    Certificate = {c1}
    Holder <- HeldByFirst
    Share = 2
    Price = 3
    Funds = 6
    Ops <- CompletingOps
INVARIANTS
    FinalizedOnce
CHECK_DEADLOCK FALSE
