\* Any two calls of the platform that overlap, wait for each other's rows, and
\* may stop anywhere.
SPECIFICATION FairSpec
CONSTANTS
    Session = {s1, s2}
    User = {1, 2}
    Deal = {d1, d2}
    Issued = {d1}
    Certificate = {c1}
    Holder <- HeldByFirst
    Share = 2
    Price = 3
    Funds = 4
    Ops <- AllOps
INVARIANTS
    TypeOK
    PaidFileStored
PROPERTIES
    SettledForGood
    CallsEnd
CHECK_DEADLOCK FALSE
