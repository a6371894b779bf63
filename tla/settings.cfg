\* Three calls, readers and saves, from the empty table on: each statement and
\* each request to Redis interleaves, and any of them may fail.
SPECIFICATION FairSpec
CONSTANTS
    Call = {k1, k2, k3}
    Value = {v1, v2}
    Default = default
    NoRow = NoRow
    NoValue = NoValue
INVARIANTS
    TypeOK
    StaleForAReason
PROPERTIES
    EventuallyFresh
