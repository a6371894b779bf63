\* Messages of two users behind a limit that administrators raise and drop to
\* zero, in batches smaller than the queue; the job may die once.
SPECIFICATION FairSpec
CONSTANTS
    User = {u1, u2}
    BatchSize = 2
    Day = 1
    Limits = {0, 1}
    DefaultLimit = 1
    MaxMessages = 4
    MaxCrashes = 1
INVARIANTS
    TypeOK
    DailyLimitKept
    DeliveredAsRecorded
PROPERTIES
    EventuallyHandled
