\* Two requests at a time, four in all, from no user or from one with a token:
\* codes, registrations and logins, refreshes, logouts and moderation.
SPECIFICATION Spec
CONSTANTS
    Call = {k1, k2}
    MAX_ATTEMPTS = 2
    CodeTTL = 2
    Limits = {0, 1}
    MaxUsers = 2
    MaxRequests = 4
    None = None
INVARIANTS
    TypeOK
    CodeBudget
    RevokedWithAccount
    RotatedOnce
PROPERTIES
    ModeratedInTurn
    CounterTended
CHECK_DEADLOCK FALSE
