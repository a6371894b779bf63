\* Two certificate requests of one user against a balance that may cover only
\* one of them, while a manual debit competes, the partner's limits change and templates
\* of the operations' SMS may be broken.
SPECIFICATION Spec
CONSTANTS
    MaxUsers = 1
    FoundingReferrers <- Owner
    ManualAmounts = {4, 20, 30}
    MaxCredit = 6
    BadTemplates = {"bonus_manual_credit", "certificate_completed", "certificate_cancelled"}
    Deal = {}
    WorkStatus = {"new"}
    PolicyAmounts = {}
    PolicyDates = {0}
    PlatformValues <- JustZero
    MaxDay = 0
    MaxCalls = 0
    Partner = {p1}
    Certificate = {c1, c2}
    LimitAmounts = {10, 20}
    RequestAmounts = {20, 24}
SYMMETRY RequestSymmetry
INVARIANTS
    TypeOK
    CertificatesPaid
PROPERTIES
    FinalRequestStays
