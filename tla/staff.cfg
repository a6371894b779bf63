\* From the empty table on: the deployment script, invitations, and two
\* requests at a time of the owner, an administrator and a manager about each
\* other.
SPECIFICATION Spec
CONSTANTS
    Agent = {owner, a, b}
    Owner = owner
    Admin = {a}
    Absent = Absent
    Nobody = Nobody
    Call = {k1, k2}
    Patched = {{"password"}, {"active"}}
    Granted = {FALSE}
    MaxRequests = 3
INVARIANTS
    TypeOK
PROPERTIES
    OwnerStands
    RevokedAtOnce
    NothingUndone
CHECK_DEADLOCK FALSE
