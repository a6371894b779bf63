\* A user and a manager in one bonus chat, one application and its chat, two
\* requests at a time: repeated messages, one upload, changes of the status.
CONSTANTS
    User = {u1}
    Agent = {m1}
    System = system
    ClientId = {k1}
    File = {f1}
    Worker = {w1, w2}
    Singles = {"bonus"}
    Status = {"new", "paid", "rejected"}
    None = none
    MaxMessages = 3
    MaxApps = 1
SPECIFICATION Spec
SYMMETRY Symmetry
INVARIANTS
    TypeOK
    StoredOnce
    ToldOnce
    AttachmentsKept
