---------------------------- MODULE BonusSessions ----------------------------
(***************************************************************************)
(* The service calls of Bonus as overlapping database sessions.  A session *)
(* SELECTs a row once (identity map, READ COMMITTED, no locks), computes   *)
(* new values in Python, and writes them at a flush: an UPDATE of the      *)
(* changed columns of one row, by primary key, which waits for the lock of *)
(* the row and holds it until commit or rollback.  autoflush is off, so    *)
(* the flushes are the explicit ones.  One action is one statement.        *)
(*                                                                         *)
(* At the start every issued deal has a pending accrual for each user that *)
(* is due, and every certificate request is in progress.                   *)
(***************************************************************************)
EXTENDS Amounts, SequencesExt

CONSTANTS
    Session,     \* requests being served, and runs of the accrual job
    User,        \* user ids
    Deal,        \* deals of a client whose upline the users are
    Issued,      \* the deals issued at the start
    Certificate, \* certificate request ids
    Holder,      \* Holder[c]: the user who made a request
    Share,       \* amount of every accrual
    Price,       \* amount of every request, manual credit and manual debit
    Funds,       \* every user's balance at the start
    Ops          \* the calls that may be made

NoSession == "no session"

\* The calls of the services that write what is modelled here.
Operation ==
    [kind : {"job"}]
      \cup [kind : {"process", "credit", "debit"}, user : User]
      \cup [kind : {"issue", "withdraw"}, deal : Deal]
      \cup [kind : {"complete", "confirm", "cancel"}, request : Certificate]

ASSUME SessionsAssumption ==
    /\ User \subseteq Nat /\ IsFiniteSet(User)
    /\ IsFiniteSet(Session) /\ NoSession \notin Session \cup Certificate
    /\ Issued \subseteq Deal /\ IsFiniteSet(Deal)
    /\ Holder \in [Certificate -> User]
    /\ Share \in Nat /\ Price \in Nat \ {0} /\ Funds \in Nat
    /\ Ops \subseteq Operation

\* An accrual is known by its deal, its user and the session that added it.
Accrual == Deal \X User \X (Session \cup {NoSession})

Balance(u) == <<"users", u, "balance">>
Pending(u) == <<"users", u, "pending_balance">>
DealStatus(d) == <<"deals", d, "status">>
RequestStatus(c) == <<"certificate_requests", c, "status">>
FileKey(c) == <<"certificate_requests", c, "certificate_file_key">>
AccrualStatus(a) == <<"referral_accruals", a, "status">>

UserColumns(u) == {Balance(u), Pending(u)}
RequestColumns(c) == {RequestStatus(c), FileKey(c)}
Column == {DealStatus(d) : d \in Deal} \cup {AccrualStatus(a) : a \in Accrual}
            \cup (UNION {UserColumns(u) : u \in User})
            \cup (UNION {RequestColumns(c) : c \in Certificate})

RowOf(column) == <<column[1], column[2]>>
Row == {RowOf(column) : column \in Column}

VARIABLES
    db,      \* the committed value of every column
    sess,    \* what every session is doing
    lock,    \* the session that holds the lock of a row
    audit,   \* the audit_log rows about bonuses
    objects  \* the file keys in MinIO; a session's key is the session

vars == <<db, sess, lock, audit, objects>>

\* pc: where the call is; seen: columns read; rows: accruals selected; left:
\* users still to be read; set: values assigned; todo: rows still to be
\* updated; next: pc after the flush; note: audit rows added.
Idle == [pc |-> "idle", op |-> [kind |-> "none"], seen |-> <<>>, rows |-> {}, left |-> {},
         set |-> <<>>, todo |-> <<>>, next |-> "commit", note |-> {}]

Initially(column) ==
    CASE column[3] = "balance" -> Funds
      [] column[3] = "pending_balance" -> Share * Cardinality(Issued)
      [] column[3] = "certificate_file_key" -> NoSession
      [] column = RequestStatus(column[2]) -> "in_progress"
      [] column = DealStatus(column[2]) -> IF column[2] \in Issued THEN "policy_issued" ELSE "new"
      [] OTHER -> IF column[2][1] \in Issued /\ column[2][3] = NoSession
                  THEN "pending" ELSE "absent"

Init ==
    /\ db = [column \in Column |-> Initially(column)]
    /\ sess = [s \in Session |-> Idle]
    /\ lock = [row \in Row |-> NoSession]
    /\ audit = {}
    /\ objects = {}

-----------------------------------------------------------------------------
(* Statements *)

At(s, pc) == sess[s].pc = pc
Op(s) == sess[s].op
Doing(s, kinds) == Op(s).kind \in kinds

\* The session goes on with some fields of its state changed.
Become(s, new) ==
    /\ sess' = [sess EXCEPT ![s] = [f \in DOMAIN @ |-> IF f \in DOMAIN new THEN new[f] ELSE @[f]]]
    /\ UNCHANGED <<db, lock, audit, objects>>

Override(old, new) ==
    [x \in DOMAIN old \cup DOMAIN new |-> IF x \in DOMAIN new THEN new[x] ELSE old[x]]

\* SELECT: a row in the identity map stays as it was read first.
Reading(s, columns) == Override([c \in columns |-> db[c]], sess[s].seen)

\* No model declares a relationship(): a flush takes the tables in the order of
\* the names of their models, and the rows of one in the order of their ids.
UpdateOrder(columns) ==
    LET of(table) == {RowOf(c) : c \in {c \in columns : c[1] = table}}
    IN  SetToSeq(of("certificate_requests"))
          \o SetToSeq(of("deals"))
          \o SetToSortSeq(of("users"), LAMBDA row, other : row[2] < other[2])
          \o SetToSeq(of("referral_accruals"))

Flushing(s, new, next) ==
    [set |-> Override(sess[s].set, new), todo |-> UpdateOrder(DOMAIN new),
     pc |-> "flush", next |-> next]

Update(s) ==
    LET row == Head(sess[s].todo) IN
    /\ At(s, "flush")
    /\ sess[s].todo # <<>>
    /\ lock[row] \in {s, NoSession}
    /\ lock' = [lock EXCEPT ![row] = s]
    /\ sess' = [sess EXCEPT ![s].todo = Tail(@)]
    /\ UNCHANGED <<db, audit, objects>>

Flushed(s) ==
    /\ At(s, "flush")
    /\ sess[s].todo = <<>>
    /\ Become(s, [pc |-> sess[s].next])

Unlocked(s) == [row \in Row |-> IF lock[row] = s THEN NoSession ELSE lock[row]]

Commit(s) ==
    /\ At(s, "commit")
    /\ db' = Override(db, sess[s].set)
    /\ audit' = audit \cup sess[s].note
    /\ lock' = Unlocked(s)
    /\ sess' = [sess EXCEPT ![s] = [Idle EXCEPT !.pc = "done"]]
    /\ UNCHANGED objects

\* Mutants of Rollback: get_async_session commits in every case; the session
\* of a call that raised is not closed.
RollbackCommitting(s) ==
    /\ db' = Override(db, sess[s].set)
    /\ audit' = audit \cup sess[s].note
    /\ lock' = Unlocked(s)
    /\ sess' = [sess EXCEPT ![s] = [Idle EXCEPT !.pc = "done"]]
    /\ UNCHANGED objects

RollbackUnclosed(s) ==
    /\ sess' = [sess EXCEPT ![s] = [Idle EXCEPT !.pc = "done"]]
    /\ UNCHANGED <<db, lock, audit, objects>>

\* get_async_session closes the session of a call that raised, was cancelled
\* or died with its process: nothing of it is committed.
Rollback(s) ==
    /\ lock' = Unlocked(s)
    /\ sess' = [sess EXCEPT ![s] = [Idle EXCEPT !.pc = "done"]]
    /\ UNCHANGED <<db, audit, objects>>

-----------------------------------------------------------------------------
(* ReferralService.process_matured_accruals *)

\* Of the rows, those of a user.
RowsOf(u, rows) == {a \in rows : a[2] = u}
Sum(u, rows) == Share * Cardinality(RowsOf(u, rows))

\* The call works on the accruals it selects and on those it adds.
Select(s, pc, selected, added) ==
    LET rows == selected \cup added IN
    Become(s, [pc |-> pc, rows |-> rows, left |-> {a[2] : a \in rows},
               seen |-> Reading(s, {AccrualStatus(a) : a \in selected})])

\* The endpoint has read its user before it selects the accruals.
Authenticate(s) ==
    /\ At(s, "begin")
    /\ Doing(s, {"process"})
    /\ Become(s, [pc |-> "select", seen |-> Reading(s, UserColumns(Op(s).user))])

SelectMatured(s) ==
    LET payees == IF Doing(s, {"job"}) THEN User ELSE {Op(s).user}
        rows == {a \in Accrual : a[2] \in payees /\ db[AccrualStatus(a)] = "pending"}
    IN  /\ \/ At(s, "begin") /\ Doing(s, {"job"})
           \/ At(s, "select")
        /\ IF rows = {} THEN Rollback(s)
           ELSE Select(s, "users", rows, {})

\* The users come in no particular order, each flushed with its SMS; the
\* accruals follow at the commit.
MatureUser(s, u) ==
    LET seen == Reading(s, UserColumns(u))
        sum == Sum(u, sess[s].rows)
        left == sess[s].left \ {u}
        user == Override([c \in {Balance(u)} |-> seen[c] + sum],
                         [c \in {Pending(u)} |-> AtLeastZero(seen[c] - sum)])
        credited == [c \in {AccrualStatus(a) : a \in sess[s].rows} |-> "credited"]
    IN  /\ At(s, "users")
        /\ u \in sess[s].left
        /\ Become(s, Override([left |-> left],
                IF left = {} THEN Flushing(s, Override(user, credited), "commit")
                             ELSE Flushing(s, user, "users")))

-----------------------------------------------------------------------------
(* DealService.change_status *)

NewStatus(s) == IF Doing(s, {"issue"}) THEN "policy_issued" ELSE "rejected"

ReadDeal(s) ==
    LET seen == Reading(s, {DealStatus(Op(s).deal)}) IN
    /\ At(s, "begin")
    /\ Doing(s, {"issue", "withdraw"})
    /\ IF seen[DealStatus(Op(s).deal)] = NewStatus(s) THEN Rollback(s)
       ELSE Become(s, [pc |-> "rows", seen |-> seen])

\* Only a deal read as issued is withdrawn; another is just rejected.
Withdrawing(s) ==
    /\ Doing(s, {"withdraw"})
    /\ sess[s].seen[DealStatus(Op(s).deal)] = "policy_issued"

\* The pending accruals of a deal; the new ones a session adds.
PendingOf(d) == {a \in Accrual : a[1] = d /\ db[AccrualStatus(a)] = "pending"}
Added(s, d) == {<<d, u, s>> : u \in User}

\* Mutant of SelectRows: a withdrawal takes the accruals in any status.
SelectRowsSettled(s) ==
    LET d == Op(s).deal IN
    /\ At(s, "rows")
    /\ Select(s, "owners",
              IF Withdrawing(s)
              THEN {a \in Accrual : a[1] = d /\ db[AccrualStatus(a)] # "absent"} ELSE {},
              IF Doing(s, {"issue"}) THEN Added(s, d) ELSE {})

\* cancel_pending_for_deal selects, accrue_for_source adds rows of its own.
SelectRows(s) ==
    LET d == Op(s).deal IN
    /\ At(s, "rows")
    /\ Select(s, "owners",
              IF Withdrawing(s) THEN PendingOf(d) ELSE {},
              IF Doing(s, {"issue"}) THEN Added(s, d) ELSE {})

ReadOwner(s, u) ==
    /\ At(s, "owners")
    /\ u \in sess[s].left
    /\ Become(s, [left |-> sess[s].left \ {u}, seen |-> Reading(s, UserColumns(u))])

\* One flush for the users, the deal and the accruals.
FlushDeal(s) ==
    LET rows == sess[s].rows
        owners == {a[2] : a \in rows}
        issue == Doing(s, {"issue"})
        new(c) ==
            CASE c[1] = "users" ->
                   LET sum == Sum(c[2], rows) IN
                   IF issue THEN sess[s].seen[c] + sum ELSE AtLeastZero(sess[s].seen[c] - sum)
              [] c[1] = "deals" -> NewStatus(s)
              [] OTHER -> IF issue THEN "pending" ELSE "cancelled"
    IN  /\ At(s, "owners")
        /\ sess[s].left = {}
        /\ Become(s, Flushing(s,
              [c \in {Pending(u) : u \in owners} \cup {DealStatus(Op(s).deal)}
                       \cup {AccrualStatus(a) : a \in rows} |-> new(c)], "commit"))

-----------------------------------------------------------------------------
(* BonusService and CertificateService *)

Entry(s, u, change, request) == [by |-> s, user |-> u, change |-> change, request |-> request]

\* Mutant of AdjustBonus: a debit does not look at the balance.
AdjustUnchecked(s) ==
    LET u == Op(s).user
        seen == Reading(s, UserColumns(u))
        change == IF Doing(s, {"credit"}) THEN Price ELSE - Price
    IN  /\ At(s, "begin")
        /\ Doing(s, {"credit", "debit"})
        /\ Become(s, Override([note |-> {Entry(s, u, change, NoSession)}],
                Flushing(s, [c \in {Balance(u)} |-> seen[c] + change], "commit")))

\* credit, debit: the user is read, checked and flushed with the audit row.
AdjustBonus(s) ==
    LET u == Op(s).user
        seen == Reading(s, UserColumns(u))
        change == IF Doing(s, {"credit"}) THEN Price ELSE - Price
    IN  /\ At(s, "begin")
        /\ Doing(s, {"credit", "debit"})
        /\ IF seen[Balance(u)] + change < 0 THEN Rollback(s)
           ELSE Become(s, Override([note |-> {Entry(s, u, change, NoSession)}],
                    Flushing(s, [c \in {Balance(u)} |-> seen[c] + change], "commit")))

\* The statuses in which a call refuses a request.
Refused(s) ==
    CASE Doing(s, {"complete"}) -> {"completed", "cancelled"}
      [] Doing(s, {"confirm"}) -> {"confirming", "completed", "cancelled"}
      [] Doing(s, {"cancel"}) -> {"cancelled"}

ReadRequest(s) ==
    LET c == Op(s).request
        seen == Reading(s, RequestColumns(c))
    IN  /\ At(s, "begin")
        /\ Doing(s, {"complete", "confirm", "cancel"})
        /\ IF seen[RequestStatus(c)] \in Refused(s) THEN Rollback(s)
           ELSE Become(s, [pc |-> Op(s).kind, seen |-> seen])

\* complete debits first, without a commit of its own, ...
DebitHolder(s) ==
    LET c == Op(s).request
        u == Holder[c]
        seen == Reading(s, UserColumns(u))
    IN  /\ At(s, "complete")
        /\ IF seen[Balance(u)] < Price THEN Rollback(s)
           ELSE Become(s, Override([note |-> {Entry(s, u, - Price, c)}],
                    Flushing(s, [b \in {Balance(u)} |-> seen[b] - Price], "put")))

\* ... then uploads the file, ...
PutObject(s) ==
    /\ At(s, "put")
    /\ objects' = objects \cup {s}
    /\ sess' = [sess EXCEPT ![s].pc = "attach"]
    /\ UNCHANGED <<db, lock, audit>>

\* ... and then attaches it.
AttachFile(s) ==
    LET c == Op(s).request IN
    /\ At(s, "attach")
    /\ Become(s, Flushing(s, Override([x \in {RequestStatus(c)} |-> "completed"],
                                      [x \in {FileKey(c)} |-> s]), "commit"))

\* cancel, and change_status to confirming.
MoveRequest(s, new) ==
    Become(s, Flushing(s, [x \in {RequestStatus(Op(s).request)} |-> new], "commit"))

CancelRequest(s) == At(s, "cancel") /\ MoveRequest(s, "cancelled")

ConfirmRequest(s) == At(s, "confirm") /\ MoveRequest(s, "confirming")

-----------------------------------------------------------------------------
Begin(s, op) ==
    /\ At(s, "idle")
    /\ Become(s, [pc |-> "begin", op |-> op])

Proceed(s) ==
    \/ Update(s)
    \/ Flushed(s)
    \/ Commit(s)
    \/ Authenticate(s)
    \/ SelectMatured(s)
    \/ \E u \in User : MatureUser(s, u) \/ ReadOwner(s, u)
    \/ ReadDeal(s)
    \/ SelectRows(s)
    \/ FlushDeal(s)
    \/ AdjustBonus(s)
    \/ ReadRequest(s)
    \/ DebitHolder(s)
    \/ PutObject(s)
    \/ AttachFile(s)
    \/ CancelRequest(s)
    \/ ConfirmRequest(s)

Running(s) == sess[s].pc \notin {"idle", "done"}

Crash(s) == Running(s) /\ Rollback(s)

\* The session whose lock s waits for.
WaitsFor(s) ==
    IF At(s, "flush") /\ sess[s].todo # <<>> /\ lock[Head(sess[s].todo)] # s
    THEN lock[Head(sess[s].todo)] ELSE NoSession

\* PostgreSQL breaks a cycle of waiting sessions by failing one of them.
Deadlocked(s) ==
    \E cycle \in SUBSET Session :
        s \in cycle /\ {WaitsFor(t) : t \in cycle} = cycle

BreakDeadlock(s) == Deadlocked(s) /\ Rollback(s)

Next ==
    \E s \in Session :
        \/ \E op \in Ops : Begin(s, op)
        \/ Proceed(s)
        \/ Crash(s)
        \/ BreakDeadlock(s)

Spec == Init /\ [][Next]_vars

\* The event loop runs every coroutine on, MinIO answers or fails, and
\* PostgreSQL looks for deadlocks.
FairSpec == Spec /\ \A s \in Session : WF_vars(Proceed(s)) /\ WF_vars(BreakDeadlock(s))

-----------------------------------------------------------------------------
\* Whatever the calls that overlap, a stored balance is a number of cents: a
\* debit writes the difference it has checked, even over a value that has
\* changed since.
TypeOK ==
    /\ \A u \in User : db[Balance(u)] \in Nat /\ db[Pending(u)] \in Nat
    /\ \A d \in Deal : db[DealStatus(d)] \in {"new", "policy_issued", "rejected"}
    /\ \A c \in Certificate :
        /\ db[RequestStatus(c)] \in {"confirming", "in_progress", "completed", "cancelled"}
        /\ db[FileKey(c)] \in Session \cup {NoSession}
    /\ \A a \in Accrual :
        db[AccrualStatus(a)] \in {"absent", "pending", "credited", "cancelled"}
    /\ lock \in [Row -> Session \cup {NoSession}]

\* A certificate_file_key always names an object that was stored.
FileIsStored == \A c \in Certificate : db[FileKey(c)] \in objects \cup {NoSession}

\* Bonuses taken for a certificate mean that its file is there, wherever the
\* call that took them stopped, and whatever ran beside it.
PaidHasFile == \A e \in audit : e.request \in Certificate => db[FileKey(e.request)] # NoSession

\* Whoever paid for a certificate can have it: the request names a file, and
\* that file was stored, although upload, debit and commit are steps of their
\* own.
PaidFileStored == FileIsStored /\ PaidHasFile

Settled == {"credited", "cancelled"}

\* s has the accrual among its rows as one that was pending when it was read.
ReadPending(s, a) ==
    /\ AccrualStatus(a) \in DOMAIN sess[s].seen
    /\ sess[s].seen[AccrualStatus(a)] = "pending"

\* Overlapping calls may overwrite each other's outcome of an accrual, credited
\* with cancelled or the reverse, and that is all they can do to one that is
\* settled: it is never pending again, and a call that finds it settled when
\* it selects leaves it as it is.
SettledForGood ==
    [][\A a \in Accrual :
         /\ db[AccrualStatus(a)] \in Settled
         /\ db'[AccrualStatus(a)] # db[AccrualStatus(a)]
         => /\ db'[AccrualStatus(a)] \in Settled
            /\ \E s \in Session : At(s, "commit") /\ ~ At(s, "commit")' /\ ReadPending(s, a)]_vars

\* Every call comes to an end, with its locks released, although calls crash
\* while others wait for them and wait for each other.
CallsEnd ==
    \A s \in Session :
        Running(s) ~> At(s, "done") /\ \A row \in Row : lock[row] # s

-----------------------------------------------------------------------------
(* What the repository says and overlapping calls do not keep. *)

Credited(u) == RowsOf(u, {a \in Accrual : db[AccrualStatus(a)] = "credited"})
Entries(u) == {e \in audit : e.user = u}

\* "После наступления available_at сервис переносит сумму в users.balance и
\* переключает статус на credited" (app/models/users/referral.py:18-19)
CreditedOnce ==
    \A u \in User :
        db[Balance(u)] = Funds + Share * Cardinality(Credited(u))
                               + MapThenSumSet(LAMBDA e : e.change, Entries(u))

\* "certificate is already finalized" (app/services/certificate_service.py:228)
FinalizedOnce ==
    \A c \in Certificate : Cardinality({e \in audit : e.request = c}) <= 1
=============================================================================
