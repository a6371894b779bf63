-------------------------- MODULE BonusSessionsProofs --------------------------
(***************************************************************************)
(* What overlapping sessions cannot spoil: for any number of users, deals, *)
(* requests and sessions, balances stay numbers of cents, a certificate is *)
(* paid for only with its file stored, and an accrual once settled stays   *)
(* so, changed at most by who had selected it before.                      *)
(*                                                                         *)
(* None of it is inductive alone.  What a session will write is known when *)
(* it reads, statements earlier: SessOK says of every session what its     *)
(* reads and pending writes hold, whatever has been committed since.  That *)
(* no session makes an accrual pending again rests on sessions adding rows *)
(* of their own only, which nobody else can have seen; that it overwrites  *)
(* only what it selected as pending, on Reads.                             *)
(***************************************************************************)
EXTENDS BonusSessions, FiniteSetTheorems, TLAPS

Field == {"pc", "op", "seen", "rows", "left", "set", "todo", "next", "note"}

\* The values a column may have.
Value(x, v) ==
    /\ \A u \in User : x = Balance(u) \/ x = Pending(u) => v \in Nat
    /\ \A d \in Deal : x = DealStatus(d) => v \in {"new", "policy_issued", "rejected"}
    /\ \A c \in Certificate :
         /\ x = RequestStatus(c) => v \in {"confirming", "in_progress", "completed", "cancelled"}
         /\ x = FileKey(c) => v \in objects \cup {NoSession}
    /\ \A a \in Accrual :
         x = AccrualStatus(a) => v \in {"absent", "pending", "credited", "cancelled"}

Fits(f) == \A x \in DOMAIN f : Value(x, f[x])

There(a) == db[AccrualStatus(a)] # "absent"

\* What s may assign: to rows that are there or its own, and its own file.
Assignable(s, x, v) ==
    /\ Value(x, v)
    /\ \A a \in Accrual : x = AccrualStatus(a) =>
         /\ a[3] = s \/ There(a)
         /\ v # "absent" /\ (v = "pending" => a[3] = s)
    /\ \A c \in Certificate : x = FileKey(c) => v = s

Changes(s, f) == \A x \in DOMAIN f : Assignable(s, x, f[x])

Putting(x) == x.pc = "put" \/ x.pc = "attach" \/ (x.pc = "flush" /\ x.next = "put")

\* Where a call can be.
Stage(x) ==
    /\ x.pc \notin {"idle", "done"} => x.op \in Operation
    /\ x.pc = "idle" => x.note = {}
    /\ x.pc \in {"complete", "confirm", "cancel"} => x.op.kind = x.pc
    /\ Putting(x) => x.op.kind = "complete"
    /\ x.pc = "select" => x.op.kind = "process"
    /\ x.pc \in {"rows", "owners"} => x.op.kind \in {"issue", "withdraw"}
    /\ x.pc = "flush" => x.next \in {"commit", "users", "put"}

\* The accruals that s works on.
Selected(s, x) ==
    /\ x.rows \subseteq Accrual /\ x.left \subseteq User
    /\ \A a \in x.rows : a[3] = s \/ There(a)
    /\ x.pc = "owners" => \A a \in x.rows :
         /\ a[2] \in x.left \/ Pending(a[2]) \in DOMAIN x.seen
         /\ x.op.kind = "issue" => a[3] = s

\* What s has taken for a request, it takes with the file.
Noted(s, x) ==
    \A e \in x.note : e.request \in Certificate =>
        /\ x.op.kind = "complete" /\ e.request = x.op.request
        /\ Putting(x) \/ FileKey(e.request) \in DOMAIN x.set

SessOK(s, x) ==
    /\ DOMAIN x = Field
    /\ Stage(x) /\ Fits(x.seen) /\ Changes(s, x.set) /\ Selected(s, x) /\ Noted(s, x)
    /\ x.pc = "attach" => s \in objects
    /\ x.pc # "done" => \A a \in Accrual : a[3] = s => ~ There(a)

DbOK ==
    /\ Column \subseteq DOMAIN db /\ Fits(db)
    /\ objects \subseteq Session
    /\ lock \in [Row -> Session \cup {NoSession}]
    /\ PaidHasFile

SessionsInv ==
    /\ DbOK
    /\ DOMAIN sess = Session
    /\ \A s \in Session : SessOK(s, sess[s])

-----------------------------------------------------------------------------
(* Columns. *)

\* Every column of every row is a column of its own.
LEMMA ColumnsApart ==
  /\ \A u, v : Balance(u) = Balance(v) => u = v
  /\ \A u, v : Pending(u) = Pending(v) => u = v
  /\ \A u, v : DealStatus(u) = DealStatus(v) => u = v
  /\ \A u, v : RequestStatus(u) = RequestStatus(v) => u = v
  /\ \A u, v : FileKey(u) = FileKey(v) => u = v
  /\ \A u, v : AccrualStatus(u) = AccrualStatus(v) => u = v
  /\ \A u, v : Balance(u) # Pending(v) /\ Balance(u) # DealStatus(v)
               /\ Balance(u) # RequestStatus(v) /\ Balance(u) # FileKey(v)
               /\ Balance(u) # AccrualStatus(v)
  /\ \A u, v : Pending(u) # DealStatus(v) /\ Pending(u) # RequestStatus(v)
               /\ Pending(u) # FileKey(v) /\ Pending(u) # AccrualStatus(v)
  /\ \A u, v : DealStatus(u) # RequestStatus(v) /\ DealStatus(u) # FileKey(v)
               /\ DealStatus(u) # AccrualStatus(v)
  /\ \A u, v : RequestStatus(u) # FileKey(v) /\ RequestStatus(u) # AccrualStatus(v)
  /\ \A u, v : FileKey(u) # AccrualStatus(v)
  BY DEF Balance, Pending, DealStatus, RequestStatus, FileKey, AccrualStatus

\* The columns named in the model are columns of its rows.
LEMMA ColumnsOfRows ==
  /\ \A u \in User : Balance(u) \in Column /\ Pending(u) \in Column
  /\ \A d \in Deal : DealStatus(d) \in Column
  /\ \A c \in Certificate : RequestStatus(c) \in Column /\ FileKey(c) \in Column
  /\ \A a \in Accrual : AccrualStatus(a) \in Column
  <1>1. \A u \in User : Balance(u) \in Column /\ Pending(u) \in Column
    BY DEF Column, UserColumns
  <1>2. \A d \in Deal : DealStatus(d) \in Column BY DEF Column
  <1>3. \A c \in Certificate : RequestStatus(c) \in Column /\ FileKey(c) \in Column
    BY DEF Column, RequestColumns
  <1>4. \A a \in Accrual : AccrualStatus(a) \in Column BY DEF Column
  <1> QED BY <1>1, <1>2, <1>3, <1>4

\* Override keeps what both functions keep.
LEMMA OverrideAt ==
  ASSUME NEW f, NEW g
  PROVE  /\ DOMAIN Override(f, g) = DOMAIN f \cup DOMAIN g
         /\ \A x \in DOMAIN f \cup DOMAIN g :
              Override(f, g)[x] = IF x \in DOMAIN g THEN g[x] ELSE f[x]
  BY DEF Override

\* Values that fit their columns still do when some are replaced by others that fit.
LEMMA FitsOverride ==
  ASSUME NEW f, NEW g, Fits(f), Fits(g)
  PROVE  Fits(Override(f, g))
  <1> DEFINE h == Override(f, g)
  <1>1. /\ DOMAIN h = DOMAIN f \cup DOMAIN g
        /\ \A x \in DOMAIN f \cup DOMAIN g : h[x] = IF x \in DOMAIN g THEN g[x] ELSE f[x]
    BY OverrideAt
  <1> HIDE DEF h
  <1>2. Fits(h) BY <1>1 DEF Fits
  <1> QED BY <1>2 DEF h

\* What a session may write, and then something more it may write.
LEMMA ChangesOverride ==
  ASSUME NEW s, NEW f, NEW g, Changes(s, f), Changes(s, g)
  PROVE  Changes(s, Override(f, g))
  <1> DEFINE h == Override(f, g)
  <1>1. /\ DOMAIN h = DOMAIN f \cup DOMAIN g
        /\ \A x \in DOMAIN f \cup DOMAIN g : h[x] = IF x \in DOMAIN g THEN g[x] ELSE f[x]
    BY OverrideAt
  <1> HIDE DEF h
  <1>2. Changes(s, h) BY <1>1 DEF Changes
  <1> QED BY <1>2 DEF h

\* What a SELECT leaves in the identity map.
LEMMA ReadingFits ==
  ASSUME SessionsInv, NEW s \in Session, NEW columns \in SUBSET Column
  PROVE  /\ Fits(Reading(s, columns))
         /\ columns \cup DOMAIN sess[s].seen \subseteq DOMAIN Reading(s, columns)
  <1> DEFINE f == [c \in columns |-> db[c]]
  <1>1. Fits(f)
    <2>1. columns \subseteq DOMAIN db /\ Fits(db) BY DEF SessionsInv, DbOK
    <2> QED BY <2>1 DEF Fits
  <1>2. Fits(sess[s].seen) BY DEF SessionsInv, SessOK
  <1> HIDE DEF f
  <1> DEFINE h == Override(f, sess[s].seen)
  <1>3. Reading(s, columns) = h BY DEF Reading, f
  <1>4. DOMAIN f = columns BY DEF f
  <1>5. DOMAIN h = DOMAIN f \cup DOMAIN sess[s].seen BY OverrideAt
  <1>6. Fits(h) BY <1>1, <1>2, FitsOverride
  <1> HIDE DEF h
  <1> QED BY <1>3, <1>4, <1>5, <1>6

\* Sums of accruals are numbers, for there are finitely many.
LEMMA SumIsNat ==
  ASSUME NEW rows \in SUBSET Accrual, NEW u PROVE Sum(u, rows) \in Nat
  <1> DEFINE Owners == Session \cup {NoSession}
             Nested == Deal \X (User \X Owners)
             flat == [p \in Nested |-> <<p[1], p[2][1], p[2][2]>>]
  <1>1. IsFiniteSet(Accrual)
    <2>1. IsFiniteSet(Owners) BY SessionsAssumption, FS_AddElement
    <2>2. IsFiniteSet(Nested) BY <2>1, SessionsAssumption, FS_Product
    <2>3. flat \in [Nested -> Accrual] BY DEF Accrual
    <2>4. ASSUME NEW a \in Accrual PROVE \E p \in Nested : flat[p] = a
      <3>1. PICK d \in Deal, v \in User, s \in Owners : a = <<d, v, s>> BY DEF Accrual
      <3>2. <<d, <<v, s>>>> \in Nested BY <3>1
      <3>3. flat[<<d, <<v, s>>>>] = a BY <3>1, <3>2
      <3> QED BY <3>2, <3>3
    <2> HIDE DEF flat, Nested
    <2>5. flat \in Surjection(Nested, Accrual) BY <2>3, <2>4 DEF Surjection
    <2> QED BY <2>2, <2>5, FS_Surjection
  <1>2. RowsOf(u, rows) \subseteq Accrual BY DEF RowsOf
  <1>3. Cardinality(RowsOf(u, rows)) \in Nat BY <1>1, <1>2, FS_Subset, FS_CardinalityType
  <1> QED BY <1>3, SessionsAssumption DEF Sum

-----------------------------------------------------------------------------
(* What a session may become. *)

\* What s becomes when it goes on with new.
After(s, new) == [f \in Field |-> IF f \in DOMAIN new THEN new[f] ELSE sess[s][f]]

Done == [Idle EXCEPT !.pc = "done"]

\* A session is as it should be whatever the others commit or store.
LEMMA SessKeeps ==
  ASSUME NEW t, NEW x, SessOK(t, x), objects \subseteq objects',
         \A a \in Accrual : There(a) => There(a)',
         x.pc # "done" => \A a \in Accrual : a[3] = t => ~ There(a)'
  PROVE  SessOK(t, x)'
  <1>1. \A c, v : Value(c, v) => Value(c, v)' BY DEF Value
  <1>2. Fits(x.seen)' BY <1>1 DEF SessOK, Fits
  <1>3. \A c, v : Assignable(t, c, v) => Assignable(t, c, v)' BY <1>1 DEF Assignable
  <1>4. Changes(t, x.set)' BY <1>3 DEF SessOK, Changes
  <1>5. Selected(t, x)' BY DEF SessOK, Selected
  <1>6. Noted(t, x)' BY DEF SessOK, Noted, Putting
  <1>7. Stage(x)' BY DEF SessOK, Stage, Putting
  <1> QED BY <1>2, <1>4, <1>5, <1>6, <1>7 DEF SessOK

\* One session moves; the rows that come are its own.
LEMMA OneSession ==
  ASSUME SessionsInv, NEW s \in Session, NEW x, sess' = [sess EXCEPT ![s] = x],
         DbOK', objects \subseteq objects',
         \A a \in Accrual : There(a) => There(a)',
         \A a \in Accrual : There(a)' => There(a) \/ a[3] = s,
         SessOK(s, x)'
  PROVE  SessionsInv'
  <1>1. ASSUME NEW t \in Session PROVE SessOK(t, sess[t])'
    <2>1. PICK y : y = sess'[t] OBVIOUS
    <2>2. ASSUME t = s PROVE SessOK(t, y)' BY <2>1, <2>2 DEF SessionsInv
    <2>3. ASSUME t # s PROVE SessOK(t, y)'
      <3>1. y = sess[t] /\ SessOK(t, sess[t]) BY <2>1, <2>3 DEF SessionsInv
      <3>2. SessOK(t, y) BY <3>1
      <3>3. y.pc # "done" => \A a \in Accrual : a[3] = t => ~ There(a)'
        BY <2>3, <3>2 DEF SessOK
      <3> QED BY <3>2, <3>3, SessKeeps
    <2>4. SessOK(t, y)' BY <2>2, <2>3
    <2> QED BY <2>1, <2>4
       DEF SessOK, Stage, Putting, Fits, Value, Changes, Assignable, Selected, Noted, There
  <1>2. DOMAIN sess' = Session BY DEF SessionsInv
  <1> QED BY <1>1, <1>2 DEF SessionsInv

\* The same, of a session that has written nothing yet.
LEMMA SessionMoves ==
  ASSUME SessionsInv, NEW s \in Session, NEW x, sess' = [sess EXCEPT ![s] = x],
         UNCHANGED <<db, audit>>, objects \subseteq objects', objects' \subseteq Session,
         lock' \in [Row -> Session \cup {NoSession}], SessOK(s, x)
  PROVE  SessionsInv'
  <1>1. \A a \in Accrual : There(a)' <=> There(a) BY DEF There
  <1>2. DbOK'
    <2>1. \A c, v : Value(c, v) => Value(c, v)' BY DEF Value
    <2>2. Fits(db)' BY <2>1 DEF SessionsInv, DbOK, Fits
    <2> QED BY <2>2 DEF SessionsInv, DbOK, PaidHasFile
  <1>3. x.pc # "done" => \A a \in Accrual : a[3] = s => ~ There(a)' BY <1>1 DEF SessOK
  <1>4. SessOK(s, x)' BY <1>1, <1>3, SessKeeps
  <1> QED BY <1>1, <1>2, <1>4, OneSession

\* A session that is done has nothing to keep.
LEMMA DoneOK == ASSUME NEW s PROVE SessOK(s, Done) /\ Done.pc = "done"
  <1>1. /\ DOMAIN Done = Field /\ Done.pc = "done" /\ Done.seen = <<>> /\ Done.set = <<>>
        /\ Done.rows = {} /\ Done.left = {} /\ Done.note = {}
    BY DEF Done, Idle, Field
  <1>2. DOMAIN <<>> = {} OBVIOUS
  <1> HIDE DEF Done
  <1> QED BY <1>1, <1>2 DEF SessOK, Stage, Putting, Fits, Changes, Selected, Noted

\* The locks after a session lets go of its own.
LEMMA UnlockedType ==
  ASSUME SessionsInv, NEW s PROVE Unlocked(s) \in [Row -> Session \cup {NoSession}]
  BY DEF SessionsInv, DbOK, Unlocked

\* A rollback drops what the session would have written.
LEMMA RollbackStays ==
  ASSUME SessionsInv, NEW s \in Session, Rollback(s) PROVE SessionsInv'
  <1>1. objects \subseteq Session BY DEF SessionsInv, DbOK
  <1> QED BY <1>1, SessionMoves, DoneOK, UnlockedType DEF Rollback, Done

\* The fields of a session after some are replaced.
LEMMA AfterFields ==
  ASSUME NEW s, NEW new
  PROVE  /\ DOMAIN After(s, new) = Field
         /\ \A f \in Field : After(s, new)[f] = IF f \in DOMAIN new THEN new[f] ELSE sess[s][f]
  BY DEF After

\* A step that changes the session alone.
LEMMA BecomeStays ==
  ASSUME SessionsInv, NEW s \in Session, NEW new, Become(s, new), SessOK(s, After(s, new))
  PROVE  SessionsInv'
  <1>1. sess' = [sess EXCEPT ![s] = After(s, new)]
    BY DEF Become, After, SessionsInv, SessOK
  <1>2. objects \subseteq Session /\ lock \in [Row -> Session \cup {NoSession}]
    BY DEF SessionsInv, DbOK
  <1> QED BY <1>1, <1>2, SessionMoves DEF Become

\* A session that goes to a flush of f.
LEMMA FlushingStays ==
  ASSUME SessionsInv, NEW s \in Session, sess[s].pc \notin {"idle", "done"},
         NEW f, Changes(s, f), NEW next \in {"commit", "users", "put"},
         next = "put" => Op(s).kind = "complete",
         NEW new, Become(s, new), DOMAIN new \cap {"op", "rows", "seen"} = {},
         {"pc", "set", "next"} \subseteq DOMAIN new,
         new.pc = "flush", new.next = next, new.set = Override(sess[s].set, f),
         "left" \in DOMAIN new => new.left \subseteq User,
         \A e \in IF "note" \in DOMAIN new THEN new.note ELSE sess[s].note :
           e.request \in Certificate =>
             /\ Op(s).kind = "complete" /\ e.request = Op(s).request
             /\ next = "put" \/ FileKey(e.request) \in DOMAIN sess[s].set \cup DOMAIN f
  PROVE  SessionsInv'
  <1> DEFINE x == After(s, new)
  <1>1. /\ DOMAIN x = Field /\ x.pc = "flush" /\ x.next = next
        /\ x.set = Override(sess[s].set, f) /\ x.op = Op(s)
        /\ x.rows = sess[s].rows /\ x.seen = sess[s].seen
        /\ x.left = IF "left" \in DOMAIN new THEN new.left ELSE sess[s].left
        /\ x.note = IF "note" \in DOMAIN new THEN new.note ELSE sess[s].note
    BY AfterFields DEF Field, Op
  <1>2. SessOK(s, sess[s]) BY DEF SessionsInv
  <1>3. Changes(s, x.set) BY <1>1, <1>2, ChangesOverride DEF SessOK
  <1> HIDE DEF x
  <1>4. DOMAIN x.set = DOMAIN sess[s].set \cup DOMAIN f
    <2> DEFINE h == Override(sess[s].set, f)
    <2>1. DOMAIN h = DOMAIN sess[s].set \cup DOMAIN f BY OverrideAt
    <2> HIDE DEF h
    <2> QED BY <1>1, <2>1 DEF h
  <1>5. Stage(x) /\ (Putting(x) <=> next = "put") BY <1>1, <1>2 DEF SessOK, Stage, Putting, Op
  <1>6. Selected(s, x) BY <1>1, <1>2 DEF SessOK, Selected
  <1>7. Noted(s, x) BY <1>1, <1>4, <1>5 DEF Noted
  <1>8. SessOK(s, x) BY <1>1, <1>2, <1>3, <1>5, <1>6, <1>7 DEF SessOK
  <1> QED BY <1>8, BecomeStays DEF x

-----------------------------------------------------------------------------
(* One lemma per statement. *)

\* A request begins a session that has read nothing.
LEMMA BeginStays ==
  ASSUME SessionsInv, NEW s \in Session, NEW op \in Ops, Begin(s, op) PROVE SessionsInv'
  <1> DEFINE new == [pc |-> "begin", op |-> op]
             x == After(s, new)
  <1>1. Become(s, new) /\ sess[s].pc = "idle" BY DEF Begin, At
  <1>2. SessOK(s, sess[s]) /\ op \in Operation BY SessionsAssumption DEF SessionsInv
  <1>3. /\ DOMAIN x = Field /\ x.pc = "begin" /\ x.op = op /\ x.rows = sess[s].rows
        /\ x.left = sess[s].left /\ x.seen = sess[s].seen /\ x.set = sess[s].set
        /\ x.note = sess[s].note
    BY AfterFields DEF Field
  <1> HIDE DEF x
  <1>4. SessOK(s, x)
    BY <1>1, <1>2, <1>3 DEF SessOK, Stage, Selected, Noted, Putting
  <1> QED BY <1>1, <1>4, BecomeStays DEF x

\* An UPDATE takes the lock of its row.
LEMMA UpdateStays ==
  ASSUME SessionsInv, NEW s \in Session, Update(s) PROVE SessionsInv'
  <1> DEFINE x == [sess[s] EXCEPT !.todo = Tail(sess[s].todo)]
  <1>1. /\ sess' = [sess EXCEPT ![s] = x] /\ UNCHANGED <<db, audit, objects>>
        /\ lock' = [lock EXCEPT ![Head(sess[s].todo)] = s]
    BY DEF Update
  <1>2. SessOK(s, sess[s]) /\ objects \subseteq Session
        /\ lock' \in [Row -> Session \cup {NoSession}]
    BY <1>1 DEF SessionsInv, DbOK
  <1>3. /\ DOMAIN x = Field /\ x.pc = sess[s].pc /\ x.op = sess[s].op
        /\ x.next = sess[s].next /\ x.rows = sess[s].rows
        /\ x.left = sess[s].left /\ x.seen = sess[s].seen /\ x.set = sess[s].set
        /\ x.note = sess[s].note
    BY <1>2 DEF SessOK, Field
  <1> HIDE DEF x
  <1>4. SessOK(s, x) BY <1>2, <1>3 DEF SessOK, Stage, Selected, Noted, Putting
  <1> QED BY <1>1, <1>2, <1>4, SessionMoves

\* A flush that has written everything goes on to what comes after.
LEMMA FlushedStays ==
  ASSUME SessionsInv, NEW s \in Session, Flushed(s) PROVE SessionsInv'
  <1> DEFINE new == [pc |-> sess[s].next]
             x == After(s, new)
  <1>1. Become(s, new) /\ sess[s].pc = "flush" BY DEF Flushed, At
  <1>2. SessOK(s, sess[s]) BY DEF SessionsInv
  <1>3. /\ DOMAIN x = Field /\ x.pc = sess[s].next /\ x.op = sess[s].op
        /\ x.rows = sess[s].rows /\ x.left = sess[s].left /\ x.seen = sess[s].seen
        /\ x.set = sess[s].set /\ x.note = sess[s].note
    BY AfterFields DEF Field
  <1> HIDE DEF x
  <1>4. SessOK(s, x)
    BY <1>1, <1>2, <1>3 DEF SessOK, Stage, Selected, Noted, Putting
  <1> QED BY <1>1, <1>4, BecomeStays DEF x

\* A session that reads more, and goes on to pc.
LEMMA ReadingStays ==
  ASSUME SessionsInv, NEW s \in Session, sess[s].pc \notin {"idle", "done", "flush"},
         ~ Putting(sess[s]),
         NEW pc, pc \notin {"idle", "done", "flush", "put", "attach", "owners"},
         NEW columns \in SUBSET Column,
         pc \in {"complete", "confirm", "cancel"} => Op(s).kind = pc,
         pc = "select" => Op(s).kind = "process",
         pc = "rows" => Op(s).kind \in {"issue", "withdraw"},
         Become(s, [pc |-> pc, seen |-> Reading(s, columns)])
  PROVE  SessionsInv'
  <1> DEFINE new == [pc |-> pc, seen |-> Reading(s, columns)]
             x == After(s, new)
  <1>1. SessOK(s, sess[s]) BY DEF SessionsInv
  <1>2. /\ DOMAIN x = Field /\ x.pc = pc /\ x.op = Op(s)
        /\ x.rows = sess[s].rows /\ x.left = sess[s].left /\ x.seen = Reading(s, columns)
        /\ x.set = sess[s].set /\ x.note = sess[s].note
    BY AfterFields DEF Field, Op
  <1>3. Fits(Reading(s, columns)) BY ReadingFits
  <1> HIDE DEF x
  <1>4. SessOK(s, x)
    BY <1>1, <1>2, <1>3 DEF SessOK, Stage, Selected, Noted, Putting, Op
  <1> QED BY <1>4, BecomeStays DEF x

\* The columns of a user are read and written.
LEMMA UserColumnsOf == \A u \in User : UserColumns(u) \subseteq Column
  BY ColumnsOfRows DEF UserColumns

\* The account of the caller is read first.
LEMMA AuthenticateStays ==
  ASSUME SessionsInv, NEW s \in Session, Authenticate(s) PROVE SessionsInv'
  <1>1. /\ sess[s].pc = "begin" /\ Op(s).kind = "process"
        /\ Become(s, [pc |-> "select", seen |-> Reading(s, UserColumns(Op(s).user))])
    BY DEF Authenticate, At, Doing
  <1>2. Op(s) \in Operation BY <1>1 DEF SessionsInv, SessOK, Stage, Op
  <1>3. Op(s).user \in User BY <1>1, <1>2 DEF Operation
  <1> QED BY <1>1, <1>3, UserColumnsOf, ReadingStays DEF Putting

\* The deal is read, and its status held against the new one.
LEMMA ReadDealStays ==
  ASSUME SessionsInv, NEW s \in Session, ReadDeal(s) PROVE SessionsInv'
  <1>1. /\ sess[s].pc = "begin" /\ Op(s).kind \in {"issue", "withdraw"}
        /\ \/ Rollback(s)
           \/ Become(s, [pc |-> "rows", seen |-> Reading(s, {DealStatus(Op(s).deal)})])
    BY DEF ReadDeal, At, Doing
  <1>2. Op(s) \in Operation BY <1>1 DEF SessionsInv, SessOK, Stage, Op
  <1>3. {DealStatus(Op(s).deal)} \subseteq Column BY <1>1, <1>2, ColumnsOfRows DEF Operation
  <1> QED BY <1>1, <1>3, RollbackStays, ReadingStays DEF Putting

\* The request for a certificate is read, and its status held against the call.
LEMMA ReadRequestStays ==
  ASSUME SessionsInv, NEW s \in Session, ReadRequest(s) PROVE SessionsInv'
  <1>1. /\ sess[s].pc = "begin" /\ Op(s).kind \in {"complete", "confirm", "cancel"}
        /\ \/ Rollback(s)
           \/ Become(s, [pc |-> Op(s).kind, seen |-> Reading(s, RequestColumns(Op(s).request))])
    BY DEF ReadRequest, At, Doing
  <1>2. Op(s) \in Operation BY <1>1 DEF SessionsInv, SessOK, Stage, Op
  <1>3. Op(s).request \in Certificate BY <1>1, <1>2 DEF Operation
  <1>4. RequestColumns(Op(s).request) \subseteq Column
    BY <1>3, ColumnsOfRows DEF RequestColumns
  <1> QED BY <1>1, <1>4, RollbackStays, ReadingStays DEF Putting

\* A session that selects accruals that are there, or adds its own.
LEMMA SelectingStays ==
  ASSUME SessionsInv, NEW s \in Session, sess[s].pc \notin {"idle", "done", "flush"},
         ~ Putting(sess[s]), NEW pc \in {"users", "owners"},
         pc = "owners" => Op(s).kind \in {"issue", "withdraw"},
         NEW selected \in SUBSET Accrual, \A a \in selected : There(a),
         NEW added \in SUBSET Accrual, \A a \in added : a[3] = s,
         pc = "owners" /\ Op(s).kind = "issue" => selected = {},
         Select(s, pc, selected, added)
  PROVE  SessionsInv'
  <1> DEFINE rows == selected \cup added
             columns == {AccrualStatus(a) : a \in selected}
             new == [pc |-> pc, rows |-> rows, left |-> {a[2] : a \in rows},
                     seen |-> Reading(s, columns)]
             x == After(s, new)
  <1>1. SessOK(s, sess[s]) /\ Become(s, new) BY DEF SessionsInv, Select
  <1> HIDE DEF columns, rows
  <1>2. /\ DOMAIN x = Field /\ x.pc = pc /\ x.op = Op(s)
        /\ x.rows = rows /\ x.left = {a[2] : a \in rows} /\ x.seen = Reading(s, columns)
        /\ x.set = sess[s].set /\ x.note = sess[s].note
    BY AfterFields DEF Field, Op
  <1>3. x.left \subseteq User BY <1>2 DEF Accrual, rows
  <1>4. Fits(Reading(s, columns))
    <2>1. columns \in SUBSET Column BY ColumnsOfRows DEF columns
    <2> QED BY <2>1, ReadingFits
  <1> HIDE DEF x
  <1>5. Selected(s, x) BY <1>2, <1>3 DEF Selected, rows
  <1>6. SessOK(s, x)
    BY <1>1, <1>2, <1>4, <1>5 DEF SessOK, Stage, Noted, Putting, Op
  <1> QED BY <1>1, <1>6, BecomeStays DEF x

\* The nightly job selects the accruals that are due.
LEMMA SelectMaturedStays ==
  ASSUME SessionsInv, NEW s \in Session, SelectMatured(s) PROVE SessionsInv'
  <1> DEFINE payees == IF Doing(s, {"job"}) THEN User ELSE {Op(s).user}
             rows == {a \in Accrual : a[2] \in payees /\ db[AccrualStatus(a)] = "pending"}
  <1>1. /\ sess[s].pc \in {"begin", "select"}
        /\ Rollback(s) \/ Select(s, "users", rows, {})
    BY DEF SelectMatured, At
  <1>2. rows \in SUBSET Accrual /\ \A a \in rows : There(a) BY DEF There
  <1> HIDE DEF rows
  <1> QED BY <1>1, <1>2, RollbackStays, SelectingStays DEF Putting

\* The rows a change of a deal concerns: pending ones that are there, or new ones.
LEMMA DealRows ==
  ASSUME SessionsInv, NEW s \in Session, SelectRows(s)
  PROVE  \E selected, added \in SUBSET Accrual :
           /\ sess[s].pc = "rows" /\ Op(s).kind \in {"issue", "withdraw"}
           /\ Select(s, "owners", selected, added)
           /\ \A a \in selected : There(a) /\ db[AccrualStatus(a)] = "pending"
           /\ \A a \in added : a[3] = s
           /\ Op(s).kind = "issue" => selected = {}
  <1> DEFINE d == Op(s).deal
             selected == IF Withdrawing(s) THEN PendingOf(d) ELSE {}
             added == IF Doing(s, {"issue"}) THEN Added(s, d) ELSE {}
  <1>1. sess[s].pc = "rows" /\ Select(s, "owners", selected, added)
    BY DEF SelectRows, At
  <1>2. SessOK(s, sess[s]) BY DEF SessionsInv
  <1>3. Op(s) \in Operation /\ Op(s).kind \in {"issue", "withdraw"}
    BY <1>1, <1>2 DEF SessOK, Stage, Op
  <1>4. d \in Deal BY <1>3 DEF Operation
  <1>5. /\ selected \in SUBSET Accrual
        /\ \A a \in selected : There(a) /\ db[AccrualStatus(a)] = "pending"
    BY DEF PendingOf, There
  <1>6. added \in SUBSET Accrual /\ \A a \in added : a[3] = s
    BY <1>4 DEF Added, Accrual
  <1>7. Op(s).kind = "issue" => selected = {} BY DEF Withdrawing, Doing
  <1> HIDE DEF selected, added
  <1> QED BY <1>1, <1>3, <1>5, <1>6, <1>7

\* The rows a change of a deal concerns are selected.
LEMMA SelectRowsStays ==
  ASSUME SessionsInv, NEW s \in Session, SelectRows(s) PROVE SessionsInv'
  BY DealRows, SelectingStays DEF Putting

\* The columns of one owner are read.
LEMMA ReadOwnerStays ==
  ASSUME SessionsInv, NEW s \in Session, NEW u \in User, ReadOwner(s, u) PROVE SessionsInv'
  <1> DEFINE new == [left |-> sess[s].left \ {u}, seen |-> Reading(s, UserColumns(u))]
             x == After(s, new)
  <1>1. sess[s].pc = "owners" /\ Become(s, new) BY DEF ReadOwner, At
  <1>2. SessOK(s, sess[s]) BY DEF SessionsInv
  <1>3. /\ DOMAIN x = Field /\ x.pc = "owners" /\ x.op = sess[s].op
        /\ x.rows = sess[s].rows /\ x.left = sess[s].left \ {u}
        /\ x.seen = Reading(s, UserColumns(u))
        /\ x.set = sess[s].set /\ x.note = sess[s].note
    BY <1>1, AfterFields DEF Field
  <1>4. /\ Fits(Reading(s, UserColumns(u)))
        /\ UserColumns(u) \cup DOMAIN sess[s].seen \subseteq DOMAIN Reading(s, UserColumns(u))
    BY ReadingFits, UserColumnsOf
  <1>5. Pending(u) \in UserColumns(u) BY DEF UserColumns
  <1> HIDE DEF x
  <1>6. Selected(s, x)
    <2>1. x.rows \subseteq Accrual /\ x.left \subseteq User BY <1>2, <1>3 DEF SessOK, Selected
    <2>2. ASSUME NEW a \in x.rows
          PROVE  /\ a[3] = s \/ There(a)
                 /\ a[2] \in x.left \/ Pending(a[2]) \in DOMAIN x.seen
                 /\ x.op.kind = "issue" => a[3] = s
      <3>1. /\ a[3] = s \/ There(a)
            /\ a[2] \in sess[s].left \/ Pending(a[2]) \in DOMAIN sess[s].seen
            /\ x.op.kind = "issue" => a[3] = s
        BY <1>1, <1>2, <1>3 DEF SessOK, Selected
      <3>2. CASE a[2] = u BY <1>3, <1>4, <1>5, <3>1, <3>2
      <3>3. CASE a[2] # u BY <1>3, <1>4, <3>1, <3>3
      <3> QED BY <3>2, <3>3
    <2> QED BY <2>1, <2>2 DEF Selected
  <1>7. SessOK(s, x)
    BY <1>1, <1>2, <1>3, <1>4, <1>6 DEF SessOK, Stage, Noted, Putting
  <1> QED BY <1>1, <1>7, BecomeStays DEF x

\* What may be assigned to a column of each kind.
LEMMA MayAssign ==
  ASSUME NEW s, NEW v
  PROVE  /\ v \in Nat => \A u \in User : Assignable(s, Balance(u), v) /\ Assignable(s, Pending(u), v)
         /\ v \in {"policy_issued", "rejected"} =>
              \A d \in Deal : Assignable(s, DealStatus(d), v)
         /\ v \in {"confirming", "completed", "cancelled"} =>
              \A c \in Certificate : Assignable(s, RequestStatus(c), v)
         /\ v = s /\ s \in objects => \A c \in Certificate : Assignable(s, FileKey(c), v)
         /\ \A a \in Accrual :
              \/ v = "pending" /\ a[3] = s
              \/ v \in {"credited", "cancelled"} /\ (a[3] = s \/ There(a))
              => Assignable(s, AccrualStatus(a), v)
  <1>1. v \in Nat => \A u \in User : Assignable(s, Balance(u), v) /\ Assignable(s, Pending(u), v)
    BY ColumnsApart DEF Assignable, Value
  <1>2. v \in {"policy_issued", "rejected"} => \A d \in Deal : Assignable(s, DealStatus(d), v)
    BY ColumnsApart DEF Assignable, Value
  <1>3. v \in {"confirming", "completed", "cancelled"} =>
          \A c \in Certificate : Assignable(s, RequestStatus(c), v)
    BY ColumnsApart DEF Assignable, Value
  <1>4. v = s /\ s \in objects => \A c \in Certificate : Assignable(s, FileKey(c), v)
    BY ColumnsApart DEF Assignable, Value
  <1>5. \A a \in Accrual :
          \/ v = "pending" /\ a[3] = s
          \/ v \in {"credited", "cancelled"} /\ (a[3] = s \/ There(a))
          => Assignable(s, AccrualStatus(a), v)
    BY ColumnsApart DEF Assignable, Value
  <1> QED BY <1>1, <1>2, <1>3, <1>4, <1>5

\* A session that goes to a flush of f, with g of its fields besides.
LEMMA FlushingWithStays ==
  ASSUME SessionsInv, NEW s \in Session, sess[s].pc \notin {"idle", "done"},
         NEW f, Changes(s, f), NEW next \in {"commit", "users", "put"},
         next = "put" => Op(s).kind = "complete",
         NEW g, DOMAIN g \subseteq {"left", "note"},
         Become(s, Override(g, Flushing(s, f, next))),
         "left" \in DOMAIN g => g.left \subseteq User,
         \A e \in IF "note" \in DOMAIN g THEN g.note ELSE sess[s].note :
           e.request \in Certificate =>
             /\ Op(s).kind = "complete" /\ e.request = Op(s).request
             /\ next = "put" \/ FileKey(e.request) \in DOMAIN sess[s].set \cup DOMAIN f
  PROVE  SessionsInv'
  <1> DEFINE h == Flushing(s, f, next)
             new == Override(g, h)
  <1>1. /\ DOMAIN h = {"set", "todo", "pc", "next"}
        /\ h.pc = "flush" /\ h.next = next /\ h.set = Override(sess[s].set, f)
    BY DEF Flushing
  <1>2. Become(s, new) OBVIOUS
  <1> HIDE DEF h
  <1>3. /\ DOMAIN new = DOMAIN g \cup DOMAIN h
        /\ \A x \in DOMAIN g \cup DOMAIN h : new[x] = IF x \in DOMAIN h THEN h[x] ELSE g[x]
    BY OverrideAt
  <1> HIDE DEF new
  <1>4. /\ DOMAIN new = DOMAIN g \cup {"set", "todo", "pc", "next"}
        /\ new.pc = "flush" /\ new.next = next /\ new.set = Override(sess[s].set, f)
        /\ \A x \in DOMAIN g : new[x] = g[x]
    BY <1>1, <1>3
  <1>5. /\ DOMAIN new \cap {"op", "rows", "seen"} = {} /\ {"pc", "set", "next"} \subseteq DOMAIN new
        /\ ("left" \in DOMAIN new <=> "left" \in DOMAIN g)
        /\ ("note" \in DOMAIN new <=> "note" \in DOMAIN g)
    BY <1>4
  <1>6. "left" \in DOMAIN new => new.left \subseteq User BY <1>4, <1>5
  <1>7. (IF "note" \in DOMAIN new THEN new.note ELSE sess[s].note)
          = (IF "note" \in DOMAIN g THEN g.note ELSE sess[s].note)
    BY <1>4, <1>5
  <1> QED BY <1>2, <1>4, <1>5, <1>6, <1>7, FlushingStays

\* What one user is owed moves to the balance, in a flush of its own.
LEMMA MatureUserStays ==
  ASSUME SessionsInv, NEW s \in Session, NEW u \in User, MatureUser(s, u) PROVE SessionsInv'
  <1> DEFINE seen == Reading(s, UserColumns(u))
             sum == Sum(u, sess[s].rows)
             left == sess[s].left \ {u}
             paid == [c \in {Balance(u)} |-> seen[c] + sum]
             due == [c \in {Pending(u)} |-> AtLeastZero(seen[c] - sum)]
             user == Override(paid, due)
             credited == [c \in {AccrualStatus(a) : a \in sess[s].rows} |-> "credited"]
             f == IF left = {} THEN Override(user, credited) ELSE user
             next == IF left = {} THEN "commit" ELSE "users"
             g == [left |-> left]
  <1>1. sess[s].pc = "users" /\ Become(s, Override(g, Flushing(s, f, next)))
    BY DEF MatureUser, At
  <1>2. SessOK(s, sess[s]) BY DEF SessionsInv
  <1>3. sess[s].rows \subseteq Accrual /\ left \subseteq User
        /\ \A a \in sess[s].rows : a[3] = s \/ There(a)
    BY <1>2 DEF SessOK, Selected
  <1>4. sum \in Nat BY <1>3, SumIsNat
  <1>5. seen[Balance(u)] \in Nat /\ seen[Pending(u)] \in Nat
    <2>1. Fits(seen) /\ UserColumns(u) \subseteq DOMAIN seen BY ReadingFits, UserColumnsOf
    <2>2. Balance(u) \in UserColumns(u) /\ Pending(u) \in UserColumns(u) BY DEF UserColumns
    <2> HIDE DEF seen
    <2> QED BY <2>1, <2>2 DEF Fits, Value
  <1> HIDE DEF seen, sum
  <1>6. Changes(s, paid)
    <2>1. seen[Balance(u)] + sum \in Nat BY <1>4, <1>5
    <2> QED BY <2>1, MayAssign DEF Changes
  <1>7. Changes(s, due)
    <2>1. AtLeastZero(seen[Pending(u)] - sum) \in Nat BY <1>4, <1>5 DEF AtLeastZero
    <2> QED BY <2>1, MayAssign DEF Changes
  <1>8. Changes(s, credited) BY <1>3, MayAssign DEF Changes
  <1> HIDE DEF paid, due, credited
  <1>9. Changes(s, f) BY <1>6, <1>7, <1>8, ChangesOverride
  <1>10. \A e \in sess[s].note : e.request \in Certificate =>
           /\ Op(s).kind = "complete" /\ e.request = Op(s).request
           /\ FileKey(e.request) \in DOMAIN sess[s].set
    BY <1>1, <1>2 DEF SessOK, Noted, Putting, Op
  <1>11. next \in {"commit", "users", "put"} /\ next # "put" OBVIOUS
  <1>12. DOMAIN g = {"left"} /\ g.left = left OBVIOUS
  <1> HIDE DEF f, next, left, g
  <1> QED BY <1>1, <1>3, <1>9, <1>10, <1>11, <1>12, FlushingWithStays

\* The same with nothing besides.
LEMMA FlushingAloneStays ==
  ASSUME SessionsInv, NEW s \in Session, sess[s].pc \notin {"idle", "done"}, ~ Putting(sess[s]),
         NEW f, Changes(s, f), Become(s, Flushing(s, f, "commit"))
  PROVE  SessionsInv'
  <1> DEFINE new == Flushing(s, f, "commit")
  <1>1. /\ DOMAIN new = {"set", "todo", "pc", "next"}
        /\ new.pc = "flush" /\ new.next = "commit" /\ new.set = Override(sess[s].set, f)
    BY DEF Flushing
  <1>2. SessOK(s, sess[s]) BY DEF SessionsInv
  <1>3. \A e \in sess[s].note : e.request \in Certificate =>
          /\ Op(s).kind = "complete" /\ e.request = Op(s).request
          /\ FileKey(e.request) \in DOMAIN sess[s].set
    BY <1>2 DEF SessOK, Noted, Op
  <1>4. Become(s, new) OBVIOUS
  <1> HIDE DEF new
  <1>5. /\ DOMAIN new \cap {"op", "rows", "seen"} = {} /\ {"pc", "set", "next"} \subseteq DOMAIN new
        /\ "left" \notin DOMAIN new /\ "note" \notin DOMAIN new
    BY <1>1
  <1> QED BY <1>1, <1>3, <1>4, <1>5, FlushingStays

\* The new status of a deal, and what it changes of the accruals.
LEMMA FlushDealStays ==
  ASSUME SessionsInv, NEW s \in Session, FlushDeal(s) PROVE SessionsInv'
  <1> DEFINE rows == sess[s].rows
             owners == {a[2] : a \in rows}
             issue == Doing(s, {"issue"})
             new(c) ==
               CASE c[1] = "users" ->
                      LET sum == Sum(c[2], rows) IN
                      IF issue THEN sess[s].seen[c] + sum ELSE AtLeastZero(sess[s].seen[c] - sum)
                 [] c[1] = "deals" -> NewStatus(s)
                 [] OTHER -> IF issue THEN "pending" ELSE "cancelled"
             columns == {Pending(u) : u \in owners} \cup {DealStatus(Op(s).deal)}
                          \cup {AccrualStatus(a) : a \in rows}
             f == [c \in columns |-> new(c)]
  <1>1. /\ sess[s].pc = "owners" /\ sess[s].left = {}
        /\ Become(s, Flushing(s, f, "commit"))
    BY DEF FlushDeal, At
  <1>2. SessOK(s, sess[s]) BY DEF SessionsInv
  <1>3. Op(s) \in Operation /\ Op(s).kind \in {"issue", "withdraw"}
    BY <1>1, <1>2 DEF SessOK, Stage, Op
  <1>4. Op(s).deal \in Deal BY <1>3 DEF Operation
  <1>5. /\ rows \subseteq Accrual
        /\ \A a \in rows : /\ a[3] = s \/ There(a)
                           /\ Pending(a[2]) \in DOMAIN sess[s].seen
                           /\ Op(s).kind = "issue" => a[3] = s
    BY <1>1, <1>2 DEF SessOK, Selected, Op
  <1>6. issue <=> Op(s).kind = "issue" BY DEF Doing
  <1>7. ASSUME NEW u \in owners PROVE Assignable(s, Pending(u), new(Pending(u)))
    <2>1. PICK a \in rows : u = a[2] BY <1>7
    <2>2. u \in User /\ Pending(u) \in DOMAIN sess[s].seen BY <1>5, <2>1 DEF Accrual
    <2> DEFINE seen == sess[s].seen[Pending(u)]
               sum == Sum(u, rows)
    <2>3. seen \in Nat BY <1>2, <2>2 DEF SessOK, Fits, Value
    <2>4. sum \in Nat BY <1>5, SumIsNat
    <2>5. Pending(u)[1] = "users" /\ Pending(u)[2] = u BY DEF Pending
    <2>6. new(Pending(u)) = IF issue THEN seen + sum ELSE AtLeastZero(seen - sum)
      BY <2>5
    <2> HIDE DEF seen, sum, new
    <2>7. new(Pending(u)) \in Nat BY <2>3, <2>4, <2>6 DEF AtLeastZero
    <2> QED BY <2>2, <2>7, MayAssign
  <1>8. Assignable(s, DealStatus(Op(s).deal), new(DealStatus(Op(s).deal)))
    <2>1. DealStatus(Op(s).deal)[1] = "deals" BY DEF DealStatus
    <2>2. new(DealStatus(Op(s).deal)) = NewStatus(s) BY <2>1
    <2>3. NewStatus(s) \in {"policy_issued", "rejected"} BY DEF NewStatus
    <2> HIDE DEF new
    <2> QED BY <1>4, <2>2, <2>3, MayAssign
  <1>9. ASSUME NEW a \in rows PROVE Assignable(s, AccrualStatus(a), new(AccrualStatus(a)))
    <2>1. AccrualStatus(a)[1] = "referral_accruals" BY DEF AccrualStatus
    <2>2. new(AccrualStatus(a)) = IF issue THEN "pending" ELSE "cancelled" BY <2>1
    <2> HIDE DEF new
    <2> QED BY <1>5, <1>6, <2>2, MayAssign
  <1> HIDE DEF new
  <1>10. Changes(s, f)
    <2>1. ASSUME NEW c \in columns PROVE Assignable(s, c, new(c)) BY <1>7, <1>8, <1>9, <2>1
    <2> HIDE DEF columns
    <2> QED BY <2>1 DEF Changes
  <1> HIDE DEF f
  <1> QED BY <1>1, <1>10, FlushingAloneStays DEF Putting

\* A session that notes what it takes from a user, or gives.
LEMMA NotingStays ==
  ASSUME SessionsInv, NEW s \in Session, sess[s].pc \notin {"idle", "done"},
         NEW u \in User, NEW v \in Nat, NEW next \in {"commit", "put"},
         next = "put" => Op(s).kind = "complete",
         NEW e, e.request \in Certificate =>
                  next = "put" /\ Op(s).kind = "complete" /\ e.request = Op(s).request,
         Become(s, Override([note |-> {e}], Flushing(s, [c \in {Balance(u)} |-> v], next)))
  PROVE  SessionsInv'
  <1> DEFINE f == [c \in {Balance(u)} |-> v]
             g == [note |-> {e}]
  <1>1. Changes(s, f) BY MayAssign DEF Changes
  <1>2. DOMAIN g = {"note"} /\ g.note = {e} OBVIOUS
  <1>3. Become(s, Override(g, Flushing(s, f, next))) OBVIOUS
  <1> HIDE DEF f, g
  <1> QED BY <1>1, <1>2, <1>3, FlushingWithStays

\* A stored balance that has been read.
LEMMA BalanceRead ==
  ASSUME SessionsInv, NEW s \in Session, NEW u \in User
  PROVE  Reading(s, UserColumns(u))[Balance(u)] \in Nat
  <1> DEFINE seen == Reading(s, UserColumns(u))
  <1>1. Fits(seen) /\ UserColumns(u) \subseteq DOMAIN seen BY ReadingFits, UserColumnsOf
  <1>2. Balance(u) \in UserColumns(u) BY DEF UserColumns
  <1> HIDE DEF seen
  <1>3. seen[Balance(u)] \in Nat BY <1>1, <1>2 DEF Fits, Value
  <1> QED BY <1>3 DEF seen

\* adjust-bonus changes the balance it has read.
LEMMA AdjustBonusStays ==
  ASSUME SessionsInv, NEW s \in Session, AdjustBonus(s) PROVE SessionsInv'
  <1> DEFINE u == Op(s).user
             seen == Reading(s, UserColumns(u))
             change == IF Doing(s, {"credit"}) THEN Price ELSE - Price
             v == seen[Balance(u)] + change
             e == Entry(s, u, change, NoSession)
  <1>1. /\ sess[s].pc = "begin" /\ Op(s).kind \in {"credit", "debit"}
        /\ \/ Rollback(s)
           \/ /\ ~ v < 0
              /\ Become(s, Override([note |-> {e}], Flushing(s, [c \in {Balance(u)} |-> v], "commit")))
    <2>1. sess[s].pc = "begin" /\ Op(s).kind \in {"credit", "debit"}
      BY DEF AdjustBonus, At, Doing
    <2>2. CASE v < 0 BY <2>1, <2>2 DEF AdjustBonus
    <2>3. CASE ~ v < 0
      <3>1. [c \in {Balance(u)} |-> seen[c] + change] = [c \in {Balance(u)} |-> v] OBVIOUS
      <3>2. Become(s, Override([note |-> {e}],
                Flushing(s, [c \in {Balance(u)} |-> seen[c] + change], "commit")))
        BY <2>3 DEF AdjustBonus
      <3> QED BY <2>1, <2>3, <3>1, <3>2
    <2> QED BY <2>1, <2>2, <2>3
  <1>2. Op(s) \in Operation BY <1>1 DEF SessionsInv, SessOK, Stage, Op
  <1>3. u \in User BY <1>1, <1>2 DEF Operation
  <1>4. seen[Balance(u)] \in Nat BY <1>3, BalanceRead
  <1>5. change \in Int BY SessionsAssumption
  <1>6. e.request \notin Certificate BY SessionsAssumption DEF Entry
  <1> HIDE DEF seen, change, e
  <1>7. ~ v < 0 => v \in Nat BY <1>4, <1>5
  <1> HIDE DEF u, v
  <1> QED BY <1>1, <1>3, <1>6, <1>7, NotingStays, RollbackStays

\* The price of a certificate comes off the balance that was read.
LEMMA DebitHolderStays ==
  ASSUME SessionsInv, NEW s \in Session, DebitHolder(s) PROVE SessionsInv'
  <1> DEFINE c == Op(s).request
             u == Holder[c]
             seen == Reading(s, UserColumns(u))
             v == seen[Balance(u)] - Price
             e == Entry(s, u, - Price, c)
  <1>1. /\ sess[s].pc = "complete"
        /\ \/ Rollback(s)
           \/ /\ ~ seen[Balance(u)] < Price
              /\ Become(s, Override([note |-> {e}], Flushing(s, [b \in {Balance(u)} |-> v], "put")))
    <2>1. sess[s].pc = "complete" BY DEF DebitHolder, At
    <2>2. CASE seen[Balance(u)] < Price BY <2>1, <2>2 DEF DebitHolder
    <2>3. CASE ~ seen[Balance(u)] < Price
      <3>1. [b \in {Balance(u)} |-> seen[b] - Price] = [b \in {Balance(u)} |-> v] OBVIOUS
      <3>2. Become(s, Override([note |-> {e}],
                Flushing(s, [b \in {Balance(u)} |-> seen[b] - Price], "put")))
        BY <2>3 DEF DebitHolder
      <3> QED BY <2>1, <2>3, <3>1, <3>2
    <2> QED BY <2>1, <2>2, <2>3
  <1>2. Op(s) \in Operation /\ Op(s).kind = "complete"
    BY <1>1 DEF SessionsInv, SessOK, Stage, Op
  <1>3. u \in User BY <1>2, SessionsAssumption DEF Operation
  <1>4. seen[Balance(u)] \in Nat BY <1>3, BalanceRead
  <1>5. e.request = c BY DEF Entry
  <1>6. Price \in Nat BY SessionsAssumption
  <1> HIDE DEF seen, e
  <1>7. ~ seen[Balance(u)] < Price => v \in Nat BY <1>4, <1>6
  <1> HIDE DEF u, v
  <1> QED BY <1>1, <1>2, <1>3, <1>5, <1>7, NotingStays, RollbackStays

\* The file is stored before the row that names it.
LEMMA PutObjectStays ==
  ASSUME SessionsInv, NEW s \in Session, PutObject(s) PROVE SessionsInv'
  <1>1. PICK x : x = [sess[s] EXCEPT !.pc = "attach"] OBVIOUS
  <1>2. /\ sess[s].pc = "put" /\ sess' = [sess EXCEPT ![s] = x]
        /\ UNCHANGED <<db, audit, lock>> /\ objects' = objects \cup {s}
    BY <1>1 DEF PutObject, At
  <1>3. SessOK(s, sess[s]) BY DEF SessionsInv
  <1>4. /\ DOMAIN x = Field /\ x.pc = "attach" /\ x.op = sess[s].op /\ x.rows = sess[s].rows
        /\ x.left = sess[s].left /\ x.seen = sess[s].seen
        /\ x.set = sess[s].set /\ x.note = sess[s].note
    BY <1>1, <1>3 DEF SessOK, Field
  <1>5. \A a \in Accrual : There(a)' <=> There(a) BY <1>2 DEF There
  <1>6. DbOK'
    <2>1. \A c, v : Value(c, v) => Value(c, v)' BY <1>2 DEF Value
    <2>2. Fits(db)' BY <1>2, <2>1 DEF SessionsInv, DbOK, Fits
    <2> QED BY <1>2, <2>2 DEF SessionsInv, DbOK, PaidHasFile
  <1>7. PICK y : y = sess[s] OBVIOUS
  <1>8. SessOK(s, y)' BY <1>2, <1>3, <1>5, <1>7, SessKeeps DEF SessOK
  <1>9. SessOK(s, x)'
    BY <1>2, <1>4, <1>7, <1>8 DEF SessOK, Stage, Selected, Noted, Putting
  <1> QED BY <1>2, <1>5, <1>6, <1>9, OneSession

\* The row is made to name the file that is stored.
LEMMA AttachFileStays ==
  ASSUME SessionsInv, NEW s \in Session, AttachFile(s) PROVE SessionsInv'
  <1> DEFINE c == Op(s).request
             status == [x \in {RequestStatus(c)} |-> "completed"]
             file == [x \in {FileKey(c)} |-> s]
             f == Override(status, file)
             new == Flushing(s, f, "commit")
  <1>1. sess[s].pc = "attach" /\ Become(s, new) BY DEF AttachFile, At
  <1>2. SessOK(s, sess[s]) BY DEF SessionsInv
  <1>3. s \in objects /\ Op(s) \in Operation /\ Op(s).kind = "complete"
    BY <1>1, <1>2 DEF SessOK, Stage, Putting, Op
  <1>4. c \in Certificate BY <1>3 DEF Operation
  <1> HIDE DEF c
  <1>5. Changes(s, status) /\ Changes(s, file) BY <1>3, <1>4, MayAssign DEF Changes
  <1>6. DOMAIN status = {RequestStatus(c)} /\ DOMAIN file = {FileKey(c)} OBVIOUS
  <1> HIDE DEF status, file
  <1>7. Changes(s, f) BY <1>5, ChangesOverride
  <1>8. DOMAIN f = DOMAIN status \cup DOMAIN file BY OverrideAt
  <1> HIDE DEF f
  <1>9. \A e \in sess[s].note : e.request \in Certificate =>
          /\ Op(s).kind = "complete" /\ e.request = Op(s).request
          /\ FileKey(e.request) \in DOMAIN f
    BY <1>2, <1>6, <1>8 DEF SessOK, Noted, Op, c
  <1>10. /\ DOMAIN new = {"set", "todo", "pc", "next"}
         /\ new.pc = "flush" /\ new.next = "commit" /\ new.set = Override(sess[s].set, f)
    BY DEF Flushing
  <1> HIDE DEF new
  <1>11. /\ DOMAIN new \cap {"op", "rows", "seen"} = {} /\ {"pc", "set", "next"} \subseteq DOMAIN new
         /\ "left" \notin DOMAIN new /\ "note" \notin DOMAIN new
    BY <1>10
  <1> QED BY <1>1, <1>7, <1>9, <1>10, <1>11, FlushingStays

\* A request for a certificate is cancelled, or moves to confirming.
LEMMA MoveRequestStays ==
  ASSUME SessionsInv, NEW s \in Session, CancelRequest(s) \/ ConfirmRequest(s) PROVE SessionsInv'
  <1>1. PICK new \in {"cancelled", "confirming"} :
          /\ sess[s].pc \in {"cancel", "confirm"}
          /\ Become(s, Flushing(s, [x \in {RequestStatus(Op(s).request)} |-> new], "commit"))
    BY DEF CancelRequest, ConfirmRequest, MoveRequest, At
  <1> DEFINE f == [x \in {RequestStatus(Op(s).request)} |-> new]
  <1>2. Op(s) \in Operation /\ Op(s).kind \in {"cancel", "confirm"}
    BY <1>1 DEF SessionsInv, SessOK, Stage, Op
  <1>3. Op(s).request \in Certificate BY <1>2 DEF Operation
  <1>4. Changes(s, f) BY <1>3, MayAssign DEF Changes
  <1>5. Become(s, Flushing(s, f, "commit")) BY <1>1
  <1> HIDE DEF f
  <1> QED BY <1>1, <1>4, <1>5, FlushingAloneStays DEF Putting

\* The values a commit leaves.
LEMMA CommitWrites ==
  ASSUME SessionsInv, NEW s \in Session, Commit(s)
  PROVE  /\ sess[s].pc = "commit" /\ DOMAIN db' = DOMAIN db \cup DOMAIN sess[s].set
         /\ \A x \in DOMAIN db' :
              \/ x \in DOMAIN sess[s].set /\ db'[x] = sess[s].set[x]
                 /\ Assignable(s, x, db'[x])
              \/ x \in DOMAIN db \ DOMAIN sess[s].set /\ db'[x] = db[x] /\ Value(x, db[x])
  <1> DEFINE set == sess[s].set
             h == Override(db, set)
  <1>1. db' = h /\ sess[s].pc = "commit" BY DEF Commit, At
  <1>2. /\ DOMAIN h = DOMAIN db \cup DOMAIN set
        /\ \A x \in DOMAIN db \cup DOMAIN set : h[x] = IF x \in DOMAIN set THEN set[x] ELSE db[x]
    BY OverrideAt
  <1>3. Changes(s, set) /\ Fits(db) BY DEF SessionsInv, SessOK, DbOK
  <1> HIDE DEF h, set
  <1>4. \A x \in DOMAIN set : Assignable(s, x, set[x]) BY <1>3 DEF Changes
  <1>5. \A x \in DOMAIN db : Value(x, db[x]) BY <1>3 DEF Fits
  <1>6. /\ DOMAIN db' = DOMAIN db \cup DOMAIN set
        /\ \A x \in DOMAIN db' :
             \/ x \in DOMAIN set /\ db'[x] = set[x] /\ Assignable(s, x, db'[x])
             \/ x \in DOMAIN db \ DOMAIN set /\ db'[x] = db[x] /\ Value(x, db[x])
    BY <1>1, <1>2, <1>4, <1>5
  <1> QED BY <1>1, <1>6 DEF set

\* A commit makes the writes of the session those of the database.
LEMMA CommitStays ==
  ASSUME SessionsInv, NEW s \in Session, Commit(s) PROVE SessionsInv'
  <1>1. SessOK(s, sess[s]) /\ DbOK /\ Column \subseteq DOMAIN db BY DEF SessionsInv, DbOK
  <1>2. /\ audit' = audit \cup sess[s].note /\ UNCHANGED objects
        /\ sess' = [sess EXCEPT ![s] = Done] /\ lock' = Unlocked(s)
    BY DEF Commit, Done
  <1>3. ASSUME NEW a \in Accrual
        PROVE  (There(a) => There(a)') /\ (There(a)' => There(a) \/ a[3] = s)
    <2>1. AccrualStatus(a) \in DOMAIN db' BY <1>1, CommitWrites, ColumnsOfRows
    <2> QED BY <2>1, CommitWrites DEF Assignable, There
  <1>4. Fits(db)'
    <2>1. \A x, v : Assignable(s, x, v) => Value(x, v) BY DEF Assignable
    <2>2. \A x \in DOMAIN db' : Value(x, db'[x]) BY <2>1, CommitWrites
    <2> QED BY <1>2, <2>2 DEF Fits, Value
  <1>5. ASSUME NEW e \in audit', e.request \in Certificate
        PROVE  db'[FileKey(e.request)] # NoSession
    <2>1. FileKey(e.request) \in Column BY <1>5, ColumnsOfRows
    <2>2. FileKey(e.request) \in DOMAIN db' BY <1>1, <2>1, CommitWrites
    <2>3. FileKey(e.request) \in DOMAIN sess[s].set => db'[FileKey(e.request)] = s
      BY <1>5, <2>2, CommitWrites DEF Assignable
    <2>4. s # NoSession BY SessionsAssumption
    <2>5. CASE e \in audit
      <3>1. db[FileKey(e.request)] # NoSession BY <1>1, <1>5, <2>5 DEF DbOK, PaidHasFile
      <3> QED BY <2>2, <2>3, <2>4, <3>1, CommitWrites
    <2>6. CASE e \in sess[s].note
      <3>1. FileKey(e.request) \in DOMAIN sess[s].set
        BY <1>1, <1>5, <2>6, CommitWrites DEF SessOK, Noted, Putting
      <3> QED BY <2>3, <2>4, <3>1
    <2> QED BY <1>2, <2>5, <2>6
  <1>6. DbOK'
    <2>1. Column \subseteq DOMAIN db' BY <1>1, CommitWrites
    <2>2. lock' \in [Row -> Session \cup {NoSession}] BY <1>2, UnlockedType
    <2> QED BY <1>1, <1>2, <1>4, <1>5, <2>1, <2>2 DEF DbOK, PaidHasFile
  <1>7. SessOK(s, Done)'
    <2>1. SessOK(s, Done) /\ Done.pc = "done" BY DoneOK
    <2> QED BY <1>2, <1>3, <2>1, SessKeeps
  <1> QED BY <1>2, <1>3, <1>6, <1>7, OneSession

-----------------------------------------------------------------------------
(* The invariant, and what it says. *)

\* The invariant holds at first.
LEMMA SessionsInit == Init => SessionsInv
  <1> SUFFICES ASSUME Init PROVE SessionsInv OBVIOUS
  <1>1. /\ db = [column \in Column |-> Initially(column)] /\ sess = [s \in Session |-> Idle]
        /\ lock = [row \in Row |-> NoSession] /\ audit = {} /\ objects = {}
    BY DEF Init
  <1>2. \A a \in Accrual : Initially(AccrualStatus(a)) \in {"pending", "absent"}
                           /\ (a[3] # NoSession => Initially(AccrualStatus(a)) = "absent")
    <2> SUFFICES ASSUME NEW a \in Accrual
                 PROVE  Initially(AccrualStatus(a)) \in {"pending", "absent"}
                        /\ (a[3] # NoSession => Initially(AccrualStatus(a)) = "absent")
      OBVIOUS
    <2>1. AccrualStatus(a)[2] = a /\ AccrualStatus(a)[3] = "status" BY DEF AccrualStatus
    <2>2. AccrualStatus(a) # RequestStatus(a) /\ AccrualStatus(a) # DealStatus(a) BY ColumnsApart
    <2> QED BY <2>1, <2>2 DEF Initially
  <1>3. \A u \in User : Initially(Balance(u)) \in Nat /\ Initially(Pending(u)) \in Nat
    <2>1. Cardinality(Issued) \in Nat
      BY SessionsAssumption, FS_Subset, FS_CardinalityType
    <2>2. Share * Cardinality(Issued) \in Nat BY <2>1, SessionsAssumption
    <2>3. \A u : Balance(u)[3] = "balance" /\ Pending(u)[3] = "pending_balance"
      BY DEF Balance, Pending
    <2>4. \A u, v : /\ Balance(u) # RequestStatus(v) /\ Balance(u) # DealStatus(v)
                    /\ Pending(u) # RequestStatus(v) /\ Pending(u) # DealStatus(v)
      BY ColumnsApart
    <2> QED BY <2>2, <2>3, <2>4, SessionsAssumption DEF Initially
  <1>4. \A d \in Deal : Initially(DealStatus(d)) \in {"new", "policy_issued", "rejected"}
    <2>1. \A d : DealStatus(d)[2] = d /\ DealStatus(d)[3] = "status" BY DEF DealStatus
    <2>2. \A d, c : DealStatus(d) # RequestStatus(c) BY ColumnsApart
    <2> QED BY <2>1, <2>2 DEF Initially
  <1>5. \A c \in Certificate : Initially(RequestStatus(c)) = "in_progress"
                               /\ Initially(FileKey(c)) = NoSession
    <2>1. \A c : /\ RequestStatus(c)[2] = c /\ RequestStatus(c)[3] = "status"
                 /\ FileKey(c)[3] = "certificate_file_key"
      BY DEF RequestStatus, FileKey
    <2>2. \A c, d : RequestStatus(c) # DealStatus(d) /\ FileKey(c) # DealStatus(d)
                    /\ FileKey(c) # RequestStatus(d)
      BY ColumnsApart
    <2> QED BY <2>1, <2>2 DEF Initially
  <1>6. \A x \in Column : Value(x, db[x])
    BY <1>1, <1>2, <1>3, <1>4, <1>5 DEF Value
  <1>7. DbOK BY <1>1, <1>6 DEF DbOK, Fits, PaidHasFile
  <1>8. ASSUME NEW s \in Session PROVE SessOK(s, Idle)
    <2>1. /\ DOMAIN Idle = Field /\ Idle.pc = "idle" /\ Idle.seen = <<>> /\ Idle.set = <<>>
          /\ Idle.rows = {} /\ Idle.left = {} /\ Idle.note = {}
      BY DEF Idle, Field
    <2>2. DOMAIN <<>> = {} OBVIOUS
    <2>3. \A a \in Accrual : a[3] = s => ~ There(a)
      BY <1>1, <1>2, ColumnsOfRows, SessionsAssumption DEF There
    <2> QED BY <2>1, <2>2, <2>3
         DEF SessOK, Stage, Putting, Fits, Changes, Selected, Noted
  <1> QED BY <1>1, <1>7, <1>8 DEF SessionsInv

\* Only a commit changes what is stored.
LEMMA OnlyCommits ==
  ASSUME [Next]_vars PROVE UNCHANGED db \/ \E s \in Session : Commit(s)
  <1>1. ASSUME NEW s \in Session, Proceed(s) PROVE UNCHANGED db \/ Commit(s)
    BY <1>1
       DEF Proceed, Update, Flushed, Authenticate, SelectMatured, MatureUser, ReadOwner, ReadDeal,
           SelectRows, Select, FlushDeal, AdjustBonus, ReadRequest, DebitHolder, PutObject,
           AttachFile, CancelRequest, ConfirmRequest, MoveRequest, Become, Rollback
  <1>2. ASSUME NEW s \in Session, Rollback(s) \/ \E op \in Ops : Begin(s, op) PROVE UNCHANGED db
    BY <1>2 DEF Rollback, Begin, Become
  <1> QED BY <1>1, <1>2 DEF Next, vars, Crash, BreakDeadlock

\* The invariant is inductive.
LEMMA SessionsStep == SessionsInv /\ [Next]_vars => SessionsInv'
  <1> SUFFICES ASSUME SessionsInv, [Next]_vars PROVE SessionsInv' OBVIOUS
  <1>1. ASSUME NEW s \in Session, Proceed(s) PROVE SessionsInv'
    <2>1. CASE Update(s) \/ Flushed(s) \/ Commit(s)
      BY <2>1, UpdateStays, FlushedStays, CommitStays
    <2>2. CASE Authenticate(s) \/ SelectMatured(s) \/ \E u \in User : MatureUser(s, u)
      BY <2>2, AuthenticateStays, SelectMaturedStays, MatureUserStays
    <2>3. CASE ReadDeal(s) \/ SelectRows(s) \/ FlushDeal(s) \/ \E u \in User : ReadOwner(s, u)
      BY <2>3, ReadDealStays, SelectRowsStays, FlushDealStays, ReadOwnerStays
    <2>4. CASE AdjustBonus(s) \/ ReadRequest(s) \/ CancelRequest(s) \/ ConfirmRequest(s)
      BY <2>4, AdjustBonusStays, ReadRequestStays, MoveRequestStays
    <2>5. CASE DebitHolder(s) \/ PutObject(s) \/ AttachFile(s)
      BY <2>5, DebitHolderStays, PutObjectStays, AttachFileStays
    <2> QED BY <1>1, <2>1, <2>2, <2>3, <2>4, <2>5 DEF Proceed
  <1>2. ASSUME NEW s \in Session, NEW op \in Ops, Begin(s, op) PROVE SessionsInv'
    BY <1>2, BeginStays
  <1>3. ASSUME NEW s \in Session, Crash(s) \/ BreakDeadlock(s) PROVE SessionsInv'
    BY <1>3, RollbackStays DEF Crash, BreakDeadlock
  <1>4. CASE UNCHANGED vars
    BY <1>4 DEF vars, SessionsInv, DbOK, PaidHasFile, SessOK, Stage, Putting, Fits, Value, Changes,
                Assignable, Selected, Noted, There
  <1> QED BY <1>1, <1>2, <1>3, <1>4 DEF Next

\* What every session holds stays fit to be written, whatever the others do.
THEOREM SessionsInvariant == Spec => []SessionsInv
  <1> QED BY SessionsInit, SessionsStep, PTL DEF Spec

\* A stored balance is a number of cents, for any number of sessions.
THEOREM SessionsTyped == Spec => []TypeOK
  <1>1. SessionsInv => TypeOK
    <2> SUFFICES ASSUME SessionsInv PROVE TypeOK OBVIOUS
    <2>1. /\ Column \subseteq DOMAIN db /\ \A x \in DOMAIN db : Value(x, db[x])
          /\ objects \subseteq Session /\ lock \in [Row -> Session \cup {NoSession}]
      BY DEF SessionsInv, DbOK, Fits
    <2>2. \A x \in Column : Value(x, db[x]) BY <2>1
    <2>3. \A u \in User : db[Balance(u)] \in Nat /\ db[Pending(u)] \in Nat
      BY <2>2, ColumnsOfRows DEF Value
    <2>4. \A d \in Deal : db[DealStatus(d)] \in {"new", "policy_issued", "rejected"}
      BY <2>2, ColumnsOfRows DEF Value
    <2>5. \A c \in Certificate :
            /\ db[RequestStatus(c)] \in {"confirming", "in_progress", "completed", "cancelled"}
            /\ db[FileKey(c)] \in Session \cup {NoSession}
      BY <2>1, <2>2, ColumnsOfRows DEF Value
    <2>6. \A a \in Accrual :
            db[AccrualStatus(a)] \in {"absent", "pending", "credited", "cancelled"}
      BY <2>2, ColumnsOfRows DEF Value
    <2> QED BY <2>1, <2>3, <2>4, <2>5, <2>6 DEF TypeOK
  <1> QED BY SessionsInvariant, <1>1, PTL

\* Nobody pays for a certificate whose file is not there, and the key in a
\* request names an object that was stored.
THEOREM PaidFilesStored == Spec => []PaidFileStored
  <1>1. SessionsInv => FileIsStored
    <2> SUFFICES ASSUME SessionsInv, NEW c \in Certificate
                 PROVE  db[FileKey(c)] \in objects \cup {NoSession}
      BY DEF FileIsStored
    <2>1. FileKey(c) \in Column BY ColumnsOfRows
    <2> QED BY <2>1 DEF SessionsInv, DbOK, Fits, Value
  <1>2. SessionsInv => PaidHasFile BY DEF SessionsInv, DbOK
  <1>3. SessionsInv => PaidFileStored BY <1>1, <1>2 DEF PaidFileStored
  <1> QED BY SessionsInvariant, <1>3, PTL

-----------------------------------------------------------------------------
(* What a session writes to accruals of others it has read as pending. *)

\* What x has read of an accrual is that it is pending.
Pend(x, a) == AccrualStatus(a) \in DOMAIN x.seen /\ x.seen[AccrualStatus(a)] = "pending"

Reads(s, x) ==
    /\ x.pc \in {"idle", "begin", "select", "rows"} =>
         \A a \in Accrual : AccrualStatus(a) \notin DOMAIN x.seen
    /\ \A a \in x.rows : a[3] = s \/ Pend(x, a)
    /\ \A a \in Accrual : AccrualStatus(a) \in DOMAIN x.set => a[3] = s \/ Pend(x, a)

ReadsInv == \A s \in Session : Reads(s, sess[s])

\* What a session has read stays as it was read first, whatever it reads then.
LEMMA ReadingKeeps ==
  ASSUME NEW s, NEW columns
  PROVE  /\ DOMAIN Reading(s, columns) = columns \cup DOMAIN sess[s].seen
         /\ \A c \in DOMAIN sess[s].seen : Reading(s, columns)[c] = sess[s].seen[c]
  <1> DEFINE f == [c \in columns |-> db[c]]
             g == sess[s].seen
             h == Override(f, g)
  <1>1. DOMAIN f = columns /\ \A c \in columns : f[c] = db[c] OBVIOUS
  <1>2. Reading(s, columns) = h BY DEF Reading
  <1> HIDE DEF f
  <1>3. /\ DOMAIN h = DOMAIN f \cup DOMAIN g
        /\ \A x \in DOMAIN f \cup DOMAIN g : h[x] = IF x \in DOMAIN g THEN g[x] ELSE f[x]
    BY OverrideAt
  <1> HIDE DEF h
  <1> QED BY <1>1, <1>2, <1>3

\* What it had not read, it reads as it is stored.
LEMMA ReadingNew ==
  ASSUME NEW s, NEW columns, NEW c \in columns, c \notin DOMAIN sess[s].seen
  PROVE  c \in DOMAIN Reading(s, columns) /\ Reading(s, columns)[c] = db[c]
  BY DEF Reading, Override

\* One session moves, and the others have read what they had.
LEMMA OneReads ==
  ASSUME SessionsInv, ReadsInv, NEW s \in Session, NEW x, sess' = [sess EXCEPT ![s] = x],
         Reads(s, x)
  PROVE  ReadsInv'
  <1>1. ASSUME NEW t \in Session PROVE Reads(t, sess'[t])
    <2>1. CASE t = s BY <2>1 DEF SessionsInv
    <2>2. CASE t # s
      <3>1. sess'[t] = sess[t] BY <2>2 DEF SessionsInv
      <3> QED BY <3>1 DEF ReadsInv
    <2> QED BY <2>1, <2>2
  <1> QED BY <1>1 DEF ReadsInv, Reads, Pend

\* A session that reads no accruals more and writes none but its rows.
LEMMA ReadsGrow ==
  ASSUME SessionsInv, ReadsInv, NEW s \in Session, NEW x, sess' = [sess EXCEPT ![s] = x],
         x.rows = sess[s].rows,
         DOMAIN sess[s].seen \subseteq DOMAIN x.seen,
         \A c \in DOMAIN sess[s].seen : x.seen[c] = sess[s].seen[c],
         x.pc \in {"idle", "begin", "select", "rows"} =>
           /\ sess[s].pc \in {"idle", "begin", "select", "rows"}
           /\ \A a \in Accrual :
                AccrualStatus(a) \in DOMAIN x.seen => AccrualStatus(a) \in DOMAIN sess[s].seen,
         \A a \in Accrual :
           AccrualStatus(a) \in DOMAIN x.set => AccrualStatus(a) \in DOMAIN sess[s].set
                                                \/ a \in sess[s].rows
  PROVE  ReadsInv'
  <1>1. Reads(s, sess[s]) BY DEF ReadsInv
  <1>2. \A a : Pend(sess[s], a) => Pend(x, a) BY DEF Pend
  <1>3. Reads(s, x) BY <1>1, <1>2 DEF Reads
  <1> QED BY <1>3, OneReads

\* A session that goes on and has neither read nor written more.
LEMMA ReadsMoving ==
  ASSUME SessionsInv, ReadsInv, NEW s \in Session, NEW new, Become(s, new),
         DOMAIN new \cap {"rows", "set", "seen"} = {}, "pc" \in DOMAIN new,
         (new.pc = "begin" /\ sess[s].pc = "idle") \/ new.pc \in {"commit", "users", "put"}
  PROVE  ReadsInv'
  <1> DEFINE x == After(s, new)
  <1>1. sess' = [sess EXCEPT ![s] = x] BY DEF Become, After, SessionsInv, SessOK
  <1>2. x.rows = sess[s].rows /\ x.set = sess[s].set /\ x.seen = sess[s].seen /\ x.pc = new.pc
    BY AfterFields DEF Field
  <1> HIDE DEF x
  <1> QED BY <1>1, <1>2, ReadsGrow

\* A session that reads columns of other tables.
LEMMA ReadsElsewhere ==
  ASSUME SessionsInv, ReadsInv, NEW s \in Session, NEW new, Become(s, new),
         DOMAIN new \cap {"rows", "set"} = {}, "seen" \in DOMAIN new,
         NEW columns, \A a \in Accrual : AccrualStatus(a) \notin columns,
         new.seen = Reading(s, columns),
         "pc" \in DOMAIN new /\ new.pc \in {"idle", "begin", "select", "rows"} =>
           sess[s].pc = "begin"
  PROVE  ReadsInv'
  <1> DEFINE x == After(s, new)
  <1>1. sess' = [sess EXCEPT ![s] = x] BY DEF Become, After, SessionsInv, SessOK
  <1>2. /\ x.rows = sess[s].rows /\ x.set = sess[s].set /\ x.seen = Reading(s, columns)
        /\ x.pc = IF "pc" \in DOMAIN new THEN new.pc ELSE sess[s].pc
    BY AfterFields DEF Field
  <1> HIDE DEF x
  <1>3. PICK seen : seen = Reading(s, columns) OBVIOUS
  <1>4. /\ DOMAIN seen = columns \cup DOMAIN sess[s].seen
        /\ \A c \in DOMAIN sess[s].seen : seen[c] = sess[s].seen[c]
    BY <1>3, ReadingKeeps
  <1>5. /\ DOMAIN sess[s].seen \subseteq DOMAIN x.seen
        /\ \A c \in DOMAIN sess[s].seen : x.seen[c] = sess[s].seen[c]
        /\ \A a \in Accrual :
             AccrualStatus(a) \in DOMAIN x.seen => AccrualStatus(a) \in DOMAIN sess[s].seen
    BY <1>2, <1>3, <1>4
  <1>6. x.pc \in {"idle", "begin", "select", "rows"} =>
          sess[s].pc \in {"idle", "begin", "select", "rows"}
    BY <1>2
  <1> QED BY <1>1, <1>2, <1>5, <1>6, ReadsGrow

\* A session that goes to a flush that writes no accruals but its rows.
LEMMA ReadsFlushing ==
  ASSUME SessionsInv, ReadsInv, NEW s \in Session, NEW f, NEW next, NEW g,
         DOMAIN g \subseteq {"left", "note"},
         \/ Become(s, Flushing(s, f, next))
         \/ Become(s, Override(g, Flushing(s, f, next))),
         \A a \in Accrual : AccrualStatus(a) \in DOMAIN f => a \in sess[s].rows
  PROVE  ReadsInv'
  <1> DEFINE h == Flushing(s, f, next)
             all == Override(g, h)
             set == Override(sess[s].set, f)
  <1>1. DOMAIN h = {"set", "todo", "pc", "next"} /\ h.pc = "flush" /\ h.set = set
    BY DEF Flushing
  <1>2. DOMAIN set = DOMAIN sess[s].set \cup DOMAIN f BY OverrideAt
  <1> HIDE DEF set, h
  <1>3. /\ DOMAIN all = DOMAIN g \cup DOMAIN h
        /\ \A c \in DOMAIN g \cup DOMAIN h : all[c] = IF c \in DOMAIN h THEN h[c] ELSE g[c]
    BY OverrideAt
  <1> HIDE DEF all
  <1>4. PICK new : /\ Become(s, new) /\ new.pc = "flush" /\ new.set = set
                   /\ DOMAIN new \cap {"rows", "seen"} = {} /\ {"pc", "set"} \subseteq DOMAIN new
    <2>1. CASE Become(s, h) BY <1>1, <2>1
    <2>2. CASE Become(s, all)
      <3>1. /\ all.pc = "flush" /\ all.set = set
            /\ DOMAIN all \cap {"rows", "seen"} = {} /\ {"pc", "set"} \subseteq DOMAIN all
        BY <1>1, <1>3
      <3> QED BY <2>2, <3>1
    <2> QED BY <2>1, <2>2 DEF h, all
  <1> DEFINE x == After(s, new)
  <1>5. sess' = [sess EXCEPT ![s] = x] BY <1>4 DEF Become, After, SessionsInv, SessOK
  <1>6. x.rows = sess[s].rows /\ x.set = set /\ x.pc = "flush" /\ x.seen = sess[s].seen
    BY <1>4, AfterFields DEF Field
  <1> HIDE DEF x
  <1> QED BY <1>2, <1>5, <1>6, ReadsGrow

\* A session that selects pending accruals reads them so, for it had read none.
LEMMA ReadsSelecting ==
  ASSUME SessionsInv, ReadsInv, NEW s \in Session, sess[s].pc \in {"begin", "select", "rows"},
         NEW pc \in {"users", "owners"},
         NEW selected \in SUBSET Accrual, \A a \in selected : db[AccrualStatus(a)] = "pending",
         NEW added \in SUBSET Accrual, \A a \in added : a[3] = s,
         Select(s, pc, selected, added)
  PROVE  ReadsInv'
  <1> DEFINE rows == selected \cup added
             columns == {AccrualStatus(a) : a \in selected}
             new == [pc |-> pc, rows |-> rows, left |-> {a[2] : a \in rows},
                     seen |-> Reading(s, columns)]
             x == After(s, new)
  <1>1. Become(s, new) /\ Reads(s, sess[s]) BY DEF Select, ReadsInv
  <1>2. sess' = [sess EXCEPT ![s] = x] BY <1>1 DEF Become, After, SessionsInv, SessOK
  <1>3. \A a \in selected : AccrualStatus(a) \in columns OBVIOUS
  <1> HIDE DEF rows, columns
  <1>4. x.pc = pc /\ x.rows = rows /\ x.seen = Reading(s, columns) /\ x.set = sess[s].set
    BY AfterFields DEF Field
  <1> HIDE DEF x
  <1>5. ASSUME NEW a \in selected PROVE Pend(x, a)
    <2>1. AccrualStatus(a) \in columns \ DOMAIN sess[s].seen BY <1>1, <1>3, <1>5 DEF Reads
    <2>2. PICK c : c = AccrualStatus(a) OBVIOUS
    <2>3. c \in DOMAIN Reading(s, columns) /\ Reading(s, columns)[c] = db[c]
      BY <2>1, <2>2, ReadingNew
    <2> QED BY <1>4, <1>5, <2>2, <2>3 DEF Pend
  <1>6. \A a \in Accrual : AccrualStatus(a) \in DOMAIN x.set => a[3] = s
    BY <1>1, <1>4 DEF Reads, Pend
  <1>7. Reads(s, x) BY <1>4, <1>5, <1>6 DEF Reads, rows
  <1> QED BY <1>2, <1>7, OneReads

\* A session that is over has read and written nothing.
LEMMA ReadsOver ==
  ASSUME SessionsInv, ReadsInv, NEW s \in Session, sess' = [sess EXCEPT ![s] = Done]
  PROVE  ReadsInv'
  <1>1. Done.pc = "done" /\ Done.rows = {} /\ Done.set = <<>> /\ DOMAIN <<>> = {}
    BY DEF Done, Idle
  <1> HIDE DEF Done
  <1> QED BY <1>1, OneReads DEF Reads

\* No step writes an accrual of another session that it has not read as pending.
LEMMA ReadsStep == SessionsInv /\ ReadsInv /\ [Next]_vars => ReadsInv'
  <1> SUFFICES ASSUME SessionsInv, ReadsInv, [Next]_vars PROVE ReadsInv' OBVIOUS
  <1>1. ASSUME NEW s \in Session, Rollback(s) \/ Commit(s) PROVE ReadsInv'
    <2>1. sess' = [sess EXCEPT ![s] = Done] BY <1>1 DEF Rollback, Commit, Done
    <2> QED BY <2>1, ReadsOver
  <1>2. ASSUME NEW s \in Session, NEW op, Begin(s, op) PROVE ReadsInv'
    <2>1. sess[s].pc = "idle" /\ Become(s, [pc |-> "begin", op |-> op])
      BY <1>2 DEF Begin, At
    <2>2. PICK new : new = [pc |-> "begin", op |-> op] OBVIOUS
    <2>3. DOMAIN new = {"pc", "op"} /\ new.pc = "begin" BY <2>2
    <2> QED BY <2>1, <2>2, <2>3, ReadsMoving
  <1>3. ASSUME NEW s \in Session, Flushed(s) PROVE ReadsInv'
    <2>1. sess[s].pc = "flush" /\ Become(s, [pc |-> sess[s].next]) BY <1>3 DEF Flushed, At
    <2>2. sess[s].next \in {"commit", "users", "put"} BY <2>1 DEF SessionsInv, SessOK, Stage
    <2>3. PICK new : new = [pc |-> sess[s].next] OBVIOUS
    <2>4. DOMAIN new = {"pc"} /\ new.pc = sess[s].next BY <2>3
    <2> QED BY <2>1, <2>2, <2>3, <2>4, ReadsMoving
  <1>4. ASSUME NEW s \in Session, Update(s) PROVE ReadsInv'
    <2>1. PICK x : x = [sess[s] EXCEPT !.todo = Tail(@)] OBVIOUS
    <2>2. sess' = [sess EXCEPT ![s] = x] BY <1>4, <2>1 DEF Update
    <2>3. x.pc = sess[s].pc /\ x.rows = sess[s].rows /\ x.seen = sess[s].seen
          /\ x.set = sess[s].set
      BY <2>1 DEF SessionsInv, SessOK, Field
    <2> QED BY <2>2, <2>3, ReadsGrow
  <1>5. ASSUME NEW s \in Session, PutObject(s) PROVE ReadsInv'
    <2>1. PICK x : x = [sess[s] EXCEPT !.pc = "attach"] OBVIOUS
    <2>2. sess' = [sess EXCEPT ![s] = x] BY <1>5, <2>1 DEF PutObject
    <2>3. x.pc = "attach" /\ x.rows = sess[s].rows /\ x.seen = sess[s].seen
          /\ x.set = sess[s].set
      BY <2>1 DEF SessionsInv, SessOK, Field
    <2> QED BY <2>2, <2>3, ReadsGrow
  <1>6. ASSUME NEW s \in Session, Authenticate(s) PROVE ReadsInv'
    <2>1. /\ sess[s].pc = "begin"
          /\ Become(s, [pc |-> "select", seen |-> Reading(s, UserColumns(Op(s).user))])
      BY <1>6 DEF Authenticate, At
    <2>2. \A a \in Accrual : AccrualStatus(a) \notin UserColumns(Op(s).user)
      BY ColumnsApart DEF UserColumns
    <2> QED BY <2>1, <2>2, ReadsElsewhere
  <1>7. ASSUME NEW s \in Session, NEW u, ReadOwner(s, u) PROVE ReadsInv'
    <2>1. Become(s, [left |-> sess[s].left \ {u}, seen |-> Reading(s, UserColumns(u))])
      BY <1>7 DEF ReadOwner
    <2>2. \A a \in Accrual : AccrualStatus(a) \notin UserColumns(u)
      BY ColumnsApart DEF UserColumns
    <2> QED BY <2>1, <2>2, ReadsElsewhere
  <1>8. ASSUME NEW s \in Session, ReadDeal(s) PROVE ReadsInv'
    <2>1. /\ sess[s].pc = "begin"
          /\ \/ Rollback(s)
             \/ Become(s, [pc |-> "rows", seen |-> Reading(s, {DealStatus(Op(s).deal)})])
      BY <1>8 DEF ReadDeal, At
    <2>2. \A a \in Accrual : AccrualStatus(a) \notin {DealStatus(Op(s).deal)} BY ColumnsApart
    <2> QED BY <1>1, <2>1, <2>2, ReadsElsewhere
  <1>9. ASSUME NEW s \in Session, ReadRequest(s) PROVE ReadsInv'
    <2>1. /\ sess[s].pc = "begin" /\ Op(s).kind \in {"complete", "confirm", "cancel"}
          /\ \/ Rollback(s)
             \/ Become(s, [pc |-> Op(s).kind, seen |-> Reading(s, RequestColumns(Op(s).request))])
      BY <1>9 DEF ReadRequest, At, Doing
    <2>2. \A a \in Accrual : AccrualStatus(a) \notin RequestColumns(Op(s).request)
      BY ColumnsApart DEF RequestColumns
    <2> QED BY <1>1, <2>1, <2>2, ReadsElsewhere
  <1>10. ASSUME NEW s \in Session, SelectMatured(s) PROVE ReadsInv'
    <2> DEFINE payees == IF Doing(s, {"job"}) THEN User ELSE {Op(s).user}
               rows == {a \in Accrual : a[2] \in payees /\ db[AccrualStatus(a)] = "pending"}
    <2>1. /\ sess[s].pc \in {"begin", "select"}
          /\ Rollback(s) \/ Select(s, "users", rows, {})
      BY <1>10 DEF SelectMatured, At
    <2>2. rows \in SUBSET Accrual /\ \A a \in rows : db[AccrualStatus(a)] = "pending" OBVIOUS
    <2> HIDE DEF rows
    <2> QED BY <1>1, <2>1, <2>2, ReadsSelecting
  <1>11. ASSUME NEW s \in Session, SelectRows(s) PROVE ReadsInv'
    BY <1>11, DealRows, ReadsSelecting
  <1>12. ASSUME NEW s \in Session, NEW u, MatureUser(s, u) PROVE ReadsInv'
    <2> DEFINE seen == Reading(s, UserColumns(u))
               sum == Sum(u, sess[s].rows)
               left == sess[s].left \ {u}
               paid == [c \in {Balance(u)} |-> seen[c] + sum]
               due == [c \in {Pending(u)} |-> AtLeastZero(seen[c] - sum)]
               user == Override(paid, due)
               credited == [c \in {AccrualStatus(a) : a \in sess[s].rows} |-> "credited"]
               both == Override(user, credited)
               f == IF left = {} THEN both ELSE user
               next == IF left = {} THEN "commit" ELSE "users"
               g == [left |-> left]
    <2>1. Become(s, Override(g, Flushing(s, f, next))) BY <1>12 DEF MatureUser
    <2>2. DOMAIN paid = {Balance(u)} /\ DOMAIN due = {Pending(u)} /\ DOMAIN g = {"left"}
          /\ DOMAIN credited = {AccrualStatus(a) : a \in sess[s].rows}
      OBVIOUS
    <2> HIDE DEF paid, due, credited
    <2>3. DOMAIN user = DOMAIN paid \cup DOMAIN due BY OverrideAt
    <2> HIDE DEF user
    <2>4. DOMAIN both = DOMAIN user \cup DOMAIN credited BY OverrideAt
    <2> HIDE DEF both
    <2>5. DOMAIN f \subseteq {Balance(u), Pending(u)} \cup {AccrualStatus(a) : a \in sess[s].rows}
      BY <2>2, <2>3, <2>4
    <2> HIDE DEF f, next, g
    <2>6. \A a \in Accrual : AccrualStatus(a) \in DOMAIN f => a \in sess[s].rows
      BY <2>5, ColumnsApart
    <2> QED BY <2>1, <2>2, <2>6, ReadsFlushing
  <1>13. ASSUME NEW s \in Session, FlushDeal(s) PROVE ReadsInv'
    <2> DEFINE rows == sess[s].rows
               owners == {a[2] : a \in rows}
               columns == {Pending(u) : u \in owners} \cup {DealStatus(Op(s).deal)}
                            \cup {AccrualStatus(a) : a \in rows}
    <2>1. PICK f : DOMAIN f = columns /\ Become(s, Flushing(s, f, "commit"))
      BY <1>13 DEF FlushDeal
    <2>2. \A a \in Accrual : AccrualStatus(a) \in DOMAIN f => a \in rows
      BY <2>1, ColumnsApart
    <2>3. DOMAIN [left |-> {}] \subseteq {"left", "note"} OBVIOUS
    <2> QED BY <2>1, <2>2, <2>3, ReadsFlushing
  <1>14. ASSUME NEW s \in Session, AdjustBonus(s) PROVE ReadsInv'
    <2> DEFINE u == Op(s).user
               seen == Reading(s, UserColumns(u))
               change == IF Doing(s, {"credit"}) THEN Price ELSE - Price
               f == [c \in {Balance(u)} |-> seen[c] + change]
               g == [note |-> {Entry(s, u, change, NoSession)}]
    <2>1. Rollback(s) \/ Become(s, Override(g, Flushing(s, f, "commit")))
      BY <1>14 DEF AdjustBonus
    <2>2. DOMAIN f = {Balance(u)} /\ DOMAIN g = {"note"} OBVIOUS
    <2> HIDE DEF f, g
    <2> QED BY <1>1, <2>1, <2>2, ColumnsApart, ReadsFlushing
  <1>15. ASSUME NEW s \in Session, DebitHolder(s) PROVE ReadsInv'
    <2> DEFINE u == Holder[Op(s).request]
               f == [b \in {Balance(u)} |-> Reading(s, UserColumns(u))[b] - Price]
               g == [note |-> {Entry(s, u, - Price, Op(s).request)}]
    <2>1. Rollback(s) \/ Become(s, Override(g, Flushing(s, f, "put")))
      BY <1>15 DEF DebitHolder
    <2>2. DOMAIN f = {Balance(u)} /\ DOMAIN g = {"note"} OBVIOUS
    <2> HIDE DEF f, g
    <2> QED BY <1>1, <2>1, <2>2, ColumnsApart, ReadsFlushing
  <1>16. ASSUME NEW s \in Session, AttachFile(s) PROVE ReadsInv'
    <2> DEFINE c == Op(s).request
               status == [x \in {RequestStatus(c)} |-> "completed"]
               file == [x \in {FileKey(c)} |-> s]
               f == Override(status, file)
    <2>1. Become(s, Flushing(s, f, "commit")) BY <1>16 DEF AttachFile
    <2>2. DOMAIN status = {RequestStatus(c)} /\ DOMAIN file = {FileKey(c)} OBVIOUS
    <2> HIDE DEF status, file
    <2>3. DOMAIN f = DOMAIN status \cup DOMAIN file BY OverrideAt
    <2>4. DOMAIN [left |-> {}] \subseteq {"left", "note"} OBVIOUS
    <2> HIDE DEF f
    <2> QED BY <2>1, <2>2, <2>3, <2>4, ColumnsApart, ReadsFlushing
  <1>17. ASSUME NEW s \in Session, NEW new, MoveRequest(s, new) PROVE ReadsInv'
    <2> DEFINE f == [x \in {RequestStatus(Op(s).request)} |-> new]
    <2>1. Become(s, Flushing(s, f, "commit")) BY <1>17 DEF MoveRequest
    <2>2. DOMAIN f = {RequestStatus(Op(s).request)} OBVIOUS
    <2>3. DOMAIN [left |-> {}] \subseteq {"left", "note"} OBVIOUS
    <2> HIDE DEF f
    <2> QED BY <2>1, <2>2, <2>3, ColumnsApart, ReadsFlushing
  <1>18. CASE UNCHANGED vars BY <1>18 DEF vars, ReadsInv, Reads, Pend
  <1>19. ASSUME NEW s \in Session, Proceed(s) PROVE ReadsInv'
    BY <1>1, <1>3, <1>4, <1>5, <1>6, <1>7, <1>8, <1>9, <1>10, <1>11, <1>12, <1>13, <1>14,
       <1>15, <1>16, <1>17, <1>19
       DEF Proceed, CancelRequest, ConfirmRequest
  <1> QED BY <1>1, <1>2, <1>18, <1>19 DEF Next, Crash, BreakDeadlock

\* What a session may write to an accrual of another it has read as pending.
LEMMA ReadsInvariant == Spec => [](SessionsInv /\ ReadsInv)
  <1>1. Init => ReadsInv
    <2> SUFFICES ASSUME Init PROVE ReadsInv OBVIOUS
    <2>1. Idle.seen = <<>> /\ Idle.set = <<>> /\ Idle.rows = {} /\ DOMAIN <<>> = {}
      BY DEF Idle
    <2>2. \A s \in Session : sess[s] = Idle BY DEF Init
    <2> HIDE DEF Idle
    <2> QED BY <2>1, <2>2 DEF ReadsInv, Reads
  <1> QED BY <1>1, SessionsInit, SessionsStep, ReadsStep, PTL DEF Spec

\* No call that overlaps another makes an accrual pending again, and one that
\* overwrites an accrual already settled had selected it as pending.
THEOREM SettledOnceAndForAll == Spec => SettledForGood
  <1>1. SessionsInv /\ ReadsInv /\ [Next]_vars =>
          [\A a \in Accrual :
             /\ db[AccrualStatus(a)] \in Settled
             /\ db'[AccrualStatus(a)] # db[AccrualStatus(a)]
             => /\ db'[AccrualStatus(a)] \in Settled
                /\ \E s \in Session : At(s, "commit") /\ ~ At(s, "commit")' /\ ReadPending(s, a)]_vars
    <2> SUFFICES ASSUME SessionsInv, ReadsInv, [Next]_vars, NEW a \in Accrual,
                        db[AccrualStatus(a)] \in Settled,
                        db'[AccrualStatus(a)] # db[AccrualStatus(a)]
                 PROVE  /\ db'[AccrualStatus(a)] \in Settled
                        /\ \E s \in Session :
                             At(s, "commit") /\ ~ At(s, "commit")' /\ ReadPending(s, a)
      OBVIOUS
    <2>1. PICK s \in Session : Commit(s) BY OnlyCommits
    <2>2. SessOK(s, sess[s]) /\ Reads(s, sess[s]) /\ AccrualStatus(a) \in DOMAIN db
      BY ColumnsOfRows DEF SessionsInv, DbOK, ReadsInv
    <2>3. sess[s].pc = "commit" /\ AccrualStatus(a) \in DOMAIN db'
      BY <2>1, <2>2, CommitWrites
    <2>4. a[3] # s BY <2>2, <2>3 DEF SessOK, There, Settled
    <2>5. /\ AccrualStatus(a) \in DOMAIN sess[s].set
          /\ Assignable(s, AccrualStatus(a), db'[AccrualStatus(a)])
      BY <2>1, <2>3, CommitWrites
    <2>6. db'[AccrualStatus(a)] \in Settled BY <2>4, <2>5 DEF Assignable, Value, Settled
    <2>7. ReadPending(s, a) BY <2>2, <2>4, <2>5 DEF Reads, Pend, ReadPending
    <2>8. sess'[s].pc = "done" BY <2>1 DEF Commit, Idle, SessionsInv
    <2> QED BY <2>3, <2>6, <2>7, <2>8 DEF At
  <1> QED BY ReadsInvariant, <1>1, PTL DEF Spec, SettledForGood
=============================================================================
