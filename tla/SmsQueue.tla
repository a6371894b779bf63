------------------------------ MODULE SmsQueue ------------------------------
(***************************************************************************)
(* The queue of SMS notifications: NotificationService.send adds rows to   *)
(* sms_notifications, and send_pending_sms_job, every minute, hands the    *)
(* oldest of them to SMSC one by one and records all outcomes in a single  *)
(* commit at the end of its run.  The job is the only writer of a row that *)
(* is in the queue, and there is one job (one process, one instance).      *)
(* Time is kept as the age of what was sent, so that it never ends.        *)
(***************************************************************************)
EXTENDS Naturals, Sequences, FiniteSets

CONSTANTS
    User,         \* users with a phone
    BatchSize,    \* BATCH_SIZE
    Day,          \* ticks of the clock in the window of the daily limit
    Limits,       \* values administrators save in sms_daily_limit_per_user
    DefaultLimit, \* its value before any is saved
    MaxMessages,  \* bound on the rows ever queued
    MaxCrashes    \* bound on the deaths of the job

ASSUME QueueAssumption ==
    /\ IsFiniteSet(User) /\ IsFiniteSet(Limits)
    /\ Limits \subseteq Nat /\ DefaultLimit \in Nat
    /\ BatchSize \in Nat \ {0} /\ Day \in Nat
    /\ MaxMessages \in Nat /\ MaxCrashes \in Nat

VARIABLES
    queue,     \* the sms_notifications table, by id; age: since sent_at
    delivered, \* how often each message was really delivered
    limit,     \* settings.sms_daily_limit_per_user
    job,       \* the run of the job in progress
    crashes    \* deaths of the job so far

vars == <<queue, delivered, limit, job, crashes>>

SmsStatus == {"pending", "sent", "failed"}
Ages == 0..(Day + 1)
Id == 1..MaxMessages

NoOutcome == [i \in {} |-> 0]

\* left: the rest of the batch; limit: as read; count: sent_today, by user;
\* outcome: what the job will record, by id.
Idle == [pc |-> "idle", left |-> {}, limit |-> 0,
         count |-> [u \in User |-> 0], outcome |-> NoOutcome]

Outcome == [status : SmsStatus, age : Ages]

Ids(status) == {i \in DOMAIN queue : queue[i].status = status}

TypeOK ==
    /\ queue \in Seq([user : User, status : SmsStatus, age : Ages])
    /\ Len(queue) <= MaxMessages
    /\ delivered \in [Id -> Nat]
    /\ limit \in Limits \cup {DefaultLimit}
    /\ job \in [pc : {"idle", "sending"}, left : SUBSET Ids("pending"),
               limit : Nat, count : [User -> Nat],
               outcome : UNION {[batch -> Outcome] : batch \in SUBSET Ids("pending")}]
    /\ crashes \in 0..MaxCrashes

Init ==
    /\ queue = <<>>
    /\ delivered = [i \in Id |-> 0]
    /\ limit = DefaultLimit
    /\ job = Idle
    /\ crashes = 0

-----------------------------------------------------------------------------
\* NotificationService.send, committed with its caller's transaction.
Enqueue(u) ==
    /\ Len(queue) < MaxMessages
    /\ queue' = Append(queue, [user |-> u, status |-> "pending", age |-> 0])
    /\ UNCHANGED <<delivered, limit, job, crashes>>

\* SettingsService.update; the job reads the row, not the cache.
SaveLimit(new) ==
    /\ limit' = new
    /\ UNCHANGED <<queue, delivered, job, crashes>>

-----------------------------------------------------------------------------
(* send_pending_sms_job *)

\* Mutant of Recent: the window of the limit has no start.
RecentEver(i) == queue[i].status = "sent"

\* sent_at >= now - 1 day
Recent(i) == queue[i].status = "sent" /\ queue[i].age <= Day

SentLastDay(u) == Cardinality({i \in DOMAIN queue : queue[i].user = u /\ Recent(i)})

\* Mutant of Pending: failed messages are tried again.
PendingOrFailed == Ids("pending") \cup Ids("failed")

Pending == Ids("pending")

\* The ids, oldest first, that a run takes.
Batch ==
    LET ahead(i) == Cardinality({j \in Pending : j < i})
    IN  {i \in Pending : ahead(i) < BatchSize}

StartJob ==
    /\ job.pc = "idle"
    /\ Pending # {}
    /\ job' = [pc |-> "sending", left |-> Batch, limit |-> limit,
               count |-> [u \in User |-> SentLastDay(u)], outcome |-> NoOutcome]
    /\ UNCHANGED <<queue, delivered, limit, crashes>>

\* The message whose turn it is.
Current(i) == job.pc = "sending" /\ i \in job.left /\ \A j \in job.left : i <= j
OverLimit(i) == job.count[queue[i].user] >= job.limit

\* A message is done with; it is counted if it was sent.
Record(i, status) ==
    [job EXCEPT !.left = @ \ {i},
       !.count = [u \in User |-> IF u = queue[i].user /\ status = "sent"
                                 THEN @[u] + 1 ELSE @[u]],
       !.outcome = [j \in DOMAIN @ \cup {i} |->
                      IF j = i THEN [status |-> status, age |-> 0] ELSE @[j]]]

Defer(i) ==
    /\ Current(i)
    /\ OverLimit(i)
    /\ job' = [job EXCEPT !.left = @ \ {i}]
    /\ UNCHANGED <<queue, delivered, limit, crashes>>

\* Mutant of Send: the count of the batch is not carried on.
SendUncounted(i) ==
    /\ Current(i)
    /\ ~ OverLimit(i)
    /\ delivered' = [delivered EXCEPT ![i] = @ + 1]
    /\ job' = [Record(i, "sent") EXCEPT !.count = job.count]
    /\ UNCHANGED <<queue, limit, crashes>>

Send(i) ==
    /\ Current(i)
    /\ ~ OverLimit(i)
    /\ delivered' = [delivered EXCEPT ![i] = @ + 1]
    /\ job' = Record(i, "sent")
    /\ UNCHANGED <<queue, limit, crashes>>

\* Mutant of SendRaises: an exception leaves the message as sent.
SendRaisesSwallowed(i, reached) ==
    /\ Current(i)
    /\ ~ OverLimit(i)
    /\ delivered' = [delivered EXCEPT ![i] = @ + (IF reached THEN 1 ELSE 0)]
    /\ job' = Record(i, "sent")
    /\ UNCHANGED <<queue, limit, crashes>>

\* SMSC answers with an error, or the answer is lost after the message has
\* reached it: either way the message is failed, and not tried again.
SendRaises(i, reached) ==
    /\ Current(i)
    /\ ~ OverLimit(i)
    /\ delivered' = [delivered EXCEPT ![i] = @ + (IF reached THEN 1 ELSE 0)]
    /\ job' = Record(i, "failed")
    /\ UNCHANGED <<queue, limit, crashes>>

CommitBatch ==
    /\ job.pc = "sending"
    /\ job.left = {}
    /\ queue' = [i \in DOMAIN queue |->
                   IF i \in DOMAIN job.outcome
                   THEN [user |-> queue[i].user, status |-> job.outcome[i].status,
                         age |-> job.outcome[i].age]
                   ELSE queue[i]]
    /\ job' = Idle
    /\ UNCHANGED <<delivered, limit, crashes>>

\* The process dies, or the commit fails: no outcome is recorded.
Crash ==
    /\ job.pc = "sending"
    /\ crashes < MaxCrashes
    /\ crashes' = crashes + 1
    /\ job' = Idle
    /\ UNCHANGED <<queue, delivered, limit>>

Older(entry) ==
    [entry EXCEPT !.age = IF entry.status = "sent" /\ @ <= Day THEN @ + 1 ELSE @]

Tick ==
    /\ queue' = [i \in DOMAIN queue |-> Older(queue[i])]
    /\ job' = [job EXCEPT !.outcome = [i \in DOMAIN @ |-> Older(@[i])]]
    /\ UNCHANGED <<delivered, limit, crashes>>

Next ==
    \/ \E u \in User : Enqueue(u)
    \/ \E new \in Limits : SaveLimit(new)
    \/ StartJob
    \/ \E i \in Id :
        \/ Defer(i)
        \/ Send(i)
        \/ \E reached \in BOOLEAN : SendRaises(i, reached)
    \/ CommitBatch
    \/ Crash
    \/ Tick

Spec == Init /\ [][Next]_vars

\* The scheduler starts the job every minute, each call of SMSC returns or
\* raises, and time passes.
JobStep ==
    \/ StartJob
    \/ \E i \in Id : Defer(i) \/ Send(i) \/ (\E reached \in BOOLEAN : SendRaises(i, reached))
    \/ CommitBatch
FairSpec == Spec /\ WF_vars(JobStep) /\ WF_vars(Tick)

-----------------------------------------------------------------------------
\* No more messages to a user are recorded as sent within a day than some limit
\* that administrators have set, however runs, deferrals and changes of the
\* limit fall (_send_batch counts the last day's messages and its own).
DailyLimitKept ==
    \A u \in User : \E l \in Limits \cup {DefaultLimit} : SentLastDay(u) <= l

\* A message is delivered again only when a run died before its commit: once
\* per death at most, and never after a failure was recorded.
RepeatedOnlyByCrash == \A i \in Id : delivered[i] <= 1 + crashes

\* A message recorded as sent was delivered.
SentWasDelivered == \A i \in Ids("sent") : delivered[i] > 0

\* The table tells the truth about what SMSC delivered, which the job never
\* learns: what it calls sent arrived, and once, but for runs that died.
DeliveredAsRecorded == RepeatedOnlyByCrash /\ SentWasDelivered

\* Every queued message is sent or fails in the end, also behind messages of
\* users over their limit, provided the limit does not stay zero.
EventuallyHandled ==
    <>[](limit > 0) =>
        \A i \in Id : (i \in DOMAIN queue /\ queue[i].status = "pending")
                        ~> (i \in DOMAIN queue /\ queue[i].status # "pending")
=============================================================================
