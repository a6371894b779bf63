--------------------------- MODULE SmsQueueProofs ---------------------------
(***************************************************************************)
(* The SMS queue keeps its types; a message is repeated once per death of  *)
(* the job at most; what is recorded as sent was delivered; and the daily  *)
(* limit holds, for any queue, batch, window and sequence of limits.       *)
(***************************************************************************)
EXTENDS SmsQueue, FiniteSetTheorems, SequenceTheorems, TLAPS

Row == [user : User, status : SmsStatus, age : Ages]

JobType ==
    [pc : {"idle", "sending"}, left : SUBSET Ids("pending"),
     limit : Nat, count : [User -> Nat],
     outcome : UNION {[batch -> Outcome] : batch \in SUBSET Ids("pending")}]

\* A run that is over has left nothing behind; one under way has a limit that
\* was in force, and is done with the messages whose outcome it holds.
JobShape ==
    /\ job.pc = "idle" => job.outcome = NoOutcome /\ job.left = {}
    /\ job.pc = "sending" => job.limit \in Limits \cup {DefaultLimit}
    /\ job.left \cap DOMAIN job.outcome = {}
    /\ \A i \in DOMAIN job.outcome : job.outcome[i].status \in {"sent", "failed"}

Done(i) ==
    \/ i \in DOMAIN job.outcome
    \/ i \in DOMAIN queue /\ queue[i].status # "pending"

\* A message that is not done with was delivered only by runs that died.
Deliveries ==
    \A i \in Id : delivered[i] <= IF Done(i) THEN 1 + crashes ELSE crashes

\* What is recorded, or will be, as sent was delivered.
OutcomesTrue ==
    /\ SentWasDelivered
    /\ \A i \in DOMAIN job.outcome : job.outcome[i].status = "sent" => delivered[i] > 0

\* The messages of u that count against the limit, with those of the batch.
RecentOf(u) == {i \in DOMAIN queue : queue[i].user = u /\ Recent(i)}
NowOf(u) == {i \in DOMAIN job.outcome : queue[i].user = u /\ job.outcome[i].status = "sent"}
Counted(u) == RecentOf(u) \cup NowOf(u)

WithinLimit ==
    \A u \in User : \E l \in Limits \cup {DefaultLimit} : Cardinality(Counted(u)) <= l
CountKept ==
    job.pc = "sending" => \A u \in User : Cardinality(Counted(u)) <= job.count[u]

QueueInv ==
    /\ TypeOK /\ JobShape
    /\ Deliveries /\ OutcomesTrue
    /\ WithinLimit /\ CountKept

-----------------------------------------------------------------------------
(* Types. *)

\* Changing the entries of a sequence keeps it a sequence.
LEMMA MapSeq ==
  ASSUME NEW S, NEW s \in Seq(S), NEW t \in [DOMAIN s -> S]
  PROVE  t \in Seq(S) /\ Len(t) = Len(s) /\ DOMAIN t = DOMAIN s
  <1>1. DOMAIN s = 1..Len(s) /\ Len(s) \in Nat BY LenProperties
  <1>2. t \in Seq(S) BY <1>1, SeqDef
  <1> QED BY <1>1, <1>2, LenProperties

\* The types of the queue and of the job, unfolded.
LEMMA Unfolded ==
  ASSUME TypeOK
  PROVE  /\ queue \in Seq(Row) /\ DOMAIN queue = 1..Len(queue) /\ Len(queue) \in Nat
         /\ DOMAIN queue \subseteq Id
         /\ \A i \in DOMAIN queue : queue[i] \in Row
         /\ job.left \subseteq Ids("pending") /\ DOMAIN job.outcome \subseteq Ids("pending")
         /\ \A i \in DOMAIN job.outcome : job.outcome[i] \in Outcome
         /\ job.outcome \in [DOMAIN job.outcome -> Outcome]
  <1>1. queue \in Seq(Row) /\ Len(queue) <= MaxMessages BY DEF TypeOK, Row
  <1>2. DOMAIN queue = 1..Len(queue) /\ Len(queue) \in Nat
        /\ \A i \in DOMAIN queue : queue[i] \in Row
    BY <1>1, LenProperties, ElementOfSeq
  <1>3. DOMAIN queue \subseteq Id BY <1>1, <1>2, QueueAssumption DEF Id
  <1>4. PICK batch \in SUBSET Ids("pending") : job.outcome \in [batch -> Outcome]
    BY DEF TypeOK
  <1>5. job.left \subseteq Ids("pending") BY DEF TypeOK
  <1> QED BY <1>1, <1>2, <1>3, <1>4, <1>5

\* A set of rows or outcomes of the queue is finite.
LEMMA CountedFinite ==
  ASSUME TypeOK, NEW S \in SUBSET (DOMAIN queue)
  PROVE  IsFiniteSet(S) /\ Cardinality(S) \in Nat
  <1>1. IsFiniteSet(DOMAIN queue) BY Unfolded, FS_Interval
  <1> QED BY <1>1, FS_Subset, FS_CardinalityType

\* The rows a user is counted by are finitely many.
LEMMA CountedRows ==
  ASSUME TypeOK, NEW u \in User
  PROVE  /\ IsFiniteSet(Counted(u)) /\ Cardinality(Counted(u)) \in Nat
         /\ SentLastDay(u) = Cardinality(RecentOf(u)) /\ SentLastDay(u) \in Nat
         /\ SentLastDay(u) <= Cardinality(Counted(u))
  <1>1. Counted(u) \subseteq DOMAIN queue /\ RecentOf(u) \subseteq Counted(u)
    BY Unfolded DEF Counted, RecentOf, NowOf, Ids
  <1>2. IsFiniteSet(Counted(u)) /\ Cardinality(Counted(u)) \in Nat
    BY <1>1, CountedFinite
  <1>3. Cardinality(RecentOf(u)) \in Nat BY <1>1, CountedFinite
  <1>4. Cardinality(RecentOf(u)) <= Cardinality(Counted(u)) BY <1>1, <1>2, FS_Subset
  <1>5. SentLastDay(u) = Cardinality(RecentOf(u)) BY DEF SentLastDay, RecentOf
  <1> QED BY <1>2, <1>3, <1>4, <1>5

\* The job after a message is done with.
LEMMA Recorded ==
  ASSUME TypeOK, NEW i \in Id, Current(i), NEW s \in {"sent", "failed"},
         job' = Record(i, s), queue' = queue
  PROVE  /\ job' \in JobType
         /\ job'.pc = "sending" /\ job'.limit = job.limit
         /\ job'.left = job.left \ {i}
         /\ DOMAIN job'.outcome = DOMAIN job.outcome \cup {i}
         /\ job'.outcome[i] = [status |-> s, age |-> 0]
         /\ \A j \in DOMAIN job.outcome \ {i} : job'.outcome[j] = job.outcome[j]
         /\ \A u \in User : job'.count[u] = IF u = queue[i].user /\ s = "sent"
                                           THEN job.count[u] + 1 ELSE job.count[u]
  <1>1. i \in Ids("pending") /\ i \in DOMAIN queue /\ queue[i].user \in User /\ job.pc = "sending"
    BY Unfolded DEF Current, Ids, Row
  <1>2. [status |-> s, age |-> 0] \in Outcome
    BY QueueAssumption DEF Outcome, SmsStatus, Ages
  <1> DEFINE outcome == [j \in DOMAIN job.outcome \cup {i} |->
                           IF j = i THEN [status |-> s, age |-> 0] ELSE job.outcome[j]]
  <1> DEFINE count == [u \in User |-> IF u = queue[i].user /\ s = "sent"
                                      THEN job.count[u] + 1 ELSE job.count[u]]
  <1>3. job' = [job EXCEPT !.left = job.left \ {i}, !.count = count, !.outcome = outcome]
    BY DEF Record, TypeOK
  <1>4. outcome \in [DOMAIN job.outcome \cup {i} -> Outcome] BY <1>2, Unfolded
  <1>5. DOMAIN job.outcome \cup {i} \in SUBSET Ids("pending") BY <1>1, Unfolded
  <1>6. outcome \in UNION {[batch -> Outcome] : batch \in SUBSET Ids("pending")} BY <1>4, <1>5
  <1>7. count \in [User -> Nat] BY DEF TypeOK
  <1> HIDE DEF outcome, count
  <1>8. /\ job' \in JobType
        /\ job'.pc = "sending" /\ job'.limit = job.limit /\ job'.left = job.left \ {i}
        /\ job'.outcome = outcome /\ job'.count = count
    BY <1>1, <1>3, <1>6, <1>7 DEF TypeOK, JobType
  <1> QED BY <1>8 DEF outcome, count

-----------------------------------------------------------------------------
(* The invariant, one lemma per kind of step. *)

\* Steps on the queue that keep its rows' ids: what they are afterwards.
LEMMA Aged ==
  ASSUME TypeOK, NEW e \in Row \cup Outcome
  PROVE  /\ Older(e).status = e.status /\ Older(e).age \in Ages
         /\ e.age > Day => Older(e).age > Day
         /\ e \in Row => Older(e) \in Row /\ Older(e).user = e.user
         /\ e \in Outcome => Older(e) \in Outcome
  <1>1. e.age \in Ages BY DEF Row, Outcome
  <1>2. (IF e.status = "sent" /\ e.age <= Day THEN e.age + 1 ELSE e.age) \in Ages
    BY <1>1, QueueAssumption DEF Ages
  <1> DEFINE age == IF e.status = "sent" /\ e.age <= Day THEN e.age + 1 ELSE e.age
  <1>3. Older(e) = [e EXCEPT !.age = age] BY DEF Older
  <1>4. e.age > Day => age > Day BY <1>1, QueueAssumption DEF Ages
  <1> HIDE DEF age
  <1>5. CASE e \in Row BY <1>2, <1>3, <1>4, <1>5 DEF Row, Outcome, age
  <1>6. CASE e \in Outcome BY <1>2, <1>3, <1>4, <1>6 DEF Row, Outcome, age
  <1> QED BY <1>5, <1>6

\* No job is one of the jobs.
LEMMA IdleType == Idle \in JobType
  <1>1. NoOutcome \in [{} -> Outcome] BY DEF NoOutcome
  <1>2. NoOutcome \in UNION {[batch -> Outcome] : batch \in SUBSET Ids("pending")} BY <1>1
  <1> HIDE DEF NoOutcome
  <1> QED BY <1>2 DEF Idle, JobType

\* An entry is added, settings are saved.
LEMMA EnqueueTypes ==
  ASSUME TypeOK, NEW u \in User, Enqueue(u)
  PROVE  /\ TypeOK'
         /\ DOMAIN queue \subseteq DOMAIN queue'
         /\ \A i \in DOMAIN queue : queue'[i] = queue[i]
         /\ \A i \in DOMAIN queue' \ DOMAIN queue : queue'[i].status = "pending"
  <1> DEFINE new == [user |-> u, status |-> "pending", age |-> 0]
  <1>1. new \in Row BY QueueAssumption DEF Row, SmsStatus, Ages
  <1>2. queue' = Append(queue, new) BY DEF Enqueue
  <1> HIDE DEF new
  <1>3. /\ queue' \in Seq(Row) /\ Len(queue') = Len(queue) + 1
        /\ \A i \in 1..Len(queue) : queue'[i] = queue[i]
        /\ queue'[Len(queue) + 1] = new
    BY <1>1, <1>2, Unfolded, AppendProperties
  <1>4. DOMAIN queue' = 1..(Len(queue) + 1) BY <1>3, LenProperties
  <1>5. DOMAIN queue = 1..Len(queue) /\ Len(queue) \in Nat BY Unfolded
  <1>6. DOMAIN queue' = DOMAIN queue \cup {Len(queue) + 1} /\ Len(queue) + 1 \notin DOMAIN queue
    BY <1>4, <1>5
  <1>7. Len(queue') <= MaxMessages BY <1>3, <1>5, QueueAssumption DEF Enqueue
  <1>8. Ids("pending") \subseteq Ids("pending")' BY <1>3, <1>5, <1>6 DEF Ids
  <1>9. job \in JobType BY DEF TypeOK, JobType
  <1>10. job' \in JobType' BY <1>8, <1>9 DEF JobType, Enqueue
  <1>11. TypeOK' BY <1>3, <1>7, <1>10 DEF TypeOK, Enqueue, Row, JobType
  <1>12. \A i \in DOMAIN queue' \ DOMAIN queue : queue'[i].status = "pending"
    BY <1>3, <1>6 DEF new
  <1> QED BY <1>3, <1>5, <1>6, <1>11, <1>12

\* StartJob keeps the types.
LEMMA StartTypes ==
  ASSUME TypeOK, StartJob
  PROVE  TypeOK'
  <1>1. Batch \in SUBSET Ids("pending") BY DEF Batch, Pending
  <1>2. [u \in User |-> SentLastDay(u)] \in [User -> Nat] BY CountedRows
  <1>3. limit \in Nat BY QueueAssumption DEF TypeOK
  <1>4. NoOutcome \in UNION {[batch -> Outcome] : batch \in SUBSET Ids("pending")}
    BY IdleType DEF JobType, Idle
  <1>5. UNCHANGED queue BY DEF StartJob
  <1>6. job' \in JobType BY <1>1, <1>2, <1>3, <1>4 DEF StartJob, JobType
  <1> QED BY <1>5, <1>6 DEF TypeOK, StartJob, JobType, Ids

\* Every other step keeps the ids of the queue.
LEMMA TypeStep ==
  ASSUME TypeOK, [Next]_vars
  PROVE  TypeOK'
  <1>1. ASSUME NEW new \in Limits, SaveLimit(new) PROVE TypeOK'
    BY <1>1 DEF SaveLimit, TypeOK, Ids
  <1>2. ASSUME NEW i \in Id, Defer(i) PROVE TypeOK'
    <2>1. job' = [job EXCEPT !.left = job.left \ {i}] /\ UNCHANGED <<queue, delivered, limit, crashes>>
      BY <1>2 DEF Defer, TypeOK
    <2> QED BY <2>1 DEF TypeOK, Ids
  <1>3. ASSUME NEW i \in Id, NEW n \in {0, 1}, NEW s \in {"sent", "failed"}, Current(i),
               delivered' = [delivered EXCEPT ![i] = @ + n],
               job' = Record(i, s), UNCHANGED <<queue, limit, crashes>>
        PROVE  TypeOK'
    <2>1. job' \in JobType BY <1>3, Recorded
    <2>2. delivered' \in [Id -> Nat] BY <1>3 DEF TypeOK
    <2> QED BY <1>3, <2>1, <2>2 DEF TypeOK, Ids, JobType
  <1>4. ASSUME CommitBatch PROVE TypeOK'
    <2>1. \A i \in DOMAIN queue :
            (IF i \in DOMAIN job.outcome
             THEN [user |-> queue[i].user, status |-> job.outcome[i].status,
                   age |-> job.outcome[i].age]
             ELSE queue[i]) \in Row
      BY Unfolded DEF Row, Outcome
    <2>2. queue' \in [DOMAIN queue -> Row] BY <1>4, <2>1 DEF CommitBatch
    <2>3. queue' \in Seq(Row) /\ Len(queue') = Len(queue) BY <2>2, Unfolded, MapSeq
    <2>4. Len(queue') <= MaxMessages BY <2>3 DEF TypeOK
    <2>5. job' \in JobType' BY <1>4, IdleType, <2>3 DEF CommitBatch, JobType, Idle, NoOutcome
    <2> QED BY <1>4, <2>3, <2>4, <2>5 DEF TypeOK, CommitBatch, Row, JobType
  <1>5. ASSUME Crash PROVE TypeOK'
    <2>1. job' \in JobType BY <1>5, IdleType DEF Crash
    <2>2. crashes' \in 0..MaxCrashes BY <1>5, QueueAssumption DEF Crash, TypeOK
    <2> QED BY <1>5, <2>1, <2>2 DEF TypeOK, Crash, Ids, JobType
  <1>6. ASSUME Tick PROVE TypeOK'
    <2>1. queue' \in [DOMAIN queue -> Row]
      <3>1. \A i \in DOMAIN queue : Older(queue[i]) \in Row BY Unfolded, Aged
      <3> QED BY <1>6, <3>1 DEF Tick
    <2>2. queue' \in Seq(Row) /\ Len(queue') = Len(queue) /\ DOMAIN queue' = DOMAIN queue
      BY <2>1, Unfolded, MapSeq
    <2>3. Ids("pending")' = Ids("pending")
      <3>1. \A i \in DOMAIN queue : queue'[i].status = queue[i].status
        BY <1>6, Unfolded, Aged DEF Tick
      <3> QED BY <2>2, <3>1 DEF Ids
    <2>4. job' \in JobType
      <3> DEFINE outcome == [i \in DOMAIN job.outcome |-> Older(job.outcome[i])]
      <3>1. outcome \in [DOMAIN job.outcome -> Outcome] BY Unfolded, Aged
      <3>2. outcome \in UNION {[batch -> Outcome] : batch \in SUBSET Ids("pending")}
        BY <3>1, Unfolded
      <3>3. job' = [job EXCEPT !.outcome = outcome] BY <1>6 DEF Tick, TypeOK
      <3> HIDE DEF outcome
      <3> QED BY <3>2, <3>3 DEF TypeOK, JobType
    <2>5. job' \in JobType' BY <2>3, <2>4 DEF JobType
    <2>6. Len(queue') <= MaxMessages BY <2>2 DEF TypeOK
    <2> QED BY <1>6, <2>2, <2>5, <2>6 DEF TypeOK, Tick, Row, JobType
  <1>7. ASSUME NEW i \in Id, Send(i) PROVE TypeOK'
    BY <1>3, <1>7 DEF Send
  <1>8. ASSUME NEW i \in Id, NEW reached \in BOOLEAN, SendRaises(i, reached) PROVE TypeOK'
    BY <1>3, <1>8 DEF SendRaises
  <1>9. ASSUME UNCHANGED vars PROVE TypeOK'
    BY <1>9 DEF vars, TypeOK, Ids
  <1> QED BY <1>1, <1>2, <1>4, <1>5, <1>6, <1>7, <1>8, <1>9, EnqueueTypes, StartTypes DEF Next

\* Every step keeps what the job has left in step with the queue.
LEMMA ShapeStep ==
  ASSUME TypeOK, JobShape, [Next]_vars
  PROVE  JobShape'
  <1>1. ASSUME UNCHANGED job PROVE JobShape' BY <1>1 DEF JobShape
  <1>2. ASSUME StartJob PROVE JobShape'
    BY <1>2 DEF StartJob, JobShape, NoOutcome, TypeOK
  <1>3. ASSUME NEW i \in Id, Defer(i) PROVE JobShape'
    <2>1. job' = [job EXCEPT !.left = job.left \ {i}] BY <1>3 DEF Defer, TypeOK
    <2> QED BY <1>3, <2>1 DEF JobShape, Defer, Current, TypeOK
  <1>4. ASSUME NEW i \in Id, NEW s \in {"sent", "failed"}, Current(i),
               job' = Record(i, s), UNCHANGED queue
        PROVE  JobShape'
    BY <1>4, Recorded DEF JobShape, Current
  <1>5. ASSUME job' = Idle PROVE JobShape'
    BY <1>5 DEF JobShape, Idle, NoOutcome
  <1>6. ASSUME Tick PROVE JobShape'
    <2> DEFINE outcome == [i \in DOMAIN job.outcome |-> Older(job.outcome[i])]
    <2>1. \A i \in DOMAIN outcome : outcome[i].status = job.outcome[i].status
      BY Unfolded, Aged
    <2>2. job' = [job EXCEPT !.outcome = outcome] BY <1>6 DEF Tick, TypeOK
    <2>3. DOMAIN job.outcome = {} => outcome = NoOutcome BY DEF NoOutcome
    <2>4. DOMAIN outcome = DOMAIN job.outcome OBVIOUS
    <2> HIDE DEF outcome
    <2>5. job'.pc = job.pc /\ job'.left = job.left /\ job'.limit = job.limit /\ job'.outcome = outcome
      BY <2>2 DEF TypeOK
    <2>6. job.outcome = NoOutcome => DOMAIN job.outcome = {} BY DEF NoOutcome
    <2>7. \A i \in DOMAIN outcome : outcome[i].status \in {"sent", "failed"}
      BY <2>1, <2>4 DEF JobShape
    <2> HIDE DEF NoOutcome
    <2> QED BY <2>3, <2>4, <2>5, <2>6, <2>7 DEF JobShape
  <1>7. ASSUME NEW i \in Id, Send(i) PROVE JobShape' BY <1>4, <1>7 DEF Send
  <1>8. ASSUME NEW i \in Id, NEW reached \in BOOLEAN, SendRaises(i, reached) PROVE JobShape'
    BY <1>4, <1>8 DEF SendRaises
  <1> QED BY <1>1, <1>2, <1>3, <1>5, <1>6, <1>7, <1>8
          DEF Next, vars, Enqueue, SaveLimit, CommitBatch, Crash

DeliveryInv == Deliveries /\ OutcomesTrue

\* One turn of the loop delivers once at most, and is done with the message.
LEMMA SendDelivers ==
  ASSUME TypeOK, JobShape, DeliveryInv, NEW i \in Id, NEW n \in {0, 1},
         NEW s \in {"sent", "failed"}, s = "sent" => n = 1, Current(i),
         delivered' = [delivered EXCEPT ![i] = @ + n],
         job' = Record(i, s), UNCHANGED <<queue, limit, crashes>>
  PROVE  DeliveryInv'
  <1>1. i \in Ids("pending") /\ ~ Done(i)
    BY Unfolded DEF Current, JobShape, Done, Ids
  <1>2. \A j \in Id : Done(j)' <=> Done(j) \/ j = i BY Recorded DEF Done
  <1>3. \A j \in Id : delivered'[j] = IF j = i THEN delivered[j] + n ELSE delivered[j]
    BY DEF TypeOK
  <1>4. crashes \in Nat /\ \A j \in Id : delivered[j] \in Nat BY QueueAssumption DEF TypeOK
  <1>5. Deliveries'
    BY <1>1, <1>2, <1>3, <1>4 DEF DeliveryInv, Deliveries
  <1>6. OutcomesTrue'
    <2>1. \A j \in Id : delivered[j] > 0 => delivered'[j] > 0 BY <1>3, <1>4
    <2>2. s = "sent" => delivered'[i] > 0 BY <1>3, <1>4
    <2>3. Ids("sent") \subseteq Id /\ DOMAIN job.outcome \subseteq Id BY Unfolded DEF Ids
    <2>4. SentWasDelivered' BY <2>1, <2>3 DEF DeliveryInv, OutcomesTrue, SentWasDelivered, Ids
    <2>5. \A j \in DOMAIN job'.outcome : job'.outcome[j].status = "sent" => delivered'[j] > 0
      BY <2>1, <2>2, <2>3, Recorded DEF DeliveryInv, OutcomesTrue
    <2> QED BY <2>4, <2>5 DEF OutcomesTrue
  <1> QED BY <1>5, <1>6 DEF DeliveryInv

\* Every step keeps the deliveries in step with the queue.
LEMMA DeliveryStep ==
  ASSUME TypeOK, JobShape, DeliveryInv, [Next]_vars
  PROVE  DeliveryInv'
  <1>0. crashes \in Nat /\ \A j \in Id : delivered[j] \in Nat BY QueueAssumption DEF TypeOK
  <1>1. ASSUME NEW u \in User, Enqueue(u) PROVE DeliveryInv'
    <2>1. UNCHANGED <<job, delivered, crashes>> BY <1>1 DEF Enqueue
    <2>2. \A j \in Id : Done(j)' <=> Done(j)
      BY <1>1, <2>1, EnqueueTypes DEF Done
    <2>3. Ids("sent")' = Ids("sent") BY <1>1, EnqueueTypes DEF Ids
    <2>4. OutcomesTrue'
      BY <2>1, <2>3 DEF DeliveryInv, OutcomesTrue, SentWasDelivered
    <2>5. Deliveries' BY <2>1, <2>2 DEF DeliveryInv, Deliveries
    <2> QED BY <2>4, <2>5 DEF DeliveryInv
  <1>2. ASSUME UNCHANGED <<queue, delivered, crashes>>, job'.outcome = job.outcome PROVE DeliveryInv'
    <2>1. \A j \in Id : Done(j)' <=> Done(j) BY <1>2 DEF Done
    <2> QED BY <1>2, <2>1 DEF DeliveryInv, Deliveries, OutcomesTrue, SentWasDelivered, Ids
  <1>3. ASSUME StartJob PROVE DeliveryInv'
    BY <1>2, <1>3 DEF StartJob, JobShape
  <1>4. ASSUME NEW i \in Id, Defer(i) PROVE DeliveryInv'
    BY <1>2, <1>4 DEF Defer, TypeOK
  <1>5. ASSUME CommitBatch PROVE DeliveryInv'
    <2>1. DOMAIN queue' = DOMAIN queue /\ job'.outcome = NoOutcome /\ DOMAIN job'.outcome = {}
      BY <1>5 DEF CommitBatch, Idle, NoOutcome
    <2>2. \A i \in DOMAIN queue :
            queue'[i].status = IF i \in DOMAIN job.outcome THEN job.outcome[i].status
                               ELSE queue[i].status
      BY <1>5 DEF CommitBatch
    <2>3. \A j \in Id : Done(j)' <=> Done(j)
      BY <2>1, <2>2, Unfolded DEF Done, JobShape, Ids
    <2>4. SentWasDelivered'
      BY <1>5, <2>1, <2>2 DEF CommitBatch, DeliveryInv, OutcomesTrue, SentWasDelivered, Ids
    <2>5. Deliveries' BY <1>5, <2>3 DEF CommitBatch, DeliveryInv, Deliveries
    <2> QED BY <2>1, <2>4, <2>5 DEF DeliveryInv, OutcomesTrue
  <1>6. ASSUME Crash PROVE DeliveryInv'
    <2>1. DOMAIN job'.outcome = {} BY <1>6 DEF Crash, Idle, NoOutcome
    <2>2. UNCHANGED <<queue, delivered>> /\ crashes' = crashes + 1 BY <1>6 DEF Crash
    <2>3. Deliveries' BY <1>0, <2>2 DEF DeliveryInv, Deliveries
    <2>4. OutcomesTrue' BY <2>1, <2>2 DEF DeliveryInv, OutcomesTrue, SentWasDelivered, Ids
    <2> QED BY <2>3, <2>4 DEF DeliveryInv
  <1>7. ASSUME Tick PROVE DeliveryInv'
    <2> DEFINE outcome == [i \in DOMAIN job.outcome |-> Older(job.outcome[i])]
    <2>1. \A i \in DOMAIN outcome : outcome[i].status = job.outcome[i].status
      BY Unfolded, Aged
    <2>2. job'.outcome = outcome /\ DOMAIN outcome = DOMAIN job.outcome
      BY <1>7 DEF Tick, TypeOK
    <2> HIDE DEF outcome
    <2>3. DOMAIN queue' = DOMAIN queue /\ \A i \in DOMAIN queue : queue'[i].status = queue[i].status
      BY <1>7, Unfolded, Aged DEF Tick
    <2>4. UNCHANGED <<delivered, crashes>> BY <1>7 DEF Tick
    <2>5. \A j \in Id : Done(j)' <=> Done(j) BY <2>2, <2>3 DEF Done
    <2>6. Deliveries' BY <2>4, <2>5 DEF DeliveryInv, Deliveries
    <2>7. OutcomesTrue'
      BY <2>1, <2>2, <2>3, <2>4 DEF DeliveryInv, OutcomesTrue, SentWasDelivered, Ids
    <2> QED BY <2>6, <2>7 DEF DeliveryInv
  <1>8. ASSUME NEW i \in Id, Send(i) PROVE DeliveryInv' BY <1>8, SendDelivers DEF Send
  <1>9. ASSUME NEW i \in Id, NEW reached \in BOOLEAN, SendRaises(i, reached) PROVE DeliveryInv'
    <2>1. (IF reached THEN 1 ELSE 0) \in {0, 1} OBVIOUS
    <2> QED BY <1>9, <2>1, SendDelivers DEF SendRaises
  <1> QED BY <1>1, <1>2, <1>3, <1>4, <1>5, <1>6, <1>7, <1>8, <1>9 DEF Next, vars, SaveLimit

-----------------------------------------------------------------------------
(* The daily limit. *)

LimitInv == WithinLimit /\ CountKept

\* Nothing new counts against the limit.
LEMMA NothingCounted ==
  ASSUME TypeOK, LimitInv,
         \A u \in User : Counted(u)' \subseteq Counted(u),
         job'.pc = "sending" => job.pc = "sending" /\ job'.count = job.count
  PROVE  LimitInv'
  <1>1. ASSUME NEW u \in User
        PROVE  Cardinality(Counted(u)') \in Nat /\ Cardinality(Counted(u)') <= Cardinality(Counted(u))
    BY CountedRows, FS_Subset, FS_CardinalityType
  <1>2. \A u \in User : Cardinality(Counted(u)) \in Nat BY CountedRows
  <1>3. job.count \in [User -> Nat] /\ Limits \cup {DefaultLimit} \subseteq Nat
    BY QueueAssumption DEF TypeOK
  <1>4. WithinLimit' BY <1>1, <1>2, <1>3 DEF LimitInv, WithinLimit
  <1>5. CountKept' BY <1>1, <1>2, <1>3 DEF LimitInv, CountKept
  <1> QED BY <1>4, <1>5 DEF LimitInv

\* A message that is sent was within the limit the run had read.
LEMMA SendCounted ==
  ASSUME TypeOK, JobShape, LimitInv, NEW i \in Id, Send(i)
  PROVE  LimitInv'
  <1>1. /\ Current(i) /\ ~ OverLimit(i) /\ job' = Record(i, "sent")
        /\ UNCHANGED <<queue, limit, crashes>>
    BY DEF Send
  <1>2. i \in DOMAIN queue /\ queue[i].user \in User /\ job.pc = "sending"
    BY <1>1, Unfolded DEF Current, Ids, Row
  <1>3. job.count \in [User -> Nat] /\ job.limit \in Nat /\ job.limit \in Limits \cup {DefaultLimit}
    BY <1>2 DEF TypeOK, JobShape
  <1>4. \A u \in User : Counted(u)' \subseteq
           Counted(u) \cup (IF u = queue[i].user THEN {i} ELSE {})
    <2>1. \A u \in User : RecentOf(u)' = RecentOf(u) BY <1>1 DEF RecentOf, Recent
    <2>2. \A u \in User : NowOf(u)' \subseteq NowOf(u) \cup (IF u = queue[i].user THEN {i} ELSE {})
      BY <1>1, Recorded DEF NowOf
    <2> QED BY <2>1, <2>2 DEF Counted
  <1>5. ASSUME NEW u \in User
        PROVE  /\ Cardinality(Counted(u)') \in Nat
               /\ Cardinality(Counted(u)') <= job'.count[u]
               /\ u # queue[i].user => Cardinality(Counted(u)') <= Cardinality(Counted(u))
               /\ u = queue[i].user => Cardinality(Counted(u)') <= job.limit
    <2>1. IsFiniteSet(Counted(u)) /\ Cardinality(Counted(u)) \in Nat
          /\ Cardinality(Counted(u)) <= job.count[u]
      BY <1>2, CountedRows DEF LimitInv, CountKept
    <2>2. job'.count[u] = IF u = queue[i].user THEN job.count[u] + 1 ELSE job.count[u]
      BY <1>1, Recorded
    <2>3. CASE u = queue[i].user
      <3>1. IsFiniteSet(Counted(u) \cup {i})
            /\ Cardinality(Counted(u) \cup {i}) <= Cardinality(Counted(u)) + 1
            /\ Cardinality(Counted(u) \cup {i}) \in Nat
        <4>1. IsFiniteSet(Counted(u) \cup {i})
              /\ Cardinality(Counted(u) \cup {i}) =
                   IF i \in Counted(u) THEN Cardinality(Counted(u)) ELSE Cardinality(Counted(u)) + 1
          BY <2>1, FS_AddElement
        <4> QED BY <2>1, <4>1
      <3>2. Cardinality(Counted(u)') <= Cardinality(Counted(u) \cup {i})
            /\ Cardinality(Counted(u)') \in Nat
        BY <1>4, <2>3, <3>1, FS_Subset, FS_CardinalityType
      <3>3. job.count[u] < job.limit BY <1>1, <1>3, <2>3 DEF OverLimit
      <3> QED BY <1>3, <2>1, <2>2, <2>3, <3>1, <3>2, <3>3
    <2>4. CASE u # queue[i].user
      <3>1. Counted(u)' \subseteq Counted(u) BY <1>4, <2>4
      <3>2. Cardinality(Counted(u)') <= Cardinality(Counted(u)) /\ Cardinality(Counted(u)') \in Nat
        BY <2>1, <3>1, FS_Subset, FS_CardinalityType
      <3> QED BY <1>3, <2>1, <2>2, <2>4, <3>2
    <2> QED BY <2>3, <2>4
  <1>6. CountKept' BY <1>5 DEF CountKept
  <1>7. WithinLimit'
    <2>1. \A u \in User : Cardinality(Counted(u)) \in Nat BY CountedRows
    <2>2. Limits \cup {DefaultLimit} \subseteq Nat BY QueueAssumption
    <2>3. ASSUME NEW u \in User
          PROVE  \E l \in Limits \cup {DefaultLimit} : Cardinality(Counted(u)') <= l
      BY <1>3, <1>5, <2>1, <2>2 DEF LimitInv, WithinLimit
    <2> QED BY <2>3 DEF WithinLimit
  <1> QED BY <1>6, <1>7 DEF LimitInv

\* Every step keeps the users within their limit.
LEMMA LimitStep ==
  ASSUME TypeOK, JobShape, LimitInv, [Next]_vars
  PROVE  LimitInv'
  <1>1. ASSUME NEW u \in User, Enqueue(u) PROVE LimitInv'
    <2>1. UNCHANGED job BY <1>1 DEF Enqueue
    <2>2. \A v \in User : RecentOf(v)' \subseteq RecentOf(v)
      BY <1>1, EnqueueTypes DEF RecentOf, Recent
    <2>3. \A v \in User : NowOf(v)' \subseteq NowOf(v)
      BY <1>1, <2>1, EnqueueTypes, Unfolded DEF NowOf, Ids
    <2> QED BY <2>1, <2>2, <2>3, NothingCounted DEF Counted
  <1>2. ASSUME UNCHANGED <<queue, job>> PROVE LimitInv'
    BY <1>2, NothingCounted DEF Counted, RecentOf, NowOf, Recent
  <1>3. ASSUME StartJob PROVE LimitInv'
    <2>1. UNCHANGED queue /\ job.outcome = NoOutcome /\ job'.outcome = NoOutcome
      BY <1>3 DEF StartJob, JobShape
    <2>2. \A u \in User : Counted(u)' = Counted(u) /\ Counted(u) = RecentOf(u)
      BY <2>1 DEF Counted, RecentOf, NowOf, Recent, NoOutcome
    <2>3. \A u \in User : job'.count[u] = Cardinality(RecentOf(u)) /\ Cardinality(RecentOf(u)) \in Nat
      BY <1>3, CountedRows DEF StartJob
    <2>4. CountKept' BY <2>2, <2>3 DEF CountKept
    <2>5. WithinLimit' BY <2>2 DEF LimitInv, WithinLimit
    <2> QED BY <2>4, <2>5 DEF LimitInv
  <1>4. ASSUME NEW i \in Id, Defer(i) PROVE LimitInv'
    <2>1. UNCHANGED queue /\ job'.outcome = job.outcome /\ job'.count = job.count /\ job'.pc = job.pc
      BY <1>4 DEF Defer, TypeOK
    <2> QED BY <2>1, NothingCounted DEF Counted, RecentOf, NowOf, Recent
  <1>5. ASSUME CommitBatch PROVE LimitInv'
    <2>1. DOMAIN queue' = DOMAIN queue /\ DOMAIN job'.outcome = {} /\ job'.pc = "idle"
      BY <1>5 DEF CommitBatch, Idle, NoOutcome
    <2>2. \A i \in DOMAIN queue :
            IF i \in DOMAIN job.outcome
            THEN queue'[i].user = queue[i].user /\ queue'[i].status = job.outcome[i].status
            ELSE queue'[i] = queue[i]
      BY <1>5 DEF CommitBatch
    <2>3. \A u \in User : NowOf(u)' = {} BY <2>1 DEF NowOf
    <2>4. \A u \in User : RecentOf(u)' \subseteq Counted(u)
      BY <2>1, <2>2 DEF RecentOf, NowOf, Counted, Recent
    <2> QED BY <2>1, <2>3, <2>4, NothingCounted DEF Counted
  <1>6. ASSUME Crash PROVE LimitInv'
    <2>1. UNCHANGED queue /\ DOMAIN job'.outcome = {} /\ job'.pc = "idle"
      BY <1>6 DEF Crash, Idle, NoOutcome
    <2>2. \A u \in User : NowOf(u)' = {} /\ RecentOf(u)' = RecentOf(u)
      BY <2>1 DEF NowOf, RecentOf, Recent
    <2> QED BY <2>1, <2>2, NothingCounted DEF Counted
  <1>7. ASSUME Tick PROVE LimitInv'
    <2>1. DOMAIN queue' = DOMAIN queue /\ \A i \in DOMAIN queue : queue'[i] = Older(queue[i])
      BY <1>7 DEF Tick
    <2>2. ASSUME NEW i \in DOMAIN queue
          PROVE  /\ queue'[i].user = queue[i].user /\ queue'[i].status = queue[i].status
                 /\ Recent(i)' => Recent(i)
      <3>1. queue[i] \in Row BY Unfolded
      <3>2. queue[i].age \in Ages /\ queue'[i].age \in Ages BY <2>1, <3>1, Aged DEF Row
      <3>3. queue[i].age > Day => queue'[i].age > Day BY <2>1, <3>1, Aged
      <3> QED BY <2>1, <3>1, <3>2, <3>3, Aged, QueueAssumption DEF Recent, Ages
    <2>3. job'.count = job.count /\ job'.pc = job.pc BY <1>7 DEF Tick, TypeOK
    <2>4. DOMAIN job'.outcome = DOMAIN job.outcome
          /\ \A i \in DOMAIN job.outcome : job'.outcome[i] = Older(job.outcome[i])
      BY <1>7 DEF Tick, TypeOK
    <2>5. \A i \in DOMAIN job.outcome : job'.outcome[i].status = job.outcome[i].status
      BY <2>4, Unfolded, Aged
    <2>6. \A u \in User : RecentOf(u)' \subseteq RecentOf(u) BY <2>1, <2>2 DEF RecentOf
    <2>7. \A u \in User : NowOf(u)' \subseteq NowOf(u)
      BY <2>2, <2>4, <2>5, Unfolded DEF NowOf, Ids
    <2> QED BY <2>3, <2>6, <2>7, NothingCounted DEF Counted
  <1>8. ASSUME NEW i \in Id, NEW reached \in BOOLEAN, SendRaises(i, reached) PROVE LimitInv'
    <2>1. Current(i) /\ job' = Record(i, "failed") /\ UNCHANGED queue
      BY <1>8 DEF SendRaises
    <2>2. job'.count = job.count
      BY <2>1, Recorded DEF TypeOK, JobType
    <2>3. \A u \in User : NowOf(u)' \subseteq NowOf(u) BY <2>1, Recorded DEF NowOf
    <2>4. job.pc = "sending" BY <2>1 DEF Current
    <2>5. \A u \in User : RecentOf(u)' = RecentOf(u) BY <2>1 DEF RecentOf, Recent
    <2> QED BY <2>2, <2>3, <2>4, <2>5, NothingCounted DEF Counted
  <1> QED BY <1>1, <1>2, <1>3, <1>4, <1>5, <1>6, <1>7, <1>8, SendCounted DEF Next, vars, SaveLimit

-----------------------------------------------------------------------------
\* The invariant holds of the empty queue.
LEMMA QueueInit == Init => QueueInv
  <1> SUFFICES ASSUME Init PROVE QueueInv OBVIOUS
  <1>1. queue = <<>> /\ job = Idle /\ DOMAIN queue = {} BY DEF Init
  <1>2. Ids("pending") = {} /\ Ids("sent") = {} BY <1>1 DEF Ids
  <1>3. queue \in Seq(Row) /\ Len(queue) = 0 BY <1>1, EmptySeq
  <1>4. job \in JobType BY <1>1, IdleType
  <1>5. TypeOK BY <1>3, <1>4, QueueAssumption DEF Init, TypeOK, Row, JobType
  <1>6. job.pc = "idle" /\ job.left = {} /\ job.outcome = NoOutcome /\ DOMAIN job.outcome = {}
    BY <1>1 DEF Idle, NoOutcome
  <1>7. JobShape BY <1>6 DEF JobShape
  <1>8. Deliveries BY <1>1, <1>6 DEF Deliveries, Done, Init
  <1>9. OutcomesTrue BY <1>2, <1>6 DEF OutcomesTrue, SentWasDelivered
  <1>10. \A u \in User : Counted(u) = {} BY <1>1, <1>6 DEF Counted, RecentOf, NowOf
  <1>11. WithinLimit BY <1>10, FS_EmptySet, QueueAssumption DEF WithinLimit
  <1>12. CountKept BY <1>6 DEF CountKept
  <1> QED BY <1>5, <1>7, <1>8, <1>9, <1>11, <1>12 DEF QueueInv

\* The inductive invariant of the queue and its job.
THEOREM QueueInvariant == Spec => []QueueInv
  <1>1. Init => QueueInv BY QueueInit
  <1>2. QueueInv /\ [Next]_vars => QueueInv'
    BY TypeStep, ShapeStep, DeliveryStep, LimitStep DEF QueueInv, DeliveryInv, LimitInv
  <1> QED BY <1>1, <1>2, PTL DEF Spec

\* Every variable of the queue keeps its type.
THEOREM QueueTypeCorrect == Spec => []TypeOK
  <1>1. QueueInv => TypeOK BY DEF QueueInv
  <1> QED BY <1>1, QueueInvariant, PTL

\* No user gets more recorded messages within a day than a limit allowed.
THEOREM DailyLimitAlwaysKept == Spec => []DailyLimitKept
  <1>1. QueueInv => DailyLimitKept
    <2> SUFFICES ASSUME QueueInv PROVE DailyLimitKept OBVIOUS
    <2>1. \A u \in User : SentLastDay(u) \in Nat /\ Cardinality(Counted(u)) \in Nat
                          /\ SentLastDay(u) <= Cardinality(Counted(u))
      BY CountedRows DEF QueueInv
    <2>2. Limits \cup {DefaultLimit} \subseteq Nat BY QueueAssumption
    <2> QED BY <2>1, <2>2 DEF QueueInv, WithinLimit, DailyLimitKept
  <1> QED BY <1>1, QueueInvariant, PTL

\* Whatever the table says was sent was delivered, and no message oftener than
\* once and once more per death of the job.
THEOREM AlwaysDeliveredAsRecorded == Spec => []DeliveredAsRecorded
  <1>1. QueueInv => RepeatedOnlyByCrash
    <2> SUFFICES ASSUME QueueInv PROVE RepeatedOnlyByCrash OBVIOUS
    <2>1. crashes \in Nat /\ \A i \in Id : delivered[i] \in Nat
      BY QueueAssumption DEF QueueInv, TypeOK
    <2> QED BY <2>1 DEF QueueInv, Deliveries, RepeatedOnlyByCrash
  <1>2. QueueInv => SentWasDelivered BY DEF QueueInv, OutcomesTrue
  <1>3. QueueInv => DeliveredAsRecorded BY <1>1, <1>2 DEF DeliveredAsRecorded
  <1> QED BY <1>3, QueueInvariant, PTL
=============================================================================
