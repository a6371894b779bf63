-------------------------------- MODULE Desk --------------------------------
(***************************************************************************)
(* Where users and managers meet: chats, their messages and attached       *)
(* files, and applications, each with a chat of its own.  The chat gateway *)
(* repeats a message until it hears an answer; requests overlap, wait in   *)
(* between their reads and their commit, and may die there.  What a        *)
(* request writes before its commit, nobody sees; a flush that meets a     *)
(* unique index waits for the other transaction, so it is one step with    *)
(* the commit.  Users here are not deleted, so they have a phone for SMS.  *)
(***************************************************************************)
EXTENDS Naturals, Sequences, FiniteSets

CONSTANTS
    User, Agent, \* users, and managers
    System,      \* sender of the platform's own messages
    ClientId,    \* values of client_msg_id
    File,        \* files ever uploaded
    Worker,      \* requests that overlap
    Singles,     \* chat types a user has one of: "main" and "bonus"
    Status,      \* APPLICATION_STATUSES
    None,        \* no value
    MaxMessages, \* bound on the rows of messages
    MaxApps      \* bound on the rows of applications

ASSUME DeskAssumption ==
    /\ User \cap Agent = {} /\ System \notin User \cup Agent
    /\ None \notin ClientId \cup File \cup Nat
    /\ "bonus" \in Singles /\ "insurance" \notin Singles /\ "new" \in Status
    /\ MaxMessages \in Nat /\ MaxApps \in Nat

VARIABLES
    chats,    \* the chats table, by id
    messages, \* the messages table
    apps,     \* the applications table, by id
    events,   \* the application_status_events table
    sms,      \* rows of sms_notifications, by user and template
    files,    \* the files table: the chat of each row
    objects,  \* files kept in MinIO
    given,    \* files whose upload was answered
    active,   \* managers with is_active
    answered, \* messages with a client id that were answered
    workers   \* what every request is doing

tables == <<chats, messages, apps, events, sms>>
storage == <<files, objects, given>>
vars == <<tables, storage, active, answered, workers>>

ChatId == DOMAIN chats
Template == {"chat_new_message", "application_status_changed"}
Subject == User \cup Agent

\* touched: last_message_at is set.
Chat == [owner : User, type : Singles \cup {"insurance"}, touched : BOOLEAN]
App == [user : User, chat : ChatId, status : Status]
Message == [chat : ChatId, from : Subject \cup {System},
            cid : ClientId \cup {None}, file : File \cup {None}]

\* A request is free, or between its reads and what they lead to.
Request ==
    [at : {"free"}]
    \cup [at : {"store"}, message : Message]
    \cup [at : {"row", "refresh", "remove"}, file : File, chat : ChatId]
    \cup [at : {"bonus"}, owner : User, chat : ChatId \cup {None}]
    \cup [at : {"status"}, app : DOMAIN apps, old : Status, new : Status]

\* Type invariant, with what the database itself keeps: references, and
\* one main and one bonus chat per user (chat.py, message.py, file.py).
TypeOK ==
    /\ chats \in Seq(Chat) /\ messages \in Seq(Message) /\ apps \in Seq(App)
    /\ events \in Seq([app : DOMAIN apps, old : Status, new : Status])
    /\ sms \in [User -> [Template -> Nat]]
    /\ files \in [File -> ChatId \cup {None}]
    /\ objects \subseteq File /\ given \subseteq File /\ active \subseteq Agent
    /\ answered \subseteq ChatId \X ClientId
    /\ workers \in [Worker -> Request]
    /\ \A c, d \in ChatId :
         chats[c].type \in Singles /\ chats[c].owner = chats[d].owner
         /\ chats[c].type = chats[d].type => c = d

Init ==
    /\ chats = <<>> /\ messages = <<>> /\ apps = <<>> /\ events = <<>>
    /\ sms = [u \in User |-> [t \in Template |-> 0]]
    /\ files = [f \in File |-> None] /\ objects = {} /\ given = {}
    /\ active = Agent
    /\ answered = {}
    /\ workers = [w \in Worker |-> [at |-> "free"]]

-----------------------------------------------------------------------------
At(w, at) == workers[w].at = at
Become(w, request) == workers' = [workers EXCEPT ![w] = request]
Free(w) == Become(w, [at |-> "free"])

ChatsOf(u, type) == {c \in ChatId : chats[c].owner = u /\ chats[c].type = type}
NewChat(u, type, touched) == [owner |-> u, type |-> type, touched |-> touched]

\* The owner of the chat, or any manager who is active.
MayEnter(s, c) == IF s \in User THEN chats[c].owner = s ELSE s \in active

FromSystem(c) == [chat |-> c, from |-> System, cid |-> None, file |-> None]
Room(n) == Len(messages) + n <= MaxMessages

Notify(u, template) == sms' = [sms EXCEPT ![u][template] = @ + 1]
Touch(c) == chats' = [chats EXCEPT ![c].touched = TRUE]

-----------------------------------------------------------------------------
(* Chats. *)

\* Mutant of OpenChat: select, then insert without the unique index.
OpenChatAgain(u, type) ==
    /\ chats' = Append(chats, NewChat(u, type, FALSE))
    /\ Len(chats) < 3
    /\ UNCHANGED <<messages, apps, events, sms, storage, active, answered, workers>>

\* get_or_create_for_user: INSERT ON CONFLICT DO NOTHING, commit, re-read.
OpenChat(u, type) ==
    /\ chats' = IF ChatsOf(u, type) = {} THEN Append(chats, NewChat(u, type, FALSE)) ELSE chats
    /\ UNCHANGED <<messages, apps, events, sms, storage, active, answered, workers>>

\* _get_or_create_bonus_chat of a certificate request looks for the chat ...
FindBonusChat(w, u) ==
    /\ At(w, "free")
    /\ \E c \in IF ChatsOf(u, "bonus") = {} THEN {None} ELSE ChatsOf(u, "bonus") :
         Become(w, [at |-> "bonus", owner |-> u, chat |-> c])
    /\ UNCHANGED <<tables, storage, active, answered>>

\* ... and adds it with the message about the request, unless somebody did
\* meanwhile: the unique index then undoes the certificate request.
AddRequest(w) ==
    LET u == workers[w].owner
        c == workers[w].chat IN
    /\ At(w, "bonus") /\ Room(1)
    /\ IF c = None /\ ChatsOf(u, "bonus") # {}
       THEN UNCHANGED <<chats, messages>>
       ELSE /\ chats' = IF c = None THEN Append(chats, NewChat(u, "bonus", TRUE))
                        ELSE [chats EXCEPT ![c].touched = TRUE]
            /\ messages' = Append(messages, FromSystem(IF c = None THEN Len(chats) + 1 ELSE c))
    /\ Free(w)
    /\ UNCHANGED <<apps, events, sms, storage, active, answered>>

-----------------------------------------------------------------------------
(* Messages: persist_message and insert_or_get. *)

Known(m) == \E i \in DOMAIN messages : messages[i].chat = m.chat /\ messages[i].cid = m.cid

Answer(m) == answered' = answered \cup (IF m.cid = None THEN {} ELSE {<<m.chat, m.cid>>})

\* The checks, and the search for the client id; a file comes from an upload
\* the sender has an answer to.
CheckMessage(w, m) ==
    /\ At(w, "free")
    /\ MayEnter(m.from, m.chat)
    /\ m.file # None => m.file \in given /\ files[m.file] = m.chat
    /\ IF m.cid # None /\ Known(m)
       THEN Answer(m) /\ UNCHANGED workers
       ELSE Become(w, [at |-> "store", message |-> m]) /\ UNCHANGED answered
    /\ UNCHANGED <<tables, storage, active>>

\* Mutant of StoreMessage: insert without the unique index.
StoreMessageTwice(w) ==
    LET m == workers[w].message IN
    /\ At(w, "store") /\ Room(1)
    /\ messages' = Append(messages, m)
    /\ Touch(m.chat)
    /\ IF m.from \in Agent THEN Notify(chats[m.chat].owner, "chat_new_message")
       ELSE UNCHANGED sms
    /\ Answer(m)
    /\ Free(w)
    /\ UNCHANGED <<apps, events, storage, active>>

\* Mutant of StoreMessage: bump and notify whether the row was created or not.
StoreMessageNotifying(w) ==
    LET m == workers[w].message IN
    /\ At(w, "store") /\ Room(1)
    /\ IF m.cid # None /\ Known(m)
       THEN UNCHANGED messages
       ELSE messages' = Append(messages, m)
    /\ Touch(m.chat)
    /\ IF m.from \in Agent THEN Notify(chats[m.chat].owner, "chat_new_message")
       ELSE UNCHANGED sms
    /\ Answer(m)
    /\ Free(w)
    /\ UNCHANGED <<apps, events, storage, active>>

\* The insert; if it violates the unique index, the row there is the answer.
StoreMessage(w) ==
    LET m == workers[w].message IN
    /\ At(w, "store") /\ Room(1)
    /\ IF m.cid # None /\ Known(m)
       THEN UNCHANGED <<messages, chats, sms>>
       ELSE /\ messages' = Append(messages, m)
            /\ Touch(m.chat)
            /\ IF m.from \in Agent THEN Notify(chats[m.chat].owner, "chat_new_message")
               ELSE UNCHANGED sms
    /\ Answer(m)
    /\ Free(w)
    /\ UNCHANGED <<apps, events, storage, active>>

-----------------------------------------------------------------------------
(* Files: upload_file and FileService.upload. *)

Forgotten(f) ==
    /\ f \notin objects /\ files[f] = None
    /\ \A w \in Worker : workers[w].at \in {"row", "refresh", "remove"} => workers[w].file # f

\* put_object, under a new id.
PutObject(w, s, c, f) ==
    /\ At(w, "free")
    /\ MayEnter(s, c)
    /\ Forgotten(f)
    /\ objects' = objects \cup {f}
    /\ Become(w, [at |-> "row", file |-> f, chat |-> c])
    /\ UNCHANGED <<tables, files, given, active, answered>>

SaveRow(w) ==
    /\ At(w, "row")
    /\ files' = [files EXCEPT ![workers[w].file] = workers[w].chat]
    /\ Become(w, [workers[w] EXCEPT !.at = "refresh"])
    /\ UNCHANGED <<tables, objects, given, active, answered>>

\* The insert, its commit, or the refresh after the commit raises.
UploadRaises(w) ==
    /\ At(w, "row") \/ At(w, "refresh")
    /\ Become(w, [workers[w] EXCEPT !.at = "remove"])
    /\ UNCHANGED <<tables, storage, active, answered>>

\* Mutant of AnswerUpload: the object is removed in a finally clause.
AnswerUploadRemoving(w) ==
    /\ At(w, "refresh")
    /\ given' = given \cup {workers[w].file}
    /\ Become(w, [workers[w] EXCEPT !.at = "remove"])
    /\ UNCHANGED <<tables, files, objects, active, answered>>

AnswerUpload(w) ==
    /\ At(w, "refresh")
    /\ given' = given \cup {workers[w].file}
    /\ Free(w)
    /\ UNCHANGED <<tables, files, objects, active, answered>>

\* remove_object; when it raises too, the object stays (Die).
RemoveObject(w) ==
    /\ At(w, "remove")
    /\ objects' = objects \ {workers[w].file}
    /\ Free(w)
    /\ UNCHANGED <<tables, files, given, active, answered>>

-----------------------------------------------------------------------------
(* Applications. *)

\* create_from_user, and create_from_manager by a manager.
CreateApplication(s, u) ==
    /\ s = u \/ s \in active
    /\ Len(apps) < MaxApps /\ Room(1)
    /\ chats' = Append(chats, NewChat(u, "insurance", TRUE))
    /\ apps' = Append(apps, [user |-> u, chat |-> Len(chats) + 1, status |-> "new"])
    /\ messages' = Append(messages, FromSystem(Len(chats) + 1))
    /\ UNCHANGED <<events, sms, storage, active, answered, workers>>

\* change_status reads the application ...
ReadApplication(w, s, a, new) ==
    /\ At(w, "free")
    /\ s \in active
    /\ new # apps[a].status
    /\ Become(w, [at |-> "status", app |-> a, old |-> apps[a].status, new |-> new])
    /\ UNCHANGED <<tables, storage, active, answered>>

\* ... and commits the status, the event, the message in the chat and the SMS.
ChangeStatus(w) ==
    LET call == workers[w]
        app == apps[call.app] IN
    /\ At(w, "status") /\ Room(1)
    /\ apps' = [apps EXCEPT ![call.app].status = call.new]
    /\ events' = Append(events, [app |-> call.app, old |-> call.old, new |-> call.new])
    /\ messages' = Append(messages, FromSystem(app.chat))
    /\ Touch(app.chat)
    /\ Notify(app.user, "application_status_changed")
    /\ Free(w)
    /\ UNCHANGED <<storage, active, answered>>

-----------------------------------------------------------------------------
\* block_manager and unblock_manager.
SwitchAgent(s) ==
    /\ active' = IF s \in active THEN active \ {s} ELSE active \cup {s}
    /\ UNCHANGED <<tables, storage, answered, workers>>

\* The process or the connection dies; what was not committed is rolled back.
Die(w) ==
    /\ ~ At(w, "free")
    /\ Free(w)
    /\ UNCHANGED <<tables, storage, active, answered>>

Next ==
    \/ \E u \in User, type \in Singles : OpenChat(u, type)
    \/ \E w \in Worker :
         \/ \E u \in User : FindBonusChat(w, u)
         \/ AddRequest(w)
         \/ \E c \in ChatId, s \in Subject, id \in ClientId \cup {None}, f \in File \cup {None} :
              CheckMessage(w, [chat |-> c, from |-> s, cid |-> id, file |-> f])
         \/ StoreMessage(w)
         \/ \E s \in Subject, c \in ChatId, f \in File : PutObject(w, s, c, f)
         \/ SaveRow(w) \/ UploadRaises(w) \/ AnswerUpload(w) \/ RemoveObject(w)
         \/ \E s \in Agent, a \in DOMAIN apps, new \in Status : ReadApplication(w, s, a, new)
         \/ ChangeStatus(w)
         \/ Die(w)
    \/ \E s \in Subject, u \in User : CreateApplication(s, u)
    \/ \E s \in Agent : SwitchAgent(s)

Spec == Init /\ [][Next]_vars

-----------------------------------------------------------------------------
(* What the desk promises. *)

\* A message with a client id that was answered is stored, and stored once,
\* however often the gateway repeats it, side by side or after a lost answer.
StoredOnce ==
    \A c \in ChatId, id \in ClientId :
      LET rows == {i \in DOMAIN messages : messages[i].chat = c /\ messages[i].cid = id} IN
      /\ Cardinality(rows) <= 1
      /\ <<c, id>> \in answered => rows # {}

Between(c, from) == {i \in DOMAIN messages : messages[i].chat = c /\ messages[i].from \in from}
EventsOf(a) == {i \in DOMAIN events : events[i].app = a}

\* What the last of a's events leads to; an application is new at first.
Reached(a, status) ==
    IF EventsOf(a) = {} THEN status = "new"
    ELSE \E i \in EventsOf(a) : events[i].new = status /\ \A j \in EventsOf(a) : j <= i

\* One SMS for each message of a manager and for each change of a status.
OneNotice ==
    \A u \in User :
      /\ sms[u].chat_new_message =
           Cardinality(UNION {Between(c, Agent) : c \in {d \in ChatId : chats[d].owner = u}})
      /\ sms[u].application_status_changed =
           Cardinality({i \in DOMAIN events : apps[events[i].app].user = u})

\* An application's history leads to its status, and is in its chat.
HistoryTold ==
    \A a \in DOMAIN apps :
      /\ Reached(a, apps[a].status)
      /\ Cardinality(Between(apps[a].chat, {System})) = 1 + Cardinality(EventsOf(a))
      /\ \A b \in DOMAIN apps : apps[a].chat = apps[b].chat => a = b

\* Managers list the chats with last_message_at: those with messages.
ChatsListed == \A c \in ChatId : chats[c].touched = (Between(c, Subject \cup {System}) # {})

\* Nothing that happens at the desk goes untold, or is told twice: one SMS
\* per message of a manager and per change of a status, a system message per
\* event, and a chat with news on the managers' list.
ToldOnce == OneNotice /\ HistoryTold /\ ChatsListed

\* A file whose upload was answered, and so one attached to a message, can
\* be downloaded, although objects and rows are stored and removed apart.
AttachmentsKept ==
    /\ \A f \in given : f \in objects /\ files[f] # None
    /\ \A i \in DOMAIN messages :
         messages[i].file # None =>
           messages[i].file \in objects /\ files[messages[i].file] = messages[i].chat
=============================================================================
