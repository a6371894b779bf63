----------------------------- MODULE DeskProofs -----------------------------
(***************************************************************************)
(* The desk keeps its promises for any users, managers, requests and       *)
(* files, with no bound but those of the tables.                           *)
(*                                                                         *)
(* References are ids of rows that are only ever added, so a request that  *)
(* is well formed stays so (RequestGrows).  StoredOnce is inductive with   *)
(* that.  AttachmentsKept is not: that a failed upload never removes what  *)
(* another was answered for rests on one upload working on a file until    *)
(* its answer, and on what it has put being there (FilesInv).  ToldOnce    *)
(* rests on applications having chats of their own, which no request about *)
(* a certificate writes to (ToldInv).                                      *)
(***************************************************************************)
EXTENDS Desk, FiniteSetTheorems, TLAPS

(* Sequences that rows are appended to, and sets of their indices. *)

\* A row appended is the last one; the others stay where they are.
LEMMA Appended ==
  ASSUME NEW S, NEW s \in Seq(S), NEW e
  PROVE  /\ DOMAIN Append(s, e) = DOMAIN s \cup {Len(s) + 1}
         /\ DOMAIN s = 1..Len(s) /\ Len(s) \in Nat /\ Len(s) + 1 \notin DOMAIN s
         /\ Append(s, e)[Len(s) + 1] = e
         /\ \A i \in DOMAIN s : s[i] \in S /\ Append(s, e)[i] = s[i]
  OBVIOUS

\* Rows of one kind are rows of a wider kind.
LEMMA SeqWiden == ASSUME NEW S, NEW T, S \subseteq T PROVE Seq(S) \subseteq Seq(T)
  OBVIOUS

\* A row appended keeps a sequence a sequence.
LEMMA SeqAppend == ASSUME NEW S, NEW s \in Seq(S), NEW e \in S PROVE Append(s, e) \in Seq(S)
  OBVIOUS

(* Types. *)

Event == [app : DOMAIN apps, old : Status, new : Status]

\* A user has one chat of each single type.
SinglesUnique ==
    \A c, d \in ChatId :
      chats[c].type \in Singles /\ chats[c].owner = chats[d].owner
      /\ chats[c].type = chats[d].type => c = d

\* Chats and applications are added, never removed.
Grows == ChatId \subseteq ChatId' /\ DOMAIN apps \subseteq DOMAIN apps'

\* What a request is doing stays well formed as rows are added.
LEMMA RequestGrows == ASSUME Grows PROVE Request \subseteq Request'
  BY DEF Grows, Request, Message

\* The request behind each state of a worker.
LEMMA RequestAt ==
  ASSUME TypeOK, NEW w \in Worker
  PROVE  /\ At(w, "store") => workers[w] \in [at : {"store"}, message : Message]
         /\ At(w, "row") \/ At(w, "refresh") \/ At(w, "remove") =>
              workers[w] \in [at : {"row", "refresh", "remove"}, file : File, chat : ChatId]
         /\ At(w, "bonus") =>
              workers[w] \in [at : {"bonus"}, owner : User, chat : ChatId \cup {None}]
         /\ At(w, "status") =>
              workers[w] \in [at : {"status"}, app : DOMAIN apps, old : Status, new : Status]
  BY DEF TypeOK, Request, At

\* Ids are numbers.
LEMMA Ids ==
  ASSUME TypeOK
  PROVE  /\ ChatId = 1..Len(chats) /\ Len(chats) \in Nat /\ Len(chats) + 1 \notin ChatId
         /\ None \notin ChatId /\ None # Len(chats) + 1
         /\ \A c \in ChatId : chats[c] \in Chat
         /\ \A a \in DOMAIN apps : apps[a] \in App
         /\ \A i \in DOMAIN messages : messages[i] \in Message
         /\ \A i \in DOMAIN events : events[i] \in Event
  <1>1. chats \in Seq(Chat) /\ messages \in Seq(Message) /\ apps \in Seq(App) /\ events \in Seq(Event)
    BY DEF TypeOK, Event
  <1>2. ChatId = 1..Len(chats) /\ Len(chats) \in Nat /\ Len(chats) + 1 \notin ChatId
        /\ \A c \in ChatId : chats[c] \in Chat
    BY <1>1, Appended DEF ChatId
  <1>3. None \notin ChatId /\ None # Len(chats) + 1
    BY <1>2, DeskAssumption
  <1>4. /\ \A a \in DOMAIN apps : apps[a] \in App
        /\ \A i \in DOMAIN messages : messages[i] \in Message
        /\ \A i \in DOMAIN events : events[i] \in Event
    BY <1>1, Appended
  <1> QED BY <1>2, <1>3, <1>4

\* What remains to be shown of a step that keeps files, objects and managers.
LEMMA TypeGrows ==
  ASSUME TypeOK, Grows,
         chats' \in Seq(Chat), SinglesUnique',
         apps' = apps \/ apps' \in Seq(App'),
         messages' = messages \/ messages' \in Seq(Message'),
         events' = events \/ events' \in Seq(Event'),
         sms' \in [User -> [Template -> Nat]],
         UNCHANGED <<storage, active>>,
         answered' \subseteq ChatId' \X ClientId,
         workers' \in [Worker -> Request \cup Request']
  PROVE  TypeOK'
  <1>1. apps' \in Seq(App')
    <2>1. App \subseteq App' BY DEF App, Grows
    <2> QED BY <2>1, SeqWiden DEF TypeOK
  <1>2. messages' \in Seq(Message')
    <2>1. Message \subseteq Message' BY DEF Message, Grows
    <2> QED BY <2>1, SeqWiden DEF TypeOK
  <1>3. events' \in Seq(Event')
    <2>1. Event \subseteq Event' BY DEF Event, Grows
    <2> QED BY <2>1, SeqWiden DEF TypeOK, Event
  <1>4. files' \in [File -> ChatId' \cup {None}] BY DEF TypeOK, Grows, storage
  <1>5. workers' \in [Worker -> Request'] BY RequestGrows
  <1>6. objects' \subseteq File /\ given' \subseteq File /\ active' \subseteq Agent
    BY DEF TypeOK, storage
  <1> QED BY <1>1, <1>2, <1>3, <1>4, <1>5, <1>6 DEF TypeOK, SinglesUnique, Event

\* A chat that is added is the last one; a user's single chat is not added
\* twice.
LEMMA ChatAdded ==
  ASSUME TypeOK, NEW chat \in Chat, chats' = Append(chats, chat),
         chat.type \in Singles => ChatsOf(chat.owner, chat.type) = {}
  PROVE  /\ chats' \in Seq(Chat) /\ SinglesUnique'
         /\ ChatId' = ChatId \cup {Len(chats) + 1}
         /\ chats'[Len(chats) + 1] = chat
         /\ \A c \in ChatId : chats'[c] = chats[c]
  <1>1. chats \in Seq(Chat) /\ SinglesUnique BY DEF TypeOK, SinglesUnique
  <1>2. chats' \in Seq(Chat) BY <1>1, SeqAppend
  <1>3. /\ ChatId' = ChatId \cup {Len(chats) + 1}
        /\ chats'[Len(chats) + 1] = chat
        /\ \A c \in ChatId : chats'[c] = chats[c]
    BY <1>1, Appended DEF ChatId
  <1>4. SinglesUnique'
    <2> SUFFICES ASSUME NEW c \in ChatId', NEW d \in ChatId',
                        chats'[c].type \in Singles, chats'[c].owner = chats'[d].owner,
                        chats'[c].type = chats'[d].type
                 PROVE  c = d
      BY DEF SinglesUnique
    <2>1. CASE c \in ChatId /\ d \in ChatId BY <2>1, <1>1, <1>3 DEF SinglesUnique
    <2>2. CASE c \in ChatId /\ d = Len(chats) + 1 BY <2>2, <1>3 DEF ChatsOf
    <2>3. CASE d \in ChatId /\ c = Len(chats) + 1 BY <2>3, <1>3 DEF ChatsOf
    <2> QED BY <1>3, <2>1, <2>2, <2>3
  <1> QED BY <1>2, <1>3, <1>4

\* A message in a chat leaves what the chat is.
LEMMA ChatTouched ==
  ASSUME TypeOK, NEW c \in ChatId, chats' = [chats EXCEPT ![c].touched = TRUE]
  PROVE  /\ chats' \in Seq(Chat) /\ SinglesUnique'
         /\ ChatId' = ChatId
         /\ \A d \in ChatId : chats'[d].owner = chats[d].owner /\ chats'[d].type = chats[d].type
         /\ chats'[c].touched = TRUE
         /\ \A d \in ChatId \ {c} : chats'[d] = chats[d]
  <1>1. chats \in Seq(Chat) /\ SinglesUnique BY DEF TypeOK, SinglesUnique
  <1>2. chats[c] \in Chat BY Ids
  <1>3. [chats[c] EXCEPT !.touched = TRUE] \in Chat BY <1>2 DEF Chat
  <1>4. chats' = [chats EXCEPT ![c] = [chats[c] EXCEPT !.touched = TRUE]] OBVIOUS
  <1>5. chats' \in Seq(Chat) BY <1>1, <1>3, <1>4 DEF ChatId
  <1>6. ChatId' = ChatId BY <1>4 DEF ChatId
  <1>7. \A d \in ChatId : chats'[d].owner = chats[d].owner /\ chats'[d].type = chats[d].type
    BY <1>2, <1>4 DEF ChatId, Chat
  <1>8. chats'[c].touched = TRUE
    BY <1>2, <1>4 DEF ChatId, Chat
  <1>9. \A d \in ChatId \ {c} : chats'[d] = chats[d]
    BY <1>4 DEF ChatId
  <1>10. SinglesUnique' BY <1>1, <1>6, <1>7 DEF SinglesUnique
  <1> QED BY <1>5, <1>6, <1>7, <1>8, <1>9, <1>10

\* One more SMS is a number of them.
LEMMA NotifyTyped ==
  ASSUME TypeOK, NEW u \in User, NEW t \in Template, Notify(u, t)
  PROVE  sms' \in [User -> [Template -> Nat]]
  <1>1. sms \in [User -> [Template -> Nat]] BY DEF TypeOK
  <1>2. [sms[u] EXCEPT ![t] = @ + 1] \in [Template -> Nat] BY <1>1
  <1>3. sms' = [sms EXCEPT ![u] = [sms[u] EXCEPT ![t] = @ + 1]] BY <1>1 DEF Notify
  <1> QED BY <1>1, <1>2, <1>3

\* A request that ends, or begins, leaves the others as they are.
LEMMA BecomeTyped ==
  ASSUME TypeOK, NEW w \in Worker, NEW r \in Request \cup Request', Become(w, r)
  PROVE  workers' \in [Worker -> Request \cup Request']
  BY DEF TypeOK, Become

\* A free worker is well formed, and these are the templates.
LEMMA FreeIsRequest ==
  /\ [at |-> "free"] \in Request
  /\ Template = {"chat_new_message", "application_status_changed"}
  BY DEF Request, Template

\* Steps that leave the tables alone.
LEMMA QuietTyped ==
  ASSUME TypeOK, UNCHANGED tables,
         files' \in [File -> ChatId \cup {None}],
         objects' \subseteq File, given' \subseteq File, active' \subseteq Agent,
         answered' \subseteq ChatId \X ClientId,
         workers' \in [Worker -> Request]
  PROVE  TypeOK'
  <1>1. ChatId' = ChatId /\ apps' = apps BY DEF tables, ChatId
  <1>2. Message' = Message /\ App' = App BY <1>1 DEF Message, App
  <1>3. Request' = Request BY <1>1, <1>2 DEF Request
  <1> QED BY <1>1, <1>2, <1>3 DEF TypeOK, tables

\* Every answer that is added is for a message with a client id.
LEMMA AnswerTyped ==
  ASSUME TypeOK, NEW m \in Message, Answer(m)
  PROVE  answered' \subseteq ChatId \X ClientId
  BY DEF TypeOK, Message, Answer

\* The tables are empty at first.
LEMMA TypeInit == Init => TypeOK
  <1> SUFFICES ASSUME Init PROVE TypeOK OBVIOUS
  <1>1. ChatId = {} BY DEF Init, ChatId
  <1>2. [at |-> "free"] \in Request BY FreeIsRequest
  <1> QED BY <1>1, <1>2 DEF Init, TypeOK

\* A chat that is opened is not there yet, or nothing happens.
LEMMA TypeOpenChat ==
  ASSUME TypeOK, NEW u \in User, NEW type \in Singles, OpenChat(u, type)
  PROVE  TypeOK'
  <1> USE DEF OpenChat
  <1>1. CASE ChatsOf(u, type) = {}
    <2> DEFINE chat == NewChat(u, type, FALSE)
    <2>1. chat \in Chat /\ chat.owner = u /\ chat.type = type BY DEF NewChat, Chat
    <2>2. chats' = Append(chats, chat) BY <1>1
    <2> HIDE DEF chat
    <2>3. chats' \in Seq(Chat) /\ SinglesUnique' /\ ChatId \subseteq ChatId'
      BY <2>1, <2>2, <1>1, ChatAdded
    <2> QED BY <2>3, TypeGrows DEF Grows, TypeOK
  <1>2. CASE ChatsOf(u, type) # {}
    BY <1>2, QuietTyped DEF TypeOK, tables, storage
  <1> QED BY <1>1, <1>2

\* The bonus chat is added once, whatever the request has read before.
LEMMA TypeAddRequest == ASSUME TypeOK, NEW w \in Worker, AddRequest(w) PROVE TypeOK'
  <1> DEFINE u == workers[w].owner
             c == workers[w].chat
  <1>0. u \in User /\ c \in ChatId \cup {None}
    BY RequestAt DEF AddRequest
  <1>1. Free(w) /\ UNCHANGED <<apps, events, sms, storage, active, answered>>
    BY DEF AddRequest
  <1>2. workers' \in [Worker -> Request \cup Request']
    BY <1>1, FreeIsRequest, BecomeTyped DEF Free
  <1>3. CASE c = None /\ ChatsOf(u, "bonus") # {}
    <2>1. UNCHANGED tables BY <1>3, <1>1 DEF AddRequest, tables
    <2>2. workers' \in [Worker -> Request]
      BY <1>1, FreeIsRequest DEF TypeOK, Free, Become
    <2> QED BY <2>1, <2>2, <1>1, QuietTyped DEF TypeOK, storage
  <1>4. ASSUME NEW d, chats' \in Seq(Chat), SinglesUnique', ChatId \subseteq ChatId', d \in ChatId',
               messages' = Append(messages, FromSystem(d))
        PROVE  TypeOK'
    <2>1. FromSystem(d) \in Message' BY <1>4 DEF FromSystem, Message
    <2>2. messages \in Seq(Message')
      <3>1. Message \subseteq Message' BY <1>4 DEF Message
      <3> QED BY <3>1, SeqWiden DEF TypeOK
    <2>3. messages' \in Seq(Message') BY <1>4, <2>1, <2>2, SeqAppend
    <2>4. Grows BY <1>1, <1>4 DEF Grows
    <2>5. answered' \subseteq ChatId' \X ClientId BY <1>1, <1>4 DEF TypeOK
    <2>6. sms' \in [User -> [Template -> Nat]] BY <1>1 DEF TypeOK
    <2> QED BY <2>3, <2>4, <2>5, <2>6, <1>4, <1>1, <1>2, TypeGrows
  <1>5. CASE c = None /\ ChatsOf(u, "bonus") = {}
    <2> DEFINE chat == NewChat(u, "bonus", TRUE)
    <2>1. chat \in Chat /\ chat.owner = u /\ chat.type = "bonus"
      BY <1>0, DeskAssumption DEF NewChat, Chat
    <2>2. chats' = Append(chats, chat) /\ messages' = Append(messages, FromSystem(Len(chats) + 1))
      BY <1>5 DEF AddRequest
    <2> HIDE DEF chat
    <2>3. chats' \in Seq(Chat) /\ SinglesUnique' /\ ChatId \subseteq ChatId' /\ Len(chats) + 1 \in ChatId'
      BY <2>1, <2>2, <1>5, ChatAdded
    <2> QED BY <2>2, <2>3, <1>4
  <1>6. CASE c # None
    <2>1. c \in ChatId BY <1>0, <1>6
    <2>2. chats' = [chats EXCEPT ![c].touched = TRUE] /\ messages' = Append(messages, FromSystem(c))
      BY <1>6 DEF AddRequest
    <2>3. chats' \in Seq(Chat) /\ SinglesUnique' /\ ChatId' = ChatId
      BY <2>1, <2>2, ChatTouched
    <2> QED BY <2>1, <2>2, <2>3, <1>4
  <1> QED BY <1>3, <1>5, <1>6

\* A message is for a chat that is there, and its answer too.
LEMMA TypeStoreMessage == ASSUME TypeOK, NEW w \in Worker, StoreMessage(w) PROVE TypeOK'
  <1> DEFINE m == workers[w].message
  <1>1. m \in Message BY RequestAt DEF StoreMessage
  <1>2. Answer(m) /\ Free(w) /\ UNCHANGED <<apps, events, storage, active>>
    BY DEF StoreMessage
  <1>3. answered' \subseteq ChatId \X ClientId BY <1>1, <1>2, AnswerTyped
  <1>4. workers' \in [Worker -> Request]
    BY <1>2, FreeIsRequest DEF TypeOK, Free, Become
  <1>5. CASE m.cid # None /\ Known(m)
    <2>1. UNCHANGED tables BY <1>5, <1>2 DEF StoreMessage, tables
    <2> QED BY <2>1, <1>2, <1>3, <1>4, QuietTyped DEF TypeOK, storage
  <1>6. CASE ~ (m.cid # None /\ Known(m))
    <2>1. m.chat \in ChatId BY <1>1 DEF Message
    <2>2. messages' = Append(messages, m) /\ chats' = [chats EXCEPT ![m.chat].touched = TRUE]
      BY <1>6 DEF StoreMessage, Touch
    <2>3. chats' \in Seq(Chat) /\ SinglesUnique' /\ ChatId' = ChatId
      BY <2>1, <2>2, ChatTouched
    <2>4. messages' \in Seq(Message')
      <3>1. Message' = Message BY <2>3 DEF Message
      <3> QED BY <3>1, <1>1, <2>2, SeqAppend DEF TypeOK
    <2>5. sms' \in [User -> [Template -> Nat]]
      <3>1. chats[m.chat].owner \in User BY <2>1, Ids DEF Chat
      <3>2. CASE m.from \in Agent
        <4>1. Notify(chats[m.chat].owner, "chat_new_message") BY <3>2, <1>6 DEF StoreMessage
        <4> QED BY <3>1, <4>1, FreeIsRequest, NotifyTyped
      <3>3. CASE m.from \notin Agent BY <3>3, <1>6 DEF StoreMessage, TypeOK
      <3> QED BY <3>2, <3>3
    <2>6. Grows BY <1>2, <2>3 DEF Grows
    <2> QED BY <2>3, <2>4, <2>5, <2>6, <1>2, <1>3, <1>4, TypeGrows
  <1> QED BY <1>5, <1>6

\* The application refers to the chat that is added with it.
LEMMA TypeCreateApplication ==
  ASSUME TypeOK, NEW s \in Subject, NEW u \in User, CreateApplication(s, u)
  PROVE  TypeOK'
  <1> DEFINE chat == NewChat(u, "insurance", TRUE)
             app == [user |-> u, chat |-> Len(chats) + 1, status |-> "new"]
  <1>1. /\ chats' = Append(chats, chat) /\ apps' = Append(apps, app)
        /\ messages' = Append(messages, FromSystem(Len(chats) + 1))
        /\ UNCHANGED <<events, sms, storage, active, answered, workers>>
    BY DEF CreateApplication
  <1>2. chat \in Chat /\ chat.type = "insurance" BY DEF NewChat, Chat
  <1>3. /\ chats' \in Seq(Chat) /\ SinglesUnique'
        /\ ChatId \subseteq ChatId' /\ Len(chats) + 1 \in ChatId'
    <2> HIDE DEF chat
    <2> QED BY <1>1, <1>2, DeskAssumption, ChatAdded
  <1>4. app \in App' BY <1>3, DeskAssumption DEF App
  <1>5. FromSystem(Len(chats) + 1) \in Message' BY <1>3 DEF FromSystem, Message
  <1>6. apps' \in Seq(App')
    <2>1. App \subseteq App' BY <1>3 DEF App
    <2>2. apps \in Seq(App') BY <2>1, SeqWiden DEF TypeOK
    <2> HIDE DEF app
    <2> QED BY <2>2, <1>1, <1>4, SeqAppend
  <1>7. messages' \in Seq(Message')
    <2>1. Message \subseteq Message' BY <1>3 DEF Message
    <2>2. messages \in Seq(Message') BY <2>1, SeqWiden DEF TypeOK
    <2> QED BY <2>2, <1>1, <1>5, SeqAppend
  <1>8. DOMAIN apps \subseteq DOMAIN apps'
    <2> HIDE DEF app
    <2> QED BY <1>1, Appended DEF TypeOK
  <1>9. answered' \subseteq ChatId' \X ClientId BY <1>1, <1>3 DEF TypeOK
  <1> QED BY <1>1, <1>3, <1>6, <1>7, <1>8, <1>9, TypeGrows DEF Grows, TypeOK

\* The application of a change of status, and its chat.
LEMMA StatusCall ==
  ASSUME TypeOK, NEW w \in Worker, At(w, "status")
  PROVE  /\ workers[w].app \in DOMAIN apps /\ workers[w].old \in Status /\ workers[w].new \in Status
         /\ apps[workers[w].app] \in App
         /\ apps[workers[w].app].chat \in ChatId /\ apps[workers[w].app].user \in User
  BY RequestAt, Ids DEF App

\* A change of status leaves whose the application is, and where.
LEMMA StatusSet ==
  ASSUME TypeOK, NEW a \in DOMAIN apps, NEW s \in Status, apps' = [apps EXCEPT ![a].status = s]
  PROVE  /\ DOMAIN apps' = DOMAIN apps
         /\ \A b \in DOMAIN apps : /\ apps'[b] \in App
                                   /\ apps'[b].user = apps[b].user /\ apps'[b].chat = apps[b].chat
         /\ apps'[a].status = s
         /\ \A b \in DOMAIN apps \ {a} : apps'[b] = apps[b]
         /\ apps' \in Seq(App)
  <1>1. apps \in Seq(App) BY DEF TypeOK
  <1>2. apps[a] \in App BY Ids
  <1>3. [apps[a] EXCEPT !.status = s] \in App BY <1>2 DEF App
  <1>4. apps' = [apps EXCEPT ![a] = [apps[a] EXCEPT !.status = s]] OBVIOUS
  <1>5. apps' \in Seq(App) /\ DOMAIN apps' = DOMAIN apps BY <1>1, <1>3, <1>4
  <1>6. \A b \in DOMAIN apps \ {a} : apps'[b] = apps[b] BY <1>4
  <1>7. apps'[a] = [apps[a] EXCEPT !.status = s] BY <1>4
  <1>8. apps'[a] \in App /\ apps'[a].user = apps[a].user /\ apps'[a].chat = apps[a].chat
        /\ apps'[a].status = s
    BY <1>2, <1>3, <1>7 DEF App
  <1> QED BY <1>5, <1>6, <1>8, Ids

\* A change of status is of an application that is still there.
LEMMA TypeChangeStatus == ASSUME TypeOK, NEW w \in Worker, ChangeStatus(w) PROVE TypeOK'
  <1> DEFINE call == workers[w]
             app == apps[call.app]
             event == [app |-> call.app, old |-> call.old, new |-> call.new]
  <1>0. /\ call.app \in DOMAIN apps /\ call.old \in Status /\ call.new \in Status
        /\ app.chat \in ChatId /\ app.user \in User
    BY StatusCall DEF ChangeStatus
  <1>1. /\ apps' = [apps EXCEPT ![call.app].status = call.new]
        /\ events' = Append(events, event)
        /\ messages' = Append(messages, FromSystem(app.chat))
        /\ chats' = [chats EXCEPT ![app.chat].touched = TRUE]
        /\ Notify(app.user, "application_status_changed")
        /\ Free(w)
        /\ UNCHANGED <<storage, active, answered>>
    BY DEF ChangeStatus, Touch
  <1>2. chats' \in Seq(Chat) /\ SinglesUnique' /\ ChatId' = ChatId
    BY <1>0, <1>1, ChatTouched
  <1>3. App' = App /\ Message' = Message BY <1>2 DEF App, Message
  <1>4. apps' \in Seq(App') /\ DOMAIN apps' = DOMAIN apps
    BY <1>0, <1>1, <1>3, StatusSet
  <1>5. events' \in Seq(Event')
    <2>1. event \in Event BY <1>0 DEF Event
    <2>2. Event' = Event BY <1>4 DEF Event
    <2> HIDE DEF event
    <2> QED BY <2>1, <2>2, <1>1, SeqAppend DEF TypeOK, Event
  <1>6. messages' \in Seq(Message')
    <2>1. FromSystem(app.chat) \in Message BY <1>0 DEF FromSystem, Message
    <2> QED BY <2>1, <1>1, <1>3, SeqAppend DEF TypeOK
  <1>7. sms' \in [User -> [Template -> Nat]] BY <1>0, <1>1, FreeIsRequest, NotifyTyped
  <1>8. workers' \in [Worker -> Request \cup Request']
    BY <1>1, FreeIsRequest, BecomeTyped DEF Free
  <1>9. answered' \subseteq ChatId' \X ClientId BY <1>1, <1>2 DEF TypeOK
  <1> QED BY <1>1, <1>2, <1>4, <1>5, <1>6, <1>7, <1>8, <1>9, TypeGrows DEF Grows

\* Reads, uploads, deaths and the work of administrators.
Quiet(w) ==
    \/ \E u \in User : FindBonusChat(w, u)
    \/ \E m \in Message : m.from \in Subject /\ CheckMessage(w, m)
    \/ \E s \in Subject, c \in ChatId, f \in File : PutObject(w, s, c, f)
    \/ SaveRow(w) \/ UploadRaises(w) \/ AnswerUpload(w) \/ RemoveObject(w)
    \/ \E s \in Agent, a \in DOMAIN apps, new \in Status : ReadApplication(w, s, a, new)
    \/ Die(w)

\* Requests go from one well-formed state to another.
LEMMA TypeQuiet == ASSUME TypeOK, NEW w \in Worker, Quiet(w) PROVE TypeOK'
  <1> USE DEF Free
  <1>0. /\ workers \in [Worker -> Request] /\ files \in [File -> ChatId \cup {None}]
        /\ objects \subseteq File /\ given \subseteq File /\ active \subseteq Agent
        /\ answered \subseteq ChatId \X ClientId
    BY DEF TypeOK
  <1>1. ASSUME NEW r \in Request, Become(w, r) PROVE workers' \in [Worker -> Request]
    BY <1>0, <1>1 DEF Become
  <1>2. [at |-> "free"] \in Request BY FreeIsRequest
  <1>3. ASSUME NEW u \in User, FindBonusChat(w, u) PROVE TypeOK'
    <2>1. PICK c \in ChatId \cup {None} : Become(w, [at |-> "bonus", owner |-> u, chat |-> c])
      BY <1>3 DEF FindBonusChat, ChatsOf
    <2>2. [at |-> "bonus", owner |-> u, chat |-> c] \in Request BY DEF Request
    <2> QED BY <1>0, <1>1, <1>3, <2>1, <2>2, QuietTyped DEF FindBonusChat, storage
  <1>4. ASSUME NEW m \in Message, CheckMessage(w, m) PROVE TypeOK'
    <2>1. [at |-> "store", message |-> m] \in Request BY DEF Request
    <2>2. workers' \in [Worker -> Request] BY <1>0, <1>1, <1>4, <2>1 DEF CheckMessage
    <2>3. answered' \subseteq ChatId \X ClientId BY <1>0, <1>4, AnswerTyped DEF CheckMessage
    <2> QED BY <1>0, <1>4, <2>2, <2>3, QuietTyped DEF CheckMessage, storage
  <1>5. ASSUME NEW s \in Subject, NEW c \in ChatId, NEW f \in File, PutObject(w, s, c, f) PROVE TypeOK'
    <2>1. [at |-> "row", file |-> f, chat |-> c] \in Request BY DEF Request
    <2>2. workers' \in [Worker -> Request] BY <1>1, <1>5, <2>1 DEF PutObject
    <2> QED BY <1>0, <1>5, <2>2, QuietTyped DEF PutObject
  <1>6. ASSUME NEW at \in {"row", "refresh", "remove"}, NEW new \in {"row", "refresh", "remove"}, At(w, at)
        PROVE  /\ workers[w].file \in File /\ workers[w].chat \in ChatId
               /\ [workers[w] EXCEPT !.at = new] \in Request
    <2>1. workers[w] \in [at : {"row", "refresh", "remove"}, file : File, chat : ChatId]
      BY <1>6, RequestAt
    <2>2. [workers[w] EXCEPT !.at = new] \in [at : {"row", "refresh", "remove"}, file : File, chat : ChatId]
      BY <2>1
    <2> QED BY <2>1, <2>2 DEF Request
  <1>7. CASE SaveRow(w)
    <2>1. workers' \in [Worker -> Request] BY <1>1, <1>6, <1>7 DEF SaveRow
    <2>2. files' \in [File -> ChatId \cup {None}] BY <1>0, <1>6, <1>7 DEF SaveRow
    <2> QED BY <1>0, <1>7, <2>1, <2>2, QuietTyped DEF SaveRow
  <1>8. CASE UploadRaises(w)
    <2>1. workers' \in [Worker -> Request] BY <1>1, <1>6, <1>8 DEF UploadRaises
    <2> QED BY <1>0, <1>8, <2>1, QuietTyped DEF UploadRaises, storage
  <1>9. CASE AnswerUpload(w)
    <2>1. workers' \in [Worker -> Request] BY <1>1, <1>2, <1>9 DEF AnswerUpload
    <2> QED BY <1>0, <1>6, <1>9, <2>1, QuietTyped DEF AnswerUpload
  <1>10. CASE RemoveObject(w)
    <2>1. workers' \in [Worker -> Request] BY <1>1, <1>2, <1>10 DEF RemoveObject
    <2> QED BY <1>0, <1>10, <2>1, QuietTyped DEF RemoveObject
  <1>11. ASSUME NEW s \in Agent, NEW a \in DOMAIN apps, NEW new \in Status,
                ReadApplication(w, s, a, new)
         PROVE  TypeOK'
    <2>1. apps[a].status \in Status BY Ids DEF App
    <2>2. [at |-> "status", app |-> a, old |-> apps[a].status, new |-> new] \in Request
      BY <2>1 DEF Request
    <2>3. workers' \in [Worker -> Request] BY <1>1, <1>11, <2>2 DEF ReadApplication
    <2> QED BY <1>0, <1>11, <2>3, QuietTyped DEF ReadApplication, storage
  <1>12. CASE Die(w)
    <2>1. workers' \in [Worker -> Request] BY <1>1, <1>2, <1>12 DEF Die
    <2> QED BY <1>0, <1>12, <2>1, QuietTyped DEF Die, storage
  <1> QED BY <1>3, <1>4, <1>5, <1>7, <1>8, <1>9, <1>10, <1>11, <1>12 DEF Quiet

\* What a step may be: the five that write to the tables, and the others.
LEMMA Steps ==
  ASSUME [Next]_vars
  PROVE  \/ \E u \in User, type \in Singles : OpenChat(u, type)
         \/ \E w \in Worker : AddRequest(w) \/ StoreMessage(w) \/ ChangeStatus(w) \/ Quiet(w)
         \/ \E s \in Subject, u \in User : CreateApplication(s, u)
         \/ \E s \in Agent : SwitchAgent(s)
         \/ UNCHANGED vars
  <1>1. ASSUME NEW w \in Worker, NEW c \in ChatId, NEW s \in Subject, NEW id \in ClientId \cup {None},
               NEW f \in File \cup {None}, CheckMessage(w, [chat |-> c, from |-> s, cid |-> id, file |-> f])
        PROVE  Quiet(w)
    <2>1. /\ [chat |-> c, from |-> s, cid |-> id, file |-> f] \in Message
          /\ [chat |-> c, from |-> s, cid |-> id, file |-> f].from \in Subject
      BY DEF Message
    <2> QED BY <1>1, <2>1 DEF Quiet
  <1> QED BY <1>1 DEF Next, Quiet

\* Every step keeps shapes and references.
LEMMA TypeStep == TypeOK /\ [Next]_vars => TypeOK'
  <1> SUFFICES ASSUME TypeOK, [Next]_vars PROVE TypeOK' OBVIOUS
  <1>1. ASSUME NEW s \in Agent, SwitchAgent(s) PROVE TypeOK'
    BY <1>1, QuietTyped DEF SwitchAgent, TypeOK, storage
  <1>2. CASE UNCHANGED vars
    BY <1>2, QuietTyped DEF vars, TypeOK, storage
  <1> QED BY <1>1, <1>2, Steps, TypeOpenChat, TypeAddRequest, TypeStoreMessage, TypeChangeStatus,
             TypeCreateApplication, TypeQuiet

\* Chats, messages, applications, files and requests keep their shapes and
\* references, and nobody gets two main or two bonus chats, however requests
\* for one overlap.
THEOREM TypeCorrect == Spec => []TypeOK
  BY TypeInit, TypeStep, PTL DEF Spec

-----------------------------------------------------------------------------
(* Messages are stored once. *)

Rows(c, id) == {i \in DOMAIN messages : messages[i].chat = c /\ messages[i].cid = id}

\* No row and one row are at most one.
LEMMA AtMostOne == ASSUME NEW n PROVE Cardinality({}) <= 1 /\ Cardinality({n}) <= 1
  <1>1. Cardinality({}) = 0 BY FS_EmptySet
  <1>2. Cardinality({n}) = 1 BY FS_Singleton
  <1> QED BY <1>1, <1>2

\* Rows with other client ids, and none, do not count for a client id.
LEMMA RowAppended ==
  ASSUME TypeOK, NEW m, messages' = Append(messages, m), NEW c, NEW id
  PROVE  Rows(c, id)' = Rows(c, id) \cup
           (IF m.chat = c /\ m.cid = id THEN {Len(messages) + 1} ELSE {})
  <1>1. /\ DOMAIN messages' = DOMAIN messages \cup {Len(messages) + 1}
        /\ messages'[Len(messages) + 1] = m
        /\ \A i \in DOMAIN messages : messages'[i] = messages[i]
    BY Appended DEF TypeOK
  <1> QED BY <1>1 DEF Rows

\* A new chat has no messages yet.
LEMMA NewChatEmpty ==
  ASSUME TypeOK, NEW id, NEW from
  PROVE  Rows(Len(chats) + 1, id) = {} /\ Between(Len(chats) + 1, from) = {}
  BY Ids DEF Rows, Between, Message

\* What StoredOnce says of one message id.
Stored(c, id) == Cardinality(Rows(c, id)) <= 1 /\ (<<c, id>> \in answered => Rows(c, id) # {})

\* StoredOnce, client id by client id.
LEMMA StoredEach == StoredOnce <=> \A c \in ChatId, id \in ClientId : Stored(c, id)
  BY DEF StoredOnce, Stored, Rows

\* There are no chats at first.
LEMMA StoredInit == Init => StoredOnce
  BY DEF Init, StoredOnce, ChatId

\* Without a row or an answer more, nothing changes, whatever chats are added.
LEMMA StoredAsBefore ==
  ASSUME TypeOK, StoredOnce, UNCHANGED <<messages, answered>>,
         ChatId' \subseteq ChatId \cup {Len(chats) + 1}
  PROVE  StoredOnce'
  <1>1. ASSUME NEW c \in ChatId', NEW id \in ClientId PROVE Stored(c, id)'
    <2>1. Rows(c, id)' = Rows(c, id) BY DEF Rows
    <2>2. CASE c \in ChatId BY <2>1, <2>2, StoredEach DEF Stored
    <2>3. CASE c = Len(chats) + 1
      <3>1. Rows(c, id) = {} BY <2>3, NewChatEmpty
      <3>2. <<c, id>> \notin answered BY <2>3, Ids DEF TypeOK
      <3> QED BY <2>1, <3>1, <3>2, AtMostOne DEF Stored
    <2> QED BY <2>2, <2>3
  <1> QED BY <1>1 DEF StoredOnce, Stored, Rows

\* A message of the platform has no client id.
LEMMA StoredFromSystem ==
  ASSUME TypeOK, StoredOnce, NEW d, messages' = Append(messages, FromSystem(d)), UNCHANGED answered,
         ChatId' \subseteq ChatId \cup {Len(chats) + 1}
  PROVE  StoredOnce'
  <1>1. ASSUME NEW c \in ChatId', NEW id \in ClientId PROVE Stored(c, id)'
    <2>1. Rows(c, id)' = Rows(c, id)
      <3>1. PICK m : m = FromSystem(d) OBVIOUS
      <3>2. m.cid # id BY <3>1, DeskAssumption DEF FromSystem
      <3>3. messages' = Append(messages, m) BY <3>1
      <3>4. Rows(c, id)' = Rows(c, id) \cup {} BY <3>2, <3>3, RowAppended
      <3> QED BY <3>4
    <2>2. CASE c \in ChatId BY <2>1, <2>2, StoredEach DEF Stored
    <2>3. CASE c = Len(chats) + 1
      <3>1. Rows(c, id) = {} BY <2>3, NewChatEmpty
      <3>2. <<c, id>> \notin answered BY <2>3, Ids DEF TypeOK
      <3> QED BY <2>1, <3>1, <3>2, AtMostOne DEF Stored
    <2> QED BY <2>2, <2>3
  <1> QED BY <1>1 DEF StoredOnce, Stored, Rows

\* The insert meets the unique index or adds the only row.
LEMMA StoredStoreMessage ==
  ASSUME TypeOK, StoredOnce, NEW w \in Worker, StoreMessage(w)
  PROVE  StoredOnce'
  <1> DEFINE m == workers[w].message
  <1>1. m \in Message BY RequestAt DEF StoreMessage
  <1>2. ChatId' = ChatId BY ChatTouched, <1>1 DEF StoreMessage, Touch, Message, ChatId
  <1>3. answered' = answered \cup (IF m.cid = None THEN {} ELSE {<<m.chat, m.cid>>})
    BY DEF StoreMessage, Answer
  <1>4. ASSUME NEW c \in ChatId, NEW id \in ClientId PROVE Stored(c, id)'
    <2>0. id # None /\ Stored(c, id) BY DeskAssumption, StoredEach
    <2>1. CASE m.chat = c /\ m.cid = id
      <3>1. CASE Known(m)
        <4>1. messages' = messages BY <2>0, <2>1, <3>1 DEF StoreMessage
        <4>2. Rows(c, id)' = Rows(c, id) BY <4>1 DEF Rows
        <4>3. Rows(c, id) # {} BY <2>1, <3>1 DEF Known, Rows
        <4> QED BY <2>0, <4>2, <4>3 DEF Stored
      <3>2. CASE ~ Known(m)
        <4>1. Rows(c, id) = {} BY <2>1, <3>2 DEF Known, Rows
        <4>2. messages' = Append(messages, m) BY <3>2 DEF StoreMessage
        <4> HIDE DEF m
        <4>3. Rows(c, id)' = {Len(messages) + 1} BY <2>1, <4>1, <4>2, RowAppended
        <4> QED BY <4>3, AtMostOne DEF Stored
      <3> QED BY <3>1, <3>2
    <2>2. CASE ~ (m.chat = c /\ m.cid = id)
      <3>1. <<c, id>> \in answered' => <<c, id>> \in answered BY <1>3, <2>2
      <3>2. messages' = messages \/ messages' = Append(messages, m) BY DEF StoreMessage
      <3> HIDE DEF m
      <3>3. CASE messages' = messages
        <4>1. Rows(c, id)' = Rows(c, id) BY <3>3 DEF Rows
        <4> QED BY <2>0, <3>1, <4>1 DEF Stored
      <3>4. CASE messages' = Append(messages, m)
        <4>1. Rows(c, id)' = Rows(c, id) \cup {} BY <2>2, <3>4, RowAppended
        <4> QED BY <2>0, <3>1, <4>1 DEF Stored
      <3> QED BY <3>2, <3>3, <3>4
    <2> QED BY <2>1, <2>2
  <1> QED BY <1>2, <1>4 DEF StoredOnce, Stored, Rows

\* A delivery that finds the row answers for it.
LEMMA StoredQuiet ==
  ASSUME TypeOK, StoredOnce, NEW w \in Worker, Quiet(w)
  PROVE  StoredOnce'
  <1>1. UNCHANGED tables
    BY DEF Quiet, FindBonusChat, CheckMessage, PutObject, SaveRow, UploadRaises, AnswerUpload,
       RemoveObject, ReadApplication, Die
  <1>2. ASSUME NEW m \in Message, CheckMessage(w, m) PROVE StoredOnce'
    <2>1. ChatId' = ChatId BY <1>1 DEF tables, ChatId
    <2>2. answered' = answered \/ (m.cid # None /\ Known(m) /\ answered' = answered \cup {<<m.chat, m.cid>>})
      BY <1>2 DEF CheckMessage, Answer
    <2>3. ASSUME NEW c \in ChatId, NEW id \in ClientId PROVE Stored(c, id)'
      <3>1. Rows(c, id)' = Rows(c, id) BY <1>1 DEF Rows, tables
      <3>2. <<c, id>> \in answered' => <<c, id>> \in answered \/ Rows(c, id) # {}
        BY <2>2 DEF Known, Rows
      <3> QED BY <3>1, <3>2, StoredEach DEF Stored
    <2> QED BY <2>1, <2>3 DEF StoredOnce, Stored, Rows
  <1>3. CASE answered' = answered
    BY <1>1, <1>3, StoredAsBefore DEF tables, ChatId
  <1> QED BY <1>2, <1>3 DEF Quiet, FindBonusChat, PutObject, SaveRow, UploadRaises, AnswerUpload,
             RemoveObject, ReadApplication, Die

\* Every step keeps what was answered stored, and once.
LEMMA StoredStep == TypeOK /\ StoredOnce /\ [Next]_vars => StoredOnce'
  <1> SUFFICES ASSUME TypeOK, StoredOnce, [Next]_vars PROVE StoredOnce' OBVIOUS
  <1>1. ASSUME NEW chat, chats' = Append(chats, chat)
        PROVE  ChatId' \subseteq ChatId \cup {Len(chats) + 1}
    BY <1>1, Appended DEF TypeOK, ChatId
  <1>2. ASSUME NEW u \in User, NEW type \in Singles, OpenChat(u, type) PROVE StoredOnce'
    <2>1. ChatId' \subseteq ChatId \cup {Len(chats) + 1} BY <1>1, <1>2 DEF OpenChat, ChatId
    <2> QED BY <1>2, <2>1, StoredAsBefore DEF OpenChat
  <1>3. ASSUME NEW w \in Worker, AddRequest(w) PROVE StoredOnce'
    <2>1. ChatId' \subseteq ChatId \cup {Len(chats) + 1} BY <1>1, <1>3 DEF AddRequest, ChatId
    <2>2. answered' = answered BY <1>3 DEF AddRequest
    <2>3. messages' = messages \/ \E d : messages' = Append(messages, FromSystem(d))
      BY <1>3 DEF AddRequest
    <2> QED BY <2>1, <2>2, <2>3, StoredAsBefore, StoredFromSystem
  <1>4. ASSUME NEW w \in Worker, ChangeStatus(w) PROVE StoredOnce'
    <2>1. ChatId' = ChatId BY <1>4 DEF ChangeStatus, Touch, ChatId
    <2>2. \E d : messages' = Append(messages, FromSystem(d)) BY <1>4 DEF ChangeStatus
    <2> QED BY <1>4, <2>1, <2>2, StoredFromSystem DEF ChangeStatus
  <1>5. ASSUME NEW s \in Subject, NEW u \in User, CreateApplication(s, u) PROVE StoredOnce'
    <2>1. ChatId' \subseteq ChatId \cup {Len(chats) + 1} BY <1>1, <1>5 DEF CreateApplication
    <2>2. messages' = Append(messages, FromSystem(Len(chats) + 1)) /\ answered' = answered
      BY <1>5 DEF CreateApplication
    <2> QED BY <2>1, <2>2, StoredFromSystem
  <1>6. ASSUME NEW s \in Agent, SwitchAgent(s) PROVE StoredOnce'
    BY <1>6, StoredAsBefore DEF SwitchAgent, tables, ChatId
  <1>7. CASE UNCHANGED vars
    BY <1>7, StoredAsBefore DEF vars, tables, ChatId
  <1> QED BY <1>2, <1>3, <1>4, <1>5, <1>6, <1>7, Steps, StoredStoreMessage, StoredQuiet

\* A message with a client id that was answered is stored, and once, for any
\* number of deliveries side by side and any that died.
THEOREM AnsweredIsStored == Spec => []StoredOnce
  BY TypeInit, StoredInit, TypeStep, StoredStep, PTL DEF Spec

-----------------------------------------------------------------------------
(* Files answered for are kept. *)

Holding(w) == workers[w].at \in {"row", "refresh", "remove"}

\* One upload works on a file, until it is answered.
UploadsApart ==
    /\ \A v, w \in Worker : Holding(v) /\ Holding(w) /\ workers[v].file = workers[w].file => v = w
    /\ \A w \in Worker : Holding(w) => workers[w].file \notin given

\* What an upload that has not failed has put is there.
UploadsKept ==
    \A w \in Worker :
      /\ At(w, "row") => workers[w].file \in objects /\ files[workers[w].file] = None
      /\ At(w, "refresh") =>
           workers[w].file \in objects /\ files[workers[w].file] = workers[w].chat

GivenKept == \A f \in given : f \in objects /\ files[f] # None

\* A message carries a file answered for, of its own chat.
Attached(m) == m.file # None => m.file \in given /\ files[m.file] = m.chat

AttachedInv ==
    /\ \A w \in Worker : At(w, "store") => Attached(workers[w].message)
    /\ \A i \in DOMAIN messages : Attached(messages[i])

FilesInv == UploadsApart /\ UploadsKept /\ GivenKept /\ AttachedInv

\* Nobody uploads at first.
LEMMA FilesInit == Init => FilesInv
  BY DEF Init, FilesInv, UploadsApart, UploadsKept, GivenKept, AttachedInv, Holding, At

\* What the proof keeps is what was promised.
LEMMA FilesKept == FilesInv => AttachmentsKept
  BY DEF FilesInv, GivenKept, AttachedInv, Attached, AttachmentsKept

\* Steps of requests that end, or do not upload.
LEMMA FilesElsewhere ==
  ASSUME TypeOK, FilesInv, UNCHANGED storage,
         \A w \in Worker : workers'[w] = workers[w] \/ ~ Holding(w)',
         \A w \in Worker : At(w, "store")' => workers'[w] = workers[w] \/ Attached(workers'[w].message),
         \A i \in DOMAIN messages' :
           \/ i \in DOMAIN messages /\ messages'[i] = messages[i]
           \/ Attached(messages'[i])
  PROVE  FilesInv'
  <1>1. UNCHANGED <<files, objects, given>> BY DEF storage
  <1>2. UploadsApart' BY <1>1 DEF FilesInv, UploadsApart, Holding
  <1>3. UploadsKept' BY <1>1 DEF FilesInv, UploadsKept, Holding, At
  <1>4. GivenKept' BY <1>1 DEF FilesInv, GivenKept
  <1>5. AttachedInv' BY <1>1 DEF FilesInv, AttachedInv, Attached, At
  <1> QED BY <1>2, <1>3, <1>4, <1>5 DEF FilesInv

\* A request that ends leaves nothing to hold or to store.
LEMMA FreeHoldsNothing ==
  ASSUME TypeOK, NEW w \in Worker, Free(w)
  PROVE  /\ workers'[w] = [at |-> "free"]
         /\ \A v \in Worker \ {w} : workers'[v] = workers[v]
         /\ \A v \in Worker : workers'[v] = workers[v] \/ ~ Holding(v)'
         /\ \A v \in Worker : At(v, "store")' => workers'[v] = workers[v]
  BY DEF TypeOK, Free, Become, Holding, At

\* A message of the platform has no file.
LEMMA FilesFromSystem ==
  ASSUME TypeOK, NEW d, messages' = Append(messages, FromSystem(d))
  PROVE  \A i \in DOMAIN messages' :
           \/ i \in DOMAIN messages /\ messages'[i] = messages[i]
           \/ Attached(messages'[i])
  <1>1. PICK m : m = FromSystem(d) OBVIOUS
  <1>2. m.file = None BY <1>1 DEF FromSystem
  <1>3. messages' = Append(messages, m) BY <1>1
  <1>4. /\ DOMAIN messages' = DOMAIN messages \cup {Len(messages) + 1}
        /\ messages'[Len(messages) + 1] = m
        /\ \A i \in DOMAIN messages : messages'[i] = messages[i]
    BY <1>3, Appended DEF TypeOK
  <1> QED BY <1>2, <1>4 DEF Attached

\* The message carries the file it was checked with.
LEMMA FilesStoreMessage == ASSUME TypeOK, FilesInv, NEW w \in Worker, StoreMessage(w) PROVE FilesInv'
  <1>1. PICK m : m = workers[w].message OBVIOUS
  <1>2. Attached(m) BY <1>1 DEF StoreMessage, FilesInv, AttachedInv
  <1>3. Free(w) /\ UNCHANGED storage /\ (messages' = messages \/ messages' = Append(messages, m))
    BY <1>1 DEF StoreMessage
  <1>4. ASSUME NEW i \in DOMAIN messages'
        PROVE  \/ i \in DOMAIN messages /\ messages'[i] = messages[i]
               \/ Attached(messages'[i])
    <2>1. CASE messages' = messages BY <2>1
    <2>2. CASE messages' = Append(messages, m)
      <3>1. \/ i \in DOMAIN messages /\ messages'[i] = messages[i]
            \/ messages'[i] = m
        BY <2>2, Appended DEF TypeOK
      <3> QED BY <1>2, <3>1 DEF Attached
    <2> QED BY <1>3, <2>1, <2>2
  <1> QED BY <1>3, <1>4, FreeHoldsNothing, FilesElsewhere

\* An upload takes a file nobody works on.
LEMMA FilesPutObject ==
  ASSUME TypeOK, FilesInv, NEW w \in Worker, NEW s \in Subject, NEW c \in ChatId, NEW f \in File,
         PutObject(w, s, c, f)
  PROVE  FilesInv'
  <1>1. /\ Forgotten(f) /\ objects' = objects \cup {f} /\ UNCHANGED <<messages, files, given>>
        /\ workers' = [workers EXCEPT ![w] = [at |-> "row", file |-> f, chat |-> c]]
    BY DEF PutObject, Become, tables
  <1>2. f \notin given BY <1>1 DEF FilesInv, GivenKept, Forgotten
  <1>3. /\ workers'[w] = [at |-> "row", file |-> f, chat |-> c]
        /\ \A v \in Worker \ {w} : workers'[v] = workers[v]
    BY <1>1 DEF TypeOK
  <1>4. \A v \in Worker : Holding(v) => workers[v].file # f BY <1>1 DEF Forgotten, Holding
  <1>5. UploadsApart' BY <1>1, <1>2, <1>3, <1>4 DEF FilesInv, UploadsApart, Holding
  <1>6. UploadsKept' BY <1>1, <1>3 DEF FilesInv, UploadsKept, Forgotten, At
  <1>7. GivenKept' BY <1>1 DEF FilesInv, GivenKept
  <1>8. AttachedInv' BY <1>1, <1>3 DEF FilesInv, AttachedInv, Attached, At
  <1> QED BY <1>5, <1>6, <1>7, <1>8 DEF FilesInv

\* The file an upload works on, and where it goes next.
LEMMA HeldFile ==
  ASSUME TypeOK, NEW w \in Worker, Holding(w), NEW at, Become(w, [workers[w] EXCEPT !.at = at])
  PROVE  /\ workers[w].file \in File /\ workers[w].chat \in ChatId
         /\ workers'[w].at = at
         /\ workers'[w].file = workers[w].file /\ workers'[w].chat = workers[w].chat
         /\ \A v \in Worker \ {w} : workers'[v] = workers[v]
  <1>1. workers[w] \in [at : {"row", "refresh", "remove"}, file : File, chat : ChatId]
    BY RequestAt DEF Holding, At
  <1>2. workers'[w] = [workers[w] EXCEPT !.at = at] /\ \A v \in Worker \ {w} : workers'[v] = workers[v]
    BY DEF TypeOK, Become
  <1> QED BY <1>1, <1>2

\* The row is that of the upload's own file, not answered for yet.
LEMMA FilesSaveRow == ASSUME TypeOK, FilesInv, NEW w \in Worker, SaveRow(w) PROVE FilesInv'
  <1>1. PICK f : f = workers[w].file OBVIOUS
  <1>2. /\ At(w, "row") /\ Holding(w) /\ UNCHANGED <<messages, objects, given>>
        /\ Become(w, [workers[w] EXCEPT !.at = "refresh"])
        /\ files' = [files EXCEPT ![f] = workers[w].chat]
    BY <1>1 DEF SaveRow, At, Holding, tables
  <1>3. /\ f \in File /\ workers[w].chat \in ChatId /\ workers'[w].at = "refresh"
        /\ workers'[w].file = f /\ workers'[w].chat = workers[w].chat
        /\ \A v \in Worker \ {w} : workers'[v] = workers[v]
    BY <1>1, <1>2, HeldFile
  <1>4. files'[f] = workers[w].chat /\ \A g \in File \ {f} : files'[g] = files[g]
    BY <1>2, <1>3 DEF TypeOK
  <1>5. f \in objects /\ f \notin given
    BY <1>1, <1>2 DEF FilesInv, UploadsKept, UploadsApart
  <1>6. \A g \in given : files'[g] = files[g] BY <1>4, <1>5 DEF TypeOK
  <1>7. UploadsApart' BY <1>1, <1>2, <1>3 DEF FilesInv, UploadsApart, Holding
  <1>8. UploadsKept'
    <2> SUFFICES ASSUME NEW v \in Worker \ {w}, At(v, "row") \/ At(v, "refresh")
                 PROVE  files'[workers[v].file] = files[workers[v].file]
      BY <1>2, <1>3, <1>4, <1>5 DEF FilesInv, UploadsKept, At
    <2>1. Holding(v) BY DEF Holding, At
    <2>2. workers[v].file # f BY <2>1, <1>1, <1>2 DEF FilesInv, UploadsApart
    <2>3. workers[v].file \in File BY RequestAt
    <2> QED BY <2>2, <2>3, <1>4
  <1>9. GivenKept' BY <1>2, <1>6 DEF FilesInv, GivenKept
  <1>10. AttachedInv' BY <1>2, <1>3, <1>6 DEF FilesInv, AttachedInv, Attached, At
  <1> QED BY <1>7, <1>8, <1>9, <1>10 DEF FilesInv

\* A failure leaves the object to be removed.
LEMMA FilesUploadRaises == ASSUME TypeOK, FilesInv, NEW w \in Worker, UploadRaises(w) PROVE FilesInv'
  <1>1. /\ Holding(w) /\ UNCHANGED <<messages, files, objects, given>>
        /\ Become(w, [workers[w] EXCEPT !.at = "remove"])
    BY DEF UploadRaises, At, Holding, tables, storage
  <1>2. /\ workers'[w].at = "remove" /\ workers'[w].file = workers[w].file
        /\ \A v \in Worker \ {w} : workers'[v] = workers[v]
    BY <1>1, HeldFile
  <1>3. UploadsApart' BY <1>1, <1>2 DEF FilesInv, UploadsApart, Holding
  <1>4. UploadsKept' BY <1>1, <1>2 DEF FilesInv, UploadsKept, At
  <1>5. GivenKept' BY <1>1 DEF FilesInv, GivenKept
  <1>6. AttachedInv' BY <1>1, <1>2 DEF FilesInv, AttachedInv, Attached, At
  <1> QED BY <1>3, <1>4, <1>5, <1>6 DEF FilesInv

\* The answer is for a file whose object and row are there.
LEMMA FilesAnswerUpload == ASSUME TypeOK, FilesInv, NEW w \in Worker, AnswerUpload(w) PROVE FilesInv'
  <1>1. PICK f : f = workers[w].file OBVIOUS
  <1>2. /\ At(w, "refresh") /\ Holding(w) /\ UNCHANGED <<messages, files, objects>>
        /\ given' = given \cup {f} /\ Free(w)
    BY <1>1 DEF AnswerUpload, At, Holding, tables
  <1>3. f \in objects /\ files[f] = workers[w].chat /\ workers[w].chat \in ChatId
    BY <1>1, <1>2, RequestAt DEF FilesInv, UploadsKept
  <1>4. files[f] # None BY <1>3, Ids
  <1>5. \A v \in Worker : Holding(v)' => v # w /\ workers'[v] = workers[v] /\ Holding(v) /\ workers[v].file # f
    BY <1>1, <1>2, FreeHoldsNothing DEF Holding, FilesInv, UploadsApart
  <1>6. UploadsApart' BY <1>2, <1>5 DEF FilesInv, UploadsApart, Holding
  <1>7. UploadsKept' BY <1>2, <1>5 DEF FilesInv, UploadsKept, At, Holding
  <1>8. GivenKept' BY <1>2, <1>3, <1>4 DEF FilesInv, GivenKept
  <1>9. AttachedInv' BY <1>2, FreeHoldsNothing DEF FilesInv, AttachedInv, Attached, At
  <1> QED BY <1>6, <1>7, <1>8, <1>9 DEF FilesInv

\* The object removed is of a file nobody was answered for.
LEMMA FilesRemoveObject == ASSUME TypeOK, FilesInv, NEW w \in Worker, RemoveObject(w) PROVE FilesInv'
  <1>1. PICK f : f = workers[w].file OBVIOUS
  <1>2. /\ Holding(w) /\ UNCHANGED <<messages, files, given>>
        /\ objects' = objects \ {f} /\ Free(w)
    BY <1>1 DEF RemoveObject, At, Holding, tables
  <1>3. f \notin given BY <1>1, <1>2 DEF FilesInv, UploadsApart
  <1>5. \A v \in Worker : Holding(v)' => v # w /\ workers'[v] = workers[v] /\ Holding(v) /\ workers[v].file # f
    BY <1>1, <1>2, FreeHoldsNothing DEF Holding, FilesInv, UploadsApart
  <1>6. UploadsApart' BY <1>2, <1>5 DEF FilesInv, UploadsApart, Holding
  <1>7. UploadsKept' BY <1>2, <1>5 DEF FilesInv, UploadsKept, At, Holding
  <1>8. GivenKept' BY <1>2, <1>3 DEF FilesInv, GivenKept
  <1>9. AttachedInv' BY <1>2, FreeHoldsNothing DEF FilesInv, AttachedInv, Attached, At
  <1> QED BY <1>6, <1>7, <1>8, <1>9 DEF FilesInv

\* Requests that begin without an upload, and those that die.
LEMMA FilesOtherQuiet ==
  ASSUME TypeOK, FilesInv, NEW w \in Worker,
         \/ \E u \in User : FindBonusChat(w, u)
         \/ \E m \in Message : CheckMessage(w, m)
         \/ \E s \in Agent, a \in DOMAIN apps, new \in Status : ReadApplication(w, s, a, new)
         \/ Die(w)
  PROVE  FilesInv'
  <1>1. UNCHANGED <<messages, storage>>
    BY DEF FindBonusChat, CheckMessage, ReadApplication, Die, tables
  <1>2. ASSUME NEW r, Become(w, r), r.at \in {"bonus", "status", "store"},
               r.at = "store" => Attached(r.message)
        PROVE  FilesInv'
    <2>1. workers'[w] = r /\ \A v \in Worker \ {w} : workers'[v] = workers[v]
      BY <1>2 DEF TypeOK, Become
    <2> QED BY <1>1, <1>2, <2>1, FilesElsewhere DEF Holding, At
  <1>3. CASE Die(w) BY <1>1, <1>3, FreeHoldsNothing, FilesElsewhere DEF Die
  <1>4. ASSUME NEW u \in User, FindBonusChat(w, u) PROVE FilesInv'
    <2>1. PICK c : Become(w, [at |-> "bonus", owner |-> u, chat |-> c]) BY <1>4 DEF FindBonusChat
    <2>2. PICK r : r = [at |-> "bonus", owner |-> u, chat |-> c] OBVIOUS
    <2> QED BY <1>2, <2>1, <2>2
  <1>5. ASSUME NEW m \in Message, CheckMessage(w, m) PROVE FilesInv'
    <2>1. Attached(m) BY <1>5 DEF CheckMessage, Attached
    <2>2. PICK r : r = [at |-> "store", message |-> m] OBVIOUS
    <2>3. CASE Become(w, r) BY <1>2, <2>1, <2>2, <2>3
    <2>4. CASE UNCHANGED workers BY <1>1, <2>4, FilesElsewhere
    <2> QED BY <1>5, <2>2, <2>3, <2>4 DEF CheckMessage
  <1>6. ASSUME NEW s \in Agent, NEW a \in DOMAIN apps, NEW new \in Status, ReadApplication(w, s, a, new)
        PROVE  FilesInv'
    <2>1. PICK r : r = [at |-> "status", app |-> a, old |-> apps[a].status, new |-> new] OBVIOUS
    <2>2. Become(w, r) BY <1>6, <2>1 DEF ReadApplication
    <2>3. r.at = "status" BY <2>1
    <2> QED BY <1>2, <2>2, <2>3
  <1> QED BY <1>3, <1>4, <1>5, <1>6

\* Every step keeps the files answered for.
LEMMA FilesStep == TypeOK /\ FilesInv /\ [Next]_vars => FilesInv'
  <1> SUFFICES ASSUME TypeOK, FilesInv, [Next]_vars PROVE FilesInv' OBVIOUS
  <1>1. ASSUME UNCHANGED <<messages, storage, workers>> PROVE FilesInv'
    BY <1>1, FilesElsewhere
  <1>2. ASSUME NEW w \in Worker, Free(w), UNCHANGED storage,
               messages' = messages \/ \E d : messages' = Append(messages, FromSystem(d))
        PROVE  FilesInv'
    <2>1. \A i \in DOMAIN messages' :
            \/ i \in DOMAIN messages /\ messages'[i] = messages[i]
            \/ Attached(messages'[i])
      BY <1>2, FilesFromSystem
    <2> QED BY <1>2, <2>1, FreeHoldsNothing, FilesElsewhere
  <1>3. ASSUME NEW u \in User, NEW type \in Singles, OpenChat(u, type) PROVE FilesInv'
    BY <1>1, <1>3 DEF OpenChat
  <1>4. ASSUME NEW w \in Worker, AddRequest(w) PROVE FilesInv'
    BY <1>2, <1>4 DEF AddRequest
  <1>5. ASSUME NEW w \in Worker, ChangeStatus(w) PROVE FilesInv'
    BY <1>2, <1>5 DEF ChangeStatus
  <1>6. ASSUME NEW w \in Worker, Quiet(w) PROVE FilesInv'
    BY <1>6, FilesOtherQuiet, FilesPutObject, FilesSaveRow, FilesUploadRaises, FilesAnswerUpload,
       FilesRemoveObject DEF Quiet
  <1>7. ASSUME NEW s \in Subject, NEW u \in User, CreateApplication(s, u) PROVE FilesInv'
    <2>1. messages' = Append(messages, FromSystem(Len(chats) + 1)) /\ UNCHANGED <<storage, workers>>
      BY <1>7 DEF CreateApplication
    <2> QED BY <2>1, FilesFromSystem, FilesElsewhere
  <1>8. ASSUME NEW s \in Agent, SwitchAgent(s) PROVE FilesInv'
    BY <1>1, <1>8 DEF SwitchAgent, tables
  <1>9. CASE UNCHANGED vars BY <1>1, <1>9 DEF vars, tables
  <1> QED BY <1>3, <1>4, <1>5, <1>6, <1>7, <1>8, <1>9, Steps, FilesStoreMessage

\* A file answered for, or attached to a message, can be downloaded, wherever
\* its upload or another one fails or dies.
THEOREM UploadsAreKept == Spec => []AttachmentsKept
  BY TypeInit, FilesInit, TypeStep, FilesStep, FilesKept, PTL DEF Spec

-----------------------------------------------------------------------------
(* Nothing goes untold, or is told twice. *)

\* Applications have chats of their own.
AppsChats ==
    /\ \A a \in DOMAIN apps : chats[apps[a].chat].type = "insurance"
    /\ \A a, b \in DOMAIN apps : apps[a].chat = apps[b].chat => a = b

\* What requests hold: a message of somebody, a bonus chat of the user.
CallsInv ==
    \A w \in Worker :
      /\ At(w, "store") => workers[w].message.from \in Subject
      /\ At(w, "bonus") /\ workers[w].chat # None => chats[workers[w].chat].type = "bonus"

\* Messages of managers in the chats of a user, and events of their
\* applications.
FromAgents(u) ==
    {i \in DOMAIN messages : messages[i].from \in Agent /\ chats[messages[i].chat].owner = u}
EventsOfUser(u) == {i \in DOMAIN events : apps[events[i].app].user = u}

Noticed(u) ==
    /\ sms[u].chat_new_message = Cardinality(FromAgents(u))
    /\ sms[u].application_status_changed = Cardinality(EventsOfUser(u))

Told(a) ==
    /\ Reached(a, apps[a].status)
    /\ Cardinality(Between(apps[a].chat, {System})) = 1 + Cardinality(EventsOf(a))

Listed(c) == chats[c].touched = (Between(c, Subject \cup {System}) # {})

ToldInv ==
    /\ AppsChats /\ CallsInv
    /\ \A u \in User : Noticed(u)
    /\ \A a \in DOMAIN apps : Told(a)
    /\ \A c \in ChatId : Listed(c)

\* The messages that OneNotice counts chat by chat.
LEMMA FromAgentsUnion ==
  ASSUME TypeOK, NEW u
  PROVE  FromAgents(u) = UNION {Between(c, Agent) : c \in {d \in ChatId : chats[d].owner = u}}
  <1>1. \A i \in DOMAIN messages : messages[i].chat \in ChatId BY Ids DEF Message
  <1> QED BY <1>1 DEF FromAgents, Between

\* What the proof keeps is what was promised.
LEMMA ToldOnceInv == TypeOK /\ ToldInv => ToldOnce
  BY FromAgentsUnion DEF ToldInv, AppsChats, Noticed, Told, Listed, EventsOfUser, ToldOnce, OneNotice,
     HistoryTold, ChatsListed

\* There is nothing to tell at first.
LEMMA ToldInit == Init => ToldInv
  <1> SUFFICES ASSUME Init PROVE ToldInv OBVIOUS
  <1> USE DEF Init
  <1>1. ChatId = {} /\ DOMAIN apps = {} /\ DOMAIN messages = {} /\ DOMAIN events = {} BY DEF ChatId
  <1>2. ASSUME NEW u \in User PROVE Noticed(u)
    <2>1. sms[u].chat_new_message = 0 /\ sms[u].application_status_changed = 0 BY FreeIsRequest
    <2>2. FromAgents(u) = {} /\ EventsOfUser(u) = {} BY <1>1 DEF FromAgents, EventsOfUser
    <2> QED BY <2>1, <2>2, FS_EmptySet DEF Noticed
  <1>3. CallsInv BY DEF CallsInv, At
  <1> QED BY <1>1, <1>2, <1>3 DEF ToldInv, AppsChats

\* A set of rows, and one more.
LEMMA OneMore ==
  ASSUME NEW n \in Nat, NEW S \in SUBSET (1..n)
  PROVE  Cardinality(S) \in Nat /\ Cardinality(S \cup {n + 1}) = Cardinality(S) + 1
  <1>1. IsFiniteSet(1..n) BY FS_Interval
  <1>2. IsFiniteSet(S) BY <1>1, FS_Subset
  <1>3. n + 1 \notin S OBVIOUS
  <1> QED BY <1>2, <1>3, FS_CardinalityType, FS_AddElement

\* No chat changes hands.
KeepsChats ==
    /\ ChatId \subseteq ChatId'
    /\ \A c \in ChatId : chats'[c].owner = chats[c].owner /\ chats'[c].type = chats[c].type

\* Messages in a chat, and from managers, before and after a message.
LEMMA BetweenAppended ==
  ASSUME TypeOK, NEW m, messages' = Append(messages, m), NEW c, NEW from
  PROVE  Between(c, from)' = Between(c, from) \cup
           (IF m.chat = c /\ m.from \in from THEN {Len(messages) + 1} ELSE {})
  <1>1. /\ DOMAIN messages' = DOMAIN messages \cup {Len(messages) + 1}
        /\ messages'[Len(messages) + 1] = m
        /\ \A i \in DOMAIN messages : messages'[i] = messages[i]
    BY Appended DEF TypeOK
  <1> QED BY <1>1 DEF Between

\* One more message of a manager is one more for the chat's owner.
LEMMA FromAgentsAppended ==
  ASSUME TypeOK, KeepsChats, NEW m, messages' = Append(messages, m), NEW u
  PROVE  FromAgents(u)' = FromAgents(u) \cup
           (IF m.from \in Agent /\ chats'[m.chat].owner = u THEN {Len(messages) + 1} ELSE {})
  <1>1. /\ DOMAIN messages' = DOMAIN messages \cup {Len(messages) + 1}
        /\ messages'[Len(messages) + 1] = m
        /\ \A i \in DOMAIN messages : messages'[i] = messages[i]
    BY Appended DEF TypeOK
  <1>2. \A i \in DOMAIN messages : messages[i].chat \in ChatId BY Ids DEF Message
  <1> QED BY <1>1, <1>2 DEF FromAgents, KeepsChats

\* Without a message nothing changes, as chats keep their owners.
LEMMA FromAgentsKept ==
  ASSUME TypeOK, KeepsChats, messages' = messages, NEW u
  PROVE  FromAgents(u)' = FromAgents(u)
  <1>1. \A i \in DOMAIN messages : messages[i].chat \in ChatId BY Ids DEF Message
  <1> QED BY <1>1 DEF FromAgents, KeepsChats

\* The sets of rows are sets of ids.
LEMMA RowSets ==
  ASSUME TypeOK, NEW c, NEW from, NEW u, NEW a
  PROVE  /\ Between(c, from) \in SUBSET (1..Len(messages)) /\ FromAgents(u) \in SUBSET (1..Len(messages))
         /\ EventsOf(a) \in SUBSET (1..Len(events)) /\ EventsOfUser(u) \in SUBSET (1..Len(events))
         /\ Len(messages) \in Nat /\ Len(events) \in Nat
  <1>1. /\ DOMAIN messages = 1..Len(messages) /\ Len(messages) \in Nat
        /\ DOMAIN events = 1..Len(events) /\ Len(events) \in Nat
    BY Appended DEF TypeOK
  <1> QED BY <1>1 DEF Between, FromAgents, EventsOf, EventsOfUser

\* One SMS more for one user and template.
LEMMA NotifyCounts ==
  ASSUME TypeOK, NEW u \in User, NEW t \in Template, Notify(u, t)
  PROVE  /\ sms'[u][t] = sms[u][t] + 1
         /\ \A v \in User, r \in Template : v # u \/ r # t => sms'[v][r] = sms[v][r]
  BY DEF TypeOK, Notify

\* Applications stay in their chats as chats are added.
LEMMA AppsChatsKept ==
  ASSUME TypeOK, AppsChats, KeepsChats, DOMAIN apps' = DOMAIN apps,
         \A a \in DOMAIN apps : apps'[a].chat = apps[a].chat
  PROVE  AppsChats'
  <1>1. \A a \in DOMAIN apps : apps[a].chat \in ChatId BY Ids DEF App
  <1> QED BY <1>1 DEF AppsChats, KeepsChats

\* Requests that go on, or end.
LEMMA CallsKept ==
  ASSUME TypeOK, CallsInv, KeepsChats,
         \A w \in Worker : workers'[w] = workers[w] \/ At(w, "free")'
  PROVE  CallsInv'
  <1> SUFFICES ASSUME NEW w \in Worker, workers'[w] = workers[w]
               PROVE  /\ At(w, "store")' => workers'[w].message.from \in Subject
                      /\ At(w, "bonus")' /\ workers'[w].chat # None
                           => chats'[workers'[w].chat].type = "bonus"
    BY DEF CallsInv, At
  <1>1. At(w, "store")' => workers'[w].message.from \in Subject BY DEF CallsInv, At
  <1>2. ASSUME At(w, "bonus"), workers[w].chat # None
        PROVE  chats'[workers[w].chat].type = "bonus"
    <2>1. workers[w].chat \in ChatId BY <1>2, RequestAt
    <2> QED BY <1>2, <2>1 DEF CallsInv, KeepsChats
  <1> QED BY <1>1, <1>2 DEF At

\* A chat a message is written in is listed; the others stay as they are.
LEMMA ListedAppended ==
  ASSUME TypeOK, \A c \in ChatId : Listed(c),
         NEW m, messages' = Append(messages, m), m.from \in Subject \cup {System},
         ChatId' \subseteq ChatId \cup {m.chat}, chats'[m.chat].touched = TRUE,
         \A c \in ChatId \ {m.chat} : chats'[c] = chats[c]
  PROVE  \A c \in ChatId' : Listed(c)'
  <1> SUFFICES ASSUME NEW c \in ChatId' PROVE Listed(c)' OBVIOUS
  <1>1. PICK any : any = Subject \cup {System} OBVIOUS
  <1>2. /\ Between(c, Subject \cup {System}) = Between(c, any)
        /\ Between(c, Subject \cup {System})' = Between(c, any)'
    BY <1>1 DEF Between, Subject
  <1>3. Between(c, any)' = Between(c, any) \cup
          (IF m.chat = c /\ m.from \in any THEN {Len(messages) + 1} ELSE {})
    BY BetweenAppended
  <1>4. CASE c = m.chat
    <2>1. Between(c, any)' # {} BY <1>1, <1>3, <1>4
    <2> QED BY <1>2, <1>4, <2>1 DEF Listed
  <1>5. CASE c # m.chat
    <2>1. Between(c, any)' = Between(c, any) BY <1>3, <1>5
    <2>2. Listed(c) /\ chats'[c] = chats[c] BY <1>5
    <2> QED BY <1>2, <2>1, <2>2 DEF Listed
  <1> QED BY <1>4, <1>5

\* A status that was reached stays reached until the next event.
LEMMA ToldKept ==
  ASSUME TypeOK, NEW a \in DOMAIN apps, Told(a), apps'[a].status = apps[a].status,
         NEW c, c = apps[a].chat, c = apps'[a].chat,
         EventsOf(a)' = EventsOf(a), \A i \in EventsOf(a) : events'[i] = events[i],
         Between(c, {System})' = Between(c, {System})
  PROVE  Told(a)'
  <1>1. Between(apps[a].chat, {System}) = Between(c, {System}) OBVIOUS
  <1>2. Between(apps[a].chat, {System})' = Between(c, {System})' BY DEF Between
  <1> QED BY <1>1, <1>2 DEF Told, Reached

\* A message of the platform is in its chat, and from no manager.
LEMMA SystemAppended ==
  ASSUME TypeOK, KeepsChats, NEW d, messages' = Append(messages, FromSystem(d))
  PROVE  /\ \A u : FromAgents(u)' = FromAgents(u)
         /\ \A c : Between(c, {System})' = Between(c, {System}) \cup
                     (IF d = c THEN {Len(messages) + 1} ELSE {})
  <1>1. PICK m : m = FromSystem(d) OBVIOUS
  <1>2. m.chat = d /\ m.from = System BY <1>1 DEF FromSystem
  <1>3. messages' = Append(messages, m) BY <1>1
  <1>4. ASSUME NEW u PROVE FromAgents(u)' = FromAgents(u)
    <2>1. m.from \notin Agent BY <1>2, DeskAssumption
    <2>2. FromAgents(u)' = FromAgents(u) \cup
            (IF m.from \in Agent /\ chats'[m.chat].owner = u THEN {Len(messages) + 1} ELSE {})
      BY <1>3, FromAgentsAppended
    <2> QED BY <2>1, <2>2
  <1>5. ASSUME NEW c
        PROVE  Between(c, {System})' = Between(c, {System}) \cup
                 (IF d = c THEN {Len(messages) + 1} ELSE {})
    <2>1. PICK from : from = {System} OBVIOUS
    <2>2. Between(c, from)' = Between(c, from) \cup
            (IF m.chat = c /\ m.from \in from THEN {Len(messages) + 1} ELSE {})
      BY <1>3, BetweenAppended
    <2>3. /\ Between(c, {System}) = Between(c, from)
          /\ Between(c, {System})' = Between(c, from)'
      BY <2>1 DEF Between
    <2> QED BY <1>2, <2>1, <2>2, <2>3
  <1> QED BY <1>4, <1>5

\* Steps that leave the tables as they are.
LEMMA ToldSame ==
  ASSUME TypeOK, ToldInv, UNCHANGED <<chats, messages, apps, events, sms>>, CallsInv'
  PROVE  ToldInv'
  <1>1. ChatId' = ChatId /\ KeepsChats BY DEF ChatId, KeepsChats
  <1>2. AppsChats' BY <1>1, AppsChatsKept DEF ToldInv
  <1>3. ASSUME NEW v \in User PROVE Noticed(v)'
    <2>1. FromAgents(v)' = FromAgents(v) /\ EventsOfUser(v)' = EventsOfUser(v)
      BY DEF FromAgents, EventsOfUser
    <2> QED BY <2>1 DEF ToldInv, Noticed
  <1>4. ASSUME NEW a \in DOMAIN apps PROVE Told(a)'
    <2>1. PICK e : e = apps[a].chat OBVIOUS
    <2>2. Between(e, {System})' = Between(e, {System}) BY DEF Between
    <2>3. EventsOf(a)' = EventsOf(a) BY DEF EventsOf
    <2>4. Told(a) BY DEF ToldInv
    <2> QED BY <2>1, <2>2, <2>3, <2>4, ToldKept
  <1>5. ASSUME NEW c \in ChatId PROVE Listed(c)'
    <2>1. Between(c, Subject \cup {System})' = Between(c, Subject \cup {System})
      BY DEF Between, Subject
    <2> QED BY <2>1 DEF ToldInv, Listed
  <1> QED BY <1>1, <1>2, <1>3, <1>4, <1>5 DEF ToldInv

\* A chat opened without a message is not listed, and tells nobody anything.
LEMMA ToldOpenChat ==
  ASSUME TypeOK, ToldInv, NEW u \in User, NEW type \in Singles, OpenChat(u, type)
  PROVE  ToldInv'
  <1> USE DEF OpenChat
  <1>1. UNCHANGED <<messages, apps, events, sms, workers>> OBVIOUS
  <1>2. /\ KeepsChats /\ ChatId' \subseteq ChatId \cup {Len(chats) + 1}
        /\ \A c \in ChatId : chats'[c] = chats[c]
        /\ Len(chats) + 1 \in ChatId' => chats'[Len(chats) + 1].touched = FALSE
    <2>1. CASE ChatsOf(u, type) = {}
      <3>1. PICK chat : chat = NewChat(u, type, FALSE) OBVIOUS
      <3>2. chat \in Chat /\ chat.owner = u /\ chat.type = type /\ chat.touched = FALSE
        BY <3>1 DEF NewChat, Chat
      <3>3. chats' = Append(chats, chat) BY <2>1, <3>1
      <3>4. /\ ChatId' = ChatId \cup {Len(chats) + 1} /\ chats'[Len(chats) + 1] = chat
            /\ \A c \in ChatId : chats'[c] = chats[c]
        BY <2>1, <3>2, <3>3, ChatAdded
      <3> QED BY <3>2, <3>4 DEF KeepsChats
    <2>2. CASE ChatsOf(u, type) # {}
      <3>1. chats' = chats BY <2>2
      <3>2. ChatId' = ChatId BY <3>1 DEF ChatId
      <3> QED BY <3>1, <3>2, Ids DEF KeepsChats
    <2> QED BY <2>1, <2>2
  <1>3. AppsChats' BY <1>1, <1>2, AppsChatsKept DEF ToldInv
  <1>4. CallsInv' BY <1>1, <1>2, CallsKept DEF ToldInv
  <1>5. ASSUME NEW v \in User PROVE Noticed(v)'
    <2>1. FromAgents(v)' = FromAgents(v) BY <1>1, <1>2, FromAgentsKept
    <2>2. EventsOfUser(v)' = EventsOfUser(v) BY <1>1 DEF EventsOfUser
    <2> QED BY <1>1, <2>1, <2>2 DEF ToldInv, Noticed
  <1>6. ASSUME NEW a \in DOMAIN apps PROVE Told(a)'
    <2>1. PICK e : e = apps[a].chat OBVIOUS
    <2>2. Between(e, {System})' = Between(e, {System}) BY <1>1 DEF Between
    <2>3. EventsOf(a)' = EventsOf(a) BY <1>1 DEF EventsOf
    <2>4. Told(a) BY DEF ToldInv
    <2> QED BY <1>1, <2>1, <2>2, <2>3, <2>4, ToldKept
  <1>7. ASSUME NEW c \in ChatId' PROVE Listed(c)'
    <2>1. Between(c, Subject \cup {System})' = Between(c, Subject \cup {System})
      BY <1>1 DEF Between, Subject
    <2>2. CASE c \in ChatId BY <1>2, <2>1, <2>2 DEF ToldInv, Listed
    <2>3. CASE c = Len(chats) + 1
      <3>1. Between(c, Subject \cup {System}) = {} BY <2>3, NewChatEmpty
      <3> QED BY <1>2, <2>1, <2>3, <3>1 DEF Listed
    <2> QED BY <1>2, <2>2, <2>3
  <1> QED BY <1>1, <1>3, <1>4, <1>5, <1>6, <1>7 DEF ToldInv

\* The message about a request is in no application's chat.
LEMMA ToldAddRequest == ASSUME TypeOK, ToldInv, NEW w \in Worker, AddRequest(w) PROVE ToldInv'
  <1> DEFINE u == workers[w].owner
             c == workers[w].chat
  <1>0. u \in User /\ c \in ChatId \cup {None}
    BY RequestAt DEF AddRequest
  <1>1. Free(w) /\ UNCHANGED <<apps, events, sms>>
    BY DEF AddRequest
  <1>2. \A v \in Worker : workers'[v] = workers[v] \/ At(v, "free")'
    BY <1>1, FreeHoldsNothing DEF At
  <1>3. CASE c = None /\ ChatsOf(u, "bonus") # {}
    <2>1. UNCHANGED <<chats, messages>> BY <1>3 DEF AddRequest
    <2>2. KeepsChats BY <2>1 DEF KeepsChats, ChatId
    <2>3. CallsInv' BY <1>2, <2>2, CallsKept DEF ToldInv
    <2> QED BY <1>1, <2>1, <2>3, ToldSame
  <1>4. ASSUME NEW d, KeepsChats, messages' = Append(messages, FromSystem(d)),
               ChatId' \subseteq ChatId \cup {d}, chats'[d].touched = TRUE,
               \A e \in ChatId \ {d} : chats'[e] = chats[e],
               \A a \in DOMAIN apps : apps[a].chat # d
        PROVE  ToldInv'
    <2>1. AppsChats' BY <1>1, <1>4, AppsChatsKept DEF ToldInv
    <2>2. CallsInv' BY <1>2, <1>4, CallsKept DEF ToldInv
    <2>3. ASSUME NEW v \in User PROVE Noticed(v)'
      <3>1. FromAgents(v)' = FromAgents(v) BY <1>4, SystemAppended
      <3>2. EventsOfUser(v)' = EventsOfUser(v) BY <1>1 DEF EventsOfUser
      <3> QED BY <1>1, <3>1, <3>2 DEF ToldInv, Noticed
    <2>4. ASSUME NEW a \in DOMAIN apps PROVE Told(a)'
      <3>1. PICK e : e = apps[a].chat OBVIOUS
      <3>2. d # e BY <1>4, <3>1
      <3>3. Between(e, {System})' = Between(e, {System})
        <4>1. Between(e, {System})' = Between(e, {System}) \cup
                (IF d = e THEN {Len(messages) + 1} ELSE {})
          BY <1>4, SystemAppended
        <4> QED BY <3>2, <4>1
      <3>4. EventsOf(a)' = EventsOf(a) BY <1>1 DEF EventsOf
      <3>5. Told(a) BY DEF ToldInv
      <3> QED BY <1>1, <3>1, <3>3, <3>4, <3>5, ToldKept
    <2>5. \A e \in ChatId' : Listed(e)'
      <3>1. PICK m : m = FromSystem(d) OBVIOUS
      <3>2. m.chat = d /\ m.from = System BY <3>1 DEF FromSystem
      <3>3. messages' = Append(messages, m) BY <1>4, <3>1
      <3> QED BY <1>4, <3>2, <3>3, ListedAppended DEF ToldInv
    <2> QED BY <1>1, <2>1, <2>2, <2>3, <2>4, <2>5 DEF ToldInv
  <1>5. CASE c = None /\ ChatsOf(u, "bonus") = {}
    <2>1. PICK chat : chat = NewChat(u, "bonus", TRUE) OBVIOUS
    <2>2. chat \in Chat /\ chat.owner = u /\ chat.type = "bonus" /\ chat.touched = TRUE
      BY <1>0, <2>1, DeskAssumption DEF NewChat, Chat
    <2>3. chats' = Append(chats, chat) /\ messages' = Append(messages, FromSystem(Len(chats) + 1))
      BY <1>5, <2>1 DEF AddRequest
    <2>4. /\ ChatId' = ChatId \cup {Len(chats) + 1} /\ chats'[Len(chats) + 1] = chat
          /\ \A e \in ChatId : chats'[e] = chats[e]
      BY <1>5, <2>2, <2>3, ChatAdded
    <2>5. \A a \in DOMAIN apps : apps[a].chat # Len(chats) + 1 BY Ids DEF App
    <2> QED BY <2>2, <2>3, <2>4, <2>5, <1>4 DEF KeepsChats
  <1>6. CASE c # None
    <2>1. c \in ChatId BY <1>0, <1>6
    <2>2. chats' = [chats EXCEPT ![c].touched = TRUE] /\ messages' = Append(messages, FromSystem(c))
      BY <1>6 DEF AddRequest
    <2>3. /\ ChatId' = ChatId /\ KeepsChats /\ chats'[c].touched = TRUE
          /\ \A e \in ChatId \ {c} : chats'[e] = chats[e]
      BY <2>1, <2>2, ChatTouched DEF KeepsChats
    <2>4. chats[c].type = "bonus" BY <1>6 DEF ToldInv, CallsInv, AddRequest
    <2>5. \A a \in DOMAIN apps : apps[a].chat # c BY <2>4 DEF ToldInv, AppsChats
    <2> QED BY <2>1, <2>2, <2>3, <2>5, <1>4
  <1> QED BY <1>3, <1>5, <1>6

\* A manager's message is counted for the owner of its chat, and no other is.
LEMMA ToldStoreMessage == ASSUME TypeOK, ToldInv, NEW w \in Worker, StoreMessage(w) PROVE ToldInv'
  <1>0. PICK m : m = workers[w].message OBVIOUS
  <1>1. m \in Message /\ m.chat \in ChatId BY <1>0, RequestAt DEF StoreMessage, Message
  <1>2. m.from \in Subject BY <1>0 DEF StoreMessage, ToldInv, CallsInv
  <1>3. Free(w) /\ UNCHANGED <<apps, events>> BY DEF StoreMessage
  <1>4. \A v \in Worker : workers'[v] = workers[v] \/ At(v, "free")'
    BY <1>3, FreeHoldsNothing DEF At
  <1>5. CASE m.cid # None /\ Known(m)
    <2>1. UNCHANGED <<chats, messages, sms>> BY <1>0, <1>5 DEF StoreMessage
    <2>2. KeepsChats BY <2>1 DEF KeepsChats, ChatId
    <2>3. CallsInv' BY <1>4, <2>2, CallsKept DEF ToldInv
    <2> QED BY <1>3, <2>1, <2>3, ToldSame
  <1>6. CASE ~ (m.cid # None /\ Known(m))
    <2> DEFINE u == chats[m.chat].owner
    <2>1. /\ messages' = Append(messages, m) /\ chats' = [chats EXCEPT ![m.chat].touched = TRUE]
          /\ m.from \in Agent => Notify(u, "chat_new_message")
          /\ m.from \notin Agent => sms' = sms
      BY <1>0, <1>6 DEF StoreMessage, Touch
    <2>2. /\ ChatId' = ChatId /\ KeepsChats /\ chats'[m.chat].touched = TRUE
          /\ \A e \in ChatId \ {m.chat} : chats'[e] = chats[e]
          /\ chats'[m.chat].owner = u
      BY <1>1, <2>1, ChatTouched DEF KeepsChats
    <2>3. AppsChats' BY <1>3, <2>2, AppsChatsKept DEF ToldInv
    <2>4. CallsInv' BY <1>4, <2>2, CallsKept DEF ToldInv
    <2>5. ASSUME NEW v \in User PROVE Noticed(v)'
      <3>1. EventsOfUser(v)' = EventsOfUser(v) BY <1>3 DEF EventsOfUser
      <3>2. FromAgents(v)' = FromAgents(v) \cup
              (IF m.from \in Agent /\ chats'[m.chat].owner = v THEN {Len(messages) + 1} ELSE {})
        BY <2>1, <2>2, FromAgentsAppended
      <3>3. Noticed(v) BY DEF ToldInv
      <3>4. CASE m.from \in Agent /\ u = v
        <4>1. /\ sms'[v]["chat_new_message"] = sms[v]["chat_new_message"] + 1
              /\ sms'[v]["application_status_changed"] = sms[v]["application_status_changed"]
          BY <2>1, <3>4, FreeIsRequest, NotifyCounts
        <4>2. FromAgents(v)' = FromAgents(v) \cup {Len(messages) + 1} BY <2>2, <3>2, <3>4
        <4>3. Cardinality(FromAgents(v) \cup {Len(messages) + 1}) = Cardinality(FromAgents(v)) + 1
          BY RowSets, OneMore
        <4> QED BY <3>1, <3>3, <4>1, <4>2, <4>3 DEF Noticed
      <3>5. CASE ~ (m.from \in Agent /\ u = v)
        <4>1. u \in User BY <1>1, Ids DEF Chat
        <4>2. /\ sms'[v]["chat_new_message"] = sms[v]["chat_new_message"]
              /\ sms'[v]["application_status_changed"] = sms[v]["application_status_changed"]
          BY <2>1, <3>5, <4>1, FreeIsRequest, NotifyCounts
        <4>3. FromAgents(v)' = FromAgents(v) BY <2>2, <3>2, <3>5
        <4> QED BY <3>1, <3>3, <4>2, <4>3 DEF Noticed
      <3> QED BY <3>4, <3>5
    <2>6. ASSUME NEW a \in DOMAIN apps PROVE Told(a)'
      <3>1. PICK e : e = apps[a].chat OBVIOUS
      <3>2. PICK from : from = {System} OBVIOUS
      <3>3. m.from \notin from BY <1>2, <3>2, DeskAssumption DEF Subject
      <3>4. Between(e, from)' = Between(e, from) \cup
              (IF m.chat = e /\ m.from \in from THEN {Len(messages) + 1} ELSE {})
        BY <2>1, BetweenAppended
      <3>5. /\ Between(e, {System}) = Between(e, from)
            /\ Between(e, {System})' = Between(e, from)'
        BY <3>2 DEF Between
      <3>6. Between(e, {System})' = Between(e, {System}) BY <3>3, <3>4, <3>5
      <3>7. EventsOf(a)' = EventsOf(a) BY <1>3 DEF EventsOf
      <3>8. Told(a) BY DEF ToldInv
      <3> QED BY <1>3, <3>1, <3>6, <3>7, <3>8, ToldKept
    <2>7. \A e \in ChatId' : Listed(e)'
      BY <1>1, <1>2, <2>1, <2>2, ListedAppended DEF ToldInv
    <2> QED BY <1>3, <2>3, <2>4, <2>5, <2>6, <2>7 DEF ToldInv
  <1> QED BY <1>5, <1>6

\* A new application has its chat and its first message, and no events.
LEMMA ToldCreateApplication ==
  ASSUME TypeOK, ToldInv, NEW s \in Subject, NEW u \in User, CreateApplication(s, u)
  PROVE  ToldInv'
  <1>0. PICK chat, app : /\ chat = NewChat(u, "insurance", TRUE)
                         /\ app = [user |-> u, chat |-> Len(chats) + 1, status |-> "new"]
    OBVIOUS
  <1>1. /\ chats' = Append(chats, chat) /\ apps' = Append(apps, app)
        /\ messages' = Append(messages, FromSystem(Len(chats) + 1))
        /\ UNCHANGED <<events, sms, workers>>
    BY <1>0 DEF CreateApplication
  <1>2. chat \in Chat /\ chat.type = "insurance" /\ chat.touched = TRUE
    BY <1>0 DEF NewChat, Chat
  <1>3. /\ ChatId' = ChatId \cup {Len(chats) + 1} /\ chats'[Len(chats) + 1] = chat
        /\ \A c \in ChatId : chats'[c] = chats[c]
    BY <1>1, <1>2, DeskAssumption, ChatAdded
  <1>4. KeepsChats BY <1>3 DEF KeepsChats
  <1>5. /\ DOMAIN apps' = DOMAIN apps \cup {Len(apps) + 1} /\ Len(apps) + 1 \notin DOMAIN apps
        /\ apps'[Len(apps) + 1] = app /\ app.chat = Len(chats) + 1 /\ app.status = "new"
        /\ \A a \in DOMAIN apps : apps'[a] = apps[a]
    BY <1>0, <1>1, Appended DEF TypeOK
  <1>6. \A a \in DOMAIN apps : apps[a].chat \in ChatId /\ apps[a].chat # Len(chats) + 1
    BY Ids DEF App
  <1>7. \A i \in DOMAIN events : events[i].app \in DOMAIN apps /\ events[i].app # Len(apps) + 1
    BY <1>5, Ids DEF Event
  <1>8. AppsChats'
    <2>1. \A a \in DOMAIN apps' : chats'[apps'[a].chat].type = "insurance"
      BY <1>2, <1>3, <1>5, <1>6 DEF ToldInv, AppsChats
    <2>2. \A a, b \in DOMAIN apps' : apps'[a].chat = apps'[b].chat => a = b
      BY <1>5, <1>6 DEF ToldInv, AppsChats
    <2> QED BY <2>1, <2>2 DEF AppsChats
  <1>9. CallsInv' BY <1>1, <1>4, CallsKept DEF ToldInv
  <1>10. ASSUME NEW v \in User PROVE Noticed(v)'
    <2>1. FromAgents(v)' = FromAgents(v) BY <1>1, <1>4, SystemAppended
    <2>2. EventsOfUser(v)' = EventsOfUser(v) BY <1>1, <1>5, <1>7 DEF EventsOfUser
    <2> QED BY <1>1, <2>1, <2>2 DEF ToldInv, Noticed
  <1>11. ASSUME NEW a \in DOMAIN apps PROVE Told(a)'
    <2>1. PICK e : e = apps[a].chat OBVIOUS
    <2>2. Between(e, {System})' = Between(e, {System}) \cup
            (IF Len(chats) + 1 = e THEN {Len(messages) + 1} ELSE {})
      BY <1>1, <1>4, SystemAppended
    <2>3. Between(e, {System})' = Between(e, {System}) BY <2>1, <2>2, <1>6
    <2>4. EventsOf(a)' = EventsOf(a) BY <1>1 DEF EventsOf
    <2>5. Told(a) BY DEF ToldInv
    <2>6. apps'[a] = apps[a] BY <1>5
    <2> QED BY <1>1, <2>1, <2>3, <2>4, <2>5, <2>6, ToldKept
  <1>12. ASSUME NEW a, a = Len(apps) + 1 PROVE Told(a)'
    <2>1. PICK c : c = Len(chats) + 1 OBVIOUS
    <2>2. EventsOf(a)' = {} BY <1>1, <1>7, <1>12 DEF EventsOf
    <2>3. Between(c, {System}) = {} BY <2>1, NewChatEmpty
    <2>4. Between(c, {System})' = Between(c, {System}) \cup
            (IF Len(chats) + 1 = c THEN {Len(messages) + 1} ELSE {})
      BY <1>1, <1>4, SystemAppended
    <2>5. Between(c, {System})' = {Len(messages) + 1} BY <2>1, <2>3, <2>4
    <2>6. apps'[a].chat = c /\ apps'[a].status = "new" BY <1>5, <1>12, <2>1
    <2>7. Between(apps[a].chat, {System})' = Between(c, {System})' BY <2>6 DEF Between
    <2>8. Reached(a, apps[a].status)' BY <2>2, <2>6 DEF Reached
    <2>9. Cardinality({Len(messages) + 1}) = 1 + Cardinality({})
      <3>1. Cardinality({Len(messages) + 1}) = 1 BY FS_Singleton
      <3>2. Cardinality({}) = 0 BY FS_EmptySet
      <3> QED BY <3>1, <3>2
    <2>10. Cardinality(Between(apps[a].chat, {System}))' = 1 + Cardinality(EventsOf(a))'
      BY <2>2, <2>5, <2>7, <2>9
    <2> QED BY <2>8, <2>10 DEF Told
  <1>13. \A e \in ChatId' : Listed(e)'
    <2>1. PICK m : m = FromSystem(Len(chats) + 1) OBVIOUS
    <2>2. m.chat = Len(chats) + 1 /\ m.from = System BY <2>1 DEF FromSystem
    <2>3. messages' = Append(messages, m) BY <1>1, <2>1
    <2> QED BY <1>2, <1>3, <2>2, <2>3, ListedAppended DEF ToldInv
  <1>14. \A a \in DOMAIN apps' : Told(a)' BY <1>5, <1>11, <1>12
  <1> QED BY <1>8, <1>9, <1>10, <1>13, <1>14 DEF ToldInv

\* A change of status is one event, one message in the application's chat and
\* one SMS to its user.
LEMMA ToldChangeStatus == ASSUME TypeOK, ToldInv, NEW w \in Worker, ChangeStatus(w) PROVE ToldInv'
  <1>0. PICK a, d, u, event : /\ a = workers[w].app /\ d = apps[a].chat /\ u = apps[a].user
                              /\ event = [app |-> a, old |-> workers[w].old, new |-> workers[w].new]
    OBVIOUS
  <1>1. a \in DOMAIN apps /\ workers[w].new \in Status /\ d \in ChatId /\ u \in User
    BY <1>0, StatusCall DEF ChangeStatus
  <1>2. /\ apps' = [apps EXCEPT ![a].status = workers[w].new]
        /\ events' = Append(events, event) /\ messages' = Append(messages, FromSystem(d))
        /\ chats' = [chats EXCEPT ![d].touched = TRUE]
        /\ Notify(u, "application_status_changed") /\ Free(w)
    BY <1>0 DEF ChangeStatus, Touch
  <1>3. /\ ChatId' = ChatId /\ KeepsChats /\ chats'[d].touched = TRUE
        /\ \A e \in ChatId \ {d} : chats'[e] = chats[e]
    BY <1>1, <1>2, ChatTouched DEF KeepsChats
  <1>4. /\ DOMAIN apps' = DOMAIN apps
        /\ \A b \in DOMAIN apps : apps'[b].user = apps[b].user /\ apps'[b].chat = apps[b].chat
        /\ apps'[a].status = workers[w].new
        /\ \A b \in DOMAIN apps \ {a} : apps'[b] = apps[b]
    BY <1>1, <1>2, StatusSet
  <1>5. /\ DOMAIN events' = DOMAIN events \cup {Len(events) + 1}
        /\ DOMAIN events = 1..Len(events) /\ Len(events) \in Nat
        /\ events'[Len(events) + 1] = event /\ event.app = a /\ event.new = workers[w].new
        /\ \A i \in DOMAIN events : events'[i] = events[i]
    BY <1>0, <1>2, Appended DEF TypeOK
  <1>6. \A i \in DOMAIN events : events[i].app \in DOMAIN apps BY Ids DEF Event
  <1>7. AppsChats' BY <1>3, <1>4, AppsChatsKept DEF ToldInv
  <1>8. CallsInv'
    <2>1. \A v \in Worker : workers'[v] = workers[v] \/ At(v, "free")'
      BY <1>2, FreeHoldsNothing DEF At
    <2> QED BY <1>3, <2>1, CallsKept DEF ToldInv
  <1>9. ASSUME NEW v \in User PROVE Noticed(v)'
    <2>1. FromAgents(v)' = FromAgents(v) BY <1>2, <1>3, SystemAppended
    <2>2. EventsOfUser(v)' = EventsOfUser(v) \cup (IF u = v THEN {Len(events) + 1} ELSE {})
      BY <1>0, <1>1, <1>4, <1>5, <1>6 DEF EventsOfUser
    <2>3. Noticed(v) BY DEF ToldInv
    <2>4. sms'[v]["chat_new_message"] = sms[v]["chat_new_message"]
      BY <1>1, <1>2, FreeIsRequest, NotifyCounts
    <2>5. CASE u = v
      <3>1. sms'[v]["application_status_changed"] = sms[v]["application_status_changed"] + 1
        BY <1>1, <1>2, <2>5, FreeIsRequest, NotifyCounts
      <3>2. Cardinality(EventsOfUser(v) \cup {Len(events) + 1}) = Cardinality(EventsOfUser(v)) + 1
        BY RowSets, OneMore
      <3> QED BY <2>1, <2>2, <2>3, <2>4, <2>5, <3>1, <3>2 DEF Noticed
    <2>6. CASE u # v
      <3>1. sms'[v]["application_status_changed"] = sms[v]["application_status_changed"]
        BY <1>1, <1>2, <2>6, FreeIsRequest, NotifyCounts
      <3> QED BY <2>1, <2>2, <2>3, <2>4, <2>6, <3>1 DEF Noticed
    <2> QED BY <2>5, <2>6
  <1>10. ASSUME NEW b \in DOMAIN apps, b # a PROVE Told(b)'
    <2>1. PICK e : e = apps[b].chat OBVIOUS
    <2>2. e # d BY <1>0, <1>1, <1>10, <2>1 DEF ToldInv, AppsChats
    <2>3. Between(e, {System})' = Between(e, {System}) \cup
            (IF d = e THEN {Len(messages) + 1} ELSE {})
      BY <1>2, <1>3, SystemAppended
    <2>4. Between(e, {System})' = Between(e, {System}) BY <2>2, <2>3
    <2>5. EventsOf(b)' = EventsOf(b) BY <1>5, <1>10 DEF EventsOf
    <2>6. \A i \in EventsOf(b) : events'[i] = events[i] BY <1>5 DEF EventsOf
    <2>7. Told(b) BY DEF ToldInv
    <2>8. apps'[b] = apps[b] BY <1>4, <1>10
    <2> QED BY <2>1, <2>4, <2>5, <2>6, <2>7, <2>8, ToldKept
  <1>11. Told(a)'
    <2>1. Told(a) BY <1>1 DEF ToldInv
    <2>2. EventsOf(a)' = EventsOf(a) \cup {Len(events) + 1} BY <1>5 DEF EventsOf
    <2>3. EventsOf(a) \subseteq DOMAIN events BY DEF EventsOf
    <2>4. Between(d, {System})' = Between(d, {System}) \cup
            (IF d = d THEN {Len(messages) + 1} ELSE {})
      BY <1>2, <1>3, SystemAppended
    <2>5. Cardinality(Between(d, {System}) \cup {Len(messages) + 1}) = Cardinality(Between(d, {System})) + 1
          /\ Cardinality(Between(d, {System})) \in Nat
      BY RowSets, OneMore
    <2>6. Cardinality(EventsOf(a) \cup {Len(events) + 1}) = Cardinality(EventsOf(a)) + 1
          /\ Cardinality(EventsOf(a)) \in Nat
      BY RowSets, OneMore
    <2>7. apps'[a].chat = d /\ apps'[a].status = workers[w].new BY <1>0, <1>1, <1>4
    <2>8. Reached(a, apps[a].status)'
      <3>1. PICK n : n = Len(events) + 1 OBVIOUS
      <3>2. n \in EventsOf(a)' /\ events'[n].new = apps'[a].status
        BY <1>5, <2>2, <2>7, <3>1
      <3>3. \A j \in EventsOf(a)' : j <= n BY <1>5, <2>2, <2>3, <3>1
      <3> QED BY <3>2, <3>3 DEF Reached
    <2>9. Between(apps[a].chat, {System})' = Between(d, {System})' BY <2>7 DEF Between
    <2>10. Between(apps[a].chat, {System}) = Between(d, {System}) BY <1>0
    <2>11. Cardinality(Between(d, {System})) = 1 + Cardinality(EventsOf(a)) BY <2>1, <2>10 DEF Told
    <2>12. Cardinality(Between(d, {System}))' = 1 + Cardinality(EventsOf(a))'
      <3>1. Between(d, {System})' = Between(d, {System}) \cup {Len(messages) + 1} BY <2>4
      <3>2. Cardinality(Between(d, {System}))' = Cardinality(Between(d, {System})) + 1 BY <3>1, <2>5
      <3>3. Cardinality(EventsOf(a))' = Cardinality(EventsOf(a)) + 1 BY <2>2, <2>6
      <3> QED BY <3>2, <3>3, <2>5, <2>6, <2>11
    <2> QED BY <2>8, <2>9, <2>12 DEF Told
  <1>12. \A e \in ChatId' : Listed(e)'
    <2>1. PICK m : m = FromSystem(d) OBVIOUS
    <2>2. m.chat = d /\ m.from = System BY <2>1 DEF FromSystem
    <2>3. messages' = Append(messages, m) BY <1>2, <2>1
    <2> QED BY <1>3, <2>2, <2>3, ListedAppended DEF ToldInv
  <1>13. \A b \in DOMAIN apps' : Told(b)' BY <1>4, <1>10, <1>11
  <1> QED BY <1>7, <1>8, <1>9, <1>12, <1>13 DEF ToldInv

\* What a request begins with: somebody's message, or the user's bonus chat.
LEMMA ToldQuiet == ASSUME TypeOK, ToldInv, NEW w \in Worker, Quiet(w) PROVE ToldInv'
  <1>1. UNCHANGED tables
    BY DEF Quiet, FindBonusChat, CheckMessage, PutObject, SaveRow, UploadRaises, AnswerUpload,
       RemoveObject, ReadApplication, Die
  <1>2. KeepsChats BY <1>1 DEF tables, KeepsChats, ChatId
  <1>3. ASSUME NEW r, Become(w, r), r.at = "store" => r.message.from \in Subject,
               r.at = "bonus" /\ r.chat # None => chats[r.chat].type = "bonus"
        PROVE  CallsInv'
    <2>1. workers'[w] = r /\ \A v \in Worker \ {w} : workers'[v] = workers[v]
      BY <1>3 DEF TypeOK, Become
    <2>2. chats' = chats BY <1>1 DEF tables
    <2> QED BY <1>3, <2>1, <2>2 DEF ToldInv, CallsInv, At
  <1>4. ASSUME NEW r, Become(w, r), r.at \notin {"store", "bonus"} PROVE CallsInv'
    BY <1>3, <1>4
  <1>5. ASSUME NEW u \in User, FindBonusChat(w, u) PROVE CallsInv'
    <2>1. PICK c \in IF ChatsOf(u, "bonus") = {} THEN {None} ELSE ChatsOf(u, "bonus") :
            Become(w, [at |-> "bonus", owner |-> u, chat |-> c])
      BY <1>5 DEF FindBonusChat
    <2>2. c # None => chats[c].type = "bonus" BY DEF ChatsOf
    <2>3. PICK r : r = [at |-> "bonus", owner |-> u, chat |-> c] OBVIOUS
    <2> QED BY <1>3, <2>1, <2>2, <2>3
  <1>6. ASSUME NEW m \in Message, m.from \in Subject, CheckMessage(w, m) PROVE CallsInv'
    <2>1. PICK r : r = [at |-> "store", message |-> m] OBVIOUS
    <2>2. CASE Become(w, r) BY <1>3, <1>6, <2>1, <2>2
    <2>3. CASE UNCHANGED workers BY <1>2, <2>3, CallsKept DEF ToldInv
    <2> QED BY <1>6, <2>1, <2>2, <2>3 DEF CheckMessage
  <1>7. ASSUME NEW s \in Subject, NEW c \in ChatId, NEW f \in File, PutObject(w, s, c, f) PROVE CallsInv'
    <2>1. PICK r : r = [at |-> "row", file |-> f, chat |-> c] OBVIOUS
    <2> QED BY <1>4, <1>7, <2>1 DEF PutObject
  <1>8. ASSUME SaveRow(w) \/ UploadRaises(w) PROVE CallsInv'
    <2>1. Holding(w) BY <1>8 DEF SaveRow, UploadRaises, Holding, At
    <2>2. ASSUME NEW at \in {"refresh", "remove"}, Become(w, [workers[w] EXCEPT !.at = at])
          PROVE  CallsInv'
      <3>1. PICK r : r = [workers[w] EXCEPT !.at = at] OBVIOUS
      <3>2. workers'[w].at = at BY <2>1, <2>2, HeldFile
      <3>3. workers'[w] = r BY <2>2, <3>1 DEF TypeOK, Become
      <3> QED BY <1>4, <2>2, <3>1, <3>2, <3>3
    <2> QED BY <1>8, <2>2 DEF SaveRow, UploadRaises
  <1>9. ASSUME Free(w) PROVE CallsInv'
    <2>1. \A v \in Worker : workers'[v] = workers[v] \/ At(v, "free")'
      BY <1>9, FreeHoldsNothing DEF At
    <2> QED BY <1>2, <2>1, CallsKept DEF ToldInv
  <1>10. ASSUME NEW s \in Agent, NEW a \in DOMAIN apps, NEW new \in Status, ReadApplication(w, s, a, new)
         PROVE  CallsInv'
    <2>1. PICK r : r = [at |-> "status", app |-> a, old |-> apps[a].status, new |-> new] OBVIOUS
    <2>2. Become(w, r) BY <1>10, <2>1 DEF ReadApplication
    <2>3. r.at = "status" BY <2>1
    <2> QED BY <1>4, <2>2, <2>3
  <1>11. CallsInv'
    BY <1>5, <1>6, <1>7, <1>8, <1>9, <1>10 DEF Quiet, AnswerUpload, RemoveObject, Die
  <1> QED BY <1>1, <1>11, ToldSame DEF tables

\* Every step tells what it does, once.
LEMMA ToldStep == TypeOK /\ ToldInv /\ [Next]_vars => ToldInv'
  <1> SUFFICES ASSUME TypeOK, ToldInv, [Next]_vars PROVE ToldInv' OBVIOUS
  <1>1. ASSUME UNCHANGED <<tables, workers>> PROVE ToldInv'
    <2>1. KeepsChats BY <1>1 DEF tables, KeepsChats, ChatId
    <2>2. CallsInv' BY <1>1, <2>1, CallsKept DEF ToldInv
    <2> QED BY <1>1, <2>2, ToldSame DEF tables
  <1>2. ASSUME NEW s \in Agent, SwitchAgent(s) PROVE ToldInv'
    BY <1>1, <1>2 DEF SwitchAgent
  <1>3. CASE UNCHANGED vars BY <1>1, <1>3 DEF vars
  <1> QED BY <1>2, <1>3, Steps, ToldOpenChat, ToldAddRequest, ToldStoreMessage, ToldChangeStatus,
             ToldCreateApplication, ToldQuiet

\* One SMS per message of a manager and per change of a status, one message
\* per event, and a chat with news on the managers' list, for any number of
\* users, managers and overlapping requests.
THEOREM NothingUntold == Spec => []ToldOnce
  BY TypeInit, ToldInit, TypeStep, ToldStep, ToldOnceInv, PTL DEF Spec
=============================================================================
