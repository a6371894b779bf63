----------------------------- MODULE AccessProofs -----------------------------
(***************************************************************************)
(* A code has a bounded number of attempts, a login one live refresh       *)
(* token, who is blocked or deleted has none, statuses change in turn and  *)
(* the daily counter keeps its TTL: for any requests that overlap or die,  *)
(* any limits, and any number of attempts and ticks.                       *)
(***************************************************************************)
EXTENDS Access, FiniteSetTheorems, TLAPS

Pc == {"idle", "count", "expire", "forget", "save", "get", "wrong", "right", "check", "insert",
       "welcome", "token", "load", "user", "revoke", "moderate", "revoke all", "commit"}

CallType ==
    [pc : Pc,
     kind : {"none", "code", "register", "login", "refresh", "logout", "block", "unblock",
             "delete"},
     id : Id, code : Id \cup {None}, attempts : 0..(MAX_ATTEMPTS - 1),
     user : User \cup {None}, on : Id \cup {None}, found : SUBSET Id, late : BOOLEAN]

\* What a call of each kind may be at, and what it then holds.  Whatever it
\* will add is not there yet.
Coding(call) ==
    /\ call.kind = "code" /\ call.on = None
    /\ call.pc \in {"count", "expire", "forget", "save"}
    /\ codes[call.id] = None

Entering(call) ==
    /\ call.kind \in {"register", "login"} /\ call.on = None
    /\ call.pc \in {"get", "wrong", "right", "check", "insert", "welcome", "token"}
    /\ call.pc \in {"wrong", "right"} => call.code # None /\ codes[call.code] # None
    /\ call.pc \in {"welcome", "token"} => call.user # None /\ Registered(call.user)
    /\ tokens[call.id] = None

Exchanging(call) ==
    /\ call.on # None /\ tokens[call.on] # None
    /\ \/ call.kind = "logout" /\ call.pc \in {"load", "revoke"}
       \/ /\ call.kind = "refresh"
          /\ call.pc \in {"load", "user", "token", "revoke"}
          /\ call.pc \in {"user", "token"} => call.user # None /\ Registered(call.user)
          /\ call.pc # "revoke" => tokens[call.id] = None

Moderating(call) ==
    /\ call.kind \in {"block", "unblock", "delete"} /\ call.on = None
    /\ call.pc \in {"moderate", "revoke all", "commit"}
    /\ call.user # None /\ Registered(call.user)
    /\ \A t \in call.found : tokens[t] # None

CallOK(call) ==
    \/ call = Idle
    \/ /\ call.id \in 1..requests
       /\ Coding(call) \/ Entering(call) \/ Exchanging(call) \/ Moderating(call)

\* A request's id is its own, and nobody presents the token of a refresh that
\* has not been answered.
CallsOK ==
    /\ calls \in [Call -> CallType]
    /\ \A c \in Call : CallOK(calls[c])
    /\ \A c, d \in Call : Running(c) /\ Running(d) /\ c # d => calls[c].id # calls[d].id
    /\ \A c, d \in Call : Running(c) /\ Running(d) => calls[c].id # calls[d].on
    /\ \A n \in Id : n > requests => codes[n] = None /\ tokens[n] = None

\* The counter counts requests that have been counted.
Waiting == {c \in Call : At(c, "count")}
Count == IF counter = None THEN 0 ELSE counter.count
Counted == IsFiniteSet(Waiting) /\ Cardinality(Waiting) + Count <= requests

\* While verifications of a code n do not overlap, one call at a time holds
\* what Redis has of it, or had.
InRedis(n) == otp # None /\ otp.code = n
Reads(c, n) == calls[c].pc \in {"wrong", "right"} /\ calls[c].code = n

Tame(n) ==
    /\ codes[n].accepted <= 1 /\ codes[n].tries <= MAX_ATTEMPTS
    /\ InRedis(n) =>
         /\ otp.attempts = codes[n].tries /\ codes[n].accepted = 0
         /\ codes[n].age + otp.left <= CodeTTL * (codes[n].tries + 1)
    /\ \A c \in Call : Reads(c, n) =>
         /\ calls[c].attempts = codes[n].tries /\ codes[n].accepted = 0
         /\ codes[n].age <= CodeTTL * (codes[n].tries + 1)
         /\ \A d \in Call : Reads(d, n) => c = d

CodesOK == \A n \in Id : codes[n] # None /\ ~ codes[n].raced => Tame(n)

\* A moderation about to commit has found every token of the user but those
\* of calls it has overtaken; who is about to get a token is active, or that.
MayStay(call, t) == t \in call.found \/ tokens[t].late
AccountsOK ==
    /\ RevokedWithAccount
    /\ \A d \in Call : At(d, "commit") /\ Kind(d) \in {"block", "delete"} =>
         \A t \in Id : Live(t) /\ tokens[t].user = calls[d].user => MayStay(calls[d], t)
    /\ \A c \in Call : calls[c].pc \in {"welcome", "token"} /\ ~ calls[c].late =>
         users[calls[c].user].status = "active"

\* A login forks for all its tokens; until then one refresh of them is under
\* way, and the token it was asked with is the only live one beside its own.
InFlight(c) == Kind(c) = "refresh" /\ calls[c].pc \in {"user", "token", "revoke"}
Kin(s, t) == tokens[s] # None /\ tokens[t] # None /\ tokens[s].root = tokens[t].root
Rotating(s, t) ==
    \E c \in Call : InFlight(c) /\ At(c, "revoke") /\ {s, t} = {calls[c].on, calls[c].id}

RotationOK ==
    /\ \A t \in Id : tokens[t] # None => tokens[tokens[t].root] # None
    /\ \A s, t \in Id : Kin(s, t) => tokens[s].forked = tokens[t].forked
    /\ \A s, t \in Id : Live(s) /\ Live(t) /\ Kin(s, t) /\ s # t =>
         tokens[t].forked \/ Rotating(s, t)
    /\ \A c \in Call : InFlight(c) /\ ~ tokens[calls[c].on].forked =>
         /\ \A s \in Id : Live(s) /\ Kin(s, calls[c].on) =>
              s = calls[c].on \/ (At(c, "revoke") /\ s = calls[c].id)
         /\ \A d \in Call : InFlight(d) /\ Kin(calls[d].on, calls[c].on) => c = d

AccessInv == TypeOK /\ CallsOK /\ Counted /\ CodesOK /\ AccountsOK /\ RotationOK
-----------------------------------------------------------------------------
(* The invariant holds at first. *)

\* No row, record of Redis or history is the missing value.
LEMMA Values == \A x \in Counter \cup Otp \cup Code \cup UserRow \cup TokenRow : x # None
  BY NoValue

\* The invariant holds at first, with the first user or without.
LEMMA AccessInit == Init => AccessInv
  <1> SUFFICES ASSUME Init PROVE AccessInv OBVIOUS
  <1>1. 0 \in Id /\ 1 \in User /\ requests \in 0..MaxRequests BY AccessAssumption DEF Init, Id, User
  <1>2. TypeOK
    <2> DEFINE first == [status |-> "active", phone |-> TRUE]
               token == [user |-> 1, state |-> "live", root |-> 0, forked |-> FALSE,
                         late |-> FALSE]
    <2>0. /\ first \in UserRow /\ token \in TokenRow /\ first # None /\ token # None
          /\ token.user = 1
      <3>1. first \in UserRow BY DEF UserRow
      <3>2. token \in TokenRow /\ token.user = 1 BY <1>1 DEF TokenRow
      <3> HIDE DEF token, first
      <3> QED BY <3>1, <3>2, Values
    <2>1. users \in [User -> UserRow \cup {None}]
      <3> HIDE DEF first
      <3>1. users = [u \in User |-> None] \/ users = [u \in User |-> IF u = 1 THEN first ELSE None]
        BY DEF Init, first
      <3> QED BY <2>0, <3>1
    <2>2. tokens \in [Id -> TokenRow \cup {None}]
      <3>1. \/ tokens = [t \in Id |-> None]
            \/ tokens = [t \in Id |-> IF t = 0 THEN token ELSE None]
        BY DEF Init
      <3> HIDE DEF token
      <3> QED BY <2>0, <3>1
    <2>3. \A t \in Id : tokens[t] # None => Registered(tokens[t].user)
      <3>1. \/ tokens = [t \in Id |-> None]
            \/ /\ tokens = [t \in Id |-> IF t = 0 THEN token ELSE None]
               /\ users[1] = first
        BY <1>1 DEF Init
      <3> HIDE DEF token, first
      <3> QED BY <2>0, <3>1 DEF Registered
    <2>4. \A u, v \in User :
            Registered(u) /\ Registered(v) /\ users[u].phone /\ users[v].phone => u = v
      BY DEF Init, Registered
    <2> QED BY <1>1, <2>1, <2>2, <2>3, <2>4 DEF Init, TypeOK
  <1>3. CallsOK
    <2>1. Idle \in CallType BY <1>1, AccessAssumption DEF Idle, CallType, Pc
    <2> QED BY <2>1, <1>1, AccessAssumption DEF Init, CallsOK, CallOK, Running, At, Idle, Id
  <1>4. Counted
    <2>1. Waiting = {} BY DEF Init, Waiting, At, Idle
    <2> QED BY <2>1, FS_EmptySet DEF Init, Counted, Count
  <1>5. CodesOK BY DEF Init, CodesOK
  <1>6. AccountsOK
    BY <1>1, NoValue DEF Init, AccountsOK, RevokedWithAccount, At, Idle, Live, TokenRow
  <1>7. RotationOK
    BY <1>1, NoValue DEF Init, RotationOK, Live, Kin, InFlight, Kind, Idle, TokenRow
  <1> QED BY <1>2, <1>3, <1>4, <1>5, <1>6, <1>7 DEF AccessInv

\* A call that is still running keeps its id and the token it came with.
Continues(c, y) ==
    y = Idle \/ (Running(c) /\ y.id = calls[c].id /\ y.on = calls[c].on)

\* A step of c's: the rows stay, and one that appears has the id of c.
Grows(c) ==
    /\ requests' = requests
    /\ \A u \in User : Registered(u) => Registered(u)'
    /\ \A n \in Id : codes[n] # None => codes'[n] # None
    /\ \A n \in Id : tokens[n] # None => tokens'[n] # None
    /\ \A n \in Id : codes'[n] # None => codes[n] # None \/ (Running(c) /\ n = calls[c].id)
    /\ \A n \in Id : tokens'[n] # None => tokens[n] # None \/ (Running(c) /\ n = calls[c].id)

\* The other calls go on, or learn that they have been overtaken.
OthersWait(c) ==
    \A d \in Call \ {c} :
      calls'[d] = calls[d] \/ (Running(d) /\ calls'[d] = [calls[d] EXCEPT !.late = TRUE])

\* A step of c leaves every other call what its kind may be.
LEMMA OthersOK ==
  ASSUME AccessInv, NEW c \in Call, Grows(c), OthersWait(c), NEW d \in Call \ {c}
  PROVE  CallOK(calls[d])'
  <1>1. calls[d] \in CallType /\ CallOK(calls[d]) BY DEF AccessInv, CallsOK
  <1>2. CASE calls[d] = Idle
    <2>1. ~ Running(d) BY <1>2 DEF Running, At, Idle
    <2>2. calls'[d] = Idle BY <1>2, <2>1 DEF OthersWait
    <2> QED BY <2>2 DEF CallOK, Idle
  <1>3. CASE calls[d] # Idle
    <2>1. PICK y : y = calls'[d] OBVIOUS
    <2>2. /\ y.id = calls[d].id /\ y.kind = calls[d].kind /\ y.pc = calls[d].pc
          /\ y.on = calls[d].on /\ y.user = calls[d].user /\ y.code = calls[d].code
          /\ y.found = calls[d].found
      BY <1>1, <2>1 DEF OthersWait, CallType
    <2>3. Running(d) BY <1>1, <1>3 DEF Running, At, CallOK, Coding, Entering, Exchanging, Moderating
    <2>4. Running(c) => calls[c].id # calls[d].id BY <2>3 DEF AccessInv, CallsOK
    <2>5. calls[d].id \in 1..requests /\ calls[d].id \in Id
      BY <1>1, <1>3 DEF CallOK, CallType
    <2>6. /\ codes[calls[d].id] = None => codes'[calls[d].id] = None
          /\ tokens[calls[d].id] = None => tokens'[calls[d].id] = None
      BY <2>4, <2>5 DEF Grows
    <2>7. Coding(calls[d]) => Coding(y)' BY <2>2, <2>6 DEF Coding
    <2>8. Entering(calls[d]) => Entering(y)'
      BY <1>1, <2>2, <2>6 DEF Entering, Grows, CallType
    <2>9. Exchanging(calls[d]) => Exchanging(y)'
      BY <1>1, <2>2, <2>6 DEF Exchanging, Grows, CallType
    <2>10. Moderating(calls[d]) => Moderating(y)'
      BY <1>1, <2>2 DEF Moderating, Grows, CallType
    <2>11. y.id \in 1..requests' BY <2>2, <2>5 DEF Grows
    <2>12. CallOK(y)' BY <1>1, <1>3, <2>7, <2>8, <2>9, <2>10, <2>11 DEF CallOK
    <2> QED BY <2>1, <2>12 DEF CallOK, Coding, Entering, Exchanging, Moderating
  <1> QED BY <1>2, <1>3

\* What a step of c leaves of the calls.
LEMMA CallsStay ==
  ASSUME AccessInv, NEW c \in Call, Grows(c), OthersWait(c),
         calls' \in [Call -> CallType], CallOK(calls[c])', Continues(c, calls'[c])
  PROVE  CallsOK'
  <1>1. \A d \in Call : CallOK(calls[d])' BY OthersOK
  <1>2. \A d \in Call : calls'[d].pc # "idle" =>
          /\ Running(d) /\ calls'[d].id = calls[d].id /\ calls'[d].on = calls[d].on
    <2>1. ASSUME NEW d \in Call \ {c}, calls'[d].pc # "idle"
          PROVE  /\ Running(d) /\ calls'[d].id = calls[d].id /\ calls'[d].on = calls[d].on
      <3>1. calls[d] \in CallType BY DEF AccessInv, CallsOK
      <3>2. /\ calls'[d].id = calls[d].id /\ calls'[d].on = calls[d].on
            /\ calls'[d].pc = calls[d].pc
        BY <3>1 DEF OthersWait, CallType
      <3> QED BY <2>1, <3>2 DEF Running, At
    <2>2. calls'[c].pc # "idle" =>
            /\ Running(c) /\ calls'[c].id = calls[c].id /\ calls'[c].on = calls[c].on
      BY DEF Continues, Idle
    <2> QED BY <2>1, <2>2
  <1>3. \A d, e \in Call : Running(d)' /\ Running(e)' /\ d # e => calls'[d].id # calls'[e].id
    BY <1>2 DEF AccessInv, CallsOK, Running, At
  <1>4. \A d, e \in Call : Running(d)' /\ Running(e)' => calls'[d].id # calls'[e].on
    BY <1>2 DEF AccessInv, CallsOK, Running, At
  <1>5. \A n \in Id : n > requests' => codes'[n] = None /\ tokens'[n] = None
    <2>1. Running(c) => calls[c].id \in 1..requests
      BY DEF AccessInv, CallsOK, CallOK, Running, At, Idle
    <2>2. requests \in Nat BY DEF AccessInv, TypeOK
    <2> QED BY <2>1, <2>2 DEF Grows, AccessInv, CallsOK, Id
  <1> QED BY <1>1, <1>3, <1>4, <1>5 DEF CallsOK

\* What the invariant says of one call.
LEMMA CallFields ==
  ASSUME AccessInv, NEW c \in Call
  PROVE  /\ calls[c] \in CallType /\ CallOK(calls[c]) /\ requests \in 0..MaxRequests
         /\ Running(c) => calls[c] # Idle /\ calls[c].id \in 1..requests
         /\ Idle \in CallType
  <1>1. requests \in 0..MaxRequests BY DEF AccessInv, TypeOK
  <1>2. Idle \in CallType BY <1>1, AccessAssumption DEF Idle, CallType, Pc, Id
  <1> QED BY <1>1, <1>2 DEF AccessInv, CallsOK, CallOK, Running, At, Idle

\* The step of c's alone, when its call becomes y.
LEMMA OneMoves ==
  ASSUME AccessInv, NEW c \in Call, Grows(c), NEW y \in CallType, Continues(c, y),
         calls' = [calls EXCEPT ![c] = y], CallOK(y)'
  PROVE  CallsOK'
  <1>1. calls \in [Call -> CallType] BY DEF AccessInv, CallsOK
  <1>2. calls' \in [Call -> CallType] /\ calls'[c] = y BY <1>1
  <1>3. OthersWait(c) BY <1>1 DEF OthersWait
  <1>4. CallOK(calls[c])' BY <1>2 DEF CallOK, Coding, Entering, Exchanging, Moderating
  <1> QED BY <1>2, <1>3, <1>4, CallsStay

\* A request that is answered leaves nothing to keep.
LEMMA Ends ==
  ASSUME AccessInv, NEW c \in Call, Grows(c), Finish(c)
  PROVE  CallsOK'
  <1>1. Idle \in CallType BY CallFields
  <1>2. CallOK(Idle)' BY DEF CallOK, Idle
  <1>3. Continues(c, Idle) BY DEF Continues
  <1> QED BY <1>1, <1>2, <1>3, OneMoves DEF Finish, Become

\* A request that arrives has an id nothing else has.
LEMMA Arrives ==
  ASSUME AccessInv, NEW c \in Call, NEW y \in CallType, At(c, "idle"),
         requests < MaxRequests, requests' = requests + 1,
         UNCHANGED <<counter, otp, codes, users, tokens>>,
         y.id = requests + 1, calls' = [calls EXCEPT ![c] = y],
         Coding(y) \/ Entering(y) \/ Exchanging(y) \/ Moderating(y),
         \A d \in Call : Running(d) => calls[d].id # y.on
  PROVE  CallsOK'
  <1>1. calls \in [Call -> CallType] /\ requests \in Nat /\ MaxRequests \in Nat
    BY AccessAssumption DEF AccessInv, CallsOK, TypeOK
  <1>2. calls' \in [Call -> CallType] /\ calls'[c] = y BY <1>1
  <1>3. \A d \in Call \ {c} : calls'[d] = calls[d] BY <1>1
  <1>4. \A d \in Call : CallOK(calls[d])'
    <2>0. \A n : n \in 1..requests => n \in 1..requests' BY <1>1
    <2>1. CallOK(y)'
      <3>1. y.id \in 1..requests' BY <1>1
      <3> QED BY <3>1 DEF CallOK, Coding, Entering, Exchanging, Moderating, Registered
    <2>2. ASSUME NEW d \in Call \ {c} PROVE CallOK(calls[d])'
      <3>1. CallOK(calls[d]) BY CallFields
      <3>2. CallOK(calls[d]) => CallOK(calls[d])'
        BY <2>0, <1>3 DEF CallOK, Coding, Entering, Exchanging, Moderating, Registered, Idle
      <3> QED BY <3>1, <3>2
    <2>3. CallOK(calls[c])' BY <1>2, <2>1 DEF CallOK, Coding, Entering, Exchanging, Moderating
    <2> QED BY <2>2, <2>3
  <1>5. \A n \in Id : tokens[n] # None => n <= requests
    BY <1>1 DEF AccessInv, CallsOK, Id
  <1>6. \A d \in Call : calls[d].on # None => calls[d].on <= requests
    <2> TAKE d \in Call
    <2>1. calls[d] \in CallType /\ CallOK(calls[d]) BY CallFields
    <2>2. calls[d].on # None => tokens[calls[d].on] # None
      <3>1. Idle.on = None BY DEF Idle
      <3> QED BY <2>1, <3>1 DEF CallOK, Coding, Entering, Exchanging, Moderating
    <2>3. calls[d].on # None => calls[d].on \in Id BY <2>1 DEF CallType
    <2> QED BY <1>5, <2>2, <2>3
  <1>7. y.on # None => y.on <= requests
    BY <1>5 DEF Coding, Entering, Exchanging, Moderating, CallType
  <1>8. \A d \in Call : Running(d) => calls[d].id \in Nat /\ calls[d].id <= requests
    BY <1>1, CallFields
  <1>9. \A d, e \in Call : Running(d)' /\ Running(e)' /\ d # e => calls'[d].id # calls'[e].id
    BY <1>1, <1>2, <1>3, <1>8 DEF AccessInv, CallsOK, Running, At
  <1>10. \A d, e \in Call : Running(d)' /\ Running(e)' => calls'[d].id # calls'[e].on
    <2> SUFFICES ASSUME NEW d \in Call, NEW e \in Call, Running(d)', Running(e)'
                 PROVE  calls'[d].id # calls'[e].on
      OBVIOUS
    <2>1. None # requests + 1 BY <1>1, AccessAssumption
    <2>2. CASE d = c
      BY <1>1, <1>2, <1>3, <1>6, <1>7, <2>1, <2>2
    <2>3. CASE d # c
      BY <1>2, <1>3, <2>3 DEF AccessInv, CallsOK, Running, At
    <2> QED BY <2>2, <2>3
  <1>11. \A n \in Id : n > requests' => codes'[n] = None /\ tokens'[n] = None
    BY <1>1 DEF AccessInv, CallsOK, Id
  <1> QED BY <1>2, <1>4, <1>9, <1>10, <1>11 DEF CallsOK

\* A call of c's that goes on.
Fit(y) == Coding(y) \/ Entering(y) \/ Exchanging(y) \/ Moderating(y)

\* A call that goes on as y, fit for where it has got to.
LEMMA Proceeds ==
  ASSUME AccessInv, NEW c \in Call, Grows(c), Running(c), NEW y \in CallType,
         y.id = calls[c].id, y.on = calls[c].on, Become(c, y), Fit(y)'
  PROVE  CallsOK'
  <1>1. Continues(c, y) BY DEF Continues
  <1>2. CallOK(y)' BY CallFields DEF CallOK, Fit, Grows
  <1> QED BY <1>1, <1>2, OneMoves DEF Become

\* A call that only goes to another step.
LEMMA Goes ==
  ASSUME AccessInv, NEW c \in Call, Grows(c), Running(c), NEW pc \in Pc, GoTo(c, pc),
         NEW y, y = [calls[c] EXCEPT !.pc = pc], Fit(y)'
  PROVE  CallsOK'
  <1>1. calls \in [Call -> CallType] /\ calls[c] \in CallType
    BY CallFields DEF AccessInv, CallsOK
  <1>2. y \in CallType /\ y.id = calls[c].id /\ y.on = calls[c].on BY <1>1 DEF CallType
  <1>3. Become(c, y) BY <1>1 DEF GoTo, Become
  <1> QED BY <1>2, <1>3, Proceeds

\* What a call at each step is.
LEMMA AtStep ==
  ASSUME AccessInv, NEW c \in Call, Running(c)
  PROVE  /\ calls[c].pc \in {"count", "expire", "forget", "save"} => Coding(calls[c])
         /\ calls[c].pc \in {"get", "wrong", "right", "check", "insert", "welcome"} =>
              Entering(calls[c])
         /\ calls[c].pc = "token" => Entering(calls[c]) \/ Exchanging(calls[c])
         /\ calls[c].pc \in {"load", "user", "revoke"} => Exchanging(calls[c])
         /\ calls[c].pc \in {"moderate", "revoke all", "commit"} => Moderating(calls[c])
  BY CallFields DEF CallOK, Coding, Entering, Exchanging, Moderating

\* Begin, for a request that arrives as y.
LEMMA BeginCalls ==
  ASSUME AccessInv, NEW c \in Call, NEW y \in CallType, Begin(c, y),
         NEW z, z = [y EXCEPT !.id = requests + 1], Fit(z),
         \A d \in Call : Running(d) => calls[d].id # y.on
  PROVE  CallsOK'
  <1>1. requests + 1 \in Id
    BY CallFields, AccessAssumption DEF Begin, Id
  <1>2. z \in CallType /\ z.id = requests + 1 /\ z.on = y.on BY <1>1 DEF CallType
  <1> QED BY <1>2, Arrives DEF Begin, Fit

\* Whatever a request is for, nothing of it is there when it arrives.
LEMMA Nothing ==
  ASSUME AccessInv, requests < MaxRequests
  PROVE  codes[requests + 1] = None /\ tokens[requests + 1] = None
  <1>1. requests \in Nat /\ MaxRequests \in Nat BY AccessAssumption DEF AccessInv, TypeOK
  <1>2. requests + 1 \in Id /\ requests + 1 > requests BY <1>1 DEF Id
  <1> QED BY <1>2 DEF AccessInv, CallsOK

\* The calls after each action that begins one.
LEMMA BeginsCalls ==
  ASSUME AccessInv, NEW c \in Call,
         \/ BeginRequestCode(c)
         \/ \E kind \in {"register", "login"} : BeginVerify(c, kind)
         \/ \E kind \in {"refresh", "logout"}, t \in Id : BeginWithToken(c, kind, t)
         \/ \E kind \in {"block", "unblock", "delete"}, u \in User : BeginModeration(c, kind, u)
  PROVE  CallsOK'
  <1>1. Idle \in CallType BY CallFields
  <1>2. \A d \in Call : Running(d) => calls[d].id # None
    BY CallFields, AccessAssumption DEF CallType, Id
  <1>3. CASE BeginRequestCode(c)
    <2>1. PICK y : y = [Idle EXCEPT !.pc = "count", !.kind = "code"] OBVIOUS
    <2>2. PICK z : z = [y EXCEPT !.id = requests + 1] OBVIOUS
    <2>3. y \in CallType /\ y.on = None BY <1>1, <2>1 DEF CallType, Pc, Idle
    <2>4. Begin(c, y) BY <1>3, <2>1 DEF BeginRequestCode
    <2>5. Fit(z) BY <2>1, <2>2, <2>4, Nothing DEF Fit, Coding, Idle, Begin
    <2> QED BY <1>2, <2>2, <2>3, <2>4, <2>5, BeginCalls
  <1>4. ASSUME NEW kind \in {"register", "login"}, BeginVerify(c, kind) PROVE CallsOK'
    <2>1. PICK y : y = [Idle EXCEPT !.pc = "get", !.kind = kind] OBVIOUS
    <2>2. PICK z : z = [y EXCEPT !.id = requests + 1] OBVIOUS
    <2>3. y \in CallType /\ y.on = None BY <1>1, <2>1 DEF CallType, Pc, Idle
    <2>4. Begin(c, y) BY <1>4, <2>1 DEF BeginVerify
    <2>5. Fit(z) BY <2>1, <2>2, <2>4, Nothing DEF Fit, Entering, Idle, Begin
    <2> QED BY <1>2, <2>2, <2>3, <2>4, <2>5, BeginCalls
  <1>5. ASSUME NEW kind \in {"refresh", "logout"}, NEW t \in Id, BeginWithToken(c, kind, t)
        PROVE  CallsOK'
    <2>1. PICK y : y = [Idle EXCEPT !.pc = "load", !.kind = kind, !.on = t] OBVIOUS
    <2>2. PICK z : z = [y EXCEPT !.id = requests + 1] OBVIOUS
    <2>3. y \in CallType /\ y.on = t BY <1>1, <2>1 DEF CallType, Pc, Idle
    <2>4. Begin(c, y) BY <1>5, <2>1 DEF BeginWithToken
    <2>5. t # None BY AccessAssumption DEF Id
    <2>6. Fit(z)
      BY <1>5, <2>1, <2>2, <2>4, <2>5, Nothing DEF Fit, Exchanging, Idle, Begin, BeginWithToken
    <2> QED BY <1>5, <2>2, <2>3, <2>4, <2>6, BeginCalls DEF BeginWithToken
  <1>6. ASSUME NEW kind \in {"block", "unblock", "delete"}, NEW u \in User,
               BeginModeration(c, kind, u)
        PROVE  CallsOK'
    <2>1. PICK y : y = [Idle EXCEPT !.pc = "moderate", !.kind = kind, !.user = u] OBVIOUS
    <2>2. PICK z : z = [y EXCEPT !.id = requests + 1] OBVIOUS
    <2>3. y \in CallType /\ y.on = None BY <1>1, <2>1 DEF CallType, Pc, Idle
    <2>4. Begin(c, y) BY <1>6, <2>1 DEF BeginModeration
    <2>5. u # None BY AccessAssumption DEF User
    <2>6. Fit(z) BY <1>6, <2>1, <2>2, <2>5 DEF Fit, Moderating, Idle, BeginModeration
    <2> QED BY <1>2, <2>2, <2>3, <2>4, <2>6, BeginCalls
  <1> QED BY <1>3, <1>4, <1>5, <1>6

-----------------------------------------------------------------------------
(* Rows: what the steps do to the tables and the histories of codes. *)

\* A function after one of its values is replaced by a row.
LEMMA Edited ==
  ASSUME NEW I, NEW S, NEW f \in [I -> S \cup {None}], NEW k \in I, NEW x \in S, None \notin S,
         NEW g, g = [f EXCEPT ![k] = x]
  PROVE  /\ g \in [I -> S \cup {None}] /\ g[k] = x
         /\ \A n \in I : n # k => g[n] = f[n]
         /\ \A n \in I : g[n] # None <=> f[n] # None \/ n = k
  OBVIOUS

\* The history of a code is changed, never made or lost, by what is done with
\* the code.
LEMMA CodesEdited ==
  ASSUME AccessInv, NEW c \in Call,
         ReadCode(c, TRUE) \/ ReadCode(c, FALSE) \/ WrongCode(c) \/ AcceptCode(c)
  PROVE  /\ codes' \in [Id -> Code \cup {None}]
         /\ \A n \in Id : codes'[n] # None <=> codes[n] # None
  <1>1. codes \in [Id -> Code \cup {None}] /\ None \notin Code
    BY Values DEF AccessInv, TypeOK
  <1>2. otp # None => otp.code \in Id /\ codes[otp.code] \in Code
    BY DEF AccessInv, TypeOK, Otp
  <1>3. At(c, "right") \/ At(c, "wrong") => calls[c].code \in Id /\ codes[calls[c].code] \in Code
    <2> SUFFICES ASSUME At(c, "right") \/ At(c, "wrong")
                 PROVE  calls[c].code \in Id /\ codes[calls[c].code] \in Code
      OBVIOUS
    <2>1. Entering(calls[c]) /\ calls[c] \in CallType
      BY CallFields, AtStep DEF Running, At
    <2> QED BY <1>1, <2>1 DEF Entering, At, CallType
  <1>4. ASSUME NEW n \in Id, NEW x \in Code, codes[n] \in Code, codes' = [codes EXCEPT ![n] = x]
        PROVE  /\ codes' \in [Id -> Code \cup {None}]
               /\ \A m \in Id : codes'[m] # None <=> codes[m] # None
    BY <1>1, <1>4, Edited
  <1>5. CASE otp # None /\ codes' = [codes EXCEPT ![otp.code].raced = @ \/ Racing(c, otp.code)]
    <2>1. PICK x : x = [codes[otp.code] EXCEPT !.raced = @ \/ Racing(c, otp.code)] OBVIOUS
    <2>2. Racing(c, otp.code) \in BOOLEAN BY DEF Racing
    <2>3. x \in Code
      <3> HIDE DEF Racing
      <3> QED BY <1>2, <1>5, <2>1, <2>2 DEF Code
    <2>4. codes' = [codes EXCEPT ![otp.code] = x] BY <1>5, <2>1
    <2> QED BY <1>2, <1>4, <1>5, <2>3, <2>4
  <1>6. ASSUME WrongCode(c)
        PROVE  /\ codes' \in [Id -> Code \cup {None}]
               /\ \A m \in Id : codes'[m] # None <=> codes[m] # None
    <2>1. PICK x : x = [codes[calls[c].code] EXCEPT !.tries = @ + 1] OBVIOUS
    <2>2. x \in Code BY <1>3, <1>6, <2>1 DEF Code, WrongCode
    <2>3. codes' = [codes EXCEPT ![calls[c].code] = x] BY <1>6, <2>1 DEF WrongCode
    <2> QED BY <1>3, <1>4, <1>6, <2>2, <2>3 DEF WrongCode
  <1>7. ASSUME AcceptCode(c)
        PROVE  /\ codes' \in [Id -> Code \cup {None}]
               /\ \A m \in Id : codes'[m] # None <=> codes[m] # None
    <2>1. PICK x : x = [codes[calls[c].code] EXCEPT !.accepted = @ + 1] OBVIOUS
    <2>2. x \in Code BY <1>3, <1>7, <2>1 DEF Code, AcceptCode
    <2>3. codes' = [codes EXCEPT ![calls[c].code] = x] BY <1>7, <2>1 DEF AcceptCode
    <2> QED BY <1>3, <1>4, <1>7, <2>2, <2>3 DEF AcceptCode
  <1> QED BY <1>1, <1>5, <1>6, <1>7 DEF ReadCode

\* A tick ages the code in Redis and no other.
LEMMA TickEdits ==
  ASSUME AccessInv, Tick
  PROVE  /\ codes' \in [Id -> Code \cup {None}]
         /\ \A n \in Id : codes'[n] # None <=> codes[n] # None
         /\ otp \in Otp /\ codes[otp.code] \in Code
         /\ codes' = [codes EXCEPT ![otp.code] = [codes[otp.code] EXCEPT !.age = @ + 1]]
  <1>1. codes \in [Id -> Code \cup {None}] /\ None \notin Code
    BY Values DEF AccessInv, TypeOK
  <1>2. otp \in Otp /\ codes[otp.code] # None BY DEF AccessInv, TypeOK, Tick
  <1>3. otp.code \in Id /\ codes[otp.code] \in Code BY <1>1, <1>2 DEF Otp
  <1>4. PICK x : x = [codes[otp.code] EXCEPT !.age = @ + 1] OBVIOUS
  <1>5. x \in Code BY <1>3, <1>4 DEF Code
  <1>6. codes' = [codes EXCEPT ![otp.code] = x] BY <1>4 DEF Tick
  <1> QED BY <1>1, <1>2, <1>3, <1>4, <1>5, <1>6, Edited

\* A user once registered stays, and the row that is inserted is active.
LEMMA UsersEdited ==
  ASSUME AccessInv, NEW c \in Call, NEW u \in User,
         InsertUser(c, u) \/ (CommitModeration(c) /\ u = calls[c].user)
  PROVE  /\ users' \in [User -> UserRow \cup {None}]
         /\ \A v \in User : Registered(v) => Registered(v)'
         /\ \A v \in User : v # u => users'[v] = users[v]
         /\ InsertUser(c, u) /\ Holders = {} =>
              Registered(u)' /\ users'[u] = [status |-> "active", phone |-> TRUE]
         /\ CommitModeration(c) =>
              Registered(u) /\ users'[u] = NewRow(Kind(c), users[u]) /\ users'[u] \in UserRow
  <1>1. users \in [User -> UserRow \cup {None}] /\ None \notin UserRow
    BY Values DEF AccessInv, TypeOK
  <1>2. ASSUME InsertUser(c, u), Holders = {}
        PROVE  /\ users' \in [User -> UserRow \cup {None}]
               /\ \A v \in User : Registered(v) => Registered(v)'
               /\ \A v \in User : v # u => users'[v] = users[v]
               /\ Registered(u)' /\ users'[u] = [status |-> "active", phone |-> TRUE]
    <2>1. PICK x : x = [status |-> "active", phone |-> TRUE] OBVIOUS
    <2>2. x \in UserRow BY <2>1 DEF UserRow
    <2>3. users' = [users EXCEPT ![u] = x] BY <1>2, <2>1 DEF InsertUser
    <2> QED BY <1>1, <2>1, <2>2, <2>3, Edited DEF Registered
  <1>3. ASSUME CommitModeration(c), u = calls[c].user
        PROVE  /\ users' \in [User -> UserRow \cup {None}]
               /\ \A v \in User : Registered(v) => Registered(v)'
               /\ \A v \in User : v # u => users'[v] = users[v]
               /\ Registered(u) /\ users'[u] = NewRow(Kind(c), users[u]) /\ users'[u] \in UserRow
    <2>1. Moderating(calls[c]) BY <1>3, CallFields, AtStep DEF CommitModeration, Running, At
    <2>2. users[u] \in UserRow BY <1>1, <1>3, <2>1 DEF Moderating, Registered
    <2>3. PICK x : x = NewRow(Kind(c), users[u]) OBVIOUS
    <2>4. x \in UserRow BY <2>1, <2>2, <2>3 DEF Moderating, NewRow, UserRow, Kind
    <2>5. users' = [users EXCEPT ![u] = x] BY <1>3, <2>3 DEF CommitModeration
    <2>6. Registered(u) BY <1>3, <2>1 DEF Moderating
    <2> QED BY <1>1, <2>3, <2>4, <2>5, <2>6, Edited DEF Registered
  <1>4. ASSUME InsertUser(c, u), Holders # {} PROVE users' = users
    BY <1>4 DEF InsertUser
  <1>5. InsertUser(c, u) => ~ CommitModeration(c) BY DEF InsertUser, CommitModeration, At
  <1> QED BY <1>1, <1>2, <1>3, <1>4, <1>5 DEF Registered

\* The tokens stay, their users, logins and marks too, and none revives.
TokensKept ==
    /\ tokens' \in [Id -> TokenRow \cup {None}]
    /\ \A t \in Id : tokens'[t] # None <=> tokens[t] # None
    /\ \A t \in Id : tokens[t] # None =>
         /\ tokens'[t].user = tokens[t].user /\ tokens'[t].root = tokens[t].root
         /\ tokens'[t].late = tokens[t].late
         /\ Live(t)' => Live(t)

\* The tokens of the roots R fork.
Forks(R) ==
    \A t \in Id : tokens[t] # None =>
      (tokens'[t].forked <=> tokens[t].forked \/ tokens[t].root \in R)

\* What is in the table of tokens is a row.
LEMMA TokenRows ==
  ASSUME AccessInv
  PROVE  /\ tokens \in [Id -> TokenRow \cup {None}] /\ None \notin TokenRow
         /\ \A t \in Id : tokens[t] # None => tokens[t] \in TokenRow
  BY Values DEF AccessInv, TypeOK

\* ForkedRoot forks one login and leaves the rest of its tokens.
LEMMA RootForks ==
  ASSUME AccessInv, NEW r, tokens' = ForkedRoot(r)
  PROVE  TokensKept /\ Forks({r})
  <1>1. ASSUME NEW t \in Id, tokens[t] # None
        PROVE  /\ tokens'[t] \in TokenRow /\ tokens'[t].user = tokens[t].user
               /\ tokens'[t].root = tokens[t].root /\ tokens'[t].late = tokens[t].late
               /\ tokens'[t].state = tokens[t].state
               /\ tokens'[t].forked <=> tokens[t].forked \/ tokens[t].root = r
    <2>1. tokens[t] \in TokenRow BY <1>1, TokenRows
    <2>2. tokens'[t] = IF tokens[t].root = r THEN [tokens[t] EXCEPT !.forked = TRUE]
                       ELSE tokens[t]
      BY <1>1 DEF ForkedRoot
    <2> QED BY <2>1, <2>2 DEF TokenRow
  <1>2. \A t \in Id : tokens[t] = None => tokens'[t] = None BY DEF ForkedRoot
  <1>3. tokens' = [t \in Id |-> tokens'[t]] BY DEF ForkedRoot
  <1>4. tokens' \in [Id -> TokenRow \cup {None}] BY <1>1, <1>2, <1>3
  <1> QED BY <1>1, <1>2, <1>4, TokenRows DEF TokensKept, Forks, Live

\* Tokens end: their state changes and nothing else.
LEMMA TokensEnd ==
  ASSUME AccessInv, NEW T \in SUBSET Id, NEW state \in {"expired", "revoked"},
         \A t \in T : tokens[t] # None,
         tokens' = [t \in Id |-> IF t \in T THEN [tokens[t] EXCEPT !.state = state]
                                 ELSE tokens[t]]
  PROVE  TokensKept /\ Forks({}) /\ \A t \in T : ~ Live(t)'
  <1>1. ASSUME NEW t \in Id, tokens[t] # None
        PROVE  /\ tokens'[t] \in TokenRow /\ tokens'[t].user = tokens[t].user
               /\ tokens'[t].root = tokens[t].root /\ tokens'[t].late = tokens[t].late
               /\ tokens'[t].forked = tokens[t].forked
               /\ tokens'[t].state = IF t \in T THEN state ELSE tokens[t].state
    <2>1. tokens[t] \in TokenRow BY <1>1, TokenRows
    <2> QED BY <2>1 DEF TokenRow
  <1>2. \A t \in Id : tokens[t] = None => tokens'[t] = None OBVIOUS
  <1>3. tokens' \in [Id -> TokenRow \cup {None}] BY <1>1, <1>2
  <1> QED BY <1>1, <1>2, <1>3, TokenRows DEF TokensKept, Forks, Live

\* One token ends: it expires or is revoked.
LEMMA OneEnds ==
  ASSUME AccessInv, NEW k \in Id, tokens[k] # None, NEW state \in {"expired", "revoked"},
         tokens' = [tokens EXCEPT ![k].state = state]
  PROVE  TokensKept /\ Forks({}) /\ ~ Live(k)'
  <1>1. tokens' = [t \in Id |-> IF t \in {k} THEN [tokens[t] EXCEPT !.state = state]
                                ELSE tokens[t]]
    BY TokenRows
  <1> QED BY <1>1, TokensEnd

\* A step that leaves the table alone keeps it, trivially.
LEMMA TokensUnchanged ==
  ASSUME AccessInv, UNCHANGED tokens
  PROVE  TokensKept /\ Forks({})
  <1>1. \A t \in Id : tokens[t] # None => tokens[t].forked \in BOOLEAN
    BY TokenRows DEF TokenRow
  <1> QED BY <1>1, TokenRows DEF TokensKept, Forks, Live

\* The token of a call that adds one.
NewToken(c) ==
    LET old == IF calls[c].on = None THEN None ELSE tokens[calls[c].on]
    IN  [user |-> calls[c].user, state |-> "live",
         root |-> IF old = None THEN calls[c].id ELSE old.root,
         forked |-> old # None /\ old.forked,
         late |-> calls[c].late \/ Closing(calls[c].user)]

\* _create_refresh_token: the row that AddToken adds, and its call after it.
LEMMA TokenAdded ==
  ASSUME AccessInv, NEW c \in Call, AddToken(c)
  PROVE  /\ calls[c].id \in Id /\ tokens[calls[c].id] = None
         /\ NewToken(c) \in TokenRow /\ Registered(calls[c].user) /\ calls[c].user \in User
         /\ tokens' = [tokens EXCEPT ![calls[c].id] = NewToken(c)]
         /\ tokens' \in [Id -> TokenRow \cup {None}]
         /\ tokens'[calls[c].id] = NewToken(c) /\ tokens'[calls[c].id] # None
         /\ \A t \in Id : t # calls[c].id => tokens'[t] = tokens[t]
         /\ calls[c].on = None => NewToken(c).root = calls[c].id /\ ~ NewToken(c).forked
         /\ calls[c].on # None =>
              /\ calls[c].on \in Id /\ tokens[calls[c].on] # None /\ Kind(c) = "refresh"
              /\ NewToken(c).root = tokens[calls[c].on].root
              /\ NewToken(c).forked = tokens[calls[c].on].forked
         /\ NewToken(c).user = calls[c].user /\ NewToken(c).state = "live"
         /\ calls[c].late \/ Closing(calls[c].user) => NewToken(c).late
         /\ calls' = [calls EXCEPT ![c] =
                        IF calls[c].on = None THEN Idle ELSE [calls[c] EXCEPT !.pc = "revoke"]]
  <1>1. /\ calls[c] \in CallType /\ Running(c) /\ calls[c].pc = "token"
        /\ Entering(calls[c]) \/ Exchanging(calls[c])
    BY CallFields, AtStep DEF AddToken, Running, At
  <1>2. /\ calls[c].id \in Id /\ tokens[calls[c].id] = None
        /\ Registered(calls[c].user) /\ calls[c].user \in User
        /\ calls[c].on # None =>
             calls[c].on \in Id /\ tokens[calls[c].on] # None /\ Kind(c) = "refresh"
    BY <1>1 DEF Entering, Exchanging, CallType, Kind
  <1>3. calls[c].on # None => tokens[calls[c].on] \in TokenRow BY <1>2, TokenRows
  <1>4. PICK closing : closing = Closing(calls[c].user) /\ closing \in BOOLEAN
    BY DEF Closing
  <1>5. PICK x : x = NewToken(c) OBVIOUS
  <1>6. calls[c].on = None =>
          x = [user |-> calls[c].user, state |-> "live", root |-> calls[c].id, forked |-> FALSE,
               late |-> calls[c].late \/ closing]
    BY <1>4, <1>5 DEF NewToken
  <1>7. calls[c].on # None =>
          x = [user |-> calls[c].user, state |-> "live", root |-> tokens[calls[c].on].root,
               forked |-> tokens[calls[c].on].forked, late |-> calls[c].late \/ closing]
    BY <1>2, <1>3, <1>4, <1>5 DEF NewToken, TokenRow
  <1>8. calls[c].late \in BOOLEAN BY <1>1 DEF CallType
  <1>9. x \in TokenRow /\ x.user = calls[c].user /\ x.state = "live"
    <2>1. PICK late : late = (calls[c].late \/ closing) /\ late \in BOOLEAN
      BY <1>4, <1>8
    <2>2. PICK root \in Id, forked \in BOOLEAN :
            x = [user |-> calls[c].user, state |-> "live", root |-> root, forked |-> forked,
                 late |-> late]
      <3>1. CASE calls[c].on = None BY <1>2, <1>6, <2>1, <3>1
      <3>2. CASE calls[c].on # None
        <4>1. tokens[calls[c].on].root \in Id /\ tokens[calls[c].on].forked \in BOOLEAN
          BY <1>3, <3>2 DEF TokenRow
        <4> QED BY <1>7, <2>1, <3>2, <4>1
      <3> QED BY <3>1, <3>2
    <2> QED BY <1>2, <2>1, <2>2 DEF TokenRow
  <1>10. calls[c].late \/ closing => x.late BY <1>4, <1>6, <1>7, <1>8
  <1>11. tokens' = [tokens EXCEPT ![calls[c].id] = x] BY <1>5 DEF AddToken, NewToken
  <1>12. calls \in [Call -> CallType] BY DEF AccessInv, CallsOK
  <1>13. calls' = [calls EXCEPT ![c] =
                     IF calls[c].on = None THEN Idle ELSE [calls[c] EXCEPT !.pc = "revoke"]]
    BY <1>2, <1>12 DEF AddToken, Finish, Become, GoTo
  <1>14. /\ tokens' \in [Id -> TokenRow \cup {None}] /\ tokens'[calls[c].id] = x /\ x # None
         /\ \A t \in Id : t # calls[c].id => tokens'[t] = tokens[t]
    BY <1>2, <1>9, <1>11, TokenRows, Edited
  <1> QED BY <1>2, <1>4, <1>5, <1>6, <1>7, <1>9, <1>10, <1>11, <1>13, <1>14

-----------------------------------------------------------------------------
(* Calls, step by step. *)

\* The calls after each step of request-code.
LEMMA CodeCalls ==
  ASSUME AccessInv, NEW c \in Call,
         \/ \E limit \in Limits : CountRequest(c, limit)
         \/ ExpireCounter(c) \/ ForgetCode(c) \/ SaveCode(c)
  PROVE  CallsOK'
  <1>1. Running(c) /\ Coding(calls[c]) /\ calls[c].id \in Id
    <2>1. Running(c) BY DEF CountRequest, ExpireCounter, ForgetCode, SaveCode, Running, At
    <2> QED BY <2>1, CallFields, AtStep
          DEF CountRequest, ExpireCounter, ForgetCode, SaveCode, At, CallType
  <1>2. Grows(c)
    <2>1. ASSUME SaveCode(c) PROVE Grows(c)
      <3>1. PICK x : x = NewCode OBVIOUS
      <3>2. x # None BY <3>1, Values DEF Code, NewCode
      <3>3. codes' = [codes EXCEPT ![calls[c].id] = x] BY <2>1, <3>1 DEF SaveCode
      <3>4. codes \in [Id -> Code \cup {None}] BY DEF AccessInv, TypeOK
      <3> QED BY <2>1, <3>2, <3>3, <3>4, <1>1 DEF SaveCode, Grows, Registered
    <2> QED BY <2>1 DEF Grows, CountRequest, ExpireCounter, ForgetCode, Registered
  <1>3. CASE Finish(c) BY <1>2, <1>3, Ends
  <1>4. ASSUME NEW pc \in {"expire", "forget", "save"}, GoTo(c, pc), UNCHANGED codes PROVE CallsOK'
    <2>1. PICK y : y = [calls[c] EXCEPT !.pc = pc] OBVIOUS
    <2>2. Fit(y)' BY <1>1, <1>4, <2>1, CallFields DEF Fit, Coding, CallType
    <2> QED BY <1>1, <1>2, <1>4, <2>1, <2>2, Goes DEF Pc
  <1> QED BY <1>3, <1>4 DEF CountRequest, ExpireCounter, ForgetCode, SaveCode

\* The calls after each step of register and login, until the token.
LEMMA EntryCalls ==
  ASSUME AccessInv, NEW c \in Call,
         \/ \E yes \in BOOLEAN :
              ReadCode(c, yes) \/ CheckRegistration(c, yes) \/ CheckLogin(c, yes)
         \/ WrongCode(c) \/ AcceptCode(c) \/ Welcome(c)
         \/ \E u \in User : InsertUser(c, u)
  PROVE  CallsOK'
  <1>1. /\ Running(c) /\ Entering(calls[c]) /\ calls[c].id \in Id /\ calls[c] \in CallType
        /\ codes \in [Id -> Code \cup {None}]
    <2>1. /\ calls[c].pc \in {"get", "wrong", "right", "check", "insert", "welcome"}
          /\ Running(c)
      BY DEF ReadCode, CheckRegistration, CheckLogin, WrongCode, AcceptCode, Welcome, InsertUser,
             Running, At
    <2> QED BY <2>1, CallFields, AtStep DEF CallType, AccessInv, TypeOK
  <1>2. Grows(c)
    <2>1. ASSUME ReadCode(c, TRUE) \/ ReadCode(c, FALSE) \/ WrongCode(c) \/ AcceptCode(c)
          PROVE  Grows(c)
      <3>1. \A n \in Id : codes'[n] # None <=> codes[n] # None BY <2>1, CodesEdited
      <3> QED BY <2>1, <3>1 DEF Grows, ReadCode, WrongCode, AcceptCode, Registered
    <2>2. ASSUME NEW u \in User, InsertUser(c, u) PROVE Grows(c)
      <3>1. \A v \in User : Registered(v) => Registered(v)' BY <2>2, UsersEdited
      <3> QED BY <2>2, <3>1 DEF Grows, InsertUser
    <2>3. ASSUME NEW yes \in BOOLEAN, CheckRegistration(c, yes) \/ CheckLogin(c, yes)
          PROVE  Grows(c)
      BY <2>3 DEF Grows, CheckRegistration, CheckLogin, Registered
    <2>4. Welcome(c) => Grows(c) BY DEF Grows, Welcome, Registered
    <2> QED BY <2>1, <2>2, <2>3, <2>4
  <1>3. ASSUME Finish(c) PROVE CallsOK' BY <1>2, <1>3, Ends
  <1>4. ASSUME NEW yes \in BOOLEAN, ReadCode(c, yes) PROVE CallsOK'
    <2>1. CASE otp = None BY <1>3, <1>4, <2>1 DEF ReadCode
    <2>2. CASE otp # None
      <3>1. PICK y : y = [calls[c] EXCEPT !.pc = IF yes THEN "right" ELSE "wrong",
                            !.code = otp.code, !.attempts = otp.attempts]
        OBVIOUS
      <3>2. otp \in Otp /\ codes[otp.code] # None BY <2>2 DEF AccessInv, TypeOK
      <3>3. /\ y \in CallType /\ y.id = calls[c].id /\ y.on = calls[c].on
            /\ y.code = otp.code /\ y.kind = calls[c].kind /\ y.pc \in {"right", "wrong"}
        BY <1>1, <3>1, <3>2 DEF CallType, Otp, Pc
      <3>4. codes'[otp.code] # None BY <1>4, <3>2, CodesEdited DEF Otp
      <3>5. y.code # None BY <3>2, <3>3, AccessAssumption DEF Otp, Id
      <3>6. Entering(y)'
        BY <1>1, <1>4, <3>3, <3>4, <3>5, CallFields DEF Entering, ReadCode, At
      <3>7. Become(c, y) BY <1>4, <2>2, <3>1 DEF ReadCode
      <3> QED BY <1>1, <1>2, <3>3, <3>6, <3>7, Proceeds DEF Fit
    <2> QED BY <2>1, <2>2
  <1>5. ASSUME NEW pc \in {"check", "insert", "token"}, GoTo(c, pc), UNCHANGED tokens,
               pc = "token" => Welcome(c)
        PROVE  CallsOK'
    <2>1. PICK y : y = [calls[c] EXCEPT !.pc = pc] OBVIOUS
    <2>2. /\ y.pc = pc /\ y.id = calls[c].id /\ y.kind = calls[c].kind /\ y.on = calls[c].on
          /\ y.user = calls[c].user
      BY <1>1, <2>1 DEF CallType
    <2>3. pc = "token" => y.user # None /\ Registered(y.user)'
      BY <1>1, <1>5, <2>2 DEF Entering, Welcome, At, Registered
    <2>4. Entering(y)' BY <1>1, <1>5, <2>2, <2>3 DEF Entering
    <2> QED BY <1>1, <1>2, <1>5, <2>1, <2>4, Goes DEF Pc, Fit
  <1>6. ASSUME NEW u \in User, NEW pc \in {"welcome", "token"},
               Become(c, [calls[c] EXCEPT !.pc = pc, !.user = u]),
               Registered(u)', UNCHANGED tokens
        PROVE  CallsOK'
    <2>1. PICK y : y = [calls[c] EXCEPT !.pc = pc, !.user = u] OBVIOUS
    <2>2. /\ y \in CallType /\ y.pc = pc /\ y.id = calls[c].id /\ y.kind = calls[c].kind
          /\ y.on = calls[c].on /\ y.user = u
      BY <1>1, <2>1 DEF CallType, Pc
    <2>3. y.user # None BY <2>2, AccessAssumption DEF User
    <2>4. Entering(y)' BY <1>1, <1>6, <2>2, <2>3 DEF Entering, Registered
    <2> QED BY <1>1, <1>2, <1>6, <2>1, <2>2, <2>4, Proceeds DEF Fit
  <1>7. ASSUME NEW yes \in BOOLEAN, CheckRegistration(c, yes) PROVE CallsOK'
    BY <1>3, <1>5, <1>7 DEF CheckRegistration
  <1>8. ASSUME NEW yes \in BOOLEAN, CheckLogin(c, yes) PROVE CallsOK'
    <2>1. CASE ~ Finish(c)
      <3>1. PICK u \in Holders : Become(c, [calls[c] EXCEPT !.pc = "token", !.user = u])
        BY <1>8, <2>1 DEF CheckLogin
      <3>2. u \in User /\ Registered(u)' BY <1>8, <3>1 DEF Holders, CheckLogin, Registered
      <3> QED BY <1>6, <1>8, <3>1, <3>2 DEF CheckLogin
    <2> QED BY <1>3, <2>1
  <1>9. ASSUME NEW u \in User, InsertUser(c, u) PROVE CallsOK'
    <2>1. CASE Holders # {} BY <1>3, <1>9, <2>1 DEF InsertUser
    <2>2. CASE Holders = {}
      <3>1. Registered(u)' BY <1>9, <2>2, UsersEdited
      <3> QED BY <1>6, <1>9, <2>2, <3>1 DEF InsertUser
    <2> QED BY <2>1, <2>2
  <1>10. WrongCode(c) => CallsOK' BY <1>3 DEF WrongCode
  <1>11. AcceptCode(c) => CallsOK' BY <1>5 DEF AcceptCode
  <1>12. Welcome(c) => CallsOK' BY <1>5 DEF Welcome
  <1> QED BY <1>4, <1>7, <1>8, <1>9, <1>10, <1>11, <1>12

\* The calls after each step of refresh and logout, and the token of a login.
LEMMA ExchangeCalls ==
  ASSUME AccessInv, NEW c \in Call,
         LoadToken(c) \/ LoadLogout(c) \/ CheckUser(c) \/ AddToken(c) \/ RevokeToken(c)
  PROVE  CallsOK'
  <1>1. /\ Running(c) /\ calls[c] \in CallType /\ calls[c].pc \in {"load", "user", "token", "revoke"}
        /\ Entering(calls[c]) \/ Exchanging(calls[c])
        /\ calls[c].pc # "token" => Exchanging(calls[c])
    <2>1. Running(c) /\ calls[c].pc \in {"load", "user", "token", "revoke"}
      BY DEF LoadToken, LoadLogout, CheckUser, AddToken, RevokeToken, Running, At
    <2> QED BY <2>1, CallFields, AtStep
  <1>2. calls[c].pc # "token" => calls[c].on \in Id /\ tokens[calls[c].on] # None
    BY <1>1 DEF Exchanging, CallType
  <1>3. Grows(c)
    <2>1. ASSUME TokensKept, UNCHANGED <<codes, users, requests>> PROVE Grows(c)
      BY <2>1 DEF TokensKept, Grows, Registered
    <2>2. CASE UNCHANGED tokens
      BY <2>1, <2>2, TokensUnchanged DEF LoadToken, LoadLogout, CheckUser, AddToken, RevokeToken
    <2>3. CASE LoadToken(c) /\ tokens' # tokens
      BY <2>1, <2>3, RootForks DEF LoadToken
    <2>4. CASE AddToken(c)
      <3>1. \A t \in Id : tokens'[t] # None <=> tokens[t] # None \/ t = calls[c].id
        BY <2>4, TokenAdded
      <3> QED BY <1>1, <2>4, <3>1 DEF AddToken, Grows, Registered
    <2>5. CASE RevokeToken(c)
      BY <1>2, <2>1, <2>5, OneEnds DEF RevokeToken, At
    <2> QED BY <2>2, <2>3, <2>4, <2>5 DEF LoadLogout, CheckUser
  <1>4. ASSUME Finish(c) PROVE CallsOK' BY <1>3, <1>4, Ends
  <1>5. ASSUME NEW pc \in {"token", "revoke"}, GoTo(c, pc), Exchanging(calls[c]),
               LoadLogout(c) \/ CheckUser(c) \/ AddToken(c),
               pc = "token" => CheckUser(c)
        PROVE  CallsOK'
    <2>1. PICK y : y = [calls[c] EXCEPT !.pc = pc] OBVIOUS
    <2>2. /\ y.pc = pc /\ y.id = calls[c].id /\ y.kind = calls[c].kind /\ y.on = calls[c].on
          /\ y.user = calls[c].user
      BY <1>1, <2>1 DEF CallType
    <2>3. calls[c].on \in Id /\ tokens'[y.on] # None
      BY <1>1, <1>3, <1>5, <2>2 DEF Grows, Exchanging, CallType
    <2>4. pc = "token" =>
            /\ y.kind = "refresh" /\ y.user # None /\ Registered(y.user)' /\ tokens'[y.id] = None
      BY <1>1, <1>5, <2>2 DEF CheckUser, Exchanging, At, Registered
    <2>5. LoadLogout(c) => y.kind = "logout" BY <2>2 DEF LoadLogout, Kind
    <2>6. CheckUser(c) => pc = "token"
      <3>1. ASSUME CheckUser(c), pc = "revoke" PROVE FALSE
        <4>1. calls \in [Call -> CallType] BY DEF AccessInv, CallsOK
        <4>2. calls'[c].pc = "revoke" BY <1>1, <1>5, <3>1, <4>1 DEF GoTo, CallType
        <4>3. calls'[c].pc \in {"token", "idle"}
          BY <1>1, <3>1, <4>1 DEF CheckUser, GoTo, Finish, Become, Idle, CallType
        <4> QED BY <4>2, <4>3
      <3> QED BY <3>1
    <2>7. AddToken(c) => y.kind = "refresh"
      BY <1>1, <1>5, <2>2 DEF AddToken, Exchanging, At
    <2>8. Exchanging(y)'
      BY <1>5, <2>2, <2>3, <2>4, <2>5, <2>6, <2>7 DEF Exchanging
    <2> QED BY <1>1, <1>3, <1>5, <2>1, <2>8, Goes DEF Pc, Fit
  <1>6. CASE LoadToken(c)
    <2>1. CASE Live(calls[c].on)
      <3>1. PICK y : y = [calls[c] EXCEPT !.pc = "user", !.user = tokens[calls[c].on].user] OBVIOUS
      <3>2. /\ tokens[calls[c].on] \in TokenRow /\ Registered(tokens[calls[c].on].user)
        BY <1>2, <1>6, TokenRows DEF LoadToken, At, AccessInv, TypeOK
      <3>3. /\ y \in CallType /\ y.pc = "user" /\ y.id = calls[c].id /\ y.on = calls[c].on
            /\ y.kind = calls[c].kind /\ y.user = tokens[calls[c].on].user /\ y.user \in User
        BY <1>1, <3>1, <3>2 DEF CallType, TokenRow, Pc
      <3>4. y.user # None BY <3>3, AccessAssumption DEF User
      <3>5. tokens'[y.on] # None /\ (tokens[y.id] = None => tokens'[y.id] = None)
        <4>1. TokensKept BY <1>6, <2>1, RootForks, TokensUnchanged DEF LoadToken
        <4> QED BY <1>2, <1>6, <3>3, <4>1 DEF TokensKept, LoadToken, At, CallType
      <3>6. Exchanging(y)'
        BY <1>1, <1>6, <3>2, <3>3, <3>4, <3>5
           DEF Exchanging, LoadToken, At, Kind, Registered
      <3>7. Become(c, y) BY <1>6, <2>1, <3>1 DEF LoadToken
      <3> QED BY <1>1, <1>3, <3>3, <3>6, <3>7, Proceeds DEF Fit
    <2>2. CASE ~ Live(calls[c].on) BY <1>4, <1>6, <2>2 DEF LoadToken
    <2> QED BY <2>1, <2>2
  <1>7. CASE LoadLogout(c) BY <1>1, <1>5, <1>7 DEF LoadLogout, At
  <1>8. CASE CheckUser(c) BY <1>1, <1>4, <1>5, <1>8 DEF CheckUser, At
  <1>9. CASE AddToken(c)
    <2>1. CASE calls[c].on = None BY <1>4, <1>9, <2>1 DEF AddToken
    <2>2. CASE calls[c].on # None
      <3>1. GoTo(c, "revoke") BY <1>9, <2>2, TokenAdded DEF AddToken
      <3> QED BY <1>1, <1>5, <1>9, <2>2, <3>1 DEF Entering
    <2> QED BY <2>1, <2>2
  <1>10. CASE RevokeToken(c) BY <1>4, <1>10 DEF RevokeToken
  <1> QED BY <1>6, <1>7, <1>8, <1>9, <1>10

\* The calls after each step of a block, an unblock or a deletion.
LEMMA ModerationCalls ==
  ASSUME AccessInv, NEW c \in Call,
         CheckModeration(c) \/ RevokeAll(c) \/ CommitModeration(c)
  PROVE  CallsOK'
  <1>1. /\ Running(c) /\ calls[c] \in CallType /\ Moderating(calls[c])
        /\ calls \in [Call -> CallType]
    <2>1. Running(c) /\ calls[c].pc \in {"moderate", "revoke all", "commit"}
      BY DEF CheckModeration, RevokeAll, CommitModeration, Running, At
    <2> QED BY <2>1, CallFields, AtStep DEF AccessInv, CallsOK
  <1>2. CASE CheckModeration(c)
    <2>1. Grows(c) BY <1>2 DEF CheckModeration, Grows, Registered
    <2>2. ASSUME NEW pc \in {"commit", "revoke all"}, GoTo(c, pc)
          PROVE  CallsOK'
      <3>1. PICK y : y = [calls[c] EXCEPT !.pc = pc] OBVIOUS
      <3>2. Fit(y)' BY <1>1, <1>2, <2>2, <3>1
                       DEF Fit, Moderating, CallType, CheckModeration, Registered
      <3> QED BY <1>1, <2>1, <2>2, <3>1, <3>2, Goes DEF Pc
    <2>3. CASE Finish(c) BY <2>1, <2>3, Ends
    <2> QED BY <1>2, <2>2, <2>3 DEF CheckModeration
  <1>3. CASE RevokeAll(c)
    <2>1. Grows(c) BY <1>3 DEF RevokeAll, Grows, Registered
    <2>2. PICK y : y = [calls[c] EXCEPT !.pc = "commit", !.found = Theirs(calls[c].user)]
      OBVIOUS
    <2>3. Theirs(calls[c].user) \subseteq Id
          /\ \A t \in Theirs(calls[c].user) : tokens[t] # None
      BY DEF Theirs
    <2>4. /\ y \in CallType /\ y.pc = "commit" /\ y.found = Theirs(calls[c].user)
          /\ y.kind = calls[c].kind /\ y.id = calls[c].id /\ y.on = calls[c].on
          /\ y.user = calls[c].user
      BY <1>1, <2>2, <2>3 DEF CallType, Pc
    <2>5. Moderating(y)' BY <1>1, <1>3, <2>3, <2>4 DEF Moderating, RevokeAll, Registered
    <2> QED BY <1>1, <1>3, <2>1, <2>2, <2>4, <2>5, Proceeds DEF RevokeAll, Fit
  <1>4. CASE CommitModeration(c)
    <2>1. TokensKept
      BY <1>1, <1>4, TokensEnd DEF CommitModeration, Moderating, At, CallType
    <2>2. Grows(c)
      <3>1. calls[c].user \in User BY <1>1 DEF Moderating, CallType
      <3>2. \A v \in User : Registered(v) => Registered(v)' BY <1>4, <3>1, UsersEdited
      <3> QED BY <1>4, <2>1, <3>2 DEF CommitModeration, Grows, TokensKept
    <2>3. calls'[c] = Idle BY <1>4 DEF CommitModeration
    <2>4. OthersWait(c)
      <3>1. ASSUME NEW d \in Call \ {c}
            PROVE  calls'[d] = calls[d]
                   \/ (Running(d) /\ calls'[d] = [calls[d] EXCEPT !.late = TRUE])
        BY <1>4 DEF CommitModeration, Checked, Running, At
      <3> QED BY <3>1 DEF OthersWait
    <2>5. calls' \in [Call -> CallType]
      <3>1. ASSUME NEW d \in Call PROVE calls'[d] \in CallType
        <4>1. \A x \in CallType : [x EXCEPT !.late = TRUE] \in CallType BY DEF CallType
        <4> QED BY <1>1, <2>3, <2>4, <4>1, CallFields DEF OthersWait
      <3>2. calls' = [d \in Call |-> calls'[d]] BY <1>4 DEF CommitModeration
      <3> QED BY <3>1, <3>2
    <2>6. CallOK(calls[c])' /\ Continues(c, calls'[c])
      BY <2>3 DEF CallOK, Idle, Continues
    <2> QED BY <2>2, <2>4, <2>5, <2>6, CallsStay
  <1> QED BY <1>2, <1>3, <1>4

\* Rows that stay are enough for calls that do nothing.
LEMMA CallsRest ==
  ASSUME AccessInv, UNCHANGED <<calls, requests>>,
         \A u \in User : Registered(u)' <=> Registered(u),
         \A n \in Id : codes'[n] # None <=> codes[n] # None,
         \A t \in Id : tokens'[t] # None <=> tokens[t] # None
  PROVE  CallsOK'
  <1>1. ASSUME NEW c \in Call PROVE CallOK(calls[c])'
    <2>1. calls[c] \in CallType /\ CallOK(calls[c]) BY CallFields
    <2>2. PICK y : y = calls[c] OBVIOUS
    <2>3. y \in CallType /\ CallOK(y) BY <2>1, <2>2
    <2>4. CallOK(y)'
      BY <2>3 DEF CallOK, Coding, Entering, Exchanging, Moderating, CallType
    <2> QED BY <2>2, <2>4 DEF CallOK, Coding, Entering, Exchanging, Moderating
  <1> QED BY <1>1 DEF AccessInv, CallsOK, Running, At

\* The calls after a death, a tick or an expiry.
LEMMA OtherCalls ==
  ASSUME AccessInv,
         (\E c \in Call : Crash(c)) \/ Tick \/ DayPasses \/ (\E t \in Id : TokenExpires(t))
  PROVE  CallsOK'
  <1>1. ASSUME NEW c \in Call, Crash(c) PROVE CallsOK'
    <2>1. TokensKept BY <1>1, RootForks, TokensUnchanged DEF Crash
    <2>2. Grows(c) BY <1>1, <2>1 DEF Crash, Grows, TokensKept, Registered
    <2> QED BY <1>1, <2>2, Ends DEF Crash
  <1>2. CASE Tick
    BY <1>2, TickEdits, CallsRest DEF Tick, Registered
  <1>3. CASE DayPasses BY <1>3, CallsRest DEF DayPasses, Registered
  <1>4. ASSUME NEW t \in Id, TokenExpires(t) PROVE CallsOK'
    <2>1. TokensKept BY <1>4, OneEnds DEF TokenExpires, Live
    <2> QED BY <1>4, <2>1, CallsRest DEF TokenExpires, TokensKept, Registered
  <1> QED BY <1>1, <1>2, <1>3, <1>4

-----------------------------------------------------------------------------
(* The next-state relation, by what a step is about. *)

Begins(c) ==
    \/ BeginRequestCode(c)
    \/ \E kind \in {"register", "login"} : BeginVerify(c, kind)
    \/ \E kind \in {"refresh", "logout"}, t \in Id : BeginWithToken(c, kind, t)
    \/ \E kind \in {"block", "unblock", "delete"}, u \in User : BeginModeration(c, kind, u)

Sends(c) ==
    \/ \E limit \in Limits : CountRequest(c, limit)
    \/ ExpireCounter(c) \/ ForgetCode(c) \/ SaveCode(c)

Enters(c) ==
    \/ \E yes \in BOOLEAN :
         ReadCode(c, yes) \/ CheckRegistration(c, yes) \/ CheckLogin(c, yes)
    \/ WrongCode(c) \/ AcceptCode(c) \/ Welcome(c)
    \/ \E u \in User : InsertUser(c, u)

Exchanges(c) ==
    LoadToken(c) \/ LoadLogout(c) \/ CheckUser(c) \/ AddToken(c) \/ RevokeToken(c)

Moderates(c) == CheckModeration(c) \/ RevokeAll(c) \/ CommitModeration(c)

\* The disjuncts of Next, by whose they are.
LEMMA Steps ==
  ASSUME Next
  PROVE  \/ \E c \in Call : Begins(c) \/ Sends(c) \/ Enters(c) \/ Exchanges(c) \/ Moderates(c)
                            \/ Crash(c)
         \/ Tick \/ DayPasses \/ \E t \in Id : TokenExpires(t)
  BY DEF Next, Begins, Sends, Enters, Exchanges, Moderates

\* Every step keeps the calls fit.
LEMMA CallsStep ==
  ASSUME AccessInv, Next
  PROVE  CallsOK'
  <1>1. \A c \in Call : Begins(c) => CallsOK' BY BeginsCalls DEF Begins
  <1>2. \A c \in Call : Sends(c) => CallsOK' BY CodeCalls DEF Sends
  <1>3. \A c \in Call : Enters(c) => CallsOK' BY EntryCalls DEF Enters
  <1>4. \A c \in Call : Exchanges(c) => CallsOK' BY ExchangeCalls DEF Exchanges
  <1>5. \A c \in Call : Moderates(c) => CallsOK' BY ModerationCalls DEF Moderates
  <1> QED BY <1>1, <1>2, <1>3, <1>4, <1>5, Steps, OtherCalls

-----------------------------------------------------------------------------
(* Whose call a step changes, and where it gets to. *)

SameCall(d) ==
    /\ calls'[d].pc = calls[d].pc /\ calls'[d].kind = calls[d].kind /\ calls'[d].id = calls[d].id
    /\ calls'[d].code = calls[d].code /\ calls'[d].attempts = calls[d].attempts
    /\ calls'[d].user = calls[d].user /\ calls'[d].on = calls[d].on
    /\ calls'[d].found = calls[d].found
    /\ calls[d].late => calls'[d].late

ActsOn(c) == \A d \in Call \ {c} : SameCall(d)

\* The calls and their types.
LEMMA CallTypes ==
  ASSUME AccessInv
  PROVE  calls \in [Call -> CallType] /\ \A d \in Call : calls[d] \in CallType
  BY DEF AccessInv, CallsOK

\* Each action is of one call, and of the others marks the overtaken at most.
LEMMA OneActs ==
  ASSUME AccessInv, NEW c \in Call,
         Begins(c) \/ Sends(c) \/ Enters(c) \/ Exchanges(c) \/ Moderates(c) \/ Crash(c)
  PROVE  ActsOn(c)
  <1>1. ASSUME NEW y, calls' = [calls EXCEPT ![c] = y] PROVE ActsOn(c)
    BY <1>1, CallTypes DEF ActsOn, SameCall
  <1>2. ASSUME NEW pc, GoTo(c, pc) PROVE ActsOn(c) BY <1>1, <1>2 DEF GoTo
  <1>3. CASE Begins(c)
    BY <1>1, <1>3 DEF Begins, BeginRequestCode, BeginVerify, BeginWithToken, BeginModeration, Begin
  <1>4. CASE Sends(c)
    BY <1>1, <1>2, <1>4
       DEF Sends, CountRequest, ExpireCounter, ForgetCode, SaveCode, Finish, Become
  <1>5. CASE Enters(c)
    BY <1>1, <1>2, <1>5
       DEF Enters, ReadCode, CheckRegistration, CheckLogin, WrongCode, AcceptCode, Welcome,
           InsertUser, Finish, Become
  <1>6. CASE Exchanges(c)
    BY <1>1, <1>2, <1>6
       DEF Exchanges, LoadToken, LoadLogout, CheckUser, AddToken, RevokeToken, Finish, Become
  <1>7. CASE Moderates(c)
    <2>1. CASE CommitModeration(c)
      <3>1. ASSUME NEW d \in Call \ {c} PROVE SameCall(d)
        <4>1. calls'[d] = calls[d] \/ calls'[d] = [calls[d] EXCEPT !.late = TRUE]
          BY <2>1 DEF CommitModeration
        <4>2. calls[d] \in CallType BY CallTypes
        <4> QED BY <4>1, <4>2 DEF CallType, SameCall
      <3> QED BY <3>1 DEF ActsOn
    <2> QED BY <1>1, <1>2, <1>7, <2>1
           DEF Moderates, CheckModeration, RevokeAll, Become, Finish
  <1>8. CASE Crash(c) BY <1>1, <1>8 DEF Crash, Finish, Become
  <1> QED BY <1>3, <1>4, <1>5, <1>6, <1>7, <1>8

\* Where each action takes its call.
LEMMA Gets ==
  ASSUME AccessInv, NEW c \in Call
  PROVE  /\ Begins(c) => calls'[c].pc \in {"count", "get", "load", "moderate"}
         /\ Sends(c) => calls'[c].pc \in {"idle", "expire", "forget", "save"}
         /\ \A yes \in BOOLEAN : CheckRegistration(c, yes) => calls'[c].pc \in {"idle", "insert"}
         /\ \A yes \in BOOLEAN : CheckLogin(c, yes) => calls'[c].pc \in {"idle", "token"}
         /\ \A u \in User : InsertUser(c, u) => calls'[c].pc \in {"idle", "welcome"}
         /\ WrongCode(c) \/ Crash(c) \/ RevokeToken(c) \/ CommitModeration(c) =>
              calls'[c] = Idle /\ calls'[c].pc = "idle"
         /\ AcceptCode(c) => calls'[c].pc = "check"
         /\ Welcome(c) => calls'[c].pc = "token" /\ calls'[c].kind = calls[c].kind
         /\ LoadToken(c) => calls'[c].pc \in {"idle", "user"}
         /\ LoadLogout(c) => calls'[c].pc = "revoke" /\ calls'[c].kind = calls[c].kind
         /\ CheckUser(c) => calls'[c].pc \in {"idle", "token"}
         /\ AddToken(c) => calls'[c].pc \in {"idle", "revoke"}
         /\ CheckModeration(c) => calls'[c].pc \in {"idle", "revoke all", "commit"}
         /\ RevokeAll(c) => calls'[c].pc = "commit"
  <1>1. calls \in [Call -> CallType] /\ calls[c] \in CallType BY CallTypes
  <1>2. ASSUME Finish(c) PROVE calls'[c] = Idle /\ calls'[c].pc = "idle"
    BY <1>1, <1>2 DEF Finish, Become, Idle
  <1>3. ASSUME NEW pc, GoTo(c, pc) PROVE calls'[c].pc = pc /\ calls'[c].kind = calls[c].kind
    BY <1>1, <1>3 DEF GoTo, CallType
  <1>4. ASSUME Begins(c) PROVE calls'[c].pc \in {"count", "get", "load", "moderate"}
    <2>1. ASSUME NEW y \in CallType, Begin(c, y) PROVE calls'[c].pc = y.pc
      BY <1>1, <2>1 DEF Begin, CallType
    <2>2. Idle \in CallType BY CallFields
    <2>3. ASSUME BeginRequestCode(c) PROVE calls'[c].pc = "count"
      <3>1. PICK y : y = [Idle EXCEPT !.pc = "count", !.kind = "code"] OBVIOUS
      <3>2. y \in CallType /\ y.pc = "count" BY <2>2, <3>1 DEF CallType, Pc, Idle
      <3> QED BY <2>1, <2>3, <3>1, <3>2 DEF BeginRequestCode
    <2>4. ASSUME NEW kind \in {"register", "login"}, BeginVerify(c, kind)
          PROVE  calls'[c].pc = "get"
      <3>1. PICK y : y = [Idle EXCEPT !.pc = "get", !.kind = kind] OBVIOUS
      <3>2. y \in CallType /\ y.pc = "get" BY <2>2, <3>1 DEF CallType, Pc, Idle
      <3> QED BY <2>1, <2>4, <3>1, <3>2 DEF BeginVerify
    <2>5. ASSUME NEW kind \in {"refresh", "logout"}, NEW t \in Id, BeginWithToken(c, kind, t)
          PROVE  calls'[c].pc = "load"
      <3>1. PICK y : y = [Idle EXCEPT !.pc = "load", !.kind = kind, !.on = t] OBVIOUS
      <3>2. y \in CallType /\ y.pc = "load" BY <2>2, <3>1 DEF CallType, Pc, Idle
      <3> QED BY <2>1, <2>5, <3>1, <3>2 DEF BeginWithToken
    <2>6. ASSUME NEW kind \in {"block", "unblock", "delete"}, NEW u \in User,
                 BeginModeration(c, kind, u)
          PROVE  calls'[c].pc = "moderate"
      <3>1. PICK y : y = [Idle EXCEPT !.pc = "moderate", !.kind = kind, !.user = u] OBVIOUS
      <3>2. y \in CallType /\ y.pc = "moderate" BY <2>2, <3>1 DEF CallType, Pc, Idle
      <3> QED BY <2>1, <2>6, <3>1, <3>2 DEF BeginModeration
    <2> QED BY <1>4, <2>3, <2>4, <2>5, <2>6 DEF Begins
  <1>5. Sends(c) => calls'[c].pc \in {"idle", "expire", "forget", "save"}
    BY <1>2, <1>3 DEF Sends, CountRequest, ExpireCounter, ForgetCode, SaveCode
  <1>6. ASSUME NEW yes \in BOOLEAN, CheckRegistration(c, yes) PROVE calls'[c].pc \in {"idle", "insert"}
    BY <1>2, <1>3, <1>6 DEF CheckRegistration
  <1>7. ASSUME NEW pc, NEW u, Become(c, [calls[c] EXCEPT !.pc = pc, !.user = u])
        PROVE  calls'[c].pc = pc
    BY <1>1, <1>7 DEF Become, CallType
  <1>8. ASSUME NEW yes \in BOOLEAN, CheckLogin(c, yes) PROVE calls'[c].pc \in {"idle", "token"}
    BY <1>2, <1>7, <1>8 DEF CheckLogin
  <1>9. ASSUME NEW u \in User, InsertUser(c, u) PROVE calls'[c].pc \in {"idle", "welcome"}
    BY <1>2, <1>7, <1>9 DEF InsertUser
  <1>10. WrongCode(c) \/ Crash(c) \/ RevokeToken(c) => calls'[c] = Idle /\ calls'[c].pc = "idle"
    BY <1>2 DEF WrongCode, Crash, RevokeToken
  <1>11. CommitModeration(c) => calls'[c] = Idle /\ calls'[c].pc = "idle"
    BY DEF CommitModeration, Idle
  <1>12. /\ AcceptCode(c) => calls'[c].pc = "check"
         /\ Welcome(c) => calls'[c].pc = "token" /\ calls'[c].kind = calls[c].kind
         /\ LoadLogout(c) => calls'[c].pc = "revoke" /\ calls'[c].kind = calls[c].kind
         /\ CheckUser(c) => calls'[c].pc \in {"idle", "token"}
         /\ AddToken(c) => calls'[c].pc \in {"idle", "revoke"}
         /\ CheckModeration(c) => calls'[c].pc \in {"idle", "revoke all", "commit"}
    BY <1>2, <1>3 DEF AcceptCode, Welcome, LoadLogout, CheckUser, AddToken, CheckModeration
  <1>13. LoadToken(c) => calls'[c].pc \in {"idle", "user"} BY <1>2, <1>7 DEF LoadToken
  <1>14. RevokeAll(c) => calls'[c].pc = "commit"
    BY <1>1 DEF RevokeAll, Become, CallType
  <1> QED BY <1>4, <1>5, <1>6, <1>8, <1>9, <1>10, <1>11, <1>12, <1>13, <1>14

\* What a verification holds once it has read the code.
LEMMA ReadGets ==
  ASSUME AccessInv, NEW c \in Call, NEW yes \in BOOLEAN, ReadCode(c, yes)
  PROVE  /\ otp = None => calls'[c].pc = "idle"
         /\ otp # None => /\ calls'[c].pc = IF yes THEN "right" ELSE "wrong"
                          /\ calls'[c].code = otp.code /\ calls'[c].attempts = otp.attempts
  <1>1. calls \in [Call -> CallType] /\ calls[c] \in CallType BY CallTypes
  <1>2. CASE otp = None BY <1>1, <1>2 DEF ReadCode, Finish, Become, Idle
  <1>3. CASE otp # None
    <2>1. PICK pc : pc = IF yes THEN "right" ELSE "wrong" OBVIOUS
    <2>2. PICK y : y = [calls[c] EXCEPT !.pc = pc, !.code = otp.code, !.attempts = otp.attempts]
      OBVIOUS
    <2>3. y.pc = pc /\ y.code = otp.code /\ y.attempts = otp.attempts
      BY <1>1, <2>2 DEF CallType
    <2>4. calls'[c] = y BY <1>1, <1>3, <2>1, <2>2 DEF ReadCode, Become
    <2> QED BY <1>3, <2>1, <2>3, <2>4
  <1> QED BY <1>2, <1>3

-----------------------------------------------------------------------------
(* Types, and the counter. *)

\* The steps that leave tokens alone, and those that keep them.
LEMMA TokensStep ==
  ASSUME AccessInv, Next
  PROVE  TokensKept \/ \E c \in Call : AddToken(c)
  <1>1. ASSUME UNCHANGED tokens PROVE TokensKept BY <1>1, TokensUnchanged
  <1>2. ASSUME NEW c \in Call, Begins(c) \/ Sends(c) \/ Enters(c) PROVE UNCHANGED tokens
    BY <1>2 DEF Begins, Sends, Enters, BeginRequestCode, BeginVerify, BeginWithToken,
                BeginModeration, Begin, CountRequest, ExpireCounter, ForgetCode, SaveCode, ReadCode,
                CheckRegistration, CheckLogin, WrongCode, AcceptCode, Welcome, InsertUser
  <1>3. ASSUME NEW c \in Call, Exchanges(c) PROVE TokensKept \/ AddToken(c)
    <2>1. CASE LoadToken(c) BY <1>1, <2>1, RootForks DEF LoadToken
    <2>2. CASE RevokeToken(c)
      <3>1. Exchanging(calls[c]) /\ calls[c] \in CallType
        BY <2>2, CallFields, AtStep DEF RevokeToken, Running, At
      <3> QED BY <2>2, <3>1, OneEnds DEF RevokeToken, Exchanging, CallType
    <2>3. CASE LoadLogout(c) \/ CheckUser(c) BY <1>1, <2>3 DEF LoadLogout, CheckUser
    <2> QED BY <1>3, <2>1, <2>2, <2>3 DEF Exchanges
  <1>4. ASSUME NEW c \in Call, Moderates(c) PROVE TokensKept
    <2>1. CASE CommitModeration(c)
      <3>1. Moderating(calls[c]) /\ calls[c] \in CallType
        BY <2>1, CallFields, AtStep DEF CommitModeration, Running, At
      <3> QED BY <2>1, <3>1, TokensEnd DEF CommitModeration, Moderating, CallType
    <2> QED BY <1>1, <1>4, <2>1 DEF Moderates, CheckModeration, RevokeAll
  <1>5. ASSUME NEW c \in Call, Crash(c) PROVE TokensKept BY <1>1, <1>5, RootForks DEF Crash
  <1>6. Tick \/ DayPasses => TokensKept BY <1>1 DEF Tick, DayPasses
  <1>7. ASSUME NEW t \in Id, TokenExpires(t) PROVE TokensKept
    BY <1>7, OneEnds DEF TokenExpires, Live
  <1> QED BY <1>1, <1>2, <1>3, <1>4, <1>5, <1>6, <1>7, Steps

\* The users change by registration and moderation.
LEMMA UsersStep ==
  ASSUME AccessInv, Next
  PROVE  \/ users' = users
         \/ \E c \in Call, u \in User : InsertUser(c, u)
         \/ \E c \in Call : CommitModeration(c) /\ calls[c].user \in User
  <1>1. ASSUME NEW c \in Call, Begins(c) \/ Sends(c) PROVE UNCHANGED users
    BY <1>1 DEF Begins, Sends, BeginRequestCode, BeginVerify, BeginWithToken,
                BeginModeration, Begin, CountRequest, ExpireCounter, ForgetCode, SaveCode
  <1>2. ASSUME NEW c \in Call, Enters(c) PROVE UNCHANGED users \/ \E u \in User : InsertUser(c, u)
    BY <1>2 DEF Enters, ReadCode, CheckRegistration, CheckLogin, WrongCode, AcceptCode, Welcome
  <1>3. ASSUME NEW c \in Call, Exchanges(c) \/ Crash(c) PROVE UNCHANGED users
    BY <1>3 DEF Exchanges, LoadToken, LoadLogout, CheckUser, AddToken, RevokeToken, Crash
  <1>4. ASSUME NEW c \in Call, Moderates(c)
        PROVE  UNCHANGED users \/ (CommitModeration(c) /\ calls[c].user \in User)
    <2>1. CommitModeration(c) => calls[c].user \in User
      BY CallFields, AtStep DEF CommitModeration, Running, At, Moderating, CallType
    <2> QED BY <1>4, <2>1 DEF Moderates, CheckModeration, RevokeAll
  <1>5. ASSUME Tick \/ DayPasses \/ \E t \in Id : TokenExpires(t) PROVE UNCHANGED users
    BY <1>5 DEF Tick, DayPasses, TokenExpires
  <1> QED BY <1>1, <1>2, <1>3, <1>4, <1>5, Steps

\* A phone has one holder, for registration takes it only when nobody has it.
UsersOK ==
    /\ users \in [User -> UserRow \cup {None}]
    /\ \A u, v \in User :
         Registered(u) /\ Registered(v) /\ users[u].phone /\ users[v].phone => u = v

\* The users table after a step: rows stay, and one holds the phone.
LEMMA UsersTyped ==
  ASSUME AccessInv, Next
  PROVE  UsersOK' /\ \A u \in User : Registered(u) => Registered(u)'
  <1>1. UsersOK BY DEF UsersOK, AccessInv, TypeOK
  <1>2. CASE users' = users BY <1>1, <1>2 DEF UsersOK, Registered
  <1>3. ASSUME NEW c \in Call, NEW u \in User, InsertUser(c, u)
        PROVE  UsersOK' /\ \A v \in User : Registered(v) => Registered(v)'
    <2>1. CASE Holders # {} BY <1>1, <1>3, <2>1 DEF InsertUser, UsersOK, Registered
    <2>2. CASE Holders = {}
      <3>1. \A v \in User : ~ (Registered(v) /\ users[v].phone) BY <2>2 DEF Holders
      <3>2. /\ users' \in [User -> UserRow \cup {None}]
            /\ \A v \in User : Registered(v) => Registered(v)'
            /\ \A v \in User : v # u => users'[v] = users[v]
        BY <1>3, UsersEdited
      <3> QED BY <3>1, <3>2 DEF UsersOK, Registered
    <2> QED BY <2>1, <2>2
  <1>4. ASSUME NEW c \in Call, CommitModeration(c), calls[c].user \in User
        PROVE  UsersOK' /\ \A v \in User : Registered(v) => Registered(v)'
    <2>1. PICK u \in User : u = calls[c].user BY <1>4
    <2>2. /\ users' \in [User -> UserRow \cup {None}]
          /\ \A v \in User : Registered(v) => Registered(v)'
          /\ \A v \in User : v # u => users'[v] = users[v]
          /\ Registered(u) /\ users'[u] = NewRow(Kind(c), users[u])
      BY <1>4, <2>1, UsersEdited
    <2>3. users'[u].phone => users[u].phone
      <3>1. Kind(c) \in {"block", "unblock", "delete"} /\ users[u] \in UserRow
        BY <1>1, <1>4, <2>2, CallFields, AtStep
           DEF CommitModeration, Running, At, Moderating, Kind, UsersOK, Registered
      <3>2. \A x \in UserRow : /\ NewRow("block", x).phone = x.phone
                               /\ NewRow("unblock", x).phone = x.phone
                               /\ NewRow("delete", x).phone = FALSE
        BY DEF NewRow, UserRow
      <3> QED BY <2>2, <3>1, <3>2
    <2> QED BY <1>1, <2>2, <2>3 DEF UsersOK, Registered
  <1> QED BY <1>2, <1>3, <1>4, UsersStep

\* The refresh_tokens table after a step: a token has its user.
LEMMA TokensTyped ==
  ASSUME AccessInv, Next
  PROVE  /\ tokens' \in [Id -> TokenRow \cup {None}]
         /\ \A t \in Id : tokens'[t] # None => Registered(tokens[t].user)'
  <1>1. \A t \in Id : tokens[t] # None => Registered(tokens[t].user) /\ tokens[t].user \in User
    BY DEF AccessInv, TypeOK, TokenRow
  <1>2. \A u \in User : Registered(u) => Registered(u)' BY UsersTyped
  <1>3. CASE TokensKept
    <2>1. ASSUME NEW t \in Id, tokens'[t] # None PROVE Registered(tokens[t].user)'
      <3>1. tokens'[t].user = tokens[t].user /\ tokens[t] # None BY <1>3, <2>1 DEF TokensKept
      <3> QED BY <1>1, <1>2, <3>1 DEF Registered
    <2> QED BY <1>3, <2>1 DEF TokensKept
  <1>4. ASSUME NEW c \in Call, AddToken(c)
        PROVE  /\ tokens' \in [Id -> TokenRow \cup {None}]
               /\ \A t \in Id : tokens'[t] # None => Registered(tokens[t].user)'
    <2>1. ASSUME NEW t \in Id, tokens'[t] # None PROVE Registered(tokens[t].user)'
      <3>1. CASE t = calls[c].id
        <4>1. tokens'[t].user = calls[c].user /\ Registered(calls[c].user)
              /\ calls[c].user \in User
          BY <1>4, <3>1, TokenAdded
        <4> QED BY <1>2, <4>1 DEF Registered
      <3>2. CASE t # calls[c].id
        <4>1. tokens'[t] = tokens[t] BY <1>4, <3>2, TokenAdded
        <4> QED BY <1>1, <1>2, <2>1, <4>1 DEF Registered
      <3> QED BY <3>1, <3>2
    <2> QED BY <1>4, <2>1, TokenAdded
  <1> QED BY <1>3, <1>4, TokensStep

\* What becomes of the record in Redis and of the histories.
LEMMA CodesTyped ==
  ASSUME AccessInv, Next
  PROVE  /\ otp' \in Otp \cup {None}
         /\ codes' \in [Id -> Code \cup {None}]
         /\ \A n \in Id : codes[n] # None => codes'[n] # None
         /\ otp' # None => codes'[otp'.code] # None
  <1> DEFINE Goal == /\ otp' \in Otp \cup {None}
                     /\ codes' \in [Id -> Code \cup {None}]
                     /\ \A n \in Id : codes[n] # None => codes'[n] # None
                     /\ otp' # None => codes'[otp'.code] # None
  <1>1. /\ otp \in Otp \cup {None} /\ codes \in [Id -> Code \cup {None}]
        /\ otp # None => otp.code \in Id /\ codes[otp.code] # None
    BY DEF AccessInv, TypeOK, Otp
  <1>2. CASE UNCHANGED <<otp, codes>> BY <1>1, <1>2
  <1>3. ASSUME NEW c \in Call, Begins(c) PROVE UNCHANGED <<otp, codes>>
    BY <1>3 DEF Begins, BeginRequestCode, BeginVerify, BeginWithToken, BeginModeration, Begin
  <1>4. ASSUME NEW c \in Call, SaveCode(c) PROVE Goal
    <2>1. calls[c].id \in Id BY CallFields DEF CallType
    <2>2. PICK x : x = NewCode OBVIOUS
    <2>3. x \in Code /\ x # None
      <3>1. x \in Code BY <2>2 DEF Code, NewCode
      <3> QED BY <3>1, Values
    <2>4. codes' = [codes EXCEPT ![calls[c].id] = x] BY <1>4, <2>2 DEF SaveCode
    <2>5. otp' \in Otp /\ otp'.code = calls[c].id
      BY <1>4, <2>1, AccessAssumption DEF SaveCode, Otp
    <2>6. /\ codes' \in [Id -> Code \cup {None}] /\ codes'[calls[c].id] # None
          /\ \A n \in Id : codes[n] # None => codes'[n] # None
      BY <1>1, <2>1, <2>3, <2>4
    <2> QED BY <2>5, <2>6
  <1>5. ASSUME NEW c \in Call, Sends(c) PROVE Goal
    <2>1. CASE SaveCode(c) BY <1>4, <2>1
    <2>2. CASE ForgetCode(c) BY <1>1, <2>2 DEF ForgetCode
    <2>3. CASE ~ SaveCode(c) /\ ~ ForgetCode(c)
      BY <1>2, <1>5, <2>3 DEF Sends, CountRequest, ExpireCounter
    <2> QED BY <2>1, <2>2, <2>3
  <1>6. ASSUME NEW c \in Call, NEW yes \in BOOLEAN, ReadCode(c, yes) PROVE Goal
    <2>1. otp' = otp BY <1>6 DEF ReadCode
    <2> QED BY <1>1, <1>6, <2>1, CodesEdited
  <1>7. ASSUME NEW c \in Call, WrongCode(c) PROVE Goal
    <2>1. /\ calls[c].code \in Id /\ codes[calls[c].code] # None
          /\ calls[c].attempts \in 0..(MAX_ATTEMPTS - 1)
      BY <1>7, CallFields, AtStep, AccessAssumption
         DEF WrongCode, Running, At, Entering, CallType
    <2>2. PICK a : a = calls[c].attempts + 1 OBVIOUS
    <2>3. otp' = None \/ (/\ a < MAX_ATTEMPTS
                          /\ otp' = [code |-> calls[c].code, attempts |-> a, left |-> CodeTTL])
      BY <1>7, <2>1, <2>2, AccessAssumption DEF WrongCode
    <2>4. otp' = None \/ (otp' \in Otp /\ otp'.code = calls[c].code)
      BY <2>1, <2>2, <2>3, AccessAssumption DEF Otp
    <2> QED BY <1>7, <2>1, <2>4, CodesEdited
  <1>8. ASSUME NEW c \in Call, AcceptCode(c) PROVE Goal
    <2>1. otp' = None BY <1>8 DEF AcceptCode
    <2> QED BY <1>8, <2>1, CodesEdited
  <1>9. ASSUME NEW c \in Call, Enters(c) PROVE Goal
    <2>1. CASE \E yes \in BOOLEAN : ReadCode(c, yes) BY <1>6, <2>1
    <2>2. ASSUME NEW yes \in BOOLEAN, CheckRegistration(c, yes) \/ CheckLogin(c, yes)
          PROVE  UNCHANGED <<otp, codes>>
      BY <2>2 DEF CheckRegistration, CheckLogin
    <2>3. ASSUME Welcome(c) \/ \E u \in User : InsertUser(c, u) PROVE UNCHANGED <<otp, codes>>
      BY <2>3 DEF Welcome, InsertUser
    <2> QED BY <1>2, <1>7, <1>8, <1>9, <2>1, <2>2, <2>3 DEF Enters
  <1>10. ASSUME NEW c \in Call, Exchanges(c) \/ Moderates(c) \/ Crash(c)
         PROVE  UNCHANGED <<otp, codes>>
    BY <1>10 DEF Exchanges, LoadToken, LoadLogout, CheckUser, AddToken, RevokeToken, Moderates,
                 CheckModeration, RevokeAll, CommitModeration, Crash
  <1>11. CASE Tick
    <2>1. otp \in Otp BY <1>11, TickEdits
    <2>2. otp' = None \/ (otp' \in Otp /\ otp'.code = otp.code)
      BY <1>11, <2>1, AccessAssumption DEF Tick, Otp
    <2> QED BY <1>1, <1>11, <2>2, TickEdits DEF Tick
  <1>12. CASE DayPasses \/ \E t \in Id : TokenExpires(t)
    BY <1>2, <1>12 DEF DayPasses, TokenExpires
  <1> QED BY <1>2, <1>3, <1>5, <1>9, <1>10, <1>11, <1>12, Steps

\* Fewer calls that wait to be counted, and no more counted, are still counted.
LEMMA CountedAgain ==
  ASSUME AccessInv, Waiting' \subseteq Waiting, Count \in Nat, Count' \in Nat, Count' <= Count,
         requests' \in Nat, requests <= requests'
  PROVE  Counted'
  <1>1. IsFiniteSet(Waiting) /\ Cardinality(Waiting) + Count <= requests /\ requests \in Nat
    BY DEF AccessInv, Counted, TypeOK
  <1>2. IsFiniteSet(Waiting') /\ Cardinality(Waiting') <= Cardinality(Waiting)
    BY <1>1, FS_Subset
  <1>3. Cardinality(Waiting) \in Nat /\ Cardinality(Waiting') \in Nat
    BY <1>1, <1>2, FS_CardinalityType
  <1>4. Cardinality(Waiting') + Count' <= requests' BY <1>1, <1>2, <1>3
  <1> QED BY <1>2, <1>4 DEF Counted, Waiting

\* Who is counted has been waiting for it, and the count grows by one.
LEMMA CounterStep ==
  ASSUME AccessInv, Next
  PROVE  Counted' /\ counter' \in Counter \cup {None} /\ requests' \in 0..MaxRequests
  <1> DEFINE Goal == Counted' /\ counter' \in Counter \cup {None} /\ requests' \in 0..MaxRequests
  <1>1. /\ counter \in Counter \cup {None} /\ requests \in 0..MaxRequests
        /\ MaxRequests \in Nat
        /\ IsFiniteSet(Waiting) /\ Cardinality(Waiting) + Count <= requests
    BY AccessAssumption DEF AccessInv, TypeOK, Counted
  <1>2. Cardinality(Waiting) \in Nat /\ Count \in Nat
    BY <1>1, FS_CardinalityType DEF Count, Counter
  <1>3. ASSUME Waiting' \subseteq Waiting, UNCHANGED <<counter, requests>>
        PROVE  Goal
    BY <1>1, <1>2, <1>3, CountedAgain DEF Count
  <1>4. ASSUME NEW c \in Call, ActsOn(c)
        PROVE  /\ Waiting' \subseteq Waiting \cup {c}
               /\ calls'[c].pc # "count" => Waiting' \subseteq Waiting \ {c}
    BY <1>4 DEF ActsOn, SameCall, Waiting, At
  <1>5. ASSUME NEW c \in Call, Begins(c) PROVE Goal
    <2>1. Waiting' \subseteq Waiting \cup {c} BY <1>4, <1>5, OneActs
    <2>2. counter' = counter /\ requests' = requests + 1 /\ requests < MaxRequests /\ c \notin Waiting
      BY <1>5 DEF Begins, BeginRequestCode, BeginVerify, BeginWithToken, BeginModeration, Begin,
                  Waiting, At
    <2>3. IsFiniteSet(Waiting \cup {c}) /\ Cardinality(Waiting \cup {c}) = Cardinality(Waiting) + 1
      BY <1>1, <2>2, FS_AddElement
    <2>4. /\ IsFiniteSet(Waiting') /\ Cardinality(Waiting') <= Cardinality(Waiting) + 1
          /\ Cardinality(Waiting') \in Nat
      BY <2>1, <2>3, FS_Subset, FS_CardinalityType
    <2>5. Count' = Count BY <2>2 DEF Count
    <2> QED BY <1>1, <1>2, <2>2, <2>4, <2>5 DEF Counted, Waiting
  <1>6. ASSUME NEW c \in Call, NEW limit \in Limits, CountRequest(c, limit) PROVE Goal
    <2>1. Waiting' \subseteq Waiting \ {c}
      <3>1. Sends(c) BY <1>6 DEF Sends
      <3>2. calls'[c].pc # "count" BY <3>1, Gets
      <3> QED BY <1>4, <3>1, <3>2, OneActs
    <2>2. c \in Waiting BY <1>6 DEF CountRequest, Waiting
    <2>3. /\ IsFiniteSet(Waiting \ {c}) /\ Cardinality(Waiting \ {c}) = Cardinality(Waiting) - 1
      BY <1>1, <2>2, FS_RemoveElement
    <2>4. /\ IsFiniteSet(Waiting') /\ Cardinality(Waiting') <= Cardinality(Waiting) - 1
          /\ Cardinality(Waiting') \in Nat
      BY <2>1, <2>3, FS_Subset, FS_CardinalityType
    <2>5. Count + 1 \in 1..MaxRequests BY <1>1, <1>2, <2>4
    <2>6. requests' = requests BY <1>6 DEF CountRequest
    <2>7. CASE counter' = counter BY <1>3, <2>1, <2>6, <2>7
    <2>8. CASE counter' # counter
      <3>1. counter' = IF counter = None THEN [count |-> 1, expires |-> FALSE]
                       ELSE [counter EXCEPT !.count = counter.count + 1]
        BY <1>6, <2>8 DEF CountRequest
      <3>2. counter' \in Counter /\ counter'.count = Count + 1
        BY <1>1, <2>5, <3>1 DEF Counter, Count
      <3>3. Count' = Count + 1 BY <3>2, Values DEF Count
      <3> QED BY <1>1, <1>2, <2>4, <2>6, <3>2, <3>3 DEF Counted, Waiting
    <2> QED BY <2>7, <2>8
  <1>7. ASSUME NEW c \in Call, Sends(c) PROVE Goal
    <2>1. Waiting' \subseteq Waiting BY <1>4, <1>7, OneActs, Gets
    <2>2. ASSUME ExpireCounter(c) PROVE Goal
      <3>1. counter' \in Counter \cup {None} /\ Count' = Count
        <4>1. CASE counter = None BY <2>2, <4>1 DEF ExpireCounter, Count
        <4>2. CASE counter # None
          <5>1. counter' \in Counter /\ counter'.count = counter.count
            BY <1>1, <2>2, <4>2 DEF ExpireCounter, Counter
          <5> QED BY <4>2, <5>1, Values DEF Count
        <4> QED BY <4>1, <4>2
      <3> QED BY <1>1, <1>2, <2>1, <2>2, <3>1, CountedAgain DEF ExpireCounter
    <2>3. ForgetCode(c) \/ SaveCode(c) => Goal BY <1>3, <2>1 DEF ForgetCode, SaveCode
    <2> QED BY <1>6, <1>7, <2>2, <2>3 DEF Sends
  <1>8. ASSUME NEW c \in Call, Enters(c) \/ Exchanges(c) \/ Moderates(c) \/ Crash(c) PROVE Goal
    <2>1. UNCHANGED <<counter, requests>>
      BY <1>8 DEF Enters, ReadCode, CheckRegistration, CheckLogin, WrongCode, AcceptCode, Welcome,
                  InsertUser, Exchanges, LoadToken, LoadLogout, CheckUser, AddToken, RevokeToken,
                  Moderates, CheckModeration, RevokeAll, CommitModeration, Crash
    <2>2. calls'[c].pc # "count"
      <3>1. \A yes \in BOOLEAN : ReadCode(c, yes) => calls'[c].pc # "count"
        BY ReadGets
      <3> QED BY <1>8, <3>1, Gets DEF Enters, Exchanges, Moderates
    <2> QED BY <1>3, <1>4, <1>8, <2>1, <2>2, OneActs
  <1>9. CASE Tick \/ \E t \in Id : TokenExpires(t)
    BY <1>3, <1>9 DEF Tick, TokenExpires, Waiting, At
  <1>10. CASE DayPasses
    <2>1. Count' = 0 /\ Waiting' = Waiting BY <1>10 DEF DayPasses, Count, Waiting, At
    <2> QED BY <1>1, <1>2, <1>10, <2>1, CountedAgain DEF DayPasses
  <1> QED BY <1>5, <1>7, <1>8, <1>9, <1>10, Steps

\* Every step keeps the types.
LEMMA TypeStep ==
  ASSUME AccessInv, Next
  PROVE  TypeOK'
  BY CounterStep, CodesTyped, UsersTyped, TokensTyped DEF TypeOK, UsersOK, Registered

-----------------------------------------------------------------------------
(* The budget of a code. *)

\* The budget of ticks grows by one TTL with each wrong code.
LEMMA OneMore ==
  ASSUME NEW t \in Nat
  PROVE  /\ CodeTTL * (t + 1) \in Nat /\ CodeTTL * (t + 1 + 1) = CodeTTL * (t + 1) + CodeTTL
  BY AccessAssumption

\* The numbers of a history.
LEMMA CodeFields ==
  ASSUME AccessInv, NEW n \in Id, codes[n] # None
  PROVE  codes[n] \in Code /\ codes[n].tries \in Nat /\ codes[n].age \in Nat
         /\ codes[n].accepted \in Nat /\ codes[n].raced \in BOOLEAN
  BY DEF AccessInv, TypeOK, Code

\* A reader of a code is what AtStep says of it.
LEMMA Readers ==
  ASSUME AccessInv, NEW c \in Call, calls[c].pc \in {"wrong", "right"}
  PROVE  /\ calls[c].code \in Id /\ codes[calls[c].code] \in Code
         /\ calls[c].attempts \in 0..(MAX_ATTEMPTS - 1)
  <1>1. Running(c) /\ Entering(calls[c]) /\ calls[c] \in CallType
    BY CallFields, AtStep DEF Running, At
  <1> QED BY <1>1, CodeFields DEF Entering, CallType

\* Nobody starts to read, and nothing is put back.
LEMMA CodesQuiet ==
  ASSUME AccessInv, codes' = codes, otp' \in {otp, None},
         \A d \in Call : calls'[d].pc \in {"wrong", "right"} => SameCall(d)
  PROVE  CodesOK'
  <1> SUFFICES ASSUME NEW n \in Id, codes[n] # None, ~ codes[n].raced PROVE Tame(n)'
    BY DEF CodesOK
  <1>1. Tame(n) BY DEF AccessInv, CodesOK
  <1>2. \A d \in Call : Reads(d, n)' =>
          Reads(d, n) /\ calls'[d].attempts = calls[d].attempts
    BY DEF Reads, SameCall
  <1>3. InRedis(n)' => InRedis(n) /\ otp' = otp BY DEF InRedis
  <1> QED BY <1>1, <1>2, <1>3 DEF Tame

\* A new code has its whole budget.
LEMMA CodeSaved ==
  ASSUME AccessInv, NEW c \in Call, SaveCode(c)
  PROVE  CodesOK'
  <1>1. Coding(calls[c]) /\ calls[c].id \in Id
    BY CallFields, AtStep DEF SaveCode, Running, At, CallType
  <1>2. ActsOn(c) /\ calls'[c].pc \in {"idle", "expire", "forget", "save"}
    BY OneActs, Gets DEF Sends
  <1>3. \A n \in Id : n # calls[c].id => codes'[n] = codes[n] /\ ~ InRedis(n)'
    BY DEF SaveCode, AccessInv, TypeOK, InRedis
  <1>4. \A d \in Call, n \in Id : Reads(d, n)' =>
          Reads(d, n) /\ calls'[d].attempts = calls[d].attempts
    BY <1>2 DEF Reads, ActsOn, SameCall
  <1>5. ASSUME NEW n \in Id, codes'[n] # None, ~ codes'[n].raced PROVE Tame(n)'
    <2>1. CASE n = calls[c].id
      <3>1. \A d \in Call : ~ Reads(d, n)'
        <4>1. \A d \in Call : ~ Reads(d, n)
          BY <1>1, <2>1, Readers, Values DEF Reads, Coding
        <4> QED BY <1>4, <4>1
      <3>2. codes'[n] = NewCode BY <1>1, <2>1 DEF SaveCode, AccessInv, TypeOK
      <3>3. otp'.attempts = 0 /\ otp'.left = CodeTTL BY DEF SaveCode
      <3> QED BY <3>1, <3>2, <3>3, AccessAssumption DEF Tame, NewCode
    <2>2. CASE n # calls[c].id
      <3>1. codes'[n] = codes[n] /\ ~ InRedis(n)' BY <1>3, <2>2
      <3>2. Tame(n) BY <1>5, <3>1 DEF AccessInv, CodesOK
      <3> QED BY <1>4, <3>1, <3>2 DEF Tame
    <2> QED BY <2>1, <2>2
  <1> QED BY <1>5 DEF CodesOK

\* Who reads a code that another holds marks it; the first holds what is there.
LEMMA CodeRead ==
  ASSUME AccessInv, NEW c \in Call, NEW yes \in BOOLEAN, ReadCode(c, yes), otp # None
  PROVE  CodesOK'
  <1>1. /\ otp \in Otp /\ codes[otp.code] \in Code /\ otp.code \in Id /\ otp' = otp
        /\ codes \in [Id -> Code \cup {None}]
    BY CodeFields DEF AccessInv, TypeOK, Otp, ReadCode
  <1>2. ActsOn(c) BY OneActs DEF Enters
  <1>3. calls'[c].code = otp.code /\ calls'[c].attempts = otp.attempts BY ReadGets
  <1>4. PICK m : m = otp.code BY <1>1
  <1>5. PICK x : x = [codes[m] EXCEPT !.raced = @ \/ Racing(c, m)] OBVIOUS
  <1>6. codes' = [codes EXCEPT ![m] = x] BY <1>4, <1>5 DEF ReadCode
  <1>7. /\ x.accepted = codes[m].accepted /\ x.tries = codes[m].tries /\ x.age = codes[m].age
        /\ x.raced <=> codes[m].raced \/ Racing(c, m)
    <2>1. PICK r \in BOOLEAN : r <=> codes[m].raced \/ Racing(c, m) OBVIOUS
    <2>2. x = [codes[m] EXCEPT !.raced = r]
      BY <1>1, <1>4, <1>5, <2>1 DEF Code, Racing
    <2> QED BY <1>1, <1>4, <2>1, <2>2 DEF Code
  <1>8. ASSUME NEW n \in Id, codes'[n] # None, ~ codes'[n].raced PROVE Tame(n)'
    <2>1. CASE n # m
      <3>1. codes'[n] = codes[n] BY <1>1, <1>6, <2>1
      <3>2. Tame(n) BY <1>8, <3>1 DEF AccessInv, CodesOK
      <3>3. \A d \in Call : Reads(d, n)' =>
              Reads(d, n) /\ calls'[d].attempts = calls[d].attempts
        BY <1>2, <1>3, <1>4, <2>1 DEF Reads, ActsOn, SameCall
      <3> QED BY <1>1, <3>1, <3>2, <3>3 DEF Tame, InRedis
    <2>2. CASE n = m
      <3>1. codes'[n] = x BY <1>1, <1>4, <1>6, <2>2
      <3>2. ~ codes[n].raced /\ ~ Racing(c, n) /\ codes[n] # None
        BY <1>1, <1>4, <1>7, <1>8, <2>2, <3>1, Values
      <3>3. Tame(n) /\ InRedis(n) BY <1>4, <2>2, <3>2 DEF AccessInv, CodesOK, InRedis
      <3>4. \A d \in Call : Reads(d, n)' => d = c
        BY <1>2, <3>2 DEF Racing, Reads, ActsOn, SameCall
      <3>5. codes[n].age <= CodeTTL * (codes[n].tries + 1)
        <4>1. codes[n].tries \in Nat /\ codes[n].age \in Nat /\ otp.left \in Nat
          BY <1>1, <3>2, CodeFields, AccessAssumption DEF Otp
        <4>2. CodeTTL * (codes[n].tries + 1) \in Nat BY <4>1, OneMore
        <4> QED BY <3>3, <4>1, <4>2 DEF Tame
      <3> QED BY <1>1, <1>3, <1>7, <2>2, <3>1, <3>3, <3>4, <3>5 DEF Tame, InRedis
    <2> QED BY <2>1, <2>2
  <1> QED BY <1>8 DEF CodesOK

\* A wrong code is counted on what was read, and gives the code a whole TTL.
LEMMA CodeTried ==
  ASSUME AccessInv, NEW c \in Call, WrongCode(c)
  PROVE  CodesOK'
  <1>1. PICK m : m = calls[c].code OBVIOUS
  <1>2. /\ m \in Id /\ codes[m] \in Code /\ calls[c].attempts \in 0..(MAX_ATTEMPTS - 1)
        /\ codes \in [Id -> Code \cup {None}] /\ Reads(c, m)
    BY <1>1, Readers DEF AccessInv, TypeOK, WrongCode, At, Reads
  <1>3. /\ ActsOn(c) /\ calls'[c].pc = "idle"
    BY OneActs, Gets DEF Enters
  <1>4. \A d \in Call, n \in Id : Reads(d, n)' =>
          d # c /\ Reads(d, n) /\ calls'[d].attempts = calls[d].attempts
    BY <1>3 DEF Reads, ActsOn, SameCall
  <1>5. PICK x : x = [codes[m] EXCEPT !.tries = @ + 1] OBVIOUS
  <1>6. /\ codes' = [codes EXCEPT ![m] = x] /\ x.tries = codes[m].tries + 1
        /\ x.accepted = codes[m].accepted /\ x.age = codes[m].age /\ x.raced = codes[m].raced
    BY <1>1, <1>2, <1>5 DEF WrongCode, Code
  <1>7. \/ otp' = None
        \/ /\ calls[c].attempts + 1 < MAX_ATTEMPTS
           /\ otp' = [code |-> m, attempts |-> calls[c].attempts + 1, left |-> CodeTTL]
    BY <1>1, <1>2, AccessAssumption DEF WrongCode
  <1>8. ASSUME NEW n \in Id, codes'[n] # None, ~ codes'[n].raced PROVE Tame(n)'
    <2>1. CASE n # m
      <3>1. codes'[n] = codes[n] BY <1>2, <1>6, <2>1
      <3>2. Tame(n) BY <1>8, <3>1 DEF AccessInv, CodesOK
      <3>3. ~ InRedis(n)' BY <1>7, <2>1 DEF InRedis
      <3> QED BY <1>4, <3>1, <3>2, <3>3 DEF Tame
    <2>2. CASE n = m
      <3>1. codes'[n] = x BY <1>2, <1>6, <2>2
      <3>2. codes[n] # None /\ ~ codes[n].raced BY <1>2, <1>6, <1>8, <2>2, <3>1, Values
      <3>3. Tame(n) BY <3>2 DEF AccessInv, CodesOK
      <3>4. \A d \in Call : ~ Reads(d, n)' BY <1>2, <1>4, <2>2, <3>3 DEF Tame
      <3>5. /\ calls[c].attempts = codes[n].tries /\ codes[n].accepted = 0
            /\ codes[n].age <= CodeTTL * (codes[n].tries + 1)
        BY <1>2, <2>2, <3>3 DEF Tame
      <3>6. codes[n].tries \in Nat /\ codes[n].age \in Nat /\ CodeTTL \in Nat
        BY <3>2, CodeFields, AccessAssumption
      <3>7. x.tries <= MAX_ATTEMPTS BY <1>2, <1>6, <2>2, <3>5, <3>6, AccessAssumption
      <3>8. codes[n].age + CodeTTL <= CodeTTL * (x.tries + 1)
        <4>1. /\ CodeTTL * (codes[n].tries + 1) \in Nat
              /\ CodeTTL * (codes[n].tries + 1 + 1) = CodeTTL * (codes[n].tries + 1) + CodeTTL
          BY <3>6, OneMore
        <4>2. x.tries = codes[n].tries + 1 BY <1>6, <2>2
        <4> QED BY <3>5, <3>6, <4>1, <4>2
      <3>9. InRedis(n)' => otp'.attempts = x.tries /\ otp'.left = CodeTTL
        BY <1>6, <1>7, <2>2, <3>5 DEF InRedis
      <3> QED BY <1>6, <2>2, <3>1, <3>4, <3>5, <3>7, <3>8, <3>9 DEF Tame
    <2> QED BY <2>1, <2>2
  <1> QED BY <1>8 DEF CodesOK

\* The code that is accepted is gone, for its only reader has finished.
LEMMA CodeAccepted ==
  ASSUME AccessInv, NEW c \in Call, AcceptCode(c)
  PROVE  CodesOK'
  <1>1. PICK m : m = calls[c].code OBVIOUS
  <1>2. /\ m \in Id /\ codes[m] \in Code
        /\ codes \in [Id -> Code \cup {None}] /\ Reads(c, m)
    BY <1>1, Readers DEF AccessInv, TypeOK, AcceptCode, At, Reads
  <1>3. /\ ActsOn(c) /\ calls'[c].pc = "check"
    BY OneActs, Gets DEF Enters
  <1>4. \A d \in Call, n \in Id : Reads(d, n)' =>
          d # c /\ Reads(d, n) /\ calls'[d].attempts = calls[d].attempts
    BY <1>3 DEF Reads, ActsOn, SameCall
  <1>5. PICK x : x = [codes[m] EXCEPT !.accepted = @ + 1] OBVIOUS
  <1>6. /\ codes' = [codes EXCEPT ![m] = x] /\ x.accepted = codes[m].accepted + 1
        /\ x.tries = codes[m].tries /\ x.age = codes[m].age /\ x.raced = codes[m].raced
    BY <1>1, <1>2, <1>5 DEF AcceptCode, Code
  <1>7. \A n \in Id : ~ InRedis(n)' BY DEF AcceptCode, InRedis
  <1>8. ASSUME NEW n \in Id, codes'[n] # None, ~ codes'[n].raced PROVE Tame(n)'
    <2>1. CASE n # m
      <3>1. codes'[n] = codes[n] BY <1>2, <1>6, <2>1
      <3>2. Tame(n) BY <1>8, <3>1 DEF AccessInv, CodesOK
      <3> QED BY <1>4, <1>7, <3>1, <3>2 DEF Tame
    <2>2. CASE n = m
      <3>1. codes'[n] = x BY <1>2, <1>6, <2>2
      <3>2. codes[n] # None /\ ~ codes[n].raced BY <1>2, <1>6, <1>8, <2>2, <3>1, Values
      <3>3. Tame(n) BY <3>2 DEF AccessInv, CodesOK
      <3>4. \A d \in Call : ~ Reads(d, n)' BY <1>2, <1>4, <2>2, <3>3 DEF Tame
      <3>5. codes[n].accepted = 0 BY <1>2, <2>2, <3>3 DEF Tame
      <3> QED BY <1>6, <1>7, <2>2, <3>1, <3>3, <3>4, <3>5 DEF Tame
    <2> QED BY <2>1, <2>2
  <1> QED BY <1>8 DEF CodesOK

\* A tick takes from the TTL what it adds to the age.
LEMMA CodeAges ==
  ASSUME AccessInv, Tick
  PROVE  CodesOK'
  <1>1. otp \in Otp /\ codes[otp.code] \in Code /\ codes \in [Id -> Code \cup {None}]
    BY TickEdits DEF AccessInv, TypeOK
  <1>2. PICK m : m = otp.code OBVIOUS
  <1>3. PICK x : x = [codes[m] EXCEPT !.age = @ + 1] OBVIOUS
  <1>4. /\ codes' = [codes EXCEPT ![m] = x] /\ x.age = codes[m].age + 1 /\ m \in Id
        /\ x.tries = codes[m].tries /\ x.accepted = codes[m].accepted /\ x.raced = codes[m].raced
    BY <1>1, <1>2, <1>3, TickEdits DEF Code, Otp
  <1>5. calls' = calls BY DEF Tick
  <1>6. otp' = None \/ (/\ otp'.code = m /\ otp'.attempts = otp.attempts
                        /\ otp'.left = otp.left - 1)
    BY <1>1, <1>2 DEF Tick, Otp
  <1>7. ASSUME NEW n \in Id, codes'[n] # None, ~ codes'[n].raced PROVE Tame(n)'
    <2>1. CASE n # m
      <3>1. codes'[n] = codes[n] BY <1>1, <1>4, <2>1
      <3>2. Tame(n) BY <1>7, <3>1 DEF AccessInv, CodesOK
      <3>3. ~ InRedis(n)' BY <1>6, <2>1 DEF InRedis
      <3> QED BY <1>5, <3>1, <3>2, <3>3 DEF Tame, Reads
    <2>2. CASE n = m
      <3>1. codes'[n] = x BY <1>1, <1>4, <2>2
      <3>2. codes[n] # None /\ ~ codes[n].raced BY <1>1, <1>2, <1>4, <1>7, <2>2, <3>1, Values
      <3>3. Tame(n) /\ InRedis(n)
        BY <1>1, <1>2, <2>2, <3>2, Values DEF AccessInv, CodesOK, InRedis
      <3>4. /\ otp.attempts = codes[n].tries /\ codes[n].accepted = 0
            /\ codes[n].age + otp.left <= CodeTTL * (codes[n].tries + 1)
        BY <3>3 DEF Tame
      <3>5. codes[n].age \in Nat /\ otp.left \in 1..CodeTTL /\ CodeTTL \in Nat
            /\ codes[n].tries \in Nat
        BY <1>1, <3>2, CodeFields, AccessAssumption DEF Otp
      <3>6. PICK budget \in Nat : budget = CodeTTL * (codes[n].tries + 1) BY <3>5, OneMore
      <3>7. x.age <= budget /\ x.age + (otp.left - 1) <= budget
        BY <1>4, <2>2, <3>4, <3>5, <3>6
      <3>8. InRedis(n)' => otp'.attempts = codes[n].tries /\ otp'.left = otp.left - 1
        BY <1>6, <3>4 DEF InRedis
      <3>9. \A d \in Call : Reads(d, n)' => Reads(d, n) /\ calls'[d].attempts = calls[d].attempts
        BY <1>5 DEF Reads
      <3> QED BY <1>4, <2>2, <3>1, <3>3, <3>4, <3>6, <3>7, <3>8, <3>9 DEF Tame
    <2> QED BY <2>1, <2>2
  <1> QED BY <1>7 DEF CodesOK

\* Every step keeps the histories of the codes that are not raced.
LEMMA CodesStep ==
  ASSUME AccessInv, Next
  PROVE  CodesOK'
  <1>1. ASSUME NEW c \in Call, ActsOn(c), calls'[c].pc \notin {"wrong", "right"},
               codes' = codes, otp' \in {otp, None}
        PROVE  CodesOK'
    BY <1>1, CodesQuiet DEF ActsOn
  <1>2. ASSUME NEW c \in Call, Begins(c) \/ Exchanges(c) \/ Moderates(c) \/ Crash(c)
        PROVE  CodesOK'
    <2>1. UNCHANGED <<otp, codes>>
      BY <1>2 DEF Begins, BeginRequestCode, BeginVerify, BeginWithToken, BeginModeration, Begin,
                  Exchanges, LoadToken, LoadLogout, CheckUser, AddToken, RevokeToken,
                  Moderates, CheckModeration, RevokeAll, CommitModeration, Crash
    <2>2. calls'[c].pc \notin {"wrong", "right"} BY <1>2, Gets DEF Exchanges, Moderates
    <2> QED BY <1>1, <1>2, <2>1, <2>2, OneActs
  <1>3. ASSUME NEW c \in Call, Sends(c) PROVE CodesOK'
    <2>1. CASE SaveCode(c) BY <2>1, CodeSaved
    <2>2. CASE ~ SaveCode(c)
      <3>1. codes' = codes /\ otp' \in {otp, None}
        BY <1>3, <2>2 DEF Sends, CountRequest, ExpireCounter, ForgetCode
      <3>2. calls'[c].pc \notin {"wrong", "right"} BY <1>3, Gets
      <3> QED BY <1>1, <1>3, <3>1, <3>2, OneActs
    <2> QED BY <2>1, <2>2
  <1>4. ASSUME NEW c \in Call, Enters(c) PROVE CodesOK'
    <2>1. ASSUME NEW yes \in BOOLEAN, ReadCode(c, yes) PROVE CodesOK'
      <3>1. CASE otp # None BY <2>1, <3>1, CodeRead
      <3>2. CASE otp = None
        <4>1. codes' = codes /\ otp' = otp BY <2>1, <3>2 DEF ReadCode
        <4>2. calls'[c].pc \notin {"wrong", "right"} BY <2>1, <3>2, ReadGets
        <4> QED BY <1>1, <1>4, <4>1, <4>2, OneActs
      <3> QED BY <3>1, <3>2
    <2>2. ASSUME \/ \E yes \in BOOLEAN : CheckRegistration(c, yes) \/ CheckLogin(c, yes)
                 \/ Welcome(c)
                 \/ \E u \in User : InsertUser(c, u)
          PROVE  CodesOK'
      <3>1. codes' = codes /\ otp' = otp
        BY <2>2 DEF CheckRegistration, CheckLogin, Welcome, InsertUser
      <3>2. calls'[c].pc \notin {"wrong", "right"} BY <2>2, Gets
      <3> QED BY <1>1, <1>4, <3>1, <3>2, OneActs
    <2> QED BY <1>4, <2>1, <2>2, CodeTried, CodeAccepted DEF Enters
  <1>5. DayPasses \/ (\E t \in Id : TokenExpires(t)) => CodesOK'
    BY CodesQuiet DEF DayPasses, TokenExpires, SameCall
  <1> QED BY <1>2, <1>3, <1>4, <1>5, CodeAges, Steps

-----------------------------------------------------------------------------
(* Accounts. *)

\* The parts of what the invariant says of accounts.
LEMMA AccountParts ==
  ASSUME AccessInv
  PROVE  /\ \A t \in Id : Live(t) /\ users[tokens[t].user].status # "active" => tokens[t].late
         /\ \A d \in Call : At(d, "commit") /\ Kind(d) \in {"block", "delete"} =>
              \A t \in Id : Live(t) /\ tokens[t].user = calls[d].user => MayStay(calls[d], t)
         /\ \A c \in Call : calls[c].pc \in {"welcome", "token"} /\ ~ calls[c].late =>
              users[calls[c].user].status = "active"
  BY DEF AccessInv, AccountsOK, RevokedWithAccount

\* No user and no new token: whoever comes to commit has found what there is,
\* and whoever comes to get a token is active.
LEMMA AccountsQuiet ==
  ASSUME AccessInv, TokensKept, users' = users,
         \A d \in Call : calls'[d].pc = "commit" /\ calls'[d].kind \in {"block", "delete"} =>
           SameCall(d) \/ calls'[d].found = Theirs(calls'[d].user),
         \A d \in Call : calls'[d].pc \in {"welcome", "token"} =>
           SameCall(d) \/ users[calls'[d].user].status = "active"
  PROVE  AccountsOK'
  <1>1. \A t \in Id : Live(t)' =>
          /\ Live(t) /\ tokens'[t].user = tokens[t].user /\ tokens'[t].late = tokens[t].late
    BY DEF TokensKept, Live
  <1>2. RevokedWithAccount' BY <1>1, AccountParts DEF RevokedWithAccount
  <1>3. ASSUME NEW d \in Call, calls'[d].pc = "commit", calls'[d].kind \in {"block", "delete"},
               NEW t \in Id, Live(t)', tokens'[t].user = calls'[d].user
        PROVE  t \in calls'[d].found \/ tokens'[t].late
    <2>1. CASE SameCall(d)
      <3>1. At(d, "commit") /\ Kind(d) \in {"block", "delete"} /\ tokens[t].user = calls[d].user
        BY <1>1, <1>3, <2>1 DEF SameCall, At, Kind
      <3>2. MayStay(calls[d], t) BY <1>1, <1>3, <3>1, AccountParts
      <3> QED BY <1>1, <1>3, <2>1, <3>2 DEF MayStay, SameCall
    <2>2. CASE calls'[d].found = Theirs(calls'[d].user)
      BY <1>1, <1>3, <2>2 DEF Theirs, Live
    <2> QED BY <1>3, <2>1, <2>2
  <1>4. ASSUME NEW d \in Call, calls'[d].pc \in {"welcome", "token"}, ~ calls'[d].late
        PROVE  users'[calls'[d].user].status = "active"
    BY <1>4, AccountParts DEF SameCall
  <1> QED BY <1>2, <1>3, <1>4 DEF AccountsOK, At, Kind, MayStay

\* Who registers is active, and was nobody's account before.
LEMMA AccountMade ==
  ASSUME AccessInv, NEW c \in Call, NEW u \in User, InsertUser(c, u), Holders = {}
  PROVE  AccountsOK'
  <1>1. /\ ActsOn(c) /\ calls'[c].pc \in {"idle", "welcome"} BY OneActs, Gets DEF Enters
  <1>2. \A v \in User : v # u => users'[v] = users[v] BY UsersEdited
  <1>3. users'[u].status = "active" /\ ~ Registered(u)
    <2>1. users'[u] = [status |-> "active", phone |-> TRUE] BY UsersEdited
    <2> QED BY <2>1 DEF InsertUser
  <1>4. calls'[c].pc = "welcome" => calls'[c].user = u
    <2>1. PICK y : y = [calls[c] EXCEPT !.pc = "welcome", !.user = u] OBVIOUS
    <2>2. calls'[c] = y BY <2>1, CallTypes DEF InsertUser, Become
    <2> QED BY <2>1, <2>2, CallTypes DEF CallType
  <1>5. tokens' = tokens BY DEF InsertUser
  <1>6. \A t \in Id : Live(t) => /\ tokens[t].user \in User /\ Registered(tokens[t].user)
                                 /\ users'[tokens[t].user] = users[tokens[t].user]
    BY <1>2, <1>3 DEF AccessInv, TypeOK, Live, TokenRow
  <1>7. RevokedWithAccount'
    BY <1>5, <1>6, AccountParts DEF RevokedWithAccount, Live
  <1>8. ASSUME NEW d \in Call, calls'[d].pc = "commit", calls'[d].kind \in {"block", "delete"},
               NEW t \in Id, Live(t)', tokens'[t].user = calls'[d].user
        PROVE  t \in calls'[d].found \/ tokens'[t].late
    <2>1. d # c /\ SameCall(d) BY <1>1, <1>8 DEF ActsOn
    <2>2. MayStay(calls[d], t)
      BY <1>5, <1>8, <2>1, AccountParts DEF SameCall, At, Kind, Live
    <2> QED BY <1>5, <2>1, <2>2 DEF MayStay, SameCall
  <1>9. ASSUME NEW d \in Call, calls'[d].pc \in {"welcome", "token"}, ~ calls'[d].late
        PROVE  users'[calls'[d].user].status = "active"
    <2>1. CASE d = c BY <1>1, <1>3, <1>4, <1>9, <2>1
    <2>2. CASE d # c
      <3>1. SameCall(d) /\ calls[d].pc \in {"welcome", "token"} /\ ~ calls[d].late
        BY <1>1, <1>9, <2>2 DEF ActsOn, SameCall
      <3>2. users[calls[d].user].status = "active" BY <3>1, AccountParts
      <3>3. calls[d].user \in User /\ Registered(calls[d].user)
        BY <3>1, CallFields, AtStep DEF Running, At, Entering, Exchanging, CallType
      <3> QED BY <1>2, <1>3, <3>1, <3>2, <3>3 DEF SameCall
    <2> QED BY <2>1, <2>2
  <1> QED BY <1>7, <1>8, <1>9 DEF AccountsOK, At, Kind, MayStay

\* A token that is added while its user is being closed is marked.
LEMMA AccountEntered ==
  ASSUME AccessInv, NEW c \in Call, AddToken(c)
  PROVE  AccountsOK'
  <1>1. ActsOn(c) /\ calls'[c].pc \in {"idle", "revoke"} BY OneActs, Gets DEF Exchanges
  <1>2. /\ calls[c].id \in Id /\ tokens'[calls[c].id] = NewToken(c)
        /\ NewToken(c).user = calls[c].user
        /\ calls[c].late \/ Closing(calls[c].user) => NewToken(c).late
        /\ \A t \in Id : t # calls[c].id => tokens'[t] = tokens[t]
    BY TokenAdded
  <1>3. users' = users BY DEF AddToken
  <1>4. \A t \in Id : t # calls[c].id /\ Live(t)' => Live(t) /\ tokens'[t] = tokens[t]
    BY <1>2 DEF Live
  <1>5. \A d \in Call : calls'[d].pc \in {"commit", "welcome", "token"} => SameCall(d)
    BY <1>1 DEF ActsOn
  <1>6. ~ calls[c].late => users[calls[c].user].status = "active"
    BY AccountParts DEF AddToken, At
  <1>7. RevokedWithAccount'
    BY <1>2, <1>3, <1>4, <1>6, AccountParts DEF RevokedWithAccount
  <1>8. ASSUME NEW d \in Call, calls'[d].pc = "commit", calls'[d].kind \in {"block", "delete"},
               NEW t \in Id, Live(t)', tokens'[t].user = calls'[d].user
        PROVE  t \in calls'[d].found \/ tokens'[t].late
    <2>1. /\ SameCall(d) /\ At(d, "commit") /\ Kind(d) \in {"block", "delete"}
          /\ calls[d].user = tokens'[t].user
      BY <1>5, <1>8 DEF SameCall, At, Kind
    <2>2. CASE t = calls[c].id
      <3>1. Closing(calls[c].user) BY <1>2, <2>1, <2>2 DEF Closing
      <3> QED BY <1>2, <2>2, <3>1
    <2>3. CASE t # calls[c].id
      <3>1. MayStay(calls[d], t) BY <1>4, <1>8, <2>1, <2>3, AccountParts
      <3> QED BY <1>4, <1>8, <2>1, <2>3, <3>1 DEF MayStay, SameCall
    <2> QED BY <2>2, <2>3
  <1>9. ASSUME NEW d \in Call, calls'[d].pc \in {"welcome", "token"}, ~ calls'[d].late
        PROVE  users'[calls'[d].user].status = "active"
    BY <1>3, <1>5, <1>9, AccountParts DEF SameCall
  <1> QED BY <1>7, <1>8, <1>9 DEF AccountsOK, At, Kind, MayStay

\* A commit ends the tokens it had found, and overtakes whoever is about to
\* get another.
LEMMA AccountClosed ==
  ASSUME AccessInv, NEW c \in Call, CommitModeration(c)
  PROVE  AccountsOK'
  <1>1. PICK u : u = calls[c].user OBVIOUS
  <1>2. /\ Moderating(calls[c]) /\ calls[c] \in CallType /\ u \in User
        /\ At(c, "commit") /\ Running(c)
    BY <1>1, CallFields, AtStep DEF CommitModeration, Running, At, Moderating, CallType
  <1>3. ActsOn(c) /\ calls'[c].pc = "idle" BY OneActs, Gets DEF Moderates
  <1>4. TokensKept /\ \A t \in calls[c].found : ~ Live(t)'
    BY <1>2, TokensEnd DEF CommitModeration, Moderating, CallType
  <1>5. \A v \in User : v # u => users'[v] = users[v] BY <1>1, <1>2, UsersEdited
  <1>6. /\ users[u] \in UserRow /\ users'[u] = NewRow(Kind(c), users[u])
        /\ Kind(c) \in {"block", "unblock", "delete"}
    BY <1>1, <1>2, UsersEdited
       DEF Moderating, Registered, Kind, AccessInv, TypeOK
  <1>7. Kind(c) = "unblock" => users'[u].status = "active" BY <1>6 DEF NewRow, UserRow
  <1>8. \A t \in Id : Live(t)' =>
          /\ Live(t) /\ tokens'[t].user = tokens[t].user /\ tokens'[t].late = tokens[t].late
          /\ t \notin calls[c].found /\ tokens[t].user \in User
    BY <1>4 DEF TokensKept, Live, AccessInv, TypeOK, TokenRow
  <1>9. RevokedWithAccount'
    <2> SUFFICES ASSUME NEW t \in Id, Live(t)', users'[tokens'[t].user].status # "active"
                 PROVE  tokens'[t].late
      BY DEF RevokedWithAccount
    <2>1. CASE tokens[t].user # u BY <1>5, <1>8, <2>1, AccountParts
    <2>2. CASE tokens[t].user = u
      <3>1. Kind(c) \in {"block", "delete"} BY <1>6, <1>7, <1>8, <2>2
      <3>2. MayStay(calls[c], t) BY <1>1, <1>2, <1>8, <2>2, <3>1, AccountParts
      <3> QED BY <1>8, <3>2 DEF MayStay
    <2> QED BY <2>1, <2>2
  <1>10. ASSUME NEW d \in Call, calls'[d].pc = "commit", calls'[d].kind \in {"block", "delete"},
                NEW t \in Id, Live(t)', tokens'[t].user = calls'[d].user
         PROVE  t \in calls'[d].found \/ tokens'[t].late
    <2>1. SameCall(d) BY <1>3, <1>10 DEF ActsOn
    <2>2. MayStay(calls[d], t)
      BY <1>8, <1>10, <2>1, AccountParts DEF SameCall, At, Kind
    <2> QED BY <1>8, <1>10, <2>1, <2>2 DEF MayStay, SameCall
  <1>11. ASSUME NEW d \in Call, calls'[d].pc \in {"welcome", "token"}, ~ calls'[d].late
         PROVE  users'[calls'[d].user].status = "active"
    <2>1. d # c /\ SameCall(d) /\ calls[d].pc \in {"welcome", "token"} /\ ~ calls[d].late
          /\ calls[d].user = calls'[d].user
      BY <1>3, <1>11 DEF ActsOn, SameCall
    <2>2. calls[d].user # u
      <3>1. ASSUME calls[d].user = u PROVE FALSE
        <4>1. calls'[d] = [calls[d] EXCEPT !.late = TRUE]
          BY <1>1, <2>1, <3>1 DEF CommitModeration, Checked
        <4> QED BY <1>11, <4>1, CallTypes DEF CallType
      <3> QED BY <3>1
    <2>3. calls[d].user \in User
      BY <2>1, CallFields, AtStep DEF Running, At, Entering, Exchanging, CallType
    <2> QED BY <1>5, <2>1, <2>2, <2>3, AccountParts
  <1> QED BY <1>9, <1>10, <1>11 DEF AccountsOK, At, Kind, MayStay

\* Every step keeps the accounts and their tokens together.
LEMMA AccountsStep ==
  ASSUME AccessInv, Next
  PROVE  AccountsOK'
  <1>1. ASSUME NEW c \in Call, ActsOn(c), users' = users, TokensKept,
               calls'[c].pc = "commit" /\ calls'[c].kind \in {"block", "delete"} =>
                 calls'[c].found = Theirs(calls'[c].user),
               calls'[c].pc \in {"welcome", "token"} =>
                 users[calls'[c].user].status = "active" \/ SameCall(c)
        PROVE  AccountsOK'
    BY <1>1, AccountsQuiet DEF ActsOn
  <1>2. ASSUME NEW c \in Call, ActsOn(c), users' = users, TokensKept,
               calls'[c].pc \notin {"commit", "welcome", "token"}
        PROVE  AccountsOK'
    BY <1>1, <1>2
  <1>3. ASSUME UNCHANGED tokens PROVE TokensKept BY <1>3, TokensUnchanged
  <1>4. ASSUME NEW c \in Call, Begins(c) \/ Sends(c) \/ Crash(c) PROVE AccountsOK'
    <2>1. users' = users /\ TokensKept
      BY <1>3, <1>4, RootForks
         DEF Begins, BeginRequestCode, BeginVerify, BeginWithToken, BeginModeration, Begin,
             Sends, CountRequest, ExpireCounter, ForgetCode, SaveCode, Crash
    <2>2. calls'[c].pc \notin {"commit", "welcome", "token"} BY <1>4, Gets
    <2> QED BY <1>2, <1>4, <2>1, <2>2, OneActs
  <1>5. ASSUME NEW c \in Call, Enters(c) PROVE AccountsOK'
    <2>1. ActsOn(c) BY <1>5, OneActs
    <2>2. ASSUME NEW yes \in BOOLEAN, ReadCode(c, yes) \/ CheckRegistration(c, yes)
          PROVE  AccountsOK'
      <3>1. UNCHANGED <<users, tokens>> BY <2>2 DEF ReadCode, CheckRegistration
      <3>2. calls'[c].pc \notin {"commit", "welcome", "token"} BY <2>2, Gets, ReadGets
      <3> QED BY <1>2, <1>3, <2>1, <3>1, <3>2
    <2>3. ASSUME WrongCode(c) \/ AcceptCode(c) PROVE AccountsOK'
      <3>1. UNCHANGED <<users, tokens>> BY <2>3 DEF WrongCode, AcceptCode
      <3>2. calls'[c].pc \notin {"commit", "welcome", "token"} BY <2>3, Gets
      <3> QED BY <1>2, <1>3, <2>1, <3>1, <3>2
    <2>4. ASSUME NEW yes \in BOOLEAN, CheckLogin(c, yes) PROVE AccountsOK'
      <3>1. UNCHANGED <<users, tokens>> BY <2>4 DEF CheckLogin
      <3>2. calls'[c].pc \in {"idle", "token"} BY <2>4, Gets
      <3>3. calls'[c].pc = "token" => users[calls'[c].user].status = "active"
        <4> SUFFICES ASSUME calls'[c].pc = "token" PROVE users[calls'[c].user].status = "active"
          OBVIOUS
        <4>1. ~ Finish(c) BY CallTypes DEF Finish, Become, Idle
        <4>2. PICK u \in Holders : Become(c, [calls[c] EXCEPT !.pc = "token", !.user = u])
          BY <2>4, <4>1 DEF CheckLogin
        <4>3. PICK v \in Holders : users[v].status = "active" BY <2>4, <4>1 DEF CheckLogin
        <4>4. u = v BY <4>2, <4>3 DEF Holders, AccessInv, TypeOK
        <4>5. calls'[c].user = u
          <5>1. PICK y : y = [calls[c] EXCEPT !.pc = "token", !.user = u] OBVIOUS
          <5>2. calls'[c] = y BY <4>2, <5>1, CallTypes DEF Become
          <5> QED BY <5>1, <5>2, CallTypes DEF CallType
        <4> QED BY <4>3, <4>4, <4>5
      <3> QED BY <1>1, <1>3, <2>1, <3>1, <3>2, <3>3
    <2>5. ASSUME Welcome(c) PROVE AccountsOK'
      <3>1. UNCHANGED <<users, tokens>> BY <2>5 DEF Welcome
      <3>2. calls'[c].pc = "token" /\ calls'[c].user = calls[c].user
            /\ calls'[c].late = calls[c].late
        BY <2>5, CallTypes DEF Welcome, GoTo, CallType
      <3>3. \A d \in Call : calls'[d].pc \in {"welcome", "token"} =>
              SameCall(d) \/ users[calls'[d].user].status = "active" \/ calls'[d].late
        BY <2>1, <2>5, <3>2, AccountParts DEF ActsOn, Welcome, At
      <3>4. \A t \in Id : Live(t)' = Live(t) BY <3>1 DEF Live
      <3>5. \A d \in Call : calls'[d].pc = "commit" => SameCall(d)
        BY <2>1, <3>2 DEF ActsOn
      <3>6. \A d \in Call : calls'[d].pc \in {"welcome", "token"} /\ ~ calls'[d].late =>
              users'[calls'[d].user].status = "active"
        BY <3>1, <3>3, AccountParts DEF SameCall
      <3>7. \A d \in Call : calls'[d].pc = "commit" /\ calls'[d].kind \in {"block", "delete"} =>
              \A t \in Id : Live(t)' /\ tokens'[t].user = calls'[d].user =>
                t \in calls'[d].found \/ tokens'[t].late
        BY <3>1, <3>4, <3>5, AccountParts DEF SameCall, MayStay, At, Kind
      <3> QED BY <3>1, <3>4, <3>6, <3>7, AccountParts
             DEF AccountsOK, RevokedWithAccount, At, Kind, MayStay
    <2>6. ASSUME NEW u \in User, InsertUser(c, u) PROVE AccountsOK'
      <3>1. CASE Holders = {} BY <2>6, <3>1, AccountMade
      <3>2. CASE Holders # {}
        <4>1. UNCHANGED <<users, tokens>> /\ Finish(c) BY <2>6, <3>2 DEF InsertUser
        <4>2. calls'[c].pc = "idle" BY <4>1, CallTypes DEF Finish, Become, Idle
        <4> QED BY <1>2, <1>3, <2>1, <4>1, <4>2
      <3> QED BY <3>1, <3>2
    <2> QED BY <1>5, <2>2, <2>3, <2>4, <2>5, <2>6 DEF Enters
  <1>6. ASSUME NEW c \in Call, Exchanges(c) PROVE AccountsOK'
    <2>1. ActsOn(c) BY <1>6, OneActs
    <2>2. CASE AddToken(c) BY <2>2, AccountEntered
    <2>3. CASE CheckUser(c)
      <3>1. UNCHANGED <<users, tokens>> BY <2>3 DEF CheckUser
      <3>2. calls'[c].pc = "token" => users[calls'[c].user].status = "active"
        BY <2>3, CallTypes DEF CheckUser, GoTo, Finish, Become, Idle, CallType
      <3> QED BY <1>1, <1>3, <2>1, <2>3, <3>1, <3>2, Gets
    <2>4. CASE LoadToken(c) \/ LoadLogout(c) \/ RevokeToken(c)
      <3>1. calls'[c].pc \notin {"commit", "welcome", "token"} BY <2>4, Gets
      <3>2. users' = users /\ ~ AddToken(c)
        BY <2>4 DEF LoadToken, LoadLogout, RevokeToken, AddToken, At
      <3>3. TokensKept
        <4>1. CASE RevokeToken(c)
          <5>1. Exchanging(calls[c]) /\ calls[c] \in CallType
            BY <4>1, CallFields, AtStep DEF RevokeToken, Running, At
          <5> QED BY <4>1, <5>1, OneEnds DEF RevokeToken, Exchanging, CallType
        <4> QED BY <1>3, <2>4, <4>1, RootForks DEF LoadToken, LoadLogout
      <3> QED BY <1>2, <2>1, <3>1, <3>2, <3>3
    <2> QED BY <1>6, <2>2, <2>3, <2>4 DEF Exchanges
  <1>7. ASSUME NEW c \in Call, Moderates(c) PROVE AccountsOK'
    <2>1. ActsOn(c) BY <1>7, OneActs
    <2>2. CASE CommitModeration(c) BY <2>2, AccountClosed
    <2>3. CASE CheckModeration(c)
      <3>1. UNCHANGED <<users, tokens>> BY <2>3 DEF CheckModeration
      <3>2. calls'[c].pc = "commit" => calls'[c].kind = "unblock"
        <4>1. CASE Finish(c) BY <4>1, CallTypes DEF Finish, Become, Idle
        <4>2. CASE ~ Finish(c)
          <5>1. PICK pc : /\ pc = IF Kind(c) = "unblock" THEN "commit" ELSE "revoke all"
                          /\ GoTo(c, pc)
            BY <2>3, <4>2 DEF CheckModeration
          <5>2. calls'[c].pc = pc /\ calls'[c].kind = calls[c].kind
            BY <5>1, CallTypes DEF GoTo, CallType
          <5> QED BY <5>1, <5>2 DEF Kind
        <4> QED BY <4>1, <4>2
      <3> QED BY <1>1, <1>3, <2>1, <2>3, <3>1, <3>2, Gets
    <2>4. CASE RevokeAll(c)
      <3>1. UNCHANGED <<users, tokens>> BY <2>4 DEF RevokeAll
      <3>2. calls'[c].pc = "commit" /\ calls'[c].found = Theirs(calls'[c].user)
        <4>1. PICK y : y = [calls[c] EXCEPT !.pc = "commit", !.found = Theirs(calls[c].user)]
          OBVIOUS
        <4>2. y.pc = "commit" /\ y.found = Theirs(calls[c].user) /\ y.user = calls[c].user
          BY <4>1, CallTypes DEF CallType
        <4>3. calls'[c] = y BY <2>4, <4>1, CallTypes DEF RevokeAll, Become
        <4> QED BY <4>2, <4>3
      <3> QED BY <1>1, <1>3, <2>1, <3>1, <3>2
    <2> QED BY <1>7, <2>2, <2>3, <2>4 DEF Moderates
  <1>8. ASSUME Tick \/ DayPasses \/ \E t \in Id : TokenExpires(t) PROVE AccountsOK'
    <2>1. users' = users /\ calls' = calls BY <1>8 DEF Tick, DayPasses, TokenExpires
    <2>2. TokensKept BY <1>3, <1>8, OneEnds DEF Tick, DayPasses, TokenExpires, Live
    <2> QED BY <2>1, <2>2, AccountsQuiet DEF SameCall
  <1> QED BY <1>4, <1>5, <1>6, <1>7, <1>8, Steps

-----------------------------------------------------------------------------
(* Rotation. *)

\* The parts of what the invariant says of rotation.
LEMMA RotationParts ==
  ASSUME AccessInv
  PROVE  /\ \A t \in Id : tokens[t] # None =>
              tokens[t].root \in Id /\ tokens[tokens[t].root] # None
         /\ \A s, t \in Id : Kin(s, t) => tokens[s].forked = tokens[t].forked
         /\ \A s, t \in Id : Live(s) /\ Live(t) /\ Kin(s, t) /\ s # t =>
              tokens[t].forked \/ Rotating(s, t)
         /\ \A c \in Call : InFlight(c) /\ ~ tokens[calls[c].on].forked =>
              \A s \in Id : Live(s) /\ Kin(s, calls[c].on) =>
                s = calls[c].on \/ (At(c, "revoke") /\ s = calls[c].id)
         /\ \A c, d \in Call :
              /\ InFlight(c) /\ InFlight(d) /\ ~ tokens[calls[c].on].forked
              /\ Kin(calls[d].on, calls[c].on)
              => c = d
  BY DEF AccessInv, RotationOK, TypeOK, TokenRow

\* A refresh under way holds a token, and is running.
LEMMA Flights ==
  ASSUME AccessInv, NEW c \in Call, InFlight(c)
  PROVE  /\ calls[c].on \in Id /\ tokens[calls[c].on] # None /\ Running(c)
         /\ Exchanging(calls[c]) /\ calls[c].id \in Id
  <1>1. Running(c) /\ calls[c] \in CallType BY CallFields DEF InFlight, Running, At
  <1>2. Exchanging(calls[c])
    BY <1>1, CallFields DEF CallOK, InFlight, Kind, Coding, Entering, Moderating, Running, At, Idle
  <1> QED BY <1>1, <1>2 DEF Exchanging, CallType

\* A refresh under way stays what it is.
SameFlight(d) ==
    /\ calls'[d].on = calls[d].on /\ calls'[d].id = calls[d].id
    /\ InFlight(d) /\ (At(d, "revoke")' <=> At(d, "revoke"))

\* No refresh comes under way; one that was about to revoke its token is,
\* unless the token has ended or forked.
LEMMA RotationKept ==
  ASSUME AccessInv, TokensKept, NEW R, Forks(R),
         \A d \in Call : InFlight(d)' => SameFlight(d),
         \A d \in Call : InFlight(d) /\ At(d, "revoke") =>
           \/ InFlight(d)'
           \/ tokens'[calls[d].on].state # "live" \/ tokens'[calls[d].on].forked
  PROVE  RotationOK'
  <1>1. \A s, t \in Id : Kin(s, t)' <=> Kin(s, t)
    BY DEF TokensKept, Kin
  <1>2. \A t \in Id : Live(t)' => Live(t) BY DEF TokensKept, Live
  <1>3. \A t \in Id : tokens[t] # None /\ ~ tokens'[t].forked => ~ tokens[t].forked
    BY DEF Forks
  <1>4. \A t \in Id : tokens'[t] # None => tokens'[tokens'[t].root] # None
    BY RotationParts DEF TokensKept
  <1>5. ASSUME NEW s \in Id, NEW t \in Id, Kin(s, t)'
        PROVE  tokens'[s].forked = tokens'[t].forked
    <2>1. /\ Kin(s, t) /\ tokens[s].forked = tokens[t].forked
          /\ tokens'[s] \in TokenRow /\ tokens'[t] \in TokenRow
      BY <1>1, <1>5, RotationParts DEF Kin, TokensKept
    <2>2. tokens'[s].forked <=> tokens'[t].forked BY <2>1 DEF Kin, Forks
    <2> QED BY <2>1, <2>2 DEF TokenRow
  <1>6. ASSUME NEW s \in Id, NEW t \in Id, Live(s)', Live(t)', Kin(s, t)', s # t,
               ~ tokens'[t].forked
        PROVE  Rotating(s, t)'
    <2>1. Live(s) /\ Live(t) /\ Kin(s, t) /\ ~ tokens[t].forked
      BY <1>1, <1>2, <1>3, <1>6 DEF Kin
    <2>8. Rotating(s, t) BY <1>6, <2>1, RotationParts
    <2>2. PICK c \in Call : InFlight(c) /\ At(c, "revoke") /\ {s, t} = {calls[c].on, calls[c].id}
      BY <2>8 DEF Rotating
    <2>3. calls[c].on \in {s, t} BY <2>2
    <2>4. tokens'[calls[c].on].state = "live" BY <1>6, <2>3 DEF Live
    <2>5. ~ tokens'[calls[c].on].forked BY <1>5, <1>6, <2>3
    <2>6. InFlight(c)' BY <2>2, <2>4, <2>5
    <2>7. SameFlight(c) BY <2>6
    <2> QED BY <2>2, <2>6, <2>7 DEF Rotating, SameFlight
  <1>7. ASSUME NEW c \in Call, InFlight(c)', ~ tokens'[calls'[c].on].forked
        PROVE  /\ SameFlight(c) /\ ~ tokens[calls[c].on].forked /\ calls[c].on \in Id
    BY <1>3, <1>7, Flights DEF SameFlight
  <1>8. ASSUME NEW c \in Call, InFlight(c)', ~ tokens'[calls'[c].on].forked,
               NEW s \in Id, Live(s)', Kin(s, calls[c].on)'
        PROVE  s = calls'[c].on \/ (At(c, "revoke")' /\ s = calls'[c].id)
    BY <1>1, <1>2, <1>7, <1>8, RotationParts DEF SameFlight, Kin
  <1>9. ASSUME NEW c \in Call, InFlight(c)', ~ tokens'[calls'[c].on].forked,
               NEW d \in Call, InFlight(d)', Kin(calls[d].on, calls[c].on)'
        PROVE  c = d
    <2>1. SameFlight(c) /\ SameFlight(d) /\ ~ tokens[calls[c].on].forked BY <1>7, <1>9
    <2>2. calls[c].on \in Id /\ calls[d].on \in Id BY <2>1, Flights DEF SameFlight
    <2>3. Kin(calls[d].on, calls[c].on) BY <1>1, <1>9, <2>1, <2>2 DEF SameFlight, Kin
    <2> QED BY <2>1, <2>3, RotationParts DEF SameFlight
  <1> QED BY <1>4, <1>5, <1>6, <1>8, <1>9 DEF RotationOK

\* A refresh that finds its token live is the only one of that login, or the
\* login forks.
LEMMA OnlyRefresh ==
  ASSUME AccessInv, NEW c \in Call, LoadToken(c), Live(calls[c].on)
  PROVE  /\ calls[c].on \in Id /\ tokens[calls[c].on] # None
         /\ TokensKept /\ (Forks({}) \/ Forks({tokens[calls[c].on].root}))
         /\ ~ tokens'[calls[c].on].forked =>
              /\ Forks({}) /\ ~ tokens[calls[c].on].forked
              /\ \A d \in Call \ {c} : InFlight(d) => ~ Kin(calls[d].on, calls[c].on)
  <1>1. PICK t : t = calls[c].on OBVIOUS
  <1>2. /\ Exchanging(calls[c]) /\ calls[c] \in CallType /\ Running(c)
        /\ t \in Id /\ tokens[t] # None
    BY <1>1, CallFields, AtStep DEF LoadToken, Running, At, Exchanging, CallType
  <1>3. CASE Forking(c, t)
    <2>1. tokens' = ForkedRoot(tokens[t].root) BY <1>1, <1>3 DEF LoadToken
    <2>2. TokensKept /\ Forks({tokens[t].root}) BY <2>1, RootForks
    <2>3. tokens'[t].forked BY <1>2, <2>2 DEF Forks
    <2> QED BY <1>1, <1>2, <2>2, <2>3
  <1>4. CASE ~ Forking(c, t)
    <2>1. tokens' = tokens BY <1>1, <1>4 DEF LoadToken
    <2>2. TokensKept /\ Forks({}) BY <2>1, TokensUnchanged
    <2>3. ASSUME ~ tokens'[t].forked, NEW d \in Call \ {c}, InFlight(d), Kin(calls[d].on, t)
          PROVE  FALSE
      <3>1. calls[d].on \in Id /\ tokens[calls[d].on] # None /\ Running(d) BY <2>3, Flights
      <3>2. ~ tokens[calls[d].on].forked BY <1>2, <2>1, <2>3, <3>1, RotationParts
      <3>3. Kin(t, calls[d].on) BY <2>3 DEF Kin
      <3>4. t = calls[d].on \/ t = calls[d].id
        BY <1>1, <1>2, <2>3, <3>2, <3>3, RotationParts
      <3>5. t # calls[d].on BY <1>4, <2>3 DEF Forking, InFlight, At
      <3>6. t # calls[d].id BY <1>1, <1>2, <3>1 DEF AccessInv, CallsOK
      <3> QED BY <3>4, <3>5, <3>6
    <2> QED BY <1>1, <1>2, <2>1, <2>2, <2>3
  <1> QED BY <1>3, <1>4

\* A refresh comes under way alone, or the login forks.
LEMMA RotationLoaded ==
  ASSUME AccessInv, NEW c \in Call, LoadToken(c), Live(calls[c].on)
  PROVE  RotationOK'
  <1>1. PICK t : t = calls[c].on OBVIOUS
  <1>2. /\ t \in Id /\ tokens[t] # None /\ TokensKept
        /\ Forks({}) \/ Forks({tokens[t].root})
        /\ ~ tokens'[t].forked =>
             /\ Forks({}) /\ ~ tokens[t].forked
             /\ \A d \in Call \ {c} : InFlight(d) => ~ Kin(calls[d].on, t)
    BY <1>1, OnlyRefresh
  <1>3. ActsOn(c) /\ ~ At(c, "revoke") /\ ~ InFlight(c) /\ calls'[c].pc # "revoke"
    BY OneActs, Gets DEF Exchanges, LoadToken, At, InFlight
  <1>4. calls'[c].on = t
    <2>1. PICK y : y = [calls[c] EXCEPT !.pc = "user", !.user = tokens[calls[c].on].user] OBVIOUS
    <2>2. calls'[c] = y BY <2>1, CallTypes DEF LoadToken, Become
    <2> QED BY <1>1, <2>1, <2>2, CallTypes DEF CallType
  <1>5. \A d \in Call \ {c} :
          /\ InFlight(d)' <=> InFlight(d)
          /\ At(d, "revoke")' <=> At(d, "revoke")
          /\ calls'[d].on = calls[d].on /\ calls'[d].id = calls[d].id
    BY <1>3 DEF ActsOn, SameCall, InFlight, At, Kind
  <1>6. \A r, s \in Id : Kin(r, s)' <=> Kin(r, s) BY <1>2 DEF TokensKept, Kin
  <1>7. \A s \in Id : Live(s)' => Live(s) BY <1>2 DEF TokensKept, Live
  <1>8. \A s \in Id : tokens[s] # None /\ ~ tokens'[s].forked => ~ tokens[s].forked
    BY <1>2 DEF Forks
  <1>9. \A s \in Id : tokens'[s] # None => tokens'[tokens'[s].root] # None
    BY <1>2, RotationParts DEF TokensKept
  <1>10. ASSUME NEW r \in Id, NEW s \in Id, Kin(r, s)'
         PROVE  tokens'[r].forked = tokens'[s].forked
    <2>1. /\ Kin(r, s) /\ tokens[r].forked = tokens[s].forked
          /\ tokens'[r] \in TokenRow /\ tokens'[s] \in TokenRow
      BY <1>2, <1>6, <1>10, RotationParts DEF Kin, TokensKept
    <2>2. tokens'[r].forked <=> tokens'[s].forked BY <1>2, <2>1 DEF Kin, Forks
    <2> QED BY <2>1, <2>2 DEF TokenRow
  <1>11. ASSUME NEW r \in Id, NEW s \in Id, Live(r)', Live(s)', Kin(r, s)', r # s,
                ~ tokens'[s].forked
         PROVE  Rotating(r, s)'
    <2>1. Live(r) /\ Live(s) /\ Kin(r, s) /\ ~ tokens[s].forked
      BY <1>6, <1>7, <1>8, <1>11 DEF Kin
    <2>2. Rotating(r, s) BY <1>11, <2>1, RotationParts
    <2>3. PICK d \in Call : InFlight(d) /\ At(d, "revoke") /\ {r, s} = {calls[d].on, calls[d].id}
      BY <2>2 DEF Rotating
    <2>4. d # c BY <1>3, <2>3
    <2> QED BY <1>5, <2>3, <2>4 DEF Rotating
  <1>12. ASSUME NEW d \in Call, InFlight(d)', ~ tokens'[calls'[d].on].forked,
                NEW s \in Id, Live(s)', Kin(s, calls[d].on)'
         PROVE  s = calls'[d].on \/ (At(d, "revoke")' /\ s = calls'[d].id)
    <2>1. CASE d = c
      <3>1. ~ tokens'[t].forked /\ Kin(s, t) BY <1>2, <1>4, <1>6, <1>12, <2>1 DEF Kin
      <3>2. ASSUME s # t PROVE FALSE
        <4>1. Live(s) /\ Live(t) /\ ~ tokens[t].forked BY <1>1, <1>2, <1>7, <1>12, <3>1
        <4>2. Rotating(s, t) BY <1>2, <3>1, <3>2, <4>1, RotationParts
        <4>3. PICK e \in Call : InFlight(e) /\ At(e, "revoke") /\ {s, t} = {calls[e].on, calls[e].id}
          BY <4>2 DEF Rotating
        <4>4. e # c BY <1>3, <4>3
        <4>5. Kin(calls[e].on, t)
          <5>1. calls[e].on = s \/ calls[e].on = t BY <4>3
          <5> QED BY <1>2, <3>1, <5>1 DEF Kin
        <4> QED BY <1>2, <3>1, <4>3, <4>4, <4>5
      <3> QED BY <1>4, <2>1, <3>2
    <2>2. CASE d # c
      <3>1. InFlight(d) /\ calls[d].on \in Id BY <1>5, <1>12, <2>2, Flights
      <3>2. ~ tokens[calls[d].on].forked BY <1>5, <1>8, <1>12, <2>2, <3>1, Flights
      <3>3. Live(s) /\ Kin(s, calls[d].on)
        BY <1>5, <1>6, <1>7, <1>12, <2>2, <3>1 DEF Kin
      <3> QED BY <1>5, <2>2, <3>1, <3>2, <3>3, RotationParts
    <2> QED BY <2>1, <2>2
  <1>13. ASSUME NEW d \in Call, InFlight(d)', ~ tokens'[calls'[d].on].forked,
                NEW e \in Call, InFlight(e)', Kin(calls[e].on, calls[d].on)'
         PROVE  d = e
    <2>1. ASSUME d = c, e # c PROVE FALSE
      <3>1. InFlight(e) /\ calls[e].on \in Id /\ calls'[e].on = calls[e].on
        BY <1>5, <1>13, <2>1, Flights
      <3>2. Kin(calls[e].on, t) /\ ~ tokens'[t].forked
        BY <1>2, <1>4, <1>6, <1>13, <2>1, <3>1 DEF Kin
      <3> QED BY <1>2, <2>1, <3>1, <3>2
    <2>2. ASSUME d # c, e = c PROVE FALSE
      <3>1. InFlight(d) /\ calls[d].on \in Id /\ calls'[d].on = calls[d].on
        BY <1>5, <1>13, <2>2, Flights
      <3>2. Kin(t, calls[d].on) BY <1>2, <1>4, <1>6, <1>13, <2>2, <3>1 DEF Kin
      <3>3. Kin(calls[d].on, t) BY <3>2 DEF Kin
      <3>4. ~ tokens'[t].forked
        BY <1>2, <1>4, <1>10, <1>13, <2>2, <3>1 DEF Kin
      <3> QED BY <1>2, <2>2, <3>1, <3>3, <3>4
    <2>3. CASE d # c /\ e # c
      <3>1. /\ InFlight(d) /\ InFlight(e) /\ calls[d].on \in Id /\ calls[e].on \in Id
            /\ calls'[d].on = calls[d].on /\ calls'[e].on = calls[e].on
        BY <1>5, <1>13, <2>3, Flights
      <3>2. ~ tokens[calls[d].on].forked BY <1>8, <1>13, <3>1, Flights
      <3>3. Kin(calls[e].on, calls[d].on) BY <1>6, <1>13, <3>1 DEF Kin
      <3> QED BY <3>1, <3>2, <3>3, RotationParts
    <2> QED BY <2>1, <2>2, <2>3
  <1> QED BY <1>9, <1>10, <1>11, <1>12, <1>13 DEF RotationOK

\* The first token of a login is kin to none.
LEMMA RotationBegun ==
  ASSUME AccessInv, NEW c \in Call, AddToken(c), calls[c].on = None
  PROVE  RotationOK'
  <1>1. PICK new : new = calls[c].id OBVIOUS
  <1>2. PICK x : x = NewToken(c) OBVIOUS
  <1>3. /\ new \in Id /\ tokens[new] = None /\ tokens'[new] = x /\ x # None /\ x.root = new
        /\ \A t \in Id : t # new => tokens'[t] = tokens[t]
        /\ calls' = [calls EXCEPT ![c] = Idle]
    BY <1>1, <1>2, TokenAdded
  <1>4. /\ ~ At(c, "revoke") /\ ~ InFlight(c)'
        /\ \A d \in Call \ {c} : calls'[d] = calls[d]
    BY <1>3, CallTypes DEF AddToken, InFlight, At, Idle, Kind
  <1>5. \A d \in Call : InFlight(d)' =>
          /\ d # c /\ InFlight(d) /\ calls'[d] = calls[d]
          /\ calls[d].on \in Id /\ calls[d].on # new
    BY <1>3, <1>4, Flights DEF InFlight, At, Kind
  <1>6. \A s, t \in Id : Kin(s, t)' => Kin(s, t) \/ (s = new /\ t = new)
    BY <1>3, RotationParts DEF Kin
  <1>7. \A t \in Id : t # new => (Live(t)' <=> Live(t)) BY <1>3 DEF Live
  <1>8. \A t \in Id : tokens'[t] # None => tokens'[tokens'[t].root] # None
    BY <1>3, RotationParts
  <1>9. ASSUME NEW s \in Id, NEW t \in Id, Kin(s, t)'
        PROVE  tokens'[s].forked = tokens'[t].forked
    <2>1. CASE s = new /\ t = new BY <2>1
    <2>2. CASE ~ (s = new /\ t = new)
      <3>1. Kin(s, t) BY <1>6, <1>9, <2>2
      <3>2. s # new /\ t # new BY <1>3, <3>1 DEF Kin
      <3> QED BY <1>3, <3>1, <3>2, RotationParts
    <2> QED BY <2>1, <2>2
  <1>10. ASSUME NEW s \in Id, NEW t \in Id, Live(s)', Live(t)', Kin(s, t)', s # t,
                ~ tokens'[t].forked
         PROVE  Rotating(s, t)'
    <2>1. Kin(s, t) BY <1>6, <1>10
    <2>2. s # new /\ t # new BY <1>3, <2>1 DEF Kin
    <2>3. Rotating(s, t) BY <1>3, <1>7, <1>10, <2>1, <2>2, RotationParts
    <2>4. PICK d \in Call : InFlight(d) /\ At(d, "revoke") /\ {s, t} = {calls[d].on, calls[d].id}
      BY <2>3 DEF Rotating
    <2>5. calls'[d] = calls[d] BY <1>4, <2>4
    <2>6. InFlight(d)' /\ At(d, "revoke")' BY <2>4, <2>5 DEF InFlight, At, Kind
    <2> QED BY <2>4, <2>5, <2>6 DEF Rotating
  <1>11. ASSUME NEW d \in Call, InFlight(d)', ~ tokens'[calls'[d].on].forked
         PROVE  /\ InFlight(d) /\ calls'[d] = calls[d] /\ ~ tokens[calls[d].on].forked
                /\ calls[d].on \in Id /\ calls[d].on # new
    BY <1>3, <1>5, <1>11
  <1>12. ASSUME NEW d \in Call, InFlight(d)', ~ tokens'[calls'[d].on].forked,
                NEW s \in Id, Live(s)', Kin(s, calls[d].on)'
         PROVE  s = calls'[d].on \/ (At(d, "revoke")' /\ s = calls'[d].id)
    <2>1. calls'[d].on = calls[d].on BY <1>11, <1>12
    <2>2. Kin(s, calls[d].on) BY <1>6, <1>11, <1>12, <2>1 DEF Kin
    <2>3. s # new BY <1>3, <2>2 DEF Kin
    <2> QED BY <1>7, <1>11, <1>12, <2>2, <2>3, RotationParts DEF At
  <1>13. ASSUME NEW d \in Call, InFlight(d)', ~ tokens'[calls'[d].on].forked,
                NEW e \in Call, InFlight(e)', Kin(calls[e].on, calls[d].on)'
         PROVE  d = e
    <2>1. Kin(calls[e].on, calls[d].on) BY <1>5, <1>6, <1>13 DEF Kin
    <2> QED BY <1>5, <1>11, <1>13, <2>1, RotationParts
  <1> QED BY <1>8, <1>9, <1>10, <1>12, <1>13 DEF RotationOK

\* The new token of a refresh takes its place among the kin of the old.
LEMMA RotationAdded ==
  ASSUME AccessInv, NEW c \in Call, AddToken(c), calls[c].on # None
  PROVE  RotationOK'
  <1>1. PICK new, old : new = calls[c].id /\ old = calls[c].on OBVIOUS
  <1>2. PICK x : x = NewToken(c) OBVIOUS
  <1>3. /\ new \in Id /\ tokens[new] = None /\ tokens'[new] = x /\ x # None
        /\ old \in Id /\ tokens[old] # None /\ Kind(c) = "refresh"
        /\ x.root = tokens[old].root /\ x.forked = tokens[old].forked
        /\ \A t \in Id : t # new => tokens'[t] = tokens[t]
        /\ calls' = [calls EXCEPT ![c] = [calls[c] EXCEPT !.pc = "revoke"]]
    BY <1>1, <1>2, TokenAdded
  <1>4. /\ ~ At(c, "revoke") /\ InFlight(c) /\ InFlight(c)' /\ At(c, "revoke")'
        /\ calls'[c].on = old /\ calls'[c].id = new
        /\ \A d \in Call \ {c} : calls'[d] = calls[d]
    BY <1>1, <1>3, CallTypes DEF AddToken, InFlight, At, Kind, CallType
  <1>5. \A d \in Call : InFlight(d)' =>
          /\ InFlight(d) /\ calls'[d].on = calls[d].on /\ calls'[d].id = calls[d].id
          /\ calls[d].on \in Id /\ calls[d].on # new
          /\ At(d, "revoke") => At(d, "revoke")'
    BY <1>1, <1>3, <1>4, Flights DEF InFlight, At, Kind
  <1>6. DEFINE m(t) == IF t = new THEN old ELSE t
  <1>7. /\ \A s, t \in Id : Kin(s, t)' => Kin(m(s), m(t))
        /\ \A t \in Id : m(t) \in Id /\ tokens'[t].forked = tokens[m(t)].forked
    BY <1>3 DEF Kin
  <1>8. \A t \in Id : t # new => (Live(t)' <=> Live(t)) BY <1>3 DEF Live
  <1>9. \A t \in Id : tokens'[t] # None => tokens'[tokens'[t].root] # None
    BY <1>3, RotationParts
  <1>10. ASSUME NEW s \in Id, NEW t \in Id, Kin(s, t)'
         PROVE  tokens'[s].forked = tokens'[t].forked
    <2>1. Kin(m(s), m(t)) /\ m(s) \in Id /\ m(t) \in Id BY <1>7, <1>10
    <2>2. tokens[m(s)].forked = tokens[m(t)].forked
      <3> HIDE DEF m
      <3> QED BY <2>1, RotationParts
    <2> QED BY <1>7, <2>2
  <1>11. ASSUME NEW s \in Id, s # new, Live(s), Kin(s, old), ~ tokens[old].forked
         PROVE  s = old
    BY <1>1, <1>4, <1>11, RotationParts
  <1>12. ASSUME NEW s \in Id, NEW t \in Id, Live(s)', Live(t)', Kin(s, t)', s # t,
                ~ tokens'[t].forked
         PROVE  Rotating(s, t)'
    <2>1. Kin(m(s), m(t)) /\ ~ tokens[m(t)].forked /\ ~ tokens[m(s)].forked
      BY <1>7, <1>10, <1>12
    <2>2. CASE s = new
      <3>1. Kin(t, old) /\ ~ tokens[old].forked /\ Live(t) /\ t # new
        BY <1>8, <1>12, <2>1, <2>2 DEF Kin
      <3>2. t = old BY <1>11, <3>1
      <3>3. {s, t} = {calls'[c].on, calls'[c].id} BY <1>4, <2>2, <3>2
      <3> QED BY <1>4, <3>3 DEF Rotating
    <2>3. CASE t = new
      <3>1. Kin(s, old) /\ ~ tokens[old].forked /\ Live(s) /\ s # new
        BY <1>8, <1>12, <2>1, <2>3
      <3>2. s = old BY <1>11, <3>1
      <3>3. {s, t} = {calls'[c].on, calls'[c].id} BY <1>4, <2>3, <3>2
      <3> QED BY <1>4, <3>3 DEF Rotating
    <2>4. CASE s # new /\ t # new
      <3>1. Live(s) /\ Live(t) /\ Kin(s, t) /\ ~ tokens[t].forked
        BY <1>8, <1>12, <2>1, <2>4
      <3>2. Rotating(s, t) BY <1>12, <3>1, RotationParts
      <3>3. PICK d \in Call :
              InFlight(d) /\ At(d, "revoke") /\ {s, t} = {calls[d].on, calls[d].id}
        BY <3>2 DEF Rotating
      <3>4. calls'[d] = calls[d] BY <1>4, <3>3
      <3>5. InFlight(d)' /\ At(d, "revoke")' BY <3>3, <3>4 DEF InFlight, At, Kind
      <3> QED BY <3>3, <3>4, <3>5 DEF Rotating
    <2> QED BY <2>2, <2>3, <2>4
  <1>13. ASSUME NEW d \in Call, InFlight(d)', ~ tokens'[calls'[d].on].forked
         PROVE  /\ InFlight(d) /\ calls'[d].on = calls[d].on /\ ~ tokens[calls[d].on].forked
                /\ calls[d].on \in Id /\ m(calls[d].on) = calls[d].on
    BY <1>3, <1>5, <1>13
  <1>14. ASSUME NEW d \in Call, InFlight(d)', ~ tokens'[calls'[d].on].forked,
                NEW s \in Id, Live(s)', Kin(s, calls[d].on)'
         PROVE  s = calls'[d].on \/ (At(d, "revoke")' /\ s = calls'[d].id)
    <2>1. calls[d].on \in Id /\ calls'[d].on = calls[d].on /\ InFlight(d)
          /\ ~ tokens[calls[d].on].forked
      BY <1>13, <1>14
    <2>2. Kin(m(s), calls[d].on) BY <1>7, <1>13, <1>14, <2>1 DEF Kin
    <2>3. CASE s = new
      <3>1. d = c BY <1>1, <1>4, <2>1, <2>2, <2>3, RotationParts
      <3> QED BY <1>4, <2>3, <3>1
    <2>4. CASE s # new
      BY <1>5, <1>8, <1>14, <2>1, <2>2, <2>4, RotationParts
    <2> QED BY <2>3, <2>4
  <1>15. ASSUME NEW d \in Call, InFlight(d)', ~ tokens'[calls'[d].on].forked,
                NEW e \in Call, InFlight(e)', Kin(calls[e].on, calls[d].on)'
         PROVE  d = e
    <2>1. /\ calls'[e].on = calls[e].on /\ m(calls[e].on) = calls[e].on /\ calls[e].on \in Id
          /\ InFlight(e)
      BY <1>5, <1>15
    <2>2. /\ calls'[d].on = calls[d].on /\ m(calls[d].on) = calls[d].on /\ calls[d].on \in Id
          /\ InFlight(d) /\ ~ tokens[calls[d].on].forked
      BY <1>13, <1>15
    <2>3. Kin(calls[e].on, calls[d].on) BY <1>7, <1>15, <2>1, <2>2 DEF Kin
    <2> QED BY <2>1, <2>2, <2>3, RotationParts
  <1> QED BY <1>9, <1>10, <1>12, <1>14, <1>15 DEF RotationOK

\* A step of c's that brings no refresh under way.
LEMMA RotationQuiet ==
  ASSUME AccessInv, NEW c \in Call, ActsOn(c), TokensKept, NEW R, Forks(R),
         InFlight(c)' => SameFlight(c),
         InFlight(c) /\ At(c, "revoke") =>
           tokens'[calls[c].on].state # "live" \/ tokens'[calls[c].on].forked
  PROVE  RotationOK'
  <1>1. \A d \in Call \ {c} :
          /\ InFlight(d)' <=> InFlight(d)
          /\ InFlight(d)' => SameFlight(d)
    BY DEF ActsOn, SameCall, InFlight, SameFlight, At, Kind
  <1> QED BY <1>1, RotationKept

\* Every step keeps one live token to a login, as far as it has not forked.
LEMMA RotationStep ==
  ASSUME AccessInv, Next
  PROVE  RotationOK'
  <1>1. ASSUME NEW c \in Call, ActsOn(c), UNCHANGED tokens, ~ At(c, "revoke"), ~ InFlight(c)'
        PROVE  RotationOK'
    BY <1>1, TokensUnchanged, RotationQuiet
  <1>2. ASSUME NEW c \in Call, Begins(c) \/ Sends(c) PROVE RotationOK'
    <2>1. calls'[c].pc \in {"count", "get", "load", "moderate", "idle", "expire", "forget", "save"}
      BY <1>2, Gets
    <2>2. UNCHANGED tokens /\ ~ At(c, "revoke")
      BY <1>2 DEF Begins, BeginRequestCode, BeginVerify, BeginWithToken, BeginModeration, Begin,
                  Sends, CountRequest, ExpireCounter, ForgetCode, SaveCode, At
    <2> QED BY <1>1, <1>2, <2>1, <2>2, OneActs DEF InFlight
  <1>3. ASSUME NEW c \in Call, Enters(c) PROVE RotationOK'
    <2>1. UNCHANGED tokens /\ ~ At(c, "revoke")
      BY <1>3 DEF Enters, ReadCode, CheckRegistration, CheckLogin, WrongCode, AcceptCode, Welcome,
                  InsertUser, At
    <2>2. ~ InFlight(c)'
      <3>1. ASSUME NEW yes \in BOOLEAN, ReadCode(c, yes) PROVE ~ InFlight(c)'
        BY <3>1, ReadGets DEF InFlight
      <3>2. ASSUME NEW yes \in BOOLEAN, CheckLogin(c, yes) PROVE ~ InFlight(c)'
        <4>1. CASE Finish(c) BY <4>1, CallTypes DEF Finish, Become, Idle, InFlight
        <4>2. CASE ~ Finish(c)
          <5>1. PICK u : Become(c, [calls[c] EXCEPT !.pc = "token", !.user = u])
            BY <3>2, <4>2 DEF CheckLogin
          <5>2. calls'[c].kind = calls[c].kind BY <5>1, CallTypes DEF Become, CallType
          <5> QED BY <3>2, <5>2 DEF CheckLogin, InFlight, Kind
        <4> QED BY <4>1, <4>2
      <3>3. ASSUME Welcome(c) PROVE ~ InFlight(c)'
        <4>1. Entering(calls[c]) BY <3>3, AtStep DEF Welcome, Running, At
        <4> QED BY <3>3, <4>1, Gets DEF Entering, InFlight, Kind
      <3>4. ASSUME \/ \E yes \in BOOLEAN : CheckRegistration(c, yes)
                   \/ WrongCode(c) \/ AcceptCode(c) \/ \E u \in User : InsertUser(c, u)
            PROVE  ~ InFlight(c)'
        BY <3>4, Gets DEF InFlight
      <3> QED BY <1>3, <3>1, <3>2, <3>3, <3>4 DEF Enters
    <2> QED BY <1>1, <1>3, <2>1, <2>2, OneActs
  <1>4. ASSUME NEW c \in Call, Exchanges(c) PROVE RotationOK'
    <2>1. ActsOn(c) BY <1>4, OneActs
    <2>2. CASE LoadToken(c)
      <3>1. CASE Live(calls[c].on) BY <2>2, <3>1, RotationLoaded
      <3>2. CASE ~ Live(calls[c].on)
        <4>1. UNCHANGED tokens /\ Finish(c) /\ ~ At(c, "revoke")
          BY <2>2, <3>2 DEF LoadToken, At
        <4>2. calls'[c].pc = "idle" BY <4>1, CallTypes DEF Finish, Become, Idle
        <4> QED BY <1>1, <2>1, <4>1, <4>2 DEF InFlight
      <3> QED BY <3>1, <3>2
    <2>3. CASE LoadLogout(c)
      <3>1. UNCHANGED tokens /\ ~ At(c, "revoke") /\ Kind(c) = "logout"
        BY <2>3 DEF LoadLogout, At
      <3>2. ~ InFlight(c)' BY <2>3, <3>1, Gets DEF InFlight, Kind
      <3> QED BY <1>1, <2>1, <3>1, <3>2
    <2>4. CASE CheckUser(c)
      <3>1. UNCHANGED tokens /\ ~ At(c, "revoke") /\ At(c, "user") BY <2>4 DEF CheckUser, At
      <3>2. calls'[c] = Idle \/ calls'[c] = [calls[c] EXCEPT !.pc = "token"]
        BY <2>4, CallTypes DEF CheckUser, GoTo, Finish, Become
      <3>3. InFlight(c)' => SameFlight(c)
        BY <3>1, <3>2, CallTypes DEF InFlight, SameFlight, At, Kind, Idle, CallType
      <3> QED BY <2>1, <3>1, <3>3, TokensUnchanged, RotationQuiet
    <2>5. CASE AddToken(c) BY <2>5, RotationBegun, RotationAdded
    <2>6. CASE RevokeToken(c)
      <3>1. Exchanging(calls[c]) /\ calls[c].on \in Id /\ tokens[calls[c].on] # None
        BY <2>6, CallFields, AtStep DEF RevokeToken, Running, At, Exchanging, CallType
      <3>2. TokensKept /\ Forks({})
        <4>1. PICK t : t = calls[c].on OBVIOUS
        <4>2. tokens' = [tokens EXCEPT ![t].state = "revoked"] BY <2>6, <4>1 DEF RevokeToken
        <4> QED BY <3>1, <4>1, <4>2, OneEnds
      <3>3. tokens'[calls[c].on].state # "live"
        <4>1. PICK t : t = calls[c].on OBVIOUS
        <4>2. tokens[t] \in TokenRow /\ t \in Id BY <3>1, <4>1, TokenRows
        <4>3. tokens' = [tokens EXCEPT ![t].state = "revoked"] BY <2>6, <4>1 DEF RevokeToken
        <4>4. tokens'[t] = [tokens[t] EXCEPT !.state = "revoked"] BY <4>2, <4>3, TokenRows
        <4>5. tokens'[t].state = "revoked" BY <4>2, <4>4 DEF TokenRow
        <4> QED BY <4>1, <4>5
      <3>4. ~ InFlight(c)' BY <2>6, Gets DEF InFlight
      <3> QED BY <2>1, <3>2, <3>3, <3>4, RotationQuiet
    <2> QED BY <1>4, <2>2, <2>3, <2>4, <2>5, <2>6 DEF Exchanges
  <1>5. ASSUME NEW c \in Call, Moderates(c) PROVE RotationOK'
    <2>1. ActsOn(c) /\ ~ InFlight(c)' BY <1>5, OneActs, Gets DEF Moderates, InFlight
    <2>2. ~ At(c, "revoke") BY <1>5 DEF Moderates, CheckModeration, RevokeAll, CommitModeration, At
    <2>3. CASE CommitModeration(c)
      <3>1. Moderating(calls[c]) /\ calls[c] \in CallType
        BY <2>3, CallFields, AtStep DEF CommitModeration, Running, At
      <3>2. PICK T : T = calls[c].found OBVIOUS
      <3>3. /\ T \in SUBSET Id /\ \A t \in T : tokens[t] # None
            /\ tokens' = [t \in Id |-> IF t \in T THEN [tokens[t] EXCEPT !.state = "revoked"]
                                       ELSE tokens[t]]
        BY <2>3, <3>1, <3>2 DEF CommitModeration, Moderating, CallType
      <3>4. TokensKept /\ Forks({}) BY <3>3, TokensEnd
      <3> QED BY <2>1, <2>2, <3>4, RotationQuiet
    <2> QED BY <1>1, <1>5, <2>1, <2>2, <2>3 DEF Moderates, CheckModeration, RevokeAll
  <1>6. ASSUME NEW c \in Call, Crash(c) PROVE RotationOK'
    <2>1. ActsOn(c) /\ ~ InFlight(c)' BY <1>6, OneActs, Gets DEF InFlight
    <2>2. CASE At(c, "revoke") /\ Kind(c) = "refresh"
      <3>1. PICK r : r = tokens[calls[c].on].root OBVIOUS
      <3>2. tokens' = ForkedRoot(r) BY <1>6, <2>2, <3>1 DEF Crash
      <3>3. TokensKept /\ Forks({r}) BY <3>2, RootForks
      <3>4. tokens'[calls[c].on].forked
        <4>1. InFlight(c) BY <2>2 DEF InFlight, At
        <4> QED BY <3>1, <3>3, <4>1, Flights DEF Forks
      <3> QED BY <2>1, <3>3, <3>4, RotationQuiet
    <2>3. CASE ~ (At(c, "revoke") /\ Kind(c) = "refresh")
      <3>1. UNCHANGED tokens BY <1>6, <2>3 DEF Crash
      <3>2. ~ (InFlight(c) /\ At(c, "revoke")) BY <2>3 DEF InFlight
      <3> QED BY <2>1, <3>1, <3>2, TokensUnchanged, RotationQuiet
    <2> QED BY <2>2, <2>3
  <1>7. ASSUME Tick \/ DayPasses \/ \E t \in Id : TokenExpires(t) PROVE RotationOK'
    <2>1. calls' = calls BY <1>7 DEF Tick, DayPasses, TokenExpires
    <2>2. TokensKept /\ Forks({})
      BY <1>7, OneEnds, TokensUnchanged DEF Tick, DayPasses, TokenExpires, Live
    <2>3. \A d \in Call : (InFlight(d)' <=> InFlight(d)) /\ (InFlight(d) => SameFlight(d))
      BY <2>1 DEF InFlight, SameFlight, At, Kind
    <2> QED BY <2>2, <2>3, RotationKept
  <1> QED BY <1>2, <1>3, <1>4, <1>5, <1>6, <1>7, Steps

-----------------------------------------------------------------------------
(* Statuses, and the counter's TTL. *)

\* Who is about to end the tokens of a user, or to commit, has found a status
\* that allows it and has not been overtaken since, or is marked.
InTurn(c) ==
    calls[c].pc \in {"revoke all", "commit"} /\ ~ calls[c].late =>
      users[calls[c].user].status \in Moderated(calls[c].kind)

TurnsOK == \A c \in Call : InTurn(c)

\* Nobody moderates at first.
LEMMA TurnsInit == Init => TurnsOK
  <1> SUFFICES ASSUME Init, NEW c \in Call
               PROVE  InTurn(c)
    BY DEF TurnsOK
  <1>1. calls[c] = Idle BY DEF Init
  <1>2. calls[c].pc = "idle" BY <1>1 DEF Idle
  <1> QED BY <1>2 DEF InTurn

\* A call that moderates, and its user.
LEMMA Moderator ==
  ASSUME AccessInv, NEW c \in Call, calls[c].pc \in {"moderate", "revoke all", "commit"}
  PROVE  /\ calls[c].user \in User /\ Registered(calls[c].user)
         /\ calls[c].kind \in {"block", "unblock", "delete"}
  BY CallFields, AtStep DEF Running, At, Moderating, CallType

\* As long as the user stays as it is, so does the turn of a call that waits.
LEMMA TurnKept ==
  ASSUME AccessInv, TurnsOK, NEW d \in Call, SameCall(d),
         calls[d].pc \in {"revoke all", "commit"} => users'[calls[d].user] = users[calls[d].user]
  PROVE  InTurn(d)'
  BY DEF TurnsOK, InTurn, SameCall

\* Only a check brings a call there.
LEMMA TurnsStep ==
  ASSUME AccessInv, TurnsOK, Next
  PROVE  TurnsOK'
  <1>1. ASSUME NEW c \in Call, ActsOn(c), users' = users, calls'[c].pc \notin {"revoke all", "commit"}
        PROVE  TurnsOK'
    <2>1. \A d \in Call \ {c} : InTurn(d)' BY <1>1, TurnKept DEF ActsOn
    <2>2. InTurn(c)' BY <1>1 DEF InTurn
    <2> QED BY <2>1, <2>2 DEF TurnsOK
  <1>2. ASSUME NEW c \in Call, Begins(c) \/ Sends(c) \/ Exchanges(c) \/ Crash(c) PROVE TurnsOK'
    <2>1. users' = users
      BY <1>2 DEF Begins, BeginRequestCode, BeginVerify, BeginWithToken, BeginModeration, Begin,
                  Sends, CountRequest, ExpireCounter, ForgetCode, SaveCode,
                  Exchanges, LoadToken, LoadLogout, CheckUser, AddToken, RevokeToken, Crash
    <2>2. calls'[c].pc \notin {"revoke all", "commit"} BY <1>2, Gets DEF Exchanges
    <2> QED BY <1>1, <1>2, <2>1, <2>2, OneActs
  <1>3. ASSUME NEW c \in Call, Enters(c) PROVE TurnsOK'
    <2>1. ActsOn(c) BY <1>3, OneActs
    <2>2. calls'[c].pc \notin {"revoke all", "commit"}
      <3>1. \A yes \in BOOLEAN : ReadCode(c, yes) => calls'[c].pc \notin {"revoke all", "commit"}
        BY ReadGets
      <3> QED BY <1>3, <3>1, Gets DEF Enters
    <2>3. ASSUME NEW u \in User, InsertUser(c, u) PROVE TurnsOK'
      <3>1. ~ Registered(u) BY <2>3 DEF InsertUser
      <3>2. \A v \in User : v # u => users'[v] = users[v] BY <2>3 DEF InsertUser, AccessInv, TypeOK
      <3>3. ASSUME NEW d \in Call \ {c} PROVE InTurn(d)'
        <4>1. calls[d].pc \in {"revoke all", "commit"} => users'[calls[d].user] = users[calls[d].user]
          BY <3>1, <3>2, Moderator
        <4> QED BY <2>1, <4>1, TurnKept DEF ActsOn
      <3>4. InTurn(c)' BY <2>2 DEF InTurn
      <3> QED BY <3>3, <3>4 DEF TurnsOK
    <2>4. CASE users' = users BY <1>1, <2>1, <2>2, <2>4
    <2> QED BY <1>3, <2>3, <2>4
            DEF Enters, ReadCode, CheckRegistration, CheckLogin, WrongCode, AcceptCode, Welcome
  <1>4. ASSUME NEW c \in Call, CheckModeration(c) PROVE TurnsOK'
    <2>1. ActsOn(c) /\ users' = users BY <1>4, OneActs DEF Moderates, CheckModeration
    <2>2. \A d \in Call \ {c} : InTurn(d)' BY <2>1, TurnKept DEF ActsOn
    <2>3. InTurn(c)'
      <3>1. CASE Finish(c) BY <3>1, CallTypes DEF Finish, Become, Idle, InTurn
      <3>2. CASE ~ Finish(c)
        <4>1. users[calls[c].user].status \in Moderated(calls[c].kind)
          BY <1>4, <3>2 DEF CheckModeration, Kind
        <4>2. calls'[c].user = calls[c].user /\ calls'[c].kind = calls[c].kind
          BY <1>4, <3>2, CallTypes DEF CheckModeration, GoTo, CallType
        <4> QED BY <2>1, <4>1, <4>2 DEF InTurn
      <3> QED BY <3>1, <3>2
    <2> QED BY <2>2, <2>3 DEF TurnsOK
  <1>5. ASSUME NEW c \in Call, RevokeAll(c) PROVE TurnsOK'
    <2>1. ActsOn(c) /\ users' = users BY <1>5, OneActs DEF Moderates, RevokeAll
    <2>2. \A d \in Call \ {c} : InTurn(d)' BY <2>1, TurnKept DEF ActsOn
    <2>3. InTurn(c)'
      <3>1. PICK y : y = [calls[c] EXCEPT !.pc = "commit", !.found = Theirs(calls[c].user)] OBVIOUS
      <3>2. y.user = calls[c].user /\ y.kind = calls[c].kind /\ y.late = calls[c].late
        BY <3>1, CallTypes DEF CallType
      <3>3. calls'[c] = y BY <1>5, <3>1, CallTypes DEF RevokeAll, Become
      <3> QED BY <1>5, <2>1, <3>2, <3>3 DEF TurnsOK, InTurn, RevokeAll, At
    <2> QED BY <2>2, <2>3 DEF TurnsOK
  <1>6. ASSUME NEW c \in Call, CommitModeration(c) PROVE TurnsOK'
    <2>1. ActsOn(c) /\ calls'[c].pc = "idle" BY <1>6, OneActs, Gets DEF Moderates
    <2>2. PICK u \in User : u = calls[c].user BY <1>6, Moderator DEF CommitModeration, At
    <2>3. \A v \in User : v # u => users'[v] = users[v] BY <1>6, <2>2, UsersEdited
    <2>4. ASSUME NEW d \in Call \ {c} PROVE InTurn(d)'
      <3>1. CASE calls[d].user = u /\ calls[d].pc \in {"revoke all", "commit"}
        <4>1. calls'[d] = [calls[d] EXCEPT !.late = TRUE]
          BY <1>6, <2>2, <3>1 DEF CommitModeration, Checked
        <4>2. calls'[d].late BY <4>1, CallTypes DEF CallType
        <4> QED BY <4>2 DEF InTurn
      <3>2. CASE ~ (calls[d].user = u /\ calls[d].pc \in {"revoke all", "commit"})
        BY <2>1, <2>3, <3>2, Moderator, TurnKept DEF ActsOn
      <3> QED BY <3>1, <3>2
    <2>5. InTurn(c)' BY <2>1 DEF InTurn
    <2> QED BY <2>4, <2>5 DEF TurnsOK
  <1>7. ASSUME Tick \/ DayPasses \/ \E t \in Id : TokenExpires(t) PROVE TurnsOK'
    BY <1>7 DEF Tick, DayPasses, TokenExpires, TurnsOK, InTurn
  <1> QED BY <1>2, <1>3, <1>4, <1>5, <1>6, <1>7, Steps DEF Moderates

\* The users' statuses change as the calls in turn want them to.
TurnTaken ==
    \A u \in User : Registered(u) /\ users'[u] # users[u] =>
      \E c \in Call : /\ At(c, "commit") /\ calls[c].user = u
                      /\ calls[c].late \/ users[u].status \in Moderated(Kind(c))

\* Only registration and moderation write to users, and registration adds.
LEMMA TurnsTaken ==
  ASSUME AccessInv, TurnsOK, [Next]_vars
  PROVE  TurnTaken
  <1> SUFFICES ASSUME NEW u \in User, Registered(u), users'[u] # users[u]
               PROVE  \E c \in Call : /\ At(c, "commit") /\ calls[c].user = u
                                      /\ calls[c].late \/ users[u].status \in Moderated(Kind(c))
    BY DEF TurnTaken
  <1>1. Next BY DEF vars
  <1>2. ~ \E c \in Call, v \in User : InsertUser(c, v)
    <2> SUFFICES ASSUME NEW c \in Call, NEW v \in User, InsertUser(c, v) PROVE FALSE OBVIOUS
    <2>1. v # u BY DEF InsertUser
    <2> QED BY <2>1 DEF InsertUser, AccessInv, TypeOK
  <1>3. PICK c \in Call : CommitModeration(c) /\ calls[c].user \in User BY <1>1, <1>2, UsersStep
  <1>4. calls[c].user = u BY <1>3, UsersEdited
  <1>5. At(c, "commit") BY <1>3 DEF CommitModeration
  <1>6. InTurn(c) BY DEF TurnsOK
  <1> QED BY <1>4, <1>5, <1>6 DEF InTurn, At, Kind

\* The loss of the counter's TTL is the death of the call that was to set it.
LeftUntended == Tended /\ ~ Tended' => \E c \in Call : At(c, "expire") /\ calls'[c] = Idle

\* INCR leaves a TTL as it is, and who makes the counter goes on to EXPIRE.
LEMMA CounterLeft ==
  ASSUME AccessInv, [Next]_vars
  PROVE  LeftUntended
  <1> SUFFICES ASSUME Tended, \A c \in Call : At(c, "expire") => calls'[c] # Idle
               PROVE  Tended'
    BY DEF LeftUntended
  <1>1. ASSUME NEW c \in Call, ActsOn(c), ~ At(c, "expire"), counter' = counter PROVE Tended'
    BY <1>1 DEF Tended, At, ActsOn, SameCall
  <1>2. ASSUME NEW c \in Call, NEW limit \in Limits, CountRequest(c, limit) PROVE Tended'
    <2>1. ActsOn(c) /\ ~ At(c, "expire") BY <1>2, OneActs DEF Sends, CountRequest, At
    <2>2. CASE limit = 0 BY <1>1, <1>2, <2>1, <2>2 DEF CountRequest
    <2>3. CASE limit # 0 /\ counter = None
      <3>1. GoTo(c, "expire") BY <1>2, <2>3 DEF CountRequest
      <3>2. calls'[c].pc = "expire" BY <3>1, CallTypes DEF GoTo, CallType
      <3> QED BY <3>2 DEF Tended, At
    <2>4. CASE limit # 0 /\ counter # None
      <3>1. counter \in Counter BY <2>4 DEF AccessInv, TypeOK
      <3>2. counter'.expires = counter.expires BY <1>2, <2>4, <3>1 DEF CountRequest, Counter
      <3> QED BY <2>1, <2>4, <3>2 DEF Tended, At, ActsOn, SameCall
    <2> QED BY <2>2, <2>3, <2>4
  <1>3. ASSUME NEW c \in Call, ExpireCounter(c) PROVE Tended'
    <2>1. CASE counter = None BY <1>3, <2>1 DEF ExpireCounter, Tended
    <2>2. CASE counter # None
      <3>1. counter \in Counter BY <2>2 DEF AccessInv, TypeOK
      <3>2. counter'.expires BY <1>3, <2>2, <3>1 DEF ExpireCounter, Counter
      <3> QED BY <3>2 DEF Tended
    <2> QED BY <2>1, <2>2
  <1>4. ASSUME NEW c \in Call, Crash(c) PROVE Tended'
    <2>1. calls'[c] = Idle /\ ActsOn(c) BY <1>4, Gets, OneActs
    <2> QED BY <1>1, <1>4, <2>1 DEF Crash
  <1>5. ASSUME NEW c \in Call, Begins(c) \/ Enters(c) \/ Exchanges(c) \/ Moderates(c)
                               \/ ForgetCode(c) \/ SaveCode(c)
        PROVE  Tended'
    <2>1. ActsOn(c) BY <1>5, OneActs DEF Sends
    <2>2. counter' = counter /\ ~ At(c, "expire")
      BY <1>5 DEF Begins, BeginRequestCode, BeginVerify, BeginWithToken, BeginModeration, Begin,
                  Enters, ReadCode, CheckRegistration, CheckLogin, WrongCode, AcceptCode, Welcome,
                  InsertUser, Exchanges, LoadToken, LoadLogout, CheckUser, AddToken, RevokeToken,
                  Moderates, CheckModeration, RevokeAll, CommitModeration, ForgetCode, SaveCode, At
    <2> QED BY <1>1, <2>1, <2>2
  <1>6. CASE Tick \/ \E t \in Id : TokenExpires(t)
    BY <1>6 DEF Tick, TokenExpires, Tended, At
  <1>7. CASE DayPasses BY <1>7 DEF DayPasses, Tended
  <1>8. CASE UNCHANGED vars BY <1>8 DEF vars, Tended, At
  <1> QED BY <1>2, <1>3, <1>4, <1>5, <1>6, <1>7, <1>8, Steps DEF Sends

-----------------------------------------------------------------------------
(* The theorems. *)

\* The invariant is inductive.
LEMMA AccessStep ==
  ASSUME AccessInv, [Next]_vars
  PROVE  AccessInv'
  <1>1. CASE Next
    BY <1>1, TypeStep, CallsStep, CounterStep, CodesStep, AccountsStep, RotationStep DEF AccessInv
  <1>2. CASE UNCHANGED vars
    <2>1. TypeOK' BY <1>2 DEF AccessInv, TypeOK, vars, Registered
    <2>2. CallsOK'
      <3>1. ASSUME NEW c \in Call PROVE CallOK(calls[c])'
        <4>1. /\ Coding(calls[c]) => Coding(calls[c])'
              /\ Entering(calls[c]) => Entering(calls[c])'
              /\ Exchanging(calls[c]) => Exchanging(calls[c])'
              /\ Moderating(calls[c]) => Moderating(calls[c])'
          BY <1>2 DEF vars, Coding, Entering, Exchanging, Moderating, Registered
        <4>2. CallOK(calls[c]) /\ calls' = calls /\ requests' = requests
          BY <1>2, CallFields DEF vars
        <4> QED BY <4>1, <4>2 DEF CallOK
      <3>2. calls' = calls /\ codes' = codes /\ tokens' = tokens /\ requests' = requests
        BY <1>2 DEF vars
      <3> QED BY <3>1, <3>2 DEF AccessInv, CallsOK, Running, At
    <2>3. Counted' BY <1>2 DEF AccessInv, Counted, vars, Waiting, Count, At
    <2>4. CodesOK' BY <1>2 DEF AccessInv, CodesOK, vars, Tame, InRedis, Reads
    <2>5. AccountsOK'
      BY <1>2 DEF AccessInv, AccountsOK, RevokedWithAccount, vars, At, Kind, Live, MayStay
    <2>6. RotationOK'
      BY <1>2 DEF AccessInv, RotationOK, vars, Live, Kin, InFlight, Rotating, At, Kind
    <2> QED BY <2>1, <2>2, <2>3, <2>4, <2>5, <2>6 DEF AccessInv
  <1> QED BY <1>1, <1>2

\* The strengthening of the invariants is an invariant.
THEOREM AccessInvariant == Spec => []AccessInv
  BY AccessInit, AccessStep, PTL DEF Spec

\* Types, one account for the phone, and no row without the row it refers to,
\* however the requests that write them overlap or die.
THEOREM AccessTyped == Spec => []TypeOK
  <1>1. AccessInv => TypeOK BY DEF AccessInv
  <1> QED BY <1>1, AccessInvariant, PTL

\* verify_code: a code whose verifications do not overlap is accepted once at
\* most, MAX_ATTEMPTS others at most are tried for it, and it is in Redis for
\* its TTL and that of each wrong one.
THEOREM CodesKeepBudget == Spec => []CodeBudget
  <1>1. AccessInv => CodeBudget
    <2> SUFFICES ASSUME AccessInv, NEW n \in Id, codes[n] # None, ~ codes[n].raced
                 PROVE  /\ codes[n].accepted <= 1 /\ codes[n].tries <= MAX_ATTEMPTS
                        /\ InRedis(n) => codes[n].age < CodeTTL * (codes[n].tries + 1)
      BY DEF CodeBudget, InRedis
    <2>1. Tame(n) BY DEF AccessInv, CodesOK
    <2>2. ASSUME InRedis(n) PROVE codes[n].age < CodeTTL * (codes[n].tries + 1)
      <3>1. otp.left \in 1..CodeTTL BY <2>2 DEF AccessInv, TypeOK, Otp, InRedis
      <3>2. codes[n].age \in Nat /\ codes[n].tries \in Nat /\ CodeTTL \in Nat
        BY CodeFields, AccessAssumption
      <3>3. PICK budget \in Nat : budget = CodeTTL * (codes[n].tries + 1) BY <3>2, OneMore
      <3>4. codes[n].age + otp.left <= budget BY <2>1, <2>2, <3>3 DEF Tame
      <3> QED BY <3>1, <3>2, <3>3, <3>4
    <2> QED BY <2>1, <2>2 DEF Tame
  <1> QED BY <1>1, AccessInvariant, PTL

\* _revoke_user_refresh_tokens and the commit of the status: nobody who is not
\* active holds a live token but one whose call had checked the user before.
THEOREM TokensEndWithAccount == Spec => []RevokedWithAccount
  <1>1. AccessInv => RevokedWithAccount BY DEF AccessInv, AccountsOK
  <1> QED BY <1>1, AccessInvariant, PTL

\* refresh: a login has one live token, or the two of the refresh that is about
\* to revoke one of them, until refreshes of one token overlap or one dies.
THEOREM TokensRotate == Spec => []RotatedOnce
  <1>1. AccessInv => RotatedOnce
    <2> SUFFICES ASSUME AccessInv, NEW s \in Id, NEW t \in Id, Live(s), Live(t), s # t,
                        tokens[s].root = tokens[t].root, ~ tokens[t].forked
                 PROVE  \E c \in Call : /\ Kind(c) = "refresh" /\ At(c, "revoke")
                                        /\ {s, t} = {calls[c].on, calls[c].id}
      BY DEF RotatedOnce
    <2>1. Kin(s, t) BY DEF Kin, Live
    <2>2. Rotating(s, t) BY <2>1, RotationParts
    <2> QED BY <2>2 DEF Rotating, InFlight
  <1> QED BY <1>1, AccessInvariant, PTL

\* block, unblock and delete: a status goes where the check allows it to, but
\* for a call overtaken by another moderation of the same user.
THEOREM StatusesInTurn == Spec => ModeratedInTurn
  <1>1. AccessInv /\ TurnsOK /\ [Next]_vars => TurnsOK'
    <2>1. CASE Next BY <2>1, TurnsStep
    <2>2. CASE UNCHANGED vars BY <2>2 DEF vars, TurnsOK, InTurn
    <2> QED BY <2>1, <2>2
  <1>2. AccessInv /\ TurnsOK /\ [Next]_vars =>
          [\A u \in User : Registered(u) /\ users'[u] # users[u] =>
             \E c \in Call : /\ At(c, "commit") /\ calls[c].user = u
                             /\ calls[c].late \/ users[u].status \in Moderated(Kind(c))]_vars
    BY TurnsTaken DEF TurnTaken
  <1> QED BY <1>1, <1>2, TurnsInit, AccessInvariant, PTL DEF Spec, ModeratedInTurn

\* _enforce_sms_daily_limit: a counter stays without a TTL only if the request
\* that made it dies before its EXPIRE.
THEOREM CounterLosesNoTTL == Spec => CounterTended
  <1>1. AccessInv /\ [Next]_vars =>
          [Tended /\ ~ Tended' => \E c \in Call : At(c, "expire") /\ calls'[c] = Idle]_vars
    BY CounterLeft DEF LeftUntended
  <1> QED BY <1>1, AccessInvariant, PTL DEF Spec, CounterTended
=============================================================================
