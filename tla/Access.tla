-------------------------------- MODULE Access --------------------------------
(***************************************************************************)
(* How a user gets in: the daily limit and the one-time code in Redis,     *)
(* registration and login with the code, refresh tokens and their          *)
(* rotation, and the moderation that takes them away.  There is one phone; *)
(* the users are those who hold it one after another.  A request is a call *)
(* that talks to Redis and PostgreSQL, one action at a time; calls overlap *)
(* and may die.                                                            *)
(***************************************************************************)
EXTENDS Naturals, FiniteSets

CONSTANTS
    Call,         \* requests that overlap
    MAX_ATTEMPTS, \* CodeManager.MAX_ATTEMPTS
    CodeTTL,      \* CODE_TTL_SECONDS, in ticks of the clock
    Limits,       \* values of sms_daily_limit_per_user; 0 is none
    MaxUsers,     \* bound on the users ever registered
    MaxRequests,  \* bound on the requests ever made
    None          \* no value

ASSUME AccessAssumption ==
    /\ MAX_ATTEMPTS \in Nat \ {0} /\ CodeTTL \in Nat \ {0}
    /\ Limits \subseteq Nat
    /\ MaxUsers \in Nat \ {0} /\ MaxRequests \in Nat
    /\ None \notin Nat

VARIABLES
    counter,  \* Redis sms_daily:{phone}
    otp,      \* Redis otp:{phone}
    codes,    \* the code of each request for one, and what became of it
    users,    \* the users table
    tokens,   \* the refresh_tokens table, by the request that added the row
    calls,    \* what every request is doing
    requests  \* requests made so far

vars == <<counter, otp, codes, users, tokens, calls, requests>>

User == 1..MaxUsers
Id == 0..MaxRequests \* requests; token 0 is there before them

Counter == [count : 1..MaxRequests, expires : BOOLEAN]

\* A code is known by the request that made it; left: ticks of its TTL.
Otp == [code : Id, attempts : 0..(MAX_ATTEMPTS - 1), left : 1..CodeTTL]

\* History of a code: how often it was accepted, wrong codes entered instead
\* of it, ticks it was in Redis, and whether verifications overlapped.
Code == [accepted : Nat, tries : Nat, age : Nat, raced : BOOLEAN]
NewCode == [accepted |-> 0, tries |-> 0, age |-> 0, raced |-> FALSE]

UserRow == [status : {"active", "blocked", "deleted"}, phone : BOOLEAN]

\* root: the login a token goes back to; forked: refreshes of its tokens have
\* overlapped or died; late: the call that added the row had checked the user
\* before the commit of a moderation.
TokenRow == [user : User, state : {"live", "expired", "revoked"}, root : Id,
             forked : BOOLEAN, late : BOOLEAN]

\* id: the request; code, attempts: as read from Redis; on: the token that
\* is refreshed or logged out; late: a moderation of the user has been
\* committed since the call checked the user.
Idle == [pc |-> "idle", kind |-> "none", id |-> 0, code |-> None, attempts |-> 0,
         user |-> None, on |-> None, found |-> {}, late |-> FALSE]

ASSUME NoValue == None \notin Counter \cup Otp \cup Code \cup UserRow \cup TokenRow

Live(t) == tokens[t] # None /\ tokens[t].state = "live"
Registered(u) == users[u] # None

TypeOK ==
    /\ counter \in Counter \cup {None}
    /\ otp \in Otp \cup {None}
    /\ codes \in [Id -> Code \cup {None}]
    /\ otp # None => codes[otp.code] # None
    /\ users \in [User -> UserRow \cup {None}]
    /\ \A u, v \in User :
         Registered(u) /\ Registered(v) /\ users[u].phone /\ users[v].phone => u = v
    /\ tokens \in [Id -> TokenRow \cup {None}]
    /\ \A t \in Id : tokens[t] # None => Registered(tokens[t].user)
    /\ requests \in 0..MaxRequests

\* Nobody is registered, or the first user is, with a token.
Init ==
    /\ counter = None
    /\ otp = None
    /\ codes = [n \in Id |-> None]
    /\ calls = [c \in Call |-> Idle]
    /\ requests = 0
    /\ \/ /\ users = [u \in User |-> None]
          /\ tokens = [t \in Id |-> None]
       \/ /\ users = [u \in User |-> IF u = 1 THEN [status |-> "active", phone |-> TRUE] ELSE None]
          /\ tokens = [t \in Id |-> IF t = 0 THEN [user |-> 1, state |-> "live", root |-> 0,
                                                   forked |-> FALSE, late |-> FALSE] ELSE None]

-----------------------------------------------------------------------------
At(c, pc) == calls[c].pc = pc
Kind(c) == calls[c].kind
Running(c) == ~ At(c, "idle")

Begin(c, call) ==
    /\ At(c, "idle")
    /\ requests < MaxRequests
    /\ requests' = requests + 1
    /\ calls' = [calls EXCEPT ![c] = [call EXCEPT !.id = requests + 1]]
    /\ UNCHANGED <<counter, otp, codes, users, tokens>>

Become(c, call) == calls' = [calls EXCEPT ![c] = call]
GoTo(c, pc) == calls' = [calls EXCEPT ![c].pc = pc]
Finish(c) == Become(c, Idle)

-----------------------------------------------------------------------------
(* POST /auth/request-code/: _enforce_sms_daily_limit and new_code. *)

BeginRequestCode(c) == Begin(c, [Idle EXCEPT !.pc = "count", !.kind = "code"])

\* Mutant of CountRequest: EXPIRE if the answer of INCR is zero.
CountRequestFromZero(c, limit) ==
    LET count == IF counter = None THEN 1 ELSE counter.count + 1 IN
    /\ At(c, "count")
    /\ IF limit = 0
       THEN GoTo(c, "forget") /\ UNCHANGED counter
       ELSE /\ counter' = IF counter = None THEN [count |-> 1, expires |-> FALSE]
                          ELSE [counter EXCEPT !.count = count]
            /\ IF count = 0 THEN GoTo(c, "expire")
               ELSE IF count > limit THEN Finish(c) ELSE GoTo(c, "forget")
    /\ UNCHANGED <<otp, codes, users, tokens, requests>>

\* INCR; a limit of zero is no limit.
CountRequest(c, limit) ==
    LET count == IF counter = None THEN 1 ELSE counter.count + 1 IN
    /\ At(c, "count")
    /\ IF limit = 0
       THEN GoTo(c, "forget") /\ UNCHANGED counter
       ELSE /\ counter' = IF counter = None THEN [count |-> 1, expires |-> FALSE]
                          ELSE [counter EXCEPT !.count = count]
            /\ IF count = 1 THEN GoTo(c, "expire")
               ELSE IF count > limit THEN Finish(c) ELSE GoTo(c, "forget")
    /\ UNCHANGED <<otp, codes, users, tokens, requests>>

\* EXPIRE, after the first INCR only.
ExpireCounter(c) ==
    /\ At(c, "expire")
    /\ counter' = IF counter = None THEN None ELSE [counter EXCEPT !.expires = TRUE]
    /\ GoTo(c, "forget")
    /\ UNCHANGED <<otp, codes, users, tokens, requests>>

ForgetCode(c) ==
    /\ At(c, "forget")
    /\ otp' = None
    /\ GoTo(c, "save")
    /\ UNCHANGED <<counter, codes, users, tokens, requests>>

\* _save_code; the SMS then reaches the user or not, and the code is kept.
SaveCode(c) ==
    /\ At(c, "save")
    /\ otp' = [code |-> calls[c].id, attempts |-> 0, left |-> CodeTTL]
    /\ codes' = [codes EXCEPT ![calls[c].id] = NewCode]
    /\ Finish(c)
    /\ UNCHANGED <<counter, users, tokens, requests>>

-----------------------------------------------------------------------------
(* CodeManager.verify_code *)

BeginVerify(c, kind) == Begin(c, [Idle EXCEPT !.pc = "get", !.kind = kind])

\* Another verification holds what it has read of the same code.
Racing(c, code) ==
    \E d \in Call \ {c} : calls[d].pc \in {"wrong", "right"} /\ calls[d].code = code

ReadCode(c, right) ==
    /\ At(c, "get")
    /\ IF otp = None THEN Finish(c) /\ UNCHANGED codes
       ELSE /\ Become(c, [calls[c] EXCEPT !.pc = IF right THEN "right" ELSE "wrong",
                            !.code = otp.code, !.attempts = otp.attempts])
            /\ codes' = [codes EXCEPT ![otp.code].raced = @ \/ Racing(c, otp.code)]
    /\ UNCHANGED <<counter, otp, users, tokens, requests>>

\* Mutant of WrongCode: the attempt is not written back.
WrongCodeUncounted(c) ==
    /\ At(c, "wrong")
    /\ otp' = [code |-> calls[c].code, attempts |-> calls[c].attempts, left |-> CodeTTL]
    /\ codes' = [codes EXCEPT ![calls[c].code].tries = @ + 1]
    /\ Finish(c)
    /\ UNCHANGED <<counter, users, tokens, requests>>

\* The record goes back with one more attempt and the whole TTL, or is
\* deleted with the last.
WrongCode(c) ==
    LET attempts == calls[c].attempts + 1 IN
    /\ At(c, "wrong")
    /\ otp' = IF attempts >= MAX_ATTEMPTS THEN None
              ELSE [code |-> calls[c].code, attempts |-> attempts, left |-> CodeTTL]
    /\ codes' = [codes EXCEPT ![calls[c].code].tries = @ + 1]
    /\ Finish(c)
    /\ UNCHANGED <<counter, users, tokens, requests>>

AcceptCode(c) ==
    /\ At(c, "right")
    /\ otp' = None
    /\ codes' = [codes EXCEPT ![calls[c].code].accepted = @ + 1]
    /\ GoTo(c, "check")
    /\ UNCHANGED <<counter, users, tokens, requests>>

-----------------------------------------------------------------------------
(* register and login, once the code is accepted *)

Holders == {u \in User : Registered(u) /\ users[u].phone}

\* _ensure_phone_unique and _resolve_referrer_id; the code is used up anyway.
CheckRegistration(c, linkValid) ==
    /\ At(c, "check")
    /\ Kind(c) = "register"
    /\ IF Holders = {} /\ linkValid THEN GoTo(c, "insert") ELSE Finish(c)
    /\ UNCHANGED <<counter, otp, codes, users, tokens, requests>>

\* Mutant of InsertUser: the phone is not UNIQUE.
InsertUserAnyPhone(c, u) ==
    /\ At(c, "insert")
    /\ ~ Registered(u) /\ \A v \in 1..(u - 1) : Registered(v)
    /\ users' = [users EXCEPT ![u] = [status |-> "active", phone |-> TRUE]]
    /\ Become(c, [calls[c] EXCEPT !.pc = "welcome", !.user = u])
    /\ UNCHANGED <<counter, otp, codes, tokens, requests>>

\* The row is committed, or the phone has been taken since.
InsertUser(c, u) ==
    /\ At(c, "insert")
    /\ ~ Registered(u) /\ \A v \in 1..(u - 1) : Registered(v)
    /\ IF Holders # {} THEN Finish(c) /\ UNCHANGED users
       ELSE /\ users' = [users EXCEPT ![u] = [status |-> "active", phone |-> TRUE]]
            /\ Become(c, [calls[c] EXCEPT !.pc = "welcome", !.user = u])
    /\ UNCHANGED <<counter, otp, codes, tokens, requests>>

\* The welcome message is queued and committed on its own.
Welcome(c) ==
    /\ At(c, "welcome")
    /\ GoTo(c, "token")
    /\ UNCHANGED <<counter, otp, codes, users, tokens, requests>>

CheckLogin(c, passwordRight) ==
    /\ At(c, "check")
    /\ Kind(c) = "login"
    /\ IF passwordRight /\ \E u \in Holders : users[u].status = "active"
       THEN \E u \in Holders : Become(c, [calls[c] EXCEPT !.pc = "token", !.user = u])
       ELSE Finish(c)
    /\ UNCHANGED <<counter, otp, codes, users, tokens, requests>>

-----------------------------------------------------------------------------
(* refresh and logout *)

BeginWithToken(c, kind, t) ==
    /\ kind \in {"refresh", "logout"}
    /\ tokens[t] # None
    /\ \A d \in Call : Running(d) => calls[d].id # t \* its owner has been told
    /\ Begin(c, [Idle EXCEPT !.pc = "load", !.kind = kind, !.on = t])

\* A second refresh of the same token is under way.
Forking(c, t) == \E d \in Call \ {c} : Kind(d) = "refresh" /\ calls[d].on = t /\ ~ At(d, "load")

ForkedRoot(root) ==
    [t \in Id |-> IF tokens[t] # None /\ tokens[t].root = root
                  THEN [tokens[t] EXCEPT !.forked = TRUE] ELSE tokens[t]]

\* Mutant of LoadToken: is_revoked is not asked for.
LoadTokenRevoked(c) ==
    LET t == calls[c].on IN
    /\ At(c, "load")
    /\ Kind(c) = "refresh"
    /\ IF tokens[t].state # "expired"
       THEN /\ Become(c, [calls[c] EXCEPT !.pc = "user", !.user = tokens[t].user])
            /\ tokens' = IF Forking(c, t) THEN ForkedRoot(tokens[t].root) ELSE tokens
       ELSE Finish(c) /\ UNCHANGED tokens
    /\ UNCHANGED <<counter, otp, codes, users, requests>>

LoadToken(c) ==
    LET t == calls[c].on IN
    /\ At(c, "load")
    /\ Kind(c) = "refresh"
    /\ IF Live(t)
       THEN /\ Become(c, [calls[c] EXCEPT !.pc = "user", !.user = tokens[t].user])
            /\ tokens' = IF Forking(c, t) THEN ForkedRoot(tokens[t].root) ELSE tokens
       ELSE Finish(c) /\ UNCHANGED tokens
    /\ UNCHANGED <<counter, otp, codes, users, requests>>

\* logout takes any token, revoked or not.
LoadLogout(c) ==
    /\ At(c, "load")
    /\ Kind(c) = "logout"
    /\ GoTo(c, "revoke")
    /\ UNCHANGED <<counter, otp, codes, users, tokens, requests>>

CheckUser(c) ==
    /\ At(c, "user")
    /\ IF users[calls[c].user].status = "active" THEN GoTo(c, "token") ELSE Finish(c)
    /\ UNCHANGED <<counter, otp, codes, users, tokens, requests>>

\* A block or deletion of u has found the tokens and is not yet committed.
Closing(u) == \E d \in Call : At(d, "commit") /\ calls[d].user = u

\* _create_refresh_token, a commit of its own.
AddToken(c) ==
    LET call == calls[c]
        old == IF call.on = None THEN None ELSE tokens[call.on]
    IN  /\ At(c, "token")
        /\ tokens' = [tokens EXCEPT ![call.id] =
             [user |-> call.user, state |-> "live",
              root |-> IF old = None THEN call.id ELSE old.root,
              forked |-> old # None /\ old.forked,
              late |-> call.late \/ Closing(call.user)]]
        /\ IF old = None THEN Finish(c) ELSE GoTo(c, "revoke")
        /\ UNCHANGED <<counter, otp, codes, users, requests>>

RevokeToken(c) ==
    /\ At(c, "revoke")
    /\ tokens' = [tokens EXCEPT ![calls[c].on].state = "revoked"]
    /\ Finish(c)
    /\ UNCHANGED <<counter, otp, codes, users, requests>>

-----------------------------------------------------------------------------
(* POST /admin/users/{id}/block/, /unblock/, DELETE /admin/users/{id}/ *)

BeginModeration(c, kind, u) ==
    /\ kind \in {"block", "unblock", "delete"}
    /\ Registered(u)
    /\ Begin(c, [Idle EXCEPT !.pc = "moderate", !.kind = kind, !.user = u])

Moderated(kind) ==
    CASE kind = "block" -> {"active"}
      [] kind = "unblock" -> {"blocked"}
      [] kind = "delete" -> {"active", "blocked"}

\* Mutant of CheckModeration: a status that does not allow it is no conflict.
CheckModerationAny(c) ==
    /\ At(c, "moderate")
    /\ GoTo(c, IF Kind(c) = "unblock" THEN "commit" ELSE "revoke all")
    /\ UNCHANGED <<counter, otp, codes, users, tokens, requests>>

CheckModeration(c) ==
    /\ At(c, "moderate")
    /\ IF users[calls[c].user].status \notin Moderated(Kind(c)) THEN Finish(c)
       ELSE GoTo(c, IF Kind(c) = "unblock" THEN "commit" ELSE "revoke all")
    /\ UNCHANGED <<counter, otp, codes, users, tokens, requests>>

Theirs(u) == {t \in Id : tokens[t] # None /\ tokens[t].user = u}

\* Mutant of RevokeAll: the user's tokens stay.
RevokeNone(c) ==
    /\ At(c, "revoke all")
    /\ GoTo(c, "commit")
    /\ UNCHANGED <<counter, otp, codes, users, tokens, requests>>

\* _revoke_user_refresh_tokens: one UPDATE of the rows it finds, committed
\* with the status, which is flushed after it; rows added later are not touched.
RevokeAll(c) ==
    /\ At(c, "revoke all")
    /\ Become(c, [calls[c] EXCEPT !.pc = "commit", !.found = Theirs(calls[c].user)])
    /\ UNCHANGED <<counter, otp, codes, users, tokens, requests>>

NewRow(kind, row) ==
    CASE kind = "block" -> [row EXCEPT !.status = "blocked"]
      [] kind = "unblock" -> [row EXCEPT !.status = "active"]
      [] kind = "delete" -> [status |-> "deleted", phone |-> FALSE]

\* Where a call is when it has checked the user's status and not acted on it.
Checked == {"welcome", "token", "revoke all", "commit"}

CommitModeration(c) ==
    LET u == calls[c].user IN
    /\ At(c, "commit")
    /\ users' = [users EXCEPT ![u] = NewRow(Kind(c), @)]
    /\ tokens' = [t \in Id |-> IF t \in calls[c].found
                               THEN [tokens[t] EXCEPT !.state = "revoked"] ELSE tokens[t]]
    /\ calls' = [d \in Call |->
                    IF d = c THEN Idle
                    ELSE IF calls[d].user = u /\ calls[d].pc \in Checked
                    THEN [calls[d] EXCEPT !.late = TRUE] ELSE calls[d]]
    /\ UNCHANGED <<counter, otp, codes, requests>>

-----------------------------------------------------------------------------
\* A call dies; what it has committed stays.  Between the two commits of a
\* refresh both tokens are left valid.
Crash(c) ==
    /\ Running(c)
    /\ tokens' = IF At(c, "revoke") /\ Kind(c) = "refresh"
                 THEN ForkedRoot(tokens[calls[c].on].root) ELSE tokens
    /\ Finish(c)
    /\ UNCHANGED <<counter, otp, codes, users, requests>>

Tick ==
    /\ otp # None
    /\ otp' = IF otp.left = 1 THEN None ELSE [otp EXCEPT !.left = @ - 1]
    /\ codes' = [codes EXCEPT ![otp.code].age = @ + 1]
    /\ UNCHANGED <<counter, users, tokens, calls, requests>>

DayPasses ==
    /\ counter # None /\ counter.expires
    /\ otp = None
    /\ counter' = None
    /\ UNCHANGED <<otp, codes, users, tokens, calls, requests>>

TokenExpires(t) ==
    /\ Live(t)
    /\ tokens' = [tokens EXCEPT ![t].state = "expired"]
    /\ UNCHANGED <<counter, otp, codes, users, calls, requests>>

Next ==
    \/ \E c \in Call :
        \/ BeginRequestCode(c)
        \/ \E limit \in Limits : CountRequest(c, limit)
        \/ ExpireCounter(c)
        \/ ForgetCode(c)
        \/ SaveCode(c)
        \/ \E kind \in {"register", "login"} : BeginVerify(c, kind)
        \/ \E yes \in BOOLEAN :
             ReadCode(c, yes) \/ CheckRegistration(c, yes) \/ CheckLogin(c, yes)
        \/ WrongCode(c)
        \/ AcceptCode(c)
        \/ Welcome(c)
        \/ \E kind \in {"refresh", "logout"}, t \in Id : BeginWithToken(c, kind, t)
        \/ LoadToken(c)
        \/ LoadLogout(c)
        \/ CheckUser(c)
        \/ AddToken(c)
        \/ RevokeToken(c)
        \/ \E u \in User :
            \/ InsertUser(c, u)
            \/ \E kind \in {"block", "unblock", "delete"} : BeginModeration(c, kind, u)
        \/ CheckModeration(c)
        \/ RevokeAll(c)
        \/ CommitModeration(c)
        \/ Crash(c)
    \/ Tick
    \/ DayPasses
    \/ \E t \in Id : TokenExpires(t)

Spec == Init /\ [][Next]_vars

-----------------------------------------------------------------------------
\* "TTL 5 минут, до 5 попыток ввода" (app/services/code_generator_service.py:13):
\* while no two verifications of a code overlap, it is accepted at most once,
\* at most MAX_ATTEMPTS others are tried for it, and Redis keeps it for one TTL
\* more with each of them.
CodeBudget ==
    \A n \in Id : codes[n] # None /\ ~ codes[n].raced =>
        /\ codes[n].accepted <= 1
        /\ codes[n].tries <= MAX_ATTEMPTS
        /\ otp # None /\ otp.code = n => codes[n].age < CodeTTL * (codes[n].tries + 1)

\* Whoever is blocked or deleted is left with no refresh token, except one
\* that a login or refresh was about to add when the tokens were revoked.
RevokedWithAccount ==
    \A t \in Id : Live(t) /\ users[tokens[t].user].status # "active" => tokens[t].late

\* A login has one live refresh token at a time, whatever is made of the old
\* ones, unless refreshes of one token overlapped, or one died between its two
\* commits; between them both tokens of that refresh are live.
RotatedOnce ==
    \A s, t \in Id :
        Live(s) /\ Live(t) /\ s # t /\ tokens[s].root = tokens[t].root =>
            \/ tokens[t].forked
            \/ \E c \in Call : /\ Kind(c) = "refresh" /\ At(c, "revoke")
                              /\ {s, t} = {calls[c].on, calls[c].id}

\* An account goes from active to blocked and back, and from both to deleted,
\* for good, except by a call that has been overtaken: another moderation of
\* the user was committed after it had checked the status.
ModeratedInTurn ==
    [][\A u \in User : Registered(u) /\ users'[u] # users[u] =>
         \E c \in Call : /\ At(c, "commit") /\ calls[c].user = u
                         /\ calls[c].late \/ users[u].status \in Moderated(Kind(c))]_vars

\* The daily counter has a TTL, or the request that gives it one is on its way.
Tended == counter = None \/ counter.expires \/ \E c \in Call : At(c, "expire")

\* Nothing but the death of that request, between INCR and EXPIRE, leaves the
\* phone with a counter that stays.
CounterTended ==
    [][Tended /\ ~ Tended' => \E c \in Call : At(c, "expire") /\ calls'[c] = Idle]_vars
=============================================================================
