-------------------------------- MODULE Staff --------------------------------
(***************************************************************************)
(* The support agents: the owner made by the deployment script, the        *)
(* administrators and managers, their invitations, and the requests that   *)
(* change them.  Every request reads its actor's row, then the row it is   *)
(* about, and then commits; other requests may commit in between.  An      *)
(* UPDATE writes the columns that differ from what was read.               *)
(***************************************************************************)
EXTENDS Naturals, FiniteSets

CONSTANTS
    Agent,      \* logins
    Owner,      \* OWNER_LOGIN
    Admin,      \* administrators who may be there at the start
    Call,       \* requests that overlap
    Absent,     \* no row
    Nobody,     \* the actor of a request that needs no token
    Patched,    \* the sets of columns a patch may set at once
    Granted,    \* whether an invitation may come with permissions
    MaxRequests \* bound on the requests ever made

ASSUME StaffAssumption ==
    /\ Owner \in Agent
    /\ Admin \subseteq Agent \ {Owner}
    /\ Nobody \notin Agent
    /\ Patched \subseteq SUBSET {"password", "active", "permitted"}
    /\ Granted \subseteq BOOLEAN
    /\ MaxRequests \in Nat

VARIABLES
    agents,  \* the support_agents table, by login
    tokens,  \* the agents who hold an access token that has not expired
    calls,   \* what every request is doing
    requests \* requests made so far

vars == <<agents, tokens, calls, requests>>

Role == {"manager", "admin"}

\* password: somebody knows it; permitted: has permissions; by: who made the
\* row (invited_by_admin_id, and create_support_agent's caller).
AgentRow == [role : Role, owner : BOOLEAN, active : BOOLEAN, permitted : BOOLEAN,
             password : BOOLEAN, invite : {"none", "valid", "expired"},
             by : Agent \cup {Nobody}]

ASSUME AbsentAssumption == Absent \notin AgentRow

\* What PATCH /support-agents/{id}/ may ask for.
Patch == {p \in UNION {[columns -> BOOLEAN] : columns \in Patched} :
            "password" \in DOMAIN p => p["password"]}

Only(column, value) == [x \in {column} |-> value]

\* kind: the endpoint; set: the columns it assigns; row: the row it inserts.
Request ==
    [kind : {"patch"}, target : Agent, set : Patch]
      \cup [kind : {"delete", "block"}, target : Agent, set : {Only("active", FALSE)}]
      \cup [kind : {"unblock"}, target : Agent, set : {Only("active", TRUE)}]
      \cup [kind : {"permissions"}, target : Agent,
            set : {Only("permitted", yes) : yes \in BOOLEAN}]

\* SupportAgent rows as the three endpoints that insert them build them.
NewAgent(role, permitted, invite, by) ==
    [role |-> role, owner |-> FALSE, active |-> TRUE, permitted |-> permitted,
     password |-> (invite = "none"), invite |-> invite, by |-> by]
OwnerRow == [NewAgent("admin", FALSE, "none", Nobody) EXCEPT !.owner = TRUE]

\* grace is history: the actor was deactivated while the call was running.
Idle == [pc |-> "idle", actor |-> Nobody, request |-> [kind |-> "none"],
         seen |-> Absent, grace |-> FALSE]

Exists(a) == agents[a] # Absent
IsActive(a) == Exists(a) /\ agents[a].active

TypeOK ==
    /\ agents \in [Agent -> AgentRow \cup {Absent}]
    /\ tokens \subseteq {a \in Agent : Exists(a)}
    /\ requests \in 0..MaxRequests
    /\ \A a \in Agent : Exists(a) =>
        /\ agents[a].owner => a = Owner
        /\ agents[a].by # Nobody => Exists(agents[a].by)
        /\ agents[a].role = "admin" /\ ~ agents[a].owner =>
             agents[a].by # Nobody /\ agents[agents[a].by].owner

\* The administrator a, invited by the owner, has accepted.
Joined(a) == [NewAgent("admin", FALSE, "none", Owner) EXCEPT !.password = TRUE]

\* The table is empty, or the owner and the first administrators are there.
Init ==
    /\ \/ agents = [a \in Agent |-> Absent]
       \/ agents = [a \in Agent |-> IF a = Owner THEN OwnerRow
                                    ELSE IF a \in Admin THEN Joined(a) ELSE Absent]
    /\ tokens = {}
    /\ calls = [c \in Call |-> Idle]
    /\ requests = 0

-----------------------------------------------------------------------------
At(c, pc) == calls[c].pc = pc
Op(c) == calls[c].request
Kind(c) == Op(c).kind
Actor(c) == calls[c].actor
Target(c) == Op(c).target

Begin(c, actor, request) ==
    /\ At(c, "idle")
    /\ requests < MaxRequests
    /\ requests' = requests + 1
    /\ calls' = [calls EXCEPT ![c] =
                   [Idle EXCEPT !.pc = "load", !.actor = actor, !.request = request]]
    /\ UNCHANGED <<agents, tokens>>

Finish(c) == calls' = [calls EXCEPT ![c] = Idle]

\* Mutant of Authorised: the token alone decides.
AuthorisedByToken(a) == a \in tokens /\ Exists(a) /\ agents[a].role = "admin"

\* get_current_admin: a token and, in the row, the role and is_active.
Authorised(a) == a \in tokens /\ IsActive(a) /\ agents[a].role = "admin"

\* The endpoints of administrators; the owner's are named.
BeginAdmin(c, a, request) ==
    /\ Authorised(a)
    /\ Begin(c, a, request)

\* Mutant of BeginCreate: any administrator makes administrators.
BeginCreateAnyRole(c, a, target, role, permitted, invited) ==
    /\ IF invited THEN permitted \in Granted ELSE role = "manager" /\ ~ permitted
    /\ BeginAdmin(c, a, [kind |-> "create", target |-> target,
          row |-> NewAgent(role, permitted, IF invited THEN "valid" ELSE "none", a)])

\* POST /support-agents/ and POST /managers/.
BeginCreate(c, a, target, role, permitted, invited) ==
    /\ IF invited THEN permitted \in Granted ELSE role = "manager" /\ ~ permitted
    /\ role = "admin" => Exists(a) /\ agents[a].owner
    /\ BeginAdmin(c, a, [kind |-> "create", target |-> target,
          row |-> NewAgent(role, permitted, IF invited THEN "valid" ELSE "none", a)])

\* scripts/init_owner.py, and POST /support/invite/accept/ with a's token.
BeginScript(c) == Begin(c, Nobody, [kind |-> "create", target |-> Owner, row |-> OwnerRow])
BeginAccept(c, a) ==
    /\ Exists(a)
    /\ Begin(c, Nobody, [kind |-> "accept", target |-> a, set |-> Only("password", TRUE)])

\* Mutant of Refused: deactivation does not ask whose row it is.
RefusedButOwner(c, row) ==
    \/ row = Absent <=> Kind(c) # "create"
    \/ CASE Kind(c) = "accept" -> row.invite # "valid"
         [] Kind(c) = "block" -> row.role # "manager" \/ ~ row.active
         [] Kind(c) = "unblock" -> row.role # "manager" \/ row.active
         [] Kind(c) = "permissions" ->
              row.role = "admin" /\ (row.owner \/ ~ agents[Actor(c)].owner)
         [] OTHER -> FALSE

\* What an endpoint refuses when it has read the row it is about: 409 or 404
\* for the row being there or not, then what the endpoint asks of the row.
Refused(c, row) ==
    \/ row = Absent <=> Kind(c) # "create"
    \/ CASE Kind(c) = "create" -> FALSE
         [] Kind(c) = "accept" -> row.invite # "valid"
         [] Kind(c) = "patch" ->
              row.owner /\ "active" \in DOMAIN Op(c).set /\ ~ Op(c).set["active"]
         [] Kind(c) = "delete" -> row.owner
         [] Kind(c) = "block" -> row.role # "manager" \/ ~ row.active
         [] Kind(c) = "unblock" -> row.role # "manager" \/ row.active
         [] Kind(c) = "permissions" ->
              row.role = "admin" /\ (row.owner \/ ~ agents[Actor(c)].owner)

Load(c) ==
    LET row == agents[Target(c)] IN
    /\ At(c, "load")
    /\ IF Refused(c, row) THEN Finish(c)
       ELSE calls' = [calls EXCEPT ![c].pc = "commit", ![c].seen = row]
    /\ UNCHANGED <<agents, tokens, requests>>

\* What the call writes over the row.
Assigned(c, row) ==
    LET set == Op(c).set
        changed == {column \in DOMAIN set :
                      column = "password" \/ set[column] # calls[c].seen[column]}
        written == [column \in DOMAIN row |->
                      IF column \in changed THEN set[column] ELSE row[column]]
    IN  IF Kind(c) = "accept" THEN [written EXCEPT !.invite = "none"] ELSE written

\* The calls when c has committed: the others of an agent it deactivated.
AfterCommit(c, deactivated) ==
    [d \in Call |->
       IF d = c THEN Idle
       ELSE IF deactivated /\ Actor(d) = Target(c) THEN [calls[d] EXCEPT !.grace = TRUE]
       ELSE calls[d]]

\* Mutant of Update: every column is written, as it was read.
UpdateWholeRow(c) ==
    LET new == Assigned(c, calls[c].seen) IN
    /\ At(c, "commit")
    /\ Kind(c) # "create"
    /\ agents' = [agents EXCEPT ![Target(c)] = new]
    /\ calls' = AfterCommit(c, agents[Target(c)].active /\ ~ new.active)
    /\ UNCHANGED <<tokens, requests>>

\* The commit of a request about a row that exists.
Update(c) ==
    LET new == Assigned(c, agents[Target(c)]) IN
    /\ At(c, "commit")
    /\ Kind(c) # "create"
    /\ agents' = [agents EXCEPT ![Target(c)] = new]
    /\ calls' = AfterCommit(c, agents[Target(c)].active /\ ~ new.active)
    /\ UNCHANGED <<tokens, requests>>

\* The INSERT meets the UNIQUE login: IntegrityError if the row has come.
Insert(c) ==
    /\ At(c, "commit")
    /\ Kind(c) = "create"
    /\ agents' = [agents EXCEPT ![Target(c)] = IF @ = Absent THEN Op(c).row ELSE @]
    /\ Finish(c)
    /\ UNCHANGED <<tokens, requests>>

\* A call that dies is rolled back.
Crash(c) ==
    /\ ~ At(c, "idle")
    /\ Finish(c)
    /\ UNCHANGED <<agents, tokens, requests>>

\* SupportAuthService.login
Login(a) ==
    /\ IsActive(a)
    /\ agents[a].password
    /\ tokens' = tokens \cup {a}
    /\ UNCHANGED <<agents, calls, requests>>

TokenExpires(a) ==
    /\ a \in tokens
    /\ tokens' = tokens \ {a}
    /\ UNCHANGED <<agents, calls, requests>>

\* support_invite_ttl_hours have passed.
InviteExpires(a) ==
    /\ Exists(a)
    /\ agents[a].invite = "valid"
    /\ agents' = [agents EXCEPT ![a].invite = "expired"]
    /\ UNCHANGED <<tokens, calls, requests>>

Next ==
    \/ \E c \in Call :
        \/ BeginScript(c)
        \/ \E a \in Agent :
            \/ BeginAccept(c, a)
            \/ \E request \in Request : BeginAdmin(c, a, request)
            \/ \E target \in Agent, role \in Role, permitted, invited \in BOOLEAN :
                 BeginCreate(c, a, target, role, permitted, invited)
        \/ Load(c)
        \/ Update(c)
        \/ Insert(c)
        \/ Crash(c)
    \/ \E a \in Agent : Login(a) \/ TokenExpires(a) \/ InviteExpires(a)

Spec == Init /\ [][Next]_vars

-----------------------------------------------------------------------------
\* There is always somebody who can administer: the owner, once made, stays
\* the only owner, active and an administrator, whatever the administrators
\* do to each other and to the owner at the same time.
OwnerStands ==
    [][\A a \in Agent :
         Exists(a) /\ agents[a].owner =>
           agents'[a].owner /\ agents'[a].active /\ agents'[a].role = "admin"]_vars

\* "отзыв прав действует немедленно" (app/api/deps/manager_auth.py:5): what an
\* agent who is deactivated still changes was asked for before.
RevokedAtOnce ==
    [][\A c \in Call :
         /\ At(c, "commit")
         /\ Actor(c) # Nobody
         /\ ~ IsActive(Actor(c))
         /\ agents'[Target(c)] # agents[Target(c)]
         => calls[c].grace \/ calls'[c] = calls[c]]_vars

\* A deactivated agent is active again only through a request for that, and
\* an invitation once used cannot be used again: no request about something
\* else, having read the row before, undoes either.
NothingUndone ==
    [][\A a \in Agent : Exists(a) =>
         /\ ~ agents[a].active /\ agents'[a].active =>
              \E c \in Call : /\ At(c, "commit")
                             /\ Target(c) = a
                             /\ "active" \in DOMAIN Op(c).set
                             /\ Op(c).set["active"]
         /\ agents[a].invite = "none" => agents'[a].invite = "none"]_vars
=============================================================================
