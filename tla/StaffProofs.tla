----------------------------- MODULE StaffProofs -----------------------------
(***************************************************************************)
(* The owner cannot be locked out, an agent's rights end with the          *)
(* deactivation, and nothing is undone by a request that had read the row  *)
(* before: for any agents and any number of requests that overlap.         *)
(***************************************************************************)
EXTENDS Staff, TLAPS

Create == [kind : {"create"}, target : Agent, row : AgentRow]
Accept == [kind : {"accept"}, target : Agent, set : {Only("password", TRUE)}]
Change == Request \cup Accept

CallType ==
    [pc : {"idle", "load", "commit"}, actor : Agent \cup {Nobody},
     request : Change \cup Create \cup {[kind |-> "none"]},
     seen : AgentRow \cup {Absent}, grace : BOOLEAN]

\* A row that may come: only the script makes an owner, and only the owner
\* makes administrators.
RowOK(a, row) ==
    /\ row.owner => a = Owner /\ row.active /\ row.role = "admin"
    /\ row.by # Nobody => Exists(row.by)
    /\ row.role = "admin" /\ ~ row.owner => row.by # Nobody /\ agents[row.by].owner

\* A change that has passed its checks leaves an owner active.
Harmless(call) ==
    LET a == call.request.target IN
    /\ Exists(a) /\ call.seen # Absent
    /\ agents[a].owner => /\ call.request.kind \in {"patch", "permissions", "accept"}
                          /\ "active" \in DOMAIN call.request.set => call.request.set["active"]

\* An actor was active when the call began, and is, unless the call is marked.
CallOK(call) ==
    /\ call.request \in Change \cup Create
    /\ call.actor # Nobody =>
         Exists(call.actor) /\ (agents[call.actor].active \/ call.grace)
    /\ call.request \in Create => RowOK(call.request.target, call.request.row)
    /\ call.request \in Change /\ call.pc = "commit" => Harmless(call)

CallsOK ==
    /\ calls \in [Call -> CallType]
    /\ \A c \in Call : calls[c].pc # "idle" => CallOK(calls[c])

OwnersActive ==
    \A a \in Agent : Exists(a) /\ agents[a].owner => agents[a].active /\ agents[a].role = "admin"

StaffInv == TypeOK /\ CallsOK /\ OwnersActive

\* A row stays, and is its maker's and of its role for good.
RowsStay ==
    /\ agents' \in [Agent -> AgentRow \cup {Absent}]
    /\ \A a \in Agent : Exists(a) =>
         /\ Exists(a)' /\ agents'[a].owner = agents[a].owner
         /\ agents'[a].role = agents[a].role /\ agents'[a].by = agents[a].by

-----------------------------------------------------------------------------
\* An agent who exists has a row.
LEMMA RowFields ==
  ASSUME StaffInv, NEW a \in Agent, Exists(a)
  PROVE  agents[a] \in AgentRow
  BY DEF StaffInv, TypeOK, Exists

\* The shape of a request that changes a row.
LEMMA ChangeShape ==
  ASSUME NEW r \in Change
  PROVE  /\ r.kind \in {"patch", "delete", "block", "unblock", "permissions", "accept"}
         /\ r.target \in Agent
         /\ DOMAIN r.set \subseteq {"password", "active", "permitted"}
         /\ \A column \in DOMAIN r.set : r.set[column] \in BOOLEAN
         /\ r.kind \in {"permissions", "accept"} => "active" \notin DOMAIN r.set
  <1>1. CASE r \in [kind : {"patch"}, target : Agent, set : Patch]
    <2>1. PICK columns \in Patched : r.set \in [columns -> BOOLEAN] BY <1>1 DEF Patch
    <2>2. columns \subseteq {"password", "active", "permitted"} BY StaffAssumption
    <2> QED BY <1>1, <2>1, <2>2
  <1>2. CASE r \in [kind : {"delete", "block"}, target : Agent, set : {Only("active", FALSE)}]
    BY <1>2 DEF Only
  <1>3. CASE r \in [kind : {"unblock"}, target : Agent, set : {Only("active", TRUE)}]
    BY <1>3 DEF Only
  <1>4. CASE r \in [kind : {"permissions"}, target : Agent,
                    set : {Only("permitted", yes) : yes \in BOOLEAN}]
    BY <1>4 DEF Only
  <1>5. CASE r \in Accept BY <1>5 DEF Accept, Only
  <1> QED BY <1>1, <1>2, <1>3, <1>4, <1>5 DEF Change, Request

\* A request changes a row or creates one, never both.
LEMMA KindsApart == Change \cap Create = {} /\ [kind |-> "none"] \notin Change \cup Create
  <1>1. \A r \in Change : r.kind # "create" /\ r.kind # "none" BY ChangeShape
  <1>2. \A r \in Create : r.kind = "create" BY DEF Create
  <1>3. [kind |-> "none"].kind = "none" OBVIOUS
  <1> QED BY <1>1, <1>2, <1>3

\* What a call writes is a row, with the columns of its request only.
LEMMA AssignedRow ==
  ASSUME StaffInv, NEW c \in Call, calls[c].request \in Change, NEW row \in AgentRow
  PROVE  LET new == Assigned(c, row) IN
         /\ new \in AgentRow
         /\ new.owner = row.owner /\ new.role = row.role /\ new.by = row.by
         /\ new.active \in {row.active} \cup
              (IF "active" \in DOMAIN Op(c).set THEN {Op(c).set["active"]} ELSE {})
         /\ new.invite \in {row.invite, "none"}
  <1>1. /\ Op(c).kind \in {"patch", "delete", "block", "unblock", "permissions", "accept"}
        /\ DOMAIN Op(c).set \subseteq {"password", "active", "permitted"}
        /\ \A column \in DOMAIN Op(c).set : Op(c).set[column] \in BOOLEAN
    BY ChangeShape DEF Op
  <1> DEFINE changed == {column \in DOMAIN Op(c).set :
                      column = "password" \/ Op(c).set[column] # calls[c].seen[column]}
  <1> DEFINE written == [column \in DOMAIN row |->
                      IF column \in changed THEN Op(c).set[column] ELSE row[column]]
  <1>2. changed \subseteq {"password", "active", "permitted"} /\ changed \subseteq DOMAIN Op(c).set
    BY <1>1
  <1>3. Assigned(c, row) = IF Kind(c) = "accept" THEN [written EXCEPT !.invite = "none"] ELSE written
    BY DEF Assigned
  <1> HIDE DEF changed
  <1>4. DOMAIN row = {"role", "owner", "active", "permitted", "password", "invite", "by"}
    BY DEF AgentRow
  <1>5. /\ written.role = row.role /\ written.owner = row.owner /\ written.by = row.by
        /\ written.invite = row.invite
    BY <1>2, <1>4
  <1>6. /\ written.active = IF "active" \in changed THEN Op(c).set["active"] ELSE row.active
        /\ written.permitted = IF "permitted" \in changed THEN Op(c).set["permitted"] ELSE row.permitted
        /\ written.password = IF "password" \in changed THEN Op(c).set["password"] ELSE row.password
    BY <1>4
  <1>7. written = [role |-> written.role, owner |-> written.owner, active |-> written.active,
                   permitted |-> written.permitted, password |-> written.password,
                   invite |-> written.invite, by |-> written.by]
    BY <1>4
  <1>8. written \in AgentRow
    <2>1. row.role \in Role /\ row.owner \in BOOLEAN /\ row.active \in BOOLEAN
          /\ row.permitted \in BOOLEAN /\ row.password \in BOOLEAN
          /\ row.invite \in {"none", "valid", "expired"} /\ row.by \in Agent \cup {Nobody}
      BY DEF AgentRow
    <2>2. written.active \in BOOLEAN /\ written.permitted \in BOOLEAN /\ written.password \in BOOLEAN
      BY <1>1, <1>2, <1>6, <2>1
    <2> HIDE DEF written
    <2> QED BY <1>5, <1>7, <2>1, <2>2 DEF AgentRow
  <1>9. written.active \in {row.active} \cup
              (IF "active" \in DOMAIN Op(c).set THEN {Op(c).set["active"]} ELSE {})
    BY <1>2, <1>6
  <1> HIDE DEF written
  <1>10. CASE Kind(c) = "accept"
    <2>1. Assigned(c, row) = [written EXCEPT !.invite = "none"] BY <1>3, <1>10
    <2> QED BY <1>5, <1>8, <1>9, <2>1 DEF AgentRow
  <1>11. CASE Kind(c) # "accept"
    <2>1. Assigned(c, row) = written BY <1>3, <1>11
    <2> QED BY <1>5, <1>8, <1>9, <2>1
  <1> QED BY <1>10, <1>11

-----------------------------------------------------------------------------
(* What a step leaves as it should be. *)

\* A call that is still allowed to do what it does.
LEMMA CallStays ==
  ASSUME StaffInv, RowsStay, NEW call \in CallType, CallOK(call),
         call.actor # Nobody /\ agents[call.actor].active =>
           agents'[call.actor].active \/ call.grace
  PROVE  CallOK(call)'
  <1>1. call.request \in Create => RowOK(call.request.target, call.request.row)'
    <2> SUFFICES ASSUME call.request \in Create
                 PROVE  RowOK(call.request.target, call.request.row)'
      OBVIOUS
    <2> DEFINE row == call.request.row
    <2>1. RowOK(call.request.target, row) /\ row \in AgentRow BY DEF CallOK, Create
    <2>2. row.by # Nobody => row.by \in Agent BY <2>1 DEF AgentRow
    <2> HIDE DEF row
    <2>3. RowOK(call.request.target, row)' BY <2>1, <2>2 DEF RowOK, RowsStay
    <2> QED BY <2>3 DEF row
  <1>2. call.request \in Change /\ call.pc = "commit" => Harmless(call)'
    <2>1. call.request \in Change => call.request.target \in Agent BY ChangeShape
    <2> QED BY <2>1 DEF CallOK, Harmless, RowsStay
  <1>3. call.actor # Nobody => call.actor \in Agent BY DEF CallType
  <1>4. call.actor # Nobody => Exists(call.actor)' /\ (agents'[call.actor].active \/ call.grace)
    BY <1>3 DEF CallOK, RowsStay
  <1> QED BY <1>1, <1>2, <1>4 DEF CallOK

\* The table stays well formed when new rows are as they should be.
LEMMA TypeStays ==
  ASSUME StaffInv, RowsStay, requests' \in 0..MaxRequests,
         \A a \in tokens' : a \in Agent /\ agents'[a] # Absent,
         \A a \in Agent : agents'[a] # Absent /\ ~ Exists(a) => RowOK(a, agents'[a])
  PROVE  TypeOK'
  <1>1. ASSUME NEW a \in Agent, agents'[a] # Absent
        PROVE  /\ agents'[a].owner => a = Owner
               /\ agents'[a].by # Nobody => agents'[agents'[a].by] # Absent
               /\ agents'[a].role = "admin" /\ ~ agents'[a].owner =>
                    agents'[a].by # Nobody /\ agents'[agents'[a].by].owner
    <2>1. agents'[a] \in AgentRow BY <1>1 DEF RowsStay
    <2>2. agents'[a].by # Nobody => agents'[a].by \in Agent BY <2>1 DEF AgentRow
    <2>3. CASE Exists(a)
      <3>1. /\ agents'[a].owner = agents[a].owner /\ agents'[a].role = agents[a].role
            /\ agents'[a].by = agents[a].by
        BY <2>3 DEF RowsStay
      <3>2. /\ agents[a].owner => a = Owner
            /\ agents[a].by # Nobody => Exists(agents[a].by)
            /\ agents[a].role = "admin" /\ ~ agents[a].owner =>
                 agents[a].by # Nobody /\ agents[agents[a].by].owner
        BY <2>3 DEF StaffInv, TypeOK
      <3> DEFINE by == agents[a].by
      <3>3. by # Nobody => by \in Agent /\ Exists(by) BY <2>2, <3>1, <3>2
      <3>4. by # Nobody => agents'[by] # Absent /\ agents'[by].owner = agents[by].owner
        BY <3>3 DEF RowsStay, Exists
      <3> QED BY <3>1, <3>2, <3>4
    <2>4. CASE ~ Exists(a)
      <3> DEFINE by == agents'[a].by
      <3>1. /\ agents'[a].owner => a = Owner
            /\ by # Nobody => Exists(by)
            /\ agents'[a].role = "admin" /\ ~ agents'[a].owner => by # Nobody /\ agents[by].owner
        BY <1>1, <2>4 DEF RowOK
      <3>2. by # Nobody => agents'[by] # Absent /\ agents'[by].owner = agents[by].owner
        BY <2>2, <3>1 DEF RowsStay, Exists
      <3> QED BY <3>1, <3>2
    <2> QED BY <2>3, <2>4
  <1> QED BY <1>1 DEF TypeOK, RowsStay, Exists

\* The calls after a step that changes c's alone, or marks others.
LEMMA CallsStay ==
  ASSUME StaffInv, RowsStay, NEW c \in Call,
         calls' \in [Call -> CallType],
         calls'[c].pc # "idle" =>
           /\ CallOK(calls'[c])
           /\ calls'[c].actor # Nobody /\ agents[calls'[c].actor].active =>
                agents'[calls'[c].actor].active \/ calls'[c].grace,
         \A d \in Call \ {c} :
           calls'[d] = calls[d] \/ calls'[d] = [calls[d] EXCEPT !.grace = TRUE],
         \A d \in Call \ {c} :
           Actor(d) # Nobody /\ calls[d].pc # "idle" /\ agents[Actor(d)].active =>
             agents'[Actor(d)].active \/ calls'[d].grace
  PROVE  CallsOK'
  <1>1. ASSUME NEW d \in Call \ {c}, calls'[d].pc # "idle"
        PROVE  /\ CallOK(calls'[d])
               /\ calls'[d].actor # Nobody /\ agents[calls'[d].actor].active =>
                    agents'[calls'[d].actor].active \/ calls'[d].grace
    <2>1. calls[d] \in CallType BY DEF StaffInv, CallsOK
    <2>2. /\ calls'[d] \in CallType /\ calls'[d].pc = calls[d].pc /\ calls'[d].actor = calls[d].actor
          /\ calls'[d].request = calls[d].request /\ calls'[d].seen = calls[d].seen
          /\ calls[d].grace => calls'[d].grace
      BY <2>1 DEF CallType
    <2>3. CallOK(calls[d]) BY <1>1, <2>2 DEF StaffInv, CallsOK
    <2>4. CallOK(calls'[d]) BY <2>2, <2>3 DEF CallOK, Harmless
    <2> QED BY <1>1, <2>2, <2>4 DEF Actor
  <1>2. ASSUME NEW d \in Call, calls'[d].pc # "idle" PROVE CallOK(calls[d])'
    <2>1. PICK call : call = calls'[d] OBVIOUS
    <2>2. call \in CallType BY <2>1
    <2>3. /\ CallOK(call)
          /\ call.actor # Nobody /\ agents[call.actor].active =>
           agents'[call.actor].active \/ call.grace
      <3>1. CASE d = c BY <3>1, <1>2, <2>1
      <3>2. CASE d # c BY <3>2, <1>1, <1>2, <2>1
      <3> QED BY <3>1, <3>2
    <2>4. CallOK(call)' BY <2>2, <2>3, CallStays
    <2> QED BY <2>1, <2>4 DEF CallOK, Harmless, RowOK, Exists
  <1> QED BY <1>2 DEF CallsOK

-----------------------------------------------------------------------------
(* One lemma per step. *)

\* A step that leaves the table alone.
LEMMA TableStays ==
  ASSUME StaffInv, UNCHANGED agents
  PROVE  RowsStay /\ OwnersActive'
  BY DEF StaffInv, TypeOK, RowsStay, OwnersActive, Exists

\* A step that gives one call something to do that it may do.
LEMMA OneCallStays ==
  ASSUME StaffInv, UNCHANGED <<agents, tokens>>, requests' \in 0..MaxRequests,
         NEW c \in Call, NEW call \in CallType, calls' = [calls EXCEPT ![c] = call],
         call.pc # "idle" => CallOK(call)
  PROVE  StaffInv'
  <1>1. RowsStay /\ OwnersActive' BY TableStays
  <1>2. TypeOK'
    <2>1. \A a \in tokens' : a \in Agent /\ agents'[a] # Absent BY DEF StaffInv, TypeOK, Exists
    <2> QED BY <1>1, <2>1, TypeStays DEF Exists
  <1>3. /\ calls' \in [Call -> CallType]
        /\ \A d \in Call : calls'[d] = IF d = c THEN call ELSE calls[d]
    BY DEF StaffInv, CallsOK
  <1>4. CallsOK' BY <1>1, <1>3, CallsStay DEF Actor
  <1> QED BY <1>1, <1>2, <1>4 DEF StaffInv

LEMMA IdleCall == Idle \in CallType /\ Idle.pc = "idle" BY DEF Idle, CallType

\* An administrator exists and is active when a request begins.
LEMMA BeginStays ==
  ASSUME StaffInv, NEW c \in Call, NEW actor \in Agent \cup {Nobody},
         NEW request \in Change \cup Create, Begin(c, actor, request),
         actor # Nobody => IsActive(actor),
         request \in Create => RowOK(request.target, request.row)
  PROVE  StaffInv'
  <1> DEFINE call == [Idle EXCEPT !.pc = "load", !.actor = actor, !.request = request]
  <1>1. /\ call.pc = "load" /\ call.actor = actor /\ call.request = request
        /\ call.grace = FALSE
    BY DEF Idle
  <1>2. call \in CallType BY IdleCall DEF CallType
  <1>3. CallOK(call)
    BY <1>1 DEF CallOK, IsActive
  <1>4. /\ calls' = [calls EXCEPT ![c] = call] /\ UNCHANGED <<agents, tokens>>
        /\ requests' = requests + 1 /\ requests < MaxRequests
    BY DEF Begin
  <1>5. requests' \in 0..MaxRequests BY <1>4, StaffAssumption DEF StaffInv, TypeOK
  <1> HIDE DEF call
  <1> QED BY <1>2, <1>3, <1>4, <1>5, OneCallStays

\* The four ways a request begins.
LEMMA BeginScriptStays ==
  ASSUME StaffInv, NEW c \in Call, BeginScript(c) PROVE StaffInv'
  <1> DEFINE request == [kind |-> "create", target |-> Owner, row |-> OwnerRow]
  <1>1. /\ OwnerRow \in AgentRow /\ OwnerRow.owner /\ OwnerRow.active
        /\ OwnerRow.role = "admin" /\ OwnerRow.by = Nobody
    BY DEF OwnerRow, NewAgent, AgentRow, Role
  <1>2. request \in Create BY <1>1, StaffAssumption DEF Create
  <1>3. RowOK(Owner, OwnerRow) BY <1>1 DEF RowOK
  <1> QED BY <1>2, <1>3, BeginStays, KindsApart DEF BeginScript

\* An invited agent who accepts begins a request like any other.
LEMMA BeginAcceptStays ==
  ASSUME StaffInv, NEW c \in Call, NEW a \in Agent, BeginAccept(c, a) PROVE StaffInv'
  <1>1. [kind |-> "accept", target |-> a, set |-> Only("password", TRUE)] \in Accept
    BY DEF Accept
  <1> QED BY <1>1, BeginStays, KindsApart DEF BeginAccept, Change

\* A request of an administrator begins.
LEMMA BeginAdminStays ==
  ASSUME StaffInv, NEW c \in Call, NEW a \in Agent, NEW request \in Request,
         BeginAdmin(c, a, request)
  PROVE  StaffInv'
  BY BeginStays, KindsApart DEF BeginAdmin, Authorised, Change

\* A request to create an agent begins.
LEMMA BeginCreateStays ==
  ASSUME StaffInv, NEW c \in Call, NEW a \in Agent, NEW target \in Agent, NEW role \in Role,
         NEW permitted \in BOOLEAN, NEW invited \in BOOLEAN,
         BeginCreate(c, a, target, role, permitted, invited)
  PROVE  StaffInv'
  <1> DEFINE row == NewAgent(role, permitted, IF invited THEN "valid" ELSE "none", a)
             request == [kind |-> "create", target |-> target, row |-> row]
  <1>1. /\ row \in AgentRow /\ ~ row.owner /\ row.by = a /\ row.role = role
    BY DEF NewAgent, AgentRow
  <1>2. BeginAdmin(c, a, request) /\ (role = "admin" => agents[a].owner) BY DEF BeginCreate
  <1> HIDE DEF row
  <1>3. IsActive(a) /\ Begin(c, a, request) BY <1>2 DEF BeginAdmin, Authorised
  <1>4. RowOK(target, row) BY <1>1, <1>2, <1>3, StaffAssumption DEF RowOK, IsActive
  <1>5. request \in Create BY <1>1 DEF Create
  <1> QED BY <1>3, <1>4, <1>5, BeginStays

\* A request that is not refused leaves an owner active.
LEMMA LoadStays ==
  ASSUME StaffInv, NEW c \in Call, Load(c) PROVE StaffInv'
  <1> DEFINE row == agents[Target(c)]
             call == [calls[c] EXCEPT !.pc = "commit", !.seen = row]
  <1>0. /\ calls[c] \in CallType /\ calls[c].pc = "load" /\ CallOK(calls[c])
        /\ UNCHANGED <<agents, tokens>> /\ requests' \in 0..MaxRequests
    BY DEF StaffInv, CallsOK, TypeOK, Load, At
  <1>1. CASE Refused(c, row)
    BY <1>0, <1>1, OneCallStays, IdleCall DEF Load, Finish
  <1>2. CASE ~ Refused(c, row)
    <2>1. calls' = [calls EXCEPT ![c] = call] BY <1>2 DEF Load
    <2>2. Op(c) \in Change \cup Create /\ Target(c) \in Agent
      BY <1>0, ChangeShape DEF CallOK, Op, Target, Create
    <2>3. row \in AgentRow \cup {Absent} BY <2>2 DEF StaffInv, TypeOK
    <2>4. call \in CallType BY <1>0, <2>3 DEF CallType
    <2>5. /\ call.pc = "commit" /\ call.actor = calls[c].actor /\ call.request = Op(c)
          /\ call.seen = row /\ call.grace = calls[c].grace
      BY <1>0 DEF CallType, Op
    <2> HIDE DEF call
    <2>6. ASSUME Op(c) \in Change PROVE Harmless(call)
      <3>1. /\ Kind(c) \in {"patch", "delete", "block", "unblock", "permissions", "accept"}
            /\ Kind(c) \in {"permissions", "accept"} => "active" \notin DOMAIN Op(c).set
        BY <2>6, ChangeShape DEF Kind
      <3>2. row # Absent BY <1>2, <3>1 DEF Refused
      <3>3. ASSUME row.owner
            PROVE  /\ Kind(c) \in {"patch", "permissions", "accept"}
                   /\ "active" \in DOMAIN Op(c).set => Op(c).set["active"]
        <4>1. row.role = "admin"
          BY <2>2, <3>2, <3>3 DEF StaffInv, OwnersActive, Exists
        <4>2. Kind(c) # "delete" /\ Kind(c) # "block" /\ Kind(c) # "unblock"
          BY <1>2, <3>1, <3>2, <3>3, <4>1 DEF Refused
        <4>3. CASE Kind(c) = "patch"
          BY <1>2, <3>2, <3>3, <4>3 DEF Refused
        <4> QED BY <3>1, <4>2, <4>3
      <3> QED BY <2>5, <3>2, <3>3 DEF Harmless, Exists, Op, Kind, Target
    <2>7. CallOK(call) BY <1>0, <2>2, <2>5, <2>6 DEF CallOK, Op
    <2> QED BY <1>0, <2>1, <2>4, <2>7, OneCallStays
  <1> QED BY <1>1, <1>2

\* The row a commit writes.
LEMMA UpdateRow ==
  ASSUME StaffInv, NEW c \in Call, Update(c)
  PROVE  /\ Op(c) \in Change /\ Harmless(calls[c]) /\ Target(c) \in Agent
         /\ agents[Target(c)] \in AgentRow
         /\ LET row == agents[Target(c)]
                new == Assigned(c, row)
            IN  /\ new \in AgentRow
                /\ agents' = [agents EXCEPT ![Target(c)] = new]
                /\ calls' = AfterCommit(c, row.active /\ ~ new.active)
                /\ new.owner = row.owner /\ new.role = row.role /\ new.by = row.by
                /\ row.owner => new.active
                /\ new.active \in {row.active} \cup
                     (IF "active" \in DOMAIN Op(c).set THEN {Op(c).set["active"]} ELSE {})
                /\ new.invite \in {row.invite, "none"}
  <1>1. /\ calls[c] \in CallType /\ calls[c].pc = "commit" /\ CallOK(calls[c])
        /\ Kind(c) # "create"
    BY DEF StaffInv, CallsOK, Update, At
  <1>2. Op(c) \in Change /\ Harmless(calls[c])
    BY <1>1 DEF CallOK, Op, Kind, Create
  <1>3. Target(c) \in Agent BY <1>2, ChangeShape DEF Target
  <1>4. agents[Target(c)] \in AgentRow BY <1>2, <1>3, RowFields DEF Harmless, Target, Op
  <1> DEFINE row == agents[Target(c)]
             new == Assigned(c, row)
  <1>5. /\ new \in AgentRow
        /\ new.owner = row.owner /\ new.role = row.role /\ new.by = row.by
        /\ new.active \in {row.active} \cup
             (IF "active" \in DOMAIN Op(c).set THEN {Op(c).set["active"]} ELSE {})
        /\ new.invite \in {row.invite, "none"}
    BY <1>2, <1>4, AssignedRow DEF Op
  <1>6. /\ agents' = [agents EXCEPT ![Target(c)] = new]
        /\ calls' = AfterCommit(c, row.active /\ ~ new.active)
    BY DEF Update
  <1>7. row.owner => new.active
    <2>1. row.owner => row.active BY <1>2, <1>3 DEF StaffInv, OwnersActive, Harmless, Target, Op
    <2> HIDE DEF new
    <2> QED BY <1>2, <1>5, <2>1 DEF Harmless, Op, Target
  <1> HIDE DEF new
  <1> QED BY <1>2, <1>3, <1>4, <1>5, <1>6, <1>7 DEF new

\* The commit of a change.  The calls of an agent it deactivates are marked.
LEMMA UpdateStays ==
  ASSUME StaffInv, NEW c \in Call, Update(c) PROVE StaffInv' /\ RowsStay
  <1> DEFINE row == agents[Target(c)]
             new == Assigned(c, row)
  <1>1. /\ Target(c) \in Agent /\ row \in AgentRow /\ new \in AgentRow
        /\ agents' = [agents EXCEPT ![Target(c)] = new]
        /\ calls' = AfterCommit(c, row.active /\ ~ new.active)
        /\ new.owner = row.owner /\ new.role = row.role /\ new.by = row.by
        /\ row.owner => new.active
        /\ row # Absent
        /\ UNCHANGED <<tokens, requests>>
    BY UpdateRow, AbsentAssumption DEF Update
  <1> HIDE DEF new
  <1>2. /\ agents \in [Agent -> AgentRow \cup {Absent}] /\ requests \in 0..MaxRequests
        /\ \A a \in tokens : a \in Agent /\ Exists(a)
        /\ calls \in [Call -> CallType]
    BY DEF StaffInv, TypeOK, CallsOK
  <1>3. \A a \in Agent : agents'[a] = IF a = Target(c) THEN new ELSE agents[a]
    BY <1>1, <1>2
  <1>4. new # Absent BY <1>1, AbsentAssumption
  <1>5. RowsStay
    <2>1. agents' \in [Agent -> AgentRow \cup {Absent}] BY <1>1, <1>2
    <2> QED BY <1>1, <1>3, <1>4, <2>1 DEF RowsStay, Exists
  <1>6. TypeOK'
    BY <1>1, <1>2, <1>3, <1>4, <1>5, TypeStays DEF Exists
  <1>7. OwnersActive'
    <2>1. ASSUME NEW a \in Agent, agents'[a] # Absent, agents'[a].owner
          PROVE  agents'[a].active /\ agents'[a].role = "admin"
      <3>1. Exists(a) /\ agents[a].owner BY <1>1, <1>3, <2>1 DEF Exists
      <3>2. agents[a].active /\ agents[a].role = "admin" BY <3>1 DEF StaffInv, OwnersActive
      <3> QED BY <1>1, <1>3, <3>1, <3>2
    <2> QED BY <2>1 DEF OwnersActive, Exists
  <1>8. \A d \in Call :
          calls'[d] = IF d = c THEN Idle
                      ELSE IF row.active /\ ~ new.active /\ Actor(d) = Target(c)
                           THEN [calls[d] EXCEPT !.grace = TRUE] ELSE calls[d]
    BY <1>1 DEF AfterCommit
  <1>9. \A d \in Call : [calls[d] EXCEPT !.grace = TRUE] \in CallType
    BY <1>2 DEF CallType
  <1>10. calls' \in [Call -> CallType]
    <2>1. calls' = [d \in Call |-> calls'[d]] BY <1>1 DEF AfterCommit
    <2>2. \A d \in Call : calls'[d] \in CallType BY <1>2, <1>8, <1>9, IdleCall
    <2> QED BY <2>1, <2>2
  <1>11. ASSUME NEW d \in Call \ {c}, Actor(d) # Nobody, calls[d].pc # "idle", agents[Actor(d)].active
         PROVE  agents'[Actor(d)].active \/ calls'[d].grace
    <2>1. Actor(d) \in Agent BY <1>2, <1>11 DEF Actor, CallType
    <2>2. calls[d] \in CallType BY <1>2
    <2>3. CASE Actor(d) # Target(c) BY <1>3, <1>11, <2>1, <2>3
    <2>4. CASE Actor(d) = Target(c) /\ new.active BY <1>3, <2>1, <2>4
    <2>5. CASE Actor(d) = Target(c) /\ ~ new.active
      <3>1. calls'[d] = [calls[d] EXCEPT !.grace = TRUE] BY <1>8, <1>11, <2>5
      <3> QED BY <2>2, <3>1 DEF CallType
    <2> QED BY <2>3, <2>4, <2>5
  <1>12. calls'[c].pc = "idle" BY <1>8, IdleCall
  <1>13. CallsOK'
    BY <1>5, <1>8, <1>10, <1>11, <1>12, CallsStay
  <1> QED BY <1>5, <1>6, <1>7, <1>13 DEF StaffInv

\* A row that comes is as the request's checks left it.
LEMMA InsertRow ==
  ASSUME StaffInv, NEW c \in Call, Insert(c)
  PROVE  LET row == Op(c).row IN
         /\ Target(c) \in Agent /\ row \in AgentRow /\ RowOK(Target(c), row)
         /\ agents' = [agents EXCEPT ![Target(c)] =
                         IF agents[Target(c)] = Absent THEN row ELSE agents[Target(c)]]
  <1>1. CallOK(calls[c]) /\ Kind(c) = "create" BY DEF StaffInv, CallsOK, Insert, At
  <1>2. Op(c) \in Create
    BY <1>1, ChangeShape DEF CallOK, Op, Kind
  <1> QED BY <1>1, <1>2 DEF CallOK, Op, Target, Create, Insert

\* Insert keeps the invariant, and the rows that were there.
LEMMA InsertStays ==
  ASSUME StaffInv, NEW c \in Call, Insert(c) PROVE StaffInv' /\ RowsStay
  <1> DEFINE row == Op(c).row
             new == IF agents[Target(c)] = Absent THEN row ELSE agents[Target(c)]
  <1>1. /\ Target(c) \in Agent /\ row \in AgentRow /\ RowOK(Target(c), row)
        /\ agents' = [agents EXCEPT ![Target(c)] = new]
        /\ calls' = [calls EXCEPT ![c] = Idle]
        /\ UNCHANGED <<tokens, requests>>
    BY InsertRow DEF Insert, Finish
  <1>2. /\ agents \in [Agent -> AgentRow \cup {Absent}] /\ requests \in 0..MaxRequests
        /\ \A a \in tokens : a \in Agent /\ Exists(a)
        /\ calls \in [Call -> CallType]
    BY DEF StaffInv, TypeOK, CallsOK
  <1>3. \A a \in Agent : agents'[a] = IF a = Target(c) /\ ~ Exists(a) THEN row ELSE agents[a]
    BY <1>1, <1>2 DEF Exists
  <1>4. new \in AgentRow /\ row # Absent BY <1>1, <1>2, AbsentAssumption
  <1> HIDE DEF row, new
  <1>5. RowsStay
    <2>1. agents' \in [Agent -> AgentRow \cup {Absent}] BY <1>1, <1>2, <1>4
    <2> QED BY <1>3, <2>1 DEF RowsStay, Exists
  <1>6. TypeOK'
    BY <1>1, <1>2, <1>3, <1>5, TypeStays DEF Exists, RowsStay
  <1>7. OwnersActive'
    <2>1. ASSUME NEW a \in Agent, agents'[a] # Absent, agents'[a].owner
          PROVE  agents'[a].active /\ agents'[a].role = "admin"
      <3>1. CASE Exists(a) BY <1>3, <2>1, <3>1 DEF StaffInv, OwnersActive
      <3>2. CASE ~ Exists(a)
        <4>1. a = Target(c) /\ agents'[a] = row BY <1>3, <2>1, <3>2 DEF Exists
        <4> QED BY <1>1, <2>1, <4>1 DEF RowOK
      <3> QED BY <3>1, <3>2
    <2> QED BY <2>1 DEF OwnersActive, Exists
  <1>8. calls' \in [Call -> CallType] /\ calls'[c].pc = "idle"
        /\ \A d \in Call \ {c} : calls'[d] = calls[d]
    BY <1>1, <1>2, IdleCall
  <1>9. ASSUME NEW d \in Call, Actor(d) # Nobody, calls[d].pc # "idle", agents[Actor(d)].active
        PROVE  agents'[Actor(d)].active \/ calls'[d].grace
    <2>1. Actor(d) \in Agent BY <1>2, <1>9 DEF Actor, CallType
    <2>2. Exists(Actor(d)) BY <1>9 DEF StaffInv, CallsOK, CallOK, Actor
    <2> QED BY <1>3, <1>9, <2>1, <2>2
  <1>10. CallsOK' BY <1>5, <1>8, <1>9, CallsStay
  <1> QED BY <1>5, <1>6, <1>7, <1>10 DEF StaffInv

\* An invitation's time is up: the rest of the row stays.
LEMMA InviteExpiresStays ==
  ASSUME StaffInv, NEW b \in Agent, InviteExpires(b) PROVE StaffInv' /\ RowsStay
  <1> DEFINE new == [agents[b] EXCEPT !.invite = "expired"]
  <1>1. /\ Exists(b) /\ agents' = [agents EXCEPT ![b] = new]
        /\ UNCHANGED <<tokens, calls, requests>>
    BY DEF InviteExpires
  <1>2. /\ agents \in [Agent -> AgentRow \cup {Absent}] /\ requests \in 0..MaxRequests
        /\ \A a \in tokens : a \in Agent /\ Exists(a)
        /\ calls \in [Call -> CallType]
    BY DEF StaffInv, TypeOK, CallsOK
  <1>3. agents[b] \in AgentRow BY <1>1, RowFields
  <1>4. /\ new \in AgentRow /\ new.owner = agents[b].owner /\ new.role = agents[b].role
        /\ new.by = agents[b].by /\ new.active = agents[b].active
    BY <1>3 DEF AgentRow
  <1> HIDE DEF new
  <1>5. \A a \in Agent : agents'[a] = IF a = b THEN new ELSE agents[a] BY <1>1, <1>2
  <1>6. RowsStay
    <2>1. agents' \in [Agent -> AgentRow \cup {Absent}] BY <1>1, <1>2, <1>4
    <2>2. new # Absent BY <1>4, AbsentAssumption
    <2> QED BY <1>4, <1>5, <2>1, <2>2 DEF RowsStay, Exists
  <1>7. \A a \in Agent : agents'[a] # Absent => Exists(a) /\ agents'[a].active = agents[a].active
    BY <1>1, <1>4, <1>5 DEF Exists
  <1>8. TypeOK'
    BY <1>1, <1>2, <1>6, <1>7, TypeStays DEF Exists, RowsStay
  <1>9. OwnersActive'
    BY <1>6, <1>7 DEF StaffInv, OwnersActive, RowsStay, Exists
  <1>10. ASSUME NEW c \in Call PROVE CallsOK'
    <2>1. ASSUME NEW d \in Call, Actor(d) # Nobody, calls[d].pc # "idle", agents[Actor(d)].active
          PROVE  agents'[Actor(d)].active
      <3>1. Actor(d) \in Agent BY <1>2, <2>1 DEF Actor, CallType
      <3>2. Exists(Actor(d)) BY <2>1 DEF StaffInv, CallsOK, CallOK, Actor
      <3> QED BY <1>4, <1>5, <2>1, <3>1, <3>2
    <2>2. calls[c].pc # "idle" => CallOK(calls[c]) BY DEF StaffInv, CallsOK
    <2> QED BY <1>1, <1>2, <1>6, <2>1, <2>2, CallsStay DEF Actor
  <1>11. CallsOK'
    <2>1. CASE Call = {} BY <1>1, <1>2, <2>1 DEF CallsOK
    <2>2. CASE Call # {} BY <1>10, <2>2
    <2> QED BY <2>1, <2>2
  <1> QED BY <1>6, <1>8, <1>9, <1>11 DEF StaffInv

\* Tokens come and go with the agents' rows as they are.
LEMMA TokensStay ==
  ASSUME StaffInv, UNCHANGED <<agents, calls, requests>>,
         \A a \in tokens' : a \in Agent /\ Exists(a)
  PROVE  StaffInv'
  <1>1. RowsStay /\ OwnersActive' BY TableStays
  <1>2. TypeOK' BY <1>1, TypeStays DEF StaffInv, TypeOK, Exists
  <1>3. CallsOK' BY DEF StaffInv, CallsOK, CallOK, Harmless, RowOK, Exists
  <1> QED BY <1>1, <1>2, <1>3 DEF StaffInv

\* A request that dies leaves what it has committed.
LEMMA CrashStays ==
  ASSUME StaffInv, NEW c \in Call, Crash(c) PROVE StaffInv'
  <1>1. requests' \in 0..MaxRequests BY DEF StaffInv, TypeOK, Crash
  <1> QED BY <1>1, OneCallStays, IdleCall DEF Crash, Finish

-----------------------------------------------------------------------------
(* The invariant, and what it says of every step. *)

\* Both tables the deployment may start from.
LEMMA StaffInit == Init => StaffInv
  <1> SUFFICES ASSUME Init PROVE StaffInv OBVIOUS
  <1>1. tokens = {} /\ requests = 0 /\ calls = [c \in Call |-> Idle] BY DEF Init
  <1>2. CallsOK BY <1>1, IdleCall DEF CallsOK
  <1>3. requests \in 0..MaxRequests BY <1>1, StaffAssumption
  <1>4. CASE agents = [a \in Agent |-> Absent]
    BY <1>1, <1>2, <1>3, <1>4 DEF StaffInv, TypeOK, OwnersActive, Exists
  <1>5. CASE agents = [a \in Agent |-> IF a = Owner THEN OwnerRow
                                       ELSE IF a \in Admin THEN Joined(a) ELSE Absent]
    <2>1. /\ OwnerRow \in AgentRow /\ OwnerRow.owner /\ OwnerRow.active
          /\ OwnerRow.role = "admin" /\ OwnerRow.by = Nobody
      BY DEF OwnerRow, NewAgent, AgentRow, Role
    <2>2. \A a \in Admin : /\ Joined(a) \in AgentRow /\ ~ Joined(a).owner
                           /\ Joined(a).role = "admin" /\ Joined(a).by = Owner
      BY StaffAssumption DEF Joined, NewAgent, AgentRow, Role
    <2>3. \A a \in Agent : agents[a] = IF a = Owner THEN OwnerRow
                                       ELSE IF a \in Admin THEN Joined(a) ELSE Absent
      BY <1>5
    <2>4. agents \in [Agent -> AgentRow \cup {Absent}] BY <1>5, <2>1, <2>2
    <2>5. OwnerRow # Absent /\ Owner \in Agent BY <2>1, AbsentAssumption, StaffAssumption
    <2>6. Exists(Owner) /\ agents[Owner].owner BY <2>1, <2>3, <2>5 DEF Exists
    <2>7. \A a \in Agent : Exists(a) =>
            \/ a = Owner /\ agents[a] = OwnerRow
            \/ a \in Admin /\ agents[a] = Joined(a)
      BY <2>3 DEF Exists
    <2>8. ASSUME NEW a \in Agent, Exists(a)
          PROVE  /\ agents[a].owner => a = Owner
                 /\ agents[a].by # Nobody => Exists(agents[a].by)
                 /\ agents[a].role = "admin" /\ ~ agents[a].owner =>
                      agents[a].by # Nobody /\ agents[agents[a].by].owner
      <3>1. CASE a = Owner /\ agents[a] = OwnerRow BY <2>1, <3>1
      <3>2. CASE a \in Admin /\ agents[a] = Joined(a)
        BY <2>2, <2>5, <2>6, <3>2, StaffAssumption
      <3> QED BY <2>7, <2>8, <3>1, <3>2
    <2>9. TypeOK BY <1>1, <1>3, <2>4, <2>8 DEF TypeOK
    <2>10. OwnersActive BY <2>1, <2>2, <2>7 DEF OwnersActive
    <2> QED BY <1>2, <2>9, <2>10 DEF StaffInv
  <1> QED BY <1>4, <1>5 DEF Init

\* The invariant is inductive, and no step takes a row away.
LEMMA StaffStep ==
  ASSUME StaffInv, [Next]_vars
  PROVE  StaffInv' /\ RowsStay
  <1>1. CASE \E c \in Call : BeginScript(c)
    BY <1>1, BeginScriptStays, TableStays DEF BeginScript, Begin
  <1>2. CASE \E c \in Call, a \in Agent : BeginAccept(c, a)
    BY <1>2, BeginAcceptStays, TableStays DEF BeginAccept, Begin
  <1>3. CASE \E c \in Call, a \in Agent, request \in Request : BeginAdmin(c, a, request)
    BY <1>3, BeginAdminStays, TableStays DEF BeginAdmin, Begin
  <1>4. CASE \E c \in Call, a \in Agent, target \in Agent, role \in Role,
               permitted \in BOOLEAN, invited \in BOOLEAN :
               BeginCreate(c, a, target, role, permitted, invited)
    <2>1. PICK c \in Call, a \in Agent, target \in Agent, role \in Role,
               permitted \in BOOLEAN, invited \in BOOLEAN :
               BeginCreate(c, a, target, role, permitted, invited)
      BY <1>4
    <2>2. StaffInv' BY <2>1, BeginCreateStays
    <2>3. UNCHANGED agents BY <2>1 DEF BeginCreate, BeginAdmin, Begin
    <2> QED BY <2>2, <2>3, TableStays
  <1>5. CASE \E c \in Call : Load(c) BY <1>5, LoadStays, TableStays DEF Load
  <1>6. CASE \E c \in Call : Update(c) BY <1>6, UpdateStays
  <1>7. CASE \E c \in Call : Insert(c) BY <1>7, InsertStays
  <1>8. CASE \E c \in Call : Crash(c) BY <1>8, CrashStays, TableStays DEF Crash
  <1>9. CASE \E a \in Agent : Login(a)
    <2>1. PICK a \in Agent : Login(a) BY <1>9
    <2>2. \A b \in tokens' : b \in Agent /\ Exists(b)
      BY <2>1 DEF Login, IsActive, StaffInv, TypeOK
    <2> QED BY <2>1, <2>2, TokensStay, TableStays DEF Login
  <1>10. CASE \E a \in Agent : TokenExpires(a)
    <2>1. PICK a \in Agent : TokenExpires(a) BY <1>10
    <2>2. \A b \in tokens' : b \in Agent /\ Exists(b)
      BY <2>1 DEF TokenExpires, StaffInv, TypeOK
    <2> QED BY <2>1, <2>2, TokensStay, TableStays DEF TokenExpires
  <1>11. CASE \E a \in Agent : InviteExpires(a) BY <1>11, InviteExpiresStays
  <1>12. CASE UNCHANGED vars
    <2>1. \A b \in tokens' : b \in Agent /\ Exists(b)
      BY <1>12 DEF vars, StaffInv, TypeOK
    <2> QED BY <1>12, <2>1, TokensStay, TableStays DEF vars
  <1>13. CASE Next
    <2>1. CASE \E c \in Call : \/ BeginScript(c)
                              \/ \E a \in Agent :
                                  \/ BeginAccept(c, a)
                                  \/ \E request \in Request : BeginAdmin(c, a, request)
                                  \/ \E target \in Agent, role \in Role,
                                       permitted, invited \in BOOLEAN :
                                       BeginCreate(c, a, target, role, permitted, invited)
      BY <1>1, <1>2, <1>3, <1>4, <2>1, Zenon
    <2>2. CASE \E c \in Call : Load(c) \/ Update(c) \/ Insert(c) \/ Crash(c)
      BY <1>5, <1>6, <1>7, <1>8, <2>2
    <2>3. CASE \E a \in Agent : Login(a) \/ TokenExpires(a) \/ InviteExpires(a)
      BY <1>9, <1>10, <1>11, <2>3
    <2> QED BY <1>13, <2>1, <2>2, <2>3, Zenon DEF Next
  <1> QED BY <1>12, <1>13

\* The invariant the theorems of this module rest on.
THEOREM StaffInvariant == Spec => []StaffInv
  <1>1. StaffInv /\ [Next]_vars => StaffInv' BY StaffStep
  <1> QED BY StaffInit, <1>1, PTL DEF Spec

\* The table holds well-formed rows, the owner's row is the owner's, and every
\* other administrator was invited by an owner who is still there.
THEOREM StaffTyped == Spec => []TypeOK
  <1>1. StaffInv => TypeOK BY DEF StaffInv
  <1> QED BY StaffInvariant, <1>1, PTL

\* The owner can always sign in to the panel, whatever overlaps.
THEOREM OwnerAlwaysStands == Spec => OwnerStands
  <1>1. StaffInv /\ [Next]_vars =>
          [\A a \in Agent :
             Exists(a) /\ agents[a].owner =>
               agents'[a].owner /\ agents'[a].active /\ agents'[a].role = "admin"]_vars
    <2> SUFFICES ASSUME StaffInv, [Next]_vars, NEW a \in Agent, Exists(a), agents[a].owner
                 PROVE  agents'[a].owner /\ agents'[a].active /\ agents'[a].role = "admin"
      OBVIOUS
    <2>1. StaffInv' /\ RowsStay BY StaffStep
    <2>2. agents'[a].owner /\ agents'[a] # Absent BY <2>1 DEF RowsStay, Exists
    <2> QED BY <2>1, <2>2 DEF StaffInv, OwnersActive, Exists
  <1> QED BY StaffInvariant, <1>1, PTL DEF Spec, OwnerStands

\* Deactivation ends an agent's rights at once: what still changes was asked
\* for before.
THEOREM RevocationIsImmediate == Spec => RevokedAtOnce
  <1>1. StaffInv =>
          \A c \in Call :
             /\ At(c, "commit")
             /\ Actor(c) # Nobody
             /\ ~ IsActive(Actor(c))
             /\ agents'[Target(c)] # agents[Target(c)]
             => calls[c].grace \/ calls'[c] = calls[c]
    BY DEF StaffInv, CallsOK, CallOK, At, Actor, IsActive
  <1>2. StaffInv /\ [Next]_vars =>
          [\A c \in Call :
             /\ At(c, "commit")
             /\ Actor(c) # Nobody
             /\ ~ IsActive(Actor(c))
             /\ agents'[Target(c)] # agents[Target(c)]
             => calls[c].grace \/ calls'[c] = calls[c]]_vars
    BY <1>1
  <1> QED BY StaffInvariant, <1>2, PTL DEF Spec, RevokedAtOnce

\* What a row is before and after a step.
LEMMA RowAfter ==
  ASSUME StaffInv, [Next]_vars, NEW a \in Agent, Exists(a)
  PROVE  \/ agents'[a] = agents[a]
         \/ \E c \in Call : Update(c) /\ Target(c) = a
         \/ InviteExpires(a)
  <1>0. agents \in [Agent -> AgentRow \cup {Absent}] BY DEF StaffInv, TypeOK
  <1>1. CASE \E c \in Call : Update(c)
    <2>1. PICK c \in Call : Update(c) BY <1>1
    <2>2. agents' = [agents EXCEPT ![Target(c)] = Assigned(c, agents[Target(c)])]
      BY <2>1 DEF Update
    <2>3. CASE Target(c) = a BY <2>1, <2>3
    <2>4. CASE Target(c) # a BY <1>0, <2>2, <2>4
    <2> QED BY <2>3, <2>4
  <1>2. CASE \E c \in Call : Insert(c)
    <2>1. PICK c \in Call : Insert(c) BY <1>2
    <2> QED BY <1>0, <2>1 DEF Insert, Exists
  <1>3. CASE \E b \in Agent : InviteExpires(b)
    BY <1>0, <1>3 DEF InviteExpires
  <1>4. CASE UNCHANGED agents BY <1>4
  <1> QED
    BY <1>1, <1>2, <1>3, <1>4
       DEF Next, vars, BeginScript, BeginAccept, BeginAdmin, BeginCreate, Begin, Load, Crash,
           Login, TokenExpires

\* A request that had read the row before undoes neither a deactivation nor
\* the use of an invitation.
THEOREM NothingIsUndone == Spec => NothingUndone
  <1>1. StaffInv /\ [Next]_vars =>
          [\A a \in Agent : Exists(a) =>
             /\ ~ agents[a].active /\ agents'[a].active =>
                  \E c \in Call : /\ At(c, "commit")
                                 /\ Target(c) = a
                                 /\ "active" \in DOMAIN Op(c).set
                                 /\ Op(c).set["active"]
             /\ agents[a].invite = "none" => agents'[a].invite = "none"]_vars
    <2> SUFFICES ASSUME StaffInv, [Next]_vars, NEW a \in Agent, Exists(a)
                 PROVE  /\ ~ agents[a].active /\ agents'[a].active =>
                             \E c \in Call : /\ At(c, "commit")
                                            /\ Target(c) = a
                                            /\ "active" \in DOMAIN Op(c).set
                                            /\ Op(c).set["active"]
                        /\ agents[a].invite = "none" => agents'[a].invite = "none"
      OBVIOUS
    <2>0. agents \in [Agent -> AgentRow \cup {Absent}] BY DEF StaffInv, TypeOK
    <2>1. CASE agents'[a] = agents[a] BY <2>1
    <2>2. CASE InviteExpires(a)
      <3>1. /\ agents[a] \in AgentRow /\ agents[a].invite = "valid"
            /\ agents'[a] = [agents[a] EXCEPT !.invite = "expired"]
        BY <2>0, <2>2, RowFields DEF InviteExpires
      <3> QED BY <3>1 DEF AgentRow
    <2>3. ASSUME NEW c \in Call, Update(c), Target(c) = a
          PROVE  /\ ~ agents[a].active /\ agents'[a].active =>
                      /\ At(c, "commit")
                      /\ "active" \in DOMAIN Op(c).set
                      /\ Op(c).set["active"]
                 /\ agents[a].invite = "none" => agents'[a].invite = "none"
      <3> DEFINE new == Assigned(c, agents[a])
      <3>1. /\ agents' = [agents EXCEPT ![a] = new]
            /\ new.active \in {agents[a].active} \cup
                 (IF "active" \in DOMAIN Op(c).set THEN {Op(c).set["active"]} ELSE {})
            /\ new.invite \in {agents[a].invite, "none"}
        BY <2>3, UpdateRow
      <3> HIDE DEF new
      <3>2. agents'[a] = new BY <2>0, <3>1
      <3> QED BY <2>3, <3>1, <3>2 DEF Update
    <2> QED BY <2>1, <2>2, <2>3, RowAfter
  <1> QED BY StaffInvariant, <1>1, PTL DEF Spec, NothingUndone
=============================================================================
