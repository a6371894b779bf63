---------------------------- MODULE SettingsCache ----------------------------
(***************************************************************************)
(* SettingsService: the single row of the table settings, made when it is  *)
(* first needed, and its copy in Redis.  A call is a database session of   *)
(* its own: a reader that goes through the cache (get_values), one that    *)
(* looks at the row only (get, or get_values without Redis), or an         *)
(* administrator's save (update).  One action is one statement or one      *)
(* request to Redis, which may fail.  The row is one value here: the       *)
(* fields of a save change together.                                       *)
(***************************************************************************)
EXTENDS Naturals

CONSTANTS
    Call,    \* requests that overlap
    Value,   \* what administrators save
    Default, \* the column defaults of PlatformSettings
    NoRow, NoValue

ASSUME SettingsAssumption ==
    /\ Default \notin Value
    /\ NoRow \notin Value \cup {Default}
    /\ NoValue \notin Value \cup {Default}

VARIABLES
    row,   \* the committed row of id 1
    cache, \* the key settings:platform
    calls  \* what every call is doing

vars == <<row, cache, calls>>

Setting == Value \cup {Default}

\* seen: the row as loaded; new: what a save wants; inserted: the call holds
\* an INSERT that is not committed.  late is history: a save was committed
\* since this reader loaded the row.
Idle == [pc |-> "idle", op |-> "none", seen |-> NoValue, new |-> NoValue,
         inserted |-> FALSE, late |-> FALSE]

\* excused is history: a late reader wrote this value, or its removal failed.
Cached == [value : Setting, expires : BOOLEAN, excused : BOOLEAN]

Current == IF row = NoRow THEN Default ELSE row

TypeOK ==
    /\ row \in Setting \cup {NoRow}
    /\ cache \in Cached \cup {NoValue}
    /\ calls \in [Call ->
         [pc : {"idle", "cache", "select", "insert", "fill", "end", "store", "drop"},
          op : {"none", "read", "look", "save"},
          seen : Setting \cup {NoValue}, new : Value \cup {NoValue},
          inserted : BOOLEAN, late : BOOLEAN]]
    /\ \A c \in Call : calls[c].inserted =>
         row = NoRow /\ \A other \in Call \ {c} : ~ calls[other].inserted

Init ==
    /\ row = NoRow
    /\ cache = NoValue
    /\ calls = [c \in Call |-> Idle]

-----------------------------------------------------------------------------
At(c, pc) == calls[c].pc = pc
Start(c, call) ==
    /\ At(c, "idle")
    /\ calls' = [calls EXCEPT ![c] = call]
    /\ UNCHANGED <<row, cache>>

\* get_values with Redis; get, or get_values without it; update.
StartRead(c) == Start(c, [Idle EXCEPT !.pc = "cache", !.op = "read"])
StartLook(c) == Start(c, [Idle EXCEPT !.pc = "select", !.op = "look"])
StartSave(c, new) == Start(c, [Idle EXCEPT !.pc = "select", !.op = "save", !.new = new])

\* The cached value is the answer; on a miss, or without Redis, the row is read.
ReadCache(c, redisUp) ==
    /\ At(c, "cache")
    /\ calls' = [calls EXCEPT ![c] =
                   IF redisUp /\ cache # NoValue THEN Idle ELSE [@ EXCEPT !.pc = "select"]]
    /\ UNCHANGED <<row, cache>>

\* What a call does once it has the row.
Loaded(call, value) ==
    [call EXCEPT !.seen = value,
                 !.pc = CASE call.op = "read" -> "fill"
                          [] call.op = "look" -> "end"
                          [] call.op = "save" -> "store"]

Select(c) ==
    /\ At(c, "select")
    /\ calls' = [calls EXCEPT ![c] =
                   IF row = NoRow THEN [@ EXCEPT !.pc = "insert"] ELSE Loaded(@, row)]
    /\ UNCHANGED <<row, cache>>

\* Mutant of Insert: the defaults are written over a row that has come since.
InsertOver(c) ==
    /\ At(c, "insert")
    /\ row' = Default
    /\ calls' = [calls EXCEPT ![c] = [Loaded(@, Default) EXCEPT !.inserted = TRUE]]
    /\ UNCHANGED cache

\* The INSERT of id 1 waits for another one that is not committed, and fails,
\* and the call with it, if the row has come since the SELECT.
Insert(c) ==
    /\ At(c, "insert")
    /\ \A other \in Call : ~ calls[other].inserted
    /\ calls' = [calls EXCEPT ![c] =
                   IF row # NoRow THEN Idle
                   ELSE [Loaded(@, Default) EXCEPT !.inserted = TRUE]]
    /\ UNCHANGED <<row, cache>>

\* Mutant of Fill: SET without EX.
FillForever(c, redisUp) ==
    /\ At(c, "fill")
    /\ cache' = IF redisUp
                THEN [value |-> calls[c].seen, expires |-> FALSE, excused |-> calls[c].late]
                ELSE cache
    /\ calls' = [calls EXCEPT ![c].pc = "end"]
    /\ UNCHANGED row

Fill(c, redisUp) ==
    /\ At(c, "fill")
    /\ cache' = IF redisUp
                THEN [value |-> calls[c].seen, expires |-> TRUE, excused |-> calls[c].late]
                ELSE cache
    /\ calls' = [calls EXCEPT ![c].pc = "end"]
    /\ UNCHANGED row

\* The reader's caller commits, or closes its session without: GET /settings/.
End(c, commits) ==
    /\ At(c, "end")
    /\ row' = IF commits /\ calls[c].inserted THEN Default ELSE row
    /\ calls' = [calls EXCEPT ![c] = Idle]
    /\ UNCHANGED cache

\* The calls after a save is committed: a reader that has loaded is late.
Overtaken(c, pc) ==
    [d \in Call |->
       IF d = c THEN [Idle EXCEPT !.pc = pc]
       ELSE IF calls[d].pc = "fill" THEN [calls[d] EXCEPT !.late = TRUE] ELSE calls[d]]

\* Mutant of Store: the cache is left alone.
StoreOnly(c) ==
    /\ At(c, "store")
    /\ row' = IF calls[c].inserted \/ calls[c].new # calls[c].seen THEN calls[c].new ELSE row
    /\ calls' = Overtaken(c, "idle")
    /\ UNCHANGED cache

\* setattr and commit: an attribute set to the value it had is not written.
Store(c) ==
    /\ At(c, "store")
    /\ row' = IF calls[c].inserted \/ calls[c].new # calls[c].seen THEN calls[c].new ELSE row
    /\ calls' = Overtaken(c, "drop")
    /\ UNCHANGED cache

\* The value stays in the cache although it has been replaced.
Kept == IF cache = NoValue THEN cache ELSE [cache EXCEPT !.excused = TRUE]

\* invalidate_cache
Drop(c, redisUp) ==
    /\ At(c, "drop")
    /\ cache' = IF redisUp THEN NoValue ELSE Kept
    /\ calls' = [calls EXCEPT ![c] = Idle]
    /\ UNCHANGED row

\* The request is cancelled or fails: its session is rolled back.
Crash(c) ==
    /\ ~ At(c, "idle")
    /\ cache' = IF At(c, "drop") THEN Kept ELSE cache
    /\ calls' = [calls EXCEPT ![c] = Idle]
    /\ UNCHANGED row

\* CACHE_TTL_SECONDS have passed.
Expire ==
    /\ cache # NoValue
    /\ cache.expires
    /\ cache' = NoValue
    /\ UNCHANGED <<row, calls>>

Proceed(c) ==
    \/ Select(c)
    \/ Insert(c)
    \/ Store(c)
    \/ \E yes \in BOOLEAN : ReadCache(c, yes) \/ Fill(c, yes) \/ End(c, yes) \/ Drop(c, yes)

Next ==
    \/ \E c \in Call :
        \/ StartRead(c)
        \/ StartLook(c)
        \/ \E new \in Value : StartSave(c, new)
        \/ Proceed(c)
        \/ Crash(c)
    \/ Expire

Spec == Init /\ [][Next]_vars

\* Every call runs on, and Redis lets keys expire.
FairSpec == Spec /\ WF_vars(Expire) /\ \A c \in Call : WF_vars(Proceed(c))

-----------------------------------------------------------------------------
Fresh == cache # NoValue => cache.value = Current

\* The cache serves settings other than those saved last only until a save
\* under way removes them, or because Redis failed to remove them, or because
\* a reader loaded the row before the save and cached it after.
StaleForAReason ==
    Fresh \/ cache.excused \/ \E c \in Call : At(c, "drop")

\* However saves, readers and failures of Redis fall, once administrators
\* stop saving the cache comes to agree with the row for good.
EventuallyFresh == <>[][row' = row]_vars => <>[]Fresh
=============================================================================
