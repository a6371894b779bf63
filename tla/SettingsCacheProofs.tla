------------------------- MODULE SettingsCacheProofs -------------------------
(***************************************************************************)
(* The settings row is made once, and the cache disagrees with it for one  *)
(* of the three reasons that StaleForAReason names, for any number of      *)
(* calls and values and however they interleave and fail.                  *)
(***************************************************************************)
EXTENDS SettingsCache, TLAPS

\* What a call holds at each step.
CallsHold ==
    \A c \in Call :
      /\ calls[c].pc \in {"cache", "select", "insert"} => calls[c].op # "none"
      /\ calls[c].op = "save" => calls[c].new \in Value
      /\ calls[c].pc = "store" => calls[c].op = "save"
      /\ calls[c].pc \in {"fill", "store", "end"} => calls[c].seen \in Setting

\* A call that has the row has it from the table, unless it inserted it.
RowIsThere ==
    \A c \in Call :
      /\ calls[c].pc \in {"fill", "store", "end"} /\ ~ calls[c].inserted => row # NoRow
      /\ calls[c].inserted => calls[c].pc \in {"fill", "store", "end"}

\* A reader that no save has overtaken has the row as it is.
ReadersCurrent ==
    \A c \in Call : calls[c].pc = "fill" /\ ~ calls[c].late => calls[c].seen = Current

SettingsInv ==
    TypeOK /\ CallsHold /\ RowIsThere /\ ReadersCurrent /\ StaleForAReason

CallType ==
    [pc : {"idle", "cache", "select", "insert", "fill", "end", "store", "drop"},
     op : {"none", "read", "look", "save"},
     seen : Setting \cup {NoValue}, new : Value \cup {NoValue},
     inserted : BOOLEAN, late : BOOLEAN]

\* At most one call holds an INSERT, and only while the table is empty.
OneInsert ==
    \A c \in Call : calls[c].inserted =>
      row = NoRow /\ \A other \in Call \ {c} : ~ calls[other].inserted

\* Only one call changes, to a call that holds what it should.
Holds(call) ==
    /\ call \in CallType
    /\ call.pc \in {"cache", "select", "insert"} => call.op # "none"
    /\ call.op = "save" => call.new \in Value
    /\ call.pc = "store" => call.op = "save"
    /\ call.pc \in {"fill", "store", "end"} => call.seen \in Setting
    /\ call.inserted => call.pc \in {"fill", "store", "end"}

\* Each call holds what the invariant says.
LEMMA HeldByAll ==
  ASSUME SettingsInv, NEW c \in Call
  PROVE  Holds(calls[c])
  BY DEF SettingsInv, TypeOK, CallsHold, RowIsThere, Holds, CallType

\* A step of one call that leaves the row alone.
LEMMA OneCall ==
  ASSUME SettingsInv, NEW c \in Call, NEW call, Holds(call),
         calls' = [calls EXCEPT ![c] = call], row' = row,
         cache' \in Cached \cup {NoValue}, StaleForAReason',
         call.pc \in {"fill", "store", "end"} /\ ~ call.inserted => row # NoRow,
         call.pc = "fill" /\ ~ call.late => call.seen = Current,
         call.inserted => calls[c].inserted
                          \/ (row = NoRow /\ \A d \in Call \ {c} : ~ calls[d].inserted)
  PROVE  SettingsInv'
  <1>1. \A d \in Call : calls'[d] = IF d = c THEN call ELSE calls[d]
    BY DEF SettingsInv, TypeOK
  <1>2. calls' \in [Call -> CallType] BY DEF SettingsInv, TypeOK, Holds, CallType
  <1>3. OneInsert' BY <1>1 DEF OneInsert, SettingsInv, TypeOK
  <1>4. TypeOK' BY <1>2, <1>3 DEF TypeOK, CallType, OneInsert, SettingsInv
  <1>5. CallsHold' BY <1>1 DEF CallsHold, SettingsInv, Holds
  <1>6. RowIsThere' BY <1>1 DEF RowIsThere, SettingsInv, Holds
  <1>7. ReadersCurrent' BY <1>1 DEF ReadersCurrent, SettingsInv, Current
  <1> QED BY <1>4, <1>5, <1>6, <1>7 DEF SettingsInv

\* The cache stays as stale, or as fresh, as it is while nobody leaves a drop.
LEMMA ReasonStays ==
  ASSUME SettingsInv, NEW c \in Call, UNCHANGED <<row, cache>>, calls[c].pc # "drop",
         \A d \in Call \ {c} : calls'[d] = calls[d]
  PROVE  StaleForAReason'
  BY DEF SettingsInv, StaleForAReason, Fresh, Current, At

\* A value that stays in the cache when it should go is excused.
LEMMA KeptIsExcused ==
  ASSUME SettingsInv
  PROVE  Kept \in Cached \cup {NoValue} /\ (Kept # NoValue => Kept.excused)
  <1>1. cache \in Cached \cup {NoValue} BY DEF SettingsInv, TypeOK
  <1>2. CASE cache = NoValue BY <1>2 DEF Kept
  <1>3. CASE cache # NoValue
    <2>1. Kept = [cache EXCEPT !.excused = TRUE] BY <1>3 DEF Kept
    <2> QED BY <1>1, <1>3, <2>1 DEF Cached
  <1> QED BY <1>2, <1>3

\* Idle calls hold it.
LEMMA IdleHolds == Holds(Idle)
  BY SettingsAssumption DEF Holds, Idle, CallType, Setting

\* The invariant holds at first.
LEMMA SettingsInit == Init => SettingsInv
  <1> SUFFICES ASSUME Init PROVE SettingsInv OBVIOUS
  <1>1. \A c \in Call : calls[c] = Idle BY DEF Init
  <1>2. calls \in [Call -> CallType] BY IdleHolds DEF Init, Holds
  <1>3. TypeOK BY <1>1, <1>2 DEF Init, TypeOK, CallType, Idle
  <1>4. CallsHold /\ RowIsThere /\ ReadersCurrent
    BY <1>1 DEF CallsHold, RowIsThere, ReadersCurrent, Idle
  <1>5. StaleForAReason BY DEF Init, StaleForAReason, Fresh
  <1> QED BY <1>3, <1>4, <1>5 DEF SettingsInv

\* A call that has loaded the row goes on to what it is for.
LEMMA LoadedCall ==
  ASSUME NEW call \in CallType, call.op # "none", NEW value \in Setting
  PROVE  LET loaded == Loaded(call, value) IN
         /\ loaded \in CallType /\ loaded.seen = value /\ loaded.inserted = call.inserted
         /\ loaded.op = call.op /\ loaded.new = call.new
         /\ loaded.pc \in {"fill", "end", "store"} /\ (loaded.pc = "store" => call.op = "save")
  <1>1. call.op \in {"read", "look", "save"} BY DEF CallType
  <1>2. CASE call.op = "read" BY <1>2 DEF Loaded, CallType
  <1>3. CASE call.op = "look" BY <1>3 DEF Loaded, CallType
  <1>4. CASE call.op = "save" BY <1>4 DEF Loaded, CallType
  <1> QED BY <1>1, <1>2, <1>3, <1>4

\* The steps on the way to the row.
LEMMA ReadStep ==
  ASSUME SettingsInv, NEW c \in Call,
         \/ StartRead(c) \/ StartLook(c) \/ (\E new \in Value : StartSave(c, new))
         \/ (\E up \in BOOLEAN : ReadCache(c, up))
         \/ Select(c) \/ Insert(c)
  PROVE  SettingsInv'
  <1> USE SettingsAssumption
  <1>0. /\ calls \in [Call -> CallType] /\ cache \in Cached \cup {NoValue}
        /\ UNCHANGED <<row, cache>>
    BY DEF SettingsInv, TypeOK, CallType, StartRead, StartLook, StartSave, Start, ReadCache,
       Select, Insert
  <1>1. ASSUME NEW call, Holds(call), calls' = [calls EXCEPT ![c] = call],
               calls[c].pc # "drop",
               call.pc \in {"fill", "store", "end"} /\ ~ call.inserted => row # NoRow,
               call.pc = "fill" /\ ~ call.late => call.seen = Current,
               call.inserted => row = NoRow /\ \A d \in Call \ {c} : ~ calls[d].inserted
        PROVE  SettingsInv'
    <2>1. \A d \in Call \ {c} : calls'[d] = calls[d] BY <1>0, <1>1
    <2>2. StaleForAReason' BY <1>0, <1>1, <2>1, ReasonStays
    <2>3. cache' \in Cached \cup {NoValue} BY <1>0
    <2> QED BY <1>0, <1>1, <2>2, <2>3, OneCall
  <1>2. CASE StartRead(c)
    <2>1. Holds([Idle EXCEPT !.pc = "cache", !.op = "read"])
      BY DEF Idle, Holds, CallType
    <2> QED BY <1>1, <1>2, <2>1 DEF StartRead, Start, At, Idle
  <1>3. CASE StartLook(c)
    <2>1. Holds([Idle EXCEPT !.pc = "select", !.op = "look"])
      BY DEF Idle, Holds, CallType
    <2> QED BY <1>1, <1>3, <2>1 DEF StartLook, Start, At, Idle
  <1>4. ASSUME NEW new \in Value, StartSave(c, new) PROVE SettingsInv'
    <2>1. Holds([Idle EXCEPT !.pc = "select", !.op = "save", !.new = new])
      BY DEF Idle, Holds, CallType
    <2> QED BY <1>1, <1>4, <2>1 DEF StartSave, Start, At, Idle
  <1>5. ASSUME NEW up \in BOOLEAN, ReadCache(c, up) PROVE SettingsInv'
    <2>1. calls[c] \in CallType /\ calls[c].pc = "cache" /\ Holds(calls[c])
      BY <1>0, <1>5, HeldByAll DEF ReadCache, At
    <2>2. CASE up /\ cache # NoValue
      BY <1>1, <1>5, <2>1, <2>2, IdleHolds DEF ReadCache, Idle
    <2>3. CASE ~ (up /\ cache # NoValue)
      <3> DEFINE call == [calls[c] EXCEPT !.pc = "select"]
      <3>1. calls' = [calls EXCEPT ![c] = call] BY <1>5, <2>3 DEF ReadCache
      <3>2. call.pc = "select" /\ Holds(call) /\ ~ call.inserted
        BY <2>1 DEF CallType, Holds
      <3> HIDE DEF call
      <3> QED BY <1>1, <2>1, <3>1, <3>2
    <2> QED BY <2>2, <2>3
  <1>6. ASSUME NEW value \in Setting, value = Current, NEW inserted \in BOOLEAN,
               calls[c].pc \in {"select", "insert"},
               calls' = [calls EXCEPT ![c] = [Loaded(@, value) EXCEPT !.inserted = inserted]],
               inserted => row = NoRow /\ \A d \in Call \ {c} : ~ calls[d].inserted,
               ~ inserted => row # NoRow
        PROVE  SettingsInv'
    <2> DEFINE call == [Loaded(calls[c], value) EXCEPT !.inserted = inserted]
    <2>1. calls[c] \in CallType /\ Holds(calls[c]) BY <1>0, HeldByAll
    <2>2. calls[c].op \in {"read", "look", "save"} BY <1>6, <2>1 DEF Holds, CallType
    <2>3. Loaded(calls[c], value) \in CallType BY <1>6, <2>1, <2>2, LoadedCall
    <2>4. calls' = [calls EXCEPT ![c] = call] BY <1>6
    <2>5. call \in CallType /\ call.seen = value /\ call.inserted = inserted
          /\ call.op = calls[c].op /\ call.new = calls[c].new
          /\ call.pc \in {"fill", "end", "store"} /\ (call.pc = "store" => call.op = "save")
      BY <1>6, <2>1, <2>2, <2>3, LoadedCall DEF CallType
    <2> HIDE DEF call
    <2>6. Holds(call) BY <1>6, <2>1, <2>5 DEF Holds
    <2> QED BY <1>1, <1>6, <2>4, <2>5, <2>6
  <1>7. CASE Select(c)
    <2>1. calls[c] \in CallType /\ calls[c].pc = "select" /\ Holds(calls[c])
      BY <1>0, <1>7, HeldByAll DEF Select, At
    <2>2. CASE row = NoRow
      <3> DEFINE call == [calls[c] EXCEPT !.pc = "insert"]
      <3>1. calls' = [calls EXCEPT ![c] = call] BY <1>7, <2>2 DEF Select
      <3>2. call.pc = "insert" /\ Holds(call) /\ ~ call.inserted
        BY <2>1 DEF CallType, Holds
      <3> HIDE DEF call
      <3> QED BY <1>1, <2>1, <3>1, <3>2
    <2>3. CASE row # NoRow
      <3>1. row \in Setting /\ row = Current BY <2>3 DEF SettingsInv, TypeOK, Current
      <3>2. ~ calls[c].inserted BY <2>1 DEF Holds
      <3>3. Loaded(calls[c], row) = [Loaded(calls[c], row) EXCEPT !.inserted = FALSE]
        <4>1. Loaded(calls[c], row) \in CallType /\ Loaded(calls[c], row).inserted = FALSE
          BY <2>1, <3>1, <3>2, LoadedCall DEF Holds, CallType
        <4> QED BY <4>1 DEF CallType
      <3>4. calls' = [calls EXCEPT ![c] = [Loaded(calls[c], row) EXCEPT !.inserted = FALSE]]
        BY <1>7, <2>3, <3>3 DEF Select
      <3> QED BY <1>6, <2>1, <2>3, <3>1, <3>4
    <2> QED BY <2>2, <2>3
  <1>8. CASE Insert(c)
    <2>1. calls[c].pc = "insert" BY <1>8 DEF Insert, At
    <2>2. CASE row # NoRow
      BY <1>1, <1>8, <2>1, <2>2, IdleHolds DEF Insert, Idle
    <2>3. CASE row = NoRow
      <3>1. Default \in Setting /\ Default = Current BY <2>3 DEF Setting, Current
      <3>2. \A d \in Call : ~ calls[d].inserted BY <1>8 DEF Insert
      <3>3. calls' = [calls EXCEPT ![c] = [Loaded(calls[c], Default) EXCEPT !.inserted = TRUE]]
        BY <1>8, <2>3 DEF Insert
      <3> QED BY <1>6, <2>1, <2>3, <3>1, <3>2, <3>3
    <2> QED BY <2>2, <2>3
  <1> QED BY <1>2, <1>3, <1>4, <1>5, <1>7, <1>8

\* The steps that write the cache, and a call that ends without a save.
LEMMA CacheStep ==
  ASSUME SettingsInv, NEW c \in Call,
         \/ \E up \in BOOLEAN : Fill(c, up) \/ Drop(c, up)
         \/ Crash(c)
  PROVE  SettingsInv'
  <1> USE SettingsAssumption
  <1>0. UNCHANGED row /\ cache \in Cached \cup {NoValue} /\ calls[c] \in CallType
        /\ Holds(calls[c]) /\ calls \in [Call -> CallType]
    BY HeldByAll DEF Fill, Drop, Crash, SettingsInv, TypeOK, CallType
  <1>1. ASSUME calls' = [calls EXCEPT ![c] = Idle], cache' = Kept PROVE SettingsInv'
    <2>1. StaleForAReason' BY <1>1, KeptIsExcused DEF StaleForAReason, Fresh
    <2>2. cache' \in Cached \cup {NoValue} BY <1>1, KeptIsExcused
    <2> QED BY <1>0, <1>1, <2>1, <2>2, IdleHolds, OneCall DEF Idle
  <1>2. ASSUME NEW up \in BOOLEAN, Drop(c, up) PROVE SettingsInv'
    <2>1. CASE ~ up BY <1>1, <1>2, <2>1 DEF Drop
    <2>2. CASE up
      <3>1. cache' = NoValue /\ calls' = [calls EXCEPT ![c] = Idle] BY <1>2, <2>2 DEF Drop
      <3>2. StaleForAReason' BY <3>1 DEF StaleForAReason, Fresh
      <3> QED BY <1>0, <3>1, <3>2, IdleHolds, OneCall DEF Idle
    <2> QED BY <2>1, <2>2
  <1>3. CASE Crash(c)
    <2>1. calls' = [calls EXCEPT ![c] = Idle] BY <1>3 DEF Crash
    <2>2. CASE At(c, "drop") BY <1>1, <1>3, <2>1, <2>2 DEF Crash
    <2>3. CASE ~ At(c, "drop")
      <3>1. UNCHANGED <<row, cache>> /\ calls[c].pc # "drop" BY <1>3, <2>3 DEF Crash, At
      <3>2. \A d \in Call \ {c} : calls'[d] = calls[d] BY <1>0, <2>1
      <3>3. StaleForAReason' BY <3>1, <3>2, ReasonStays
      <3>4. cache' \in Cached \cup {NoValue} BY <1>0, <3>1
      <3> QED BY <1>0, <2>1, <3>3, <3>4, IdleHolds, OneCall DEF Idle
    <2> QED BY <2>2, <2>3
  <1>4. ASSUME NEW call, Holds(call), call.pc = "end", calls' = [calls EXCEPT ![c] = call],
               call.inserted => calls[c].inserted, ~ call.inserted => row # NoRow,
               cache' \in Cached \cup {NoValue}, StaleForAReason'
        PROVE  SettingsInv'
    BY <1>0, <1>4, OneCall
  <1>5. ASSUME NEW up \in BOOLEAN, Fill(c, up) PROVE SettingsInv'
    <2> DEFINE call == [calls[c] EXCEPT !.pc = "end"]
    <2>1. calls' = [calls EXCEPT ![c] = call] /\ calls[c].pc = "fill" BY <1>5 DEF Fill, At
    <2>2. Holds(call) /\ call.pc = "end" /\ (call.inserted <=> calls[c].inserted)
      BY <1>0, <2>1 DEF Holds, CallType
    <2>3. calls[c].seen \in Setting /\ calls[c].late \in BOOLEAN
      BY <1>0, <2>1 DEF Holds, CallType
    <2>4. (~ call.inserted) => row # NoRow
      BY <2>1, <2>2 DEF SettingsInv, RowIsThere
    <2>5. cache' \in Cached \cup {NoValue} /\ StaleForAReason'
      <3>1. CASE up
        <4>1. cache' = [value |-> calls[c].seen, expires |-> TRUE, excused |-> calls[c].late]
          BY <1>5, <3>1 DEF Fill
        <4>2. cache' \in Cached BY <2>3, <4>1 DEF Cached
        <4>3. cache'.excused \/ cache'.value = Current
          BY <2>1, <4>1 DEF SettingsInv, ReadersCurrent
        <4>4. Current' = Current BY <1>0 DEF Current
        <4> QED BY <4>2, <4>3, <4>4 DEF StaleForAReason, Fresh
      <3>2. CASE ~ up
        <4>1. UNCHANGED <<row, cache>> BY <1>0, <1>5, <3>2 DEF Fill
        <4>2. \A d \in Call \ {c} : calls'[d] = calls[d] BY <1>0, <2>1
        <4> QED BY <1>0, <2>1, <4>1, <4>2, ReasonStays
      <3> QED BY <3>1, <3>2
    <2> HIDE DEF call
    <2> QED BY <1>4, <2>1, <2>2, <2>4, <2>5
  <1> QED BY <1>2, <1>3, <1>5

\* A reader that commits the row it inserted.
LEMMA EndStep ==
  ASSUME SettingsInv, NEW c \in Call, NEW commits \in BOOLEAN, End(c, commits)
  PROVE  SettingsInv'
  <1> USE SettingsAssumption
  <1>0. /\ UNCHANGED cache /\ calls' = [calls EXCEPT ![c] = Idle] /\ calls[c].pc = "end"
        /\ row' = IF commits /\ calls[c].inserted THEN Default ELSE row
    BY DEF End, At
  <1>1. \A d \in Call : calls'[d] = IF d = c THEN Idle ELSE calls[d]
    BY <1>0 DEF SettingsInv, TypeOK
  <1>2. Current' = Current /\ row' \in Setting \cup {NoRow} /\ (row # NoRow => row' = row)
    BY <1>0 DEF SettingsInv, TypeOK, Current, Setting
  <1>3. TypeOK'
    <2>1. calls' \in [Call -> CallType]
      BY <1>0, IdleHolds DEF SettingsInv, TypeOK, Holds, CallType
    <2>2. OneInsert' BY <1>0, <1>1 DEF SettingsInv, TypeOK, OneInsert, Idle
    <2> QED BY <1>0, <1>2, <2>1, <2>2 DEF SettingsInv, TypeOK, CallType, OneInsert
  <1>4. CallsHold' BY <1>1 DEF SettingsInv, CallsHold, Idle
  <1>5. RowIsThere' BY <1>1, <1>2 DEF SettingsInv, RowIsThere, Idle
  <1>6. ReadersCurrent' BY <1>1, <1>2 DEF SettingsInv, ReadersCurrent, Idle
  <1>7. StaleForAReason'
    BY <1>0, <1>1, <1>2 DEF SettingsInv, StaleForAReason, Fresh, At
  <1> QED BY <1>3, <1>4, <1>5, <1>6, <1>7 DEF SettingsInv

\* A save: the readers it overtakes are late, and the cache is to be dropped.
LEMMA StoreStep ==
  ASSUME SettingsInv, NEW c \in Call, Store(c)
  PROVE  SettingsInv'
  <1> USE SettingsAssumption
  <1>0. /\ UNCHANGED cache /\ calls' = Overtaken(c, "drop") /\ calls[c].pc = "store"
        /\ row' = IF calls[c].inserted \/ calls[c].new # calls[c].seen THEN calls[c].new ELSE row
    BY DEF Store, At
  <1>1. calls[c].new \in Value BY <1>0 DEF SettingsInv, CallsHold
  <1>2. row' \in Setting /\ row' # NoRow
    BY <1>0, <1>1 DEF SettingsInv, TypeOK, RowIsThere, Setting
  <1>3. /\ calls'[c] = [Idle EXCEPT !.pc = "drop"]
        /\ \A d \in Call \ {c} :
             calls'[d] = IF calls[d].pc = "fill" THEN [calls[d] EXCEPT !.late = TRUE] ELSE calls[d]
    BY <1>0 DEF Overtaken
  <1>4. \A d \in Call : calls[d] \in CallType BY DEF SettingsInv, TypeOK, CallType
  <1>5. /\ calls'[c].pc = "drop" /\ ~ calls'[c].inserted /\ calls'[c].op = "none"
        /\ calls'[c] \in CallType
    BY <1>3 DEF Idle, CallType
  <1>6. \A d \in Call \ {c} :
          /\ calls'[d] \in CallType
          /\ calls'[d].pc = calls[d].pc /\ calls'[d].op = calls[d].op
          /\ calls'[d].new = calls[d].new /\ calls'[d].seen = calls[d].seen
          /\ calls'[d].inserted = calls[d].inserted
          /\ calls[d].pc = "fill" => calls'[d].late
    <2> SUFFICES ASSUME NEW d \in Call \ {c}
                 PROVE  /\ calls'[d] \in CallType
                        /\ calls'[d].pc = calls[d].pc /\ calls'[d].op = calls[d].op
                        /\ calls'[d].new = calls[d].new /\ calls'[d].seen = calls[d].seen
                        /\ calls'[d].inserted = calls[d].inserted
                        /\ calls[d].pc = "fill" => calls'[d].late
      OBVIOUS
    <2>1. CASE calls[d].pc = "fill"
      <3>1. calls'[d] = [calls[d] EXCEPT !.late = TRUE] BY <1>3, <2>1
      <3> QED BY <1>4, <3>1 DEF CallType
    <2>2. CASE calls[d].pc # "fill"
      <3>1. calls'[d] = calls[d] BY <1>3, <2>2
      <3> QED BY <1>4, <2>2, <3>1
    <2> QED BY <2>1, <2>2
  <1>7. TypeOK'
    <2>1. calls' \in [Call -> CallType] BY <1>0, <1>5, <1>6 DEF Overtaken
    <2>2. ASSUME NEW d \in Call, calls'[d].inserted PROVE FALSE
      <3>1. d # c /\ calls[d].inserted BY <1>5, <1>6, <2>2
      <3>2. row = NoRow /\ ~ calls[c].inserted BY <3>1 DEF SettingsInv, TypeOK
      <3> QED BY <1>0, <3>2 DEF SettingsInv, RowIsThere
    <2> QED BY <1>0, <1>2, <2>1, <2>2 DEF SettingsInv, TypeOK, CallType
  <1>8. CallsHold' BY <1>5, <1>6 DEF SettingsInv, CallsHold
  <1>9. RowIsThere' BY <1>2, <1>5, <1>6 DEF SettingsInv, RowIsThere
  <1>10. ReadersCurrent' BY <1>5, <1>6 DEF ReadersCurrent
  <1>11. StaleForAReason' BY <1>5 DEF StaleForAReason, At
  <1> QED BY <1>7, <1>8, <1>9, <1>10, <1>11 DEF SettingsInv

\* The inductive invariant of the row, its copy, and the calls about them.
THEOREM SettingsInvariant == Spec => []SettingsInv
  <1>1. ASSUME SettingsInv, Expire PROVE SettingsInv'
    <2>1. cache' = NoValue /\ UNCHANGED <<row, calls>> BY <1>1 DEF Expire
    <2> QED BY <1>1, <2>1 DEF SettingsInv, TypeOK, CallsHold, RowIsThere, ReadersCurrent,
                            StaleForAReason, Fresh, Current
  <1>2. ASSUME SettingsInv, UNCHANGED vars PROVE SettingsInv'
    BY <1>2 DEF vars, SettingsInv, TypeOK, CallsHold, RowIsThere, ReadersCurrent,
                StaleForAReason, Fresh, Current, At
  <1>3. SettingsInv /\ [Next]_vars => SettingsInv'
    BY <1>1, <1>2, ReadStep, CacheStep, EndStep, StoreStep DEF Next, Proceed
  <1> QED BY <1>3, SettingsInit, PTL DEF Spec

\* The row and the cache keep their types, and the row is inserted once.
THEOREM SettingsTypeCorrect == Spec => []TypeOK
  <1>1. SettingsInv => TypeOK BY DEF SettingsInv
  <1> QED BY <1>1, SettingsInvariant, PTL

\* The cache is stale only for one of the three reasons.
THEOREM AlwaysStaleForAReason == Spec => []StaleForAReason
  <1>1. SettingsInv => StaleForAReason BY DEF SettingsInv
  <1> QED BY <1>1, SettingsInvariant, PTL
=============================================================================
