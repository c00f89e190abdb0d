------------------------ MODULE SessionRegistryProofs ------------------------
(***************************************************************************)
(* Type correctness of SessionRegistry and what holds of the health        *)
(* readers in every interleaving of the calls; then what holds when the    *)
(* calls for one server do not overlap: only a guided SSH connect leaks a  *)
(* session, a registered one has its entry, and the session map implements *)
(* ServerSlots.                                                            *)
(***************************************************************************)
EXTENDS SessionRegistry, TLAPS

--------------------------------------------------------------------------------
(* The broadcast channel stays a sequence of events.                       *)
LEMMA BroadcastType ==
    ASSUME NEW e \in Event, events \in Seq(Event), lagged \in BOOLEAN,
           Broadcast(e)
    PROVE  events' \in Seq(Event) /\ lagged' \in BOOLEAN /\ listener' = listener
<1> DEFINE q == Append(events, e)
<1>1. q \in Seq(Event) /\ q # <<>>
  OBVIOUS
<1>2. Tail(q) \in Seq(Event)
  BY <1>1
<1>3. QED
  BY <1>1, <1>2 DEF Broadcast

(* Every write to the store leaves a well-typed entry.                     *)
LEMMA StoreWriteType ==
    ASSUME NEW s \in Servers \cup {None}, NEW h \in Health, NEW p \in BOOLEAN,
           TypeOK,
           \/ UpsertServer(s, h) \/ RemoveServer(s) \/ UpdateServerHealth(s, h)
           \/ UpdateConnectionProgress(s, p) \/ MarkTransportDisconnected(s)
    PROVE  /\ store' \in [Servers -> Entry \cup {None}]
           /\ writer' \in [Servers -> Calls \cup {None}]
<1>1. "Disconnected" \in Health
  BY DEF Health
<1>2. writer' \in [Servers -> Calls \cup {None}]
  BY DEF TypeOK, UpsertServer, RemoveServer, UpdateServerHealth,
         UpdateConnectionProgress, MarkTransportDisconnected
<1>4. CASE store[s] \in Entry
  <2>4. CASE UpsertServer(s, h)
    <3> DEFINE e == [health |-> h, progress |-> store[s] # None /\ store[s].progress]
    <3>1. e \in Entry
      BY <1>4 DEF Entry
    <3>2. store' = [store EXCEPT ![s] = e]
      BY <2>4 DEF UpsertServer
    <3> HIDE DEF e
    <3>3. QED
      BY <1>2, <3>1, <3>2 DEF TypeOK
  <2>5. CASE RemoveServer(s)
    BY <1>2, <2>5 DEF RemoveServer, TypeOK
  <2>6. CASE UpdateServerHealth(s, h)
    <3> DEFINE e == [store[s] EXCEPT !.health = h]
    <3>1. e \in Entry
      BY <1>1, <1>4 DEF Entry
    <3>2. store' = store \/ store' = [store EXCEPT ![s] = e]
      BY <2>6 DEF UpdateServerHealth
    <3> HIDE DEF e
    <3>3. QED
      BY <1>2, <3>1, <3>2 DEF TypeOK
  <2>7. CASE UpdateConnectionProgress(s, p)
    <3> DEFINE e == [store[s] EXCEPT !.progress = p]
    <3>1. e \in Entry
      BY <1>1, <1>4 DEF Entry
    <3>2. store' = store \/ store' = [store EXCEPT ![s] = e]
      BY <2>7 DEF UpdateConnectionProgress
    <3> HIDE DEF e
    <3>3. QED
      BY <1>2, <3>1, <3>2 DEF TypeOK
  <2>8. CASE MarkTransportDisconnected(s)
    <3> DEFINE e == [store[s] EXCEPT !.health = "Disconnected"]
    <3>1. e \in Entry
      BY <1>1, <1>4 DEF Entry
    <3>2. store' = store \/ store' = [store EXCEPT ![s] = e]
      BY <2>8 DEF MarkTransportDisconnected, UpdateServerHealth
    <3> HIDE DEF e
    <3>3. QED
      BY <1>2, <3>1, <3>2 DEF TypeOK
  <2>9. QED
    BY <2>4, <2>5, <2>6, <2>7, <2>8
<1>5. CASE s \in Servers /\ store[s] = None
  <2>1. [health |-> h, progress |-> FALSE] \in Entry
    BY DEF Entry
  <2>2. \/ store' = store
        \/ store' = [store EXCEPT ![s] = None]
        \/ store' = [store EXCEPT ![s] = [health |-> h, progress |-> FALSE]]
    BY <1>5 DEF UpsertServer, RemoveServer, UpdateServerHealth,
                UpdateConnectionProgress, MarkTransportDisconnected
  <2>3. QED
    BY <1>2, <2>1, <2>2 DEF TypeOK
<1>6. CASE s = None
  <2>1. store' = store
    BY <1>6, NoneAssumption
       DEF TypeOK, UpsertServer, RemoveServer, UpdateServerHealth,
           UpdateConnectionProgress, MarkTransportDisconnected
  <2>2. QED
    BY <1>2, <2>1 DEF TypeOK
<1>7. QED
  BY <1>4, <1>5, <1>6 DEF TypeOK

(* A connect call that has begun knows its server.                         *)
TargetKnown == \A c \in Calls : call[c] # "idle" => target[c] \in Servers

LEMMA InitTypeOK == Init => TypeOK /\ TargetKnown
<1> SUFFICES ASSUME Init PROVE TypeOK /\ TargetKnown
  OBVIOUS
<1>1. TargetKnown
  BY DEF Init, TargetKnown
<1>2. drop \in [Drops -> [pc : DropPc, server : Servers \cup {None},
                          old : Calls \cup {None}]]
  BY DEF Init, DropPc
<1>3. ask \in [Asks -> [pc : AskPc, server : Servers \cup {None},
                        session : Calls \cup {None}]]
  BY DEF Init, AskPc
<1>4. events \in Seq(Event)
  BY DEF Init
<1>5. QED
  BY <1>1, <1>2, <1>3, <1>4 DEF Init, TypeOK, AllKinds, CallPc, ReaderPc, Health

--------------------------------------------------------------------------------
(***************************************************************************)
(* One lemma per group of actions: the connect calls, the disconnect calls *)
(* with the typed requests, and the sessions' own tasks.                   *)
(***************************************************************************)
LEMMA ConnectTypeOK ==
    ASSUME TypeOK, TargetKnown, NEW c \in Calls,
           \/ \E s \in Servers : ReuseDirect(c, s) \/ BeginDirect(c, s)
           \/ \E s \in Servers, k \in AllKinds :
                BeginUpsert(c, s, k) \/ RefuseBegin(c, s, k)
           \/ CallStep(c) \/ ShowProgress(c) \/ DialOk(c) \/ DialFail(c)
    PROVE  TypeOK' /\ TargetKnown'
<1> USE DEF TypeOK, TargetKnown
<1>1. ASSUME NEW s \in Servers, ReuseDirect(c, s) \/ BeginDirect(c, s)
      PROVE  TypeOK' /\ TargetKnown'
  <2>1. /\ target' = [target EXCEPT ![c] = s]
        /\ kind' = [kind EXCEPT ![c] = "direct"]
        /\ \/ call' = [call EXCEPT ![c] = "done"]
           \/ call' = [call EXCEPT ![c] = "replace"]
    BY <1>1 DEF ReuseDirect, BeginDirect, Begin, Goto
  <2>2. QED
    BY <1>1, <2>1 DEF ReuseDirect, BeginDirect, Begin, Goto, CallPc, AllKinds, storeVars,
              sessionVars, readerVars, queueVars
<1>2. ASSUME NEW s \in Servers, NEW k \in AllKinds, BeginUpsert(c, s, k)
      PROVE  TypeOK' /\ TargetKnown'
  <2>1. /\ store' \in [Servers -> Entry \cup {None}]
        /\ writer' \in [Servers -> Calls \cup {None}]
    BY <1>2, StoreWriteType DEF BeginUpsert, Health
  <2>2. QED
    BY <1>2, <2>1 DEF BeginUpsert, Begin, Goto, CallPc, sessionVars, readerVars,
                      queueVars
<1>3. ASSUME NEW s \in Servers, NEW k \in AllKinds, RefuseBegin(c, s, k)
      PROVE  TypeOK' /\ TargetKnown'
  <2>1. /\ store' \in [Servers -> Entry \cup {None}]
        /\ writer' \in [Servers -> Calls \cup {None}]
    BY <1>3, StoreWriteType DEF RefuseBegin, Health, storeVars
  <2>2. QED
    BY <1>3, <2>1 DEF RefuseBegin, Begin, Goto, CallPc, sessionVars, readerVars,
                      queueVars
<1>4. CASE BeginProgress(c)
  <2>1. /\ store' \in [Servers -> Entry \cup {None}]
        /\ writer' \in [Servers -> Calls \cup {None}]
    BY <1>4, StoreWriteType DEF BeginProgress, Health
  <2>2. QED
    BY <1>4, <2>1 DEF BeginProgress, Goto, CallPc, sessionVars, readerVars, queueVars
<1>0. CASE ShowProgress(c)
  <2>1. /\ store' \in [Servers -> Entry \cup {None}]
        /\ writer' \in [Servers -> Calls \cup {None}]
    BY <1>0, StoreWriteType DEF ShowProgress, Health
  <2>2. QED
    BY <1>0, <2>1 DEF ShowProgress, callVars, sessionVars, readerVars, queueVars
<1>5. CASE ReplaceRemove(c)
  <2>1. target[c] \in Servers /\ sessions[target[c]] \in Calls \cup {None}
    BY <1>5 DEF ReplaceRemove
  <2>2. QED
    BY <1>5, <2>1 DEF ReplaceRemove, Goto, CallPc, storeVars, sessionVars, readerVars,
                      queueVars
<1>6. CASE ReplaceClose(c)
  BY <1>6 DEF ReplaceClose, CloseSession, Goto, CallPc, Health, storeVars, readerVars,
              queueVars
<1>7. CASE Fail(c)
  <2>1. /\ store' \in [Servers -> Entry \cup {None}]
        /\ writer' \in [Servers -> Calls \cup {None}]
    BY <1>7, StoreWriteType DEF Fail, Health
  <2>2. QED
    BY <1>7, <2>1 DEF Fail, Goto, CallPc, sessionVars, readerVars, queueVars
<1>8. CASE EndProgress(c)
  <2>1. /\ store' \in [Servers -> Entry \cup {None}]
        /\ writer' \in [Servers -> Calls \cup {None}]
    <3>1. (call[c] = "failProgress" /\ kind[c] = "guided") \in BOOLEAN
      OBVIOUS
    <3>2. QED
      BY <1>8, <3>1, StoreWriteType DEF EndProgress, Health
  <2>2. QED
    BY <1>8, <2>1 DEF EndProgress, Goto, CallPc, sessionVars, readerVars, queueVars
<1>9. CASE AttachUpsert(c)
  <2>1. /\ store' \in [Servers -> Entry \cup {None}]
        /\ writer' \in [Servers -> Calls \cup {None}]
    BY <1>9, StoreWriteType DEF AttachUpsert, Health
  <2>2. QED
    BY <1>9, <2>1 DEF AttachUpsert, Goto, CallPc, sessionVars, readerVars, queueVars
<1>10. CASE AttachInsert(c)
  <2>1. sessions' = [sessions EXCEPT ![target[c]] = c] /\ target[c] \in Servers
    BY <1>10 DEF AttachInsert, InsertOver
  <2>2. displaced' \subseteq Calls
    BY <1>10, <2>1 DEF AttachInsert, InsertOver
  <2>3. QED
    BY <1>10, <2>1, <2>2
       DEF AttachInsert, InsertOver, Goto, CallPc, ReaderPc, storeVars, sessionVars, queueVars
<1>11. CASE DialOk(c)
  BY <1>11 DEF DialOk, Goto, CallPc, Health, storeVars, readerVars, queueVars
<1>12. CASE DialFail(c)
  BY <1>12 DEF DialFail, Goto, CallPc, storeVars, sessionVars, readerVars, queueVars
<1>13. QED
  BY <1>0, <1>1, <1>2, <1>3, <1>4, <1>5, <1>6, <1>7, <1>8, <1>9, <1>10, <1>11, <1>12
     DEF CallStep

(* The records of the disconnect calls and of the typed requests.          *)
DropRecord == [pc : DropPc, server : Servers \cup {None}, old : Calls \cup {None}]
AskRecord == [pc : AskPc, server : Servers \cup {None}, session : Calls \cup {None}]

LEMMA RecordUpdates ==
    /\ \A r \in DropRecord, pc \in DropPc :
         /\ [r EXCEPT !.pc = pc] \in DropRecord
         /\ [r EXCEPT !.pc = pc, !.old = None] \in DropRecord
    /\ \A r \in AskRecord : [r EXCEPT !.pc = "done", !.session = None] \in AskRecord
<1>1. ASSUME NEW r \in DropRecord, NEW pc \in DropPc
      PROVE  /\ [r EXCEPT !.pc = pc] \in DropRecord
             /\ [r EXCEPT !.pc = pc, !.old = None] \in DropRecord
  BY <1>1 DEF DropRecord
<1>2. ASSUME NEW r \in AskRecord
      PROVE  [r EXCEPT !.pc = "done", !.session = None] \in AskRecord
  BY <1>2 DEF AskRecord, AskPc
<1>3. QED
  BY <1>1, <1>2

LEMMA DropTypeOK ==
    ASSUME TypeOK, TargetKnown, NEW d \in Drops,
           \/ \E s \in Servers : DropSession(d, s)
           \/ DropEntry(d) \/ DropClose(d)
    PROVE  TypeOK' /\ TargetKnown'
<1> USE DEF TypeOK, TargetKnown, callVars
<1>1. ASSUME NEW s \in Servers, DropSession(d, s)
      PROVE  TypeOK' /\ TargetKnown'
  BY <1>1 DEF DropSession, DropPc, storeVars, sessionVars, readerVars, queueVars
<1>2. CASE DropEntry(d)
  <2>1. /\ store' \in [Servers -> Entry \cup {None}]
        /\ writer' \in [Servers -> Calls \cup {None}]
    <3>1. drop[d].server \in Servers \cup {None}
      OBVIOUS
    <3>2. QED
      BY <1>2, <3>1, StoreWriteType DEF DropEntry, Health
  <2>2. PICK pc \in DropPc : drop' = [drop EXCEPT ![d] = [@ EXCEPT !.pc = pc]]
    BY <1>2 DEF DropEntry, DropPc
  <2>3. drop' \in [Drops -> DropRecord]
    BY <2>2, RecordUpdates DEF DropRecord
  <2>4. QED
    BY <1>2, <2>1, <2>3 DEF DropRecord, DropEntry, sessionVars, readerVars, queueVars
<1>3. CASE DropClose(d)
  <2>1. "done" \in DropPc
    BY DEF DropPc
  <2>2. drop' = [drop EXCEPT ![d] = [@ EXCEPT !.pc = "done", !.old = None]]
    BY <1>3 DEF DropClose
  <2>3. drop' \in [Drops -> DropRecord]
    BY <2>1, <2>2, RecordUpdates DEF DropRecord
  <2>4. QED
    BY <1>3, <2>3 DEF DropRecord, DropClose, CloseSession, Health, storeVars, readerVars, queueVars
<1>4. QED
  BY <1>1, <1>2, <1>3

LEMMA AskTypeOK ==
    ASSUME TypeOK, TargetKnown, NEW a \in Asks,
           \/ \E s \in Servers : AskSession(a, s) \/ AskNoSession(a, s)
           \/ AskAnswered(a) \/ AskTransportError(a)
    PROVE  TypeOK' /\ TargetKnown'
<1> USE DEF TypeOK, TargetKnown, callVars
<1>1. ASSUME NEW s \in Servers, AskSession(a, s)
      PROVE  TypeOK' /\ TargetKnown'
  BY <1>1 DEF AskSession, AskPc, storeVars, sessionVars, readerVars, queueVars
<1>2. ASSUME NEW s \in Servers, AskNoSession(a, s)
      PROVE  TypeOK' /\ TargetKnown'
  <2>1. /\ store' \in [Servers -> Entry \cup {None}]
        /\ writer' \in [Servers -> Calls \cup {None}]
    BY <1>2, StoreWriteType DEF AskNoSession, Health
  <2>2. QED
    BY <1>2, <2>1 DEF AskNoSession, AskPc, sessionVars, readerVars, queueVars
<1>3. CASE AskAnswered(a)
  <2>1. ask' = [ask EXCEPT ![a] = [@ EXCEPT !.pc = "done", !.session = None]]
    BY <1>3 DEF AskAnswered
  <2>2. ask' \in [Asks -> AskRecord]
    BY <2>1, RecordUpdates DEF AskRecord
  <2>3. QED
    BY <1>3, <2>2 DEF AskRecord, AskAnswered, storeVars, sessionVars, readerVars, queueVars
<1>4. CASE AskTransportError(a)
  <2>1. /\ store' \in [Servers -> Entry \cup {None}]
        /\ writer' \in [Servers -> Calls \cup {None}]
    <3>1. ask[a].server \in Servers \cup {None}
      OBVIOUS
    <3>2. QED
      BY <1>4, <3>1, StoreWriteType DEF AskTransportError, Health
  <2>2. ask' = [ask EXCEPT ![a] = [@ EXCEPT !.pc = "done", !.session = None]]
    BY <1>4 DEF AskTransportError
  <2>3. ask' \in [Asks -> AskRecord]
    BY <2>2, RecordUpdates DEF AskRecord
  <2>4. QED
    BY <1>4, <2>1, <2>3 DEF AskRecord, AskTransportError, sessionVars, readerVars, queueVars
<1>5. QED
  BY <1>1, <1>2, <1>3, <1>4

(* A worker or a health reader takes a step.                               *)
LEMMA TaskTypeOK ==
    ASSUME TypeOK, TargetKnown, NEW x \in Calls,
           WorkerMoves(x) \/ WorkerStops(x) \/ ReaderStep(x)
    PROVE  TypeOK' /\ TargetKnown'
<1> USE DEF TypeOK, TargetKnown, callVars
<1>1. CASE WorkerMoves(x)
  BY <1>1 DEF WorkerMoves, storeVars, readerVars, queueVars
<1>2. CASE WorkerStops(x)
  BY <1>2 DEF WorkerStops, storeVars, readerVars, queueVars
<1>3. ASSUME NEW from \in ReaderPc, NEW to \in ReaderPc, ReaderTest(x, from, to)
      PROVE  TypeOK' /\ TargetKnown'
  BY <1>3 DEF ReaderTest, ReaderStays, ReaderPc, storeVars, queueVars
<1>4. ASSUME NEW from \in ReaderPc, NEW to \in ReaderPc, NEW h \in Health,
             ReaderEmit(x, from, h, to)
      PROVE  TypeOK' /\ TargetKnown'
  <2>1. [server |-> target[x], health |-> h, from |-> x] \in Event
    BY DEF Event
  <2>2. events' \in Seq(Event) /\ lagged' \in BOOLEAN /\ listener' = listener
    BY <1>4, <2>1, BroadcastType DEF ReaderEmit
  <2>3. "Connecting" \in Health
    BY DEF Health
  <2>4. QED
    BY <1>4, <2>2, <2>3 DEF ReaderEmit, ReaderStays, storeVars
<1>5. CASE ReaderStart(x) \/ ReaderCheck(x)
  BY <1>3, <1>5 DEF ReaderStart, ReaderCheck, ReaderPc
<1>6. CASE ReaderAnnounce(x) \/ ReaderReport(x)
  BY <1>4, <1>6 DEF ReaderAnnounce, ReaderReport, ReaderPc, Health
<1>7. CASE ReaderBorrow(x)
  BY <1>7 DEF ReaderBorrow, ReaderStays, ReaderPc, storeVars, queueVars
<1>8. CASE ReaderWake(x)
  BY <1>8 DEF ReaderWake, ReaderStays, ReaderPc, storeVars, queueVars
<1>9. QED
  BY <1>1, <1>2, <1>5, <1>6, <1>7, <1>8 DEF ReaderStep

LEMMA EventTypeOK ==
    ASSUME TypeOK, TargetKnown, ApplyEvent \/ ListenerReturns \/ OtherEvent
    PROVE  TypeOK' /\ TargetKnown'
<1> USE DEF TypeOK, TargetKnown, callVars
<1>1. CASE ApplyEvent
  <2> DEFINE e == Head(events)
  <2>1. e \in Event /\ events' \in Seq(Event)
    BY <1>1 DEF ApplyEvent
  <2>5. listener' \in Calls \cup {None}
    BY <1>1 DEF ApplyEvent
  <2>2. CASE e.server = None \/ store[e.server] = None
    BY <1>1, <2>1, <2>2, <2>5 DEF ApplyEvent, storeVars, sessionVars, readerVars
  <2>3. CASE e.server # None /\ store[e.server] # None
    <3> DEFINE entry == store[e.server]
               shown == [entry EXCEPT !.health = AppliedHealth(entry, e.health)]
    <3>1. /\ e.server \in Servers /\ e.from \in Calls \cup {None}
          /\ e.health \in Health
      BY <2>1, <2>3 DEF Event
    <3>2. entry \in Entry
      BY <2>3, <3>1
    <3>3. AppliedHealth(entry, e.health) \in Health
      BY <3>1 DEF AppliedHealth, Health
    <3>4. shown \in Entry
      BY <3>2, <3>3 DEF Entry
    <3>5. /\ store' = [store EXCEPT ![e.server] = shown]
          /\ writer' = [writer EXCEPT ![e.server] = e.from]
      BY <1>1, <2>3 DEF ApplyEvent
    <3> HIDE DEF shown
    <3>6. store' \in [Servers -> Entry \cup {None}]
      BY <3>1, <3>4, <3>5
    <3>7. writer' \in [Servers -> Calls \cup {None}]
      BY <3>1, <3>5
    <3>8. QED
      BY <1>1, <2>1, <2>5, <3>6, <3>7 DEF ApplyEvent, sessionVars, readerVars
  <2>4. QED
    BY <2>2, <2>3
<1>2. CASE OtherEvent
  <2>1. [server |-> None, health |-> "Connecting", from |-> None] \in Event
    BY DEF Event, Health
  <2>2. events' \in Seq(Event) /\ lagged' \in BOOLEAN /\ listener' = listener
    BY <1>2, <2>1, BroadcastType DEF OtherEvent
  <2>3. QED
    BY <1>2, <2>2 DEF OtherEvent, storeVars, sessionVars, readerVars
<1>3. CASE ListenerReturns
  BY <1>3 DEF ListenerReturns, storeVars, sessionVars, readerVars
<1>4. QED
  BY <1>1, <1>2, <1>3

LEMMA StutterTypeOK ==
    ASSUME TypeOK, TargetKnown, UNCHANGED vars
    PROVE  TypeOK' /\ TargetKnown'
BY DEF TypeOK, TargetKnown, vars, storeVars, callVars, sessionVars, readerVars,
       queueVars

LEMMA NextTypeOK == TypeOK /\ TargetKnown /\ [Next]_vars => TypeOK' /\ TargetKnown'
<1> SUFFICES ASSUME TypeOK, TargetKnown, [Next]_vars
             PROVE  TypeOK' /\ TargetKnown'
  OBVIOUS
<1>1. ASSUME NEW c \in Calls,
             \/ \E s \in Servers : ReuseDirect(c, s) \/ BeginDirect(c, s)
             \/ \E s \in Servers, k \in AllKinds :
                  BeginUpsert(c, s, k) \/ RefuseBegin(c, s, k)
             \/ CallStep(c) \/ ShowProgress(c) \/ DialOk(c) \/ DialFail(c)
      PROVE  TypeOK' /\ TargetKnown'
  BY <1>1, ConnectTypeOK
<1>2. QED
  BY <1>1, DropTypeOK, AskTypeOK, TaskTypeOK, EventTypeOK, StutterTypeOK DEF Next

(* The state keeps its types in every run: no step leaves a call, a reader *)
(* or an entry in a condition the code has no case for.                    *)
THEOREM TypeCorrect == Spec => []TypeOK
<1>1. Spec => [](TypeOK /\ TargetKnown)
  BY InitTypeOK, NextTypeOK, PTL DEF Spec
<1>2. QED
  BY <1>1, PTL

--------------------------------------------------------------------------------
(***************************************************************************)
(* The health readers.  The invariants of the readers are not inductive by *)
(* themselves: a session could come back into the map after its reader has *)
(* left.  What rules it out is that only the call that dialled a session   *)
(* inserts it, once, and starts its reader in the same step.               *)
(***************************************************************************)

(* A registered session belongs to a call that has inserted it under its   *)
(* own server.                                                             *)
Inserted(x) == call[x] \in {"finish", "done"}
RegisteredWasInserted ==
    \A s \in Servers, x \in Calls :
        sessions[s] = x => target[x] = s /\ Inserted(x)

(* A reader exists only for an inserted session, leaves only when the      *)
(* session is out of the map, and goes back to its test after an event it  *)
(* sent too late.                                                          *)
ReaderOK(x) ==
    /\ reader[x] # "none" => Inserted(x)
    /\ Current(x) => reader[x] \notin {"none", "exited"}
    /\ late[x] <= 1
    /\ late[x] = 1 => ~Current(x) /\ reader[x] \in {"check", "wait", "exited"}

ReaderInv ==
    /\ TypeOK
    /\ TargetKnown
    /\ RegisteredWasInserted
    /\ \A x \in Calls : ReaderOK(x)

LEMMA InitReaderInv == Init => ReaderInv
<1> SUFFICES ASSUME Init PROVE ReaderInv
  OBVIOUS
<1>1. RegisteredWasInserted
  BY NoneAssumption DEF Init, RegisteredWasInserted
<1>2. \A x \in Calls : ReaderOK(x)
  BY NoneAssumption DEF Init, ReaderOK, Current
<1>3. QED
  BY <1>1, <1>2, InitTypeOK DEF ReaderInv

(* A step that leaves the map, the calls' counters and the readers alone   *)
(* cannot disturb any of it.                                               *)
LEMMA ReaderFrame ==
    ASSUME ReaderInv, UNCHANGED <<sessions, call, target, reader, late>>
    PROVE  RegisteredWasInserted' /\ \A x \in Calls : ReaderOK(x)'
BY DEF ReaderInv, RegisteredWasInserted, ReaderOK, Inserted, Current

(* A call that does not insert only moves on, and no session enters the    *)
(* map.                                                                    *)
LEMMA ReaderAdvance ==
    ASSUME ReaderInv, NEW c \in Calls, NEW pc \in CallPc,
           call[c] \notin {"finish", "done"} \/ pc = "done",
           call' = [call EXCEPT ![c] = pc],
           target' = target \/ (call[c] = "idle" /\ \E s \in Servers :
                                    target' = [target EXCEPT ![c] = s]),
           \A s \in Servers : sessions'[s] = sessions[s] \/ sessions'[s] = None,
           sessions' \in [Servers -> Calls \cup {None}],
           UNCHANGED <<reader, late>>
    PROVE  RegisteredWasInserted' /\ \A x \in Calls : ReaderOK(x)'
<1> USE NoneAssumption DEF ReaderInv, TypeOK
<1>1. \A x \in Calls : call[x] = "idle" =>
          \A s \in Servers : sessions[s] # x
  BY DEF RegisteredWasInserted, Inserted
<1>2. \A x \in Calls : Inserted(x) => Inserted(x)' /\ target'[x] = target[x]
  BY DEF Inserted
<1>3. RegisteredWasInserted'
  BY ZenonT(40), <1>2 DEF RegisteredWasInserted
<1>4. ASSUME NEW x \in Calls PROVE Current(x)' => Current(x)
  BY <1>2, <1>3 DEF RegisteredWasInserted, Current, TargetKnown
<1>5. ASSUME NEW x \in Calls PROVE ReaderOK(x)'
  BY <1>2, <1>4 DEF ReaderOK
<1>6. QED
  BY <1>3, <1>5

LEMMA ConnectReaderInv ==
    ASSUME ReaderInv, NEW c \in Calls,
           \/ \E s \in Servers : ReuseDirect(c, s) \/ BeginDirect(c, s)
           \/ \E s \in Servers, k \in AllKinds :
                BeginUpsert(c, s, k) \/ RefuseBegin(c, s, k)
           \/ CallStep(c) \/ ShowProgress(c) \/ DialOk(c) \/ DialFail(c)
    PROVE  RegisteredWasInserted' /\ \A x \in Calls : ReaderOK(x)'
<1> DEFINE Goal == RegisteredWasInserted' /\ \A x \in Calls : ReaderOK(x)'
<1>0. sessions \in [Servers -> Calls \cup {None}] /\ target[c] \in Servers \cup {None}
  BY DEF ReaderInv, TypeOK
<1>1. ASSUME NEW s \in Servers, NEW k \in AllKinds, NEW pc \in CallPc,
             Begin(c, s, k, pc), UNCHANGED <<sessions, readerVars>>
      PROVE  Goal
  BY <1>0, <1>1, ReaderAdvance DEF Begin, Goto, readerVars
<1>2. ASSUME NEW s \in Servers, ReuseDirect(c, s) \/ BeginDirect(c, s)
      PROVE  Goal
  BY <1>1, <1>2 DEF ReuseDirect, BeginDirect, AllKinds, CallPc
<1>3. ASSUME NEW s \in Servers, NEW k \in AllKinds, BeginUpsert(c, s, k)
      PROVE  Goal
  BY <1>1, <1>3 DEF BeginUpsert, CallPc
<1>4. ASSUME NEW s \in Servers, NEW k \in AllKinds, RefuseBegin(c, s, k)
      PROVE  Goal
  BY <1>1, <1>4 DEF RefuseBegin, CallPc
<1>5. ASSUME NEW pc \in CallPc, Goto(c, pc),
             call[c] \notin {"finish", "done"} \/ pc = "done",
             UNCHANGED <<sessions, target, reader, late>>
      PROVE  Goal
  BY <1>0, <1>5, ReaderAdvance DEF Goto
<1>6. CASE BeginProgress(c)
  BY <1>5, <1>6 DEF BeginProgress, CallPc, readerVars
<1>16. CASE ShowProgress(c)
  BY <1>16, ReaderFrame DEF ShowProgress, callVars, readerVars
<1>7. CASE ReplaceRemove(c)
  <2>1. /\ sessions' \in [Servers -> Calls \cup {None}]
        /\ \A s \in Servers : sessions'[s] = sessions[s] \/ sessions'[s] = None
    BY <1>0, <1>7 DEF ReplaceRemove
  <2>2. PICK pc \in CallPc : Goto(c, pc)
    BY <1>7 DEF ReplaceRemove, CallPc
  <2>3. QED
    BY <1>7, <2>1, <2>2, ReaderAdvance DEF ReplaceRemove, Goto, readerVars
<1>8. CASE ReplaceClose(c)
  BY <1>5, <1>8 DEF ReplaceClose, CallPc, readerVars
<1>9. CASE Fail(c)
  BY <1>5, <1>9 DEF Fail, CallPc, readerVars
<1>10. CASE EndProgress(c)
  BY <1>5, <1>10 DEF EndProgress, CallPc, readerVars
<1>11. CASE AttachUpsert(c)
  BY <1>5, <1>11 DEF AttachUpsert, CallPc, readerVars
<1>12. CASE AttachInsert(c)
  <2>1. /\ target[c] \in Servers
        /\ sessions' = [sessions EXCEPT ![target[c]] = c]
        /\ call'[c] \in {"finish", "done"}
        /\ reader' = [reader EXCEPT ![c] = "start"]
        /\ \A x \in Calls \ {c} : call'[x] = call[x]
        /\ target' = target /\ late' = late
    BY <1>12 DEF AttachInsert, InsertOver, Goto, ReaderInv, TypeOK, TargetKnown
  <2>2. reader[c] = "none" /\ late[c] = 0
    <3>1. ReaderOK(c) /\ late[c] \in Nat /\ ~Inserted(c)
      BY <1>12 DEF AttachInsert, ReaderInv, Inserted, TypeOK
    <3>2. QED
      BY <3>1 DEF ReaderOK
  <2>3. RegisteredWasInserted'
    BY <1>0, <2>1 DEF ReaderInv, RegisteredWasInserted, Inserted
  <2>4. ASSUME NEW x \in Calls \ {c}
        PROVE  Current(x)' => Current(x)
    BY <1>0, <2>1 DEF Current, ReaderInv, TypeOK
  <2>5. ASSUME NEW x \in Calls \ {c}
        PROVE  ReaderOK(x)'
    BY <2>1, <2>4 DEF ReaderInv, ReaderOK, Inserted, TypeOK
  <2>6. ReaderOK(c)'
    BY <2>1, <2>2 DEF ReaderInv, ReaderOK, Inserted, TypeOK
  <2>7. QED
    BY <2>3, <2>5, <2>6
<1>13. CASE DialOk(c)
  BY <1>5, <1>13 DEF DialOk, CallPc, readerVars
<1>14. CASE DialFail(c)
  BY <1>5, <1>14 DEF DialFail, CallPc, readerVars
<1>15. QED
  BY <1>2, <1>3, <1>4, <1>6, <1>7, <1>8, <1>9, <1>10, <1>11, <1>12, <1>13, <1>14, <1>16
     DEF CallStep

LEMMA DropReaderInv ==
    ASSUME ReaderInv, NEW d \in Drops,
           \/ \E s \in Servers : DropSession(d, s)
           \/ DropEntry(d) \/ DropClose(d)
    PROVE  RegisteredWasInserted' /\ \A x \in Calls : ReaderOK(x)'
<1>1. ASSUME NEW s \in Servers, DropSession(d, s)
      PROVE  RegisteredWasInserted' /\ \A x \in Calls : ReaderOK(x)'
  <2>1. /\ \A v \in Servers : sessions'[v] = sessions[v] \/ sessions'[v] = None
        /\ UNCHANGED <<call, target, reader, late>>
    BY <1>1 DEF DropSession, callVars, readerVars, ReaderInv, TypeOK
  <2>2. RegisteredWasInserted'
    BY <2>1, NoneAssumption DEF ReaderInv, RegisteredWasInserted, Inserted
  <2>3. ASSUME NEW x \in Calls PROVE Current(x)' => Current(x)
    BY <2>1, NoneAssumption DEF Current, ReaderInv, TypeOK
  <2>4. QED
    BY <2>1, <2>2, <2>3 DEF ReaderInv, ReaderOK, Inserted
<1>2. CASE DropEntry(d)
  BY <1>2, ReaderFrame DEF DropEntry, callVars, readerVars
<1>3. CASE DropClose(d)
  BY <1>3, ReaderFrame DEF DropClose, callVars, readerVars
<1>4. QED
  BY <1>1, <1>2, <1>3

(* The reader's own steps: the test before each emission is what keeps     *)
(* late at one.                                                            *)
LEMMA TaskReaderInv ==
    ASSUME ReaderInv, NEW x \in Calls, ReaderStep(x)
    PROVE  RegisteredWasInserted' /\ \A y \in Calls : ReaderOK(y)'
<1> USE DEF ReaderStays, callVars
<1>1. UNCHANGED <<sessions, call, target>>
  BY DEF ReaderStep, ReaderStart, ReaderAnnounce, ReaderCheck, ReaderBorrow,
         ReaderReport, ReaderWake, ReaderTest, ReaderEmit
<1>2. RegisteredWasInserted'
  BY <1>1 DEF ReaderInv, RegisteredWasInserted, Inserted
<1>3. \A y \in Calls : Current(y)' <=> Current(y)
  BY <1>1 DEF Current
<1>4. \A y \in Calls : reader[y] \in ReaderPc /\ late[y] \in Nat
  BY DEF ReaderInv, TypeOK
<1>5. /\ \A y \in Calls \ {x} : reader'[y] = reader[y] /\ late'[y] = late[y]
      /\ reader[x] # "none" /\ reader'[x] # "none"
  BY DEF ReaderStep, ReaderStart, ReaderAnnounce, ReaderCheck, ReaderBorrow,
         ReaderReport, ReaderWake, ReaderTest, ReaderEmit, ReaderInv, TypeOK
<1>6. ASSUME NEW y \in Calls \ {x} PROVE ReaderOK(y)'
  BY <1>1, <1>3, <1>5 DEF ReaderInv, ReaderOK, Inserted
<1>7. ReaderOK(x) /\ Inserted(x)'
  BY <1>1, <1>5 DEF ReaderInv, ReaderOK, Inserted
<1>8. CASE ReaderStart(x) \/ ReaderCheck(x)
  <2>1. /\ reader[x] \in {"start", "check"}
        /\ reader'[x] \in {"announce", "read", "exited"}
        /\ Current(x) => reader'[x] # "exited"
        /\ ~Current(x) => reader'[x] = "exited"
        /\ late'[x] = late[x]
    BY <1>8 DEF ReaderStart, ReaderCheck, ReaderTest, ReaderInv, TypeOK
  <2>2. ReaderOK(x)'
    BY <1>3, <1>4, <1>7, <2>1 DEF ReaderOK
  <2>3. QED
    BY <1>2, <1>6, <2>2
<1>9. CASE ReaderAnnounce(x) \/ ReaderReport(x)
  <2>1. /\ reader[x] \in {"announce", "emit"}
        /\ reader'[x] \in {"check", "wait"}
        /\ late'[x] = IF Current(x) THEN late[x] ELSE late[x] + 1
    BY <1>9 DEF ReaderAnnounce, ReaderReport, ReaderEmit, ReaderInv, TypeOK
  <2>2. late[x] = 0
    BY <1>4, <1>7, <2>1 DEF ReaderOK
  <2>3. ReaderOK(x)'
    BY <1>3, <1>7, <2>1, <2>2 DEF ReaderOK
  <2>4. QED
    BY <1>2, <1>6, <2>3
<1>10. CASE ReaderBorrow(x) \/ ReaderWake(x)
  <2>1. /\ \/ reader[x] = "read" /\ reader'[x] = "emit"
           \/ reader[x] = "wait" /\ reader'[x] = "check"
        /\ late'[x] = late[x]
    BY <1>10 DEF ReaderBorrow, ReaderWake, ReaderInv, TypeOK
  <2>2. ReaderOK(x)'
    BY <1>3, <1>4, <1>7, <2>1 DEF ReaderOK
  <2>3. QED
    BY <1>2, <1>6, <2>2
<1>11. QED
  BY <1>8, <1>9, <1>10 DEF ReaderStep

LEMMA NextReaderInv == ReaderInv /\ [Next]_vars => ReaderInv'
<1> SUFFICES ASSUME ReaderInv, [Next]_vars PROVE ReaderInv'
  OBVIOUS
<1>1. TypeOK' /\ TargetKnown'
  BY NextTypeOK DEF ReaderInv
<1> DEFINE Goal == RegisteredWasInserted' /\ \A x \in Calls : ReaderOK(x)'
<1>2. ASSUME NEW c \in Calls,
             \/ \E s \in Servers : ReuseDirect(c, s) \/ BeginDirect(c, s)
             \/ \E s \in Servers, k \in AllKinds :
                  BeginUpsert(c, s, k) \/ RefuseBegin(c, s, k)
             \/ CallStep(c) \/ ShowProgress(c) \/ DialOk(c) \/ DialFail(c)
      PROVE  Goal
  BY <1>2, ConnectReaderInv
<1>3. ASSUME NEW a \in Asks,
             \/ \E s \in Servers : AskSession(a, s) \/ AskNoSession(a, s)
             \/ AskAnswered(a) \/ AskTransportError(a)
      PROVE  Goal
  BY <1>3, ReaderFrame DEF AskSession, AskNoSession, AskAnswered, AskTransportError,
                           callVars, readerVars
<1>4. ASSUME NEW x \in Calls, WorkerMoves(x) \/ WorkerStops(x)
      PROVE  Goal
  BY <1>4, ReaderFrame DEF WorkerMoves, WorkerStops, callVars, readerVars
<1>5. ASSUME ApplyEvent \/ ListenerReturns \/ OtherEvent
      PROVE  Goal
  BY <1>5, ReaderFrame DEF ApplyEvent, ListenerReturns, OtherEvent, callVars, readerVars
<1>6. ASSUME UNCHANGED vars
      PROVE  Goal
  BY <1>6, ReaderFrame DEF vars, callVars, readerVars
<1>7. Goal
  BY <1>2, <1>3, <1>4, <1>5, <1>6, DropReaderInv, TaskReaderInv DEF Next
<1>8. QED
  BY <1>1, <1>7 DEF ReaderInv

(* The registered session of a server always has a health reader that has  *)
(* not left, in every interleaving of connects and disconnects.            *)
THEOREM CurrentSessionIsRead == Spec => []CurrentSessionHasReader
<1>1. Spec => []ReaderInv
  BY InitReaderInv, NextReaderInv, PTL DEF Spec
<1>2. ReaderInv => CurrentSessionHasReader
  BY DEF ReaderInv, ReaderOK, CurrentSessionHasReader
<1>3. QED
  BY <1>1, <1>2, PTL

(* The reader of a replaced session sends at most one more event.          *)
THEOREM StaleReaderStops == Spec => []StaleReaderEmitsOnce
<1>1. Spec => []ReaderInv
  BY InitReaderInv, NextReaderInv, PTL DEF Spec
<1>2. ReaderInv => StaleReaderEmitsOnce
  BY DEF ReaderInv, ReaderOK, StaleReaderEmitsOnce
<1>3. QED
  BY <1>1, <1>2, PTL

--------------------------------------------------------------------------------
(***************************************************************************)
(* The health a settled entry shows.  The property looks at a sleeping     *)
(* reader and an empty channel; the invariant follows the health from the  *)
(* borrow through the channel into the entry.                              *)
(***************************************************************************)

(* A health event comes from an inserted session and is for its server.    *)
EventNames ==
    \A i \in DOMAIN events :
        /\ events[i].from = None => events[i].server = None
        /\ events[i].from # None =>
             Inserted(events[i].from) /\ events[i].server = target[events[i].from]

(* The last event of x on its way in the channel has its health.           *)
LastSays(q, x, h) ==
    \A i \in DOMAIN q :
        q[i].from = x /\ (\A j \in DOMAIN q : i < j => q[j].from # x) => q[i].health = h

(* With none on its way, the entry that x wrote last shows its health.     *)
Shows(shown, h) == shown = h \/ (h = "Disconnected" /\ shown = "Connecting")
EntrySays(x) ==
    /\ \A i \in DOMAIN events : events[i].from # x
    /\ store[target[x]] # None
    /\ writer[target[x]] = x
    => Shows(store[target[x]].health, health[x])

NewsOK(x) ==
    /\ reader[x] = "emit" /\ ~unseen[x] => held[x] = health[x]
    /\ reader[x] = "wait" /\ ~unseen[x] /\ ~lagged => LastSays(events, x, health[x]) /\ EntrySays(x)

NewsInv ==
    /\ ReaderInv
    /\ EventNames
    /\ \A x \in Calls : NewsOK(x)

LEMMA InitNewsInv == Init => NewsInv
<1> SUFFICES ASSUME Init PROVE NewsInv
  OBVIOUS
<1>1. DOMAIN events = {} /\ \A x \in Calls : reader[x] = "none"
  BY DEF Init
<1>2. QED
  BY <1>1, InitReaderInv DEF NewsInv, EventNames, NewsOK

(* A write that is not the work of a reader says so, or leaves the health. *)
StoreQuiet ==
    \A s \in Servers :
        \/ writer'[s] = None
        \/ /\ writer'[s] = writer[s]
           /\ store'[s] = None \/ (store[s] # None /\ store'[s].health = store[s].health)

LEMMA StoreWriteQuiet ==
    ASSUME TypeOK, NEW s \in Servers \cup {None}, NEW h, NEW p,
           \/ UpsertServer(s, h) \/ RemoveServer(s) \/ UpdateServerHealth(s, h)
           \/ UpdateConnectionProgress(s, p) \/ UNCHANGED storeVars
    PROVE  StoreQuiet
<1> USE NoneAssumption DEF TypeOK, StoreQuiet
<1>1. CASE UpsertServer(s, h) \/ RemoveServer(s) \/ UpdateServerHealth(s, h)
  <2>1. writer' = [writer EXCEPT ![s] = None]
        /\ \A v \in Servers : v # s => store'[v] = store[v]
    BY <1>1 DEF UpsertServer, RemoveServer, UpdateServerHealth
  <2>2. QED
    BY <2>1
<1>2. CASE UpdateConnectionProgress(s, p)
  <2>1. writer' = writer
    BY <1>2 DEF UpdateConnectionProgress
  <2>2. ASSUME NEW v \in Servers, store'[v] # None
        PROVE  store[v] # None /\ store'[v].health = store[v].health
    <3>1. CASE v # s \/ store[s] = None
      BY <1>2, <2>2, <3>1 DEF UpdateConnectionProgress
    <3>2. CASE v = s /\ store[s] # None
      <4>1. store[v] \in Entry
        BY <3>2
      <4>2. store'[v] = [store[v] EXCEPT !.progress = p]
        BY <1>2, <3>2 DEF UpdateConnectionProgress
      <4>3. QED
        BY <3>2, <4>1, <4>2 DEF Entry
    <3>3. QED
      BY <3>1, <3>2
  <2>3. QED
    BY <2>1, <2>2
<1>3. CASE UNCHANGED storeVars
  BY <1>3 DEF storeVars
<1>4. QED
  BY <1>1, <1>2, <1>3

(* A step beside the reader and the channel leaves the news of x, except   *)
(* that a change of its health is not observed yet.                        *)
LEMMA NewsKept ==
    ASSUME NewsInv, NEW x \in Calls, StoreQuiet, UNCHANGED <<events, lagged>>,
           Inserted(x) => target'[x] = target[x],
           \/ reader'[x] \notin {"emit", "wait"}
           \/ unseen'[x]
           \/ /\ reader'[x] = reader[x] /\ unseen'[x] = unseen[x]
              /\ health'[x] = health[x] /\ held'[x] = held[x]
    PROVE  NewsOK(x)'
<1>1. CASE reader'[x] \notin {"emit", "wait"} \/ unseen'[x]
  BY <1>1 DEF NewsOK
<1>2. CASE /\ reader'[x] = reader[x] /\ unseen'[x] = unseen[x]
           /\ health'[x] = health[x] /\ held'[x] = held[x]
  <2>1. reader'[x] = "emit" /\ ~unseen'[x] => held'[x] = health'[x]
    BY <1>2 DEF NewsInv, NewsOK
  <2>2. ASSUME reader'[x] = "wait", ~unseen'[x], ~lagged'
        PROVE  LastSays(events', x, health'[x]) /\ EntrySays(x)'
    <3>1. LastSays(events, x, health[x]) /\ EntrySays(x) /\ Inserted(x)
      BY <1>2, <2>2 DEF NewsInv, NewsOK, ReaderInv, ReaderOK
    <3>2. target'[x] = target[x] /\ target[x] \in Servers
      BY <3>1 DEF NewsInv, ReaderInv, TargetKnown, Inserted
    <3>3. EntrySays(x)'
      BY <1>2, <3>1, <3>2, NoneAssumption DEF EntrySays, StoreQuiet
    <3>4. QED
      BY <1>2, <3>1, <3>3
  <2>3. QED
    BY <2>1, <2>2 DEF NewsOK
<1>3. QED
  BY <1>1, <1>2

LEMMA NamesKept ==
    ASSUME NewsInv, UNCHANGED events,
           \A x \in Calls : Inserted(x) => Inserted(x)' /\ target'[x] = target[x]
    PROVE  EventNames'
<1>1. \A i \in DOMAIN events : events[i].from \in Calls \cup {None}
  <2>1. \A i \in DOMAIN events : events[i] \in Event
    BY DEF NewsInv, ReaderInv, TypeOK
  <2>2. QED
    BY <2>1 DEF Event
<1>2. QED
  BY <1>1 DEF NewsInv, EventNames

(* Connect calls.                                                          *)
LEMMA InsertedStays ==
    ASSUME ReaderInv, NEW c \in Calls,
           \/ \E s \in Servers : ReuseDirect(c, s) \/ BeginDirect(c, s)
           \/ \E s \in Servers, k \in AllKinds :
                BeginUpsert(c, s, k) \/ RefuseBegin(c, s, k)
           \/ CallStep(c) \/ ShowProgress(c) \/ DialOk(c) \/ DialFail(c)
    PROVE  \A x \in Calls : Inserted(x) => Inserted(x)' /\ target'[x] = target[x]
<1> USE DEF ReaderInv, TypeOK, Inserted
<1>1. ASSUME NEW s, NEW k, NEW pc, Begin(c, s, k, pc)
      PROVE  \A x \in Calls : Inserted(x) => Inserted(x)' /\ target'[x] = target[x]
  BY <1>1 DEF Begin, Goto
<1>2. CASE \/ \E s \in Servers : ReuseDirect(c, s) \/ BeginDirect(c, s)
           \/ \E s \in Servers, k \in AllKinds :
                BeginUpsert(c, s, k) \/ RefuseBegin(c, s, k)
  BY <1>1, <1>2 DEF ReuseDirect, BeginDirect, BeginUpsert, RefuseBegin
<1>3. ASSUME NEW pc, Goto(c, pc), UNCHANGED target,
             call[c] \notin {"finish", "done"} \/ pc = "done"
      PROVE  \A x \in Calls : Inserted(x) => Inserted(x)' /\ target'[x] = target[x]
  BY <1>3 DEF Goto
<1>4. CASE CallStep(c)
  BY <1>3, <1>4 DEF CallStep, BeginProgress, ReplaceRemove, ReplaceClose, Fail, EndProgress,
                    AttachUpsert, AttachInsert, InsertOver
<1>5. CASE ShowProgress(c) \/ DialOk(c) \/ DialFail(c)
  BY <1>3, <1>5 DEF ShowProgress, DialOk, DialFail, callVars
<1>6. QED
  BY <1>2, <1>4, <1>5

LEMMA ClosedUnseen ==
    ASSUME TypeOK, NEW y, CloseSession(y), NEW x \in Calls
    PROVE  unseen'[x] \/ (unseen'[x] = unseen[x] /\ health'[x] = health[x])
BY DEF TypeOK, CloseSession

LEMMA ConnectNews ==
    ASSUME NewsInv, NEW c \in Calls,
           \/ \E s \in Servers : ReuseDirect(c, s) \/ BeginDirect(c, s)
           \/ \E s \in Servers, k \in AllKinds :
                BeginUpsert(c, s, k) \/ RefuseBegin(c, s, k)
           \/ CallStep(c) \/ ShowProgress(c) \/ DialOk(c) \/ DialFail(c)
    PROVE  EventNames' /\ \A x \in Calls : NewsOK(x)'
<1>1. ReaderInv /\ TypeOK /\ target[c] \in Servers \cup {None}
      /\ \A x \in Calls : Inserted(x) => Inserted(x)' /\ target'[x] = target[x]
  BY InsertedStays DEF NewsInv, ReaderInv, TypeOK
<1>2. UNCHANGED queueVars
  BY DEF ReuseDirect, BeginDirect, BeginUpsert, RefuseBegin, CallStep, BeginProgress, ReplaceRemove,
         ReplaceClose, Fail, EndProgress, AttachUpsert, AttachInsert, InsertOver, ShowProgress,
         DialOk, DialFail
<1>3. StoreQuiet
  BY <1>1, StoreWriteQuiet DEF ReuseDirect, BeginDirect, BeginUpsert, RefuseBegin, CallStep,
     BeginProgress, ReplaceRemove, ReplaceClose, Fail, EndProgress, AttachUpsert, AttachInsert,
     InsertOver, ShowProgress, DialOk, DialFail
<1>4. ASSUME NEW x \in Calls
      PROVE  \/ reader'[x] \notin {"emit", "wait"}
             \/ unseen'[x]
             \/ /\ reader'[x] = reader[x] /\ unseen'[x] = unseen[x]
                /\ health'[x] = health[x] /\ held'[x] = held[x]
  <2>1. CASE UNCHANGED <<sessionVars, readerVars>>
    BY <2>1 DEF sessionVars, readerVars
  <2>2. CASE ReplaceClose(c)
    BY <1>1, <2>2, ClosedUnseen DEF ReplaceClose, readerVars
  <2>3. CASE AttachInsert(c)
    BY <1>1, <2>3 DEF AttachInsert, InsertOver, sessionVars, TypeOK
  <2>4. CASE DialOk(c)
    BY <1>1, <2>4 DEF DialOk, readerVars, TypeOK
  <2>5. QED
    BY <2>1, <2>2, <2>3, <2>4 DEF ReuseDirect, BeginDirect, BeginUpsert, RefuseBegin, CallStep,
       BeginProgress, ReplaceRemove, Fail, EndProgress, AttachUpsert, ShowProgress, DialFail
<1>5. \A x \in Calls : NewsOK(x)'
  BY <1>1, <1>2, <1>3, <1>4, NewsKept DEF queueVars
<1>6. QED
  BY <1>1, <1>2, <1>5, NamesKept DEF queueVars

(* Disconnect calls, typed requests and workers.                           *)
LEMMA OtherNews ==
    ASSUME NewsInv,
           \/ \E d \in Drops, s \in Servers : DropSession(d, s)
           \/ \E d \in Drops : DropEntry(d) \/ DropClose(d)
           \/ \E a \in Asks, s \in Servers : AskSession(a, s) \/ AskNoSession(a, s)
           \/ \E a \in Asks : AskAnswered(a) \/ AskTransportError(a)
           \/ \E x \in Calls : WorkerMoves(x) \/ WorkerStops(x)
    PROVE  EventNames' /\ \A x \in Calls : NewsOK(x)'
<1>1. /\ TypeOK
      /\ \A d \in Drops : drop[d].server \in Servers \cup {None}
      /\ \A a \in Asks : ask[a].server \in Servers \cup {None}
  BY DEF NewsInv, ReaderInv, TypeOK
<1>2. UNCHANGED queueVars /\ UNCHANGED callVars /\ UNCHANGED readerVars
  BY DEF DropSession, DropEntry, DropClose, AskSession, AskNoSession, AskAnswered,
         AskTransportError, WorkerMoves, WorkerStops
<1>3. StoreQuiet
  <2>1. CASE \E d \in Drops, s \in Servers : DropSession(d, s)
    BY <1>1, <2>1, StoreWriteQuiet DEF DropSession
  <2>2. CASE \E d \in Drops : DropEntry(d) \/ DropClose(d)
    BY <1>1, <2>2, StoreWriteQuiet DEF DropEntry, DropClose
  <2>3. CASE \/ \E a \in Asks, s \in Servers : AskSession(a, s) \/ AskNoSession(a, s)
             \/ \E a \in Asks : AskAnswered(a) \/ AskTransportError(a)
    BY <1>1, <2>3, StoreWriteQuiet DEF AskSession, AskNoSession, AskAnswered, AskTransportError,
       MarkTransportDisconnected
  <2>4. CASE \E x \in Calls : WorkerMoves(x) \/ WorkerStops(x)
    BY <1>1, <2>4, StoreWriteQuiet DEF WorkerMoves, WorkerStops
  <2>5. QED
    BY <2>1, <2>2, <2>3, <2>4
<1>4. ASSUME NEW x \in Calls
      PROVE  unseen'[x] \/ (unseen'[x] = unseen[x] /\ health'[x] = health[x])
  <2>1. ASSUME NEW y, CloseSession(y)
        PROVE  unseen'[x] \/ (unseen'[x] = unseen[x] /\ health'[x] = health[x])
    BY <1>1, <2>1, ClosedUnseen
  <2>2. ASSUME NEW y \in Calls, WorkerMoves(y)
        PROVE  unseen'[x] \/ (unseen'[x] = unseen[x] /\ health'[x] = health[x])
    BY <1>1, <2>2 DEF WorkerMoves, TypeOK
  <2>3. QED
    BY <2>1, <2>2 DEF DropSession, DropEntry, DropClose, AskSession, AskNoSession, AskAnswered,
       AskTransportError, WorkerStops, sessionVars
<1>5. \A x \in Calls : NewsOK(x)'
  BY <1>2, <1>3, <1>4, NewsKept DEF queueVars, callVars, readerVars
<1>6. QED
  BY <1>2, <1>5, NamesKept DEF queueVars, callVars, Inserted

(* An event enters the channel.                                            *)
LEMMA BroadcastHolds ==
    ASSUME NewsInv, NEW e \in Event, Broadcast(e), UNCHANGED callVars,
           (e.from = None) => (e.server = None),
           (e.from # None) => (Inserted(e.from) /\ e.server = target[e.from])
    PROVE  /\ EventNames'
           /\ ~lagged' => ~lagged /\ events' = Append(events, e)
<1>1. events \in Seq(Event)
  BY DEF NewsInv, ReaderInv, TypeOK
<1>2. \A i \in DOMAIN Append(events, e) :
        Append(events, e)[i] = e \/ (i \in DOMAIN events /\ Append(events, e)[i] = events[i])
  BY <1>1
<1>3. PICK q \in Seq(Event) : q = Append(events, e) /\ Len(q) > 0
  <2>1. ASSUME NEW list \in Seq(Event)
        PROVE  Append(list, e) \in Seq(Event) /\ Len(Append(list, e)) > 0
    <3>1. Append(list, e) \in Seq(Event)
      BY <2>1
    <3>2. Len(Append(list, e)) = Len(list) + 1 /\ Len(list) \in Nat
      BY <2>1
    <3>3. QED
      BY <3>1, <3>2
  <2>2. QED
    BY <1>1, <2>1
<1>4. \A i \in DOMAIN Tail(q) : i + 1 \in DOMAIN q /\ Tail(q)[i] = q[i + 1]
  BY <1>3
<1>5. \A i \in DOMAIN events' : \/ events'[i] = e
                                \/ \E j \in DOMAIN events : events'[i] = events[j]
  BY <1>2, <1>3, <1>4 DEF Broadcast
<1>6. EventNames'
  BY <1>5 DEF NewsInv, EventNames, Inserted, callVars
<1>7. ~lagged' => ~lagged /\ ~(Len(Append(events, e)) > QueueCap)
  BY ZenonT(20) DEF Broadcast
<1>8. ~(Len(Append(events, e)) > QueueCap) => events' = Append(events, e)
  BY ZenonT(20) DEF Broadcast
<1>9. QED
  BY <1>6, <1>7, <1>8

LEMMA LastAppend ==
    ASSUME NEW q \in Seq(Event), NEW e \in Event, NEW x, NEW h
    PROVE  /\ e.from = x /\ e.health = h => LastSays(Append(q, e), x, h)
           /\ e.from = x => \E i \in DOMAIN Append(q, e) : Append(q, e)[i].from = x
           /\ e.from # x /\ LastSays(q, x, h) => LastSays(Append(q, e), x, h)
           /\ (\A i \in DOMAIN Append(q, e) : Append(q, e)[i].from # x)
                => \A i \in DOMAIN q : q[i].from # x
<1>1. PICK r, n : r = Append(q, e) /\ n = Len(q) + 1
  OBVIOUS
<1>2. /\ DOMAIN r = DOMAIN q \cup {n} /\ r[n] = e
      /\ \A i \in DOMAIN q : r[i] = q[i] /\ i < n
  BY <1>1
<1>3. e.from = x /\ e.health = h => LastSays(r, x, h)
  BY <1>2 DEF LastSays
<1>4. e.from # x /\ LastSays(q, x, h) => LastSays(r, x, h)
  BY <1>2 DEF LastSays
<1>5. QED
  BY <1>1, <1>2, <1>3, <1>4

LEMMA OtherEventNews ==
    ASSUME NewsInv, NEW e \in Event, Broadcast(e), NEW x \in Calls, e.from # x,
           UNCHANGED <<callVars, storeVars>>,
           (e.from = None) => (e.server = None),
           (e.from # None) => (Inserted(e.from) /\ e.server = target[e.from]),
           reader'[x] = reader[x] /\ unseen'[x] = unseen[x],
           health'[x] = health[x] /\ held'[x] = held[x]
    PROVE  NewsOK(x)'
<1>1. reader'[x] = "emit" /\ ~unseen'[x] => held'[x] = health'[x]
  BY DEF NewsInv, NewsOK
<1>2. ASSUME reader'[x] = "wait", ~unseen'[x], ~lagged'
      PROVE  LastSays(events', x, health'[x]) /\ EntrySays(x)'
  <2>1. ~lagged /\ events' = Append(events, e)
    BY <1>2, BroadcastHolds
  <2>2. LastSays(events, x, health[x]) /\ EntrySays(x) /\ events \in Seq(Event)
    BY <1>2, <2>1 DEF NewsInv, NewsOK, ReaderInv, TypeOK
  <2>3. LastSays(events', x, health'[x])
    BY <2>1, <2>2, LastAppend
  <2>4. (\A i \in DOMAIN events' : events'[i].from # x) => \A i \in DOMAIN events : events[i].from # x
    BY <2>1, <2>2, LastAppend
  <2>5. EntrySays(x)'
    BY <2>2, <2>4 DEF EntrySays, callVars, storeVars
  <2>6. QED
    BY <2>3, <2>5
<1>3. QED
  BY <1>1, <1>2 DEF NewsOK

LEMMA EmitNews ==
    ASSUME NewsInv, NEW x \in Calls, NEW from \in ReaderPc \ {"none"}, NEW h \in Health, NEW to,
           ReaderEmit(x, from, h, to), to = "check" \/ (to = "wait" /\ from = "emit" /\ h = held[x])
    PROVE  EventNames' /\ \A y \in Calls : NewsOK(y)'
<1>1. PICK e : e = [server |-> target[x], health |-> h, from |-> x]
  OBVIOUS
<1>2. /\ e \in Event /\ e.from = x /\ e.health = h /\ e.server = target[x]
      /\ Inserted(x) /\ x # None /\ TypeOK
  BY <1>1, NoneAssumption DEF Event, NewsInv, ReaderInv, ReaderOK, TypeOK, ReaderEmit
<1>3. Broadcast(e) /\ UNCHANGED <<callVars, storeVars>> /\ health' = health /\ unseen' = unseen
  BY <1>1 DEF ReaderEmit, ReaderStays
<1>4. EventNames' /\ (~lagged' => ~lagged /\ events' = Append(events, e))
  BY <1>2, <1>3, BroadcastHolds
<1>5. ASSUME NEW y \in Calls \ {x}
      PROVE  NewsOK(y)'
  <2>1. reader'[y] = reader[y] /\ held'[y] = held[y]
    BY <1>2 DEF ReaderEmit, TypeOK
  <2>2. QED
    BY <1>2, <1>3, <2>1, OtherEventNews
<1>6. NewsOK(x)'
  <2>1. reader'[x] = to
    BY <1>2 DEF ReaderEmit, TypeOK
  <2>2. ASSUME to = "wait", ~unseen'[x], ~lagged'
        PROVE  LastSays(events', x, health'[x]) /\ EntrySays(x)'
    <3>1. h = health[x]
      BY <1>3, <2>2 DEF NewsInv, NewsOK, ReaderEmit
    <3>2. events \in Seq(Event) /\ events' = Append(events, e)
      BY <1>2, <1>4, <2>2 DEF TypeOK
    <3>3. LastSays(events', x, health'[x])
      BY <1>2, <1>3, <3>1, <3>2, LastAppend
    <3>4. \E i \in DOMAIN events' : events'[i].from = x
      BY <1>2, <3>2, LastAppend
    <3>5. QED
      BY <3>3, <3>4 DEF EntrySays
  <2>3. QED
    BY <2>1, <2>2 DEF NewsOK
<1>7. QED
  BY <1>4, <1>5, <1>6

LEMMA ReaderNews ==
    ASSUME NewsInv, NEW x \in Calls, ReaderStep(x)
    PROVE  EventNames' /\ \A y \in Calls : NewsOK(y)'
<1>1. TypeOK /\ held[x] \in Health /\ reader \in [Calls -> ReaderPc]
  BY DEF NewsInv, ReaderInv, TypeOK
<1>2. CASE ReaderAnnounce(x) \/ ReaderReport(x)
  BY <1>1, <1>2, EmitNews DEF ReaderAnnounce, ReaderReport, ReaderPc, Health
<1>3. ASSUME UNCHANGED <<callVars, storeVars, queueVars>>, health' = health,
             \A y \in Calls \ {x} : reader'[y] = reader[y] /\ held'[y] = held[y] /\ unseen'[y] = unseen[y],
             reader'[x] \notin {"emit", "wait"} \/ (reader'[x] = "emit" /\ held'[x] = health'[x])
      PROVE  EventNames' /\ \A y \in Calls : NewsOK(y)'
  <2>1. EventNames'
    BY <1>3, NamesKept DEF callVars, queueVars, Inserted
  <2>2. StoreQuiet
    BY <1>1, <1>3, StoreWriteQuiet
  <2>3. ASSUME NEW y \in Calls \ {x}
        PROVE  NewsOK(y)'
    BY <1>3, <2>2, NewsKept DEF callVars, queueVars
  <2>4. NewsOK(x)'
    BY <1>3 DEF NewsOK
  <2>5. QED
    BY <2>1, <2>3, <2>4
<1>4. CASE ReaderStart(x) \/ ReaderCheck(x)
  BY <1>1, <1>3, <1>4 DEF ReaderStart, ReaderCheck, ReaderTest, ReaderStays
<1>5. CASE ReaderBorrow(x)
  BY <1>1, <1>3, <1>5 DEF ReaderBorrow, ReaderStays, TypeOK
<1>6. CASE ReaderWake(x)
  BY <1>1, <1>3, <1>6 DEF ReaderWake, ReaderStays, TypeOK
<1>7. QED
  BY <1>2, <1>4, <1>5, <1>6 DEF ReaderStep

(* The listener applies the first event.                                   *)
LEMMA ListenerNews ==
    ASSUME NewsInv, ApplyEvent
    PROVE  EventNames' /\ \A x \in Calls : NewsOK(x)'
<1>1. /\ TypeOK /\ events \in Seq(Event) /\ events # <<>> /\ events' = Tail(events)
      /\ UNCHANGED <<callVars, sessionVars, readerVars, lagged>>
  BY DEF NewsInv, ReaderInv, TypeOK, ApplyEvent
<1>2. PICK e \in Event : e = Head(events) /\ e = events[1] /\ 1 \in DOMAIN events
  BY <1>1
<1>3. /\ \A i \in DOMAIN events' : i + 1 \in DOMAIN events /\ events'[i] = events[i + 1]
      /\ \A i \in DOMAIN events : i # 1 => i - 1 \in DOMAIN events' /\ events[i] = events'[i - 1]
      /\ DOMAIN events' \subseteq Nat \ {0} /\ DOMAIN events \subseteq Nat \ {0}
  BY <1>1
<1>4. EventNames'
  BY <1>1, <1>3 DEF NewsInv, EventNames, Inserted, callVars
<1>5. ASSUME NEW x \in Calls, reader[x] = "wait", ~unseen[x], ~lagged
      PROVE  LastSays(events', x, health[x]) /\ EntrySays(x)'
  <2>1. LastSays(events, x, health[x]) /\ EntrySays(x) /\ Inserted(x)
    BY <1>5 DEF NewsInv, NewsOK, ReaderInv, ReaderOK
  <2>2. target[x] \in Servers /\ target' = target /\ health' = health
    BY <1>1, <2>1 DEF NewsInv, ReaderInv, TargetKnown, Inserted, callVars, sessionVars
  <2>3. LastSays(events', x, health[x])
    <3>1. SUFFICES ASSUME NEW i \in DOMAIN events', events'[i].from = x,
                          \A j \in DOMAIN events' : i < j => events'[j].from # x
                   PROVE  events'[i].health = health[x]
      BY DEF LastSays
    <3>2. i + 1 \in DOMAIN events /\ events[i + 1] = events'[i]
      BY <1>3
    <3>3. ASSUME NEW j \in DOMAIN events, i + 1 < j
          PROVE  events[j].from # x
      <4>1. j # 1 /\ i < j - 1
        BY <1>3, <3>3
      <4>2. QED
        BY <1>3, <3>1, <4>1
    <3>4. QED
      BY <2>1, <3>1, <3>2, <3>3 DEF LastSays
  <2>4. ASSUME \A i \in DOMAIN events' : events'[i].from # x,
               store'[target[x]] # None, writer'[target[x]] = x
        PROVE  Shows(store'[target[x]].health, health[x])
    <3>1. \A i \in DOMAIN events : i # 1 => events[i].from # x
      BY <1>3, <2>4
    <3>2. CASE e.from = x
      <4>1. e.server = target[x] /\ target[x] # None
        BY <1>2, <2>2, <3>2, NoneAssumption DEF NewsInv, EventNames
      <4>2. e.health = health[x]
        <5>1. \A j \in DOMAIN events : 1 < j => events[j].from # x
          BY <3>1
        <5>2. QED
          BY <1>2, <2>1, <3>2, <5>1 DEF LastSays
      <4>3. store[target[x]] # None
        BY <1>2, <2>4, <4>1 DEF ApplyEvent, storeVars
      <4>4. store' = [store EXCEPT ![target[x]].health = AppliedHealth(store[target[x]], health[x])]
        BY <1>2, <4>1, <4>2, <4>3 DEF ApplyEvent
      <4>5. store[target[x]] \in Entry
        BY <1>1, <2>2, <4>3 DEF TypeOK
      <4>6. store'[target[x]].health = AppliedHealth(store[target[x]], health[x])
        BY <1>1, <2>2, <4>4, <4>5 DEF TypeOK, Entry
      <4>7. QED
        BY <4>6 DEF AppliedHealth, Shows
    <3>3. CASE e.from # x
      <4>1. \A i \in DOMAIN events : events[i].from # x
        BY <1>2, <3>1, <3>3
      <4>2. CASE UNCHANGED storeVars
        BY <2>1, <2>4, <4>1, <4>2 DEF EntrySays, storeVars
      <4>3. CASE /\ e.server # None /\ e.server # target[x]
                 /\ store' = [store EXCEPT ![e.server].health =
                                  AppliedHealth(store[e.server], e.health)]
                 /\ writer' = [writer EXCEPT ![e.server] = e.from]
        <5>1. store'[target[x]] = store[target[x]] /\ writer'[target[x]] = writer[target[x]]
          BY <1>1, <2>2, <4>3 DEF TypeOK
        <5>2. QED
          BY <2>1, <2>4, <4>1, <5>1 DEF EntrySays
      <4>4. CASE e.server = target[x] /\ writer' = [writer EXCEPT ![e.server] = e.from]
        BY <1>1, <2>2, <2>4, <3>3, <4>4 DEF TypeOK
      <4>5. QED
        BY <1>2, <4>2, <4>3, <4>4 DEF ApplyEvent
    <3>4. QED
      BY <3>2, <3>3
  <2>5. QED
    BY <2>2, <2>3, <2>4 DEF EntrySays
<1>6. \A x \in Calls : NewsOK(x)'
  <2>1. /\ reader' = reader /\ unseen' = unseen /\ held' = held /\ health' = health
        /\ lagged' = lagged
    BY <1>1 DEF sessionVars, readerVars
  <2>2. QED
    BY <1>5, <2>1 DEF NewsInv, NewsOK
<1>7. QED
  BY <1>4, <1>6

LEMMA NextNewsInv == NewsInv /\ [Next]_vars => NewsInv'
<1> SUFFICES ASSUME NewsInv, [Next]_vars PROVE NewsInv'
  OBVIOUS
<1>1. ReaderInv'
  BY NextReaderInv DEF NewsInv
<1> DEFINE Goal == EventNames' /\ \A x \in Calls : NewsOK(x)'
<1>2. ASSUME NEW c \in Calls,
             \/ \E s \in Servers : ReuseDirect(c, s) \/ BeginDirect(c, s)
             \/ \E s \in Servers, k \in AllKinds :
                  BeginUpsert(c, s, k) \/ RefuseBegin(c, s, k)
             \/ CallStep(c) \/ ShowProgress(c) \/ DialOk(c) \/ DialFail(c)
      PROVE  Goal
  BY <1>2, ConnectNews
<1>3. ASSUME \/ \E d \in Drops, s \in Servers : DropSession(d, s)
             \/ \E d \in Drops : DropEntry(d) \/ DropClose(d)
             \/ \E a \in Asks, s \in Servers : AskSession(a, s) \/ AskNoSession(a, s)
             \/ \E a \in Asks : AskAnswered(a) \/ AskTransportError(a)
             \/ \E x \in Calls : WorkerMoves(x) \/ WorkerStops(x)
      PROVE  Goal
  BY <1>3, OtherNews
<1>4. ASSUME NEW x \in Calls, ReaderStep(x)
      PROVE  Goal
  BY <1>4, ReaderNews
<1>5. ASSUME ApplyEvent
      PROVE  Goal
  BY <1>5, ListenerNews
<1>6. ASSUME OtherEvent
      PROVE  Goal
  <2>1. PICK e \in Event : e = [server |-> None, health |-> "Connecting", from |-> None]
    BY DEF Event, Health
  <2>2. /\ Broadcast(e) /\ e.from = None /\ e.server = None
        /\ UNCHANGED <<callVars, storeVars>>
        /\ reader' = reader /\ unseen' = unseen /\ health' = health /\ held' = held
    BY <1>6, <2>1 DEF OtherEvent, sessionVars, readerVars
  <2>3. EventNames'
    BY <2>2, BroadcastHolds
  <2>4. ASSUME NEW x \in Calls
        PROVE  NewsOK(x)'
    <3>1. e.from # x
      BY <2>2, NoneAssumption
    <3>2. QED
      BY <2>2, <3>1, OtherEventNews
  <2>5. QED
    BY <2>3, <2>4
<1>7. ASSUME ListenerReturns \/ UNCHANGED vars
      PROVE  Goal
  <2>1. /\ UNCHANGED <<callVars, storeVars, events, lagged>>
        /\ reader' = reader /\ unseen' = unseen /\ health' = health /\ held' = held
    BY <1>7 DEF ListenerReturns, vars, sessionVars, readerVars, queueVars
  <2>2. StoreQuiet
    BY <2>1, StoreWriteQuiet DEF NewsInv, ReaderInv
  <2>3. EventNames'
    BY <2>1, NamesKept DEF callVars, Inserted
  <2>4. ASSUME NEW x \in Calls
        PROVE  NewsOK(x)'
    BY <2>1, <2>2, NewsKept DEF callVars
  <2>5. QED
    BY <2>3, <2>4
<1>8. Goal
  BY <1>2, <1>3, <1>4, <1>5, <1>6, <1>7 DEF Next
<1>9. QED
  BY <1>1, <1>8 DEF NewsInv

(* What a reader reported last is what the entry shows once everything has *)
(* settled: no change of a session's health is lost between its reader,    *)
(* the channel and the listener, however calls overlap.                    *)
THEOREM SettledIsTrue == Spec => []SettledHealth
<1>1. NewsInv => SettledHealth
  <2> SUFFICES ASSUME NewsInv, NEW s \in Servers, NEW x, x = sessions[s], x # None,
                      reader[x] = "wait", ~unseen[x], events = <<>>, ~lagged,
                      store[s] # None, writer[s] = x
               PROVE  Shows(store[s].health, health[x])
    BY DEF SettledHealth, Shows
  <2>1. x \in Calls
    BY DEF NewsInv, ReaderInv, TypeOK
  <2>2. target[x] = s
    BY <2>1 DEF NewsInv, ReaderInv, RegisteredWasInserted
  <2>3. DOMAIN events = {} /\ EntrySays(x)
    BY <2>1 DEF NewsInv, NewsOK
  <2>4. QED
    BY <2>2, <2>3 DEF EntrySays
<1>2. Spec => []NewsInv
  BY InitNewsInv, NextNewsInv, PTL DEF Spec
<1>3. QED
  BY <1>1, <1>2, PTL

--------------------------------------------------------------------------------
(***************************************************************************)
(* The inductive invariant.  The three properties depend on where the      *)
(* calls stand: what a call has established before an await must still     *)
(* hold after it, and only the exclusion of the calls on one server        *)
(* guarantees that.                                                        *)
(***************************************************************************)

(* At most one call is at work on a server.                                *)
Exclusive ==
    /\ \A c, b \in Calls :
         CallInFlight(c) /\ CallInFlight(b) /\ target[c] = target[b] => c = b
    /\ \A c \in Calls, d \in Drops :
         CallInFlight(c) /\ DropInFlight(d) => target[c] # drop[d].server
    /\ \A d, e \in Drops :
         DropInFlight(d) /\ DropInFlight(e) /\ drop[d].server = drop[e].server
         => d = e

(* From ReplaceRemove to AttachInsert the call's server has no session,    *)
(* unless the call is a guided one, which removes none; and neither has a  *)
(* server whose entry is about to be removed.                              *)
SlotEmpty ==
    /\ \A c \in Calls :
         call[c] \in {"close", "dial", "attach", "insert"} /\ kind[c] # "guided"
         => sessions[target[c]] = None
    /\ \A d \in Drops :
         DropInFlight(d) => /\ drop[d].server \in Servers
                            /\ sessions[drop[d].server] = None

(* A session has a worker from DialOk on.                                  *)
Dialled(x) == call[x] \in {"attach", "insert", "finish", "done"}
WorkersDialled ==
    /\ \A x \in Calls : worker[x] # "none" => Dialled(x)
    /\ \A x \in Calls : call[x] \in {"attach", "insert"} => worker[x] # "none"
    /\ \A x \in Calls, s \in Servers : sessions[s] = x => worker[x] # "none"

(* The entry a call has upserted is there when it inserts its session.     *)
EntryBeforeInsert ==
    \A c \in Calls : call[c] = "insert" => store[target[c]] # None

SerialInv ==
    /\ ReaderInv
    /\ Exclusive
    /\ SlotEmpty
    /\ WorkersDialled
    /\ EntryBeforeInsert
    /\ NoLeakedSession
    /\ RegisteredHasEntry

LEMMA InitSerialInv == Init => SerialInv
<1> SUFFICES ASSUME Init PROVE SerialInv
  OBVIOUS
<1>1. \A c \in Calls : ~CallInFlight(c) /\ call[c] = "idle" /\ worker[c] = "none"
  BY DEF Init, CallInFlight
<1>2. \A d \in Drops : ~DropInFlight(d)
  BY DEF Init, DropInFlight
<1>3. \A s \in Servers : sessions[s] = None
  BY DEF Init
<1>4. Exclusive /\ SlotEmpty /\ EntryBeforeInsert
  BY <1>1, <1>2 DEF Exclusive, SlotEmpty, EntryBeforeInsert
<1>5. WorkersDialled /\ NoLeakedSession /\ RegisteredHasEntry
  BY <1>1, <1>3, NoneAssumption
     DEF WorkersDialled, NoLeakedSession, Open, RegisteredHasEntry
<1>6. QED
  BY <1>4, <1>5, InitReaderInv DEF SerialInv

--------------------------------------------------------------------------------
(***************************************************************************)
(* Preservation.  EntriesStay: no entry disappears in the step.            *)
(***************************************************************************)
EntriesStay == \A s \in Servers : store[s] # None => store'[s] # None

LEMMA StoreWriteKeeps ==
    ASSUME NEW s \in Servers \cup {None}, NEW h \in Health, NEW p \in BOOLEAN, TypeOK,
           \/ UpsertServer(s, h) \/ UpdateServerHealth(s, h)
           \/ UpdateConnectionProgress(s, p) \/ MarkTransportDisconnected(s)
    PROVE  /\ EntriesStay
           /\ UpsertServer(s, h) /\ s \in Servers => store'[s] # None
<1>1. /\ store \in [Servers -> Entry \cup {None}]
      /\ store' \in [Servers -> Entry \cup {None}]
  BY StoreWriteType DEF TypeOK
<1>2. \A v \in Servers \ {s} : store'[v] = store[v]
  BY <1>1 DEF UpsertServer, UpdateServerHealth, UpdateConnectionProgress,
              MarkTransportDisconnected
<1>3. ASSUME s \in Servers, UpsertServer(s, h) PROVE store'[s] # None
  <2>1. store'[s] = [health |-> h, progress |-> store[s] # None /\ store[s].progress]
    BY <1>1, <1>3 DEF UpsertServer
  <2>2. store[s] # None => store[s] \in Entry
    BY <1>1, <1>3
  <2>3. (store[s] # None /\ store[s].progress) \in BOOLEAN
    BY <2>2 DEF Entry
  <2>4. store'[s] \in Entry
    BY <2>1, <2>3 DEF Entry
  <2>5. QED
    BY <2>4, NoneAssumption
<1>4. ASSUME s \in Servers, store[s] # None PROVE store'[s] # None
  <2>1. store[s] \in Entry
    BY <1>1, <1>4
  <2>2. CASE UpsertServer(s, h)
    BY <1>3, <1>4, <2>2
  <2>3. CASE \E g \in Health : UpdateServerHealth(s, g)
    <3>1. PICK g \in Health : UpdateServerHealth(s, g)
      BY <2>3
    <3>2. store'[s] = [store[s] EXCEPT !.health = g]
      BY <1>1, <1>4, <3>1 DEF UpdateServerHealth
    <3>3. store'[s] \in Entry
      BY <2>1, <3>2 DEF Entry
    <3>4. QED
      BY <3>3, NoneAssumption
  <2>4. CASE UpdateConnectionProgress(s, p)
    <3>1. store'[s] = [store[s] EXCEPT !.progress = p]
      BY <1>1, <1>4, <2>4 DEF UpdateConnectionProgress
    <3>2. store'[s] \in Entry
      BY <2>1, <3>1 DEF Entry
    <3>3. QED
      BY <3>2, NoneAssumption
  <2>5. "Disconnected" \in Health
    BY DEF Health
  <2>6. QED
    BY <2>2, <2>3, <2>4, <2>5 DEF MarkTransportDisconnected
<1>5. QED
  BY <1>2, <1>3, <1>4 DEF EntriesStay

(* A step that touches none of the variables the invariant is about.       *)
LEMMA SerialFrame ==
    ASSUME SerialInv, ReaderInv', EntriesStay,
           UNCHANGED <<sessions, call, target, kind, old, drop, worker, shutdown, displaced>>
    PROVE  SerialInv'
BY DEF SerialInv, EntriesStay, Exclusive, SlotEmpty, WorkersDialled, Dialled,
       EntryBeforeInsert, NoLeakedSession, RegisteredHasEntry, Open, InService,
       BeingClosed, CallInFlight, DropInFlight, ReaderInv, TypeOK, TargetKnown

(* A call begins on a free server, or moves on between two counters that   *)
(* neither hold nor wait for a session.                                    *)
LEMMA SerialAdvance ==
    ASSUME SerialInv, ReaderInv', EntriesStay, NEW c \in Calls,
           NEW pc \in {"progress", "replace", "dial", "fail", "failProgress", "done"},
           pc = "dial" => kind[c] = "guided" /\ call[c] # "idle",
           call[c] \notin {"close", "attach", "insert", "done"},
           call[c] = "finish" => pc = "done",
           call' = [call EXCEPT ![c] = pc],
           \/ target' = target /\ kind' = kind /\ call[c] # "idle"
           \/ /\ call[c] = "idle"
              /\ \E k \in AllKinds : kind' = [kind EXCEPT ![c] = k]
              /\ \E s \in Servers :
                   /\ target' = [target EXCEPT ![c] = s]
                   /\ \A b \in Calls : CallInFlight(b) => target[b] # s
                   /\ \A d \in Drops : DropInFlight(d) => drop[d].server # s,
           UNCHANGED <<sessions, old, drop, worker, shutdown, displaced>>
    PROVE  SerialInv'
<1>0. /\ call \in [Calls -> CallPc] /\ target \in [Calls -> Servers \cup {None}]
      /\ \A b \in Calls \ {c} : call'[b] = call[b] /\ target'[b] = target[b] /\ kind'[b] = kind[b]
      /\ call'[c] = pc
      /\ pc = "dial" => kind'[c] = "guided"
  BY DEF SerialInv, ReaderInv, TypeOK
<1>1. Exclusive'
  BY <1>0 DEF SerialInv, Exclusive, CallInFlight, DropInFlight
<1>2. SlotEmpty' /\ EntryBeforeInsert'
  BY <1>0 DEF SerialInv, SlotEmpty, EntryBeforeInsert, DropInFlight, EntriesStay,
              ReaderInv, TargetKnown
<1>3. WorkersDialled'
  BY <1>0 DEF SerialInv, WorkersDialled, Dialled
<1>4. RegisteredHasEntry'
  BY DEF SerialInv, RegisteredHasEntry, EntriesStay
<1>5. NoLeakedSession'
  <2> SUFFICES ASSUME NEW x \in Calls, Open(x)'
               PROVE  (x \in InService(target[x]) \/ BeingClosed(x) \/ x \in displaced)'
    BY DEF NoLeakedSession
  <2>1. Open(x)
    BY DEF Open
  <2>2. Dialled(x)
    BY <2>1 DEF Open, SerialInv, WorkersDialled
  <2>3. x \in InService(target[x]) \/ BeingClosed(x) \/ x \in displaced
    BY <2>1 DEF SerialInv, NoLeakedSession
  <2>4. target'[x] = target[x]
    BY <1>0, <2>2 DEF Dialled
  <2>5. CASE x \in InService(target[x])
    BY <1>0, <2>4, <2>5 DEF InService
  <2>6. CASE BeingClosed(x)
    BY <1>0, <2>6 DEF BeingClosed
  <2>7. QED
    BY <2>3, <2>5, <2>6
<1>6. QED
  BY <1>1, <1>2, <1>3, <1>4, <1>5 DEF SerialInv

--------------------------------------------------------------------------------
(***************************************************************************)
(* The connect calls, one lemma for each step that moves a session.        *)
(***************************************************************************)

(* The replaced session goes from the map to the call that closes it.      *)
LEMMA SerialReplaceRemove ==
    ASSUME SerialInv, ReaderInv', NEW c \in Calls, ReplaceRemove(c)
    PROVE  SerialInv'
<1> DEFINE s == target[c]
<1>0. /\ call[c] = "replace" /\ s \in Servers /\ CallInFlight(c)
      /\ call \in [Calls -> CallPc] /\ old \in [Calls -> Calls \cup {None}]
      /\ sessions \in [Servers -> Calls \cup {None}]
      /\ call'[c] = IF sessions[s] = None THEN "dial" ELSE "close"
      /\ old'[c] = sessions[s]
      /\ \A b \in Calls \ {c} : call'[b] = call[b] /\ old'[b] = old[b]
      /\ sessions'[s] = None
      /\ \A v \in Servers \ {s} : sessions'[v] = sessions[v]
      /\ UNCHANGED <<target, kind, drop, worker, shutdown, store, displaced>>
  BY DEF ReplaceRemove, Goto, SerialInv, ReaderInv, TypeOK, TargetKnown, CallInFlight,
         sessionVars, storeVars, readerVars
<1>1. Exclusive'
  BY <1>0 DEF SerialInv, Exclusive, CallInFlight, DropInFlight
<1>2. SlotEmpty' /\ EntryBeforeInsert'
  BY <1>0 DEF SerialInv, SlotEmpty, EntryBeforeInsert, DropInFlight, ReaderInv,
              TargetKnown
<1>3. WorkersDialled'
  BY <1>0, NoneAssumption DEF SerialInv, WorkersDialled, Dialled
<1>4. RegisteredHasEntry'
  BY <1>0 DEF SerialInv, RegisteredHasEntry
<1>5. NoLeakedSession'
  <2> SUFFICES ASSUME NEW x \in Calls, Open(x)'
               PROVE  (x \in InService(target[x]) \/ BeingClosed(x) \/ x \in displaced)'
    BY DEF NoLeakedSession
  <2>1. Open(x)
    BY <1>0 DEF Open
  <2>2. x # c /\ x # None /\ target[x] \in Servers
    BY <1>0, <2>1, NoneAssumption DEF Open, SerialInv, WorkersDialled, Dialled,
                                      ReaderInv, TargetKnown
  <2>3. x \in InService(target[x]) \/ BeingClosed(x) \/ x \in displaced
    BY <2>1 DEF SerialInv, NoLeakedSession
  <2>4. CASE sessions[s] = x
    BY <1>0, <2>2, <2>4 DEF BeingClosed
  <2>5. CASE sessions[s] # x /\ x \in InService(target[x])
    BY <1>0, <2>2, <2>5 DEF InService
  <2>6. CASE BeingClosed(x)
    BY <1>0, <2>6 DEF BeingClosed
  <2>9. CASE x \in displaced
    BY <1>0, <2>9
  <2>7. QED
    BY <2>3, <2>4, <2>5, <2>6, <2>9
<1>6. QED
  BY <1>1, <1>2, <1>3, <1>4, <1>5 DEF SerialInv

LEMMA SerialReplaceClose ==
    ASSUME SerialInv, ReaderInv', NEW c \in Calls, ReplaceClose(c)
    PROVE  SerialInv'
<1>0. /\ call[c] = "close" /\ call \in [Calls -> CallPc]
      /\ call'[c] = "dial"
      /\ \A b \in Calls \ {c} : call'[b] = call[b] /\ old'[b] = old[b]
      /\ shutdown' = [shutdown EXCEPT ![old[c]] = TRUE]
      /\ shutdown \in [Calls -> BOOLEAN]
      /\ UNCHANGED <<sessions, target, kind, drop, worker, store, displaced>>
  BY DEF ReplaceClose, CloseSession, Goto, SerialInv, ReaderInv, TypeOK, storeVars, readerVars
<1>1. Exclusive'
  BY <1>0 DEF SerialInv, Exclusive, CallInFlight, DropInFlight
<1>2. SlotEmpty' /\ EntryBeforeInsert' /\ RegisteredHasEntry'
  BY <1>0 DEF SerialInv, SlotEmpty, EntryBeforeInsert, DropInFlight, RegisteredHasEntry
<1>3. WorkersDialled'
  BY <1>0 DEF SerialInv, WorkersDialled, Dialled
<1>4. NoLeakedSession'
  <2> SUFFICES ASSUME NEW x \in Calls, Open(x)'
               PROVE  (x \in InService(target[x]) \/ BeingClosed(x) \/ x \in displaced)'
    BY DEF NoLeakedSession
  <2>1. Open(x) /\ x # old[c]
    BY <1>0 DEF Open
  <2>2. x \in InService(target[x]) \/ BeingClosed(x) \/ x \in displaced
    BY <2>1 DEF SerialInv, NoLeakedSession
  <2>3. CASE x \in InService(target[x])
    BY <1>0, <2>3 DEF InService
  <2>4. CASE BeingClosed(x)
    BY <1>0, <2>1, <2>4 DEF BeingClosed
  <2>9. CASE x \in displaced
    BY <1>0, <2>9
  <2>5. QED
    BY <2>2, <2>3, <2>4, <2>9
<1>5. QED
  BY <1>1, <1>2, <1>3, <1>4 DEF SerialInv

LEMMA SerialDialOk ==
    ASSUME SerialInv, ReaderInv', NEW c \in Calls, DialOk(c)
    PROVE  SerialInv'
<1>0. /\ call[c] = "dial" /\ call \in [Calls -> CallPc]
      /\ call'[c] = "attach"
      /\ \A b \in Calls \ {c} : call'[b] = call[b] /\ worker'[b] = worker[b]
      /\ worker'[c] = "running"
      /\ UNCHANGED <<sessions, target, kind, old, drop, shutdown, store, displaced>>
  BY DEF DialOk, Goto, SerialInv, ReaderInv, TypeOK, storeVars, readerVars
<1>1. Exclusive'
  BY <1>0 DEF SerialInv, Exclusive, CallInFlight, DropInFlight
<1>2. SlotEmpty' /\ EntryBeforeInsert' /\ RegisteredHasEntry'
  BY <1>0 DEF SerialInv, SlotEmpty, EntryBeforeInsert, DropInFlight, RegisteredHasEntry
<1>3. WorkersDialled'
  BY <1>0 DEF SerialInv, WorkersDialled, Dialled
<1>4. NoLeakedSession'
  <2> SUFFICES ASSUME NEW x \in Calls, Open(x)'
               PROVE  (x \in InService(target[x]) \/ BeingClosed(x) \/ x \in displaced)'
    BY DEF NoLeakedSession
  <2>1. CASE x = c
    BY <1>0, <2>1 DEF InService
  <2>2. CASE x # c
    <3>1. x \in InService(target[x]) \/ BeingClosed(x) \/ x \in displaced
      BY <1>0, <2>2 DEF Open, SerialInv, NoLeakedSession
    <3>2. QED
      BY <1>0, <2>2, <3>1 DEF InService, BeingClosed
  <2>3. QED
    BY <2>1, <2>2
<1>5. QED
  BY <1>1, <1>2, <1>3, <1>4 DEF SerialInv

LEMMA SerialAttachUpsert ==
    ASSUME SerialInv, ReaderInv', NEW c \in Calls, AttachUpsert(c)
    PROVE  SerialInv'
<1>0. /\ call[c] = "attach" /\ call \in [Calls -> CallPc] /\ target[c] \in Servers
      /\ call'[c] = "insert"
      /\ \A b \in Calls \ {c} : call'[b] = call[b]
      /\ UNCHANGED <<sessions, target, kind, old, drop, worker, shutdown, displaced>>
  BY DEF AttachUpsert, Goto, SerialInv, ReaderInv, TypeOK, TargetKnown, sessionVars, readerVars
<1>1. EntriesStay /\ store'[target[c]] # None
  BY <1>0, StoreWriteKeeps DEF AttachUpsert, Health, SerialInv, ReaderInv
<1>2. Exclusive'
  BY <1>0 DEF SerialInv, Exclusive, CallInFlight, DropInFlight
<1>3. SlotEmpty' /\ EntryBeforeInsert' /\ RegisteredHasEntry'
  BY <1>0, <1>1 DEF SerialInv, SlotEmpty, EntryBeforeInsert, DropInFlight,
                    RegisteredHasEntry, EntriesStay, ReaderInv, TargetKnown
<1>4. WorkersDialled'
  BY <1>0 DEF SerialInv, WorkersDialled, Dialled
<1>5. NoLeakedSession'
  BY <1>0 DEF SerialInv, NoLeakedSession, Open, InService, BeingClosed
<1>6. QED
  BY <1>2, <1>3, <1>4, <1>5 DEF SerialInv

(* Only a guided call overwrites a session by its insert, and displaces    *)
(* it: for any other the slot is still empty.                              *)
LEMMA SerialAttachInsert ==
    ASSUME SerialInv, ReaderInv', NEW c \in Calls, AttachInsert(c)
    PROVE  SerialInv'
<1> DEFINE s == target[c]
<1>0. /\ call[c] = "insert" /\ call \in [Calls -> CallPc] /\ s \in Servers
      /\ call'[c] \in {"finish", "done"}
      /\ \A b \in Calls \ {c} : call'[b] = call[b]
      /\ sessions'[s] = c
      /\ \A v \in Servers \ {s} : sessions'[v] = sessions[v]
      /\ UNCHANGED <<target, kind, old, drop, worker, shutdown, store>>
      /\ displaced \subseteq displaced'
      /\ sessions[s] # None => sessions[s] \in displaced'
  BY DEF AttachInsert, InsertOver, Goto, SerialInv, ReaderInv, TypeOK, TargetKnown, SlotEmpty,
         sessionVars, storeVars
<1>1. Exclusive'
  BY <1>0 DEF SerialInv, Exclusive, CallInFlight, DropInFlight
<1>2. SlotEmpty' /\ EntryBeforeInsert' /\ RegisteredHasEntry'
  BY <1>0 DEF SerialInv, SlotEmpty, EntryBeforeInsert, DropInFlight, RegisteredHasEntry,
              Exclusive, CallInFlight, ReaderInv, TargetKnown
<1>3. WorkersDialled'
  BY <1>0 DEF SerialInv, WorkersDialled, Dialled
<1>4. NoLeakedSession'
  <2> SUFFICES ASSUME NEW x \in Calls, Open(x)'
               PROVE  (x \in InService(target[x]) \/ BeingClosed(x) \/ x \in displaced)'
    BY DEF NoLeakedSession
  <2>1. /\ x \in InService(target[x]) \/ BeingClosed(x) \/ x \in displaced
        /\ target[x] \in Servers
    BY <1>0 DEF Open, SerialInv, NoLeakedSession, WorkersDialled, Dialled, ReaderInv,
                TargetKnown
  <2>2. CASE x \in InService(target[x])
    BY <1>0, <2>1, <2>2, NoneAssumption DEF InService
  <2>3. CASE BeingClosed(x)
    BY <1>0, <2>3 DEF BeingClosed
  <2>9. CASE x \in displaced
    BY <1>0, <2>9
  <2>4. QED
    BY <2>1, <2>2, <2>3, <2>9
<1>5. QED
  BY <1>1, <1>2, <1>3, <1>4 DEF SerialInv

--------------------------------------------------------------------------------
(***************************************************************************)
(* disconnect_server and restart_app_server.                               *)
(***************************************************************************)
LEMMA SerialDropSession ==
    ASSUME Serialised, SerialInv, ReaderInv', NEW d \in Drops, NEW s \in Servers,
           DropSession(d, s)
    PROVE  SerialInv'
<1>0. /\ drop[d].pc = "idle" /\ drop'[d].pc = "entry"
      /\ drop'[d].server = s /\ drop'[d].old = sessions[s]
      /\ \A e \in Drops \ {d} : drop'[e] = drop[e]
      /\ sessions'[s] = None
      /\ \A v \in Servers \ {s} : sessions'[v] = sessions[v]
      /\ UNCHANGED <<call, target, kind, old, worker, shutdown, store, displaced>>
  BY DEF DropSession, SerialInv, ReaderInv, TypeOK, sessionVars, storeVars, callVars, readerVars
<1>1. /\ \A c \in Calls : CallInFlight(c) => target[c] # s
      /\ \A e \in Drops : DropInFlight(e) => drop[e].server # s
  BY DEF DropSession, Free
<1>2. Exclusive'
  BY <1>0, <1>1 DEF SerialInv, Exclusive, CallInFlight, DropInFlight
<1>3. SlotEmpty' /\ EntryBeforeInsert' /\ RegisteredHasEntry'
  BY <1>0 DEF SerialInv, SlotEmpty, EntryBeforeInsert, DropInFlight, RegisteredHasEntry,
              ReaderInv, TargetKnown
<1>4. WorkersDialled'
  BY <1>0, NoneAssumption DEF SerialInv, WorkersDialled, Dialled
<1>5. NoLeakedSession'
  <2> SUFFICES ASSUME NEW x \in Calls, Open(x)'
               PROVE  (x \in InService(target[x]) \/ BeingClosed(x) \/ x \in displaced)'
    BY DEF NoLeakedSession
  <2>1. /\ x \in InService(target[x]) \/ BeingClosed(x) \/ x \in displaced
        /\ target[x] \in Servers
    BY <1>0 DEF Open, SerialInv, NoLeakedSession, WorkersDialled, Dialled, ReaderInv,
                TargetKnown
  <2>2. CASE sessions[s] = x
    BY <1>0, <2>2 DEF BeingClosed
  <2>3. CASE sessions[s] # x /\ x \in InService(target[x])
    BY <1>0, <2>1, <2>3 DEF InService
  <2>4. CASE BeingClosed(x)
    BY <1>0, <2>4 DEF BeingClosed
  <2>9. CASE x \in displaced
    BY <1>0, <2>9
  <2>5. QED
    BY <2>1, <2>2, <2>3, <2>4, <2>9
<1>6. QED
  BY <1>2, <1>3, <1>4, <1>5 DEF SerialInv

(* The entry that goes is that of a server without a session, and no call  *)
(* is about to insert one.                                                 *)
LEMMA SerialDropEntry ==
    ASSUME SerialInv, ReaderInv', NEW d \in Drops, DropEntry(d)
    PROVE  SerialInv'
<1> DEFINE s == drop[d].server
<1>0. /\ drop[d].pc = "entry" /\ DropInFlight(d) /\ s \in Servers
      /\ drop'[d].pc = IF drop[d].old = None THEN "done" ELSE "close"
      /\ drop'[d].server = s /\ drop'[d].old = drop[d].old
      /\ \A e \in Drops \ {d} : drop'[e] = drop[e]
      /\ \A v \in Servers \ {s} : store'[v] = store[v]
      /\ UNCHANGED <<sessions, call, target, kind, old, worker, shutdown, displaced>>
  BY DEF DropEntry, RemoveServer, DropInFlight, SerialInv, SlotEmpty, ReaderInv, TypeOK,
         sessionVars, callVars, readerVars
<1>1. Exclusive'
  BY <1>0 DEF SerialInv, Exclusive, CallInFlight, DropInFlight
<1>2. SlotEmpty' /\ RegisteredHasEntry'
  BY <1>0 DEF SerialInv, SlotEmpty, DropInFlight, RegisteredHasEntry
<1>3. EntryBeforeInsert'
  BY <1>0 DEF SerialInv, EntryBeforeInsert, Exclusive, CallInFlight, ReaderInv,
              TargetKnown
<1>4. WorkersDialled'
  BY <1>0 DEF SerialInv, WorkersDialled, Dialled
<1>5. NoLeakedSession'
  BY <1>0, NoneAssumption DEF SerialInv, NoLeakedSession, Open, InService, BeingClosed
<1>6. QED
  BY <1>1, <1>2, <1>3, <1>4, <1>5 DEF SerialInv

LEMMA SerialDropClose ==
    ASSUME SerialInv, ReaderInv', NEW d \in Drops, DropClose(d)
    PROVE  SerialInv'
<1>0. /\ drop[d].pc = "close" /\ drop'[d].pc = "done"
      /\ \A e \in Drops \ {d} : drop'[e] = drop[e]
      /\ shutdown \in [Calls -> BOOLEAN]
      /\ shutdown' = [shutdown EXCEPT ![drop[d].old] = TRUE]
      /\ UNCHANGED <<sessions, call, target, kind, old, worker, store, displaced>>
  BY DEF DropClose, CloseSession, SerialInv, ReaderInv, TypeOK, storeVars, callVars, readerVars
<1>1. Exclusive'
  BY <1>0 DEF SerialInv, Exclusive, CallInFlight, DropInFlight
<1>2. SlotEmpty' /\ EntryBeforeInsert' /\ RegisteredHasEntry'
  BY <1>0 DEF SerialInv, SlotEmpty, EntryBeforeInsert, DropInFlight, RegisteredHasEntry
<1>3. WorkersDialled'
  BY <1>0 DEF SerialInv, WorkersDialled, Dialled
<1>4. NoLeakedSession'
  <2> SUFFICES ASSUME NEW x \in Calls, Open(x)'
               PROVE  (x \in InService(target[x]) \/ BeingClosed(x) \/ x \in displaced)'
    BY DEF NoLeakedSession
  <2>1. Open(x) /\ x # drop[d].old
    BY <1>0 DEF Open
  <2>2. x \in InService(target[x]) \/ BeingClosed(x) \/ x \in displaced
    BY <2>1 DEF SerialInv, NoLeakedSession
  <2>3. QED
    BY <1>0, <2>1, <2>2 DEF InService, BeingClosed
<1>5. QED
  BY <1>1, <1>2, <1>3, <1>4 DEF SerialInv

--------------------------------------------------------------------------------
LEMMA SerialWorkerStops ==
    ASSUME SerialInv, ReaderInv', NEW x \in Calls, WorkerStops(x)
    PROVE  SerialInv'
<1>0. /\ worker[x] = "running" /\ worker'[x] = "stopped"
      /\ \A y \in Calls \ {x} : worker'[y] = worker[y]
      /\ UNCHANGED <<sessions, call, target, kind, old, drop, shutdown, store, displaced>>
  BY DEF WorkerStops, SerialInv, ReaderInv, TypeOK, storeVars, callVars, readerVars
<1>1. Exclusive' /\ SlotEmpty' /\ EntryBeforeInsert' /\ RegisteredHasEntry'
  BY <1>0 DEF SerialInv, Exclusive, CallInFlight, DropInFlight, SlotEmpty,
              EntryBeforeInsert, RegisteredHasEntry
<1>2. WorkersDialled'
  BY <1>0 DEF SerialInv, WorkersDialled, Dialled
<1>3. NoLeakedSession'
  BY <1>0 DEF SerialInv, NoLeakedSession, Open, InService, BeingClosed
<1>4. QED
  BY <1>1, <1>2, <1>3 DEF SerialInv

(* A call begins on a free server, or takes a step without a session.      *)
LEMMA SerialConnect ==
    ASSUME Serialised, SerialInv, ReaderInv', NEW c \in Calls,
           \/ \E s \in Servers : ReuseDirect(c, s) \/ BeginDirect(c, s)
           \/ \E s \in Servers, k \in AllKinds :
                BeginUpsert(c, s, k) \/ RefuseBegin(c, s, k)
           \/ CallStep(c) \/ ShowProgress(c) \/ DialOk(c) \/ DialFail(c)
    PROVE  SerialInv'
<1>0. /\ call \in [Calls -> CallPc] /\ target[c] \in Servers \cup {None} /\ TypeOK
  BY DEF SerialInv, ReaderInv, TypeOK
<1>1. ASSUME NEW s \in Servers, NEW k \in AllKinds,
             NEW pc \in {"progress", "replace", "done"},
             Begin(c, s, k, pc), EntriesStay,
             UNCHANGED <<sessions, drop, sessionVars, displaced>>
      PROVE  SerialInv'
  <2>1. /\ \A b \in Calls : CallInFlight(b) => target[b] # s
        /\ \A d \in Drops : DropInFlight(d) => drop[d].server # s
    BY <1>1 DEF Begin, Free
  <2>2. QED
    BY <1>1, <2>1, SerialAdvance DEF Begin, Goto, sessionVars
<1>2. ASSUME NEW s \in Servers, ReuseDirect(c, s) \/ BeginDirect(c, s)
      PROVE  SerialInv'
  BY <1>1, <1>2 DEF ReuseDirect, BeginDirect, AllKinds, storeVars, readerVars, EntriesStay
<1>3. ASSUME NEW s \in Servers, NEW k \in AllKinds, BeginUpsert(c, s, k)
      PROVE  SerialInv'
  <2>1. EntriesStay
    BY <1>0, <1>3, StoreWriteKeeps DEF BeginUpsert, Health
  <2>2. QED
    BY <1>1, <1>3, <2>1 DEF BeginUpsert, readerVars
<1>4. ASSUME NEW s \in Servers, NEW k \in AllKinds, RefuseBegin(c, s, k)
      PROVE  SerialInv'
  <2>1. EntriesStay
    BY <1>0, <1>4, StoreWriteKeeps DEF RefuseBegin, Health, storeVars, EntriesStay
  <2>2. QED
    BY <1>1, <1>4, <2>1 DEF RefuseBegin, readerVars
<1>5. CASE BeginProgress(c) \/ Fail(c) \/ EndProgress(c)
  <2>1. EntriesStay
    <3>1. (call[c] = "failProgress" /\ kind[c] = "guided") \in BOOLEAN
      OBVIOUS
    <3>2. QED
      BY <1>0, <1>5, <3>1, StoreWriteKeeps DEF BeginProgress, Fail, EndProgress, Health
  <2>2. PICK pc \in {"replace", "dial", "failProgress", "done"} :
          /\ call' = [call EXCEPT ![c] = pc]
          /\ pc = "dial" => kind[c] = "guided"
          /\ call[c] \in {"progress", "fail", "failProgress", "finish"}
          /\ call[c] = "finish" => pc = "done"
    BY <1>5 DEF BeginProgress, Fail, EndProgress, Goto
  <2>3. UNCHANGED <<sessions, target, kind, old, drop, worker, shutdown, displaced>>
    BY <1>5 DEF BeginProgress, Fail, EndProgress, sessionVars, readerVars
  <2>4. QED
    BY <2>1, <2>2, <2>3, SerialAdvance
<1>6. CASE DialFail(c)
  <2>1. PICK pc \in {"fail", "done"} :
          call' = [call EXCEPT ![c] = pc] /\ call[c] = "dial"
    BY <1>6 DEF DialFail, Goto
  <2>2. /\ EntriesStay
        /\ UNCHANGED <<sessions, target, kind, old, drop, worker, shutdown, displaced>>
    BY <1>6 DEF DialFail, sessionVars, storeVars, readerVars, EntriesStay
  <2>3. QED
    BY <2>1, <2>2, SerialAdvance
<1>8. CASE ShowProgress(c)
  <2>1. EntriesStay
    BY <1>0, <1>8, StoreWriteKeeps DEF ShowProgress, Health
  <2>2. QED
    BY <1>8, <2>1, SerialFrame DEF ShowProgress, callVars, sessionVars, readerVars
<1>7. QED
  BY <1>2, <1>3, <1>4, <1>5, <1>6, <1>8, SerialReplaceRemove, SerialReplaceClose,
     SerialDialOk, SerialAttachUpsert, SerialAttachInsert DEF CallStep

LEMMA ApplyEventKeeps ==
    ASSUME TypeOK, TypeOK', ApplyEvent
    PROVE  EntriesStay
<1> DEFINE e == Head(events)
<1>1. e \in Event
  BY DEF TypeOK, ApplyEvent
<1>2. CASE e.server = None \/ store[e.server] = None
  BY <1>2 DEF ApplyEvent, storeVars, EntriesStay
<1>3. CASE e.server # None /\ store[e.server] # None
  <2>1. e.server \in Servers /\ e.health \in Health
    BY <1>1, <1>3 DEF Event
  <2>2. store[e.server] \in Entry
    BY <1>3, <2>1 DEF TypeOK
  <2>3. AppliedHealth(store[e.server], e.health) \in Health
    BY <2>1 DEF AppliedHealth, Health
  <2>4. [store[e.server] EXCEPT !.health = AppliedHealth(store[e.server], e.health)]
          \in Entry
    BY <2>2, <2>3 DEF Entry
  <2>5. /\ store'[e.server] \in Entry
        /\ \A v \in Servers \ {e.server} : store'[v] = store[v]
    BY <1>3, <2>1, <2>4 DEF ApplyEvent, TypeOK
  <2>6. QED
    BY <2>5, NoneAssumption DEF EntriesStay
<1>4. QED
  BY <1>2, <1>3

LEMMA NextSerialInv == Serialised => (SerialInv /\ [Next]_vars => SerialInv')
<1> SUFFICES ASSUME Serialised, SerialInv, [Next]_vars
             PROVE  SerialInv'
  OBVIOUS
<1>0. ReaderInv' /\ TypeOK /\ TypeOK'
  BY NextReaderInv DEF SerialInv, ReaderInv
<1>1. ASSUME NEW c \in Calls,
             \/ \E s \in Servers : ReuseDirect(c, s) \/ BeginDirect(c, s)
             \/ \E s \in Servers, k \in AllKinds :
                  BeginUpsert(c, s, k) \/ RefuseBegin(c, s, k)
             \/ CallStep(c) \/ ShowProgress(c) \/ DialOk(c) \/ DialFail(c)
      PROVE  SerialInv'
  BY <1>0, <1>1, SerialConnect
<1>2. ASSUME NEW a \in Asks,
             \/ \E s \in Servers : AskSession(a, s) \/ AskNoSession(a, s)
             \/ AskAnswered(a) \/ AskTransportError(a)
      PROVE  SerialInv'
  <2>1. EntriesStay
    <3>1. ask[a].server \in Servers \cup {None}
      BY <1>0 DEF TypeOK
    <3>2. QED
      BY <1>0, <1>2, <3>1, StoreWriteKeeps
         DEF AskSession, AskNoSession, AskAnswered, AskTransportError, storeVars,
             EntriesStay, Health
  <2>2. UNCHANGED <<sessions, call, target, kind, old, drop, worker, shutdown, displaced>>
    BY <1>2 DEF AskSession, AskNoSession, AskAnswered, AskTransportError, callVars,
                sessionVars, readerVars
  <2>3. QED
    BY <1>0, <2>1, <2>2, SerialFrame
<1>3. ASSUME NEW x \in Calls, WorkerMoves(x) \/ ReaderStep(x)
      PROVE  SerialInv'
  <2>1. /\ EntriesStay
        /\ UNCHANGED <<sessions, call, target, kind, old, drop, worker, shutdown, displaced>>
    BY <1>3 DEF WorkerMoves, ReaderStep, ReaderStart, ReaderAnnounce, ReaderCheck,
                ReaderBorrow, ReaderReport, ReaderWake, ReaderTest, ReaderEmit,
                ReaderStays, callVars, storeVars, readerVars, EntriesStay
  <2>2. QED
    BY <1>0, <2>1, SerialFrame
<1>4. ASSUME ApplyEvent \/ ListenerReturns \/ OtherEvent \/ UNCHANGED vars
      PROVE  SerialInv'
  <2>1. UNCHANGED <<sessions, call, target, kind, old, drop, worker, shutdown, displaced>>
    BY <1>4 DEF ApplyEvent, ListenerReturns, OtherEvent, vars, callVars, sessionVars, readerVars
  <2>2. EntriesStay
    BY <1>0, <1>4, ApplyEventKeeps DEF ListenerReturns, OtherEvent, vars, storeVars, EntriesStay
  <2>3. QED
    BY <1>0, <2>1, <2>2, SerialFrame
<1>5. ASSUME NEW d \in Drops,
             (\E s \in Servers : DropSession(d, s)) \/ DropEntry(d) \/ DropClose(d)
      PROVE  SerialInv'
  BY <1>0, <1>5, SerialDropSession, SerialDropEntry, SerialDropClose
<1>6. QED
  BY <1>0, <1>1, <1>2, <1>3, <1>4, <1>5, SerialWorkerStops DEF Next

--------------------------------------------------------------------------------
(***************************************************************************)
(* The theorems.  All of them need Serialised: two overlapping connects of *)
(* one server leak a session.  A guided SSH connect leaks one even then,   *)
(* and the theorems say that nothing else does.                            *)
(***************************************************************************)
LEMMA SerialInvariance == Serialised => (Spec => []SerialInv)
<1>1. SUFFICES ASSUME Serialised PROVE Spec => []SerialInv
  OBVIOUS
<1>2. SerialInv /\ [Next]_vars => SerialInv'
  BY <1>1, NextSerialInv
<1>3. QED
  BY <1>2, InitSerialInv, PTL DEF Spec

(* An open session is in service, held by a call that will close it, or    *)
(* was overwritten by a guided SSH connect: replace_existing_session and   *)
(* disconnect_server never lose one, and no other insert drops one.        *)
THEOREM NoSessionLeaks == Serialised => (Spec => []NoLeakedSession)
<1>1. SerialInv => NoLeakedSession
  BY DEF SerialInv
<1>2. QED
  BY <1>1, SerialInvariance, PTL

(* A registered session always has a store entry.                          *)
THEOREM RegisteredIsVisible == Serialised => (Spec => []RegisteredHasEntry)
<1>1. SerialInv => RegisteredHasEntry
  BY DEF SerialInv
<1>2. QED
  BY <1>1, SerialInvariance, PTL

--------------------------------------------------------------------------------
(***************************************************************************)
(* The refinement: DialOk enters or joins a slot, ReplaceRemove and        *)
(* DropSession leave it, the insert of a guided call that has joined       *)
(* overtakes, and every other step is a stutter of the slots.              *)
(***************************************************************************)
LEMMA SlotsStutter ==
    ASSUME \A x \in Calls : worker'[x] # "none" <=> worker[x] # "none",
           \A x \in Calls : worker[x] # "none" => kind'[x] = kind[x],
           \A s \in Servers, x \in Calls :
               /\ target'[x] = s
               /\ sessions'[s] = x \/ call'[x] \in {"attach", "insert"}
               <=> /\ target[x] = s
                   /\ sessions[s] = x \/ call[x] \in {"attach", "insert"}
    PROVE  UNCHANGED Slots!vars
<1>1. \A s \in Servers : InService(s)' = InService(s)
  BY DEF InService
<1>2. [s \in Servers |-> InService(s)]' = [s \in Servers |-> InService(s)]
  BY <1>1
<1>3. {x \in Calls : worker[x] # "none"}' = {x \in Calls : worker[x] # "none"}
  OBVIOUS
<1>4. {x \in Calls : kind[x] = "guided" /\ worker[x] # "none"}'
        = {x \in Calls : kind[x] = "guided" /\ worker[x] # "none"}
  OBVIOUS
<1>5. QED
  BY <1>2, <1>3, <1>4 DEF Slots!vars

LEMMA NextSlots ==
    ASSUME NEW s \in Servers, NEW x \in Calls,
           Slots!Enter(s, x) \/ Slots!Join(s, x) \/ Slots!Overtake(s, x)
    PROVE  Slots!Next
BY Zenon DEF Slots!Next

LEMMA SlotsEnter ==
    ASSUME SerialInv, NEW c \in Calls, DialOk(c)
    PROVE  Slots!Next
<1> DEFINE s == target[c]
           Guided == {x \in Calls : kind[x] = "guided" /\ worker[x] # "none"}
<1>0. /\ call[c] = "dial" /\ s \in Servers /\ CallInFlight(c)
      /\ worker[c] = "none" /\ sessions[s] \in Calls \cup {None}
      /\ kind[c] # "guided" => sessions[s] = None
      /\ call \in [Calls -> CallPc]
      /\ call'[c] = "attach"
      /\ \A b \in Calls \ {c} : call'[b] = call[b] /\ worker'[b] = worker[b]
      /\ worker'[c] = "running"
      /\ UNCHANGED <<sessions, target, kind>>
  BY DEF DialOk, Goto, SerialInv, ReaderInv, TypeOK, TargetKnown, SlotEmpty,
         WorkersDialled, Dialled, CallInFlight
<1>1. InService(s) = IF sessions[s] = None THEN {} ELSE {sessions[s]}
  BY <1>0, NoneAssumption
     DEF InService, SerialInv, ReaderInv, RegisteredWasInserted, Exclusive, CallInFlight
<1>2. InService(s)' = InService(s) \cup {c}
  BY <1>0, NoneAssumption DEF InService
<1>3. \A v \in Servers \ {s} : InService(v)' = InService(v)
  BY <1>0 DEF InService
<1>4. [v \in Servers |-> InService(v)]' =
        [[v \in Servers |-> InService(v)] EXCEPT ![s] = @ \cup {c}]
  BY <1>0, <1>2, <1>3
<1>5. {x \in Calls : worker[x] # "none"}' = {x \in Calls : worker[x] # "none"} \cup {c}
  BY <1>0
<1>6. c \notin {x \in Calls : worker[x] # "none"}
  BY <1>0
<1>12. PICK v \in Servers : v = s
  BY <1>0
<1>7. Slots!Created(v, c)
  BY <1>0, <1>4, <1>5, <1>6, <1>12 DEF Slots!Created
<1>8. Guided' = IF kind[c] = "guided" THEN Guided \cup {c} ELSE Guided
  BY <1>0
<1>9. CASE sessions[s] = None
  <2>1. Slots!Enter(v, c)
    BY <1>0, <1>1, <1>7, <1>8, <1>9, <1>12 DEF Slots!Enter
  <2>2. QED
    BY <2>1, NextSlots
<1>10. CASE sessions[s] # None
  <2>1. [u \in Servers |-> InService(u)][s] = {sessions[s]} /\ sessions[s] \in Calls
    BY <1>0, <1>1, <1>10
  <2>2. Slots!Join(v, c)
    BY <1>0, <1>7, <1>8, <1>10, <1>12, <2>1 DEF Slots!Join
  <2>3. QED
    BY <2>2, NextSlots
<1>11. QED
  BY <1>9, <1>10

(* A session taken out of the map empties its slot, for no call is between *)
(* DialOk and AttachInsert on that server.                                 *)
LEMMA SlotsLeave ==
    ASSUME SerialInv, NEW s \in Servers,
           sessions' = [sessions EXCEPT ![s] = None],
           \A c \in Calls : call[c] \in {"attach", "insert"} => target[c] # s,
           \A c \in Calls : call'[c] = call[c] \/ {call[c], call'[c]} \cap
                                                  {"attach", "insert"} = {},
           UNCHANGED <<target, kind, worker>>
    PROVE  [Slots!Next]_(Slots!vars)
<1>0. /\ sessions \in [Servers -> Calls \cup {None}]
      /\ sessions'[s] = None
      /\ \A v \in Servers \ {s} : sessions'[v] = sessions[v]
      /\ \A c \in Calls : call'[c] \in {"attach", "insert"}
                          <=> call[c] \in {"attach", "insert"}
  BY DEF SerialInv, ReaderInv, TypeOK
<1>1. CASE sessions[s] = None
  <2>1. \A v \in Servers : sessions'[v] = sessions[v]
    BY <1>0, <1>1
  <2>2. UNCHANGED Slots!vars
    BY <1>0, <2>1, SlotsStutter
  <2>3. QED
    BY <2>2
<1>2. CASE sessions[s] # None
  <2>1. InService(s) = {sessions[s]} /\ sessions[s] \in Calls
    BY <1>0, <1>2 DEF InService, SerialInv, ReaderInv, RegisteredWasInserted
  <2>2. InService(s)' = {}
    BY <1>0, NoneAssumption DEF InService
  <2>3. \A v \in Servers \ {s} : InService(v)' = InService(v)
    BY <1>0 DEF InService
  <2>4. [v \in Servers |-> InService(v)]' =
          [[v \in Servers |-> InService(v)] EXCEPT ![s] = {}]
    BY <2>2, <2>3
  <2>5. Slots!Leave(s)
    BY <2>1, <2>4 DEF Slots!Leave
  <2>6. QED
    BY <2>5 DEF Slots!Next
<1>3. QED
  BY <1>1, <1>2

(* The insert changes nothing in an empty map; the insert of a guided call *)
(* takes the place of the session that is there.                           *)
LEMMA SlotsInsert ==
    ASSUME SerialInv, NEW c \in Calls, AttachInsert(c)
    PROVE  [Slots!Next]_(Slots!vars)
<1> DEFINE s == target[c]
<1>1. /\ call[c] = "insert" /\ call'[c] \notin {"attach", "insert"}
      /\ \A b \in Calls \ {c} : call'[b] = call[b]
      /\ s \in Servers /\ sessions[s] \in Calls \cup {None}
      /\ sessions[s] # None => kind[c] = "guided"
      /\ sessions'[s] = c
      /\ \A v \in Servers \ {s} : sessions'[v] = sessions[v]
      /\ worker[c] # "none"
      /\ UNCHANGED <<target, kind, worker>>
  BY DEF AttachInsert, InsertOver, Goto, sessionVars, SerialInv, SlotEmpty, ReaderInv, TypeOK,
         TargetKnown, WorkersDialled
<1>2. CASE sessions[s] = None
  <2>1. \A v \in Servers, x \in Calls :
            /\ target'[x] = v
            /\ sessions'[v] = x \/ call'[x] \in {"attach", "insert"}
            <=> /\ target[x] = v
                /\ sessions[v] = x \/ call[x] \in {"attach", "insert"}
    BY <1>1, <1>2, NoneAssumption DEF SerialInv, Exclusive, CallInFlight
  <2>2. UNCHANGED Slots!vars
    BY <1>1, <2>1, SlotsStutter
  <2>3. QED
    BY <2>2
<1>3. CASE sessions[s] # None
  <2>1. sessions[s] \in InService(s) /\ sessions[s] # c /\ c \in InService(s)
    BY <1>1, <1>3 DEF InService, SerialInv, ReaderInv, RegisteredWasInserted, Inserted
  <2>2. InService(s)' = {c}
    BY <1>1, NoneAssumption DEF InService, SerialInv, Exclusive, CallInFlight
  <2>3. \A v \in Servers \ {s} : InService(v)' = InService(v)
    BY <1>1 DEF InService
  <2>4. [v \in Servers |-> InService(v)]' =
          [[v \in Servers |-> InService(v)] EXCEPT ![s] = {c}]
    BY <1>1, <2>2, <2>3
  <2>5. [v \in Servers |-> InService(v)][s] = InService(s)
    BY <1>1
  <2>6. {x \in Calls : worker[x] # "none"}' = {x \in Calls : worker[x] # "none"}
    BY <1>1
  <2>7. {x \in Calls : kind[x] = "guided" /\ worker[x] # "none"}'
          = {x \in Calls : kind[x] = "guided" /\ worker[x] # "none"}
    BY <1>1
  <2>8. c \in {x \in Calls : kind[x] = "guided" /\ worker[x] # "none"}
    BY <1>1, <1>3
  <2>9. Slots!Overtake(s, c)
    BY <2>1, <2>4, <2>5, <2>6, <2>7, <2>8 DEF Slots!Overtake
  <2>10. QED
    BY <1>1, <2>9 DEF Slots!Next
<1>4. QED
  BY <1>2, <1>3

LEMMA SlotsConnect ==
    ASSUME Serialised, SerialInv, NEW c \in Calls,
           \/ \E s \in Servers : ReuseDirect(c, s) \/ BeginDirect(c, s)
           \/ \E s \in Servers, k \in AllKinds :
                BeginUpsert(c, s, k) \/ RefuseBegin(c, s, k)
           \/ CallStep(c) \/ ShowProgress(c) \/ DialOk(c) \/ DialFail(c)
    PROVE  [Slots!Next]_(Slots!vars)
<1> DEFINE Goal == [Slots!Next]_(Slots!vars)
<1>0. /\ call \in [Calls -> CallPc] /\ target \in [Calls -> Servers \cup {None}]
      /\ sessions \in [Servers -> Calls \cup {None}]
      /\ call[c] # "idle" => target[c] \in Servers
  BY DEF SerialInv, ReaderInv, TypeOK, TargetKnown
<1>1. ASSUME NEW s \in Servers, NEW k \in AllKinds,
             NEW pc \in {"progress", "replace", "done"},
             Begin(c, s, k, pc), UNCHANGED <<sessions, sessionVars>>
      PROVE  Goal
  <2>1. /\ call[c] = "idle" /\ call'[c] \notin {"attach", "insert"}
        /\ \A b \in Calls \ {c} : call'[b] = call[b] /\ target'[b] = target[b] /\ kind'[b] = kind[b]
        /\ \A v \in Servers : sessions[v] # c
        /\ worker' = worker /\ worker[c] = "none"
    BY ZenonT(40), <1>0, <1>1 DEF Begin, Goto, sessionVars, SerialInv, ReaderInv, TypeOK,
                      RegisteredWasInserted, Inserted, WorkersDialled, Dialled
  <2>2. UNCHANGED Slots!vars
    BY <1>1, <2>1, SlotsStutter
  <2>3. QED
    BY <2>2
<1>2. ASSUME NEW s \in Servers, ReuseDirect(c, s) \/ BeginDirect(c, s)
      PROVE  Goal
  BY <1>1, <1>2 DEF ReuseDirect, BeginDirect, AllKinds
<1>3. ASSUME NEW s \in Servers, NEW k \in AllKinds,
             BeginUpsert(c, s, k) \/ RefuseBegin(c, s, k)
      PROVE  Goal
  BY <1>1, <1>3 DEF BeginUpsert, RefuseBegin
<1>4. ASSUME NEW pc \in CallPc, call' = [call EXCEPT ![c] = pc],
             pc \in {"attach", "insert"} <=> call[c] \in {"attach", "insert"},
             UNCHANGED <<sessions, target, kind, worker>>
      PROVE  Goal
  <2>1. UNCHANGED Slots!vars
    BY <1>0, <1>4, SlotsStutter
  <2>2. QED
    BY <2>1
<1>5. CASE BeginProgress(c)
  BY <1>4, <1>5 DEF BeginProgress, Goto, CallPc, sessionVars
<1>6. CASE ReplaceRemove(c)
  <2>1. \A b \in Calls : call[b] \in {"attach", "insert"} => target[b] # target[c]
    BY <1>6 DEF ReplaceRemove, SerialInv, Exclusive, CallInFlight
  <2>2. \A b \in Calls : call'[b] = call[b] \/ {call[b], call'[b]} \cap
                                                 {"attach", "insert"} = {}
    BY <1>0, <1>6 DEF ReplaceRemove, Goto
  <2>3. QED
    BY <1>0, <1>6, <2>1, <2>2, SlotsLeave DEF ReplaceRemove, sessionVars
<1>7. CASE ReplaceClose(c)
  BY <1>4, <1>7 DEF ReplaceClose, CloseSession, Goto, CallPc
<1>8. CASE Fail(c)
  BY <1>4, <1>8 DEF Fail, Goto, CallPc, sessionVars
<1>9. CASE EndProgress(c)
  BY <1>4, <1>9 DEF EndProgress, Goto, CallPc, sessionVars
<1>10. CASE AttachUpsert(c)
  BY <1>4, <1>10 DEF AttachUpsert, Goto, CallPc, sessionVars
<1>11. CASE AttachInsert(c)
  BY <1>11, SlotsInsert
<1>12. CASE DialOk(c)
  BY <1>12, SlotsEnter
<1>13. CASE DialFail(c)
  BY <1>4, <1>13 DEF DialFail, Goto, CallPc, sessionVars
<1>15. CASE ShowProgress(c)
  <2>1. UNCHANGED Slots!vars
    BY <1>15, SlotsStutter DEF ShowProgress, callVars, sessionVars
  <2>2. QED
    BY <2>1
<1>14. QED
  BY <1>2, <1>3, <1>5, <1>6, <1>7, <1>8, <1>9, <1>10, <1>11, <1>12, <1>13, <1>15
     DEF CallStep

LEMMA SlotsStep ==
    Serialised => (SerialInv /\ [Next]_vars => [Slots!Next]_(Slots!vars))
<1> SUFFICES ASSUME Serialised, SerialInv, [Next]_vars
             PROVE  [Slots!Next]_(Slots!vars)
  OBVIOUS
<1>1. ASSUME NEW c \in Calls,
             \/ \E s \in Servers : ReuseDirect(c, s) \/ BeginDirect(c, s)
             \/ \E s \in Servers, k \in AllKinds :
                  BeginUpsert(c, s, k) \/ RefuseBegin(c, s, k)
             \/ CallStep(c) \/ ShowProgress(c) \/ DialOk(c) \/ DialFail(c)
      PROVE  [Slots!Next]_(Slots!vars)
  BY <1>1, SlotsConnect
<1>2. ASSUME NEW d \in Drops, NEW s \in Servers, DropSession(d, s)
      PROVE  [Slots!Next]_(Slots!vars)
  <2>1. \A c \in Calls : call[c] \in {"attach", "insert"} => target[c] # s
    BY <1>2 DEF DropSession, Free, CallInFlight
  <2>2. QED
    BY <1>2, <2>1, SlotsLeave DEF DropSession, callVars, sessionVars
<1>3. ASSUME UNCHANGED <<sessions, call, target, kind>>,
             \A x \in Calls : worker'[x] # "none" <=> worker[x] # "none"
      PROVE  [Slots!Next]_(Slots!vars)
  BY <1>3, SlotsStutter
<1>4. ASSUME NEW d \in Drops, DropEntry(d) \/ DropClose(d)
      PROVE  [Slots!Next]_(Slots!vars)
  BY <1>3, <1>4 DEF DropEntry, DropClose, CloseSession, callVars, sessionVars
<1>5. ASSUME NEW a \in Asks,
             \/ \E s \in Servers : AskSession(a, s) \/ AskNoSession(a, s)
             \/ AskAnswered(a) \/ AskTransportError(a)
      PROVE  [Slots!Next]_(Slots!vars)
  BY <1>3, <1>5 DEF AskSession, AskNoSession, AskAnswered, AskTransportError, callVars,
                    sessionVars
<1>6. ASSUME NEW x \in Calls, WorkerMoves(x) \/ WorkerStops(x)
      PROVE  [Slots!Next]_(Slots!vars)
  BY <1>3, <1>6 DEF WorkerMoves, WorkerStops, callVars, SerialInv, ReaderInv, TypeOK
<1>7. ASSUME NEW x \in Calls, ReaderStep(x)
      PROVE  [Slots!Next]_(Slots!vars)
  BY <1>3, <1>7 DEF ReaderStep, ReaderStart, ReaderAnnounce, ReaderCheck, ReaderBorrow,
                    ReaderReport, ReaderWake, ReaderTest, ReaderEmit, ReaderStays,
                    callVars
<1>8. ASSUME ApplyEvent \/ ListenerReturns \/ OtherEvent \/ UNCHANGED vars
      PROVE  [Slots!Next]_(Slots!vars)
  BY <1>3, <1>8 DEF ApplyEvent, ListenerReturns, OtherEvent, vars, callVars, sessionVars
<1>9. QED
  BY <1>1, <1>2, <1>4, <1>5, <1>6, <1>7, <1>8 DEF Next

LEMMA SlotsInit == Init => Slots!Init
<1> SUFFICES ASSUME Init PROVE Slots!Init
  OBVIOUS
<1>1. \A s \in Servers : InService(s) = {}
  BY NoneAssumption DEF Init, InService
<1>2. {x \in Calls : worker[x] # "none"} = {}
  BY DEF Init
<1>3. QED
  BY <1>1, <1>2 DEF Slots!Init

(* The session map implements ServerSlots: at most one session serves a    *)
(* server id, and a connect dials the next one only after it has taken the *)
(* last one out, except that a guided SSH connect dials beside it and then *)
(* overtakes it (connect_*, the guided connect and disconnect_server, not  *)
(* overlapping).                                                           *)
THEOREM ImplementsSlots == Serialised => (Spec => SlotSpec)
<1>1. SUFFICES ASSUME Serialised PROVE Spec => SlotSpec
  OBVIOUS
<1>2. SerialInv /\ [Next]_vars => [Slots!Next]_(Slots!vars)
  BY <1>1, SlotsStep
<1>3. Spec => []SerialInv
  BY <1>1, SerialInvariance
<1>4. QED
  BY <1>2, <1>3, SlotsInit, PTL DEF Spec, SlotSpec, Slots!Spec
================================================================================
