---------------------------- MODULE SessionRegistry ----------------------------
(***************************************************************************)
(* MobileClient's session map and the server entries of the app store:     *)
(* the connect_* calls, disconnect_server / restart_app_server, the health *)
(* reader each session gets, the store listener that applies the readers'  *)
(* events, and the typed requests that mark a server disconnected.         *)
(*                                                                         *)
(* Every handler is cut at each await and at each release of a lock, since *)
(* the calls run on a multi-threaded runtime: a step is what happens while *)
(* one lock is held.  A session is named after the connect call that dials *)
(* it, for a call creates at most one.                                     *)
(***************************************************************************)
EXTENDS Naturals, Sequences

CONSTANTS
    Servers,     \* server ids
    Calls,       \* connect_* calls, each run at most once
    Drops,       \* disconnect_server / restart_app_server calls
    Asks,        \* typed requests (request_typed_for_server_runtime)
    Kinds,       \* the connect_* entry points in use, a subset of AllKinds
    None,        \* no session, no store entry, no server
    Serialised,  \* TRUE: calls on one server never overlap (see Free)
    QueueCap,    \* capacity of the UI event broadcast channel (256 in the code)
    LinkMoves,   \* bound: how often a session's health may move by itself
    Noise        \* TRUE: other UI events also enter the broadcast channel

AllKinds == {"direct", "alleycat", "bridges", "ssh", "guided"}

Health == {"Connecting", "Connected", "Disconnected"}
Entry == [health : Health, progress : BOOLEAN]

ASSUME KindsAssumption == Kinds \subseteq AllKinds
ASSUME NoneAssumption == None \notin Servers \cup Calls \cup Entry
ASSUME SerialisedAssumption == Serialised \in BOOLEAN
ASSUME NoiseAssumption == Noise \in BOOLEAN
ASSUME QueueCapAssumption == QueueCap \in Nat \ {0}
ASSUME LinkMovesAssumption == LinkMoves \in Nat

VARIABLES
    sessions,  \* MobileClient.sessions: server id -> session, or None
    store,     \* AppStoreReducer's servers: server id -> entry, or None
    call,      \* connect call -> its program counter
    target,    \* connect call (and its session) -> server id
    kind,      \* connect call -> entry point
    old,       \* connect call -> the session it replaces and must close
    drop,      \* disconnect call -> [pc, server, old]
    ask,       \* typed request -> [pc, server, session]
    health,    \* session -> value of its health watch channel
    unseen,    \* session -> the reader has not observed the last send
    worker,    \* session -> its runtime worker: none, running or stopped
    shutdown,  \* session -> disconnect() has been called on it
    moves,     \* session -> how often its worker has moved its health
    reader,    \* session -> program counter of its health reader
    held,      \* session -> the health its reader has borrowed
    events,    \* the UI event broadcast channel, oldest first
    writer,    \* auxiliary: who wrote the entry's health last
    late,      \* auxiliary: events a reader sent for a replaced session
    displaced, \* auxiliary: sessions a guided connect was inserted over
    listener,  \* session whose turn/start the store listener awaits, or None
    lagged     \* auxiliary: the channel has dropped an event

callVars == <<call, target, kind, old>>
sessionVars == <<health, unseen, worker, shutdown, moves>>
readerVars == <<reader, held, late, displaced>>
storeVars == <<store, writer>>
queueVars == <<events, lagged, listener>>
vars == <<sessions, storeVars, callVars, drop, ask, sessionVars, readerVars,
          queueVars>>

CallPc == {"idle", "progress", "replace", "close", "dial", "attach", "insert",
           "finish", "fail", "failProgress", "done"}
DropPc == {"idle", "entry", "close", "done"}
AskPc == {"idle", "sent", "done"}
ReaderPc == {"none", "start", "announce", "check", "read", "emit", "wait",
             "exited"}
(* A health event names the session whose reader sent it (auxiliary); any  *)
(* other UI event has no server.                                           *)
Event == [server : Servers \cup {None}, health : Health,
          from : Calls \cup {None}]

TypeOK ==
    /\ sessions \in [Servers -> Calls \cup {None}]
    /\ store \in [Servers -> Entry \cup {None}]
    /\ call \in [Calls -> CallPc]
    /\ target \in [Calls -> Servers \cup {None}]
    /\ kind \in [Calls -> AllKinds]
    /\ old \in [Calls -> Calls \cup {None}]
    /\ drop \in [Drops -> [pc : DropPc, server : Servers \cup {None},
                           old : Calls \cup {None}]]
    /\ ask \in [Asks -> [pc : AskPc, server : Servers \cup {None},
                         session : Calls \cup {None}]]
    /\ health \in [Calls -> Health]
    /\ unseen \in [Calls -> BOOLEAN]
    /\ worker \in [Calls -> {"none", "running", "stopped"}]
    /\ shutdown \in [Calls -> BOOLEAN]
    /\ moves \in [Calls -> Nat]
    /\ reader \in [Calls -> ReaderPc]
    /\ held \in [Calls -> Health]
    /\ events \in Seq(Event)
    /\ writer \in [Servers -> Calls \cup {None}]
    /\ late \in [Calls -> Nat]
    /\ displaced \subseteq Calls
    /\ listener \in Calls \cup {None}
    /\ lagged \in BOOLEAN

Init ==
    /\ sessions = [s \in Servers |-> None]
    /\ store = [s \in Servers |-> None]
    /\ call = [c \in Calls |-> "idle"]
    /\ target = [c \in Calls |-> None]
    /\ kind = [c \in Calls |-> "direct"]
    /\ old = [c \in Calls |-> None]
    /\ drop = [d \in Drops |-> [pc |-> "idle", server |-> None, old |-> None]]
    /\ ask = [a \in Asks |-> [pc |-> "idle", server |-> None, session |-> None]]
    /\ health = [c \in Calls |-> "Connecting"]
    /\ unseen = [c \in Calls |-> FALSE]
    /\ worker = [c \in Calls |-> "none"]
    /\ shutdown = [c \in Calls |-> FALSE]
    /\ moves = [c \in Calls |-> 0]
    /\ reader = [c \in Calls |-> "none"]
    /\ held = [c \in Calls |-> "Connecting"]
    /\ events = <<>>
    /\ writer = [s \in Servers |-> None]
    /\ late = [c \in Calls |-> 0]
    /\ displaced = {}
    /\ listener = None
    /\ lagged = FALSE

--------------------------------------------------------------------------------
(***************************************************************************)
(* Writes to the store.  writer remembers the session on whose behalf the  *)
(* health was written, None when it was not the work of a health reader.   *)
(***************************************************************************)

(* upsert_server: health is overwritten, the progress of an entry kept.    *)
UpsertServer(s, h) ==
    /\ store' = [store EXCEPT ![s] =
                    [health |-> h,
                     progress |-> store[s] # None /\ store[s].progress]]
    /\ writer' = [writer EXCEPT ![s] = None]

RemoveServer(s) ==
    /\ store' = [store EXCEPT ![s] = None]
    /\ writer' = [writer EXCEPT ![s] = None]

(* update_server_health: ignored for an unknown server.                    *)
UpdateServerHealth(s, h) ==
    /\ store' = IF store[s] = None THEN store
                ELSE [store EXCEPT ![s].health = h]
    /\ writer' = [writer EXCEPT ![s] = None]

UpdateConnectionProgress(s, p) ==
    /\ store' = IF store[s] = None THEN store
                ELSE [store EXCEPT ![s].progress = p]
    /\ UNCHANGED writer

(* mark_server_transport_disconnected, as far as the entry's health goes.  *)
MarkTransportDisconnected(s) == UpdateServerHealth(s, "Disconnected")

(* Mutant: a disconnect leaves the entry as it is.                         *)
AppliedHealthIgnores(entry, h) ==
    IF h = "Disconnected" THEN entry.health ELSE h

(* The health that a ConnectionStateChanged event leaves in an entry: a    *)
(* disconnect is shown as connecting while an SSH bootstrap reports        *)
(* progress.                                                               *)
AppliedHealth(entry, h) ==
    IF entry.progress /\ h = "Disconnected" THEN "Connecting" ELSE h

(* EventProcessor::emit into a tokio broadcast channel: a full channel     *)
(* drops its oldest event, and the listener skips what it lost.            *)
Broadcast(e) ==
    LET q == Append(events, e)
    IN  /\ events' = IF Len(q) > QueueCap THEN Tail(q) ELSE q
        /\ lagged' = (lagged \/ Len(q) > QueueCap)
        /\ UNCHANGED listener

Current(x) == target[x] # None /\ sessions[target[x]] = x

CloseSession(x) ==
    /\ health' = [health EXCEPT ![x] = "Disconnected"]
    /\ unseen' = [unseen EXCEPT ![x] = TRUE]
    /\ shutdown' = [shutdown EXCEPT ![x] = TRUE]
    /\ UNCHANGED <<worker, moves>>

--------------------------------------------------------------------------------
(***************************************************************************)
(* The connect_* calls.                                                    *)
(***************************************************************************)

CallInFlight(c) == call[c] \notin {"idle", "done"}
DropInFlight(d) == drop[d].pc = "entry"

(* When calls are serialised by their callers, one begins only after the   *)
(* other calls on that server have returned.  disconnect_server returns    *)
(* before its detached disconnect task has run.                            *)
Free(s) ==
    Serialised => /\ \A c \in Calls : CallInFlight(c) => target[c] # s
                  /\ \A d \in Drops : DropInFlight(d) => drop[d].server # s

Goto(c, pc) == call' = [call EXCEPT ![c] = pc]

ExistingActiveSession(s) ==
    sessions[s] # None /\ health[sessions[s]] # "Disconnected"

Begin(c, s, k, pc) ==
    /\ call[c] = "idle"
    /\ Free(s)
    /\ Goto(c, pc)
    /\ target' = [target EXCEPT ![c] = s]
    /\ kind' = [kind EXCEPT ![c] = k]
    /\ UNCHANGED old

(* connect_remote and connect_local reuse a session that is not            *)
(* disconnected.                                                           *)
ReuseDirect(c, s) ==
    /\ "direct" \in Kinds
    /\ ExistingActiveSession(s)
    /\ Begin(c, s, "direct", "done")
    /\ UNCHANGED <<sessions, storeVars, drop, ask, sessionVars, readerVars,
                   queueVars>>

BeginDirect(c, s) ==
    /\ "direct" \in Kinds
    /\ ~ExistingActiveSession(s)
    /\ Begin(c, s, "direct", "replace")
    /\ UNCHANGED <<sessions, storeVars, drop, ask, sessionVars, readerVars,
                   queueVars>>

(* Mutant: the session there is stays until the new one is inserted.       *)
BeginUpsertNoReplace(c, s, k) ==
    /\ k \in Kinds \ {"direct"}
    /\ Begin(c, s, k, "dial")
    /\ UpsertServer(s, "Connecting")
    /\ UNCHANGED <<sessions, drop, ask, sessionVars, readerVars, queueVars>>

(* The SSH and Alleycat paths show the server as connecting and replace    *)
(* whatever session there is.  The guided SSH connect replaces nothing,    *)
(* and changes nothing while another one runs on the server.               *)
BeginUpsert(c, s, k) ==
    /\ k \in Kinds \ {"direct"}
    /\ k = "guided" =>
         \A b \in Calls : CallInFlight(b) /\ kind[b] = k => target[b] # s
    /\ Begin(c, s, k, IF k \in {"ssh", "guided"} THEN "progress" ELSE "replace")
    /\ UpsertServer(s, "Connecting")
    /\ UNCHANGED <<sessions, drop, ask, sessionVars, readerVars, queueVars>>

(* connect_remote_over_alleycat fails before its upsert: the agent list    *)
(* cannot be read, or no selected agent is available (which alone writes   *)
(* the health).  connect_remote_over_ssh_bridges refuses an empty list of  *)
(* runtimes.                                                               *)
RefuseBegin(c, s, k) ==
    /\ k \in Kinds \cap {"alleycat", "bridges"}
    /\ Begin(c, s, k, "done")
    /\ \/ UNCHANGED storeVars
       \/ k = "alleycat" /\ UpdateServerHealth(s, "Disconnected")
    /\ UNCHANGED <<sessions, drop, ask, sessionVars, readerVars, queueVars>>

BeginProgress(c) ==
    /\ call[c] = "progress"
    /\ UpdateConnectionProgress(target[c], TRUE)
    /\ Goto(c, IF kind[c] = "guided" THEN "dial" ELSE "replace")
    /\ UNCHANGED <<sessions, target, kind, old, drop, ask, sessionVars,
                   readerVars, queueVars>>

(* The steps run_guided_ssh_connect reports while it dials.                *)
ShowProgress(c) ==
    /\ call[c] = "dial" /\ kind[c] = "guided"
    /\ UpdateConnectionProgress(target[c], TRUE)
    /\ UNCHANGED <<sessions, callVars, drop, ask, sessionVars, readerVars,
                   queueVars>>

(* Mutant: the session is taken out of the map and dropped.                *)
ReplaceRemoveForgets(c) ==
    /\ call[c] = "replace"
    /\ sessions' = [sessions EXCEPT ![target[c]] = None]
    /\ Goto(c, "dial")
    /\ UNCHANGED <<storeVars, target, kind, old, drop, ask, sessionVars, readerVars,
                   queueVars>>

(* replace_existing_session: out of the map first ...                      *)
ReplaceRemove(c) ==
    /\ call[c] = "replace"
    /\ sessions' = [sessions EXCEPT ![target[c]] = None]
    /\ old' = [old EXCEPT ![c] = sessions[target[c]]]
    /\ Goto(c, IF sessions[target[c]] = None THEN "dial" ELSE "close")
    /\ UNCHANGED <<storeVars, target, kind, drop, ask, sessionVars, readerVars,
                   queueVars>>

(* ... then closed, before anything is dialled.                            *)
ReplaceClose(c) ==
    /\ call[c] = "close"
    /\ CloseSession(old[c])
    /\ old' = [old EXCEPT ![c] = None]
    /\ Goto(c, "dial")
    /\ UNCHANGED <<sessions, storeVars, target, kind, drop, ask, readerVars,
                   queueVars>>

(* The transport is up: connect_remote_multiplexed / connect_local have    *)
(* spawned the workers and sent Connected on the health watch.             *)
DialOk(c) ==
    /\ call[c] = "dial"
    /\ Goto(c, "attach")
    /\ health' = [health EXCEPT ![c] = "Connected"]
    /\ unseen' = [unseen EXCEPT ![c] = TRUE]
    /\ worker' = [worker EXCEPT ![c] = "running"]
    /\ UNCHANGED <<sessions, storeVars, target, kind, old, drop, ask, shutdown,
                   moves, readerVars, queueVars>>

(* Where a failed dial goes: connect_remote, connect_local, a failing      *)
(* SshClient::connect and a failing connect_runtime_resources_via_ssh      *)
(* return by `?` and write nothing; the other failures write Disconnected. *)
DialFail(c) ==
    /\ call[c] = "dial"
    /\ \/ kind[c] \in {"direct", "bridges", "ssh"} /\ Goto(c, "done")
       \/ kind[c] # "direct" /\ Goto(c, "fail")
    /\ UNCHANGED <<sessions, storeVars, target, kind, old, drop, ask,
                   sessionVars, readerVars, queueVars>>

Fail(c) ==
    /\ call[c] = "fail"
    /\ UpdateServerHealth(target[c], "Disconnected")
    /\ Goto(c, IF kind[c] \in {"ssh", "guided"} THEN "failProgress" ELSE "done")
    /\ UNCHANGED <<sessions, target, kind, old, drop, ask, sessionVars,
                   readerVars, queueVars>>

(* The end of connect_remote_over_ssh, after success and after failure,    *)
(* and of the guided connect, which leaves the progress of a failure.      *)
EndProgress(c) ==
    /\ call[c] \in {"failProgress", "finish"}
    /\ UpdateConnectionProgress(target[c],
           call[c] = "failProgress" /\ kind[c] = "guided")
    /\ Goto(c, "done")
    /\ UNCHANGED <<sessions, target, kind, old, drop, ask, sessionVars,
                   readerVars, queueVars>>

(* Mutant: the health of the entry is updated, no entry is created.        *)
AttachUpdate(c) ==
    /\ call[c] = "attach"
    /\ UpdateServerHealth(target[c], "Connected")
    /\ Goto(c, "insert")
    /\ UNCHANGED <<sessions, target, kind, old, drop, ask, sessionVars,
                   readerVars, queueVars>>

AttachUpsert(c) ==
    /\ call[c] = "attach"
    /\ UpsertServer(target[c], "Connected")
    /\ Goto(c, "insert")
    /\ UNCHANGED <<sessions, target, kind, old, drop, ask, sessionVars,
                   readerVars, queueVars>>

(* The session an insert drops from the map: only a guided connect has not *)
(* taken it out, to tell it to shut down, before.                          *)
InsertOver(c) ==
    /\ sessions' = [sessions EXCEPT ![target[c]] = c]
    /\ displaced' = IF kind[c] = "guided"
                    THEN displaced \cup ({sessions[target[c]]} \ {None})
                    ELSE displaced
    /\ Goto(c, IF kind[c] \in {"ssh", "guided"} THEN "finish" ELSE "done")
    /\ UNCHANGED <<storeVars, target, kind, old, drop, ask, sessionVars, held,
                   late, queueVars>>

(* Mutant: no reader is spawned while another one of the server runs.      *)
AttachInsertOneReader(c) ==
    /\ call[c] = "insert"
    /\ reader' = [reader EXCEPT ![c] =
                      IF \E x \in Calls : target[x] = target[c] /\ reader[x] \notin {"none", "exited"}
                      THEN @ ELSE "start"]
    /\ InsertOver(c)

(* sessions.insert, which drops whatever session was there, and then       *)
(* spawn_event_reader, spawn_health_reader and spawn_post_connect_warmup.  *)
AttachInsert(c) ==
    /\ call[c] = "insert"
    /\ reader' = [reader EXCEPT ![c] = "start"]
    /\ InsertOver(c)

--------------------------------------------------------------------------------
(***************************************************************************)
(* disconnect_server and restart_app_server.                               *)
(***************************************************************************)

DropSession(d, s) ==
    /\ drop[d].pc = "idle"
    /\ Free(s)
    /\ sessions' = [sessions EXCEPT ![s] = None]
    /\ drop' = [drop EXCEPT ![d] =
                    [pc |-> "entry", server |-> s, old |-> sessions[s]]]
    /\ UNCHANGED <<storeVars, callVars, ask, sessionVars, readerVars, queueVars>>

(* Mutant: the session is dropped without its detached disconnect.         *)
DropEntryForgets(d) ==
    /\ drop[d].pc = "entry"
    /\ RemoveServer(drop[d].server)
    /\ drop' = [drop EXCEPT ![d].pc = "done"]
    /\ UNCHANGED <<sessions, callVars, ask, sessionVars, readerVars, queueVars>>

DropEntry(d) ==
    /\ drop[d].pc = "entry"
    /\ RemoveServer(drop[d].server)
    /\ drop' = [drop EXCEPT ![d].pc =
                    IF drop[d].old = None THEN "done" ELSE "close"]
    /\ UNCHANGED <<sessions, callVars, ask, sessionVars, readerVars, queueVars>>

(* The detached task of disconnect_server, or the rest of                  *)
(* restart_app_server.                                                     *)
DropClose(d) ==
    /\ drop[d].pc = "close"
    /\ CloseSession(drop[d].old)
    /\ drop' = [drop EXCEPT ![d].pc = "done", ![d].old = None]
    /\ UNCHANGED <<sessions, storeVars, callVars, ask, readerVars, queueVars>>

--------------------------------------------------------------------------------
(***************************************************************************)
(* Typed requests: get_session and reconcile_transport_error.              *)
(***************************************************************************)

AskSession(a, s) ==
    /\ ask[a].pc = "idle"
    /\ sessions[s] # None
    /\ ask' = [ask EXCEPT ![a] =
                   [pc |-> "sent", server |-> s, session |-> sessions[s]]]
    /\ UNCHANGED <<sessions, storeVars, callVars, drop, sessionVars, readerVars,
                   queueVars>>

(* get_session finds no session and marks the server disconnected.         *)
AskNoSession(a, s) ==
    /\ ask[a].pc = "idle"
    /\ sessions[s] = None
    /\ MarkTransportDisconnected(s)
    /\ ask' = [ask EXCEPT ![a] =
                   [pc |-> "done", server |-> s, session |-> None]]
    /\ UNCHANGED <<sessions, callVars, drop, sessionVars, readerVars, queueVars>>

AskAnswered(a) ==
    /\ ask[a].pc = "sent"
    /\ ask' = [ask EXCEPT ![a].pc = "done", ![a].session = None]
    /\ UNCHANGED <<sessions, storeVars, callVars, drop, sessionVars, readerVars,
                   queueVars>>

(* A transport error reaches the caller only after the session was shut    *)
(* down or its worker has tried to reconnect.  Nothing compares the        *)
(* session with the one now registered.                                    *)
AskTransportError(a) ==
    /\ ask[a].pc = "sent"
    /\ shutdown[ask[a].session] \/ moves[ask[a].session] > 0
    /\ MarkTransportDisconnected(ask[a].server)
    /\ ask' = [ask EXCEPT ![a].pc = "done", ![a].session = None]
    /\ UNCHANGED <<sessions, callVars, drop, sessionVars, readerVars, queueVars>>

--------------------------------------------------------------------------------
(***************************************************************************)
(* A session's worker, as far as its health watch shows (RemoteWorker has  *)
(* the whole of it).  It may still be reconnecting when disconnect() has   *)
(* already sent Disconnected, and then overwrites it.                      *)
(***************************************************************************)

HealthStep(x, h) ==
    \/ health[x] = "Connected" /\ h = "Connecting"
    \/ health[x] = "Connecting" /\ h \in Health
    \/ health[x] = "Disconnected" /\ h = "Connecting"
    \/ health[x] = "Disconnected" /\ shutdown[x] /\ h = "Connected"

WorkerMoves(x) ==
    /\ worker[x] = "running"
    /\ moves[x] < LinkMoves
    /\ \E h \in Health :
         /\ HealthStep(x, h)
         /\ health' = [health EXCEPT ![x] = h]
    /\ unseen' = [unseen EXCEPT ![x] = TRUE]
    /\ moves' = [moves EXCEPT ![x] = @ + 1]
    /\ UNCHANGED <<sessions, storeVars, callVars, drop, ask, worker, shutdown,
                   readerVars, queueVars>>

(* The command channel closes when the last Arc of the session is dropped: *)
(* out of the map, and no call, task or request holds it any more.  Its    *)
(* event reader, which compares sessions only when an event arrives, and   *)
(* its warm-up hold it too, for any time: that puts off WorkerStops, which *)
(* is under no fairness, and needs no state.                               *)
Unreferenced(x) ==
    /\ ~Current(x)
    /\ reader[x] = "exited"
    /\ listener # x
    /\ \A a \in Asks : ~(ask[a].pc = "sent" /\ ask[a].session = x)
    /\ \A c \in Calls : ~(call[c] = "close" /\ old[c] = x)
    /\ \A d \in Drops : ~(drop[d].pc \in {"entry", "close"} /\ drop[d].old = x)

(* The worker takes Shutdown from its queue, has exhausted its reconnect   *)
(* attempts, or finds its command channel closed.                          *)
WorkerStops(x) ==
    /\ worker[x] = "running"
    /\ \/ shutdown[x]
       \/ health[x] = "Disconnected" /\ moves[x] > 0
       \/ Unreferenced(x)
    /\ worker' = [worker EXCEPT ![x] = "stopped"]
    /\ UNCHANGED <<sessions, storeVars, callVars, drop, ask, health, unseen,
                   shutdown, moves, readerVars, queueVars>>

--------------------------------------------------------------------------------
(***************************************************************************)
(* spawn_health_reader: the task started for the session x.                *)
(***************************************************************************)

ReaderStays == UNCHANGED <<sessions, storeVars, callVars, drop, ask, health,
                           worker, shutdown, moves, displaced>>

ReaderTest(x, from, to) ==
    /\ reader[x] = from
    /\ reader' = [reader EXCEPT ![x] = IF Current(x) THEN to ELSE "exited"]
    /\ ReaderStays
    /\ UNCHANGED <<unseen, held, late, queueVars>>

ReaderEmit(x, from, h, to) ==
    /\ reader[x] = from
    /\ Broadcast([server |-> target[x], health |-> h, from |-> x])
    /\ late' = [late EXCEPT ![x] = IF Current(x) THEN @ ELSE @ + 1]
    /\ reader' = [reader EXCEPT ![x] = to]
    /\ held' = [held EXCEPT ![x] = "Connecting"]
    /\ ReaderStays
    /\ UNCHANGED unseen

ReaderStart(x) == ReaderTest(x, "start", "announce")
ReaderAnnounce(x) == ReaderEmit(x, "announce", "Connecting", "check")
ReaderCheck(x) == ReaderTest(x, "check", "read")

ReaderBorrow(x) ==
    /\ reader[x] = "read"
    /\ held' = [held EXCEPT ![x] = health[x]]
    /\ reader' = [reader EXCEPT ![x] = "emit"]
    /\ ReaderStays
    /\ UNCHANGED <<unseen, late, queueVars>>

(* Mutant: the watch is marked as seen after the emission, not before the  *)
(* borrow.                                                                 *)
ReaderReportMarks(x) ==
    /\ reader[x] = "emit"
    /\ Broadcast([server |-> target[x], health |-> held[x], from |-> x])
    /\ late' = [late EXCEPT ![x] = IF Current(x) THEN @ ELSE @ + 1]
    /\ reader' = [reader EXCEPT ![x] = "wait"]
    /\ held' = [held EXCEPT ![x] = "Connecting"]
    /\ unseen' = [unseen EXCEPT ![x] = FALSE]
    /\ ReaderStays

ReaderReport(x) == ReaderEmit(x, "emit", held[x], "wait")

(* Mutant: the session is not compared again before the next emission.     *)
ReaderWakeUnchecked(x) ==
    /\ reader[x] = "wait"
    /\ unseen[x]
    /\ unseen' = [unseen EXCEPT ![x] = FALSE]
    /\ reader' = [reader EXCEPT ![x] = "read"]
    /\ ReaderStays
    /\ UNCHANGED <<held, late, queueVars>>

(* health_rx.changed() returns: a send has not been observed yet.          *)
ReaderWake(x) ==
    /\ reader[x] = "wait"
    /\ unseen[x]
    /\ unseen' = [unseen EXCEPT ![x] = FALSE]
    /\ reader' = [reader EXCEPT ![x] = "check"]
    /\ ReaderStays
    /\ UNCHANGED <<held, late, queueVars>>

ReaderStep(x) ==
    \/ ReaderStart(x) \/ ReaderAnnounce(x) \/ ReaderCheck(x)
    \/ ReaderBorrow(x) \/ ReaderReport(x) \/ ReaderWake(x)

--------------------------------------------------------------------------------
(* The store listener applies the next event of the channel.  After the    *)
(* end of a turn it may send the next queued follow-up on the registered   *)
(* session of a server, and waits for the answer before it goes on.        *)
ApplyEvent ==
    /\ events # <<>>
    /\ listener = None
    /\ events' = Tail(events)
    /\ LET e == Head(events)
       IN  IF e.server = None \/ store[e.server] = None
           THEN UNCHANGED storeVars
           ELSE /\ store' = [store EXCEPT ![e.server].health =
                                AppliedHealth(store[e.server], e.health)]
                /\ writer' = [writer EXCEPT ![e.server] = e.from]
    /\ \/ UNCHANGED listener
       \/ /\ Head(events).server = None
          /\ \E s \in Servers : sessions[s] # None /\ listener' = sessions[s]
    /\ UNCHANGED <<sessions, callVars, drop, ask, sessionVars, readerVars,
                   lagged>>

(* The answer, or the error, which no time-out forces.                     *)
ListenerReturns ==
    /\ listener # None
    /\ listener' = None
    /\ UNCHANGED <<sessions, storeVars, callVars, drop, ask, sessionVars,
                   readerVars, events, lagged>>

(* Another UI event: a delta, a turn, an item.                             *)
OtherEvent ==
    /\ Noise
    /\ Broadcast([server |-> None, health |-> "Connecting", from |-> None])
    /\ UNCHANGED <<sessions, storeVars, callVars, drop, ask, sessionVars,
                   readerVars>>

--------------------------------------------------------------------------------
CallStep(c) ==
    \/ BeginProgress(c) \/ ReplaceRemove(c) \/ ReplaceClose(c)
    \/ Fail(c) \/ EndProgress(c) \/ AttachUpsert(c) \/ AttachInsert(c)

Next ==
    \/ \E c \in Calls, s \in Servers : ReuseDirect(c, s) \/ BeginDirect(c, s)
    \/ \E c \in Calls, s \in Servers, k \in AllKinds :
         BeginUpsert(c, s, k) \/ RefuseBegin(c, s, k)
    \/ \E c \in Calls : CallStep(c) \/ ShowProgress(c) \/ DialOk(c) \/ DialFail(c)
    \/ \E d \in Drops, s \in Servers : DropSession(d, s)
    \/ \E d \in Drops : DropEntry(d) \/ DropClose(d)
    \/ \E a \in Asks, s \in Servers : AskSession(a, s) \/ AskNoSession(a, s)
    \/ \E a \in Asks : AskAnswered(a) \/ AskTransportError(a)
    \/ \E x \in Calls : WorkerMoves(x) \/ WorkerStops(x) \/ ReaderStep(x)
    \/ ApplyEvent \/ ListenerReturns
    \/ OtherEvent

Spec == Init /\ [][Next]_vars

(* The runtime runs every spawned task that can run: the readers, the      *)
(* listener, the calls between two awaits on the network, the detached     *)
(* closes.  A dial need not return, nor the answer the listener waits for, *)
(* and nobody need start anything.                                         *)
Fairness ==
    /\ \A x \in Calls : WF_vars(ReaderStep(x))
    /\ \A c \in Calls : WF_vars(CallStep(c))
    /\ \A d \in Drops : WF_vars(DropEntry(d) \/ DropClose(d))
    /\ WF_vars(ApplyEvent)

FairSpec == Spec /\ Fairness

--------------------------------------------------------------------------------
(***************************************************************************)
(* Properties of every interleaving.                                       *)
(***************************************************************************)

(* The registered session of a server always has a live health reader: a   *)
(* reader that starts before its session is in the map, or that takes a    *)
(* replaced session for the current one, would leave the server's health   *)
(* frozen in the store (spawn_health_reader's session_is_current tests).   *)
CurrentSessionHasReader ==
    \A x \in Calls : Current(x) => reader[x] \notin {"none", "exited"}

(* A reader whose session has been replaced or removed sends at most one   *)
(* more event, the one it had decided on, and then leaves: the test is     *)
(* repeated before every emission of its loop.                             *)
StaleReaderEmitsOnce == \A x \in Calls : late[x] <= 1

(* Once the reader of the registered session sleeps, its events have been  *)
(* applied and none was lost, an entry its reader wrote last shows the     *)
(* session's own health (or Connecting while an SSH bootstrap hides a      *)
(* disconnect): no change of the watch falls between a borrow and the      *)
(* next wait.                                                              *)
SettledHealth ==
    \A s \in Servers :
        LET x == sessions[s]
        IN  (/\ x # None
             /\ reader[x] = "wait" /\ ~unseen[x]
             /\ events = <<>> /\ ~lagged
             /\ store[s] # None /\ writer[s] = x)
            => \/ store[s].health = health[x]
               \/ health[x] = "Disconnected" /\ store[s].health = "Connecting"

(* The loss of a registered session's transport is shown: the store stops  *)
(* saying Connected at least once, unless the session recovers, is         *)
(* replaced, or its event falls to a lag of the broadcast channel.  This   *)
(* needs the answers the one listener waits for, on whatever server: while *)
(* one is missing, nothing is shown of any server.                         *)
LossIsShown ==
    []<>(listener = None) =>
        \A x \in Calls :
            (Current(x) /\ health[x] = "Disconnected")
            ~> \/ ~Current(x) \/ health[x] # "Disconnected" \/ lagged
               \/ store[target[x]] = None \/ store[target[x]].health # "Connected"

--------------------------------------------------------------------------------
(***************************************************************************)
(* Properties of calls that do not overlap on one server (Serialised).     *)
(***************************************************************************)

Open(x) == worker[x] = "running" /\ ~shutdown[x]
InService(s) ==
    {x \in Calls : /\ target[x] = s
                   /\ sessions[s] = x \/ call[x] \in {"attach", "insert"}}
BeingClosed(x) ==
    \/ \E c \in Calls : call[c] = "close" /\ old[c] = x
    \/ \E d \in Drops : drop[d].pc \in {"entry", "close"} /\ drop[d].old = x

(* Only a guided SSH connect leaks a session: any other whose workers run  *)
(* and that nobody has told to shut down is the one its server uses, or a  *)
(* call holds it to close it.                                              *)
NoLeakedSession ==
    \A x \in Calls :
        Open(x) => x \in InService(target[x]) \/ BeingClosed(x) \/ x \in displaced

(* A registered session is visible: its server has an entry in the store,  *)
(* so the user can see and disconnect it (attach upserts before it         *)
(* inserts, disconnect_server removes the session before the entry).       *)
RegisteredHasEntry == \A s \in Servers : sessions[s] # None => store[s] # None

(* A session taken out of service is eventually told to shut down.         *)
RetiredIsClosed ==
    \A x \in Calls : BeingClosed(x) ~> shutdown[x]

(* The slots of the abstract specification, read off the state here.       *)
Slots == INSTANCE ServerSlots WITH
            Sessions <- Calls,
            inService <- [s \in Servers |-> InService(s)],
            spent <- {x \in Calls : worker[x] # "none"},
            guided <- {x \in Calls : kind[x] = "guided" /\ worker[x] # "none"}

(* At most one session serves a server id, and the next one is dialled     *)
(* only after the last has been taken out, unless a guided SSH connect     *)
(* dials it: that one joins the last and then overtakes it.                *)
SlotSpec == Slots!Spec

================================================================================
