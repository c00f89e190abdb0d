---------------------------- MODULE ReconnectingIpc ----------------------------
(***************************************************************************)
(* The IPC bus client of codex-ipc: ReconnectingIpcClient with its         *)
(* reconnect loop, the read and write tasks of each IpcConnection, the     *)
(* pending requests, and the callers of send_request, invalidate and       *)
(* shutdown.                                                               *)
(*                                                                         *)
(* An IpcClient is a reference-counted handle: dropping the last one stops *)
(* neither task, since a dropped JoinHandle detaches and the read task has *)
(* senders of its own.                                                     *)
(***************************************************************************)
EXTENDS Naturals, FiniteSets

CONSTANTS
    Clients,       \* the connections the connector may produce
    Requests,      \* calls of send_request
    None,          \* no client
    MaxAttempts,   \* ReconnectPolicy.max_attempts, 0 for None (as on mobile)
    Invalidations  \* bound: how often invalidate() is called

ASSUME NoneAssumption == None \notin Clients
ASSUME AttemptsAssumption == MaxAttempts \in Nat
ASSUME InvalidationsAssumption == Invalidations \in Nat

VARIABLES
    slot,        \* the shared client
    connected,   \* the connection-state watch
    loop,        \* program counter of the reconnect task
    held,        \* the client the reconnect task serves
    fresh,       \* the client it has just connected
    attempt,     \* attempt number, counted only when there is a maximum
    signals,     \* invalidations queued for the reconnect task
    invalidated, \* bound: calls of invalidate()
    wire,        \* client -> its stream: unused, up or down
    reader,      \* client -> its read task
    writer,      \* client -> its write task
    pending,     \* client -> requests awaiting a response
    ask,         \* request -> program counter of its caller
    via,         \* request -> the client its caller holds
    reply,       \* request -> what its oneshot channel holds
    tardy,       \* auxiliary: request -> inserted after its connection ended
    closer,      \* program counter of shutdown()
    taken        \* the client shutdown() has taken out of the slot

loopVars == <<loop, held, fresh, attempt>>
linkVars == <<wire, reader, writer>>
askVars == <<ask, via, reply, tardy>>
closerVars == <<closer, taken>>
signalVars == <<signals, invalidated>>
vars == <<slot, connected, loopVars, signalVars, linkVars,
          pending, askVars, closerVars>>

LoopPc == {"top", "serve", "recycle", "clear", "down", "sleep", "store",
           "up", "gaveUp", "aborted"}
Task == {"none", "running", "aborting", "ended", "quit"}
AskPc == {"idle", "insert", "send", "wait", "answered", "timedOut", "closed"}
Client == Clients \cup {None}

TypeOK ==
    /\ slot \in Client
    /\ connected \in BOOLEAN
    /\ loop \in LoopPc
    /\ held \in Client
    /\ fresh \in Client
    /\ attempt \in 0..MaxAttempts
    /\ signals \in Nat
    /\ invalidated \in Nat
    /\ wire \in [Clients -> {"unused", "up", "down"}]
    /\ reader \in [Clients -> Task]
    /\ writer \in [Clients -> Task]
    /\ pending \in [Clients -> SUBSET Requests]
    /\ ask \in [Requests -> AskPc]
    /\ via \in [Requests -> Client]
    /\ reply \in [Requests -> {"empty", "response", "cleared"}]
    /\ tardy \in [Requests -> BOOLEAN]
    /\ closer \in {"idle", "take", "disconnect", "announce", "done"}
    /\ taken \in Client

(* start_with_connector without an initial client, as on mobile.           *)
Init ==
    /\ slot = None
    /\ connected = FALSE
    /\ loop = "top"
    /\ held = None
    /\ fresh = None
    /\ attempt = 0
    /\ signals = 0
    /\ invalidated = 0
    /\ wire = [c \in Clients |-> "unused"]
    /\ reader = [c \in Clients |-> "none"]
    /\ writer = [c \in Clients |-> "none"]
    /\ pending = [c \in Clients |-> {}]
    /\ ask = [r \in Requests |-> "idle"]
    /\ via = [r \in Requests |-> None]
    /\ reply = [r \in Requests |-> "empty"]
    /\ tardy = [r \in Requests |-> FALSE]
    /\ closer = "idle"
    /\ taken = None

--------------------------------------------------------------------------------
(* shutdown() has aborted the reconnect task.                             *)
Aborting == closer # "idle"

(* Who else holds a handle of the client c, apart from shutdown().         *)
SharedElsewhere(c) ==
    \/ c \in {slot, held, fresh}
    \/ \E r \in Requests : via[r] = c

(* The broadcast channel of a connection closes when its last sender is    *)
(* gone: the read task has one, and so has every handle of the client.     *)
HasHandle(c) == SharedElsewhere(c) \/ (closer = "disconnect" /\ taken = c)
ReaderGone(c) == reader[c] \in {"ended", "quit"}
BroadcastsClosed(c) == ReaderGone(c) /\ ~HasHandle(c)

(* PendingRequests::clear resolves every entry with NotConnected.          *)
ClearPending(c) ==
    /\ pending' = [pending EXCEPT ![c] = {}]
    /\ reply' = [r \in Requests |-> IF r \in pending[c] THEN "cleared" ELSE reply[r]]

(* IpcConnection::shutdown_ref: abort both tasks, then clear.              *)
Abort(task, c) ==
    [task EXCEPT ![c] = IF task[c] = "running" THEN "aborting" ELSE task[c]]
ShutDown(c) ==
    /\ reader' = Abort(reader, c)
    /\ writer' = Abort(writer, c)
    /\ ClearPending(c)
    /\ UNCHANGED <<wire, ask, via, tardy>>

--------------------------------------------------------------------------------
(***************************************************************************)
(* The reconnect loop.                                                     *)
(***************************************************************************)

LoopTop ==
    /\ loop = "top"
    /\ held' = slot
    /\ loop' = IF slot = None THEN "clear" ELSE "serve"
    /\ UNCHANGED <<slot, connected, fresh, attempt, signalVars, linkVars, pending,
                   askVars, closerVars>>

(* Mutant: the signal is drained but the client kept.                      *)
ServeEndsKeeping ==
    /\ loop = "serve"
    /\ signals > 0
    /\ signals' = signals - 1
    /\ loop' = "top"
    /\ UNCHANGED <<slot, connected, held, fresh, attempt, invalidated, linkVars,
                   pending, askVars, closerVars>>

(* The select: the broadcasts of the client are closed, or a signal came.  *)
(* Forwarded broadcasts change nothing here.                               *)
ServeEnds ==
    /\ loop = "serve"
    /\ BroadcastsClosed(held) \/ signals > 0
    /\ IF BroadcastsClosed(held)
       THEN loop' = "clear" /\ UNCHANGED signals
       ELSE loop' = "recycle" /\ signals' = signals - 1
    /\ UNCHANGED <<slot, connected, held, fresh, attempt, invalidated, linkVars,
                   pending, askVars, closerVars>>

(* Mutant: the old client is dropped, not disconnected.                    *)
RecycleDrops ==
    /\ loop = "recycle"
    /\ loop' = "clear"
    /\ held' = None
    /\ UNCHANGED <<slot, connected, fresh, attempt, signalVars, linkVars, pending,
                   askVars, closerVars>>

(* force_disconnect, after which the task's own handle goes out of scope.  *)
Recycle ==
    /\ loop = "recycle"
    /\ ShutDown(held)
    /\ loop' = "clear"
    /\ held' = None
    /\ UNCHANGED <<slot, connected, fresh, attempt, signalVars, closerVars>>

ClearSlot ==
    /\ loop = "clear"
    /\ slot' = None
    /\ loop' = "down"
    /\ UNCHANGED <<connected, held, fresh, attempt, signalVars, linkVars, pending,
                   askVars, closerVars>>

(* Mutant: nobody is told that the client is gone.                         *)
AnnounceDownSilent ==
    /\ loop = "down"
    /\ loop' = "sleep"
    /\ attempt' = 0
    /\ UNCHANGED <<slot, connected, held, fresh, signalVars, linkVars, pending,
                   askVars, closerVars>>

AnnounceDown ==
    /\ loop = "down"
    /\ connected' = FALSE
    /\ loop' = "sleep"
    /\ attempt' = 0
    /\ UNCHANGED <<slot, held, fresh, signalVars, linkVars, pending, askVars,
                   closerVars>>

(* Mutant: one attempt too many.                                           *)
CanAttemptOnceMore ==
    /\ loop = "sleep"
    /\ ~Aborting
    /\ MaxAttempts = 0 \/ attempt <= MaxAttempts

(* An attempt waits for a timer and for the peer: it does not outlive an   *)
(* abort.                                                                  *)
CanAttempt ==
    /\ loop = "sleep"
    /\ ~Aborting
    /\ MaxAttempts = 0 \/ attempt < MaxAttempts
NextAttempt == IF MaxAttempts = 0 THEN attempt ELSE attempt + 1

ConnectOk(c) ==
    /\ CanAttempt
    /\ wire[c] = "unused"
    /\ wire' = [wire EXCEPT ![c] = "up"]
    /\ reader' = [reader EXCEPT ![c] = "running"]
    /\ writer' = [writer EXCEPT ![c] = "running"]
    /\ fresh' = c
    /\ attempt' = NextAttempt
    /\ loop' = "store"
    /\ UNCHANGED <<slot, connected, held, signalVars, pending, askVars, closerVars>>

(* The connector fails.  When the handshake is what failed, the two tasks  *)
(* of the connection stay behind.                                          *)
Backoff ==
    /\ CanAttempt
    /\ attempt' = NextAttempt
    /\ UNCHANGED <<slot, connected, loop, held, fresh, signalVars, pending,
                   askVars, closerVars>>

ConnectFails == Backoff /\ UNCHANGED linkVars
HandshakeFails(c) ==
    /\ Backoff
    /\ wire[c] = "unused"
    /\ wire' = [wire EXCEPT ![c] = "up"]
    /\ reader' = [reader EXCEPT ![c] = "running"]
    /\ writer' = [writer EXCEPT ![c] = "running"]

GiveUp ==
    /\ loop = "sleep"
    /\ MaxAttempts > 0 /\ attempt = MaxAttempts
    /\ loop' = "gaveUp"
    /\ UNCHANGED <<slot, connected, held, fresh, attempt, signalVars, linkVars,
                   pending, askVars, closerVars>>

StoreClient ==
    /\ loop = "store"
    /\ slot' = fresh
    /\ fresh' = None
    /\ loop' = "up"
    /\ UNCHANGED <<connected, held, attempt, signalVars, linkVars, pending,
                   askVars, closerVars>>

AnnounceUp ==
    /\ loop = "up"
    /\ connected' = TRUE
    /\ loop' = "top"
    /\ UNCHANGED <<slot, held, fresh, attempt, signalVars, linkVars, pending,
                   askVars, closerVars>>

(* abort() takes effect where the task awaits and has to wait; what it     *)
(* has already begun it completes up to there.                             *)
LoopAborted ==
    /\ Aborting
    /\ loop \in {"serve", "sleep"}
    /\ loop' = "aborted"
    /\ held' = None
    /\ fresh' = None
    /\ UNCHANGED <<slot, connected, attempt, signalVars, linkVars, pending,
                   askVars, closerVars>>

(* invalidate(): an unbounded channel, drained only while a client serves. *)
Invalidate ==
    /\ invalidated < Invalidations
    /\ invalidated' = invalidated + 1
    /\ signals' = signals + 1
    /\ UNCHANGED <<slot, connected, loopVars, linkVars, pending, askVars,
                   closerVars>>

--------------------------------------------------------------------------------
(***************************************************************************)
(* A connection's tasks and its peer.                                      *)
(***************************************************************************)

LinkDown(c) ==
    /\ wire[c] = "up"
    /\ wire' = [wire EXCEPT ![c] = "down"]
    /\ UNCHANGED <<slot, connected, loopVars, signalVars, reader, writer, pending,
                   askVars, closerVars>>

(* Mutant: the read task leaves the pending requests behind.               *)
ReaderEndsUncleared(c) ==
    /\ reader[c] \in {"running", "aborting"}
    /\ wire[c] = "down"
    /\ reader' = [reader EXCEPT ![c] = "ended"]
    /\ UNCHANGED <<slot, connected, loopVars, signalVars, wire, writer, pending,
                   askVars, closerVars>>

(* read_frame fails: the pending requests are cleared and the task ends.   *)
ReaderEnds(c) ==
    /\ reader[c] \in {"running", "aborting"}
    /\ wire[c] = "down"
    /\ reader' = [reader EXCEPT ![c] = "ended"]
    /\ ClearPending(c)
    /\ UNCHANGED <<slot, connected, loopVars, signalVars, wire, writer, ask, via,
                   tardy, closerVars>>

(* The one way out of the read loop that clears nothing: a discovery       *)
(* request is read and the write task, which would answer it, is gone.     *)
ReaderQuits(c) ==
    /\ reader[c] \in {"running", "aborting"}
    /\ writer[c] = "ended"
    /\ reader' = [reader EXCEPT ![c] = "quit"]
    /\ UNCHANGED <<slot, connected, loopVars, signalVars, wire, writer, pending,
                   askVars, closerVars>>

ReaderAborted(c) ==
    /\ reader[c] = "aborting"
    /\ reader' = [reader EXCEPT ![c] = "ended"]
    /\ UNCHANGED <<slot, connected, loopVars, signalVars, wire, writer, pending,
                   askVars, closerVars>>

(* The write task is aborted, fails to write a request, or finds that all  *)
(* senders are gone.                                                       *)
WriterEnds(c) ==
    /\ \/ writer[c] = "aborting"
       \/ /\ writer[c] = "running"
          /\ \/ wire[c] = "down" /\ \E r \in Requests : via[r] = c /\ ask[r] = "wait"
             \/ BroadcastsClosed(c)
    /\ writer' = [writer EXCEPT ![c] = "ended"]
    /\ UNCHANGED <<slot, connected, loopVars, signalVars, wire, reader, pending,
                   askVars, closerVars>>

(* A response is read and resolves its request, whoever still waits.       *)
Respond(r, c) ==
    /\ r \in pending[c]
    /\ ask[r] \in {"wait", "timedOut"}
    /\ wire[c] = "up"
    /\ reader[c] \in {"running", "aborting"}
    /\ pending' = [pending EXCEPT ![c] = @ \ {r}]
    /\ reply' = [reply EXCEPT ![r] = "response"]
    /\ UNCHANGED <<slot, connected, loopVars, signalVars, linkVars, ask, via,
                   tardy, closerVars>>

--------------------------------------------------------------------------------
(***************************************************************************)
(* send_request.                                                           *)
(***************************************************************************)

AskStep(r, from, to) == ask[r] = from /\ ask' = [ask EXCEPT ![r] = to]
AskLeaves(r, from, to) == AskStep(r, from, to) /\ via' = [via EXCEPT ![r] = None]
AskOnly == UNCHANGED <<slot, connected, loopVars, signalVars, linkVars, closerVars>>

Ask(r) ==
    /\ slot # None
    /\ AskStep(r, "idle", "insert")
    /\ via' = [via EXCEPT ![r] = slot]
    /\ AskOnly
    /\ UNCHANGED <<pending, reply, tardy>>

Insert(r) ==
    /\ AskStep(r, "insert", "send")
    /\ pending' = [pending EXCEPT ![via[r]] = @ \cup {r}]
    /\ tardy' = [tardy EXCEPT ![r] = reader[via[r]] # "running"]
    /\ AskOnly
    /\ UNCHANGED <<via, reply>>

Send(r) ==
    /\ AskStep(r, "send", "wait")
    /\ writer[via[r]] # "ended"
    /\ AskOnly
    /\ UNCHANGED <<pending, via, reply, tardy>>

(* The write task is gone; the entry of the request stays in the map.      *)
SendFails(r) ==
    /\ AskLeaves(r, "send", "closed")
    /\ writer[via[r]] = "ended"
    /\ AskOnly
    /\ UNCHANGED <<pending, reply, tardy>>

Receive(r) ==
    /\ AskLeaves(r, "wait", "answered")
    /\ reply[r] # "empty"
    /\ AskOnly
    /\ UNCHANGED <<pending, reply, tardy>>

(* Mutant: the wait has a limit only while the connection reads.           *)
TimeoutReading(r) ==
    /\ AskLeaves(r, "wait", "timedOut")
    /\ reply[r] = "empty"
    /\ reader[via[r]] = "running"
    /\ AskOnly
    /\ UNCHANGED <<pending, reply, tardy>>

(* The timeout: here too the entry stays in the map.                       *)
Timeout(r) ==
    /\ AskLeaves(r, "wait", "timedOut")
    /\ reply[r] = "empty"
    /\ AskOnly
    /\ UNCHANGED <<pending, reply, tardy>>

--------------------------------------------------------------------------------
(* shutdown().                                                             *)
CloserOnly == UNCHANGED <<loopVars, signalVars>>

Shutdown ==
    /\ closer = "idle"
    /\ closer' = "take"
    /\ CloserOnly
    /\ UNCHANGED <<slot, connected, taken, linkVars, pending, askVars>>

Take ==
    /\ closer = "take"
    /\ taken' = slot
    /\ slot' = None
    /\ closer' = IF slot = None THEN "announce" ELSE "disconnect"
    /\ CloserOnly
    /\ UNCHANGED <<connected, linkVars, pending, askVars>>

(* IpcClient::disconnect: only the last handle shuts the connection down.  *)
Disconnect ==
    /\ closer = "disconnect"
    /\ closer' = "announce"
    /\ IF SharedElsewhere(taken)
       THEN UNCHANGED <<linkVars, pending, askVars>>
       ELSE ShutDown(taken)
    /\ CloserOnly
    /\ UNCHANGED <<slot, connected, taken>>

CloserAnnounce ==
    /\ closer = "announce"
    /\ closer' = "done"
    /\ connected' = FALSE
    /\ CloserOnly
    /\ UNCHANGED <<slot, taken, linkVars, pending, askVars>>

--------------------------------------------------------------------------------
Attempt == ConnectFails \/ \E c \in Clients : ConnectOk(c) \/ HandshakeFails(c)
LoopStep ==
    \/ LoopTop \/ ServeEnds \/ Recycle \/ ClearSlot \/ AnnounceDown
    \/ GiveUp \/ StoreClient \/ AnnounceUp \/ LoopAborted
TaskStep(c) == ReaderEnds(c) \/ ReaderAborted(c) \/ WriterEnds(c)
AskEnds(r) == Insert(r) \/ Send(r) \/ SendFails(r) \/ Receive(r) \/ Timeout(r)
CloserStep == Take \/ Disconnect \/ CloserAnnounce

Next ==
    \/ Attempt \/ LoopStep \/ Invalidate \/ Shutdown \/ CloserStep
    \/ \E c \in Clients : LinkDown(c) \/ ReaderQuits(c) \/ TaskStep(c)
    \/ \E r \in Requests : Ask(r) \/ AskEnds(r) \/ \E c \in Clients : Respond(r, c)

Spec == Init /\ [][Next]_vars

(* Every task that can run does, an attempt to connect ends, a timeout     *)
(* fires.  That an attempt succeeds, a link fails or a peer answers is not *)
(* assumed.                                                                *)
Fairness ==
    /\ WF_vars(Attempt)
    /\ WF_vars(LoopStep)
    /\ WF_vars(CloserStep)
    /\ \A c \in Clients : WF_vars(TaskStep(c))
    /\ \A r \in Requests : WF_vars(AskEnds(r))

FairSpec == Spec /\ Fairness

--------------------------------------------------------------------------------
(***************************************************************************)
(* Properties.                                                             *)
(***************************************************************************)

(* A request that was registered while its connection was alive never      *)
(* waits for a timeout once the connection has ended: the end of the read  *)
(* task and a forced disconnect resolve what is pending.  (A request       *)
(* registered later does wait, see Insert, and so does every request of a  *)
(* read task that quits, see ReaderQuits.)                                 *)
EarlyRequestFailsFast ==
    \A r \in Requests :
        (ask[r] = "wait" /\ reply[r] = "empty" /\ reader[via[r]] \in {"aborting", "ended"})
            => tardy[r]

(* Until shutdown, at most one of the clients that somebody holds has a    *)
(* live read task: recycling stops the old one before the new one is       *)
(* stored, so no caller talks to the peer over a connection that the       *)
(* wrapper has given up.                                                   *)
OneLiveConnection ==
    ~Aborting => Cardinality({c \in Clients : HasHandle(c) /\ reader[c] = "running"}) <= 1

(* The watch agrees with the slot whenever the reconnect task rests: the   *)
(* store learns of IPC from the watch, has_ipc() from the slot.            *)
WatchAgrees ==
    (loop \in {"serve", "sleep", "gaveUp"} /\ ~Aborting) => connected = (slot # None)

(* Every request ends, whatever happens to its connection.                 *)
RequestsEnd ==
    \A r \in Requests : ask[r] = "insert" ~> ask[r] \in {"answered", "timedOut", "closed"}

(* An invalidation recycles the client it finds, unless shutdown comes.    *)
InvalidateRecycles ==
    \A c \in Clients : (slot = c /\ signals > 0) ~> (slot # c \/ Aborting)

(* What the wrapper's doc comment says: it reconnects by itself on         *)
(* disconnection, so a client whose link is down does not stay.            *)
LostLinkIsReplaced == \A c \in Clients : (slot = c /\ wire[c] = "down") ~> (slot # c \/ Aborting)
================================================================================
