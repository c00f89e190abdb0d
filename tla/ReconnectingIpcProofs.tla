------------------------- MODULE ReconnectingIpcProofs -------------------------
(***************************************************************************)
(* The reconnecting IPC client keeps one live connection, its watch agrees *)
(* with its slot, and a request registered in time fails fast, for any     *)
(* number of connections, requests, attempts and invalidations.            *)
(***************************************************************************)
EXTENDS ReconnectingIpc, FiniteSetTheorems, TLAPS

--------------------------------------------------------------------------------
(* The inductive invariant.                                                *)

(* Where the reconnect task has put the client, as long as it alone writes *)
(* the slot: its own handle is one of the client in the slot, and only     *)
(* between ClearSlot and AnnounceDown, and between StoreClient and         *)
(* AnnounceUp, does the watch lag behind.                                  *)
LoopOwns ==
    /\ loop \notin {"down", "up"} => connected = (slot # None)
    /\ loop \in {"down", "sleep", "gaveUp", "store"} => slot = None
    /\ loop = "up" => slot # None
    /\ held = IF loop \in {"serve", "recycle"} THEN slot ELSE None
    /\ fresh # None <=> loop = "store"
    /\ loop = "clear" /\ slot # None => reader[slot] # "running"

(* A read task that runs, and whose client somebody holds, is the one of   *)
(* the client in the slot or of the one about to be put there.             *)
SlotIsLive ==
    \A c \in Clients : SharedElsewhere(c) /\ reader[c] = "running" => c \in {slot, fresh}

UntilShutdown == ~Aborting => LoopOwns /\ SlotIsLive /\ loop # "aborted"

(* What shutdown() and the task disconnect is a client.                    *)
Disconnectable ==
    /\ loop \in {"serve", "recycle"} => held # None
    /\ closer = "disconnect" => taken # None

(* Nobody holds a client that was never connected.                         *)
Unseen(c) == wire[c] = "unused" => ~SharedElsewhere(c) /\ taken # c

(* A request that has no answer is in the map of its connection; once the  *)
(* connection has ended, only because it came too late.                    *)
Registered(r) ==
    /\ ask[r] \in {"insert", "send", "wait"} => via[r] # None
    /\ ask[r] \in {"send", "wait"} /\ reply[r] = "empty" =>
           /\ r \in pending[via[r]]
           /\ reader[via[r]] \in {"aborting", "ended"} => tardy[r]

IpcInv ==
    /\ TypeOK
    /\ UntilShutdown
    /\ Disconnectable
    /\ \A c \in Clients : Unseen(c)
    /\ \A r \in Requests : Registered(r)

--------------------------------------------------------------------------------
(* Types.                                                                  *)

LEMMA InitTypeOK == Init => TypeOK
<1>1. 0 \in 0..MaxAttempts
    BY AttemptsAssumption
<1>. SUFFICES ASSUME Init PROVE TypeOK
    OBVIOUS
<1>2. attempt \in 0..MaxAttempts
    BY <1>1 DEF Init
<1>3. /\ wire \in [Clients -> {"unused", "up", "down"}]
      /\ reader \in [Clients -> Task] /\ writer \in [Clients -> Task]
      /\ pending \in [Clients -> SUBSET Requests]
    BY DEF Init, Task
<1>4. /\ ask \in [Requests -> AskPc] /\ via \in [Requests -> Client]
      /\ reply \in [Requests -> {"empty", "response", "cleared"}]
      /\ tardy \in [Requests -> BOOLEAN]
    BY DEF Init, AskPc, Client
<1>. QED
    BY <1>2, <1>3, <1>4 DEF Init, TypeOK, LoopPc, Client

LEMMA ShutDownType ==
    ASSUME TypeOK, NEW c, ShutDown(c)
    PROVE  /\ reader' \in [Clients -> Task] /\ writer' \in [Clients -> Task]
           /\ pending' \in [Clients -> SUBSET Requests]
           /\ reply' \in [Requests -> {"empty", "response", "cleared"}]
           /\ UNCHANGED <<wire, ask, via, tardy>>
BY DEF TypeOK, ShutDown, Abort, ClearPending, Task

LEMMA AttemptTypeOK ==
    ASSUME TypeOK, Attempt
    PROVE  TypeOK'
<1>. USE DEF loopVars, linkVars, askVars, closerVars, signalVars
<1>1. CanAttempt /\ attempt' = NextAttempt
    BY DEF Attempt, ConnectFails, ConnectOk, HandshakeFails, Backoff
<1>2. attempt' \in 0..MaxAttempts
    BY <1>1, AttemptsAssumption DEF CanAttempt, NextAttempt, TypeOK
<1>3. CASE ConnectFails
    BY <1>2, <1>3 DEF ConnectFails, Backoff, TypeOK
<1>4. ASSUME NEW c \in Clients, ConnectOk(c) PROVE TypeOK'
    BY <1>2, <1>4 DEF ConnectOk, TypeOK, LoopPc, Task, Client
<1>5. ASSUME NEW c \in Clients, HandshakeFails(c) PROVE TypeOK'
    BY <1>2, <1>5 DEF HandshakeFails, Backoff, TypeOK, Task
<1>. QED
    BY <1>3, <1>4, <1>5 DEF Attempt

LEMMA LoopTypeOK ==
    ASSUME TypeOK, LoopStep
    PROVE  TypeOK'
<1>. USE DEF loopVars, linkVars, askVars, closerVars, signalVars, LoopPc, Client
<1>1. CASE LoopTop
    BY <1>1 DEF LoopTop, TypeOK
<1>2. CASE ServeEnds
    BY <1>2 DEF ServeEnds, TypeOK
<1>3. CASE Recycle
    BY <1>3, ShutDownType DEF Recycle, TypeOK
<1>4. CASE ClearSlot
    BY <1>4 DEF ClearSlot, TypeOK
<1>5. CASE AnnounceDown
    <2>1. attempt' \in 0..MaxAttempts
        BY <1>5, AttemptsAssumption DEF AnnounceDown
    <2>. QED
        BY <1>5, <2>1 DEF AnnounceDown, TypeOK
<1>6. CASE GiveUp
    BY <1>6 DEF GiveUp, TypeOK
<1>7. CASE StoreClient
    BY <1>7 DEF StoreClient, TypeOK
<1>8. CASE AnnounceUp
    BY <1>8 DEF AnnounceUp, TypeOK
<1>9. CASE LoopAborted
    BY <1>9 DEF LoopAborted, TypeOK
<1>. QED
    BY <1>1, <1>2, <1>3, <1>4, <1>5, <1>6, <1>7, <1>8, <1>9 DEF LoopStep

LEMMA TaskTypeOK ==
    ASSUME TypeOK, NEW c \in Clients, LinkDown(c) \/ ReaderQuits(c) \/ TaskStep(c)
    PROVE  TypeOK'
<1>. USE DEF TypeOK, loopVars, askVars, closerVars, signalVars, Task
<1>1. CASE LinkDown(c)
    BY <1>1 DEF LinkDown
<1>2. CASE ReaderQuits(c)
    BY <1>2 DEF ReaderQuits
<1>3. CASE ReaderEnds(c)
    BY <1>3 DEF ReaderEnds, ClearPending
<1>4. CASE ReaderAborted(c)
    BY <1>4 DEF ReaderAborted
<1>5. CASE WriterEnds(c)
    BY <1>5 DEF WriterEnds
<1>. QED
    BY <1>1, <1>2, <1>3, <1>4, <1>5 DEF TaskStep

LEMMA AskTypeOK ==
    ASSUME TypeOK, NEW r \in Requests,
           Ask(r) \/ AskEnds(r) \/ \E c \in Clients : Respond(r, c)
    PROVE  TypeOK'
<1>. USE DEF TypeOK, loopVars, linkVars, closerVars, signalVars, AskOnly, AskStep, AskLeaves,
             AskPc, Client
<1>1. CASE Ask(r)
    BY <1>1 DEF Ask
<1>2. CASE Insert(r)
    BY <1>2 DEF Insert
<1>3. CASE Send(r)
    BY <1>3 DEF Send
<1>4. CASE SendFails(r)
    BY <1>4 DEF SendFails
<1>5. CASE Receive(r)
    BY <1>5 DEF Receive
<1>6. CASE Timeout(r)
    BY <1>6 DEF Timeout
<1>7. ASSUME NEW c \in Clients, Respond(r, c) PROVE TypeOK'
    BY <1>7 DEF Respond
<1>. QED
    BY <1>1, <1>2, <1>3, <1>4, <1>5, <1>6, <1>7 DEF AskEnds

LEMMA CloserTypeOK ==
    ASSUME TypeOK, Shutdown \/ CloserStep
    PROVE  TypeOK'
<1>. USE DEF loopVars, linkVars, askVars, signalVars, CloserOnly, Client
<1>1. CASE Shutdown
    BY <1>1 DEF Shutdown, TypeOK
<1>2. CASE Take
    BY <1>2 DEF Take, TypeOK
<1>3. CASE Disconnect
    <2>1. CASE SharedElsewhere(taken)
        BY <1>3, <2>1 DEF Disconnect, TypeOK
    <2>2. CASE ~SharedElsewhere(taken)
        BY <1>3, <2>2, ShutDownType DEF Disconnect, TypeOK
    <2>. QED
        BY <2>1, <2>2
<1>4. CASE CloserAnnounce
    BY <1>4 DEF CloserAnnounce, TypeOK
<1>. QED
    BY <1>1, <1>2, <1>3, <1>4 DEF CloserStep

LEMMA NextTypeOK ==
    ASSUME TypeOK, [Next]_vars
    PROVE  TypeOK'
<1>1. CASE Invalidate
    BY <1>1, InvalidationsAssumption
       DEF Invalidate, TypeOK, loopVars, linkVars, askVars, closerVars
<1>2. CASE UNCHANGED vars
    BY <1>2 DEF vars, TypeOK, loopVars, linkVars, askVars, closerVars, signalVars
<1>. QED
    BY <1>1, <1>2, AttemptTypeOK, LoopTypeOK, TaskTypeOK, AskTypeOK, CloserTypeOK DEF Next

(* Every variable keeps its type; in particular no more than MaxAttempts   *)
(* attempts follow the loss of a client.                                   *)
THEOREM TypeCorrect == Spec => []TypeOK
BY InitTypeOK, NextTypeOK, PTL DEF Spec

--------------------------------------------------------------------------------
(* Requests.                                                               *)

(* The end of a connection resolves whatever is in its map.                *)
LEMMA Cleared ==
    ASSUME IpcInv, NEW c \in Clients, ClearPending(c), UNCHANGED <<ask, via, tardy>>,
           \A d \in Clients \ {c} : reader'[d] = reader[d]
    PROVE  \A r \in Requests : Registered(r)'
<1>. TAKE r \in Requests
<1>1. Registered(r) /\ via[r] \in Clients \cup {None}
    BY DEF IpcInv, TypeOK, Client
<1>2. /\ reply'[r] = IF r \in pending[c] THEN "cleared" ELSE reply[r]
      /\ \A d \in Clients \ {c} : pending'[d] = pending[d]
    BY DEF ClearPending, IpcInv, TypeOK
<1>3. CASE via[r] = c
    BY <1>1, <1>2, <1>3 DEF Registered
<1>4. CASE via[r] # c
    BY <1>1, <1>2, <1>4 DEF Registered
<1>. QED
    BY <1>3, <1>4

LEMMA ShutDownClears ==
    ASSUME IpcInv, NEW c \in Clients, ShutDown(c)
    PROVE  \A r \in Requests : Registered(r)'
<1>1. \A d \in Clients \ {c} : reader'[d] = reader[d]
    BY DEF ShutDown, Abort, IpcInv, TypeOK
<1>. QED
    BY <1>1, Cleared DEF ShutDown

(* A read task that starts, quits or goes on does not end.                 *)
LEMMA AsRegistered ==
    ASSUME IpcInv, UNCHANGED <<pending, askVars>>,
           \A c \in Clients : reader'[c] \in {"aborting", "ended"} => reader[c] \in {"aborting", "ended"}
    PROVE  \A r \in Requests : Registered(r)'
<1>. TAKE r \in Requests
<1>1. Registered(r) /\ via[r] \in Clients \cup {None}
    BY DEF IpcInv, TypeOK, Client
<1>. QED
    BY <1>1 DEF Registered, askVars

LEMMA AskRegistered ==
    ASSUME IpcInv, NEW r \in Requests,
           Ask(r) \/ AskEnds(r) \/ \E c \in Clients : Respond(r, c)
    PROVE  \A q \in Requests : Registered(q)'
<1>. USE DEF IpcInv, AskOnly, AskStep, AskLeaves, linkVars
<1>0. \A q \in Requests : Registered(q) /\ via[q] \in Clients \cup {None}
    BY DEF TypeOK, Client
<1>1. CASE Ask(r)
    BY <1>0, <1>1, NoneAssumption DEF Ask, Registered, TypeOK
<1>2. CASE Insert(r)
    <2>1. via[r] \in Clients
        BY <1>0, <1>2 DEF Insert, Registered
    <2>2. /\ r \in pending'[via[r]] /\ \A c \in Clients : pending[c] \subseteq pending'[c]
          /\ tardy'[r] = (reader[via[r]] # "running")
          /\ \A q \in Requests \ {r} : tardy'[q] = tardy[q] /\ ask'[q] = ask[q]
          /\ UNCHANGED <<via, reply, reader>>
        BY <1>2, <2>1 DEF Insert, TypeOK
    <2>3. Registered(r)'
        BY <1>0, <2>1, <2>2, NoneAssumption DEF Registered
    <2>4. \A q \in Requests \ {r} : Registered(q)'
        BY <1>0, <2>2 DEF Registered
    <2>. QED
        BY <2>3, <2>4
<1>3. CASE Send(r)
    BY <1>0, <1>3 DEF Send, Registered, TypeOK
<1>4. CASE SendFails(r)
    BY <1>0, <1>4 DEF SendFails, Registered, TypeOK
<1>5. CASE Receive(r)
    BY <1>0, <1>5 DEF Receive, Registered, TypeOK
<1>6. CASE Timeout(r)
    BY <1>0, <1>6 DEF Timeout, Registered, TypeOK
<1>7. ASSUME NEW c \in Clients, Respond(r, c) PROVE \A q \in Requests : Registered(q)'
    <2>1. /\ reply'[r] = "response"
          /\ \A q \in Requests \ {r} : reply'[q] = reply[q]
          /\ \A d \in Clients : pending[d] \subseteq pending'[d] \cup {r}
          /\ UNCHANGED <<ask, via, tardy, reader>>
        BY <1>7 DEF Respond, TypeOK
    <2>. QED
        BY <1>0, <2>1 DEF Registered
<1>. QED
    BY <1>1, <1>2, <1>3, <1>4, <1>5, <1>6, <1>7 DEF AskEnds

LEMMA RegisteredStep ==
    ASSUME IpcInv, [Next]_vars
    PROVE  \A r \in Requests : Registered(r)'
<1>. USE DEF linkVars
<1>1. CASE Attempt
    <2>1. /\ UNCHANGED <<pending, askVars>>
          /\ \A c \in Clients : reader'[c] = reader[c] \/ reader'[c] = "running"
        BY <1>1 DEF Attempt, ConnectFails, ConnectOk, HandshakeFails, Backoff, IpcInv, TypeOK
    <2>. QED
        BY <2>1, AsRegistered
<1>2. CASE Recycle
    <2>1. held \in Clients
        BY <1>2 DEF Recycle, IpcInv, Disconnectable, TypeOK, Client
    <2>. QED
        BY <1>2, <2>1, ShutDownClears DEF Recycle
<1>3. CASE Disconnect /\ ~SharedElsewhere(taken)
    <2>1. taken \in Clients
        BY <1>3 DEF Disconnect, IpcInv, Disconnectable, TypeOK, Client
    <2>. QED
        BY <1>3, <2>1, ShutDownClears DEF Disconnect
<1>4. ASSUME NEW c \in Clients, ReaderEnds(c) PROVE \A r \in Requests : Registered(r)'
    <2>1. /\ \A d \in Clients \ {c} : reader'[d] = reader[d]
          /\ ClearPending(c) /\ UNCHANGED <<ask, via, tardy>>
        BY <1>4 DEF ReaderEnds, IpcInv, TypeOK
    <2>. QED
        BY <2>1, Cleared
<1>5. ASSUME NEW c \in Clients, ReaderAborted(c) \/ ReaderQuits(c)
      PROVE  \A r \in Requests : Registered(r)'
    <2>1. /\ UNCHANGED <<pending, askVars>>
          /\ \A d \in Clients \ {c} : reader'[d] = reader[d]
          /\ reader'[c] = "quit" \/ reader[c] = "aborting"
        BY <1>5 DEF ReaderAborted, ReaderQuits, IpcInv, TypeOK
    <2>. QED
        BY <2>1, AsRegistered
<1>6. ASSUME NEW c \in Clients, LinkDown(c) \/ WriterEnds(c)
      PROVE  \A r \in Requests : Registered(r)'
    BY <1>6, AsRegistered DEF LinkDown, WriterEnds
<1>7. CASE LoopStep /\ ~Recycle
    BY <1>7, AsRegistered DEF LoopStep, LoopTop, ServeEnds, ClearSlot, AnnounceDown, GiveUp,
       StoreClient, AnnounceUp, LoopAborted
<1>8. CASE \/ Invalidate \/ Shutdown \/ Take \/ CloserAnnounce \/ UNCHANGED vars
           \/ Disconnect /\ SharedElsewhere(taken)
    BY <1>8, AsRegistered DEF Invalidate, Shutdown, Take, CloserAnnounce, Disconnect, vars
<1>. QED
    BY <1>1, <1>2, <1>3, <1>4, <1>5, <1>6, <1>7, <1>8, AskRegistered
       DEF Next, CloserStep, TaskStep

--------------------------------------------------------------------------------
(* Handles.                                                                *)

(* Only ConnectOk makes the first handle of a client; the others copy one. *)
LEMMA HandlesStep ==
    ASSUME IpcInv, [Next]_vars
    PROVE  \A c \in Clients :
               /\ wire'[c] = "unused" => wire[c] = "unused"
               /\ SharedElsewhere(c)' \/ taken' = c =>
                      SharedElsewhere(c) \/ taken = c \/ (ConnectOk(c) /\ wire'[c] = "up")
<1>. TAKE c \in Clients
<1>. USE NoneAssumption
     DEF IpcInv, SharedElsewhere, loopVars, linkVars, askVars, closerVars
<1>1. CASE Attempt
    <2>1. ASSUME NEW d \in Clients, ConnectOk(d) PROVE d = c => wire'[c] = "up"
        BY <2>1 DEF ConnectOk, TypeOK
    <2>2. wire'[c] = wire[c] \/ wire'[c] = "up"
        BY <1>1 DEF Attempt, ConnectFails, ConnectOk, HandshakeFails, Backoff, TypeOK
    <2>. QED
        BY <1>1, <2>1, <2>2 DEF Attempt, ConnectFails, ConnectOk, HandshakeFails, Backoff
<1>2. CASE LoopStep
    BY <1>2 DEF LoopStep, LoopTop, ServeEnds, Recycle, ShutDown, ClearSlot, AnnounceDown,
       GiveUp, StoreClient, AnnounceUp, LoopAborted
<1>3. CASE Invalidate \/ Shutdown \/ CloserAnnounce \/ UNCHANGED vars
    BY <1>3 DEF Invalidate, Shutdown, CloserAnnounce, CloserOnly, vars
<1>4. CASE Take \/ Disconnect
    BY <1>4 DEF Take, Disconnect, ShutDown, CloserOnly
<1>5. ASSUME NEW d \in Clients, LinkDown(d) \/ ReaderQuits(d) \/ TaskStep(d)
      PROVE  /\ wire'[c] = "unused" => wire[c] = "unused"
             /\ SharedElsewhere(c)' \/ taken' = c => SharedElsewhere(c) \/ taken = c
    <2>1. UNCHANGED <<slot, held, fresh, via, taken>>
        BY <1>5 DEF LinkDown, ReaderQuits, TaskStep, ReaderEnds, ReaderAborted, WriterEnds
    <2>2. wire'[c] = wire[c] \/ wire'[c] = "down"
        BY <1>5 DEF LinkDown, ReaderQuits, TaskStep, ReaderEnds, ReaderAborted, WriterEnds, TypeOK
    <2>. QED
        BY <2>1, <2>2
<1>6. ASSUME NEW r \in Requests, Ask(r) \/ AskEnds(r) \/ \E d \in Clients : Respond(r, d)
      PROVE  /\ wire'[c] = "unused" => wire[c] = "unused"
             /\ SharedElsewhere(c)' \/ taken' = c => SharedElsewhere(c) \/ taken = c
    <2>1. UNCHANGED <<slot, held, fresh, wire, taken>>
        BY <1>6 DEF Ask, AskEnds, Insert, Send, SendFails, Receive, Timeout, Respond, AskOnly
    <2>2. via' = via \/ \E x \in {slot, None} : via' = [via EXCEPT ![r] = x]
        BY <1>6 DEF Ask, AskEnds, Insert, Send, SendFails, Receive, Timeout, Respond, AskLeaves
    <2>3. \A q \in Requests : via'[q] \in {via[q], slot, None}
        BY <2>2 DEF TypeOK
    <2>. QED
        BY <2>1, <2>3
<1>. QED
    BY <1>1, <1>2, <1>3, <1>4, <1>5, <1>6 DEF Next, CloserStep

LEMMA UnseenStep ==
    ASSUME IpcInv, [Next]_vars
    PROVE  \A c \in Clients : Unseen(c)'
BY HandlesStep DEF IpcInv, Unseen

LEMMA DisconnectableStep ==
    ASSUME IpcInv, [Next]_vars
    PROVE  Disconnectable'
<1>. USE DEF IpcInv, Disconnectable, loopVars, closerVars
<1>1. CASE Attempt
    BY <1>1 DEF Attempt, ConnectFails, ConnectOk, HandshakeFails, Backoff
<1>2. CASE LoopStep
    BY <1>2 DEF LoopStep, LoopTop, ServeEnds, Recycle, ClearSlot, AnnounceDown,
       GiveUp, StoreClient, AnnounceUp, LoopAborted
<1>3. CASE Invalidate \/ Shutdown \/ CloserStep \/ UNCHANGED vars
    BY <1>3 DEF Invalidate, Shutdown, CloserStep, Take, Disconnect, CloserAnnounce,
       CloserOnly, vars
<1>4. ASSUME NEW c \in Clients, LinkDown(c) \/ ReaderQuits(c) \/ TaskStep(c)
      PROVE  Disconnectable'
    BY <1>4 DEF LinkDown, ReaderQuits, TaskStep, ReaderEnds, ReaderAborted, WriterEnds
<1>5. ASSUME NEW r \in Requests, Ask(r) \/ AskEnds(r) \/ \E c \in Clients : Respond(r, c)
      PROVE  Disconnectable'
    BY <1>5 DEF Ask, AskEnds, Insert, Send, SendFails, Receive, Timeout, Respond, AskOnly
<1>. QED
    BY <1>1, <1>2, <1>3, <1>4, <1>5 DEF Next

--------------------------------------------------------------------------------
(* The slot, the watch and the live connection.                            *)

(* No read task starts but with the client about to be stored, and none    *)
(* that nobody holds gets a holder.                                        *)
LEMMA AttemptUntilShutdown ==
    ASSUME IpcInv, Attempt
    PROVE  UntilShutdown'
<1>. USE DEF IpcInv, closerVars, askVars, linkVars
<1>1. /\ ~Aborting /\ loop = "sleep" /\ slot = None /\ held = None /\ fresh = None
      /\ UNCHANGED <<slot, connected, held, via>>
      /\ connected = FALSE
    BY DEF Attempt, ConnectFails, ConnectOk, HandshakeFails, Backoff, CanAttempt,
           UntilShutdown, LoopOwns, TypeOK
<1>2. CASE ConnectFails
    BY <1>1, <1>2 DEF ConnectFails, Backoff, UntilShutdown, Aborting, LoopOwns, SlotIsLive,
       SharedElsewhere
<1>3. ASSUME NEW c \in Clients, ConnectOk(c) PROVE UntilShutdown'
    <2>1. /\ \A d \in Clients \ {c} : reader'[d] = reader[d]
          /\ loop' = "store" /\ fresh' = c /\ c # None
        BY <1>3, NoneAssumption DEF ConnectOk, TypeOK
    <2>2. SlotIsLive'
        BY <1>1, <2>1, NoneAssumption DEF UntilShutdown, SlotIsLive, SharedElsewhere
    <2>3. LoopOwns'
        BY <1>1, <2>1 DEF LoopOwns
    <2>. QED
        BY <2>1, <2>2, <2>3 DEF UntilShutdown
<1>4. ASSUME NEW c \in Clients, HandshakeFails(c) PROVE UntilShutdown'
    <2>1. /\ \A d \in Clients \ {c} : reader'[d] = reader[d]
          /\ UNCHANGED <<loop, fresh>>
          /\ ~SharedElsewhere(c)
        BY <1>4 DEF HandshakeFails, Backoff, Unseen, TypeOK
    <2>2. SlotIsLive'
        BY <1>1, <2>1 DEF UntilShutdown, SlotIsLive, SharedElsewhere
    <2>3. LoopOwns'
        BY <1>1, <2>1 DEF LoopOwns, UntilShutdown
    <2>. QED
        BY <1>1, <2>1, <2>2, <2>3 DEF UntilShutdown
<1>. QED
    BY <1>2, <1>3, <1>4 DEF Attempt

(* A step that starts no read task, makes no handle of another client and  *)
(* leaves the slot and the watch.                                          *)
LEMMA NothingStarts ==
    ASSUME IpcInv, UNCHANGED <<slot, connected, loop, held, fresh>>,
           Aborting => Aborting',
           \A c \in Clients : reader'[c] = "running" => reader[c] = "running",
           \A r \in Requests : via'[r] \in {via[r], slot, None}
    PROVE  UntilShutdown'
<1>. SUFFICES ASSUME ~Aborting' PROVE UntilShutdown'
    BY DEF UntilShutdown
<1>1. LoopOwns /\ SlotIsLive /\ loop # "aborted"
    BY DEF IpcInv, UntilShutdown
<1>2. LoopOwns'
    BY <1>1 DEF LoopOwns, IpcInv, TypeOK, Client
<1>3. SlotIsLive'
    BY <1>1, NoneAssumption DEF SlotIsLive, SharedElsewhere
<1>. QED
    BY <1>1, <1>2, <1>3 DEF UntilShutdown

LEMMA LoopUntilShutdown ==
    ASSUME IpcInv, LoopStep
    PROVE  UntilShutdown'
<1>. USE DEF IpcInv, closerVars, askVars, linkVars
<1>0. UNCHANGED <<closer, via>>
    BY DEF LoopStep, LoopTop, ServeEnds, Recycle, ShutDown, ClearSlot, AnnounceDown, GiveUp,
           StoreClient, AnnounceUp, LoopAborted
<1>. SUFFICES ASSUME ~Aborting PROVE LoopOwns' /\ SlotIsLive' /\ loop' # "aborted"
    BY <1>0 DEF UntilShutdown, Aborting
<1>1. LoopOwns /\ SlotIsLive
    BY DEF UntilShutdown
<1>2. CASE LoopTop
    BY <1>0, <1>1, <1>2 DEF LoopTop, LoopOwns, SlotIsLive, SharedElsewhere
<1>3. CASE ServeEnds
    <2>1. ~BroadcastsClosed(held)
        BY <1>1, <1>3 DEF ServeEnds, LoopOwns, BroadcastsClosed, HasHandle, SharedElsewhere
    <2>. QED
        BY <1>0, <1>1, <1>3, <2>1 DEF ServeEnds, LoopOwns, SlotIsLive, SharedElsewhere
<1>4. CASE Recycle
    <2>1. held = slot /\ slot \in Clients
        BY <1>1, <1>4 DEF Recycle, LoopOwns, Disconnectable, TypeOK, Client
    <2>2. /\ reader'[slot] # "running"
          /\ \A c \in Clients \ {slot} : reader'[c] = reader[c]
        BY <1>4, <2>1 DEF Recycle, ShutDown, Abort, TypeOK
    <2>. QED
        BY <1>0, <1>1, <1>4, <2>1, <2>2, NoneAssumption
           DEF Recycle, LoopOwns, SlotIsLive, SharedElsewhere
<1>5. CASE ClearSlot
    <2>1. \A c \in Clients : ~(SharedElsewhere(c) /\ reader[c] = "running")
        BY <1>1, <1>5, NoneAssumption DEF ClearSlot, LoopOwns, SlotIsLive
    <2>. QED
        BY <1>0, <1>1, <1>5, <2>1, NoneAssumption
           DEF ClearSlot, LoopOwns, SlotIsLive, SharedElsewhere
<1>6. CASE AnnounceDown
    BY <1>0, <1>1, <1>6 DEF AnnounceDown, LoopOwns, SlotIsLive, SharedElsewhere
<1>7. CASE GiveUp
    BY <1>0, <1>1, <1>7 DEF GiveUp, LoopOwns, SlotIsLive, SharedElsewhere
<1>8. CASE StoreClient
    BY <1>0, <1>1, <1>8, NoneAssumption
       DEF StoreClient, LoopOwns, SlotIsLive, SharedElsewhere, TypeOK
<1>9. CASE AnnounceUp
    BY <1>0, <1>1, <1>9 DEF AnnounceUp, LoopOwns, SlotIsLive, SharedElsewhere
<1>. QED
    BY <1>2, <1>3, <1>4, <1>5, <1>6, <1>7, <1>8, <1>9 DEF LoopStep, LoopAborted

LEMMA UntilShutdownStep ==
    ASSUME IpcInv, [Next]_vars
    PROVE  UntilShutdown'
<1>. USE DEF loopVars, linkVars, askVars, closerVars
<1>1. CASE Shutdown \/ CloserStep
    BY <1>1 DEF Shutdown, CloserStep, Take, Disconnect, CloserAnnounce, UntilShutdown, Aborting
<1>2. CASE Invalidate \/ UNCHANGED vars
    <2>1. UNCHANGED <<slot, connected, loop, held, fresh, reader, via, closer>>
        BY <1>2 DEF Invalidate, vars
    <2>. QED
        BY <2>1, NothingStarts DEF Aborting
<1>3. ASSUME NEW c \in Clients, LinkDown(c) \/ ReaderQuits(c) \/ TaskStep(c)
      PROVE  UntilShutdown'
    <2>1. UNCHANGED <<slot, connected, loop, held, fresh, via, closer>>
        BY <1>3 DEF LinkDown, ReaderQuits, TaskStep, ReaderEnds, ReaderAborted, WriterEnds
    <2>2. \A d \in Clients : reader'[d] = reader[d] \/ reader'[d] \in {"ended", "quit"}
        BY <1>3 DEF LinkDown, ReaderQuits, TaskStep, ReaderEnds, ReaderAborted, WriterEnds,
                    IpcInv, TypeOK
    <2>. QED
        BY <2>1, <2>2, NothingStarts DEF Aborting
<1>4. ASSUME NEW r \in Requests, Ask(r) \/ AskEnds(r) \/ \E c \in Clients : Respond(r, c)
      PROVE  UntilShutdown'
    <2>1. UNCHANGED <<slot, connected, loop, held, fresh, reader, closer>>
        BY <1>4 DEF Ask, AskEnds, Insert, Send, SendFails, Receive, Timeout, Respond, AskOnly
    <2>2. via' = via \/ \E x \in {slot, None} : via' = [via EXCEPT ![r] = x]
        BY <1>4 DEF Ask, AskEnds, Insert, Send, SendFails, Receive, Timeout, Respond, AskLeaves
    <2>3. \A q \in Requests : via'[q] \in {via[q], slot, None}
        BY <2>2 DEF IpcInv, TypeOK
    <2>. QED
        BY <2>1, <2>3, NothingStarts DEF Aborting
<1>. QED
    BY <1>1, <1>2, <1>3, <1>4, AttemptUntilShutdown, LoopUntilShutdown DEF Next

LEMMA InitIpcInv == Init => IpcInv
<1>. SUFFICES ASSUME Init PROVE IpcInv
    OBVIOUS
<1>1. UntilShutdown /\ Disconnectable
    BY DEF Init, UntilShutdown, LoopOwns, SlotIsLive, SharedElsewhere, Disconnectable
<1>2. \A c \in Clients : Unseen(c)
    BY NoneAssumption DEF Init, Unseen, SharedElsewhere
<1>3. \A r \in Requests : Registered(r)
    BY DEF Init, Registered
<1>. QED
    BY <1>1, <1>2, <1>3, InitTypeOK DEF IpcInv

LEMMA NextIpcInv ==
    ASSUME IpcInv, [Next]_vars
    PROVE  IpcInv'
<1>1. TypeOK'
    BY NextTypeOK DEF IpcInv
<1>. QED
    BY <1>1, UntilShutdownStep, DisconnectableStep, UnseenStep, RegisteredStep DEF IpcInv

(* Whenever the reconnect task rests, the watch that the store follows and *)
(* the slot that has_ipc() reads agree.                                    *)
THEOREM WatchAndSlot == Spec => []WatchAgrees
<1>1. IpcInv => WatchAgrees
    BY DEF IpcInv, UntilShutdown, LoopOwns, WatchAgrees
<1>. QED
    BY <1>1, InitIpcInv, NextIpcInv, PTL DEF Spec

(* Nobody holds a second client whose read task runs: the old connection   *)
(* is stopped before a new one is stored.                                  *)
THEOREM NoSecondConnection == Spec => []OneLiveConnection
<1>1. IpcInv => OneLiveConnection
    <2>. DEFINE Live == {c \in Clients : HasHandle(c) /\ reader[c] = "running"}
    <2>. SUFFICES ASSUME IpcInv, ~Aborting PROVE Cardinality(Live) <= 1
        BY DEF OneLiveConnection
    <2>1. LoopOwns /\ SlotIsLive /\ closer = "idle"
        BY DEF IpcInv, UntilShutdown, Aborting
    <2>2. slot = None \/ fresh = None
        BY <2>1 DEF LoopOwns
    <2>3. PICK x : Live \subseteq {x}
        BY <2>1, <2>2, NoneAssumption DEF SlotIsLive, HasHandle
    <2>4. IsFiniteSet({x}) /\ Cardinality({x}) = 1
        BY FS_Singleton
    <2>5. Cardinality(Live) <= Cardinality({x})
        BY <2>3, <2>4, FS_Subset
    <2>. QED
        BY <2>4, <2>5
<1>. QED
    BY <1>1, InitIpcInv, NextIpcInv, PTL DEF Spec

(* A request in the map of a connection whose end clears that map does not *)
(* wait for its timeout, unless it was registered after the end.           *)
THEOREM EarlyFailFast == Spec => []EarlyRequestFailsFast
<1>1. IpcInv => EarlyRequestFailsFast
    BY DEF IpcInv, Registered, EarlyRequestFailsFast
<1>. QED
    BY <1>1, InitIpcInv, NextIpcInv, PTL DEF Spec

================================================================================
