------------------------------- MODULE FollowUps -------------------------------
(***************************************************************************)
(* One thread of one server: the turns the phone starts, the follow-up     *)
(* drafts it queues while a turn runs, and which way a mutating command    *)
(* takes, over the IPC bus to the desktop or directly to the app-server.   *)
(*                                                                         *)
(* A call is a start_turn, steer_queued_follow_up or                       *)
(* delete_queued_follow_up of one message.  It reads the thread once, at   *)
(* its beginning, and goes by that until its end.                          *)
(***************************************************************************)
EXTENDS Naturals, Sequences, FiniteSets

CONSTANTS
    Messages,   \* what the user writes, each once
    Calls,      \* the calls made: pairs of a kind and a message
    IpcCalls,   \* bound: those made in a session that came with IPC
    CallLimit,  \* bound: how many of them are made
    None,       \* no call, no message
    OtherTurns, \* bound: turns another client starts
    Faults      \* bound: failures of requests and of the IPC link, lags

ASSUME CallsAssumption == Calls \subseteq {"send", "steer", "delete"} \X Messages /\ IpcCalls \subseteq Calls
ASSUME NoneAssumption == None \notin Messages \cup Calls
ASSUME BoundsAssumption == CallLimit \in Nat /\ OtherTurns \in Nat /\ Faults \in Nat

VARIABLES
    active,    \* the thread's active_turn_id, 0 for none
    drafts,    \* its queued_follow_up_drafts, the next one first
    items,     \* messages it shows as items of the server
    overlays,  \* messages it shows as local overlays
    ipc,       \* the session came with IPC, so that its readers run
    authority, \* transport.authority of the server's entry
    hasIpc,    \* has_ipc of the server's entry
    failed,    \* transport.last_ipc_failure is set
    pending,   \* transport.pending_mutation: the call that began it, and
               \* whether to set the queue, or None
    link,      \* the session's IPC client is connected
    unread,    \* its connection state has changed since it was read
    call,      \* call -> how far it is
    seen,      \* call -> what it read at its beginning
    late,      \* IPC commands that timed out and may still be heard
    strays,    \* direct requests whose connection was lost and that the
               \* server may still take: the message, and the turn to steer
    sending,   \* the draft that the store listener is sending, or None
    taken,     \* the server has taken it
    events,    \* UI events on their way to the store listener
    turn,      \* the server's running turn, 0 for none
    turns,     \* the number of turns so far
    others,    \* how many of them another client started
    desk,      \* the queue of follow-ups the desktop holds
    casts,     \* its broadcasts of that queue on their way to the phone
    faults,    \* failures so far
    ran,       \* auxiliary: message -> how often the server took it
    shared,    \* auxiliary: messages that went out over IPC
    restored,  \* auxiliary: messages of a list read earlier that was written
               \* over a queue that had changed
    refused,   \* auxiliary: messages whose start the desktop refused
    unsure,    \* auxiliary: messages sent again, or given up, while the
               \* server may take or may have taken the first copy
    lagged     \* auxiliary: the channel of UI events has dropped some

threadVars == <<active, drafts, items, overlays>>
entryVars == <<authority, hasIpc, failed, pending>>
linkVars == <<ipc, link, unread>>
callVars == <<call, seen, late, strays>>
listenerVars == <<sending, taken>>
serverVars == <<turn, turns, others, events, ran>>
deskVars == <<desk, casts>>
auxVars == <<shared, restored, refused, unsure, lagged>>
vars == <<threadVars, entryVars, linkVars, callVars, listenerVars, serverVars,
          deskVars, faults, auxVars>>

Kind(c) == c[1]
Msg(c) == c[2]

Draft == [msg : Messages, kind : {"message", "steer"}]
Seen == [active : Nat, drafts : Seq(Draft), live : BOOLEAN]
Command == [starts : BOOLEAN, msg : Messages, drafts : Seq(Draft)]
Event == ({"started", "completed"} \X Nat) \cup ({"item"} \X (Messages \cup {None}))

(* Types, and the turn that runs is one of those that were started.        *)
TypeOK ==
    /\ active \in Nat
    /\ drafts \in Seq(Draft)
    /\ items \subseteq Messages
    /\ overlays \subseteq Messages
    /\ ipc \in BOOLEAN
    /\ authority \in {"primary", "recovering", "direct"}
    /\ hasIpc \in BOOLEAN
    /\ failed \in BOOLEAN
    /\ pending \in (Calls \X BOOLEAN) \cup {None}
    /\ link \in BOOLEAN
    /\ unread \in BOOLEAN
    /\ call \in [Calls -> {"idle", "read", "ipc", "heard", "direct", "taken", "done"}]
    /\ seen \in [Calls -> Seen]
    /\ late \subseteq Command
    /\ strays \subseteq Messages \X Nat
    /\ sending \in Messages \cup {None}
    /\ taken \in BOOLEAN
    /\ events \in Seq(Event)
    /\ turn \in 0..turns
    /\ turns \in Nat
    /\ others \in 0..OtherTurns
    /\ desk \in Seq(Draft)
    /\ casts \in Seq(Seq(Draft))
    /\ faults \in 0..Faults
    /\ ran \in [Messages -> Nat]
    /\ shared \subseteq Messages
    /\ restored \subseteq Messages
    /\ refused \subseteq Messages
    /\ unsure \subseteq Messages
    /\ lagged \in BOOLEAN

Nothing == [active |-> 0, drafts |-> <<>>, live |-> FALSE]

Init ==
    /\ active = 0
    /\ drafts = <<>>
    /\ items = {}
    /\ overlays = {}
    /\ ipc \in BOOLEAN
    /\ authority = IF ipc THEN "primary" ELSE "direct"
    /\ hasIpc = ipc
    /\ failed = FALSE
    /\ pending = None
    /\ link = ipc
    /\ unread = ipc
    /\ call = [c \in Calls |-> "idle"]
    /\ seen = [c \in Calls |-> Nothing]
    /\ late = {}
    /\ strays = {}
    /\ sending = None
    /\ taken = FALSE
    /\ events = <<>>
    /\ turn = 0
    /\ turns = 0
    /\ others = 0
    /\ desk = <<>>
    /\ casts = <<>>
    /\ faults = 0
    /\ ran = [m \in Messages |-> 0]
    /\ shared = {}
    /\ restored = {}
    /\ refused = {}
    /\ unsure = {}
    /\ lagged = FALSE

--------------------------------------------------------------------------------
(***************************************************************************)
(* Drafts.                                                                 *)
(***************************************************************************)

Msgs(list) == {list[i].msg : i \in DOMAIN list}

(* Mutant: nothing is taken away.                                          *)
WithoutFirstNever(list) == list

WithoutFirst(list) == IF list = <<>> THEN list ELSE Tail(list)

(* The places in S, all of them up to n, in order.                         *)
Places(S, n) ==
    CHOOSE f \in UNION {[1..k -> S] : k \in 0..n} :
        /\ \A i \in S : \E j \in DOMAIN f : f[j] = i
        /\ \A i, j \in DOMAIN f : i < j => f[i] < f[j]

(* What is left of a list that keeps the places in S.                      *)
Keep(list, S) ==
    LET f == Places(S, Len(list)) IN [j \in DOMAIN f |-> list[f[j]]]

Without(list, m) == Keep(list, {i \in DOMAIN list : list[i].msg # m})

Unsteered(list) == Keep(list, {i \in DOMAIN list : list[i].kind # "steer"})

MarkSteer(list, m) ==
    [i \in DOMAIN list |-> IF list[i].msg = m THEN [msg |-> m, kind |-> "steer"]
                                              ELSE list[i]]

(* The draft of start_turn waits, instead of a turn that starts at once.   *)
Waits(c) == Kind(c) = "send" /\ seen[c].active # 0

(* The queue that a call hands to the desktop, from what it read.          *)
NextDrafts(c) ==
    LET list == seen[c].drafts IN
    CASE Kind(c) = "send" -> Append(list, [msg |-> Msg(c), kind |-> "message"])
      [] Kind(c) = "steer" -> MarkSteer(list, Msg(c))
      [] Kind(c) = "delete" -> Without(list, Msg(c))

--------------------------------------------------------------------------------
(***************************************************************************)
(* The server and the desktop.                                             *)
(***************************************************************************)

(* Mutant: the new turn is not counted.                                    *)
RunUncounted(m) ==
    /\ ran' = [ran EXCEPT ![m] = @ + 1]
    /\ turn' = turns + 1
    /\ events' = events
    /\ UNCHANGED <<turns, others>>

(* Input joins the running turn, or starts one.  The server announces a    *)
(* user message twice: its item starts, and is completed.                  *)
Run(m) ==
    /\ ran' = [ran EXCEPT ![m] = @ + 1]
    /\ IF turn = 0
       THEN /\ turns' = turns + 1
            /\ turn' = turns + 1
            /\ events' = events \o <<<<"started", turns + 1>>, <<"item", m>>, <<"item", m>>>>
       ELSE /\ events' = events \o <<<<"item", m>>, <<"item", m>>>>
            /\ UNCHANGED <<turn, turns>>
    /\ UNCHANGED others

OtherTurn ==
    /\ turn = 0
    /\ others < OtherTurns
    /\ others' = others + 1
    /\ turns' = turns + 1
    /\ turn' = turns + 1
    /\ events' = events \o <<<<"started", turns + 1>>, <<"item", None>>, <<"item", None>>>>
    /\ UNCHANGED <<threadVars, entryVars, linkVars, callVars, listenerVars, ran, deskVars,
                   faults, auxVars>>

TurnEnds ==
    /\ turn # 0
    /\ turn' = 0
    /\ events' = Append(events, <<"completed", turn>>)
    /\ UNCHANGED <<threadVars, entryVars, linkVars, callVars, listenerVars, turns, others,
                   ran, deskVars, faults, auxVars>>

(* The desktop sends the next follow-up when no turn runs, and a steered   *)
(* one into the turn that runs.                                            *)
DeskSends ==
    /\ desk # <<>>
    /\ \E d \in {desk[i] : i \in DOMAIN desk} :
          /\ IF turn = 0 THEN d = Head(desk) ELSE d.kind = "steer"
          /\ Run(d.msg)
          /\ desk' = Without(desk, d.msg)
    /\ casts' = Append(casts, desk')
    /\ UNCHANGED <<threadVars, entryVars, linkVars, callVars, listenerVars, faults, auxVars>>

(* The IPC command of a call: to start a turn, or to replace the queue.    *)
IpcCommand(c) ==
    [starts |-> Kind(c) = "send" /\ ~Waits(c), msg |-> Msg(c), drafts |-> NextDrafts(c)]

Hear(command) ==
    IF command.starts
    THEN Run(command.msg) /\ UNCHANGED deskVars
    ELSE /\ desk' = command.drafts
         /\ casts' = Append(casts, desk')
         /\ UNCHANGED serverVars

DeskHears(c) ==
    /\ call[c] = "ipc"
    /\ link
    /\ Hear(IpcCommand(c))
    /\ call' = [call EXCEPT ![c] = "heard"]
    /\ UNCHANGED <<threadVars, entryVars, linkVars, seen, late, strays, listenerVars, faults, auxVars>>

DeskHearsLate ==
    /\ \E command \in late : Hear(command) /\ late' = late \ {command}
    /\ UNCHANGED <<threadVars, entryVars, linkVars, call, seen, strays, listenerVars, faults, auxVars>>

--------------------------------------------------------------------------------
(***************************************************************************)
(* The transport of the server's entry.                                    *)
(***************************************************************************)

Live == link /\ hasIpc /\ authority = "primary"

UpdateIpc(v) ==
    /\ authority' = IF v /\ (authority = "recovering" \/ (authority = "direct" /\ ~failed))
                    THEN "primary" ELSE authority
    /\ failed' = (failed /\ ~(v /\ authority = "recovering"))
    /\ hasIpc' = (v /\ authority' = "primary")
    /\ UNCHANGED pending

FailOver ==
    /\ authority' = "direct"
    /\ failed' = TRUE
    /\ hasIpc' = FALSE

Fault ==
    /\ faults < Faults
    /\ faults' = faults + 1

DropLink ==
    /\ link' = FALSE
    /\ unread' = (unread \/ link)
    /\ casts' = <<>>
    /\ UNCHANGED <<ipc, desk>>

LinkDown ==
    /\ link
    /\ Fault
    /\ DropLink
    /\ UNCHANGED <<threadVars, entryVars, callVars, listenerVars, serverVars, auxVars>>

LinkUp ==
    /\ ipc
    /\ ~link
    /\ link' = TRUE
    /\ unread' = TRUE
    /\ UNCHANGED <<threadVars, entryVars, ipc, callVars, listenerVars, serverVars, deskVars,
                   faults, auxVars>>

ReadLink ==
    /\ unread
    /\ unread' = FALSE
    /\ UpdateIpc(link)
    /\ UNCHANGED <<threadVars, ipc, link, callVars, listenerVars, serverVars, deskVars,
                   faults, auxVars>>

(* Another client joins or leaves the bus; or the reader of a session that *)
(* was replaced, which never looks whether it is current, writes its last. *)
PeerStatus ==
    /\ ipc
    /\ Fault
    /\ \E v \in BOOLEAN : UpdateIpc(v)
    /\ UNCHANGED <<threadVars, linkVars, callVars, listenerVars, serverVars, deskVars, auxVars>>

(* A thread is opened while the server is direct-only and idle.            *)
Reopen ==
    /\ authority = "direct"
    /\ active = 0
    /\ Fault
    /\ authority' = "recovering"
    /\ hasIpc' = FALSE
    /\ DropLink
    /\ UNCHANGED <<threadVars, failed, pending, callVars, listenerVars, serverVars, auxVars>>

(* A queue that the desktop announces replaces the phone's, except an      *)
(* empty one while the phone's own change of it is pending.                *)
KeepsLocal(list) ==
    /\ list = <<>>
    /\ pending # None
    /\ pending[2]
    /\ active # 0
    /\ drafts # <<>>

CastArrives ==
    /\ casts # <<>>
    /\ casts' = Tail(casts)
    /\ drafts' = IF authority # "primary" \/ KeepsLocal(Head(casts)) THEN drafts
                                                                     ELSE Head(casts)
    /\ UNCHANGED <<active, items, overlays, entryVars, linkVars, callVars, listenerVars,
                   serverVars, desk, faults, auxVars>>

--------------------------------------------------------------------------------
(***************************************************************************)
(* Calls.                                                                  *)
(***************************************************************************)

Become(c, p) ==
    /\ call' = [call EXCEPT ![c] = p]
    /\ seen' = IF p = "done" THEN [seen EXCEPT ![c] = Nothing] ELSE seen

Begin(c) ==
    /\ call[c] = "idle"
    /\ Cardinality({d \in Calls : call[d] # "idle"}) < CallLimit
    /\ ipc => c \in IpcCalls
    /\ Kind(c) # "send" => Msg(c) \in Msgs(drafts)
    /\ call' = [call EXCEPT ![c] = "read"]
    /\ seen' = [seen EXCEPT ![c] = [active |-> active, drafts |-> drafts, live |-> Live]]
    /\ UNCHANGED <<threadVars, entryVars, linkVars, late, strays, listenerVars, serverVars, deskVars,
                   faults, auxVars>>

(* A list read earlier is written over what the queue has become.          *)
WriteBack(c) ==
    /\ drafts' = NextDrafts(c)
    /\ restored' = IF drafts = seen[c].drafts THEN restored
                                              ELSE restored \cup Msgs(NextDrafts(c))

(* What is left to do without IPC; p is the pending mutation so far.       *)
GoDirect(c, p) ==
    \/ /\ Waits(c) \/ (Kind(c) = "steer" /\ seen[c].active = 0)
       /\ Become(c, "done")
       /\ pending' = p
       /\ UNCHANGED <<drafts, restored>>
    \/ /\ Kind(c) = "send" /\ ~Waits(c)
       /\ Become(c, "direct")
       /\ pending' = <<c, Waits(c)>>
       /\ UNCHANGED <<drafts, restored>>
    \/ /\ Kind(c) = "steer" /\ seen[c].active # 0
       /\ Become(c, "direct")
       /\ pending' = <<c, Waits(c)>>
       /\ drafts' = MarkSteer(drafts, Msg(c))
       /\ UNCHANGED restored
    \/ /\ Kind(c) = "delete"
       /\ Become(c, "done")
       /\ pending' = None
       /\ WriteBack(c)

(* start_turn queues its message or shows it; then the command goes out.   *)
Dispatch(c) ==
    /\ call[c] = "read"
    /\ overlays' = overlays \cup {m \in {Msg(c)} : Kind(c) = "send" /\ ~Waits(c)}
    /\ IF seen[c].live
       THEN /\ Become(c, "ipc")
            /\ pending' = <<c, Waits(c)>>
            /\ shared' = shared \cup Msgs(NextDrafts(c)) \cup {Msg(c)}
            /\ drafts' = IF Waits(c) THEN Append(drafts, [msg |-> Msg(c), kind |-> "message"])
                                     ELSE drafts
            /\ UNCHANGED restored
       ELSE /\ UNCHANGED shared
            /\ IF Waits(c)
               THEN /\ Become(c, "done")
                    /\ drafts' = Append(drafts, [msg |-> Msg(c), kind |-> "message"])
                    /\ UNCHANGED <<pending, restored>>
               ELSE GoDirect(c, pending)
    /\ UNCHANGED <<active, items, authority, hasIpc, failed, linkVars, late, strays,
                   listenerVars, serverVars, deskVars, faults, refused, unsure, lagged>>

Finished(c) == IF pending # None /\ pending[1] = c THEN None ELSE pending

IpcOk(c) ==
    /\ call[c] = "heard"
    /\ link
    /\ pending' = IF Kind(c) = "delete" THEN None ELSE Finished(c)
    /\ IF Kind(c) = "send" THEN UNCHANGED <<drafts, restored>> ELSE WriteBack(c)
    /\ Become(c, "done")
    /\ UNCHANGED <<active, items, overlays, authority, hasIpc, failed, linkVars, late, strays,
                   listenerVars, serverVars, deskVars, faults, shared, refused, unsure, lagged>>

(* The desktop does not answer in time; it may have the command, or get it *)
(* yet.                                                                    *)
IpcTimeout(c) ==
    /\ call[c] \in {"ipc", "heard"}
    /\ Fault
    /\ late' \in IF call[c] = "ipc" THEN {late, late \cup {IpcCommand(c)}} ELSE {late}
    /\ GoDirect(c, pending)
    /\ UNCHANGED <<active, items, overlays, authority, hasIpc, failed, linkVars,
                   strays, listenerVars, serverVars, deskVars, shared, refused, unsure,
                   lagged>>

(* No client handles it, or the link is lost: the server fails over.       *)
IpcGone(c) ==
    /\ call[c] \in {"ipc", "heard"}
    /\ IF link THEN Fault ELSE UNCHANGED faults
    /\ FailOver
    /\ DropLink
    /\ GoDirect(c, None)
    /\ UNCHANGED <<active, items, overlays, late, strays, listenerVars, serverVars,
                   shared, refused, unsure, lagged>>

(* The IPC client is away when the command is to be sent.                  *)
IpcAbsent(c) ==
    /\ call[c] = "ipc"
    /\ ~link
    /\ GoDirect(c, pending)
    /\ UNCHANGED <<active, items, overlays, authority, hasIpc, failed, linkVars, late, strays,
                   listenerVars, serverVars, deskVars, faults, shared, refused, unsure, lagged>>

(* Any other error ends the call and leaves the rest as it is.             *)
IpcRefused(c) ==
    /\ call[c] = "ipc"
    /\ link
    /\ Fault
    /\ Become(c, "done")
    /\ refused' = refused \cup {m \in {Msg(c)} : Kind(c) = "send"}
    /\ UNCHANGED <<threadVars, entryVars, linkVars, late, strays, listenerVars, serverVars,
                   deskVars, shared, restored, unsure, lagged>>

(* turn/start, and turn/steer of the turn that was read.                   *)
ServerTakes(c) ==
    /\ call[c] = "direct"
    /\ Kind(c) = "steer" => turn = seen[c].active
    /\ Run(Msg(c))
    /\ Become(c, "taken")
    /\ UNCHANGED <<threadVars, entryVars, linkVars, late, strays, listenerVars, deskVars, faults,
                   auxVars>>

DirectOk(c) ==
    /\ call[c] = "taken"
    /\ Become(c, "done")
    /\ pending' = Finished(c)
    /\ UNCHANGED <<threadVars, authority, hasIpc, failed, linkVars, late, strays, listenerVars,
                   serverVars, deskVars, faults, auxVars>>

SteerRejected(c) ==
    /\ call[c] = "direct"
    /\ Kind(c) = "steer"
    /\ turn # seen[c].active
    /\ Become(c, "done")
    /\ UNCHANGED <<threadVars, entryVars, linkVars, late, strays, listenerVars, serverVars,
                   deskVars, faults, auxVars>>

(* The connection is lost under a request: its copy stays on the way to    *)
(* the server, or the server has it already.                               *)
Doubted(m, of, has) ==
    /\ strays' = IF has THEN strays ELSE strays \cup {<<m, of>>}
    /\ unsure' = unsure \cup {m}
    /\ UNCHANGED <<shared, restored, refused, lagged>>

(* The worker has lost the connection, and sends the request again over    *)
(* the next one.  It does so once for a request; here Faults is the limit. *)
(* When the first copy was lost with the connection nothing changes.       *)
Resend(c) ==
    /\ call[c] \in {"direct", "taken"}
    /\ Fault
    /\ Doubted(Msg(c), seen[c].active, call[c] = "taken")
    /\ Become(c, "direct")
    /\ UNCHANGED <<threadVars, entryVars, linkVars, late, listenerVars, serverVars, deskVars>>

StrayTaken ==
    /\ \E s \in strays :
          /\ s[2] # 0 => turn = s[2]
          /\ Run(s[1])
          /\ strays' = strays \ {s}
    /\ UNCHANGED <<threadVars, entryVars, linkVars, call, seen, late, listenerVars, deskVars,
                   faults, auxVars>>

(* What a request that ends in an error leaves: it was taken, it was not,  *)
(* or that will be seen.                                                   *)
GivenUp(m, of, has) ==
    \/ UNCHANGED <<strays, auxVars>>
    \/ ~has /\ Doubted(m, of, has)

(* Mutant: the overlay stays.                                              *)
DirectFailsShown(c) ==
    /\ call[c] \in {"direct", "taken"}
    /\ Fault
    /\ Become(c, "done")
    /\ GivenUp(Msg(c), seen[c].active, call[c] = "taken")
    /\ UNCHANGED <<threadVars, entryVars, linkVars, late, listenerVars, serverVars, deskVars>>

(* The request fails, at the transport or not, taken or not.               *)
DirectFails(c) ==
    /\ call[c] \in {"direct", "taken"}
    /\ Fault
    /\ Become(c, "done")
    /\ overlays' = overlays \ {m \in {Msg(c)} : Kind(c) = "send"}
    /\ \/ FailOver /\ pending' = None
       \/ UNCHANGED entryVars
    /\ GivenUp(Msg(c), seen[c].active, call[c] = "taken")
    /\ UNCHANGED <<active, drafts, items, linkVars, late, listenerVars, serverVars, deskVars>>

--------------------------------------------------------------------------------
(***************************************************************************)
(* The store listener.                                                     *)
(***************************************************************************)

ApplyStarted(t) ==
    /\ active' = t
    /\ drafts' = WithoutFirst(drafts)
    /\ UNCHANGED <<items, overlays, listenerVars>>

(* Mutant: the overlay of the message is not superseded.                   *)
ApplyItemBeside(m) ==
    /\ items' = items \cup ({m} \ {None})
    /\ drafts' = WithoutFirst(drafts)
    /\ UNCHANGED <<active, overlays, listenerVars>>

(* The item of a user message replaces its overlay.                        *)
ApplyItem(m) ==
    /\ items' = items \cup ({m} \ {None})
    /\ overlays' = overlays \ {m}
    /\ drafts' = WithoutFirst(drafts)
    /\ UNCHANGED <<active, listenerVars>>

(* Mutant: the turn counts as running while drafts are left.               *)
ApplyCompletedKeepsTurn ==
    /\ active' = IF drafts = <<>> THEN 0 ELSE active
    /\ drafts' = Unsteered(drafts)
    /\ sending' = IF drafts' = <<>> \/ (link /\ hasIpc) THEN None ELSE Head(drafts').msg
    /\ taken' = FALSE
    /\ UNCHANGED <<items, overlays>>

(* With the turn over, and unless the desktop is to do it, the listener    *)
(* sends the next draft before it takes another event.                     *)
ApplyCompleted ==
    /\ active' = 0
    /\ drafts' = Unsteered(drafts)
    /\ sending' = IF drafts' = <<>> \/ (link /\ hasIpc) THEN None ELSE Head(drafts').msg
    /\ taken' = FALSE
    /\ UNCHANGED <<items, overlays>>

ApplyEvent ==
    /\ sending = None
    /\ events # <<>>
    /\ events' = Tail(events)
    /\ LET e == Head(events) IN
       \/ e[1] = "started" /\ ApplyStarted(e[2])
       \/ e[1] = "item" /\ ApplyItem(e[2])
       \/ e[1] = "completed" /\ ApplyCompleted
    /\ UNCHANGED <<entryVars, linkVars, callVars, turn, turns, others, ran, deskVars, faults,
                   auxVars>>

(* The channel has 256 places.  A listener that falls behind misses the    *)
(* oldest events, and goes on with the rest.                               *)
Lag ==
    /\ Fault
    /\ \E n \in 1..Len(events) : events' = SubSeq(events, n + 1, Len(events))
    /\ lagged' = TRUE
    /\ UNCHANGED <<threadVars, entryVars, linkVars, callVars, listenerVars, turn, turns, others,
                   ran, deskVars, shared, restored, refused, unsure>>

AutosendTaken ==
    /\ sending # None
    /\ ~taken
    /\ Run(sending)
    /\ taken' = TRUE
    /\ UNCHANGED <<threadVars, entryVars, linkVars, callVars, sending, deskVars, faults, auxVars>>

AutosendResent ==
    /\ sending # None
    /\ Fault
    /\ Doubted(sending, 0, taken)
    /\ taken' = FALSE
    /\ UNCHANGED <<threadVars, entryVars, linkVars, call, seen, late, sending, serverVars,
                   deskVars>>

AutosendEnds ==
    /\ sending # None
    /\ \/ taken /\ UNCHANGED <<faults, strays, auxVars>>
       \/ Fault /\ GivenUp(sending, 0, taken)
    /\ sending' = None
    /\ taken' = FALSE
    /\ UNCHANGED <<threadVars, entryVars, linkVars, call, seen, late, serverVars, deskVars>>

--------------------------------------------------------------------------------
CallStep(c) ==
    \/ Dispatch(c)
    \/ IpcOk(c)
    \/ IpcGone(c)
    \/ IpcAbsent(c)

(* The server's part of a direct request, and the worker's.                *)
ServerStep(c) ==
    \/ ServerTakes(c)
    \/ DirectOk(c)
    \/ SteerRejected(c)
    \/ Resend(c)
    \/ DirectFails(c)

Next ==
    \/ OtherTurn
    \/ TurnEnds
    \/ DeskSends
    \/ DeskHearsLate
    \/ LinkDown
    \/ LinkUp
    \/ ReadLink
    \/ PeerStatus
    \/ Reopen
    \/ CastArrives
    \/ ApplyEvent
    \/ Lag
    \/ AutosendTaken
    \/ AutosendResent
    \/ AutosendEnds
    \/ StrayTaken
    \/ \E c \in Calls :
          \/ Begin(c)
          \/ DeskHears(c)
          \/ CallStep(c)
          \/ ServerStep(c)
          \/ IpcTimeout(c)
          \/ IpcRefused(c)

Spec == Init /\ [][Next]_vars

(* Calls go on when they can, and an IPC command is heard or times out:    *)
(* each call is made once, so one fairness is enough for all.  The         *)
(* listener and the reader of the connection state run.  Nothing makes the *)
(* server answer a direct request, and no time-out ends the wait for it:   *)
(* neither the call's nor the listener's.                                  *)
FairSpec ==
    /\ Spec
    /\ WF_vars(\E c \in Calls : CallStep(c) \/ DeskHears(c) \/ IpcTimeout(c))
    /\ WF_vars(ApplyEvent)
    /\ WF_vars(ReadLink)

--------------------------------------------------------------------------------
(***************************************************************************)
(* Properties.                                                             *)
(***************************************************************************)

(* The server gets a message twice only if the desktop was given it too,   *)
(* or a list read earlier with it was written over a queue that had        *)
(* changed, or a transport error left its request in doubt, or the channel *)
(* has lagged: autosending, steering and starting do not repeat one        *)
(* another.                                                                *)
RunsOnce == lagged \/ \A m \in Messages : ran[m] > 1 => m \in shared \cup restored \cup unsure

(* A message is not shown both as an item of the server and as a local     *)
(* overlay (the duplicate-user-message bug that apply_item_update logs).   *)
NoDoubleBubble == items \cap overlays = {}

(* What the app-server is trusted for: the answer the listener waits for   *)
(* comes, and a call's request is taken, refused or lost.                  *)
AutosendsEnd == []<>(sending = None)
RequestsEnd == []<>(\A c \in Calls : call[c] # "direct")

(* A local overlay does not stay: the item replaces it or the failure of   *)
(* the call removes it, unless the desktop refused to start the turn or    *)
(* the channel has lagged.  This needs the server's answers: the call's    *)
(* own, and that to whatever draft the one listener is sending.            *)
OverlayEnds ==
    AutosendsEnd /\ RequestsEnd =>
        \A m \in Messages :
            (m \in overlays) ~> (m \notin overlays \/ m \in refused \/ lagged)

(* The end of a turn reaches the thread, also when the listener is busy    *)
(* sending a draft or that fails, provided that ends and the channel does  *)
(* not lag.  No request of a call can hold it up.                          *)
TurnEndIsShown == AutosendsEnd => ((turn = 0) ~> (active = 0 \/ turn # 0 \/ lagged))
================================================================================
