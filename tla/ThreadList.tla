------------------------------ MODULE ThreadList ------------------------------
(***************************************************************************)
(* The threads of one server in the app store: the pages of thread/list    *)
(* that its callers apply, the pruning of what was not on them, and the    *)
(* server's events, which arrive in between and in any order relative to   *)
(* the answers.                                                            *)
(*                                                                         *)
(* Kinds of calls: "fanout", list_threads without a filter, which reads    *)
(* every page of every runtime at once and prunes; "search", list_threads  *)
(* with a limit or a search term, one page and no pruning; "refresh", after *)
(* a broadcast of the desktop, one runtime after the other; "tool", the    *)
(* assistant's list_sessions, one limited page of the Codex runtime.       *)
(***************************************************************************)
EXTENDS Naturals, Sequences, FiniteSets

CONSTANTS
    None,
    Threads,
    Runtimes,
    Codex,
    RuntimeOf,  \* thread -> the runtime that has it
    Calls,      \* each made once
    Kinds,      \* call -> the kinds it may be of
    ToolLimit,  \* the limit of the tool's page
    MaxChanges  \* bound: steps of the server other than its answers

ASSUME RuntimesAssumption == Codex \in Runtimes /\ RuntimeOf \in [Threads -> Runtimes]
CallKinds == {"fanout", "search", "refresh", "tool"}

ASSUME KindsAssumption == Kinds \in [Calls -> SUBSET CallKinds]
ASSUME NoneAssumption == None \notin Threads \cup CallKinds
ASSUME BoundsAssumption == ToolLimit \in Nat /\ MaxChanges \in Nat

VARIABLES
    life,    \* thread -> what the server has of it
    running, \* threads with a turn that runs
    away,    \* threads whose status there is NotLoaded or SystemError
    asking,  \* threads whose turn waits for an approval
    changes, \* steps of the server so far
    events,  \* notifications that the store has not folded yet
    listed,  \* store: the threads of the snapshot
    turn,    \* store: those with an active_turn_id
    shown,   \* store: those whose status is Active
    unloaded, \* store: those whose status is NotLoaded or SystemError
    asks,    \* store: threads that a pending approval is about
    active,  \* store: active_thread
    kind, pc, \* per call
    todo,    \* call -> runtimes it has not come to
    open,    \* call -> runtimes whose next page it awaits
    page,    \* call -> runtime -> the answer that has arrived, or None
    got,     \* call -> ids of the pages applied so far, if it prunes by them
    bad,     \* call -> it is a fan-out of which a runtime did not complete
    span,    \* auxiliary: call -> threads the server listed all the while
    calm     \* auxiliary: call -> the server's list did not change meanwhile,
             \* and nothing else took threads out of the store

serverVars == <<life, running, away, asking, changes>>
storeVars == <<listed, turn, shown, unloaded, asks, active>>
callVars == <<kind, pc, todo, open, page, got, bad>>
auxVars == <<span, calm>>
vars == <<serverVars, events, storeVars, callVars, auxVars>>

Listed == {t \in Threads : life[t] = "listed"}
Of(r) == {t \in Threads : RuntimeOf[t] = r}

Page == [ids : SUBSET Threads, running : SUBSET Threads, unloaded : SUBSET Threads, more : BOOLEAN]

EventNames == {"started", "archived", "active", "idle", "unloaded", "turnStarted",
               "turnCompleted", "ask", "resolved"}
Event == [name : EventNames, thread : Threads]

(* Types; what the store keeps about threads is about threads it has, and  *)
(* the thread on the screen is one of them.                                *)
TypeOK ==
    /\ life \in [Threads -> {"none", "started", "listed", "archived"}]
    /\ running \subseteq Threads /\ away \subseteq Threads /\ asking \subseteq Threads
    /\ changes \in 0..MaxChanges
    /\ events \in Seq(Event)
    /\ listed \subseteq Threads /\ turn \subseteq listed
    /\ shown \subseteq listed /\ unloaded \subseteq listed \ shown
    /\ asks \subseteq Threads
    /\ active \in listed \cup {None}
    /\ kind \in [Calls -> CallKinds \cup {None}]
    /\ pc \in [Calls -> {"idle", "listing", "ended"}]
    /\ todo \in [Calls -> SUBSET Runtimes] /\ open \in [Calls -> SUBSET Runtimes]
    /\ page \in [Calls -> [Runtimes -> Page \cup {None}]]
    /\ got \in [Calls -> SUBSET Threads] /\ span \in [Calls -> SUBSET Threads]
    /\ bad \in [Calls -> BOOLEAN] /\ calm \in [Calls -> BOOLEAN]

(* The phone has just connected; turns of other clients may run.            *)
Init ==
    /\ life \in [Threads -> {"none", "listed"}]
    /\ running \in SUBSET Listed /\ away \in SUBSET Listed /\ asking \in SUBSET running
    /\ changes = 0 /\ events = <<>>
    /\ listed = {} /\ turn = {} /\ shown = {} /\ unloaded = {} /\ asks = {} /\ active = None
    /\ kind = [c \in Calls |-> None]
    /\ pc = [c \in Calls |-> "idle"]
    /\ todo = [c \in Calls |-> {}]
    /\ open = [c \in Calls |-> {}]
    /\ page = [c \in Calls |-> [r \in Runtimes |-> None]]
    /\ got = [c \in Calls |-> {}]
    /\ bad = [c \in Calls |-> FALSE]
    /\ span = [c \in Calls |-> {}]
    /\ calm = [c \in Calls |-> FALSE]

--------------------------------------------------------------------------------
(* The server.  A thread may be announced before a page has it, and what   *)
(* another client does to it may be announced or not.                      *)

ServerStep == changes < MaxChanges /\ changes' = changes + 1

Announce(name, t) == events' = Append(events, [name |-> name, thread |-> t])

ListChanges ==
    /\ span' = [c \in Calls |-> {t \in span[c] : life'[t] = "listed"}]
    /\ calm' = [c \in Calls |-> FALSE]

Start(t) ==
    /\ ServerStep
    /\ life[t] = "none"
    /\ life' = [life EXCEPT ![t] = "started"]
    /\ Announce("started", t)
    /\ UNCHANGED <<running, away, asking, storeVars, callVars, auxVars>>

Materialise(t) ==
    /\ ServerStep
    /\ life[t] \in {"none", "started"}
    /\ life' = [life EXCEPT ![t] = "listed"]
    /\ ListChanges
    /\ UNCHANGED <<running, away, asking, events, storeVars, callVars>>

Archive(t) ==
    /\ ServerStep
    /\ life[t] = "listed"
    /\ life' = [life EXCEPT ![t] = "archived"]
    /\ running' = running \ {t} /\ away' = away \ {t} /\ asking' = asking \ {t}
    /\ Announce("archived", t) \/ UNCHANGED events
    /\ ListChanges
    /\ UNCHANGED <<storeVars, callVars>>

TurnStarts(t) ==
    /\ ServerStep
    /\ life[t] = "listed" /\ t \notin running
    /\ running' = running \cup {t} /\ away' = away \ {t}
    /\ Announce("turnStarted", t)
    /\ UNCHANGED <<life, asking, storeVars, callVars, auxVars>>

TurnEnds(t) ==
    /\ ServerStep
    /\ t \in running \ asking
    /\ running' = running \ {t}
    /\ Announce("turnCompleted", t)
    /\ UNCHANGED <<life, away, asking, storeVars, callVars, auxVars>>

(* A thread may be NotLoaded or in SystemError though its turn runs.       *)
StatusChanges(t) ==
    /\ ServerStep
    /\ life[t] = "listed"
    /\ \/ Announce(IF t \in running THEN "active" ELSE "idle", t) /\ away' = away \ {t}
       \/ Announce("unloaded", t) /\ away' = away \cup {t}
    /\ UNCHANGED <<life, running, asking, storeVars, callVars, auxVars>>

Ask(t) ==
    /\ ServerStep
    /\ t \in running \ asking
    /\ asking' = asking \cup {t}
    /\ Announce("ask", t)
    /\ UNCHANGED <<life, running, away, storeVars, callVars, auxVars>>

Settle(t) ==
    /\ ServerStep
    /\ t \in asking
    /\ asking' = asking \ {t}
    /\ Announce("resolved", t)
    /\ UNCHANGED <<life, running, away, storeVars, callVars, auxVars>>

--------------------------------------------------------------------------------
(* The store: one action or operator per hold of its lock.                 *)

(* Threads are taken out, other than at the end of a call that is calm.    *)
Removes == calm' = [c \in Calls |-> FALSE]

(* remove_thread, of a thread that was archived.                           *)
RemoveThread(t) ==
    /\ listed' = listed \ {t}
    /\ turn' = turn \ {t}
    /\ shown' = shown \ {t}
    /\ unloaded' = unloaded \ {t}
    /\ asks' = asks \ {t}
    /\ active' = IF active = t THEN None ELSE active

(* upsert_or_merge_thread: metadata, which cannot close a turn: the status *)
(* Idle, and only Idle, does not replace that of a thread with a turn.     *)
MergeStatus(t, status) ==
    LET kept == status = "idle" /\ t \in turn
    IN  /\ listed' = listed \cup {t}
        /\ shown' = IF kept THEN shown ELSE (shown \ {t}) \cup {u \in {t} : status = "active"}
        /\ unloaded' =
              IF kept THEN unloaded ELSE (unloaded \ {t}) \cup {u \in {t} : status = "unloaded"}
        /\ UNCHANGED <<turn, asks, active>>

(* Turn events are for threads the store has.                              *)
MutateTurn(t, runs) ==
    IF t \in listed
    THEN /\ turn' = IF runs THEN turn \cup {t} ELSE turn \ {t}
         /\ shown' = IF runs THEN shown \cup {t} ELSE shown \ {t}
         /\ unloaded' = unloaded \ {t}
         /\ UNCHANGED <<listed, asks, active>>
    ELSE UNCHANGED storeVars

ApplyEvent ==
    /\ events # <<>>
    /\ events' = Tail(events)
    /\ LET name == Head(events).name
           t == Head(events).thread
       IN  /\ \/ name = "archived" /\ RemoveThread(t)
              \/ name = "started" /\ MergeStatus(t, "active")
              \/ name \in {"active", "idle", "unloaded"} /\ MergeStatus(t, name)
              \/ name = "turnStarted" /\ MutateTurn(t, TRUE)
              \/ name = "turnCompleted" /\ MutateTurn(t, FALSE)
              \/ name = "ask" /\ asks' = asks \cup {t} /\ UNCHANGED <<listed, turn, shown, unloaded, active>>
              \/ name = "resolved" /\ asks' = asks \ {t} /\ UNCHANGED <<listed, turn, shown, unloaded, active>>
           /\ IF name = "archived" THEN Removes ELSE UNCHANGED calm
    /\ UNCHANGED <<serverVars, callVars, span>>

SetActive(t) ==
    /\ t # active
    /\ active' = t
    /\ UNCHANGED <<serverVars, events, listed, turn, shown, unloaded, asks, callVars, auxVars>>

(* Whatever is not to be kept goes, except the thread on the screen.       *)
Unkept(keep) == listed \ (keep \cup {active})

(* Mutant: an empty list is taken for a failure.                           *)
PruneSome(keep) ==
    LET gone == IF keep = {} THEN {} ELSE Unkept(keep)
    IN  /\ listed' = listed \ gone
        /\ turn' = turn \ gone
        /\ shown' = shown \ gone
        /\ unloaded' = unloaded \ gone
        /\ asks' = asks \ gone
        /\ UNCHANGED active

(* finalize_thread_list_sync: their pending approvals go with them.        *)
Prune(keep) ==
    /\ listed' = listed \ Unkept(keep)
    /\ turn' = turn \ Unkept(keep)
    /\ shown' = shown \ Unkept(keep)
    /\ unloaded' = unloaded \ Unkept(keep)
    /\ asks' = asks \ Unkept(keep)
    /\ UNCHANGED active

(* upsert_thread_list_page: a thread is built anew from the page, with its *)
(* status there and no turn.                                               *)
UpsertPage(p) ==
    /\ listed' = listed \cup p.ids
    /\ turn' = turn \ p.ids
    /\ shown' = (shown \ p.ids) \cup p.running
    /\ unloaded' = (unloaded \ p.ids) \cup p.unloaded
    /\ UNCHANGED <<asks, active>>

(* Mutant: the status of the page is taken as it is.                       *)
SyncPageBlindly(p) ==
    /\ listed' = (listed \ Unkept(p.ids)) \cup p.ids
    /\ turn' = turn \ Unkept(p.ids)
    /\ shown' = (shown \ (Unkept(p.ids) \cup p.ids)) \cup p.running
    /\ unloaded' = (unloaded \ (Unkept(p.ids) \cup p.ids)) \cup p.unloaded
    /\ asks' = asks \ Unkept(p.ids)
    /\ UNCHANGED active

(* sync_thread_list: both in one step, and a thread with an active turn    *)
(* keeps its status where the page has Idle.                               *)
SyncPage(p) ==
    LET idle == p.ids \ (p.running \cup p.unloaded)
        replaced == Unkept(p.ids) \cup (p.ids \ (idle \cap turn))
    IN  /\ listed' = (listed \ Unkept(p.ids)) \cup p.ids
        /\ turn' = turn \ Unkept(p.ids)
        /\ shown' = (shown \ replaced) \cup p.running
        /\ unloaded' = (unloaded \ replaced) \cup p.unloaded
        /\ asks' = asks \ Unkept(p.ids)
        /\ UNCHANGED active

--------------------------------------------------------------------------------
(* The calls.                                                              *)

(* These read every page, and tell deletions by what was on none.          *)
Drains(k) == k \in {"fanout", "refresh"}

(* The broadcast loop awaits its refresh, so there is one at a time.       *)
Begin(c, k) ==
    /\ pc[c] = "idle"
    /\ k = "refresh" => \A d \in Calls : ~(pc[d] = "listing" /\ kind[d] = "refresh")
    /\ pc' = [pc EXCEPT ![c] = "listing"]
    /\ kind' = [kind EXCEPT ![c] = k]
    /\ \E rs \in SUBSET Runtimes \ {{}} :
          /\ k = "fanout" => rs = Runtimes
          /\ k = "refresh" => Cardinality(rs) = 1
          /\ k = "tool" => rs = {Codex}
          /\ open' = [open EXCEPT ![c] = rs]
          /\ todo' = [todo EXCEPT ![c] = IF k = "refresh" THEN Runtimes \ rs ELSE {}]
    /\ got' = [got EXCEPT ![c] = {}]
    /\ bad' = [bad EXCEPT ![c] = FALSE]
    /\ span' = [span EXCEPT ![c] = IF Drains(k) THEN Listed ELSE {}]
    /\ calm' = [calm EXCEPT ![c] = k = "fanout"]
    /\ UNCHANGED <<serverVars, events, storeVars, page>>

(* A fan-out prunes only if every runtime completed, a refresh always.     *)
Prunes(c) == kind[c] \in {"refresh", "tool"} \/ (kind[c] = "fanout" /\ ~bad[c])

(* It returns, and what it kept is gone.                                   *)
EndCall(c) ==
    /\ pc' = [pc EXCEPT ![c] = "ended"]
    /\ kind' = [kind EXCEPT ![c] = None]
    /\ got' = [got EXCEPT ![c] = {}]
    /\ bad' = [bad EXCEPT ![c] = FALSE]
    /\ span' = [span EXCEPT ![c] = {}]
    /\ calm' = [d \in Calls |-> calm[d] /\ d # c /\ ~Prunes(c)]

(* What a server may answer: some of the threads it lists that it has not  *)
(* sent yet, the last page with the rest of those it had from the start;   *)
(* for a search what matches; for the tool as many as the limit allows.    *)
CanAnswer(c, r, ids, more) ==
    LET rest == (Listed \cap Of(r)) \ got[c]
    IN  CASE Drains(kind[c]) ->
                /\ ids \subseteq rest
                /\ IF more THEN ids \notin {{}, rest} ELSE span[c] \cap Of(r) \subseteq got[c] \cup ids
          [] kind[c] = "search" -> ids \subseteq Listed \cap Of(r) /\ ~more
          [] kind[c] = "tool" ->
                /\ ids \subseteq Listed \cap Of(r) /\ ~more
                /\ \/ ids = Listed \cap Of(r) /\ Cardinality(ids) <= ToolLimit
                   \/ Cardinality(Listed \cap Of(r)) > ToolLimit /\ Cardinality(ids) = ToolLimit

Respond(c, r) ==
    /\ r \in open[c] /\ page[c][r] = None
    /\ \E ids \in SUBSET Threads, more \in BOOLEAN :
          /\ CanAnswer(c, r, ids, more)
          /\ page' = [page EXCEPT ![c][r] =
                         [ids |-> ids, running |-> ids \cap (running \ away),
                          unloaded |-> ids \cap away, more |-> more]]
    /\ UNCHANGED <<serverVars, events, storeVars, kind, pc, todo, open, got, bad, auxVars>>

(* A runtime is done with; a refresh goes on to another one.               *)
LeaveRuntime(c, r) ==
    IF todo[c] = {}
    THEN open' = [open EXCEPT ![c] = @ \ {r}] /\ UNCHANGED todo
    ELSE \E next \in todo[c] :
            /\ open' = [open EXCEPT ![c] = (@ \ {r}) \cup {next}]
            /\ todo' = [todo EXCEPT ![c] = @ \ {next}]

ApplyPage(c, r) ==
    /\ r \in open[c] /\ page[c][r] # None
    /\ kind[c] # "tool"
    /\ UpsertPage(page[c][r])
    /\ got' = [got EXCEPT ![c] = IF Drains(kind[c]) THEN @ \cup page[c][r].ids ELSE {}]
    /\ page' = [page EXCEPT ![c][r] = None]
    /\ IF page[c][r].more THEN UNCHANGED <<open, todo>> ELSE LeaveRuntime(c, r)
    /\ UNCHANGED <<serverVars, events, kind, pc, bad, auxVars>>

SyncTool(c) ==
    /\ kind[c] = "tool" /\ pc[c] = "listing"
    /\ page[c][Codex] # None
    /\ SyncPage(page[c][Codex])
    /\ page' = [page EXCEPT ![c][Codex] = None]
    /\ open' = [open EXCEPT ![c] = {}]
    /\ EndCall(c)
    /\ UNCHANGED <<serverVars, events, todo>>

(* Mutant: after a time-out the page is asked for again.                   *)
FailPageRetries(c, r) ==
    /\ r \in open[c] /\ page[c][r] = None
    /\ bad' = [bad EXCEPT ![c] = TRUE]
    /\ UNCHANGED <<serverVars, events, storeVars, kind, pc, todo, open, page, got, auxVars>>

(* An error, or the 10 s time-out, which a refresh and the tool do not     *)
(* have.                                                                   *)
FailPage(c, r) ==
    /\ r \in open[c] /\ page[c][r] = None
    /\ bad' = [bad EXCEPT ![c] = kind[c] = "fanout"]
    /\ LeaveRuntime(c, r)
    /\ UNCHANGED <<serverVars, events, storeVars, kind, pc, page, got, auxVars>>

(* Mutant: whether every runtime completed is not looked at.               *)
FinishAnyway(c) ==
    /\ pc[c] = "listing" /\ open[c] = {}
    /\ IF Drains(kind[c])
       THEN Prune(got[c])
       ELSE UNCHANGED storeVars
    /\ EndCall(c)
    /\ UNCHANGED <<serverVars, events, todo, open, page>>

Finish(c) ==
    /\ pc[c] = "listing" /\ open[c] = {}
    /\ IF Prunes(c) THEN Prune(got[c]) ELSE UNCHANGED storeVars
    /\ EndCall(c)
    /\ UNCHANGED <<serverVars, events, todo, open, page>>

--------------------------------------------------------------------------------
Server(t) ==
    \/ Start(t) \/ Materialise(t) \/ Archive(t)
    \/ TurnStarts(t) \/ TurnEnds(t) \/ StatusChanges(t)
    \/ Ask(t) \/ Settle(t)

Call(c) ==
    \/ \E k \in Kinds[c] : Begin(c, k)
    \/ \E r \in Runtimes : Respond(c, r) \/ ApplyPage(c, r) \/ FailPage(c, r)
    \/ SyncTool(c)
    \/ Finish(c)

Next ==
    \/ \E t \in Threads : Server(t)
    \/ ApplyEvent
    \/ \E t \in listed \cup {None} : SetActive(t)
    \/ \E c \in Calls : Call(c)

Spec == Init /\ [][Next]_vars

(* The runtime polls the tasks of a call, and the page requests of         *)
(* list_threads time out.  No answer is assumed.                           *)
Polled(c) ==
    \/ Finish(c)
    \/ \E r \in Runtimes : ApplyPage(c, r) \/ (kind[c] \in {"fanout", "search"} /\ FailPage(c, r))

Fairness == \A c \in Calls : WF_vars(Polled(c))

FairSpec == Spec /\ Fairness

--------------------------------------------------------------------------------
(***************************************************************************)
(* Properties.                                                             *)
(***************************************************************************)

FanoutEnds(c) == kind[c] = "fanout" /\ pc[c] = "listing" /\ pc'[c] = "ended"

(* The end of a fan-out takes no thread out of the store that the server   *)
(* listed throughout, or that is on the screen, nor an approval that waits *)
(* on one, and nothing at all after a runtime failed: neither what failed  *)
(* nor what other calls and events did in between is mistaken for a        *)
(* deletion.                                                               *)
PruneSparesLiving ==
    [][\A c \in Calls : FanoutEnds(c) =>
          LET spared == IF bad[c] THEN Threads ELSE span[c] \cup {active}
          IN  listed \cap spared \subseteq listed' /\ asks \cap spared \subseteq asks']_vars

(* A complete fan-out during which the server's list did not change leaves *)
(* exactly that list, and the thread on the screen: it makes up for        *)
(* deletions nobody announced, for late events and for the outdated pages  *)
(* of other calls, unless one of them took a thread out.                   *)
FreshListAgrees ==
    [][\A c \in Calls : FanoutEnds(c) /\ ~bad[c] /\ calm[c] =>
          listed' = Listed \cup (listed \cap {active})]_vars

(* A thread with an active turn is never shown as Idle, whatever list      *)
(* pages, status changes and turn events came before, in whatever order:   *)
(* it is Active, or what the server said of it last, NotLoaded or          *)
(* SystemError.                                                            *)
TurnIsNotIdle == turn \subseteq shown \cup unloaded

(* list_threads comes to an end though its runtimes fall silent: a stalled *)
(* runtime does not wedge the join of the others.                          *)
ListCallsEnd ==
    \A c \in Calls : (pc[c] = "listing" /\ kind[c] \in {"fanout", "search"}) ~> pc[c] = "ended"
================================================================================
