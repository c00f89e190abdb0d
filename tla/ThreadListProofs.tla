--------------------------- MODULE ThreadListProofs ---------------------------
(***************************************************************************)
(* What the pages of a fan-out amount to when it ends, for any threads,    *)
(* runtimes and calls.                                                     *)
(***************************************************************************)
EXTENDS ThreadList, TLAPS

(* A page is what an awaited runtime answered, with one status for each    *)
(* thread it lists; the tool awaits Codex only.                            *)
PagesOK ==
    \A c \in Calls :
        /\ pc[c] # "listing" => open[c] = {}
        /\ kind[c] = "tool" => todo[c] = {} /\ open[c] \subseteq {Codex}
        /\ \A r \in Runtimes :
              page[c][r] # None =>
                  /\ r \in open[c]
                  /\ page[c][r].running \subseteq page[c][r].ids
                  /\ page[c][r].unloaded \subseteq page[c][r].ids \ page[c][r].running

(* What a fan-out has of a runtime it has done with, or whose last page it *)
(* holds, contains the threads the server listed throughout.               *)
SpanCovered(c) ==
    pc[c] = "listing" /\ kind[c] = "fanout" /\ ~bad[c] =>
        /\ todo[c] = {}
        /\ \A r \in Runtimes :
              /\ r \notin open[c] => span[c] \cap Of(r) \subseteq got[c]
              /\ page[c][r] # None /\ ~page[c][r].more =>
                    span[c] \cap Of(r) \subseteq got[c] \cup page[c][r].ids

(* While nothing disturbs it, what it has is on the server and in the store. *)
CalmCovered(c) ==
    calm[c] =>
        /\ pc[c] = "listing" /\ kind[c] = "fanout"
        /\ span[c] = Listed
        /\ got[c] \subseteq Listed \cap listed
        /\ \A r \in Runtimes : page[c][r] # None => page[c][r].ids \subseteq Listed

ListInv ==
    /\ TypeOK
    /\ TurnIsNotIdle
    /\ PagesOK
    /\ \A c \in Calls : SpanCovered(c)
    /\ \A c \in Calls : CalmCovered(c)
--------------------------------------------------------------------------------
LEMMA InitOK == Init => ListInv
  <1> SUFFICES ASSUME Init PROVE ListInv
    OBVIOUS
  <1>1. TypeOK
    BY NoneAssumption, BoundsAssumption DEF Init, TypeOK, Listed
  <1>2. TurnIsNotIdle /\ PagesOK
    BY DEF Init, TurnIsNotIdle, PagesOK
  <1>3. \A c \in Calls : SpanCovered(c) /\ CalmCovered(c)
    BY DEF Init, SpanCovered, CalmCovered
  <1> QED
    BY <1>1, <1>2, <1>3 DEF ListInv

(* The types, action by action.                                            *)
LEMMA ServerTyped ==
  ASSUME TypeOK, NEW t \in Threads, Server(t)
  PROVE TypeOK'
  <1>1. changes' \in 0..MaxChanges
    BY BoundsAssumption DEF TypeOK, Server, ServerStep, Start, Materialise, Archive, TurnStarts, TurnEnds, StatusChanges,
           Ask, Settle
  <1>2. events' \in Seq(Event)
    <2>1. ASSUME NEW n \in EventNames, Announce(n, t)
          PROVE  events' \in Seq(Event)
      <3>1. [name |-> n, thread |-> t] \in Event
        BY DEF Event
      <3> QED
        BY <2>1, <3>1 DEF TypeOK, Announce
    <2>2. (\E n \in EventNames : Announce(n, t)) \/ UNCHANGED events
      BY DEF Server, EventNames, Start, Materialise, Archive, TurnStarts, TurnEnds,
             StatusChanges, Ask, Settle
    <2> QED
      BY <2>1, <2>2 DEF TypeOK
  <1>3. /\ life' \in [Threads -> {"none", "started", "listed", "archived"}]
        /\ running' \subseteq Threads /\ away' \subseteq Threads /\ asking' \subseteq Threads
    BY DEF TypeOK, Server, Start, Materialise, Archive, TurnStarts, TurnEnds, StatusChanges,
           Ask, Settle
  <1>4. span' \in [Calls -> SUBSET Threads] /\ calm' \in [Calls -> BOOLEAN]
    <2>1. ListChanges \/ UNCHANGED auxVars
      BY DEF Server, Start, Materialise, Archive, TurnStarts, TurnEnds, StatusChanges, Ask, Settle
    <2>2. ASSUME ListChanges
          PROVE  /\ span' \in [Calls -> SUBSET Threads]
                 /\ calm' \in [Calls -> BOOLEAN]
      <3>1. \A c \in Calls : {u \in span[c] : life'[u] = "listed"} \in SUBSET Threads
        BY DEF TypeOK
      <3> QED
        BY <2>2, <3>1 DEF ListChanges
    <2> QED
      BY <2>1, <2>2 DEF TypeOK, auxVars
  <1>5. UNCHANGED <<storeVars, callVars>>
    BY DEF Server, Start, Materialise, Archive, TurnStarts, TurnEnds, StatusChanges, Ask, Settle
  <1> QED
    BY <1>1, <1>2, <1>3, <1>4, <1>5 DEF TypeOK, storeVars, callVars

LEMMA EventTyped ==
  ASSUME TypeOK, ApplyEvent
  PROVE TypeOK'
  <1> DEFINE t == Head(events).thread
  <1>1. t \in Threads /\ events' \in Seq(Event)
    <2>1. Head(events) \in Event /\ Tail(events) \in Seq(Event)
      BY DEF TypeOK, ApplyEvent
    <2> QED
      BY <2>1 DEF ApplyEvent, Event
  <1>2. /\ listed' \subseteq Threads /\ turn' \subseteq listed' /\ shown' \subseteq listed'
        /\ unloaded' \subseteq listed' \ shown'
        /\ asks' \subseteq Threads /\ active' \in listed' \cup {None}
    BY <1>1 DEF TypeOK, ApplyEvent, RemoveThread, MergeStatus, MutateTurn, storeVars
  <1>3. calm' \in [Calls -> BOOLEAN]
    BY DEF TypeOK, ApplyEvent, Removes
  <1>4. UNCHANGED <<serverVars, callVars, span>>
    BY DEF ApplyEvent
  <1> QED
    BY <1>1, <1>2, <1>3, <1>4 DEF TypeOK, serverVars, callVars

LEMMA ActiveTyped ==
  ASSUME TypeOK, NEW t \in listed \cup {None}, SetActive(t)
  PROVE TypeOK'
  BY DEF TypeOK, SetActive, serverVars, callVars, auxVars
LEMMA LeaveTyped ==
  ASSUME TypeOK, NEW c \in Calls, NEW r \in Runtimes, LeaveRuntime(c, r)
  PROVE  open' \in [Calls -> SUBSET Runtimes] /\ todo' \in [Calls -> SUBSET Runtimes]
  <1>1. CASE todo[c] = {}
    BY <1>1 DEF TypeOK, LeaveRuntime
  <1>2. CASE todo[c] # {}
    <2>1. PICK next \in todo[c] :
             /\ open' = [open EXCEPT ![c] = (@ \ {r}) \cup {next}]
             /\ todo' = [todo EXCEPT ![c] = @ \ {next}]
      BY <1>2 DEF LeaveRuntime
    <2>2. next \in Runtimes
      BY <2>1 DEF TypeOK
    <2> QED
      BY <2>1, <2>2 DEF TypeOK
  <1> QED
    BY <1>1, <1>2

LEMMA ApplyTyped ==
  ASSUME TypeOK, PagesOK, NEW c \in Calls, NEW r \in Runtimes, ApplyPage(c, r)
  PROVE TypeOK'
  <1>1. /\ page[c][r] \in Page /\ page[c][r].running \subseteq page[c][r].ids
        /\ page[c][r].unloaded \subseteq page[c][r].ids \ page[c][r].running
    BY DEF TypeOK, PagesOK, ApplyPage
  <1>2. page[c][r].ids \subseteq Threads
    BY <1>1 DEF Page
  <1>3. /\ listed' \subseteq Threads /\ turn' \subseteq listed' /\ shown' \subseteq listed'
        /\ unloaded' \subseteq listed' \ shown'
        /\ asks' \subseteq Threads /\ active' \in listed' \cup {None}
    BY <1>1, <1>2 DEF TypeOK, ApplyPage, UpsertPage
  <1>4. got' \in [Calls -> SUBSET Threads]
    BY <1>2 DEF TypeOK, ApplyPage
  <1>5. page' \in [Calls -> [Runtimes -> Page \cup {None}]]
    BY DEF TypeOK, ApplyPage
  <1>6. open' \in [Calls -> SUBSET Runtimes] /\ todo' \in [Calls -> SUBSET Runtimes]
    BY LeaveTyped DEF TypeOK, ApplyPage
  <1>7. UNCHANGED <<serverVars, events, kind, pc, bad, auxVars>>
    BY DEF ApplyPage
  <1> QED
    BY <1>3, <1>4, <1>5, <1>6, <1>7 DEF TypeOK, serverVars, auxVars

LEMMA RespondTyped ==
  ASSUME TypeOK, NEW c \in Calls, NEW r \in Runtimes, Respond(c, r)
  PROVE TypeOK'
  <1>1. page' \in [Calls -> [Runtimes -> Page \cup {None}]]
    BY DEF TypeOK, Respond, Page
  <1> QED
    BY <1>1 DEF TypeOK, Respond, serverVars, storeVars, auxVars

LEMMA FailTyped ==
  ASSUME TypeOK, NEW c \in Calls, NEW r \in Runtimes, FailPage(c, r)
  PROVE TypeOK'
  <1>1. open' \in [Calls -> SUBSET Runtimes] /\ todo' \in [Calls -> SUBSET Runtimes]
    BY LeaveTyped DEF FailPage
  <1> QED
    BY <1>1 DEF TypeOK, FailPage, serverVars, storeVars, auxVars

LEMMA BeginTyped ==
  ASSUME TypeOK, NEW c \in Calls, NEW k \in Kinds[c], Begin(c, k)
  PROVE TypeOK'
  <1>1. k \in CallKinds
    BY KindsAssumption
  <1>2. open' \in [Calls -> SUBSET Runtimes] /\ todo' \in [Calls -> SUBSET Runtimes]
    BY DEF TypeOK, Begin
  <1>3. span' \in [Calls -> SUBSET Threads]
    BY DEF TypeOK, Begin, Listed
  <1>4. /\ kind' \in [Calls -> CallKinds \cup {None}]
        /\ pc' \in [Calls -> {"idle", "listing", "ended"}]
        /\ got' \in [Calls -> SUBSET Threads]
        /\ bad' \in [Calls -> BOOLEAN] /\ calm' \in [Calls -> BOOLEAN]
    BY <1>1 DEF TypeOK, Begin
  <1>5. UNCHANGED <<serverVars, events, storeVars, page>>
    BY DEF Begin
  <1> QED
    BY <1>2, <1>3, <1>4, <1>5 DEF TypeOK, serverVars, storeVars

LEMMA EndTyped ==
  ASSUME TypeOK, NEW c \in Calls, EndCall(c)
  PROVE  /\ kind' \in [Calls -> CallKinds \cup {None}]
         /\ pc' \in [Calls -> {"idle", "listing", "ended"}]
         /\ got' \in [Calls -> SUBSET Threads] /\ span' \in [Calls -> SUBSET Threads]
         /\ bad' \in [Calls -> BOOLEAN] /\ calm' \in [Calls -> BOOLEAN]
  <1>1. \A d \in Calls : (calm[d] /\ d # c /\ ~Prunes(c)) \in BOOLEAN
    OBVIOUS
  <1> QED
    BY <1>1 DEF TypeOK, EndCall

LEMMA SyncTyped ==
  ASSUME TypeOK, PagesOK, NEW c \in Calls, SyncTool(c)
  PROVE TypeOK'
  <1>1. /\ page[c][Codex] \in Page /\ page[c][Codex].running \subseteq page[c][Codex].ids
        /\ page[c][Codex].unloaded \subseteq page[c][Codex].ids \ page[c][Codex].running
    BY RuntimesAssumption DEF TypeOK, PagesOK, SyncTool
  <1>2. page[c][Codex].ids \subseteq Threads
    BY <1>1 DEF Page
  <1>3. /\ listed' \subseteq Threads /\ turn' \subseteq listed' /\ shown' \subseteq listed'
        /\ unloaded' \subseteq listed' \ shown'
        /\ asks' \subseteq Threads /\ active' \in listed' \cup {None}
    BY <1>1, <1>2 DEF TypeOK, SyncTool, SyncPage, Unkept
  <1>4. page' \in [Calls -> [Runtimes -> Page \cup {None}]]
    BY RuntimesAssumption DEF TypeOK, SyncTool
  <1>5. open' \in [Calls -> SUBSET Runtimes]
    BY DEF TypeOK, SyncTool
  <1>6. EndCall(c) /\ UNCHANGED <<serverVars, events, todo>>
    BY DEF SyncTool
  <1> QED
    BY <1>3, <1>4, <1>5, <1>6, EndTyped DEF TypeOK, serverVars

LEMMA FinishTyped ==
  ASSUME TypeOK, NEW c \in Calls, Finish(c)
  PROVE TypeOK'
  <1>1. /\ listed' \subseteq Threads /\ turn' \subseteq listed' /\ shown' \subseteq listed'
        /\ unloaded' \subseteq listed' \ shown'
        /\ asks' \subseteq Threads /\ active' \in listed' \cup {None}
    BY DEF TypeOK, Finish, Prune, Unkept, storeVars
  <1>2. EndCall(c) /\ UNCHANGED <<serverVars, events, todo, open, page>>
    BY DEF Finish
  <1> QED
    BY <1>1, <1>2, EndTyped DEF TypeOK, serverVars

LEMMA TypeStep ==
  ASSUME TypeOK, PagesOK, [Next]_vars
  PROVE TypeOK'
  <1>1. CASE UNCHANGED vars
    BY <1>1 DEF TypeOK, vars, serverVars, storeVars, callVars, auxVars
  <1>2. CASE \E t \in Threads : Server(t)
    BY <1>2, ServerTyped
  <1>3. CASE ApplyEvent
    BY <1>3, EventTyped
  <1>4. CASE \E t \in listed \cup {None} : SetActive(t)
    BY <1>4, ActiveTyped
  <1>5. ASSUME NEW c \in Calls, Call(c)
        PROVE  TypeOK'
    BY <1>5, BeginTyped, RespondTyped, ApplyTyped, FailTyped, SyncTyped, FinishTyped DEF Call
  <1> QED
    BY <1>1, <1>2, <1>3, <1>4, <1>5 DEF Next
--------------------------------------------------------------------------------
(* The turns: every way into the store keeps them shown.                   *)
LEMMA ShownStep ==
  ASSUME TypeOK, PagesOK, TurnIsNotIdle, [Next]_vars
  PROVE TurnIsNotIdle'
  <1> USE DEF TurnIsNotIdle
  <1>1. CASE UNCHANGED vars
    BY <1>1 DEF vars, storeVars
  <1>2. ASSUME NEW t \in Threads, Server(t)
        PROVE  TurnIsNotIdle'
    BY <1>2 DEF Server, Start, Materialise, Archive, TurnStarts, TurnEnds, StatusChanges, Ask,
               Settle, storeVars
  <1>3. CASE ApplyEvent
    BY <1>3 DEF ApplyEvent, RemoveThread, MergeStatus, MutateTurn, storeVars
  <1>4. ASSUME NEW t, SetActive(t)
        PROVE  TurnIsNotIdle'
    BY <1>4 DEF SetActive
  <1>5. ASSUME NEW c \in Calls, Call(c)
        PROVE  TurnIsNotIdle'
    <2>1. ASSUME NEW k, Begin(c, k)
          PROVE  TurnIsNotIdle'
      BY <2>1 DEF Begin, storeVars
    <2>2. ASSUME NEW r, Respond(c, r) \/ FailPage(c, r)
          PROVE  TurnIsNotIdle'
      BY <2>2 DEF Respond, FailPage, storeVars
    <2>3. ASSUME NEW r, ApplyPage(c, r)
          PROVE  TurnIsNotIdle'
      BY <2>3 DEF ApplyPage, UpsertPage
    <2>4. CASE SyncTool(c)
      BY <2>4 DEF SyncTool, SyncPage
    <2>5. CASE Finish(c)
      BY <2>5 DEF Finish, Prune, storeVars
    <2> QED
      BY <1>5, <2>1, <2>2, <2>3, <2>4, <2>5 DEF Call
  <1> QED
    BY <1>1, <1>2, <1>3, <1>4, <1>5 DEF Next

(* The calls: a step of one leaves what the others keep alone.             *)
LEMMA PagesStep ==
  ASSUME TypeOK, PagesOK, [Next]_vars
  PROVE PagesOK'
  <1>1. CASE UNCHANGED callVars
    BY <1>1 DEF PagesOK, callVars
  <1>2. ASSUME NEW c \in Calls, NEW k, Begin(c, k)
        PROVE  PagesOK'
    BY <1>2 DEF TypeOK, PagesOK, Begin
  <1>3. ASSUME NEW c \in Calls, NEW r \in Runtimes, Respond(c, r)
        PROVE  PagesOK'
    BY <1>3 DEF TypeOK, PagesOK, Respond
  <1>4. ASSUME NEW c \in Calls, NEW r \in Runtimes, ApplyPage(c, r)
        PROVE  PagesOK'
    <2>1. pc[c] = "listing"
      BY <1>4 DEF PagesOK, ApplyPage
    <2>2. page' = [page EXCEPT ![c][r] = None] /\ pc' = pc /\ kind' = kind
      BY <1>4 DEF ApplyPage
    <2>3. \A d \in Calls : /\ d # c => open'[d] = open[d] /\ todo'[d] = todo[d]
                           /\ open[d] \ {r} \subseteq open'[d]
                           /\ todo[d] = {} => todo'[d] = {} /\ open'[d] \subseteq open[d]
      BY <1>4 DEF TypeOK, ApplyPage, LeaveRuntime
    <2>4. \A d \in Calls, q \in Runtimes :
             page'[d][q] # None => page'[d][q] = page[d][q] /\ (d = c => q # r)
      BY <2>2 DEF TypeOK
    <2> QED
      BY <2>1, <2>2, <2>3, <2>4 DEF PagesOK
  <1>5. ASSUME NEW c \in Calls, NEW r \in Runtimes, FailPage(c, r)
        PROVE  PagesOK'
    <2>1. pc[c] = "listing"
      BY <1>5 DEF PagesOK, FailPage
    <2>2. page' = page /\ pc' = pc /\ kind' = kind /\ page[c][r] = None
      BY <1>5 DEF FailPage
    <2>3. \A d \in Calls : /\ d # c => open'[d] = open[d] /\ todo'[d] = todo[d]
                           /\ open[d] \ {r} \subseteq open'[d]
                           /\ todo[d] = {} => todo'[d] = {} /\ open'[d] \subseteq open[d]
      BY <1>5 DEF TypeOK, FailPage, LeaveRuntime
    <2> QED
      BY SMTT(30), <2>1, <2>2, <2>3 DEF TypeOK, PagesOK
  <1>6. ASSUME NEW c \in Calls, SyncTool(c)
        PROVE  PagesOK'
    BY <1>6, RuntimesAssumption DEF TypeOK, PagesOK, SyncTool, EndCall
  <1>7. ASSUME NEW c \in Calls, Finish(c)
        PROVE  PagesOK'
    BY <1>7, NoneAssumption DEF TypeOK, PagesOK, Finish, EndCall, CallKinds
  <1>8. ASSUME NEW t, Server(t) \/ SetActive(t)
        PROVE  UNCHANGED callVars
    BY <1>8 DEF Server, Start, Materialise, Archive, TurnStarts, TurnEnds, StatusChanges, Ask,
               Settle, SetActive
  <1>9. ApplyEvent \/ UNCHANGED vars => UNCHANGED callVars
    BY DEF ApplyEvent, vars
  <1> QED
    BY <1>1, <1>2, <1>3, <1>4, <1>5, <1>6, <1>7, <1>8, <1>9 DEF Next, Call

--------------------------------------------------------------------------------
(* What a step leaves of a call that it is not a step of.                  *)
Untouched(c) ==
    /\ pc'[c] = pc[c] /\ kind'[c] = kind[c] /\ bad'[c] = bad[c]
    /\ todo'[c] = todo[c] /\ open'[c] = open[c]
    /\ page'[c] = page[c] /\ got'[c] = got[c]

LEMMA OtherCallStep ==
  ASSUME TypeOK, NEW c \in Calls, NEW d \in Calls, c # d, Call(d)
  PROVE  Untouched(c) /\ span'[c] = span[c] /\ (calm'[c] => calm[c])
  <1> USE DEF TypeOK, Untouched
  <1>1. ASSUME NEW k, Begin(d, k)
        PROVE  Untouched(c) /\ span'[c] = span[c] /\ (calm'[c] => calm[c])
    BY <1>1 DEF Begin
  <1>2. ASSUME NEW r \in Runtimes, Respond(d, r)
        PROVE  Untouched(c) /\ span'[c] = span[c] /\ (calm'[c] => calm[c])
    BY <1>2 DEF Respond, auxVars
  <1>3. ASSUME NEW r \in Runtimes, ApplyPage(d, r) \/ FailPage(d, r)
        PROVE  Untouched(c) /\ span'[c] = span[c] /\ (calm'[c] => calm[c])
    BY <1>3 DEF ApplyPage, FailPage, LeaveRuntime, auxVars
  <1>4. CASE SyncTool(d)
    BY <1>4 DEF SyncTool, EndCall
  <1>5. CASE Finish(d)
    BY <1>5 DEF Finish, EndCall
  <1> QED
    BY <1>1, <1>2, <1>3, <1>4, <1>5 DEF Call

LEMMA OutsideStep ==
  ASSUME TypeOK, NEW c \in Calls,
         UNCHANGED vars \/ ApplyEvent \/ (\E t \in Threads : Server(t))
           \/ (\E t \in listed \cup {None} : SetActive(t))
  PROVE  /\ Untouched(c) /\ span'[c] \subseteq span[c]
         /\ calm'[c] => calm[c] /\ span'[c] = span[c] /\ Listed' = Listed /\ listed \subseteq listed'
  <1>1. UNCHANGED callVars => Untouched(c)
    BY DEF callVars, Untouched
  <1>2. CASE UNCHANGED vars
    BY <1>1, <1>2 DEF vars, serverVars, storeVars, auxVars, Listed
  <1>3. CASE ApplyEvent
    <2>1. UNCHANGED <<callVars, span, life>>
      BY <1>3 DEF ApplyEvent, serverVars
    <2>2. CASE Head(events).name = "archived"
      <3>1. ~calm'[c]
        BY <1>3, <2>2 DEF ApplyEvent, Removes
      <3> QED
        BY <1>1, <2>1, <3>1
    <2>3. CASE Head(events).name # "archived"
      <3>1. calm' = calm /\ listed \subseteq listed'
        BY <1>3, <2>3 DEF ApplyEvent, MergeStatus, MutateTurn, storeVars
      <3> QED
        BY <1>1, <2>1, <3>1 DEF Listed
    <2> QED
      BY <2>2, <2>3
  <1>4. ASSUME NEW t \in Threads, Server(t)
        PROVE  /\ Untouched(c) /\ span'[c] \subseteq span[c]
               /\ calm'[c] => calm[c] /\ span'[c] = span[c] /\ Listed' = Listed /\ listed \subseteq listed'
    <2>1. UNCHANGED <<storeVars, callVars>>
      BY <1>4 DEF Server, Start, Materialise, Archive, TurnStarts, TurnEnds, StatusChanges,
                 Ask, Settle
    <2>2. CASE ListChanges
      BY <1>1, <2>1, <2>2 DEF ListChanges, TypeOK
    <2>3. CASE UNCHANGED <<life, auxVars>>
      BY <1>1, <2>1, <2>3 DEF storeVars, auxVars, Listed
    <2>4. CASE Start(t)
      <3>1. \A u \in Threads : life'[u] = "listed" <=> life[u] = "listed"
        BY <2>4 DEF Start, TypeOK
      <3>2. Listed' = Listed
        BY <3>1 DEF Listed
      <3> QED
        BY <1>1, <2>1, <2>4, <3>2 DEF Start, storeVars, auxVars
    <2> QED
      BY <1>4, <2>2, <2>3, <2>4 DEF Server, Materialise, Archive, TurnStarts, TurnEnds,
                                  StatusChanges, Ask, Settle, auxVars
  <1>5. CASE \E t \in listed \cup {None} : SetActive(t)
    BY <1>1, <1>5 DEF SetActive, serverVars, auxVars, Listed
  <1> QED
    BY <1>2, <1>3, <1>4, <1>5

(* The pages of a fan-out add up.                                          *)
LEMMA SpanStep ==
  ASSUME TypeOK, PagesOK, NEW c \in Calls, SpanCovered(c), [Next]_vars
  PROVE  SpanCovered(c)'
  <1>1. ASSUME Untouched(c), span'[c] \subseteq span[c]
        PROVE  SpanCovered(c)'
    BY <1>1 DEF SpanCovered, Untouched
  <1>2. CASE UNCHANGED vars \/ ApplyEvent \/ (\E t \in Threads : Server(t))
               \/ (\E t \in listed \cup {None} : SetActive(t))
    BY <1>1, <1>2, OutsideStep
  <1>3. ASSUME NEW d \in Calls, d # c, Call(d)
        PROVE  SpanCovered(c)'
    BY <1>1, <1>3, OtherCallStep
  <1>4. ASSUME NEW k, Begin(c, k)
        PROVE  SpanCovered(c)'
    <2>1. \A r \in Runtimes : page[c][r] = None
      BY <1>4 DEF Begin, PagesOK
    <2>2. k = "fanout" => todo'[c] = {} /\ open'[c] = Runtimes
      BY <1>4 DEF Begin, TypeOK
    <2>3. kind'[c] = k /\ page' = page
      BY <1>4 DEF Begin, TypeOK
    <2> QED
      BY <2>1, <2>2, <2>3 DEF SpanCovered
  <1>5. ASSUME NEW r \in Runtimes, Respond(c, r)
        PROVE  SpanCovered(c)'
    <2>1. PICK ids \in SUBSET Threads, more \in BOOLEAN :
             /\ CanAnswer(c, r, ids, more)
             /\ page' = [page EXCEPT ![c][r] =
                            [ids |-> ids, running |-> ids \cap (running \ away),
                             unloaded |-> ids \cap away, more |-> more]]
      BY <1>5 DEF Respond
    <2>2. UNCHANGED <<pc, kind, bad, todo, open, got, span>>
      BY <1>5 DEF Respond, auxVars
    <2>3. kind[c] = "fanout" /\ ~more => span[c] \cap Of(r) \subseteq got[c] \cup ids
      BY <2>1 DEF CanAnswer, Drains
    <2>4. /\ page'[c][r].ids = ids /\ page'[c][r].more = more
          /\ \A q \in Runtimes \ {r} : page'[c][q] = page[c][q]
      BY <2>1 DEF TypeOK
    <2> QED
      BY <2>2, <2>3, <2>4 DEF SpanCovered
  <1>6. ASSUME NEW r \in Runtimes, ApplyPage(c, r)
        PROVE  SpanCovered(c)'
    <2>1. UNCHANGED <<pc, kind, bad, span>> /\ page[c][r] # None
      BY <1>6 DEF ApplyPage, auxVars
    <2>2. page'[c][r] = None /\ \A q \in Runtimes \ {r} : page'[c][q] = page[c][q]
      BY <1>6 DEF ApplyPage, TypeOK
    <2>3. kind[c] = "fanout" => got'[c] = got[c] \cup page[c][r].ids
      BY <1>6 DEF ApplyPage, TypeOK, Drains
    <2>4. CASE page[c][r].more
      <3>1. UNCHANGED <<open, todo>> /\ r \in open[c]
        BY <1>6, <2>4 DEF ApplyPage
      <3> QED
        BY <2>1, <2>2, <2>3, <3>1 DEF SpanCovered
    <2>5. CASE ~page[c][r].more
      <3>1. todo[c] = {} => open'[c] = open[c] \ {r} /\ todo' = todo
        BY <1>6, <2>5 DEF ApplyPage, LeaveRuntime, TypeOK
      <3> QED
        BY <2>1, <2>2, <2>3, <2>5, <3>1 DEF SpanCovered
    <2> QED
      BY <2>4, <2>5
  <1>7. ASSUME NEW r \in Runtimes, FailPage(c, r)
        PROVE  SpanCovered(c)'
    BY <1>7 DEF FailPage, TypeOK, SpanCovered
  <1>8. CASE SyncTool(c) \/ Finish(c)
    BY <1>8 DEF SyncTool, Finish, EndCall, TypeOK, SpanCovered
  <1> QED
    BY <1>2, <1>3, <1>4, <1>5, <1>6, <1>7, <1>8 DEF Next, Call

(* A call takes threads out of the store only when it ends, and then none  *)
(* is calm any more.                                                       *)
LEMMA CallKeeps ==
  ASSUME TypeOK, NEW c \in Calls, NEW d \in Calls, Call(d), calm'[c]
  PROVE  Listed' = Listed /\ listed \subseteq listed'
  <1>1. life' = life
    BY DEF Call, Begin, Respond, ApplyPage, FailPage, SyncTool, Finish, serverVars
  <1>2. ASSUME NEW k, Begin(d, k)
        PROVE  listed \subseteq listed'
    BY <1>2 DEF Begin, storeVars
  <1>3. ASSUME NEW r, Respond(d, r) \/ FailPage(d, r) \/ ApplyPage(d, r)
        PROVE  listed \subseteq listed'
    BY <1>3 DEF Respond, FailPage, ApplyPage, UpsertPage, storeVars
  <1>4. ~SyncTool(d)
    BY DEF SyncTool, EndCall, Prunes
  <1>5. Finish(d) => listed \subseteq listed'
    BY DEF Finish, EndCall, storeVars
  <1>6. Listed' = Listed
    BY <1>1 DEF Listed
  <1> QED
    BY <1>2, <1>3, <1>4, <1>5, <1>6 DEF Call

LEMMA CalmStep ==
  ASSUME TypeOK, PagesOK, NEW c \in Calls, CalmCovered(c), [Next]_vars
  PROVE  CalmCovered(c)'
  <1>1. ASSUME Untouched(c), calm'[c] => calm[c] /\ span'[c] = span[c] /\ Listed' = Listed
                                            /\ listed \subseteq listed'
        PROVE  CalmCovered(c)'
    BY <1>1 DEF CalmCovered, Untouched
  <1>2. CASE UNCHANGED vars \/ ApplyEvent \/ (\E t \in Threads : Server(t))
               \/ (\E t \in listed \cup {None} : SetActive(t))
    BY <1>1, <1>2, OutsideStep
  <1>3. ASSUME NEW d \in Calls, d # c, Call(d)
        PROVE  CalmCovered(c)'
    BY <1>1, <1>3, OtherCallStep, CallKeeps
  <1>4. ASSUME NEW k, Begin(c, k)
        PROVE  CalmCovered(c)'
    <2>1. \A r \in Runtimes : page'[c][r] = None
      BY <1>4 DEF Begin, PagesOK
    <2>2. Listed' = Listed
      BY <1>4 DEF Begin, serverVars, Listed
    <2>3. /\ pc'[c] = "listing" /\ kind'[c] = k /\ got'[c] = {}
          /\ calm'[c] => k = "fanout"
          /\ span'[c] = IF Drains(k) THEN Listed ELSE {}
      BY <1>4 DEF Begin, TypeOK
    <2> QED
      BY <2>1, <2>2, <2>3 DEF CalmCovered, Drains
  <1>5. ASSUME NEW r \in Runtimes, Respond(c, r)
        PROVE  CalmCovered(c)'
    <2>1. PICK ids \in SUBSET Threads, more \in BOOLEAN :
             /\ CanAnswer(c, r, ids, more)
             /\ page' = [page EXCEPT ![c][r] =
                            [ids |-> ids, running |-> ids \cap (running \ away),
                             unloaded |-> ids \cap away, more |-> more]]
      BY <1>5 DEF Respond
    <2>2. UNCHANGED <<pc, kind, got, span, calm, life, listed>>
      BY <1>5 DEF Respond, auxVars, storeVars, serverVars
    <2>3. kind[c] = "fanout" => ids \subseteq Listed
      BY <2>1 DEF CanAnswer, Drains
    <2>4. page'[c][r].ids = ids /\ \A q \in Runtimes \ {r} : page'[c][q] = page[c][q]
      BY <2>1 DEF TypeOK
    <2>5. Listed' = Listed
      BY <2>2 DEF Listed
    <2> QED
      BY <2>2, <2>3, <2>4, <2>5 DEF CalmCovered
  <1>6. ASSUME NEW r \in Runtimes, ApplyPage(c, r)
        PROVE  CalmCovered(c)'
    <2>1. UNCHANGED <<pc, kind, span, calm, life>> /\ page[c][r] # None
      BY <1>6 DEF ApplyPage, auxVars, serverVars
    <2>2. page'[c][r] = None /\ \A q \in Runtimes \ {r} : page'[c][q] = page[c][q]
      BY <1>6 DEF ApplyPage, TypeOK
    <2>3. kind[c] = "fanout" => got'[c] = got[c] \cup page[c][r].ids
      BY <1>6 DEF ApplyPage, TypeOK, Drains
    <2>4. listed' = listed \cup page[c][r].ids
      BY <1>6 DEF ApplyPage, UpsertPage
    <2>5. Listed' = Listed
      BY <2>1 DEF Listed
    <2> QED
      BY <2>1, <2>2, <2>3, <2>4, <2>5 DEF CalmCovered
  <1>7. ASSUME NEW r \in Runtimes, FailPage(c, r)
        PROVE  CalmCovered(c)'
    <2>1. UNCHANGED <<pc, kind, got, span, calm, life, listed, page>>
      BY <1>7 DEF FailPage, auxVars, storeVars, serverVars
    <2>2. Listed' = Listed
      BY <2>1 DEF Listed
    <2> QED
      BY <2>1, <2>2 DEF CalmCovered
  <1>8. CASE SyncTool(c) \/ Finish(c)
    BY <1>8 DEF SyncTool, Finish, EndCall, CalmCovered
  <1> QED
    BY <1>2, <1>3, <1>4, <1>5, <1>6, <1>7, <1>8 DEF Next, Call

--------------------------------------------------------------------------------
LEMMA InvStep == ListInv /\ [Next]_vars => ListInv'
  <1> SUFFICES ASSUME ListInv, [Next]_vars PROVE ListInv'
    OBVIOUS
  <1>1. TypeOK' /\ TurnIsNotIdle' /\ PagesOK'
    BY TypeStep, ShownStep, PagesStep DEF ListInv
  <1>2. ASSUME NEW c \in Calls
        PROVE  SpanCovered(c)' /\ CalmCovered(c)'
    BY <1>2, SpanStep, CalmStep DEF ListInv
  <1> QED
    BY <1>1, <1>2 DEF ListInv

LEMMA Invariance == Spec => []ListInv
  BY InitOK, InvStep, PTL DEF Spec

(* Types, and what the store keeps about threads is about threads it has:  *)
(* however calls and events overlap, the thread on the screen and those    *)
(* with a turn or a status are in the list.                                *)
THEOREM ListTypeCorrect == Spec => []TypeOK
  <1>1. ListInv => TypeOK
    BY DEF ListInv
  <1> QED
    BY <1>1, Invariance, PTL

(* No thread whose turn the store knows is shown as idle: a list page, a   *)
(* status or an event that comes late does not hide that it runs.          *)
THEOREM TurnStaysShown == Spec => []TurnIsNotIdle
  <1>1. ListInv => TurnIsNotIdle
    BY DEF ListInv
  <1> QED
    BY <1>1, Invariance, PTL

LEMMA FanoutFinishes ==
  ASSUME ListInv, Next, NEW c \in Calls, FanoutEnds(c)
  PROVE  Finish(c)
  <1> USE DEF ListInv, TypeOK, FanoutEnds
  <1>1. ~UNCHANGED pc
    OBVIOUS
  <1>2. PICK d \in Calls : Call(d)
    BY <1>1 DEF Next, ApplyEvent, SetActive, callVars, Server, Start, Materialise, Archive,
              TurnStarts, TurnEnds, StatusChanges, Ask, Settle
  <1>3. d = c
    BY <1>2, OtherCallStep DEF Untouched
  <1>4. \A k : ~Begin(c, k)
    BY DEF Begin
  <1>5. \A r \in Runtimes : ~Respond(c, r) /\ ~ApplyPage(c, r) /\ ~FailPage(c, r)
    BY <1>1 DEF Respond, ApplyPage, FailPage
  <1>6. ~SyncTool(c)
    BY DEF SyncTool
  <1> QED
    BY <1>2, <1>3, <1>4, <1>5, <1>6 DEF Call

(* All that was listed throughout is among what a complete fan-out got.    *)
LEMMA SpanGot ==
  ASSUME ListInv, NEW c \in Calls, pc[c] = "listing", kind[c] = "fanout", ~bad[c], open[c] = {}
  PROVE  span[c] \subseteq got[c]
  <1>1. \A r \in Runtimes : span[c] \cap Of(r) \subseteq got[c]
    BY DEF ListInv, SpanCovered
  <1>2. \A t \in span[c] : t \in Threads /\ RuntimeOf[t] \in Runtimes
    BY RuntimesAssumption DEF ListInv, TypeOK
  <1> QED
    BY <1>1, <1>2 DEF Of

(* A fan-out never prunes a thread that the server listed throughout, nor  *)
(* the thread on the screen, nor what waits for approval on one, and       *)
(* prunes nothing when a runtime failed.                                   *)
THEOREM FanoutSparesLiving == Spec => PruneSparesLiving
  <1>1. ASSUME ListInv, [Next]_vars, NEW c \in Calls, FanoutEnds(c)
        PROVE  LET spared == IF bad[c] THEN Threads ELSE span[c] \cup {active}
               IN  listed \cap spared \subseteq listed' /\ asks \cap spared \subseteq asks'
    <2>1. Next
      BY <1>1 DEF FanoutEnds, vars, callVars
    <2>2. Finish(c)
      BY <1>1, <2>1, FanoutFinishes
    <2>3. CASE bad[c]
      BY <1>1, <2>2, <2>3 DEF Finish, FanoutEnds, Prunes, storeVars
    <2>4. CASE ~bad[c]
      <3>1. span[c] \subseteq got[c]
        BY <1>1, <2>2, <2>4, SpanGot DEF Finish, FanoutEnds
      <3>2. Prune(got[c])
        BY <1>1, <2>2, <2>4 DEF Finish, FanoutEnds, Prunes
      <3> QED
        BY <2>4, <3>1, <3>2 DEF Prune, Unkept
    <2> QED
      BY <2>3, <2>4
  <1>2. ListInv /\ [Next]_vars =>
          [\A c \in Calls : FanoutEnds(c) =>
              LET spared == IF bad[c] THEN Threads ELSE span[c] \cup {active}
              IN  listed \cap spared \subseteq listed' /\ asks \cap spared \subseteq asks']_vars
    BY <1>1
  <1> QED
    BY <1>2, Invariance, PTL DEF Spec, PruneSparesLiving

(* A complete fan-out, with nothing taken out and the server's list        *)
(* unchanged meanwhile, leaves that list and the thread on the screen.     *)
THEOREM FanoutAgrees == Spec => FreshListAgrees
  <1>1. ASSUME ListInv, [Next]_vars, NEW c \in Calls, FanoutEnds(c) /\ ~bad[c] /\ calm[c]
        PROVE  listed' = Listed \cup (listed \cap {active})
    <2>1. Next
      BY <1>1 DEF FanoutEnds, vars, callVars
    <2>2. Finish(c)
      BY <1>1, <2>1, FanoutFinishes
    <2>3. span[c] \subseteq got[c]
      BY <1>1, <2>2, SpanGot DEF Finish, FanoutEnds
    <2>4. span[c] = Listed /\ got[c] \subseteq Listed \cap listed
      BY <1>1 DEF ListInv, CalmCovered
    <2>5. Prune(got[c])
      BY <1>1, <2>2 DEF Finish, FanoutEnds, Prunes
    <2> QED
      BY <2>3, <2>4, <2>5 DEF Prune, Unkept
  <1>2. ListInv /\ [Next]_vars =>
          [\A c \in Calls : FanoutEnds(c) /\ ~bad[c] /\ calm[c] =>
              listed' = Listed \cup (listed \cap {active})]_vars
    BY <1>1
  <1> QED
    BY <1>2, Invariance, PTL DEF Spec, FreshListAgrees
================================================================================
