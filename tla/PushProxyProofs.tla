---------------------------- MODULE PushProxyProofs ----------------------------
(***************************************************************************)
(* What the proxy pushes is wanted, and the Android app forgets no         *)
(* registration, for any number of registrations, any interval and TTL,    *)
(* and any number of trips to the background.                              *)
(***************************************************************************)
EXTENDS PushProxy, TLAPS

--------------------------------------------------------------------------------
(* The inductive invariant.                                                *)

InFlight(i) == call[i] \in {"sent", "created"}

(* An object does something only when its registration reached the proxy.  *)
Born(i) == stored[i] \/ pushing[i] \/ gone[i] => call[i] \notin {"idle", "sent"}

(* Only what a register call returned is kept or deregistered.             *)
Handed(i) == known = i \/ dereg[i] # "no" => call[i] = "returned"

(* A call began in this generation or an earlier one; in this one only     *)
(* while the app is still in the background that it went to.               *)
CurrentOnlyBehind(i) ==
    InFlight(i) => /\ callGen[i] <= generation
                   /\ callGen[i] = generation => phone = "back"

(* The Android app keeps or gives back what a call returned to it.         *)
TakenUp(i) == android /\ call[i] = "returned" => known = i \/ dereg[i] # "no"

CleanFore == android /\ phone = "fore" => known = None

PushInv ==
    /\ TypeOK
    /\ \A i \in Ids : Born(i) /\ Handed(i) /\ CurrentOnlyBehind(i) /\ TakenUp(i)
    /\ CleanFore
    /\ PushIsWanted

--------------------------------------------------------------------------------
(* Types.                                                                  *)

LEMMA InitTypeOK == Init => TypeOK
BY TimesAssumption, BoundsAssumption DEF Init, TypeOK

LEMMA ControllerTypeOK ==
    ASSUME TypeOK, Controller
    PROVE  TypeOK'
<1>. USE BoundsAssumption DEF TypeOK, callVars, objectVars, timeVars
<1>1. CASE Background
    BY <1>1 DEF Background, Register
<1>2. CASE Resume
    BY <1>2 DEF Resume
<1>3. CASE Foreground
    BY <1>3 DEF Foreground, Deregister
<1>4. CASE TurnsEnd
    BY <1>4 DEF TurnsEnd, Deregister
<1>. QED
    BY <1>1, <1>2, <1>3, <1>4 DEF Controller

LEMMA CallsTypeOK ==
    ASSUME TypeOK, NEW i \in Ids, Calls(i)
    PROVE  TypeOK'
<1>. USE TimesAssumption DEF TypeOK, phoneVars, objectVars, timeVars
<1>1. CASE ProxyRegisters(i)
    BY <1>1 DEF ProxyRegisters
<1>2. CASE RegisterReturns(i)
    BY <1>2 DEF RegisterReturns, Return, Keep, GiveBack
<1>3. CASE RegisterFails(i)
    BY <1>3 DEF RegisterFails
<1>4. CASE ProxyDeregisters(i)
    BY <1>4 DEF ProxyDeregisters
<1>5. CASE DeregisterFails(i)
    BY <1>5 DEF DeregisterFails
<1>. QED
    BY <1>1, <1>2, <1>3, <1>4, <1>5 DEF Calls

LEMMA ObjectTypeOK ==
    ASSUME TypeOK, NEW i \in Ids, Alarm(i) \/ AwaitedPush(i)
    PROVE  TypeOK'
<1>. USE TimesAssumption, BoundsAssumption DEF TypeOK, phoneVars, callVars, PushEnds
<1>1. CASE Alarm(i)
    <2>1. stored' = stored \/ stored' = [stored EXCEPT ![i] = FALSE]
        BY <1>1 DEF Alarm, StartPush
    <2>2. pushing' = pushing \/ pushing' = [pushing EXCEPT ![i] = TRUE]
        BY <1>1 DEF Alarm, StartPush
    <2>3. since' = since \/ since' = [since EXCEPT ![i] = 0]
        BY <1>1 DEF Alarm, StartPush
    <2>4. armed' = [armed EXCEPT ![i] = FALSE]
        BY <1>1 DEF Alarm, AlarmRuns
    <2>5. /\ stored' \in [Ids -> BOOLEAN] /\ armed' \in [Ids -> BOOLEAN]
          /\ pushing' \in [Ids -> BOOLEAN]
        BY <2>1, <2>2, <2>4
    <2>6. since' \in [Ids -> 0..Interval]
        BY <2>3
    <2>7. UNCHANGED <<phoneVars, callVars, failed, gone, undone, age, due>>
        BY <1>1 DEF Alarm, AlarmRuns
    <2>. QED
        BY <2>5, <2>6, <2>7
<1>2. CASE PushOk(i)
    <2>1. Interval - since[i] \in 0..Interval
        OBVIOUS
    <2>. QED
        BY <1>2, <2>1 DEF PushOk, Rearm
<1>3. CASE PushGone(i)
    BY <1>3 DEF PushGone
<1>4. CASE PushThrows(i)
    BY <1>4 DEF PushThrows
<1>. QED
    BY <1>1, <1>2, <1>3, <1>4 DEF AwaitedPush

LEMMA NextTypeOK ==
    ASSUME TypeOK, [Next]_vars
    PROVE  TypeOK'
<1>1. CASE Tick
    <2>. USE TimesAssumption
    <2>1. age' \in [Ids -> 0..(Ttl + 1)]
        BY <1>1 DEF Tick, TypeOK
    <2>2. due' \in [Ids -> 0..Interval]
        BY <1>1 DEF Tick, TypeOK
    <2>3. since' \in [Ids -> 0..Interval]
        BY <1>1 DEF Tick, TypeOK
    <2>. QED
        BY <1>1, <2>1, <2>2, <2>3 DEF Tick, TypeOK, phoneVars, callVars, objectVars
<1>2. CASE UNCHANGED vars
    BY <1>2 DEF vars, TypeOK, phoneVars, callVars, objectVars, timeVars
<1>. QED
    BY <1>1, <1>2, ControllerTypeOK, CallsTypeOK, ObjectTypeOK DEF Next

(* Every variable keeps its type: no generation, timer or count leaves its *)
(* range, also when an alarm is set from a time before the push.           *)
THEOREM TypeCorrect == Spec => []TypeOK
BY InitTypeOK, NextTypeOK, PTL DEF Spec

--------------------------------------------------------------------------------
(* The controller and its registrations.                                   *)

LEMMA InitPushInv == Init => PushInv
<1>. SUFFICES ASSUME Init PROVE PushInv
    OBVIOUS
<1>. USE NoneAssumption DEF Init
<1>1. \A i \in Ids : Born(i) /\ Handed(i) /\ CurrentOnlyBehind(i) /\ TakenUp(i)
    BY DEF Born, Handed, CurrentOnlyBehind, TakenUp, InFlight
<1>2. CleanFore /\ PushIsWanted
    BY DEF CleanFore, PushIsWanted, EndsAtTtl, EndsWhenRevoked
<1>. QED
    BY <1>1, <1>2, InitTypeOK DEF PushInv

(* A step that leaves the objects alone, and does not undo a registration, *)
(* pushes nothing unwanted.                                                *)
LEMMA ObjectsAlone ==
    ASSUME PushInv, UNCHANGED <<objectVars, timeVars>>,
           \A i \in Ids : dereg'[i] = "applied" => dereg[i] = "applied",
           \A i \in Ids : call'[i] \in {"idle", "sent"} => call[i] \in {"idle", "sent"}
    PROVE  PushIsWanted' /\ \A i \in Ids : Born(i)'
BY DEF PushInv, PushIsWanted, EndsAtTtl, EndsWhenRevoked, Born, objectVars, timeVars

LEMMA ControllerInv ==
    ASSUME PushInv, Controller
    PROVE  PushInv'
<1>. USE NoneAssumption DEF PushInv, callVars, objectVars, timeVars
<1>0. TypeOK'
    BY ControllerTypeOK
<1>1. CASE Background
    <2>0. PICK started \in SUBSET Ids :
             /\ \A i \in Ids : call'[i] = IF i \in started THEN "sent" ELSE call[i]
             /\ \A i \in Ids : callGen'[i] = IF i \in started THEN generation ELSE callGen[i]
             /\ \A i \in started : call[i] = "idle"
        <3>1. CASE \E i \in Ids : Register(i)
            <4>1. PICK i \in Ids : Register(i)
                BY <3>1
            <4>. WITNESS {i} \in SUBSET Ids
            <4>. QED
                BY <4>1 DEF Register, TypeOK
        <3>2. CASE UNCHANGED <<call, callGen>>
            <4>. WITNESS {} \in SUBSET Ids
            <4>. QED
                BY <3>2
        <3>. QED
            BY <1>1, <3>1, <3>2 DEF Background
    <2>1. PushIsWanted' /\ \A i \in Ids : Born(i)'
        BY <1>1, <2>0, ObjectsAlone DEF Background
    <2>2. \A i \in Ids : Handed(i)' /\ TakenUp(i)'
        BY <1>1, <2>0 DEF Background, Handed, TakenUp
    <2>3. \A i \in Ids : CurrentOnlyBehind(i)'
        BY <1>1, <2>0 DEF Background, CurrentOnlyBehind, InFlight, TypeOK
    <2>4. CleanFore'
        BY <1>1 DEF Background, CleanFore
    <2>. QED
        BY <1>0, <2>1, <2>2, <2>3, <2>4
<1>2. CASE Resume
    <2>1. PushIsWanted' /\ \A i \in Ids : Born(i)'
        BY <1>2, ObjectsAlone DEF Resume
    <2>2. \A i \in Ids : Handed(i)' /\ TakenUp(i)'
        BY <1>2 DEF Resume, Handed, TakenUp
    <2>3. \A i \in Ids : CurrentOnlyBehind(i)'
        BY <1>2 DEF Resume, CurrentOnlyBehind, InFlight, TypeOK
    <2>4. CleanFore'
        BY <1>2 DEF Resume, CleanFore
    <2>. QED
        BY <1>0, <2>1, <2>2, <2>3, <2>4
<1>3. CASE Foreground \/ TurnsEnd
    <2>0. /\ Deregister
          /\ UNCHANGED <<android, generation, call, callGen, objectVars, timeVars>>
          /\ \/ phone = "resuming" /\ phone' = "fore"
             \/ ~android /\ phone = "back" /\ phone' = phone
        BY <1>3 DEF Foreground, TurnsEnd
    <2>1. PushIsWanted' /\ \A i \in Ids : Born(i)'
        BY <2>0, ObjectsAlone DEF Deregister, TypeOK
    <2>2. \A i \in Ids : Handed(i)' /\ TakenUp(i)'
        BY <2>0 DEF Deregister, Handed, TakenUp, TypeOK
    <2>3. \A i \in Ids : CurrentOnlyBehind(i)'
        BY <2>0 DEF CurrentOnlyBehind, InFlight
    <2>4. CleanFore'
        BY <2>0 DEF Deregister, CleanFore
    <2>. QED
        BY <1>0, <2>1, <2>2, <2>3, <2>4
<1>. QED
    BY <1>1, <1>2, <1>3 DEF Controller

LEMMA CallsInv ==
    ASSUME PushInv, NEW i \in Ids, Calls(i)
    PROVE  PushInv'
<1>. USE NoneAssumption DEF PushInv, phoneVars, objectVars, timeVars
<1>0. TypeOK'
    BY CallsTypeOK
<1>1. CASE ProxyRegisters(i)
    <2>1. \A j \in Ids : Born(j)' /\ Handed(j)' /\ TakenUp(j)' /\ CurrentOnlyBehind(j)'
        BY <1>1 DEF ProxyRegisters, Born, Handed, TakenUp, CurrentOnlyBehind, InFlight, TypeOK
    <2>2. CleanFore'
        BY <1>1 DEF ProxyRegisters, CleanFore
    <2>3. PushIsWanted'
        <3>1. dereg[i] = "no" /\ ~gone[i] /\ ~pushing[i]
            BY <1>1 DEF ProxyRegisters, Born, Handed, TypeOK
        <3>2. \A j \in Ids \ {i} : /\ age'[j] = age[j] /\ stored'[j] = stored[j]
                                  /\ since'[j] = since[j] /\ pushing'[j] = pushing[j]
            BY <1>1 DEF ProxyRegisters, TypeOK
        <3>3. UNCHANGED <<dereg, gone, undone, pushing>>
            BY <1>1 DEF ProxyRegisters
        <3>. QED
            BY <3>1, <3>2, <3>3 DEF PushIsWanted, EndsAtTtl, EndsWhenRevoked
    <2>. QED
        BY <1>0, <2>1, <2>2, <2>3
<1>2. CASE RegisterReturns(i)
    <2>1. PushIsWanted' /\ \A j \in Ids : Born(j)'
        BY <1>2, ObjectsAlone DEF RegisterReturns, Return, Keep, GiveBack, TypeOK
    <2>2. \A j \in Ids : Handed(j)' /\ CurrentOnlyBehind(j)'
        BY <1>2 DEF RegisterReturns, Return, Keep, GiveBack, Handed, CurrentOnlyBehind,
                    InFlight, TypeOK
    <2>3. \A j \in Ids : TakenUp(j)'
        <3>1. CASE Stale(i)
            BY <1>2, <3>1 DEF RegisterReturns, Return, GiveBack, TakenUp, TypeOK
        <3>2. CASE ~Stale(i)
            BY <1>2, <3>2 DEF RegisterReturns, Return, Keep, TakenUp, Stale, TypeOK
        <3>. QED
            BY <3>1, <3>2
    <2>4. CleanFore'
        <3>1. android /\ phone = "fore" => Stale(i)
            BY <1>2 DEF RegisterReturns, Return, CurrentOnlyBehind, InFlight, Stale
        <3>. QED
            BY <1>2, <3>1 DEF RegisterReturns, Return, GiveBack, CleanFore
    <2>. QED
        BY <1>0, <2>1, <2>2, <2>3, <2>4
<1>3. CASE RegisterFails(i)
    <2>1. PushIsWanted' /\ \A j \in Ids : Born(j)'
        BY <1>3, ObjectsAlone DEF RegisterFails, TypeOK
    <2>2. \A j \in Ids : Handed(j)' /\ TakenUp(j)' /\ CurrentOnlyBehind(j)'
        BY <1>3 DEF RegisterFails, Handed, TakenUp, CurrentOnlyBehind, InFlight, TypeOK
    <2>. QED
        BY <1>0, <1>3, <2>1, <2>2 DEF RegisterFails, CleanFore
<1>4. CASE ProxyDeregisters(i)
    <2>1. \A j \in Ids : Born(j)' /\ Handed(j)' /\ TakenUp(j)' /\ CurrentOnlyBehind(j)'
        BY <1>4 DEF ProxyDeregisters, Born, Handed, TakenUp, CurrentOnlyBehind, InFlight, TypeOK
    <2>2. PushIsWanted'
        BY <1>4 DEF ProxyDeregisters, PushIsWanted, EndsAtTtl, EndsWhenRevoked, TypeOK
    <2>. QED
        BY <1>0, <1>4, <2>1, <2>2 DEF ProxyDeregisters, CleanFore
<1>5. CASE DeregisterFails(i)
    <2>1. PushIsWanted' /\ \A j \in Ids : Born(j)'
        BY <1>5, ObjectsAlone DEF DeregisterFails, TypeOK
    <2>2. \A j \in Ids : Handed(j)' /\ TakenUp(j)' /\ CurrentOnlyBehind(j)'
        BY <1>5 DEF DeregisterFails, Handed, TakenUp, CurrentOnlyBehind, InFlight, TypeOK
    <2>. QED
        BY <1>0, <1>5, <2>1, <2>2 DEF DeregisterFails, CleanFore
<1>. QED
    BY <1>1, <1>2, <1>3, <1>4, <1>5 DEF Calls

--------------------------------------------------------------------------------
(* The objects.                                                            *)

(* Time and the objects leave the phone and its calls alone.               *)
LEMMA PhoneAlone ==
    ASSUME PushInv, UNCHANGED <<phoneVars, callVars>>
    PROVE  CleanFore' /\ \A i \in Ids : Handed(i)' /\ CurrentOnlyBehind(i)' /\ TakenUp(i)'
BY DEF PushInv, phoneVars, callVars, CleanFore, Handed, CurrentOnlyBehind, TakenUp, InFlight

LEMMA ObjectInv ==
    ASSUME PushInv, NEW i \in Ids, Alarm(i) \/ AwaitedPush(i)
    PROVE  PushInv'
<1>. USE DEF PushInv, callVars, PushEnds
<1>0. TypeOK'
    BY ObjectTypeOK
<1>1. CleanFore' /\ \A j \in Ids : Handed(j)' /\ CurrentOnlyBehind(j)' /\ TakenUp(j)'
    BY PhoneAlone DEF Alarm, AlarmRuns, AwaitedPush, PushOk, PushGone, PushThrows
<1>2. ASSUME Alarm(i) PROVE PushIsWanted' /\ \A j \in Ids : Born(j)'
    <2>1. /\ UNCHANGED <<dereg, call, gone, undone, age>>
          /\ ~stored[i] => UNCHANGED <<stored, pushing, since>>
          /\ pushing'[i] => (stored[i] /\ age[i] <= Ttl) \/ UNCHANGED <<stored, pushing, since>>
          /\ stored'[i] => stored[i]
        BY <1>2 DEF Alarm, AlarmRuns, StartPush, TypeOK
    <2>2. \A j \in Ids \ {i} : /\ stored'[j] = stored[j] /\ pushing'[j] = pushing[j]
                              /\ since'[j] = since[j]
        BY <1>2 DEF Alarm, AlarmRuns, StartPush, TypeOK
    <2>. QED
        BY <2>1, <2>2 DEF PushIsWanted, EndsAtTtl, EndsWhenRevoked, Born
<1>3. ASSUME PushOk(i) PROVE PushIsWanted' /\ \A j \in Ids : Born(j)'
    BY <1>3 DEF PushOk, Rearm, PushIsWanted, EndsAtTtl, EndsWhenRevoked, Born, TypeOK
<1>4. ASSUME PushGone(i) PROVE PushIsWanted' /\ \A j \in Ids : Born(j)'
    BY <1>4 DEF PushGone, PushIsWanted, EndsAtTtl, EndsWhenRevoked, Born, TypeOK
<1>5. ASSUME PushThrows(i) PROVE PushIsWanted' /\ \A j \in Ids : Born(j)'
    BY <1>5 DEF PushThrows, PushIsWanted, EndsAtTtl, EndsWhenRevoked, Born, TypeOK
<1>. QED
    BY <1>0, <1>1, <1>2, <1>3, <1>4, <1>5 DEF AwaitedPush

(* A push that has been awaited for a tick does not begin any more.        *)
LEMMA TickInv ==
    ASSUME PushInv, Tick
    PROVE  PushInv'
<1>. USE DEF PushInv
<1>1. TypeOK'
    BY NextTypeOK DEF Next
<1>2. CleanFore' /\ \A i \in Ids : Handed(i)' /\ CurrentOnlyBehind(i)' /\ TakenUp(i)'
    BY PhoneAlone DEF Tick
<1>3. \A i \in Ids : pushing[i] => since'[i] # 0
    BY TimesAssumption DEF Tick, TypeOK
<1>4. PushIsWanted' /\ \A i \in Ids : Born(i)'
    BY <1>3 DEF Tick, PushIsWanted, EndsAtTtl, EndsWhenRevoked, Born, phoneVars, callVars, objectVars
<1>. QED
    BY <1>1, <1>2, <1>4

LEMMA NextPushInv ==
    ASSUME PushInv, [Next]_vars
    PROVE  PushInv'
<1>1. CASE UNCHANGED vars
    <2>1. TypeOK'
        BY <1>1, NextTypeOK DEF PushInv
    <2>2. CleanFore' /\ \A i \in Ids : Handed(i)' /\ CurrentOnlyBehind(i)' /\ TakenUp(i)'
        BY <1>1, PhoneAlone DEF vars
    <2>3. PushIsWanted' /\ \A i \in Ids : Born(i)'
        BY <1>1, ObjectsAlone DEF vars, callVars
    <2>. QED
        BY <2>1, <2>2, <2>3 DEF PushInv
<1>. QED
    BY <1>1, ControllerInv, CallsInv, ObjectInv, TickInv DEF Next

(* What the alarm pushes is wanted: none begins after the TTL, and none is *)
(* due any more once the registration was revoked.                         *)
THEOREM PushesAreWanted == Spec => []PushIsWanted
<1>1. PushInv => PushIsWanted
    BY DEF PushInv
<1>. QED
    BY <1>1, InitPushInv, NextPushInv, PTL DEF Spec

(* The Android app and its registrations agree, whenever a register call   *)
(* returns and whatever calls are lost.                                    *)
THEOREM NothingForgotten == Spec => []NoneForgotten
<1>1. PushInv => NoneForgotten
    BY DEF PushInv, TypeOK, NoneForgotten, CleanFore, Born, TakenUp
<1>. QED
    BY <1>1, InitPushInv, NextPushInv, PTL DEF Spec

--------------------------------------------------------------------------------
(* The alarm of a stored registration.                                     *)

(* What the proxy keeps is served, or was given up by the platform.        *)
Served(i) == stored[i] => armed[i] \/ pushing[i] \/ failed[i] = Retries

StoredIsServed == \A i \in Ids : Served(i)

LEMMA ObjectServed ==
    ASSUME TypeOK, StoredIsServed, NEW i \in Ids, Alarm(i) \/ AwaitedPush(i)
    PROVE  StoredIsServed'
<1>. USE BoundsAssumption DEF TypeOK, StoredIsServed, Served, PushEnds
<1>1. \A j \in Ids \ {i} : /\ stored'[j] = stored[j] /\ armed'[j] = armed[j]
                          /\ pushing'[j] = pushing[j] /\ failed'[j] = failed[j]
    BY DEF Alarm, AlarmRuns, StartPush, AwaitedPush, PushOk, PushGone, PushThrows, Rearm
<1>2. Served(i)'
    <2>1. CASE Alarm(i)
        BY <2>1 DEF Alarm, AlarmRuns, StartPush
    <2>2. CASE PushOk(i)
        BY <2>2 DEF PushOk, Rearm
    <2>3. CASE PushGone(i)
        BY <2>3 DEF PushGone
    <2>4. CASE PushThrows(i)
        <3>1. CASE failed[i] < Retries
            <4>1. armed'[i]
                BY <2>4, <3>1 DEF PushThrows
            <4>. QED
                BY <4>1
        <3>2. CASE failed[i] = Retries
            <4>1. failed'[i] = Retries
                BY <2>4, <3>2 DEF PushThrows
            <4>. QED
                BY <4>1
        <3>. QED
            BY <3>1, <3>2
    <2>. QED
        BY <2>1, <2>2, <2>3, <2>4 DEF AwaitedPush
<1>. QED
    BY <1>1, <1>2

LEMMA NextServed ==
    ASSUME TypeOK, StoredIsServed, [Next]_vars
    PROVE  StoredIsServed'
<1>. USE DEF TypeOK, StoredIsServed, Served
<1>1. CASE Controller
    BY <1>1 DEF Controller, Background, Resume, Foreground, TurnsEnd, objectVars, timeVars
<1>2. CASE \E i \in Ids : Calls(i)
    <2>1. PICK i \in Ids : Calls(i)
        BY <1>2
    <2>2. CASE ProxyRegisters(i)
        BY <2>2 DEF ProxyRegisters
    <2>3. CASE ProxyDeregisters(i)
        BY <2>3 DEF ProxyDeregisters
    <2>4. CASE RegisterReturns(i) \/ RegisterFails(i) \/ DeregisterFails(i)
        BY <2>4 DEF RegisterReturns, Return, RegisterFails, DeregisterFails, objectVars, timeVars
    <2>. QED
        BY <2>1, <2>2, <2>3, <2>4 DEF Calls
<1>3. CASE \E i \in Ids : Alarm(i) \/ AwaitedPush(i)
    BY <1>3, ObjectServed
<1>4. CASE Tick \/ UNCHANGED vars
    BY <1>4 DEF Tick, vars, objectVars, timeVars
<1>. QED
    BY <1>1, <1>2, <1>3, <1>4 DEF Next

(* The handler does not forget a registration: one that is stored has an   *)
(* alarm, or a push whose end sets one, or deletes it, until the platform  *)
(* has run its handler in vain as often as it does.                        *)
THEOREM StoredRegistrationsServed == Spec => []StoredIsServed
<1>1. Init => StoredIsServed
    BY DEF Init, StoredIsServed, Served
<1>. QED
    BY <1>1, InitTypeOK, NextTypeOK, NextServed, PTL DEF Spec

================================================================================
