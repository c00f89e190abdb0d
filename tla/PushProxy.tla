------------------------------- MODULE PushProxy -------------------------------
(***************************************************************************)
(* The push proxy and one phone: the durable objects that keep pushing a   *)
(* backgrounded phone, one per registration, and the lifecycle controller  *)
(* that registers on the way to the background and deregisters on the way  *)
(* back.  Time is counted in ticks.                                        *)
(*                                                                         *)
(* A durable object handles no other event while it awaits its storage,    *)
(* but it does while an alarm awaits the push.                             *)
(***************************************************************************)
EXTENDS Naturals

CONSTANTS
    Ids,       \* registrations, each the result of one register call
    None,      \* no registration
    Interval,  \* intervalSeconds, in ticks
    Ttl,       \* ttlSeconds, in ticks
    Retries,   \* how often the platform runs a failed alarm again
    Resumes    \* bound: how often the app comes to the foreground

ASSUME NoneAssumption == None \notin Ids
ASSUME TimesAssumption == Interval \in Nat \ {0} /\ Ttl \in Nat
ASSUME BoundsAssumption == Retries \in Nat /\ Resumes \in Nat

VARIABLES
    android,     \* the phone has the Android controller, else the iOS one
    phone,       \* the app: fore, back, or resuming
    generation,  \* pushProxyGeneration, which iOS lacks
    known,       \* pushProxyRegistrationId
    call,        \* id -> the register call that creates it
    callGen,     \* id -> the generation when the call began
    dereg,       \* id -> the deregister call for it
    stored,      \* id -> its object holds a registration
    age,         \* id -> ticks since createdAt, up to Ttl + 1
    armed,       \* id -> its object has an alarm
    due,         \* id -> ticks until the alarm may run
    pushing,     \* id -> its alarm awaits a push
    since,       \* id -> ticks since that alarm began, up to Interval
    failed,      \* id -> failed runs of the alarm in a row
    gone,        \* auxiliary: id -> the push service has disowned its token
    undone       \* auxiliary: id -> its deregistration came during a push

phoneVars == <<android, phone, generation, known>>
callVars == <<call, callGen, dereg>>
objectVars == <<stored, armed, pushing, failed, gone, undone>>
timeVars == <<age, due, since>>
vars == <<phoneVars, callVars, objectVars, timeVars>>

TypeOK ==
    /\ android \in BOOLEAN
    /\ phone \in {"fore", "back", "resuming"}
    /\ generation \in 0..Resumes
    /\ known \in Ids \cup {None}
    /\ call \in [Ids -> {"idle", "sent", "created", "returned", "lost"}]
    /\ callGen \in [Ids -> 0..Resumes]
    /\ dereg \in [Ids -> {"no", "sent", "applied", "failed"}]
    /\ stored \in [Ids -> BOOLEAN]
    /\ age \in [Ids -> 0..(Ttl + 1)]
    /\ armed \in [Ids -> BOOLEAN]
    /\ due \in [Ids -> 0..Interval]
    /\ pushing \in [Ids -> BOOLEAN]
    /\ since \in [Ids -> 0..Interval]
    /\ failed \in [Ids -> 0..Retries]
    /\ gone \in [Ids -> BOOLEAN]
    /\ undone \in [Ids -> BOOLEAN]

Init ==
    /\ android \in BOOLEAN
    /\ phone = "fore"
    /\ generation = 0
    /\ known = None
    /\ call = [i \in Ids |-> "idle"]
    /\ callGen = [i \in Ids |-> 0]
    /\ dereg = [i \in Ids |-> "no"]
    /\ stored = [i \in Ids |-> FALSE]
    /\ age = [i \in Ids |-> 0]
    /\ armed = [i \in Ids |-> FALSE]
    /\ due = [i \in Ids |-> 0]
    /\ pushing = [i \in Ids |-> FALSE]
    /\ since = [i \in Ids |-> 0]
    /\ failed = [i \in Ids |-> 0]
    /\ gone = [i \in Ids |-> FALSE]
    /\ undone = [i \in Ids |-> FALSE]

--------------------------------------------------------------------------------
(***************************************************************************)
(* The lifecycle controller.                                               *)
(***************************************************************************)

(* registerPushProxy, up to the request.                                   *)
Register(i) ==
    /\ known = None
    /\ call[i] = "idle"
    /\ call' = [call EXCEPT ![i] = "sent"]
    /\ callGen' = [callGen EXCEPT ![i] = generation]

(* Nothing is registered when no turn runs, no token is known or a         *)
(* registration is.                                                        *)
Background ==
    /\ phone = "fore"
    /\ phone' = "back"
    /\ (\E i \in Ids : Register(i)) \/ UNCHANGED <<call, callGen>>
    /\ UNCHANGED <<android, generation, known, dereg, objectVars, timeVars>>

(* deregisterPushProxy, up to the request.                                 *)
Deregister ==
    /\ known' = None
    /\ dereg' = IF known = None THEN dereg ELSE [dereg EXCEPT ![known] = "sent"]

Resume ==
    /\ phone = "back"
    /\ generation < Resumes
    /\ generation' = generation + 1
    /\ phone' = "resuming"
    /\ UNCHANGED <<android, known, callVars, objectVars, timeVars>>

Foreground ==
    /\ phone = "resuming"
    /\ phone' = "fore"
    /\ Deregister
    /\ UNCHANGED <<android, generation, call, callGen, objectVars, timeVars>>

(* handleBackgroundPush on iOS: no turn is left to wait for.               *)
TurnsEnd ==
    /\ ~android
    /\ phone = "back"
    /\ known # None
    /\ Deregister
    /\ UNCHANGED <<android, phone, generation, call, callGen, objectVars, timeVars>>

(* The app is in the foreground again, or has registered anew.             *)
Stale(i) == android /\ (generation # callGen[i] \/ known # None)
Keep(i) == known' = i /\ UNCHANGED dereg
GiveBack(i) == dereg' = [dereg EXCEPT ![i] = "sent"] /\ UNCHANGED known
Return(i) ==
    /\ call[i] = "created"
    /\ call' = [call EXCEPT ![i] = "returned"]
    /\ UNCHANGED <<android, phone, generation, callGen, objectVars, timeVars>>

(* Mutant: the late registration overwrites the current one.               *)
RegisterReturnsLast(i) == Return(i) /\ Keep(i)

RegisterReturns(i) == Return(i) /\ IF Stale(i) THEN GiveBack(i) ELSE Keep(i)

(* The request is refused by the rate limiter or lost, or its answer is.   *)
RegisterFails(i) ==
    /\ call[i] \in {"sent", "created"}
    /\ call' = [call EXCEPT ![i] = "lost"]
    /\ UNCHANGED <<phoneVars, callGen, dereg, objectVars, timeVars>>

DeregisterFails(i) ==
    /\ dereg[i] = "sent"
    /\ dereg' = [dereg EXCEPT ![i] = "failed"]
    /\ UNCHANGED <<phoneVars, call, callGen, objectVars, timeVars>>

--------------------------------------------------------------------------------
(***************************************************************************)
(* The durable object of a registration.                                   *)
(***************************************************************************)

ProxyRegisters(i) ==
    /\ call[i] = "sent"
    /\ call' = [call EXCEPT ![i] = "created"]
    /\ stored' = [stored EXCEPT ![i] = TRUE]
    /\ age' = [age EXCEPT ![i] = 0]
    /\ armed' = [armed EXCEPT ![i] = TRUE]
    /\ due' = [due EXCEPT ![i] = Interval]
    /\ UNCHANGED <<phoneVars, callGen, dereg, pushing, failed, gone, undone, since>>

(* deleteAll leaves the alarm in place.                                    *)
ProxyDeregisters(i) ==
    /\ dereg[i] = "sent"
    /\ dereg' = [dereg EXCEPT ![i] = "applied"]
    /\ stored' = [stored EXCEPT ![i] = FALSE]
    /\ undone' = [undone EXCEPT ![i] = pushing[i]]
    /\ UNCHANGED <<phoneVars, call, callGen, armed, pushing, failed, gone, timeVars>>

AlarmRuns(i) ==
    /\ armed[i]
    /\ due[i] = 0
    /\ ~pushing[i]
    /\ armed' = [armed EXCEPT ![i] = FALSE]
    /\ UNCHANGED <<phoneVars, callVars, failed, gone, undone, age, due>>

StartPush(i) ==
    /\ pushing' = [pushing EXCEPT ![i] = TRUE]
    /\ since' = [since EXCEPT ![i] = 0]
    /\ UNCHANGED stored

(* Mutant: a push goes out whether a registration is stored or not.        *)
AlarmUnchecked(i) ==
    /\ AlarmRuns(i)
    /\ IF age[i] > Ttl
       THEN stored' = [stored EXCEPT ![i] = FALSE] /\ UNCHANGED <<pushing, since>>
       ELSE StartPush(i)

Alarm(i) ==
    /\ AlarmRuns(i)
    /\ \/ ~stored[i] /\ UNCHANGED <<stored, pushing, since>>
       \/ /\ stored[i] /\ age[i] > Ttl
          /\ stored' = [stored EXCEPT ![i] = FALSE]
          /\ UNCHANGED <<pushing, since>>
       \/ stored[i] /\ age[i] <= Ttl /\ StartPush(i)

PushEnds(i) ==
    /\ pushing[i]
    /\ pushing' = [pushing EXCEPT ![i] = FALSE]
    /\ UNCHANGED <<phoneVars, callVars, undone, since>>

(* put and setAlarm: with the registration read before the push, and       *)
(* counted from the time before it.                                        *)
Rearm(i) ==
    /\ stored' = [stored EXCEPT ![i] = TRUE]
    /\ armed' = [armed EXCEPT ![i] = TRUE]
    /\ due' = [due EXCEPT ![i] = Interval - since[i]]

(* Mutant: the registration is renewed by each push.                       *)
PushOkRenews(i) ==
    /\ PushEnds(i)
    /\ Rearm(i)
    /\ failed' = [failed EXCEPT ![i] = 0]
    /\ age' = [age EXCEPT ![i] = 0]
    /\ UNCHANGED gone

PushOk(i) ==
    /\ PushEnds(i)
    /\ Rearm(i)
    /\ failed' = [failed EXCEPT ![i] = 0]
    /\ UNCHANGED <<age, gone>>

(* The push service answers that the token is gone or unregistered.        *)
PushGone(i) ==
    /\ PushEnds(i)
    /\ gone' = [gone EXCEPT ![i] = TRUE]
    /\ stored' = [stored EXCEPT ![i] = FALSE]
    /\ UNCHANGED <<armed, failed, age, due>>

(* Mutant: one run more than the platform allows.                          *)
PushThrowsOnceMore(i) ==
    /\ PushEnds(i)
    /\ armed' = [armed EXCEPT ![i] = failed[i] <= Retries]
    /\ failed' = [failed EXCEPT ![i] = @ + 1]
    /\ UNCHANGED <<stored, gone, age, due>>

(* The handler throws: the platform runs it again, a bounded number of     *)
(* times, after which the registration stays stored without an alarm.      *)
PushThrows(i) ==
    /\ PushEnds(i)
    /\ armed' = [armed EXCEPT ![i] = failed[i] < Retries]
    /\ failed' = [failed EXCEPT ![i] = IF @ < Retries THEN @ + 1 ELSE @]
    /\ UNCHANGED <<stored, gone, age, due>>

Tick ==
    /\ age' = [i \in Ids |->
                 IF call[i] \notin {"idle", "sent"} /\ age[i] <= Ttl THEN age[i] + 1 ELSE age[i]]
    /\ due' = [i \in Ids |-> IF due[i] > 0 THEN due[i] - 1 ELSE 0]
    /\ since' = [i \in Ids |-> IF pushing[i] /\ since[i] < Interval THEN since[i] + 1 ELSE since[i]]
    /\ UNCHANGED <<phoneVars, callVars, objectVars>>

--------------------------------------------------------------------------------
AwaitedPush(i) == PushOk(i) \/ PushGone(i) \/ PushThrows(i)
Controller == Background \/ Resume \/ Foreground \/ TurnsEnd
Calls(i) ==
    \/ ProxyRegisters(i) \/ RegisterReturns(i) \/ RegisterFails(i)
    \/ ProxyDeregisters(i) \/ DeregisterFails(i)

Next == Controller \/ Tick \/ \E i \in Ids : Calls(i) \/ Alarm(i) \/ AwaitedPush(i)

Spec == Init /\ [][Next]_vars

(* Time passes, a due alarm runs, a push request ends: nothing is assumed  *)
(* of the phone or of its calls.                                           *)
Fairness ==
    /\ WF_vars(Tick)
    /\ \A i \in Ids : WF_vars(Alarm(i)) /\ WF_vars(AwaitedPush(i))

FairSpec == Spec /\ Fairness

--------------------------------------------------------------------------------
(***************************************************************************)
(* Properties.                                                             *)
(***************************************************************************)

(* No push begins after the TTL counted from the registration, also when   *)
(* the alarm has written a registration back that was deleted meanwhile.   *)
EndsAtTtl(i) == pushing[i] /\ since[i] = 0 => age[i] <= Ttl

(* A deregistration stands, and nothing more is pushed, unless it came     *)
(* while a push was awaited; and nothing is pushed to a token that the     *)
(* push service has disowned, though its answer comes in the middle of an  *)
(* alarm.                                                                  *)
EndsWhenRevoked(i) ==
    (dereg[i] = "applied" /\ ~undone[i]) \/ gone[i] => ~stored[i] /\ ~pushing[i]

(* What the alarm pushes is wanted: not after the TTL, nor after the       *)
(* registration was revoked by the phone or by the push service.           *)
PushIsWanted == \A i \in Ids : EndsAtTtl(i) /\ EndsWhenRevoked(i)

(* The Android app and its registrations agree, however late a register    *)
(* call returned: in the foreground it regards none as its own, and one    *)
(* that exists is its own, is or was given back, or its answer never came. *)
NoneForgotten ==
    android =>
        /\ phone = "fore" => known = None
        /\ \A i \in Ids : stored[i] => \/ call[i] \in {"created", "lost"}
                                       \/ known = i
                                       \/ dereg[i] # "no"

(* Whatever calls were lost or undone, the proxy falls silent.             *)
EventuallyQuiet == \A i \in Ids : <>[](~armed[i] /\ ~pushing[i])
================================================================================
