------------------------------ MODULE ConnectFlows ------------------------------
(***************************************************************************)
(* The calls that connect one saved server: reconnect_saved_servers, which *)
(* a wake of the app starts and of which one runs at a time, the user's    *)
(* reconnect_server, and the guided SSH connect, a task that shows its     *)
(* progress in the server's entry and may wait for the user's answer.  The *)
(* three write the same entry and know nothing of each other.              *)
(*                                                                         *)
(* A step is what a call does between two awaits.  The session map, the    *)
(* readers and the closing of replaced sessions are those of               *)
(* SessionRegistry; here a session is up or down, and ReaderWrites stands  *)
(* for any reader.                                                         *)
(***************************************************************************)
EXTENDS ReconnectPlans

CONSTANTS
    Setups,  \* what the user may have saved
    None,    \* no entry
    Begins,  \* bound: calls and guided connects begun
    Moves    \* bound: writes by health readers

Callers == {"bulk", "one"}
Health == {"Connecting", "Connected", "Disconnected"}
Progress == {"none", "running", "prompt", "failed"}
Entry == [health : Health, progress : Progress]

ASSUME SetupsAssumption ==
    Setups \subseteq [record : SavedServer, credential : BOOLEAN, quic : BOOLEAN]
ASSUME NoneAssumption == None \notin Entry
ASSUME BoundsAssumption == Begins \in Nat /\ Moves \in Nat

VARIABLES
    setup,     \* the saved server, and what is constant beside it
    entry,     \* the server's entry in the app store, or None
    session,   \* the session in the map: none, up or down
    call,      \* caller -> its call in progress
    flow,      \* the guided connect
    begun,     \* calls begun
    moved,     \* writes by health readers
    disturbed, \* auxiliary: another call has written the entry's progress
               \* since the guided connect began
    left       \* auxiliary: an SSH connect has ended and left its progress

boundVars == <<begun, moved>>
auxVars == <<disturbed, left>>
vars == <<setup, entry, session, call, flow, boundVars, auxVars>>

Idle == [pc |-> "idle", seen |-> "none", plan |-> NoPlan]

(* seen: the health of the entry in the snapshot the call works from.      *)
Call == [pc : {"idle", "plan", "begin", "dial"}, seen : Health \cup {"none"},
         plan : Plan]

(* listed: in ssh_bootstrap_flows, with a sender for the user's answer.    *)
Flow == [pc : {"idle", "dial", "find", "prompt", "waiting", "answered",
               "install", "boot", "finish", "ending"},
         listed : BOOLEAN, sender : BOOLEAN, install : BOOLEAN]

TypeOK ==
    /\ setup \in Setups
    /\ entry \in Entry \cup {None}
    /\ session \in {"none", "up", "down"}
    /\ call \in [Callers -> Call]
    /\ flow \in Flow
    /\ begun \in 0..Begins
    /\ moved \in 0..Moves
    /\ disturbed \in BOOLEAN
    /\ left \in BOOLEAN
    /\ flow.sender => flow.pc = "waiting"
    /\ flow.pc # "idle" => flow.listed

Init ==
    /\ setup \in Setups
    /\ entry = None
    /\ session = "none"
    /\ call = [a \in Callers |-> Idle]
    /\ flow = [pc |-> "idle", listed |-> FALSE, sender |-> FALSE, install |-> FALSE]
    /\ begun = 0
    /\ moved = 0
    /\ disturbed = FALSE
    /\ left = FALSE

--------------------------------------------------------------------------------
(***************************************************************************)
(* Writes to the entry.                                                    *)
(***************************************************************************)

SeenHealth == IF entry = None THEN "none" ELSE entry.health

(* Mutant: the entry is built anew.                                        *)
UpsertedAnew(h) == [health |-> h, progress |-> "none"]

(* upsert_server keeps the progress of an entry there is.                  *)
Upserted(h) ==
    [health |-> h, progress |-> IF entry = None THEN "none" ELSE entry.progress]

(* update_server_health and update_server_connection_progress.             *)
Updated(h, p) == IF entry = None THEN None ELSE [health |-> h, progress |-> p]

Disturb == disturbed' = (disturbed \/ flow.pc # "idle")

--------------------------------------------------------------------------------
(***************************************************************************)
(* The reconnect controller.                                               *)
(***************************************************************************)

MayBegin == begun < Begins /\ begun' = begun + 1

(* reconnect_saved_servers, when the app becomes active or the network is  *)
(* reachable: the guard is free, and the entries are looked at once.  A    *)
(* call that finds the guard taken returns.                                *)
Wake ==
    /\ call["bulk"].pc = "idle"
    /\ MayBegin
    /\ call' = [call EXCEPT !["bulk"] = [Idle EXCEPT !.pc = "plan", !.seen = SeenHealth]]
    /\ UNCHANGED <<setup, entry, session, flow, moved, auxVars>>

(* reconnect_server takes no guard; it disconnects the server first.       *)
ReconnectServer ==
    /\ call["one"].pc = "idle"
    /\ MayBegin
    /\ call' = [call EXCEPT !["one"] = [Idle EXCEPT !.pc = "plan", !.seen = SeenHealth]]
    /\ entry' = None
    /\ session' = "none"
    /\ Disturb
    /\ UNCHANGED <<setup, flow, moved, left>>

(* What a call does once the local server and the credentials have been    *)
(* waited for.  Without a plan, reconnect_server dials the host and port   *)
(* that the entry had.                                                     *)
PlanOf(a) ==
    LET connected == a = "bulk" /\ call[a].seen = "Connected"
        plan == ReconnectPlan(setup.record, setup.credential, connected, setup.quic)
    IN  IF a = "one" /\ plan = NoPlan /\ call[a].seen # "none"
        THEN Via("direct", setup.record.port) ELSE plan

MakePlan(a) ==
    /\ call[a].pc = "plan"
    /\ call' = [call EXCEPT ![a] =
                   IF PlanOf(a) = NoPlan THEN Idle
                   ELSE [@ EXCEPT !.pc = "begin", !.plan = PlanOf(a)]]
    /\ UNCHANGED <<setup, entry, session, flow, boundVars, auxVars>>

Planned(a, kinds) == call[a].pc = "begin" /\ call[a].plan.kind \in kinds
Return(a) == call' = [call EXCEPT ![a] = Idle]
Dial(a) == call' = [call EXCEPT ![a].pc = "dial"] /\ session' = "none"

(* connect_remote reuses a session that is not disconnected.               *)
Reuse(a) ==
    /\ Planned(a, {"url", "direct"})
    /\ session = "up"
    /\ Return(a)
    /\ UNCHANGED <<setup, entry, session, flow, boundVars, auxVars>>

BeginDirect(a) ==
    /\ Planned(a, {"url", "direct"})
    /\ session # "up"
    /\ Dial(a)
    /\ UNCHANGED <<setup, entry, flow, boundVars, auxVars>>

(* connect_remote_over_ssh shows its progress and replaces any session.    *)
BeginSsh(a) ==
    /\ Planned(a, {"ssh"})
    /\ Dial(a)
    /\ entry' = [health |-> "Connecting", progress |-> "running"]
    /\ Disturb
    /\ UNCHANGED <<setup, flow, boundVars, left>>

(* The host of the agents is asked first, and may refuse.                  *)
BeginBridges(a) ==
    /\ Planned(a, {"alleycat", "bridges"})
    /\ Dial(a)
    /\ entry' = Upserted("Connecting")
    /\ UNCHANGED <<setup, flow, boundVars, auxVars>>

RefuseBridges(a) ==
    /\ Planned(a, {"alleycat", "bridges"})
    /\ Return(a)
    /\ \/ UNCHANGED entry
       \/ /\ call[a].plan.kind = "alleycat"
          /\ entry' = Updated("Disconnected", entry.progress)
    /\ UNCHANGED <<setup, session, flow, boundVars, auxVars>>

Dialling(a, kinds) == call[a].pc = "dial" /\ call[a].plan.kind \in kinds

DialOk(a) ==
    /\ Dialling(a, PlanKinds)
    /\ Return(a)
    /\ session' = "up"
    /\ IF call[a].plan.kind = "ssh"
       THEN /\ entry' = [health |-> "Connected", progress |-> "none"]
            /\ Disturb
            /\ left' = FALSE
       ELSE entry' = Upserted("Connected") /\ UNCHANGED auxVars
    /\ UNCHANGED <<setup, flow, boundVars>>

(* No SSH connection, or no direct one: the call returns at once.          *)
DialQuits(a) ==
    /\ Dialling(a, {"url", "direct", "bridges", "ssh"})
    /\ Return(a)
    /\ left' = (left \/ call[a].plan.kind = "ssh")
    /\ UNCHANGED <<setup, entry, session, flow, boundVars, disturbed>>

(* Mutant: the progress of a failed bootstrap is not taken back.           *)
DialFailsShowing(a) ==
    /\ Dialling(a, {"alleycat", "bridges", "ssh"})
    /\ Return(a)
    /\ entry' = Updated("Disconnected", entry.progress)
    /\ IF call[a].plan.kind = "ssh" THEN Disturb /\ left' = FALSE ELSE UNCHANGED auxVars
    /\ UNCHANGED <<setup, session, flow, boundVars>>

(* A later failure, after which connect_remote_over_ssh cleans up.         *)
DialFails(a) ==
    /\ Dialling(a, {"alleycat", "bridges", "ssh"})
    /\ Return(a)
    /\ IF call[a].plan.kind = "ssh"
       THEN /\ entry' = Updated("Disconnected", "none")
            /\ Disturb
            /\ left' = FALSE
       ELSE entry' = Updated("Disconnected", entry.progress) /\ UNCHANGED auxVars
    /\ UNCHANGED <<setup, session, flow, boundVars>>

CallStep(a) ==
    \/ MakePlan(a)
    \/ Reuse(a)
    \/ BeginDirect(a)
    \/ BeginSsh(a)
    \/ BeginBridges(a)
    \/ RefuseBridges(a)
    \/ DialOk(a)
    \/ DialQuits(a)
    \/ DialFails(a)

--------------------------------------------------------------------------------
(***************************************************************************)
(* The guided SSH connect.                                                 *)
(***************************************************************************)

(* start_remote_over_ssh_connect.  While a flow is listed the call returns *)
(* and changes nothing.                                                    *)
StartGuided ==
    /\ ~flow.listed
    /\ MayBegin
    /\ flow' = [pc |-> "dial", listed |-> TRUE, sender |-> FALSE, install |-> FALSE]
    /\ entry' = [health |-> "Connecting", progress |-> "running"]
    /\ disturbed' = FALSE
    /\ UNCHANGED <<setup, session, call, moved, left>>

(* A step of the flow that shows progress p.                               *)
Step(from, to, p) ==
    /\ flow.pc = from
    /\ flow' = [flow EXCEPT !.pc = to]
    /\ entry' = Updated(entry.health, p)
    /\ UNCHANGED <<setup, session, call, boundVars, auxVars>>

SshUp == Step("dial", "find", "running")
CodexFound == Step("find", "boot", "running")
CodexMissing == Step("find", "prompt", "prompt")
Installed == Step("install", "boot", "running")
Booted == Step("boot", "finish", "running")

(* The prompt is shown before there is a sender for the answer.            *)
AwaitAnswer ==
    /\ flow.pc = "prompt"
    /\ flow' = [flow EXCEPT !.pc = "waiting", !.sender = TRUE]
    /\ UNCHANGED <<setup, entry, session, call, boundVars, auxVars>>

(* ssh_respond_to_install_prompt; without a sender it is refused.          *)
Respond(install) ==
    /\ flow.sender
    /\ flow' = [flow EXCEPT !.pc = "answered", !.sender = FALSE, !.install = install]
    /\ UNCHANGED <<setup, entry, session, call, boundVars, auxVars>>

Accepted == flow.install /\ Step("answered", "install", "running")

End(h, p) ==
    /\ flow' = [flow EXCEPT !.pc = "ending"]
    /\ entry' = Updated(h, p)
    /\ left' = FALSE
    /\ UNCHANGED <<setup, session, call, boundVars, disturbed>>

Declined ==
    /\ flow.pc = "answered"
    /\ ~flow.install
    /\ End("Disconnected", "failed")

FlowFails ==
    /\ flow.pc \in {"dial", "find", "install", "boot", "finish"}
    /\ End("Disconnected", "failed")

(* finish_connect_remote_over_ssh attaches its session over any other.     *)
Attached ==
    /\ flow.pc = "finish"
    /\ flow' = [flow EXCEPT !.pc = "ending"]
    /\ entry' = [health |-> "Connected", progress |-> "none"]
    /\ session' = "up"
    /\ left' = FALSE
    /\ UNCHANGED <<setup, call, boundVars, disturbed>>

(* Mutant: only a flow that has connected is taken off the list.           *)
EndFlowConnected ==
    /\ flow.pc = "ending"
    /\ flow' = [flow EXCEPT !.pc = "idle", !.install = FALSE,
                            !.listed = SeenHealth # "Connected"]
    /\ disturbed' = FALSE
    /\ UNCHANGED <<setup, entry, session, call, boundVars, left>>

EndFlow ==
    /\ flow.pc = "ending"
    /\ flow' = [flow EXCEPT !.pc = "idle", !.listed = FALSE, !.install = FALSE]
    /\ disturbed' = FALSE
    /\ UNCHANGED <<setup, entry, session, call, boundVars, left>>

FlowStep ==
    \/ SshUp
    \/ CodexFound
    \/ CodexMissing
    \/ Installed
    \/ Booted
    \/ AwaitAnswer
    \/ Accepted
    \/ Declined
    \/ FlowFails
    \/ Attached
    \/ EndFlow

--------------------------------------------------------------------------------
(* A health event is folded.  The event may be that of a replaced session; *)
(* while there is progress a disconnect is shown as connecting.            *)
ReaderWrites(h) ==
    /\ moved < Moves
    /\ moved' = moved + 1
    /\ entry # None
    /\ entry' = [entry EXCEPT !.health =
                    IF entry.progress # "none" /\ h = "Disconnected"
                    THEN "Connecting" ELSE h]
    /\ session' \in {session} \cup
                    (IF session = "none" THEN {}
                     ELSE IF h = "Connected" THEN {"up"} ELSE {"down"})
    /\ UNCHANGED <<setup, call, flow, begun, auxVars>>

Next ==
    \/ Wake
    \/ ReconnectServer
    \/ \E a \in Callers : CallStep(a)
    \/ StartGuided
    \/ \E install \in BOOLEAN : Respond(install)
    \/ FlowStep
    \/ \E h \in {"Connected", "Disconnected"} : ReaderWrites(h)

Spec == Init /\ [][Next]_vars

(* What awaits neither a host nor the user is done.  SSH authentication    *)
(* and uploads, the forwarded socket, Alleycat's frames and the closing of *)
(* a replaced session have no time-out: that they end is assumed nowhere   *)
(* but in the premises of CallsEnd.                                        *)
Fairness == WF_vars(AwaitAnswer \/ Accepted \/ Declined \/ EndFlow)

FairSpec == Spec /\ Fairness

--------------------------------------------------------------------------------
(* A server is dialled the way the Android app's rules say it is           *)
(* (compute_reconnect_plan "consolidates" them), except one that prefers a *)
(* direct connection and has no port for it.                               *)
PlansAgree == SamePlan(setup.record, setup.credential, setup.quic)

(* A guided connect that asks the user whether to install is seen to ask,  *)
(* unless an SSH reconnect or a disconnect of the same server has          *)
(* overwritten what it shows: then it waits for an answer to a question    *)
(* that is nowhere to be seen.                                             *)
PromptIsVisible ==
    flow.pc \in {"prompt", "waiting"} /\ ~disturbed =>
        entry # None /\ entry.progress = "prompt"

(* When all calls on a server have ended no progress is shown that will    *)
(* never end, in whatever order they overlapped, unless an SSH connection  *)
(* failed: connect_remote_over_ssh then returns and leaves its progress.   *)
ProgressEnds ==
    /\ \A a \in Callers : call[a].pc = "idle"
    /\ flow.pc = "idle"
    /\ ~left
    => entry = None \/ entry.progress \in {"none", "failed"}

(* A call of which every await ends returns, which frees the guard of      *)
(* reconnect_saved_servers, and such a guided connect leaves the list of   *)
(* flows, so that another can start, or waits for the user: whether the    *)
(* others on the same server hang for ever or change the entry meanwhile.  *)
CallsEnd ==
    /\ \A a \in Callers :
          WF_vars(CallStep(a)) => (call[a].pc # "idle" ~> call[a].pc = "idle")
    /\ WF_vars(FlowStep) => (flow.listed ~> (~flow.listed \/ flow.pc = "waiting"))
================================================================================
