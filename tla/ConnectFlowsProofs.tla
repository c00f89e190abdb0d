--------------------------- MODULE ConnectFlowsProofs ---------------------------
(***************************************************************************)
(* Type correctness of ConnectFlows, the plan of any saved server, and     *)
(* what the entry shows, for any number of calls in any order.             *)
(***************************************************************************)
EXTENDS ConnectFlows, SequenceTheorems, TLAPS

--------------------------------------------------------------------------------
(* Plans.                                                                  *)

(* The ports of a record are ports.                                        *)
LEMMA PortsType ==
    ASSUME NEW r \in SavedServer
    PROVE  CodexPorts(r) \in Seq(Nat \ {0})
<1>1. r.codexPorts \in Seq(Nat \ {0}) /\ r.port \in Nat
    BY DEF SavedServer
<1>2. CASE r.hasCodex /\ r.port > 0
    <2>1. <<r.port>> \in Seq(Nat \ {0})
        BY <1>1, <1>2
    <2>2. CodexPorts(r) = <<r.port>> \o r.codexPorts
        BY <1>2 DEF CodexPorts
    <2>. QED
        BY <1>1, <2>1, <2>2, ConcatProperties
<1>3. CASE ~(r.hasCodex /\ r.port > 0)
    <2>1. <<>> \in Seq(Nat \ {0})
        OBVIOUS
    <2>2. CodexPorts(r) = <<>> \o r.codexPorts
        BY <1>3 DEF CodexPorts
    <2>. QED
        BY <1>1, <2>1, <2>2, ConcatProperties
<1>. QED
    BY <1>2, <1>3

(* A direct connection dials a port that the record lists.                 *)
LEMMA DirectPortListed ==
    ASSUME NEW r \in SavedServer, NEW mode, DirectCodexPort(r, mode) # 0
    PROVE  /\ DirectCodexPort(r, mode) \in Nat
           /\ Listed(r, DirectCodexPort(r, mode))
<1>1. r.preferredPort \in Nat
    BY DEF SavedServer
<1>2. CASE PreferredCodexPort(r, mode) > 0
    <2>1. DirectCodexPort(r, mode) = r.preferredPort /\ Listed(r, r.preferredPort)
        BY <1>2 DEF DirectCodexPort, PreferredCodexPort
    <2>. QED
        BY <1>1, <2>1
<1>3. CASE ~(PreferredCodexPort(r, mode) > 0)
    <2>1. DirectCodexPort(r, mode) = CodexPorts(r)[1] /\ CodexPorts(r) # <<>>
        BY <1>3 DEF DirectCodexPort, HasPorts
    <2>2. 1 \in DOMAIN CodexPorts(r)
        BY <2>1, PortsType
    <2>3. CodexPorts(r)[1] \in Nat
        BY <2>2, PortsType
    <2>. QED
        BY <2>1, <2>2, <2>3 DEF Listed
<1>. QED
    BY <1>2, <1>3

LEMMA PlanType ==
    ASSUME NEW r \in SavedServer, NEW credential, NEW connected, NEW quic
    PROVE  ReconnectPlan(r, credential, connected, quic) \in Plan
<1>. DEFINE mode == ResolvedMode(r)
<1>1. SshPort(r) \in Nat
    BY DEF SavedServer, SshPort
<1>2. DirectCodexPort(r, mode) \in Nat
    BY DirectPortListed
<1>3. \A k \in PlanKinds, p \in Nat : Via(k, p) \in Plan
    BY DEF Via, Plan
<1>4. NoPlan \in Plan
    BY DEF NoPlan, Plan, PlanKinds
<1>. QED
    BY <1>1, <1>2, <1>3, <1>4 DEF ReconnectPlan, PlanIn, PlanKinds

(* Without a dead direct mode, the two modes differ only for a record with *)
(* a URL, whose plan does not look at the mode.                            *)
LEMMA ModesAgree ==
    ASSUME NEW r \in SavedServer, ~DeadDirect(r), ~r.url
    PROVE  ResolvedMode(r) = AppMode(r)
<1>. r.mode \in Modes /\ r.forwarding \in BOOLEAN
    BY DEF SavedServer
<1>1. CASE r.mode = "directCodex"
    <2>1. HasPorts(r)
        BY <1>1 DEF DeadDirect
    <2>. QED
        BY <1>1, <2>1, NoModeAssumption DEF ResolvedMode, AppMode
<1>2. CASE r.mode = "ssh"
    <2>1. CanConnectViaSsh(r)
        BY <1>2 DEF CanConnectViaSsh
    <2>. QED
        BY <1>2, <2>1, NoModeAssumption DEF ResolvedMode, AppMode
<1>3. CASE r.mode # "directCodex" /\ r.mode # "ssh"
    BY <1>3 DEF ResolvedMode, AppMode, Modes
<1>. QED
    BY <1>1, <1>2, <1>3

(* A record that prefers a direct connection and has no port gets none.    *)
LEMMA DeadDirectHasNoPort ==
    ASSUME NEW r \in SavedServer, DeadDirect(r)
    PROVE  DirectCodexPort(r, ResolvedMode(r)) = 0
<1>1. ResolvedMode(r) = "directCodex" /\ ~HasPorts(r)
    BY NoModeAssumption DEF DeadDirect, ResolvedMode
<1>2. ~Listed(r, r.preferredPort)
    BY <1>1 DEF HasPorts, Listed
<1>. QED
    BY <1>1, <1>2 DEF DirectCodexPort, PreferredCodexPort

(* compute_reconnect_plan dials any saved server as the Android app's      *)
(* rules say, except that a record whose direct connection is dead is      *)
(* never dialled over plain SSH.                                           *)
THEOREM PlansAgreeAlways ==
    ASSUME NEW r \in SavedServer, NEW credential \in BOOLEAN, NEW quic \in BOOLEAN
    PROVE  SamePlan(r, credential, quic)
<1>1. CASE DeadDirect(r)
    <2>1. DirectCodexPort(r, ResolvedMode(r)) = 0
        BY <1>1, DeadDirectHasNoPort
    <2>2. ResolvedMode(r) = "directCodex" /\ ~r.url
        BY <1>1, NoModeAssumption DEF DeadDirect, ResolvedMode
    <2>. QED
        BY <1>1, <2>1, <2>2, NoModeAssumption
           DEF SamePlan, ReconnectPlan, PlanIn, Via, NoPlan
<1>2. CASE ~DeadDirect(r) /\ r.url
    BY <1>2 DEF SamePlan, ReconnectPlan, PlanIn
<1>3. CASE ~DeadDirect(r) /\ ~r.url
    BY <1>3, ModesAgree DEF SamePlan, ReconnectPlan
<1>. QED
    BY <1>1, <1>2, <1>3

--------------------------------------------------------------------------------
(* Types.                                                                  *)

LEMMA InitTypeOK == Init => TypeOK
<1>. SUFFICES ASSUME Init PROVE TypeOK
    OBVIOUS
<1>1. NoPlan \in Plan
    BY DEF NoPlan, Plan, PlanKinds
<1>2. Idle \in Call
    BY <1>1 DEF Idle, Call
<1>3. flow \in Flow
    BY DEF Init, Flow
<1>4. call \in [Callers -> Call]
    BY <1>2 DEF Init
<1>5. begun \in 0..Begins /\ moved \in 0..Moves
    BY BoundsAssumption DEF Init
<1>. QED
    BY <1>3, <1>4, <1>5 DEF Init, TypeOK

(* The writes to the entry keep its type.                                  *)
LEMMA EntryType ==
    ASSUME TypeOK, NEW h \in Health, NEW p \in Progress
    PROVE  /\ Upserted(h) \in Entry
           /\ Updated(h, p) \in Entry \cup {None}
           /\ entry # None => Updated(h, entry.progress) \in Entry
           /\ entry # None => Updated(entry.health, p) \in Entry
           /\ entry = None => \A x, y : Updated(x, y) = None
    BY DEF TypeOK, Upserted, Updated, Entry, Progress

(* A saved server's call gets a plan.                                      *)
LEMMA PlanOfType ==
    ASSUME TypeOK, NEW a \in Callers
    PROVE  PlanOf(a) \in Plan
<1>1. setup.record \in SavedServer
    BY SetupsAssumption DEF TypeOK
<1>2. setup.record.port \in Nat
    BY <1>1 DEF SavedServer
<1>3. Via("direct", setup.record.port) \in Plan
    BY <1>2 DEF Via, Plan, PlanKinds
<1>. QED
    BY <1>1, <1>3, PlanType DEF PlanOf

LEMMA CallType ==
    ASSUME TypeOK, NEW a \in Callers
    PROVE  /\ Idle \in Call
           /\ \A plan \in Plan :
                [call[a] EXCEPT !.pc = "begin", !.plan = plan] \in Call
           /\ [call[a] EXCEPT !.pc = "dial"] \in Call
           /\ [Idle EXCEPT !.pc = "plan", !.seen = SeenHealth] \in Call
<1>1. Idle \in Call
    BY DEF Idle, Call, NoPlan, Plan, PlanKinds
<1>2. call[a] \in Call
    BY DEF TypeOK
<1>3. SeenHealth \in Health \cup {"none"}
    BY DEF TypeOK, SeenHealth, Entry
<1>. QED
    BY <1>1, <1>2, <1>3 DEF Call

LEMMA CallerTypeOK ==
    ASSUME TypeOK, NEW a \in Callers, CallStep(a)
    PROVE  TypeOK'
<1>. Idle \in Call /\ [call[a] EXCEPT !.pc = "dial"] \in Call
    BY CallType
<1>0. /\ Upserted("Connecting") \in Entry
      /\ Upserted("Connected") \in Entry
      /\ Updated("Disconnected", "none") \in Entry \cup {None}
      /\ Updated("Disconnected", entry.progress) \in Entry \cup {None}
    BY EntryType DEF Health, Progress
<1>1. CASE MakePlan(a)
    <2>. DEFINE c == [call[a] EXCEPT !.pc = "begin", !.plan = PlanOf(a)]
    <2>1. c \in Call
        BY CallType, PlanOfType
    <2>2. call' = [call EXCEPT ![a] = Idle] \/ call' = [call EXCEPT ![a] = c]
        BY <1>1 DEF MakePlan
    <2>. HIDE DEF c
    <2>3. call' \in [Callers -> Call]
        BY <2>1, <2>2 DEF TypeOK
    <2>. QED
        BY <1>1, <2>3 DEF MakePlan, TypeOK, boundVars, auxVars
<1>2. CASE Reuse(a)
    BY <1>2 DEF Reuse, Return, TypeOK, boundVars, auxVars
<1>3. CASE BeginDirect(a)
    BY <1>3 DEF BeginDirect, Dial, TypeOK, boundVars, auxVars
<1>4. CASE BeginSsh(a)
    BY <1>4 DEF BeginSsh, Dial, Disturb, TypeOK, Entry, Health, Progress, boundVars
<1>5. CASE BeginBridges(a)
    BY <1>0, <1>5 DEF BeginBridges, Dial, TypeOK, boundVars, auxVars
<1>6. CASE RefuseBridges(a)
    <2>1. entry' \in Entry \cup {None}
        BY <1>0, <1>6 DEF RefuseBridges, TypeOK
    <2>. QED
        BY <1>6, <2>1 DEF RefuseBridges, Return, TypeOK, boundVars, auxVars
<1>7. CASE DialOk(a)
    <2>1. entry' \in Entry
        BY <1>0, <1>7 DEF DialOk, Entry, Health, Progress
    <2>2. disturbed' \in BOOLEAN /\ left' \in BOOLEAN
        BY <1>7 DEF DialOk, Disturb, TypeOK, auxVars
    <2>. QED
        BY <1>7, <2>1, <2>2 DEF DialOk, Return, TypeOK, boundVars
<1>8. CASE DialQuits(a)
    BY <1>8 DEF DialQuits, Return, TypeOK, boundVars
<1>9. CASE DialFails(a)
    <2>1. entry' \in Entry \cup {None}
        BY <1>0, <1>9 DEF DialFails
    <2>. QED
        BY <1>9, <2>1 DEF DialFails, Return, Disturb, TypeOK, boundVars, auxVars
<1>. QED
    BY <1>1, <1>2, <1>3, <1>4, <1>5, <1>6, <1>7, <1>8, <1>9 DEF CallStep

(* A step of the guided connect that shows its progress.                   *)
LEMMA StepTypeOK ==
    ASSUME TypeOK,
           NEW from \in {"dial", "find", "prompt", "answered", "install", "boot"},
           NEW to \in {"find", "boot", "prompt", "install", "finish"},
           NEW p \in Progress, Step(from, to, p)
    PROVE  TypeOK'
<1>1. entry' \in Entry \cup {None}
    <2>1. CASE entry = None
        BY <2>1, EntryType DEF Step, Updated
    <2>2. CASE entry # None
        BY <2>2, EntryType DEF Step, Health
    <2>. QED
        BY <2>1, <2>2
<1>2. flow' \in Flow /\ flow'.sender = flow.sender /\ flow'.listed = flow.listed
    BY DEF TypeOK, Step, Flow
<1>3. flow'.listed /\ ~flow'.sender
    BY <1>2 DEF TypeOK, Step
<1>. QED
    BY <1>1, <1>2, <1>3 DEF TypeOK, Step, boundVars, auxVars

LEMMA FlowTypeOK ==
    ASSUME TypeOK, FlowStep
    PROVE  TypeOK'
<1>0. Updated("Disconnected", "failed") \in Entry \cup {None}
    BY EntryType DEF Health, Progress
<1>1. CASE SshUp \/ CodexFound \/ CodexMissing \/ Installed \/ Booted \/ Accepted
    BY <1>1, StepTypeOK
       DEF SshUp, CodexFound, CodexMissing, Installed, Booted, Accepted, Progress
<1>2. CASE AwaitAnswer
    BY <1>2 DEF AwaitAnswer, TypeOK, Flow, boundVars, auxVars
<1>3. CASE Declined \/ FlowFails
    <2>1. flow' \in Flow /\ ~flow'.sender /\ flow'.listed
        BY <1>3 DEF Declined, FlowFails, End, TypeOK, Flow
    <2>. QED
        BY <1>0, <1>3, <2>1 DEF Declined, FlowFails, End, TypeOK, boundVars
<1>4. CASE Attached
    <2>1. flow' \in Flow /\ ~flow'.sender /\ flow'.listed
        BY <1>4 DEF Attached, TypeOK, Flow
    <2>2. entry' \in Entry
        BY <1>4 DEF Attached, Entry, Health, Progress
    <2>. QED
        BY <1>4, <2>1, <2>2 DEF Attached, TypeOK, boundVars
<1>5. CASE EndFlow
    BY <1>5 DEF EndFlow, TypeOK, Flow, boundVars
<1>. QED
    BY <1>1, <1>2, <1>3, <1>4, <1>5 DEF FlowStep

LEMMA NextTypeOK ==
    ASSUME TypeOK, [Next]_vars
    PROVE  TypeOK'
<1>. [Idle EXCEPT !.pc = "plan", !.seen = SeenHealth] \in Call
    BY CallType DEF Callers
<1>0. MayBegin => begun' \in 0..Begins
    BY BoundsAssumption DEF MayBegin, TypeOK
<1>1. CASE Wake
    BY <1>0, <1>1 DEF Wake, TypeOK, auxVars
<1>2. CASE ReconnectServer
    BY <1>0, <1>2 DEF ReconnectServer, Disturb, TypeOK
<1>3. ASSUME NEW a \in Callers, CallStep(a) PROVE TypeOK'
    BY <1>3, CallerTypeOK
<1>4. CASE StartGuided
    <2>1. entry' \in Entry /\ flow' \in Flow
        BY <1>4 DEF StartGuided, Entry, Flow, Health, Progress
    <2>. QED
        BY <1>0, <1>4, <2>1 DEF StartGuided, TypeOK
<1>5. ASSUME NEW install \in BOOLEAN, Respond(install) PROVE TypeOK'
    <2>1. flow' \in Flow /\ ~flow'.sender /\ flow'.listed
        BY <1>5 DEF Respond, TypeOK, Flow
    <2>. QED
        BY <1>5, <2>1 DEF Respond, TypeOK, boundVars, auxVars
<1>6. CASE FlowStep
    BY <1>6, FlowTypeOK
<1>7. ASSUME NEW h \in {"Connected", "Disconnected"}, ReaderWrites(h) PROVE TypeOK'
    <2>. DEFINE shown == IF entry.progress # "none" /\ h = "Disconnected"
                         THEN "Connecting" ELSE h
    <2>1. entry' \in Entry
        <3>1. shown \in Health /\ entry \in Entry
            BY <1>7 DEF Health, TypeOK, ReaderWrites
        <3>2. entry' = [entry EXCEPT !.health = shown]
            BY <1>7 DEF ReaderWrites
        <3>. HIDE DEF shown
        <3>. QED
            BY <3>1, <3>2 DEF Entry
    <2>2. session' \in {"none", "up", "down"}
        BY <1>7 DEF ReaderWrites, TypeOK
    <2>. QED
        BY <1>7, <2>1, <2>2, BoundsAssumption DEF ReaderWrites, TypeOK, auxVars
<1>8. CASE UNCHANGED vars
    BY <1>8 DEF vars, TypeOK, boundVars, auxVars
<1>. QED
    BY <1>1, <1>2, <1>3, <1>4, <1>5, <1>6, <1>7, <1>8 DEF Next

(* Every variable keeps its type; only a flow that waits for the user has  *)
(* a sender for the answer, and a flow that runs is listed.                *)
THEOREM TypeCorrect == Spec => []TypeOK
<1>1. TypeOK /\ [Next]_vars => TypeOK'
    BY NextTypeOK
<1>. QED
    BY InitTypeOK, <1>1, PTL DEF Spec

(* Any saved server is dialled as the app's rules say, in every state.     *)
THEOREM PlansAgreeInSpec == Spec => []PlansAgree
<1>1. TypeOK => PlansAgree
    <2>. SUFFICES ASSUME TypeOK PROVE PlansAgree
        OBVIOUS
    <2>1. /\ setup.record \in SavedServer
          /\ setup.credential \in BOOLEAN
          /\ setup.quic \in BOOLEAN
        BY SetupsAssumption DEF TypeOK
    <2>. QED
        BY <2>1, PlansAgreeAlways DEF PlansAgree
<1>. QED
    BY <1>1, TypeCorrect, PTL

--------------------------------------------------------------------------------
(* What the entry shows.                                                   *)

(* A running flow's entry is there, unless another call has removed it.    *)
FlowHasEntry ==
    flow.pc \notin {"idle", "ending"} /\ ~disturbed => entry # None

SshDials(a) == call[a].pc = "dial" /\ call[a].plan.kind = "ssh"

(* Progress that is under way belongs to an SSH connect or to the flow, or *)
(* was left behind.                                                        *)
ProgressHasOwner ==
    entry # None /\ entry.progress \in {"running", "prompt"} /\ ~left =>
        \/ \E a \in Callers : SshDials(a)
        \/ flow.pc \notin {"idle", "ending"}

ShownInv == TypeOK /\ FlowHasEntry /\ PromptIsVisible /\ ProgressHasOwner

(* A write that keeps the progress of an entry there is.                   *)
Keeps ==
    /\ entry # None => entry' # None /\ entry'.progress = entry.progress
    /\ entry = None /\ entry' # None => entry'.progress = "none"

LEMMA WritesKeep ==
    ASSUME TypeOK, NEW h \in Health,
           \/ entry' = entry
           \/ entry' = Upserted(h)
           \/ entry' = Updated(h, entry.progress)
    PROVE  Keeps
<1>1. Upserted(h) # None
    BY EntryType, NoneAssumption DEF Progress
<1>2. entry # None => Updated(h, entry.progress) # None
    BY EntryType, NoneAssumption DEF Progress
<1>. QED
    BY <1>1, <1>2 DEF Keeps, Upserted, Updated

(* A caller's step keeps the progress, or is one of an SSH connect, which  *)
(* shows its own or ends it.                                               *)
LEMMA CallerWrites ==
    ASSUME TypeOK, NEW a \in Callers, CallStep(a)
    PROVE  /\ flow' = flow
           /\ \A b \in Callers : b # a => call'[b] = call[b]
           /\ \/ /\ Keeps
                 /\ UNCHANGED auxVars
                 /\ ~SshDials(a)
              \/ /\ Keeps
                 /\ left'
                 /\ disturbed' = disturbed
              \/ /\ Disturb
                 /\ left' = left
                 /\ SshDials(a)'
              \/ /\ Disturb
                 /\ entry' # None => entry'.progress = "none"
<1>. DEFINE Others == \A b \in Callers : b # a => call'[b] = call[b]
<1>. "Connecting" \in Health /\ "Connected" \in Health /\ "Disconnected" \in Health
    BY DEF Health
<1>0. ASSUME Return(a) \/ Dial(a) \/ MakePlan(a) PROVE Others
    BY <1>0 DEF Return, Dial, MakePlan, TypeOK
<1>1. CASE MakePlan(a)
    <2>1. Keeps
        BY <1>1, WritesKeep DEF MakePlan
    <2>. QED
        BY <1>0, <1>1, <2>1 DEF MakePlan, SshDials
<1>2. CASE Reuse(a)
    <2>1. Keeps
        BY <1>2, WritesKeep DEF Reuse
    <2>. QED
        BY <1>0, <1>2, <2>1 DEF Reuse, Planned, SshDials
<1>3. CASE BeginDirect(a)
    <2>1. Keeps
        BY <1>3, WritesKeep DEF BeginDirect
    <2>. QED
        BY <1>0, <1>3, <2>1 DEF BeginDirect, Planned, SshDials
<1>4. CASE BeginSsh(a)
    <2>1. SshDials(a)'
        BY <1>4 DEF BeginSsh, Dial, Planned, SshDials, TypeOK, Call
    <2>. QED
        BY <1>0, <1>4, <2>1 DEF BeginSsh
<1>5. CASE BeginBridges(a)
    <2>1. Keeps
        BY <1>5, WritesKeep DEF BeginBridges
    <2>. QED
        BY <1>0, <1>5, <2>1 DEF BeginBridges, Planned, SshDials
<1>6. CASE RefuseBridges(a)
    <2>1. Keeps
        BY <1>6, WritesKeep DEF RefuseBridges
    <2>. QED
        BY <1>0, <1>6, <2>1 DEF RefuseBridges, Planned, SshDials
<1>7. CASE DialOk(a) /\ call[a].plan.kind = "ssh"
    BY <1>0, <1>7 DEF DialOk
<1>8. CASE DialOk(a) /\ call[a].plan.kind # "ssh"
    <2>1. Keeps
        BY <1>8, WritesKeep DEF DialOk
    <2>. QED
        BY <1>0, <1>8, <2>1 DEF DialOk, SshDials
<1>9. CASE DialQuits(a)
    <2>1. Keeps
        BY <1>9, WritesKeep DEF DialQuits
    <2>. QED
        BY <1>0, <1>9, <2>1 DEF DialQuits, SshDials, TypeOK, auxVars
<1>10. CASE DialFails(a) /\ call[a].plan.kind = "ssh"
    <2>1. entry' # None => entry'.progress = "none"
        BY <1>10 DEF DialFails, Updated
    <2>. QED
        BY <1>0, <1>10, <2>1 DEF DialFails
<1>11. CASE DialFails(a) /\ call[a].plan.kind # "ssh"
    <2>1. Keeps
        BY <1>11, WritesKeep DEF DialFails
    <2>. QED
        BY <1>0, <1>11, <2>1 DEF DialFails, SshDials
<1>. QED
    BY <1>1, <1>2, <1>3, <1>4, <1>5, <1>6, <1>7, <1>8, <1>9, <1>10, <1>11 DEF CallStep

LEMMA CallerShown ==
    ASSUME ShownInv, NEW a \in Callers, CallStep(a)
    PROVE  FlowHasEntry' /\ PromptIsVisible' /\ ProgressHasOwner'
<1>. USE DEF ShownInv
<1>1. flow' = flow /\ \A b \in Callers : b # a => (SshDials(b) => SshDials(b)')
    BY CallerWrites DEF SshDials
<1>2. CASE Keeps /\ UNCHANGED auxVars /\ ~SshDials(a)
    BY <1>1, <1>2 DEF Keeps, auxVars, FlowHasEntry, PromptIsVisible, ProgressHasOwner
<1>3. CASE Keeps /\ left' /\ disturbed' = disturbed
    BY <1>1, <1>3 DEF Keeps, FlowHasEntry, PromptIsVisible, ProgressHasOwner
<1>4. CASE Disturb /\ left' = left /\ SshDials(a)'
    BY <1>1, <1>4 DEF Disturb, FlowHasEntry, PromptIsVisible, ProgressHasOwner
<1>5. CASE Disturb /\ (entry' # None => entry'.progress = "none")
    BY <1>1, <1>5 DEF Disturb, FlowHasEntry, PromptIsVisible, ProgressHasOwner
<1>. QED
    BY <1>2, <1>3, <1>4, <1>5, CallerWrites

LEMMA FlowShown ==
    ASSUME ShownInv, FlowStep
    PROVE  FlowHasEntry' /\ PromptIsVisible' /\ ProgressHasOwner'
<1>. USE DEF ShownInv, FlowHasEntry, PromptIsVisible, ProgressHasOwner
<1>1. ASSUME NEW from, NEW to \in {"find", "boot", "install", "finish"},
             from # "ending", from # "idle", Step(from, to, "running")
      PROVE  FlowHasEntry' /\ PromptIsVisible' /\ ProgressHasOwner'
    <2>1. flow'.pc = to
        BY <1>1 DEF Step, TypeOK, Flow
    <2>2. entry # None => entry' # None
        BY <1>1, EntryType, NoneAssumption DEF Step, Progress, Health
    <2>. QED
        BY <1>1, <2>1, <2>2 DEF Step, auxVars
<1>2. CASE CodexMissing
    <2>1. flow'.pc = "prompt"
        BY <1>2 DEF CodexMissing, Step, TypeOK, Flow
    <2>2. entry # None => entry' # None /\ entry'.progress = "prompt"
        BY <1>2, EntryType, NoneAssumption
           DEF CodexMissing, Step, Progress, Health, Updated
    <2>. QED
        BY <1>2, <2>1, <2>2 DEF CodexMissing, Step, auxVars
<1>3. CASE AwaitAnswer
    <2>1. flow'.pc = "waiting"
        BY <1>3 DEF AwaitAnswer, TypeOK, Flow
    <2>. QED
        BY <1>3, <2>1 DEF AwaitAnswer, auxVars
<1>4. CASE Declined \/ FlowFails
    <2>1. flow'.pc = "ending"
        BY <1>4 DEF Declined, FlowFails, End, TypeOK, Flow
    <2>2. entry' # None => entry'.progress = "failed"
        BY <1>4 DEF Declined, FlowFails, End, Updated
    <2>. QED
        BY <2>1, <2>2
<1>5. CASE Attached
    <2>1. flow'.pc = "ending"
        BY <1>5 DEF Attached, TypeOK, Flow
    <2>2. entry'.progress = "none"
        BY <1>5 DEF Attached
    <2>. QED
        BY <2>1, <2>2
<1>6. CASE EndFlow
    <2>1. flow'.pc = "idle"
        BY <1>6 DEF EndFlow, TypeOK, Flow
    <2>2. flow.pc = "ending" /\ UNCHANGED <<entry, call, left>>
        BY <1>6 DEF EndFlow
    <2>. QED
        BY <2>1, <2>2 DEF SshDials
<1>. QED
    BY <1>1, <1>2, <1>3, <1>4, <1>5, <1>6
       DEF FlowStep, SshUp, CodexFound, Installed, Booted, Accepted

LEMMA NextShown ==
    ASSUME ShownInv, [Next]_vars
    PROVE  ShownInv'
<1>. DEFINE Shown == FlowHasEntry /\ PromptIsVisible /\ ProgressHasOwner
<1>0. TypeOK'
    BY NextTypeOK DEF ShownInv
<1>. USE DEF ShownInv, FlowHasEntry, PromptIsVisible, ProgressHasOwner
<1>1. CASE Wake
    <2>1. \A a \in Callers : SshDials(a) => SshDials(a)'
        BY <1>1 DEF Wake, SshDials, TypeOK
    <2>. QED
        BY <1>0, <1>1, <2>1 DEF Wake, auxVars
<1>2. CASE ReconnectServer
    BY <1>0, <1>2 DEF ReconnectServer, Disturb
<1>3. ASSUME NEW a \in Callers, CallStep(a) PROVE Shown'
    BY <1>3, CallerShown
<1>4. CASE StartGuided
    <2>1. entry' \in Entry
        BY <1>4 DEF StartGuided, Entry, Health, Progress
    <2>. QED
        BY <1>0, <1>4, <2>1, NoneAssumption DEF StartGuided
<1>5. ASSUME NEW install \in BOOLEAN, Respond(install) PROVE Shown'
    <2>1. flow'.pc = "answered" /\ flow.pc = "waiting"
        BY <1>5 DEF Respond, TypeOK, Flow
    <2>. QED
        BY <1>5, <2>1 DEF Respond, auxVars
<1>6. CASE FlowStep
    BY <1>0, <1>6, FlowShown
<1>7. ASSUME NEW h \in {"Connected", "Disconnected"}, ReaderWrites(h) PROVE Shown'
    <2>1. entry' # None
        <3>1. entry \in Entry
            BY <1>7 DEF ReaderWrites, TypeOK
        <3>2. /\ [entry EXCEPT !.health = h] \in Entry
              /\ [entry EXCEPT !.health = "Connecting"] \in Entry
            BY <3>1 DEF Entry, Health
        <3>. QED
            BY <1>7, <3>2, NoneAssumption DEF ReaderWrites
    <2>2. entry'.progress = entry.progress
        BY <1>7 DEF ReaderWrites, TypeOK, Entry
    <2>. QED
        BY <1>7, <2>1, <2>2 DEF ReaderWrites, auxVars, SshDials
<1>8. CASE UNCHANGED vars
    BY <1>0, <1>8 DEF vars, boundVars, auxVars, SshDials
<1>. QED
    BY <1>0, <1>1, <1>2, <1>3, <1>4, <1>5, <1>6, <1>7, <1>8 DEF Next

LEMMA ShownAlways == Spec => []ShownInv
<1>1. Init => ShownInv
    <2>1. Init => TypeOK
        BY InitTypeOK
    <2>. QED
        BY <2>1 DEF Init, ShownInv, FlowHasEntry, PromptIsVisible, ProgressHasOwner
<1>2. ShownInv /\ [Next]_vars => ShownInv'
    BY NextShown
<1>. QED
    BY <1>1, <1>2, PTL DEF Spec

(* Only an SSH reconnect or a disconnect of the same server hides the      *)
(* install prompt of a guided connect.                                     *)
THEOREM PromptStaysVisible == Spec => []PromptIsVisible
<1>1. ShownInv => PromptIsVisible
    BY DEF ShownInv
<1>. QED
    BY <1>1, ShownAlways, PTL

(* However calls overlap, the last to end leaves no progress under way,    *)
(* but for an SSH connect that never got a connection.                     *)
THEOREM ProgressAlwaysEnds == Spec => []ProgressEnds
<1>1. ShownInv => ProgressEnds
    <2>. SUFFICES ASSUME ShownInv, entry # None, ~left, flow.pc = "idle",
                         \A a \in Callers : call[a].pc = "idle"
                  PROVE  entry.progress \in {"none", "failed"}
        BY DEF ProgressEnds
    <2>1. entry.progress \in Progress
        BY DEF ShownInv, TypeOK, Entry
    <2>2. entry.progress \notin {"running", "prompt"}
        BY DEF ShownInv, ProgressHasOwner, SshDials
    <2>. QED
        BY <2>1, <2>2 DEF Progress
<1>. QED
    BY <1>1, ShownAlways, PTL

================================================================================
