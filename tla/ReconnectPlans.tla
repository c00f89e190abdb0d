----------------------------- MODULE ReconnectPlans -----------------------------
(***************************************************************************)
(* How a saved server is dialled: compute_reconnect_plan and the helpers   *)
(* it rests on, which are to agree with the rules of the Android app.      *)
(*                                                                         *)
(* Every helper takes the preferred connection mode beside the record,     *)
(* since the mode is where the two sides differ.  A port is 0 when there   *)
(* is none.  A local server never gets here: both callers have dealt with  *)
(* it before.                                                              *)
(***************************************************************************)
EXTENDS Naturals, Sequences

CONSTANT
    NoMode \* no preferred connection mode

ASSUME NoModeAssumption == NoMode \notin {"ssh", "directCodex"}

Modes == {"ssh", "directCodex", NoMode}

(* SavedServerRecord.  alleycat: node, token and agent name are present;   *)
(* bridge: the id, the wire or the URL is that of an SSH bridge; url:      *)
(* there is a websocket URL; bySsh: the source is ssh.  The ports of 0     *)
(* among codexPorts, which the code skips, are left out.                   *)
SavedServer ==
    [alleycat : BOOLEAN, bridge : BOOLEAN, url : BOOLEAN, bySsh : BOOLEAN,
     mode : Modes, forwarding : BOOLEAN, hasCodex : BOOLEAN,
     port : Nat, codexPorts : Seq(Nat \ {0}), sshPort : Nat, preferredPort : Nat]

(* Mutant: the legacy flag wins over the mode.                             *)
LegacyMode(r) == IF r.forwarding THEN "ssh" ELSE r.mode

(* resolved_preferred_connection_mode.                                     *)
ResolvedMode(r) ==
    IF r.mode = NoMode /\ r.forwarding THEN "ssh" ELSE r.mode

SshPort(r) ==
    IF r.sshPort > 0 THEN r.sshPort
    ELSE IF ~r.hasCodex /\ r.port > 0 THEN r.port ELSE 22

(* available_direct_codex_ports, which also drops the second of two equal  *)
(* ports: only its members, its first and whether there are two are used.  *)
CodexPorts(r) ==
    (IF r.hasCodex /\ r.port > 0 THEN <<r.port>> ELSE <<>>) \o r.codexPorts

HasPorts(r) == CodexPorts(r) # <<>>

Listed(r, p) == \E i \in DOMAIN CodexPorts(r) : CodexPorts(r)[i] = p

TwoPorts(r) == \E i \in DOMAIN CodexPorts(r) : CodexPorts(r)[i] # CodexPorts(r)[1]

CanConnectViaSsh(r) ==
    /\ ~r.url
    /\ \/ r.sshPort > 0
       \/ r.bySsh
       \/ ~r.hasCodex /\ SshPort(r) > 0
       \/ r.mode = "ssh"
       \/ r.forwarding

RequiresChoice(r, mode) ==
    /\ ~r.url
    /\ mode = NoMode
    /\ TwoPorts(r) \/ (HasPorts(r) /\ CanConnectViaSsh(r))

PreferredCodexPort(r, mode) ==
    IF mode = "directCodex" /\ r.preferredPort > 0 /\ Listed(r, r.preferredPort)
    THEN r.preferredPort ELSE 0

DirectCodexPort(r, mode) ==
    IF r.url \/ mode = "ssh" THEN 0
    ELSE IF PreferredCodexPort(r, mode) > 0 THEN PreferredCodexPort(r, mode)
    ELSE IF RequiresChoice(r, mode) \/ ~HasPorts(r) THEN 0
    ELSE CodexPorts(r)[1]

PlanKinds == {"alleycat", "bridges", "url", "ssh", "direct", "none"}
Plan == [kind : PlanKinds, port : Nat]

NoPlan == [kind |-> "none", port |-> 0]
Via(kind, port) == [kind |-> kind, port |-> port]

(* compute_reconnect_plan for a server that is not connected.  quic is the *)
(* app's multi_clanker_and_quic_enabled.                                   *)
PlanIn(r, mode, credential, quic) ==
    IF quic /\ r.alleycat THEN Via("alleycat", 0)
    ELSE IF quic /\ r.bridge
    THEN IF credential THEN Via("bridges", SshPort(r)) ELSE NoPlan
    ELSE IF r.url THEN Via("url", 0)
    ELSE IF mode = "ssh"
    THEN IF credential THEN Via("ssh", SshPort(r)) ELSE NoPlan
    ELSE IF DirectCodexPort(r, mode) > 0
    THEN Via("direct", DirectCodexPort(r, mode))
    ELSE IF mode = NoMode /\ credential THEN Via("ssh", SshPort(r))
    ELSE NoPlan

ReconnectPlan(r, credential, connected, quic) ==
    IF connected THEN NoPlan
    ELSE PlanIn(r, ResolvedMode(r), credential, quic)

--------------------------------------------------------------------------------
(* resolvedPreferredConnectionMode of the Android app: a mode that cannot  *)
(* be used is no mode.                                                     *)
AppMode(r) ==
    IF r.mode = "directCodex"
    THEN IF HasPorts(r) \/ r.url THEN "directCodex" ELSE NoMode
    ELSE IF r.mode = "ssh" THEN IF CanConnectViaSsh(r) THEN "ssh" ELSE NoMode
    ELSE IF r.forwarding THEN "ssh" ELSE NoMode

(* The records that prefer a direct connection none of whose ports is      *)
(* left.                                                                   *)
DeadDirect(r) == r.mode = "directCodex" /\ ~HasPorts(r) /\ ~r.url

(* The plan is the one that the app's rules lead to, but for a record that *)
(* prefers a direct connection without a port: it is not dialled over SSH, *)
(* credential or not.                                                      *)
SamePlan(r, credential, quic) ==
    LET plan == ReconnectPlan(r, credential, FALSE, quic)
    IN  IF DeadDirect(r)
        THEN plan.kind \in {"alleycat", "bridges", "none"}
        ELSE plan = PlanIn(r, AppMode(r), credential, quic)
================================================================================
