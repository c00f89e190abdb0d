---------------------------- MODULE MCConnectFlows ----------------------------
(***************************************************************************)
(* Saved servers with every transport; those without a pairing or a URL    *)
(* differ in the mode, the server's ports and whether there is a           *)
(* credential.                                                             *)
(***************************************************************************)
EXTENDS ConnectFlows

Record(alleycat, bridge, url, mode, forwarding, hasCodex, ports) ==
    [alleycat |-> alleycat, bridge |-> bridge, url |-> url, bySsh |-> FALSE,
     mode |-> mode, forwarding |-> forwarding, hasCodex |-> hasCodex, port |-> 1,
     codexPorts |-> ports, sshPort |-> 0, preferredPort |-> 2]

Setup(r, credential, quic) == [record |-> r, credential |-> credential, quic |-> quic]

Paired(alleycat, url) == Record(alleycat, ~alleycat, url, NoMode, FALSE, FALSE, <<>>)

Plain(mode, forwarding, hasCodex, ports) ==
    Record(FALSE, FALSE, FALSE, mode, forwarding, hasCodex, ports)

MCSetups ==
    {Setup(Plain(mode, forwarding, ports # <<>> \/ hasCodex, ports), TRUE, TRUE) :
        mode \in {NoMode, "directCodex"}, forwarding \in BOOLEAN,
        hasCodex \in BOOLEAN, ports \in {<<>>, <<2>>}}
    \cup {Setup(Plain("ssh", FALSE, TRUE, <<>>), credential, TRUE) : credential \in BOOLEAN}
    \cup {Setup(Plain("directCodex", FALSE, FALSE, <<>>), FALSE, TRUE),
          Setup(Paired(TRUE, FALSE), TRUE, TRUE),
          Setup(Paired(FALSE, FALSE), TRUE, TRUE),
          Setup(Paired(TRUE, TRUE), TRUE, FALSE)}
================================================================================
