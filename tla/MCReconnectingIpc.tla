-------------------------- MODULE MCReconnectingIpc --------------------------
(* Instances of ReconnectingIpc for TLC.                                    *)
EXTENDS ReconnectingIpc, TLC

Symmetric == Permutations(Clients)
================================================================================
