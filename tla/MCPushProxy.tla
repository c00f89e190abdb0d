------------------------------ MODULE MCPushProxy ------------------------------
(* Instances of PushProxy for TLC.                                          *)
EXTENDS PushProxy, TLC
================================================================================
