---------------------------- MODULE MCRemoteWorker ----------------------------
(* Instances of RemoteWorker for TLC.                                       *)
EXTENDS RemoteWorker, TLC
================================================================================
