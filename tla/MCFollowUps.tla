------------------------------ MODULE MCFollowUps ------------------------------
(***************************************************************************)
(* Two messages: the first starts a turn, the second is queued, and then   *)
(* steered or deleted, three calls in all.  With IPC, one of them is       *)
(* queued and deleted.                                                     *)
(***************************************************************************)
EXTENDS FollowUps

CONSTANTS m1, m2

MCCalls == {<<"send", m1>>, <<"send", m2>>, <<"steer", m2>>, <<"delete", m2>>}

MCIpcCalls == {<<"send", m2>>, <<"delete", m2>>}
================================================================================
