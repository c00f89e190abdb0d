--------------------------- MODULE AtLeastOnceCalls ---------------------------
(***************************************************************************)
(* What ServerSession promises its callers: a command is answered at most  *)
(* once, the server runs it at most Tries times, and a caller is told of   *)
(* success only when the server has run the command.  The server may run   *)
(* it after its caller was told of a failure.                              *)
(***************************************************************************)
EXTENDS Naturals

CONSTANTS
    Commands,
    Tries(_)    \* how often the server may run a command

VARIABLES
    outcome,    \* [Commands -> {"new", "pending", "ok", "failed"}]
    runs        \* [Commands -> Nat]

vars == <<outcome, runs>>

Init ==
    /\ outcome = [r \in Commands |-> "new"]
    /\ runs = [r \in Commands |-> 0]

Issue(r) ==
    /\ outcome[r] = "new"
    /\ outcome' = [outcome EXCEPT ![r] = "pending"]
    /\ UNCHANGED runs

Run(r) ==
    /\ outcome[r] # "new"
    /\ runs[r] < Tries(r)
    /\ runs' = [runs EXCEPT ![r] = @ + 1]
    /\ UNCHANGED outcome

Answer(r, o) ==
    /\ outcome[r] = "pending"
    /\ o = "ok" => runs[r] > 0
    /\ outcome' = [outcome EXCEPT ![r] = o]
    /\ UNCHANGED runs

(* Closing a command channel answers everything still queued in it.        *)
FailAll(R) ==
    /\ \A r \in R : outcome[r] = "pending"
    /\ outcome' = [r \in Commands |-> IF r \in R THEN "failed" ELSE outcome[r]]
    /\ UNCHANGED runs

Next ==
    \/ \E r \in Commands : Issue(r) \/ Run(r) \/ \E o \in {"ok", "failed"} : Answer(r, o)
    \/ \E R \in SUBSET Commands : FailAll(R)

Spec == Init /\ [][Next]_vars
================================================================================
