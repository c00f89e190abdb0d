------------------------------ MODULE ServerSlots ------------------------------
(***************************************************************************)
(* What the session map of MobileClient promises when the connect and      *)
(* disconnect calls for one server do not overlap: a server id is a slot,  *)
(* a session enters service once, and the slot is emptied before the next  *)
(* session enters it.  A guided SSH connect alone does not empty it: its   *)
(* session joins the one there and then overtakes it, so that even then no *)
(* slot holds more than two.                                               *)
(***************************************************************************)
CONSTANTS
    Servers,    \* server ids
    Sessions    \* every session that may ever be created

VARIABLES
    inService,  \* [Servers -> SUBSET Sessions] the sessions a server id uses
    spent,      \* the sessions created so far
    guided      \* those of them that a guided SSH connect created

vars == <<inService, spent, guided>>

Init ==
    /\ inService = [s \in Servers |-> {}]
    /\ spent = {}
    /\ guided = {}

Created(s, x) ==
    /\ x \notin spent
    /\ inService' = [inService EXCEPT ![s] = @ \cup {x}]
    /\ spent' = spent \cup {x}

(* A connect call has produced the session x for the empty slot s. *)
Enter(s, x) ==
    /\ inService[s] = {}
    /\ Created(s, x)
    /\ guided' \in {guided, guided \cup {x}}

(* A guided connect has produced x while another session serves s. *)
Join(s, x) ==
    /\ \E y \in Sessions : inService[s] = {y}
    /\ Created(s, x)
    /\ guided' = guided \cup {x}

(* It takes the place of the other session, which nobody closes. *)
Overtake(s, x) ==
    /\ x \in inService[s] \cap guided
    /\ inService[s] # {x}
    /\ inService' = [inService EXCEPT ![s] = {x}]
    /\ UNCHANGED <<spent, guided>>

(* The session of slot s is taken out, to be closed by whoever took it. *)
Leave(s) ==
    /\ \E x \in Sessions : inService[s] = {x}
    /\ inService' = [inService EXCEPT ![s] = {}]
    /\ UNCHANGED <<spent, guided>>

Next ==
    \E s \in Servers :
        \/ Leave(s)
        \/ \E x \in Sessions : Enter(s, x) \/ Join(s, x) \/ Overtake(s, x)

Spec == Init /\ [][Next]_vars
================================================================================
