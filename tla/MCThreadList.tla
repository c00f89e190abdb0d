----------------------------- MODULE MCThreadList -----------------------------
(* Both threads are of Codex; beside a fan-out there is a call of another   *)
(* kind.                                                                    *)
EXTENDS ThreadList

CONSTANTS c1, x, y

MCRuntimeOf == [t \in Threads |-> Codex]

MCKinds == [c \in Calls |-> IF c = c1 THEN {"fanout"} ELSE CallKinds \ {"fanout"}]

(* Either y is listed and idle and x NotLoaded, or y has a turn, which may *)
(* wait for an approval, and x is new.                                     *)
MCInit ==
    /\ Init
    /\ life[y] = "listed"
    /\ running = IF life[x] = "listed" THEN {} ELSE {y}
    /\ away = Listed \ {y}

MCFairSpec == MCInit /\ [][Next]_vars /\ Fairness
================================================================================
