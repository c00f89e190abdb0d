---------------------------- MODULE FollowUpsProofs ----------------------------
(***************************************************************************)
(* Type correctness of FollowUps; that no message is shown twice, and that *)
(* the server gets none twice but for the reasons that RunsOnce lists.     *)
(***************************************************************************)
EXTENDS FollowUps, WellFoundedInduction, TLAPS

--------------------------------------------------------------------------------
(***************************************************************************)
(* The inductive invariant.                                                *)
(***************************************************************************)

(* Every message of a list is in M.                                        *)
AllIn(list, M) == \A i \in DOMAIN list : list[i].msg \in M

Send(m) == <<"send", m>>
Steer(m) == <<"steer", m>>

(* The messages whose start_turn has dispatched.                           *)
Sent == {m \in Messages : Send(m) \in Calls /\ call[Send(m)] \notin {"idle", "read"}}

(* A message is anywhere only after that.                                  *)
EventsSent(q, M) == \A i \in DOMAIN q : q[i][1] = "item" /\ q[i][2] # None => q[i][2] \in M
OnceSent ==
    /\ items \subseteq Sent
    /\ EventsSent(events, Sent)
    /\ AllIn(drafts, Sent)
    /\ sending # None => sending \in Sent
    /\ \A s \in strays : s[1] \in Sent
    /\ \A m \in Messages : ran[m] > 0 => m \in Sent
CallsSent ==
    \A c \in Calls :
        /\ AllIn(seen[c].drafts, Sent)
        /\ call[c] # "idle" /\ Kind(c) # "send" => Msg(c) \in Sent

(* The desktop, and what is between it and the phone, knows of a message   *)
(* only by a command that went out.                                        *)
DeskIn(queue, lists, commands, M) ==
    /\ AllIn(queue, M)
    /\ \A i \in DOMAIN lists : AllIn(lists[i], M)
    /\ \A command \in commands : command.msg \in M /\ AllIn(command.drafts, M)
DeskSent == DeskIn(desk, casts, late, Sent)
DeskShared == DeskIn(desk, casts, late, shared)
CallsShared ==
    \A c \in Calls :
        call[c] \in {"ipc", "heard"} => Msg(c) \in shared /\ AllIn(seen[c].drafts, shared)

(* The events on their way: q, of a thread that shows turn a while the     *)
(* server runs turn t, the last of n.  A turn's end comes after its start, *)
(* and nothing comes after the start of the turn that runs.                *)
Starts(q, i) == q[i][1] = "started"
Ends(q, i) == q[i][1] = "completed"
EventsInOrder(q, a, t, n) ==
    /\ a <= n
    /\ \A i \in DOMAIN q : Starts(q, i) => q[i][2] \in 1..n
    /\ \A k \in DOMAIN q :
         Ends(q, k) /\ a = 0 => \E i \in DOMAIN q : i < k /\ Starts(q, i)
    /\ \A j, k \in DOMAIN q :
         Ends(q, j) /\ Ends(q, k) /\ j < k => \E i \in DOMAIN q : j < i /\ i < k /\ Starts(q, i)
    /\ t # 0 => /\ \A j \in DOMAIN q :
                     Ends(q, j) => \E i \in DOMAIN q : j < i /\ Starts(q, i)
                /\ a = 0 => \E i \in DOMAIN q : Starts(q, i)
    /\ a # 0 /\ a = t => \A i \in DOMAIN q : ~Starts(q, i) /\ ~Ends(q, i)
    /\ \A i, j \in DOMAIN q :
         Starts(q, i) /\ q[i][2] = t /\ i < j => ~Starts(q, j) /\ ~Ends(q, j)

(* A listener that has missed nothing gets them in that order.             *)
InTurn == lagged \/ EventsInOrder(events, active, turn, turns)

(* A call that has read the turn that runs has read what the thread shows. *)
ReadTurn ==
    \A c \in Calls :
        /\ seen[c].active <= turns
        /\ seen[c].active # 0 /\ seen[c].active = turn => active = turn

(* A message that the desktop does not know, that no list put back and no  *)
(* transport error left in doubt, as long as the listener missed nothing.  *)
Private == {m \in Messages : ~lagged /\ m \notin (shared \cup restored) \cup unsure}

Queued(m, i) == drafts[i].msg = m
Left(m) == ran[m] > 0 \/ sending = m

Once(list, m) ==
    \A i, j \in DOMAIN list : list[i].msg = m /\ list[j].msg = m => i = j

(* A message whose turn is to be started is nowhere else.                  *)
StartsAlone(m) ==
    Send(m) \in Calls /\ call[Send(m)] = "direct" =>
        /\ ran[m] = 0
        /\ sending # m
        /\ \A i \in DOMAIN drafts : ~Queued(m, i)
        /\ Steer(m) \in Calls => call[Steer(m)] = "idle"

(* A message that was sent and is still queued as one to be sent goes with *)
(* the next event, which is not the end of a turn.                         *)
LeavesQueue(m) ==
    \A i \in DOMAIN drafts :
        Queued(m, i) /\ drafts[i].kind = "message" /\ Left(m) => active = 0 /\ i = 1

(* A draft is marked as steered while its steering is under way and after. *)
Marked(m) ==
    /\ Steer(m) \in Calls /\ call[Steer(m)] = "direct" =>
         /\ seen[Steer(m)].active # 0
         /\ \A i \in DOMAIN drafts : Queued(m, i) => drafts[i].kind = "steer"
    /\ \A i \in DOMAIN drafts :
         Queued(m, i) /\ drafts[i].kind = "steer" =>
             Steer(m) \in Calls /\ call[Steer(m)] \notin {"idle", "read"}

(* The steering of a message that was sent is too late: its turn is over.  *)
TooLate(m) ==
    Steer(m) \in Calls /\ call[Steer(m)] \in {"read", "direct"} /\ Left(m) =>
        seen[Steer(m)].active = 0 \/ turn # seen[Steer(m)].active

Own(m) ==
    /\ ran[m] <= 1
    /\ sending = m /\ ~taken => ran[m] = 0
    /\ Once(drafts, m)
    /\ StartsAlone(m)
    /\ LeavesQueue(m)
    /\ Marked(m)
    /\ TooLate(m)

OncePrivate == \A m \in Private : Own(m)

(* Only a message to be sent or steered goes to the server directly.       *)
DirectKinds ==
    \A c \in Calls : call[c] \in {"direct", "taken"} => Kind(c) # "delete"

(* A copy of a request that may still be taken is of one sent again.       *)
StraysUnsure == \A s \in strays : s[1] \in unsure

FollowInv ==
    /\ TypeOK
    /\ OnceSent
    /\ CallsSent
    /\ DeskSent
    /\ DeskShared
    /\ CallsShared
    /\ StraysUnsure
    /\ InTurn
    /\ lagged \/ ReadTurn
    /\ DirectKinds
    /\ OncePrivate
    /\ NoDoubleBubble

--------------------------------------------------------------------------------
(***************************************************************************)
(* Lists.                                                                  *)
(***************************************************************************)

(* A set of natural numbers has a least one.                               *)
LEMMA Least ==
    ASSUME NEW S, S \subseteq Nat, S # {}
    PROVE  \E x \in S : \A y \in S : x <= y
<1>. DEFINE R == {p \in Nat \X Nat : p[1] < p[2]}
<1>1. IsWellFoundedOn(R, Nat)
    BY NatLessThanWellFounded DEF OpToRel
<1>2. PICK x \in S : \A y \in S : ~(<<y, x>> \in R)
    <2>. HIDE DEF R
    <2>. QED
        BY <1>1, WFMin
<1>3. \A y \in S : <<y, x>> \in Nat \X Nat /\ ~(y < x)
    BY <1>2
<1>4. ASSUME NEW y \in S
      PROVE  x <= y
    <2>1. x \in Nat /\ y \in Nat /\ ~(y < x)
        BY <1>3
    <2>. QED
        BY <2>1
<1>. QED
    BY <1>4

(* What holds of 0 and goes from each number to the next holds of all.     *)
LEMMA NatSet ==
    ASSUME NEW S, 0 \in S, \A n \in Nat : n \in S => n + 1 \in S
    PROVE  Nat \subseteq S
<1>1. SUFFICES ASSUME NEW m \in Nat, m \notin S
               PROVE  FALSE
    OBVIOUS
<1>2. PICK x \in Nat \ S : \A y \in Nat \ S : x <= y
    <2>. DEFINE T == Nat \ S
    <2>1. T \subseteq Nat /\ T # {}
        BY <1>1
    <2>. HIDE DEF T
    <2>2. \E x \in T : \A y \in T : x <= y
        BY <2>1, Least
    <2>. QED
        BY <2>2 DEF T
<1>3. x # 0 /\ x - 1 \in Nat /\ ~(x <= x - 1)
    BY <1>2
<1>4. x - 1 \in S
    BY <1>2, <1>3
<1>5. (x - 1) + 1 \in S /\ (x - 1) + 1 = x
    BY <1>3, <1>4
<1>. QED
    BY <1>2, <1>5

(* The numbers of a set up to n can be listed in order.                    *)
InOrder(f, S) ==
    /\ \A i \in S : \E j \in DOMAIN f : f[j] = i
    /\ \A i, j \in DOMAIN f : i < j => f[i] < f[j]

Listable(n, S) == \E k \in 0..n : \E f \in [1..k -> S] : InOrder(f, S)

LEMMA ListableEmpty == Listable(0, {})
<1>1. PICK f : f = [i \in 1..0 |-> i]
    OBVIOUS
<1>2. f \in [1..0 -> {}] /\ DOMAIN f = {}
    BY <1>1
<1>3. InOrder(f, {})
    BY <1>2 DEF InOrder
<1>4. 0 \in 0..0
    OBVIOUS
<1>. QED
    BY <1>2, <1>3, <1>4 DEF Listable

LEMMA ListableMore ==
    ASSUME NEW m \in Nat, NEW S, S \subseteq 1..m, Listable(m, S)
    PROVE  Listable(m + 1, S) /\ Listable(m + 1, S \cup {m + 1})
<1>1. PICK k \in 0..m : \E f \in [1..k -> S] : InOrder(f, S)
    BY DEF Listable
<1>2. PICK f \in [1..k -> S] : InOrder(f, S)
    BY <1>1
<1>3. k \in Nat /\ k \in 0..(m + 1) /\ k + 1 \in 0..(m + 1)
    OBVIOUS
<1>4. PICK T : T = S \cup {m + 1}
    OBVIOUS
<1>5. PICK g : g = [i \in 1..(k + 1) |-> IF i = k + 1 THEN m + 1 ELSE f[i]]
    OBVIOUS
<1>6. DOMAIN g = 1..(k + 1) /\ DOMAIN f = 1..k /\ k + 1 \in 1..(k + 1) /\ g[k + 1] = m + 1
    BY <1>3, <1>5
<1>7. ASSUME NEW i \in 1..k
      PROVE  i \in 1..(k + 1) /\ g[i] = f[i] /\ f[i] \in S /\ f[i] < m + 1
    <2>1. i \in 1..(k + 1) /\ i # k + 1
        BY <1>3
    <2>2. f[i] \in S
        OBVIOUS
    <2>3. f[i] < m + 1
        <3>1. \A x \in 1..m : x < m + 1
            OBVIOUS
        <3>2. f[i] \in 1..m
            BY <2>2
        <3>. QED
            BY <3>1, <3>2
    <2>4. g[i] = f[i]
        BY <1>5, <2>1
    <2>. QED
        BY <2>1, <2>2, <2>3, <2>4
<1>8. \A i \in 1..(k + 1) : i \in 1..k \/ i = k + 1
    BY <1>3
<1>9. g \in [1..(k + 1) -> T]
    <2>1. \A i \in 1..(k + 1) : g[i] \in T
        BY <1>4, <1>6, <1>7, <1>8
    <2>2. g = [i \in 1..(k + 1) |-> g[i]]
        BY <1>5
    <2>. QED
        BY <2>1, <2>2
<1>10. ASSUME NEW i \in T
       PROVE  \E j \in DOMAIN g : g[j] = i
    <2>1. CASE i = m + 1
        BY <1>6, <2>1
    <2>2. CASE i \in S
        BY <1>2, <1>6, <1>7, <2>2 DEF InOrder
    <2>. QED
        BY <1>4, <2>1, <2>2
<1>11. ASSUME NEW i \in DOMAIN g, NEW j \in DOMAIN g, i < j
       PROVE  g[i] < g[j]
    <2>1. i \in 1..k
        BY <1>3, <1>6, <1>11
    <2>2. CASE j = k + 1
        BY <1>6, <1>7, <2>1, <2>2
    <2>3. CASE j \in 1..k
        <3>1. f[i] < f[j]
            BY <1>2, <1>6, <1>11, <2>1, <2>3 DEF InOrder
        <3>. QED
            BY <1>7, <2>1, <2>3, <3>1
    <2>. QED
        BY <1>6, <1>8, <2>2, <2>3
<1>12. InOrder(g, T)
    BY <1>10, <1>11 DEF InOrder
<1>13. Listable(m + 1, S)
    BY <1>2, <1>3 DEF Listable
<1>14. Listable(m + 1, T)
    BY <1>3, <1>9, <1>12 DEF Listable
<1>. QED
    BY <1>4, <1>13, <1>14

LEMMA PlacesExist ==
    ASSUME NEW n \in Nat, NEW S, S \subseteq 1..n
    PROVE  Listable(n, S)
<1>. DEFINE Good == {m \in Nat : \A T : T \subseteq 1..m => Listable(m, T)}
<1>1. 0 \in Good
    <2>1. \A T : T \subseteq 1..0 => T = {}
        OBVIOUS
    <2>. QED
        BY <2>1, ListableEmpty
<1>2. ASSUME NEW m \in Nat, m \in Good
      PROVE  m + 1 \in Good
    <2>1. ASSUME NEW T, T \subseteq 1..(m + 1)
          PROVE  Listable(m + 1, T)
        <3>1. T \ {m + 1} \subseteq 1..m
            BY <2>1
        <3>2. Listable(m, T \ {m + 1})
            BY <1>2, <3>1
        <3>3. Listable(m + 1, T \ {m + 1}) /\ Listable(m + 1, (T \ {m + 1}) \cup {m + 1})
            BY <3>1, <3>2, ListableMore
        <3>4. T = T \ {m + 1} \/ T = (T \ {m + 1}) \cup {m + 1}
            OBVIOUS
        <3>. QED
            BY <3>3, <3>4
    <2>. QED
        BY <2>1
<1>3. Nat \subseteq Good
    <2>. HIDE DEF Good
    <2>. QED
        BY <1>1, <1>2, NatSet
<1>. QED
    BY <1>3

(* What a list keeps are those of its drafts, each once and in order.      *)
LEMMA Kept ==
    ASSUME NEW X, NEW list \in Seq(X), NEW S, S \subseteq DOMAIN list
    PROVE  /\ Keep(list, S) \in Seq(X)
           /\ \E f \in [DOMAIN Keep(list, S) -> S] :
                /\ InOrder(f, S)
                /\ \A j \in DOMAIN Keep(list, S) : Keep(list, S)[j] = list[f[j]]
<1>. DEFINE n == Len(list)
            Maps == UNION {[1..k -> S] : k \in 0..n}
            g == Places(S, n)
<1>1. n \in Nat /\ DOMAIN list = 1..n
    OBVIOUS
<1>2. \E f \in Maps : InOrder(f, S)
    BY <1>1, PlacesExist DEF Listable
<1>3. g \in Maps /\ InOrder(g, S)
    <2>1. g = CHOOSE f \in Maps : InOrder(f, S)
        BY DEF Places, InOrder
    <2>. HIDE DEF g, Maps
    <2>. QED
        BY <1>2, <2>1
<1>4. PICK k \in 0..n : g \in [1..k -> S]
    BY <1>3
<1>5. Keep(list, S) = [j \in DOMAIN g |-> list[g[j]]]
    BY DEF Keep
<1>. HIDE DEF g
<1>6. DOMAIN Keep(list, S) = 1..k /\ DOMAIN g = 1..k /\ \A j \in 1..k : list[g[j]] \in X
    BY <1>1, <1>4, <1>5
<1>7. Keep(list, S) \in Seq(X)
    <2>1. Keep(list, S) \in [1..k -> X]
        BY <1>4, <1>5, <1>6
    <2>. QED
        BY <2>1
<1>8. g \in [DOMAIN Keep(list, S) -> S]
    BY <1>4, <1>6
<1>. QED
    BY <1>3, <1>5, <1>6, <1>7, <1>8

(* Where the messages of a list are is kept by what is done to it.         *)
LEMMA KeepIn ==
    ASSUME NEW list \in Seq(Draft), NEW S, S \subseteq DOMAIN list, NEW M, AllIn(list, M)
    PROVE  AllIn(Keep(list, S), M)
<1>1. PICK f \in [DOMAIN Keep(list, S) -> S] :
          \A j \in DOMAIN Keep(list, S) : Keep(list, S)[j] = list[f[j]]
    BY Kept
<1>. QED
    BY <1>1 DEF AllIn

LEMMA WithoutHolds ==
    ASSUME NEW list \in Seq(Draft), NEW m, NEW M
    PROVE  /\ Without(list, m) \in Seq(Draft)
           /\ AllIn(list, M) => AllIn(Without(list, m), M)
           /\ AllIn(Without(list, m), M) /\ m \in M => AllIn(list, M)
<1>. DEFINE S == {i \in DOMAIN list : list[i].msg # m}
<1>1. S \subseteq DOMAIN list /\ Without(list, m) = Keep(list, S)
    BY DEF Without
<1>. HIDE DEF S
<1>2. PICK f \in [DOMAIN Keep(list, S) -> S] :
          /\ InOrder(f, S)
          /\ \A j \in DOMAIN Keep(list, S) : Keep(list, S)[j] = list[f[j]]
    BY <1>1, Kept
<1>3. ASSUME AllIn(Keep(list, S), M), m \in M, NEW i \in DOMAIN list
      PROVE  list[i].msg \in M
    <2>1. CASE i \in S
        <3>1. PICK j \in DOMAIN f : f[j] = i
            BY <1>2, <2>1 DEF InOrder
        <3>. QED
            BY <1>2, <1>3, <3>1 DEF AllIn
    <2>2. CASE i \notin S
        BY <1>3, <2>2 DEF S
    <2>. QED
        BY <2>1, <2>2
<1>4. Keep(list, S) \in Seq(Draft) /\ (AllIn(list, M) => AllIn(Keep(list, S), M))
    BY <1>1, Kept, KeepIn
<1>. QED
    BY <1>1, <1>3, <1>4 DEF AllIn

LEMMA UnsteeredHolds ==
    ASSUME NEW list \in Seq(Draft), NEW M
    PROVE  /\ Unsteered(list) \in Seq(Draft)
           /\ AllIn(list, M) => AllIn(Unsteered(list), M)
           /\ \A i \in DOMAIN Unsteered(list) : Unsteered(list)[i].kind = "message"
<1>. DEFINE S == {i \in DOMAIN list : list[i].kind # "steer"}
<1>1. S \subseteq DOMAIN list /\ Unsteered(list) = Keep(list, S)
    BY DEF Unsteered
<1>2. ASSUME NEW i \in S
      PROVE  list[i].kind = "message"
    <2>1. list[i] \in Draft /\ list[i].kind # "steer"
        OBVIOUS
    <2>. QED
        BY <2>1 DEF Draft
<1>. HIDE DEF S
<1>3. PICK f \in [DOMAIN Keep(list, S) -> S] :
          \A j \in DOMAIN Keep(list, S) : Keep(list, S)[j] = list[f[j]]
    BY SMTT(30), <1>1, Kept
<1>4. Keep(list, S) \in Seq(Draft) /\ (AllIn(list, M) => AllIn(Keep(list, S), M))
    BY <1>1, Kept, KeepIn
<1>. QED
    BY <1>1, <1>2, <1>3, <1>4

LEMMA AppendHolds ==
    ASSUME NEW list \in Seq(Draft), NEW d \in Draft, NEW M
    PROVE  /\ Append(list, d) \in Seq(Draft)
           /\ AllIn(list, M) /\ d.msg \in M => AllIn(Append(list, d), M)
           /\ AllIn(Append(list, d), M) => AllIn(list, M) /\ d.msg \in M
           /\ Len(Append(list, d)) = Len(list) + 1
           /\ Append(list, d)[Len(list) + 1] = d
           /\ \A i \in DOMAIN list : Append(list, d)[i] = list[i]
<1>1. \A i \in DOMAIN Append(list, d) : i \in DOMAIN list \/ i = Len(list) + 1
    OBVIOUS
<1>2. \A i \in DOMAIN list : i \in DOMAIN Append(list, d) /\ Append(list, d)[i] = list[i]
    OBVIOUS
<1>3. /\ Len(list) + 1 \in DOMAIN Append(list, d)
      /\ Append(list, d)[Len(list) + 1] = d
    OBVIOUS
<1>. QED
    BY <1>1, <1>2, <1>3 DEF AllIn

LEMMA MarkHolds ==
    ASSUME NEW list \in Seq(Draft), NEW m \in Messages, NEW M
    PROVE  /\ MarkSteer(list, m) \in Seq(Draft)
           /\ DOMAIN MarkSteer(list, m) = DOMAIN list
           /\ \A i \in DOMAIN list :
                /\ MarkSteer(list, m)[i].msg = list[i].msg
                /\ list[i].msg # m => MarkSteer(list, m)[i] = list[i]
                /\ list[i].msg = m => MarkSteer(list, m)[i].kind = "steer"
           /\ AllIn(MarkSteer(list, m), M) <=> AllIn(list, M)
<1>1. PICK d : d = [msg |-> m, kind |-> "steer"]
    OBVIOUS
<1>2. d \in Draft /\ d.msg = m /\ d.kind = "steer"
    BY <1>1 DEF Draft
<1>3. PICK new : new = MarkSteer(list, m)
    OBVIOUS
<1>4. new = [i \in DOMAIN list |-> IF list[i].msg = m THEN d ELSE list[i]]
    BY <1>1, <1>3 DEF MarkSteer
<1>5. /\ DOMAIN new = DOMAIN list
      /\ \A i \in DOMAIN list : new[i] = IF list[i].msg = m THEN d ELSE list[i]
    BY <1>4
<1>6. \A i \in DOMAIN list : list[i] \in Draft /\ new[i] \in Draft
    BY <1>2, <1>5
<1>7. new \in Seq(Draft)
    <2>1. DOMAIN list = 1..Len(list) /\ Len(list) \in Nat
        OBVIOUS
    <2>2. new \in [1..Len(list) -> Draft]
        BY <1>4, <1>6, <2>1
    <2>. QED
        BY <2>1, <2>2
<1>8. \A i \in DOMAIN list : new[i].msg = list[i].msg
    BY <1>2, <1>5
<1>. QED
    BY <1>2, <1>3, <1>5, <1>7, <1>8 DEF AllIn

LEMMA TailHolds ==
    ASSUME NEW list \in Seq(Draft), NEW M
    PROVE  /\ WithoutFirst(list) \in Seq(Draft)
           /\ AllIn(list, M) => AllIn(WithoutFirst(list), M)
           /\ \A i \in DOMAIN WithoutFirst(list) :
                i + 1 \in DOMAIN list /\ WithoutFirst(list)[i] = list[i + 1] /\ i \in Nat \ {0}
<1>1. CASE list = <<>>
    BY <1>1 DEF WithoutFirst, AllIn
<1>2. CASE list # <<>>
    <2>1. WithoutFirst(list) = Tail(list)
        BY <1>2 DEF WithoutFirst
    <2>2. Tail(list) \in Seq(Draft) /\ \A i \in DOMAIN Tail(list) :
            i + 1 \in DOMAIN list /\ Tail(list)[i] = list[i + 1] /\ i \in Nat \ {0}
        BY <1>2
    <2>. QED
        BY <2>1, <2>2 DEF AllIn
<1>. QED
    BY <1>1, <1>2

--------------------------------------------------------------------------------
(***************************************************************************)
(* Events on their way.                                                    *)
(***************************************************************************)

LEMMA EventFields ==
    ASSUME NEW e \in Event
    PROVE  /\ e[1] \in {"started", "completed", "item"}
           /\ e[1] # "item" => e[2] \in Nat
           /\ e[1] = "item" => e[2] \in Messages \cup {None}
BY DEF Event

LEMMA EventKinds ==
    /\ \A m \in Messages \cup {None} :
         <<"item", m>> \in Event /\ <<"item", m>>[1] = "item" /\ <<"item", m>>[2] = m
    /\ \A t \in Nat :
         /\ <<"started", t>> \in Event /\ <<"started", t>>[1] = "started" /\ <<"started", t>>[2] = t
         /\ <<"completed", t>> \in Event /\ <<"completed", t>>[1] = "completed"
BY DEF Event

LEMMA AppendEvent ==
    ASSUME NEW q \in Seq(Event), NEW e \in Event
    PROVE  /\ Append(q, e) \in Seq(Event)
           /\ DOMAIN Append(q, e) = DOMAIN q \cup {Len(q) + 1}
           /\ \A i \in DOMAIN q : Append(q, e)[i] = q[i] /\ i < Len(q) + 1 /\ i \in Nat
           /\ Append(q, e)[Len(q) + 1] = e
           /\ Len(q) + 1 \notin DOMAIN q /\ Len(q) \in Nat
OBVIOUS

(* An item changes nothing.                                                *)
LEMMA ItemOrder ==
    ASSUME NEW q \in Seq(Event), NEW a \in Nat, NEW t \in Nat, NEW n \in Nat,
           NEW e \in Event, e[1] = "item", EventsInOrder(q, a, t, n)
    PROVE  EventsInOrder(Append(q, e), a, t, n)
<1>1. PICK r : r = Append(q, e)
    OBVIOUS
<1>2. PICK l \in Nat : l = Len(q) + 1
    OBVIOUS
<1>3. /\ DOMAIN r = DOMAIN q \cup {l}
      /\ \A i \in DOMAIN q : r[i] = q[i] /\ i < l /\ i \in Nat
      /\ r[l] = e /\ l \notin DOMAIN q
    BY <1>1, <1>2, AppendEvent
<1>4. ~Starts(r, l) /\ ~Ends(r, l)
      /\ \A i \in DOMAIN q : (Starts(r, i) <=> Starts(q, i)) /\ (Ends(r, i) <=> Ends(q, i))
    BY <1>3 DEF Starts, Ends
<1>5. EventsInOrder(r, a, t, n)
    BY <1>3, <1>4 DEF EventsInOrder
<1>. QED
    BY <1>1, <1>5

(* A new turn starts.                                                      *)
LEMMA StartOrder ==
    ASSUME NEW q \in Seq(Event), NEW a \in Nat, NEW n \in Nat, EventsInOrder(q, a, 0, n)
    PROVE  EventsInOrder(Append(q, <<"started", n + 1>>), a, n + 1, n + 1)
<1>1. PICK t \in Nat : t = n + 1 /\ n < t /\ t # 0 /\ t \in 1..t
    <2>1. n + 1 \in Nat /\ n < n + 1 /\ n + 1 # 0 /\ n + 1 \in 1..(n + 1)
        OBVIOUS
    <2>. QED
        BY <2>1
<1>2. PICK e \in Event : e = <<"started", t>> /\ e[1] = "started" /\ e[2] = t
    BY EventKinds
<1>3. PICK r : r = Append(q, e)
    OBVIOUS
<1>4. PICK l \in Nat : l = Len(q) + 1
    OBVIOUS
<1>5. /\ DOMAIN r = DOMAIN q \cup {l}
      /\ \A i \in DOMAIN q : r[i] = q[i] /\ i < l /\ i \in Nat
      /\ r[l] = e /\ l \notin DOMAIN q
    BY <1>3, <1>4, AppendEvent
<1>6. Starts(r, l) /\ ~Ends(r, l) /\ r[l][2] = t
      /\ \A i \in DOMAIN q : (Starts(r, i) <=> Starts(q, i)) /\ (Ends(r, i) <=> Ends(q, i))
    BY <1>2, <1>5 DEF Starts, Ends
<1>7. a # t /\ a <= t /\ \A i \in DOMAIN q : Starts(q, i) => q[i][2] # t /\ q[i][2] \in 1..t
    BY <1>1 DEF EventsInOrder
<1>8. EventsInOrder(r, a, t, t)
    <2>1. \A i \in DOMAIN r : Starts(r, i) => r[i][2] \in 1..t
        BY <1>1, <1>5, <1>6, <1>7
    <2>2. \A k \in DOMAIN r :
            Ends(r, k) /\ a = 0 => \E i \in DOMAIN r : i < k /\ Starts(r, i)
        BY <1>5, <1>6 DEF EventsInOrder
    <2>3. \A j, k \in DOMAIN r :
            Ends(r, j) /\ Ends(r, k) /\ j < k
            => \E i \in DOMAIN r : j < i /\ i < k /\ Starts(r, i)
        BY <1>5, <1>6 DEF EventsInOrder
    <2>4. /\ \A j \in DOMAIN r : Ends(r, j) => \E i \in DOMAIN r : j < i /\ Starts(r, i)
          /\ a = 0 => \E i \in DOMAIN r : Starts(r, i)
        BY <1>5, <1>6
    <2>5. \A i, j \in DOMAIN r :
            Starts(r, i) /\ r[i][2] = t /\ i < j => ~Starts(r, j) /\ ~Ends(r, j)
        BY <1>4, <1>5, <1>6, <1>7
    <2>. QED
        BY <1>7, <2>1, <2>2, <2>3, <2>4, <2>5 DEF EventsInOrder
<1>. QED
    BY <1>1, <1>2, <1>3, <1>8

(* The turn that runs ends.                                                *)
LEMMA EndOrder ==
    ASSUME NEW q \in Seq(Event), NEW a \in Nat, NEW t \in Nat, NEW n \in Nat, t # 0,
           EventsInOrder(q, a, t, n)
    PROVE  EventsInOrder(Append(q, <<"completed", t>>), a, 0, n)
<1>1. PICK e \in Event : e = <<"completed", t>> /\ e[1] = "completed"
    BY EventKinds
<1>2. PICK r : r = Append(q, e)
    OBVIOUS
<1>3. PICK l \in Nat : l = Len(q) + 1
    OBVIOUS
<1>4. /\ DOMAIN r = DOMAIN q \cup {l}
      /\ \A i \in DOMAIN q : r[i] = q[i] /\ i < l /\ i \in Nat
      /\ r[l] = e /\ l \notin DOMAIN q
    BY <1>2, <1>3, AppendEvent
<1>5. ~Starts(r, l) /\ Ends(r, l)
      /\ \A i \in DOMAIN q : (Starts(r, i) <=> Starts(q, i)) /\ (Ends(r, i) <=> Ends(q, i))
    BY <1>1, <1>4 DEF Starts, Ends
<1>6. \A i \in DOMAIN r : Starts(r, i) => r[i][2] \in 1..n /\ r[i][2] # 0
    BY <1>4, <1>5 DEF EventsInOrder
<1>7. EventsInOrder(r, a, 0, n)
    <2>1. \A k \in DOMAIN r :
            Ends(r, k) /\ a = 0 => \E i \in DOMAIN r : i < k /\ Starts(r, i)
        BY <1>4, <1>5 DEF EventsInOrder
    <2>2. \A j, k \in DOMAIN r :
            Ends(r, j) /\ Ends(r, k) /\ j < k
            => \E i \in DOMAIN r : j < i /\ i < k /\ Starts(r, i)
        BY <1>4, <1>5 DEF EventsInOrder
    <2>3. a <= n
        BY DEF EventsInOrder
    <2>. QED
        BY <1>6, <2>1, <2>2, <2>3 DEF EventsInOrder
<1>. QED
    BY <1>1, <1>2, <1>7

LEMMA TailEvent ==
    ASSUME NEW q \in Seq(Event), q # <<>>
    PROVE  /\ Tail(q) \in Seq(Event) /\ Head(q) \in Event /\ Head(q) = q[1] /\ 1 \in DOMAIN q
           /\ \A i \in DOMAIN Tail(q) : i + 1 \in DOMAIN q /\ Tail(q)[i] = q[i + 1]
           /\ \A i \in DOMAIN q : i # 1 => i - 1 \in DOMAIN Tail(q) /\ 1 < i
           /\ DOMAIN q \subseteq Nat /\ DOMAIN Tail(q) \subseteq Nat \ {0}
OBVIOUS

LEMMA Between ==
    ASSUME NEW j \in Nat, NEW k \in Nat, NEW h \in Nat, j + 1 < h + 1, h + 1 < k + 1
    PROVE  j < h /\ h < k
OBVIOUS

(* The listener takes the first event.                                     *)
LEMMA TakeOrder ==
    ASSUME NEW q \in Seq(Event), q # <<>>, NEW a \in Nat, NEW t \in Nat, NEW n \in Nat,
           EventsInOrder(q, a, t, n)
    PROVE  /\ Head(q)[1] = "item" => EventsInOrder(Tail(q), a, t, n)
           /\ Head(q)[1] = "started" =>
                Head(q)[2] \in 1..n /\ EventsInOrder(Tail(q), Head(q)[2], t, n)
           /\ Head(q)[1] = "completed" =>
                a # 0 /\ a # t /\ EventsInOrder(Tail(q), 0, t, n)
<1>1. PICK r \in Seq(Event) : r = Tail(q)
    BY TailEvent
<1>2. /\ 1 \in DOMAIN q /\ Head(q) = q[1]
      /\ \A i \in DOMAIN r : i + 1 \in DOMAIN q /\ r[i] = q[i + 1] /\ i \in Nat \ {0}
      /\ \A i \in DOMAIN q : i # 1 => i - 1 \in DOMAIN r /\ 1 < i
      /\ DOMAIN q \subseteq Nat
    BY <1>1, TailEvent
<1>3. ASSUME NEW i \in DOMAIN r
      PROVE  /\ i \in Nat \ {0} /\ i + 1 \in DOMAIN q /\ r[i][2] = q[i + 1][2] /\ 1 < i + 1
             /\ Starts(r, i) <=> Starts(q, i + 1)
             /\ Ends(r, i) <=> Ends(q, i + 1)
    BY <1>2 DEF Starts, Ends
<1>4. ASSUME NEW i \in DOMAIN q, i # 1
      PROVE  /\ i - 1 \in DOMAIN r /\ i \in Nat /\ i - 1 \in Nat /\ (i - 1) + 1 = i
             /\ Starts(r, i - 1) <=> Starts(q, i)
    <2>1. i - 1 \in DOMAIN r /\ i \in Nat /\ (i - 1) + 1 = i
        BY <1>2, <1>4
    <2>. QED
        BY <1>3, <2>1
<1>5. \A i \in DOMAIN r : Starts(r, i) => r[i][2] \in 1..n
    BY <1>3 DEF EventsInOrder
<1>6. ASSUME NEW j \in DOMAIN r, NEW k \in DOMAIN r, Ends(r, j), Ends(r, k), j < k
      PROVE  \E i \in DOMAIN r : j < i /\ i < k /\ Starts(r, i)
    <2>1. j \in Nat /\ k \in Nat /\ j + 1 < k + 1
        BY <1>3, <1>6
    <2>2. PICK i \in DOMAIN q : j + 1 < i /\ i < k + 1 /\ Starts(q, i)
        BY <1>3, <1>6, <2>1 DEF EventsInOrder
    <2>3. i # 1 /\ i \in Nat
        BY <1>2, <2>1, <2>2
    <2>4. PICK h \in Nat : h + 1 = i /\ h = i - 1
        BY <1>4, <2>3
    <2>5. h \in DOMAIN r /\ Starts(r, h)
        BY <1>4, <2>2, <2>3, <2>4
    <2>6. j < h /\ h < k
        <3>1. j + 1 < h + 1 /\ h + 1 < k + 1
            BY <2>2, <2>4
        <3>. QED
            BY <2>1, <3>1, Between
    <2>. QED
        BY <2>5, <2>6
<1>7. ASSUME t # 0, NEW j \in DOMAIN r, Ends(r, j)
      PROVE  \E i \in DOMAIN r : j < i /\ Starts(r, i)
    <2>1. PICK i \in DOMAIN q : j + 1 < i /\ Starts(q, i)
        BY <1>3, <1>7 DEF EventsInOrder
    <2>2. j \in Nat /\ i \in Nat /\ i # 1
        BY <1>2, <1>3, <2>1
    <2>3. i - 1 \in DOMAIN r /\ Starts(r, i - 1) /\ j < i - 1
        BY <1>4, <2>1, <2>2
    <2>. QED
        BY <2>3
<1>8. \A i, j \in DOMAIN r :
        Starts(r, i) /\ r[i][2] = t /\ i < j => ~Starts(r, j) /\ ~Ends(r, j)
    <2>1. ASSUME NEW i \in DOMAIN r, NEW j \in DOMAIN r,
                 Starts(r, i), r[i][2] = t, i < j
          PROVE  ~Starts(r, j) /\ ~Ends(r, j)
        <3>1. i + 1 < j + 1 /\ Starts(q, i + 1) /\ q[i + 1][2] = t
            BY <1>3, <2>1
        <3>. QED
            BY <1>3, <3>1 DEF EventsInOrder
    <2>. QED
        BY <2>1
<1>9. CASE Head(q)[1] = "item"
    <2>1. ~Starts(q, 1) /\ ~Ends(q, 1)
        BY <1>2, <1>9 DEF Starts, Ends
    <2>2. ASSUME NEW k \in DOMAIN r, Ends(r, k), a = 0
          PROVE  \E i \in DOMAIN r : i < k /\ Starts(r, i)
        <3>1. PICK i \in DOMAIN q : i < k + 1 /\ Starts(q, i)
            BY <1>3, <2>2 DEF EventsInOrder
        <3>2. i # 1 /\ i \in Nat /\ k \in Nat
            BY <1>2, <1>3, <2>1, <3>1
        <3>. QED
            BY <1>4, <3>1, <3>2
    <2>3. t # 0 /\ a = 0 => \E i \in DOMAIN r : Starts(r, i)
        BY <1>4, <2>1 DEF EventsInOrder
    <2>4. a # 0 /\ a = t => \A i \in DOMAIN r : ~Starts(r, i) /\ ~Ends(r, i)
        BY <1>3 DEF EventsInOrder
    <2>5. a <= n
        BY DEF EventsInOrder
    <2>6. EventsInOrder(r, a, t, n)
        BY <1>5, <1>6, <1>7, <1>8, <2>2, <2>3, <2>4, <2>5 DEF EventsInOrder
    <2>. QED
        BY <1>1, <1>9, <2>6
<1>10. CASE Head(q)[1] = "started"
    <2>1. Starts(q, 1) /\ q[1][2] \in 1..n
        BY <1>2, <1>10 DEF Starts, EventsInOrder
    <2>2. PICK b \in 1..n : b = Head(q)[2]
        BY <1>2, <2>1
    <2>3. b # 0 /\ b <= n
        OBVIOUS
    <2>4. b = t => \A i \in DOMAIN r : ~Starts(r, i) /\ ~Ends(r, i)
        BY <1>2, <1>3, <2>1, <2>2 DEF EventsInOrder
    <2>5. EventsInOrder(r, b, t, n)
        BY <1>5, <1>6, <1>7, <1>8, <2>3, <2>4 DEF EventsInOrder
    <2>. QED
        BY <1>1, <1>10, <2>2, <2>5
<1>11. CASE Head(q)[1] = "completed"
    <2>1. Ends(q, 1) /\ ~Starts(q, 1)
        BY <1>2, <1>11 DEF Starts, Ends
    <2>2. \A i \in DOMAIN q : ~(i < 1)
        BY <1>2
    <2>3. a # 0 /\ a # t
        BY <1>2, <2>1, <2>2 DEF EventsInOrder
    <2>4. ASSUME NEW k \in DOMAIN r, Ends(r, k)
          PROVE  \E i \in DOMAIN r : i < k /\ Starts(r, i)
        <3>1. PICK i \in DOMAIN q : 1 < i /\ i < k + 1 /\ Starts(q, i)
            BY <1>2, <1>3, <2>1, <2>4 DEF EventsInOrder
        <3>2. i # 1 /\ i \in Nat /\ k \in Nat
            BY <1>2, <1>3, <3>1
        <3>. QED
            BY <1>4, <3>1, <3>2
    <2>5. t # 0 => \E i \in DOMAIN r : Starts(r, i)
        <3>1. ASSUME t # 0
              PROVE  \E i \in DOMAIN r : Starts(r, i)
            <4>1. PICK i \in DOMAIN q : 1 < i /\ Starts(q, i)
                BY <1>2, <2>1, <3>1 DEF EventsInOrder
            <4>. QED
                BY <1>4, <2>1, <4>1
        <3>. QED
            BY <3>1
    <2>6. EventsInOrder(r, 0, t, n)
        BY <1>5, <1>6, <1>7, <1>8, <2>4, <2>5 DEF EventsInOrder
    <2>. QED
        BY <1>1, <1>11, <2>3, <2>6
<1>. QED
    BY <1>2, <1>9, <1>10, <1>11, EventFields

LEMMA CatAppends ==
    ASSUME NEW q \in Seq(Event), NEW d \in Event, NEW e \in Event
    PROVE  /\ q \o <<d, d>> = Append(Append(q, d), d)
           /\ q \o <<e, d, d>> = Append(Append(Append(q, e), d), d)
OBVIOUS

(* Input that the server takes leaves the events in order.                 *)
ServerOk(q, t, n, a) ==
    /\ q \in Seq(Event) /\ n \in Nat /\ t \in 0..n
    /\ lagged \/ EventsInOrder(q, a, t, n)

LEMMA ItemsHold ==
    ASSUME NEW q, NEW t, NEW n, NEW a \in Nat, ServerOk(q, t, n, a),
           NEW m \in Messages \cup {None}, NEW r, r = Append(Append(q, <<"item", m>>), <<"item", m>>)
    PROVE  /\ ServerOk(r, t, n, a)
           /\ \A M : EventsSent(q, M) /\ (m # None => m \in M) => EventsSent(r, M)
<1>1. PICK e \in Event : e = <<"item", m>> /\ e[1] = "item" /\ e[2] = m
    BY EventKinds
<1>2. PICK p : p = Append(q, e)
    OBVIOUS
<1>3. q \in Seq(Event) /\ p \in Seq(Event) /\ t \in Nat /\ n \in Nat
    BY <1>2, AppendEvent DEF ServerOk
<1>4. lagged \/ (EventsInOrder(p, a, t, n) /\ EventsInOrder(r, a, t, n))
    BY <1>1, <1>2, <1>3, ItemOrder DEF ServerOk
<1>5. /\ \A i \in DOMAIN r : i \in DOMAIN p \/ r[i] = e
      /\ \A i \in DOMAIN p : r[i] = p[i]
      /\ \A i \in DOMAIN p : i \in DOMAIN q \/ p[i] = e
      /\ \A i \in DOMAIN q : p[i] = q[i]
      /\ r \in Seq(Event)
    BY <1>1, <1>2, <1>3, AppendEvent
<1>6. \A M : EventsSent(q, M) /\ (m # None => m \in M) => EventsSent(r, M)
    BY <1>1, <1>5 DEF EventsSent
<1>. QED
    BY <1>3, <1>4, <1>5, <1>6 DEF ServerOk

LEMMA StartHolds ==
    ASSUME NEW q, NEW n, NEW a \in Nat, ServerOk(q, 0, n, a),
           NEW r, r = Append(q, <<"started", n + 1>>)
    PROVE  /\ ServerOk(r, n + 1, n + 1, a)
           /\ \A M : EventsSent(q, M) => EventsSent(r, M)
<1>1. q \in Seq(Event) /\ n \in Nat /\ n + 1 \in Nat /\ n + 1 \in 0..(n + 1)
    BY DEF ServerOk
<1>2. PICK e \in Event : e = <<"started", n + 1>> /\ e[1] = "started"
    BY <1>1, EventKinds
<1>3. /\ \A i \in DOMAIN r : i \in DOMAIN q \/ r[i] = e
      /\ \A i \in DOMAIN q : r[i] = q[i]
      /\ r \in Seq(Event)
    BY <1>1, <1>2, AppendEvent
<1>4. lagged \/ EventsInOrder(r, a, n + 1, n + 1)
    BY <1>1, StartOrder DEF ServerOk
<1>5. \A M : EventsSent(q, M) => EventsSent(r, M)
    BY <1>2, <1>3 DEF EventsSent
<1>. QED
    BY <1>1, <1>3, <1>4, <1>5 DEF ServerOk

(* The server's state after new input of m, or another client's (None).    *)
ServerMove(m) ==
    /\ ServerOk(events', turn', turns', active)
    /\ \A M : EventsSent(events, M) /\ (m # None => m \in M) => EventsSent(events', M)
    /\ turn' = turn \/ turn' = turns + 1
    /\ turns <= turns'

LEMMA ServerSteps ==
    ASSUME TypeOK, InTurn, NEW m \in Messages \cup {None},
           \/ /\ turn = 0 /\ turns' = turns + 1 /\ turn' = turns + 1
              /\ events' = events \o <<<<"started", turns + 1>>, <<"item", m>>, <<"item", m>>>>
           \/ /\ turns' = turns /\ turn' = turn
              /\ events' = events \o <<<<"item", m>>, <<"item", m>>>>
    PROVE  ServerMove(m)
<1>1. /\ active \in Nat /\ turns \in Nat /\ ServerOk(events, turn, turns, active)
      /\ turns + 1 \in Nat /\ turns <= turns + 1 /\ turns <= turns
    BY DEF TypeOK, ServerOk, InTurn
<1>2. PICK d \in Event : d = <<"item", m>>
    BY EventKinds
<1>3. CASE /\ turn = 0 /\ turns' = turns + 1 /\ turn' = turns + 1
           /\ events' = events \o <<<<"started", turns + 1>>, <<"item", m>>, <<"item", m>>>>
    <2>1. PICK e \in Event : e = <<"started", turns + 1>>
        BY <1>1, EventKinds
    <2>2. PICK r : r = Append(events, e)
        OBVIOUS
    <2>3. events' = Append(Append(r, d), d)
        BY <1>1, <1>2, <1>3, <2>1, <2>2, CatAppends DEF ServerOk
    <2>4. /\ ServerOk(r, turns + 1, turns + 1, active)
          /\ \A M : EventsSent(events, M) => EventsSent(r, M)
        BY <1>1, <1>3, <2>1, <2>2, StartHolds
    <2>5. /\ ServerOk(events', turns + 1, turns + 1, active)
          /\ \A M : EventsSent(r, M) /\ (m # None => m \in M) => EventsSent(events', M)
        BY <1>1, <1>2, <2>3, <2>4, ItemsHold
    <2>. QED
        BY <1>1, <1>3, <2>4, <2>5 DEF ServerMove
<1>4. CASE /\ turns' = turns /\ turn' = turn
           /\ events' = events \o <<<<"item", m>>, <<"item", m>>>>
    <2>1. events' = Append(Append(events, d), d)
        BY <1>1, <1>2, <1>4, CatAppends DEF ServerOk
    <2>2. /\ ServerOk(events', turn, turns, active)
          /\ \A M : EventsSent(events, M) /\ (m # None => m \in M) => EventsSent(events', M)
        BY <1>1, <1>2, <2>1, ItemsHold
    <2>3. ServerOk(events', turn', turns', active) /\ turns <= turns' /\ turn' = turn
        BY <1>1, <1>4, <2>2
    <2>. QED
        BY <2>2, <2>3 DEF ServerMove
<1>. QED
    BY <1>3, <1>4

LEMMA RunHolds ==
    ASSUME TypeOK, InTurn, NEW m \in Messages, Run(m)
    PROVE  /\ ServerMove(m) /\ others' = others
           /\ ran' = [ran EXCEPT ![m] = ran[m] + 1] /\ ran' \in [Messages -> Nat]
<1>1. ServerMove(m)
    BY ServerSteps DEF Run
<1>2. ran' = [ran EXCEPT ![m] = ran[m] + 1] /\ others' = others
    BY DEF Run
<1>3. ran \in [Messages -> Nat] /\ ran[m] + 1 \in Nat
    BY DEF TypeOK
<1>4. ran' \in [Messages -> Nat]
    BY <1>2, <1>3
<1>. QED
    BY <1>1, <1>2, <1>4

LEMMA OtherTurnHolds ==
    ASSUME TypeOK, InTurn, OtherTurn
    PROVE  ServerMove(None)
BY ServerSteps DEF OtherTurn

--------------------------------------------------------------------------------
(***************************************************************************)
(* Calls.                                                                  *)
(***************************************************************************)

LEMMA CallFields ==
    ASSUME NEW c \in Calls
    PROVE  /\ Kind(c) \in {"send", "steer", "delete"} /\ Msg(c) \in Messages
           /\ Kind(c) = "send" => c = Send(Msg(c))
           /\ Kind(c) = "steer" => c = Steer(Msg(c))
BY CallsAssumption DEF Kind, Msg, Send, Steer

LEMMA CallNames ==
    ASSUME NEW m
    PROVE  /\ Kind(Send(m)) = "send" /\ Msg(Send(m)) = m
           /\ Kind(Steer(m)) = "steer" /\ Msg(Steer(m)) = m
BY DEF Kind, Msg, Send, Steer

LEMMA DraftFields ==
    ASSUME NEW m \in Messages, NEW k \in {"message", "steer"}
    PROVE  /\ [msg |-> m, kind |-> k] \in Draft
           /\ [msg |-> m, kind |-> k].msg = m /\ [msg |-> m, kind |-> k].kind = k
BY DEF Draft

LEMMA NextHolds ==
    ASSUME NEW c \in Calls, seen[c].drafts \in Seq(Draft), NEW M
    PROVE  /\ NextDrafts(c) \in Seq(Draft)
           /\ AllIn(seen[c].drafts, M) /\ (Kind(c) = "send" => Msg(c) \in M)
                => AllIn(NextDrafts(c), M)
           /\ AllIn(NextDrafts(c), M) /\ Msg(c) \in M => AllIn(seen[c].drafts, M)
<1>1. PICK list \in Seq(Draft) : list = seen[c].drafts
    OBVIOUS
<1>2. CASE Kind(c) = "send"
    <2>1. PICK d \in Draft : d = [msg |-> Msg(c), kind |-> "message"] /\ d.msg = Msg(c)
        BY CallFields, DraftFields
    <2>2. NextDrafts(c) = Append(list, d)
        BY <1>1, <1>2, <2>1 DEF NextDrafts
    <2>. QED
        BY <1>1, <1>2, <2>1, <2>2, AppendHolds
<1>3. CASE Kind(c) = "steer"
    <2>1. NextDrafts(c) = MarkSteer(list, Msg(c))
        BY <1>1, <1>3 DEF NextDrafts
    <2>. QED
        BY <1>1, <1>3, <2>1, CallFields, MarkHolds
<1>4. CASE Kind(c) = "delete"
    <2>1. NextDrafts(c) = Without(list, Msg(c))
        BY <1>1, <1>4 DEF NextDrafts
    <2>. QED
        BY <1>1, <1>4, <2>1, CallFields, WithoutHolds
<1>. QED
    BY <1>2, <1>3, <1>4, CallFields

LEMMA SeenFields ==
    ASSUME TypeOK, NEW c \in Calls
    PROVE  seen[c].active \in Nat /\ seen[c].drafts \in Seq(Draft) /\ seen[c].live \in BOOLEAN
BY DEF TypeOK, Seen

LEMMA NothingFields ==
    Nothing \in Seen /\ Nothing.active = 0 /\ Nothing.drafts = <<>>
BY DEF Nothing, Seen

LEMMA CommandFields ==
    ASSUME TypeOK, NEW c \in Calls
    PROVE  /\ IpcCommand(c) \in Command
           /\ IpcCommand(c).msg = Msg(c) /\ IpcCommand(c).drafts = NextDrafts(c)
<1>1. NextDrafts(c) \in Seq(Draft) /\ Msg(c) \in Messages
    BY SeenFields, NextHolds, CallFields
<1>2. (Kind(c) = "send" /\ ~Waits(c)) \in BOOLEAN
    OBVIOUS
<1>. QED
    BY <1>1, <1>2 DEF IpcCommand, Command

--------------------------------------------------------------------------------
(***************************************************************************)
(* Types.                                                                  *)
(***************************************************************************)

Stages == {"idle", "read", "ipc", "heard", "direct", "taken", "done"}

LEMMA BecomeHolds ==
    ASSUME TypeOK, NEW c \in Calls, NEW p \in Stages, Become(c, p)
    PROVE  /\ call' = [call EXCEPT ![c] = p] /\ call' \in [Calls -> Stages]
           /\ seen' \in [Calls -> Seen]
           /\ \A d \in Calls : seen'[d] = seen[d] \/ (p = "done" /\ d = c /\ seen'[d] = Nothing)
<1>1. call' = [call EXCEPT ![c] = p] /\ call \in [Calls -> Stages] /\ seen \in [Calls -> Seen]
    BY DEF Become, TypeOK, Stages
<1>2. seen' = seen \/ (p = "done" /\ seen' = [seen EXCEPT ![c] = Nothing])
    BY DEF Become
<1>. QED
    BY <1>1, <1>2, NothingFields

LEMMA ListFields ==
    ASSUME NEW list \in Seq(Draft), NEW i \in DOMAIN list
    PROVE  list[i] \in Draft /\ list[i].msg \in Messages /\ list[i].kind \in {"message", "steer"}
<1>1. list[i] \in Draft
    OBVIOUS
<1>. QED
    BY <1>1 DEF Draft

LEMMA MsgsHold ==
    ASSUME NEW list \in Seq(Draft)
    PROVE  /\ Msgs(list) \subseteq Messages
           /\ \A M : AllIn(list, M \cup Msgs(list))
<1>1. \A i \in DOMAIN list : list[i].msg \in Messages
    BY ListFields
<1>2. \A i \in DOMAIN list : list[i].msg \in Msgs(list)
    BY DEF Msgs
<1>3. Msgs(list) \subseteq Messages
    BY <1>1 DEF Msgs
<1>. QED
    BY <1>2, <1>3 DEF AllIn

LEMMA WriteBackHolds ==
    ASSUME TypeOK, NEW c \in Calls, WriteBack(c)
    PROVE  /\ drafts' = NextDrafts(c) /\ drafts' \in Seq(Draft)
           /\ restored \subseteq restored' /\ restored' \subseteq Messages
           /\ drafts = seen[c].drafts \/ AllIn(drafts', restored')
<1>1. NextDrafts(c) \in Seq(Draft) /\ restored \subseteq Messages
    BY SeenFields, NextHolds DEF TypeOK
<1>. QED
    BY <1>1, MsgsHold DEF WriteBack

PendingType == (Calls \X BOOLEAN) \cup {None}

LEMMA PendingCall ==
    ASSUME NEW c \in Calls
    PROVE  <<c, Waits(c)>> \in PendingType
<1>1. Waits(c) \in BOOLEAN
    BY DEF Waits
<1>2. PICK b \in BOOLEAN : b = Waits(c)
    BY <1>1
<1>3. <<c, b>> \in PendingType
    BY DEF PendingType
<1>. QED
    BY <1>2, <1>3

(* The four ways that are left without IPC.                                *)
LEMMA DirectHolds ==
    ASSUME TypeOK, NEW c \in Calls, NEW p \in PendingType, GoDirect(c, p)
    PROVE  /\ \E q \in {"done", "direct"} : Become(c, q)
           /\ call' \in [Calls -> Stages] /\ seen' \in [Calls -> Seen]
           /\ pending' \in PendingType
           /\ drafts' \in Seq(Draft)
           /\ restored \subseteq restored' /\ restored' \subseteq Messages
<1>1. \E q \in {"done", "direct"} : Become(c, q)
    BY DEF GoDirect
<1>4. pending' \in PendingType
    <2>1. None \in PendingType
        BY DEF PendingType
    <2>. QED
        BY <2>1, PendingCall DEF GoDirect
<1>2. call' \in [Calls -> Stages] /\ seen' \in [Calls -> Seen]
    BY <1>1, BecomeHolds DEF Stages
<1>3. /\ drafts' \in Seq(Draft)
      /\ restored \subseteq restored' /\ restored' \subseteq Messages
    BY WriteBackHolds, MarkHolds, CallFields DEF GoDirect, TypeOK
<1>. QED
    BY <1>1, <1>2, <1>3, <1>4

(* What the desktop does with a command.                                   *)
LEMMA HearHolds ==
    ASSUME TypeOK, InTurn, NEW command \in Command,
           Hear(command)
    PROVE  /\ others' = others /\ ran' \in [Messages -> Nat]
           /\ ServerOk(events', turn', turns', active)
           /\ desk' \in Seq(Draft) /\ casts' \in Seq(Seq(Draft))
<1>1. command.msg \in Messages /\ command.drafts \in Seq(Draft)
    BY DEF Command
<1>2. CASE command.starts
    BY <1>1, <1>2, RunHolds DEF Hear, TypeOK, deskVars, ServerMove
<1>3. CASE ~command.starts
    <2>1. Append(casts, command.drafts) \in Seq(Seq(Draft))
        BY <1>1 DEF TypeOK
    <2>2. UNCHANGED serverVars /\ desk' = command.drafts
          /\ casts' = Append(casts, command.drafts)
        BY <1>3 DEF Hear
    <2>. QED
        BY <1>1, <2>1, <2>2 DEF TypeOK, serverVars, ServerOk, InTurn
<1>. QED
    BY <1>2, <1>3

(* The parts of the type invariant that most actions leave alone.          *)
ThreadType ==
    /\ active \in Nat /\ drafts \in Seq(Draft) /\ items \subseteq Messages
    /\ overlays \subseteq Messages
LinkType ==
    /\ ipc \in BOOLEAN /\ authority \in {"primary", "recovering", "direct"} /\ hasIpc \in BOOLEAN
    /\ failed \in BOOLEAN /\ link \in BOOLEAN /\ unread \in BOOLEAN /\ faults \in 0..Faults
CallType ==
    /\ call \in [Calls -> Stages] /\ seen \in [Calls -> Seen] /\ late \subseteq Command
    /\ strays \subseteq Messages \X Nat /\ pending \in PendingType
ListenerType == sending \in Messages \cup {None} /\ taken \in BOOLEAN
ServerType ==
    /\ events \in Seq(Event) /\ turn \in 0..turns /\ turns \in Nat
    /\ others \in 0..OtherTurns /\ ran \in [Messages -> Nat]
DeskType == desk \in Seq(Draft) /\ casts \in Seq(Seq(Draft))
AuxType ==
    /\ shared \subseteq Messages /\ restored \subseteq Messages /\ refused \subseteq Messages
    /\ unsure \subseteq Messages /\ lagged \in BOOLEAN

LEMMA TypeParts ==
    TypeOK <=> /\ ThreadType /\ LinkType /\ CallType /\ ListenerType /\ ServerType /\ DeskType
               /\ AuxType
BY DEF TypeOK, ThreadType, LinkType, CallType, ListenerType, ServerType, DeskType, AuxType,
       Stages, PendingType

LEMMA TypeJoin ==
    /\ ThreadType' /\ LinkType' /\ CallType' /\ ListenerType' /\ ServerType' /\ DeskType'
    /\ AuxType'
    => TypeOK'
BY DEF TypeOK, ThreadType, LinkType, CallType, ListenerType, ServerType, DeskType, AuxType,
       Stages, PendingType

LEMMA PartsKept ==
    ASSUME TypeOK
    PROVE  /\ UNCHANGED threadVars => ThreadType'
           /\ UNCHANGED <<ipc, authority, hasIpc, failed, link, unread, faults>> => LinkType'
           /\ UNCHANGED <<callVars, pending>> => CallType'
           /\ UNCHANGED listenerVars => ListenerType'
           /\ UNCHANGED serverVars => ServerType'
           /\ UNCHANGED deskVars => DeskType'
           /\ UNCHANGED auxVars => AuxType'
BY TypeParts DEF ThreadType, LinkType, CallType, ListenerType, ServerType, DeskType, AuxType,
       threadVars, callVars, listenerVars, serverVars, deskVars, auxVars

LEMMA InitType == Init => TypeOK
<1>. SUFFICES ASSUME Init PROVE TypeOK
    OBVIOUS
<1>1. CallType
    BY NothingFields DEF Init, Stages, PendingType, CallType
<1>2. <<>> \in Seq(Draft) /\ <<>> \in Seq(Event) /\ <<>> \in Seq(Seq(Draft))
    OBVIOUS
<1>3. ThreadType /\ DeskType /\ ListenerType /\ AuxType
    BY <1>2 DEF Init, ThreadType, DeskType, ListenerType, AuxType
<1>4. 0 \in 0..OtherTurns /\ 0 \in 0..Faults /\ 0 \in 0..0
    BY BoundsAssumption
<1>5. LinkType
    BY <1>4 DEF Init, LinkType
<1>6. ServerType
    BY <1>2, <1>4 DEF Init, ServerType
<1>. QED
    BY <1>1, <1>3, <1>5, <1>6, TypeParts

(* The link and the entry's transport.                                     *)
LEMMA LinkHolds ==
    ASSUME TypeOK
    PROVE  /\ Fault => faults' \in 0..Faults
           /\ FailOver => authority' \in {"primary", "recovering", "direct"}
                          /\ failed' \in BOOLEAN /\ hasIpc' \in BOOLEAN
           /\ DropLink => link' \in BOOLEAN /\ unread' \in BOOLEAN /\ ipc' \in BOOLEAN /\ DeskType'
           /\ \A v \in BOOLEAN : UpdateIpc(v) =>
                /\ authority' \in {"primary", "recovering", "direct"}
                /\ failed' \in BOOLEAN /\ hasIpc' \in BOOLEAN /\ pending' = pending
<1>1. Fault => faults' \in 0..Faults
    BY BoundsAssumption DEF Fault, TypeOK
<1>2. FailOver => authority' \in {"primary", "recovering", "direct"}
                  /\ failed' \in BOOLEAN /\ hasIpc' \in BOOLEAN
    BY DEF FailOver
<1>3. DropLink => link' \in BOOLEAN /\ unread' \in BOOLEAN /\ ipc' \in BOOLEAN /\ DeskType'
    <2>1. <<>> \in Seq(Seq(Draft))
        OBVIOUS
    <2>2. DropLink => DeskType'
        BY <2>1 DEF DropLink, TypeOK, DeskType
    <2>3. DropLink => link' \in BOOLEAN /\ unread' \in BOOLEAN /\ ipc' \in BOOLEAN
        BY DEF DropLink, TypeOK
    <2>. QED
        BY <2>2, <2>3
<1>4. ASSUME NEW v \in BOOLEAN, UpdateIpc(v)
      PROVE  /\ authority' \in {"primary", "recovering", "direct"}
             /\ failed' \in BOOLEAN /\ hasIpc' \in BOOLEAN /\ pending' = pending
    BY <1>4 DEF UpdateIpc, TypeOK
<1>. QED
    BY <1>1, <1>2, <1>3, <1>4

LEMMA ListenerEventType ==
    ASSUME TypeOK, InTurn, ApplyEvent
    PROVE  TypeOK'
<1>1. /\ UNCHANGED <<ipc, authority, hasIpc, failed, link, unread, faults>>
      /\ UNCHANGED <<callVars, pending>> /\ UNCHANGED deskVars /\ UNCHANGED auxVars
    BY DEF ApplyEvent, entryVars, linkVars
<1>2. /\ events \in Seq(Event) /\ events # <<>> /\ events' = Tail(events)
      /\ Head(events) \in Event /\ Tail(events) \in Seq(Event)
    BY TailEvent DEF ApplyEvent, TypeOK
<1>3. ServerType'
    BY <1>2 DEF ServerType, ApplyEvent, TypeOK
<1>4. PICK e \in Event : e = Head(events)
    BY <1>2
<1>5. \/ e[1] = "started" /\ ApplyStarted(e[2])
      \/ e[1] = "item" /\ ApplyItem(e[2])
      \/ e[1] = "completed" /\ ApplyCompleted
    BY <1>4 DEF ApplyEvent
<1>6. drafts \in Seq(Draft) /\ WithoutFirst(drafts) \in Seq(Draft) /\ Unsteered(drafts) \in Seq(Draft)
    BY TailHolds, UnsteeredHolds DEF TypeOK
<1>7. CASE e[1] = "started" /\ ApplyStarted(e[2])
    <2>1. ThreadType'
        BY <1>6, <1>7, EventFields DEF ThreadType, ApplyStarted, TypeOK
    <2>2. ListenerType'
        BY <1>7, PartsKept DEF ApplyStarted
    <2>. QED
        BY <1>1, <1>3, <2>1, <2>2, PartsKept, TypeJoin
<1>8. CASE e[1] = "item" /\ ApplyItem(e[2])
    <2>1. ThreadType'
        BY <1>6, <1>8, EventFields DEF ThreadType, ApplyItem, TypeOK
    <2>2. ListenerType'
        BY <1>8, PartsKept DEF ApplyItem
    <2>. QED
        BY <1>1, <1>3, <2>1, <2>2, PartsKept, TypeJoin
<1>9. CASE e[1] = "completed" /\ ApplyCompleted
    <2>1. ThreadType'
        BY <1>6, <1>9 DEF ThreadType, ApplyCompleted, TypeOK
    <2>2. drafts' # <<>> => Head(drafts').msg \in Messages
        <3>1. drafts' \in Seq(Draft)
            BY <1>6, <1>9 DEF ApplyCompleted
        <3>2. drafts' # <<>> => 1 \in DOMAIN drafts' /\ Head(drafts') = drafts'[1]
            BY <3>1
        <3>. QED
            BY <3>1, <3>2, ListFields
    <2>3. ListenerType'
        BY <1>9, <2>2 DEF ApplyCompleted, ListenerType
    <2>. QED
        BY <1>1, <1>3, <2>1, <2>3, PartsKept, TypeJoin
<1>. QED
    BY <1>5, <1>7, <1>8, <1>9

LEMMA BeginType ==
    ASSUME TypeOK, NEW c \in Calls, Begin(c)
    PROVE  TypeOK'
<1>1. Live \in BOOLEAN
    BY DEF Live, TypeOK
<1>2. PICK b \in BOOLEAN : b = Live
    BY <1>1
<1>3. [active |-> active, drafts |-> drafts, live |-> b] \in Seen
    BY DEF Seen, TypeOK
<1>4. CallType'
    BY <1>2, <1>3 DEF Begin, CallType, TypeOK, Stages, PendingType, entryVars
<1>. QED
    BY <1>4, PartsKept, TypeJoin DEF Begin, entryVars, linkVars

LEMMA DispatchType ==
    ASSUME TypeOK, NEW c \in Calls, Dispatch(c)
    PROVE  TypeOK'
<1>1. Msg(c) \in Messages /\ NextDrafts(c) \in Seq(Draft) /\ Msgs(NextDrafts(c)) \subseteq Messages
    BY CallFields, SeenFields, NextHolds, MsgsHold
<1>2. PICK d \in Draft : d = [msg |-> Msg(c), kind |-> "message"]
    BY <1>1, DraftFields
<1>3. Append(drafts, d) \in Seq(Draft)
    BY DEF TypeOK
<1>4. /\ UNCHANGED <<ipc, authority, hasIpc, failed, link, unread, faults>>
      /\ UNCHANGED listenerVars /\ UNCHANGED serverVars /\ UNCHANGED deskVars
      /\ UNCHANGED <<active, items, late, strays, refused, unsure, lagged>>
    BY DEF Dispatch, linkVars
<1>5. overlays' \subseteq Messages
    BY <1>1 DEF Dispatch, TypeOK
<1>6. pending \in PendingType /\ drafts \in Seq(Draft) /\ restored \subseteq Messages
    BY DEF TypeOK, PendingType
<1>7. /\ call' \in [Calls -> Stages] /\ seen' \in [Calls -> Seen]
      /\ pending' \in PendingType /\ drafts' \in Seq(Draft)
      /\ shared' \subseteq Messages /\ restored' \subseteq Messages
    <2>1. CASE seen[c].live
        <3>1. Become(c, "ipc") /\ pending' = <<c, Waits(c)>> /\ UNCHANGED restored
              /\ shared' = shared \cup Msgs(NextDrafts(c)) \cup {Msg(c)}
              /\ drafts' \in {drafts, Append(drafts, d)}
            BY <1>2, <2>1 DEF Dispatch
        <3>. QED
            BY <1>1, <1>3, <1>6, <3>1, BecomeHolds, PendingCall DEF TypeOK, Stages
    <2>2. CASE ~seen[c].live /\ Waits(c)
        <3>1. Become(c, "done") /\ UNCHANGED <<pending, restored, shared>>
              /\ drafts' = Append(drafts, d)
            BY <1>2, <2>2 DEF Dispatch
        <3>. QED
            BY <1>3, <1>6, <3>1, BecomeHolds DEF TypeOK, Stages
    <2>3. CASE ~seen[c].live /\ ~Waits(c)
        <3>1. GoDirect(c, pending) /\ UNCHANGED shared
            BY <2>3 DEF Dispatch
        <3>. QED
            BY <1>6, <3>1, DirectHolds DEF TypeOK
    <2>. QED
        BY <2>1, <2>2, <2>3
<1>8. ThreadType' /\ CallType' /\ AuxType'
    BY <1>4, <1>5, <1>7 DEF ThreadType, CallType, AuxType, TypeOK
<1>. QED
    BY <1>4, <1>8, PartsKept, TypeJoin

LEMMA IpcEndType ==
    ASSUME TypeOK, NEW c \in Calls,
           IpcTimeout(c) \/ IpcGone(c) \/ IpcAbsent(c)
    PROVE  TypeOK'
<1>1. \E p \in PendingType : GoDirect(c, p)
    <2>1. pending \in PendingType /\ None \in PendingType
        BY DEF TypeOK, PendingType
    <2>. QED
        BY <2>1 DEF IpcTimeout, IpcGone, IpcAbsent
<1>2. /\ call' \in [Calls -> Stages] /\ seen' \in [Calls -> Seen]
      /\ pending' \in PendingType /\ drafts' \in Seq(Draft) /\ restored' \subseteq Messages
    BY <1>1, DirectHolds
<1>3. UNCHANGED <<active, items, overlays, strays, shared, refused, unsure, lagged>>
      /\ UNCHANGED listenerVars /\ UNCHANGED serverVars
    BY DEF IpcTimeout, IpcGone, IpcAbsent
<1>4. late' \subseteq Command
    <2>1. IpcCommand(c) \in Command /\ late \subseteq Command
        BY CommandFields DEF TypeOK
    <2>2. late' = late \/ late' = late \cup {IpcCommand(c)}
        BY DEF IpcTimeout, IpcGone, IpcAbsent
    <2>. QED
        BY <2>1, <2>2
<1>5. LinkType' /\ DeskType'
    <2>1. CASE IpcGone(c)
        <3>1. faults' \in 0..Faults
            BY <2>1, LinkHolds DEF IpcGone, TypeOK
        <3>. QED
            BY <2>1, <3>1, LinkHolds DEF IpcGone, LinkType
    <2>2. CASE IpcTimeout(c)
        <3>1. faults' \in 0..Faults
            BY <2>2, LinkHolds DEF IpcTimeout
        <3>. QED
            BY <2>2, <3>1, PartsKept, TypeParts DEF IpcTimeout, LinkType, linkVars
    <2>3. CASE IpcAbsent(c)
        BY <2>3, PartsKept DEF IpcAbsent, linkVars
    <2>. QED
        BY <2>1, <2>2, <2>3
<1>6. ThreadType' /\ CallType' /\ AuxType'
    BY <1>2, <1>3, <1>4 DEF ThreadType, CallType, AuxType, TypeOK
<1>. QED
    BY <1>3, <1>5, <1>6, PartsKept, TypeJoin

LEMMA IpcOkType ==
    ASSUME TypeOK, NEW c \in Calls, IpcOk(c)
    PROVE  TypeOK'
<1>1. /\ UNCHANGED <<ipc, authority, hasIpc, failed, link, unread, faults>>
      /\ UNCHANGED listenerVars /\ UNCHANGED serverVars /\ UNCHANGED deskVars
      /\ UNCHANGED <<active, items, overlays, late, strays, shared, refused, unsure, lagged>>
    BY DEF IpcOk, linkVars
<1>2. call' \in [Calls -> Stages] /\ seen' \in [Calls -> Seen]
    BY BecomeHolds DEF IpcOk, Stages
<1>3. pending' \in PendingType
    BY DEF IpcOk, Finished, TypeOK, PendingType
<1>4. drafts' \in Seq(Draft) /\ restored' \subseteq Messages
    BY WriteBackHolds DEF IpcOk, TypeOK
<1>5. ThreadType' /\ CallType' /\ AuxType'
    BY <1>1, <1>2, <1>3, <1>4 DEF ThreadType, CallType, AuxType, TypeOK
<1>. QED
    BY <1>1, <1>5, PartsKept, TypeJoin

(* The actions in which the server takes input.                            *)
LEMMA InputType ==
    ASSUME TypeOK, InTurn,
           \/ OtherTurn \/ DeskSends \/ DeskHearsLate \/ AutosendTaken \/ StrayTaken
           \/ \E c \in Calls : DeskHears(c) \/ ServerTakes(c)
    PROVE  TypeOK'
<1>1. CASE OtherTurn
    <2>1. ServerOk(events', turn', turns', active)
        BY <1>1, OtherTurnHolds DEF ServerMove
    <2>2. others' \in 0..OtherTurns
        BY <1>1, BoundsAssumption DEF OtherTurn, TypeOK
    <2>3. ServerType'
        BY <1>1, <2>1, <2>2 DEF ServerOk, ServerType, OtherTurn, TypeOK
    <2>. QED
        BY <1>1, <2>3, PartsKept, TypeJoin DEF OtherTurn, entryVars, linkVars
<1>2. CASE DeskSends
    <2>1. PICK d \in {desk[i] : i \in DOMAIN desk} : Run(d.msg) /\ desk' = Without(desk, d.msg)
        BY <1>2 DEF DeskSends
    <2>2. d.msg \in Messages
        BY <2>1, ListFields DEF TypeOK
    <2>3. ServerType'
        BY <2>1, <2>2, RunHolds DEF ServerMove, ServerOk, ServerType, TypeOK
    <2>4. desk' \in Seq(Draft)
        BY <2>1, WithoutHolds DEF TypeOK
    <2>5. DeskType'
        BY <1>2, <2>4 DEF DeskSends, DeskType, TypeOK
    <2>. QED
        BY <1>2, <2>3, <2>5, PartsKept, TypeJoin DEF DeskSends, entryVars, linkVars
<1>3. CASE DeskHearsLate
    <2>1. PICK command \in late : Hear(command) /\ late' = late \ {command}
        BY <1>3 DEF DeskHearsLate
    <2>2. ServerType' /\ DeskType'
        BY <2>1, HearHolds DEF ServerOk, ServerType, DeskType, TypeOK
    <2>3. CallType'
        BY <1>3, <2>1 DEF DeskHearsLate, CallType, TypeOK, Stages, PendingType, entryVars
    <2>. QED
        BY <1>3, <2>2, <2>3, PartsKept, TypeJoin DEF DeskHearsLate, entryVars, linkVars
<1>4. CASE AutosendTaken
    <2>1. sending \in Messages /\ Run(sending)
        BY <1>4 DEF AutosendTaken, TypeOK
    <2>2. ServerType'
        BY <2>1, RunHolds DEF ServerMove, ServerOk, ServerType, TypeOK
    <2>3. ListenerType'
        BY <1>4, <2>1 DEF AutosendTaken, ListenerType
    <2>. QED
        BY <1>4, <2>2, <2>3, PartsKept, TypeJoin DEF AutosendTaken, entryVars, linkVars
<1>5. ASSUME NEW c \in Calls, DeskHears(c)
      PROVE  TypeOK'
    <2>1. ServerType' /\ DeskType'
        BY <1>5, HearHolds, CommandFields DEF DeskHears, ServerOk, ServerType, DeskType, TypeOK
    <2>2. CallType'
        BY <1>5 DEF DeskHears, CallType, TypeOK, Stages, PendingType, entryVars
    <2>. QED
        BY <1>5, <2>1, <2>2, PartsKept, TypeJoin DEF DeskHears, entryVars, linkVars
<1>6. ASSUME NEW c \in Calls, ServerTakes(c)
      PROVE  TypeOK'
    <2>1. Run(Msg(c)) /\ Msg(c) \in Messages /\ Become(c, "taken")
        BY <1>6, CallFields DEF ServerTakes
    <2>2. ServerType'
        BY <2>1, RunHolds DEF ServerMove, ServerOk, ServerType, TypeOK
    <2>3. CallType'
        BY <1>6, <2>1, BecomeHolds DEF ServerTakes, CallType, TypeOK, Stages, PendingType, entryVars
    <2>. QED
        BY <1>6, <2>2, <2>3, PartsKept, TypeJoin DEF ServerTakes, entryVars, linkVars
<1>7. CASE StrayTaken
    <2>1. PICK s \in strays : Run(s[1]) /\ strays' = strays \ {s}
        BY <1>7 DEF StrayTaken
    <2>2. s[1] \in Messages
        BY <2>1 DEF TypeOK
    <2>3. ServerType'
        BY <2>1, <2>2, RunHolds DEF ServerMove, ServerOk, ServerType, TypeOK
    <2>4. CallType'
        BY <1>7, <2>1 DEF StrayTaken, CallType, TypeOK, Stages, PendingType, entryVars
    <2>. QED
        BY <1>7, <2>3, <2>4, PartsKept, TypeJoin DEF StrayTaken, entryVars, linkVars
<1>. QED
    BY <1>1, <1>2, <1>3, <1>4, <1>5, <1>6, <1>7

(* The actions of the link and the entry's transport.                      *)
LEMMA TransportType ==
    ASSUME TypeOK, LinkDown \/ LinkUp \/ ReadLink \/ PeerStatus \/ Reopen
    PROVE  TypeOK'
<1>1. /\ ThreadType' /\ ListenerType' /\ ServerType' /\ AuxType'
      /\ UNCHANGED callVars
    BY PartsKept DEF LinkDown, LinkUp, ReadLink, PeerStatus, Reopen
<1>2. DeskType'
    BY PartsKept, LinkHolds DEF LinkDown, LinkUp, ReadLink, PeerStatus, Reopen
<1>3. link \in BOOLEAN /\ pending' = pending
    BY LinkHolds DEF LinkDown, LinkUp, ReadLink, PeerStatus, Reopen, TypeOK, entryVars
<1>4. CallType'
    BY <1>1, <1>3, PartsKept
<1>5. LinkType'
    <2>1. CASE LinkDown
        BY <2>1, LinkHolds DEF LinkDown, LinkType, TypeOK, entryVars
    <2>2. CASE LinkUp
        BY <2>2 DEF LinkUp, LinkType, TypeOK, entryVars
    <2>3. CASE ReadLink
        BY <1>3, <2>3, LinkHolds DEF ReadLink, LinkType, TypeOK
    <2>4. CASE PeerStatus
        BY <2>4, LinkHolds DEF PeerStatus, LinkType, TypeOK, linkVars
    <2>5. CASE Reopen
        BY <2>5, LinkHolds DEF Reopen, LinkType, TypeOK
    <2>. QED
        BY <2>1, <2>2, <2>3, <2>4, <2>5
<1>. QED
    BY <1>1, <1>2, <1>4, <1>5, TypeJoin

(* A request in doubt.                                                     *)
LEMMA DoubtHolds ==
    ASSUME TypeOK, NEW m \in Messages, NEW of \in Nat, NEW has \in BOOLEAN,
           Doubted(m, of, has) \/ GivenUp(m, of, has)
    PROVE  /\ strays' \subseteq Messages \X Nat /\ AuxType'
           /\ UNCHANGED <<shared, restored, lagged>> /\ unsure \subseteq unsure'
           /\ \A s \in strays' : s \in strays \/ (s[1] = m /\ m \in unsure')
<1>1. CASE UNCHANGED <<strays, auxVars>>
    BY <1>1, PartsKept DEF auxVars, TypeOK
<1>2. CASE Doubted(m, of, has)
    <2>1. <<m, of>> \in Messages \X Nat /\ <<m, of>>[1] = m
        OBVIOUS
    <2>2. strays' = strays \/ strays' = strays \cup {<<m, of>>}
        BY <1>2 DEF Doubted
    <2>3. AuxType'
        BY <1>2 DEF Doubted, AuxType, TypeOK
    <2>4. UNCHANGED <<shared, restored, lagged>> /\ unsure' = unsure \cup {m}
        BY <1>2 DEF Doubted
    <2>. QED
        BY <2>1, <2>2, <2>3, <2>4 DEF TypeOK
<1>. QED
    BY <1>1, <1>2 DEF GivenUp

(* Where a request comes into doubt.                                       *)
LEMMA Doubts ==
    ASSUME TypeOK, NEW c \in Calls, Resend(c) \/ DirectFails(c)
    PROVE  \E of \in Nat, has \in BOOLEAN : Doubted(Msg(c), of, has) \/ GivenUp(Msg(c), of, has)
<1>1. seen[c].active \in Nat /\ (call[c] = "taken") \in BOOLEAN
    BY SeenFields
<1>. QED
    BY <1>1 DEF Resend, DirectFails

LEMMA AutosendDoubts ==
    ASSUME TypeOK, AutosendResent \/ AutosendEnds
    PROVE  /\ sending \in Messages
           /\ \E of \in Nat, has \in BOOLEAN : Doubted(sending, of, has) \/ GivenUp(sending, of, has)
<1>1. sending \in Messages /\ 0 \in Nat /\ taken \in BOOLEAN
    BY DEF AutosendResent, AutosendEnds, TypeOK
<1>2. CASE AutosendResent
    BY <1>1, <1>2 DEF AutosendResent
<1>3. CASE AutosendEnds
    <2>1. UNCHANGED <<strays, auxVars>> \/ GivenUp(sending, 0, taken)
        BY <1>3 DEF AutosendEnds
    <2>2. UNCHANGED <<strays, auxVars>> => GivenUp(sending, 0, taken)
        BY DEF GivenUp
    <2>. QED
        BY <1>1, <2>1, <2>2
<1>. QED
    BY <1>2, <1>3

LEMMA ResendType ==
    ASSUME TypeOK, NEW c \in Calls, Resend(c)
    PROVE  TypeOK'
<1>1. Msg(c) \in Messages /\ Become(c, "direct")
    BY CallFields DEF Resend
<1>2. strays' \subseteq Messages \X Nat /\ AuxType'
    BY <1>1, Doubts, DoubtHolds
<1>3. CallType'
    BY <1>1, <1>2, BecomeHolds DEF Resend, CallType, TypeOK, Stages, PendingType, entryVars
<1>4. faults' \in 0..Faults
    BY LinkHolds DEF Resend
<1>5. LinkType'
    BY <1>4 DEF Resend, LinkType, TypeOK, entryVars, linkVars
<1>. QED
    BY <1>2, <1>3, <1>5, PartsKept, TypeJoin DEF Resend

(* The other ends of a call.                                               *)
LEMMA CallEndType ==
    ASSUME TypeOK, NEW c \in Calls,
           IpcRefused(c) \/ DirectOk(c) \/ SteerRejected(c) \/ DirectFails(c)
    PROVE  TypeOK'
<1>1. Become(c, "done")
    BY DEF IpcRefused, DirectOk, SteerRejected, DirectFails
<1>2. call' \in [Calls -> Stages] /\ seen' \in [Calls -> Seen]
    BY <1>1, BecomeHolds DEF Stages
<1>3. pending' \in PendingType /\ late' = late
    BY DEF IpcRefused, DirectOk, SteerRejected, DirectFails, entryVars, Finished, TypeOK,
           PendingType
<1>7. Msg(c) \in Messages
    BY CallFields
<1>8. strays' \subseteq Messages \X Nat /\ AuxType'
    <2>1. CASE DirectFails(c)
        BY <1>7, <2>1, Doubts, DoubtHolds
    <2>2. CASE IpcRefused(c) \/ DirectOk(c) \/ SteerRejected(c)
        BY <1>7, <2>2 DEF IpcRefused, DirectOk, SteerRejected, AuxType, auxVars, TypeOK
    <2>. QED
        BY <2>1, <2>2
<1>4. CallType'
    BY <1>2, <1>3, <1>8 DEF CallType, TypeOK
<1>5. ListenerType' /\ ServerType' /\ DeskType'
    BY PartsKept DEF IpcRefused, DirectOk, SteerRejected, DirectFails
<1>6. ThreadType'
    BY DEF IpcRefused, DirectOk, SteerRejected, DirectFails, ThreadType, threadVars, TypeOK
<1>9. LinkType'
    <2>1. UNCHANGED faults \/ Fault
        BY DEF IpcRefused, DirectOk, SteerRejected, DirectFails
    <2>2. faults' \in 0..Faults
        BY <2>1, LinkHolds DEF TypeOK
    <2>3. UNCHANGED linkVars /\ (FailOver \/ UNCHANGED <<authority, hasIpc, failed>>)
        BY DEF IpcRefused, DirectOk, SteerRejected, DirectFails, entryVars
    <2>. QED
        BY <2>2, <2>3, LinkHolds DEF LinkType, TypeOK, linkVars
<1>. QED
    BY <1>4, <1>5, <1>6, <1>8, <1>9, TypeJoin

(* What is left when the channel lags was on its way.                      *)
LEMMA LagHolds ==
    ASSUME TypeOK, Lag
    PROVE  /\ events' \in Seq(Event) /\ lagged'
           /\ \A M : EventsSent(events, M) => EventsSent(events', M)
<1>1. events \in Seq(Event) /\ lagged'
    BY DEF Lag, TypeOK
<1>2. PICK n \in 1..Len(events) : events' = SubSeq(events, n + 1, Len(events))
    BY DEF Lag
<1>3. PICK r : r = SubSeq(events, n + 1, Len(events))
    OBVIOUS
<1>4. /\ r \in Seq(Event)
      /\ \A i \in DOMAIN r : i + n \in DOMAIN events /\ r[i] = events[i + n]
    BY <1>1, <1>3
<1>5. \A M : EventsSent(events, M) => EventsSent(r, M)
    BY <1>4 DEF EventsSent
<1>. QED
    BY <1>1, <1>2, <1>3, <1>4, <1>5

LEMMA NextType ==
    ASSUME TypeOK, InTurn, Next
    PROVE  TypeOK'
<1>1. CASE TurnEnds
    <2>1. Append(events, <<"completed", turn>>) \in Seq(Event)
        <3>1. turn \in Nat /\ events \in Seq(Event)
            BY DEF TypeOK
        <3>2. PICK e \in Event : e = <<"completed", turn>>
            BY <3>1, EventKinds
        <3>3. Append(events, e) \in Seq(Event)
            BY <3>1
        <3>. QED
            BY <3>2, <3>3
    <2>2. ServerType'
        BY <1>1, <2>1 DEF TurnEnds, ServerType, TypeOK
    <2>. QED
        BY <1>1, <2>2, PartsKept, TypeJoin DEF TurnEnds, entryVars, linkVars
<1>2. CASE CastArrives
    <2>1. casts \in Seq(Seq(Draft)) /\ casts # <<>>
        BY <1>2 DEF CastArrives, TypeOK
    <2>2. Head(casts) \in Seq(Draft) /\ Tail(casts) \in Seq(Seq(Draft))
        BY <2>1
    <2>3. ThreadType' /\ DeskType'
        BY <1>2, <2>2 DEF CastArrives, ThreadType, DeskType, TypeOK
    <2>. QED
        BY <1>2, <2>3, PartsKept, TypeJoin DEF CastArrives, entryVars, linkVars
<1>3. CASE AutosendResent \/ AutosendEnds
    <2>1. LinkType'
        <3>1. faults' \in 0..Faults
            BY <1>3, LinkHolds DEF AutosendResent, AutosendEnds, TypeOK
        <3>. QED
            BY <1>3, <3>1 DEF AutosendResent, AutosendEnds, LinkType, TypeOK, entryVars, linkVars
    <2>2. ListenerType'
        BY <1>3 DEF AutosendResent, AutosendEnds, ListenerType, TypeOK
    <2>3. strays' \subseteq Messages \X Nat /\ AuxType'
        BY <1>3, AutosendDoubts, DoubtHolds
    <2>4. CallType'
        BY <1>3, <2>3 DEF AutosendResent, AutosendEnds, CallType, TypeOK, Stages, PendingType,
                          entryVars
    <2>. QED
        BY <1>3, <2>1, <2>2, <2>3, <2>4, PartsKept, TypeJoin DEF AutosendResent, AutosendEnds
<1>4. CASE Lag
    <2>1. ServerType'
        BY <1>4, LagHolds DEF Lag, ServerType, TypeOK
    <2>2. LinkType'
        <3>1. faults' \in 0..Faults
            BY <1>4, LinkHolds DEF Lag
        <3>. QED
            BY <1>4, <3>1 DEF Lag, LinkType, TypeOK, entryVars, linkVars
    <2>3. AuxType'
        BY <1>4 DEF Lag, AuxType, TypeOK
    <2>. QED
        BY <1>4, <2>1, <2>2, <2>3, PartsKept, TypeJoin DEF Lag, entryVars
<1>. QED
    BY <1>1, <1>2, <1>3, <1>4, InputType, TransportType, CallEndType, ResendType, IpcOkType,
       IpcEndType, DispatchType, BeginType, ListenerEventType DEF Next, CallStep, ServerStep

--------------------------------------------------------------------------------
(***************************************************************************)
(* How the server's events and the calls go on.                            *)
(***************************************************************************)

LEMMA ServerMoves ==
    ASSUME TypeOK, InTurn, Next
    PROVE  \/ UNCHANGED <<events, turn, turns, active>>
           \/ active' = active /\ \E m \in Messages \cup {None} : ServerMove(m)
           \/ TurnEnds
           \/ ApplyEvent
           \/ Lag
<1>1. CASE OtherTurn
    BY <1>1, OtherTurnHolds DEF OtherTurn, threadVars
<1>2. CASE DeskSends
    <2>1. PICK d \in {desk[i] : i \in DOMAIN desk} : Run(d.msg)
        BY <1>2 DEF DeskSends
    <2>2. d.msg \in Messages
        BY <2>1, ListFields DEF TypeOK
    <2>. QED
        BY <1>2, <2>1, <2>2, RunHolds DEF DeskSends, threadVars
<1>3. ASSUME NEW command \in Command, Hear(command), active' = active
      PROVE  \/ UNCHANGED <<events, turn, turns, active>>
             \/ active' = active /\ \E m \in Messages \cup {None} : ServerMove(m)
    BY <1>3, RunHolds DEF Hear, serverVars, Command
<1>4. CASE DeskHearsLate
    <2>1. active' = active /\ \E command \in Command : Hear(command)
        BY <1>4 DEF DeskHearsLate, TypeOK, threadVars
    <2>. QED
        BY <1>3, <2>1
<1>5. ASSUME NEW c \in Calls, DeskHears(c)
      PROVE  \/ UNCHANGED <<events, turn, turns, active>>
             \/ active' = active /\ \E m \in Messages \cup {None} : ServerMove(m)
    <2>1. active' = active /\ \E command \in Command : Hear(command)
        BY <1>5, CommandFields DEF DeskHears, threadVars
    <2>. QED
        BY <1>3, <2>1
<1>6. CASE AutosendTaken
    BY <1>6, RunHolds DEF AutosendTaken, TypeOK, threadVars
<1>7. ASSUME NEW c \in Calls, ServerTakes(c)
      PROVE  active' = active /\ \E m \in Messages \cup {None} : ServerMove(m)
    BY <1>7, RunHolds, CallFields DEF ServerTakes, threadVars
<1>10. CASE StrayTaken
    BY <1>10, RunHolds DEF StrayTaken, TypeOK, threadVars
<1>8. LinkDown \/ LinkUp \/ ReadLink \/ PeerStatus \/ Reopen \/ CastArrives \/ AutosendEnds
      \/ AutosendResent => UNCHANGED <<events, turn, turns, active>>
    BY DEF LinkDown, LinkUp, ReadLink, PeerStatus, Reopen, CastArrives, AutosendEnds,
           AutosendResent, threadVars, serverVars
<1>9. ASSUME NEW c \in Calls,
             \/ Begin(c) \/ Dispatch(c) \/ IpcOk(c) \/ IpcGone(c) \/ IpcAbsent(c) \/ DirectOk(c)
             \/ SteerRejected(c) \/ IpcTimeout(c) \/ IpcRefused(c) \/ DirectFails(c) \/ Resend(c)
      PROVE  UNCHANGED <<events, turn, turns, active>>
    BY <1>9 DEF Begin, Dispatch, IpcOk, IpcGone, IpcAbsent, DirectOk, SteerRejected, IpcTimeout,
           IpcRefused, DirectFails, Resend, threadVars, serverVars
<1>. QED
    BY <1>1, <1>2, <1>4, <1>5, <1>6, <1>7, <1>8, <1>9, <1>10 DEF Next, CallStep, ServerStep

(* Once it has lagged it has lagged.                                       *)
LEMMA LagStays ==
    ASSUME TypeOK, Next, lagged
    PROVE  lagged'
<1>1. LinkDown \/ LinkUp \/ ReadLink \/ PeerStatus \/ Reopen \/ CastArrives \/ OtherTurn
      \/ TurnEnds \/ DeskSends \/ DeskHearsLate \/ ApplyEvent \/ AutosendTaken \/ StrayTaken
      => UNCHANGED lagged
    BY DEF LinkDown, LinkUp, ReadLink, PeerStatus, Reopen, CastArrives, OtherTurn, TurnEnds,
           DeskSends, DeskHearsLate, ApplyEvent, AutosendTaken, StrayTaken, auxVars
<1>2. ASSUME NEW c \in Calls,
             \/ Begin(c) \/ DeskHears(c) \/ Dispatch(c) \/ IpcOk(c) \/ IpcGone(c) \/ IpcAbsent(c)
             \/ ServerTakes(c) \/ DirectOk(c) \/ SteerRejected(c) \/ IpcTimeout(c) \/ IpcRefused(c)
      PROVE  UNCHANGED lagged
    BY <1>2 DEF Begin, DeskHears, Dispatch, IpcOk, IpcGone, IpcAbsent, ServerTakes, DirectOk,
           SteerRejected, IpcTimeout, IpcRefused, auxVars
<1>3. ASSUME NEW c \in Calls, Resend(c) \/ DirectFails(c)
      PROVE  UNCHANGED lagged
    BY <1>3, Doubts, DoubtHolds, CallFields
<1>4. AutosendResent \/ AutosendEnds => UNCHANGED lagged
    BY AutosendDoubts, DoubtHolds
<1>5. Lag => lagged'
    BY DEF Lag
<1>. QED
    BY <1>1, <1>2, <1>3, <1>4, <1>5 DEF Next, CallStep, ServerStep

LEMMA NextOrder ==
    ASSUME TypeOK, InTurn, Next
    PROVE  InTurn'
<1>6. SUFFICES ASSUME ~lagged'
               PROVE  EventsInOrder(events, active, turn, turns)'
    BY DEF InTurn
<1>7. ~lagged /\ ~Lag /\ EventsInOrder(events, active, turn, turns)
    BY <1>6, LagStays, LagHolds DEF InTurn
<1>1. CASE UNCHANGED <<events, turn, turns, active>>
    BY <1>1, <1>7 DEF EventsInOrder, Starts, Ends
<1>2. CASE active' = active /\ \E m \in Messages \cup {None} : ServerMove(m)
    BY <1>2, <1>7 DEF ServerMove, ServerOk
<1>3. CASE TurnEnds
    <2>1. EventsInOrder(Append(events, <<"completed", turn>>), active, 0, turns)
        BY <1>3, <1>7, EndOrder DEF TurnEnds, TypeOK
    <2>. QED
        BY <1>3, <2>1 DEF TurnEnds, threadVars
<1>4. CASE ApplyEvent
    <2>1. /\ events # <<>> /\ events' = Tail(events) /\ turn' = turn /\ turns' = turns
          /\ \/ Head(events)[1] = "started" /\ active' = Head(events)[2]
             \/ Head(events)[1] = "item" /\ active' = active
             \/ Head(events)[1] = "completed" /\ active' = 0
        BY <1>4 DEF ApplyEvent, ApplyStarted, ApplyItem, ApplyCompleted
    <2>2. events \in Seq(Event) /\ active \in Nat /\ turn \in Nat /\ turns \in Nat
        BY DEF TypeOK
    <2>. QED
        BY <1>7, <2>1, <2>2, TakeOrder
<1>. QED
    BY <1>1, <1>2, <1>3, <1>4, <1>7, ServerMoves

(* A call begins, goes on or stays as it is.                               *)
LEMMA CallMoves ==
    ASSUME TypeOK, Next, NEW c \in Calls
    PROVE  \/ call'[c] = call[c] /\ seen'[c] = seen[c]
           \/ Begin(c)
           \/ /\ call[c] # "idle"
              /\ call'[c] \in {"ipc", "heard", "direct", "taken", "done"}
              /\ seen'[c] = seen[c] \/ (seen'[c] = Nothing /\ call'[c] = "done")
<1>1. CASE UNCHANGED <<call, seen>>
    BY <1>1
<1>2. ASSUME NEW d \in Calls, NEW q \in {"ipc", "direct", "taken", "done"}, Become(d, q),
             call[d] # "idle"
      PROVE  \/ call'[c] = call[c] /\ seen'[c] = seen[c]
             \/ /\ call[c] # "idle"
                /\ call'[c] \in {"ipc", "heard", "direct", "taken", "done"}
                /\ seen'[c] = seen[c] \/ (seen'[c] = Nothing /\ call'[c] = "done")
    <2>1. q \in Stages
        BY DEF Stages
    <2>2. call' = [call EXCEPT ![d] = q] /\ call \in [Calls -> Stages]
          /\ (seen'[c] = seen[c] \/ (d = c /\ seen'[c] = Nothing /\ q = "done"))
        BY <1>2, <2>1, BecomeHolds DEF TypeOK, Stages
    <2>. QED
        BY <1>2, <2>2
<1>3. ASSUME NEW d \in Calls,
             \/ Dispatch(d) \/ IpcOk(d) \/ IpcGone(d) \/ IpcAbsent(d) \/ ServerTakes(d)
             \/ DirectOk(d) \/ SteerRejected(d) \/ IpcTimeout(d) \/ IpcRefused(d) \/ DirectFails(d)
             \/ Resend(d)
      PROVE  call[d] # "idle" /\ \E q \in {"ipc", "direct", "taken", "done"} : Become(d, q)
    <2>1. CASE Dispatch(d)
        BY <2>1 DEF Dispatch, GoDirect
    <2>2. CASE IpcOk(d) \/ DirectOk(d) \/ SteerRejected(d) \/ IpcRefused(d) \/ DirectFails(d)
               \/ ServerTakes(d) \/ Resend(d)
        BY <2>2 DEF IpcOk, DirectOk, SteerRejected, IpcRefused, DirectFails, ServerTakes, Resend
    <2>3. CASE IpcGone(d) \/ IpcAbsent(d) \/ IpcTimeout(d)
        BY <2>3 DEF IpcGone, IpcAbsent, IpcTimeout, GoDirect
    <2>. QED
        BY <1>3, <2>1, <2>2, <2>3
<1>4. ASSUME NEW d \in Calls, DeskHears(d)
      PROVE  \/ call'[c] = call[c] /\ seen'[c] = seen[c]
             \/ /\ call[c] # "idle"
                /\ call'[c] \in {"ipc", "heard", "direct", "taken", "done"}
                /\ seen'[c] = seen[c] \/ (seen'[c] = Nothing /\ call'[c] = "done")
    BY <1>4 DEF DeskHears, TypeOK
<1>5. ASSUME NEW d \in Calls, Begin(d)
      PROVE  Begin(c) \/ (call'[c] = call[c] /\ seen'[c] = seen[c])
    BY <1>5 DEF Begin, TypeOK
<1>6. OtherTurn \/ TurnEnds \/ DeskSends \/ DeskHearsLate \/ LinkDown \/ LinkUp \/ ReadLink
      \/ PeerStatus \/ Reopen \/ CastArrives \/ ApplyEvent \/ AutosendTaken \/ AutosendEnds
      \/ Lag \/ AutosendResent \/ StrayTaken
      => UNCHANGED <<call, seen>>
    BY DEF OtherTurn, TurnEnds, DeskSends, DeskHearsLate, LinkDown, LinkUp, ReadLink, PeerStatus,
           Reopen, CastArrives, ApplyEvent, AutosendTaken, AutosendEnds, Lag, AutosendResent,
           StrayTaken, callVars
<1>. QED
    BY <1>1, <1>2, <1>3, <1>4, <1>5, <1>6 DEF Next, CallStep, ServerStep

(* What a call reads at its beginning.                                     *)
LEMMA BeginReads ==
    ASSUME TypeOK, NEW c \in Calls, Begin(c)
    PROVE  /\ call[c] = "idle" /\ call'[c] = "read"
           /\ seen'[c].active = active /\ seen'[c].drafts = drafts
           /\ UNCHANGED <<threadVars, listenerVars, serverVars, deskVars, auxVars, late>>
           /\ Kind(c) # "send" => Msg(c) \in Msgs(drafts)
           /\ \A d \in Calls \ {c} : call'[d] = call[d] /\ seen'[d] = seen[d]
<1>1. seen \in [Calls -> Seen] /\ call \in [Calls -> Stages]
    BY DEF TypeOK, Stages
<1>2. seen'[c] = [active |-> active, drafts |-> drafts, live |-> Live]
      /\ \A d \in Calls \ {c} : call'[d] = call[d] /\ seen'[d] = seen[d]
    BY <1>1 DEF Begin
<1>3. seen'[c].active = active /\ seen'[c].drafts = drafts
    BY <1>2
<1>4. call'[c] = "read"
    BY <1>1 DEF Begin
<1>. QED
    BY <1>2, <1>3, <1>4 DEF Begin

(* What has dispatched has dispatched.                                     *)
LEMMA SentStays ==
    ASSUME TypeOK, Next
    PROVE  Sent \subseteq Sent'
<1>1. \A c \in Calls : call[c] \notin {"idle", "read"} => call'[c] \notin {"idle", "read"}
    BY CallMoves, BeginReads
<1>. QED
    BY <1>1 DEF Sent

LEMMA NextReadTurn ==
    ASSUME TypeOK, InTurn, ReadTurn, ~lagged', Next
    PROVE  ReadTurn'
<1>1. SUFFICES ASSUME NEW c \in Calls
               PROVE  /\ seen'[c].active <= turns'
                      /\ seen'[c].active # 0 /\ seen'[c].active = turn' => active' = turn'
    BY DEF ReadTurn
<1>11. ~lagged /\ ~Lag /\ EventsInOrder(events, active, turn, turns)
    BY LagStays, LagHolds DEF InTurn
<1>2. /\ seen[c].active \in Nat /\ seen[c].active <= turns
      /\ seen[c].active # 0 /\ seen[c].active = turn => active = turn
      /\ active \in Nat /\ turn \in Nat /\ turns \in Nat /\ active <= turns
    BY <1>11, SeenFields DEF ReadTurn, EventsInOrder, TypeOK
<1>3. CASE Begin(c)
    BY <1>2, <1>3, BeginReads DEF serverVars, threadVars
<1>4. PICK a \in {0, seen[c].active} : ~Begin(c) => seen'[c].active = a
    BY CallMoves, NothingFields
<1>5. a \in Nat /\ a <= turns /\ (a # 0 /\ a = turn => active = turn)
    BY <1>2
<1>6. SUFFICES a <= turns' /\ (a # 0 /\ a = turn' => active' = turn')
    BY <1>3, <1>4
<1>7. CASE UNCHANGED <<events, turn, turns, active>>
    BY <1>5, <1>7
<1>8. CASE active' = active /\ \E m \in Messages \cup {None} : ServerMove(m)
    <2>1. turns' \in Nat /\ turns <= turns' /\ (turn' = turn \/ turn' = turns + 1)
        BY <1>8 DEF ServerMove, ServerOk
    <2>2. a <= turns' /\ a # turns + 1
        BY <1>2, <1>5, <2>1
    <2>. QED
        BY <1>5, <1>8, <2>1, <2>2
<1>9. CASE TurnEnds
    BY <1>5, <1>9 DEF TurnEnds
<1>10. CASE ApplyEvent
    <2>1. /\ events # <<>> /\ turn' = turn /\ turns' = turns
          /\ Head(events)[1] \in {"started", "completed", "item"}
          /\ Head(events)[1] = "item" => active' = active
        BY <1>10 DEF ApplyEvent, ApplyStarted, ApplyItem, ApplyCompleted
    <2>2. ASSUME a # 0, a = turn
          PROVE  Head(events)[1] = "item"
        <3>1. active # 0 /\ active = turn
            BY <1>5, <2>2
        <3>2. \A i \in DOMAIN events : ~Starts(events, i) /\ ~Ends(events, i)
            BY <1>11, <3>1 DEF EventsInOrder
        <3>3. 1 \in DOMAIN events /\ Head(events) = events[1]
            BY <2>1, TailEvent DEF TypeOK
        <3>. QED
            BY <2>1, <3>2, <3>3 DEF Starts, Ends
    <2>. QED
        BY <1>5, <2>1, <2>2
<1>. QED
    BY <1>7, <1>8, <1>9, <1>10, <1>11, ServerMoves

(* The stages a call goes through.                                         *)
LEMMA StageMoves ==
    ASSUME TypeOK, Next, NEW c \in Calls
    PROVE  \/ call'[c] = call[c]
           \/ call'[c] \in {"read", "done"}
           \/ call'[c] = "ipc" /\ Dispatch(c) /\ seen[c].live
           \/ call'[c] = "heard" /\ call[c] = "ipc"
           \/ /\ call'[c] = "direct" /\ call[c] \in {"read", "ipc", "heard"}
              /\ Kind(c) = "send" /\ ~Waits(c)
           \/ /\ call'[c] = "direct" /\ call[c] \in {"read", "ipc", "heard"}
              /\ Kind(c) = "steer" /\ seen[c].active # 0
              /\ drafts' = MarkSteer(drafts, Msg(c))
           \/ call'[c] = "taken" /\ ServerTakes(c)
           \/ call'[c] = "direct" /\ call[c] = "taken" /\ Msg(c) \in unsure'
<1>. DEFINE Goal ==
           \/ call'[c] = call[c]
           \/ call'[c] \in {"read", "done"}
           \/ call'[c] = "ipc" /\ Dispatch(c) /\ seen[c].live
           \/ call'[c] = "heard" /\ call[c] = "ipc"
           \/ /\ call'[c] = "direct" /\ call[c] \in {"read", "ipc", "heard"}
              /\ Kind(c) = "send" /\ ~Waits(c)
           \/ /\ call'[c] = "direct" /\ call[c] \in {"read", "ipc", "heard"}
              /\ Kind(c) = "steer" /\ seen[c].active # 0
              /\ drafts' = MarkSteer(drafts, Msg(c))
           \/ call'[c] = "taken" /\ ServerTakes(c)
           \/ call'[c] = "direct" /\ call[c] = "taken" /\ Msg(c) \in unsure'
<1>1. CASE UNCHANGED call
    BY <1>1
<1>2. ASSUME NEW d \in Calls, NEW q \in Stages, Become(d, q)
      PROVE  (d = c /\ call'[c] = q) \/ call'[c] = call[c]
    <2>1. call' = [call EXCEPT ![d] = q] /\ call \in [Calls -> Stages]
        BY SMTT(30), <1>2, BecomeHolds DEF TypeOK, Stages
    <2>. QED
        BY <2>1
<1>3. ASSUME NEW d \in Calls, NEW p, GoDirect(d, p), call[d] \in {"read", "ipc", "heard"}
      PROVE  Goal
    <2>1. CASE Become(d, "done")
        BY <1>2, <2>1 DEF Stages
    <2>2. CASE Become(d, "direct") /\ Kind(d) = "send" /\ ~Waits(d)
        BY <1>2, <1>3, <2>2 DEF Stages
    <2>3. CASE Become(d, "direct") /\ Kind(d) = "steer" /\ seen[d].active # 0
               /\ drafts' = MarkSteer(drafts, Msg(d))
        BY <1>2, <1>3, <2>3 DEF Stages
    <2>. QED
        BY <1>3, <2>1, <2>2, <2>3 DEF GoDirect
<1>4. ASSUME NEW d \in Calls, Dispatch(d)
      PROVE  Goal
    <2>1. CASE seen[d].live
        BY <1>2, <1>4, <2>1 DEF Dispatch, Stages
    <2>2. CASE ~seen[d].live /\ Waits(d)
        BY <1>2, <1>4, <2>2 DEF Dispatch, Stages
    <2>3. CASE ~seen[d].live /\ ~Waits(d)
        BY <1>3, <1>4, <2>3 DEF Dispatch
    <2>. QED
        BY <2>1, <2>2, <2>3
<1>5. ASSUME NEW d \in Calls, IpcGone(d) \/ IpcAbsent(d) \/ IpcTimeout(d)
      PROVE  Goal
    <2>1. call[d] \in {"read", "ipc", "heard"} /\ \E p : GoDirect(d, p)
        BY <1>5 DEF IpcGone, IpcAbsent, IpcTimeout
    <2>. QED
        BY <1>3, <2>1
<1>6. ASSUME NEW d \in Calls,
             \/ IpcOk(d) \/ DirectOk(d) \/ SteerRejected(d) \/ IpcRefused(d) \/ DirectFails(d)
      PROVE  Goal
    <2>1. Become(d, "done")
        BY <1>6 DEF IpcOk, DirectOk, SteerRejected, IpcRefused, DirectFails
    <2>. QED
        BY <1>2, <2>1 DEF Stages
<1>7. ASSUME NEW d \in Calls, ServerTakes(d)
      PROVE  Goal
    BY <1>2, <1>7 DEF ServerTakes, Stages
<1>11. ASSUME NEW d \in Calls, Resend(d)
       PROVE  Goal
    <2>1. Become(d, "direct") /\ call[d] \in {"direct", "taken"} /\ Msg(d) \in unsure'
        BY <1>11 DEF Resend, Doubted
    <2>. QED
        BY <1>2, <2>1 DEF Stages
<1>8. ASSUME NEW d \in Calls, DeskHears(d)
      PROVE  Goal
    BY <1>8 DEF DeskHears, TypeOK
<1>9. ASSUME NEW d \in Calls, Begin(d)
      PROVE  Goal
    BY <1>9 DEF Begin, TypeOK
<1>10. OtherTurn \/ TurnEnds \/ DeskSends \/ DeskHearsLate \/ LinkDown \/ LinkUp \/ ReadLink
      \/ PeerStatus \/ Reopen \/ CastArrives \/ ApplyEvent \/ AutosendTaken \/ AutosendEnds
      \/ Lag \/ AutosendResent \/ StrayTaken
      => UNCHANGED call
    BY DEF OtherTurn, TurnEnds, DeskSends, DeskHearsLate, LinkDown, LinkUp, ReadLink, PeerStatus,
           Reopen, CastArrives, ApplyEvent, AutosendTaken, AutosendEnds, Lag, AutosendResent,
           StrayTaken, callVars
<1>. QED
    BY <1>1, <1>4, <1>5, <1>6, <1>7, <1>8, <1>9, <1>10, <1>11 DEF Next, CallStep, ServerStep

(* What the server takes.                                                  *)
Taken(m) ==
    /\ Run(m)
    /\ \/ \E i \in DOMAIN desk : desk[i].msg = m
       \/ \E command \in late : command.msg = m
       \/ \E c \in Calls : call[c] = "ipc" /\ Msg(c) = m
       \/ AutosendTaken /\ m = sending
       \/ \E s \in strays : s[1] = m
       \/ \E c \in Calls : ServerTakes(c) /\ Msg(c) = m

LEMMA Inputs ==
    ASSUME TypeOK, Next
    PROVE  \/ UNCHANGED <<events, turn, turns, ran>>
           \/ \E m \in Messages : Taken(m)
           \/ OtherTurn
           \/ TurnEnds
           \/ ApplyEvent
           \/ Lag
<1>1. CASE DeskSends
    <2>1. PICK i \in DOMAIN desk : Run(desk[i].msg)
        BY <1>1 DEF DeskSends
    <2>2. desk[i].msg \in Messages
        BY ListFields DEF TypeOK
    <2>. QED
        BY <2>1, <2>2 DEF Taken
<1>2. CASE DeskHearsLate
    <2>1. PICK command \in late : Hear(command)
        BY <1>2 DEF DeskHearsLate
    <2>2. command.msg \in Messages
        BY <2>1 DEF TypeOK, Command
    <2>. QED
        BY <2>1, <2>2 DEF Taken, Hear, serverVars
<1>3. ASSUME NEW c \in Calls, DeskHears(c)
      PROVE  UNCHANGED <<events, turn, turns, ran>> \/ \E m \in Messages : Taken(m)
    <2>1. call[c] = "ipc" /\ Hear(IpcCommand(c)) /\ IpcCommand(c).msg = Msg(c) /\ Msg(c) \in Messages
        BY <1>3, CommandFields, CallFields DEF DeskHears
    <2>. QED
        BY <2>1 DEF Taken, Hear, serverVars
<1>4. CASE AutosendTaken
    BY <1>4 DEF AutosendTaken, Taken, TypeOK
<1>5. ASSUME NEW c \in Calls, ServerTakes(c)
      PROVE  \E m \in Messages : Taken(m)
    BY <1>5, CallFields DEF ServerTakes, Taken
<1>8. CASE StrayTaken
    BY <1>8 DEF StrayTaken, Taken, TypeOK
<1>6. LinkDown \/ LinkUp \/ ReadLink \/ PeerStatus \/ Reopen \/ CastArrives \/ AutosendEnds
      \/ AutosendResent => UNCHANGED <<events, turn, turns, ran>>
    BY DEF LinkDown, LinkUp, ReadLink, PeerStatus, Reopen, CastArrives, AutosendEnds,
           AutosendResent, serverVars
<1>7. ASSUME NEW c \in Calls,
             \/ Begin(c) \/ Dispatch(c) \/ IpcOk(c) \/ IpcGone(c) \/ IpcAbsent(c) \/ DirectOk(c)
             \/ SteerRejected(c) \/ IpcTimeout(c) \/ IpcRefused(c) \/ DirectFails(c) \/ Resend(c)
      PROVE  UNCHANGED <<events, turn, turns, ran>>
    BY <1>7 DEF Begin, Dispatch, IpcOk, IpcGone, IpcAbsent, DirectOk, SteerRejected, IpcTimeout,
           IpcRefused, DirectFails, Resend, serverVars
<1>. QED
    BY <1>1, <1>2, <1>3, <1>4, <1>5, <1>6, <1>7, <1>8 DEF Next, CallStep, ServerStep

(* How the queue of drafts changes, but for the listener's part in it.     *)
QueueMove ==
    \/ UNCHANGED drafts
    \/ casts # <<>> /\ drafts' = Head(casts)
    \/ \E c \in Calls :
         /\ Dispatch(c) /\ call[c] = "read" /\ Kind(c) = "send" /\ Waits(c)
         /\ drafts' = Append(drafts, [msg |-> Msg(c), kind |-> "message"])
    \/ \E c \in Calls :
         /\ call[c] \in {"read", "ipc", "heard"} /\ Kind(c) = "steer" /\ call'[c] = "direct"
         /\ drafts' = MarkSteer(drafts, Msg(c))
    \/ \E c \in Calls :
         /\ call[c] \in {"ipc", "heard"} \/ (call[c] = "read" /\ Kind(c) = "delete")
         /\ WriteBack(c)

Quiet == UNCHANGED <<active, sending, taken, turn, turns, ran, events>>

LEMMA DirectQueue ==
    ASSUME TypeOK, NEW c \in Calls, NEW p, GoDirect(c, p), call[c] \in {"read", "ipc", "heard"}
    PROVE  QueueMove
<1>1. CASE UNCHANGED drafts
    BY <1>1 DEF QueueMove
<1>2. CASE Kind(c) = "steer" /\ Become(c, "direct") /\ drafts' = MarkSteer(drafts, Msg(c))
    <2>1. call'[c] = "direct"
        BY <1>2 DEF Become, TypeOK
    <2>. QED
        BY <1>2, <2>1 DEF QueueMove
<1>3. CASE Kind(c) = "delete" /\ WriteBack(c)
    BY <1>3 DEF QueueMove
<1>. QED
    BY <1>1, <1>2, <1>3 DEF GoDirect

LEMMA StepKinds ==
    ASSUME TypeOK, Next
    PROVE  \/ ApplyEvent
           \/ AutosendEnds
           \/ AutosendResent
           \/ Lag
           \/ /\ UNCHANGED <<active, drafts, sending, shared, restored>>
              /\ (\E m \in Messages : Taken(m)) \/ OtherTurn \/ TurnEnds
           \/ Quiet /\ QueueMove
<1>1. LinkDown \/ LinkUp \/ ReadLink \/ PeerStatus \/ Reopen => Quiet /\ QueueMove
    BY DEF LinkDown, LinkUp, ReadLink, PeerStatus, Reopen, Quiet, QueueMove, threadVars, serverVars,
           listenerVars
<1>2. CASE CastArrives
    <2>1. Quiet
        BY <1>2 DEF CastArrives, Quiet, listenerVars, serverVars
    <2>2. casts # <<>> /\ drafts' \in {drafts, Head(casts)}
        BY <1>2 DEF CastArrives
    <2>. QED
        BY <2>1, <2>2 DEF QueueMove
<1>3. ASSUME NEW c \in Calls,
             \/ Begin(c) \/ IpcRefused(c) \/ DirectOk(c) \/ SteerRejected(c) \/ DirectFails(c)
             \/ Resend(c)
      PROVE  Quiet /\ QueueMove
    BY <1>3 DEF Begin, IpcRefused, DirectOk, SteerRejected, DirectFails, Resend, Quiet, QueueMove,
           threadVars, listenerVars, serverVars
<1>4. ASSUME NEW c \in Calls, Dispatch(c)
      PROVE  Quiet /\ QueueMove
    <2>1. Quiet /\ call[c] = "read"
        BY <1>4 DEF Dispatch, Quiet, listenerVars, serverVars
    <2>2. CASE Waits(c)
        <3>1. Kind(c) = "send"
            BY <2>2 DEF Waits
        <3>2. drafts' = Append(drafts, [msg |-> Msg(c), kind |-> "message"])
            BY <1>4, <2>2 DEF Dispatch
        <3>. QED
            BY <1>4, <2>1, <2>2, <3>1, <3>2 DEF QueueMove
    <2>3. CASE ~Waits(c) /\ seen[c].live
        <3>1. UNCHANGED drafts
            BY <1>4, <2>3 DEF Dispatch
        <3>. QED
            BY <2>1, <3>1 DEF QueueMove
    <2>4. CASE ~Waits(c) /\ ~seen[c].live
        <3>1. GoDirect(c, pending)
            BY <1>4, <2>4 DEF Dispatch
        <3>. QED
            BY <2>1, <3>1, DirectQueue
    <2>. QED
        BY <2>2, <2>3, <2>4
<1>5. ASSUME NEW c \in Calls, IpcOk(c)
      PROVE  Quiet /\ QueueMove
    <2>1. Quiet /\ call[c] = "heard" /\ (UNCHANGED drafts \/ WriteBack(c))
        BY <1>5 DEF IpcOk, Quiet, listenerVars, serverVars
    <2>. QED
        BY <2>1 DEF QueueMove
<1>6. ASSUME NEW c \in Calls, IpcGone(c) \/ IpcAbsent(c) \/ IpcTimeout(c)
      PROVE  Quiet /\ QueueMove
    <2>1. Quiet /\ call[c] \in {"ipc", "heard"} /\ \E p : GoDirect(c, p)
        BY <1>6 DEF IpcGone, IpcAbsent, IpcTimeout, Quiet, listenerVars, serverVars
    <2>. QED
        BY <2>1, DirectQueue
<1>7. DeskSends \/ DeskHearsLate \/ AutosendTaken \/ StrayTaken \/ OtherTurn \/ TurnEnds
      => UNCHANGED <<active, drafts, sending, shared, restored>>
         /\ (DeskSends \/ DeskHearsLate => taken' = taken)
    BY DEF DeskSends, DeskHearsLate, AutosendTaken, StrayTaken, OtherTurn, TurnEnds, threadVars,
           listenerVars, auxVars
<1>8. ASSUME NEW c \in Calls, DeskHears(c) \/ ServerTakes(c)
      PROVE  UNCHANGED <<active, drafts, sending, taken, shared, restored>>
    BY <1>8 DEF DeskHears, ServerTakes, threadVars, listenerVars, auxVars
<1>9. AutosendTaken \/ StrayTaken => \E m \in Messages : Taken(m)
    BY DEF AutosendTaken, StrayTaken, Taken, TypeOK
<1>10. UNCHANGED <<events, turn, turns, ran>> /\ UNCHANGED <<active, drafts, sending, taken>>
       => Quiet /\ QueueMove
    BY DEF Quiet, QueueMove
<1>11. ASSUME DeskSends \/ DeskHearsLate \/ \E c \in Calls : DeskHears(c) \/ ServerTakes(c)
       PROVE  \/ UNCHANGED <<events, turn, turns, ran>>
              \/ (\E m \in Messages : Taken(m)) \/ OtherTurn \/ TurnEnds \/ ApplyEvent \/ Lag
    BY Inputs
<1>. QED
    BY <1>1, <1>2, <1>3, <1>4, <1>5, <1>6, <1>7, <1>8, <1>9, <1>10, <1>11
    DEF Next, CallStep, ServerStep

(* Nothing is taken out of the auxiliary sets.                             *)
LEMMA AuxGrows ==
    ASSUME TypeOK, Next
    PROVE  /\ shared \subseteq shared' /\ restored \subseteq restored' /\ unsure \subseteq unsure'
           /\ lagged => lagged'
<1>1. ASSUME NEW c \in Calls, Dispatch(c)
      PROVE  shared \subseteq shared' /\ restored \subseteq restored' /\ UNCHANGED unsure
    <2>1. shared \subseteq shared' /\ UNCHANGED unsure
        BY <1>1 DEF Dispatch
    <2>2. UNCHANGED restored \/ GoDirect(c, pending)
        BY <1>1 DEF Dispatch
    <2>3. pending \in PendingType
        BY DEF TypeOK, PendingType
    <2>. QED
        BY <2>1, <2>2, <2>3, DirectHolds
<1>2. ASSUME NEW c \in Calls, IpcGone(c) \/ IpcAbsent(c) \/ IpcTimeout(c)
      PROVE  shared \subseteq shared' /\ restored \subseteq restored' /\ UNCHANGED unsure
    <2>1. UNCHANGED <<shared, unsure>> /\ \E p \in PendingType : GoDirect(c, p)
        BY <1>2 DEF IpcGone, IpcAbsent, IpcTimeout, PendingType, TypeOK
    <2>. QED
        BY <2>1, DirectHolds
<1>3. ASSUME NEW c \in Calls, IpcOk(c)
      PROVE  shared \subseteq shared' /\ restored \subseteq restored' /\ UNCHANGED unsure
    BY <1>3, WriteBackHolds DEF IpcOk
<1>4. ASSUME NEW c \in Calls,
             \/ Begin(c) \/ DeskHears(c) \/ ServerTakes(c) \/ IpcRefused(c) \/ DirectOk(c)
             \/ SteerRejected(c)
      PROVE  UNCHANGED <<shared, restored, unsure>>
    BY <1>4 DEF Begin, DeskHears, ServerTakes, IpcRefused, DirectOk, SteerRejected, auxVars
<1>5. OtherTurn \/ TurnEnds \/ DeskSends \/ DeskHearsLate \/ LinkDown \/ LinkUp \/ ReadLink
      \/ PeerStatus \/ Reopen \/ CastArrives \/ ApplyEvent \/ AutosendTaken \/ StrayTaken \/ Lag
      => UNCHANGED <<shared, restored, unsure>>
    BY DEF OtherTurn, TurnEnds, DeskSends, DeskHearsLate, LinkDown, LinkUp, ReadLink, PeerStatus,
           Reopen, CastArrives, ApplyEvent, AutosendTaken, StrayTaken, Lag, auxVars
<1>6. ASSUME NEW c \in Calls, Resend(c) \/ DirectFails(c)
      PROVE  UNCHANGED <<shared, restored>> /\ unsure \subseteq unsure'
    BY <1>6, Doubts, DoubtHolds, CallFields
<1>7. AutosendResent \/ AutosendEnds => UNCHANGED <<shared, restored>> /\ unsure \subseteq unsure'
    BY AutosendDoubts, DoubtHolds
<1>. QED
    BY <1>1, <1>2, <1>3, <1>4, <1>5, <1>6, <1>7, LagStays DEF Next, CallStep, ServerStep

--------------------------------------------------------------------------------
(***************************************************************************)
(* Where a message can be.                                                 *)
(***************************************************************************)

LEMMA AllInGrows ==
    ASSUME NEW list, NEW M, NEW N, AllIn(list, M), M \subseteq N
    PROVE  AllIn(list, N)
BY DEF AllIn

LEMMA CastsHold ==
    ASSUME NEW lists \in Seq(Seq(Draft)), NEW list \in Seq(Draft), NEW M,
           \A i \in DOMAIN lists : AllIn(lists[i], M)
    PROVE  /\ AllIn(list, M) => \A i \in DOMAIN Append(lists, list) : AllIn(Append(lists, list)[i], M)
           /\ lists # <<>> =>
                /\ AllIn(Head(lists), M) /\ Head(lists) \in Seq(Draft)
                /\ \A i \in DOMAIN Tail(lists) : AllIn(Tail(lists)[i], M)
<1>1. \A i \in DOMAIN Append(lists, list) :
        (i \in DOMAIN lists /\ Append(lists, list)[i] = lists[i]) \/ Append(lists, list)[i] = list
    OBVIOUS
<1>2. lists # <<>> =>
        /\ 1 \in DOMAIN lists /\ Head(lists) = lists[1] /\ Head(lists) \in Seq(Draft)
        /\ \A i \in DOMAIN Tail(lists) : i + 1 \in DOMAIN lists /\ Tail(lists)[i] = lists[i + 1]
    OBVIOUS
<1>. QED
    BY <1>1, <1>2

(* What the desktop knows stays in a set that has what goes to it.         *)
LEMMA DeskStep ==
    ASSUME TypeOK, Next, NEW M, DeskIn(desk, casts, late, M),
           \A c \in Calls :
             call[c] \in {"ipc", "heard"} => Msg(c) \in M /\ AllIn(seen[c].drafts, M)
    PROVE  DeskIn(desk', casts', late', M)
<1>1. \A c \in Calls : call[c] \in {"ipc", "heard"} => AllIn(NextDrafts(c), M)
    BY SeenFields, NextHolds
<1>2. casts \in Seq(Seq(Draft)) /\ desk \in Seq(Draft)
    BY DEF TypeOK
<1>3. ASSUME NEW command \in Command, AllIn(command.drafts, M), Hear(command)
      PROVE  AllIn(desk', M) /\ \A i \in DOMAIN casts' : AllIn(casts'[i], M)
    <2>1. CASE command.starts
        BY <1>3, <2>1 DEF Hear, deskVars, DeskIn
    <2>2. CASE ~command.starts
        <3>1. command.drafts \in Seq(Draft)
            BY DEF Command
        <3>2. desk' = command.drafts /\ casts' = Append(casts, command.drafts)
            BY <1>3, <2>2 DEF Hear
        <3>. QED
            BY <1>2, <1>3, <3>1, <3>2, CastsHold DEF DeskIn
    <2>. QED
        BY <2>1, <2>2
<1>4. CASE DeskSends
    <2>1. PICK m : desk' = Without(desk, m) /\ casts' = Append(casts, desk') /\ late' = late
        BY <1>4 DEF DeskSends, callVars
    <2>2. AllIn(desk', M) /\ desk' \in Seq(Draft)
        BY <1>2, <2>1, WithoutHolds DEF DeskIn
    <2>. QED
        BY <1>2, <2>1, <2>2, CastsHold DEF DeskIn
<1>5. CASE DeskHearsLate
    <2>1. PICK command \in late : Hear(command) /\ late' = late \ {command}
        BY <1>5 DEF DeskHearsLate
    <2>2. command \in Command /\ AllIn(command.drafts, M)
        BY <2>1 DEF TypeOK, DeskIn
    <2>. QED
        BY <1>3, <2>1, <2>2 DEF DeskIn
<1>6. ASSUME NEW c \in Calls, DeskHears(c)
      PROVE  DeskIn(desk', casts', late', M)
    <2>1. Hear(IpcCommand(c)) /\ late' = late /\ call[c] = "ipc"
        BY <1>6 DEF DeskHears
    <2>2. IpcCommand(c) \in Command /\ AllIn(IpcCommand(c).drafts, M)
        BY <1>1, <2>1, CommandFields
    <2>. QED
        BY <1>3, <2>1, <2>2 DEF DeskIn
<1>7. CASE CastArrives
    <2>1. casts # <<>> /\ casts' = Tail(casts) /\ desk' = desk /\ late' = late
        BY <1>7 DEF CastArrives, callVars
    <2>. QED
        BY <1>2, <2>1, CastsHold DEF DeskIn
<1>8. DropLink => casts' = <<>> /\ desk' = desk
    BY DEF DropLink
<1>9. CASE LinkDown \/ Reopen
    BY <1>8, <1>9 DEF LinkDown, Reopen, callVars, DeskIn
<1>10. ASSUME NEW c \in Calls, IpcGone(c)
       PROVE  DeskIn(desk', casts', late', M)
    BY <1>8, <1>10 DEF IpcGone, DeskIn
<1>11. ASSUME NEW c \in Calls, IpcTimeout(c)
       PROVE  DeskIn(desk', casts', late', M)
    <2>1. UNCHANGED deskVars /\ call[c] \in {"ipc", "heard"}
          /\ (late' = late \/ late' = late \cup {IpcCommand(c)})
        BY <1>11 DEF IpcTimeout
    <2>2. IpcCommand(c).msg \in M /\ AllIn(IpcCommand(c).drafts, M)
        BY <1>1, <2>1, CommandFields
    <2>. QED
        BY <2>1, <2>2 DEF deskVars, DeskIn
<1>12. ASSUME NEW c \in Calls,
              \/ Begin(c) \/ Dispatch(c) \/ IpcOk(c) \/ IpcAbsent(c) \/ ServerTakes(c) \/ DirectOk(c)
              \/ SteerRejected(c) \/ IpcRefused(c) \/ DirectFails(c) \/ Resend(c)
       PROVE  UNCHANGED <<desk, casts, late>>
    BY <1>12 DEF Begin, Dispatch, IpcOk, IpcAbsent, ServerTakes, DirectOk, SteerRejected,
           IpcRefused, DirectFails, Resend, deskVars
<1>13. OtherTurn \/ TurnEnds \/ LinkUp \/ ReadLink \/ PeerStatus \/ ApplyEvent \/ AutosendTaken
       \/ AutosendResent \/ AutosendEnds \/ StrayTaken \/ Lag => UNCHANGED <<desk, casts, late>>
    BY DEF OtherTurn, TurnEnds, LinkUp, ReadLink, PeerStatus, ApplyEvent, AutosendTaken,
           AutosendResent, AutosendEnds, StrayTaken, Lag, deskVars, callVars
<1>14. UNCHANGED <<desk, casts, late>> => DeskIn(desk', casts', late', M)
    BY DEF DeskIn
<1>. QED
    BY <1>4, <1>5, <1>6, <1>7, <1>9, <1>10, <1>11, <1>12, <1>13, <1>14
    DEF Next, CallStep, ServerStep

LEMMA NextCallsShared ==
    ASSUME TypeOK, CallsShared, Next
    PROVE  CallsShared'
<1>1. SUFFICES ASSUME NEW c \in Calls, call'[c] \in {"ipc", "heard"}
               PROVE  Msg(c) \in shared' /\ AllIn(seen'[c].drafts, shared')
    BY DEF CallsShared
<1>2. AllIn(Nothing.drafts, shared')
    BY NothingFields DEF AllIn
<1>3. seen'[c] = seen[c] \/ seen'[c] = Nothing
    BY <1>1, CallMoves, BeginReads
<1>4. Msg(c) \in shared' /\ AllIn(seen[c].drafts, shared')
    <2>1. CASE call[c] \in {"ipc", "heard"}
        BY <2>1, AuxGrows, AllInGrows DEF CallsShared
    <2>2. CASE Dispatch(c) /\ seen[c].live
        <3>1. shared' = shared \cup Msgs(NextDrafts(c)) \cup {Msg(c)}
            BY <2>2 DEF Dispatch
        <3>2. NextDrafts(c) \in Seq(Draft)
            BY SeenFields, NextHolds
        <3>3. AllIn(NextDrafts(c), shared')
            <4>1. AllIn(NextDrafts(c), (shared \cup {Msg(c)}) \cup Msgs(NextDrafts(c)))
                BY <3>2, MsgsHold
            <4>. QED
                BY <3>1, <4>1, AllInGrows
        <3>. QED
            BY <3>1, <3>3, SeenFields, NextHolds
    <2>. QED
        BY <1>1, <2>1, <2>2, StageMoves
<1>. QED
    BY <1>2, <1>3, <1>4

(* A copy of a request comes of a call or of what the listener sends.      *)
LEMMA StraysMove ==
    ASSUME TypeOK, Next, NEW s \in strays'
    PROVE  \/ s \in strays
           \/ /\ s[1] \in unsure'
              /\ \/ s[1] = sending /\ sending # None
                 \/ \E c \in Calls : call[c] \in {"direct", "taken"} /\ s[1] = Msg(c)
<1>1. ASSUME NEW c \in Calls, Resend(c) \/ DirectFails(c), s \notin strays
      PROVE  s[1] \in unsure' /\ call[c] \in {"direct", "taken"} /\ s[1] = Msg(c)
    <2>1. call[c] \in {"direct", "taken"}
        BY <1>1 DEF Resend, DirectFails
    <2>2. s[1] = Msg(c) /\ Msg(c) \in unsure'
        BY <1>1, Doubts, DoubtHolds, CallFields
    <2>. QED
        BY <2>1, <2>2
<1>2. ASSUME AutosendResent \/ AutosendEnds, s \notin strays
      PROVE  s[1] = sending /\ sending # None /\ sending \in unsure'
    BY <1>2, AutosendDoubts, DoubtHolds, NoneAssumption
<1>3. LinkDown \/ LinkUp \/ ReadLink \/ PeerStatus \/ Reopen \/ CastArrives \/ OtherTurn
      \/ TurnEnds \/ DeskSends \/ DeskHearsLate \/ ApplyEvent \/ AutosendTaken \/ StrayTaken \/ Lag
      => strays' \subseteq strays
    BY DEF LinkDown, LinkUp, ReadLink, PeerStatus, Reopen, CastArrives, OtherTurn, TurnEnds,
           DeskSends, DeskHearsLate, ApplyEvent, AutosendTaken, StrayTaken, Lag, callVars
<1>4. ASSUME NEW c \in Calls,
             \/ Begin(c) \/ DeskHears(c) \/ Dispatch(c) \/ IpcOk(c) \/ IpcGone(c) \/ IpcAbsent(c)
             \/ ServerTakes(c) \/ DirectOk(c) \/ SteerRejected(c) \/ IpcTimeout(c) \/ IpcRefused(c)
      PROVE  UNCHANGED strays
    BY <1>4 DEF Begin, DeskHears, Dispatch, IpcOk, IpcGone, IpcAbsent, ServerTakes, DirectOk,
           SteerRejected, IpcTimeout, IpcRefused
<1>. QED
    BY <1>1, <1>2, <1>3, <1>4 DEF Next, CallStep, ServerStep

LEMMA NextStraysUnsure ==
    ASSUME TypeOK, StraysUnsure, Next
    PROVE  StraysUnsure'
BY StraysMove, AuxGrows DEF StraysUnsure

LEMMA NextDirectKinds ==
    ASSUME TypeOK, DirectKinds, Next
    PROVE  DirectKinds'
BY StageMoves DEF DirectKinds, ServerTakes

LEMMA NextCallsSent ==
    ASSUME TypeOK, OnceSent, CallsSent, Next
    PROVE  CallsSent'
<1>1. SUFFICES ASSUME NEW c \in Calls
               PROVE  /\ AllIn(seen'[c].drafts, Sent')
                      /\ call'[c] # "idle" /\ Kind(c) # "send" => Msg(c) \in Sent'
    BY DEF CallsSent
<1>2. Sent \subseteq Sent'
    BY SentStays
<1>3. AllIn(drafts, Sent') /\ AllIn(seen[c].drafts, Sent') /\ AllIn(Nothing.drafts, Sent')
    BY <1>2, AllInGrows, NothingFields DEF OnceSent, CallsSent, AllIn
<1>4. CASE Begin(c)
    <2>1. Kind(c) # "send" => Msg(c) \in Sent
        BY <1>4 DEF Begin, Msgs, OnceSent, AllIn
    <2>. QED
        BY <1>2, <1>3, <1>4, <2>1, BeginReads
<1>5. CASE ~Begin(c)
    <2>1. seen'[c] \in {seen[c], Nothing} /\ (call'[c] # "idle" => call[c] # "idle")
        BY <1>5, CallMoves
    <2>. QED
        BY <1>2, <1>3, <2>1 DEF CallsSent
<1>. QED
    BY <1>4, <1>5

LEMMA CallIsSent ==
    ASSUME TypeOK, CallsSent, NEW c \in Calls, call[c] \notin {"idle", "read"}
    PROVE  Msg(c) \in Sent
BY CallFields DEF CallsSent, Sent

LEMMA TakenIsSent ==
    ASSUME TypeOK, OnceSent, CallsSent, DeskSent, NEW m \in Messages, Taken(m)
    PROVE  m \in Sent
<1>1. ASSUME NEW c \in Calls, call[c] = "ipc" \/ ServerTakes(c)
      PROVE  Msg(c) \in Sent
    BY <1>1, CallIsSent DEF ServerTakes
<1>. QED
    BY <1>1 DEF Taken, OnceSent, DeskSent, DeskIn, AllIn, AutosendTaken

LEMMA NextOnceSent ==
    ASSUME TypeOK, InTurn, OnceSent, CallsSent, DeskSent, Next
    PROVE  OnceSent'
<1>1. Sent \subseteq Sent'
    BY SentStays
<1>2. EventsSent(events', Sent)
    <2>1. CASE UNCHANGED events
        BY <2>1 DEF OnceSent
    <2>2. ASSUME NEW m \in Messages, Taken(m)
          PROVE  EventsSent(events', Sent)
        BY <2>2, TakenIsSent, RunHolds DEF ServerMove, Taken, OnceSent
    <2>3. CASE OtherTurn
        BY <2>3, OtherTurnHolds DEF ServerMove, OnceSent
    <2>4. CASE TurnEnds
        <3>1. turn \in Nat /\ events \in Seq(Event)
            BY DEF TypeOK
        <3>2. PICK e \in Event : e = <<"completed", turn>> /\ e[1] = "completed"
            BY <3>1, EventKinds
        <3>3. events' = Append(events, e)
            BY <2>4, <3>2 DEF TurnEnds
        <3>. QED
            BY <3>1, <3>2, <3>3, AppendEvent DEF EventsSent, OnceSent
    <2>5. CASE ApplyEvent
        BY <2>5, TailEvent DEF ApplyEvent, EventsSent, OnceSent, TypeOK
    <2>6. CASE Lag
        BY <2>6, LagHolds DEF OnceSent
    <2>. QED
        BY <2>1, <2>2, <2>3, <2>4, <2>5, <2>6, Inputs
<1>3. ASSUME NEW m \in Messages, ran'[m] > 0
      PROVE  m \in Sent
    <2>1. CASE UNCHANGED ran
        BY <1>3, <2>1 DEF OnceSent
    <2>2. ASSUME NEW k \in Messages, Taken(k)
          PROVE  m \in Sent
        <3>1. k \in Sent /\ ran' = [ran EXCEPT ![k] = ran[k] + 1] /\ ran \in [Messages -> Nat]
            BY <2>2, TakenIsSent, RunHolds DEF Taken, TypeOK
        <3>. QED
            BY <1>3, <3>1 DEF OnceSent
    <2>3. OtherTurn \/ TurnEnds \/ ApplyEvent \/ Lag => UNCHANGED ran
        BY DEF OtherTurn, TurnEnds, ApplyEvent, Lag
    <2>. QED
        BY <2>1, <2>2, <2>3, Inputs
<1>4. AllIn(drafts', Sent')
    <2>1. CASE ApplyEvent
        <3>1. drafts' \in {WithoutFirst(drafts), Unsteered(drafts)} /\ drafts \in Seq(Draft)
            BY <2>1 DEF ApplyEvent, ApplyStarted, ApplyItem, ApplyCompleted, TypeOK
        <3>2. AllIn(drafts', Sent)
            BY <3>1, TailHolds, UnsteeredHolds DEF OnceSent
        <3>. QED
            BY <1>1, <3>2, AllInGrows
    <2>2. CASE QueueMove
        <3>1. CASE UNCHANGED drafts
            BY <1>1, <3>1, AllInGrows DEF OnceSent
        <3>2. CASE casts # <<>> /\ drafts' = Head(casts)
            <4>1. casts \in Seq(Seq(Draft)) /\ drafts \in Seq(Draft)
                BY DEF TypeOK
            <4>. QED
                BY <1>1, <3>2, <4>1, CastsHold, AllInGrows DEF DeskSent, DeskIn
        <3>3. ASSUME NEW c \in Calls, Dispatch(c), call[c] = "read", Kind(c) = "send",
                     Waits(c), drafts' = Append(drafts, [msg |-> Msg(c), kind |-> "message"])
              PROVE  AllIn(drafts', Sent')
            <4>1. call'[c] \notin {"idle", "read"}
                <5>1. Become(c, "ipc") \/ Become(c, "done")
                    BY <3>3 DEF Dispatch
                <5>2. \E q \in Stages \ {"idle", "read"} : Become(c, q)
                    BY <5>1 DEF Stages
                <5>3. PICK q \in Stages \ {"idle", "read"} : call' = [call EXCEPT ![c] = q]
                    BY <5>2, BecomeHolds
                <5>. QED
                    BY <5>3 DEF TypeOK
            <4>2. Msg(c) \in Sent'
                BY <3>3, <4>1, CallFields DEF Sent
            <4>3. PICK d \in Draft : d = [msg |-> Msg(c), kind |-> "message"] /\ d.msg = Msg(c)
                BY CallFields, DraftFields
            <4>4. drafts \in Seq(Draft) /\ AllIn(drafts, Sent')
                BY <1>1, AllInGrows DEF OnceSent, TypeOK
            <4>. QED
                BY <3>3, <4>2, <4>3, <4>4, AppendHolds
        <3>4. ASSUME NEW c \in Calls, drafts' = MarkSteer(drafts, Msg(c))
              PROVE  AllIn(drafts', Sent')
            <4>1. drafts \in Seq(Draft) /\ AllIn(drafts, Sent')
                BY <1>1, AllInGrows DEF OnceSent, TypeOK
            <4>. QED
                BY <3>4, <4>1, MarkHolds, CallFields
        <3>5. ASSUME NEW c \in Calls, WriteBack(c),
                     call[c] \in {"ipc", "heard"} \/ (call[c] = "read" /\ Kind(c) = "delete")
              PROVE  AllIn(drafts', Sent')
            <4>1. drafts' = NextDrafts(c) /\ seen[c].drafts \in Seq(Draft)
                BY <3>5, WriteBackHolds, SeenFields
            <4>2. AllIn(seen[c].drafts, Sent) /\ (Kind(c) = "send" => Msg(c) \in Sent)
                BY <3>5, CallIsSent DEF CallsSent
            <4>3. AllIn(NextDrafts(c), Sent)
                BY <4>1, <4>2, NextHolds
            <4>. QED
                BY <1>1, <4>1, <4>3, AllInGrows
        <3>. QED
            BY <2>2, <3>1, <3>2, <3>3, <3>4, <3>5 DEF QueueMove
    <2>3. AutosendResent \/ AutosendEnds \/ Lag => UNCHANGED drafts
        BY DEF AutosendResent, AutosendEnds, Lag, threadVars
    <2>4. UNCHANGED drafts => QueueMove
        BY DEF QueueMove
    <2>. QED
        BY <2>1, <2>2, <2>3, <2>4, StepKinds
<1>5. sending' # None => sending' \in Sent'
    <2>1. CASE ApplyEvent
        <3>1. CASE UNCHANGED sending
            BY <1>1, <3>1 DEF OnceSent
        <3>2. CASE ApplyCompleted
            <4>1. drafts' = Unsteered(drafts) /\ drafts \in Seq(Draft)
                BY <3>2 DEF ApplyCompleted, TypeOK
            <4>2. drafts' \in Seq(Draft) /\ AllIn(drafts', Sent)
                BY <4>1, UnsteeredHolds DEF OnceSent
            <4>3. drafts' # <<>> => 1 \in DOMAIN drafts' /\ Head(drafts') = drafts'[1]
                BY <4>2
            <4>. QED
                BY <1>1, <3>2, <4>2, <4>3 DEF ApplyCompleted, AllIn
        <3>. QED
            BY <2>1, <3>1, <3>2 DEF ApplyEvent, ApplyStarted, ApplyItem, listenerVars
    <2>2. sending' = sending \/ sending' = None \/ ApplyEvent
        BY StepKinds DEF AutosendEnds, AutosendResent, Lag, listenerVars, Quiet
    <2>. QED
        BY <1>1, <2>1, <2>2 DEF OnceSent
<1>6. items' \subseteq Sent'
    <2>1. CASE ApplyEvent
        <3>1. events \in Seq(Event) /\ events # <<>>
            BY <2>1 DEF ApplyEvent, TypeOK
        <3>2. 1 \in DOMAIN events /\ Head(events) = events[1]
            BY <3>1, TailEvent
        <3>3. ASSUME Head(events)[1] = "item", Head(events)[2] # None
              PROVE  Head(events)[2] \in Sent
            BY <3>2, <3>3 DEF OnceSent, EventsSent
        <3>4. items' \subseteq items \cup Sent
            BY <2>1, <3>3 DEF ApplyEvent, ApplyStarted, ApplyItem, ApplyCompleted
        <3>. QED
            BY <1>1, <3>4 DEF OnceSent
    <2>2. items' = items \/ ApplyEvent
        BY DEF Next, CallStep, threadVars, OtherTurn, TurnEnds, DeskSends, DeskHearsLate, LinkDown,
               LinkUp, ReadLink, PeerStatus, Reopen, CastArrives, AutosendTaken, AutosendEnds, Begin,
               DeskHears, Dispatch, IpcOk, IpcGone, IpcAbsent, ServerTakes, DirectOk, SteerRejected,
               IpcTimeout, IpcRefused, DirectFails, Resend, StrayTaken, Lag, AutosendResent,
               ServerStep
    <2>. QED
        BY <1>1, <2>1, <2>2 DEF OnceSent
<1>7. EventsSent(events', Sent') /\ \A m \in Messages : ran'[m] > 0 => m \in Sent'
    BY <1>1, <1>2, <1>3 DEF EventsSent
<1>8. ASSUME NEW s \in strays'
      PROVE  s[1] \in Sent'
    <2>1. sending # None /\ s[1] = sending => s[1] \in Sent
        BY DEF OnceSent
    <2>2. ASSUME NEW c \in Calls, call[c] \in {"direct", "taken"}, s[1] = Msg(c)
          PROVE  s[1] \in Sent
        BY <2>2, CallIsSent
    <2>. QED
        BY <1>1, <2>1, <2>2, StraysMove DEF OnceSent
<1>. QED
    BY <1>4, <1>5, <1>6, <1>7, <1>8 DEF OnceSent

LEMMA DeskGrows ==
    ASSUME NEW queue, NEW lists, NEW commands, NEW M, NEW N, M \subseteq N,
           DeskIn(queue, lists, commands, M)
    PROVE  DeskIn(queue, lists, commands, N)
BY DEF DeskIn, AllIn

LEMMA NextDeskSent ==
    ASSUME TypeOK, CallsSent, DeskSent, Next
    PROVE  DeskSent'
<1>1. \A c \in Calls : call[c] \in {"ipc", "heard"} => Msg(c) \in Sent /\ AllIn(seen[c].drafts, Sent)
    BY CallIsSent DEF CallsSent
<1>2. DeskIn(desk', casts', late', Sent)
    BY <1>1, DeskStep DEF DeskSent
<1>. QED
    BY <1>2, SentStays, DeskGrows DEF DeskSent

LEMMA NextDeskShared ==
    ASSUME TypeOK, CallsShared, DeskShared, Next
    PROVE  DeskShared'
<1>1. DeskIn(desk', casts', late', shared)
    BY DeskStep DEF DeskShared, CallsShared
<1>. QED
    BY <1>1, AuxGrows, DeskGrows DEF DeskShared

LEMMA NextNoDoubleBubble ==
    ASSUME TypeOK, OnceSent, NoDoubleBubble, Next
    PROVE  NoDoubleBubble'
<1>1. CASE ApplyEvent
    BY <1>1 DEF ApplyEvent, ApplyStarted, ApplyItem, ApplyCompleted, NoDoubleBubble
<1>2. ASSUME NEW c \in Calls, Dispatch(c)
      PROVE  NoDoubleBubble'
    <2>1. call[c] = "read" /\ items' = items
          /\ overlays' = overlays \cup {m \in {Msg(c)} : Kind(c) = "send" /\ ~Waits(c)}
        BY <1>2 DEF Dispatch
    <2>2. Kind(c) = "send" => Msg(c) \notin Sent
        BY <2>1, CallFields DEF Sent
    <2>3. Kind(c) = "send" => Msg(c) \notin items
        BY <2>2 DEF OnceSent
    <2>. QED
        BY <2>1, <2>3 DEF NoDoubleBubble
<1>3. ASSUME NEW c \in Calls, DirectFails(c)
      PROVE  NoDoubleBubble'
    BY <1>3 DEF DirectFails, NoDoubleBubble
<1>4. ASSUME NEW c \in Calls,
             \/ Begin(c) \/ DeskHears(c) \/ IpcOk(c) \/ IpcGone(c) \/ IpcAbsent(c) \/ ServerTakes(c)
             \/ DirectOk(c) \/ SteerRejected(c) \/ IpcTimeout(c) \/ IpcRefused(c) \/ Resend(c)
      PROVE  UNCHANGED <<items, overlays>>
    BY <1>4 DEF Begin, DeskHears, IpcOk, IpcGone, IpcAbsent, ServerTakes, DirectOk, SteerRejected,
           IpcTimeout, IpcRefused, Resend, threadVars
<1>5. OtherTurn \/ TurnEnds \/ DeskSends \/ DeskHearsLate \/ LinkDown \/ LinkUp \/ ReadLink
      \/ PeerStatus \/ Reopen \/ CastArrives \/ AutosendTaken \/ AutosendEnds \/ Lag
      \/ AutosendResent \/ StrayTaken
      => UNCHANGED <<items, overlays>>
    BY DEF OtherTurn, TurnEnds, DeskSends, DeskHearsLate, LinkDown, LinkUp, ReadLink, PeerStatus,
           Reopen, CastArrives, AutosendTaken, AutosendEnds, Lag, AutosendResent, StrayTaken,
           threadVars
<1>6. UNCHANGED <<items, overlays>> => NoDoubleBubble'
    BY DEF NoDoubleBubble
<1>. QED
    BY <1>1, <1>2, <1>3, <1>4, <1>5, <1>6 DEF Next, CallStep, ServerStep

(***************************************************************************)
(* A message that the desktop does not know.                               *)
(***************************************************************************)

(* What a list has of a message, and how often, it had before: list comes  *)
(* of old, and only what was first becomes first out of the first place.   *)
Follows(list, old, m) ==
    /\ \A i \in DOMAIN list :
         list[i].msg = m => \E j \in DOMAIN old : old[j] = list[i] /\ (j = 1 => i = 1)
    /\ Once(old, m) => Once(list, m)

LEMMA KeepFollows ==
    ASSUME NEW list \in Seq(Draft), NEW S, S \subseteq DOMAIN list, NEW m
    PROVE  Follows(Keep(list, S), list, m)
<1>1. PICK k : k = Keep(list, S)
    OBVIOUS
<1>2. PICK f \in [DOMAIN k -> S] : InOrder(f, S) /\ \A j \in DOMAIN k : k[j] = list[f[j]]
    BY <1>1, Kept
<1>3. k \in Seq(Draft)
    BY <1>1, Kept
<1>4. /\ DOMAIN f = DOMAIN k /\ DOMAIN k \subseteq Nat \ {0} /\ \A i \in DOMAIN k : 1 \in DOMAIN k
      /\ \A i \in DOMAIN k : f[i] \in DOMAIN list
      /\ DOMAIN list \subseteq Nat \ {0}
    BY <1>3
<1>5. ASSUME NEW i \in DOMAIN k, f[i] = 1, i # 1
      PROVE  FALSE
    <2>1. 1 < i /\ 1 \in DOMAIN f
        BY <1>4, <1>5
    <2>2. f[1] < f[i]
        BY <1>2, <1>4, <2>1 DEF InOrder
    <2>3. f[1] \in Nat \ {0}
        BY <1>4, <2>1
    <2>. QED
        BY <1>5, <2>2, <2>3
<1>6. ASSUME NEW i \in DOMAIN k, NEW j \in DOMAIN k, f[i] = f[j]
      PROVE  i = j
    <2>1. i < j => f[i] < f[j]
        BY <1>2, <1>4 DEF InOrder
    <2>2. j < i => f[j] < f[i]
        BY <1>2, <1>4 DEF InOrder
    <2>3. i \in Nat /\ j \in Nat /\ f[i] \in Nat
        BY <1>4
    <2>. QED
        BY <1>6, <2>1, <2>2, <2>3
<1>7. \A i \in DOMAIN k : list[f[i]] = k[i] /\ (f[i] = 1 => i = 1) /\ f[i] \in DOMAIN list
    BY <1>2, <1>4, <1>5
<1>8. Once(list, m) => Once(k, m)
    BY <1>6, <1>7 DEF Once
<1>. QED
    BY <1>1, <1>7, <1>8 DEF Follows

LEMMA TailFollows ==
    ASSUME NEW list \in Seq(Draft), NEW m
    PROVE  /\ Follows(WithoutFirst(list), list, m)
           /\ \A i \in DOMAIN WithoutFirst(list) :
                \E j \in DOMAIN list : list[j] = WithoutFirst(list)[i] /\ j # 1
<1>1. PICK k : k = WithoutFirst(list)
    OBVIOUS
<1>2. \A i \in DOMAIN k : i + 1 \in DOMAIN list /\ k[i] = list[i + 1] /\ i \in Nat \ {0}
    BY <1>1, TailHolds
<1>3. \A i \in DOMAIN k : i + 1 \in DOMAIN list /\ k[i] = list[i + 1] /\ i + 1 # 1
    BY <1>2
<1>4. \A i, j \in DOMAIN k : i + 1 = j + 1 => i = j
    BY <1>2
<1>5. Once(list, m) => Once(k, m)
    BY <1>3, <1>4 DEF Once
<1>. QED
    BY <1>1, <1>3, <1>5 DEF Follows

LEMMA AppendFollows ==
    ASSUME NEW list \in Seq(Draft), NEW d \in Draft, NEW m, d.msg # m
    PROVE  Follows(Append(list, d), list, m)
<1>1. PICK k : k = Append(list, d)
    OBVIOUS
<1>2. \A i \in DOMAIN k : k[i] = d \/ (i \in DOMAIN list /\ k[i] = list[i])
    BY <1>1
<1>. QED
    BY <1>1, <1>2 DEF Follows, Once

LEMMA MarkFollows ==
    ASSUME NEW list \in Seq(Draft), NEW k \in Messages, NEW m, k # m
    PROVE  Follows(MarkSteer(list, k), list, m)
BY SMTT(30), MarkHolds DEF Follows, Once

LEMMA SameFollows ==
    ASSUME NEW list, NEW m
    PROVE  Follows(list, list, m)
BY DEF Follows

LEMMA NoneFollows ==
    ASSUME NEW list, NEW old, NEW M, NEW m, AllIn(list, M), m \notin M
    PROVE  Follows(list, old, m)
BY DEF Follows, Once, AllIn

(* What a private message is not in.                                       *)
LEMMA PrivateHolds ==
    ASSUME FollowInv, Next, NEW m \in Messages, m \in Private'
    PROVE  /\ m \notin shared \cup restored /\ m \notin shared' \cup restored'
           /\ m \notin unsure /\ m \notin unsure' /\ ~lagged /\ ~lagged'
           /\ Own(m) /\ ReadTurn /\ EventsInOrder(events, active, turn, turns)
           /\ \A c \in Calls : Msg(c) = m => call[c] \notin {"ipc", "heard"}
<1>1. m \notin shared' \cup restored' /\ m \notin unsure' /\ ~lagged'
    BY DEF Private
<1>2. m \notin shared \cup restored /\ m \notin unsure /\ ~lagged
    BY <1>1, AuxGrows DEF FollowInv
<1>3. m \in Private
    BY <1>2 DEF Private
<1>. QED
    BY <1>1, <1>2, <1>3 DEF FollowInv, OncePrivate, CallsShared, InTurn

(* Before its start_turn has dispatched, a message is nowhere.             *)
LEMMA UnsentNowhere ==
    ASSUME FollowInv, NEW m \in Messages, m \notin Sent
    PROVE  /\ ran[m] = 0 /\ sending # m
           /\ \A i \in DOMAIN drafts : ~Queued(m, i)
           /\ Steer(m) \in Calls => call[Steer(m)] = "idle"
           /\ ~Taken(m)
<1>1. ran[m] \in Nat /\ None \notin Messages
    BY NoneAssumption DEF FollowInv, TypeOK
<1>2. ran[m] = 0
    BY <1>1 DEF FollowInv, OnceSent
<1>3. sending # m
    BY <1>1 DEF FollowInv, OnceSent
<1>4. \A i \in DOMAIN drafts : ~Queued(m, i)
    BY DEF FollowInv, OnceSent, AllIn, Queued
<1>5. Steer(m) \in Calls => call[Steer(m)] = "idle"
    BY CallNames DEF FollowInv, CallsSent
<1>6. ~Taken(m)
    BY TakenIsSent DEF FollowInv
<1>. QED
    BY <1>2, <1>3, <1>4, <1>5, <1>6

(* Only the phone sends a private message: with a turn of its own, by      *)
(* steering or from the queue; and in each case it was not sent before.    *)
LEMMA RanMoves ==
    ASSUME FollowInv, Next, NEW m \in Messages, m \in Private', ran'[m] # ran[m]
    PROVE  /\ ran[m] = 0 /\ ran'[m] = 1
           /\ \/ AutosendTaken /\ sending = m
              \/ Send(m) \in Calls /\ ServerTakes(Send(m))
              \/ /\ Steer(m) \in Calls /\ ServerTakes(Steer(m)) /\ sending # m
                 /\ \A i \in DOMAIN drafts : Queued(m, i) => drafts[i].kind = "steer"
<1>1. ran \in [Messages -> Nat] /\ ran[m] \in Nat
    BY DEF FollowInv, TypeOK
<1>2. PICK k \in Messages : Taken(k)
    <2>1. OtherTurn \/ TurnEnds \/ ApplyEvent \/ Lag => UNCHANGED ran
        BY DEF OtherTurn, TurnEnds, ApplyEvent, Lag
    <2>. QED
        BY <2>1, Inputs DEF FollowInv
<1>3. ran' = [ran EXCEPT ![k] = ran[k] + 1]
    BY <1>2, RunHolds DEF Taken, FollowInv
<1>4. k = m /\ ran'[m] = ran[m] + 1
    BY <1>1, <1>3
<1>5. \/ AutosendTaken /\ sending = m
      \/ \E c \in Calls : ServerTakes(c) /\ Msg(c) = m
    <2>1. m \notin shared
        BY PrivateHolds
    <2>2. \A i \in DOMAIN desk : desk[i].msg # m
        BY <2>1 DEF FollowInv, DeskShared, DeskIn, AllIn
    <2>3. \A command \in late : command.msg # m
        BY <2>1 DEF FollowInv, DeskShared, DeskIn
    <2>4. \A s \in strays : s[1] # m
        BY PrivateHolds DEF FollowInv, StraysUnsure
    <2>. QED
        BY <1>2, <1>4, <2>2, <2>3, <2>4, PrivateHolds DEF Taken
<1>6. CASE AutosendTaken /\ sending = m
    BY <1>1, <1>4, <1>6, PrivateHolds DEF AutosendTaken, Own
<1>7. ASSUME NEW c \in Calls, ServerTakes(c), Msg(c) = m
      PROVE  /\ ran[m] = 0
             /\ \/ Send(m) \in Calls /\ ServerTakes(Send(m))
                \/ /\ Steer(m) \in Calls /\ ServerTakes(Steer(m)) /\ sending # m
                   /\ \A i \in DOMAIN drafts : Queued(m, i) => drafts[i].kind = "steer"
    <2>1. call[c] = "direct" /\ Kind(c) # "delete"
        BY <1>7 DEF ServerTakes, FollowInv, DirectKinds
    <2>2. c = Send(m) \/ c = Steer(m)
        BY <1>7, <2>1, CallFields
    <2>3. CASE c = Send(m)
        BY <1>7, <2>1, <2>3, PrivateHolds DEF Own, StartsAlone
    <2>4. CASE c = Steer(m)
        <3>1. turn = seen[c].active
            BY <1>7, <2>4, CallNames DEF ServerTakes
        <3>2. /\ seen[c].active # 0
              /\ \A i \in DOMAIN drafts : Queued(m, i) => drafts[i].kind = "steer"
            BY <2>1, <2>4, PrivateHolds DEF Own, Marked
        <3>3. ~Left(m)
            BY <2>1, <2>4, <3>1, <3>2, PrivateHolds DEF Own, TooLate
        <3>4. ran[m] = 0 /\ sending # m
            BY <1>1, <3>3 DEF Left
        <3>. QED
            BY <1>7, <2>4, <3>2, <3>4
    <2>. QED
        BY <2>2, <2>3, <2>4
<1>. QED
    BY <1>1, <1>4, <1>5, <1>6, <1>7

(* The listener applies an event.                                          *)
LEMMA EventApplied ==
    ASSUME FollowInv, ApplyEvent
    PROVE  /\ UNCHANGED <<turn, turns, ran, callVars>> /\ sending = None
           /\ \/ drafts' = WithoutFirst(drafts) /\ UNCHANGED <<sending, taken>>
              \/ /\ drafts' = Unsteered(drafts) /\ ~taken'
                 /\ sending' = None \/ (drafts' # <<>> /\ sending' = Head(drafts').msg)
                 /\ ~lagged => active # 0 /\ active # turn
<1>1. UNCHANGED <<turn, turns, ran, callVars>> /\ sending = None
    BY DEF ApplyEvent
<1>2. CASE Head(events)[1] = "completed" /\ ApplyCompleted
    <2>1. ~lagged => active # 0 /\ active # turn
        BY <1>2, TakeOrder DEF ApplyEvent, FollowInv, InTurn, TypeOK
    <2>. QED
        BY <1>1, <1>2, <2>1 DEF ApplyCompleted
<1>3. CASE \E e \in {Head(events)} : ApplyStarted(e[2]) \/ ApplyItem(e[2])
    BY <1>1, <1>3 DEF ApplyStarted, ApplyItem, listenerVars
<1>. QED
    BY <1>2, <1>3 DEF ApplyEvent

(* How the queue changes, for a private message.                           *)
LEMMA DraftsMove ==
    ASSUME FollowInv, Next, NEW m \in Messages, m \in Private'
    PROVE  \/ Follows(drafts', drafts, m)
           \/ /\ Send(m) \in Calls /\ call[Send(m)] = "read" /\ Waits(Send(m)) /\ ~ApplyEvent
              /\ drafts' = Append(drafts, [msg |-> m, kind |-> "message"])
           \/ /\ Steer(m) \in Calls /\ call'[Steer(m)] = "direct" /\ ~ApplyEvent
              /\ drafts' = MarkSteer(drafts, m)
<1>1. drafts \in Seq(Draft) /\ casts \in Seq(Seq(Draft)) /\ m \notin shared
    BY PrivateHolds DEF FollowInv, TypeOK
<1>2. CASE ApplyEvent
    <2>1. CASE drafts' = WithoutFirst(drafts)
        BY <1>1, <2>1, TailFollows
    <2>2. CASE drafts' = Unsteered(drafts)
        BY <1>1, <2>2, KeepFollows DEF Unsteered
    <2>. QED
        BY <1>2, <2>1, <2>2, EventApplied
<1>3. CASE UNCHANGED drafts
    BY <1>3, SameFollows
<1>4. CASE casts # <<>> /\ drafts' = Head(casts)
    <2>1. AllIn(drafts', shared)
        BY <1>1, <1>4, CastsHold DEF FollowInv, DeskShared, DeskIn
    <2>. QED
        BY <1>1, <2>1, NoneFollows
<1>5. ASSUME NEW c \in Calls, ~ApplyEvent, call[c] = "read", Kind(c) = "send", Waits(c),
             drafts' = Append(drafts, [msg |-> Msg(c), kind |-> "message"])
      PROVE  \/ Follows(drafts', drafts, m)
             \/ /\ Send(m) \in Calls /\ call[Send(m)] = "read" /\ Waits(Send(m)) /\ ~ApplyEvent
                /\ drafts' = Append(drafts, [msg |-> m, kind |-> "message"])
    <2>1. CASE Msg(c) = m
        BY <1>5, <2>1, CallFields
    <2>2. CASE Msg(c) # m
        <3>1. PICK d \in Draft : d = [msg |-> Msg(c), kind |-> "message"] /\ d.msg = Msg(c)
            BY CallFields, DraftFields
        <3>. QED
            BY <1>1, <1>5, <2>2, <3>1, AppendFollows
    <2>. QED
        BY <2>1, <2>2
<1>6. ASSUME NEW c \in Calls, ~ApplyEvent, Kind(c) = "steer", call'[c] = "direct",
             drafts' = MarkSteer(drafts, Msg(c))
      PROVE  \/ Follows(drafts', drafts, m)
             \/ /\ Steer(m) \in Calls /\ call'[Steer(m)] = "direct" /\ ~ApplyEvent
                /\ drafts' = MarkSteer(drafts, m)
    <2>1. CASE Msg(c) = m
        BY <1>6, <2>1, CallFields
    <2>2. CASE Msg(c) # m
        BY <1>1, <1>6, <2>2, CallFields, MarkFollows
    <2>. QED
        BY <2>1, <2>2
<1>7. ASSUME NEW c \in Calls, WriteBack(c),
             call[c] \in {"ipc", "heard"} \/ (call[c] = "read" /\ Kind(c) = "delete")
      PROVE  Follows(drafts', drafts, m)
    <2>1. drafts' = NextDrafts(c) /\ (drafts = seen[c].drafts \/ AllIn(drafts', restored'))
          /\ seen[c].drafts \in Seq(Draft)
        BY <1>7, WriteBackHolds, SeenFields DEF FollowInv
    <2>2. CASE AllIn(drafts', restored')
        BY <2>2, NoneFollows, PrivateHolds
    <2>3. CASE call[c] \in {"ipc", "heard"}
        <3>1. AllIn(NextDrafts(c), shared)
            BY <2>1, <2>3, NextHolds DEF FollowInv, CallsShared
        <3>. QED
            BY <1>1, <2>1, <3>1, NoneFollows
    <2>4. CASE Kind(c) = "delete" /\ drafts = seen[c].drafts
        <3>1. drafts' = Without(drafts, Msg(c))
            BY <2>1, <2>4 DEF NextDrafts
        <3>. QED
            BY <1>1, <3>1, KeepFollows DEF Without
    <2>. QED
        BY <1>7, <2>1, <2>2, <2>3, <2>4
<1>8. ApplyEvent \/ UNCHANGED drafts \/ QueueMove
    BY StepKinds DEF FollowInv, AutosendEnds, AutosendResent, Lag, threadVars
<1>. QED
    BY <1>2, <1>3, <1>4, <1>5, <1>6, <1>7, <1>8 DEF QueueMove

(* How what the listener sends changes.                                    *)
LEMMA SendingMoves ==
    ASSUME FollowInv, Next
    PROVE  \/ sending' = sending /\ taken' = taken
           \/ sending' = sending /\ taken' /\ AutosendTaken
           \/ sending' = sending /\ sending \in unsure'
           \/ sending' = None
           \/ ApplyEvent
<1>1. AutosendTaken => sending' = sending /\ taken'
    BY DEF AutosendTaken
<1>2. DeskSends \/ DeskHearsLate \/ OtherTurn \/ TurnEnds \/ (\E c \in Calls : DeskHears(c) \/ ServerTakes(c))
      => sending' = sending /\ taken' = taken
    BY DEF DeskSends, DeskHearsLate, OtherTurn, TurnEnds, DeskHears, ServerTakes, listenerVars
<1>3. LinkDown \/ LinkUp \/ ReadLink \/ PeerStatus \/ Reopen \/ CastArrives \/ StrayTaken \/ Lag
      => sending' = sending /\ taken' = taken
    BY DEF LinkDown, LinkUp, ReadLink, PeerStatus, Reopen, CastArrives, StrayTaken, Lag,
           listenerVars
<1>6. AutosendResent => sending' = sending /\ sending \in unsure'
    BY DEF AutosendResent, Doubted
<1>4. ASSUME NEW c \in Calls,
             \/ Begin(c) \/ Dispatch(c) \/ IpcOk(c) \/ IpcGone(c) \/ IpcAbsent(c) \/ DirectOk(c)
             \/ SteerRejected(c) \/ IpcTimeout(c) \/ IpcRefused(c) \/ DirectFails(c) \/ Resend(c)
      PROVE  sending' = sending /\ taken' = taken
    BY <1>4 DEF Begin, Dispatch, IpcOk, IpcGone, IpcAbsent, DirectOk, SteerRejected, IpcTimeout,
           IpcRefused, DirectFails, Resend, listenerVars
<1>5. AutosendEnds => sending' = None
    BY DEF AutosendEnds
<1>. QED
    BY <1>1, <1>2, <1>3, <1>4, <1>5, <1>6 DEF Next, CallStep, ServerStep

(* The draft that the listener comes to send was not sent.                 *)
LEMMA HeadUnsent ==
    ASSUME FollowInv, Next, ApplyEvent, NEW m \in Messages, m \in Private'
    PROVE  /\ \A i \in DOMAIN drafts' : drafts'[i].msg = m /\ drafts'[i].kind = "message" =>
                ran[m] = 0 /\ (sending' = m => i = 1)
           /\ sending' = m =>
                /\ ran[m] = 0 /\ active # turn
                /\ 1 \in DOMAIN drafts' /\ drafts'[1].msg = m
                /\ \E j \in DOMAIN drafts : Queued(m, j)
<1>1. drafts \in Seq(Draft) /\ ran[m] \in Nat /\ None # m /\ Own(m)
    BY NoneAssumption, PrivateHolds DEF FollowInv, TypeOK
<1>2. CASE drafts' = WithoutFirst(drafts) /\ UNCHANGED <<sending, taken>>
    <2>1. sending' # m
        BY <1>1, <1>2, EventApplied
    <2>2. ASSUME NEW i \in DOMAIN drafts', drafts'[i].msg = m, drafts'[i].kind = "message"
          PROVE  ran[m] = 0
        <3>1. PICK j \in DOMAIN drafts : drafts[j] = drafts'[i] /\ j # 1
            BY <1>1, <1>2, TailFollows
        <3>2. ~Left(m)
            BY <1>1, <2>2, <3>1 DEF Own, LeavesQueue, Queued
        <3>. QED
            BY <1>1, <3>2 DEF Left
    <2>. QED
        BY <2>1, <2>2
<1>3. CASE /\ drafts' = Unsteered(drafts) /\ active # 0 /\ active # turn
           /\ sending' = None \/ (drafts' # <<>> /\ sending' = Head(drafts').msg)
    <2>1. Follows(drafts', drafts, m)
        BY <1>1, <1>3, KeepFollows DEF Unsteered
    <2>2. drafts' \in Seq(Draft) /\ \A i \in DOMAIN drafts' : drafts'[i].kind = "message"
        BY <1>1, <1>3, UnsteeredHolds
    <2>3. ASSUME NEW i \in DOMAIN drafts', drafts'[i].msg = m
          PROVE  ran[m] = 0 /\ \E j \in DOMAIN drafts : Queued(m, j)
        <3>1. PICK j \in DOMAIN drafts : drafts[j] = drafts'[i]
            BY <2>1, <2>3 DEF Follows
        <3>2. drafts[j].kind = "message" /\ Queued(m, j)
            BY <2>2, <2>3, <3>1 DEF Queued
        <3>3. ~Left(m)
            BY <1>1, <1>3, <3>2 DEF Own, LeavesQueue
        <3>. QED
            BY <1>1, <3>2, <3>3 DEF Left
    <2>4. sending' = m => 1 \in DOMAIN drafts' /\ drafts'[1].msg = m
        BY <1>1, <1>3, <2>2
    <2>5. Once(drafts', m)
        BY <1>1, <2>1 DEF Own, Follows
    <2>6. ASSUME NEW i \in DOMAIN drafts', drafts'[i].msg = m, sending' = m
          PROVE  i = 1
        BY <2>4, <2>5, <2>6 DEF Once
    <2>. QED
        BY <1>3, <2>3, <2>4, <2>6
<1>. QED
    BY <1>2, <1>3, EventApplied, PrivateHolds

LEMMA OwnRan ==
    ASSUME FollowInv, Next, NEW m \in Messages, m \in Private'
    PROVE  ran'[m] <= 1 /\ (sending' = m /\ ~taken' => ran'[m] = 0)
<1>1. ran[m] \in Nat /\ ran[m] <= 1 /\ (sending = m /\ ~taken => ran[m] = 0) /\ None # m
    BY NoneAssumption, PrivateHolds DEF FollowInv, TypeOK, Own
<1>2. ran'[m] <= 1
    BY <1>1, RanMoves
<1>3. ASSUME sending' = m, ~taken'
      PROVE  ran'[m] = 0
    <2>1. CASE ApplyEvent
        BY <1>3, <2>1, HeadUnsent, EventApplied
    <2>2. CASE sending' = sending /\ taken' = taken
        <3>1. ran[m] = 0 /\ sending = m
            BY <1>1, <1>3, <2>2
        <3>2. ~AutosendTaken
            BY <1>3 DEF AutosendTaken
        <3>3. ASSUME Send(m) \in Calls, ServerTakes(Send(m))
              PROVE  FALSE
            BY <3>1, <3>3, PrivateHolds DEF ServerTakes, Own, StartsAlone
        <3>. QED
            BY <3>1, <3>2, <3>3, RanMoves
    <2>. QED
        BY <1>1, <1>3, <2>1, <2>2, SendingMoves, PrivateHolds
<1>. QED
    BY <1>2, <1>3

LEMMA OwnOnce ==
    ASSUME FollowInv, Next, NEW m \in Messages, m \in Private'
    PROVE  Once(drafts', m)
<1>1. drafts \in Seq(Draft) /\ Once(drafts, m)
    BY PrivateHolds DEF FollowInv, TypeOK, Own
<1>2. CASE Follows(drafts', drafts, m)
    BY <1>1, <1>2 DEF Follows
<1>3. CASE /\ Send(m) \in Calls /\ call[Send(m)] = "read"
           /\ drafts' = Append(drafts, [msg |-> m, kind |-> "message"])
    <2>1. PICK k : k = Append(drafts, [msg |-> m, kind |-> "message"])
        OBVIOUS
    <2>2. \A i \in DOMAIN drafts : drafts[i].msg # m
        BY <1>3, UnsentNowhere DEF Sent, Queued
    <2>3. \A i \in DOMAIN k : i = Len(drafts) + 1 \/ (i \in DOMAIN drafts /\ k[i] = drafts[i])
        BY <1>1, <2>1
    <2>. QED
        BY <1>3, <2>1, <2>2, <2>3 DEF Once
<1>4. CASE drafts' = MarkSteer(drafts, m)
    BY <1>1, <1>4, MarkHolds DEF Once
<1>. QED
    BY <1>2, <1>3, <1>4, DraftsMove

LEMMA OwnStart ==
    ASSUME FollowInv, Next, NEW m \in Messages, m \in Private',
           Send(m) \in Calls, call'[Send(m)] = "direct"
    PROVE  /\ ran'[m] = 0
           /\ sending' # m
           /\ \A i \in DOMAIN drafts' : drafts'[i].msg # m
           /\ Steer(m) \in Calls => call'[Steer(m)] = "idle"
<1>1. call[Send(m)] = "direct" \/ (call[Send(m)] = "read" /\ ~Waits(Send(m)))
    <2>1. call[Send(m)] \notin {"ipc", "heard"} /\ Kind(Send(m)) = "send"
        BY CallNames, PrivateHolds
    <2>. QED
        BY <2>1, CallNames, StageMoves, PrivateHolds DEF FollowInv
<1>2. /\ ran[m] = 0 /\ sending # m
      /\ \A i \in DOMAIN drafts : ~Queued(m, i)
      /\ Steer(m) \in Calls => call[Steer(m)] = "idle"
    <2>1. CASE call[Send(m)] = "direct"
        BY <2>1, PrivateHolds DEF Own, StartsAlone
    <2>2. CASE call[Send(m)] = "read"
        BY <2>2, UnsentNowhere DEF Sent
    <2>. QED
        BY <1>1, <2>1, <2>2
<1>3. ran'[m] = 0
    <2>1. call \in [Calls -> Stages] /\ call' # [call EXCEPT ![Send(m)] = "taken"]
        BY DEF FollowInv, TypeOK, Stages
    <2>2. ~ServerTakes(Send(m))
        BY <2>1 DEF ServerTakes, Become
    <2>3. Steer(m) \in Calls => ~ServerTakes(Steer(m))
        BY <1>2 DEF ServerTakes
    <2>. QED
        BY <1>2, <2>2, <2>3, RanMoves
<1>4. sending' # m
    <2>1. m # None
        BY NoneAssumption
    <2>. QED
        BY <1>2, <2>1, SendingMoves, HeadUnsent
<1>5. \A i \in DOMAIN drafts' : drafts'[i].msg # m
    <2>1. CASE Follows(drafts', drafts, m)
        BY <1>2, <2>1 DEF Follows, Queued
    <2>2. CASE drafts' = MarkSteer(drafts, m)
        <3>1. drafts \in Seq(Draft)
            BY DEF FollowInv, TypeOK
        <3>. QED
            BY <1>2, <2>2, <3>1, MarkHolds DEF Queued
    <2>. QED
        BY <1>1, <2>1, <2>2, DraftsMove
<1>6. ASSUME Steer(m) \in Calls
      PROVE  call'[Steer(m)] = "idle"
    <2>1. ~Begin(Steer(m))
        BY <1>2, CallNames DEF Begin, Msgs, Queued
    <2>. QED
        BY <1>2, <1>6, <2>1, CallMoves DEF FollowInv
<1>. QED
    BY <1>3, <1>4, <1>5, <1>6

LEMMA OwnLeaves ==
    ASSUME FollowInv, Next, NEW m \in Messages, m \in Private',
           NEW i \in DOMAIN drafts', drafts'[i].msg = m, drafts'[i].kind = "message",
           ran'[m] > 0 \/ sending' = m
    PROVE  active' = 0 /\ i = 1
<1>1. /\ drafts \in Seq(Draft) /\ ran[m] \in Nat /\ None # m /\ Own(m)
      /\ turn \in Nat
    BY NoneAssumption, PrivateHolds DEF FollowInv, TypeOK
<1>2. CASE ApplyEvent
    <2>1. ran'[m] = 0 /\ sending' = m /\ i = 1
        BY <1>1, <1>2, HeadUnsent, EventApplied
    <2>2. sending' # sending
        BY <1>1, <1>2, <2>1, EventApplied
    <2>3. ApplyCompleted
        BY <1>2, <2>2 DEF ApplyEvent, ApplyStarted, ApplyItem, listenerVars
    <2>. QED
        BY <2>1, <2>3 DEF ApplyCompleted
<1>3. ASSUME ~ApplyEvent
      PROVE  active' = active /\ (sending' = m => sending = m)
    <2>1. active' = active
        BY <1>3, StepKinds DEF FollowInv, AutosendEnds, AutosendResent, Lag, Quiet, threadVars
    <2>. QED
        BY <1>1, <1>3, <2>1, SendingMoves
<1>4. CASE Follows(drafts', drafts, m) /\ ~ApplyEvent
    <2>1. PICK j \in DOMAIN drafts : drafts[j] = drafts'[i] /\ (j = 1 => i = 1)
        BY <1>4 DEF Follows
    <2>2. Queued(m, j) /\ drafts[j].kind = "message"
        BY <2>1 DEF Queued
    <2>3. Left(m)
        <3>1. CASE ran'[m] = ran[m]
            BY <1>3, <1>4, <3>1 DEF Left
        <3>2. CASE ran'[m] # ran[m]
            <4>1. ~(Send(m) \in Calls /\ ServerTakes(Send(m)))
                BY <1>1, <2>2 DEF Own, StartsAlone, ServerTakes
            <4>2. sending = m
                BY <2>2, <3>2, <4>1, RanMoves
            <4>. QED
                BY <4>2 DEF Left
        <3>. QED
            BY <3>1, <3>2
    <2>. QED
        BY <1>1, <1>3, <1>4, <2>1, <2>2, <2>3 DEF Own, LeavesQueue
<1>5. CASE Send(m) \in Calls /\ call[Send(m)] = "read" /\ ~ApplyEvent
    <2>1. ran[m] = 0 /\ sending # m /\ (Steer(m) \in Calls => call[Steer(m)] = "idle")
        BY <1>5, UnsentNowhere DEF Sent
    <2>2. ran'[m] = ran[m]
        BY <1>5, <2>1, RanMoves DEF ServerTakes
    <2>. QED
        BY <1>3, <1>5, <2>1, <2>2
<1>6. CASE drafts' = MarkSteer(drafts, m)
    <2>1. i \in DOMAIN drafts /\ drafts[i].msg = m
        BY <1>1, <1>6, MarkHolds
    <2>. QED
        BY <1>1, <1>6, <2>1, MarkHolds
<1>. QED
    BY <1>2, <1>4, <1>5, <1>6, DraftsMove

LEMMA OwnMarked ==
    ASSUME FollowInv, Next, NEW m \in Messages, m \in Private'
    PROVE  Marked(m)'
<1>1. drafts \in Seq(Draft) /\ Own(m)
    BY PrivateHolds DEF FollowInv, TypeOK
<1>2. ASSUME Steer(m) \in Calls, call[Steer(m)] \notin {"idle", "read"}
      PROVE  call'[Steer(m)] \notin {"idle", "read"}
    BY <1>2, CallMoves, BeginReads DEF FollowInv
<1>3. ASSUME Send(m) \in Calls, call[Send(m)] = "read"
      PROVE  /\ \A i \in DOMAIN drafts : drafts[i].msg # m
             /\ Steer(m) \in Calls => call[Steer(m)] = "idle"
    BY <1>3, UnsentNowhere DEF Sent, Queued
<1>4. ASSUME Steer(m) \in Calls, call'[Steer(m)] = "direct"
      PROVE  /\ seen'[Steer(m)].active # 0
             /\ \A i \in DOMAIN drafts' : drafts'[i].msg = m => drafts'[i].kind = "steer"
    <2>1. call[Steer(m)] \notin {"ipc", "heard"} /\ Kind(Steer(m)) = "steer" /\ Msg(Steer(m)) = m
        BY <1>4, CallNames, PrivateHolds
    <2>2. seen'[Steer(m)] = seen[Steer(m)] /\ call[Steer(m)] # "idle"
        BY <1>4, CallMoves, BeginReads DEF FollowInv
    <2>3. CASE call[Steer(m)] = "direct"
        <3>1. seen[Steer(m)].active # 0
              /\ \A i \in DOMAIN drafts : drafts[i].msg = m => drafts[i].kind = "steer"
            BY <1>1, <1>4, <2>3 DEF Own, Marked, Queued
        <3>2. CASE Follows(drafts', drafts, m)
            BY <2>2, <3>1, <3>2 DEF Follows
        <3>3. CASE drafts' = MarkSteer(drafts, m)
            <4>1. \A i \in DOMAIN drafts' : i \in DOMAIN drafts /\ drafts'[i].msg = drafts[i].msg
                BY <1>1, <3>3, MarkHolds
            <4>2. \A i \in DOMAIN drafts : drafts[i].msg = m => drafts'[i].kind = "steer"
                BY <1>1, <3>3, MarkHolds
            <4>. QED
                BY <2>2, <3>1, <4>1, <4>2
        <3>. QED
            BY <1>3, <1>4, <2>3, <3>2, <3>3, DraftsMove
    <2>4. CASE seen[Steer(m)].active # 0 /\ drafts' = MarkSteer(drafts, m)
        BY <1>1, <2>2, <2>4, MarkHolds
    <2>. QED
        BY <1>4, <2>1, <2>3, <2>4, StageMoves, PrivateHolds DEF FollowInv
<1>5. ASSUME NEW i \in DOMAIN drafts', drafts'[i].msg = m, drafts'[i].kind = "steer"
      PROVE  Steer(m) \in Calls /\ call'[Steer(m)] \notin {"idle", "read"}
    <2>1. CASE Follows(drafts', drafts, m)
        <3>1. PICK j \in DOMAIN drafts : drafts[j] = drafts'[i]
            BY <1>5, <2>1 DEF Follows
        <3>. QED
            BY <1>1, <1>2, <1>5, <3>1 DEF Own, Marked, Queued
    <2>2. CASE /\ Send(m) \in Calls /\ call[Send(m)] = "read"
               /\ drafts' = Append(drafts, [msg |-> m, kind |-> "message"])
        <3>1. PICK d \in Draft : d = [msg |-> m, kind |-> "message"] /\ d.kind = "message"
            BY DraftFields
        <3>2. PICK k : k = drafts'
            OBVIOUS
        <3>3. k[i] = d \/ (i \in DOMAIN drafts /\ k[i] = drafts[i])
            BY <1>1, <2>2, <3>1, <3>2
        <3>. QED
            BY <1>3, <1>5, <2>2, <3>1, <3>2, <3>3
    <2>3. CASE Steer(m) \in Calls /\ call'[Steer(m)] = "direct"
        BY <2>3
    <2>. QED
        BY <2>1, <2>2, <2>3, DraftsMove
<1>. QED
    BY <1>4, <1>5 DEF Marked, Queued

LEMMA OwnLate ==
    ASSUME FollowInv, Next, NEW m \in Messages, m \in Private',
           Steer(m) \in Calls, call'[Steer(m)] \in {"read", "direct"},
           ran'[m] > 0 \/ sending' = m
    PROVE  seen'[Steer(m)].active = 0 \/ turn' # seen'[Steer(m)].active
<1>. DEFINE c == Steer(m)
<1>1. /\ Own(m) /\ m # None /\ c \in Calls /\ Kind(c) = "steer" /\ Msg(c) = m
      /\ call[c] \notin {"ipc", "heard"} /\ ran[m] \in Nat
      /\ turn \in Nat /\ turns \in Nat /\ turn <= turns
      /\ seen[c].active \in Nat /\ seen[c].active <= turns
      /\ seen[c].active # 0 /\ seen[c].active = turn => active = turn
      /\ m \notin unsure' /\ ~lagged'
    <2>1. Own(m) /\ ReadTurn /\ m \notin unsure' /\ ~lagged'
        BY PrivateHolds
    <2>2. m # None /\ c \in Calls /\ Kind(c) = "steer" /\ Msg(c) = m
        BY NoneAssumption, CallNames
    <2>3. call[c] \notin {"ipc", "heard"}
        BY <2>2, PrivateHolds
    <2>4. ran[m] \in Nat /\ turn \in Nat /\ turns \in Nat /\ turn <= turns
        BY DEF FollowInv, TypeOK
    <2>5. seen[c].active \in Nat
        BY <2>2, SeenFields DEF FollowInv, TypeOK
    <2>6. /\ seen[c].active <= turns
          /\ seen[c].active # 0 /\ seen[c].active = turn => active = turn
        BY <2>1, <2>2 DEF ReadTurn
    <2>. QED
        BY <2>1, <2>2, <2>3, <2>4, <2>5, <2>6
<1>. HIDE DEF c
<1>2. CASE Begin(c)
    <2>1. seen'[c].active = active /\ UNCHANGED <<sending, ran, turn>> /\ call[c] = "idle"
          /\ m \in Msgs(drafts)
        BY <1>1, <1>2, BeginReads DEF listenerVars, serverVars, FollowInv
    <2>2. PICK j \in DOMAIN drafts : Queued(m, j)
        BY <2>1 DEF Msgs, Queued
    <2>3. drafts[j].kind \in {"message", "steer"}
        BY ListFields DEF FollowInv, TypeOK
    <2>4. drafts[j].kind = "message"
        BY <1>1, <2>1, <2>2, <2>3 DEF Own, Marked, c
    <2>5. Left(m)
        BY <2>1 DEF Left
    <2>. QED
        BY <1>1, <2>1, <2>2, <2>4, <2>5 DEF Own, LeavesQueue, c
<1>3. CASE ~Begin(c)
    <2>1. call[c] \in {"read", "direct"} /\ seen'[c] = seen[c]
        <3>1. seen'[c] = seen[c] /\ call[c] # "idle"
            BY <1>1, <1>3, CallMoves DEF FollowInv, c
        <3>2. call'[c] = call[c] \/ call[c] \in {"read", "ipc", "heard"}
              \/ call'[c] = "read"
            BY <1>1, StageMoves DEF FollowInv, c
        <3>3. call'[c] = "read" => call[c] = "read"
            BY <1>1, <1>3, CallMoves DEF FollowInv
        <3>. QED
            BY <1>1, <3>1, <3>2, <3>3 DEF c
    <2>2. seen[c].active = 0 \/ turn # seen[c].active
        <3>1. CASE Left(m)
            BY <1>1, <2>1, <3>1 DEF Own, TooLate, c
        <3>2. CASE ~Left(m)
            <4>1. ran[m] = 0 /\ sending # m
                BY <1>1, <3>2 DEF Left
            <4>2. CASE ApplyEvent
                <5>1. sending' = m /\ active # turn
                    BY <4>1, <4>2, EventApplied, HeadUnsent
                <5>. QED
                    BY <1>1, <5>1
            <4>3. CASE ~ApplyEvent
                <5>1. ran'[m] # ran[m]
                    BY <1>1, <4>1, <4>3, SendingMoves
                <5>2. ~(Send(m) \in Calls /\ ServerTakes(Send(m)))
                    BY <1>1, <2>1 DEF ServerTakes, Own, StartsAlone, c
                <5>3. ServerTakes(c)
                    BY <4>1, <5>1, <5>2, RanMoves DEF c
                <5>4. call'[c] = "taken"
                    BY <1>1, <5>3 DEF ServerTakes, Become, FollowInv, TypeOK
                <5>. QED
                    BY <5>4 DEF c
            <4>. QED
                BY <4>2, <4>3
        <3>. QED
            BY <3>1, <3>2
    <2>3. turn' \in {0, turn, turns + 1}
        <3>1. ASSUME NEW k, ServerMove(k)
              PROVE  turn' \in {0, turn, turns + 1}
            BY <3>1 DEF ServerMove
        <3>. QED
            BY <1>1, <3>1, ServerMoves, EventApplied, LagHolds DEF FollowInv, TurnEnds
    <2>. QED
        BY <1>1, <2>1, <2>2, <2>3 DEF c
<1>. QED
    BY <1>2, <1>3

LEMMA NextOncePrivate ==
    ASSUME FollowInv, Next
    PROVE  OncePrivate'
<1>1. SUFFICES ASSUME NEW m \in Messages, m \in Private'
               PROVE  Own(m)'
    BY DEF OncePrivate, Private
<1>2. ran'[m] <= 1 /\ (sending' = m /\ ~taken' => ran'[m] = 0) /\ Once(drafts', m)
    BY <1>1, OwnRan, OwnOnce
<1>3. StartsAlone(m)'
    BY <1>1, OwnStart DEF StartsAlone, Queued
<1>4. LeavesQueue(m)'
    BY <1>1, OwnLeaves DEF LeavesQueue, Queued, Left
<1>5. Marked(m)'
    BY <1>1, OwnMarked
<1>6. TooLate(m)'
    BY <1>1, OwnLate DEF TooLate, Left
<1>. QED
    BY <1>2, <1>3, <1>4, <1>5, <1>6 DEF Own, Once

--------------------------------------------------------------------------------
(***************************************************************************)
(* The theorems.                                                           *)
(***************************************************************************)

LEMMA InitFollowInv == Init => FollowInv
<1>. SUFFICES ASSUME Init PROVE FollowInv
    OBVIOUS
<1>1. TypeOK
    BY InitType
<1>2. /\ active = 0 /\ drafts = <<>> /\ items = {} /\ overlays = {} /\ late = {} /\ sending = None
      /\ strays = {}
      /\ events = <<>> /\ turn = 0 /\ turns = 0 /\ desk = <<>> /\ casts = <<>>
      /\ call = [c \in Calls |-> "idle"] /\ ran = [m \in Messages |-> 0]
      /\ \A c \in Calls : seen[c] = Nothing /\ call[c] = "idle"
      /\ \A m \in Messages : ran[m] = 0
    BY DEF Init
<1>3. DOMAIN drafts = {} /\ DOMAIN events = {} /\ DOMAIN desk = {} /\ DOMAIN casts = {}
    BY <1>2
<1>4. /\ \A c \in Calls : seen[c].active = 0 /\ seen[c].drafts = <<>>
      /\ \A M : AllIn(<<>>, M)
    BY <1>2, NothingFields DEF AllIn
<1>5. OnceSent
    BY <1>2, <1>3 DEF OnceSent, EventsSent, AllIn
<1>6. CallsSent /\ CallsShared /\ DirectKinds /\ ReadTurn
    BY <1>2, <1>4 DEF CallsSent, CallsShared, DirectKinds, ReadTurn
<1>7. DeskSent /\ DeskShared
    BY <1>2, <1>3 DEF DeskSent, DeskShared, DeskIn, AllIn
<1>8. InTurn /\ StraysUnsure
    BY <1>2, <1>3 DEF EventsInOrder, InTurn, StraysUnsure
<1>9. OncePrivate
    <2>1. SUFFICES ASSUME NEW m \in Messages
                   PROVE  Own(m)
        BY DEF OncePrivate, Private
    <2>2. Once(drafts, m) /\ LeavesQueue(m)
        BY <1>3 DEF Once, LeavesQueue
    <2>3. StartsAlone(m) /\ Marked(m) /\ TooLate(m)
        BY <1>2, <1>3, <1>4 DEF StartsAlone, Marked, TooLate
    <2>. QED
        BY <1>2, <2>2, <2>3 DEF Own
<1>10. NoDoubleBubble
    BY <1>2 DEF NoDoubleBubble
<1>. QED
    BY <1>1, <1>5, <1>6, <1>7, <1>8, <1>9, <1>10 DEF FollowInv

LEMMA NextFollowInv == FollowInv /\ [Next]_vars => FollowInv'
<1>. SUFFICES ASSUME FollowInv, [Next]_vars PROVE FollowInv'
    OBVIOUS
<1>1. CASE Next
    <2>1. TypeOK' /\ OnceSent' /\ CallsSent' /\ DeskSent' /\ DeskShared' /\ CallsShared'
        BY <1>1, NextType, NextOnceSent, NextCallsSent, NextDeskSent, NextDeskShared,
           NextCallsShared DEF FollowInv
    <2>2. InTurn' /\ (lagged' \/ ReadTurn') /\ DirectKinds' /\ StraysUnsure'
        BY <1>1, LagStays, NextOrder, NextReadTurn, NextDirectKinds, NextStraysUnsure DEF FollowInv
    <2>3. OncePrivate' /\ NoDoubleBubble'
        BY <1>1, NextOncePrivate, NextNoDoubleBubble DEF FollowInv
    <2>. QED
        BY <2>1, <2>2, <2>3 DEF FollowInv
<1>2. CASE UNCHANGED vars
    <2>1. /\ UNCHANGED <<active, drafts, items, overlays, call, seen, late, strays, sending, taken>>
          /\ UNCHANGED <<turn, turns, events, ran, desk, casts, shared, restored, unsure, lagged>>
        BY <1>2 DEF vars, threadVars, callVars, listenerVars, serverVars, deskVars, auxVars
    <2>2. TypeOK'
        BY <1>2, PartsKept, TypeJoin DEF vars, FollowInv, entryVars, linkVars
    <2>3. Sent' = Sent
        BY <2>1 DEF Sent
    <2>4. OnceSent' /\ CallsSent' /\ CallsShared' /\ DirectKinds' /\ (lagged' \/ ReadTurn')
          /\ StraysUnsure'
        BY <2>1, <2>3 DEF FollowInv, OnceSent, CallsSent, CallsShared, DirectKinds, ReadTurn,
                          StraysUnsure
    <2>5. DeskSent' /\ DeskShared'
        BY <2>1, <2>3 DEF FollowInv, DeskSent, DeskShared
    <2>6. InTurn'
        BY <2>1 DEF FollowInv, InTurn, EventsInOrder, Starts, Ends
    <2>7. \A m \in Messages : Own(m) => Own(m)'
        BY <2>1 DEF Own, Once, StartsAlone, LeavesQueue, Marked, TooLate, Queued, Left
    <2>8. OncePrivate' /\ NoDoubleBubble'
        BY <2>1, <2>7 DEF FollowInv, OncePrivate, Private, NoDoubleBubble
    <2>. QED
        BY <2>2, <2>4, <2>5, <2>6, <2>8 DEF FollowInv
<1>. QED
    BY <1>1, <1>2

LEMMA FollowInvariant == Spec => []FollowInv
BY InitFollowInv, NextFollowInv, PTL DEF Spec

(* The thread, the calls, the queue of the desktop and the events keep     *)
(* their types; the turn that runs is one of those that were started.      *)
THEOREM TypeCorrect == Spec => []TypeOK
BY FollowInvariant, PTL DEF FollowInv

(* start_turn shows its message before the server can announce it, and the *)
(* item takes the overlay away, so no message is ever shown as both.       *)
THEOREM NothingShownTwice == Spec => []NoDoubleBubble
BY FollowInvariant, PTL DEF FollowInv

(* Autosending, steering and starting never send one message twice,        *)
(* whatever the number of messages, calls, turns of other clients and      *)
(* faults: only the desktop, a list read earlier, the worker that sends a  *)
(* request again or gives it up in doubt, or a lag of the channel can.     *)
THEOREM NothingRunsTwice == Spec => []RunsOnce
<1>1. FollowInv => RunsOnce
    <2>1. SUFFICES ASSUME FollowInv, NEW m \in Messages, ran[m] > 1, ~lagged,
                          m \notin (shared \cup restored) \cup unsure
                   PROVE  FALSE
        BY DEF RunsOnce
    <2>2. ran[m] <= 1 /\ ran[m] \in Nat
        BY <2>1 DEF FollowInv, TypeOK, OncePrivate, Private, Own
    <2>. QED
        BY <2>1, <2>2
<1>. QED
    BY <1>1, FollowInvariant, PTL
================================================================================
