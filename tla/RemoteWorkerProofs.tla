--------------------------- MODULE RemoteWorkerProofs ---------------------------
(***************************************************************************)
(* The workers of a remote session implement AtLeastOnceCalls, for any     *)
(* runtimes, commands, queue capacity, number of attempts and losses of    *)
(* the transport.                                                          *)
(***************************************************************************)
EXTENDS RemoteWorker, SequenceTheorems, TLAPS

--------------------------------------------------------------------------------
(* The inductive invariant: a pending command is in one place only, and    *)
(* that place bounds how often the server has run it or still may.         *)

Holds(s, r) == \E i \in DOMAIN s : s[i] = r
Once(s) == \A i, j \in DOMAIN s : s[i] = s[j] /\ s[i] # Shutdown => i = j

(* Executed, or sent on a connection that has died since.                  *)
Spent(r) == runs[r] + stray[r]

SentOk(r) ==
    r \in sending =>
        /\ outcome[r] = "pending" /\ route[r] \in Runtimes
        /\ Spent(r) = 0
        /\ \A k \in Runtimes : cur[k] # r /\ ~Holds(queue[k], r)

QueueOk(k) ==
    /\ Once(queue[k])
    /\ \A r \in Commands : Holds(queue[k], r) =>
           outcome[r] = "pending" /\ route[r] = k /\ Spent(r) = 0

PcOk(k) ==
    /\ pc[k] \in {"idle", "exited"} => cur[k] = None
    /\ Waiting(k) => cur[k] # None
    /\ pc[k] = "reconnecting" => (cause[k] = "request" <=> cur[k] # None)
    /\ pc[k] \in {"reconnecting", "retrying"} => cur[k] \notin OneShot
    /\ ran[k] => Waiting(k)
    /\ k \in open <=> pc[k] # "exited"

(* A first try is one copy, a second try another.                          *)
Allowed(k) == (IF pc[k] = "serving" THEN 0 ELSE 1) + (IF ran[k] THEN 1 ELSE 0)

CurOk(k) ==
    cur[k] # None =>
        /\ outcome[cur[k]] = "pending" /\ route[cur[k]] = k
        /\ ~Holds(queue[k], cur[k])
        /\ Spent(cur[k]) <= Allowed(k)
        /\ ran[k] => runs[cur[k]] > 0

SpentOk(r) ==
    /\ Spent(r) <= Tries(r)
    /\ outcome[r] = "new" => Spent(r) = 0

WorkerInv ==
    /\ TypeOK
    /\ \A r \in Commands : SentOk(r) /\ SpentOk(r)
    /\ \A k \in Runtimes : QueueOk(k) /\ PcOk(k) /\ CurOk(k)

--------------------------------------------------------------------------------
(* Queues.                                                                 *)

Entries == Commands \cup {Shutdown}

(* A send puts its command, and nothing else, into the queue.              *)
LEMMA AppendHolds ==
    ASSUME NEW s \in Seq(Entries), NEW x \in Entries
    PROVE  /\ Append(s, x) \in Seq(Entries)
           /\ \A r : Holds(Append(s, x), r) <=> Holds(s, r) \/ r = x
           /\ Once(s) /\ (x = Shutdown \/ ~Holds(s, x)) => Once(Append(s, x))
<1>. DEFINE t == Append(s, x)
<1>1. /\ t \in Seq(Entries) /\ Len(t) = Len(s) + 1
      /\ DOMAIN s = 1..Len(s) /\ DOMAIN t = 1..Len(t) /\ Len(s) \in Nat
    BY AppendProperties, LenProperties
<1>2. t[Len(t)] = x /\ \A i \in DOMAIN s : t[i] = s[i]
    BY <1>1, AppendProperties
<1>3. DOMAIN t = DOMAIN s \cup {Len(t)}
    BY <1>1
<1>. HIDE DEF t
<1>4. \A r : Holds(t, r) <=> Holds(s, r) \/ r = x
    BY <1>2, <1>3 DEF Holds
<1>5. Once(s) /\ (x = Shutdown \/ ~Holds(s, x)) => Once(t)
    BY <1>2, <1>3 DEF Once, Holds
<1>. QED
    BY <1>1, <1>4, <1>5 DEF t

(* Taking the oldest command leaves the others.                            *)
LEMMA TailHolds ==
    ASSUME NEW s \in Seq(Entries), s # <<>>
    PROVE  /\ Tail(s) \in Seq(Entries) /\ Head(s) \in Entries
           /\ Holds(s, Head(s))
           /\ \A r : Holds(Tail(s), r) => Holds(s, r)
           /\ Once(s) => Once(Tail(s))
           /\ Once(s) /\ Head(s) # Shutdown => ~Holds(Tail(s), Head(s))
<1>. DEFINE t == Tail(s)
<1>1. /\ t \in Seq(Entries) /\ Head(s) = s[1] /\ Head(s) \in Entries
      /\ DOMAIN s = 1..Len(s) /\ DOMAIN t = 1..Len(t)
      /\ Len(s) \in Nat /\ Len(t) = Len(s) - 1 /\ Len(s) > 0
    BY HeadTailProperties, LenProperties
<1>2. \A i \in DOMAIN t : t[i] = s[i + 1]
    BY <1>1, HeadTailProperties
<1>3. 1 \in DOMAIN s /\ \A i \in DOMAIN t : i + 1 \in DOMAIN s /\ i + 1 # 1
    BY <1>1
<1>4. \A i, j \in DOMAIN t : i + 1 = j + 1 => i = j
    BY <1>1
<1>. HIDE DEF t
<1>5. Holds(s, Head(s)) /\ \A r : Holds(t, r) => Holds(s, r)
    BY <1>1, <1>2, <1>3 DEF Holds
<1>6. Once(s) => Once(t)
    BY <1>2, <1>3, <1>4 DEF Once
<1>7. Once(s) /\ Head(s) # Shutdown => ~Holds(t, Head(s))
    BY <1>1, <1>2, <1>3 DEF Once, Holds
<1>. QED
    BY <1>1, <1>5, <1>6, <1>7 DEF t

LEMMA EmptyHolds ==
    /\ <<>> \in Seq(Entries)
    /\ Once(<<>>)
    /\ \A r : ~Holds(<<>>, r)
BY DEF Once, Holds

LEMMA QueuedHolds ==
    ASSUME NEW k \in Runtimes
    PROVE  \A r \in Commands : r \in Queued(k) <=> Holds(queue[k], r)
BY TokensAssumption DEF Queued, Holds

--------------------------------------------------------------------------------
(* Types.                                                                  *)

LEMMA InitTypeOK == Init => TypeOK
<1>. SUFFICES ASSUME Init PROVE TypeOK
    OBVIOUS
<1>1. queue \in [Runtimes -> Seq(Entries)]
    BY EmptyHolds DEF Init
<1>2. 0 \in 0..MaxAttempts
    BY AttemptsAssumption
<1>. QED
    BY <1>1, <1>2 DEF Init, TypeOK, WorkerPc, Cause, Link, Health, Entries

LEMMA ReplyType ==
    ASSUME TypeOK, NEW k \in Runtimes, NEW o \in {"ok", "failed"}, Reply(k, o)
    PROVE  /\ outcome' \in [Commands -> {"new", "pending", "ok", "failed"}]
           /\ cur' \in [Runtimes -> Commands \cup {None}]
           /\ pc' \in [Runtimes -> WorkerPc] /\ cause' \in [Runtimes -> Cause]
           /\ attempt' \in [Runtimes -> 0..MaxAttempts]
           /\ UNCHANGED <<route, sending, open>>
<1>1. 0 \in 0..MaxAttempts
    BY AttemptsAssumption
<1>2. outcome' \in [Commands -> {"new", "pending", "ok", "failed"}]
    BY DEF TypeOK, Reply
<1>3. attempt' \in [Runtimes -> 0..MaxAttempts]
    BY <1>1 DEF TypeOK, Reply
<1>4. cur' \in [Runtimes -> Commands \cup {None}]
    BY DEF TypeOK, Reply
<1>. QED
    BY <1>2, <1>3, <1>4 DEF TypeOK, Reply, WorkerPc, Cause

LEMMA StartReconnectType ==
    ASSUME TypeOK, NEW k \in Runtimes, NEW why \in Cause, StartReconnect(k, why)
    PROVE  /\ pc' \in [Runtimes -> WorkerPc] /\ cause' \in [Runtimes -> Cause]
           /\ attempt' \in [Runtimes -> 0..MaxAttempts] /\ health' \in Health
BY AttemptsAssumption DEF TypeOK, StartReconnect, WorkerPc, Cause, Health

LEMMA ExitType ==
    ASSUME TypeOK, NEW k \in Runtimes, FailQueued(k), Exit(k)
    PROVE  /\ outcome' \in [Commands -> {"new", "pending", "ok", "failed"}]
           /\ pc' \in [Runtimes -> WorkerPc] /\ open' \subseteq Runtimes
           /\ queue' \in [Runtimes -> Seq(Entries)]
BY EmptyHolds DEF TypeOK, FailQueued, Exit, WorkerPc, Entries

LEMMA CallerTypeOK ==
    ASSUME TypeOK, NEW r \in Commands, CallerStep(r) \/ StrayRuns(r) \/ \E k \in Runtimes : Issue(r, k)
    PROVE  TypeOK'
<1>. USE DEF TypeOK, serverVars, workerVars, closerVars, callerVars
<1>1. ASSUME NEW k \in Runtimes, Issue(r, k) PROVE TypeOK'
    BY <1>1 DEF Issue
<1>2. CASE Enqueue(r)
    <2>1. queue' \in [Runtimes -> Seq(Entries)]
        <3>1. \A k \in Runtimes : Append(queue[k], r) \in Seq(Entries)
            BY AppendHolds DEF Entries
        <3>2. queue' = [queue EXCEPT ![route[r]] = Append(queue[route[r]], r)]
            BY <1>2 DEF Enqueue
        <3>. QED
            BY <3>1, <3>2 DEF Entries
    <2>. QED
        BY <1>2, <2>1 DEF Enqueue, Entries
<1>3. CASE SendFails(r)
    BY <1>3 DEF SendFails
<1>4. CASE StrayRuns(r)
    BY <1>4 DEF StrayRuns
<1>. QED
    BY <1>1, <1>2, <1>3, <1>4 DEF CallerStep

WorkerStep(k) ==
    \/ TakeCommand(k) \/ TakeShutdown(k)
    \/ ServerRuns(k) \/ ServeOk(k) \/ ServeFails(k)
    \/ LinkDown(k) \/ LinkEvent(k) \/ AttemptEnds(k)

LEMMA WorkerTypeOK ==
    ASSUME TypeOK, NEW k \in Runtimes, WorkerStep(k)
    PROVE  TypeOK'
<1>. USE DEF serverVars, workerVars, closerVars, callerVars
<1>1. CASE TakeCommand(k)
    <2>1. Head(queue[k]) \in Commands /\ Tail(queue[k]) \in Seq(Entries)
        BY <1>1, TailHolds DEF TakeCommand, TypeOK, Entries
    <2>. QED
        BY <1>1, <2>1 DEF TakeCommand, TypeOK, WorkerPc, Entries
<1>2. CASE TakeShutdown(k)
    BY <1>2, ExitType DEF TakeShutdown, TypeOK, Entries
<1>3. CASE ServerRuns(k)
    <2>1. runs' \in [Commands -> Nat]
        <3>1. runs' = [runs EXCEPT ![cur[k]] = runs[cur[k]] + 1]
            BY <1>3 DEF ServerRuns
        <3>2. \A r \in Commands : runs[r] + 1 \in Nat
            BY DEF TypeOK
        <3>. QED
            BY <3>1, <3>2 DEF TypeOK
    <2>2. ran' \in [Runtimes -> BOOLEAN]
        BY <1>3 DEF ServerRuns, TypeOK
    <2>. QED
        BY <1>3, <2>1, <2>2 DEF ServerRuns, TypeOK
<1>4. CASE ServeOk(k)
    BY <1>4, ReplyType DEF ServeOk, TypeOK
<1>5. CASE ServeFails(k)
    <2>1. /\ link' \in [Runtimes -> Link] /\ drops' \in Nat
          /\ stray' \in [Commands -> Nat] /\ ran' \in [Runtimes -> BOOLEAN]
        <3>1. link' = link \/ link' = [link EXCEPT ![k] = "lost"]
            BY <1>5 DEF ServeFails
        <3>2. drops' = drops \/ drops' = drops + 1
            BY <1>5 DEF ServeFails
        <3>3. stray' \in [Commands -> Nat]
            BY <1>5 DEF ServeFails, TypeOK
        <3>4. ran' \in [Runtimes -> BOOLEAN]
            BY <1>5 DEF ServeFails, TypeOK
        <3>5. link' \in [Runtimes -> Link]
            BY <3>1 DEF TypeOK, Link
        <3>6. drops' \in Nat
            BY <3>2 DEF TypeOK
        <3>. QED
            BY <3>3, <3>4, <3>5, <3>6
    <2>2. CASE StartReconnect(k, "request") /\ UNCHANGED <<callerVars, open, cur>>
        BY <1>5, <2>1, <2>2, StartReconnectType DEF ServeFails, TypeOK, Cause
    <2>3. CASE Reply(k, "failed") /\ UNCHANGED health
        BY <1>5, <2>1, <2>3, ReplyType DEF ServeFails, TypeOK
    <2>. QED
        BY <1>5, <2>2, <2>3 DEF ServeFails
<1>6. CASE LinkDown(k)
    BY <1>6 DEF LinkDown, TypeOK, Link
<1>7. CASE LinkEvent(k)
    <2>1. link[k] \in Cause
        BY <1>7 DEF LinkEvent, TypeOK, Link, Cause
    <2>. QED
        BY <1>7, <2>1, StartReconnectType DEF LinkEvent, TypeOK
<1>8. CASE AttemptOk(k)
    BY <1>8, AttemptsAssumption DEF AttemptOk, TypeOK, Link, Health, WorkerPc, Cause
<1>9. CASE AttemptFails(k)
    BY <1>9, AttemptsAssumption DEF AttemptFails, TypeOK, Health
<1>10. CASE GiveUp(k)
    <2>0. health' \in Health /\ UNCHANGED <<serverVars, built, closerVars, drops>>
        BY <1>10 DEF GiveUp, Health
    <2>1. CASE cause[k] = "request" /\ Reply(k, "failed") /\ UNCHANGED <<queue, link>>
        BY <2>0, <2>1, ReplyType DEF TypeOK
    <2>2. CASE cause[k] = "lost"
        <3>1. /\ link' = [link EXCEPT ![k] = "ended"]
              /\ pc' = [pc EXCEPT ![k] = "idle"]
              /\ cause' = [cause EXCEPT ![k] = "none"]
              /\ attempt' = [attempt EXCEPT ![k] = 0]
              /\ UNCHANGED <<callerVars, queue, open, cur>>
            BY <1>10, <2>2 DEF GiveUp
        <3>2. attempt' \in [Runtimes -> 0..MaxAttempts]
            BY <3>1, AttemptsAssumption DEF TypeOK
        <3>. QED
            BY <2>0, <3>1, <3>2 DEF TypeOK, Link, WorkerPc, Cause
    <2>3. CASE cause[k] = "ended"
        <3>1. Exit(k) /\ FailQueued(k)
            BY <1>10, <2>3 DEF GiveUp
        <3>2. cause' \in [Runtimes -> Cause] /\ attempt' \in [Runtimes -> 0..MaxAttempts]
            BY <1>10, <2>3, AttemptsAssumption DEF GiveUp, TypeOK, Cause
        <3>. QED
            BY <1>10, <2>0, <2>3, <3>1, <3>2, ExitType DEF GiveUp, TypeOK, Entries
    <2>. QED
        BY <1>10, <2>1, <2>2, <2>3 DEF GiveUp
<1>. QED
    BY <1>1, <1>2, <1>3, <1>4, <1>5, <1>6, <1>7, <1>8, <1>9, <1>10
       DEF WorkerStep, AttemptEnds

(* A Shutdown goes to the end of a queue, or nowhere.                      *)
LEMMA ShutdownQueue ==
    ASSUME TypeOK, NEW k \in Runtimes, SendShutdown(k)
    PROVE  /\ queue' \in [Runtimes -> Seq(Entries)]
           /\ \A m \in Runtimes : \/ queue'[m] = queue[m]
                                 \/ queue'[m] = Append(queue[m], Shutdown)
<1>1. Append(queue[k], Shutdown) \in Seq(Entries)
    BY AppendHolds DEF TypeOK, Entries
<1>. QED
    BY <1>1 DEF TypeOK, SendShutdown, Entries

LEMMA NextTypeOK ==
    ASSUME TypeOK, [Next]_vars
    PROVE  TypeOK'
<1>. USE DEF serverVars, workerVars, closerVars, callerVars
<1>1. CASE FinishConnect
    BY <1>1 DEF FinishConnect, TypeOK, Health
<1>2. CASE Disconnect
    BY <1>2 DEF Disconnect, TypeOK, Health
<1>3. CASE StopPrimary
    BY <1>3, PrimaryAssumption, ShutdownQueue DEF StopPrimary, TypeOK, Entries
<1>4. ASSUME NEW k \in Runtimes, StopRuntime(k) PROVE TypeOK'
    BY <1>4, ShutdownQueue DEF StopRuntime, TypeOK, Entries
<1>5. CASE UNCHANGED vars
    BY <1>5 DEF vars, TypeOK
<1>. QED
    BY <1>1, <1>2, <1>3, <1>4, <1>5, CallerTypeOK, WorkerTypeOK DEF Next, CloserStep, WorkerStep

(* Every variable keeps its type; in particular no reconnect makes more    *)
(* than MaxAttempts attempts.                                              *)
THEOREM TypeCorrect == Spec => []TypeOK
BY InitTypeOK, NextTypeOK, PTL DEF Spec

--------------------------------------------------------------------------------
(* One place for each pending command, and a bound on its runs.            *)

Placed == \A r \in Commands : SentOk(r) /\ SpentOk(r)
Working == \A k \in Runtimes : QueueOk(k) /\ PcOk(k) /\ CurOk(k)

LEMMA InitWorkerInv == Init => WorkerInv
<1>. SUFFICES ASSUME Init PROVE WorkerInv
    OBVIOUS
<1>1. Placed
    BY DEF Init, Placed, SentOk, SpentOk, Spent, Tries
<1>2. Working
    BY EmptyHolds, TokensAssumption, CommandsAssumption
       DEF Init, Working, QueueOk, PcOk, CurOk, Waiting
<1>. QED
    BY <1>1, <1>2, InitTypeOK DEF WorkerInv, Placed, Working

LEMMA Unmoved ==
    ASSUME WorkerInv,
           UNCHANGED <<callerVars, serverVars, queue, open, pc, cur, cause>>
    PROVE  Placed' /\ Working'
BY DEF WorkerInv, Placed, Working, callerVars, serverVars, SentOk, SpentOk, Spent, Tries,
       QueueOk, PcOk, CurOk, Waiting, Allowed

LEMMA IssueInv ==
    ASSUME WorkerInv, NEW r \in Commands, NEW k \in Runtimes, Issue(r, k)
    PROVE  Placed' /\ Working'
<1>. USE DEF WorkerInv, serverVars, workerVars, Issue
<1>1. \A q \in Commands : SentOk(q)' /\ SpentOk(q)'
    <2>1. SentOk(r)' /\ SpentOk(r)'
        <3>1. Spent(r) = 0
            BY DEF SpentOk
        <3>2. \A m \in Runtimes : cur[m] # r /\ ~Holds(queue[m], r)
            BY TokensAssumption DEF CurOk, QueueOk
        <3>. QED
            BY <3>1, <3>2 DEF SentOk, SpentOk, Spent, Tries, TypeOK
    <2>2. \A q \in Commands \ {r} : SentOk(q)' /\ SpentOk(q)'
        BY DEF SentOk, SpentOk, Spent, Tries, TypeOK
    <2>. QED
        BY <2>1, <2>2
<1>2. \A m \in Runtimes : QueueOk(m)' /\ PcOk(m)' /\ CurOk(m)'
    BY DEF QueueOk, PcOk, CurOk, Waiting, Allowed, Spent, TypeOK
<1>. QED
    BY <1>1, <1>2 DEF Placed, Working

LEMMA EnqueueInv ==
    ASSUME WorkerInv, NEW r \in Commands, Enqueue(r)
    PROVE  Placed' /\ Working'
<1>. USE DEF WorkerInv
<1>. PICK k \in Runtimes : k = route[r]
    BY DEF SentOk, Enqueue
<1>0. /\ outcome[r] = "pending" /\ Spent(r) = 0 /\ r # Shutdown
      /\ \A m \in Runtimes : cur[m] # r /\ ~Holds(queue[m], r)
    BY TokensAssumption DEF SentOk, Enqueue
<1>1. /\ queue'[k] = Append(queue[k], r)
      /\ \A m \in Runtimes \ {k} : queue'[m] = queue[m]
      /\ sending' = sending \ {r}
      /\ UNCHANGED <<outcome, route, serverVars, workerVars>>
    BY <1>0 DEF Enqueue, TypeOK
<1>2. /\ \A q : Holds(queue'[k], q) <=> Holds(queue[k], q) \/ q = r
      /\ Once(queue'[k])
    <2>1. queue[k] \in Seq(Entries) /\ Once(queue[k]) /\ r \in Entries
        BY DEF QueueOk, TypeOK, Entries
    <2>. QED
        BY <1>0, <1>1, <2>1, AppendHolds
<1>3. \A q \in Commands : SentOk(q)' /\ SpentOk(q)'
    BY <1>0, <1>1, <1>2 DEF SentOk, SpentOk, Spent, Tries, serverVars, workerVars
<1>4. \A m \in Runtimes : QueueOk(m)' /\ PcOk(m)' /\ CurOk(m)'
    <2>1. QueueOk(k)' /\ \A m \in Runtimes \ {k} : QueueOk(m)'
        BY <1>0, <1>1, <1>2 DEF QueueOk, Spent, serverVars
    <2>2. \A m \in Runtimes : PcOk(m)'
        BY <1>1 DEF PcOk, Waiting, serverVars, workerVars
    <2>3. \A m \in Runtimes : CurOk(m)'
        BY <1>0, <1>1, <1>2 DEF CurOk, Spent, Allowed, serverVars, workerVars
    <2>. QED
        BY <2>1, <2>2, <2>3
<1>. QED
    BY <1>3, <1>4 DEF Placed, Working

LEMMA SendFailsInv ==
    ASSUME WorkerInv, NEW r \in Commands, SendFails(r)
    PROVE  Placed' /\ Working'
<1>. USE DEF WorkerInv, serverVars, workerVars, SendFails
<1>1. \A q \in Commands : SentOk(q)' /\ SpentOk(q)'
    BY DEF SentOk, SpentOk, Spent, Tries, TypeOK
<1>2. \A m \in Runtimes : QueueOk(m)' /\ PcOk(m)'
    BY DEF QueueOk, PcOk, Waiting, Spent, SentOk, TypeOK
<1>3. \A m \in Runtimes : CurOk(m)'
    BY DEF CurOk, Allowed, Spent, SentOk, TypeOK
<1>. QED
    BY <1>1, <1>2, <1>3 DEF Placed, Working

(* A stray copy is spent before it runs as after.                          *)
LEMMA StrayInv ==
    ASSUME WorkerInv, NEW r \in Commands, StrayRuns(r)
    PROVE  Placed' /\ Working'
<1>. USE DEF WorkerInv, callerVars, workerVars, StrayRuns
<1>1. \A q \in Commands : Spent(q)' = Spent(q) /\ runs'[q] >= runs[q] /\ runs[q] \in Nat /\ runs'[q] \in Nat
    BY DEF Spent, TypeOK
<1>2. \A q \in Commands : SentOk(q)' /\ SpentOk(q)'
    BY <1>1 DEF SentOk, SpentOk, Tries
<1>3. \A m \in Runtimes : QueueOk(m)' /\ PcOk(m)'
    BY <1>1 DEF QueueOk, PcOk, Waiting
<1>4. \A m \in Runtimes : CurOk(m)'
    BY <1>1 DEF CurOk, Allowed, TypeOK
<1>. QED
    BY <1>2, <1>3, <1>4 DEF Placed, Working

LEMMA TakeCommandInv ==
    ASSUME WorkerInv, NEW k \in Runtimes, TakeCommand(k)
    PROVE  Placed' /\ Working'
<1>. USE DEF WorkerInv
<1>. PICK r \in Entries : r = Head(queue[k])
    BY TailHolds DEF TakeCommand, TypeOK, Entries
<1>1. /\ r \in Commands /\ r # Shutdown /\ Holds(queue[k], r)
      /\ Once(Tail(queue[k])) /\ ~Holds(Tail(queue[k]), r)
      /\ \A q : Holds(Tail(queue[k]), q) => Holds(queue[k], q)
    <2>1. queue[k] \in Seq(Entries) /\ Once(queue[k]) /\ queue[k] # <<>> /\ r # Shutdown
        BY DEF TakeCommand, QueueOk, TypeOK, Entries
    <2>. QED
        BY <2>1, TailHolds DEF Entries
<1>2. outcome[r] = "pending" /\ route[r] = k /\ Spent(r) = 0 /\ r \notin sending
    BY <1>1 DEF QueueOk, SentOk
<1>3. pc[k] = "idle" /\ ~ran[k]
    BY DEF TakeCommand, PcOk, Waiting
<1>4. /\ queue'[k] = Tail(queue[k]) /\ cur'[k] = r /\ pc'[k] = "serving"
      /\ \A m \in Runtimes \ {k} : /\ queue'[m] = queue[m] /\ cur'[m] = cur[m]
                                 /\ pc'[m] = pc[m]
      /\ UNCHANGED <<outcome, route, sending, runs, stray, ran, open, cause>>
    BY DEF TakeCommand, TypeOK, callerVars, serverVars
<1>5. \A q \in Commands : SentOk(q)' /\ SpentOk(q)'
    BY <1>1, <1>2, <1>4 DEF SentOk, SpentOk, Spent, Tries
<1>6. QueueOk(k)' /\ \A m \in Runtimes \ {k} : QueueOk(m)'
    BY <1>1, <1>4 DEF QueueOk, Spent
<1>7. PcOk(k)' /\ \A m \in Runtimes \ {k} : PcOk(m)'
    BY <1>1, <1>3, <1>4, TokensAssumption DEF PcOk, Waiting
<1>8. CurOk(k)'
    BY <1>1, <1>2, <1>3, <1>4 DEF CurOk, Spent, Allowed
<1>9. \A m \in Runtimes \ {k} : CurOk(m)'
    BY <1>4 DEF CurOk, Spent, Allowed
<1>. QED
    BY <1>5, <1>6, <1>7, <1>8, <1>9 DEF Placed, Working

(* Whatever is still queued when a worker leaves is in that queue only.    *)
LEMMA ExitInv ==
    ASSUME WorkerInv, NEW k \in Runtimes, pc[k] # "exited", cur[k] = None, FailQueued(k), Exit(k),
           UNCHANGED <<route, sending, serverVars, cur>>,
           \A m \in Runtimes \ {k} : cause'[m] = cause[m]
    PROVE  Placed' /\ Working'
<1>. USE DEF WorkerInv, serverVars
<1>1. \A q \in Commands :
        outcome'[q] = IF Holds(queue[k], q) THEN "failed" ELSE outcome[q]
    BY QueuedHolds DEF FailQueued
<1>2. /\ \A q : ~Holds(queue'[k], q)
      /\ Once(queue'[k])
      /\ \A m \in Runtimes \ {k} : queue'[m] = queue[m] /\ pc'[m] = pc[m]
      /\ pc'[k] = "exited" /\ open' = open \ {k}
    <2>1. queue'[k] = <<>>
        BY DEF Exit, TypeOK
    <2>. QED
        BY <2>1, EmptyHolds DEF Exit, TypeOK
<1>3. \A q \in Commands : SentOk(q)' /\ SpentOk(q)'
    BY <1>1, <1>2 DEF SentOk, SpentOk, Spent, Tries
<1>4. QueueOk(k)' /\ \A m \in Runtimes \ {k} : QueueOk(m)'
    BY <1>1, <1>2 DEF QueueOk, Spent
<1>5. PcOk(k)'
    BY <1>2, TokensAssumption, CommandsAssumption DEF PcOk, Waiting
<1>6. \A m \in Runtimes \ {k} : PcOk(m)'
    BY <1>2 DEF PcOk, Waiting
<1>7. \A m \in Runtimes \ {k} : CurOk(m)'
    BY <1>1, <1>2 DEF CurOk, QueueOk, Spent, Allowed, TypeOK
<1>. QED
    BY <1>3, <1>4, <1>5, <1>6, <1>7 DEF Placed, Working, CurOk

LEMMA ServerRunsInv ==
    ASSUME WorkerInv, NEW k \in Runtimes, ServerRuns(k)
    PROVE  Placed' /\ Working'
<1>. USE DEF WorkerInv
<1>. PICK r \in Commands : r = cur[k]
    BY DEF PcOk, ServerRuns, TypeOK
<1>1. /\ r # None /\ outcome[r] = "pending" /\ ~ran[k] /\ Waiting(k)
      /\ Spent(r) <= Allowed(k) /\ r \notin sending
      /\ \A m \in Runtimes : ~Holds(queue[m], r) /\ (m # k => cur[m] # r)
    BY TokensAssumption DEF PcOk, CurOk, QueueOk, SentOk, ServerRuns
<1>2. /\ Spent(r)' = Spent(r) + 1 /\ runs'[r] > 0
      /\ \A q \in Commands \ {r} : Spent(q)' = Spent(q) /\ runs'[q] = runs[q]
      /\ Spent(r) \in Nat
    <2>1. \A q \in Commands : runs[q] \in Nat /\ stray[q] \in Nat
        BY DEF TypeOK
    <2>2. /\ runs'[r] = runs[r] + 1 /\ \A q \in Commands \ {r} : runs'[q] = runs[q]
          /\ UNCHANGED stray
        BY DEF ServerRuns, TypeOK
    <2>. QED
        BY <2>1, <2>2 DEF Spent
<1>3. /\ ran'[k] /\ \A m \in Runtimes \ {k} : ran'[m] = ran[m]
      /\ UNCHANGED <<outcome, route, sending, queue, open, pc, cur, cause>>
    BY DEF ServerRuns, TypeOK, callerVars, workerVars
<1>4. Spent(r)' <= Allowed(k)' /\ Spent(r)' <= Tries(r)
    BY <1>1, <1>2, <1>3 DEF Allowed, Tries, Waiting, PcOk
<1>5. \A q \in Commands : SentOk(q)' /\ SpentOk(q)'
    BY <1>1, <1>2, <1>3, <1>4 DEF SentOk, SpentOk, Tries
<1>6. \A m \in Runtimes : QueueOk(m)'
    BY <1>1, <1>2, <1>3 DEF QueueOk
<1>7. \A m \in Runtimes : PcOk(m)'
    BY <1>1, <1>3 DEF PcOk, Waiting
<1>8. CurOk(k)'
    BY <1>1, <1>2, <1>3, <1>4 DEF CurOk
<1>9. \A m \in Runtimes \ {k} : CurOk(m)'
    BY <1>1, <1>2, <1>3 DEF CurOk, Allowed, TypeOK
<1>. QED
    BY <1>5, <1>6, <1>7, <1>8, <1>9 DEF Placed, Working

(* A worker that answers holds nothing more; a copy of the answered        *)
(* command may be left behind.                                             *)
LEMMA ReplyInv ==
    ASSUME WorkerInv, NEW k \in Runtimes, NEW r \in Commands, r = cur[k],
           NEW o \in {"ok", "failed"}, Reply(k, o), pc[k] # "exited",
           Spent(r)' <= Tries(r), \A q \in Commands \ {r} : Spent(q)' = Spent(q),
           ~ran'[k], \A m \in Runtimes \ {k} : ran'[m] = ran[m],
           UNCHANGED <<queue, runs>>
    PROVE  Placed' /\ Working'
<1>. USE DEF WorkerInv
<1>1. /\ r # None /\ r \notin sending
      /\ \A m \in Runtimes : ~Holds(queue[m], r) /\ (m # k => cur[m] # r)
    BY TokensAssumption DEF CurOk, QueueOk, SentOk
<1>2. /\ outcome'[r] = o /\ \A q \in Commands \ {r} : outcome'[q] = outcome[q]
      /\ cur'[k] = None /\ pc'[k] = "idle"
      /\ \A m \in Runtimes \ {k} : /\ cur'[m] = cur[m] /\ pc'[m] = pc[m]
                                 /\ cause'[m] = cause[m]
      /\ UNCHANGED <<route, sending, open>>
    BY DEF Reply, TypeOK
<1>3. \A q \in Commands : SentOk(q)' /\ SpentOk(q)'
    BY <1>1, <1>2, TokensAssumption DEF SentOk, SpentOk, Tries
<1>4. \A m \in Runtimes : QueueOk(m)'
    BY <1>1, <1>2 DEF QueueOk
<1>5. PcOk(k)' /\ CurOk(k)'
    BY <1>2, TokensAssumption, CommandsAssumption DEF PcOk, CurOk, Waiting
<1>6. \A m \in Runtimes \ {k} : PcOk(m)'
    BY <1>2 DEF PcOk, Waiting
<1>7. \A m \in Runtimes \ {k} : CurOk(m)'
    BY SMTT(30), <1>1, <1>2 DEF CurOk, Allowed, TypeOK
<1>. QED
    BY <1>3, <1>4, <1>5, <1>6, <1>7 DEF Placed, Working

LEMMA ServeOkInv ==
    ASSUME WorkerInv, NEW k \in Runtimes, ServeOk(k)
    PROVE  Placed' /\ Working'
<1>. USE DEF WorkerInv
<1>1. PICK r \in Commands : r = cur[k]
    BY DEF PcOk, ServeOk, TypeOK
<1>2. /\ Reply(k, "ok") /\ pc[k] # "exited" /\ UNCHANGED <<queue, runs, stray>>
      /\ ~ran'[k] /\ \A m \in Runtimes \ {k} : ran'[m] = ran[m]
    BY DEF ServeOk, Waiting, TypeOK
<1>3. \A q \in Commands : Spent(q)' = Spent(q) /\ Spent(q) <= Tries(q)
    BY <1>2 DEF Spent, SpentOk
<1>. QED
    BY <1>1, <1>2, <1>3, ReplyInv

(* A request that fails has spent one try, whether or not its copy runs.   *)
LEMMA ServeFailsInv ==
    ASSUME WorkerInv, NEW k \in Runtimes, ServeFails(k)
    PROVE  Placed' /\ Working'
<1>. USE DEF WorkerInv
<1>. PICK r \in Commands : r = cur[k]
    BY DEF PcOk, ServeFails, TypeOK
<1>1. /\ r # None /\ outcome[r] = "pending" /\ Waiting(k) /\ r \notin sending
      /\ Spent(r) <= Allowed(k) /\ route[r] = k
      /\ \A m \in Runtimes : ~Holds(queue[m], r) /\ (m # k => cur[m] # r)
      /\ pc[k] = "retrying" => r \notin OneShot
    BY TokensAssumption DEF PcOk, CurOk, QueueOk, SentOk, ServeFails
<1>2. /\ ~ran'[k] /\ \A m \in Runtimes \ {k} : ran'[m] = ran[m]
      /\ UNCHANGED <<queue, runs>>
    BY DEF ServeFails, TypeOK
<1>3. /\ Spent(r) \in Nat
      /\ Spent(r)' = Spent(r) \/ (~ran[k] /\ Spent(r)' = Spent(r) + 1)
      /\ \A q \in Commands \ {r} : Spent(q)' = Spent(q)
    <2>1. \A q \in Commands : runs[q] \in Nat /\ stray[q] \in Nat
        BY DEF TypeOK
    <2>2. stray' = stray \/ (~ran[k] /\ stray' = [stray EXCEPT ![r] = stray[r] + 1])
        BY DEF ServeFails
    <2>3. /\ stray'[r] = stray[r] \/ (~ran[k] /\ stray'[r] = stray[r] + 1)
          /\ \A q \in Commands \ {r} : stray'[q] = stray[q]
        BY <2>2 DEF TypeOK
    <2>. QED
        BY <1>2, <2>1, <2>3 DEF Spent
<1>4. /\ pc[k] = "serving" => Spent(r)' <= 1
      /\ pc[k] = "retrying" => Spent(r)' <= 2
    BY <1>1, <1>3 DEF Allowed
<1>5. Spent(r)' <= Tries(r)
    BY <1>1, <1>3, <1>4 DEF Tries, Waiting
<1>6. CASE pc[k] = "serving" /\ r \notin OneShot
    <2>1. /\ StartReconnect(k, "request")
          /\ UNCHANGED <<outcome, route, sending, open, cur>>
        BY <1>6 DEF ServeFails, callerVars
    <2>2. /\ pc'[k] = "reconnecting" /\ cause'[k] = "request"
          /\ \A m \in Runtimes \ {k} : pc'[m] = pc[m] /\ cause'[m] = cause[m]
        BY <2>1 DEF StartReconnect, TypeOK
    <2>3. \A q \in Commands : SentOk(q)' /\ SpentOk(q)'
        BY <1>1, <1>2, <1>3, <1>5, <2>1 DEF SentOk, SpentOk, Tries
    <2>4. \A m \in Runtimes : QueueOk(m)'
        BY <1>1, <1>2, <1>3, <2>1 DEF QueueOk
    <2>5. PcOk(k)' /\ \A m \in Runtimes \ {k} : PcOk(m)'
        BY <1>1, <1>2, <1>6, <2>1, <2>2 DEF PcOk, Waiting
    <2>6. CurOk(k)'
        BY <1>1, <1>2, <1>4, <1>6, <2>1, <2>2 DEF CurOk, Allowed
    <2>7. \A m \in Runtimes \ {k} : CurOk(m)'
        BY <1>1, <1>2, <1>3, <2>1, <2>2 DEF CurOk, Allowed, TypeOK
    <2>. QED
        BY <2>3, <2>4, <2>5, <2>6, <2>7 DEF Placed, Working
<1>7. CASE ~(pc[k] = "serving" /\ r \notin OneShot)
    <2>1. Reply(k, "failed") /\ pc[k] # "exited"
        BY <1>1, <1>7 DEF ServeFails, Waiting
    <2>. QED
        BY <1>2, <1>3, <1>5, <2>1, ReplyInv
<1>. QED
    BY <1>6, <1>7

LEMMA LinkEventInv ==
    ASSUME WorkerInv, NEW k \in Runtimes, LinkEvent(k)
    PROVE  Placed' /\ Working'
<1>. USE DEF WorkerInv
<1>1. cur[k] = None /\ ~ran[k] /\ link[k] # "request"
    BY DEF LinkEvent, PcOk, Waiting, TypeOK, Link
<1>2. /\ pc'[k] = "reconnecting" /\ cause'[k] = link[k] /\ pc[k] # "exited"
      /\ \A m \in Runtimes \ {k} : pc'[m] = pc[m] /\ cause'[m] = cause[m]
      /\ UNCHANGED <<callerVars, serverVars, queue, open, cur>>
    BY DEF LinkEvent, StartReconnect, TypeOK
<1>3. Placed'
    BY <1>2 DEF Placed, SentOk, SpentOk, Spent, Tries, callerVars, serverVars
<1>4. \A m \in Runtimes : QueueOk(m)'
    BY <1>2 DEF QueueOk, Spent, callerVars, serverVars
<1>5. PcOk(k)' /\ CurOk(k)'
    BY <1>1, <1>2, TokensAssumption, CommandsAssumption DEF PcOk, CurOk, Waiting, serverVars
<1>6. \A m \in Runtimes \ {k} : PcOk(m)' /\ CurOk(m)'
    BY <1>2 DEF PcOk, CurOk, Waiting, Allowed, Spent, callerVars, serverVars
<1>. QED
    BY <1>3, <1>4, <1>5, <1>6 DEF Working

(* A reconnect ends with the request on its way again, or with nothing to  *)
(* do.                                                                     *)
LEMMA BackInv ==
    ASSUME WorkerInv, NEW k \in Runtimes, pc[k] = "reconnecting",
           pc' = [pc EXCEPT ![k] = IF cause[k] = "request" THEN "retrying" ELSE "idle"],
           cause' = [cause EXCEPT ![k] = "none"],
           UNCHANGED <<callerVars, serverVars, queue, open, cur>>
    PROVE  Placed' /\ Working'
<1>. USE DEF WorkerInv
<1>1. /\ pc'[k] = IF cause[k] = "request" THEN "retrying" ELSE "idle"
      /\ \A m \in Runtimes \ {k} : pc'[m] = pc[m] /\ cause'[m] = cause[m]
    BY DEF TypeOK
<1>2. Placed'
    BY DEF Placed, SentOk, SpentOk, Spent, Tries, callerVars, serverVars
<1>3. \A m \in Runtimes : QueueOk(m)'
    BY DEF QueueOk, Spent, callerVars, serverVars
<1>4. PcOk(k)' /\ CurOk(k)'
    BY <1>1 DEF PcOk, CurOk, Waiting, Allowed, Spent, callerVars, serverVars
<1>5. \A m \in Runtimes \ {k} : PcOk(m)' /\ CurOk(m)'
    BY <1>1 DEF PcOk, CurOk, Waiting, Allowed, Spent, callerVars, serverVars
<1>. QED
    BY <1>2, <1>3, <1>4, <1>5 DEF Working

LEMMA GiveUpInv ==
    ASSUME WorkerInv, NEW k \in Runtimes, GiveUp(k)
    PROVE  Placed' /\ Working'
<1>. USE DEF WorkerInv
<1>0. /\ UNCHANGED serverVars /\ pc[k] = "reconnecting" /\ ~ran[k]
      /\ cause[k] = "request" <=> cur[k] # None
    BY DEF GiveUp, PcOk, Waiting
<1>1. CASE cause[k] = "request"
    <2>1. Reply(k, "failed") /\ UNCHANGED queue
        BY <1>1 DEF GiveUp
    <2>2. PICK r \in Commands : r = cur[k]
        BY <1>0, <1>1 DEF TypeOK
    <2>3. \A q \in Commands : Spent(q)' = Spent(q) /\ Spent(q) <= Tries(q)
        BY <1>0 DEF Spent, SpentOk, serverVars
    <2>. QED
        BY <1>0, <2>1, <2>2, <2>3, ReplyInv DEF serverVars
<1>2. CASE cause[k] = "lost"
    <2>1. /\ pc' = [pc EXCEPT ![k] = "idle"] /\ cause' = [cause EXCEPT ![k] = "none"]
          /\ UNCHANGED <<callerVars, queue, open, cur>>
        BY <1>2 DEF GiveUp
    <2>. QED
        BY <1>0, <1>2, <2>1, BackInv
<1>3. CASE cause[k] = "ended"
    <2>1. /\ Exit(k) /\ FailQueued(k) /\ cause' = [cause EXCEPT ![k] = "none"]
          /\ UNCHANGED <<route, sending, cur>>
        BY <1>3 DEF GiveUp
    <2>2. \A m \in Runtimes \ {k} : cause'[m] = cause[m]
        BY <2>1 DEF TypeOK
    <2>. QED
        BY <1>0, <1>3, <2>1, <2>2, ExitInv
<1>. QED
    BY <1>1, <1>2, <1>3 DEF GiveUp

LEMMA ShutdownInv ==
    ASSUME WorkerInv, NEW k \in Runtimes, SendShutdown(k),
           UNCHANGED <<callerVars, serverVars, workerVars>>
    PROVE  Placed' /\ Working'
<1>. USE DEF WorkerInv, callerVars, serverVars, workerVars
<1>1. \A m \in Runtimes : /\ Once(queue'[m])
                         /\ \A r \in Commands : Holds(queue'[m], r) <=> Holds(queue[m], r)
    <2>. TAKE m \in Runtimes
    <2>1. queue[m] \in Seq(Entries) /\ Once(queue[m])
        BY DEF QueueOk, TypeOK, Entries
    <2>2. CASE queue'[m] = queue[m]
        BY <2>1, <2>2
    <2>3. CASE queue'[m] = Append(queue[m], Shutdown)
        BY <2>1, <2>3, AppendHolds, TokensAssumption DEF Entries
    <2>. QED
        BY <2>2, <2>3, ShutdownQueue
<1>2. Placed'
    BY <1>1 DEF Placed, SentOk, SpentOk, Spent, Tries
<1>3. \A m \in Runtimes : QueueOk(m)'
    BY <1>1 DEF QueueOk, Spent
<1>4. \A m \in Runtimes : PcOk(m)'
    BY DEF PcOk, Waiting
<1>5. \A m \in Runtimes : CurOk(m)'
    BY <1>1 DEF CurOk, Allowed, Spent, TypeOK
<1>. QED
    BY <1>2, <1>3, <1>4, <1>5 DEF Working

LEMMA NextWorkerInv ==
    ASSUME WorkerInv, [Next]_vars
    PROVE  WorkerInv'
<1>0. TypeOK'
    BY NextTypeOK DEF WorkerInv
<1>1. ASSUME FinishConnect \/ Disconnect \/ UNCHANGED vars PROVE Placed' /\ Working'
    <2>1. UNCHANGED <<callerVars, serverVars, queue, workerVars>>
        BY <1>1 DEF FinishConnect, Disconnect, vars
    <2>2. UNCHANGED <<callerVars, serverVars, queue, open, pc, cur, cause>>
        BY <2>1 DEF workerVars
    <2>. QED
        BY <2>2, Unmoved
<1>2. ASSUME NEW r \in Commands, CallerStep(r) PROVE Placed' /\ Working'
    BY <1>2, EnqueueInv, SendFailsInv DEF CallerStep
<1>3. ASSUME NEW k \in Runtimes, WorkerStep(k) PROVE Placed' /\ Working'
    <2>1. CASE TakeShutdown(k)
        <3>1. cur[k] = None /\ pc[k] # "exited"
            BY <2>1 DEF TakeShutdown, PcOk, WorkerInv
        <3>. QED
            BY <2>1, <3>1, ExitInv DEF TakeShutdown
    <2>2. CASE LinkDown(k)
        BY <2>2, Unmoved DEF LinkDown, workerVars
    <2>3. CASE AttemptOk(k)
        BY <2>3, BackInv DEF AttemptOk
    <2>4. CASE AttemptFails(k)
        BY <2>4, Unmoved DEF AttemptFails
    <2>. QED
        BY <1>3, <2>1, <2>2, <2>3, <2>4, TakeCommandInv, ServerRunsInv, ServeOkInv,
           ServeFailsInv, LinkEventInv, GiveUpInv DEF WorkerStep, AttemptEnds
<1>4. ASSUME StopPrimary PROVE Placed' /\ Working'
    BY <1>4, PrimaryAssumption, ShutdownInv DEF StopPrimary
<1>5. ASSUME NEW k \in Runtimes, StopRuntime(k) PROVE Placed' /\ Working'
    BY <1>5, ShutdownInv DEF StopRuntime
<1>6. Placed' /\ Working'
    BY <1>1, <1>2, <1>3, <1>4, <1>5, IssueInv, StrayInv DEF Next, CloserStep, WorkerStep
<1>. QED
    BY <1>0, <1>6 DEF WorkerInv, Placed, Working

--------------------------------------------------------------------------------
(* The session implements the calls.                                       *)

LEMMA CallsInit == Init => Calls!Init
BY DEF Init, Calls!Init

(* A command held by a worker that waits may be run and answered.          *)
LEMMA HeldCall ==
    ASSUME WorkerInv, NEW k \in Runtimes, cur[k] # None
    PROVE  /\ cur[k] \in Commands /\ outcome[cur[k]] = "pending"
           /\ ran[k] => runs[cur[k]] > 0
BY DEF WorkerInv, CurOk, TypeOK

LEMMA ReplyAnswers ==
    ASSUME WorkerInv, NEW k \in Runtimes, cur[k] # None, NEW o \in {"ok", "failed"},
           o = "ok" => ran[k], Reply(k, o), UNCHANGED runs
    PROVE  Calls!Next
<1>1. Calls!Answer(cur[k], o)
    BY HeldCall DEF Reply, Calls!Answer
<1>. QED
    BY <1>1, HeldCall DEF Calls!Next

LEMMA ExitAnswers ==
    ASSUME WorkerInv, NEW k \in Runtimes, FailQueued(k), UNCHANGED runs
    PROVE  Calls!Next
<1>. DEFINE R == {r \in Commands : r \in Queued(k)}
<1>1. \A r \in R : outcome[r] = "pending"
    BY QueuedHolds DEF WorkerInv, QueueOk
<1>2. Calls!FailAll(R)
    BY <1>1 DEF FailQueued, Calls!FailAll
<1>. QED
    BY <1>2 DEF Calls!Next

LEMMA CallsStep ==
    ASSUME WorkerInv, [Next]_vars
    PROVE  [Calls!Next]_<<outcome, runs>>
<1>. USE DEF callerVars, serverVars
<1>1. ASSUME NEW r \in Commands, NEW k \in Runtimes, Issue(r, k)
      PROVE  Calls!Next
    <2>1. Calls!Issue(r)
        BY <1>1 DEF Issue, Calls!Issue
    <2>. QED
        BY <2>1 DEF Calls!Next
<1>2. ASSUME NEW r \in Commands, SendFails(r)
      PROVE  Calls!Next
    <2>1. Calls!Answer(r, "failed")
        BY <1>2 DEF SendFails, WorkerInv, SentOk, Calls!Answer
    <2>. QED
        BY <2>1 DEF Calls!Next
<1>3. ASSUME NEW r \in Commands, StrayRuns(r)
      PROVE  Calls!Next
    <2>1. stray[r] > 0 /\ Spent(r) <= Tries(r) /\ runs[r] \in Nat /\ stray[r] \in Nat
        BY <1>3 DEF StrayRuns, WorkerInv, SpentOk, TypeOK
    <2>2. outcome[r] # "new" /\ runs[r] < Tries(r)
        BY <2>1 DEF Spent, Tries, WorkerInv, SpentOk
    <2>3. Calls!Run(r)
        BY <1>3, <2>2 DEF StrayRuns, Calls!Run
    <2>. QED
        BY <2>3 DEF Calls!Next
<1>4. ASSUME NEW k \in Runtimes, ServerRuns(k)
      PROVE  Calls!Next
    <2>1. cur[k] # None /\ Waiting(k) /\ ~ran[k]
        BY <1>4 DEF ServerRuns, WorkerInv, PcOk
    <2>2. PICK r \in Commands : r = cur[k] /\ outcome[r] = "pending"
        BY <2>1, HeldCall
    <2>3. runs[r] < Tries(r)
        <3>1. Spent(r) <= Allowed(k) /\ runs[r] \in Nat /\ stray[r] \in Nat
            BY <2>1, <2>2 DEF WorkerInv, CurOk, TypeOK
        <3>. QED
            BY <2>1, <2>2, <3>1 DEF WorkerInv, PcOk, Allowed, Spent, Tries, Waiting
    <2>4. Calls!Run(r)
        BY <1>4, <2>2, <2>3 DEF ServerRuns, Calls!Run
    <2>. QED
        BY <2>4 DEF Calls!Next
<1>5. ASSUME NEW k \in Runtimes, ServeOk(k)
      PROVE  Calls!Next
    <2>1. cur[k] # None
        BY <1>5 DEF ServeOk, WorkerInv, PcOk
    <2>. QED
        BY <1>5, <2>1, ReplyAnswers DEF ServeOk
<1>6. ASSUME NEW k \in Runtimes, ServeFails(k)
      PROVE  Calls!Next \/ UNCHANGED <<outcome, runs>>
    <2>1. cur[k] # None
        BY <1>6 DEF ServeFails, WorkerInv, PcOk
    <2>. QED
        BY <1>6, <2>1, ReplyAnswers DEF ServeFails
<1>7. ASSUME NEW k \in Runtimes, GiveUp(k)
      PROVE  Calls!Next \/ UNCHANGED <<outcome, runs>>
    <2>1. cause[k] = "request" => cur[k] # None
        BY <1>7 DEF GiveUp, WorkerInv, PcOk
    <2>. QED
        BY <1>7, <2>1, ReplyAnswers, ExitAnswers DEF GiveUp
<1>8. ASSUME NEW k \in Runtimes, TakeShutdown(k)
      PROVE  Calls!Next
    BY <1>8, ExitAnswers DEF TakeShutdown
<1>9. ASSUME \/ FinishConnect \/ Disconnect \/ CloserStep \/ UNCHANGED vars
             \/ \E r \in Commands : Enqueue(r)
             \/ \E k \in Runtimes : \/ TakeCommand(k) \/ LinkDown(k) \/ LinkEvent(k)
                                   \/ AttemptOk(k) \/ AttemptFails(k)
      PROVE  UNCHANGED <<outcome, runs>>
    BY <1>9 DEF FinishConnect, Disconnect, CloserStep, StopPrimary, StopRuntime, vars,
       Enqueue, TakeCommand, LinkDown, LinkEvent, AttemptOk, AttemptFails
<1>. QED
    BY <1>1, <1>2, <1>3, <1>4, <1>5, <1>6, <1>7, <1>8, <1>9
       DEF Next, CallerStep, AttemptEnds

(* The workers answer each command at most once, a request runs at most    *)
(* twice and any other command at most once, and a caller that is told of  *)
(* success was served: whatever connections die, with copies of a command  *)
(* still on their way, and whenever the session is disconnected.           *)
THEOREM WorkerImplementsCalls == Spec => CallSpec
<1>1. WorkerInv /\ [Next]_vars => [Calls!Next]_<<outcome, runs>>
    BY CallsStep
<1>2. Calls!vars = <<outcome, runs>>
    BY DEF Calls!vars
<1>. QED
    BY <1>1, <1>2, CallsInit, InitWorkerInv, NextWorkerInv, PTL DEF Spec, CallSpec, Calls!Spec, Calls!vars

--------------------------------------------------------------------------------
(***************************************************************************)
(* What the answer to every command and the end of every worker rest on:   *)
(* nothing that is owed falls between the callers, the queues and the      *)
(* workers, so that a task which the runtime schedules always has it.      *)
(***************************************************************************)

Held(r, k) == Holds(queue[k], r) \/ cur[k] = r

(* A command without an answer is with its sender, or with a worker that   *)
(* has not left.                                                           *)
PendingIsOwned ==
    \A r \in Commands :
        outcome[r] = "pending" => r \in sending \/ \E k \in open : Held(r, k)

(* Once disconnect() has sent Shutdown to a worker, it is in the worker's  *)
(* queue until the worker has left, whatever is queued before it.          *)
ShutdownIsKept ==
    closer \in {"runtimes", "done"} => \A k \in open \ toStop : Holds(queue[k], Shutdown)

OwedInv ==
    /\ WorkerInv
    /\ PendingIsOwned
    /\ ShutdownIsKept
    /\ closer = "done" => toStop = {}

LEMMA InitOwedInv == Init => OwedInv
BY InitWorkerInv DEF Init, OwedInv, PendingIsOwned, ShutdownIsKept

(* A step that answers nothing and empties no queue keeps what is owed.    *)
LEMMA NothingDropped ==
    ASSUME OwedInv, UNCHANGED <<outcome, sending, open, closer, toStop>>,
           \A k \in Runtimes : /\ \A r : Held(r, k) => Held(r, k)'
                               /\ Holds(queue[k], Shutdown) => Holds(queue'[k], Shutdown)
    PROVE  PendingIsOwned' /\ ShutdownIsKept'
BY DEF OwedInv, PendingIsOwned, ShutdownIsKept, WorkerInv, TypeOK

(* What is behind the first command of a queue stays in it.                *)
LEMMA TailKeeps ==
    ASSUME NEW s \in Seq(Entries), s # <<>>
    PROVE  \A r : Holds(s, r) => r = Head(s) \/ Holds(Tail(s), r)
<1>. DEFINE t == Tail(s)
<1>1. /\ Head(s) = s[1] /\ DOMAIN s = 1..Len(s) /\ DOMAIN t = 1..Len(t)
      /\ Len(s) \in Nat /\ Len(t) = Len(s) - 1 /\ Len(s) > 0
    BY HeadTailProperties, LenProperties
<1>2. \A i \in DOMAIN t : t[i] = s[i + 1]
    BY <1>1, HeadTailProperties
<1>3. \A i \in DOMAIN s : i = 1 \/ (i - 1 \in DOMAIN t /\ (i - 1) + 1 = i)
    BY <1>1
<1>. HIDE DEF t
<1>4. \A i \in DOMAIN s : i = 1 \/ t[i - 1] = s[i]
    BY <1>2, <1>3
<1>5. \A r : Holds(s, r) => r = Head(s) \/ Holds(t, r)
    BY <1>1, <1>3, <1>4 DEF Holds
<1>. QED
    BY <1>5 DEF t

LEMMA CallerOwed ==
    ASSUME OwedInv, NEW r \in Commands,
           CallerStep(r) \/ StrayRuns(r) \/ \E k \in Runtimes : Issue(r, k)
    PROVE  PendingIsOwned' /\ ShutdownIsKept'
<1>. USE DEF OwedInv, callerVars, serverVars, workerVars, closerVars
<1>1. ASSUME NEW k \in Runtimes, Issue(r, k) PROVE PendingIsOwned' /\ ShutdownIsKept'
    BY <1>1 DEF Issue, PendingIsOwned, ShutdownIsKept, Held, WorkerInv, TypeOK
<1>2. CASE Enqueue(r)
    <2>1. PICK k \in Runtimes : k = route[r] /\ k \in open
        BY <1>2 DEF Enqueue, WorkerInv, SentOk
    <2>2. /\ queue'[k] = Append(queue[k], r)
          /\ \A m \in Runtimes \ {k} : queue'[m] = queue[m]
          /\ sending' = sending \ {r}
          /\ UNCHANGED <<outcome, open, cur, closer, toStop>>
        BY <1>2, <2>1 DEF Enqueue, WorkerInv, TypeOK
    <2>3. \A q : Holds(queue'[k], q) <=> Holds(queue[k], q) \/ q = r
        <3>1. queue[k] \in Seq(Entries) /\ r \in Entries
            BY DEF WorkerInv, TypeOK, Entries
        <3>. QED
            BY <2>2, <3>1, AppendHolds
    <2>4. \A m \in Runtimes, q \in Entries : Holds(queue[m], q) => Holds(queue'[m], q)
        BY <2>2, <2>3
    <2>5. PendingIsOwned'
        <3>. SUFFICES ASSUME NEW q \in Commands, outcome'[q] = "pending", q \notin sending'
                      PROVE  \E m \in open : Held(q, m)'
            BY <2>2 DEF PendingIsOwned
        <3>1. CASE q = r
            BY <2>1, <2>3, <3>1 DEF Held
        <3>2. CASE q # r
            <4>1. PICK m \in open : Held(q, m)
                BY <2>2, <3>2 DEF PendingIsOwned
            <4>. QED
                BY <2>2, <2>4, <4>1 DEF Held, Entries, WorkerInv, TypeOK
        <3>. QED
            BY <3>1, <3>2
    <2>6. ShutdownIsKept'
        BY <2>2, <2>4 DEF ShutdownIsKept, Entries, WorkerInv, TypeOK
    <2>. QED
        BY <2>5, <2>6
<1>3. CASE SendFails(r)
    BY <1>3 DEF SendFails, PendingIsOwned, ShutdownIsKept, Held, WorkerInv, TypeOK
<1>4. CASE StrayRuns(r)
    BY <1>4, NothingDropped DEF StrayRuns, Held
<1>. QED
    BY <1>1, <1>2, <1>3, <1>4 DEF CallerStep

LEMMA TakeOwed ==
    ASSUME OwedInv, NEW k \in Runtimes, TakeCommand(k)
    PROVE  PendingIsOwned' /\ ShutdownIsKept'
<1>1. cur[k] = None /\ queue[k] \in Seq(Entries) /\ queue[k] # <<>>
    BY DEF TakeCommand, OwedInv, WorkerInv, PcOk, TypeOK, Entries
<1>2. /\ queue'[k] = Tail(queue[k]) /\ cur'[k] = Head(queue[k]) /\ Head(queue[k]) # Shutdown
      /\ \A m \in Runtimes \ {k} : queue'[m] = queue[m] /\ cur'[m] = cur[m]
      /\ UNCHANGED <<outcome, sending, open, closer, toStop>>
    BY DEF TakeCommand, callerVars, closerVars, OwedInv, WorkerInv, TypeOK
<1>3. \A r : Holds(queue[k], r) => r = cur'[k] \/ Holds(queue'[k], r)
    BY <1>1, <1>2, TailKeeps
<1>4. PendingIsOwned'
    BY ZenonT(40), <1>1, <1>2, <1>3, TokensAssumption, CommandsAssumption
       DEF OwedInv, PendingIsOwned, Held, WorkerInv, TypeOK
<1>5. ShutdownIsKept'
    BY <1>2, <1>3 DEF OwedInv, ShutdownIsKept, WorkerInv, TypeOK
<1>. QED
    BY <1>4, <1>5

(* A worker that leaves answers what it had.                               *)
LEMMA ExitOwed ==
    ASSUME OwedInv, NEW k \in Runtimes, cur[k] = None, FailQueued(k), Exit(k),
           UNCHANGED <<sending, cur, closer, toStop>>
    PROVE  PendingIsOwned' /\ ShutdownIsKept'
<1>1. \A q \in Commands :
        outcome'[q] = IF Holds(queue[k], q) THEN "failed" ELSE outcome[q]
    BY QueuedHolds DEF FailQueued
<1>2. open' = open \ {k} /\ \A m \in Runtimes \ {k} : queue'[m] = queue[m]
    BY DEF Exit, OwedInv, WorkerInv, TypeOK
<1>3. PendingIsOwned'
    <2>. SUFFICES ASSUME NEW q \in Commands, outcome'[q] = "pending", q \notin sending
                  PROVE  \E m \in open' : Held(q, m)'
        BY DEF PendingIsOwned
    <2>1. outcome[q] = "pending" /\ ~Holds(queue[k], q)
        BY <1>1
    <2>2. PICK m \in open : Held(q, m)
        BY <2>1 DEF OwedInv, PendingIsOwned
    <2>3. m # k
        BY <2>1, <2>2, TokensAssumption, CommandsAssumption DEF Held
    <2>. QED
        BY <1>2, <2>2, <2>3 DEF Held, OwedInv, WorkerInv, TypeOK
<1>4. ShutdownIsKept'
    BY <1>2 DEF OwedInv, ShutdownIsKept, WorkerInv, TypeOK
<1>. QED
    BY <1>3, <1>4

LEMMA ReplyOwed ==
    ASSUME OwedInv, NEW k \in Runtimes, cur[k] # None, NEW o \in {"ok", "failed"}, Reply(k, o),
           UNCHANGED <<queue, closer, toStop>>
    PROVE  PendingIsOwned' /\ ShutdownIsKept'
<1>1. /\ cur[k] \in Commands /\ outcome'[cur[k]] # "pending"
      /\ \A q \in Commands \ {cur[k]} : outcome'[q] = outcome[q]
      /\ \A m \in Runtimes \ {k} : cur'[m] = cur[m]
      /\ UNCHANGED <<sending, open>>
    BY DEF Reply, OwedInv, WorkerInv, TypeOK
<1>2. PendingIsOwned'
    <2>. SUFFICES ASSUME NEW q \in Commands, outcome'[q] = "pending", q \notin sending
                  PROVE  \E m \in open : Held(q, m)'
        BY <1>1 DEF PendingIsOwned
    <2>1. q # cur[k] /\ outcome[q] = "pending"
        BY <1>1
    <2>2. PICK m \in open : Held(q, m)
        BY <2>1 DEF OwedInv, PendingIsOwned
    <2>. QED
        BY <1>1, <2>1, <2>2 DEF Held, OwedInv, WorkerInv, TypeOK
<1>. QED
    BY <1>1, <1>2 DEF OwedInv, ShutdownIsKept

LEMMA WorkerOwed ==
    ASSUME OwedInv, NEW k \in Runtimes, WorkerStep(k)
    PROVE  PendingIsOwned' /\ ShutdownIsKept'
<1>. USE DEF callerVars, serverVars, closerVars
<1>1. CASE TakeShutdown(k)
    <2>1. cur[k] = None
        BY <1>1 DEF TakeShutdown, OwedInv, WorkerInv, PcOk
    <2>. QED
        BY <1>1, <2>1, ExitOwed DEF TakeShutdown
<1>2. CASE ServeOk(k)
    <2>1. cur[k] # None
        BY <1>2 DEF ServeOk, OwedInv, WorkerInv, PcOk
    <2>. QED
        BY <1>2, <2>1, ReplyOwed DEF ServeOk
<1>3. CASE ServeFails(k)
    <2>1. cur[k] # None /\ UNCHANGED <<queue, closer, toStop>>
        BY <1>3 DEF ServeFails, OwedInv, WorkerInv, PcOk
    <2>2. CASE Reply(k, "failed")
        BY <2>1, <2>2, ReplyOwed
    <2>3. CASE UNCHANGED <<outcome, sending, open, cur>>
        BY <2>1, <2>3, NothingDropped DEF Held
    <2>. QED
        BY <1>3, <2>2, <2>3 DEF ServeFails
<1>4. CASE GiveUp(k)
    <2>1. UNCHANGED <<closer, toStop>> /\ (cause[k] = "request" <=> cur[k] # None)
        BY <1>4 DEF GiveUp, OwedInv, WorkerInv, PcOk
    <2>2. CASE cause[k] = "request"
        BY <1>4, <2>1, <2>2, ReplyOwed DEF GiveUp
    <2>3. CASE cause[k] = "lost"
        <3>1. UNCHANGED <<outcome, sending, queue, open, cur>>
            BY <1>4, <2>3 DEF GiveUp
        <3>. QED
            BY <2>1, <3>1, NothingDropped DEF Held
    <2>4. CASE cause[k] = "ended"
        BY <1>4, <2>1, <2>4, ExitOwed DEF GiveUp
    <2>. QED
        BY <1>4, <2>2, <2>3, <2>4 DEF GiveUp
<1>5. CASE ServerRuns(k) \/ LinkDown(k) \/ LinkEvent(k) \/ AttemptOk(k) \/ AttemptFails(k)
    <2>1. UNCHANGED <<outcome, sending, open, closer, toStop, queue, cur>>
        BY <1>5 DEF ServerRuns, LinkDown, LinkEvent, AttemptOk, AttemptFails, workerVars
    <2>. QED
        BY <2>1, NothingDropped DEF Held
<1>. QED
    BY <1>1, <1>2, <1>3, <1>4, <1>5, TakeOwed DEF WorkerStep, AttemptEnds

(* Shutdown goes to the end of the queue of a worker that has not left.    *)
LEMMA CloserOwed ==
    ASSUME OwedInv, CloserStep \/ Disconnect
    PROVE  PendingIsOwned' /\ ShutdownIsKept' /\ (closer' = "done" => toStop' = {})
<1>. USE DEF callerVars, serverVars, workerVars
<1>1. ASSUME NEW k \in Runtimes, SendShutdown(k), UNCHANGED <<outcome, sending, open, cur>>
      PROVE  /\ PendingIsOwned'
             /\ \A m \in Runtimes : Holds(queue[m], Shutdown) => Holds(queue'[m], Shutdown)
             /\ k \in open => Holds(queue'[k], Shutdown)
    <2>1. \A m \in Runtimes, q \in Entries : Holds(queue[m], q) => Holds(queue'[m], q)
        <3>. TAKE m \in Runtimes
        <3>1. queue[m] \in Seq(Entries) /\ Shutdown \in Entries
            BY DEF OwedInv, WorkerInv, TypeOK, Entries
        <3>2. \A q : Holds(queue[m], q) => Holds(Append(queue[m], Shutdown), q)
            BY <3>1, AppendHolds
        <3>3. queue'[m] = queue[m] \/ queue'[m] = Append(queue[m], Shutdown)
            BY <1>1, ShutdownQueue DEF OwedInv, WorkerInv
        <3>. QED
            BY <3>2, <3>3
    <2>2. k \in open => Holds(queue'[k], Shutdown)
        <3>1. queue[k] \in Seq(Entries) /\ Shutdown \in Entries
            BY DEF OwedInv, WorkerInv, TypeOK, Entries
        <3>2. k \in open => queue'[k] = Append(queue[k], Shutdown)
            BY <1>1 DEF SendShutdown, OwedInv, WorkerInv, TypeOK
        <3>3. Holds(Append(queue[k], Shutdown), Shutdown)
            BY <3>1, AppendHolds
        <3>. QED
            BY <3>2, <3>3
    <2>3. PendingIsOwned'
        BY <1>1, <2>1 DEF OwedInv, PendingIsOwned, Held, Entries, WorkerInv, TypeOK
    <2>. QED
        BY <2>1, <2>2, <2>3 DEF Entries
<1>2. CASE StopPrimary
    <2>1. PendingIsOwned'
        BY <1>1, <1>2, PrimaryAssumption DEF StopPrimary
    <2>2. open' \subseteq Runtimes /\ toStop' = Runtimes /\ closer' = "runtimes"
        BY <1>2 DEF StopPrimary, OwedInv, WorkerInv, TypeOK
    <2>. QED
        BY <2>1, <2>2 DEF ShutdownIsKept
<1>3. ASSUME NEW k \in Runtimes, StopRuntime(k)
      PROVE  PendingIsOwned' /\ ShutdownIsKept' /\ (closer' = "done" => toStop' = {})
    <2>1. /\ SendShutdown(k) /\ UNCHANGED <<outcome, sending, open, cur>>
          /\ closer = "runtimes" /\ toStop' = toStop \ {k} /\ (closer' = "done" => toStop = {k})
        BY <1>3 DEF StopRuntime
    <2>2. open \subseteq Runtimes
        BY DEF OwedInv, WorkerInv, TypeOK
    <2>. QED
        BY <1>1, <2>1, <2>2 DEF OwedInv, ShutdownIsKept
<1>4. CASE Disconnect
    BY <1>4 DEF Disconnect, OwedInv, PendingIsOwned, ShutdownIsKept, Held
<1>. QED
    BY <1>2, <1>3, <1>4 DEF CloserStep

LEMMA NextOwedInv ==
    ASSUME OwedInv, [Next]_vars
    PROVE  OwedInv'
<1>1. WorkerInv'
    BY NextWorkerInv DEF OwedInv
<1>2. CASE FinishConnect \/ UNCHANGED vars
    <2>1. UNCHANGED <<outcome, sending, open, closer, toStop, queue, cur>>
        BY <1>2 DEF FinishConnect, vars, callerVars, workerVars, closerVars
    <2>. QED
        BY <1>1, <2>1, NothingDropped DEF OwedInv, Held
<1>3. ASSUME NEW r \in Commands, CallerStep(r) \/ StrayRuns(r) \/ \E k \in Runtimes : Issue(r, k)
      PROVE  closer' = closer /\ toStop' = toStop
    BY <1>3 DEF CallerStep, Enqueue, SendFails, StrayRuns, Issue, closerVars
<1>4. ASSUME NEW k \in Runtimes, WorkerStep(k)
      PROVE  closer' = closer /\ toStop' = toStop
    BY <1>4 DEF WorkerStep, TakeCommand, TakeShutdown, ServerRuns, ServeOk, ServeFails, LinkDown,
       LinkEvent, AttemptEnds, AttemptOk, AttemptFails, GiveUp, closerVars
<1>5. ASSUME NEW r \in Commands, CallerStep(r) \/ StrayRuns(r) \/ \E k \in Runtimes : Issue(r, k)
      PROVE  OwedInv'
    BY <1>1, <1>3, <1>5, CallerOwed DEF OwedInv
<1>6. ASSUME NEW k \in Runtimes, WorkerStep(k) PROVE OwedInv'
    BY <1>1, <1>4, <1>6, WorkerOwed DEF OwedInv
<1>7. CASE CloserStep \/ Disconnect
    BY <1>1, <1>7, CloserOwed DEF OwedInv
<1>. QED
    BY <1>2, <1>5, <1>6, <1>7 DEF Next, WorkerStep

(* No command is lost: one that has no answer is with its sender, or       *)
(* queued at or held by a worker that has not left (EveryCommandAnswered   *)
(* needs the runtime to schedule these, and nothing else).                 *)
THEOREM NoCommandLost == Spec => []PendingIsOwned
<1>1. OwedInv => PendingIsOwned
    BY DEF OwedInv
<1>. QED
    BY <1>1, InitOwedInv, NextOwedInv, PTL DEF Spec

(* When disconnect() has returned, each worker has left or has a Shutdown  *)
(* in its queue that nothing takes away.                                   *)
THEOREM ShutdownReaches == Spec => [](closer = "done" => \A k \in open : Holds(queue[k], Shutdown))
<1>1. OwedInv => (closer = "done" => \A k \in open : Holds(queue[k], Shutdown))
    BY DEF OwedInv, ShutdownIsKept
<1>. QED
    BY <1>1, InitOwedInv, NextOwedInv, PTL DEF Spec

================================================================================
