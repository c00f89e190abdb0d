----------------------------- MODULE RemoteWorker -----------------------------
(***************************************************************************)
(* A multiplexed remote session: connect_remote_multiplexed,               *)
(* spawn_remote_runtime_worker, reconnect_remote_client, the callers of    *)
(* request / notify / respond / reject, and disconnect_inner.              *)
(*                                                                         *)
(* Each runtime has a worker task of its own with a bounded command queue  *)
(* and a client; all workers share one health watch.  A worker is serial:  *)
(* while it waits for a response or reconnects it takes no other command.  *)
(* The server at the other end, and the client library that reports the    *)
(* loss of the transport, are the environment.                             *)
(***************************************************************************)
EXTENDS Integers, Sequences, FiniteSets

CONSTANTS
    Runtimes,    \* runtime kinds of the session
    Primary,     \* the first of them, whose queue is the default command_tx
    Commands,    \* commands issued by callers
    OneShot,     \* those that are notify, resolve or reject: never retried
    MaxAttempts, \* REMOTE_RECONNECT_MAX_ATTEMPTS, 5 in the code
    QueueCap,    \* capacity of a command channel, 256 in the code
    LinkDrops,   \* bound: how often the transport may fail in all
    None,        \* no command
    Shutdown     \* SessionCommand::Shutdown

ASSUME PrimaryAssumption == Primary \in Runtimes
ASSUME CommandsAssumption == OneShot \subseteq Commands
ASSUME TokensAssumption ==
    None \notin Commands /\ Shutdown \notin Commands /\ None # Shutdown
ASSUME AttemptsAssumption == MaxAttempts \in Nat \ {0}
ASSUME QueueAssumption == QueueCap \in Nat \ {0}
ASSUME DropsAssumption == LinkDrops \in Nat

VARIABLES
    outcome,   \* command -> what its caller knows
    route,     \* command -> the runtime it was sent to
    sending,   \* the commands whose caller is blocked on a full queue
    runs,      \* command -> how often the server has executed it
    stray,     \* command -> copies sent on dead connections that may yet run
    queue,     \* runtime -> command channel, oldest first
    open,      \* runtimes whose command channel has a receiver
    pc,        \* runtime -> worker's program counter
    cur,       \* runtime -> the command its worker holds
    ran,       \* runtime -> the server has executed the copy sent last
    cause,     \* runtime -> why its worker reconnects
    attempt,   \* runtime -> attempt number of reconnect_remote_client
    link,      \* runtime -> state of the worker's client
    health,    \* the shared health watch
    built,     \* connect_remote_multiplexed has returned
    closer,    \* program counter of disconnect_inner
    toStop,    \* runtimes disconnect_inner has yet to send Shutdown to
    drops      \* how often the transport has failed

callerVars == <<outcome, route, sending>>
serverVars == <<runs, stray, ran>>
workerVars == <<open, pc, cur, cause, attempt>>
closerVars == <<closer, toStop>>
vars == <<callerVars, serverVars, queue, workerVars, link, health, built, closerVars,
          drops>>

WorkerPc == {"idle", "serving", "reconnecting", "retrying", "exited"}
Cause == {"none", "request", "ended", "lost"}
(* up; lost: the Disconnected event is still to be read; ended: the event  *)
(* stream returns None.                                                    *)
Link == {"up", "lost", "ended"}
Health == {"Connecting", "Connected", "Disconnected"}

TypeOK ==
    /\ outcome \in [Commands -> {"new", "pending", "ok", "failed"}]
    /\ route \in [Commands -> Runtimes \cup {None}]
    /\ sending \subseteq Commands
    /\ runs \in [Commands -> Nat]
    /\ stray \in [Commands -> Nat]
    /\ ran \in [Runtimes -> BOOLEAN]
    /\ queue \in [Runtimes -> Seq(Commands \cup {Shutdown})]
    /\ open \subseteq Runtimes
    /\ pc \in [Runtimes -> WorkerPc]
    /\ cur \in [Runtimes -> Commands \cup {None}]
    /\ cause \in [Runtimes -> Cause]
    /\ attempt \in [Runtimes -> 0..MaxAttempts]
    /\ link \in [Runtimes -> Link]
    /\ health \in Health
    /\ built \in BOOLEAN
    /\ closer \in {"idle", "primary", "runtimes", "done"}
    /\ toStop \subseteq Runtimes
    /\ drops \in Nat

(* The workers are spawned before connect_remote_multiplexed sends         *)
(* Connected and returns.                                                  *)
Init ==
    /\ outcome = [r \in Commands |-> "new"]
    /\ route = [r \in Commands |-> None]
    /\ sending = {}
    /\ runs = [r \in Commands |-> 0]
    /\ stray = [r \in Commands |-> 0]
    /\ ran = [k \in Runtimes |-> FALSE]
    /\ queue = [k \in Runtimes |-> <<>>]
    /\ open = Runtimes
    /\ pc = [k \in Runtimes |-> "idle"]
    /\ cur = [k \in Runtimes |-> None]
    /\ cause = [k \in Runtimes |-> "none"]
    /\ attempt = [k \in Runtimes |-> 0]
    /\ link = [k \in Runtimes |-> "up"]
    /\ health = "Connecting"
    /\ built = FALSE
    /\ closer = "idle"
    /\ toStop = {}
    /\ drops = 0

--------------------------------------------------------------------------------
FinishConnect ==
    /\ ~built
    /\ built' = TRUE
    /\ health' = "Connected"
    /\ UNCHANGED <<callerVars, serverVars, queue, workerVars, link, closerVars, drops>>

(***************************************************************************)
(* Callers.  A send waits for room in the queue; it fails at once, as does *)
(* the wait for the response, when the worker has dropped its receiver.    *)
(***************************************************************************)
Issue(r, k) ==
    /\ built
    /\ outcome[r] = "new"
    /\ outcome' = [outcome EXCEPT ![r] = "pending"]
    /\ route' = [route EXCEPT ![r] = k]
    /\ sending' = sending \cup {r}
    /\ UNCHANGED <<serverVars, queue, workerVars, link, health, built, closerVars,
                   drops>>

(* Mutant: the queue of a worker that has left still takes commands.       *)
EnqueueClosed(r) ==
    /\ r \in sending
    /\ Len(queue[route[r]]) < QueueCap
    /\ queue' = [queue EXCEPT ![route[r]] = Append(@, r)]
    /\ sending' = sending \ {r}
    /\ UNCHANGED <<outcome, route, serverVars, workerVars, link, health, built,
                   closerVars, drops>>

Enqueue(r) ==
    /\ r \in sending
    /\ route[r] \in open
    /\ Len(queue[route[r]]) < QueueCap
    /\ queue' = [queue EXCEPT ![route[r]] = Append(@, r)]
    /\ sending' = sending \ {r}
    /\ UNCHANGED <<outcome, route, serverVars, workerVars, link, health, built,
                   closerVars, drops>>

SendFails(r) ==
    /\ r \in sending
    /\ route[r] \notin open
    /\ sending' = sending \ {r}
    /\ outcome' = [outcome EXCEPT ![r] = "failed"]
    /\ UNCHANGED <<route, serverVars, queue, workerVars, link, health, built,
                   closerVars, drops>>

--------------------------------------------------------------------------------
(***************************************************************************)
(* The worker's loop.                                                      *)
(***************************************************************************)

(* The receiver is dropped with everything queued: the callers of those    *)
(* commands see their response channel close.                              *)
Exit(k) ==
    /\ pc' = [pc EXCEPT ![k] = "exited"]
    /\ open' = open \ {k}
    /\ queue' = [queue EXCEPT ![k] = <<>>]

Queued(k) == {queue[k][i] : i \in DOMAIN queue[k]} \ {Shutdown}

FailQueued(k) ==
    outcome' = [r \in Commands |->
                   IF r \in Queued(k) THEN "failed" ELSE outcome[r]]

TakeCommand(k) ==
    /\ pc[k] = "idle"
    /\ queue[k] # <<>>
    /\ Head(queue[k]) # Shutdown
    /\ pc' = [pc EXCEPT ![k] = "serving"]
    /\ cur' = [cur EXCEPT ![k] = Head(queue[k])]
    /\ queue' = [queue EXCEPT ![k] = Tail(@)]
    /\ UNCHANGED <<callerVars, serverVars, open, cause, attempt, link, health, built,
                   closerVars, drops>>

TakeShutdown(k) ==
    /\ pc[k] = "idle"
    /\ queue[k] # <<>>
    /\ Head(queue[k]) = Shutdown
    /\ FailQueued(k)
    /\ Exit(k)
    /\ UNCHANGED <<route, sending, serverVars, cur, cause, attempt, link, health,
                   built, closerVars, drops>>

(* The worker answers its command and returns to the select.               *)
Reply(k, o) ==
    /\ outcome' = [outcome EXCEPT ![cur[k]] = o]
    /\ cur' = [cur EXCEPT ![k] = None]
    /\ pc' = [pc EXCEPT ![k] = "idle"]
    /\ cause' = [cause EXCEPT ![k] = "none"]
    /\ attempt' = [attempt EXCEPT ![k] = 0]
    /\ UNCHANGED <<route, sending, open>>

Waiting(k) == pc[k] \in {"serving", "retrying"}

(* The server executes the copy of the command sent on the live client.    *)
ServerRuns(k) ==
    /\ Waiting(k)
    /\ link[k] = "up"
    /\ ~ran[k]
    /\ runs' = [runs EXCEPT ![cur[k]] = @ + 1]
    /\ ran' = [ran EXCEPT ![k] = TRUE]
    /\ UNCHANGED <<callerVars, stray, queue, workerVars, link, health, built,
                   closerVars, drops>>

(* It executes a copy that reached it on a connection now dead.            *)
StrayRuns(r) ==
    /\ stray[r] > 0
    /\ stray' = [stray EXCEPT ![r] = @ - 1]
    /\ runs' = [runs EXCEPT ![r] = @ + 1]
    /\ UNCHANGED <<callerVars, ran, queue, workerVars, link, health, built,
                   closerVars, drops>>

(* The response arrives; a JSON-RPC error is a response.                   *)
ServeOk(k) ==
    /\ Waiting(k)
    /\ link[k] = "up"
    /\ ran[k]
    /\ ran' = [ran EXCEPT ![k] = FALSE]
    /\ Reply(k, "ok")
    /\ UNCHANGED <<runs, stray, queue, link, health, built, closerVars, drops>>

(* reconnect_remote_client begins an attempt.                              *)
StartReconnect(k, why) ==
    /\ pc' = [pc EXCEPT ![k] = "reconnecting"]
    /\ cause' = [cause EXCEPT ![k] = why]
    /\ attempt' = [attempt EXCEPT ![k] = 1]
    /\ health' = "Connecting"

(* Mutant: whatever the command is, it is tried again.                     *)
ServeFailsRetries(k) ==
    /\ Waiting(k)
    /\ \/ link[k] # "up" /\ UNCHANGED <<stray, link, drops>>
       \/ /\ link[k] = "up"
          /\ drops < LinkDrops
          /\ drops' = drops + 1
          /\ link' = [link EXCEPT ![k] = "lost"]
          /\ \/ UNCHANGED stray
             \/ ~ran[k] /\ stray' = [stray EXCEPT ![cur[k]] = @ + 1]
    /\ ran' = [ran EXCEPT ![k] = FALSE]
    /\ IF pc[k] = "serving"
       THEN /\ StartReconnect(k, "request")
            /\ UNCHANGED <<callerVars, open, cur>>
       ELSE Reply(k, "failed") /\ UNCHANGED health
    /\ UNCHANGED <<runs, queue, built, closerVars>>

(* The request fails at the transport: the client is dead already, or it   *)
(* dies before the response gets through, and then the server may have the *)
(* command all the same.  Only a Request in its first try is followed by a *)
(* reconnect.                                                              *)
ServeFails(k) ==
    /\ Waiting(k)
    /\ \/ link[k] # "up" /\ UNCHANGED <<stray, link, drops>>
       \/ /\ link[k] = "up"
          /\ drops < LinkDrops
          /\ drops' = drops + 1
          /\ link' = [link EXCEPT ![k] = "lost"]
          /\ \/ UNCHANGED stray
             \/ ~ran[k] /\ stray' = [stray EXCEPT ![cur[k]] = @ + 1]
    /\ ran' = [ran EXCEPT ![k] = FALSE]
    /\ IF pc[k] = "serving" /\ cur[k] \notin OneShot
       THEN /\ StartReconnect(k, "request")
            /\ UNCHANGED <<callerVars, open, cur>>
       ELSE Reply(k, "failed") /\ UNCHANGED health
    /\ UNCHANGED <<runs, queue, built, closerVars>>

(* The environment breaks an idle worker's transport.                      *)
LinkDown(k) ==
    /\ pc[k] = "idle"
    /\ link[k] = "up"
    /\ drops < LinkDrops
    /\ drops' = drops + 1
    /\ \E l \in {"lost", "ended"} : link' = [link EXCEPT ![k] = l]
    /\ UNCHANGED <<callerVars, serverVars, queue, workerVars, health, built,
                   closerVars>>

(* next_event() returns the Disconnected event, or None.                   *)
LinkEvent(k) ==
    /\ pc[k] = "idle"
    /\ link[k] # "up"
    /\ StartReconnect(k, link[k])
    /\ UNCHANGED <<callerVars, serverVars, queue, open, cur, link, built, closerVars,
                   drops>>

(* An attempt succeeds: a request is tried once more, an event is dropped. *)
AttemptOk(k) ==
    /\ pc[k] = "reconnecting"
    /\ link' = [link EXCEPT ![k] = "up"]
    /\ health' = "Connected"
    /\ pc' = [pc EXCEPT ![k] =
                 IF cause[k] = "request" THEN "retrying" ELSE "idle"]
    /\ cause' = [cause EXCEPT ![k] = "none"]
    /\ attempt' = [attempt EXCEPT ![k] = 0]
    /\ UNCHANGED <<callerVars, serverVars, queue, open, cur, built, closerVars, drops>>

(* Mutant: one attempt too many.                                           *)
AttemptFailsOnceMore(k) ==
    /\ pc[k] = "reconnecting"
    /\ attempt[k] <= MaxAttempts
    /\ attempt' = [attempt EXCEPT ![k] = @ + 1]
    /\ health' = "Connecting"
    /\ UNCHANGED <<callerVars, serverVars, queue, open, pc, cur, cause, link, built,
                   closerVars, drops>>

AttemptFails(k) ==
    /\ pc[k] = "reconnecting"
    /\ attempt[k] < MaxAttempts
    /\ attempt' = [attempt EXCEPT ![k] = @ + 1]
    /\ health' = "Connecting"
    /\ UNCHANGED <<callerVars, serverVars, queue, open, pc, cur, cause, link, built,
                   closerVars, drops>>

(* Every attempt has failed.  A request is answered with its error; a      *)
(* Disconnected event is routed, and the loop goes on to find the stream   *)
(* ended; an ended stream ends the worker.                                 *)
GiveUp(k) ==
    /\ pc[k] = "reconnecting"
    /\ attempt[k] = MaxAttempts
    /\ health' = "Disconnected"
    /\ \/ /\ cause[k] = "request"
          /\ Reply(k, "failed")
          /\ UNCHANGED <<queue, link>>
       \/ /\ cause[k] = "lost"
          /\ link' = [link EXCEPT ![k] = "ended"]
          /\ pc' = [pc EXCEPT ![k] = "idle"]
          /\ cause' = [cause EXCEPT ![k] = "none"]
          /\ attempt' = [attempt EXCEPT ![k] = 0]
          /\ UNCHANGED <<callerVars, queue, open, cur>>
       \/ /\ cause[k] = "ended"
          /\ Exit(k)
          /\ FailQueued(k)
          /\ cause' = [cause EXCEPT ![k] = "none"]
          /\ attempt' = [attempt EXCEPT ![k] = 0]
          /\ UNCHANGED <<route, sending, cur, link>>
    /\ UNCHANGED <<serverVars, built, closerVars, drops>>

--------------------------------------------------------------------------------
(***************************************************************************)
(* disconnect_inner: Disconnected on the watch, then Shutdown to the       *)
(* default channel, then to every runtime's.  The final abort() hits only  *)
(* the task that awaits the workers.                                       *)
(***************************************************************************)
Disconnect ==
    /\ built
    /\ closer = "idle"
    /\ closer' = "primary"
    /\ health' = "Disconnected"
    /\ UNCHANGED <<callerVars, serverVars, queue, workerVars, link, built, toStop,
                   drops>>

(* Mutant: try_send, which gives up when the channel is full.              *)
TryShutdown(k) ==
    \/ /\ k \in open
       /\ Len(queue[k]) < QueueCap
       /\ queue' = [queue EXCEPT ![k] = Append(@, Shutdown)]
    \/ /\ k \notin open \/ Len(queue[k]) >= QueueCap
       /\ UNCHANGED queue

(* send(Shutdown).await on one channel: waits for room, ignores a receiver *)
(* that is gone.                                                           *)
SendShutdown(k) ==
    \/ /\ k \in open
       /\ Len(queue[k]) < QueueCap
       /\ queue' = [queue EXCEPT ![k] = Append(@, Shutdown)]
    \/ k \notin open /\ UNCHANGED queue

StopPrimary ==
    /\ closer = "primary"
    /\ SendShutdown(Primary)
    /\ closer' = "runtimes"
    /\ toStop' = Runtimes
    /\ UNCHANGED <<callerVars, serverVars, workerVars, link, health, built, drops>>

StopRuntime(k) ==
    /\ closer = "runtimes"
    /\ k \in toStop
    /\ SendShutdown(k)
    /\ toStop' = toStop \ {k}
    /\ closer' = IF toStop = {k} THEN "done" ELSE "runtimes"
    /\ UNCHANGED <<callerVars, serverVars, workerVars, link, health, built, drops>>

--------------------------------------------------------------------------------
CallerStep(r) == Enqueue(r) \/ SendFails(r)
AttemptEnds(k) == AttemptOk(k) \/ AttemptFails(k) \/ GiveUp(k)
CloserStep == StopPrimary \/ \E k \in Runtimes : StopRuntime(k)

Next ==
    \/ FinishConnect
    \/ \E r \in Commands, k \in Runtimes : Issue(r, k)
    \/ \E r \in Commands : CallerStep(r) \/ StrayRuns(r)
    \/ \E k \in Runtimes :
         \/ TakeCommand(k) \/ TakeShutdown(k)
         \/ ServerRuns(k) \/ ServeOk(k) \/ ServeFails(k)
         \/ LinkDown(k) \/ LinkEvent(k) \/ AttemptEnds(k)
    \/ Disconnect
    \/ CloserStep

Spec == Init /\ [][Next]_vars

(* The select takes a ready branch at random, so neither the commands nor  *)
(* the events are starved for ever; room in a queue is handed to the       *)
(* senders in turn.  That a server answers is not assumed: neither a       *)
(* request nor an attempt to connect has a time-out.                       *)
Fairness ==
    /\ WF_vars(FinishConnect)
    /\ \A r \in Commands : SF_vars(Enqueue(r)) /\ WF_vars(SendFails(r))
    /\ \A k \in Runtimes :
         /\ SF_vars(TakeCommand(k) \/ TakeShutdown(k))
         /\ WF_vars(LinkEvent(k))
         /\ SF_vars(StopRuntime(k))
    /\ SF_vars(StopPrimary)

FairSpec == Spec /\ Fairness

--------------------------------------------------------------------------------
(* The session implements at-least-once calls: a request runs at most      *)
(* twice (the retry after a reconnect), a notification, a response or a    *)
(* rejection at most once, and success means the server has run it.        *)
Tries(r) == IF r \in OneShot THEN 1 ELSE 2
Calls == INSTANCE AtLeastOnceCalls
CallSpec == Calls!Spec

(* The worker waits for the other end, which may take for ever.            *)
AtPeer(k) == Waiting(k) \/ pc[k] = "reconnecting"

(* Every command issued to a runtime whose waits end is answered, whatever *)
(* the transport does, though the session is disconnected meanwhile, and   *)
(* though another runtime of the session never answers anything again.     *)
EveryCommandAnswered ==
    \A k \in Runtimes : ([]<>~AtPeer(k)) =>
        \A r \in Commands :
            (outcome[r] = "pending" /\ route[r] = k) ~> outcome[r] \in {"ok", "failed"}

(* disconnect() stops every worker, though it does not wait for them, if   *)
(* no wait at a peer is for ever: the Shutdown behind a full queue or a    *)
(* reconnect is reached.  (The Shutdowns are sent one after the other: a   *)
(* runtime that never answers keeps its own worker and, once its queue is  *)
(* full, perhaps those of others.)                                         *)
DisconnectStopsWorkers ==
    (\A k \in Runtimes : []<>~AtPeer(k)) => (closer # "idle" ~> open = {})
================================================================================
