# Litter: specification and verification

Litter is a mobile client (iOS and Android) for Codex app-servers. A shared Rust
library, `codex-mobile-client`, keeps one session per server, folds what the
servers say into a store that both user interfaces render, and sends the user's
requests. This directory holds TLA+ modules translated from that code, the TLC
configurations that check them, and TLAPS proofs.

Paths below are relative to `src/`; `cm/` stands for
`shared/rust-bridge/codex-mobile-client/src/`.

## 1. Inventory

| Component | State | Operations | What makes it correct |
|---|---|---|---|
| Session map and connect calls (`cm/mobile_client/mod.rs`) | `sessions: RwLock<HashMap<server id, Arc<ServerSession>>>` | `connect_local`, `connect_remote`, `connect_remote_over_alleycat`, `..._ssh_bridges`, `..._ssh`, `disconnect_server`, `restart_app_server` | one session per server; a session taken out is shut down; none is left running unowned (but see the guided connect) |
| Health readers (`cm/mobile_client/event_loop.rs`) | one detached task per session | `spawn_health_reader`, `session_is_current` | the registered session's health reaches the store; a replaced session's does not |
| Store entries and listener (`cm/store/reducer.rs`, `store_listener.rs`) | `ServerSnapshot.health`, `connection_progress`; the UI broadcast channel | `upsert_server`, `remove_server`, `update_server_health`, `update_server_connection_progress`, the `ConnectionStateChanged` fold | a registered server is visible; the shown health is the session's |
| Remote session workers (`cm/session/connection.rs`) | per runtime: command queue, client, loop; shared: health watch | `request*`, `notify`, `respond`, `reject`, `reconnect_remote_client`, `disconnect_inner` | every command answered once, retried at most once; disconnect stops all workers |
| Push proxy (`services/push-proxy/src`) and lifecycle controllers (`apps/*/…/AppLifecycleController`) | registration in a durable object, its alarm; registration id on the phone | register, deregister, alarm, push, rate limit | no pushes to a foreground phone for ever; TTL ends what a lost call leaves |
| Typed requests, turns, follow-ups (`mod.rs`, `store_listener.rs`) | draft queue per thread, active turn, overlays | start, queue, steer, delete, autosend | a message is sent once and shown once |
| Reconnect controller (`cm/ffi/reconnect.rs`, `cm/reconnect.rs`) | guard, saved servers | reconnect all, reconnect one, network and foreground events | the plan is the one the apps show; progress ends with the calls; the guard is released |
| Guided SSH (`cm/ffi/discovery.rs`, `cm/ffi/ssh.rs`) | flow map, install decision | start, answer the install question | one flow per server; its question is seen; it ends when its remote commands and the user do |
| IPC client (`shared/rust-bridge/codex-ipc/src/client`) | connection, pending map | reconnect, request, timeout | a request always ends (it has a time-out); one connection at a time; the state shown is the slot's |
| Thread list (`cm/ffi/client.rs`, `thread_projection.rs`, `dynamic_tools.rs`, `reducer.rs`) | threads of a server, their status, active turn and pending approvals | `list_threads`, the refresh after a desktop broadcast, `list_sessions`, the folds of thread and turn events | what is missing from an incomplete list is not taken for deleted; a complete list is what the server has; a running turn is not shown as idle |
| IPC transport authority (`reducer.rs`, `event_loop.rs`) | `transport`, `pending_mutation` | begin/finish mutation, classify, fail over, stream recovery | a mutation goes one way; failover is not skipped |
| Approvals and user input (`mod.rs`) | pending lists | request, answer, resolve remotely | answered once, on the right session |
| Voice handoff (`cm/session/voice_handoff.rs`) | per-session state machine | handoff, stream, finalize | each handoff finalised once |
| Cloud sync (`cm/cloud_sync/mod.rs`, `cm/preferences.rs`, `apps/ios/…/CloudKVSBridge.swift`) | preferences file, `UserDefaults`, table of stamps, key-value store | change a setting, export, merge | the newer change wins; devices fall silent |
| Projection, reconciliation, saved apps, discovery, SSH scripts, local shell, UIs | data mapping or I/O | | see section 8 |

Interactions. The platforms call the connect and request functions from their
own threads; each runs on a multi-threaded tokio runtime, so every `await` and
every release of a lock lets the others in. A session's workers talk to callers
through bounded command channels and oneshot responses, and to the health
reader through a `watch` channel. Readers send events into one broadcast
channel; the store listener applies them one by one. Nothing but
`session_is_current` (pointer equality with the entry of the map) relates an
event to the session it came from.

What is hard here: calls for the same server that overlap; readers that outlive their
session; a broadcast channel that drops events; pages of a list applied while the list
changes; requests retried after a transport loss; waits for a remote answer that no
time-out ends; shutdown behind full queues. `PROJECT.json` lists each hazard with its line
and the property that covers it.

## 2. Modules

* **`SessionRegistry`**: session map, connect and disconnect calls, store
  entries, event channel, health readers, and requests as far as they write a
  server's health.
* **`ServerSlots`**: abstract specification of `SessionRegistry` for calls that
  do not overlap on one server: a server id is a slot that holds at most one
  session and is emptied before the next enters; only a guided SSH connect's session
  joins the one there and then overtakes it.
* **`RemoteWorker`**: one multiplexed remote session from the inside.
* **`AtLeastOnceCalls`**: abstract specification of `RemoteWorker` for its
  callers.
* **`ReconnectingIpc`**: the client of the IPC bus, with its reconnect loop.
* **`PushProxy`**: the push proxy's registration objects and the phone's
  lifecycle controller.
* **`FollowUps`**: one thread of one server: turns, the queue of follow-up drafts,
  overlays, and which of two transports a command takes.
* **`ReconnectPlans`**: the plan of a saved record, and the Android app's rules as
  its reference.
* **`ConnectFlows`**: bulk reconnect, single reconnect and guided SSH connect on one
  server's store entry; uses `ReconnectPlans`.
* **`CloudSync`**: devices that exchange settings through iCloud.
* **`ThreadList`**: the threads of one server, written by pages of `thread/list`, by
  pruning and by events.
* **`SessionRegistryProofs`**, **`ConnectFlowsProofs`**, **`ThreadListProofs`**,
  **`RemoteWorkerProofs`**, **`ReconnectingIpcProofs`**, **`PushProxyProofs`**,
  **`FollowUpsProofs`**, **`CloudSyncProofs`**: theorems, one module per specification.
* **`MC…`**: instances for TLC, one per module above that a run checks.

`ConnectFlows` sees of `SessionRegistry` what it needs: whether the server has a
session that is up, and what each connect call writes to the entry. The two
share the map lines of those calls.

Definitions whose comment starts with "Mutant" are deliberately wrong variants of
the definition that follows; no specification uses them. They are there to show
that each property can fail.

## 3. SessionRegistry and the code

A session is named after the connect call that dials it (a call makes at most
one), so `Calls` is also the set of sessions. A step is what happens while one
lock is held, or between two awaits when no shared state is touched.

| Model | Code |
|---|---|
| `sessions[s]` | the map's entry for `s` |
| `store[s]` (`health`, `progress`) | `ServerSnapshot.health`, and whether `connection_progress` is `Some` |
| `call[c]`, `kind[c]`, `old[c]` | where a connect call stands, which entry point it is, the session it has removed and must disconnect |
| `drop[d]` | a `disconnect_server` or `restart_app_server` call; `close` is its detached task |
| `health[x]`, `unseen[x]` | the session's `watch` value; whether `changed()` would return at once |
| `worker[x]`, `shutdown[x]`, `moves[x]` | whether its workers run, `disconnect()` was called, how often they have moved the health |
| `reader[x]`, `held[x]` | program counter of `spawn_health_reader`; the value `borrow()` returned |
| `events`, `lagged` | the broadcast channel seen by the store listener |
| `listener` | the session on which the listener awaits the answer to an autosend |

Connect calls: `ReuseDirect` / `BeginDirect` are the test on
`existing_active_session`; `BeginUpsert` (with `BeginProgress` for SSH) is the
`Connecting` upsert of the other kinds; `RefuseBegin` their failures before it.
The kind `guided` is the guided SSH connect: it shows progress while it dials
(`ShowProgress`), leaves the progress of a failure, is started once per server at a
time, and **replaces nothing**: it goes from its progress straight to the dial, and its
insert drops whatever session is in the map. `displaced` remembers those sessions.
`ReplaceRemove` and `ReplaceClose` are `replace_existing_session`: the removal
under the lock, then `disconnect().await`. `DialOk` and `DialFail` stand for all
network work in between; what a failure writes differs per kind (`Fail`,
`EndProgress`): a direct connect writes nothing, Alleycat always Disconnected,
the SSH kinds either, since some of their errors leave by `?`. `AttachUpsert`
and `AttachInsert` are the two locks of `attach_remote_session`; the reader is
started by the latter (`InsertOver` is what the insert does to the map).

Reader: `ReaderStart` and `ReaderCheck` are the two `session_is_current` tests,
`ReaderAnnounce` the first "connecting", `ReaderBorrow` / `ReaderReport` the
borrow and the emission, which are separate because a replacement may fall
between them, `ReaderWake` the return of `changed()`. The value is marked as seen
on return from `changed()` and not by `borrow()`, as in tokio.

Listener: `ApplyEvent` folds the next event. After an event of another kind it may send
a queued follow-up on a registered session, and then takes no event until
`ListenerReturns`: the code awaits the answer of `turn/start` without a time-out
(`store_listener.rs:272`), and there is one listener for all servers.

Abstractions: `existing_active_session` takes the map's lock and then borrows the watch;
the two reads are one here. The post-connect warmup, agent runtimes, IPC state and resume
markers are left out: they write neither the map nor an entry's health. A session's event
reader and its warmup hold its `Arc` too; all that does is to put off the end of its
workers, which no property relies on. `Unresponsive` is never sent by any code and is left
out.

Auxiliary variables, which no guard reads: `writer` (who wrote an entry's health
last), `late` (events sent for a replaced session), `displaced`, `lagged`, and the field
`from` of an event.

`Serialised` selects the environment. FALSE: calls overlap freely, which the code permits
(`reconnect_server` takes no guard, the user can tap while a reconnect runs). TRUE: a call
on a server begins only when the previous ones on it have returned; the detached
disconnect of an earlier `disconnect_server` may still be pending. A guided connect leaks
the session it is inserted over even then; the serialised properties say that nothing else
does. The properties named in section 5 as serialised do not hold of overlapping calls:
two calls that pass the test together both insert, and the first session is dropped
without `disconnect()`; a disconnect between `AttachUpsert` and `AttachInsert` leaves a
session with no store entry.

## 4. RemoteWorker and the code

Each runtime `k` has a queue (`mpsc`), a worker with `pc`, `cur` and `attempt`, and
a client whose `link` is `up`, `lost` (the Disconnected event is to be read) or
`ended`. `Issue` / `Enqueue` / `SendFails` are a caller in `send().await`;
`TakeCommand`, `TakeShutdown` and `LinkEvent` the branches of the `select!`;
`StartReconnect`, `AttemptOk`, `AttemptFails`, `GiveUp` are
`reconnect_remote_client` as called from a request, from a Disconnected event and
from the end of the stream, which differ in what follows. `Disconnect`,
`StopPrimary`, `StopRuntime` are `disconnect_inner`: the primary runtime gets
`Shutdown` twice, once through the default channel.

The server is the environment: it may execute a command at any time after it was
sent on a live connection, and a copy sent on a connection now dead may still be
executed (`stray`). `runs` counts executions. A worker that waits for its server, or in an
attempt to connect, takes nothing from its queue, not even `Shutdown`, and nothing but
the peer ends that wait (`AtPeer`).

Not in this module: a worker that ends because all senders were dropped (in
`SessionRegistry`, `Unreferenced`), and the routing of server notifications.

### ReconnectingIpc

`slot` is the wrapper's `client`, `connected` its watch;
`loop` is where `reconnect_loop` stands, `held` and `fresh` the handles it owns
(`current_client`, `new_client`). Each connection has a `wire`, a `reader` and a
`writer` task and a `pending` map. `IpcClient` is an
`Arc`, so who holds a handle decides two things, and `HasHandle` computes it:
whether the broadcast channel can close, and whether `disconnect()` does anything.
`Ask` … `Timeout` are `send_request` cut at its awaits, `Shutdown` …
`CloserAnnounce` are `shutdown()`. A detached task goes on when its
handles are dropped; `HandshakeFails` leaves one behind. `ReaderQuits` is the
`break` after a failed answer to a discovery request, the only exit of the read
loop that does not clear the pending map. An abort takes effect where the task
has to wait. Broadcasts, incoming requests and the handler for them (the
mobile client never sets one), the length of the backoff and the 256 places of
the write channel are left out; a peer that stops reading for 256 requests would block
`send_request` before its timeout starts. Auxiliary: `tardy` (the request was
registered when its read task was no longer running).

### PushProxy

A registration is named after the register call that creates it. `stored`, `armed`
and `due` are the durable object's storage and alarm; `pushing` is an alarm that
awaits the push service, during which the platform may run `/deregister`;
everything else in a handler runs without interruption. `due` is counted from
the time before the push, as in the code. `android` is the phone's controller: the
Android one compares generations and gives a late registration back
(`Stale`, `GiveBack`), the iOS one keeps whatever returns last and deregisters in
the background when no turn is left (`TurnsEnd`). A throwing alarm handler is run
again by the platform up to `Retries` times. Auxiliary: `gone`, `undone`.

### FollowUps

A call is a `start_turn` (`send`), `steer_queued_follow_up` or
`delete_queued_follow_up` of one message. `Begin` is its snapshot of the thread
and the test for live IPC, by which it goes to the end; `Dispatch` what it writes
before its first await; then the command goes to the desktop (`ipc`, `heard`)
or to the app-server (`direct`, `taken`). `IpcOk`, `IpcTimeout`, `IpcGone`,
`IpcAbsent`, `IpcRefused` are the outcomes of `run_ipc_command` as
`classify…` and the `should_…` predicates sort them, `GoDirect` what follows
when the call falls back. `authority`, `hasIpc`, `failed`, `pending` are the
`transport` of the server entry. `ApplyEvent` is the store listener with the
folds of turn and item events, `sending` the autosend that it awaits; `Lag` is its
`RecvError::Lagged`.

A direct request goes through a worker of `RemoteWorker`, which sends it again when the
connection is lost under it (`Resend`, `AutosendResent`), and it may end in an error
although the server has taken it, or will (`DirectFails`, `AutosendEnds`, by way of
`GivenUp`). The copy that was on its way is in `strays` until the server takes it
(`StrayTaken`), if it ever does. A message whose request was so left in doubt is in
`unsure`.

The app-server (`Run`, `TurnEnds`, `OtherTurn`) and the desktop (`DeskHears`,
`DeskSends`, `DeskHearsLate`) are the environment: input joins a running turn or
starts one, every user message is announced twice, and the desktop sends its queue
when no turn runs. `PeerStatus` is a status broadcast, and the IPC state reader of
a replaced session, which never tests whether it is current.

Left out: drafts that do not convert to a queue entry (a turn is then steered or
started at once), several threads, and reads of the
whole thread (`thread/read`) that upsert it. Auxiliary: `ran`, `shared`,
`restored`, `refused`, `unsure`, `lagged`, on which no guard depends.

### ReconnectPlans and ConnectFlows

`ReconnectPlan` is `compute_reconnect_plan` on a record of the fields that
decide it; ports are small numbers and hosts are not told apart. `AppMode` is
`resolvedPreferredConnectionMode` of the Android app, from which `SamePlan` derives
the reference. The two differ for a record that prefers a direct connection and has
no port (`DeadDirect`): the app falls through to no preference, the shared code to no plan
at all; `SamePlan` excepts it.

`call["bulk"]` is the run that holds `reconnect_guard` (`Wake`), `call["one"]` a
`reconnect_server`, which takes no guard. `MakePlan` comes after the awaits for the
local server and the credential; the health it goes by (`seen`) is older, so that a
server that came up in between is dialled again and its session closed, as in the code.
`Begin…`, `DialOk`, `DialQuits`, `DialFails` are the writes of the `connect_*` call;
`DialQuits` is the return by `?`, after which `left` is set. `flow` is the guided
connect from `start_remote_over_ssh_connect` to its removal from the list.
`AwaitAnswer` creates the oneshot sender, `Respond` is the user's answer, refused
before that. `ReaderWrites` is the fold of a health event, of the current or a
replaced session. Auxiliary: `disturbed` (an SSH reconnect or a disconnect wrote
the entry while the flow was listed), `left`.

Codex ports of zero, the local server and the renaming of an Alleycat id are left
out. The `Local` plan is never reached: both callers skip or handle local servers first.

### CloudSync

A value is the number of the change that wrote it, so greater means newer. Stamps
are ticks of one clock: equal stamps and clocks that disagree are left out, and both
can only make the merge worse. `table` is `PLATFORM_TABLE` with the stamp of every
entry (for preferences the stamp last merged); `observed` holds UserDefaults changes
whose main-actor task has not run. `ApplyEnvelopeFromStore` is
`applyEnvelopeFromStore` with `apply_snapshot` and `applyWritebacks`; the flag
`isApplyingRemoteUpdate` is false again when an observer's task runs, so it guards
nothing and is not a variable. `Restart` loses what is in memory. The key-value store
keeps one blob per account: `Upload` replaces it, `Download` brings it to a device
that has nothing to upload.

### ThreadList

A call is one of four: `fanout`, `list_threads` without filter, which reads all pages of
all runtimes at once and then prunes; `search`, `list_threads` with a limit or a search
term; `refresh`, `refresh_thread_list_from_app_server`, which the broadcast loop awaits
and which goes through the runtimes one by one; `tool`, the assistant's `list_sessions`.
`open[c]` are the runtimes whose next page it awaits, `page` the answers that have
arrived and are not applied, `got` the ids it will prune by. `ApplyPage` and `FailPage`
are the outcomes of a request, `Finish` the pruning, `SyncTool` the one step in which the
tool upserts and prunes. In the store, `UpsertPage` is `upsert_thread_list_page_for_runtime`
with `upsert_thread_snapshot`, `Prune` is `finalize_thread_list_sync`, `SyncPage`
`sync_thread_list_for_runtime`, `MergeStatus` `upsert_or_merge_thread`, `MutateTurn` the
folds of turn events. A status is Active (`shown`), NotLoaded or SystemError
(`unloaded`), or else Idle. A thread with an active turn keeps Active against Idle, and
against nothing else: the other two replace it while the turn stays active. `away` are
the threads of which the server says one of the two.

The server is the environment. A thread is created without being listed, appears in the
list with its first turn, and may be archived with or without a notification. A page
shows the server as it was when it answered; it may be applied much later. Of pages read
with a cursor we assume that together they hold what was listed from the first to the
last, and that a cursor is given only when something is left.

Left out: `list_threads` with a filter by runtimes and no limit, which prunes too (the
callers in the apps always give a limit with it), other servers (all of this is per
server, except that pending approvals are removed by the id of their thread alone), titles
and previews, the voice session, the lag of the event channel, and reads of a whole
thread. A page's threads are written under one lock each; they are one step here, as
nothing reads two of them together. Auxiliary: `span` (threads that were listed from a
call's start on) and `calm` (nothing changed the server's list since then, and nothing
else took threads out of the store).

## 5. Runs

All runs set `CHECK_DEADLOCK FALSE`: the number of calls, requests and link
failures is bounded, so an execution really ends when they are used up.

| Run | Properties | What it shows |
|---|---|---|
| `overlap` | `CurrentSessionHasReader`, `StaleReaderEmitsOnce`, `RetiredIsClosed` | two connects, direct or over SSH bridges, and a disconnect of one server in any order |
| `settled` | `SettledHealth`, `LossIsShown` | one connect, SSH or guided SSH, a disconnect, a request, two moves of the transport, other events that overflow the channel, and a listener that waits for an answer |
| `serial` | `NoLeakedSession`, `RegisteredHasEntry`, `SlotSpec` | the same server connected twice and disconnected without overlap, direct, Alleycat, SSH and guided SSH, on a transport that stays up (the theorems have the other case) |
| `worker` | `TypeOK`, `CallSpec`, `EveryCommandAnswered`, `DisconnectStopsWorkers` | two runtimes, a request and a notification, full queues of one, a transport failure, two attempts |
| `ipc` | `TypeOK`, `EarlyRequestFailsFast`, `OneLiveConnection`, `WatchAgrees`, `RequestsEnd`, `InvalidateRecycles` | a request that keeps its handle of the client, against link failures, an invalidation, shutdown; two attempts at most |
| `ipc_lost` | `LostLinkIsReplaced` | violated, see section 7 |
| `push` | `TypeOK`, `NoneForgotten`, `PushIsWanted`, `EventuallyQuiet` | two registrations of one phone that comes back once, with every call able to fail |
| `followups` | `TypeOK`, `RunsOnce`, `NoDoubleBubble`, `OverlayEnds`, `TurnEndIsShown` | one message starts a turn, one is queued, steered or deleted, three calls of these; another client's turn; one failure, lost connection or lag anywhere; with IPC the second message only |
| `cloud` | `TypeOK`, `HideIsWhole`, `PrefsArePushed`, `Quiesces` | two devices, one platform key and all preferences, two changes or restarts |
| `cloud_lost` | `NewerWins` | violated, see section 7 |
| `connect` | `PlansAgree`, `PromptIsVisible`, `ProgressEnds`, `CallsEnd` | eighteen records, three calls or guided connects, one health event |
| `threads` | `TurnIsNotIdle`, `PruneSparesLiving`, `FreshListAgrees`, `ListCallsEnd` | a full list and a call of another kind, two threads of Codex and a second runtime, one step of the server at any point |

`TypeOK` of `SessionRegistry`, `ConnectFlows` and `ThreadList` is proved for every value of
the constants (section 6), so no run repeats it.

`SettledHealth` is restricted to entries a reader wrote last and executions in
which the channel did not lag, because the code lets a stale request, a failed
attempt or a lag overwrite or lose a health with nothing to correct it.
`LossIsShown` likewise ends at a lag or when the session recovers or is replaced, and
has the end of the listener's waits as its premise.

**Bounds.** `LinkMoves`, `LinkDrops`, `Noise` and the sizes of `Calls`, `Drops`, `Asks`
and `Commands` bound the environment. One server suffices for the registry:
servers share only the event channel, whose overflow `Noise` and `QueueCap`
produce, and the listener, whose wait may as well be for the same server. Each kind of
connect call is in one of the three runs. Two calls and one drop give every pairwise overlap and a session that
is replaced and one that is dropped; a third call adds no new pair, and the
theorems of section 6 hold for any number. `QueueCap` is 256 in the code; 1 or 2
lets queues fill. `MaxAttempts` is 5; 2 distinguishes first, further and last
attempt. `SYMMETRY` permutes calls and is used with safety properties only.

`ReconnectingIpc` has two connections, so that one may replace the other, and one
caller that keeps a handle of the old one; connections are never reused.
`PushProxy` has an interval of two ticks and a TTL of three, so that a push falls
before, at and after the limit; ages are counted up to one past the TTL, beyond
which the code makes no difference.

`ThreadList` has two threads of the Codex runtime, so that a list may come in two pages
and the tool's limit of one cuts; the second runtime can fail or complete with nothing. Of
two calls one is a full list; the other is of another kind, so that it prunes, or adds an
outdated page, at every point of the first. At the start one thread is listed and idle and
the other NotLoaded, or the one has a turn, which may wait for an approval, and the other is
new (`MCInit`). One step of the
server is enough for a thread to appear, vanish, or start a turn between a page's answer
and its application. The theorems hold for any number of threads, runtimes, calls and
steps.

**Fairness.** What is fair is what the runtime schedules and what the code bounds by a
time-out. An answer from another machine is neither, except where the code has a timer;
a property that needs one says so as a premise, of that actor alone where it can.

`SessionRegistry`: weak fairness of each reader, of each call between two awaits on the
network, of the detached close and of the listener when it has an event and does not
wait: these are tokio tasks that are runnable. None for a dial, for the answer the
listener awaits (`LossIsShown` has `[]<>(listener = None)` as its premise), for
the start of a call, or for a worker's health.

`RemoteWorker`: weak fairness of a receiver's events and of the end of the connect;
strong fairness for taking from the queue (the `select!` picks a ready branch at random)
and for senders on a full queue (tokio's semaphore is FIFO). None for the server's
answer, for a transport error or for the end of an attempt: `client.request().await`
(`connection.rs:1400`) has no time-out. `EveryCommandAnswered` is therefore, for each
runtime, conditional on its own waits ending (`[]<>~AtPeer(k)`), whatever the other
runtimes do; `DisconnectStopsWorkers` on those of all runtimes, since the Shutdowns are
sent one after the other through bounded queues.

`ReconnectingIpc`: weak fairness of each task's next step, of the end of an attempt to
connect and of the request timeout, which this client has; none for the success of an
attempt, the peer's answer or the failure of a link. `PushProxy`: time passes, a due
alarm runs (the platform promises it) and a push request ends; nothing is assumed of the
phone.

`FollowUps`: weak fairness of the calls' own steps with an IPC command being heard or
timing out (the IPC client has a request timeout), of the listener when it does not wait
and of the IPC state reader; none for the server, the end of a turn, the user, the
desktop's sending or a link that comes back. `OverlayEnds` has as its premises that the
listener's waits end (`AutosendsEnd`) and that direct requests do (`RequestsEnd`);
`TurnEndIsShown` the first only, for no call's request can hold up the listener.
Both except a lag of the channel, after which the code repairs nothing.

`ConnectFlows`: weak fairness of what the guided flow does without a host or the user.
SSH authentication, uploads, the forwarded websocket and Alleycat's frames have no
time-out, and the close of a replaced session may wait behind a full queue. So
`CallsEnd` is conditional for each call, and for the flow, on weak fairness of its own
steps: it says that no other call, and nothing it finds in the entry, keeps it from
returning. The user need not answer.

`ThreadList`: weak fairness of the tasks of a call and of the 10 s time-out of a page request of
`list_threads`; none for an answer, and none for the time-out of a refresh or of the tool, which
have none, so `ListCallsEnd` does not speak of those.
`CloudSync`: the main actor of a device runs; iCloud need not deliver.

**What the conditions in properties mean.** `RunsOnce` excepts messages that went
out over IPC (`shared`) and those of a list read earlier that was written back over a
queue that had changed (`restored`), messages whose request a lost connection left in
doubt (`unsure`), and everything after a lag: the code runs each of them twice.
`OverlayEnds` excepts a start that the desktop refused: its overlay stays.
`PromptIsVisible` and `ProgressEnds` except what `disturbed` and `left` record.

**Bounds of the newer instances.** `followups`: steering, autosending and starting
need two messages, a turn of each and one that neither started; `Faults = 1` puts
one time-out, refusal, fail-over, status change, lost link, resend or lag at any place; and
`CallLimit = 3` of the four possible calls are made in an execution. Steering
over IPC is left out of the instance for its size; it differs from a deletion in the
list that is written. `cloud`: two changes, or one and a restart, on two devices give every
order of two exports and two merges. `connect`: three begun calls allow a bulk
and a single reconnect to overlap a guided flow; the records cover every plan, both
modes and each legacy field.

## 6. Theorems

TLAPS proves the following for every value of the constants that satisfies the
named assumptions of the module.

| Module | Theorem | Statement |
|---|---|---|
| `SessionRegistryProofs` | `TypeCorrect` | `Spec => []TypeOK` |
| | `CurrentSessionIsRead` | `Spec => []CurrentSessionHasReader` |
| | `StaleReaderStops` | `Spec => []StaleReaderEmitsOnce` |
| | `SettledIsTrue` | `Spec => []SettledHealth` |
| | `NoSessionLeaks` | `Serialised => (Spec => []NoLeakedSession)` |
| | `RegisteredIsVisible` | `Serialised => (Spec => []RegisteredHasEntry)` |
| | `ImplementsSlots` | `Serialised => (Spec => SlotSpec)` |
| `RemoteWorkerProofs` | `TypeCorrect` | `Spec => []TypeOK` |
| | `WorkerImplementsCalls` | `Spec => CallSpec` |
| | `NoCommandLost` | `Spec => []PendingIsOwned` |
| | `ShutdownReaches` | after `disconnect` every worker that has not left has `Shutdown` in its queue |
| `ReconnectingIpcProofs` | `TypeCorrect` | `Spec => []TypeOK` |
| | `WatchAndSlot` | `Spec => []WatchAgrees` |
| | `NoSecondConnection` | `Spec => []OneLiveConnection` |
| | `EarlyFailFast` | `Spec => []EarlyRequestFailsFast` |
| `PushProxyProofs` | `TypeCorrect` | `Spec => []TypeOK` |
| | `PushesAreWanted` | `Spec => []PushIsWanted` |
| | `NothingForgotten` | `Spec => []NoneForgotten` |
| | `StoredRegistrationsServed` | `Spec => []StoredIsServed` |
| `FollowUpsProofs` | `TypeCorrect` | `Spec => []TypeOK` |
| | `NothingShownTwice` | `Spec => []NoDoubleBubble` |
| | `NothingRunsTwice` | `Spec => []RunsOnce` |
| `CloudSyncProofs` | `TypeCorrect` | `Spec => []TypeOK` |
| | `HidesStayWhole` | `Spec => []HideIsWhole` |
| | `NothingWaitsAtRest` | `Spec => []RestAgrees` |
| `ConnectFlowsProofs` | `TypeCorrect` | `Spec => []TypeOK` |
| | `PlansAgreeAlways` | every record, with or without credential and QUIC, satisfies `SamePlan` |
| | `PlansAgreeInSpec` | `Spec => []PlansAgree` |
| | `PromptStaysVisible` | `Spec => []PromptIsVisible` |
| | `ProgressAlwaysEnds` | `Spec => []ProgressEnds` |
| `ThreadListProofs` | `ListTypeCorrect` | `Spec => []TypeOK` |
| | `TurnStaysShown` | `Spec => []TurnIsNotIdle` |
| | `FanoutSparesLiving` | `Spec => PruneSparesLiving` |
| | `FanoutAgrees` | `Spec => FreshListAgrees` |

So every invariant and every action property that a passing run checks is also proved,
and so are both refinements. Each inductive invariant was first checked with TLC on the
instance of its module.

### Session registry

The first three rest on `ReaderInv`. Neither property is inductive: that the
registered session has a reader needs to know that only inserted sessions are in
the map and that an inserted session's reader leaves only after it saw itself
replaced (`RegisteredWasInserted`, `ReaderOK`); that a stale reader emits once
needs its position in the loop and the fact that a session never becomes current
again after it was replaced. `TargetKnown` says a call that has begun has a server.

`SettledIsTrue` rests on `NewsInv`. The property looks at a reader that sleeps and a
channel that is empty; the invariant follows the health to there: a reader about to
report holds the session's health, or a change is unseen (`NewsOK`); once it sleeps, the
last of its events in the channel has that health (`LastSays`), and with none left the
entry it wrote shows it (`EntrySays`). `EventNames` ties an event to the server of its
session. A connect, a disconnect or a request that writes a health takes the entry away
from the reader, or leaves the health as it is (`StoreQuiet`).

The last three rest on `SerialInv`, which adds to `ReaderInv` what serialisation
gives: at most one call is in flight on a server (`Exclusive`), from the
replacement to the insert the slot is empty (`SlotEmpty`), a session has workers
only if its call has dialled (`WorkersDialled`), and the entry is written before
the insert (`EntryBeforeInsert`). A guided connect is excepted from `SlotEmpty`: it
removes nothing. Hence `NoSessionLeaks` says what is left over in that case, the session
in `displaced`, and that there is no other case. `ImplementsSlots` shows that every step is
an `Enter`, a `Leave`, a guided connect's `Join` or `Overtake`, or leaves the slots
unchanged: a slot is never entered over another session by any other call, and holds two
only between the dial and the insert of a guided one.

### Workers, IPC client, push proxy

`WorkerImplementsCalls` rests on `WorkerInv`: a pending command is in one place only,
among the senders (`SentOk`), in one queue (`QueueOk`) or with one worker (`CurOk`), and
that place bounds how often it was executed or still may be by a copy sent on a dead
connection (`Spent`, `Allowed`). Without the copies the bound on executions is not
inductive: the answer to a command may come from its second try while the first is yet
to run.

`IpcInv` says, until shutdown, where the reconnect task has put the client (`LoopOwns`):
its own handle is one of the client in the slot, and the watch lags behind only between
two of its steps. Hence a client with a running read task that somebody holds is the one
in the slot or the one about to be put there (`SlotIsLive`), which gives
`OneLiveConnection`. `Registered` ties a request to the map of its connection.

`PushInv` ties a registration in the proxy to the call that made it (`Born`, `Handed`),
and says that a call of the current generation means the app is still in the background
it went to (`CurrentOnlyBehind`), so that what returns late is given back (`TakenUp`).

Three theorems are what the liveness properties rest on. `OwedInv` adds to `WorkerInv`
that a command without an answer is with its sender or with a worker that has not left
(`PendingIsOwned`), in its queue or in its hands, also while a worker leaves and drops
what is queued; and that a `Shutdown` stays queued until its worker has left
(`ShutdownIsKept`). What is left to fairness is that the owner moves:
`EveryCommandAnswered` and `DisconnectStopsWorkers` check that on the instance.
`StoredIsServed` says that a registration the proxy keeps has an alarm, or a push under
way, until the platform has run its handler in vain as often as it does; the alarm is
taken before the push, so this holds only because every end of a push sets it again,
deletes the registration, or has used up a try.

### Follow-ups

`NothingRunsTwice` is about one message and all that can send it: its start, the
autosend, its steering, the desktop's queue, and lists read before. `FollowInv` says for
a message the desktop never had, no list put back and no lost connection left in doubt, as
long as the channel has not lagged (`Private`, `Own`): a message about
to be started is nowhere else (`StartsAlone`); it is in the queue once; a sent one that
is still queued goes with the next event, which is not the end of a turn
(`LeavesQueue`); a steering under way has its draft marked (`Marked`) or comes too late to
be accepted (`TooLate`). These need the order of turn events on their way
(`EventsInOrder`) and that a call which read the running turn read what the thread shows
(`ReadTurn`); both are given up after a lag (`InTurn`). Every copy of a request that the
server may still take is of a message in doubt (`StraysUnsure`), so that a copy taken late
runs no message of the others. `DeskSent` and `DeskShared` bound what the desktop can bring back.

The attempt to prove it found `RunsOnce` false in its earlier form, for five messages
where the run has two: a message is steered, a deletion writes the list it read before
back over the mark, other events take the drafts before it, and the end of the turn sends it
again. The list restored no draft that was gone, only a mark that was set, and the model
counted only the former. `restored` now holds the messages of any list that is
written over a queue other than the one it was read from.

Lists are filtered by `Keep`, which is not recursive. That it keeps the order, and has
each place once, needs an induction over the number of places; `FollowUpsProofs` does it
by the least element of a set of naturals (`Least`), since the induction theorems of the
library take an operator.

### Cloud sync, connect flows, thread list

`CloudInv` says that every envelope, wherever it is, has all preferences of one moment
under one stamp (`Good`), so that hide and pin win together or not at all; a merge that
took them from two envelopes would break it. `RestInv` adds that the envelope a device
takes for known is the one it exported or merged last. Hence `RestAgrees`: a device with
neither a timer nor a notification has the preferences of its envelope in the store, or
merged newer ones. A change cannot be left behind without a timer, whatever merges come
in between, which is the safety part of `PrefsArePushed`.

In `ConnectFlowsProofs` the plans are pure case analysis, on operators without
recursion, so they are proved for all records; the run checks eighteen. Prompt and
progress rest on `ShownInv`: neither is inductive without knowing that an undisturbed
flow that has passed its start has an entry (`FlowHasEntry`) and that every running
progress belongs to a call that will end it, to the flow, or to a dial that has
quit (`ProgressHasOwner`).

In `ThreadListProofs` everything rests on `ListInv`. `TurnStaysShown` says that none of the
writers of a status, of which two keep it only against Idle and one builds the thread anew,
leaves a thread with an active turn Idle. The two action properties look at the
step in which a fan-out prunes, and what it prunes by was collected over all its pages: so
the invariant says that, as long as no runtime failed, one that is done with has delivered
every thread that was listed throughout, and a last page on its way holds the rest of them
(`SpanCovered`), and that in a calm call all that was delivered is still listed and in the
store (`CalmCovered`). `PagesOK` ties the pages on their way to the calls.

### What stays with TLC

The theorems say nothing of fairness. Liveness (`LossIsShown`, `RetiredIsClosed`,
`EveryCommandAnswered`, `DisconnectStopsWorkers`, `RequestsEnd`, `InvalidateRecycles`,
`EventuallyQuiet`, `OverlayEnds`, `TurnEndIsShown`, `PrefsArePushed`, `Quiesces`,
`CallsEnd`, `ListCallsEnd`) needs `ENABLED`, which is out of the prover's reach: it is
checked on the instances only.

## 7. Findings

`ipc_lost`: line 34 of `shared/rust-bridge/codex-ipc/src/client/reconnect.rs` says the
wrapper "automatically reconnects on disconnection".
The loop waits for the broadcast channel to close, but the handle in its own
`current_client` and the one in the slot keep a sender alive, so it never does. A
client whose link is lost stays in the slot, `is_connected()` stays true, and only
`invalidate()`, which a failing command calls, replaces it. The tests exercise
`invalidate()` only.

`cloud_lost`: the comment at `cm/cloud_sync/mod.rs:146` says that the newer side wins
"because its export happens after its local write". An export stamps every preference,
changed or not, with the current time; one that happens for another reason makes an old
value the newest.

The following were read in the code, without a run:

* `cm/store/reducer.rs:1923` says that a server in SSH bootstrap stays visible as
  connecting. Only Disconnected is held back; a Connected event of the replaced session's
  reader is applied.
* `IpcClient::disconnect` (called by `shutdown()`, `reconnect.rs:189`) does nothing while
  another handle exists, and the reconnect task, aborted but not yet dropped, has one;
  the detached read task runs until the link goes down.
* The guided attach (`cm/ffi/ssh.rs:711`, `mod.rs:1488`, 911) inserts its session over an
  existing one without closing it, also when no other call runs: the old session's workers
  go on until its readers drop it (`displaced` in `SessionRegistry`).
* A server that never answers the `turn/start` of an autosend stops the one store listener
  (`store_listener.rs:30`, 275), and with it what is shown of every server; one that
  never answers a request keeps its worker from seeing `Shutdown` (`connection.rs:1400`).
* A request that fails at the transport is sent again after the reconnect
  (`connection.rs:1410`), a `turn/start` too, though the server may have taken the first
  copy: the turn then runs twice.
* Follow-ups: the comment at `mod.rs:2254` says that a queued draft can be steered "or it
  will auto-send when the turn finishes", but folding any user message item, and any start
  of a turn, takes the first draft away (`reducer.rs:2480`, 1533), and an item is
  announced at its start and its completion: a draft queued between the two is gone before
  the turn ends. A steer that fails leaves its draft marked, and the end of the turn drops
  it unsent; a draft queued after the end of the turn waits for the next one; two drafts
  queued over IPC at once overwrite each other in the desktop's queue; a start over IPC
  that times out is repeated directly and may run twice; a refused start leaves its
  overlay; the pending mutation of a `SetQueuedFollowUpsState` that timed out is never
  finished; the comment at `mod.rs:2183` says a queued draft is steered below, and the
  return at 2256 prevents it.
* Thread list: `sync_thread_list` does not let a list page close a turn
  (`reducer.rs:331`), but `upsert_thread_snapshot`, through which all other pages go, builds
  the thread anew and drops its `active_turn_id`; the next message then starts a turn instead
  of being queued. A page or event with NotLoaded or SystemError replaces the status of a thread
  whose active turn stays. The refresh after a broadcast prunes even if a runtime failed
  (`thread_projection.rs:718`), which `ffi/client.rs:437` says would wipe healthy threads; it is
  awaited in the broadcast loop and has no time-out of its own. `list_sessions` prunes by one
  limited page of Codex, so threads beyond the limit and those of other runtimes leave the
  store until the next full list.
* Connect flows: a reconnect or a disconnect hides the question of a guided connect, which
  then waits for ever and swallows a new start; a start between the flow's last write
  and its removal from the list is swallowed too; a wake during a bulk reconnect is dropped;
  a server that comes up between the snapshot of a bulk reconnect and its dial is dialled
  again, and its session closed, unless its plan is a direct connect, which tests again.
* Cloud sync: `isApplyingRemoteUpdate` does not prevent the export it is there to
  prevent (`CloudKVSBridge.swift:35`); the blob of a device that lacks a key removes the
  key from iCloud; a change whose task has not run when the app is killed is never stamped.

IPC client, likewise: `set_request_handler` called between the
loop's read of the handler and its store of the new client reaches neither
(lines 285 and 294); the mobile policy starts the backoff at zero
(`cm/mobile_client/ipc_attach.rs:15`), and doubling leaves it there; a request that
times out leaves its entry in the pending map until the connection ends.

## 8. Not modelled

Thread projection and hydration (except what `ThreadList` has of them), realtime
transcripts and the parsers map data and keep little control. Discovery, SSH scripts, port
forwarding, pairing, the local shell, file storage and the push senders are I/O; they
appear as outcomes of a dial or a push. The user interfaces render snapshots. `PushProxy`
has no death of the phone's process, after which a registration it had stored is left to
the TTL. The hazard of a refresh that prunes after a failed runtime
(`thread_projection.rs:705`) has no property: the code does it. The TUI, the debug CLI and
the in-process bridge are tools over the same library or host upstream code.

## 9. Plan

In this order:

1. `IpcStream`: the cache of desktop conversations, patches and their recovery.
2. Reads of whole threads, which merge turns into what `ThreadList` and `FollowUps` keep.
3. Approvals and user input over two transports; the voice handoff.
4. Proofs of what the conditional liveness properties rest on (`OverlayEnds`, `CallsEnd`,
   `ListCallsEnd`, `RetiredIsClosed`): that whatever is not finished has an owner whose
   next step is under fairness.
