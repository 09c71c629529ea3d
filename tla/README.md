# TermCast, specified

TermCast mirrors the terminal sessions of a Mac to phones.  A menu bar app (the
agent) learns of shells through a hook that runs in each of them, keeps the last
64 KB of every session's output, and talks to an iOS and an Android app over one
WebSocket per phone.  This directory holds TLA+ modules of that program, the TLC
configurations that check them on small instances, and TLAPS proofs for all
instances.  Paths below are relative to `src/`; `mac/` stands for
`apps/mac/TermCast/`, `ios/` for `apps/ios/TermCastiOS/`, `android/` for
`apps/android/app/src/main/java/com/termcast/android/`.

## Inventory

| component | state | operations | what is hard |
|---|---|---|---|
| Ring buffer `mac/Core/RingBuffer.swift` | `storage`, `head`, `tail`, `count` | `write`, `snapshot`, `reset` | wrap-around, eviction at the exact capacity |
| PTY session `mac/ShellIntegration/PTYSession.swift` | ring buffer, TTY descriptor, reader task, callbacks | `start`, `stop`, `write`, `bufferSnapshot` | the reader is a detached task and shares the buffer with the actor; a failed `open` is silent; short writes |
| Session registry `mac/ShellIntegration/SessionRegistry.swift` | `sessions`, two callbacks | `register`, `remove`, `allSessions`, `session` | callbacks are set by a task that races the first registrations |
| Broadcaster `mac/WebSocket/SessionBroadcaster.swift` | `channels` | `add`, `remove`, `broadcast…` | writes go to whatever channels it has at that moment |
| WebSocket handler `mac/WebSocket/WebSocketHandler.swift` | `pongReceived`, `pingTask` | `channelActive`, `channelInactive`, one case per message | a task per event, none ordered after another |
| WebSocket server `mac/WebSocket/WebSocketServer.swift` | bound port | `start`, `stop` | next port when one is taken; the port is saved |
| Agent socket, hook `mac/ShellIntegration/AgentSocketServer.swift`, `shared/shell-integration/` | named pipes under `/tmp/termcast`, the Unix socket, a helper and a `tee` per shell | registration, recovery at launch | crash and restart with pipes left behind; a pipe opens only with both ends; pids come round |
| App delegate, menu bar `mac/App/TermCastApp.swift`, `mac/MenuBar/` | wiring, menu | launch sequence, `refreshMenuBar` | two awaits between reading and showing |
| Secrets and pairing `mac/Auth/`, `ios/Auth/`, `android/auth/` | keychain items | `load`, `save`, `clear` | two items saved one after the other; an error taken for absence |
| iOS session list `ios/Sessions/SessionStore.swift` | `sessions`, `states` | `apply` | a task per message |
| Android session list `android/sessions/SessionViewModel.kt` | `_sessions`, output flows | `handleMessage` | names of messages, flows that replay nothing |
| iOS connection `ios/Connection/` | `state`, `connection`, `reconnectTask`, keepalive timer | `connect`, `disconnect`, state updates, `scheduleReconnect` | timers against connection callbacks; what a failure means |
| Android connection `android/connection/` | `_state`, `socket`, `reconnectJob`, ping job | the same | sockets that outlive their replacement; fields that their threads and the main thread write without a lock |
| Keepalive `mac/WebSocket/WebSocketHandler.swift`, both apps' `PingPong` | two `pongReceived` flags, two timers | ping loop, timer, pong | both ends count the same five seconds; a loop that begins on a closed channel; a phone that answers on another socket than it was asked on |
| Terminals `ios/Views/SessionTabView.swift`, `android/terminal/`, `android/ui/` | `didAttach`, pending output, a WebView and its bridge | attach, output, tab switch, input, resize | an attach that is asked for once; a terminal that outlives its tab |
| Web page `shared/assets/xterm/index.html` and its tests `shared/cypress/` | the terminal, its write buffer, the bridge's calls | `termWrite`, `termResize`, listeners | the order of the script against events; output is drawn later than it is written |

The components interact in three ways.  **Calls between actors** (`await`): each
is a point where other tasks run.  **Unstructured tasks** (`Task { … }`): the
registry's callbacks, `channelActive`, `channelInactive`, every message a phone
sends or receives start one, and nothing orders two of them.  **The wire**: one
FIFO of frames per WebSocket, lost from some point on when the phone leaves.

What makes each part correct:

- *Ring buffer*: it is a queue that drops its oldest byte, and only that one.
- *Replay*: a phone that attaches sees consecutive bytes of the shell's output.
- *Session list*: when everything sent has arrived, the phone shows the sessions
  the Mac has, no more and no fewer; the list is never undone by an older message.
- *Broadcaster*: it holds exactly the connected channels.
- *Connections*: one live connection per phone; a drop leads to another attempt;
  a disconnect is final; only a refusal is an authentication failure.
- *Lifecycle*: a session per hooked shell, also after the agent was killed; its
  output never stays blocked; it leaves the registry when the shell does.
- *Launch*: a paired phone's secret and address stay good.
- *Keepalive*: both ends let a dead link go, neither gives up a peer that answers.
- *Terminal*: it draws its session's output once and in order, and its keys go to the
  session it shows.

The full list of places where this can go wrong is the `hazards` of
`PROJECT.json`, each at its line.

## Modules

| module | of | source |
|---|---|---|
| `ByteWindow` | abstract specification: a bounded queue of bytes | what `RingBuffer.swift` promises |
| `RingBuffer` | the circular buffer, one call at a time, byte by byte | `mac/Core/RingBuffer.swift` |
| `RingBufferProofs` | its theorems | |
| `ReplayRace` | the same buffer under its two real users | `mac/ShellIntegration/PTYSession.swift`, `RingBuffer.swift` |
| `ReplayRaceProofs` | its theorems | |
| `SessionSync` | registry, broadcaster, handshake, the phones' lists | `SessionRegistry`, `SessionBroadcaster`, `WebSocketHandler`, `TermCastApp` (Mac), `SessionStore` (iOS), `SessionViewModel` (Android) |
| `SessionSyncProofs` | its theorems | |
| `IOSConnection` | the iOS client: connection, reconnection, keepalive, screens, attach | `ios/Connection/`, `ios/App/TermCastiOSApp.swift`, `ios/Views/SessionTabView.swift` |
| `IOSConnectionProofs` | its theorems | |
| `AndroidConnection` | the Android client: sockets, jobs, keepalives, pairing | `android/connection/`, `android/MainActivity.kt` |
| `AndroidConnectionProofs` | its theorems | |
| `ShellLifecycle` | shells, hooks, pipes, registration, readers, crashes of the agent | `shared/shell-integration/`, `mac/ShellIntegration/`, `mac/App/TermCastApp.swift` |
| `MacAgent` | extends it with the launch: secret, port, QR code | `mac/App/TermCastApp.swift`, `mac/Auth/`, `mac/WebSocket/WebSocketServer.swift` |
| `MacAgentProofs` | its theorems, `ShellLifecycle`'s included | |
| `Keepalive` | one WebSocket with the watchdogs of both ends, in discrete time | `WebSocketHandler.swift`, `SessionBroadcaster.swift`, `PingPong` of both apps |
| `KeepaliveProofs` | its theorems | |
| `TerminalPage` | the web page around xterm.js and its bridge | `shared/assets/xterm/`, `shared/cypress/cypress/support/commands.js` |
| `AndroidTerminal` | extends it with the Android app around the page | `android/sessions/`, `android/terminal/` |
| `AndroidTerminalProofs` | its theorems, `TerminalPage`'s included | |
| `MC…` | instances for TLC | |

### RingBuffer and ByteWindow

`storage`, `head`, `tail`, `count` are the class's fields.  `write` is split:
`BeginWrite` enters it and `WriteByte` is one iteration of its loop, so that
every intermediate state exists.  `snapshot` changes nothing and is the operator
`Snapshot`.  `ByteWindow` is the contract: `window` is a sequence; pushing on a
full one drops its head.  `RingBuffer` implements it under
`window <- Snapshot`.

### ReplayRace

`PTYSession` declares its buffer `nonisolated(unsafe)`; its detached reader task
calls `write` while the actor, serving an attach, calls `snapshot`.  The module
extends `RingBuffer`'s state and replaces its actions with one action per access:
`Read`, `Store`, `Advance`, `Account` for the reader; `Allocate`, `EnterLoop`,
`Copy`, `Return`, `Attach` for the actor.  `EnterLoop` chooses between reading
`count` again and the value a build keeps in a register.  Bytes are numbered in
the order the shell wrote them.  Assumption: stores become visible in program
order (as on an Intel Mac); weaker memory adds behaviours, so the violation stands
there and the passing properties are claimed for the ordered machine only.

`Atomic` instantiates `RingBuffer` with the indices as they will be when the loop body
under way is over: the iteration happens with the store.  `WriterIsAtomic` says that
the three statements are `RingBuffer`'s `WriteByte` under that mapping.

### SessionSync

An action is a stretch of code between two awaits.

| action | code |
|---|---|
| `SetCallback` | the two awaits of the launch task that wires the registry |
| `Register`, `RemoveSession` | `SessionRegistry.register`, `remove`; both notify through the callback if it is set |
| `Broadcast` | the task a callback started, when it reaches the broadcaster |
| `Connect`, `SendList`, `HandlerGone`, `AddChannel` | a phone connects; the two halves of `channelActive`'s task |
| `ChannelInactive`, `RemoveChannel` | the channel closes; its removal task |
| `Apply` | a phone's `apply` / `handleMessage` on one received frame |

Sessions are identifiers: a `Session` record's other fields never decide
anything here.  A frame is its type, under the name it really has on the wire, and
the identifiers it carries.  A frame written to a channel whose phone has left, or
has opened another (iOS cancels the old connection), is lost.  On iOS any
received frame may be applied next (a task per message); on Android the
first.  Two variables are history: `disordered` (a phone applied frames
in another order than they came) and `raced` (the sessions whose announcement a
channel missed because it was between list and `add`, or got closing first).

`channelActive` is taken to run once per WebSocket, as the code relies on.
Whether NIO calls it on a handler that is added by the upgrade is a matter of that
library, which is not modelled.

### IOSConnection

`WSClient` and the views run on the main thread, so a handler is one action.

| variable | code |
|---|---|
| `state`, `didEverConnect` | `WSClient`'s fields |
| `link`, `target` | its `NWConnection` and the pairing that it was made with |
| `waiting`, `reconnectTask` | the tasks `scheduleReconnect` started, counted by pairing, and the one the variable holds |
| `timer`, `pongReceived` | the running `PingPong` |
| `stored` | `PairingStore` |
| `isOnboarding`, `isOffline`, `isAuthFailed` | `TermCastiOSApp`'s flags |
| `tab`, `didAttach`, `isEnded` | one session's `SessionTabView` |
| `replayed`, `outlived`, `worked` | history only |

| action | code |
|---|---|
| `Ready`, `Fail` | `handleStateUpdate` |
| `GoStale` | the Mac vanishes and the connection reports nothing (external) |
| `PingArrives`, `Tick` | `receiveLoop` on a ping; the timer's closure |
| `Reconnect`, `StrayReconnect` | the task `reconnectTask` holds wakes; one that was overwritten does |
| `Pair`, `Retry`, `Unpair` | the closures given to `QRScanView` and `OfflineView` |
| `TabAppears`, `TabDisappears`, `SessionEnded` | `onAppear`; the list leaves the session out; `onReceive` |

Assumptions.  SwiftUI runs `onChange(of: state)` before the next handler, so it
is part of the action that changes the state (`Offline`, `AuthFailed`,
`DropTab`, `Attaches`).  Timers and sleeps have no durations: they elapse in any
order, so `ReconnectPolicy` says only that a task sleeps.  On iOS its delay stays
short in any case: one failed reconnection ends the retries.  A connection that
`NWConnection` keeps in `.waiting` stays `"starting"`, as `handleStateUpdate`
ignores that state.  A stored pairing loads and its host makes a URL.  A save
that fails has deleted its item first, so a later load finds nothing.

### AndroidConnection

`connect()` makes a socket and forgets the one before, which lives on: its listener
writes the same fields from a thread of its own, while the main thread runs `connect`,
`disconnect` and the coroutines.  Each statement that reads or writes a field that two
threads share is one action.  `step` is where the callback of each socket stands, `main`
where the main thread stands inside `WSClient`, and `whose` the pairing it does that for;
what only the main thread touches goes with one of its statements.

| action | code (`WSClient.kt`) |
|---|---|
| `Connect`, `ReportConnecting`, `Dial` | `connect`: `didEverConnect` (`:33`), the state (`:34`), the socket (`:41`) |
| `Disconnect`, `StopsKeepalive`, `AbortsSocket`, `ClearsConnected`, `ReportDisconnected` | `disconnect`, line by line (`:81-86`) |
| `OnOpen`, `ReportConnected`, `StartPing` | `onOpen`: the flag (`:43`), the state (`:44`), the new `PingPong`, which does not stop the old one (`:46`) |
| `Fails`, `TestConnected`, `ReportRefused`, `ReportOffline` | `onFailure`: the keepalive (`:59`), the test (`:62`), either report (`:63`, `:65`) |
| `Closes`, `StopPing` | `onClosed`: the report (`:71`), the keepalive (`:72`) |
| `CancelJob`, `LaunchJob`; `MainCancelsJob`, `MainLaunchesJob` | `scheduleReconnect` (`:91`, `:93`) on a socket's thread; on the main thread, after a timeout |
| `PingMessage` | `onMessage` of a ping, on any socket |
| `GoStale` | the Mac vanishes and nothing is reported (external) |
| `PingTick`, `StrayTick` | a round of the keepalive in use; of one that was overwritten |
| `JobWakes`, `StrayJobWakes` | the job `reconnectJob` holds connects; one that was overwritten does |
| `Collect` | `collectAsState` and the effect on `AUTH_FAILED`: `clear`, `disconnect`, `isPaired = false` |
| `Retry`, `Pair` | `OfflineScreen`'s button; a scanned code |

A failure without a response needs no test and goes straight to its report.  A cancellation may come before `onOpen` and not keep it from
coming (`"aborted"`); a cancelled socket reports its end later, as OkHttp does.

`shown` is the state the screen last collected; it lags behind `state`.  A server
can answer only an upgrade, so a failure has a response only while a socket is
opening; the code takes any response for a refusal.  `isPaired` always equals
`stored # NoCreds` and has no variable.  `Sockets` are names: that of a replaced
socket that is never heard of again may be taken by a new one, chosen one statement before
the socket is made, which nobody can tell.  Not modelled:
`onDestroy`, after which no coroutine runs; delays, as on iOS; and the memory
model, as the fields are plain ones (every write is seen at once).

### ShellLifecycle

| variable | code |
|---|---|
| `shell`, `helper`, `tee` | one shell process, its `termcast-hook`, its `tee` |
| `name` | the named pipes `/tmp/termcast/<pid>.out`, each known by the shell that made it |
| `agent` | the app's process and its Unix socket |
| `tasks` | tasks that will call `register` |
| `pid`, `reader`, `fifo` | a session's record, its `PTYSession`'s reader task, the pipe that task has or waits for |
| `Busy`, `ThreadFree` (defined) | Swift's cooperative pool: a reader in `open(2)` or `read(2)` keeps one of its `Threads` threads (`PTYSession.swift:72-81`) |
| `crashes`, `unseen` | history only |

| action | code |
|---|---|
| `NameTaken`, `Hook`, `HookFish` | `termcast.sh` when `mkfifo` fails, when it does not; `termcast.fish` |
| `Register` | `termcast-hook` finds the socket or does not; `registrationHandler` starts a task |
| `PipeOpens`, `BrokenPipe`, `TeeEnds` | the kernel's side of a pipe (external) |
| `Exit` | the shell exits; the trap of `termcast.sh:30` names `$out_pipe`, local to the function, and removes nothing |
| `Launch`, `Listen`, `Crash` | `applicationDidFinishLaunching` with `recoverSessions`; `AgentSocketServer.start`; the process dies |
| `Admit`, `OpenPipe`, `EndOfPipe` | `SessionRegistry.register`; the reader's `open`; `read` returns 0 and `onClose` starts a task (`:87`) |
| `ClosePipe`, `Remove` | the reader's deferred `close` and unlink (`:76`) and that task's `SessionRegistry.remove`, in either order |

Bytes are not in the model; `ReplayRace` is about them.  `Born` lets a pid come
round only after everything finite that the earlier shell left behind has run: a
system reuses a pid after tens of thousands of others.  What waits for ever (a reader
whose pipe never opened, a task for which no thread is free) may meet the new shell.

An agent's task needs a free thread to begin (`ThreadFree` in `Admit`, `OpenPipe` and
`Remove`); what follows without a pause keeps the thread it has.  The start task's
`Listen`, and `ServerBinds` of `MacAgent`, are not held up by the pool: that adds behaviours,
and only safety properties look at them.  `SessionSync` and `Keepalive` have no sessions'
readers and take a task that can run to be run; on an agent whose pool is blocked for good
their liveness and their bounds on time do not apply.

### MacAgent

It adds to each of `ShellLifecycle`'s actions what the launch does to the secret
and the port.

| action | code |
|---|---|
| `LaunchLoads`, `LaunchGenerates` | the launch when the keychain gives the secret, when it does not (`TermCastApp.swift:14-22`) |
| `SocketBinds`, `SocketFails`, `ServerBinds`, `PortSaved` | the statements of the start task, in order; `busy` are the ports others hold |
| `ShowQR` | `showQRCodeIfAvailable`, and a phone that scans it |
| `AgentCrashes`, `OtherStep` | the rest of `ShellLifecycle` |

Secrets are named by the life of the agent that made them.  `Saved` has every
outcome of a `save` that deletes and then adds.  The actual JWT check is an
equality of secrets.

### Keepalive

Time is discrete.  A timer is never early and at most `Jitter` late, a frame takes at
most `Delay`; `Tick` is disabled while something is due (`Urgent`).

| action | code |
|---|---|
| `AddChannel`, `StartLoop` | the second half of `channelActive`'s task |
| `Wake`, `Test`, `Clear`, `Send` | the statements of `startPingLoop`, between which `PongArrives` may come |
| `ChannelInactive`, `RemoveChannel` | `channelInactive` and its task |
| `Ready`, `PingArrives`, `PhoneTick` | the start of `PingPong`; `receiveLoop` or `onMessage` on a ping; the timer's closure |
| `Replace`, `Answered` | Android's `connect()` puts another socket in this one's place without closing it; its pings are from then on answered on the new one (`WSClient.kt:41,78`) |
| `PhoneLeaves`, `Vanish` | the phone closes; either end vanishes without a word (external) |

`silent` counts the time since both ends were last in touch (`InTouch`): connected, with a
socket that the phone answers on.  A replaced socket is live and silent, and the Mac closes
it.  `kind` tells the apps apart: iOS's timer repeats at fixed times, Android's coroutine
sleeps anew and sends a pong at every round.  `StartLoop` may come after
`ChannelInactive`, and its loop is then cancelled by nobody; it ends when its first
ping goes unanswered.  `Horizon` caps the clocks at three rounds, beyond every
bound a property names.

### TerminalPage and AndroidTerminal

`TerminalPage` is the page alone: its script is one action (`Load`), then come
`TermWrite`, `Type` and xterm's timer (`Parse`).  xterm.js is vendored: its write buffer is
modelled as an external part, from how the page uses it, and the terminal's size (`fit`,
`resize`, `onResize`) is left out.  A bridge is `"recording"`, the one `commands.js` puts into
the page for the tests (`OpenTerminal`), or `"android"` (`AppStarts`).

| variable of `AndroidTerminal` | code |
|---|---|
| `selected`, `bound` | the selected tab; the session whose flow and callbacks the one `TerminalScreen` remembered |
| `asked` | attaches on their way and answers on their way back, in any order: the Mac starts a task per message |
| `pendingOutput`, `flushed`, `posts` | `TerminalScreen`'s list, its `LaunchedEffect(isReady)`, the calls `XtermBridge` posted |
| `arrived`, `raced` | history only |

| action | code |
|---|---|
| `Appear`, `Select`, `Leave` | `SessionListScreen` shows its terminal, another tab, goes offline |
| `Output`, `NoAnswer` | `handleMessage` emits and the collector runs; the Mac does not know the session |
| `Flush`, `Evaluate` | the effect; `evaluateJavascript` |
| `UserTypes` | `onData` through the bridge |
| `TestWrites`, `TestTypes` | the Cypress tests write and type |

`raced` marks output collected after `onReady` and before the effect: it overtakes
what waits, and `OutputInOrder` excuses only that.

### Deliberate mistakes

A definition that stands just before one of a similar name is that definition
with a mistake a programmer could make.  Nothing refers to it; put in the place of
its neighbour it must make TLC find a violation:

| mistake | in place of | noticed by |
|---|---|---|
| `FullLate` (evicts one byte late) | `Full` | `TypeOK` of `RingBuffer`, `FullReplayNeverTraps` |
| `SnapshotFromZero` (ignores `head`) | `Snapshot` | `ImplementsWindow` |
| `SizeFull` (copies the whole storage) | `Size` | `ReplayInventsNothing` |
| `SlotNext` (off by one) | `Slot` | `EarlyReplayIsPrefix` |
| `StoreAhead` (moves the index before it stores) | `Store` | `WriterIsAtomic` |
| `AnnouncementByKind` (wrong wire name) | `Announcement` | `TypeOK` of `SessionSync` |
| `WithoutPhone` (removes all the phone's channels) | `Without` | `NoSessionMissed` |
| `WithNone` (does not join) | `With` | `EventuallyShown` |
| `AppliedNoClose` (store drops a closing) | `Applied` | `NoGhostSession` |
| `RecipientsOpen` (writes to every open channel) | `Recipients` | `ListComesFirst` |
| `CancelledAlways` (counts a cancellation of no task) | `Cancelled` | `TypeOK` of `IOSConnection` |
| `DropNoRetry` (schedules nothing) | `Drop` | `OfflineIsTemporary` |
| `OfflineOnDrop` (forgets the screen of a refusal) | `Offline` | `ScreenTellsState` |
| `AttachesEarly` (asks while still connecting) | `Attaches` | `ReplayUnlessOutlived` |
| `RefusedNoRetry` (no task asleep means refused) | `Refused` | `DropIsNotRefusal` |
| `OverdueNever` (counts only before the connection is up) | `Overdue` | `StaleIsNoticed`, of both clients |
| `AfterRefusalRetries` (goes on to reconnect) | `AfterRefusal` | `TypeOK` of `AndroidConnection` |
| `LaunchedNone` (cancels without launching) | `Launched` | `OfflineTriesAgain` |
| `ReportedCurrent` (only the newest socket's end is reported) | `Reported` | `ConnectedMeansOpen` |
| `AfterTimeoutNothing` (a timeout schedules nothing) | `AfterTimeout` | `ConnectedIsWatched` |
| `ConnectingSilently` (does not report that it connects) | `Connecting` | `OfflineIsLeft` |
| `RecoveredDead` (the test for a live shell negated) | `Recovered` | `HookedShellsAreListed`, `LiveOutputIsRead` |
| `UnlinkedNone` (keeps the pipe's name) | `Unlinked` | `StaleNamesAreStuck` |
| `DeliveredNone` (the helper sends nothing) | `Delivered` | `TerminalComesAlive` |
| `ClosedSilently` (no `onClose`) | `Closed` | `EndedShellLeaves` |
| `AttemptsOneMore` (one port too many) | `Attempts` | `MacTypeOK` |
| `LoadedFresh` (a new secret although one is stored) | `Loaded` | `PairedPhoneVerifies` |
| `FreePortSkipsFirst` (increments before it tries) | `FreePort` | `ServedWhereForwarded` |
| `CancelsAnyway` (cancels a loop that is not there) | `Cancels` | `TypeOK` of `Keepalive` |
| `AfterSendFirst` (sends before it clears the flag) | `After` | `LivePhoneIsKept` |
| `ClearedNot` (never clears the flag) | `Cleared` | `DeadLinkIsLetGo` |
| `RemovedNot` (leaves the channel in) | `Removed` | `ClosedChannelLeaves` |
| `ReceivedIgnored` (a ping does not mark the timer) | `Received` | `AlarmMeansQuiet` |
| `KeptAll` (does not clear what it flushed) | `Kept` | `TypeOK` of `AndroidTerminal` |
| `CollectsSelected` (collects the selected tab's flow) | `Collects` | `OutputInOrder` |
| `CollectsReady` (drops what comes before the page) | `Collects` | `OutputReachesScreen` |
| `KeysToSelected` (keys follow the tab) | `KeysTo` | `KeysGoToWhatIsShown` |

## Runs

| run | configuration | what it shows |
|---|---|---|
| `ring_buffer` | 3 slots, 3 byte values, chunks from empty to longer than the buffer | types, and that the buffer implements `ByteWindow` |
| `replay_race` | 4 slots, 11 bytes, reads of 1 or 2 | while reader and actor race: no byte is invented, a replay before the first eviction is the exact beginning of the output, a copy of a full buffer never traps; the writer's statements implement `RingBuffer` |
| `replay_torn` | the same | **violated**: a replay is not always contiguous |
| `sync_reconnect` | 1 session, 1 iOS phone, 2 channels, fairness | after any reconnection the phone's list is the Mac's, except through the windows named; it gets there; the list is first on the wire |
| `sync_android` | 1 session, 1 channel, Android | **violated**: the phone does not follow sessions that open after its list |
| `ios_client` | 2 pairings, 2 tasks asleep, 1 tab, fairness | a drop is retried and never taken for a refusal, the screen agrees with the connection, a tab asks for its replay, a Mac that vanished is noticed |
| `ios_refused` | the same | **violated**: a pairing that has worked is reported as refused |
| `android_client` | 1 pairing, 2 sockets, 1 stray of a kind, fairness | the client keeps trying and does not stay offline for good, what it reports has a socket and a keepalive behind it, and a Mac that vanished is noticed (522 000 states) |
| `shells` | 3 shells, 2 of one pid, 3 sessions, 2 threads, 1 crash, fairness | hooked shells are listed and read across a crash, names stay only where named; while readers do not hold every thread for good, a new shell's output is let through and a session of a dead shell leaves (1.4 million states) |
| `agent_launch` | 1 shell, 2 sessions, 1 thread, 2 crashes, 2 ports a launch | over three lives of the agent a paired phone still verifies and the server is where Tailscale forwards to, unless the keychain refused or the port was taken |
| `keepalive` | period 5, jitter 1, delay 1, either phone | the Mac gives up no phone that answers, both ends let a dead or replaced link go within a bound, the phone's alarm means a silence of that length, a closed channel leaves the broadcaster |
| `android_terminal` | 2 sessions, 4 attaches, 2 keys, both hosts, fairness | output is drawn once, in order and at last; keys go to the session shown |

**Bounds.**  Three slots are enough for the counters to meet at every offset,
and chunks of four wrap and evict inside one call.  Four slots and eleven bytes
let the writer lap the copier more than once.  Two channels are what one
reconnection needs: the old one dying at any moment of the new one's handshake.  Two
sessions let two announcements cross; that instance passes with one channel, and with
two (8.5 million states with the sessions symmetric) in about five minutes, so the run
has one session.  Each identifier is used once; the Mac draws UUIDs.  Two pairings let a
task asleep for the first wake under the second.  `MaxWaiting` stops the timer, not a
failure, from starting a third task: two are enough for one to be overwritten while
the other is held, and a failure can still add to them.  Two sockets are a leaked one and
the one in use, and the proofs of the safety properties need no bound.  On Android a stray more than `MaxStrays` counts as one already
there: it acts when that one does.

Two shells of one pid are the case in which a name is fought over, and the third shell, of
another pid, needs a thread while they hold theirs; a crash lets a session of the first life,
a recovery and a new shell of the second meet; three sessions are a recovery and a late
registration of one shell and a session of another.  With two threads the pool is blocked,
for a while and for good, and with a third session a task waits for it.  The proofs have
any number of crashes and of threads.  Two attempts at a port stand for the five of the code: what matters is one
that is free, one that is not, and none.  Period 5 leaves room for a frame to go and
come back (`2 * Delay < Period`) and for jitter to shift a ping across a round.
Four attaches are two of each session in turn, or output before, during and after the
page's start; with five the run has 933 000 states and passes as well.  Two calls of
`onInput` are before and after a tab switch.

**Excuses.**  `NoSessionMissed` and `NoGhostSession` hold outside four windows the
code leaves open, and each is stated exactly so that nothing else can hide in
it: the announcement fell between list and `add` (`raced`), a closing was
announced before its opening (`raced`), the change came before the callbacks were
set (`Unannounced`), the phone's tasks ran out of order (`disordered`).
`HookedShellsAreListed` and `TerminalComesAlive` except shells hooked between
the agent's one search for pipes and its socket (`unseen`); `PairedPhoneVerifies` an
agent whose keychain refused a call (`locked`); `ServedWhereForwarded` one that once
found its port taken (`collided`); `OutputInOrder` output between `onReady` and the
effect (`raced`); `ClosedChannelLeaves` a removal that ran before its addition
(`overtaken`).  `TerminalComesAlive` and `EndedShellLeaves` are asked for on behaviours on
which a thread of the pool is free again and again (`PoolRecovers`).  `ConnectedMeansOpen`
counts a socket that `disconnect()` has cancelled and whose end is still to be reported:
between `:43` and `:44` of `WSClient.kt` it may, and `CONNECTED` is then said of a socket
that is no more open, until its failure says otherwise.

**Fairness.**  `FairSpec` asks only that a task that can run is run eventually:
the launch task, each announcement task, each handshake and removal task, and the
phone's queue.  Swift's executors do that while the pool has a free thread (see
`ShellLifecycle`), the NIO loop and the phone's main queue in any case.  Shells, phones and connections owe nothing: they may open, close or stay.
The iOS client's asks that its timer fires and that sleeping tasks wake.  The Android
client's asks that its threads do not all rest while one of them has a statement to run or
the screen a state to collect (all of that ends unless there is a new `connect()`, so
nothing starves), that the keepalive in use goes on, and that a socket ends that was
cancelled (OkHttp reports it) or that was replaced and whose Mac is there.  The last rests
on the Mac, which closes a channel that answers no ping (`WebSocketHandler.swift:82`), and on
the app, which answers on its newest socket only (`WSClient.kt:78`): in `Keepalive` a
replaced socket is one that stops answering (`Replace`), and `DeadLinkIsLetGo` bounds the
time until the Mac has closed it.
`ShellLifecycle`'s asks one thing, that helpers, tees, the kernel's pipes and the
agent's tasks do not all stand still while one of them can go on; each of them happens
finitely often, so none starves.  A task can go on only while the pool has a thread for
it, and nothing promises that: readers keep theirs for as long as their shells are idle.
Shells need not print or exit, nobody need start the agent.  `AndroidTerminal`'s asks that the page loads, its timer fires and the app's main
thread goes on.  `Keepalive` has no fairness: its bounds on time are safety
properties, and `Tick` waits for whatever is due.

**Deadlock.**  `ring_buffer` never stops.  The others may: identifiers are used up,
the shell has written its last byte, or the process has trapped; their
configurations say `CHECK_DEADLOCK FALSE`.

## Where the code and its documents part

- `RingBuffer.swift:3-4` asks callers to synchronise and `:29` promises a contiguous
  copy; `PTYSession.swift:8` lets two tasks in (`replay_torn`).  In the same race
  `Copy` can index past its array before the buffer is full, which traps.
- `messages.json:27,31` name `session_opened` and `session_closed`; the Mac
  sends `sessionOpened` and `sessionClosed` (`WSMessage.swift:5`), the Android app
  matches the document (`sync_android`).  The iOS app shares the Mac's names.
- `WSClient.swift:29` clears `didEverConnect` at every reconnection, so one failed
  attempt is `authFailed` (`:85` says "with these credentials") and the back-off
  of the design document never goes past its first step (`ios_refused`).

### Statements that do not hold

Written in the modules, or read off them, and part of no run:

- `EveryAnnouncementArrives` (`SessionSync`): `WebSocketHandler.swift:22-25` sends the list
  before it joins the broadcaster, and what is announced in between never arrives.
- `ClosedChannelLeaves` of `SessionSync`, without `Keepalive`'s excuse:
  `WebSocketHandler.swift:41` removes a channel in a task that may run before the one that
  adds it.
- `ClearsTheRejected` (`AndroidConnection`): `MainActivity.kt:61` clears whatever pairing is
  stored when `AUTH_FAILED` comes, and with two pairings that may be an old one's.
- `DropIsNotRefusal` of `AndroidConnection` (on iOS it holds): "If we never connected with these
  creds, treat as auth failure" (`WSClient.kt:61`), but another socket may connect between
  the test at `:62` and the report at `:63`, or a `connect()` may just have cleared the flag.
  A client that is connected is then told to pair anew.
- `EveryTerminalComesAlive` (`ShellLifecycle`): "blocks until shell has it open too"
  (`PTYSession.swift:73`) happens on a thread of the cooperative pool, and so does every
  `read`.  With as many idle sessions as threads the next shell's reader never starts, and
  its terminal prints nothing; no other task of the agent runs either.
- `OfflineMeansDown` (`AndroidConnection`): a leaked socket's end shows "Mac Offline"
  over a connection that is up.
- `OnlyStaleIsGivenUp` (`Keepalive`): the phone's round and the Mac's are the same five
  seconds (design document, lines 157 and 301), so jitter alone can make a ping miss
  a round, and a healthy connection is dropped.
- `ReplayAlways` (`IOSConnection`): "`attach` always replays" fails for a tab that outlives its
  connection; `UnpairIsFinal`: an overwritten task reconnects after `disconnect()`.
- The Mac's port never comes back to 7681: once another program has held it, the next
  port is saved and preferred, while Tailscale goes on forwarding 7681
  (`collided`, and step 4 of the sixth smoke test has it succeed).
- The trap of `termcast.sh:30` removes nothing (`Exit`).
- "Sessions survive TermCast restart" fails for a shell that prints while no agent
  runs: `SIGPIPE` ends its `tee` (`BrokenPipe`), and its output with it.
- The hook is a "Silent no-op if socket unreachable", but the output of a shell
  whose registration is lost goes to a pipe that nobody opens: the terminal stays frozen
  until an agent starts and finds it (`unseen`).
- Steps 2 and 3 of the eighth smoke test: after a tab switch on Android the terminal keeps the
  first session's flow and page while `attach` and the key toolbar follow the
  selected tab.  The new session's replay has no collector; switching back draws the
  first one's again below what is there.
- The size of the first fit is reported to nobody: `index.html:30` fits before `:38` listens
  (read off the page; sizes are not modelled).

## Proofs

For every value of the constants that satisfies the named assumptions.

- `RingBufferProofs` (from `CapacityAssumption`, `ByteAssumption`,
  `ChunksAssumption`): `TypeCorrect`, `CountersAlwaysAgree` and `Refinement`.  The
  inductive invariant is `TypeOK /\ CountersAgree`: without the second
  conjunct the eviction step could drop another byte than the oldest.  The refinement
  maps `WriteByte` to `Push` with one lemma for a full and one for a
  part-filled buffer, both about indices modulo the capacity; `Reset` maps to
  `Clear`, `BeginWrite` to a stutter.
- `ReplayRaceProofs` (from those and `ReplayAssumption`): `RaceTypeCorrect`,
  `ReplayInvented`, `EarlyReplay`, `FullReplaySafe`, and the refinements `WriterRefines` and
  `WriterIsQueue`.  The inductive invariant follows both sides of the race.  For the writer,
  `ChunkInOrder` says which numbers are in hand, `NothingEvicted` that until the buffer has
  been full the indices count the bytes, and `StoredBeforeCounted` that what `count` covers is
  there: a byte is counted last.  For the copier, `CopyInside` says that the array was sized
  by a `count` that has only grown since, and `CopiedBytes` that each place of the result is
  a byte and, before the first eviction, the byte of its own number.  `WriterIsQueue`
  carries `RingBufferProofs`' `Refinement` over by instantiating it under the mapping of
  `Atomic`.
- `SessionSyncProofs` (from `ClientsAssumption`): `TypeCorrect`, `ListFirst`, `SessionsArrive`
  and `NoGhosts`.  For the first two the inductive invariant adds two facts about the
  handshake: a channel in the broadcaster is past its list (`JoinedHasList`), and a
  channel that has not opened has no task (`IdleHasNoTask`).  Without the first, a
  broadcast could put an announcement before the list.  The other two speak of settled
  phones only, and `SyncInv` of the phones on their way there: `WillShow(c, s)` is what phone
  `c` will show of session `s` once it has applied, in order, what is queued for it, which
  the last message about `s` decides (`Final`).  `InSync` says that `WillShow` agrees with
  the list while the channel has not joined, and with the registry but for
  announcements to come, never made, or raced.  The three facts about `Final`, for an
  append, for the first message applied and for an empty queue, carry every step.
- `IOSConnectionProofs` (from `CredsAssumption`): `TypeCorrect`, `OfflineTriesAgain`,
  `ScreenCorrect`, `ReplayAskedFor` and the action property `DropsAreTold`.  The
  inductive invariant says besides that the task `reconnectTask` names is counted in
  `waiting` (`HeldIsAsleep`, else a cancellation could take another's place), that
  an offline client's pairing is the one held (`OfflineIsHeld`), which state each
  state of the connection goes with (`StateFollowsLink`), that a connection has a
  pairing (`HasTarget`), and what a tab that has attached remembers (`TabKeeps`).
- `AndroidConnectionProofs` (from `CredsAssumption`, `SocketsAssumption`): `TypeCorrect`,
  `OfflineRetries`, `ConnectedOpen` and `ConnectedWatched`.  The three state properties are
  inductive together with `TypeOK` once one fact is added, `CallbacksFit`: what is left of an
  `onOpen` runs on a socket that has opened and not ended, and what is left of an end on one
  that has ended.  So the report of `CONNECTED` finds its socket still to end, and no
  connection takes the name of a socket that has something left to report.
- `KeepaliveProofs` (from `TimesAssumption`: natural durations with
  `2 * Delay < Period`): `TypeCorrect`, `LivePhoneKept`, `DeadLinkLetGo`, `ClosedLeaves`
  and the action property `AlarmsMeanQuiet`.  `LivePhoneIsKept` is not inductive: that a
  loop which finds its flag clear faces a link that has been silent needs to know where the
  answer is meanwhile.  `PongIsDue` says so: while the loop sleeps on a socket that is answered on, with its flag
  clear, a ping sent when it fell asleep, or the answer to one, is still on its way, and so
  it has not slept longer than `2 * Delay`; `LoopInv` ties the loop's step to the flag.
  `DeadLinkIsLetGo` comes from two chains of bounds on `silent`, one along the
  loop's steps (`MacOnTime`, `MacNotices`) and one along the frames still under way and
  the phone's rounds (`PhoneOnTime`, `PhoneNotices`).
- `AndroidTerminalProofs` (from `CallsAssumption`, `SessionsAssumption`): `TypeCorrect`,
  `OutputKeepsItsOrder` and `KeysFollowTheScreen`, every safety property of the run.  `Hosts` says what each host leaves alone: without it a test's
  write could overtake the app's queues, and a terminal could appear over an old
  one's output.  `OnlyBound` (everything on its way is the bound session's)
  carries the keys.  `OutputInOrder` moves bytes between four queues; `MoveFirst` and
  `AppendLast` are the two facts about sequences it rests on.

- `MacAgentProofs` (from `ShellsAssumption`, which wants one pid at least, and
  `LaunchAssumption`): `ShellTypeCorrect`, `HookedListed`, `LiveOutputRead` and
  `StaleNamesStuck` of `ShellLifecycle`; `MacTypeCorrect`, `PairedVerifies` and
  `ServedForwarded` of `MacAgent`; and `AgentRunsShells`, that `MacAgent` implements
  `ShellLifecycle`, so that the first four hold of it as well.  The three properties of
  shells speak of settled states.  `ShellInv` says what holds on the way:
  `HookedShellsAreKnown`, `LiveOutputWillBeRead` and `NamesAreKnown` allow for a registration
  in hand (`Arriving`) or a session that has still to open its pipe (`Starting`), and no task
  of the agent may be the last to know a pipe without passing it on.  They rest on who may
  take a name away: a live shell has its pid to itself (`LivePidIsOwn`), no session of that
  pid is on its way out (`LivePidIsNotClosing`), and so its pipe keeps its name
  (`LivePipesKeepTheirName`).  `MacInv` needs no more than that secret, stored and paired
  agree while the keychain has answered (`OneSecret`) and that only one port was used while
  none was found taken (`OnePort`); the types of the ports grow with the launches
  (`LaunchTypes`).  That a first free port exists is a least element of a set of numbers,
  and `LeastOf` gets it from the library's well-founded order on finite sets, as
  induction itself is out of reach.

Only model-checked are the temporal properties, as liveness under fairness is beyond the
prover: `EventuallyShown`, `StaleIsNoticed` of both clients, `OfflineIsLeft`, `TerminalComesAlive`, `EndedShellLeaves` and
`OutputReachesScreen`.  Every safety property, action property and refinement that a
passing run checks is proved.  The properties of the three violated runs do not hold and have no
proof.

## Not modelled

- Cryptography and the JWT's form, Tailscale's command line, the camera, keyboards,
  colours: no protocol state.  The installer and the process inspector are sequential
  file and process calls.  `cypress.config.js` only serves files.
- Live output: `broadcastOutput` and `setOutputHandler` have no caller, so there is
  no path to model; a phone sees output only through an attach.
- The menu bar's refresh, and the input and resize messages on the Mac: see the plan.
- The iOS terminal's single slot for pending output, which needs SwiftUI's batching of
  updates; the delays of `ReconnectPolicy`, whose shift is one line of arithmetic.
- xterm.js beyond its write buffer: it is vendored.  The terminal's size, from `fit` and
  `onResize` to the phone's message: the bridge passes on what xterm tells.

## Plan

What is left, in order:

1. `MenuBar` on top of `SessionSync`: the last refresh shows the last state.
2. `InputPath`: order and completeness of input from the handler's tasks to `write`, and
   a resize that signals the pid of a shell that is gone.
3. Theorems for both.
