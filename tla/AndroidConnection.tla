------------------------- MODULE AndroidConnection -------------------------
(***************************************************************************)
(* The Android app's connection to its Mac: WSClient, its sockets, its     *)
(* reconnection and keepalive coroutines, and the part of MainActivity     *)
(* that pairs, retries and forgets a pairing.  connect() does not close    *)
(* the socket it replaces, so several can be alive, each with a listener   *)
(* that writes the same fields from a thread of its own, while the main    *)
(* thread does.  Every statement that reads or writes what two threads     *)
(* share is an action; what only the main thread touches goes with one of  *)
(* its statements.  Delays have no durations.                              *)
(*                                                                         *)
(* A definition just before one of a similar name is a mistake the code    *)
(* could make; README.md names the property that notices it.               *)
(***************************************************************************)
EXTENDS Naturals

CONSTANTS
  Creds,      \* pairings that can be scanned
  NoCreds,    \* no pairing
  Sockets,    \* names for the sockets alive at one time
  NoSocket,
  MaxStrays   \* overwritten coroutines of a kind and a pairing that are told
              \* apart: more count as this many

ASSUME CredsAssumption == NoCreds \notin Creds /\ MaxStrays \in Nat
ASSUME SocketsAssumption == NoSocket \notin Sockets

VARIABLES
  main,            \* what the main thread has left to do in WSClient: "idle";
                   \* of connect "report", "dial"; of scheduleReconnect
                   \* "cancel", "launch"; of disconnect "stop", "abort",
                   \* "clear", "leave"
  whose,           \* the pairing it does that for
  state,           \* WSClient._state
  socket,          \* WSClient.socket, which may have ended
  wire,            \* each socket: "ended", "new", "opening", "open", "stale"
                   \* (its Mac is gone and nothing tells); cancelled before its
                   \* onOpen "aborted", after it "cancelled"
  credsOf,         \* the pairing its listener was made for
  step,            \* where its callback is: "none", or what is left to do: of
                   \* onOpen "connected", "ping"; of an end "test", "refuse",
                   \* "offline", "stop", "cancel", "launch"
  didEverConnect,
  reconnectJob,    \* the pairing of the job that the variable holds, if asleep
  strayJobs,       \* jobs asleep that were overwritten, by pairing
  pingPong,        \* the pairing of the keepalive in use, if it runs
  pongReceived,    \* its flag, TRUE if none runs
  strayPings,      \* keepalives that were overwritten and run, by pairing
  stored,          \* PairingRepository; isPaired is stored # NoCreds
  shown,           \* connectionState, the state the screen last collected
  answered         \* history: pairings whose upgrade a server has answered

mainVars == <<main, whose>>
socketVars == <<socket, wire, credsOf, step>>
jobVars == <<reconnectJob, strayJobs>>
pingVars == <<pingPong, pongReceived, strayPings>>
appVars == <<stored, shown, answered>>
vars == <<mainVars, state, didEverConnect, socketVars, jobVars, pingVars, appVars>>

States == {"DISCONNECTED", "CONNECTING", "CONNECTED", "OFFLINE", "AUTH_FAILED"}

\* onCreate has run: with a pairing the client is connecting.
Init ==
  /\ main = "idle" /\ whose = NoCreds
  /\ stored \in Creds \cup {NoCreds}
  /\ socket \in IF stored = NoCreds THEN {NoSocket} ELSE Sockets
  /\ state = IF stored = NoCreds THEN "DISCONNECTED" ELSE "CONNECTING"
  /\ wire = [s \in Sockets |-> IF s = socket THEN "opening" ELSE "ended"]
  /\ credsOf = [s \in Sockets |-> IF s = socket THEN stored ELSE NoCreds]
  /\ step = [s \in Sockets |-> "none"]
  /\ didEverConnect = FALSE
  /\ reconnectJob = NoCreds
  /\ strayJobs = [k \in Creds |-> 0]
  /\ pingPong = NoCreds
  /\ pongReceived = TRUE
  /\ strayPings = [k \in Creds |-> 0]
  /\ shown = "DISCONNECTED"
  /\ answered = {}

-----------------------------------------------------------------------------
(***************************************************************************)
(* The main thread inside WSClient.                                        *)
(***************************************************************************)

\* The main thread goes from one statement to the next.
MainGoes(from, to) == main = from /\ main' = to

\* connect, first didEverConnect.set(false) ...
Connect(k) ==
  /\ MainGoes("idle", "report")
  /\ whose' = k
  /\ didEverConnect' = FALSE
  /\ UNCHANGED <<state, socketVars, pingVars>>

\* A name for a new socket.  The name of one that was replaced and of which
\* nothing is ever heard again may be taken.
Nameable(s) ==
  s # socket /\ step[s] = "none" /\ wire[s] \in {"ended", "stale", "opening"}

ConnectingSilently == state

Connecting == "CONNECTING"

\* ... then the state (here the socket to come gets its name) ...
ReportConnecting ==
  /\ MainGoes("report", "dial")
  /\ state' = Connecting
  /\ \E s \in Sockets :
       /\ Nameable(s)
       /\ wire' = [wire EXCEPT ![s] = "new"]
       /\ credsOf' = [credsOf EXCEPT ![s] = whose]
  /\ whose' = NoCreds
  /\ UNCHANGED <<didEverConnect, socket, step, jobVars, pingVars, appVars>>

\* ... then the new socket, in the place of the old one.
Dial(s) ==
  /\ MainGoes("dial", "idle")
  /\ wire[s] = "new"
  /\ wire' = [wire EXCEPT ![s] = "opening"]
  /\ socket' = s
  /\ UNCHANGED <<whose, state, didEverConnect, credsOf, step, jobVars, pingVars, appVars>>

\* The coroutine of k, if there is one, is overwritten and goes on.
WithStray(strays, k) ==
  [j \in Creds |-> IF j = k /\ strays[j] < MaxStrays THEN strays[j] + 1 ELSE strays[j]]

\* scheduleReconnect of a keepalive that timed out, in its two statements; a
\* job another thread put there between them is overwritten and sleeps on.
MainCancelsJob ==
  /\ MainGoes("cancel", "launch")
  /\ reconnectJob' = NoCreds
  /\ UNCHANGED <<whose, state, didEverConnect, socketVars, strayJobs, pingVars, appVars>>

MainLaunchesJob ==
  /\ MainGoes("launch", "idle")
  /\ strayJobs' = WithStray(strayJobs, reconnectJob)
  /\ reconnectJob' = whose
  /\ whose' = NoCreds
  /\ UNCHANGED <<state, didEverConnect, socketVars, pingVars, appVars>>

\* disconnect: reconnectJob?.cancel() ...
Disconnect ==
  /\ MainGoes("idle", "stop")
  /\ reconnectJob' = NoCreds
  /\ UNCHANGED <<whose, state, didEverConnect, socketVars, strayJobs, pingVars>>

NoKeepalive == pingPong' = NoCreds /\ pongReceived' = TRUE

\* ... pingPong?.stop() ...
StopsKeepalive ==
  /\ MainGoes("stop", "abort")
  /\ NoKeepalive
  /\ UNCHANGED <<whose, state, didEverConnect, socketVars, jobVars, strayPings, appVars>>

\* Cancelling a socket that has ended does nothing.
CutOff(s) ==
  CASE wire[s] = "opening" -> "aborted"
    [] wire[s] \in {"open", "stale"} -> "cancelled"
    [] OTHER -> wire[s]

\* ... socket?.cancel() and socket = null ...
AbortsSocket ==
  /\ MainGoes("abort", "clear")
  /\ wire' = [s \in Sockets |-> IF s = socket THEN CutOff(s) ELSE wire[s]]
  /\ socket' = NoSocket
  /\ UNCHANGED <<whose, state, didEverConnect, credsOf, step, jobVars, pingVars, appVars>>

\* ... didEverConnect.set(false) ...
ClearsConnected ==
  /\ MainGoes("clear", "leave")
  /\ didEverConnect' = FALSE
  /\ UNCHANGED <<whose, state, socketVars, jobVars, pingVars, appVars>>

\* ... and the state.
ReportDisconnected ==
  /\ MainGoes("leave", "idle")
  /\ state' = "DISCONNECTED"
  /\ UNCHANGED <<whose, didEverConnect, socketVars, jobVars, pingVars, appVars>>

-----------------------------------------------------------------------------
(***************************************************************************)
(* A socket's listener, on the socket's thread.                            *)
(***************************************************************************)

\* The callback of s goes from one statement to the next.
Goes(s, from, to) == step[s] = from /\ step' = [step EXCEPT ![s] = to]

\* onOpen, which a cancellation that comes late does not keep from coming.
OnOpen(s) ==
  /\ wire[s] \in {"opening", "aborted"}
  /\ Goes(s, "none", "connected")
  /\ wire' = [wire EXCEPT ![s] = IF @ = "opening" THEN "open" ELSE "cancelled"]
  /\ didEverConnect' = TRUE
  /\ answered' = answered \cup {credsOf[s]}
  /\ UNCHANGED <<mainVars, state, socket, credsOf, jobVars, pingVars, stored, shown>>

ReportConnected(s) ==
  /\ Goes(s, "connected", "ping")
  /\ state' = "CONNECTED"
  /\ UNCHANGED <<mainVars, didEverConnect, socket, wire, credsOf, jobVars, pingVars, appVars>>

\* A new PingPong takes the place of the old one, which is not stopped.
StartPing(s) ==
  /\ Goes(s, "ping", "none")
  /\ strayPings' = WithStray(strayPings, pingPong)
  /\ pingPong' = credsOf[s]
  /\ pongReceived' = TRUE
  /\ UNCHANGED <<mainVars, state, didEverConnect, socket, wire, credsOf, jobVars, appVars>>

\* The Mac behind a socket, or the way to it, is gone and nobody tells.
GoStale(s) ==
  /\ wire[s] = "open"
  /\ wire' = [wire EXCEPT ![s] = "stale"]
  /\ UNCHANGED <<mainVars, state, didEverConnect, socket, credsOf, step, jobVars,
                 pingVars, appVars>>

\* onMessage of a ping: any socket's ping counts for the keepalive in use.
PingMessage(s) ==
  /\ wire[s] = "open" /\ step[s] = "none"
  /\ pongReceived' = TRUE
  /\ UNCHANGED <<mainVars, state, didEverConnect, socketVars, jobVars, pingPong,
                 strayPings, appVars>>

\* onFailure: pingPong?.stop() ...  A server can answer only an upgrade.
Fails(s, response) ==
  /\ wire[s] \notin {"ended", "new"}
  /\ response => wire[s] \in {"opening", "aborted"}
  /\ Goes(s, "none", IF response THEN "test" ELSE "offline")
  /\ wire' = [wire EXCEPT ![s] = "ended"]
  /\ NoKeepalive
  /\ answered' = IF response THEN answered \cup {credsOf[s]} ELSE answered
  /\ UNCHANGED <<mainVars, state, didEverConnect, socket, credsOf, jobVars, strayPings,
                 stored, shown>>

\* ... the test for a refused pairing ...
TestConnected(s) ==
  /\ Goes(s, "test", IF didEverConnect THEN "offline" ELSE "refuse")
  /\ UNCHANGED <<mainVars, state, didEverConnect, socket, wire, credsOf, jobVars,
                 pingVars, appVars>>

AfterRefusalRetries == "cancel"

\* A refused pairing is not tried again.
AfterRefusal == "none"

\* ... and the state, of a refusal ...
ReportRefused(s) ==
  /\ Goes(s, "refuse", AfterRefusal)
  /\ state' = "AUTH_FAILED"
  /\ credsOf' = [credsOf EXCEPT ![s] = NoCreds]
  /\ UNCHANGED <<mainVars, didEverConnect, socket, wire, jobVars, pingVars, appVars>>

ReportedCurrent(s) == IF s = socket THEN "OFFLINE" ELSE state

\* Which socket it was that ended is not asked.
Reported(s) == "OFFLINE"

\* ... or of any other end, after which it reconnects.
ReportOffline(s) ==
  /\ Goes(s, "offline", "cancel")
  /\ state' = Reported(s)
  /\ UNCHANGED <<mainVars, didEverConnect, socket, wire, credsOf, jobVars, pingVars,
                 appVars>>

\* onClosed, of a socket that has opened: the state, then the keepalive.
Closes(s) ==
  /\ wire[s] \in {"open", "stale", "cancelled"}
  /\ Goes(s, "none", "stop")
  /\ wire' = [wire EXCEPT ![s] = "ended"]
  /\ state' = Reported(s)
  /\ UNCHANGED <<mainVars, didEverConnect, socket, credsOf, jobVars, pingVars, appVars>>

StopPing(s) ==
  /\ Goes(s, "stop", "cancel")
  /\ NoKeepalive
  /\ UNCHANGED <<mainVars, state, didEverConnect, socket, wire, credsOf, jobVars,
                 strayPings, appVars>>

\* scheduleReconnect, as the main thread's.
CancelJob(s) ==
  /\ Goes(s, "cancel", "launch")
  /\ reconnectJob' = NoCreds
  /\ UNCHANGED <<mainVars, state, didEverConnect, socket, wire, credsOf, strayJobs,
                 pingVars, appVars>>

LaunchedNone(s) == NoCreds

Launched(s) == credsOf[s]

LaunchJob(s) ==
  /\ Goes(s, "launch", "none")
  /\ strayJobs' = WithStray(strayJobs, reconnectJob)
  /\ reconnectJob' = Launched(s)
  /\ credsOf' = [credsOf EXCEPT ![s] = NoCreds]
  /\ UNCHANGED <<mainVars, state, didEverConnect, socket, wire, pingVars, appVars>>

-----------------------------------------------------------------------------
(***************************************************************************)
(* The coroutines, on the main thread.                                     *)
(***************************************************************************)

OverdueNever == ~pongReceived /\ ~didEverConnect

Overdue == ~pongReceived

AfterTimeoutNothing == "idle"

\* onTimeout begins scheduleReconnect.
AfterTimeout == "cancel"

\* A round of the keepalive in use; it ends when no ping has come.
PingTick ==
  /\ pingPong # NoCreds
  /\ \/ /\ Overdue
        /\ MainGoes("idle", AfterTimeout)
        /\ whose' = pingPong
        /\ NoKeepalive
     \/ /\ ~Overdue
        /\ MainGoes("idle", "idle")
        /\ pongReceived' = FALSE
        /\ UNCHANGED <<whose, pingPong>>
  /\ UNCHANGED <<state, didEverConnect, socketVars, jobVars, strayPings, appVars>>

\* A keepalive that was overwritten hears no ping and times out.
StrayTick(k) ==
  /\ strayPings[k] > 0
  /\ MainGoes("idle", AfterTimeout)
  /\ whose' = k
  /\ strayPings' = [strayPings EXCEPT ![k] = @ - 1]
  /\ UNCHANGED <<state, didEverConnect, socketVars, jobVars, pingPong, pongReceived, appVars>>

JobWakes ==
  /\ reconnectJob # NoCreds
  /\ Connect(reconnectJob)
  /\ reconnectJob' = NoCreds
  /\ UNCHANGED <<strayJobs, appVars>>

StrayJobWakes(k) ==
  /\ strayJobs[k] > 0
  /\ Connect(k)
  /\ strayJobs' = [strayJobs EXCEPT ![k] = @ - 1]
  /\ UNCHANGED <<reconnectJob, appVars>>

-----------------------------------------------------------------------------
(***************************************************************************)
(* MainActivity.                                                           *)
(***************************************************************************)

\* The screen collects the state; AUTH_FAILED makes it forget the pairing and
\* disconnect.
Collect ==
  /\ shown # state
  /\ shown' = state
  /\ \/ /\ state = "AUTH_FAILED"
        /\ stored' = NoCreds
        /\ Disconnect
     \/ /\ state # "AUTH_FAILED"
        /\ MainGoes("idle", "idle")
        /\ UNCHANGED <<whose, stored, state, didEverConnect, socketVars, jobVars, pingVars>>
  /\ UNCHANGED answered

\* OfflineScreen's Retry.
Retry ==
  /\ stored # NoCreds /\ shown = "OFFLINE"
  /\ Connect(stored)
  /\ UNCHANGED <<jobVars, appVars>>

\* A QR code was scanned; by then the screen has collected what came after
\* AUTH_FAILED.
Pair(k) ==
  /\ stored = NoCreds /\ shown # "AUTH_FAILED"
  /\ stored' = k
  /\ Connect(k)
  /\ UNCHANGED <<jobVars, shown, answered>>

-----------------------------------------------------------------------------
\* A callback's next statement.
Continues(s) ==
  \/ ReportConnected(s) \/ StartPing(s)
  \/ TestConnected(s) \/ ReportRefused(s) \/ ReportOffline(s) \/ StopPing(s)
  \/ CancelJob(s) \/ LaunchJob(s)

\* The main thread's.
MainContinues ==
  \/ ReportConnecting \/ \E s \in Sockets : Dial(s)
  \/ MainCancelsJob \/ MainLaunchesJob
  \/ StopsKeepalive \/ AbortsSocket \/ ClearsConnected \/ ReportDisconnected

Next ==
  \/ \E s \in Sockets :
       \/ OnOpen(s) \/ GoStale(s) \/ PingMessage(s)
       \/ \E response \in BOOLEAN : Fails(s, response)
       \/ Closes(s)
       \/ Continues(s)
  \/ MainContinues
  \/ \E k \in Creds : StrayTick(k) \/ StrayJobWakes(k) \/ Pair(k)
  \/ PingTick \/ JobWakes \/ Collect \/ Retry

Spec == Init /\ [][Next]_vars

\* A socket OkHttp was told to cancel, or that answers no ping of a Mac that
\* is there (WSClient answers on its current socket only), ends.
Doomed(s) ==
  wire[s] \in {"aborted", "cancelled"} \/ (wire[s] = "open" /\ s # socket)

\* What goes on by itself; all of it ends unless there is a new connect().
GoesOn ==
  \/ \E s \in Sockets : Continues(s)
  \/ MainContinues
  \/ \E k \in Creds : StrayTick(k) \/ StrayJobWakes(k)
  \/ JobWakes \/ Collect

\* The threads do not all rest while one of them can go on, nor does the
\* keepalive, nor do doomed sockets live for ever.  Neither a socket that opens,
\* nor a Mac, nor the user owes anything.
Fairness ==
  /\ WF_vars(GoesOn)
  /\ WF_vars(PingTick)
  /\ WF_vars(\E s \in Sockets : Doomed(s) /\ Fails(s, FALSE))

FairSpec == Spec /\ Fairness

-----------------------------------------------------------------------------
(***************************************************************************)
(* Properties.                                                             *)
(***************************************************************************)

\* The main thread is inside disconnect, which ends in a report.
Leaving == {"stop", "abort", "clear", "leave"}

\* Types; and a listener that has something left to do knows its pairing.
TypeOK ==
  /\ main \in {"idle", "report", "dial", "cancel", "launch"} \cup Leaving
  /\ whose \in Creds \cup {NoCreds}
  /\ state \in States /\ shown \in States
  /\ socket \in Sockets \cup {NoSocket}
  /\ wire \in [Sockets -> {"ended", "new", "opening", "open", "stale", "aborted",
                           "cancelled"}]
  /\ credsOf \in [Sockets -> Creds \cup {NoCreds}]
  /\ step \in [Sockets -> {"none", "connected", "ping", "test", "refuse", "offline",
                           "stop", "cancel", "launch"}]
  /\ didEverConnect \in BOOLEAN /\ pongReceived \in BOOLEAN
  /\ reconnectJob \in Creds \cup {NoCreds}
  /\ pingPong \in Creds \cup {NoCreds}
  /\ strayJobs \in [Creds -> Nat] /\ strayPings \in [Creds -> Nat]
  /\ stored \in Creds \cup {NoCreds}
  /\ answered \subseteq Creds
  /\ \A s \in Sockets : wire[s] # "ended" \/ step[s] # "none" => credsOf[s] \in Creds
  /\ main \in {"report", "cancel", "launch"} => whose \in Creds

\* "Mac offline" with a reconnection behind it: while the client reports
\* OFFLINE a job that will connect is asleep, or a thread is about to launch
\* one or to report another state, whatever other threads cancel meanwhile.
OfflineTriesAgain ==
  state = "OFFLINE" =>
    \/ reconnectJob # NoCreds
    \/ \E s \in Sockets : step[s] \in {"stop", "cancel", "launch"}
    \/ main \in {"report", "launch"} \cup Leaving

\* And the state is left: none of the threads that cancel, launch and overwrite
\* jobs, nor a connect() under way, leaves the app on "Mac offline" for good.
OfflineIsLeft == state = "OFFLINE" ~> state # "OFFLINE"

\* A client that reports CONNECTED has a socket that is up as far as anyone
\* knows, or else one that disconnect() cancelled and whose end will be
\* reported, or an end whose report is on its way, although several sockets
\* come and go and a cancelled one may report CONNECTED late.
ConnectedMeansOpen ==
  state = "CONNECTED" =>
    \E s \in Sockets :
      \/ wire[s] \in {"open", "stale"}
      \/ wire[s] = "cancelled" \/ step[s] \in {"test", "refuse", "offline"}

\* A client that reports CONNECTED is watched: its keepalive runs or is about
\* to, a reconnection is on its way, or a thread is about to report otherwise,
\* although any socket's end stops the keepalive of the one in use.
ConnectedIsWatched ==
  state = "CONNECTED" =>
    \/ pingPong # NoCreds \/ reconnectJob # NoCreds
    \/ \E s \in Sockets : step[s] # "none"
    \/ main \in {"report", "cancel", "launch"} \cup Leaving

\* "Ping timeout: treat as disconnect -> reconnect flow" (design spec): a
\* socket in use whose Mac is gone is given up, although another socket's pings
\* may keep its keepalive content for a while.
StaleIsNoticed ==
  LET StaleInUse == socket # NoSocket /\ wire[socket] = "stale"
  IN StaleInUse ~> ~StaleInUse

\* "If we never connected with these creds, treat as auth failure"
\* (WSClient.kt): a late refusal never turns a client that another socket has
\* connected into a refused one.  It does not hold: the other socket may open
\* between the refused one's test and its report, or connect() may just have
\* cleared didEverConnect.
DropIsNotRefusal == [][state = "CONNECTED" => state' # "AUTH_FAILED"]_vars

\* "Stale JWT rejected by server - clear credentials and force re-pairing"
\* (MainActivity.kt): no pairing is cleared that no server has answered.  It does
\* not hold with two pairings, since AUTH_FAILED does not say whose: a late
\* refusal of the old pairing's socket clears the new.
ClearsTheRejected ==
  [][stored # NoCreds /\ stored' = NoCreds => stored \in answered]_vars

\* "Mac offline" (design spec): a client whose socket in use is up does not
\* say that the Mac is offline.  It does not hold: a replaced socket's failure
\* says so too.
OfflineMeansDown ==
  state = "OFFLINE" /\ socket # NoSocket => wire[socket] # "open"
=============================================================================
