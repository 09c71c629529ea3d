--------------------------- MODULE IOSConnection ---------------------------
(***************************************************************************)
(* The iOS app's connection to its Mac: WSClient with its reconnection     *)
(* tasks and keepalive timer, the flags of TermCastiOSApp that choose the  *)
(* screen, and the terminal tab that must ask for a replay.  Everything    *)
(* here runs on the main thread, so a handler is one action; SwiftUI       *)
(* renders in the same turn of the run loop, so onChange(of: state) is     *)
(* part of the handler that changed the state.  Timers and sleeps have no  *)
(* durations: they elapse when they do, in any order.                      *)
(*                                                                         *)
(* A definition just before one of a similar name is a mistake the code    *)
(* could make; README.md names the property that notices it.               *)
(***************************************************************************)
EXTENDS Naturals

CONSTANTS
  Creds,       \* pairings (a host and its secret) that can be scanned
  NoCreds,     \* no pairing is stored
  MaxWaiting   \* tasks asleep for a pairing when its timer starts no other

ASSUME CredsAssumption == NoCreds \notin Creds /\ MaxWaiting \in Nat

VARIABLES
  state,           \* WSClient.state
  link,            \* the NWConnection: "none", "starting", "up", "stale" (the
                   \* Mac is gone and nothing tells), "failed"
  target,          \* the pairing that connection was made with
  didEverConnect,  \* this call of connect() has reached .ready
  waiting,         \* reconnection tasks asleep and not cancelled, by pairing
  reconnectTask,   \* the pairing of the one that reconnectTask still holds
  timer,           \* PingPong's timer is scheduled
  pongReceived,    \* PingPong.pongReceived: a ping came since the last tick
  stored,          \* PairingStore
  isOnboarding,    \* TermCastiOSApp's flags, which choose the screen
  isOffline,
  isAuthFailed,
  tab,             \* one session's SessionTabView is alive
  didAttach,
  isEnded,
  replayed,        \* history: the tab's attach went out on this connection
  outlived,        \* history: the tab was attached on an earlier connection
  worked           \* history: pairings that have reached .ready

linkVars == <<state, link, target, didEverConnect, timer>>
taskVars == <<waiting, reconnectTask>>
flagVars == <<isOnboarding, isOffline, isAuthFailed>>
tabVars == <<tab, didAttach, isEnded, replayed, outlived>>
vars == <<linkVars, taskVars, pongReceived, stored, flagVars, tabVars, worked>>

States == {"disconnected", "connecting", "connected", "offline", "authFailed"}

\* The app has launched: with a pairing it is already connecting.
Init ==
  /\ stored \in Creds \cup {NoCreds}
  /\ target = stored
  /\ state = IF stored = NoCreds THEN "disconnected" ELSE "connecting"
  /\ link = IF stored = NoCreds THEN "none" ELSE "starting"
  /\ isOnboarding = (stored = NoCreds)
  /\ didEverConnect = FALSE
  /\ waiting = [k \in Creds |-> 0]
  /\ reconnectTask = NoCreds
  /\ timer = FALSE
  /\ pongReceived = TRUE
  /\ isOffline = FALSE
  /\ isAuthFailed = FALSE
  /\ tab = FALSE
  /\ didAttach = FALSE
  /\ isEnded = FALSE
  /\ replayed = FALSE
  /\ outlived = FALSE
  /\ worked = {}

-----------------------------------------------------------------------------
(***************************************************************************)
(* The pieces handlers share.                                              *)
(***************************************************************************)

CancelledAlways == [waiting EXCEPT ![target] = @ - 1]

\* reconnectTask?.cancel(): the task the variable holds never wakes; one that
\* was overwritten does.
Cancelled ==
  IF reconnectTask = NoCreds THEN waiting
                             ELSE [waiting EXCEPT ![reconnectTask] = @ - 1]

\* WSClient.connect(host:secret:), which leaves the tasks `rest' asleep.
Connect(k, rest) ==
  /\ state' = "connecting"
  /\ link' = "starting"
  /\ target' = k
  /\ didEverConnect' = FALSE
  /\ waiting' = rest
  /\ reconnectTask' = NoCreds
  /\ timer' = FALSE
  /\ replayed' = FALSE
  /\ outlived' = (outlived \/ didAttach)
  /\ UNCHANGED <<pongReceived, tab, didAttach, isEnded, worked>>

\* WSClient.disconnect().
Disconnect ==
  /\ state' = "disconnected"
  /\ link' = "none"
  /\ target' = NoCreds
  /\ didEverConnect' = FALSE
  /\ timer' = FALSE
  /\ waiting' = Cancelled
  /\ reconnectTask' = NoCreds
  /\ UNCHANGED <<pongReceived, tabVars, worked>>

\* scheduleReconnect
Schedule(k) ==
  /\ waiting' = [waiting EXCEPT ![k] = @ + 1]
  /\ reconnectTask' = k

OfflineOnDrop(s) == s = "offline" \/ (s # "connected" /\ isOffline)

\* onChange(of: wsClient.state) of TermCastiOSApp.
Offline(s) ==
  s \in {"offline", "authFailed"} \/ (s # "connected" /\ isOffline)

AuthFailed(s) ==
  s = "authFailed" \/ (s \notin {"offline", "connected"} /\ isAuthFailed)

\* Another screen replaces the session list: its tabs and their state go.
DropTab ==
  /\ tab' = FALSE
  /\ didAttach' = FALSE
  /\ isEnded' = FALSE
  /\ replayed' = FALSE
  /\ outlived' = FALSE

AttachesEarly(s) == s \in {"connecting", "connected"} /\ ~isEnded /\ ~didAttach

\* The test of onAppear and onChange of SessionTabView.
Attaches(s) == s = "connected" /\ ~isEnded /\ ~didAttach

-----------------------------------------------------------------------------
(***************************************************************************)
(* The connection and the network behind it.                               *)
(***************************************************************************)

\* handleStateUpdate(.ready): a new PingPong starts.
Ready ==
  /\ link = "starting"
  /\ link' = "up"
  /\ state' = "connected"
  /\ didEverConnect' = TRUE
  /\ timer' = TRUE
  /\ pongReceived' = TRUE
  /\ worked' = worked \cup {target}
  /\ isOffline' = Offline("connected")
  /\ isAuthFailed' = AuthFailed("connected")
  /\ didAttach' = (didAttach \/ (tab /\ Attaches("connected")))
  /\ replayed' = (tab /\ Attaches("connected"))
  /\ UNCHANGED <<target, taskVars, stored, isOnboarding, tab, isEnded, outlived>>

\* The Mac stops, or the path to it does, and no failure is reported.
GoStale ==
  /\ link = "up"
  /\ link' = "stale"
  /\ UNCHANGED <<state, target, didEverConnect, timer, taskVars, pongReceived,
                 stored, flagVars, tabVars, worked>>

RefusedNoRetry == reconnectTask = NoCreds

\* What handleStateUpdate takes for a refused pairing.
Refused == ~didEverConnect

DropNoRetry == state' = "offline" /\ UNCHANGED taskVars

Drop == state' = "offline" /\ Schedule(target)

\* handleStateUpdate(.failed).  The keepalive timer goes on.
Fail ==
  /\ link \in {"starting", "up", "stale"}
  /\ link' = "failed"
  /\ \/ Refused /\ state' = "authFailed" /\ UNCHANGED taskVars
     \/ ~Refused /\ Drop
  /\ isOffline' = Offline(state')
  /\ isAuthFailed' = AuthFailed(state')
  /\ DropTab
  /\ UNCHANGED <<target, didEverConnect, timer, pongReceived, stored,
                 isOnboarding, worked>>

\* A ping from the Mac.
PingArrives ==
  /\ link = "up"
  /\ pongReceived' = TRUE
  /\ UNCHANGED <<linkVars, taskVars, stored, flagVars, tabVars, worked>>

OverdueNever == ~pongReceived /\ state # "connected"

Overdue == ~pongReceived

\* The timer's closure.  A timer that finds no ping since its last tick asks
\* for a reconnection, and asks again at every tick until connect() stops it.
Tick ==
  /\ timer
  /\ \/ Overdue /\ waiting[target] < MaxWaiting /\ Schedule(target)
        /\ UNCHANGED pongReceived
     \/ ~Overdue /\ pongReceived' = FALSE /\ UNCHANGED taskVars
  /\ UNCHANGED <<linkVars, stored, flagVars, tabVars, worked>>

\* The task reconnectTask holds wakes.
Reconnect ==
  /\ reconnectTask # NoCreds
  /\ Connect(reconnectTask, Cancelled)
  /\ UNCHANGED <<stored, flagVars>>

\* A task that was overwritten wakes, and cancels the one that overwrote it.
StrayReconnect(k) ==
  /\ Cancelled[k] > 0
  /\ Connect(k, [Cancelled EXCEPT ![k] = @ - 1])
  /\ UNCHANGED <<stored, flagVars>>

-----------------------------------------------------------------------------
(***************************************************************************)
(* The user and the views.                                                 *)
(***************************************************************************)

\* A QR code was scanned: PairingStore.save and connect().  When an item
\* cannot be saved it has been deleted before, so the load finds nothing.
Pair(k) ==
  /\ isOnboarding
  /\ isAuthFailed' = FALSE
  /\ \/ /\ stored' = k
        /\ isOnboarding' = FALSE
        /\ Connect(k, Cancelled)
     \/ /\ stored' = NoCreds
        /\ UNCHANGED <<isOnboarding, linkVars, taskVars, pongReceived, tabVars,
                       worked>>
  /\ UNCHANGED isOffline

OfflineScreen == ~isOnboarding /\ isOffline

\* OfflineView's Retry.
Retry ==
  /\ OfflineScreen
  /\ isOffline' = FALSE
  /\ isAuthFailed' = FALSE
  /\ Connect(stored, Cancelled)
  /\ UNCHANGED <<stored, isOnboarding>>

\* OfflineView's Unpair: the pairing is cleared, then WSClient.disconnect().
Unpair ==
  /\ OfflineScreen
  /\ isAuthFailed
  /\ stored' = NoCreds
  /\ isOnboarding' = TRUE
  /\ isOffline' = FALSE
  /\ isAuthFailed' = FALSE
  /\ Disconnect

\* The session list shows the session's tab.
TabAppears ==
  /\ ~isOnboarding /\ ~isOffline /\ ~tab
  /\ tab' = TRUE
  /\ didAttach' = Attaches(state)
  /\ replayed' = Attaches(state)
  /\ UNCHANGED <<isEnded, outlived, linkVars, taskVars, pongReceived, stored,
                 flagVars, worked>>

\* A new list of sessions leaves the tab's session out.
TabDisappears ==
  /\ tab
  /\ link = "up"
  /\ DropTab
  /\ UNCHANGED <<linkVars, taskVars, pongReceived, stored, flagVars, worked>>

\* A sessionClosed message for the tab's session.
SessionEnded ==
  /\ tab
  /\ link = "up"
  /\ isEnded' = TRUE
  /\ UNCHANGED <<tab, didAttach, replayed, outlived, linkVars, taskVars,
                 pongReceived, stored, flagVars, worked>>

-----------------------------------------------------------------------------
Next ==
  \/ Ready \/ GoStale \/ Fail \/ PingArrives \/ Tick \/ Reconnect
  \/ \E k \in Creds : StrayReconnect(k) \/ Pair(k)
  \/ Retry \/ Unpair \/ TabAppears \/ TabDisappears \/ SessionEnded

Spec == Init /\ [][Next]_vars

\* The timer goes on firing, and every task that sleeps wakes.
Fairness ==
  /\ WF_vars(Tick) /\ WF_vars(Reconnect)
  /\ \A k \in Creds : WF_vars(StrayReconnect(k))

FairSpec == Spec /\ Fairness

-----------------------------------------------------------------------------
(***************************************************************************)
(* Properties.                                                             *)
(***************************************************************************)

\* Types, and a count of sleeping tasks that no cancellation takes below 0.
TypeOK ==
  /\ state \in States
  /\ link \in {"none", "starting", "up", "stale", "failed"}
  /\ target \in Creds \cup {NoCreds}
  /\ stored \in Creds \cup {NoCreds}
  /\ reconnectTask \in Creds \cup {NoCreds}
  /\ waiting \in [Creds -> Nat]
  /\ worked \subseteq Creds
  /\ didEverConnect \in BOOLEAN /\ timer \in BOOLEAN /\ pongReceived \in BOOLEAN
  /\ isOnboarding \in BOOLEAN /\ isOffline \in BOOLEAN /\ isAuthFailed \in BOOLEAN
  /\ tab \in BOOLEAN /\ didAttach \in BOOLEAN /\ isEnded \in BOOLEAN
  /\ replayed \in BOOLEAN /\ outlived \in BOOLEAN

\* "Offline + reconnect" (WSClient.swift): while the app says the Mac is
\* offline, a task that will try again with the same pairing is asleep, and
\* nothing that happens meanwhile cancels it without trying.
OfflineIsTemporary == state = "offline" => waiting[target] > 0

\* The screen tells the state: a paired phone shows the offline screen when
\* its connection failed and not when it is up, and offers to unpair exactly
\* when the failure was taken for a refusal.
ScreenTellsState ==
  ~isOnboarding =>
    /\ state \in {"offline", "authFailed"} => isOffline
    /\ state = "connected" => ~isOffline
    /\ state \in {"offline", "authFailed"} =>
         (isAuthFailed <=> state = "authFailed")

\* A tab of a running session on a live connection has asked for its replay on
\* that connection, unless it had asked on an earlier one ("attach always
\* replays ring buffer", design spec; didAttach is never reset).
ReplayUnlessOutlived ==
  link = "up" /\ tab /\ ~isEnded => replayed \/ outlived

\* "If a working connection dropped, use .offline + reconnect": it is never
\* taken for a refused pairing.
DropIsNotRefusal == [][state = "connected" => state' # "authFailed"]_vars

\* A Mac that vanished is noticed at last (PingPong.swift): no failure reports
\* it, only the timer's rounds and the tasks they leave asleep can end the
\* connection.
StaleIsNoticed == link = "stale" ~> link # "stale"

-----------------------------------------------------------------------------
(***************************************************************************)
(* What the documentation says of the program and the code does not do.    *)
(***************************************************************************)

\* "If the connection failed before ever reaching .ready with these
\* credentials, surface .authFailed" (WSClient.swift): a pairing that has
\* worked is never reported as refused.
RefusedNeverWorked == state = "authFailed" => target \notin worked

\* "Reconnect: attach always replays ring buffer" (design spec).
ReplayAlways == link = "up" /\ tab /\ ~isEnded => replayed

\* "state becomes disconnected after disconnect()" (WSClientStateTests.swift):
\* a phone without a pairing has no connection.
UnpairIsFinal == stored = NoCreds => state = "disconnected"
=============================================================================
