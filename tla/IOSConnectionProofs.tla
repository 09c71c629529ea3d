------------------------ MODULE IOSConnectionProofs ------------------------
(***************************************************************************)
(* Proofs about IOSConnection, for any set of pairings and any number of   *)
(* reconnection tasks: every safety property its run checks.               *)
(***************************************************************************)
EXTENDS IOSConnection, TLAPS

USE CredsAssumption

-----------------------------------------------------------------------------
(***************************************************************************)
(* The inductive invariant.  A task that reconnectTask holds is asleep;    *)
(* the state and the NWConnection change together; whatever runs on behalf *)
(* of a connection has a pairing.                                          *)
(***************************************************************************)

HeldIsAsleep == reconnectTask # NoCreds => waiting[reconnectTask] > 0

OfflineIsHeld == state = "offline" => reconnectTask = target

StateFollowsLink ==
  /\ state = "disconnected" <=> link = "none"
  /\ state = "connecting" <=> link = "starting"
  /\ state = "connected" <=> link \in {"up", "stale"}
  /\ state \in {"offline", "authFailed"} <=> link = "failed"
  /\ link \in {"up", "stale"} => didEverConnect

HasTarget ==
  /\ link # "none" => target \in Creds
  /\ timer => link # "none"
  /\ ~isOnboarding => stored \in Creds

\* A tab that is not on the screen keeps nothing; one that has attached did so
\* on this connection or on an earlier one.
TabKeeps ==
  /\ didAttach \/ isEnded => tab
  /\ didAttach => replayed \/ outlived
  /\ link = "starting" => ~replayed

IInv ==
  /\ TypeOK
  /\ HeldIsAsleep
  /\ OfflineIsHeld
  /\ StateFollowsLink
  /\ HasTarget
  /\ ScreenTellsState
  /\ TabKeeps
  /\ ReplayUnlessOutlived

-----------------------------------------------------------------------------
(***************************************************************************)
(* What the shared pieces do to the invariant.                             *)
(***************************************************************************)

\* Cancelling the held task leaves a count of sleeping tasks.
LEMMA CancelledType ==
  ASSUME TypeOK, HeldIsAsleep
  PROVE  Cancelled \in [Creds -> Nat]
<1>1. CASE reconnectTask = NoCreds
  BY <1>1 DEF TypeOK, Cancelled
<1>2. CASE reconnectTask # NoCreds
  <2>1. reconnectTask \in Creds /\ waiting[reconnectTask] \in Nat \ {0}
    BY <1>2 DEF TypeOK, HeldIsAsleep
  <2>2. QED
    BY <1>2, <2>1 DEF TypeOK, Cancelled
<1>3. QED
  BY <1>1, <1>2

\* connect() keeps the invariant, whoever calls it, when it is given a pairing
\* and the flags it leaves are those of a screen that may connect.
LEMMA ConnectKeeps ==
  ASSUME IInv, NEW k \in Creds, NEW rest \in [Creds -> Nat], Connect(k, rest),
         stored' \in Creds \cup {NoCreds}, ~isOnboarding' => stored' \in Creds,
         isOnboarding' \in BOOLEAN, isOffline' \in BOOLEAN,
         isAuthFailed' \in BOOLEAN
  PROVE  IInv'
<1> USE DEF IInv
<1>1. TypeOK'
  BY DEF TypeOK, Connect, States
<1>2. HeldIsAsleep' /\ OfflineIsHeld' /\ StateFollowsLink'
  BY DEF HeldIsAsleep, OfflineIsHeld, StateFollowsLink, Connect
<1>3. HasTarget'
  BY DEF HasTarget, Connect
<1>4. ScreenTellsState'
  BY DEF ScreenTellsState, Connect
<1>5. TabKeeps'
  BY DEF TabKeeps, Connect, TypeOK
<1>6. ReplayUnlessOutlived'
  BY DEF ReplayUnlessOutlived, Connect
<1>7. QED
  BY <1>1, <1>2, <1>3, <1>4, <1>5, <1>6

\* scheduleReconnect, called for the connection's own pairing.
LEMMA ScheduleKeeps ==
  ASSUME IInv, target \in Creds, Schedule(target)
  PROVE  /\ waiting' \in [Creds -> Nat]
         /\ reconnectTask' = target
         /\ waiting'[target] > 0
<1>1. waiting \in [Creds -> Nat] /\ waiting[target] \in Nat
  BY DEF IInv, TypeOK
<1>2. QED
  BY <1>1 DEF Schedule

-----------------------------------------------------------------------------
(***************************************************************************)
(* Every step keeps the invariant.                                         *)
(***************************************************************************)

LEMMA InitIInv == Init => IInv
<1> SUFFICES ASSUME Init PROVE IInv
  OBVIOUS
<1> USE DEF Init
<1>1. CASE stored = NoCreds
  <2>1. state = "disconnected" /\ link = "none" /\ isOnboarding = TRUE
    BY <1>1
  <2>2. TypeOK
    BY <1>1, <2>1 DEF TypeOK, States
  <2>3. QED
    BY <1>1, <2>1, <2>2 DEF IInv, HeldIsAsleep, OfflineIsHeld, StateFollowsLink,
       HasTarget, ScreenTellsState, TabKeeps, ReplayUnlessOutlived
<1>2. CASE stored # NoCreds
  <2>1. state = "connecting" /\ link = "starting" /\ isOnboarding = FALSE
    BY <1>2
  <2>2. TypeOK
    BY <1>2, <2>1 DEF TypeOK, States
  <2>3. QED
    BY <1>2, <2>1, <2>2 DEF IInv, HeldIsAsleep, OfflineIsHeld, StateFollowsLink,
       HasTarget, ScreenTellsState, TabKeeps, ReplayUnlessOutlived
<1>3. QED
  BY <1>1, <1>2

LEMMA ReadyKeeps == IInv /\ Ready => IInv'
<1> SUFFICES ASSUME IInv, Ready PROVE IInv'
  OBVIOUS
<1> USE DEF IInv, Offline, AuthFailed, Attaches
<1>1. TypeOK'
  BY DEF TypeOK, Ready, HasTarget, States, taskVars
<1>2. HeldIsAsleep' /\ OfflineIsHeld' /\ StateFollowsLink' /\ HasTarget'
  BY DEF HeldIsAsleep, OfflineIsHeld, StateFollowsLink, HasTarget, Ready, taskVars
<1>3. ScreenTellsState'
  BY DEF ScreenTellsState, Ready
<1>4. TabKeeps' /\ ReplayUnlessOutlived'
  BY DEF TabKeeps, ReplayUnlessOutlived, Ready, TypeOK
<1>5. QED
  BY <1>1, <1>2, <1>3, <1>4

LEMMA FailKeeps == IInv /\ Fail => IInv'
<1> SUFFICES ASSUME IInv, Fail PROVE IInv'
  OBVIOUS
<1> USE DEF IInv
<1>1. target \in Creds
  BY DEF Fail, HasTarget
<1>2. CASE Refused /\ state' = "authFailed" /\ UNCHANGED taskVars
  <2>1. TypeOK'
    BY <1>2 DEF TypeOK, Fail, States, taskVars, DropTab, Offline, AuthFailed
  <2>2. HeldIsAsleep' /\ OfflineIsHeld' /\ StateFollowsLink' /\ HasTarget'
    BY <1>2 DEF HeldIsAsleep, OfflineIsHeld, StateFollowsLink, HasTarget, Fail, taskVars
  <2>3. ScreenTellsState' /\ TabKeeps' /\ ReplayUnlessOutlived'
    BY <1>2 DEF ScreenTellsState, TabKeeps, ReplayUnlessOutlived, Fail, DropTab,
                Offline, AuthFailed
  <2>4. QED
    BY <2>1, <2>2, <2>3
<1>3. CASE ~Refused /\ Drop
  <2>1. /\ state' = "offline"
        /\ waiting' \in [Creds -> Nat]
        /\ reconnectTask' = target
        /\ waiting'[target] > 0
    BY <1>1, <1>3, ScheduleKeeps DEF Drop
  <2>2. TypeOK'
    BY <1>1, <2>1 DEF TypeOK, Fail, States, DropTab, Offline, AuthFailed
  <2>3. HeldIsAsleep' /\ OfflineIsHeld' /\ StateFollowsLink' /\ HasTarget'
    BY <1>1, <2>1 DEF HeldIsAsleep, OfflineIsHeld, StateFollowsLink, HasTarget, Fail
  <2>4. ScreenTellsState' /\ TabKeeps' /\ ReplayUnlessOutlived'
    BY <2>1 DEF ScreenTellsState, TabKeeps, ReplayUnlessOutlived, Fail, DropTab,
                Offline, AuthFailed
  <2>5. QED
    BY <2>2, <2>3, <2>4
<1>4. QED
  BY <1>2, <1>3 DEF Fail

LEMMA TickKeeps == IInv /\ Tick => IInv'
<1> SUFFICES ASSUME IInv, Tick PROVE IInv'
  OBVIOUS
<1> USE DEF IInv
<1>1. target \in Creds /\ UNCHANGED <<linkVars, stored, flagVars, tabVars, worked>>
  BY DEF Tick, HasTarget
<1>2. CASE Schedule(target) /\ UNCHANGED pongReceived
  <2>1. /\ waiting' \in [Creds -> Nat]
        /\ reconnectTask' = target
        /\ waiting'[target] > 0
    BY <1>1, <1>2, ScheduleKeeps
  <2>2. TypeOK'
    BY <1>1, <1>2, <2>1 DEF TypeOK, linkVars, flagVars, tabVars
  <2>3. HeldIsAsleep' /\ OfflineIsHeld' /\ StateFollowsLink' /\ HasTarget'
    BY <1>1, <2>1 DEF HeldIsAsleep, OfflineIsHeld, StateFollowsLink, HasTarget,
                      linkVars, flagVars
  <2>4. ScreenTellsState' /\ TabKeeps' /\ ReplayUnlessOutlived'
    BY <1>1 DEF ScreenTellsState, TabKeeps, ReplayUnlessOutlived,
                linkVars, flagVars, tabVars
  <2>5. QED
    BY <2>2, <2>3, <2>4
<1>3. CASE pongReceived' = FALSE /\ UNCHANGED taskVars
  <2>0. pongReceived' \in BOOLEAN /\ UNCHANGED taskVars
    BY <1>3
  <2>1. TypeOK'
    BY <1>1, <2>0 DEF TypeOK, linkVars, flagVars, tabVars, taskVars
  <2>2. HeldIsAsleep' /\ OfflineIsHeld' /\ StateFollowsLink' /\ HasTarget'
    BY <1>1, <1>3 DEF HeldIsAsleep, OfflineIsHeld, StateFollowsLink, HasTarget,
                      linkVars, flagVars, taskVars
  <2>3. ScreenTellsState' /\ TabKeeps' /\ ReplayUnlessOutlived'
    BY <1>1 DEF ScreenTellsState, TabKeeps, ReplayUnlessOutlived,
                linkVars, flagVars, tabVars
  <2>4. QED
    BY <2>1, <2>2, <2>3
<1>4. QED
  BY <1>2, <1>3 DEF Tick

\* The two ways a reconnection task wakes.
LEMMA WakeKeeps ==
  ASSUME IInv, Reconnect \/ \E k \in Creds : StrayReconnect(k)
  PROVE  IInv'
<1>1. Cancelled \in [Creds -> Nat]
  BY CancelledType DEF IInv
<1>2. /\ isOnboarding \in BOOLEAN /\ isOffline \in BOOLEAN /\ isAuthFailed \in BOOLEAN
      /\ stored \in Creds \cup {NoCreds}
      /\ reconnectTask \in Creds \cup {NoCreds}
      /\ ~isOnboarding => stored \in Creds
  BY DEF IInv, TypeOK, HasTarget
<1>3. CASE Reconnect
  <2>1. reconnectTask \in Creds /\ Connect(reconnectTask, Cancelled)
        /\ UNCHANGED <<stored, flagVars>>
    BY <1>2, <1>3 DEF Reconnect
  <2>2. QED
    BY <1>1, <1>2, <2>1, ConnectKeeps DEF flagVars
<1>4. CASE \E k \in Creds : StrayReconnect(k)
  <2>1. PICK k \in Creds : StrayReconnect(k)
    BY <1>4
  <2> DEFINE rest == [Cancelled EXCEPT ![k] = @ - 1]
  <2>2. rest \in [Creds -> Nat]
    BY <1>1, <2>1 DEF StrayReconnect
  <2>3. Connect(k, rest) /\ UNCHANGED <<stored, flagVars>>
    BY <2>1 DEF StrayReconnect
  <2> HIDE DEF rest
  <2>4. QED
    BY <1>2, <2>2, <2>3, ConnectKeeps DEF flagVars
<1>5. QED
  BY <1>3, <1>4

\* Pairing, unpairing and retrying.
LEMMA UserKeeps ==
  ASSUME IInv, Retry \/ Unpair \/ \E k \in Creds : Pair(k)
  PROVE  IInv'
<1>1. Cancelled \in [Creds -> Nat]
  BY CancelledType DEF IInv
<1>2. CASE Retry
  <2>1. /\ stored \in Creds
        /\ Connect(stored, Cancelled)
        /\ stored' = stored /\ isOnboarding' = isOnboarding
        /\ isOffline' = FALSE /\ isAuthFailed' = FALSE
    BY <1>2 DEF Retry, OfflineScreen, IInv, HasTarget
  <2>2. isOnboarding \in BOOLEAN
    BY DEF IInv, TypeOK
  <2>3. QED
    BY <1>1, <2>1, <2>2, ConnectKeeps
<1>3. CASE Unpair
  <2>1. TypeOK'
    BY <1>1, <1>3 DEF TypeOK, Unpair, Disconnect, States, tabVars, IInv
  <2>2. HeldIsAsleep' /\ OfflineIsHeld' /\ StateFollowsLink' /\ HasTarget'
    BY <1>3 DEF HeldIsAsleep, OfflineIsHeld, StateFollowsLink, HasTarget, Unpair,
                     Disconnect
  <2>3. ScreenTellsState' /\ TabKeeps' /\ ReplayUnlessOutlived'
    BY <1>3 DEF ScreenTellsState, TabKeeps, ReplayUnlessOutlived, Unpair, Disconnect,
                IInv, tabVars
  <2>4. QED
    BY <2>1, <2>2, <2>3 DEF IInv
<1>4. CASE \E k \in Creds : Pair(k)
  <2>1. PICK k \in Creds : Pair(k)
    BY <1>4
  <2>2. isOnboarding \in BOOLEAN /\ isOffline \in BOOLEAN
    BY DEF IInv, TypeOK
  <2>3. CASE stored' = k /\ isOnboarding' = FALSE /\ Connect(k, Cancelled)
    <3>1. isOffline' = isOffline /\ isAuthFailed' = FALSE
      BY <2>1 DEF Pair
    <3>2. QED
      BY <1>1, <2>2, <2>3, <3>1, ConnectKeeps
  <2>4. CASE /\ stored' = NoCreds
             /\ UNCHANGED <<isOnboarding, linkVars, taskVars, pongReceived,
                            tabVars, worked>>
    <3>1. isOnboarding /\ isOffline' = isOffline /\ isAuthFailed' = FALSE
      BY <2>1 DEF Pair
    <3>0. /\ isAuthFailed' \in BOOLEAN /\ isOffline' = isOffline
          /\ stored' \in Creds \cup {NoCreds}
          /\ UNCHANGED <<isOnboarding, linkVars, taskVars, pongReceived, tabVars,
                         worked>>
      BY <2>4, <3>1
    <3>2. TypeOK'
      BY <3>0 DEF TypeOK, linkVars, taskVars, tabVars, IInv
    <3>3. HeldIsAsleep' /\ OfflineIsHeld' /\ StateFollowsLink' /\ HasTarget'
      BY <2>4, <3>1 DEF HeldIsAsleep, OfflineIsHeld, StateFollowsLink, HasTarget,
                        linkVars, taskVars, IInv
    <3>4. ScreenTellsState' /\ TabKeeps' /\ ReplayUnlessOutlived'
      BY <2>4, <3>1 DEF ScreenTellsState, TabKeeps, ReplayUnlessOutlived, linkVars,
                        tabVars, IInv
    <3>5. QED
      BY <3>2, <3>3, <3>4 DEF IInv
  <2>5. QED
    BY <2>1, <2>3, <2>4 DEF Pair
<1>5. QED
  BY <1>2, <1>3, <1>4

\* What only touches the tab, the keepalive flag, or the path to the Mac.
LEMMA RestKeeps ==
  ASSUME IInv,
         \/ GoStale \/ PingArrives \/ TabAppears \/ TabDisappears \/ SessionEnded
         \/ UNCHANGED vars
  PROVE  IInv'
<1> USE DEF IInv, linkVars, taskVars, flagVars, tabVars
<1>1. /\ UNCHANGED <<state, target, didEverConnect, timer, taskVars, stored,
                     flagVars, worked>>
      /\ link' = link \/ (link = "up" /\ link' = "stale")
  BY DEF GoStale, PingArrives, TabAppears, TabDisappears, SessionEnded, vars
<1>2. /\ pongReceived' \in BOOLEAN /\ tab' \in BOOLEAN /\ didAttach' \in BOOLEAN
      /\ isEnded' \in BOOLEAN /\ replayed' \in BOOLEAN /\ outlived' \in BOOLEAN
  BY DEF TypeOK, GoStale, PingArrives, TabAppears, TabDisappears, SessionEnded, vars,
         DropTab, Attaches
<1>3. TypeOK'
  BY <1>1, <1>2 DEF TypeOK
<1>4. HeldIsAsleep' /\ OfflineIsHeld' /\ StateFollowsLink' /\ HasTarget'
  BY <1>1 DEF HeldIsAsleep, OfflineIsHeld, StateFollowsLink, HasTarget
<1>5. ScreenTellsState'
  BY <1>1 DEF ScreenTellsState
<1>6. TabKeeps' /\ ReplayUnlessOutlived'
  BY DEF TypeOK, TabKeeps, ReplayUnlessOutlived, StateFollowsLink, GoStale,
         PingArrives, TabAppears, TabDisappears, SessionEnded, vars, DropTab, Attaches
<1>7. QED
  BY <1>3, <1>4, <1>5, <1>6

LEMMA NextIInv == IInv /\ [Next]_vars => IInv'
BY ReadyKeeps, FailKeeps, TickKeeps, WakeKeeps, UserKeeps, RestKeeps DEF Next

-----------------------------------------------------------------------------
(***************************************************************************)
(* The theorems.                                                           *)
(***************************************************************************)

\* The inductive invariant holds in every reachable state.
THEOREM Invariance == Spec => []IInv
BY InitIInv, NextIInv, PTL DEF Spec

\* The client's variables keep their types; in particular no cancellation of
\* reconnectTask (WSClient.connect, disconnect) counts a task twice.
THEOREM TypeCorrect == Spec => []TypeOK
<1>1. IInv => TypeOK
  BY DEF IInv
<1>2. QED
  BY <1>1, Invariance, PTL

\* While WSClient is offline one of its reconnection tasks will try again.
THEOREM OfflineTriesAgain == Spec => []OfflineIsTemporary
<1>1. IInv => OfflineIsTemporary
  BY DEF IInv, OfflineIsTemporary, OfflineIsHeld, HeldIsAsleep, StateFollowsLink,
         HasTarget
<1>2. QED
  BY <1>1, Invariance, PTL

\* TermCastiOSApp's flags always match the client's state.
THEOREM ScreenCorrect == Spec => []ScreenTellsState
<1>1. IInv => ScreenTellsState
  BY DEF IInv
<1>2. QED
  BY <1>1, Invariance, PTL

\* A live tab has asked for its replay, on this connection or an earlier one.
THEOREM ReplayAskedFor == Spec => []ReplayUnlessOutlived
<1>1. IInv => ReplayUnlessOutlived
  BY DEF IInv
<1>2. QED
  BY <1>1, Invariance, PTL

\* handleStateUpdate never takes the drop of a connection for a refusal.
THEOREM DropsAreTold == Spec => DropIsNotRefusal
<1>1. IInv /\ [Next]_vars => [state = "connected" => state' # "authFailed"]_vars
  <2> SUFFICES ASSUME IInv, [Next]_vars, state = "connected"
               PROVE  state' # "authFailed"
    OBVIOUS
  <2>1. didEverConnect
    BY DEF IInv, StateFollowsLink
  <2>2. Fail => state' = "offline"
    BY <2>1 DEF Fail, Refused, Drop
  <2>3. QED
    BY <2>2 DEF Next, vars, linkVars, Ready, GoStale, PingArrives, Tick, Reconnect,
                StrayReconnect, Pair, Retry, Unpair, TabAppears, TabDisappears,
                SessionEnded, Connect, Disconnect
<1>2. QED
  BY <1>1, Invariance, PTL DEF Spec, DropIsNotRefusal
=============================================================================
