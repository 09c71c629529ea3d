---------------------- MODULE AndroidConnectionProofs ----------------------
(***************************************************************************)
(* Proofs about AndroidConnection, for any set of pairings, any number of  *)
(* sockets alive at one time and any number of overwritten coroutines:     *)
(* every safety property its run checks.                                   *)
(***************************************************************************)
EXTENDS AndroidConnection, TLAPS

USE CredsAssumption, SocketsAssumption

-----------------------------------------------------------------------------
(***************************************************************************)
(* The inductive invariant.  A callback of onOpen runs on a socket that    *)
(* has opened and has not ended, one that reports an end or schedules on   *)
(* one that has: its name is not taken meanwhile, and what a CONNECTED     *)
(* rests on is there until its end is reported.                            *)
(***************************************************************************)

Opened == {"open", "stale", "cancelled"}

CallbacksFit ==
  \A s \in Sockets :
    /\ step[s] \in {"connected", "ping"} => wire[s] \in Opened
    /\ step[s] \in {"test", "refuse", "offline", "stop", "cancel", "launch"} =>
         wire[s] = "ended"

IInv ==
  /\ TypeOK
  /\ CallbacksFit
  /\ OfflineTriesAgain
  /\ ConnectedMeansOpen
  /\ ConnectedIsWatched

-----------------------------------------------------------------------------
(***************************************************************************)
(* The main thread.                                                        *)
(***************************************************************************)

\* Overwriting a coroutine leaves a count of those that go on.
LEMMA WithStrayType ==
  ASSUME NEW strays \in [Creds -> Nat], NEW k
  PROVE  WithStray(strays, k) \in [Creds -> Nat]
  BY DEF WithStray

\* connect() begins, whoever calls it.
LEMMA ConnectKeeps ==
  ASSUME IInv, NEW k \in Creds, Connect(k),
         reconnectJob' \in Creds \cup {NoCreds}, strayJobs' \in [Creds -> Nat],
         shown' \in States, stored' \in Creds \cup {NoCreds}, answered' \subseteq Creds
  PROVE  IInv'
<1> USE DEF IInv, Connect, MainGoes, socketVars, pingVars
<1>1. TypeOK'
  BY DEF TypeOK
<1>2. CallbacksFit'
  BY DEF CallbacksFit
<1>3. OfflineTriesAgain' /\ ConnectedIsWatched'
  BY DEF OfflineTriesAgain, ConnectedIsWatched
<1>4. ConnectedMeansOpen'
  BY DEF ConnectedMeansOpen
<1>5. QED
  BY <1>1, <1>2, <1>3, <1>4

\* Its other two statements.
LEMMA ConnectGoesOn ==
  ASSUME IInv, ReportConnecting \/ \E s \in Sockets : Dial(s)
  PROVE  IInv'
<1> USE DEF IInv, MainGoes, jobVars, pingVars, appVars
<1>1. CASE ReportConnecting
  <2>1. PICK s \in Sockets :
          /\ Nameable(s)
          /\ wire' = [wire EXCEPT ![s] = "new"]
          /\ credsOf' = [credsOf EXCEPT ![s] = whose]
    BY <1>1 DEF ReportConnecting
  <2>2. /\ main' = "dial" /\ state' = "CONNECTING" /\ whose' = NoCreds /\ whose \in Creds
        /\ UNCHANGED <<didEverConnect, socket, step, jobVars, pingVars, appVars>>
    BY <1>1 DEF ReportConnecting, Connecting, TypeOK
  <2>3. TypeOK'
    BY <2>1, <2>2 DEF TypeOK, States
  <2>4. CallbacksFit'
    BY <2>1, <2>2 DEF CallbacksFit, Nameable, TypeOK
  <2>5. QED
    BY <2>2, <2>3, <2>4 DEF OfflineTriesAgain, ConnectedMeansOpen, ConnectedIsWatched
<1>2. CASE \E s \in Sockets : Dial(s)
  <2>1. PICK s \in Sockets : Dial(s)
    BY <1>2
  <2> USE DEF Dial
  <2>2. TypeOK'
    BY <2>1 DEF TypeOK
  <2>3. CallbacksFit'
    BY <2>1 DEF CallbacksFit, TypeOK, Opened
  <2>4. OfflineTriesAgain' /\ ConnectedIsWatched'
    BY <2>1 DEF OfflineTriesAgain, ConnectedIsWatched, Leaving
  <2>5. ConnectedMeansOpen'
    BY <2>1 DEF ConnectedMeansOpen, TypeOK
  <2>6. QED
    BY <2>2, <2>3, <2>4, <2>5
<1>3. QED
  BY <1>1, <1>2

\* scheduleReconnect of a keepalive that timed out.
LEMMA MainSchedules ==
  ASSUME IInv, MainCancelsJob \/ MainLaunchesJob
  PROVE  IInv'
<1> USE DEF IInv, MainGoes, socketVars, pingVars, appVars
<1>1. CASE MainCancelsJob
  <2> USE DEF MainCancelsJob
  <2>1. TypeOK' /\ CallbacksFit'
    BY <1>1 DEF TypeOK, CallbacksFit
  <2>2. OfflineTriesAgain' /\ ConnectedIsWatched' /\ ConnectedMeansOpen'
    BY <1>1 DEF OfflineTriesAgain, ConnectedIsWatched, ConnectedMeansOpen
  <2>3. QED
    BY <2>1, <2>2
<1>2. CASE MainLaunchesJob
  <2> USE DEF MainLaunchesJob
  <2>1. strayJobs' \in [Creds -> Nat] /\ reconnectJob' \in Creds /\ whose' = NoCreds
    BY <1>2, WithStrayType DEF TypeOK
  <2>2. TypeOK' /\ CallbacksFit'
    BY <1>2, <2>1 DEF TypeOK, CallbacksFit
  <2>3. OfflineTriesAgain' /\ ConnectedIsWatched' /\ ConnectedMeansOpen'
    BY <1>2, <2>1 DEF OfflineTriesAgain, ConnectedIsWatched, ConnectedMeansOpen
  <2>4. QED
    BY <2>2, <2>3
<1>3. QED
  BY <1>1, <1>2

\* disconnect, after its first statement.
LEMMA DisconnectGoesOn ==
  ASSUME IInv, StopsKeepalive \/ AbortsSocket \/ ClearsConnected \/ ReportDisconnected
  PROVE  IInv'
<1> USE DEF IInv, MainGoes, jobVars, appVars
<1>1. CASE StopsKeepalive
  <2> USE DEF StopsKeepalive, NoKeepalive, socketVars
  <2>1. TypeOK' /\ CallbacksFit'
    BY <1>1 DEF TypeOK, CallbacksFit, Leaving
  <2>2. OfflineTriesAgain' /\ ConnectedIsWatched' /\ ConnectedMeansOpen'
    BY <1>1 DEF OfflineTriesAgain, ConnectedIsWatched, ConnectedMeansOpen, Leaving
  <2>3. QED
    BY <2>1, <2>2
<1>2. CASE AbortsSocket
  <2> USE DEF AbortsSocket, pingVars
  <2>1. \A s \in Sockets : wire'[s] = IF s = socket THEN CutOff(s) ELSE wire[s]
    BY <1>2
  <2>2. \A s \in Sockets :
          /\ wire[s] \in Opened => wire'[s] \in Opened
          /\ wire[s] \notin Opened => wire'[s] \notin Opened
          /\ wire[s] = "ended" <=> wire'[s] = "ended"
          /\ wire'[s] \in {"ended", "new", "opening", "open", "stale", "aborted",
                           "cancelled"}
    BY <2>1 DEF TypeOK, CutOff, Opened
  <2>3. TypeOK'
    <3>1. wire' \in [Sockets -> {"ended", "new", "opening", "open", "stale", "aborted",
                                 "cancelled"}]
      BY <1>2, <2>2
    <3>2. \A s \in Sockets : wire'[s] # "ended" \/ step'[s] # "none" => credsOf'[s] \in Creds
      BY <1>2, <2>2 DEF TypeOK
    <3>3. QED
      BY <1>2, <3>1, <3>2 DEF TypeOK, Leaving
  <2>4. CallbacksFit'
    BY <1>2, <2>2 DEF CallbacksFit
  <2>5. OfflineTriesAgain' /\ ConnectedIsWatched'
    BY <1>2 DEF OfflineTriesAgain, ConnectedIsWatched, Leaving
  <2>6. ConnectedMeansOpen'
    BY <1>2, <2>2 DEF ConnectedMeansOpen, Opened
  <2>7. QED
    BY <2>3, <2>4, <2>5, <2>6
<1>3. CASE ClearsConnected
  <2> USE DEF ClearsConnected, socketVars, pingVars
  <2>1. TypeOK' /\ CallbacksFit'
    BY <1>3 DEF TypeOK, CallbacksFit, Leaving
  <2>2. OfflineTriesAgain' /\ ConnectedIsWatched' /\ ConnectedMeansOpen'
    BY <1>3 DEF OfflineTriesAgain, ConnectedIsWatched, ConnectedMeansOpen, Leaving
  <2>3. QED
    BY <2>1, <2>2
<1>4. CASE ReportDisconnected
  <2> USE DEF ReportDisconnected, socketVars, pingVars
  <2>1. TypeOK' /\ CallbacksFit'
    BY <1>4 DEF TypeOK, CallbacksFit, States
  <2>2. QED
    BY <1>4, <2>1 DEF OfflineTriesAgain, ConnectedIsWatched, ConnectedMeansOpen
<1>5. QED
  BY <1>1, <1>2, <1>3, <1>4

-----------------------------------------------------------------------------
(***************************************************************************)
(* The sockets' threads.                                                   *)
(***************************************************************************)

LEMMA InitIInv == Init => IInv
<1> SUFFICES ASSUME Init PROVE IInv
  OBVIOUS
<1> USE DEF Init, IInv, TypeOK, States, CallbacksFit, OfflineTriesAgain,
            ConnectedMeansOpen, ConnectedIsWatched
<1>1. CASE stored = NoCreds
  <2>1. socket = NoSocket /\ state = "DISCONNECTED"
    BY <1>1
  <2>2. QED
    BY <1>1, <2>1
<1>2. CASE stored # NoCreds
  <2>1. socket \in Sockets /\ state = "CONNECTING" /\ stored \in Creds
    BY <1>2
  <2>2. QED
    BY <1>2, <2>1
<1>3. QED
  BY <1>1, <1>2

\* onOpen.
LEMMA OpeningKeeps ==
  ASSUME IInv, NEW s \in Sockets, OnOpen(s) \/ ReportConnected(s) \/ StartPing(s)
  PROVE  IInv'
<1> USE DEF IInv, Goes, mainVars, jobVars
<1>1. CASE OnOpen(s)
  <2> USE DEF OnOpen, pingVars
  <2>1. /\ wire'[s] \in {"open", "cancelled"} /\ step'[s] = "connected"
        /\ credsOf[s] \in Creds
    BY <1>1 DEF TypeOK
  <2>2. TypeOK'
    BY <1>1, <2>1 DEF TypeOK
  <2>3. CallbacksFit'
    BY <1>1, <2>1 DEF TypeOK, CallbacksFit, Opened
  <2>4. OfflineTriesAgain' /\ ConnectedIsWatched' /\ ConnectedMeansOpen'
    BY <1>1, <2>1 DEF TypeOK, OfflineTriesAgain, ConnectedIsWatched, ConnectedMeansOpen
  <2>5. QED
    BY <2>2, <2>3, <2>4
<1>2. CASE ReportConnected(s)
  <2> USE DEF ReportConnected, pingVars, appVars
  <2>1. step'[s] = "ping" /\ wire[s] \in Opened /\ credsOf[s] \in Creds
    BY <1>2 DEF TypeOK, CallbacksFit
  <2>2. TypeOK'
    BY <1>2, <2>1 DEF TypeOK, States
  <2>3. CallbacksFit'
    BY <1>2, <2>1 DEF TypeOK, CallbacksFit
  <2>4. OfflineTriesAgain' /\ ConnectedIsWatched' /\ ConnectedMeansOpen'
    BY <1>2, <2>1 DEF OfflineTriesAgain, ConnectedIsWatched, ConnectedMeansOpen, Opened
  <2>5. QED
    BY <2>2, <2>3, <2>4
<1>3. CASE StartPing(s)
  <2> USE DEF StartPing, appVars
  <2>1. /\ strayPings' \in [Creds -> Nat] /\ pingPong' \in Creds /\ step'[s] = "none"
        /\ wire[s] \in Opened
    BY <1>3, WithStrayType DEF TypeOK, CallbacksFit
  <2>2. TypeOK'
    BY <1>3, <2>1 DEF TypeOK
  <2>3. CallbacksFit'
    BY <1>3, <2>1 DEF TypeOK, CallbacksFit
  <2>4. OfflineTriesAgain' /\ ConnectedIsWatched' /\ ConnectedMeansOpen'
    BY <1>3, <2>1 DEF TypeOK, OfflineTriesAgain, ConnectedIsWatched, ConnectedMeansOpen
  <2>5. QED
    BY <2>2, <2>3, <2>4
<1>4. QED
  BY <1>1, <1>2, <1>3

\* A Mac that vanishes, a ping, a stutter.
LEMMA RestKeeps ==
  ASSUME IInv, UNCHANGED vars \/ \E s \in Sockets : GoStale(s) \/ PingMessage(s)
  PROVE  IInv'
<1> USE DEF IInv, mainVars, socketVars, jobVars, pingVars, appVars
<1>1. CASE \E s \in Sockets : GoStale(s)
  <2>1. PICK s \in Sockets : GoStale(s)
    BY <1>1
  <2> USE DEF GoStale
  <2>2. TypeOK' /\ CallbacksFit'
    BY <2>1 DEF TypeOK, CallbacksFit, Opened
  <2>3. OfflineTriesAgain' /\ ConnectedIsWatched' /\ ConnectedMeansOpen'
    BY <2>1 DEF TypeOK, OfflineTriesAgain, ConnectedIsWatched, ConnectedMeansOpen
  <2>4. QED
    BY <2>2, <2>3
<1>2. CASE UNCHANGED vars \/ \E s \in Sockets : PingMessage(s)
  <2>1. /\ UNCHANGED <<mainVars, state, didEverConnect, socketVars, jobVars, pingPong,
                       strayPings, appVars>>
        /\ pongReceived' \in BOOLEAN
    BY <1>2 DEF PingMessage, vars, TypeOK
  <2>2. QED
    BY <2>1 DEF TypeOK, CallbacksFit, OfflineTriesAgain, ConnectedMeansOpen,
       ConnectedIsWatched
<1>3. QED
  BY <1>1, <1>2

\* onFailure up to its report.
LEMMA FailureKeeps ==
  ASSUME IInv, NEW s \in Sockets,
         TestConnected(s) \/ \E response \in BOOLEAN : Fails(s, response)
  PROVE  IInv'
<1> USE DEF IInv, Goes, mainVars, jobVars
<1>1. CASE \E response \in BOOLEAN : Fails(s, response)
  <2>1. PICK response \in BOOLEAN : Fails(s, response)
    BY <1>1
  <2> USE DEF Fails, NoKeepalive
  <2>2. /\ step'[s] \in {"test", "offline"} /\ wire'[s] = "ended" /\ credsOf[s] \in Creds
        /\ answered' \subseteq Creds
    BY <2>1 DEF TypeOK
  <2>3. TypeOK'
    BY <2>1, <2>2 DEF TypeOK
  <2>4. CallbacksFit'
    BY <2>1, <2>2 DEF TypeOK, CallbacksFit
  <2>5. OfflineTriesAgain'
    BY <2>1, <2>2 DEF TypeOK, OfflineTriesAgain
  <2>6. ConnectedIsWatched' /\ ConnectedMeansOpen'
    BY <2>1, <2>2 DEF TypeOK, ConnectedIsWatched, ConnectedMeansOpen
  <2>7. QED
    BY <2>3, <2>4, <2>5, <2>6
<1>2. CASE TestConnected(s)
  <2> USE DEF TestConnected, pingVars, appVars
  <2>1. step'[s] \in {"refuse", "offline"} /\ wire[s] = "ended" /\ credsOf[s] \in Creds
    BY <1>2 DEF TypeOK, CallbacksFit
  <2>2. TypeOK'
    BY <1>2, <2>1 DEF TypeOK
  <2>3. CallbacksFit'
    BY <1>2, <2>1 DEF TypeOK, CallbacksFit
  <2>4. OfflineTriesAgain' /\ ConnectedIsWatched' /\ ConnectedMeansOpen'
    BY <1>2, <2>1 DEF TypeOK, OfflineTriesAgain, ConnectedIsWatched, ConnectedMeansOpen
  <2>5. QED
    BY <2>2, <2>3, <2>4
<1>3. QED
  BY <1>1, <1>2

\* The reports of an end.
LEMMA EndReportKeeps ==
  ASSUME IInv, NEW s \in Sockets, ReportRefused(s) \/ ReportOffline(s) \/ Closes(s)
  PROVE  IInv'
<1> USE DEF IInv, Goes, mainVars, jobVars, pingVars, appVars
<1>1. CASE ReportRefused(s)
  <2> USE DEF ReportRefused, AfterRefusal
  <2>1. step'[s] = "none" /\ wire[s] = "ended" /\ state' = "AUTH_FAILED"
    BY <1>1 DEF TypeOK, CallbacksFit
  <2>2. TypeOK'
    BY <1>1, <2>1 DEF TypeOK, States
  <2>3. CallbacksFit'
    BY <1>1, <2>1 DEF TypeOK, CallbacksFit
  <2>4. QED
    BY <2>1, <2>2, <2>3 DEF OfflineTriesAgain, ConnectedIsWatched, ConnectedMeansOpen
<1>2. CASE ReportOffline(s) \/ Closes(s)
  <2> USE DEF ReportOffline, Closes, Reported
  <2>1. /\ step'[s] \in {"stop", "cancel"} /\ state' = "OFFLINE" /\ credsOf[s] \in Creds
        /\ wire'[s] = "ended"
    BY <1>2 DEF TypeOK, CallbacksFit
  <2>2. TypeOK'
    BY <1>2, <2>1 DEF TypeOK, States
  <2>3. CallbacksFit'
    BY <1>2, <2>1 DEF TypeOK, CallbacksFit
  <2>4. QED
    BY <2>1, <2>2, <2>3 DEF OfflineTriesAgain, ConnectedIsWatched, ConnectedMeansOpen
<1>3. QED
  BY <1>1, <1>2

\* What follows a reported end.
LEMMA ScheduleKeeps ==
  ASSUME IInv, NEW s \in Sockets, StopPing(s) \/ CancelJob(s) \/ LaunchJob(s)
  PROVE  IInv'
<1> USE DEF IInv, Goes, mainVars
<1>1. CASE StopPing(s)
  <2> USE DEF StopPing, NoKeepalive, jobVars, appVars
  <2>1. step'[s] = "cancel" /\ wire[s] = "ended"
    BY <1>1 DEF TypeOK, CallbacksFit
  <2>2. TypeOK' /\ CallbacksFit'
    BY <1>1, <2>1 DEF TypeOK, CallbacksFit
  <2>3. OfflineTriesAgain' /\ ConnectedIsWatched' /\ ConnectedMeansOpen'
    BY <1>1, <2>1 DEF TypeOK, OfflineTriesAgain, ConnectedIsWatched, ConnectedMeansOpen
  <2>4. QED
    BY <2>2, <2>3
<1>2. CASE CancelJob(s)
  <2> USE DEF CancelJob, pingVars, appVars
  <2>1. step'[s] = "launch" /\ wire[s] = "ended"
    BY <1>2 DEF TypeOK, CallbacksFit
  <2>2. TypeOK' /\ CallbacksFit'
    BY <1>2, <2>1 DEF TypeOK, CallbacksFit
  <2>3. OfflineTriesAgain' /\ ConnectedIsWatched' /\ ConnectedMeansOpen'
    BY <1>2, <2>1 DEF TypeOK, OfflineTriesAgain, ConnectedIsWatched, ConnectedMeansOpen
  <2>4. QED
    BY <2>2, <2>3
<1>3. CASE LaunchJob(s)
  <2> USE DEF LaunchJob, Launched, pingVars, appVars
  <2>1. /\ strayJobs' \in [Creds -> Nat] /\ reconnectJob' \in Creds /\ step'[s] = "none"
        /\ wire[s] = "ended"
    BY <1>3, WithStrayType DEF TypeOK, CallbacksFit
  <2>2. TypeOK' /\ CallbacksFit'
    BY <1>3, <2>1 DEF TypeOK, CallbacksFit
  <2>3. OfflineTriesAgain' /\ ConnectedIsWatched' /\ ConnectedMeansOpen'
    BY <1>3, <2>1 DEF TypeOK, OfflineTriesAgain, ConnectedIsWatched, ConnectedMeansOpen
  <2>4. QED
    BY <2>2, <2>3
<1>4. QED
  BY <1>1, <1>2, <1>3

-----------------------------------------------------------------------------
(***************************************************************************)
(* The coroutines and the screen.                                          *)
(***************************************************************************)

\* The keepalives.
LEMMA TickKeeps ==
  ASSUME IInv, PingTick \/ \E k \in Creds : StrayTick(k)
  PROVE  IInv'
<1> USE DEF IInv, MainGoes, AfterTimeout, socketVars, jobVars, appVars
<1>1. CASE PingTick
  <2>1. CASE Overdue
    <3>1. main' = "cancel" /\ whose' \in Creds /\ pingPong' = NoCreds /\ pongReceived' = TRUE
      BY <1>1, <2>1 DEF PingTick, NoKeepalive, TypeOK
    <3>2. TypeOK' /\ CallbacksFit'
      BY <1>1, <3>1 DEF PingTick, TypeOK, CallbacksFit
    <3>3. OfflineTriesAgain' /\ ConnectedIsWatched' /\ ConnectedMeansOpen'
      BY <1>1, <3>1 DEF PingTick, OfflineTriesAgain, ConnectedIsWatched,
         ConnectedMeansOpen, Leaving
    <3>4. QED
      BY <3>2, <3>3
  <2>2. CASE ~Overdue
    <3>1. /\ main' = main /\ whose' = whose /\ pingPong' = pingPong
          /\ pongReceived' = FALSE
      BY <1>1, <2>2 DEF PingTick
    <3>2. TypeOK' /\ CallbacksFit'
      BY <1>1, <3>1 DEF PingTick, TypeOK, CallbacksFit
    <3>3. OfflineTriesAgain' /\ ConnectedIsWatched' /\ ConnectedMeansOpen'
      BY <1>1, <3>1 DEF PingTick, OfflineTriesAgain, ConnectedIsWatched,
         ConnectedMeansOpen
    <3>4. QED
      BY <3>2, <3>3
  <2>3. QED
    BY <2>1, <2>2
<1>2. CASE \E k \in Creds : StrayTick(k)
  <2>1. PICK k \in Creds : StrayTick(k)
    BY <1>2
  <2> USE DEF StrayTick
  <2>2. TypeOK' /\ CallbacksFit'
    BY <2>1 DEF TypeOK, CallbacksFit
  <2>3. OfflineTriesAgain' /\ ConnectedIsWatched' /\ ConnectedMeansOpen'
    BY <2>1 DEF OfflineTriesAgain, ConnectedIsWatched, ConnectedMeansOpen, Leaving
  <2>4. QED
    BY <2>2, <2>3
<1>3. QED
  BY <1>1, <1>2

\* Every caller of connect().
LEMMA CallersKeep ==
  ASSUME IInv,
         JobWakes \/ Retry \/ \E k \in Creds : StrayJobWakes(k) \/ Pair(k)
  PROVE  IInv'
<1>1. /\ reconnectJob \in Creds \cup {NoCreds} /\ strayJobs \in [Creds -> Nat]
      /\ shown \in States /\ stored \in Creds \cup {NoCreds} /\ answered \subseteq Creds
  BY DEF IInv, TypeOK
<1>2. CASE JobWakes
  BY <1>1, <1>2, ConnectKeeps DEF JobWakes, appVars
<1>3. CASE Retry
  BY <1>1, <1>3, ConnectKeeps DEF Retry, appVars, jobVars
<1>4. CASE \E k \in Creds : StrayJobWakes(k)
  <2>1. PICK k \in Creds : StrayJobWakes(k)
    BY <1>4
  <2>2. strayJobs' \in [Creds -> Nat]
    BY <1>1, <2>1 DEF StrayJobWakes
  <2>3. QED
    BY <1>1, <2>1, <2>2, ConnectKeeps DEF StrayJobWakes, appVars
<1>5. CASE \E k \in Creds : Pair(k)
  BY <1>1, <1>5, ConnectKeeps DEF Pair, jobVars
<1>6. QED
  BY <1>2, <1>3, <1>4, <1>5

LEMMA CollectKeeps == ASSUME IInv, Collect PROVE IInv'
<1> USE DEF IInv, MainGoes, socketVars, jobVars, pingVars
<1>1. CASE state = "AUTH_FAILED"
  <2>1. /\ Disconnect
        /\ stored' = NoCreds /\ shown' = state /\ answered' = answered
    BY <1>1 DEF Collect
  <2>2. TypeOK' /\ CallbacksFit'
    BY <2>1 DEF Disconnect, TypeOK, CallbacksFit, Leaving
  <2>3. OfflineTriesAgain' /\ ConnectedIsWatched' /\ ConnectedMeansOpen'
    BY <1>1, <2>1 DEF Disconnect, OfflineTriesAgain, ConnectedIsWatched, ConnectedMeansOpen
  <2>4. QED
    BY <2>2, <2>3
<1>2. CASE state # "AUTH_FAILED"
  <2>1. /\ UNCHANGED <<main, whose, stored, state, didEverConnect, socketVars, jobVars,
                       pingVars>>
        /\ shown' = state /\ answered' = answered
    BY <1>2 DEF Collect
  <2>2. QED
    BY <2>1 DEF TypeOK, CallbacksFit, OfflineTriesAgain, ConnectedMeansOpen,
       ConnectedIsWatched
<1>3. QED
  BY <1>1, <1>2

-----------------------------------------------------------------------------
\* Every step keeps the invariant.
LEMMA NextIInv == IInv /\ [Next]_vars => IInv'
<1> SUFFICES ASSUME IInv, [Next]_vars PROVE IInv'
  OBVIOUS
<1>1. CASE \E s \in Sockets : OnOpen(s) \/ ReportConnected(s) \/ StartPing(s)
  BY <1>1, OpeningKeeps
<1>2. CASE \E s \in Sockets :
             TestConnected(s) \/ \E response \in BOOLEAN : Fails(s, response)
  BY <1>2, FailureKeeps
<1>3. CASE \E s \in Sockets : ReportRefused(s) \/ ReportOffline(s) \/ Closes(s)
  BY <1>3, EndReportKeeps
<1>4. CASE \E s \in Sockets : StopPing(s) \/ CancelJob(s) \/ LaunchJob(s)
  BY <1>4, ScheduleKeeps
<1>5. CASE UNCHANGED vars \/ \E s \in Sockets : GoStale(s) \/ PingMessage(s)
  BY <1>5, RestKeeps
<1>6. CASE MainContinues
  BY <1>6, ConnectGoesOn, MainSchedules, DisconnectGoesOn DEF MainContinues
<1>7. CASE PingTick \/ \E k \in Creds : StrayTick(k)
  BY <1>7, TickKeeps
<1>8. CASE JobWakes \/ Retry \/ \E k \in Creds : StrayJobWakes(k) \/ Pair(k)
  BY <1>8, CallersKeep
<1>9. CASE Collect
  BY <1>9, CollectKeeps
<1>10. QED
  BY <1>1, <1>2, <1>3, <1>4, <1>5, <1>6, <1>7, <1>8, <1>9 DEF Next, Continues

-----------------------------------------------------------------------------
(***************************************************************************)
(* The theorems.                                                           *)
(***************************************************************************)

\* The strengthened invariant holds in every reachable state.
THEOREM Invariance == Spec => []IInv
  BY InitIInv, NextIInv, PTL DEF Spec

\* Types, whatever the interleaving of statements of the sockets' threads and
\* the main thread; a callback that still has something to do, and a main thread
\* that connects or schedules, know for which pairing.
THEOREM TypeCorrect == Spec => []TypeOK
<1>1. IInv => TypeOK
  BY DEF IInv
<1>2. QED
  BY <1>1, Invariance, PTL

\* A client that reports OFFLINE always has a reconnection on its way
\* (scheduleReconnect cancels one only to launch another), on whichever thread.
THEOREM OfflineRetries == Spec => []OfflineTriesAgain
<1>1. IInv => OfflineTriesAgain
  BY DEF IInv
<1>2. QED
  BY <1>1, Invariance, PTL

\* A client that reports CONNECTED has a socket that nobody reported down, or
\* one that disconnect() cancelled and that is still to report its end; the two
\* statements of onOpen and the five of disconnect come in any order.
THEOREM ConnectedOpen == Spec => []ConnectedMeansOpen
<1>1. IInv => ConnectedMeansOpen
  BY DEF IInv
<1>2. QED
  BY <1>1, Invariance, PTL

\* A client that reports CONNECTED has a keepalive, or a step that will give it
\* one or a new connection, although every socket's end stops the keepalive.
THEOREM ConnectedWatched == Spec => []ConnectedIsWatched
<1>1. IInv => ConnectedIsWatched
  BY DEF IInv
<1>2. QED
  BY <1>1, Invariance, PTL
=============================================================================
