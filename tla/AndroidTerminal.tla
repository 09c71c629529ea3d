--------------------------- MODULE AndroidTerminal ---------------------------
(***************************************************************************)
(* The Android app's terminal: SessionListScreen with its tabs, the one    *)
(* TerminalScreen below them, its WebView with TerminalPage's page, and    *)
(* the output flows of SessionViewModel.  Compose keeps the TerminalScreen *)
(* when another tab is selected, and with it whatever it remembers or has  *)
(* started once: the page, the collector, the bridge.  The Mac sends       *)
(* output only in answer to an attach.  The page calls the bridge on a     *)
(* thread of its own.  With a recording bridge there is no app, and a test *)
(* writes and types.                                                       *)
(***************************************************************************)
EXTENDS TerminalPage, FiniteSets

CONSTANTS
  Sessions,
  MaxAttaches  \* attaches and writes of a test (bound of the model)

ASSUME SessionsAssumption ==
  /\ NoSession \notin Sessions
  /\ MaxAttaches \in Nat

VARIABLES
  selected,      \* the session of the selected tab
  bound,         \* the session whose flow and callbacks TerminalScreen took
                 \* when it appeared; NoSession while there is none
  asked,         \* attaches on their way to the Mac, or their answers back
  attaches,      \* how many there have been, which names the next
  pendingOutput, \* output that waits for the page
  flushed,       \* LaunchedEffect(isReady) has run since the page is ready
  posts,         \* termWrites posted to the WebView
  arrived,       \* history: output of the bound session, or a test's, so far
  raced          \* history: output was collected between onReady and the flush
                 \* of earlier output

flowVars == <<selected, bound, asked, attaches>>
screenVars == <<pendingOutput, flushed, posts>>
historyVars == <<arrived, raced>>
vars == <<pageVars, flowVars, screenVars, historyVars>>

Chunk == [session : Sessions \cup {NoSession}, nth : 1 .. MaxAttaches]

\* TerminalScreen.isReady, which onReady sets.
isReady == readyCalled

\* The app before its session list appears: there is no terminal.
AppStarts ==
  /\ bridge = "android"
  /\ page = "none"
  /\ NoCalls

Init ==
  /\ OpenTerminal \/ AppStarts
  /\ buffer = <<>> /\ screen = <<>>
  /\ selected = NoSession /\ bound = NoSession
  /\ asked = {} /\ attaches = 0
  /\ pendingOutput = <<>> /\ flushed = FALSE /\ posts = <<>>
  /\ arrived = <<>> /\ raced = FALSE

-----------------------------------------------------------------------------
(***************************************************************************)
(* A test's host.                                                          *)
(***************************************************************************)

TestWrites ==
  /\ bridge = "recording"
  /\ attaches < MaxAttaches
  /\ LET c == [session |-> NoSession, nth |-> attaches + 1]
     IN TermWrite(c) /\ arrived' = Append(arrived, c)
  /\ attaches' = attaches + 1
  /\ UNCHANGED <<selected, bound, asked, screenVars, raced>>

TestTypes ==
  /\ bridge = "recording"
  /\ Type(NoSession)
  /\ UNCHANGED <<flowVars, screenVars, historyVars>>

-----------------------------------------------------------------------------
(***************************************************************************)
(* The app.                                                                *)
(***************************************************************************)

\* viewModel.attach
Attach(s) ==
  /\ attaches < MaxAttaches
  /\ attaches' = attaches + 1
  /\ asked' = asked \cup {[session |-> s, nth |-> attaches + 1]}

\* The session list appears with a tab selected: a new terminal with its
\* WebView, its collector and the effect that attaches.
Appear(s) ==
  /\ bridge = "android" /\ bound = NoSession
  /\ selected' = s
  /\ bound' = s
  /\ Attach(s)
  /\ page' = "loading"
  /\ UNCHANGED <<bridge, buffer, screen, callVars, screenVars, historyVars>>

\* A click on another tab, or a list that has another session in this tab's
\* place.  Only the effect that is keyed by the session runs again.
Select(s) ==
  /\ bound # NoSession /\ s # selected
  /\ selected' = s
  /\ Attach(s)
  /\ UNCHANGED <<pageVars, bound, screenVars, historyVars>>

CollectsSelected(c) == bound # NoSession /\ c.session = selected
CollectsReady(c) == c.session = bound /\ isReady

\* The flows that have a collector.
Collects(c) == c.session = bound

\* An answer arrives: handleMessage emits it, and without a collector it is
\* gone.  The collector posts it, or keeps it until the page is ready.
Output(c) ==
  /\ c \in asked
  /\ asked' = asked \ {c}
  /\ arrived' = IF c.session = bound THEN Append(arrived, c) ELSE arrived
  /\ posts' = IF Collects(c) /\ isReady THEN Append(posts, c) ELSE posts
  /\ pendingOutput' = IF Collects(c) /\ ~isReady THEN Append(pendingOutput, c)
                      ELSE pendingOutput
  /\ raced' = (raced \/ (Collects(c) /\ isReady /\ pendingOutput # <<>>))
  /\ UNCHANGED <<pageVars, selected, bound, attaches, flushed>>

\* A session that is gone gets no answer.
NoAnswer(c) ==
  /\ c \in asked
  /\ asked' = asked \ {c}
  /\ UNCHANGED <<pageVars, selected, bound, attaches, screenVars, historyVars>>

\* The page loads, on either host.
PageLoads == Load /\ UNCHANGED <<flowVars, screenVars, historyVars>>

KeptAll == pendingOutput

\* pendingOutput.clear()
Kept == <<>>

\* LaunchedEffect(isReady), in a frame after onReady.
Flush ==
  /\ isReady /\ ~flushed /\ bound # NoSession
  /\ posts' = posts \o pendingOutput
  /\ pendingOutput' = Kept
  /\ flushed' = TRUE
  /\ UNCHANGED <<pageVars, flowVars, historyVars>>

\* A posted termWrite is evaluated in the page.
Evaluate ==
  /\ posts # <<>>
  /\ TermWrite(Head(posts))
  /\ posts' = Tail(posts)
  /\ UNCHANGED <<flowVars, pendingOutput, flushed, historyVars>>

PageParses == Parse /\ UNCHANGED <<flowVars, screenVars, historyVars>>

KeysToSelected == selected

\* The session that the bridge's onInput was made for.
KeysTo == bound

UserTypes ==
  /\ bridge = "android"
  /\ Type(KeysTo)
  /\ UNCHANGED <<flowVars, screenVars, historyVars>>

\* The list leaves the screen (offline, or no session any more), and takes
\* the terminal with it.
Leave ==
  /\ bound # NoSession
  /\ selected' = NoSession /\ bound' = NoSession
  /\ page' = "none"
  /\ buffer' = <<>> /\ screen' = <<>>
  /\ inputCalls' = <<>> /\ readyCalled' = FALSE
  /\ pendingOutput' = <<>> /\ flushed' = FALSE /\ posts' = <<>>
  /\ arrived' = <<>> /\ raced' = FALSE
  /\ UNCHANGED <<bridge, asked, attaches>>

-----------------------------------------------------------------------------
Next ==
  \/ TestWrites \/ TestTypes
  \/ \E s \in Sessions : Appear(s) \/ Select(s)
  \/ \E c \in asked : Output(c) \/ NoAnswer(c)
  \/ PageLoads \/ Flush \/ Evaluate \/ PageParses \/ UserTypes
  \/ Leave

Spec == Init /\ [][Next]_vars

\* The page, its timers and the app's main thread go on.
Fairness ==
  /\ WF_vars(PageLoads) /\ WF_vars(Flush)
  /\ WF_vars(Evaluate) /\ WF_vars(PageParses)

FairSpec == Spec /\ Fairness

-----------------------------------------------------------------------------
(***************************************************************************)
(* Properties                                                              *)
(***************************************************************************)
\* The variables have their types; output waits only while it is not flushed.
TypeOK ==
  /\ bridge \in {"recording", "android"}
  /\ page \in {"none", "loading", "loaded"}
  /\ {selected, bound} \subseteq Sessions \cup {NoSession}
  /\ (bound = NoSession) = (selected = NoSession)
  /\ asked \subseteq Chunk
  /\ attaches \in 0 .. MaxAttaches
  /\ \A q \in {buffer, screen, pendingOutput, posts, arrived} :
       q \in Seq(Chunk)
  /\ inputCalls \in Seq(Sessions \cup {NoSession})
  /\ {readyCalled, flushed, raced} \subseteq BOOLEAN
  /\ flushed => pendingOutput = <<>>

\* Every byte of the session that the terminal was opened for, and of no
\* other, goes once and in its order through the waiting list, the posted
\* calls and xterm's buffer to the screen, unless some came in between the
\* page's onReady and the flush of what had waited.
OutputInOrder ==
  ~raced => screen \o buffer \o posts \o pendingOutput = arrived

\* A key typed into the terminal goes to the session whose output it shows,
\* also after another tab was selected.
KeysGoToWhatIsShown ==
  \A k \in 1 .. Len(inputCalls), n \in 1 .. Len(screen) :
    inputCalls[k] = screen[n].session

\* All output that arrived is drawn at last, raced or not.
OutputReachesScreen ==
  Len(screen) < Len(arrived) ~> Len(screen) = Len(arrived)
=============================================================================
