---------------------------- MODULE TerminalPage ----------------------------
(***************************************************************************)
(* The web page that draws a terminal (index.html around xterm.js) and the *)
(* bridge it calls its host through.  The page's script runs in one piece  *)
(* when it is loaded; afterwards everything is an event.  xterm.js keeps   *)
(* what is written in a buffer that it parses later; the terminal's size   *)
(* is left out.  A recording bridge,  *)
(* as openTerminal puts it into the page for its tests, is the whole host; *)
(* AndroidTerminal adds the other.                                         *)
(***************************************************************************)
EXTENDS Naturals, Sequences

CONSTANTS
  NoSession,   \* the destination of the keys that a recording bridge gets
  MaxCalls     \* calls of onInput (bound of the model)

ASSUME CallsAssumption == MaxCalls \in Nat

VARIABLES
  bridge,      \* window.TermCastBridge: "recording" or "android"
  page,        \* "none", "loading", "loaded"
  buffer,      \* xterm's write buffer
  screen,      \* what it has parsed, in order
  inputCalls,  \* calls of onInput
  readyCalled  \* onReady has been called

callVars == <<inputCalls, readyCalled>>
pageVars == <<bridge, page, buffer, screen, callVars>>

\* What a bridge starts with, before its page has called it.
NoCalls ==
  /\ inputCalls = <<>>
  /\ readyCalled = FALSE

\* cy.openTerminal: the page is visited with a recording bridge in it.
OpenTerminal ==
  /\ bridge = "recording"
  /\ page = "loading"
  /\ NoCalls

-----------------------------------------------------------------------------
\* The script: at its end it tells the bridge that it is ready.
Load ==
  /\ page = "loading"
  /\ page' = "loaded"
  /\ readyCalled' = TRUE
  /\ UNCHANGED <<bridge, buffer, screen, inputCalls>>

\* window.termWrite: Terminal.write puts the bytes into its buffer ...
TermWrite(c) ==
  /\ page = "loaded"
  /\ buffer' = Append(buffer, c)
  /\ UNCHANGED <<bridge, page, screen, callVars>>

\* ... and parses them from a timer.
Parse ==
  /\ buffer # <<>>
  /\ screen' = Append(screen, Head(buffer))
  /\ buffer' = Tail(buffer)
  /\ UNCHANGED <<bridge, page, callVars>>

\* The user types into the page: onData calls the bridge, whose host sends the
\* key to a session.
Type(to) ==
  /\ page = "loaded"
  /\ Len(inputCalls) < MaxCalls
  /\ inputCalls' = Append(inputCalls, to)
  /\ UNCHANGED <<bridge, page, buffer, screen, readyCalled>>
=============================================================================
