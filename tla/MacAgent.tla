------------------------------ MODULE MacAgent ------------------------------
(***************************************************************************)
(* The agent's launch: the pairing secret it loads or makes, the Unix      *)
(* socket on which ShellLifecycle's shells register, the WebSocket server  *)
(* and the port it takes, saves and prefers next time.  A launch may find  *)
(* the keychain closed to it and its ports taken.  tailscaled always       *)
(* forwards to DefaultPort, and a phone keeps the secret it scanned.       *)
(* Secrets are named by the life of the agent that made them.              *)
(***************************************************************************)
EXTENDS ShellLifecycle

CONSTANTS
  DefaultPort,   \* 7681
  portAttempts   \* ports a launch tries

ASSUME LaunchAssumption ==
  /\ DefaultPort \in Nat \ {0}
  /\ portAttempts \in Nat \ {0}

VARIABLES
  secret,     \* JWTManager.secret, 0 while there is no agent
  stored,     \* keychain item "jwt-secret", or 0
  paired,     \* the secret a phone has scanned, or 0
  server,     \* WebSocketServer: "stopped", "bound", "saved" its port, "failed"
  port,       \* the port it has, or 0
  wsPort,     \* UserDefaults "wsPort", 0 when absent
  locked,     \* history: some call of the keychain has failed
  collided    \* history: some launch found DefaultPort taken

launchVars == <<secret, stored, paired, server, port, wsPort>>
historyVars == <<locked, collided>>
macVars == <<vars, launchVars, historyVars>>

Secrets == 1 .. MaxCrashes + 1
Ports == DefaultPort .. DefaultPort + portAttempts * (MaxCrashes + 1) - 1

\* The secret the agent would make in its present life.
Generated == crashes + 1

MacInit ==
  /\ Init
  /\ secret = 0 /\ stored = 0 /\ paired = 0
  /\ server = "stopped" /\ port = 0 /\ wsPort = 0
  /\ locked = FALSE /\ collided = FALSE

-----------------------------------------------------------------------------
AttemptsOneMore(preferred) == preferred .. preferred + portAttempts

Attempts(preferred) == preferred .. preferred + portAttempts - 1

\* The first port of those tried that nobody else has; 0 if there is none.
FreePortSkipsFirst(preferred, busy) ==
  LET free == Attempts(preferred + 1) \ busy
  IN IF free = {} THEN 0 ELSE CHOOSE p \in free : \A q \in free : p <= q

FreePort(preferred, busy) ==
  LET free == Attempts(preferred) \ busy
  IN IF free = {} THEN 0 ELSE CHOOSE p \in free : \A q \in free : p <= q

Preferred == IF wsPort = 0 THEN DefaultPort ELSE wsPort

\* What `save' leaves in the keychain when it makes g: the new item; nothing, if
\* it could delete but not add; the old one, if it could do neither.
Saved(g) == {g, 0, stored}

LoadedFresh == Generated

Loaded == stored

\* The secret is loaded.
LaunchLoads ==
  /\ Launch
  /\ stored # 0
  /\ secret' = Loaded
  /\ UNCHANGED <<stored, paired, server, port, wsPort, historyVars>>

\* The secret is absent, or the keychain does not give it: a new one is made
\* and saved, and an error in that is ignored.
LaunchGenerates ==
  /\ Launch
  /\ secret' = Generated
  /\ stored' \in Saved(Generated)
  /\ locked' = (locked \/ stored # 0 \/ stored' # Generated)
  /\ UNCHANGED <<paired, server, port, wsPort, collided>>

\* The start task: first the Unix socket ...
SocketBinds ==
  /\ Listen
  /\ server = "stopped"
  /\ UNCHANGED <<launchVars, historyVars>>

\* ... which may fail, and with it the rest of the task ...
SocketFails ==
  /\ agent = "launched"
  /\ server = "stopped"
  /\ server' = "failed"
  /\ UNCHANGED <<vars, secret, stored, paired, port, wsPort, historyVars>>

\* ... then the WebSocket server, while others hold the ports in busy ...
ServerBinds(busy) ==
  /\ agent = "listening"
  /\ server = "stopped"
  /\ LET p == FreePort(Preferred, busy)
     IN /\ port' = p
        /\ server' = IF p = 0 THEN "failed" ELSE "bound"
  /\ collided' = (collided \/ DefaultPort \in busy)
  /\ UNCHANGED <<vars, secret, stored, paired, wsPort, locked>>

\* ... and the defaults.
PortSaved ==
  /\ server = "bound"
  /\ server' = "saved"
  /\ wsPort' = port
  /\ UNCHANGED <<vars, secret, stored, paired, port, historyVars>>

\* showQRCodeIfAvailable shows what the keychain has; a phone scans it.
ShowQR ==
  /\ agent # "down"
  /\ stored # 0
  /\ paired' = stored
  /\ UNCHANGED <<vars, secret, stored, server, port, wsPort, historyVars>>

AgentCrashes ==
  /\ Crash
  /\ secret' = 0
  /\ server' = "stopped"
  /\ port' = 0
  /\ UNCHANGED <<stored, paired, wsPort, historyVars>>

\* The rest of ShellLifecycle leaves the launch alone.
OtherStep ==
  /\ ShellsStep \/ TasksStep
  /\ UNCHANGED <<launchVars, historyVars>>

MacNext ==
  \/ LaunchLoads \/ LaunchGenerates \/ SocketBinds \/ SocketFails
  \/ \E busy \in SUBSET Attempts(Preferred) : ServerBinds(busy)
  \/ PortSaved \/ ShowQR \/ AgentCrashes \/ OtherStep

MacSpec == MacInit /\ [][MacNext]_macVars

-----------------------------------------------------------------------------
(***************************************************************************)
(* Properties                                                              *)
(***************************************************************************)

\* The variables have their types.
MacTypeOK ==
  /\ TypeOK
  /\ {secret, stored, paired} \subseteq Secrets \cup {0}
  /\ server \in {"stopped", "bound", "saved", "failed"}
  /\ {port, wsPort} \subseteq Ports \cup {0}
  /\ locked \in BOOLEAN
  /\ collided \in BOOLEAN

\* A phone that has scanned the secret, in this life of the agent or in an
\* earlier one, passes the check of the server that runs now, unless the
\* keychain has refused some call.
PairedPhoneVerifies ==
  secret # 0 /\ paired # 0 => paired = secret \/ locked

\* The server is where Tailscale forwards to, unless some launch, perhaps a
\* much earlier one, found that port taken.
ServedWhereForwarded == port # 0 => port = DefaultPort \/ collided
=============================================================================
