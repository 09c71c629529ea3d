---------------------------- MODULE SessionSync ----------------------------
(***************************************************************************)
(* How a phone's list of terminal sessions follows the Mac's.  The         *)
(* registry actor creates and removes sessions; each change calls a        *)
(* callback that starts a task, and the task broadcasts an announcement to *)
(* the channels the broadcaster actor knows.  A new WebSocket channel      *)
(* starts a task of its own that sends the whole list and only then joins  *)
(* the broadcaster.  Every await in that code is a point where the other   *)
(* tasks run, so each stretch between two awaits is an action here, and    *)
(* tasks start and resume in any order: neither Task { } nor               *)
(* Task { @MainActor in } promises one before Swift 6.  A definition just  *)
(* before one of a similar name (WithNone before With) is a mistake the    *)
(* code could make; README.md names the property that notices it.          *)
(***************************************************************************)
EXTENDS Naturals, Sequences, SequencesExt

CONSTANTS
  Sessions,  \* identifiers the registry may give out, each one once
  Channels,  \* WebSocket channels that may be opened, each one once
  Clients,   \* phones
  Android,   \* the phones that run the Android app; the rest run the iOS app
  Owner,     \* the phone that opens each channel
  NoChannel  \* a phone that has not connected yet

ASSUME ClientsAssumption ==
  /\ Android \subseteq Clients
  /\ Owner \in [Channels -> Clients]
  /\ NoChannel \notin Channels

Kinds == {"opened", "closed"}

VARIABLES
  registry,    \* keys of SessionRegistry.sessions
  used,        \* the session identifiers given out so far
  wired,       \* the registry callbacks applicationDidFinishLaunching has set
  task,        \* announcement tasks: [kind, session] -> "none", "pending", "sent"
  channels,    \* SessionBroadcaster.channels
  conn,        \* a channel: "idle" before it opens, "open", "closed"
  hello,       \* channelActive's task: "none", "pending", "listed", "added"
  snapshot,    \* channelActive's local `sessions': the list it has sent
  bye,         \* channelInactive's task: "none", "pending", "done"
  current,     \* the channel each phone listens to
  net,         \* messages sent on a channel that the phone has not applied
  store,       \* each phone's list of sessions, and those it shows as running
  disordered,  \* history: the phone applied messages in another order
  raced        \* history: sessions whose news a channel missed or got reversed

agentVars == <<registry, used, wired, task>>
channelVars == <<channels, conn, hello, snapshot, bye>>
clientVars == <<current, store, disordered>>
vars == <<agentVars, channelVars, clientVars, net, raced>>

\* Frames on the wire: Mac's WSMessageType is encoded by its raw value, the
\* key strategy of WSMessage.json() renames keys and not values.
Message ==
  [type : {"sessions", "sessionOpened", "sessionClosed"}, ids : SUBSET Sessions]

ListMessage(ids) == [type |-> "sessions", ids |-> ids]

AnnouncementByKind(kind, s) == [type |-> kind, ids |-> {s}]

Announcement(kind, s) ==
  [type |-> IF kind = "opened" THEN "sessionOpened" ELSE "sessionClosed",
   ids |-> {s}]

Init ==
  /\ registry = {}
  /\ used = {}
  /\ wired = {}
  /\ task = [t \in Kinds \X Sessions |-> "none"]
  /\ channels = {}
  /\ conn = [ch \in Channels |-> "idle"]
  /\ hello = [ch \in Channels |-> "none"]
  /\ snapshot = [ch \in Channels |-> {}]
  /\ bye = [ch \in Channels |-> "none"]
  /\ current = [c \in Clients |-> NoChannel]
  /\ net = [ch \in Channels |-> << >>]
  /\ store = [c \in Clients |-> [list |-> {}, active |-> {}]]
  /\ disordered = [c \in Clients |-> FALSE]
  /\ raced = [ch \in Channels |-> {}]

-----------------------------------------------------------------------------
(***************************************************************************)
(* The agent: AppDelegate, SessionRegistry, SessionBroadcaster.            *)
(***************************************************************************)

\* One of the two awaits of the launch task that wires the registry; the
\* added callback is set first.
SetCallback(kind) ==
  /\ kind \notin wired
  /\ kind = "closed" => "opened" \in wired
  /\ wired' = wired \cup {kind}
  /\ UNCHANGED <<registry, used, task, channelVars, clientVars, net, raced>>

\* onSessionAdded?(...) and onSessionRemoved?(...): a callback that is set
\* starts a task, one that is not set yet is skipped.
Notify(kind, s) ==
  task' = [task EXCEPT ![<<kind, s>>] = IF kind \in wired THEN "pending" ELSE @]

Register(s) ==
  /\ s \notin used
  /\ used' = used \cup {s}
  /\ registry' = registry \cup {s}
  /\ Notify("opened", s)
  /\ UNCHANGED <<wired, channelVars, clientVars, net, raced>>

\* The session's reader saw the end of its pipe.
RemoveSession(s) ==
  /\ s \in registry
  /\ registry' = registry \ {s}
  /\ Notify("closed", s)
  /\ UNCHANGED <<used, wired, channelVars, clientVars, net, raced>>

\* The channels a phone hears: its last one, and on Android, where connect()
\* does not close the socket it replaces, the earlier ones too.
Listening(ch) ==
  conn[ch] = "open" /\ (Owner[ch] \in Android \/ current[Owner[ch]] = ch)

\* The queue of a channel after a write on it.
Sent(ch, m) == IF Listening(ch) THEN Append(net[ch], m) ELSE net[ch]

\* A channel between its list and its entry into the broadcaster, whose list
\* does not show the change that is being announced.
Misses(ch, kind, s) ==
  /\ hello[ch] = "listed"
  /\ (kind = "opened") # (s \in snapshot[ch])

\* The closing of a session was announced before its opening.
Overtaken(ch, kind, s) ==
  /\ ch \in channels
  /\ kind = "opened"
  /\ task[<<"closed", s>>] = "sent"

RecipientsOpen == {ch \in Channels : conn[ch] = "open"}

\* The channels broadcast(message:) writes to.
Recipients == channels

Broadcast(kind, s) ==
  /\ task[<<kind, s>>] = "pending"
  /\ task' = [task EXCEPT ![<<kind, s>>] = "sent"]
  /\ net' = [ch \in Channels |->
               IF ch \in Recipients THEN Sent(ch, Announcement(kind, s))
                                    ELSE net[ch]]
  /\ raced' = [ch \in Channels |->
                 IF Misses(ch, kind, s) \/ Overtaken(ch, kind, s)
                   THEN raced[ch] \cup {s} ELSE raced[ch]]
  /\ UNCHANGED <<registry, used, wired, channelVars, clientVars>>

-----------------------------------------------------------------------------
(***************************************************************************)
(* A channel: WebSocketHandler.                                            *)
(***************************************************************************)

\* A phone connects and channelActive starts its task.  An iOS phone cancels
\* the channel it had: it keeps what it has received of it, a prefix still to
\* be applied, and the Mac may notice much later that the channel is dead.
Connect(ch) ==
  LET c == Owner[ch]
  IN /\ conn[ch] = "idle"
     /\ conn' = [conn EXCEPT ![ch] = "open"]
     /\ hello' = [hello EXCEPT ![ch] = "pending"]
     /\ current' = [current EXCEPT ![c] = ch]
     /\ \/ /\ current[c] = NoChannel \/ c \in Android
           /\ UNCHANGED net
        \/ /\ current[c] # NoChannel /\ c \notin Android
           /\ \E q \in Prefixes(net[current[c]]) :
                net' = [net EXCEPT ![current[c]] = q]
     /\ UNCHANGED <<agentVars, channels, snapshot, bye, store, disordered, raced>>

\* channelActive's task up to its second await: the list is read from the
\* registry and sent.
SendList(ch) ==
  /\ hello[ch] = "pending"
  /\ hello' = [hello EXCEPT ![ch] = "listed"]
  /\ snapshot' = [snapshot EXCEPT ![ch] = registry]
  /\ net' = [net EXCEPT ![ch] = Sent(ch, ListMessage(registry))]
  /\ UNCHANGED <<agentVars, channels, conn, bye, clientVars, raced>>

\* The task finds its handler gone: `guard let self else { return }'.
HandlerGone(ch) ==
  /\ hello[ch] = "pending"
  /\ conn[ch] = "closed"
  /\ hello' = [hello EXCEPT ![ch] = "none"]
  /\ UNCHANGED <<agentVars, channels, conn, snapshot, bye, clientVars, net, raced>>

WithNone(ch) == channels

With(ch) == channels \cup {ch}

\* await broadcaster.add(channel:), after which the task's list is dead.
AddChannel(ch) ==
  /\ hello[ch] = "listed"
  /\ hello' = [hello EXCEPT ![ch] = "added"]
  /\ snapshot' = [snapshot EXCEPT ![ch] = {}]
  /\ channels' = With(ch)
  /\ UNCHANGED <<agentVars, conn, bye, clientVars, net, raced>>

ChannelInactive(ch) ==
  /\ conn[ch] = "open"
  /\ conn' = [conn EXCEPT ![ch] = "closed"]
  /\ bye' = [bye EXCEPT ![ch] = "pending"]
  /\ \E q \in Prefixes(net[ch]) : net' = [net EXCEPT ![ch] = q]
  /\ UNCHANGED <<agentVars, channels, hello, snapshot, clientVars, raced>>

WithoutPhone(ch) == {d \in channels : Owner[d] # Owner[ch]}

Without(ch) == channels \ {ch}

\* await broadcaster.remove(channel:)
RemoveChannel(ch) ==
  /\ bye[ch] = "pending"
  /\ bye' = [bye EXCEPT ![ch] = "done"]
  /\ channels' = Without(ch)
  /\ UNCHANGED <<agentVars, conn, hello, snapshot, clientVars, net, raced>>

-----------------------------------------------------------------------------
(***************************************************************************)
(* A phone: SessionStore.swift or SessionViewModel.kt.                     *)
(***************************************************************************)

IOSApply(st, m) ==
  CASE m.type = "sessions" ->
         [list |-> m.ids, active |-> st.active \cup m.ids]
    [] m.type = "sessionOpened" ->
         [list |-> st.list \cup m.ids, active |-> st.active \cup m.ids]
    [] m.type = "sessionClosed" ->
         [st EXCEPT !.active = @ \ m.ids]
    [] OTHER -> st

AndroidApply(st, m) ==
  CASE m.type = "sessions" ->
         [list |-> m.ids, active |-> m.ids]
    [] m.type = "session_opened" /\ ~(m.ids \subseteq st.list) ->
         [list |-> st.list \cup m.ids, active |-> st.active \cup m.ids]
    [] m.type = "session_closed" ->
         [st EXCEPT !.active = @ \ m.ids]
    [] OTHER -> st

AppliedNoClose(c, m) ==
  IF m.type = "sessionClosed" THEN store[c] ELSE IOSApply(store[c], m)

Applied(c, m) ==
  IF c \in Android THEN AndroidApply(store[c], m) ELSE IOSApply(store[c], m)

\* Each received message is applied by a task of its own, so an iOS phone may
\* apply a message before an earlier one.  Android's tasks run on its main
\* thread in the order they were launched.
Apply(ch, i) ==
  LET c == Owner[ch]
  IN /\ i \in DOMAIN net[ch]
     /\ c \in Android => i = 1
     /\ store' = [store EXCEPT ![c] = Applied(c, net[ch][i])]
     /\ net' = [net EXCEPT ![ch] = RemoveAt(@, i)]
     /\ disordered' = [disordered EXCEPT ![c] = @ \/ i # 1 \/ ch # current[c]]
     /\ UNCHANGED <<agentVars, channelVars, current, raced>>

-----------------------------------------------------------------------------
ApplyAny(ch) == \E i \in DOMAIN net[ch] : Apply(ch, i)

Next ==
  \/ \E kind \in Kinds : SetCallback(kind)
  \/ \E s \in Sessions : Register(s) \/ RemoveSession(s)
  \/ \E kind \in Kinds, s \in Sessions : Broadcast(kind, s)
  \/ \E ch \in Channels :
       \/ Connect(ch) \/ SendList(ch) \/ HandlerGone(ch) \/ AddChannel(ch)
       \/ ChannelInactive(ch) \/ RemoveChannel(ch) \/ ApplyAny(ch)

Spec == Init /\ [][Next]_vars

\* A task that can run is run: the Swift runtime resumes every task whose
\* await has completed, and the phone's run loop drains its queue.  Nothing
\* obliges a shell, a phone or a channel to open or close.
Fairness ==
  /\ \A kind \in Kinds : WF_vars(SetCallback(kind))
  /\ \A kind \in Kinds, s \in Sessions : WF_vars(Broadcast(kind, s))
  /\ \A ch \in Channels :
       /\ WF_vars(SendList(ch) \/ HandlerGone(ch))
       /\ WF_vars(AddChannel(ch))
       /\ WF_vars(RemoveChannel(ch))
       /\ WF_vars(ApplyAny(ch))

FairSpec == Spec /\ Fairness

-----------------------------------------------------------------------------
(***************************************************************************)
(* Properties.                                                             *)
(***************************************************************************)

\* Every variable keeps its type, and the registry's keys are identifiers it
\* has given out.
TypeOK ==
  /\ registry \subseteq used
  /\ used \subseteq Sessions
  /\ wired \subseteq Kinds
  /\ task \in [Kinds \X Sessions -> {"none", "pending", "sent"}]
  /\ channels \subseteq Channels
  /\ conn \in [Channels -> {"idle", "open", "closed"}]
  /\ hello \in [Channels -> {"none", "pending", "listed", "added"}]
  /\ snapshot \in [Channels -> SUBSET Sessions]
  /\ bye \in [Channels -> {"none", "pending", "done"}]
  /\ current \in [Clients -> Channels \cup {NoChannel}]
  /\ net \in [Channels -> Seq(Message)]
  /\ store \in [Clients -> [list : SUBSET Sessions, active : SUBSET Sessions]]
  /\ disordered \in [Clients -> BOOLEAN]
  /\ raced \in [Channels -> SUBSET Sessions]

\* What a phone shows as running.
Shown(c) == store[c].list \cap store[c].active

IOS == Clients \ Android

Connected(c) == current[c] # NoChannel /\ conn[current[c]] = "open"

\* Phone c is connected, and every announcement and message has arrived.
Settled(c) ==
  /\ Connected(c)
  /\ hello[current[c]] = "added"
  /\ \A ch \in Channels : Owner[ch] = c => net[ch] = << >>
  /\ \A t \in Kinds \X Sessions : task[t] # "pending"

\* A change that happened before its callback was set: no task announces it.
Unannounced(kind, s) == s \in used /\ task[<<kind, s>>] = "none"

\* Once everything sent has been applied, an iOS phone shows every session of
\* the registry (design spec: "Open any terminal on your Mac -> it appears on
\* your phone").  The excuses are the windows the code leaves open, each one
\* exact: the announcement fell between the list and the entry into the
\* broadcaster, or before the callbacks were set, or the phone's own tasks
\* ran out of order.
NoSessionMissed ==
  \A c \in IOS :
    LET ch == current[c]
    IN Settled(c) /\ ~disordered[c] =>
         \A s \in registry :
           s \in Shown(c) \/ s \in raced[ch] \/ Unannounced("opened", s)

\* And it shows no session that is gone as running ("Session closed mid-view:
\* tab shows 'Session ended' banner"), with the same excuses and one more: the
\* task announcing the closing ran before the task announcing the opening.
NoGhostSession ==
  \A c \in IOS :
    LET ch == current[c]
    IN Settled(c) /\ ~disordered[c] =>
         \A s \in Shown(c) :
           s \in registry \/ s \in raced[ch] \/ Unannounced("closed", s)

\* On the wire the list comes first: `sessions' replaces the phone's whole
\* list, so one sent after an announcement would undo it, and an announcement
\* sent before it would be undone.
ListOnlyFirst(q) == \A i \in DOMAIN q : q[i].type = "sessions" => i = 1

ListComesFirst ==
  \A ch \in Channels :
    /\ ListOnlyFirst(net[ch])
    /\ hello[ch] \in {"none", "pending"} => net[ch] = << >>

\* A phone that stays connected gets every session that stays open (iOS),
\* unless one of the windows above ate its announcement.
Excused(c, s) ==
  \/ disordered[c]
  \/ Unannounced("opened", s)
  \/ current[c] # NoChannel /\ s \in raced[current[c]]

EventuallyShown ==
  \A c \in IOS, s \in Sessions :
    Connected(c) /\ s \in registry ~>
      s \in Shown(c) \/ s \notin registry \/ ~Connected(c) \/ Excused(c, s)

-----------------------------------------------------------------------------
(***************************************************************************)
(* What the documentation says of the program and the code does not do.    *)
(***************************************************************************)

\* "New shell registered with the agent" (messages.json) is announced to every
\* phone: a settled phone shows every session its agent announced.  The gap
\* between the list and the broadcaster is no excuse here, and so this does not
\* hold; raced names what falls into that gap.
EveryAnnouncementArrives ==
  \A c \in IOS :
    Settled(c) /\ ~disordered[c] =>
      \A s \in registry : s \in Shown(c) \/ Unannounced("opened", s)

\* The same for an Android phone, with the excuses of NoSessionMissed.
AndroidFollows ==
  \A c \in Android :
    Settled(c) /\ ~disordered[c] =>
      \A s \in registry :
        s \in Shown(c) \/ s \in raced[current[c]] \/ Unannounced("opened", s)

\* The broadcaster holds connected channels only ("Fans out session output to
\* all connected WebSocket clients", SessionBroadcaster.swift): a channel whose
\* closing has been handled is gone from it.  It does not hold: the removal may
\* overtake the addition (see Keepalive).
ClosedChannelLeaves ==
  \A ch \in Channels : bye[ch] = "done" => ch \notin channels
=============================================================================
