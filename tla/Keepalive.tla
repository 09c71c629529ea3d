----------------------------- MODULE Keepalive -----------------------------
(***************************************************************************)
(* One WebSocket with both of its watchdogs: the Mac's ping loop, which    *)
(* closes a channel whose phone did not answer the last ping, and the      *)
(* phone's timer, which gives up a Mac that sent no ping since the timer's *)
(* last round.  Time is discrete.  Sleeps and timers wake at most Jitter   *)
(* late, a frame is at most Delay on its way, tasks that are ready run     *)
(* before time goes on.  Around the loop: the handshake that starts it and *)
(* the closing of the channel that should end it.  Android's client may    *)
(* replace the socket by a new one and leave it open: its pings are then   *)
(* answered on the new one.                                                *)
(***************************************************************************)
EXTENDS Naturals, Sequences

CONSTANTS
  Period,  \* 5 s, on the Mac and on the phones
  Jitter,  \* how late a sleep, a timer or the handshake may be
  Delay    \* how long a frame may take one way

ASSUME TimesAssumption ==
  /\ {Period, Jitter, Delay} \subseteq Nat
  /\ 2 * Delay < Period

VARIABLES
  link,         \* "live", or "dead": frames are lost, and nothing tells
  channel,      \* on the Mac: "open", "timedOut" by the loop, "left" by the phone
  inactive,     \* channelInactive has run
  handshake,    \* channelActive's task: "listing", "added", "done"
  joined,       \* the channel is in the broadcaster
  removing,     \* channelInactive's task is to run
  loop,         \* pingTask: "none", "sleeping", "test", "clear", "send", "ended"
  cancelled,    \* pingTask is cancelled
  macPong,      \* WebSocketHandler.pongReceived
  macAge,       \* time since the loop went to sleep or woke, or the handshake began
  pings, pongs, \* frames on their way, as the time each has taken so far
  kind,         \* of phone: "ios", "android"
  phone,        \* "opening", "up", "alarmed", "replaced", "gone"
  phonePong,    \* PingPong.pongReceived
  phoneAge,     \* time since the timer was due, or the upgrade was answered
  quiet,        \* history: time since the phone last saw a ping, or came up
  silent,       \* history: time since the two lost touch, or the loop began
  overtaken     \* history: the channel was removed before it was added

macVars == <<channel, inactive, handshake, joined, removing>>
loopVars == <<loop, cancelled, macPong, macAge>>
phoneVars == <<kind, phone, phonePong, phoneAge, quiet>>
vars == <<link, macVars, loopVars, pings, pongs, phoneVars, silent, overtaken>>

\* Nothing is watched for longer than this (bound of the model).
Horizon == 3 * (Period + Jitter)

Init ==
  /\ link = "live"
  /\ channel = "open" /\ inactive = FALSE
  /\ handshake = "listing" /\ joined = FALSE /\ removing = FALSE
  /\ loop = "none" /\ cancelled = FALSE /\ macPong = TRUE /\ macAge = 0
  /\ pings = <<>> /\ pongs = <<>>
  /\ kind \in {"ios", "android"}
  /\ phone = "opening" /\ phonePong = TRUE /\ phoneAge = 0 /\ quiet = 0
  /\ silent = 0 /\ overtaken = FALSE

Connected == link = "live" /\ channel = "open"

\* What one says the other answers.
InTouch == Connected /\ phone # "replaced"

\* silent, when something happens that ends this.
Silent == IF InTouch THEN 0 ELSE silent

\* A frame put on the wire: lost if there is nobody to get it.
Sent(frames) == IF Connected THEN Append(frames, 0) ELSE frames

-----------------------------------------------------------------------------
(***************************************************************************)
(* The Mac: WebSocketHandler and its channel in SessionBroadcaster.        *)
(***************************************************************************)

\* The list is sent, and broadcaster.add runs.
AddChannel ==
  /\ handshake = "listing"
  /\ handshake' = "added"
  /\ joined' = TRUE
  /\ UNCHANGED <<link, channel, inactive, removing, loopVars, pings, pongs, phoneVars,
                 silent, overtaken>>

\* startPingLoop, whatever has become of the channel.
StartLoop ==
  /\ handshake = "added"
  /\ handshake' = "done"
  /\ loop' = "sleeping" /\ macAge' = 0
  /\ silent' = 0
  /\ UNCHANGED <<link, channel, inactive, joined, removing, cancelled, macPong,
                 pings, pongs, phoneVars, overtaken>>

\* The sleep is over, or is cut short by a cancellation, which `try?' hides.
Wake ==
  /\ loop = "sleeping"
  /\ macAge >= Period \/ cancelled
  /\ loop' = "test" /\ macAge' = 0
  /\ UNCHANGED <<link, macVars, cancelled, macPong, pings, pongs, phoneVars, silent,
                 overtaken>>

AfterSendFirst(step) ==
  CASE step = "test" -> "send" [] step = "send" -> "clear"
    [] step = "clear" -> IF cancelled THEN "ended" ELSE "sleeping"

\* The statements of the loop in their order.
After(step) ==
  CASE step = "test" -> "clear" [] step = "clear" -> "send"
    [] step = "send" -> IF cancelled THEN "ended" ELSE "sleeping"

Test ==
  /\ loop = "test"
  /\ \/ /\ macPong
        /\ loop' = After("test")
        /\ UNCHANGED channel
     \/ /\ ~macPong
        /\ loop' = "ended"
        /\ channel' = IF channel = "open" THEN "timedOut" ELSE channel
  /\ silent' = IF macPong THEN silent ELSE Silent
  /\ UNCHANGED <<link, inactive, handshake, joined, removing, cancelled, macPong, macAge,
                 pings, pongs, phoneVars, overtaken>>

ClearedNot == macPong

Cleared == FALSE

Clear ==
  /\ loop = "clear"
  /\ macPong' = Cleared
  /\ loop' = After("clear")
  /\ UNCHANGED <<link, macVars, cancelled, macAge, pings, pongs, phoneVars, silent, overtaken>>

Send ==
  /\ loop = "send"
  /\ pings' = Sent(pings)
  /\ loop' = After("send")
  /\ UNCHANGED <<link, macVars, cancelled, macPong, macAge, pongs, phoneVars, silent, overtaken>>

\* The event loop reads a pong, between any two statements of the ping loop.
PongArrives ==
  /\ pongs # <<>> /\ Connected
  /\ pongs' = Tail(pongs)
  /\ macPong' = TRUE
  /\ UNCHANGED <<link, macVars, loop, cancelled, macAge, pings, phoneVars, silent,
                 overtaken>>

CancelsAnyway == TRUE

\* `pingTask?.cancel()': a loop that is not there yet is not cancelled.
Cancels == loop # "none"

\* The loop that there is by now is cancelled; a task will remove the channel.
ChannelInactive ==
  /\ channel # "open" /\ ~inactive
  /\ inactive' = TRUE
  /\ cancelled' = Cancels
  /\ removing' = TRUE
  /\ UNCHANGED <<link, channel, handshake, joined, loop, macPong, macAge, pings, pongs,
                 phoneVars, silent, overtaken>>

RemovedNot == joined

Removed == FALSE

RemoveChannel ==
  /\ removing
  /\ removing' = FALSE
  /\ joined' = Removed
  /\ overtaken' = (handshake = "listing")
  /\ UNCHANGED <<link, channel, inactive, handshake, loopVars, pings, pongs, phoneVars,
                 silent>>

-----------------------------------------------------------------------------
(***************************************************************************)
(* The phone: WSClient and PingPong, of either app.                        *)
(***************************************************************************)

\* The upgrade's answer is there: a new PingPong starts.
Ready ==
  /\ phone = "opening"
  /\ phone' = "up" /\ phoneAge' = 0
  /\ UNCHANGED <<link, macVars, loopVars, pings, pongs, kind, phonePong, quiet, silent,
                 overtaken>>

ReceivedIgnored == phonePong

\* didReceivePong
Received == TRUE

\* WSClient.send, on the socket it has by now.
Answered == IF phone = "replaced" THEN pongs ELSE Sent(pongs)

\* A ping marks the timer and is answered.
PingArrives ==
  /\ pings # <<>> /\ link = "live" /\ phone \in {"up", "alarmed", "replaced"}
  /\ pings' = Tail(pings)
  /\ phonePong' = Received
  /\ quiet' = 0
  /\ pongs' = Answered
  /\ UNCHANGED <<link, macVars, loopVars, kind, phone, phoneAge, silent, overtaken>>

\* The timer fires.  On iOS the next time is a period after this one was due;
\* Android's coroutine sleeps anew, and sends a pong that nobody asked for.
PhoneTick ==
  /\ phone = "up" /\ phoneAge >= Period
  /\ phoneAge' = IF kind = "ios" THEN phoneAge - Period ELSE 0
  /\ \/ /\ phonePong
        /\ phonePong' = FALSE
        /\ pongs' = IF kind = "android" THEN Sent(pongs) ELSE pongs
        /\ UNCHANGED phone
     \/ /\ ~phonePong
        /\ phone' = "alarmed"
        /\ UNCHANGED <<phonePong, pongs>>
  /\ UNCHANGED <<link, macVars, loopVars, pings, kind, quiet, silent, overtaken>>

\* Android's connect(), after an alarm or another socket's failure or for a
\* user: `socket' is another one from now on, and this one stays open.
Replace ==
  /\ kind = "android" /\ phone \in {"opening", "up", "alarmed"}
  /\ phone' = "replaced"
  /\ silent' = Silent
  /\ UNCHANGED <<link, macVars, loopVars, pings, pongs, kind, phonePong, phoneAge, quiet,
                 overtaken>>

\* The phone closes the connection: iOS's connect() after an alarm, a
\* disconnect, the app's end.
PhoneLeaves ==
  /\ Connected /\ phone # "gone"
  /\ channel' = "left" /\ phone' = "gone"
  /\ pings' = <<>> /\ pongs' = <<>>
  /\ silent' = Silent
  /\ UNCHANGED <<link, inactive, handshake, joined, removing, loopVars, kind, phonePong,
                 phoneAge, quiet, overtaken>>

\* Either side loses the other without a word.
Vanish ==
  /\ Connected /\ phone # "opening"
  /\ link' = "dead"
  /\ pings' = <<>> /\ pongs' = <<>>
  /\ silent' = Silent
  /\ UNCHANGED <<macVars, loopVars, phoneVars, overtaken>>

-----------------------------------------------------------------------------
Later(age) == IF age < Horizon THEN age + 1 ELSE age
LaterAll(frames) == [n \in 1 .. Len(frames) |-> frames[n] + 1]

\* What must not wait any longer.
Urgent ==
  \/ loop \in {"test", "clear", "send"}
  \/ loop = "sleeping" /\ (cancelled \/ macAge >= Period + Jitter)
  \/ handshake # "done" /\ macAge >= Jitter
  \/ channel # "open" /\ ~inactive
  \/ removing
  \/ phone = "opening" /\ phoneAge >= Delay
  \/ phone = "up" /\ phoneAge >= Period + Jitter
  \/ \E frames \in {pings, pongs} : frames # <<>> /\ Head(frames) >= Delay

Tick ==
  /\ ~Urgent
  /\ macAge' = Later(macAge) /\ phoneAge' = Later(phoneAge)
  /\ pings' = LaterAll(pings) /\ pongs' = LaterAll(pongs)
  /\ quiet' = Later(quiet) /\ silent' = Later(silent)
  /\ UNCHANGED <<link, macVars, loop, cancelled, macPong, kind, phone, phonePong,
                 overtaken>>

Next ==
  \/ AddChannel \/ StartLoop \/ Wake \/ Test \/ Clear \/ Send
  \/ PongArrives \/ ChannelInactive \/ RemoveChannel
  \/ Ready \/ PingArrives \/ PhoneTick \/ Replace \/ PhoneLeaves \/ Vanish
  \/ Tick

Spec == Init /\ [][Next]_vars

-----------------------------------------------------------------------------
(***************************************************************************)
(* Properties                                                              *)
(***************************************************************************)

\* The variables have their types, no frame is late, and whoever was cancelled
\* had begun.
TypeOK ==
  /\ link \in {"live", "dead"}
  /\ channel \in {"open", "timedOut", "left"}
  /\ handshake \in {"listing", "added", "done"}
  /\ {inactive, joined, removing, cancelled, macPong, phonePong, overtaken} \subseteq BOOLEAN
  /\ loop \in {"none", "sleeping", "test", "clear", "send", "ended"}
  /\ {macAge, phoneAge, quiet, silent} \subseteq 0 .. Horizon
  /\ pings \in Seq(0 .. Delay) /\ pongs \in Seq(0 .. Delay)
  /\ kind \in {"ios", "android"}
  /\ phone \in {"opening", "up", "alarmed", "replaced", "gone"}
  /\ cancelled => loop # "none"

\* The ping loop closes no channel whose phone can still be reached and answers
\* on it, although the pong is noted by another thread than the one that clears
\* it.  Only a socket that Android's client has replaced is closed while its
\* link is live.
LivePhoneIsKept ==
  channel = "timedOut" => link = "dead" \/ (kind = "android" /\ phone = "replaced")

\* When the phone gives up, no ping has come for nearly a period.
AlarmMeansQuiet ==
  [][phone # "alarmed" /\ phone' = "alarmed" => quiet + Jitter >= Period]_vars

\* Whoever goes without a word, and a socket that was replaced without being
\* closed, is let go within two rounds: by the Mac, whose loop then ends even if
\* it began on a closed channel, and by the phone.
DeadLinkIsLetGo ==
  silent > 2 * (Period + Jitter) + Delay /\ ~InTouch =>
    /\ channel # "open"
    /\ loop \in {"none", "ended"}
    /\ phone # "up"

\* A closed channel is not in the broadcaster for good, unless the task that
\* removes it overtook the one that adds it.
ClosedChannelLeaves ==
  inactive /\ ~removing /\ handshake # "listing" => ~joined \/ overtaken

\* "5s keepalive, detect stale connection" (design spec, of both phones): a
\* phone gives up only a Mac that is gone.  It does not hold: both sides count
\* the same five seconds, so jitter alone makes a ping miss a round.
OnlyStaleIsGivenUp == phone = "alarmed" => link = "dead"
=============================================================================
