--------------------------- MODULE KeepaliveProofs ---------------------------
(***************************************************************************)
(* Proofs about Keepalive, for every period, jitter and delay of which a   *)
(* frame's way to the phone and back takes less than the period.           *)
(***************************************************************************)
EXTENDS Keepalive, TLAPS

USE TimesAssumption

\* The longest round of either watchdog.
Round == Period + Jitter

Frames == Seq(0 .. Delay)

-----------------------------------------------------------------------------
(***************************************************************************)
(* Frames on their way.  The one sent first has been on its way longest,   *)
(* so that none is late when the first is not.                             *)
(***************************************************************************)

Sorted(q) == \A m, n \in 1 .. Len(q) : m <= n => q[n] <= q[m]

\* A frame is appended, or none; those before it stay where they are.
LEMMA SentFrames ==
  ASSUME NEW q \in Frames, Sorted(q)
  PROVE  /\ Sent(q) \in Frames
         /\ Sorted(Sent(q))
         /\ Len(Sent(q)) >= Len(q)
         /\ \A n \in 1 .. Len(q) : Sent(q)[n] = q[n]
         /\ Connected => 1 .. Len(q) + 1 = 1 .. Len(Sent(q)) /\ Sent(q)[Len(q) + 1] = 0
         /\ ~Connected => Sent(q) = q
<1>1. CASE Connected
  <2>1. /\ Append(q, 0) \in Frames
        /\ Len(Append(q, 0)) = Len(q) + 1
        /\ \A n \in 1 .. Len(q) : Append(q, 0)[n] = q[n]
        /\ Append(q, 0)[Len(q) + 1] = 0
    BY DEF Frames
  <2>2. Sorted(Append(q, 0))
    <3> SUFFICES ASSUME NEW m \in 1 .. Len(q) + 1, NEW n \in 1 .. Len(q) + 1, m <= n
                 PROVE  Append(q, 0)[n] <= Append(q, 0)[m]
      BY <2>1 DEF Sorted
    <3>1. CASE n = Len(q) + 1
      BY <3>1, <2>1 DEF Frames
    <3>2. CASE n # Len(q) + 1
      BY <3>2, <2>1 DEF Frames, Sorted
    <3> QED BY <3>1, <3>2
  <2> QED BY <1>1, <2>1, <2>2 DEF Sent, Frames
<1>2. CASE ~Connected
  BY <1>2 DEF Sent
<1> QED BY <1>1, <1>2

\* The first frame arrives.
LEMMA TailFrames ==
  ASSUME NEW q \in Frames, Sorted(q), q # <<>>
  PROVE  /\ Tail(q) \in Frames
         /\ Sorted(Tail(q))
         /\ Len(Tail(q)) = Len(q) - 1
         /\ \A n \in 1 .. Len(q) - 1 : Tail(q)[n] = q[n + 1]
<1>1. /\ Tail(q) \in Frames
      /\ Len(Tail(q)) = Len(q) - 1
      /\ \A n \in 1 .. Len(q) - 1 : Tail(q)[n] = q[n + 1]
  BY DEF Frames
<1>2. Sorted(Tail(q))
  <2> SUFFICES ASSUME NEW m \in 1 .. Len(q) - 1, NEW n \in 1 .. Len(q) - 1, m <= n
               PROVE  Tail(q)[n] <= Tail(q)[m]
    BY <1>1 DEF Sorted
  <2>1. m + 1 \in 1 .. Len(q) /\ n + 1 \in 1 .. Len(q) /\ m + 1 <= n + 1
    BY DEF Frames
  <2> QED BY <1>1, <2>1 DEF Sorted
<1> QED BY <1>1, <1>2

\* Time goes on for frames of which the first is not late.
LEMMA LaterFrames ==
  ASSUME NEW q \in Frames, Sorted(q), ~(q # <<>> /\ Head(q) >= Delay)
  PROVE  /\ LaterAll(q) \in Frames
         /\ Sorted(LaterAll(q))
         /\ Len(LaterAll(q)) = Len(q)
         /\ \A n \in 1 .. Len(q) : LaterAll(q)[n] = q[n] + 1
<1>1. /\ Len(LaterAll(q)) = Len(q)
      /\ DOMAIN LaterAll(q) = 1 .. Len(q)
      /\ \A n \in 1 .. Len(q) : LaterAll(q)[n] = q[n] + 1
  BY DEF LaterAll, Frames
<1>2. ASSUME NEW n \in 1 .. Len(q)
      PROVE  q[n] \in 0 .. Delay /\ q[n] < Delay
  <2>1. q # <<>> /\ 1 \in 1 .. Len(q) /\ 1 <= n /\ Head(q) = q[1]
    BY DEF Frames
  <2>2. q[n] <= q[1] /\ q[n] \in 0 .. Delay /\ q[1] \in 0 .. Delay
    BY <2>1 DEF Sorted, Frames
  <2> QED BY <2>1, <2>2
<1>3. LaterAll(q) \in Frames
  <2>1. \A n \in 1 .. Len(q) : q[n] + 1 \in 0 .. Delay
    BY <1>2
  <2>2. Len(q) \in Nat
    BY DEF Frames
  <2> QED BY <2>1, <2>2 DEF LaterAll, Frames
<1>4. Sorted(LaterAll(q))
  <2> SUFFICES ASSUME NEW m \in 1 .. Len(q), NEW n \in 1 .. Len(q), m <= n
               PROVE  LaterAll(q)[n] <= LaterAll(q)[m]
    BY <1>1 DEF Sorted
  <2> QED BY <1>1, <1>2 DEF Sorted
<1> QED BY <1>1, <1>3, <1>4

-----------------------------------------------------------------------------
(***************************************************************************)
(* Types, with the frames in the order they were sent.                     *)
(***************************************************************************)

TypeInv == TypeOK /\ Sorted(pings) /\ Sorted(pongs)

\* An age goes on until nobody looks any more.
LEMMA LaterAge ==
  ASSUME NEW age \in 0 .. Horizon
  PROVE  /\ Later(age) \in 0 .. Horizon
         /\ age <= Later(age) /\ Later(age) <= age + 1
         /\ age <= 2 * Round => Later(age) = age + 1
  BY DEF Later, Horizon, Round

LEMMA TypeStep ==
  ASSUME TypeInv, [Next]_vars
  PROVE  TypeInv'
<1> USE DEF TypeInv, TypeOK
<1>0. Horizon \in Nat /\ 0 \in 0 .. Horizon
  BY DEF Horizon
<1>1. CASE AddChannel
  BY <1>1 DEF AddChannel, loopVars, phoneVars
<1>2. CASE StartLoop
  BY <1>0, <1>2 DEF StartLoop, phoneVars
<1>3. CASE Wake
  BY <1>0, <1>3 DEF Wake, macVars, phoneVars
<1>4. CASE Test
  BY <1>0, <1>4 DEF Test, After, Silent, phoneVars
<1>5. CASE Clear
  BY <1>0, <1>5 DEF Clear, Cleared, After, macVars, phoneVars
<1>6. CASE Send
  <2>1. pings' \in Frames /\ Sorted(pings')
    BY <1>6, SentFrames DEF Send, Frames
  <2>2. UNCHANGED <<link, macVars, cancelled, macPong, macAge, pongs, phoneVars, silent, overtaken>>
    BY <1>6 DEF Send
  <2>3. loop' \in {"sleeping", "ended"}
    BY <1>6 DEF Send, After
  <2> QED BY <2>1, <2>2, <2>3 DEF macVars, phoneVars, Frames
<1>7. CASE PongArrives
  <2>1. pongs' \in Frames /\ Sorted(pongs')
    BY <1>7, TailFrames DEF PongArrives, Frames
  <2>2. macPong' = TRUE
    BY <1>7 DEF PongArrives
  <2> QED BY <1>7, <2>1, <2>2 DEF PongArrives, macVars, phoneVars, Frames
<1>8. CASE ChannelInactive
  BY <1>8 DEF ChannelInactive, Cancels, phoneVars
<1>9. CASE RemoveChannel
  BY <1>9 DEF RemoveChannel, Removed, loopVars, phoneVars
<1>10. CASE Ready
  BY <1>0, <1>10 DEF Ready, macVars, loopVars
<1>11. CASE PingArrives
  <2>1. pings' \in Frames /\ Sorted(pings')
    BY <1>11, TailFrames DEF PingArrives, Frames
  <2>2. pongs' \in Frames /\ Sorted(pongs')
    BY <1>11, SentFrames DEF PingArrives, Answered, Frames
  <2> QED BY <1>0, <1>11, <2>1, <2>2 DEF PingArrives, Received, macVars, loopVars, Frames
<1>12. CASE PhoneTick
  <2>1. pongs' \in Frames /\ Sorted(pongs')
    BY <1>12, SentFrames DEF PhoneTick, Frames
  <2>2. phoneAge' \in 0 .. Horizon
    <3>1. phoneAge \in 0 .. Horizon /\ phoneAge >= Period
      BY <1>12 DEF PhoneTick
    <3>2. phoneAge - Period \in 0 .. Horizon
      BY <1>0, <3>1
    <3> QED BY <1>0, <1>12, <3>2 DEF PhoneTick
  <2>3. phonePong' \in BOOLEAN /\ phone' \in {"up", "alarmed"}
    BY <1>12 DEF PhoneTick
  <2>4. UNCHANGED <<link, macVars, loopVars, pings, kind, quiet, silent, overtaken>>
    BY <1>12 DEF PhoneTick
  <2> QED BY <2>1, <2>2, <2>3, <2>4 DEF macVars, loopVars, Frames
<1>13. CASE PhoneLeaves
  <2>1. <<>> \in Frames /\ Sorted(<<>>)
    BY DEF Frames, Sorted
  <2> QED BY <1>0, <1>13, <2>1 DEF PhoneLeaves, Silent, loopVars, Frames
<1>14. CASE Vanish
  <2>1. <<>> \in Frames /\ Sorted(<<>>)
    BY DEF Frames, Sorted
  <2> QED BY <1>0, <1>14, <2>1 DEF Vanish, Silent, macVars, loopVars, phoneVars, Frames
<1>15. CASE Tick
  <2>1. pings' \in Frames /\ Sorted(pings') /\ pongs' \in Frames /\ Sorted(pongs')
    BY <1>15, LaterFrames DEF Tick, Urgent, Frames
  <2>2. {macAge', phoneAge', quiet', silent'} \subseteq 0 .. Horizon
    BY <1>15, LaterAge DEF Tick
  <2>3. UNCHANGED <<link, macVars, loop, cancelled, macPong, kind, phone, phonePong, overtaken>>
    BY <1>15 DEF Tick
  <2> QED BY <2>1, <2>2, <2>3 DEF macVars, Frames
<1>16. CASE UNCHANGED vars
  BY <1>16 DEF vars, macVars, loopVars, phoneVars
<1>17. CASE Replace
  BY <1>0, <1>17 DEF Replace, Silent, macVars, loopVars
<1> QED
  BY <1>1, <1>2, <1>3, <1>4, <1>5, <1>6, <1>7, <1>8, <1>9, <1>10, <1>11, <1>12, <1>13,
     <1>14, <1>15, <1>16, <1>17 DEF Next

LEMMA TypeInit == Init => TypeInv
<1> SUFFICES ASSUME Init PROVE TypeInv
  OBVIOUS
<1>1. 0 \in 0 .. Horizon
  BY DEF Horizon
<1>2. <<>> \in Frames /\ Sorted(<<>>)
  BY DEF Frames, Sorted
<1> QED BY <1>1, <1>2 DEF Init, TypeInv, TypeOK, Frames

\* The types, no frame late, whatever the three durations.
THEOREM TypeCorrect == Spec => []TypeOK
<1>1. Init => TypeInv
  BY TypeInit
<1>2. TypeInv /\ [Next]_vars => TypeInv'
  BY TypeStep
<1>3. TypeInv => TypeOK
  BY DEF TypeInv
<1> QED BY <1>1, <1>2, <1>3, PTL DEF Spec

-----------------------------------------------------------------------------
(***************************************************************************)
(* The Mac keeps a phone that can be reached.  While its loop sleeps and   *)
(* has no pong, the last ping or its pong is on the way, for at least as   *)
(* long as the loop has slept; so the pong is there before the sleep ends. *)
(* Of a socket that was replaced nothing of this is claimed.               *)
(***************************************************************************)

PongIsDue ==
  loop = "sleeping" /\ ~macPong /\ InTouch =>
    \/ \E n \in 1 .. Len(pings) : macAge <= pings[n]
    \/ \E n \in 1 .. Len(pongs) : macAge <= Delay + pongs[n]

\* Where the loop is and what it knows.
LoopInv ==
  /\ handshake = "done" <=> loop # "none"
  /\ loop \in {"none", "clear"} => macPong
  /\ loop \in {"test", "clear", "send"} => macAge = 0
  /\ cancelled \/ loop = "ended" => channel # "open"
  /\ loop = "test" /\ InTouch => macPong
  /\ phone = "replaced" => kind = "android"

LiveInv == LoopInv /\ PongIsDue /\ LivePhoneIsKept

\* No sleep ends before the pong is there.
LEMMA PongInTime ==
  ASSUME TypeInv, PongIsDue, loop = "sleeping", InTouch, macAge >= Period
  PROVE  macPong
<1> SUFFICES ASSUME ~macPong PROVE FALSE
  OBVIOUS
<1>1. CASE \E n \in 1 .. Len(pings) : macAge <= pings[n]
  <2>1. PICK n \in 1 .. Len(pings) : macAge <= pings[n]
    BY <1>1
  <2>2. pings[n] \in 0 .. Delay /\ macAge \in Nat
    BY DEF TypeInv, TypeOK
  <2> QED BY <2>1, <2>2
<1>2. CASE \E n \in 1 .. Len(pongs) : macAge <= Delay + pongs[n]
  <2>1. PICK n \in 1 .. Len(pongs) : macAge <= Delay + pongs[n]
    BY <1>2
  <2>2. pongs[n] \in 0 .. Delay /\ macAge \in Nat
    BY DEF TypeInv, TypeOK
  <2> QED BY <2>1, <2>2
<1> QED BY <1>1, <1>2 DEF PongIsDue

LEMMA LoopStep ==
  ASSUME TypeInv, LiveInv, [Next]_vars
  PROVE  LoopInv'
<1> USE DEF LiveInv, LoopInv, InTouch, Connected
<1>1. CASE AddChannel
  BY <1>1 DEF AddChannel, loopVars, phoneVars
<1>2. CASE StartLoop
  BY <1>2 DEF StartLoop, phoneVars
<1>3. CASE Wake
  <2>1. InTouch => macPong
    BY <1>3, PongInTime DEF Wake
  <2> QED BY <1>3, <2>1 DEF Wake, macVars, phoneVars
<1>4. CASE Test
  BY <1>4 DEF Test, After, phoneVars
<1>5. CASE Clear
  BY <1>5 DEF Clear, After, macVars, phoneVars
<1>6. CASE Send
  BY <1>6 DEF Send, After, macVars, phoneVars
<1>7. CASE PongArrives
  BY <1>7 DEF PongArrives, macVars, phoneVars
<1>8. CASE ChannelInactive
  BY <1>8 DEF ChannelInactive, phoneVars
<1>9. CASE RemoveChannel
  BY <1>9 DEF RemoveChannel, loopVars, phoneVars
<1>10. CASE Ready \/ PingArrives \/ PhoneTick
  BY <1>10 DEF Ready, PingArrives, PhoneTick, macVars, loopVars
<1>11. CASE PhoneLeaves
  BY <1>11 DEF PhoneLeaves, loopVars
<1>12. CASE Vanish
  BY <1>12 DEF Vanish, macVars, loopVars, phoneVars
<1>13. CASE Tick
  <2>1. loop \notin {"test", "clear", "send"}
    BY <1>13 DEF Tick, Urgent
  <2> QED BY <1>13, <2>1 DEF Tick, macVars
<1>14. CASE UNCHANGED vars
  BY <1>14 DEF vars, macVars, loopVars, phoneVars
<1>15. CASE Replace
  BY <1>15 DEF Replace, macVars, loopVars
<1> QED
  BY <1>1, <1>2, <1>3, <1>4, <1>5, <1>6, <1>7, <1>8, <1>9, <1>10, <1>11, <1>12, <1>13,
     <1>14, <1>15 DEF Next

LEMMA DueStep ==
  ASSUME TypeInv, TypeInv', LiveInv, [Next]_vars
  PROVE  PongIsDue'
<1>1. CASE AddChannel \/ RemoveChannel \/ Ready
  BY <1>1 DEF AddChannel, RemoveChannel, Ready, macVars, loopVars, phoneVars, LiveInv, PongIsDue, InTouch, Connected
<1>2. CASE StartLoop
  BY <1>2 DEF StartLoop, LiveInv, LoopInv, PongIsDue
<1>3. CASE Wake \/ Test \/ Clear
  BY <1>3 DEF Wake, Test, Clear, After, PongIsDue
<1>4. CASE Send
  <2> SUFFICES ASSUME InTouch
               PROVE  PongIsDue'
    BY <1>4 DEF Send, macVars, phoneVars, PongIsDue, InTouch, Connected
  <2>1. macAge' = 0 /\ pings' = Sent(pings)
    BY <1>4 DEF Send, LiveInv, LoopInv
  <2>2. pings \in Frames /\ Len(pings) + 1 \in 1 .. Len(pings) + 1
    BY DEF TypeInv, TypeOK, Frames
  <2>3. Len(pings) + 1 \in 1 .. Len(pings') /\ pings'[Len(pings) + 1] = 0
    BY <2>1, <2>2, SentFrames DEF TypeInv, InTouch
  <2>4. macAge' <= pings'[Len(pings) + 1]
    BY <2>1, <2>3
  <2> QED BY <2>3, <2>4 DEF PongIsDue
<1>5. CASE PongArrives
  BY <1>5 DEF PongArrives, PongIsDue
<1>6. CASE ChannelInactive \/ PhoneLeaves \/ Vanish \/ Replace
  BY <1>6 DEF ChannelInactive, PhoneLeaves, Vanish, Replace, PongIsDue, InTouch, Connected
<1>7. CASE PingArrives
  <2> SUFFICES ASSUME loop = "sleeping", ~macPong, InTouch
               PROVE  PongIsDue'
    BY <1>7 DEF PingArrives, macVars, loopVars, PongIsDue, InTouch, Connected
  <2>1. /\ pings' = Tail(pings) /\ pings # <<>> /\ pongs' = Sent(pongs)
        /\ macAge' = macAge
    BY <1>7 DEF PingArrives, Answered, InTouch, loopVars
  <2>2. pings \in Frames /\ pongs \in Frames /\ Sorted(pings) /\ Sorted(pongs)
    BY DEF TypeInv, TypeOK, Frames
  <2>3. Len(pings) \in Nat /\ Len(pongs) \in Nat /\ Len(pongs') \in Nat /\ macAge \in Nat
    BY DEF TypeInv, TypeOK
  <2>4. ASSUME NEW n \in 1 .. Len(pings), macAge <= pings[n]
        PROVE  PongIsDue'
    <3>1. CASE n = 1
      <4>1. Len(pongs) + 1 \in 1 .. Len(pongs') /\ pongs'[Len(pongs) + 1] = 0
        BY <2>1, <2>2, <2>3, SentFrames DEF InTouch
      <4>2. macAge <= Delay
        BY <2>2, <2>3, <2>4 DEF Frames
      <4>3. macAge' <= Delay + pongs'[Len(pongs) + 1]
        BY <2>1, <4>1, <4>2
      <4> QED BY <4>1, <4>3 DEF PongIsDue
    <3>2. CASE n # 1
      <4>1. /\ Len(pings') = Len(pings) - 1
            /\ \A k \in 1 .. Len(pings) - 1 : pings'[k] = pings[k + 1]
        BY <2>1, <2>2, TailFrames
      <4>2. n - 1 \in 1 .. Len(pings') /\ pings'[n - 1] = pings[n]
        BY <2>3, <3>2, <4>1
      <4> QED BY <2>1, <2>4, <4>2 DEF PongIsDue
    <3> QED BY <3>1, <3>2
  <2>5. ASSUME NEW n \in 1 .. Len(pongs), macAge <= Delay + pongs[n]
        PROVE  PongIsDue'
    <3>1. n \in 1 .. Len(pongs') /\ pongs'[n] = pongs[n]
      BY <2>1, <2>2, <2>3, SentFrames
    <3> QED BY <2>1, <2>5, <3>1 DEF PongIsDue
  <2> QED BY <2>4, <2>5 DEF LiveInv, PongIsDue
<1>8. CASE PhoneTick
  <2> SUFFICES ASSUME loop = "sleeping", ~macPong, InTouch
               PROVE  PongIsDue'
    BY <1>8 DEF PhoneTick, macVars, loopVars, PongIsDue, InTouch, Connected
  <2>1. macAge' = macAge /\ pings' = pings
    BY <1>8 DEF PhoneTick, loopVars
  <2>2. pongs \in Frames /\ Sorted(pongs) /\ Len(pongs) \in Nat /\ Len(pongs') \in Nat
    BY DEF TypeInv, TypeOK, Frames
  <2>3. pongs' = pongs \/ pongs' = Sent(pongs)
    BY <1>8 DEF PhoneTick
  <2>4. \A n \in 1 .. Len(pongs) : n \in 1 .. Len(pongs') /\ pongs'[n] = pongs[n]
    BY <2>2, <2>3, SentFrames
  <2> QED BY <2>1, <2>4 DEF LiveInv, PongIsDue
<1>9. CASE Tick
  <2> SUFFICES ASSUME loop = "sleeping", ~macPong, InTouch
               PROVE  PongIsDue'
    BY <1>9 DEF Tick, macVars, PongIsDue, InTouch, Connected
  <2>1. macAge' <= macAge + 1 /\ macAge \in Nat /\ macAge' \in Nat
    BY <1>9, LaterAge DEF Tick, TypeInv, TypeOK
  <2>2. pings \in Frames /\ pongs \in Frames /\ Sorted(pings) /\ Sorted(pongs)
    BY DEF TypeInv, TypeOK, Frames
  <2>3. /\ Len(pings') = Len(pings) /\ Len(pongs') = Len(pongs)
        /\ \A n \in 1 .. Len(pings) : pings'[n] = pings[n] + 1
        /\ \A n \in 1 .. Len(pongs) : pongs'[n] = pongs[n] + 1
    BY <1>9, <2>2, LaterFrames DEF Tick, Urgent
  <2>4. ASSUME NEW n \in 1 .. Len(pings), macAge <= pings[n]
        PROVE  PongIsDue'
    <3>1. pings[n] \in Nat
      BY <2>2 DEF Frames
    <3>2. n \in 1 .. Len(pings') /\ macAge' <= pings'[n]
      BY <2>1, <2>3, <2>4, <3>1
    <3> QED BY <3>2 DEF PongIsDue
  <2>5. ASSUME NEW n \in 1 .. Len(pongs), macAge <= Delay + pongs[n]
        PROVE  PongIsDue'
    <3>1. pongs[n] \in Nat
      BY <2>2 DEF Frames
    <3>2. n \in 1 .. Len(pongs') /\ macAge' <= Delay + pongs'[n]
      BY <2>1, <2>3, <2>5, <3>1
    <3> QED BY <3>2 DEF PongIsDue
  <2> QED BY <2>4, <2>5 DEF LiveInv, PongIsDue
<1>10. CASE UNCHANGED vars
  BY <1>10 DEF vars, macVars, loopVars, phoneVars, LiveInv, PongIsDue, InTouch, Connected
<1> QED
  BY <1>1, <1>2, <1>3, <1>4, <1>5, <1>6, <1>7, <1>8, <1>9, <1>10 DEF Next

LEMMA KeptStep ==
  ASSUME TypeInv, LiveInv, [Next]_vars
  PROVE  LivePhoneIsKept'
<1> USE DEF LiveInv, LivePhoneIsKept
<1>1. CASE Test
  BY <1>1 DEF Test, LoopInv, InTouch, Connected, TypeInv, TypeOK, phoneVars
<1>2. CASE PhoneLeaves
  BY <1>2 DEF PhoneLeaves
<1>3. CASE Vanish
  BY <1>3 DEF Vanish
<1>4. CASE Ready \/ PhoneTick
  BY <1>4 DEF Ready, PhoneTick, macVars
<1>5. CASE Replace
  BY <1>5 DEF Replace, macVars
<1>6. CASE UNCHANGED <<link, channel, kind, phone>>
  BY <1>6
<1>7. \/ Test \/ PhoneLeaves \/ Vanish \/ Ready \/ PhoneTick \/ Replace
      \/ UNCHANGED <<link, channel, kind, phone>>
  BY DEF Next, AddChannel, StartLoop, Wake, Clear, Send, PongArrives, ChannelInactive,
         RemoveChannel, PingArrives, Tick, vars, macVars, phoneVars
<1> QED BY <1>1, <1>2, <1>3, <1>4, <1>5, <1>6, <1>7

LEMMA LiveInit == Init => LiveInv
  BY DEF Init, LiveInv, LoopInv, PongIsDue, LivePhoneIsKept

\* The ping loop closes no channel whose phone can be reached and has not
\* replaced the socket, whatever the period, if a frame can go there and back
\* within it.
THEOREM LivePhoneKept == Spec => []LivePhoneIsKept
<1>1. Init => TypeInv /\ LiveInv
  BY TypeInit, LiveInit
<1>2. TypeInv /\ LiveInv /\ [Next]_vars => TypeInv' /\ LiveInv'
  BY TypeStep, LoopStep, DueStep, KeptStep DEF LiveInv
<1>3. LiveInv => LivePhoneIsKept
  BY DEF LiveInv
<1> QED BY <1>1, <1>2, <1>3, PTL DEF Spec

-----------------------------------------------------------------------------
(***************************************************************************)
(* A closed channel leaves the broadcaster.                                *)
(***************************************************************************)

\* Once the removal has run, the addition has run before it or is known to be
\* late.
RemovedOrOvertaken ==
  inactive /\ ~removing => overtaken \/ (handshake # "listing" /\ ~joined)

LEMMA RemovedStep ==
  ASSUME RemovedOrOvertaken, [Next]_vars
  PROVE  RemovedOrOvertaken'
<1> USE DEF RemovedOrOvertaken
<1>1. CASE AddChannel
  BY <1>1 DEF AddChannel
<1>2. CASE StartLoop
  BY <1>2 DEF StartLoop
<1>3. CASE ChannelInactive
  BY <1>3 DEF ChannelInactive
<1>4. CASE RemoveChannel
  BY <1>4 DEF RemoveChannel, Removed
<1>5. CASE UNCHANGED <<inactive, removing, handshake, joined, overtaken>>
  BY <1>5
<1>6. \/ AddChannel \/ StartLoop \/ ChannelInactive \/ RemoveChannel
      \/ UNCHANGED <<inactive, removing, handshake, joined, overtaken>>
  BY DEF Next, Wake, Test, Clear, Send, PongArrives, Ready, PingArrives, PhoneTick,
         Replace, PhoneLeaves, Vanish, Tick, vars, macVars
<1> QED BY <1>1, <1>2, <1>3, <1>4, <1>5, <1>6

\* A closed channel stays in the broadcaster only if its removal overtook its
\* addition, whatever the durations.
THEOREM ClosedLeaves == Spec => []ClosedChannelLeaves
<1>1. Init => RemovedOrOvertaken
  BY DEF Init, RemovedOrOvertaken
<1>2. RemovedOrOvertaken /\ [Next]_vars => RemovedOrOvertaken'
  BY RemovedStep
<1>3. RemovedOrOvertaken => ClosedChannelLeaves
  BY DEF RemovedOrOvertaken, ClosedChannelLeaves
<1> QED BY <1>1, <1>2, <1>3, PTL DEF Spec

-----------------------------------------------------------------------------
(***************************************************************************)
(* The phone's timer.                                                      *)
(***************************************************************************)

\* No round is longer than Round, and one without a ping has been quiet for as
\* long as it takes, but for the lateness of the last.
PhoneOnTime ==
  /\ phone = "opening" => phonePong /\ phoneAge <= Delay
  /\ phone = "up" => phoneAge <= Round
  /\ phone = "up" /\ ~phonePong => phoneAge <= quiet + Jitter

LEMMA PhoneStep ==
  ASSUME TypeInv, PhoneOnTime, [Next]_vars
  PROVE  PhoneOnTime'
<1> USE DEF PhoneOnTime, TypeInv, TypeOK
<1>1. CASE Ready
  BY <1>1 DEF Ready, Round
<1>2. CASE PingArrives
  BY <1>2 DEF PingArrives, Received
<1>3. CASE PhoneTick
  <2>1. phoneAge \in Nat /\ phoneAge >= Period /\ phoneAge <= Round /\ quiet \in Nat
    BY <1>3 DEF PhoneTick
  <2>2. CASE phonePong
    <3>1. phoneAge' <= Jitter /\ quiet' = quiet /\ phone' = "up" /\ phoneAge' \in Nat
      BY <1>3, <2>1, <2>2 DEF PhoneTick, Round
    <3> QED BY <2>1, <3>1 DEF Round
  <2>3. CASE ~phonePong
    BY <1>3, <2>3 DEF PhoneTick
  <2> QED BY <2>2, <2>3
<1>4. CASE PhoneLeaves \/ Replace
  BY <1>4 DEF PhoneLeaves, Replace
<1>5. CASE Tick
  <2>1. phoneAge' <= phoneAge + 1 /\ phoneAge' \in Nat /\ phoneAge \in Nat
    BY <1>5, LaterAge DEF Tick
  <2>2. UNCHANGED <<phone, phonePong>>
    BY <1>5 DEF Tick
  <2>3. CASE phone = "opening"
    <3>1. phoneAge < Delay
      BY <1>5, <2>1, <2>3 DEF Tick, Urgent
    <3> QED BY <2>1, <2>2, <2>3, <3>1
  <2>4. CASE phone = "up"
    <3>1. phoneAge < Round
      BY <1>5, <2>1, <2>4 DEF Tick, Urgent, Round
    <3>2. quiet' = quiet + 1 \/ quiet' = Horizon
      <4>1. quiet' = Later(quiet) /\ quiet \in 0 .. Horizon
        BY <1>5 DEF Tick
      <4>2. Horizon \in Nat
        BY DEF Horizon
      <4> QED BY <4>1, <4>2 DEF Later
    <3>3. Round <= Horizon /\ Round \in Nat /\ Horizon \in Nat /\ quiet \in Nat
      BY DEF Round, Horizon
    <3>4. phoneAge' <= Round
      BY <2>1, <3>1, <3>3
    <3>5. ASSUME ~phonePong
          PROVE  phoneAge' <= quiet' + Jitter
      <4>1. phoneAge <= quiet + Jitter
        BY <2>4, <3>5
      <4> QED BY <2>1, <3>1, <3>2, <3>3, <4>1
    <3> QED BY <2>2, <2>4, <3>4, <3>5
  <2>5. CASE phone \notin {"opening", "up"}
    BY <2>2, <2>5
  <2> QED BY <2>3, <2>4, <2>5
<1>6. CASE UNCHANGED phoneVars
  BY <1>6 DEF phoneVars
<1>7. \/ Ready \/ PingArrives \/ PhoneTick \/ PhoneLeaves \/ Replace \/ Tick
      \/ UNCHANGED phoneVars
  BY DEF Next, AddChannel, StartLoop, Wake, Test, Clear, Send, PongArrives,
         ChannelInactive, RemoveChannel, Vanish, vars
<1> QED BY <1>1, <1>2, <1>3, <1>4, <1>5, <1>6, <1>7

LEMMA PhoneInit == Init => PhoneOnTime
<1> SUFFICES ASSUME Init PROVE PhoneOnTime
  OBVIOUS
<1>1. phone = "opening" /\ phonePong = TRUE /\ phoneAge = 0
  BY DEF Init
<1> QED BY <1>1 DEF PhoneOnTime

\* Whatever the durations, no phone gives up a Mac that it has heard within a
\* period less the jitter.
THEOREM AlarmsMeanQuiet == Spec => AlarmMeansQuiet
<1>1. Init => TypeInv /\ PhoneOnTime
  BY TypeInit, PhoneInit
<1>2. TypeInv /\ PhoneOnTime /\ [Next]_vars => TypeInv' /\ PhoneOnTime'
  BY TypeStep, PhoneStep
<1>3. TypeInv /\ PhoneOnTime /\ [Next]_vars =>
        [phone # "alarmed" /\ phone' = "alarmed" => quiet + Jitter >= Period]_vars
  <2> SUFFICES ASSUME TypeInv, PhoneOnTime, Next, phone # "alarmed", phone' = "alarmed"
               PROVE  quiet + Jitter >= Period
    OBVIOUS
  <2>1. PhoneTick
    BY DEF Next, AddChannel, StartLoop, Wake, Test, Clear, Send, PongArrives,
           ChannelInactive, RemoveChannel, Ready, PingArrives, Replace, PhoneLeaves,
           Vanish, Tick, phoneVars
  <2>2. phone = "up" /\ ~phonePong /\ phoneAge >= Period
    BY <2>1 DEF PhoneTick
  <2>3. quiet \in Nat /\ phoneAge \in Nat
    BY DEF TypeInv, TypeOK
  <2> QED BY <2>2, <2>3 DEF PhoneOnTime
<1> QED BY <1>1, <1>2, <1>3, PTL DEF Spec, AlarmMeansQuiet

-----------------------------------------------------------------------------
(***************************************************************************)
(* Whoever goes without a word is let go.  The time since then is bounded, *)
(* on each side, by the age of the present round and the rounds before it. *)
(***************************************************************************)

MacOnTime ==
  /\ loop = "none" => macAge <= Jitter
  /\ loop = "sleeping" => macAge <= Round

\* The loop finishes the sleep in which it lost the phone, perhaps with a pong
\* noted before or one that was still on its way, and sleeps once more.
MacNotices ==
  ~InTouch =>
    /\ Connected => \A n \in 1 .. Len(pongs) : silent <= pongs[n]
    /\ loop \in {"none", "sleeping", "send"} /\ macPong => silent <= macAge + Delay
    /\ loop \in {"test", "clear"} /\ macPong => silent <= Round + Delay
    /\ loop \in {"sleeping", "send"} /\ ~macPong => silent <= macAge + Round + Delay
    /\ loop = "test" /\ ~macPong => silent <= 2 * Round + Delay

\* A ping may still be on its way when the Mac closes; it counts for a round.
PhoneNotices ==
  ~Connected /\ phone # "replaced" =>
    /\ \A n \in 1 .. Len(pings) : silent <= pings[n]
    /\ phone = "opening" => silent <= phoneAge
    /\ phone = "up" /\ phonePong => silent <= phoneAge + Delay
    /\ phone = "up" /\ ~phonePong => silent <= phoneAge + Round + Delay

Inv == TypeInv /\ LiveInv /\ PhoneOnTime /\ MacOnTime /\ MacNotices /\ PhoneNotices

LEMMA Ages ==
  ASSUME TypeInv
  PROVE  /\ {macAge, phoneAge, quiet, silent} \subseteq Nat
         /\ Round \in Nat /\ 2 * Round < Horizon /\ Jitter <= Round
         /\ Delay <= Round
  BY DEF TypeInv, TypeOK, Round, Horizon

LEMMA MacTimeStep ==
  ASSUME TypeInv, LiveInv, MacOnTime, [Next]_vars
  PROVE  MacOnTime'
<1> USE Ages DEF MacOnTime
<1>1. CASE StartLoop \/ Wake
  BY <1>1 DEF StartLoop, Wake
<1>2. CASE Test \/ Clear
  BY <1>2 DEF Test, Clear, After
<1>3. CASE Send
  BY <1>3 DEF Send, After, LiveInv, LoopInv
<1>4. CASE Tick
  <2>1. macAge' <= macAge + 1 /\ macAge' \in Nat /\ macAge \in Nat /\ loop' = loop
    BY <1>4, LaterAge DEF Tick, TypeInv, TypeOK
  <2>2. loop = "none" => handshake # "done"
    BY DEF LiveInv, LoopInv
  <2>3. loop = "none" => macAge < Jitter
    BY <1>4, <2>1, <2>2 DEF Tick, Urgent
  <2>4. loop = "sleeping" => macAge < Round
    BY <1>4, <2>1 DEF Tick, Urgent, Round
  <2> QED BY <2>1, <2>3, <2>4
<1>5. CASE UNCHANGED <<loop, macAge>>
  BY <1>5
<1>6. StartLoop \/ Wake \/ Test \/ Clear \/ Send \/ Tick \/ UNCHANGED <<loop, macAge>>
  BY DEF Next, AddChannel, PongArrives, ChannelInactive, RemoveChannel, Ready,
         PingArrives, PhoneTick, Replace, PhoneLeaves, Vanish, vars, loopVars
<1> QED BY <1>1, <1>2, <1>3, <1>4, <1>5, <1>6

\* The loop ends before the silence gets longer than this.
LEMMA SilentBound ==
  ASSUME Inv, ~InTouch, loop # "ended"
  PROVE  silent <= 2 * Round + Delay
<1>1. loop \in {"none", "sleeping", "test", "clear", "send"} /\ macPong \in BOOLEAN
  BY DEF Inv, TypeInv, TypeOK
<1>2. loop \in {"test", "clear", "send"} => macAge = 0
  BY DEF Inv, LiveInv, LoopInv
<1>3. loop \in {"none", "clear"} => macPong
  BY DEF Inv, LiveInv, LoopInv
<1> QED BY <1>1, <1>2, <1>3, Ages DEF Inv, MacOnTime, MacNotices

LEMMA MacNoticesStep ==
  ASSUME Inv, [Next]_vars
  PROVE  MacNotices'
<1> USE DEF MacNotices
<1>0. /\ TypeInv /\ LiveInv /\ MacOnTime /\ MacNotices
      /\ pongs \in Frames /\ Sorted(pongs) /\ Len(pongs) \in Nat
  BY DEF Inv, TypeInv, TypeOK, Frames
<1>p. \A n \in 1 .. Len(pongs) : 0 <= pongs[n] /\ pongs[n] <= Delay /\ pongs[n] \in Nat
  BY <1>0 DEF Frames
<1>1. CASE StartLoop
  <2>1. /\ silent' = 0 /\ macAge' = 0 /\ loop' = "sleeping"
        /\ UNCHANGED <<pongs, macPong>>
    BY <1>1 DEF StartLoop
  <2>2. \A n \in 1 .. Len(pongs') : silent' <= pongs'[n]
    BY <1>p, <2>1
  <2> QED BY <1>0, <2>1, <2>2, Ages
<1>2. CASE Wake
  <2>1. /\ InTouch' = InTouch /\ Connected' = Connected
        /\ loop = "sleeping" /\ loop' = "test" /\ UNCHANGED <<silent, macPong, pongs>>
    BY <1>2 DEF Wake, macVars, phoneVars, InTouch, Connected
  <2> QED BY <1>0, <2>1, Ages DEF MacOnTime
<1>3. CASE Test
  <2>1. CASE macPong
    <3>1. /\ InTouch' = InTouch /\ Connected' = Connected
          /\ loop = "test" /\ loop' = "clear" /\ UNCHANGED <<silent, macPong, pongs>>
      BY <1>3, <2>1 DEF Test, After, macVars, phoneVars, InTouch, Connected
    <3> QED BY <1>0, <2>1, <3>1
  <2>2. CASE ~macPong
    <3>1. loop' = "ended" /\ ~Connected'
      BY <1>3, <2>2 DEF Test, Connected
    <3> QED BY <3>1
  <2> QED BY <2>1, <2>2
<1>4. CASE Clear
  <2>1. /\ InTouch' = InTouch /\ Connected' = Connected /\ loop = "clear" /\ loop' = "send"
        /\ UNCHANGED <<silent, macAge, pongs>> /\ macPong' = FALSE
    BY <1>4 DEF Clear, Cleared, After, macVars, phoneVars, InTouch, Connected
  <2>2. macPong
    BY <1>0, <2>1 DEF LiveInv, LoopInv
  <2> QED BY <1>0, <2>1, <2>2, Ages
<1>5. CASE Send
  <2>1. /\ InTouch' = InTouch /\ Connected' = Connected
        /\ loop = "send" /\ loop' \in {"sleeping", "ended"}
        /\ UNCHANGED <<silent, macAge, macPong, pongs>>
    BY <1>5 DEF Send, After, macVars, phoneVars, InTouch, Connected
  <2> QED BY <1>0, <2>1
<1>6. CASE PongArrives
  <2> SUFFICES ASSUME ~InTouch
               PROVE  MacNotices'
    BY <1>6 DEF PongArrives, macVars, phoneVars, InTouch, Connected
  <2>1. /\ UNCHANGED <<silent, macAge, loop>> /\ macPong' = TRUE
        /\ pongs' = Tail(pongs) /\ pongs # <<>> /\ Connected
    BY <1>6 DEF PongArrives
  <2>2. \A n \in 1 .. Len(pongs) : silent <= pongs[n]
    BY <1>0, <2>1
  <2>3. silent <= Delay
    <3>1. 1 \in 1 .. Len(pongs)
      BY <1>0, <2>1 DEF Frames
    <3>2. silent \in Nat /\ pongs[1] \in Nat /\ pongs[1] <= Delay /\ silent <= pongs[1]
      BY <1>0, <1>p, <2>2, <3>1, Ages
    <3> QED BY <3>2
  <2>4. \A n \in 1 .. Len(pongs') : silent' <= pongs'[n]
    <3>1. /\ Len(pongs') = Len(pongs) - 1
          /\ \A n \in 1 .. Len(pongs) - 1 : pongs'[n] = pongs[n + 1]
      BY <1>0, <2>1, TailFrames
    <3>2. ASSUME NEW n \in 1 .. Len(pongs) - 1
          PROVE  silent' <= pongs'[n]
      <4>1. n + 1 \in 1 .. Len(pongs)
        BY <1>0
      <4> QED BY <2>1, <2>2, <3>1, <4>1
    <3> QED BY <3>1, <3>2
  <2> QED BY <1>0, <2>1, <2>3, <2>4, Ages
<1>7. CASE PhoneLeaves \/ Vanish
  <2>1. /\ UNCHANGED <<loop, macAge, macPong>> /\ pongs' = <<>>
        /\ silent' = IF InTouch THEN 0 ELSE silent
    BY <1>7 DEF PhoneLeaves, Vanish, Silent, loopVars
  <2>2. Len(pongs') = 0
    BY <2>1
  <2>3. \A n \in 1 .. Len(pongs') : silent' <= pongs'[n]
    BY <2>2
  <2>4. CASE InTouch
    BY <1>0, <2>1, <2>3, <2>4, Ages
  <2>5. CASE ~InTouch
    BY <1>0, <2>1, <2>3, <2>5
  <2> QED BY <2>4, <2>5
<1>8. CASE Replace
  <2>1. /\ UNCHANGED <<loop, macAge, macPong, pongs>>
        /\ silent' = IF InTouch THEN 0 ELSE silent
    BY <1>8 DEF Replace, Silent, loopVars
  <2>2. Connected' = Connected
    BY <1>8 DEF Replace, macVars, Connected
  <2>3. CASE InTouch
    BY <1>0, <1>p, <2>1, <2>3, Ages
  <2>4. CASE ~InTouch
    BY <1>0, <2>1, <2>2, <2>4
  <2> QED BY <2>3, <2>4
<1>9. CASE PingArrives \/ PhoneTick
  <2> SUFFICES ASSUME ~InTouch
               PROVE  MacNotices'
    BY <1>9 DEF PingArrives, PhoneTick, macVars, InTouch, Connected
  <2>1. UNCHANGED <<silent, loop, macAge, macPong>> /\ Connected' = Connected
    BY <1>9 DEF PingArrives, PhoneTick, macVars, loopVars, Connected
  <2>2. Connected => pongs' = pongs
    BY <1>9 DEF PingArrives, PhoneTick, Answered, InTouch
  <2> QED BY <1>0, <2>1, <2>2
<1>10. CASE Tick
  <2> SUFFICES ASSUME ~InTouch
               PROVE  MacNotices'
    BY <1>10 DEF Tick, macVars, InTouch, Connected
  <2>1. /\ silent' <= silent + 1 /\ silent' \in Nat /\ macAge' \in Nat
        /\ macAge <= 2 * Round => macAge' = macAge + 1
    <3>1. silent' = Later(silent) /\ macAge' = Later(macAge)
      BY <1>10 DEF Tick
    <3>2. silent \in 0 .. Horizon /\ macAge \in 0 .. Horizon
      BY <1>0 DEF TypeInv, TypeOK
    <3> QED BY <3>1, <3>2, LaterAge
  <2>2. /\ UNCHANGED <<loop, macPong>> /\ loop \notin {"test", "clear", "send"}
        /\ Connected' = Connected
    BY <1>10 DEF Tick, Urgent, macVars, Connected
  <2>3. loop \in {"none", "sleeping"} => macAge' = macAge + 1
    BY <1>0, <2>1, Ages DEF MacOnTime
  <2>4. Connected => \A n \in 1 .. Len(pongs') : silent' <= pongs'[n]
    <3>1. /\ Len(pongs') = Len(pongs)
          /\ \A n \in 1 .. Len(pongs) : pongs'[n] = pongs[n] + 1
      BY <1>0, <1>10, LaterFrames DEF Tick, Urgent
    <3>2. ASSUME Connected, NEW n \in 1 .. Len(pongs)
          PROVE  silent' <= pongs'[n]
      <4>1. silent <= pongs[n] /\ pongs[n] \in Nat /\ silent \in Nat
        BY <1>0, <1>p, <3>2, Ages
      <4>2. pongs'[n] = pongs[n] + 1
        BY <3>1
      <4> HIDE DEF MacNotices
      <4> QED BY <2>1, <4>1, <4>2
    <3> QED BY <3>1, <3>2
  <2>5. silent \in Nat /\ macAge \in Nat /\ Round \in Nat /\ Delay \in Nat
    BY <1>0, Ages
  <2>6. /\ loop \in {"none", "sleeping"} /\ macPong => silent <= macAge + Delay
        /\ loop = "sleeping" /\ ~macPong => silent <= macAge + Round + Delay
    BY <1>0
  <2>8. ASSUME loop \in {"none", "sleeping"}, macPong
        PROVE  silent' <= macAge' + Delay
    <3>1. silent <= macAge + Delay /\ macAge' = macAge + 1
      BY <2>3, <2>6, <2>8
    <3>2. silent' <= silent + 1 /\ silent' \in Nat /\ macAge' \in Nat
      BY <2>1
    <3> HIDE DEF MacNotices
    <3> QED BY <2>5, <3>1, <3>2
  <2>7. loop = "sleeping" /\ ~macPong => silent' <= macAge' + Round + Delay
    <3> HIDE DEF MacNotices
    <3> QED BY <2>1, <2>3, <2>5, <2>6
  <2> QED BY <2>2, <2>4, <2>7, <2>8
<1>11. CASE /\ UNCHANGED <<link, channel, loop, macPong, macAge, pongs, silent>>
            /\ InTouch' = InTouch
  BY <1>0, <1>11 DEF Connected
<1>12. \/ StartLoop \/ Wake \/ Test \/ Clear \/ Send \/ PongArrives
       \/ PhoneLeaves \/ Vanish \/ Replace \/ PingArrives \/ PhoneTick \/ Tick
       \/ /\ UNCHANGED <<link, channel, loop, macPong, macAge, pongs, silent>>
          /\ InTouch' = InTouch
  BY DEF Next, AddChannel, ChannelInactive, RemoveChannel, Ready,
         vars, macVars, loopVars, phoneVars, InTouch, Connected
<1> QED
  BY <1>1, <1>2, <1>3, <1>4, <1>5, <1>6, <1>7, <1>8, <1>9, <1>10, <1>11, <1>12

LEMMA PhoneNoticesStep ==
  ASSUME Inv, [Next]_vars
  PROVE  PhoneNotices'
<1> USE DEF PhoneNotices
<1>0. /\ TypeInv /\ LiveInv /\ PhoneOnTime /\ PhoneNotices
      /\ pings \in Frames /\ Sorted(pings) /\ Len(pings) \in Nat
  BY DEF Inv, TypeInv, TypeOK, Frames
<1>1. CASE StartLoop
  <2>1. silent' = 0 /\ UNCHANGED <<link, channel, pings, phone, phonePong, phoneAge>>
    BY <1>1 DEF StartLoop, phoneVars
  <2>2. \A n \in 1 .. Len(pings) : silent' <= pings'[n]
    BY <1>0, <2>1 DEF Frames
  <2>3. phoneAge' \in Nat /\ Round \in Nat /\ Delay \in Nat
    BY <1>0, <2>1, Ages
  <2>4. silent' <= phoneAge' /\ silent' <= phoneAge' + Delay /\ silent' <= phoneAge' + Round + Delay
    BY <2>1, <2>3
  <2> QED BY <2>1, <2>2, <2>4
<1>2. CASE Test
  <2>1. CASE ~macPong /\ Connected
    <3>1. phone = "replaced"
      BY <1>0, <1>2, <2>1 DEF Test, LiveInv, LoopInv, InTouch
    <3>2. phone' = phone
      BY <1>2 DEF Test, phoneVars
    <3> QED BY <3>1, <3>2
  <2>2. CASE ~(~macPong /\ Connected)
    <3>1. UNCHANGED <<silent, pings, phone, phonePong, phoneAge>>
      BY <1>2, <2>2 DEF Test, Silent, InTouch, phoneVars
    <3>2. Connected' = Connected
      BY <1>2, <2>2 DEF Test, Connected
    <3> QED BY <1>0, <3>1, <3>2
  <2> QED BY <2>1, <2>2
<1>3. CASE Send
  <2>1. UNCHANGED <<silent, link, channel, phone, phonePong, phoneAge>> /\ pings' = Sent(pings)
    BY <1>3 DEF Send, macVars, phoneVars
  <2>2. ~Connected => pings' = pings
    BY <1>0, <2>1, SentFrames
  <2> QED BY <1>0, <2>1, <2>2 DEF Connected
<1>4. CASE Ready
  <2>1. /\ UNCHANGED <<silent, link, channel, pings, phonePong>>
        /\ phone = "opening" /\ phone' = "up" /\ phoneAge' = 0
    BY <1>4 DEF Ready, macVars
  <2>2. phonePong /\ phoneAge <= Delay
    BY <1>0, <2>1 DEF PhoneOnTime
  <2> QED BY <1>0, <2>1, <2>2, Ages DEF Connected
<1>5. CASE PingArrives
  <2> SUFFICES ASSUME ~Connected, phone # "replaced" PROVE PhoneNotices'
    BY <1>5 DEF PingArrives, macVars, Connected
  <2>1. /\ UNCHANGED <<silent, phone, phoneAge>>
        /\ pings # <<>> /\ pings' = Tail(pings) /\ phonePong' = TRUE
        /\ phone \in {"up", "alarmed"}
    BY <1>5 DEF PingArrives, Received
  <2>2. /\ Len(pings') = Len(pings) - 1
        /\ \A n \in 1 .. Len(pings) - 1 : pings'[n] = pings[n + 1]
    BY <1>0, <2>1, TailFrames
  <2>3. \A n \in 1 .. Len(pings') : silent <= pings'[n]
    <3> SUFFICES ASSUME NEW n \in 1 .. Len(pings) - 1
                 PROVE  silent <= pings'[n]
      BY <2>2
    <3>1. n + 1 \in 1 .. Len(pings)
      BY <1>0
    <3> QED BY <2>2, <3>1 DEF Inv
  <2>4. silent <= Delay
    <3>1. 1 \in 1 .. Len(pings) /\ pings[1] \in 0 .. Delay
      BY <1>0, <2>1 DEF Frames
    <3> QED BY <1>0, <3>1, Ages DEF Inv
  <2> QED BY <1>0, <2>1, <2>3, <2>4, Ages
<1>6. CASE PhoneTick
  <2> SUFFICES ASSUME ~Connected PROVE PhoneNotices'
    BY <1>6 DEF PhoneTick, macVars, Connected
  <2>1. /\ UNCHANGED <<silent, pings>> /\ phone = "up" /\ phoneAge >= Period
        /\ phoneAge' = phoneAge - Period \/ phoneAge' = 0
        /\ (phonePong /\ phone' = "up" /\ ~phonePong') \/ phone' = "alarmed"
    BY <1>6 DEF PhoneTick
  <2>2. phoneAge <= Round /\ phoneAge \in Nat /\ silent \in Nat
    BY <1>0, <2>1, Ages DEF PhoneOnTime
  <2>3. phoneAge <= phoneAge' + Round
    BY <2>1, <2>2 DEF Round
  <2>4. phoneAge' \in Nat
    BY <2>1, <2>2
  <2>5. phonePong => silent <= phoneAge' + Round + Delay
    BY <1>0, <2>1, <2>2, <2>3, <2>4, Ages DEF Inv
  <2> QED BY <2>1, <2>5 DEF Inv
<1>7. CASE PhoneLeaves \/ Vanish
  <2>1. CASE PhoneLeaves
    <3>1. pings' = <<>> /\ phone' = "gone"
      BY <2>1 DEF PhoneLeaves
    <3> QED BY <3>1
  <2>2. CASE Vanish
    <3> SUFFICES ASSUME phone # "replaced" PROVE PhoneNotices'
      BY <2>2 DEF Vanish, phoneVars
    <3>1. silent' = 0 /\ pings' = <<>> /\ phoneAge' = phoneAge
      BY <2>2 DEF Vanish, Silent, InTouch, phoneVars
    <3> QED BY <1>0, <3>1, Ages
  <2> QED BY <1>7, <2>1, <2>2
<1>8. CASE Tick
  <2> SUFFICES ASSUME ~Connected, phone # "replaced" PROVE PhoneNotices'
    BY <1>8 DEF Tick, macVars, Connected
  <2>1. /\ silent' <= silent + 1 /\ silent' \in Nat /\ phoneAge' \in Nat
        /\ phoneAge <= 2 * Round => phoneAge' = phoneAge + 1
    <3>1. silent' = Later(silent) /\ phoneAge' = Later(phoneAge)
      BY <1>8 DEF Tick
    <3>2. silent \in 0 .. Horizon /\ phoneAge \in 0 .. Horizon
      BY <1>0 DEF TypeInv, TypeOK
    <3> QED BY <3>1, <3>2, LaterAge
  <2>2. UNCHANGED <<phone, phonePong>>
    BY <1>8 DEF Tick
  <2>3. \A n \in 1 .. Len(pings') : silent' <= pings'[n]
    <3>1. /\ Len(pings') = Len(pings)
          /\ \A n \in 1 .. Len(pings) : pings'[n] = pings[n] + 1
      BY <1>0, <1>8, LaterFrames DEF Tick, Urgent
    <3>2. \A n \in 1 .. Len(pings) : pings[n] \in Nat
      BY <1>0 DEF Frames
    <3>3. \A n \in 1 .. Len(pings) : silent <= pings[n]
      BY <1>0
    <3>4. silent \in Nat
      BY <1>0, Ages
    <3>5. ASSUME NEW n \in 1 .. Len(pings)
          PROVE  silent' <= pings'[n]
      <4>1. silent <= pings[n] /\ pings[n] \in Nat /\ pings'[n] = pings[n] + 1
        BY <3>1, <3>2, <3>3
      <4> HIDE DEF PhoneNotices
      <4> QED BY <2>1, <3>4, <4>1
    <3> QED BY <3>1, <3>5
  <2>4. phone \in {"opening", "up"} => phoneAge' = phoneAge + 1
    BY <1>0, <2>1, Ages DEF PhoneOnTime
  <2>5. silent \in Nat /\ phoneAge \in Nat /\ Round \in Nat /\ Delay \in Nat
    BY <1>0, Ages
  <2>6. phone' = "opening" => silent' <= phoneAge'
    BY <1>0, <2>1, <2>2, <2>4, <2>5
  <2>7. phone' = "up" /\ phonePong' => silent' <= phoneAge' + Delay
    BY <1>0, <2>1, <2>2, <2>4, <2>5
  <2>8. phone' = "up" /\ ~phonePong' => silent' <= phoneAge' + Round + Delay
    BY <1>0, <2>1, <2>2, <2>4, <2>5
  <2> QED BY <2>3, <2>6, <2>7, <2>8
<1>9. CASE UNCHANGED <<link, channel, pings, phone, phonePong, phoneAge, silent>>
  BY <1>9 DEF Connected, Inv
<1>11. CASE Replace
  BY <1>11 DEF Replace
<1>10. \/ StartLoop \/ Test \/ Send \/ Ready \/ PingArrives \/ PhoneTick
       \/ PhoneLeaves \/ Vanish \/ Replace \/ Tick
       \/ UNCHANGED <<link, channel, pings, phone, phonePong, phoneAge, silent>>
  BY DEF Next, AddChannel, Wake, Clear, PongArrives, ChannelInactive, RemoveChannel,
         vars, macVars, phoneVars
<1> QED BY <1>1, <1>2, <1>3, <1>4, <1>5, <1>6, <1>7, <1>8, <1>9, <1>10, <1>11

LEMMA NoticesInit == Init => MacOnTime /\ MacNotices /\ PhoneNotices
<1> SUFFICES ASSUME Init PROVE MacOnTime /\ MacNotices /\ PhoneNotices
  OBVIOUS
<1>1. Connected /\ InTouch /\ loop = "none" /\ macAge = 0
  BY DEF Init, InTouch, Connected
<1> QED BY <1>1 DEF MacOnTime, MacNotices, PhoneNotices

\* Whatever the durations, whoever goes without a word, and a socket that was
\* replaced, has been let go two rounds and a frame's way later.
THEOREM DeadLinkLetGo == Spec => []DeadLinkIsLetGo
<1>1. Init => Inv
  BY TypeInit, LiveInit, PhoneInit, NoticesInit DEF Inv
<1>2. Inv /\ [Next]_vars => Inv'
  <2> SUFFICES ASSUME Inv, [Next]_vars PROVE Inv'
    OBVIOUS
  <2>1. TypeInv' /\ LiveInv'
    BY TypeStep, LoopStep, DueStep, KeptStep DEF Inv, LiveInv
  <2>2. PhoneOnTime' /\ MacOnTime'
    BY PhoneStep, MacTimeStep DEF Inv
  <2>3. MacNotices' /\ PhoneNotices'
    BY MacNoticesStep, PhoneNoticesStep
  <2> QED BY <2>1, <2>2, <2>3 DEF Inv
<1>3. Inv => DeadLinkIsLetGo
  <2> SUFFICES ASSUME Inv, silent > 2 * (Period + Jitter) + Delay, ~InTouch
               PROVE  channel # "open" /\ loop \in {"none", "ended"} /\ phone # "up"
    BY DEF DeadLinkIsLetGo
  <2>1. silent > 2 * Round + Delay /\ silent \in Nat
    BY Ages DEF Inv, Round
  <2>2. loop = "ended"
    BY <2>1, SilentBound, Ages DEF Inv
  <2>3. channel # "open"
    BY <2>2 DEF Inv, LiveInv, LoopInv
  <2>4. phone # "up"
    <3> SUFFICES ASSUME phone = "up" PROVE FALSE
      OBVIOUS
    <3>1. phoneAge <= Round /\ phoneAge \in Nat /\ Round \in Nat /\ Delay \in Nat
      BY Ages DEF Inv, PhoneOnTime
    <3>2. silent <= phoneAge + Delay \/ silent <= phoneAge + Round + Delay
      BY DEF Inv, PhoneNotices, InTouch
    <3> QED BY <2>1, <3>1, <3>2
  <2> QED BY <2>2, <2>3, <2>4
<1> QED BY <1>1, <1>2, <1>3, PTL DEF Spec
=============================================================================
