------------------------- MODULE SessionSyncProofs -------------------------
(***************************************************************************)
(* Proofs about SessionSync, for any sets of sessions, channels and phones *)
(* and any assignment of channels to phones: the types, that a list is     *)
(* always the first message of its channel, and that an iOS phone for      *)
(* which everything has arrived shows exactly the registry, but for the    *)
(* windows the code leaves open.                                           *)
(***************************************************************************)
EXTENDS SessionSync, SequenceTheorems, TLAPS

USE ClientsAssumption DEF Kinds

-----------------------------------------------------------------------------
(***************************************************************************)
(* The three things that happen to a channel's queue.                      *)
(***************************************************************************)

Queue == {q \in Seq(Message) : ListOnlyFirst(q)}

\* A channel that ends keeps a prefix of its queue.
LEMMA PrefixOfQueue ==
  ASSUME NEW q \in Queue, NEW r \in Prefixes(q)
  PROVE  r \in Queue /\ (q = << >> => r = << >>)
<1>1. PICK n \in 0 .. Len(q) : r = SubSeq(q, 1, n)
  BY DEF Prefixes
<1>2. q \in Seq(Message) /\ Len(q) \in Nat /\ DOMAIN q = 1 .. Len(q)
  BY LenProperties DEF Queue
<1>3. /\ r \in Seq(Message)
      /\ Len(r) = n
      /\ \A i \in 1 .. n : r[i] = q[i]
  BY <1>1, <1>2
<1>4. ListOnlyFirst(r)
  BY <1>2, <1>3 DEF ListOnlyFirst, Queue
<1>5. q = << >> => r = << >>
  BY <1>2, <1>3
<1>6. QED
  BY <1>3, <1>4, <1>5 DEF Queue

\* What is left of a sequence of messages when one is taken out.
LEMMA RemoveAtElements ==
  ASSUME NEW q \in Seq(Message), NEW i \in 1 .. Len(q)
  PROVE  /\ RemoveAt(q, i) \in Seq(Message)
         /\ Len(RemoveAt(q, i)) = Len(q) - 1
         /\ \A j \in 1 .. Len(q) - 1 :
              RemoveAt(q, i)[j] = IF j <= i - 1 THEN q[j] ELSE q[j + 1]
<1> DEFINE s == SubSeq(q, 1, i - 1)
           t == SubSeq(q, i + 1, Len(q))
<1>1. Len(q) \in Nat
  BY LenProperties
<1>2. /\ s \in Seq(Message) /\ Len(s) = i - 1
      /\ \A j \in 1 .. i - 1 : s[j] = q[j]
  BY <1>1
<1>3. /\ t \in Seq(Message) /\ Len(t) = Len(q) - i
      /\ \A j \in 1 .. Len(q) - i : t[j] = q[i + j]
  BY <1>1
<1> HIDE DEF s, t
<1>4. /\ s \o t \in Seq(Message)
      /\ Len(s \o t) = Len(s) + Len(t)
      /\ \A j \in 1 .. Len(s) + Len(t) :
           (s \o t)[j] = IF j <= Len(s) THEN s[j] ELSE t[j - Len(s)]
  BY <1>2, <1>3, ConcatProperties
<1>5. Len(s) + Len(t) = Len(q) - 1
  BY <1>1, <1>2, <1>3
<1>6. ASSUME NEW j \in 1 .. Len(q) - 1
      PROVE  (s \o t)[j] = IF j <= i - 1 THEN q[j] ELSE q[j + 1]
  <2>1. CASE j <= i - 1
    BY <1>1, <1>2, <1>4, <1>5, <2>1
  <2>2. CASE ~(j <= i - 1)
    <3>1. j - Len(s) \in 1 .. Len(q) - i
      BY <1>1, <1>2, <2>2
    <3>2. i + (j - Len(s)) = j + 1
      BY <1>1, <1>2
    <3>3. t[j - Len(s)] = q[i + (j - Len(s))]
      BY <1>3, <3>1
    <3>4. QED
      BY <1>2, <1>4, <1>5, <2>2, <3>2, <3>3
  <2>3. QED
    BY <2>1, <2>2
<1>7. /\ s \o t \in Seq(Message)
      /\ Len(s \o t) = Len(q) - 1
      /\ \A j \in 1 .. Len(q) - 1 :
           (s \o t)[j] = IF j <= i - 1 THEN q[j] ELSE q[j + 1]
  BY <1>4, <1>5, <1>6
<1>8. QED
  BY <1>7 DEF RemoveAt, s, t

\* A phone takes any message out of the queue.
LEMMA RemoveFromQueue ==
  ASSUME NEW q \in Queue, NEW i \in DOMAIN q
  PROVE  RemoveAt(q, i) \in Queue
<1> DEFINE r == RemoveAt(q, i)
<1>1. /\ q \in Seq(Message) /\ Len(q) \in Nat /\ i \in 1 .. Len(q)
      /\ \A j \in 1 .. Len(q) : q[j].type = "sessions" => j = 1
  BY LenProperties DEF Queue, ListOnlyFirst
<1>2. /\ r \in Seq(Message)
      /\ Len(r) = Len(q) - 1
      /\ \A j \in 1 .. Len(q) - 1 : r[j] = IF j <= i - 1 THEN q[j] ELSE q[j + 1]
  BY <1>1, RemoveAtElements
<1> HIDE DEF r
<1>3. ASSUME NEW j \in 1 .. Len(q) - 1, r[j].type = "sessions"
      PROVE  j = 1
  BY <1>1, <1>2, <1>3
<1>4. DOMAIN r = 1 .. Len(q) - 1
  BY <1>2, LenProperties
<1>5. r \in Queue
  BY <1>2, <1>3, <1>4 DEF Queue, ListOnlyFirst
<1>6. QED
  BY <1>5 DEF r

\* The broadcaster appends an announcement.
LEMMA AnnounceToQueue ==
  ASSUME NEW q \in Queue, NEW kind \in Kinds, NEW x \in Sessions
  PROVE  Append(q, Announcement(kind, x)) \in Queue
<1> DEFINE m == Announcement(kind, x)
<1>1. m \in Message /\ m.type # "sessions"
  BY DEF Announcement, Message
<1> HIDE DEF m
<1>2. /\ q \in Seq(Message) /\ Len(q) \in Nat
      /\ \A j \in 1 .. Len(q) : q[j].type = "sessions" => j = 1
  BY LenProperties DEF Queue, ListOnlyFirst
<1>3. /\ Append(q, m) \in Seq(Message)
      /\ DOMAIN Append(q, m) = 1 .. Len(q) + 1
      /\ \A j \in 1 .. Len(q) : Append(q, m)[j] = q[j]
      /\ Append(q, m)[Len(q) + 1] = m
  BY <1>1, <1>2
<1>4. ListOnlyFirst(Append(q, m))
  BY <1>1, <1>2, <1>3 DEF ListOnlyFirst
<1>5. QED
  BY <1>3, <1>4 DEF Queue, m

\* The list itself is appended to an empty queue.
LEMMA ListToQueue ==
  ASSUME NEW ids \in SUBSET Sessions
  PROVE  << >> \in Queue /\ Append(<< >>, ListMessage(ids)) \in Queue
BY DEF Queue, ListOnlyFirst, ListMessage, Message
-----------------------------------------------------------------------------
(***************************************************************************)
(* The inductive invariant.  The list comes first because a channel only   *)
(* joins the broadcaster after its list was sent, and because its queue is *)
(* empty until then.                                                       *)
(***************************************************************************)

\* The types of everything but the network.
StateOK ==
  /\ registry \subseteq used
  /\ used \subseteq Sessions
  /\ wired \subseteq Kinds
  /\ task \in [Kinds \X Sessions -> {"none", "pending", "sent"}]
  /\ channels \subseteq Channels
  /\ conn \in [Channels -> {"idle", "open", "closed"}]
  /\ hello \in [Channels -> {"none", "pending", "listed", "added"}]
  /\ snapshot \in [Channels -> SUBSET Sessions]
  /\ bye \in [Channels -> {"none", "pending", "done"}]
  /\ current \in [Clients -> Channels \cup {NoChannel}]
  /\ store \in [Clients -> [list : SUBSET Sessions, active : SUBSET Sessions]]
  /\ disordered \in [Clients -> BOOLEAN]
  /\ raced \in [Channels -> SUBSET Sessions]

\* The network: its type and ListComesFirst.
NetOK ==
  /\ net \in [Channels -> Queue]
  /\ \A ch \in Channels : hello[ch] \in {"none", "pending"} => net[ch] = << >>

JoinedHasList == \A ch \in channels : hello[ch] = "added"

IdleHasNoTask == \A ch \in Channels : conn[ch] = "idle" => hello[ch] = "none"

IInv == StateOK /\ NetOK /\ JoinedHasList /\ IdleHasNoTask

LEMMA IInvImplies == IInv => TypeOK /\ ListComesFirst
<1> SUFFICES ASSUME IInv PROVE TypeOK /\ ListComesFirst
  OBVIOUS
<1>1. net \in [Channels -> Seq(Message)] /\ \A ch \in Channels : ListOnlyFirst(net[ch])
  BY DEF IInv, NetOK, Queue
<1>2. TypeOK
  BY <1>1 DEF IInv, StateOK, TypeOK
<1>3. ListComesFirst
  BY <1>1 DEF IInv, NetOK, ListComesFirst
<1>4. QED
  BY <1>2, <1>3

LEMMA InitIInv == Init => IInv
<1> SUFFICES ASSUME Init PROVE IInv
  OBVIOUS
<1>1. StateOK
  BY DEF Init, StateOK
<1>2. NetOK
  BY ListToQueue DEF Init, NetOK
<1>3. JoinedHasList /\ IdleHasNoTask
  BY DEF Init, JoinedHasList, IdleHasNoTask
<1>4. QED
  BY <1>1, <1>2, <1>3 DEF IInv

\* What a phone makes of a message is again a list and a set of sessions.
LEMMA AppliedType ==
  ASSUME StateOK, NEW c \in Clients, NEW m \in Message
  PROVE  Applied(c, m) \in [list : SUBSET Sessions, active : SUBSET Sessions]
<1> DEFINE Store == [list : SUBSET Sessions, active : SUBSET Sessions]
<1>1. store[c] \in Store /\ m.ids \in SUBSET Sessions
  BY DEF StateOK, Message
<1>2. IOSApply(store[c], m) \in Store
  BY <1>1 DEF IOSApply
<1>3. AndroidApply(store[c], m) \in Store
  BY <1>1 DEF AndroidApply
<1>4. QED
  BY <1>2, <1>3 DEF Applied

\* The registry's steps leave the channels alone.
LEMMA RegistryIInv ==
  ASSUME IInv, NEW s \in Sessions, Register(s) \/ RemoveSession(s)
  PROVE  IInv'
<1> USE DEF IInv
<1>1. StateOK'
  <2>1. CASE Register(s)
    BY <2>1 DEF StateOK, Register, Notify, channelVars, clientVars
  <2>2. CASE RemoveSession(s)
    BY <2>2 DEF StateOK, RemoveSession, Notify, channelVars, clientVars
  <2>3. QED
    BY <2>1, <2>2
<1>2. UNCHANGED <<channelVars, net>>
  BY DEF Register, RemoveSession
<1>3. NetOK' /\ JoinedHasList' /\ IdleHasNoTask'
  BY <1>2 DEF NetOK, JoinedHasList, IdleHasNoTask, channelVars
<1>4. QED
  BY <1>1, <1>3

\* A broadcast appends an announcement to the queues of joined channels only.
LEMMA BroadcastIInv ==
  ASSUME IInv, NEW kind \in Kinds, NEW s \in Sessions, Broadcast(kind, s)
  PROVE  IInv'
<1> USE DEF IInv
<1>1. StateOK'
  BY DEF StateOK, Broadcast, channelVars, clientVars
<1>2. ASSUME NEW ch \in Channels
      PROVE  /\ net'[ch] \in Queue
             /\ ch \notin channels => net'[ch] = net[ch]
  <2>1. net[ch] \in Queue
    BY DEF NetOK
  <2>2. Append(net[ch], Announcement(kind, s)) \in Queue
    BY <2>1, AnnounceToQueue
  <2>3. QED
    BY <2>1, <2>2 DEF Broadcast, Sent, Recipients
<1>3. NetOK'
  <2>1. net' \in [Channels -> Queue]
    BY <1>2 DEF Broadcast
  <2>2. ASSUME NEW ch \in Channels, hello'[ch] \in {"none", "pending"}
        PROVE  net'[ch] = << >>
    BY <1>2, <2>2 DEF NetOK, JoinedHasList, Broadcast, channelVars
  <2>3. QED
    BY <2>1, <2>2 DEF NetOK
<1>4. JoinedHasList' /\ IdleHasNoTask'
  BY DEF Broadcast, JoinedHasList, IdleHasNoTask, channelVars
<1>5. QED
  BY <1>1, <1>3, <1>4

LEMMA ConnectIInv ==
  ASSUME IInv, NEW ch \in Channels, Connect(ch)
  PROVE  IInv'
<1> USE DEF IInv
<1> DEFINE old == current[Owner[ch]]
<1>1. StateOK'
  BY DEF StateOK, Connect, agentVars
<1>2. \/ UNCHANGED net
      \/ /\ old \in Channels
         /\ \E q \in Prefixes(net[old]) : net' = [net EXCEPT ![old] = q]
  BY DEF Connect, StateOK
<1>3. /\ net' \in [Channels -> Queue]
      /\ \A d \in Channels : net[d] = << >> => net'[d] = << >>
  BY <1>2, PrefixOfQueue DEF NetOK
<1>4. hello[ch] = "none" /\ ch \notin channels
  BY DEF Connect, IdleHasNoTask, JoinedHasList
<1>5. NetOK'
  BY <1>3, <1>4 DEF NetOK, Connect, StateOK
<1>6. JoinedHasList' /\ IdleHasNoTask'
  BY <1>4 DEF JoinedHasList, IdleHasNoTask, Connect, StateOK
<1>7. QED
  BY <1>1, <1>5, <1>6

LEMMA SendListIInv ==
  ASSUME IInv, NEW ch \in Channels, SendList(ch)
  PROVE  IInv'
<1> USE DEF IInv
<1>1. StateOK'
  BY DEF StateOK, SendList, agentVars, clientVars
<1>2. net[ch] = << >> /\ registry \in SUBSET Sessions
  BY DEF SendList, NetOK, StateOK
<1>3. Sent(ch, ListMessage(registry)) \in Queue
  BY <1>2, ListToQueue DEF Sent
<1>4. NetOK'
  BY <1>3 DEF NetOK, SendList, StateOK
<1>5. JoinedHasList' /\ IdleHasNoTask'
  BY DEF JoinedHasList, IdleHasNoTask, SendList, StateOK
<1>6. QED
  BY <1>1, <1>4, <1>5

LEMMA HandlerIInv ==
  ASSUME IInv, NEW ch \in Channels,
         HandlerGone(ch) \/ AddChannel(ch) \/ RemoveChannel(ch)
  PROVE  IInv'
<1> USE DEF IInv
<1>1. CASE HandlerGone(ch)
  BY <1>1 DEF HandlerGone, StateOK, NetOK, JoinedHasList, IdleHasNoTask,
              agentVars, clientVars
<1>2. CASE AddChannel(ch)
  BY <1>2 DEF AddChannel, With, StateOK, NetOK, JoinedHasList, IdleHasNoTask,
              agentVars, clientVars
<1>3. CASE RemoveChannel(ch)
  BY <1>3 DEF RemoveChannel, Without, StateOK, NetOK, JoinedHasList, IdleHasNoTask,
              agentVars, clientVars
<1>4. QED
  BY <1>1, <1>2, <1>3

LEMMA InactiveIInv ==
  ASSUME IInv, NEW ch \in Channels, ChannelInactive(ch)
  PROVE  IInv'
<1> USE DEF IInv
<1>1. StateOK'
  BY DEF StateOK, ChannelInactive, agentVars, clientVars
<1>2. \E q \in Prefixes(net[ch]) : net' = [net EXCEPT ![ch] = q]
  BY DEF ChannelInactive
<1>3. /\ net' \in [Channels -> Queue]
      /\ \A d \in Channels : net[d] = << >> => net'[d] = << >>
  BY <1>2, PrefixOfQueue DEF NetOK
<1>4. NetOK' /\ JoinedHasList' /\ IdleHasNoTask'
  BY <1>3 DEF NetOK, JoinedHasList, IdleHasNoTask, ChannelInactive, StateOK
<1>5. QED
  BY <1>1, <1>4

LEMMA ApplyIInv ==
  ASSUME IInv, NEW ch \in Channels, NEW i \in DOMAIN net[ch], Apply(ch, i)
  PROVE  IInv'
<1> USE DEF IInv
<1>1. net[ch] \in Queue /\ Owner[ch] \in Clients
  BY DEF NetOK
<1>2. net[ch][i] \in Message
  BY <1>1, LenProperties, ElementOfSeq DEF Queue
<1>3. StateOK'
  BY <1>1, <1>2, AppliedType DEF StateOK, Apply, agentVars, channelVars
<1>4. RemoveAt(net[ch], i) \in Queue
  BY <1>1, RemoveFromQueue
<1>5. net[ch] # << >>
  BY <1>1, LenProperties DEF Queue
<1>6. NetOK'
  BY <1>4, <1>5 DEF NetOK, Apply, channelVars
<1>7. JoinedHasList' /\ IdleHasNoTask'
  BY DEF JoinedHasList, IdleHasNoTask, Apply, channelVars
<1>8. QED
  BY <1>3, <1>6, <1>7

LEMMA NextIInv == IInv /\ [Next]_vars => IInv'
<1> SUFFICES ASSUME IInv, [Next]_vars PROVE IInv'
  OBVIOUS
<1>1. ASSUME NEW kind \in Kinds, SetCallback(kind) PROVE IInv'
  <2>1. StateOK'
    BY <1>1 DEF IInv, StateOK, SetCallback, channelVars, clientVars
  <2>2. QED
    BY <1>1, <2>1 DEF IInv, SetCallback, NetOK, JoinedHasList, IdleHasNoTask,
                               channelVars
<1>2. ASSUME NEW s \in Sessions, Register(s) \/ RemoveSession(s) PROVE IInv'
  BY <1>2, RegistryIInv
<1>3. ASSUME NEW kind \in Kinds, NEW s \in Sessions, Broadcast(kind, s) PROVE IInv'
  BY <1>3, BroadcastIInv
<1>4. ASSUME NEW ch \in Channels,
             \/ Connect(ch) \/ SendList(ch) \/ HandlerGone(ch) \/ AddChannel(ch)
             \/ ChannelInactive(ch) \/ RemoveChannel(ch) \/ ApplyAny(ch)
      PROVE  IInv'
  BY <1>4, ConnectIInv, SendListIInv, HandlerIInv, InactiveIInv, ApplyIInv DEF ApplyAny
<1>5. CASE UNCHANGED vars
  BY <1>5 DEF IInv, StateOK, NetOK, JoinedHasList, IdleHasNoTask,
                       vars, agentVars, channelVars, clientVars
<1>6. QED
  BY <1>1, <1>2, <1>3, <1>4, <1>5 DEF Next

\* The tasks of the Mac and the phones keep the inductive invariant of the
\* handshake.
THEOREM Invariance == Spec => []IInv
BY InitIInv, NextIInv, PTL DEF Spec

\* Every variable of the model keeps its type, for any number of sessions,
\* channels and phones.
THEOREM TypeCorrect == Spec => []TypeOK
BY Invariance, IInvImplies, PTL

\* Whatever the tasks' order, a channel's list of sessions is the first thing
\* on its wire and nothing is sent before it: the phone never replaces its
\* list by one older than an announcement it received in order.
THEOREM ListFirst == Spec => []ListComesFirst
BY Invariance, IInvImplies, PTL
-----------------------------------------------------------------------------
(***************************************************************************)
(* Why a settled iOS phone shows exactly what the registry holds.  The     *)
(* question is asked of what is still on the wire: WillShow(c, s) says     *)
(* what phone c will show of session s once it has applied, in order, all  *)
(* that is queued for it.  A settled phone has nothing queued, so there    *)
(* WillShow is what it shows.                                              *)
(***************************************************************************)

\* Message m changes or confirms what an iOS phone shows of session s.
About(m, s) == m.type = "sessions" \/ s \in m.ids

\* After m the phone shows s.
Says(m, s) == s \in m.ids /\ m.type # "sessionClosed"

\* The last message of q about s decides; without one, what was shown does.
Final(q, shown, s) ==
  \/ shown /\ \A i \in 1 .. Len(q) : ~About(q[i], s)
  \/ \E i \in 1 .. Len(q) :
       /\ About(q[i], s) /\ Says(q[i], s)
       /\ \A j \in 1 .. Len(q) : j > i => ~About(q[j], s)

WillShow(c, s) == Final(net[current[c]], s \in Shown(c), s)

LEMMA FinalOfEmpty ==
  ASSUME NEW shown, NEW s
  PROVE  Final(<< >>, shown, s) <=> shown
BY DEF Final

LEMMA FinalOfAppend ==
  ASSUME NEW q \in Seq(Message), NEW m \in Message, NEW shown \in BOOLEAN, NEW s
  PROVE  Final(Append(q, m), shown, s) <=>
           IF About(m, s) THEN Says(m, s) ELSE Final(q, shown, s)
<1> DEFINE r == Append(q, m)
           n == Len(q)
<1>1. n \in Nat
  BY LenProperties
<1>2. Len(r) = n + 1 /\ r[n + 1] = m /\ \A i \in 1 .. n : r[i] = q[i]
  BY <1>1
<1> HIDE DEF r, n
<1>3. 1 .. n + 1 = (1 .. n) \cup {n + 1}
  BY <1>1
<1>4. CASE About(m, s)
  <2>1. ASSUME Says(m, s) PROVE Final(r, shown, s)
    BY <1>1, <1>2, <1>4, <2>1 DEF Final
  <2>2. ASSUME Final(r, shown, s) PROVE Says(m, s)
    <3>1. ~ \A i \in 1 .. n + 1 : ~About(r[i], s)
      BY <1>1, <1>2, <1>4
    <3>2. PICK i \in 1 .. n + 1 :
            /\ Says(r[i], s)
            /\ \A j \in 1 .. n + 1 : j > i => ~About(r[j], s)
      BY <1>2, <2>2, <3>1 DEF Final
    <3>3. i = n + 1
      BY <1>1, <1>2, <1>4, <3>2
    <3>4. QED
      BY <1>2, <3>2, <3>3
  <2>3. QED
    BY <1>4, <2>1, <2>2 DEF r
<1>5. CASE ~About(m, s)
  <2>1. (\A i \in 1 .. n + 1 : ~About(r[i], s)) <=> \A i \in 1 .. n : ~About(q[i], s)
    BY <1>2, <1>3, <1>5
  <2>2. ASSUME NEW i \in 1 .. n
        PROVE  (\A j \in 1 .. n + 1 : j > i => ~About(r[j], s)) <=>
                 \A j \in 1 .. n : j > i => ~About(q[j], s)
    BY <1>2, <1>3, <1>5
  <2>3. (\E i \in 1 .. n + 1 :
           /\ About(r[i], s) /\ Says(r[i], s)
           /\ \A j \in 1 .. n + 1 : j > i => ~About(r[j], s))
        <=>
        (\E i \in 1 .. n :
           /\ About(q[i], s) /\ Says(q[i], s)
           /\ \A j \in 1 .. n : j > i => ~About(q[j], s))
    BY <1>2, <1>3, <1>5, <2>2
  <2>4. Final(r, shown, s) <=> Final(q, shown, s)
    BY <1>2, <2>1, <2>3 DEF Final, n
  <2>5. QED
    BY <1>5, <2>4 DEF r
<1>6. QED
  BY <1>4, <1>5

\* Applying the first message changes nothing of what will be shown in the end.
LEMMA FinalOfTail ==
  ASSUME NEW q \in Seq(Message), 1 \in 1 .. Len(q), NEW shown \in BOOLEAN, NEW s
  PROVE  Final(RemoveAt(q, 1), IF About(q[1], s) THEN Says(q[1], s) ELSE shown, s)
           <=> Final(q, shown, s)
<1> DEFINE r == RemoveAt(q, 1)
           n == Len(q)
           then == IF About(q[1], s) THEN Says(q[1], s) ELSE shown
<1>1. n \in Nat /\ n >= 1
  BY LenProperties
<1>2. Len(r) = n - 1 /\ \A j \in 1 .. n - 1 : r[j] = q[j + 1]
  BY <1>1, RemoveAtElements
<1> HIDE DEF r, n
<1>3. \A j \in 2 .. n : j - 1 \in 1 .. n - 1 /\ q[j] = r[j - 1]
  <2>1. ASSUME NEW j \in 2 .. n PROVE j - 1 \in 1 .. n - 1 /\ (j - 1) + 1 = j
    BY <1>1
  <2>2. QED
    BY <1>2, <2>1
<1>4. 1 .. n = {1} \cup (2 .. n)
  BY <1>1
<1>5. \A j \in 1 .. n - 1 : j + 1 \in 2 .. n
  BY <1>1
<1>6. (\A i \in 1 .. n - 1 : ~About(r[i], s)) <=> \A i \in 2 .. n : ~About(q[i], s)
  BY <1>2, <1>3, <1>5
<1>7. ASSUME NEW i \in 1 .. n - 1
      PROVE  (\A j \in 1 .. n - 1 : j > i => ~About(r[j], s)) <=>
               \A j \in 1 .. n : j > i + 1 => ~About(q[j], s)
  <2>1. ASSUME \A j \in 1 .. n - 1 : j > i => ~About(r[j], s),
               NEW j \in 1 .. n, j > i + 1
        PROVE  ~About(q[j], s)
    <3>1. j \in 2 .. n /\ j - 1 > i
      BY <1>1, <2>1
    <3>2. QED
      BY <1>3, <2>1, <3>1
  <2>2. ASSUME \A j \in 1 .. n : j > i + 1 => ~About(q[j], s),
               NEW j \in 1 .. n - 1, j > i
        PROVE  ~About(r[j], s)
    <3>1. j + 1 \in 1 .. n /\ j + 1 > i + 1
      BY <1>1, <2>2
    <3>2. QED
      BY <1>2, <2>2, <3>1
  <2>3. QED
    BY <2>1, <2>2
<1> DEFINE Decides(i) == /\ About(q[i], s) /\ Says(q[i], s)
                         /\ \A j \in 1 .. n : j > i => ~About(q[j], s)
           DecidesInRest(i) == /\ About(r[i], s) /\ Says(r[i], s)
                               /\ \A j \in 1 .. n - 1 : j > i => ~About(r[j], s)
<1>8. \A i \in 1 .. n - 1 : DecidesInRest(i) <=> Decides(i + 1)
  BY <1>2, <1>7
<1>9. \A i \in 2 .. n : i - 1 \in 1 .. n - 1 /\ (i - 1) + 1 = i
  BY <1>1
<1>10. Decides(1) <=> About(q[1], s) /\ Says(q[1], s) /\ \A i \in 2 .. n : ~About(q[i], s)
  BY <1>1
<1> HIDE DEF Decides, DecidesInRest
<1>11. (\E i \in 1 .. n - 1 : DecidesInRest(i)) <=> \E i \in 2 .. n : Decides(i)
  BY <1>5, <1>8, <1>9
<1>12. (\E i \in 1 .. n : Decides(i)) <=> Decides(1) \/ \E i \in 2 .. n : Decides(i)
  BY <1>4
<1>13. (\A i \in 1 .. n : ~About(q[i], s)) <=>
         ~About(q[1], s) /\ \A i \in 2 .. n : ~About(q[i], s)
  BY <1>4
<1>14. Final(q, shown, s) <=>
         \/ shown /\ ~About(q[1], s) /\ \A i \in 2 .. n : ~About(q[i], s)
         \/ Decides(1)
         \/ \E i \in 2 .. n : Decides(i)
  BY <1>12, <1>13 DEF Final, n, Decides
<1>15. Final(r, then, s) <=>
         \/ then /\ \A i \in 2 .. n : ~About(q[i], s)
         \/ \E i \in 2 .. n : Decides(i)
  <2>1. Final(r, then, s) <=>
          \/ then /\ \A i \in 1 .. n - 1 : ~About(r[i], s)
          \/ \E i \in 1 .. n - 1 : DecidesInRest(i)
    BY <1>2 DEF Final, DecidesInRest
  <2>2. QED
    BY <1>6, <1>11, <2>1
<1>16. Final(r, then, s) <=> Final(q, shown, s)
  BY <1>10, <1>14, <1>15
<1>17. QED
  BY <1>16 DEF r

-----------------------------------------------------------------------------
(***************************************************************************)
(* The inductive invariant behind NoSessionMissed and NoGhostSession.      *)
(***************************************************************************)

CurrentIsOwn == \A c \in Clients : current[c] # NoChannel => Owner[current[c]] = c

\* A channel leaves the broadcaster only after it was closed.
OpenIsListed ==
  \A ch \in Channels :
    /\ conn[ch] \in {"idle", "open"} => bye[ch] = "none"
    /\ conn[ch] = "open" /\ hello[ch] = "added" => ch \in channels

\* Nothing is announced of a session before it exists, nor its closing while
\* it is open.
ClosingsFollow ==
  \A s \in Sessions :
    /\ s \notin used => \A kind \in Kinds : task[<<kind, s>>] = "none"
    /\ s \in registry => task[<<"closed", s>>] = "none"

\* The phones the two properties speak of, from their list on.
Tracked(c) ==
  /\ Connected(c) /\ ~disordered[c]
  /\ hello[current[c]] \in {"listed", "added"}

\* What the wire holds agrees with the list while the channel has not joined
\* the broadcaster, and always with the registry, but for announcements that
\* are still to come, were never made, or raced.
Synced(c, s) ==
  LET ch == current[c]
  IN /\ hello[ch] = "listed" => (WillShow(c, s) <=> s \in snapshot[ch])
     /\ s \in registry =>
          WillShow(c, s) \/ s \in raced[ch] \/ task[<<"opened", s>>] # "sent"
     /\ WillShow(c, s) => s \in used
     /\ WillShow(c, s) =>
          s \in registry \/ s \in raced[ch] \/ task[<<"closed", s>>] # "sent"

InSync == \A c \in IOS, s \in Sessions : Tracked(c) => Synced(c, s)

SyncInv == IInv /\ CurrentIsOwn /\ OpenIsListed /\ ClosingsFollow /\ InSync

LEMMA InitSyncInv == Init => SyncInv
<1> SUFFICES ASSUME Init PROVE SyncInv
  OBVIOUS
<1>1. IInv
  BY InitIInv
<1>2. CurrentIsOwn /\ OpenIsListed /\ ClosingsFollow
  BY DEF Init, CurrentIsOwn, OpenIsListed, ClosingsFollow
<1>3. InSync
  BY DEF Init, InSync, Tracked, Connected, IOS
<1>4. QED
  BY <1>1, <1>2, <1>3 DEF SyncInv

LEMMA WillShowNext ==
  ASSUME NEW c, NEW s
  PROVE  WillShow(c, s)' <=>
           Final(net'[current'[c]], s \in store'[c].list \cap store'[c].active, s)
BY DEF WillShow, Shown, Final

\* A step that leaves a phone's channel, its queue and its store alone leaves
\* alone what the phone will show.
LEMMA WillShowFrame ==
  ASSUME NEW c, NEW s, current'[c] = current[c], store'[c] = store[c],
         net'[current[c]] = net[current[c]]
  PROVE  WillShow(c, s)' <=> WillShow(c, s)
BY WillShowNext DEF WillShow, Shown

\* A step that adds no phone to the tracked ones and changes for them neither
\* what they will show nor the snapshot they wait on, nor the agent's side.
LEMMA SyncedFrame ==
  ASSUME SyncInv, UNCHANGED <<agentVars, raced>>,
         NEW c \in IOS, NEW s \in Sessions, Tracked(c),
         current'[c] = current[c], WillShow(c, s)' <=> WillShow(c, s),
         \/ hello'[current[c]] = "added"
         \/ /\ hello'[current[c]] = hello[current[c]]
            /\ snapshot'[current[c]] = snapshot[current[c]]
  PROVE  Synced(c, s)'
<1>1. Synced(c, s)
  BY DEF SyncInv, InSync
<1>2. (hello[current[c]] = "listed" => (WillShow(c, s) <=> s \in snapshot[current[c]]))'
  BY <1>1 DEF Synced
<1>3. QED
  BY <1>1, <1>2 DEF Synced, agentVars

LEMMA TrackedChannel ==
  ASSUME SyncInv, NEW c \in IOS, Connected(c)
  PROVE  /\ c \in Clients /\ c \notin Android
         /\ current[c] \in Channels /\ Owner[current[c]] = c
         /\ conn[current[c]] = "open"
         /\ net[current[c]] \in Seq(Message)
BY DEF SyncInv, IInv, StateOK, NetOK, Queue, CurrentIsOwn, Connected, IOS

\* The registry's own steps only put announcements off.
LEMMA RegistrySync ==
  ASSUME SyncInv, IInv', NEW s \in Sessions, Register(s) \/ RemoveSession(s)
  PROVE  SyncInv'
<1> USE DEF SyncInv
<1>1. UNCHANGED <<channelVars, clientVars, net, raced>>
  BY DEF Register, RemoveSession
<1>2. CurrentIsOwn' /\ OpenIsListed'
  BY <1>1 DEF CurrentIsOwn, OpenIsListed, channelVars, clientVars
<1>3. ClosingsFollow'
  <2>1. CASE Register(s)
    BY <2>1 DEF ClosingsFollow, Register, Notify, IInv, StateOK
  <2>2. CASE RemoveSession(s)
    <3>1. /\ used' = used /\ s \in used
          /\ registry' \subseteq registry /\ s \notin registry'
      BY <2>2 DEF RemoveSession, IInv, StateOK
    <3>2. \A t \in Kinds \X Sessions : t # <<"closed", s>> => task'[t] = task[t]
      BY <2>2 DEF RemoveSession, Notify, IInv, StateOK
    <3>3. \A x \in Sessions, k \in Kinds : x # s => task'[<<k, x>>] = task[<<k, x>>]
      BY <3>2
    <3>4. QED
      BY <3>1, <3>3 DEF ClosingsFollow
  <2>3. QED
    BY <2>1, <2>2
<1>4. ASSUME NEW c \in IOS, NEW x \in Sessions, Tracked(c)' PROVE Synced(c, x)'
  <2>1. Tracked(c) /\ Synced(c, x)
    BY <1>1, <1>4 DEF InSync, Tracked, Connected, channelVars, clientVars
  <2>2. WillShow(c, x)' <=> WillShow(c, x)
    BY <1>1, WillShowFrame DEF clientVars
  <2>3. /\ (hello[current[c]] = "listed" => (WillShow(c, x) <=> x \in snapshot[current[c]]))'
        /\ (WillShow(c, x) => x \in used)'
    BY <1>1, <2>1, <2>2 DEF Synced, channelVars, clientVars, Register, RemoveSession
  <2>4. CASE Register(s)
    <3>1. \A t \in Kinds \X Sessions :
            t # <<"opened", s>> => task'[t] = task[t]
      BY <2>4 DEF Register, Notify, IInv, StateOK
    <3>2. task'[<<"opened", s>>] # "sent"
      BY <2>4 DEF Register, Notify, ClosingsFollow, IInv, StateOK
    <3>3. x # s => (x \in registry' <=> x \in registry)
      BY <2>4 DEF Register
    <3>4. x = s => x \in registry'
      BY <2>4 DEF Register
    <3>5. QED
      BY <1>1, <2>1, <2>2, <2>3, <3>1, <3>2, <3>3, <3>4 DEF Synced, channelVars, clientVars
  <2>5. CASE RemoveSession(s)
    <3>1. \A t \in Kinds \X Sessions :
            t # <<"closed", s>> => task'[t] = task[t]
      BY <2>5 DEF RemoveSession, Notify, IInv, StateOK
    <3>2. task'[<<"closed", s>>] # "sent"
      BY <2>5 DEF RemoveSession, Notify, ClosingsFollow, IInv, StateOK
    <3>3. x # s => (x \in registry' <=> x \in registry)
      BY <2>5 DEF RemoveSession
    <3>4. x \in registry' => x \in registry
      BY <2>5 DEF RemoveSession
    <3>5. QED
      BY <1>1, <2>1, <2>2, <2>3, <3>1, <3>2, <3>3, <3>4 DEF Synced, channelVars, clientVars
  <2>6. QED
    BY <2>4, <2>5
<1>5. QED
  BY <1>2, <1>3, <1>4 DEF InSync

LEMMA AnnouncementSays ==
  ASSUME NEW kind \in Kinds, NEW s \in Sessions, NEW x \in Sessions
  PROVE  /\ Announcement(kind, s) \in Message
         /\ About(Announcement(kind, s), x) <=> x = s
         /\ Says(Announcement(kind, s), s) <=> kind = "opened"
BY DEF Announcement, Message, About, Says

\* A broadcast reaches the tracked phones that have joined.  One that has not
\* joined has the change in its list already, or the change is raced.
LEMMA BroadcastSync ==
  ASSUME SyncInv, IInv', NEW kind \in Kinds, NEW s \in Sessions, Broadcast(kind, s)
  PROVE  SyncInv'
<1> USE DEF SyncInv
<1>1. /\ UNCHANGED <<registry, used, wired, channelVars, clientVars>>
      /\ task[<<kind, s>>] = "pending"
      /\ task'[<<kind, s>>] = "sent"
      /\ \A t \in Kinds \X Sessions : t # <<kind, s>> => task'[t] = task[t]
  BY DEF Broadcast, IInv, StateOK
<1>2. CurrentIsOwn' /\ OpenIsListed'
  BY <1>1 DEF CurrentIsOwn, OpenIsListed, channelVars, clientVars
<1>3. s \in used /\ (kind = "closed" => s \notin registry)
  BY <1>1 DEF ClosingsFollow
<1>4. ClosingsFollow'
  BY <1>1, <1>3 DEF ClosingsFollow
<1>5. ASSUME NEW c \in IOS, NEW x \in Sessions, Tracked(c)' PROVE Synced(c, x)'
  <2> DEFINE ch == current[c]
  <2>1. Tracked(c) /\ Synced(c, x) /\ Synced(c, s)
    BY <1>1, <1>5 DEF InSync, Tracked, Connected, channelVars, clientVars
  <2>2. /\ ch \in Channels /\ Owner[ch] = c /\ conn[ch] = "open"
        /\ net[ch] \in Seq(Message)
    BY <2>1, TrackedChannel DEF Tracked
  <2>3. /\ raced[ch] \subseteq raced'[ch]
        /\ Misses(ch, kind, s) \/ Overtaken(ch, kind, s) => s \in raced'[ch]
    BY <2>2 DEF Broadcast
  <2>4. current'[c] = ch /\ store'[c] = store[c]
        /\ hello'[ch] = hello[ch] /\ snapshot'[ch] = snapshot[ch]
    BY <1>1 DEF channelVars, clientVars
  <2>5. CASE hello[ch] = "listed"
    <3>1. ch \notin channels
      BY <2>5 DEF IInv, JoinedHasList
    <3>2. net'[ch] = net[ch]
      BY <2>2, <3>1 DEF Broadcast, Recipients
    <3>3. WillShow(c, x)' <=> WillShow(c, x)
      BY <2>4, <3>2, WillShowFrame
    <3>4. (kind = "opened") # (s \in snapshot[ch]) => s \in raced'[ch]
      BY <2>3, <2>5 DEF Misses
    <3>5. WillShow(c, s) <=> s \in snapshot[ch]
      BY <2>1, <2>5 DEF Synced
    <3>6. CASE x = s
      <4>1. kind = "opened" => s \in raced'[ch] \/ WillShow(c, s)
        BY <3>4, <3>5
      <4>2. kind = "closed" => s \in raced'[ch] \/ ~WillShow(c, s)
        BY <3>4, <3>5
      <4>3. kind = "opened" \/ kind = "closed"
        OBVIOUS
      <4>4. /\ kind = "opened" => task'[<<"closed", s>>] = task[<<"closed", s>>]
            /\ kind = "closed" => task'[<<"opened", s>>] = task[<<"opened", s>>]
        BY <1>1
      <4>5. QED
        BY <1>1, <1>3, <2>1, <2>3, <2>4, <3>3, <3>6, <4>1, <4>2, <4>3, <4>4 DEF Synced
    <3>7. CASE x # s
      <4>1. \A k \in Kinds : task'[<<k, x>>] = task[<<k, x>>]
        BY <1>1, <3>7
      <4>2. QED
        BY <1>1, <2>1, <2>3, <2>4, <3>3, <4>1 DEF Synced
    <3>8. QED
      BY <3>6, <3>7
  <2>6. CASE hello[ch] = "added"
    <3>1. ch \in channels
      BY <2>2, <2>6 DEF OpenIsListed
    <3>2. net'[ch] = Append(net[ch], Announcement(kind, s))
      <4>1. Listening(ch)
        BY <2>2 DEF Listening
      <4>2. QED
        BY <2>2, <3>1, <4>1 DEF Broadcast, Recipients, Sent
    <3>3. WillShow(c, x)' <=>
            Final(Append(net[ch], Announcement(kind, s)), x \in Shown(c), x)
      BY <2>4, <3>2, WillShowNext DEF Shown
    <3>4. WillShow(c, x)' <=> IF x = s THEN kind = "opened" ELSE WillShow(c, x)
      <4> DEFINE m == Announcement(kind, s)
                 shown == x \in Shown(c)
      <4>1. m \in Message /\ shown \in BOOLEAN
        BY AnnouncementSays
      <4>2. Final(Append(net[ch], m), shown, x) <=>
              IF About(m, x) THEN Says(m, x) ELSE Final(net[ch], shown, x)
        <5> HIDE DEF m, shown
        <5>1. QED
          BY <2>2, <4>1, FinalOfAppend
      <4>3. (About(m, x) <=> x = s) /\ (x = s => (Says(m, x) <=> kind = "opened"))
        BY AnnouncementSays
      <4>4. WillShow(c, x) <=> Final(net[ch], shown, x)
        BY DEF WillShow
      <4>5. WillShow(c, x)' <=> Final(Append(net[ch], m), shown, x)
        BY <3>3
      <4> HIDE DEF m, shown
      <4>6. QED
        BY <4>2, <4>3, <4>4, <4>5
    <3>5. CASE x = s
      <4>1. kind = "opened" => s \in raced'[ch] \/ task'[<<"closed", s>>] # "sent"
        BY <1>1, <2>3, <3>1 DEF Overtaken
      <4>2. QED
        BY <1>1, <1>3, <2>4, <2>6, <3>4, <3>5, <4>1 DEF Synced
    <3>6. CASE x # s
      <4>1. \A k \in Kinds : task'[<<k, x>>] = task[<<k, x>>]
        BY <1>1, <3>6
      <4>2. QED
        BY <1>1, <2>1, <2>3, <2>4, <2>6, <3>4, <3>6, <4>1 DEF Synced
    <3>7. QED
      BY <3>5, <3>6
  <2>7. QED
    BY <2>1, <2>5, <2>6 DEF Tracked
<1>6. QED
  BY <1>2, <1>4, <1>5 DEF InSync

\* A new channel is not tracked yet, and the phone that opens it owns every
\* queue the step can shorten.
LEMMA ConnectSync ==
  ASSUME SyncInv, IInv', NEW ch \in Channels, Connect(ch)
  PROVE  SyncInv'
<1> USE DEF SyncInv
<1> DEFINE own == Owner[ch]
<1>1. /\ UNCHANGED <<agentVars, channels, snapshot, bye, store, disordered, raced>>
      /\ conn[ch] = "idle" /\ hello[ch] = "none" /\ own \in Clients
      /\ conn' = [conn EXCEPT ![ch] = "open"]
      /\ hello' = [hello EXCEPT ![ch] = "pending"]
      /\ current' = [current EXCEPT ![own] = ch]
  BY DEF Connect, IInv, IdleHasNoTask
<1>2. \A d \in Channels : net'[d] # net[d] => Owner[d] = own
  <2>1. CASE UNCHANGED net
    BY <2>1
  <2>2. CASE ~UNCHANGED net
    <3>1. current[own] # NoChannel
      BY <2>2 DEF Connect
    <3>2. Owner[current[own]] = own
      BY <1>1, <3>1 DEF CurrentIsOwn
    <3>3. \A d \in Channels : d # current[own] => net'[d] = net[d]
      BY <2>2 DEF Connect, IInv, NetOK
    <3>4. QED
      BY <3>2, <3>3
  <2>3. QED
    BY <2>1, <2>2
<1>3. CurrentIsOwn'
  BY <1>1 DEF CurrentIsOwn, IInv, StateOK
<1>4. OpenIsListed'
  BY <1>1 DEF OpenIsListed, IInv, StateOK
<1>5. ClosingsFollow'
  BY <1>1 DEF ClosingsFollow, agentVars
<1>6. ASSUME NEW c \in IOS, NEW x \in Sessions, Tracked(c)' PROVE Synced(c, x)'
  <2>1. c \in Clients
    BY DEF IOS
  <2>2. c # own
    BY <1>1, <1>6 DEF Tracked, IInv, StateOK
  <2>3. current'[c] = current[c] /\ current[c] # NoChannel
    BY <1>1, <1>6, <2>1, <2>2 DEF Tracked, Connected, IInv, StateOK
  <2>4. current[c] \in Channels /\ Owner[current[c]] = c
    BY <2>1, <2>3 DEF CurrentIsOwn, IInv, StateOK
  <2>5. current[c] # ch
    BY <2>2, <2>4
  <2>6. Tracked(c)
    BY <1>1, <1>6, <2>3, <2>4, <2>5 DEF Tracked, Connected, IInv, StateOK
  <2>7. net'[current[c]] = net[current[c]]
    BY <1>2, <2>2, <2>4
  <2>8. WillShow(c, x)' <=> WillShow(c, x)
    BY <1>1, <2>3, <2>7, WillShowFrame
  <2>9. /\ hello'[current[c]] = hello[current[c]]
        /\ snapshot'[current[c]] = snapshot[current[c]]
    BY <1>1, <2>4, <2>5 DEF IInv, StateOK
  <2>10. QED
    BY <1>1, <2>3, <2>6, <2>8, <2>9, SyncedFrame
<1>7. QED
  BY <1>3, <1>4, <1>5, <1>6 DEF InSync

\* The list goes out first, so it alone decides what the phone will show.
LEMMA SendListSync ==
  ASSUME SyncInv, IInv', NEW ch \in Channels, SendList(ch)
  PROVE  SyncInv'
<1> USE DEF SyncInv
<1>1. /\ UNCHANGED <<agentVars, channels, conn, bye, clientVars, raced>>
      /\ hello[ch] = "pending" /\ net[ch] = << >>
      /\ hello' = [hello EXCEPT ![ch] = "listed"]
      /\ snapshot' = [snapshot EXCEPT ![ch] = registry]
      /\ net' = [net EXCEPT ![ch] = Sent(ch, ListMessage(registry))]
  BY DEF SendList, IInv, NetOK
<1>2. CurrentIsOwn' /\ ClosingsFollow'
  BY <1>1 DEF CurrentIsOwn, ClosingsFollow, agentVars, clientVars
<1>3. OpenIsListed'
  BY <1>1 DEF OpenIsListed, IInv, StateOK
<1>4. ASSUME NEW c \in IOS, NEW x \in Sessions, Tracked(c)' PROVE Synced(c, x)'
  <2>1. current'[c] = current[c] /\ store'[c] = store[c]
    BY <1>1 DEF clientVars
  <2>2. Connected(c) /\ ~disordered[c]
    BY <1>1, <1>4 DEF Tracked, Connected, clientVars
  <2>3. /\ current[c] \in Channels /\ Owner[current[c]] = c
        /\ conn[current[c]] = "open"
    BY <2>2, TrackedChannel
  <2>4. CASE current[c] = ch
    <3> DEFINE m == ListMessage(registry)
               shown == x \in Shown(c)
    <3>1. net'[ch] = Append(<< >>, m)
      <4>1. Listening(ch)
        BY <2>3, <2>4 DEF Listening
      <4>2. QED
        BY <1>1, <4>1 DEF Sent, IInv, NetOK
    <3>2. m \in Message /\ About(m, x) /\ (Says(m, x) <=> x \in registry)
      BY DEF ListMessage, Message, About, Says, IInv, StateOK
    <3>3. WillShow(c, x)' <=> Final(Append(<< >>, m), shown, x)
      BY <2>1, <2>4, <3>1, WillShowNext DEF Shown
    <3>4. shown \in BOOLEAN /\ << >> \in Seq(Message)
      OBVIOUS
    <3> HIDE DEF m, shown
    <3>5. WillShow(c, x)' <=> x \in registry
      <4>1. Final(Append(<< >>, m), shown, x) <=>
              IF About(m, x) THEN Says(m, x) ELSE Final(<< >>, shown, x)
        BY <3>2, <3>4, FinalOfAppend
      <4>2. QED
        BY <3>2, <3>3, <4>1
    <3>6. snapshot'[ch] = registry /\ registry' = registry /\ registry \subseteq used
          /\ used' = used
      BY <1>1 DEF agentVars, IInv, StateOK
    <3>7. QED
      BY <2>1, <2>4, <3>5, <3>6 DEF Synced
  <2>5. CASE current[c] # ch
    <3>1. /\ net'[current[c]] = net[current[c]]
          /\ hello'[current[c]] = hello[current[c]]
          /\ snapshot'[current[c]] = snapshot[current[c]]
      BY <1>1, <2>3, <2>5 DEF IInv, NetOK, StateOK
    <3>2. WillShow(c, x)' <=> WillShow(c, x)
      BY <2>1, <3>1, WillShowFrame
    <3>3. Tracked(c)
      BY <1>4, <2>1, <2>2, <3>1 DEF Tracked
    <3>4. QED
      BY <1>1, <2>1, <3>1, <3>2, <3>3, SyncedFrame
  <2>6. QED
    BY <2>4, <2>5
<1>5. QED
  BY <1>2, <1>3, <1>4 DEF InSync

\* Joining and leaving the broadcaster sends nothing.
LEMMA HandlerSync ==
  ASSUME SyncInv, IInv', NEW ch \in Channels,
         HandlerGone(ch) \/ AddChannel(ch) \/ RemoveChannel(ch)
  PROVE  SyncInv'
<1> USE DEF SyncInv
<1>1. UNCHANGED <<agentVars, conn, clientVars, net, raced>>
  BY DEF HandlerGone, AddChannel, RemoveChannel
<1>2. CurrentIsOwn' /\ ClosingsFollow'
  BY <1>1 DEF CurrentIsOwn, ClosingsFollow, agentVars, clientVars
<1>3. OpenIsListed'
  <2>1. CASE HandlerGone(ch)
    BY <2>1 DEF HandlerGone, OpenIsListed, IInv, StateOK
  <2>2. CASE AddChannel(ch)
    BY <2>2 DEF AddChannel, With, OpenIsListed, IInv, StateOK
  <2>3. CASE RemoveChannel(ch)
    <3>1. conn[ch] \notin {"idle", "open"}
      BY <2>3 DEF RemoveChannel, OpenIsListed
    <3>2. QED
      BY <2>3, <3>1 DEF RemoveChannel, Without, OpenIsListed, IInv, StateOK
  <2>4. QED
    BY <2>1, <2>2, <2>3
<1>4. ASSUME NEW c \in IOS, NEW x \in Sessions, Tracked(c)' PROVE Synced(c, x)'
  <2>1. current'[c] = current[c] /\ store'[c] = store[c] /\ net' = net
    BY <1>1 DEF clientVars
  <2>2. WillShow(c, x)' <=> WillShow(c, x)
    BY <2>1, WillShowFrame
  <2>3. Connected(c) /\ ~disordered[c]
    BY <1>1, <1>4 DEF Tracked, Connected, clientVars
  <2>4. current[c] \in Channels /\ conn[current[c]] = "open"
    BY <2>3, TrackedChannel
  <2>5. hello'[current[c]] \in {"listed", "added"}
    BY <1>4, <2>1 DEF Tracked
  <2>6. /\ hello[current[c]] \in {"listed", "added"}
        /\ \/ hello'[current[c]] = "added"
           \/ /\ hello'[current[c]] = hello[current[c]]
              /\ snapshot'[current[c]] = snapshot[current[c]]
    <3>1. CASE HandlerGone(ch)
      BY <2>4, <2>5, <3>1 DEF HandlerGone, IInv, StateOK
    <3>2. CASE AddChannel(ch)
      BY <2>4, <2>5, <3>2 DEF AddChannel, IInv, StateOK
    <3>3. CASE RemoveChannel(ch)
      BY <2>5, <3>3 DEF RemoveChannel
    <3>4. QED
      BY <3>1, <3>2, <3>3
  <2>7. QED
    BY <1>1, <2>1, <2>2, <2>3, <2>6, SyncedFrame DEF Tracked
<1>5. QED
  BY <1>2, <1>3, <1>4 DEF InSync

\* A phone whose channel ended is not tracked.
LEMMA InactiveSync ==
  ASSUME SyncInv, IInv', NEW ch \in Channels, ChannelInactive(ch)
  PROVE  SyncInv'
<1> USE DEF SyncInv
<1>1. /\ UNCHANGED <<agentVars, channels, hello, snapshot, clientVars, raced>>
      /\ conn' = [conn EXCEPT ![ch] = "closed"]
      /\ bye' = [bye EXCEPT ![ch] = "pending"]
      /\ \A d \in Channels : d # ch => net'[d] = net[d]
  BY DEF ChannelInactive, IInv, NetOK
<1>2. CurrentIsOwn' /\ ClosingsFollow'
  BY <1>1 DEF CurrentIsOwn, ClosingsFollow, agentVars, clientVars
<1>3. OpenIsListed'
  BY <1>1 DEF OpenIsListed, IInv, StateOK
<1>4. ASSUME NEW c \in IOS, NEW x \in Sessions, Tracked(c)' PROVE Synced(c, x)'
  <2>1. current'[c] = current[c] /\ store'[c] = store[c]
    BY <1>1 DEF clientVars
  <2>2. current[c] \in Channels /\ current[c] # ch
    BY <1>1, <1>4, <2>1 DEF Tracked, Connected, IInv, StateOK, IOS
  <2>3. Tracked(c) /\ net'[current[c]] = net[current[c]]
    BY <1>1, <1>4, <2>1, <2>2 DEF Tracked, Connected, IInv, StateOK, clientVars
  <2>4. WillShow(c, x)' <=> WillShow(c, x)
    BY <2>1, <2>3, WillShowFrame
  <2>5. QED
    BY <1>1, <2>1, <2>3, <2>4, SyncedFrame
<1>5. QED
  BY <1>2, <1>3, <1>4 DEF InSync

\* What one message makes of an iOS phone's screen.
LEMMA IOSApplyShows ==
  ASSUME StateOK, NEW c \in Clients, NEW m \in Message, NEW x \in Sessions
  PROVE  LET st == IOSApply(store[c], m)
         IN x \in st.list \cap st.active <=>
              IF About(m, x) THEN Says(m, x) ELSE x \in Shown(c)
<1> DEFINE st == IOSApply(store[c], m)
<1>1. /\ store[c] \in [list : SUBSET Sessions, active : SUBSET Sessions]
      /\ m.type \in {"sessions", "sessionOpened", "sessionClosed"}
  BY DEF StateOK, Message
<1>2. CASE m.type = "sessions"
  <2>1. st = [list |-> m.ids, active |-> store[c].active \cup m.ids]
    BY <1>2 DEF IOSApply
  <2>2. QED
    BY <1>2, <2>1 DEF About, Says
<1>3. CASE m.type = "sessionOpened"
  <2>1. st = [list |-> store[c].list \cup m.ids, active |-> store[c].active \cup m.ids]
    BY <1>3 DEF IOSApply
  <2>2. QED
    BY <1>3, <2>1 DEF About, Says, Shown
<1>4. CASE m.type = "sessionClosed"
  <2>1. st.list = store[c].list /\ st.active = store[c].active \ m.ids
    BY <1>1, <1>4 DEF IOSApply
  <2>2. QED
    BY <1>4, <2>1 DEF About, Says, Shown
<1>5. QED
  BY <1>1, <1>2, <1>3, <1>4

\* A phone that applies its messages in order will show the same in the end.
LEMMA ApplySync ==
  ASSUME SyncInv, IInv', NEW ch \in Channels, NEW i \in DOMAIN net[ch], Apply(ch, i)
  PROVE  SyncInv'
<1> USE DEF SyncInv
<1> DEFINE own == Owner[ch]
<1>1. /\ UNCHANGED <<agentVars, channelVars, current, raced>>
      /\ own \in Clients
      /\ store' = [store EXCEPT ![own] = Applied(own, net[ch][i])]
      /\ net' = [net EXCEPT ![ch] = RemoveAt(@, i)]
      /\ disordered' = [disordered EXCEPT ![own] = @ \/ i # 1 \/ ch # current[own]]
  BY DEF Apply
<1>2. CurrentIsOwn' /\ OpenIsListed' /\ ClosingsFollow'
  BY <1>1 DEF CurrentIsOwn, OpenIsListed, ClosingsFollow, agentVars, channelVars
<1>3. ASSUME NEW c \in IOS, NEW x \in Sessions, Tracked(c)' PROVE Synced(c, x)'
  <2>1. c \in Clients /\ current'[c] = current[c]
    BY <1>1 DEF IOS
  <2>2. Connected(c) /\ hello[current[c]] \in {"listed", "added"}
    BY <1>1, <1>3 DEF Tracked, Connected, channelVars
  <2>3. /\ c \notin Android
        /\ current[c] \in Channels /\ Owner[current[c]] = c
        /\ net[current[c]] \in Seq(Message)
    BY <2>2, TrackedChannel
  <2>4. ~disordered[c]
    BY <1>1, <1>3, <2>1 DEF Tracked, IInv, StateOK
  <2>5. Tracked(c)
    BY <2>2, <2>4 DEF Tracked
  <2>6. WillShow(c, x)' <=> WillShow(c, x)
    <3>1. CASE c # own
      <4>1. store'[c] = store[c] /\ net'[current[c]] = net[current[c]]
        BY <1>1, <2>1, <2>3, <3>1 DEF IInv, StateOK, NetOK
      <4>2. QED
        BY <2>1, <4>1, WillShowFrame
    <3>2. CASE c = own
      <4> DEFINE q == net[ch]
                 shown == x \in Shown(c)
                 st == IOSApply(store[c], q[1])
                 then == x \in st.list \cap st.active
      <4>1. ASSUME i # 1 \/ ch # current[c] PROVE disordered'[c]
        <5>1. disordered' = [disordered EXCEPT ![own] = TRUE]
          BY <1>1, <3>2, <4>1
        <5>2. QED
          BY <2>1, <3>2, <5>1 DEF IInv, StateOK
      <4>2. i = 1 /\ ch = current[c]
        BY <1>3, <4>1 DEF Tracked
      <4>3. q \in Seq(Message) /\ 1 \in 1 .. Len(q) /\ q[1] \in Message
        <5>1. q \in Seq(Message)
          BY <2>3, <4>2
        <5>2. QED
          BY <4>2, <5>1, LenProperties, ElementOfSeq
      <4>4. net'[current[c]] = RemoveAt(q, 1)
        BY <1>1, <4>2 DEF IInv, NetOK
      <4>5. store'[c] = st
        BY <1>1, <2>1, <2>3, <3>2, <4>2 DEF Applied, IInv, StateOK
      <4>6. WillShow(c, x)' <=> Final(RemoveAt(q, 1), then, x)
        BY <2>1, <4>4, <4>5, <4>2, WillShowNext
      <4>7. then <=> IF About(q[1], x) THEN Says(q[1], x) ELSE shown
        BY <2>1, <4>3, IOSApplyShows DEF IInv
      <4>8. WillShow(c, x) <=> Final(q, shown, x)
        BY <4>2 DEF WillShow
      <4>9. shown \in BOOLEAN /\ then \in BOOLEAN
        OBVIOUS
      <4> HIDE DEF q, shown, st, then
      <4>10. Final(RemoveAt(q, 1), IF About(q[1], x) THEN Says(q[1], x) ELSE shown, x)
               <=> Final(q, shown, x)
        BY <4>3, <4>9, FinalOfTail
      <4>11. then = IF About(q[1], x) THEN Says(q[1], x) ELSE shown
        <5>1. (IF About(q[1], x) THEN Says(q[1], x) ELSE shown) \in BOOLEAN
          BY <4>9 DEF About, Says
        <5>2. QED
          BY <4>7, <4>9, <5>1
      <4>12. QED
        BY <4>6, <4>8, <4>10, <4>11
    <3>3. QED
      BY <3>1, <3>2
  <2>7. QED
    BY <1>1, <2>1, <2>5, <2>6, SyncedFrame DEF channelVars
<1>4. QED
  BY <1>2, <1>3 DEF InSync

LEMMA NextSyncInv == SyncInv /\ [Next]_vars => SyncInv'
<1> SUFFICES ASSUME SyncInv, [Next]_vars PROVE SyncInv'
  OBVIOUS
<1>1. IInv'
  BY NextIInv DEF SyncInv
<1>2. CASE \/ UNCHANGED vars
           \/ \E kind \in Kinds : SetCallback(kind)
  <2>1. UNCHANGED <<registry, used, task, channelVars, clientVars, net, raced>>
    BY <1>2 DEF SetCallback, vars, agentVars
  <2>2. CurrentIsOwn' /\ OpenIsListed' /\ ClosingsFollow'
    BY <2>1 DEF SyncInv, CurrentIsOwn, OpenIsListed, ClosingsFollow, channelVars,
                clientVars
  <2>3. ASSUME NEW c \in IOS, NEW x \in Sessions, Tracked(c)' PROVE Synced(c, x)'
    <3>1. Tracked(c) /\ Synced(c, x)
      BY <2>1, <2>3 DEF SyncInv, InSync, Tracked, Connected, channelVars, clientVars
    <3>2. WillShow(c, x)' <=> WillShow(c, x)
      BY <2>1, WillShowFrame DEF clientVars
    <3>3. QED
      BY <2>1, <3>1, <3>2 DEF Synced, channelVars, clientVars
  <2>4. QED
    BY <1>1, <2>2, <2>3 DEF SyncInv, InSync
<1>3. ASSUME NEW s \in Sessions, Register(s) \/ RemoveSession(s) PROVE SyncInv'
  BY <1>1, <1>3, RegistrySync
<1>4. ASSUME NEW kind \in Kinds, NEW s \in Sessions, Broadcast(kind, s) PROVE SyncInv'
  BY <1>1, <1>4, BroadcastSync
<1>5. ASSUME NEW ch \in Channels,
             \/ Connect(ch) \/ SendList(ch) \/ HandlerGone(ch) \/ AddChannel(ch)
             \/ ChannelInactive(ch) \/ RemoveChannel(ch) \/ ApplyAny(ch)
      PROVE  SyncInv'
  BY <1>1, <1>5, ConnectSync, SendListSync, HandlerSync, InactiveSync, ApplySync
     DEF ApplyAny
<1>6. QED
  BY <1>2, <1>3, <1>4, <1>5 DEF Next

\* And what is on the wire for an iOS phone always ends in the registry's
\* sessions, but for what is still to be announced or was lost to a window.
THEOREM SyncInvariance == Spec => []SyncInv
BY InitSyncInv, NextSyncInv, PTL DEF Spec

\* Nothing is queued for a settled phone: what it will show, it shows.
LEMMA SettledShows ==
  ASSUME SyncInv, NEW c \in IOS, Settled(c), ~disordered[c], NEW s \in Sessions
  PROVE  /\ Synced(c, s)
         /\ WillShow(c, s) <=> s \in Shown(c)
         /\ \A kind \in Kinds : task[<<kind, s>>] \in {"none", "sent"}
<1>1. Connected(c) /\ Tracked(c)
  BY DEF Settled, Tracked
<1>2. current[c] \in Channels /\ Owner[current[c]] = c
  BY <1>1, TrackedChannel
<1>3. net[current[c]] = << >>
  BY <1>2 DEF Settled
<1>4. WillShow(c, s) <=> s \in Shown(c)
  <2> DEFINE shown == s \in Shown(c)
  <2>1. WillShow(c, s) <=> Final(<< >>, shown, s)
    BY <1>3 DEF WillShow
  <2> HIDE DEF shown
  <2>2. Final(<< >>, shown, s) <=> shown
    BY FinalOfEmpty
  <2>3. QED
    BY <2>1, <2>2 DEF shown
<1>5. Synced(c, s)
  BY <1>1 DEF SyncInv, InSync
<1>6. \A kind \in Kinds : task[<<kind, s>>] \in {"none", "sent"}
  BY DEF Settled, SyncInv, IInv, StateOK
<1>7. QED
  BY <1>4, <1>5, <1>6

\* Once everything has arrived, an iOS phone that applied its messages in
\* order shows every session of the registry, unless its announcement fell
\* into the gap between the list and the broadcaster or was never made.
THEOREM SessionsArrive == Spec => []NoSessionMissed
<1>1. SyncInv => NoSessionMissed
  <2> SUFFICES ASSUME SyncInv, NEW c \in IOS, Settled(c), ~disordered[c],
                      NEW s \in registry
               PROVE  s \in Shown(c) \/ s \in raced[current[c]] \/ Unannounced("opened", s)
    BY DEF NoSessionMissed
  <2>1. s \in Sessions /\ s \in used
    BY DEF SyncInv, IInv, StateOK
  <2>2. QED
    BY <2>1, SettledShows DEF Synced, Unannounced
<1>2. QED
  BY <1>1, SyncInvariance, PTL

\* And it shows no session as running that the registry has dropped, with the
\* same excuses: the broadcast of a closing takes its session off every screen.
THEOREM NoGhosts == Spec => []NoGhostSession
<1>1. SyncInv => NoGhostSession
  <2> SUFFICES ASSUME SyncInv, NEW c \in IOS, Settled(c), ~disordered[c],
                      NEW s \in Shown(c)
               PROVE  s \in registry \/ s \in raced[current[c]] \/ Unannounced("closed", s)
    BY DEF NoGhostSession
  <2>1. s \in Sessions
    BY DEF Shown, SyncInv, IInv, StateOK, IOS
  <2>2. QED
    BY <2>1, SettledShows DEF Synced, Unannounced
<1>2. QED
  BY <1>1, SyncInvariance, PTL
=============================================================================
