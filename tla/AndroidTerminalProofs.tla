------------------------ MODULE AndroidTerminalProofs ------------------------
(***************************************************************************)
(* Proofs about AndroidTerminal, and with it about TerminalPage, for any   *)
(* sessions and bounds: every safety property its run checks.             *)
(***************************************************************************)
EXTENDS AndroidTerminal, SequenceTheorems, TLAPS

USE CallsAssumption, SessionsAssumption

Queue == Seq(Chunk)

-----------------------------------------------------------------------------
(***************************************************************************)
(* Queues of output.                                                       *)
(***************************************************************************)

\* The first of a queue goes to the end of the one before it.
LEMMA MoveFirst ==
  ASSUME NEW p \in Queue, NEW q \in Queue, q # <<>>
  PROVE  /\ Append(p, Head(q)) \in Queue /\ Tail(q) \in Queue
         /\ Append(p, Head(q)) \o Tail(q) = p \o q
<1> DEFINE r == Append(p, Head(q))
<1>1. /\ Len(p) \in Nat /\ Len(q) \in Nat \ {0}
      /\ Head(q) \in Chunk /\ Head(q) = q[1]
  BY EmptySeq, LenProperties, HeadTailProperties DEF Queue
<1>2. /\ r \in Queue /\ Len(r) = Len(p) + 1
      /\ \A i \in 1 .. Len(p) : r[i] = p[i]
      /\ r[Len(p) + 1] = q[1]
  BY <1>1 DEF Queue
<1>3. /\ Tail(q) \in Queue /\ Len(Tail(q)) = Len(q) - 1
      /\ \A i \in 1 .. Len(q) - 1 : Tail(q)[i] = q[i + 1]
  BY HeadTailProperties DEF Queue
<1> HIDE DEF r
<1>4. /\ r \o Tail(q) \in Queue /\ Len(r \o Tail(q)) = Len(p) + Len(q)
      /\ \A i \in 1 .. Len(p) + Len(q) :
           (r \o Tail(q))[i] = IF i <= Len(p) + 1 THEN r[i] ELSE Tail(q)[i - (Len(p) + 1)]
  <2>1. /\ r \o Tail(q) \in Queue /\ Len(r \o Tail(q)) = Len(r) + Len(Tail(q))
        /\ \A i \in 1 .. Len(r) + Len(Tail(q)) :
             (r \o Tail(q))[i] = IF i <= Len(r) THEN r[i] ELSE Tail(q)[i - Len(r)]
    BY <1>2, <1>3, ConcatProperties DEF Queue
  <2>2. Len(r) + Len(Tail(q)) = Len(p) + Len(q)
    BY <1>1, <1>2, <1>3
  <2> QED BY <1>2, <2>1, <2>2
<1>5. /\ p \o q \in Queue /\ Len(p \o q) = Len(p) + Len(q)
      /\ \A i \in 1 .. Len(p) + Len(q) :
           (p \o q)[i] = IF i <= Len(p) THEN p[i] ELSE q[i - Len(p)]
  BY ConcatProperties DEF Queue
<1>6. ASSUME NEW i \in 1 .. Len(p) + Len(q)
      PROVE  (r \o Tail(q))[i] = (p \o q)[i]
  <2>0. i <= Len(p) \/ i = Len(p) + 1 \/ i > Len(p) + 1
    BY <1>1
  <2>1. CASE i <= Len(p)
    BY <1>1, <1>2, <1>4, <1>5, <2>1
  <2>2. CASE i = Len(p) + 1
    BY <1>1, <1>2, <1>4, <1>5, <2>2
  <2>3. CASE i > Len(p) + 1
    <3>1. i - (Len(p) + 1) \in 1 .. Len(q) - 1 /\ i - (Len(p) + 1) + 1 = i - Len(p)
      BY <1>1, <2>3
    <3>2. Tail(q)[i - (Len(p) + 1)] = q[i - Len(p)]
      BY <1>3, <3>1
    <3> QED BY <1>1, <1>4, <1>5, <2>3, <3>2
  <2> QED BY <2>0, <2>1, <2>2, <2>3
<1>7. r \o Tail(q) = p \o q
  BY <1>4, <1>5, <1>6, SeqEqual DEF Queue
<1> QED BY <1>2, <1>3, <1>7 DEF r

\* One more at the end of the last queue is one more at the end of all.
LEMMA AppendLast ==
  ASSUME NEW p \in Queue, NEW q \in Queue, NEW c \in Chunk
  PROVE  p \o Append(q, c) = Append(p \o q, c)
<1>1. Len(p) \in Nat /\ Len(q) \in Nat
  BY LenProperties DEF Queue
<1>2. /\ Append(q, c) \in Queue /\ Len(Append(q, c)) = Len(q) + 1
      /\ \A i \in 1 .. Len(q) : Append(q, c)[i] = q[i]
      /\ Append(q, c)[Len(q) + 1] = c
  BY <1>1 DEF Queue
<1>3. /\ p \o Append(q, c) \in Queue
      /\ Len(p \o Append(q, c)) = Len(p) + Len(q) + 1
      /\ \A i \in 1 .. Len(p) + Len(q) + 1 :
           (p \o Append(q, c))[i] = IF i <= Len(p) THEN p[i] ELSE Append(q, c)[i - Len(p)]
  BY <1>1, <1>2, ConcatProperties DEF Queue
<1>4. /\ p \o q \in Queue /\ Len(p \o q) = Len(p) + Len(q)
      /\ \A i \in 1 .. Len(p) + Len(q) :
           (p \o q)[i] = IF i <= Len(p) THEN p[i] ELSE q[i - Len(p)]
  BY ConcatProperties DEF Queue
<1>5. /\ Append(p \o q, c) \in Queue /\ Len(Append(p \o q, c)) = Len(p) + Len(q) + 1
      /\ \A i \in 1 .. Len(p) + Len(q) : Append(p \o q, c)[i] = (p \o q)[i]
      /\ Append(p \o q, c)[Len(p) + Len(q) + 1] = c
  BY <1>1, <1>4 DEF Queue
<1>6. ASSUME NEW i \in 1 .. Len(p) + Len(q) + 1
      PROVE  (p \o Append(q, c))[i] = Append(p \o q, c)[i]
  <2>1. CASE i <= Len(p)
    BY <1>1, <1>3, <1>4, <1>5, <2>1
  <2>2. CASE i > Len(p) /\ i <= Len(p) + Len(q)
    <3>1. i - Len(p) \in 1 .. Len(q)
      BY <1>1, <2>2
    <3>2. Append(q, c)[i - Len(p)] = q[i - Len(p)]
      BY <1>2, <3>1
    <3> QED BY <1>1, <1>3, <1>4, <1>5, <2>2, <3>2
  <2>3. CASE i = Len(p) + Len(q) + 1
    <3>1. i - Len(p) = Len(q) + 1 /\ ~(i <= Len(p))
      BY <1>1, <2>3
    <3> QED BY <1>2, <1>3, <1>5, <2>3, <3>1
  <2> QED BY <1>1, <2>1, <2>2, <2>3
<1> QED BY <1>3, <1>5, <1>6, SeqEqual DEF Queue

\* Queues of one session's output.
Only(q, b) == \A i \in 1 .. Len(q) : q[i].session = b

LEMMA OnlyAppend ==
  ASSUME NEW q \in Queue, NEW b, NEW c \in Chunk, Only(q, b), c.session = b
  PROVE  Append(q, c) \in Queue /\ Only(Append(q, c), b)
<1>1. /\ Append(q, c) \in Queue /\ Len(Append(q, c)) = Len(q) + 1
      /\ \A i \in 1 .. Len(q) : Append(q, c)[i] = q[i]
      /\ Append(q, c)[Len(q) + 1] = c
  BY AppendProperties DEF Queue
<1>2. Len(q) \in Nat
  BY LenProperties DEF Queue
<1>3. ASSUME NEW i \in 1 .. Len(q) + 1
      PROVE  Append(q, c)[i].session = b
  BY <1>1, <1>2 DEF Only
<1> QED BY <1>1, <1>3 DEF Only

LEMMA OnlyTail ==
  ASSUME NEW q \in Queue, NEW b, Only(q, b), q # <<>>
  PROVE  /\ Head(q) \in Chunk /\ Head(q).session = b
         /\ Tail(q) \in Queue /\ Only(Tail(q), b)
<1>1. Len(q) \in Nat \ {0}
  BY EmptySeq, LenProperties DEF Queue
<1>2. /\ Head(q) \in Chunk /\ Head(q) = q[1]
      /\ Tail(q) \in Queue /\ Len(Tail(q)) = Len(q) - 1
      /\ \A i \in 1 .. Len(q) - 1 : Tail(q)[i] = q[i + 1]
  BY <1>1, HeadTailProperties DEF Queue
<1>3. ASSUME NEW i \in 1 .. Len(q) - 1
      PROVE  Tail(q)[i].session = b
  <2>1. i + 1 \in 1 .. Len(q)
    BY <1>1
  <2> QED BY <1>2, <2>1 DEF Only
<1> QED BY <1>1, <1>2, <1>3 DEF Only

LEMMA OnlyConcat ==
  ASSUME NEW p \in Queue, NEW q \in Queue, NEW b, Only(p, b), Only(q, b)
  PROVE  p \o q \in Queue /\ Only(p \o q, b)
<1>1. /\ p \o q \in Queue /\ Len(p \o q) = Len(p) + Len(q)
      /\ \A i \in 1 .. Len(p) + Len(q) :
           (p \o q)[i] = IF i <= Len(p) THEN p[i] ELSE q[i - Len(p)]
  BY ConcatProperties DEF Queue
<1>2. Len(p) \in Nat /\ Len(q) \in Nat
  BY LenProperties DEF Queue
<1>3. ASSUME NEW i \in 1 .. Len(p) + Len(q)
      PROVE  (p \o q)[i].session = b
  <2>1. CASE i <= Len(p)
    BY <1>1, <1>2, <2>1 DEF Only
  <2>2. CASE i > Len(p)
    <3>1. i - Len(p) \in 1 .. Len(q) /\ ~(i <= Len(p))
      BY <1>2, <2>2
    <3> QED BY <1>1, <3>1 DEF Only
  <2> QED BY <1>2, <2>1, <2>2
<1> QED BY <1>1, <1>3 DEF Only

LEMMA EmptyQueue == <<>> \in Queue /\ \A b : Only(<<>>, b)
BY EmptySeq DEF Queue, Only

-----------------------------------------------------------------------------
(***************************************************************************)
(* The types, one conjunct for each variable.                              *)
(***************************************************************************)

Types ==
  /\ bridge \in {"recording", "android"}
  /\ page \in {"none", "loading", "loaded"}
  /\ selected \in Sessions \cup {NoSession}
  /\ bound \in Sessions \cup {NoSession}
  /\ bound = NoSession <=> selected = NoSession
  /\ asked \subseteq Chunk
  /\ attaches \in 0 .. MaxAttaches
  /\ buffer \in Queue /\ screen \in Queue /\ pendingOutput \in Queue
  /\ posts \in Queue /\ arrived \in Queue
  /\ inputCalls \in Seq(Sessions \cup {NoSession})
  /\ readyCalled \in BOOLEAN /\ flushed \in BOOLEAN /\ raced \in BOOLEAN
  /\ flushed => pendingOutput = <<>> /\ readyCalled

LEMMA TypesAreOK == Types => TypeOK
BY DEF Types, TypeOK, Queue

\* What each host leaves alone: a test has no app, and without a terminal the
\* app has no page and nothing on its way.  No answer is without a session.
Hosts ==
  /\ bridge = "recording" =>
       bound = NoSession /\ asked = {} /\ posts = <<>> /\ pendingOutput = <<>>
  /\ bridge = "android" /\ bound = NoSession =>
       /\ page = "none" /\ screen = <<>> /\ buffer = <<>> /\ posts = <<>>
       /\ pendingOutput = <<>> /\ arrived = <<>> /\ inputCalls = <<>>
  /\ \A c \in asked : c.session # NoSession

LEMMA InitTypes == Init => Types /\ Hosts
<1> SUFFICES ASSUME Init PROVE Types /\ Hosts
  OBVIOUS
<1>1. inputCalls \in Seq(Sessions \cup {NoSession})
  BY EmptySeq DEF Init, OpenTerminal, AppStarts, NoCalls
<1>2. Types
  <2>1. bridge \in {"recording", "android"} /\ page \in {"none", "loading", "loaded"}
    BY DEF Init, OpenTerminal, AppStarts
  <2>2. attaches \in 0 .. MaxAttaches
    BY SessionsAssumption DEF Init
  <2>3. /\ buffer \in Queue /\ screen \in Queue /\ pendingOutput \in Queue
        /\ posts \in Queue /\ arrived \in Queue
    BY EmptyQueue DEF Init
  <2> QED BY <1>1, <2>1, <2>2, <2>3 DEF Init, OpenTerminal, AppStarts, Types, NoCalls
<1>3. Hosts
  BY DEF Init, OpenTerminal, AppStarts, Hosts, NoCalls
<1> QED BY <1>2, <1>3

LEMMA NextTypes == Types /\ Hosts /\ [Next]_vars => Types'
<1> SUFFICES ASSUME Types, Hosts, [Next]_vars PROVE Types'
  OBVIOUS
<1> USE EmptyQueue
<1>1. CASE TestWrites
  <2>1. [session |-> NoSession, nth |-> attaches + 1] \in Chunk
    BY <1>1 DEF TestWrites, Chunk, Types
  <2>2. buffer' \in Queue /\ arrived' \in Queue
    BY <1>1, <2>1, AppendProperties DEF TestWrites, TermWrite, Types, Queue
  <2>3. attaches' \in 0 .. MaxAttaches
    BY <1>1 DEF TestWrites, Types
  <2>4. /\ UNCHANGED <<bridge, page, screen, inputCalls, readyCalled>>
        /\ UNCHANGED <<selected, bound, asked, pendingOutput, flushed, posts, raced>>
    BY <1>1 DEF TestWrites, TermWrite, screenVars, callVars
  <2> QED BY <2>2, <2>3, <2>4 DEF Types
<1>2. CASE TestTypes \/ UserTypes
  <2>1. PICK to \in Sessions \cup {NoSession} : Type(to)
    BY <1>2 DEF TestTypes, UserTypes, KeysTo, Types
  <2>2. inputCalls' \in Seq(Sessions \cup {NoSession})
    BY <2>1, AppendProperties DEF Type, Types
  <2> QED BY <1>2, <2>1, <2>2 DEF TestTypes, UserTypes, Type, Types,
                                  flowVars, screenVars, historyVars
<1>3. CASE PageLoads
  BY <1>3 DEF PageLoads, Load, Types, flowVars, screenVars, historyVars
<1>4. CASE PageParses
  <2>1. /\ Append(screen, Head(buffer)) \in Queue
        /\ Tail(buffer) \in Queue
    BY <1>4, MoveFirst DEF PageParses, Parse, Types
  <2> QED BY <1>4, <2>1 DEF PageParses, Parse, Types, callVars, flowVars, screenVars, historyVars
<1>5. CASE Evaluate
  <2>1. /\ Append(buffer, Head(posts)) \in Queue
        /\ Tail(posts) \in Queue
    BY <1>5, MoveFirst DEF Evaluate, Types
  <2> QED BY <1>5, <2>1 DEF Evaluate, TermWrite, Types, callVars, flowVars, historyVars
<1>6. ASSUME NEW s \in Sessions, Appear(s) \/ Select(s)
      PROVE  Types'
  <2>1. attaches < MaxAttaches => [session |-> s, nth |-> attaches + 1] \in Chunk
    BY DEF Chunk, Types
  <2> QED BY <1>6, <2>1 DEF Appear, Select, Attach, Types, pageVars, callVars, screenVars, historyVars
<1>7. ASSUME NEW c \in asked, Output(c)
      PROVE  Types'
  <2>1. c \in Chunk
    BY DEF Types
  <2>2. /\ Append(arrived, c) \in Queue /\ Append(posts, c) \in Queue
        /\ Append(pendingOutput, c) \in Queue
    BY <2>1 DEF Types, Queue
  <2>3. arrived' \in Queue /\ posts' \in Queue /\ pendingOutput' \in Queue
    BY <1>7, <2>2 DEF Output, Types
  <2>4. raced' \in BOOLEAN
    BY <1>7 DEF Output, Types
  <2>5. flushed' => pendingOutput' = <<>> /\ readyCalled'
    BY <1>7 DEF Output, Types, isReady, pageVars, callVars
  <2> QED BY <1>7, <2>3, <2>4, <2>5 DEF Output, Types, pageVars, callVars
<1>8. ASSUME NEW c \in asked, NoAnswer(c)
       PROVE  Types'
  BY <1>8 DEF NoAnswer, Types, pageVars, callVars, screenVars, historyVars
<1>9. CASE Flush
  <2>1. posts \o pendingOutput \in Queue
    BY ConcatProperties DEF Types, Queue
  <2> QED BY <1>9, <2>1 DEF Flush, Kept, isReady, Types, pageVars, callVars, flowVars, historyVars
<1>10. CASE Leave
  BY <1>10, EmptySeq DEF Leave, Types
<1>11. CASE UNCHANGED vars
  BY <1>11 DEF vars, pageVars, callVars, flowVars, screenVars, historyVars, Types
<1> QED
  BY <1>1, <1>2, <1>3, <1>4, <1>5, <1>6, <1>7, <1>8, <1>9, <1>10, <1>11 DEF Next

LEMMA NextHosts == Types /\ Hosts /\ [Next]_vars => Hosts'
<1> SUFFICES ASSUME Types, Hosts, [Next]_vars PROVE Hosts'
  OBVIOUS
<1>1. CASE TestWrites
  BY <1>1 DEF TestWrites, TermWrite, Types, Hosts, screenVars, callVars
<1>2. CASE TestTypes \/ UserTypes
  BY <1>2 DEF TestTypes, UserTypes, Type, Types, Hosts, flowVars, screenVars, historyVars
<1>3. CASE PageLoads
  BY <1>3 DEF PageLoads, Load, Types, Hosts, flowVars, screenVars, historyVars
<1>4. CASE PageParses
  BY <1>4 DEF PageParses, Parse, Types, Hosts, callVars, flowVars, screenVars, historyVars
<1>5. CASE Evaluate
  BY <1>5 DEF Evaluate, TermWrite, Types, Hosts, callVars, flowVars, historyVars
<1>6. ASSUME NEW s \in Sessions, Appear(s) \/ Select(s)
      PROVE  Hosts'
  BY <1>6 DEF Appear, Select, Attach, Types, Hosts, pageVars, callVars, screenVars, historyVars
<1>7. ASSUME NEW c \in asked, Output(c)
      PROVE  Hosts'
  BY <1>7 DEF Output, Collects, Types, Hosts, pageVars, callVars
<1>8. ASSUME NEW c \in asked, NoAnswer(c)
       PROVE  Hosts'
  BY <1>8 DEF NoAnswer, Types, Hosts, pageVars, callVars, screenVars, historyVars
<1>9. CASE Flush
  BY <1>9 DEF Flush, Kept, Types, Hosts, pageVars, callVars, flowVars, historyVars
<1>10. CASE Leave
  BY <1>10 DEF Leave, Types, Hosts
<1>11. CASE UNCHANGED vars
  BY <1>11 DEF vars, pageVars, callVars, flowVars, screenVars, historyVars, Hosts
<1> QED
  BY <1>1, <1>2, <1>3, <1>4, <1>5, <1>6, <1>7, <1>8, <1>9, <1>10, <1>11 DEF Next

LEMMA AlwaysTypes == Spec => [](Types /\ Hosts)
BY InitTypes, NextTypes, NextHosts, PTL DEF Spec

\* The variables have their types, whatever the sessions and the bounds.
THEOREM TypeCorrect == Spec => []TypeOK
BY AlwaysTypes, TypesAreOK, PTL

-----------------------------------------------------------------------------
(***************************************************************************)
(* What the terminal shows.                                                *)
(***************************************************************************)

\* All output on its way to the screen is the bound session's, and every key
\* went to it.
OnlyBound ==
  /\ Only(screen, bound) /\ Only(buffer, bound)
  /\ Only(posts, bound) /\ Only(pendingOutput, bound)
  /\ \A k \in 1 .. Len(inputCalls) : inputCalls[k] = bound

LEMMA InitOnlyBound == Init => OnlyBound
BY EmptyQueue DEF Init, OpenTerminal, AppStarts, NoCalls, OnlyBound

LEMMA NextOnlyBound == Types /\ Hosts /\ OnlyBound /\ [Next]_vars => OnlyBound'
<1> SUFFICES ASSUME Types, Hosts, OnlyBound, [Next]_vars PROVE OnlyBound'
  OBVIOUS
<1> USE EmptyQueue
<1> DEFINE Same == UNCHANGED <<screen, buffer, posts, pendingOutput, inputCalls, bound>>
<1>0. Same => OnlyBound'
  BY DEF OnlyBound, Only
<1>1. CASE TestWrites
  <2> DEFINE c == [session |-> NoSession, nth |-> attaches + 1]
  <2>1. c \in Chunk /\ c.session = bound
    BY <1>1 DEF TestWrites, Chunk, Types, Hosts
  <2>2. buffer' = Append(buffer, c)
    BY <1>1 DEF TestWrites, TermWrite
  <2>3. UNCHANGED <<screen, posts, pendingOutput, inputCalls, bound>>
    BY <1>1 DEF TestWrites, TermWrite, screenVars, callVars
  <2> HIDE DEF c
  <2>4. Only(buffer', bound)
    BY <2>1, <2>2, OnlyAppend DEF Types, OnlyBound
  <2> QED BY <2>3, <2>4 DEF OnlyBound, Only
<1>2. CASE TestTypes \/ UserTypes
  <2>1. PICK to : Type(to) /\ to = bound /\ to \in Sessions \cup {NoSession}
    BY <1>2 DEF TestTypes, UserTypes, KeysTo, Types, Hosts
  <2>2. /\ inputCalls' = Append(inputCalls, to)
        /\ UNCHANGED <<screen, buffer, posts, pendingOutput, bound>>
    BY <1>2, <2>1 DEF TestTypes, UserTypes, Type, flowVars, screenVars
  <2>3. /\ Len(inputCalls') = Len(inputCalls) + 1
        /\ \A k \in 1 .. Len(inputCalls) : inputCalls'[k] = inputCalls[k]
        /\ inputCalls'[Len(inputCalls) + 1] = to
    BY <2>1, <2>2, AppendProperties DEF Types
  <2>4. Len(inputCalls) \in Nat
    BY LenProperties DEF Types
  <2>5. ASSUME NEW k \in 1 .. Len(inputCalls) + 1
        PROVE  inputCalls'[k] = bound
    BY <2>1, <2>3, <2>4 DEF OnlyBound
  <2> QED BY <2>2, <2>3, <2>5 DEF OnlyBound, Only
<1>3. CASE PageLoads
  BY <1>0, <1>3 DEF PageLoads, Load, flowVars, screenVars
<1>4. CASE PageParses
  <2>1. /\ buffer # <<>> /\ screen' = Append(screen, Head(buffer)) /\ buffer' = Tail(buffer)
        /\ UNCHANGED <<posts, pendingOutput, inputCalls, bound>>
    BY <1>4 DEF PageParses, Parse, callVars, flowVars, screenVars
  <2>2. Only(screen', bound) /\ Only(buffer', bound)
    BY <2>1, OnlyTail, OnlyAppend DEF Types, OnlyBound
  <2> QED BY <2>1, <2>2 DEF OnlyBound, Only
<1>5. CASE Evaluate
  <2>1. /\ posts # <<>> /\ buffer' = Append(buffer, Head(posts)) /\ posts' = Tail(posts)
        /\ UNCHANGED <<screen, pendingOutput, inputCalls, bound>>
    BY <1>5 DEF Evaluate, TermWrite, callVars, flowVars
  <2>2. Only(buffer', bound) /\ Only(posts', bound)
    BY <2>1, OnlyTail, OnlyAppend DEF Types, OnlyBound
  <2> QED BY <2>1, <2>2 DEF OnlyBound, Only
<1>6. ASSUME NEW s \in Sessions, Appear(s)
      PROVE  OnlyBound'
  <2>1. /\ screen' = <<>> /\ buffer' = <<>> /\ posts' = <<>> /\ pendingOutput' = <<>>
        /\ inputCalls' = <<>>
    BY <1>6 DEF Appear, Hosts, callVars, screenVars
  <2> QED BY <2>1 DEF OnlyBound
<1>7. ASSUME NEW s \in Sessions, Select(s)
      PROVE  OnlyBound'
  BY <1>0, <1>7 DEF Select, pageVars, callVars, screenVars
<1>8. ASSUME NEW c \in asked, Output(c)
      PROVE  OnlyBound'
  <2>1. c \in Chunk
    BY DEF Types
  <2>2. UNCHANGED <<screen, buffer, inputCalls, bound>>
    BY <1>8 DEF Output, pageVars, callVars
  <2>3. CASE Collects(c)
    <3>1. c.session = bound
      BY <2>3 DEF Collects
    <3>2. Only(Append(posts, c), bound) /\ Only(Append(pendingOutput, c), bound)
      BY <2>1, <3>1, OnlyAppend DEF Types, OnlyBound
    <3>3. Only(posts', bound) /\ Only(pendingOutput', bound)
      BY <1>8, <3>2 DEF Output, OnlyBound
    <3> QED BY <2>2, <3>3 DEF OnlyBound, Only
  <2>4. CASE ~Collects(c)
    BY <1>0, <1>8, <2>2, <2>4 DEF Output
  <2> QED BY <2>3, <2>4
<1>9. ASSUME NEW c \in asked, NoAnswer(c)
      PROVE  OnlyBound'
  BY <1>0, <1>9 DEF NoAnswer, pageVars, callVars, screenVars
<1>10. CASE Flush
  <2>1. /\ posts' = posts \o pendingOutput /\ pendingOutput' = <<>>
        /\ UNCHANGED <<screen, buffer, inputCalls, bound>>
    BY <1>10 DEF Flush, Kept, pageVars, callVars, flowVars
  <2>2. Only(posts', bound)
    BY <2>1, OnlyConcat DEF Types, OnlyBound
  <2> QED BY <2>1, <2>2 DEF OnlyBound, Only
<1>11. CASE Leave
  BY <1>11 DEF Leave, OnlyBound
<1>12. CASE UNCHANGED vars
  BY <1>0, <1>12 DEF vars, pageVars, callVars, flowVars, screenVars
<1> QED
  BY <1>1, <1>2, <1>3, <1>4, <1>5, <1>6, <1>7, <1>8, <1>9, <1>10, <1>11, <1>12 DEF Next

\* A key goes to the session whose output the terminal shows: both stay with
\* the session that TerminalScreen was made for, whatever tab is selected.
THEOREM KeysFollowTheScreen == Spec => []KeysGoToWhatIsShown
<1>1. Types /\ OnlyBound => KeysGoToWhatIsShown
  BY DEF Types, OnlyBound, Only, KeysGoToWhatIsShown
<1> QED BY <1>1, AlwaysTypes, InitOnlyBound, NextOnlyBound, PTL DEF Spec

-----------------------------------------------------------------------------
(***************************************************************************)
(* The order of the output.                                                *)
(***************************************************************************)

LEMMA ConcatQueues ==
  ASSUME NEW p \in Queue, NEW q \in Queue
  PROVE  p \o q \in Queue /\ p \o <<>> = p /\ <<>> \o p = p
BY ConcatProperties, ConcatEmptySeq DEF Queue

LEMMA ConcatAgain ==
  ASSUME NEW p \in Queue, NEW q \in Queue, NEW r \in Queue
  PROVE  p \o (q \o r) = p \o q \o r
<1>1. p \in Seq(Chunk) /\ q \in Seq(Chunk) /\ r \in Seq(Chunk)
  BY DEF Queue
<1>2. (p \o q) \o r = p \o (q \o r)
  BY <1>1, ConcatAssociative, SMTT(30)
<1> QED BY <1>2

\* A write at the page appends behind everything, while nothing waits.
LEMMA WriteInOrder ==
  ASSUME NEW s \in Queue, NEW b \in Queue, NEW c \in Chunk
  PROVE  s \o Append(b, c) \o <<>> \o <<>> = Append(s \o b \o <<>> \o <<>>, c)
<1>1. /\ s \o b \in Queue /\ s \o b \o <<>> = s \o b
      /\ Append(b, c) \in Queue /\ s \o Append(b, c) \in Queue
      /\ s \o Append(b, c) \o <<>> = s \o Append(b, c)
  BY ConcatQueues, AppendProperties DEF Queue
<1> QED BY <1>1, AppendLast

\* An evaluated post moves to xterm's buffer.
LEMMA PostInOrder ==
  ASSUME NEW s \in Queue, NEW b \in Queue, NEW q \in Queue, q # <<>>
  PROVE  s \o Append(b, Head(q)) \o Tail(q) = s \o b \o q
<1>1. Head(q) \in Chunk
  BY HeadTailProperties, EmptySeq, LenProperties DEF Queue
<1>2. s \o Append(b, Head(q)) = Append(s \o b, Head(q))
  BY <1>1, AppendLast
<1>3. s \o b \in Queue
  BY ConcatQueues
<1> QED BY <1>2, <1>3, MoveFirst

LEMMA InitInOrder == Init => OutputInOrder
BY EmptyQueue, ConcatQueues DEF Init, OutputInOrder

LEMMA NextInOrder ==
  Types /\ Hosts /\ OutputInOrder /\ [Next]_vars => OutputInOrder'
<1> SUFFICES ASSUME Types, Hosts, OutputInOrder, [Next]_vars, ~raced'
             PROVE  (screen \o buffer \o posts \o pendingOutput = arrived)'
  BY DEF OutputInOrder
<1>0. ASSUME UNCHANGED <<screen, buffer, posts, pendingOutput, arrived>>, ~raced
      PROVE  (screen \o buffer \o posts \o pendingOutput = arrived)'
  BY <1>0 DEF OutputInOrder
<1>1. CASE TestWrites
  <2> DEFINE c == [session |-> NoSession, nth |-> attaches + 1]
  <2>1. c \in Chunk
    BY <1>1 DEF TestWrites, Chunk, Types
  <2>2. /\ buffer' = Append(buffer, c) /\ arrived' = Append(arrived, c)
        /\ UNCHANGED <<screen, posts, pendingOutput, raced>>
        /\ posts = <<>> /\ pendingOutput = <<>>
    BY <1>1 DEF TestWrites, TermWrite, screenVars, callVars, Hosts
  <2> HIDE DEF c
  <2> QED BY <2>1, <2>2, WriteInOrder DEF Types, OutputInOrder
<1>2. CASE TestTypes \/ UserTypes \/ PageLoads
  BY <1>0, <1>2 DEF TestTypes, UserTypes, Type, PageLoads, Load,
                    flowVars, screenVars, historyVars
<1>3. CASE PageParses
  <2>1. /\ buffer # <<>> /\ screen' = Append(screen, Head(buffer)) /\ buffer' = Tail(buffer)
        /\ UNCHANGED <<posts, pendingOutput, arrived, raced>>
    BY <1>3 DEF PageParses, Parse, callVars, flowVars, screenVars, historyVars
  <2>2. screen' \o buffer' = screen \o buffer
    BY <2>1, MoveFirst DEF Types
  <2> QED BY <2>1, <2>2 DEF OutputInOrder
<1>4. CASE Evaluate
  <2>1. /\ posts # <<>> /\ buffer' = Append(buffer, Head(posts)) /\ posts' = Tail(posts)
        /\ UNCHANGED <<screen, pendingOutput, arrived, raced>>
    BY <1>4 DEF Evaluate, TermWrite, callVars, flowVars, historyVars
  <2>2. screen' \o buffer' \o posts' = screen \o buffer \o posts
    BY <2>1, PostInOrder DEF Types
  <2> QED BY <2>1, <2>2 DEF OutputInOrder
<1>5. ASSUME NEW s \in Sessions, Appear(s) \/ Select(s)
      PROVE  (screen \o buffer \o posts \o pendingOutput = arrived)'
  BY <1>0, <1>5 DEF Appear, Select, pageVars, callVars, screenVars, historyVars
<1>6. ASSUME NEW c \in asked, Output(c)
      PROVE  (screen \o buffer \o posts \o pendingOutput = arrived)'
  <2>0. ~raced
    BY <1>6 DEF Output
  <2>1. /\ c \in Chunk /\ UNCHANGED <<screen, buffer>>
    BY <1>6 DEF Output, Types, pageVars, callVars
  <2>2. screen \o buffer \in Queue /\ screen \o buffer \o posts \in Queue
    BY ConcatQueues DEF Types
  <2>3. CASE ~Collects(c)
    <3>1. UNCHANGED <<posts, pendingOutput, arrived>>
      BY <1>6, <2>3 DEF Output, Collects
    <3> QED BY <1>0, <2>0, <2>1, <3>1
  <2>4. CASE Collects(c) /\ ~isReady
    <3>1. /\ pendingOutput' = Append(pendingOutput, c) /\ arrived' = Append(arrived, c)
          /\ UNCHANGED posts
      BY <1>6, <2>4 DEF Output, Collects
    <3>2. screen \o buffer \o posts \o Append(pendingOutput, c)
            = Append(screen \o buffer \o posts \o pendingOutput, c)
      BY <2>1, <2>2, AppendLast DEF Types
    <3> QED BY <2>0, <2>1, <3>1, <3>2 DEF OutputInOrder
  <2>5. CASE Collects(c) /\ isReady
    <3>1. /\ posts' = Append(posts, c) /\ arrived' = Append(arrived, c)
          /\ UNCHANGED pendingOutput /\ pendingOutput = <<>> /\ ~raced
      BY <1>6, <2>5 DEF Output, Collects, Types
    <3>2. screen \o buffer \o posts = arrived
      BY <2>2, <3>1, ConcatQueues DEF OutputInOrder
    <3>3. screen \o buffer \o Append(posts, c) = Append(screen \o buffer \o posts, c)
      BY <2>1, <2>2, AppendLast DEF Types
    <3>4. Append(screen \o buffer \o posts, c) \in Queue
      BY <2>1, <2>2, AppendProperties DEF Queue
    <3> QED BY <2>1, <3>1, <3>2, <3>3, <3>4, ConcatQueues
  <2> QED BY <2>3, <2>4, <2>5
<1>7. ASSUME NEW c \in asked, NoAnswer(c)
      PROVE  (screen \o buffer \o posts \o pendingOutput = arrived)'
  BY <1>0, <1>7 DEF NoAnswer, pageVars, callVars, screenVars, historyVars
<1>8. CASE Flush
  <2>1. /\ posts' = posts \o pendingOutput /\ pendingOutput' = <<>>
        /\ UNCHANGED <<screen, buffer, arrived, raced>>
    BY <1>8 DEF Flush, Kept, pageVars, callVars, historyVars
  <2>2. /\ screen \o buffer \in Queue /\ posts \o pendingOutput \in Queue
        /\ screen \o buffer \o (posts \o pendingOutput) \in Queue
    BY ConcatQueues DEF Types
  <2>3. screen \o buffer \o (posts \o pendingOutput) = screen \o buffer \o posts \o pendingOutput
    <3>1. posts \in Queue /\ pendingOutput \in Queue
      BY DEF Types
    <3> QED BY <2>2, <3>1, ConcatAgain, Zenon
  <2>4. screen \o buffer \o (posts \o pendingOutput) \o <<>>
          = screen \o buffer \o (posts \o pendingOutput)
    BY <2>2, ConcatQueues
  <2> QED BY <2>1, <2>3, <2>4 DEF OutputInOrder
<1>9. CASE Leave
  BY <1>9, EmptyQueue, ConcatQueues DEF Leave
<1>10. CASE UNCHANGED vars
  BY <1>0, <1>10 DEF vars, pageVars, callVars, screenVars, historyVars
<1> QED
  BY <1>1, <1>2, <1>3, <1>4, <1>5, <1>6, <1>7, <1>8, <1>9, <1>10 DEF Next

\* Unless some came between onReady and the flush, the output that arrived is,
\* in its order, what is drawn followed by what waits: nothing is lost, drawn
\* twice or overtaken on the way from the collector to the screen.
THEOREM OutputKeepsItsOrder == Spec => []OutputInOrder
BY AlwaysTypes, InitInOrder, NextInOrder, PTL DEF Spec
=============================================================================
