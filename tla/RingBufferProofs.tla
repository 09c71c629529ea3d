-------------------------- MODULE RingBufferProofs --------------------------
(***************************************************************************)
(* Proofs about the ring buffer, for every capacity, every set of bytes    *)
(* and every set of chunks: its counters stay in range and agree, and its  *)
(* snapshot is the bounded queue of ByteWindow.                            *)
(***************************************************************************)
EXTENDS RingBuffer, SequenceTheorems, TLAPS

USE CapacityAssumption

-----------------------------------------------------------------------------
(***************************************************************************)
(* Arithmetic round the end of the storage.                                *)
(***************************************************************************)

\* The index n places after index i wraps at most once.
LEMMA ModOnce ==
  ASSUME NEW i \in Slots, NEW n \in 0 .. Capacity
  PROVE  (i + n) % Capacity = IF i + n < Capacity THEN i + n ELSE i + n - Capacity
<1>1. CASE i + n < Capacity
  BY <1>1 DEF Slots
<1>2. CASE ~(i + n < Capacity)
  <2>1. i + n - Capacity \in 0 .. Capacity - 1
    BY <1>2 DEF Slots
  <2>2. (i + n) % Capacity = i + n - Capacity
    BY <2>1 DEF Slots
  <2>3. QED
    BY <1>2, <2>2
<1>3. QED
  BY <1>1, <1>2

\* After(i), the step both indices take, stays inside the storage.
LEMMA AfterInSlots ==
  ASSUME NEW i \in Slots
  PROVE  /\ After(i) \in Slots
         /\ After(i) = IF i + 1 < Capacity THEN i + 1 ELSE 0
<1>1. 1 \in 0 .. Capacity
  OBVIOUS
<1>2. (i + 1) % Capacity = IF i + 1 < Capacity THEN i + 1 ELSE i + 1 - Capacity
  BY <1>1, ModOnce
<1>3. QED
  BY <1>2 DEF After, Slots
-----------------------------------------------------------------------------
(***************************************************************************)
(* The inductive invariant.                                                *)
(***************************************************************************)

IInv == TypeOK /\ CountersAgree

\* The form of CountersAgree without a remainder.
LEMMA Tail_Is ==
  ASSUME TypeOK, CountersAgree
  PROVE  tail = IF head + count < Capacity THEN head + count
                                           ELSE head + count - Capacity
BY ModOnce DEF TypeOK, CountersAgree

LEMMA InitIInv == Init => IInv
<1>1. Init => TypeOK
  BY ByteAssumption DEF Init, TypeOK, Slots
<1>2. Init => CountersAgree
  BY ModOnce DEF Init, CountersAgree
<1>3. QED
  BY <1>1, <1>2 DEF IInv

\* Iterating write's loop keeps the indices in range and in agreement, whether
\* or not the buffer is full.
LEMMA WriteByteIInv == IInv /\ WriteByte => IInv'
<1> SUFFICES ASSUME IInv, WriteByte PROVE IInv'
  OBVIOUS
<1> USE DEF IInv
<1>1. Head(chunk) \in Byte /\ chunk' \in Seq(Byte)
  BY DEF TypeOK, WriteByte
<1>2. storage' \in [Slots -> Byte]
  BY <1>1 DEF TypeOK, WriteByte
<1>3. tail' \in Slots /\ tail' = IF tail + 1 < Capacity THEN tail + 1 ELSE 0
  BY AfterInSlots DEF TypeOK, WriteByte
<1>4. CASE Full
  <2>1. head' \in Slots /\ head' = IF head + 1 < Capacity THEN head + 1 ELSE 0
    BY <1>4, AfterInSlots DEF TypeOK, WriteByte
  <2>2. count' = count /\ count = Capacity
    BY <1>4 DEF WriteByte, Full
  <2>3. tail = head
    BY <2>2, Tail_Is DEF TypeOK, Slots
  <2>4. count' \in 0 .. Capacity
    BY <2>2
  <2>5. CountersAgree'
    <3>1. (head' + count') % Capacity = IF head' + count' < Capacity
                                          THEN head' + count'
                                          ELSE head' + count' - Capacity
      BY <2>1, <2>4, ModOnce
    <3>2. QED
      BY <1>3, <2>1, <2>2, <2>3, <3>1 DEF CountersAgree, Slots
  <2>6. QED
    BY <1>1, <1>2, <1>3, <2>1, <2>4, <2>5 DEF TypeOK
<1>5. CASE ~Full
  <2>1. head' = head /\ count' = count + 1
    BY <1>5 DEF WriteByte
  <2>2. count' \in 0 .. Capacity
    BY <1>5, <2>1 DEF TypeOK, Full
  <2>3. head' \in Slots
    BY <2>1 DEF TypeOK
  <2>4. CountersAgree'
    <3>1. (head' + count') % Capacity = IF head' + count' < Capacity
                                          THEN head' + count'
                                          ELSE head' + count' - Capacity
      BY <2>2, <2>3, ModOnce
    <3>2. QED
      BY <1>3, <2>1, <2>2, <3>1, Tail_Is DEF CountersAgree, TypeOK, Slots
  <2>5. QED
    BY <1>1, <1>2, <1>3, <2>1, <2>2, <2>4 DEF TypeOK
<1>6. QED
  BY <1>4, <1>5

LEMMA NextIInv == IInv /\ [Next]_vars => IInv'
<1> SUFFICES ASSUME IInv, [Next]_vars PROVE IInv'
  OBVIOUS
<1>1. ASSUME NEW bytes \in Chunks, BeginWrite(bytes) PROVE IInv'
  BY <1>1, ChunksAssumption DEF IInv, TypeOK, CountersAgree, BeginWrite
<1>2. CASE WriteByte
  BY <1>2, WriteByteIInv
<1>3. CASE Reset
  <2>1. 0 % Capacity = 0
    BY ModOnce
  <2>2. QED
    BY <1>3, <2>1 DEF IInv, TypeOK, CountersAgree, Reset, Slots
<1>4. CASE UNCHANGED vars
  BY <1>4 DEF IInv, TypeOK, CountersAgree, vars
<1>5. QED
  BY <1>1, <1>2, <1>3, <1>4 DEF Next

\* Every call of write and reset keeps the inductive invariant.
THEOREM Invariance == Spec => []IInv
BY InitIInv, NextIInv, PTL DEF Spec

\* The fields of RingBuffer.swift never leave the range of its storage,
\* whatever the capacity and however the calls of write and reset follow.
THEOREM TypeCorrect == Spec => []TypeOK
BY Invariance, PTL DEF IInv

\* The counters agree after every iteration of write's loop.
THEOREM CountersAlwaysAgree == Spec => []CountersAgree
BY Invariance, PTL DEF IInv
-----------------------------------------------------------------------------
(***************************************************************************)
(* The snapshot is the bounded queue of ByteWindow.                        *)
(***************************************************************************)

\* Where snapshot() reads its i-th byte when the oldest one is at index h.
LEMMA ReadIndex ==
  ASSUME NEW h \in Slots, NEW i \in 1 .. Capacity
  PROVE  /\ (h + (i - 1)) % Capacity \in Slots
         /\ (h + (i - 1)) % Capacity = IF h + (i - 1) < Capacity
                                         THEN h + (i - 1)
                                         ELSE h + (i - 1) - Capacity
<1>1. i - 1 \in 0 .. Capacity
  OBVIOUS
<1>2. (h + (i - 1)) % Capacity = IF h + (i - 1) < Capacity
                                   THEN h + (i - 1)
                                   ELSE h + (i - 1) - Capacity
  BY <1>1, ModOnce
<1>3. QED
  BY <1>2 DEF Slots

\* A snapshot holds count bytes.
LEMMA SnapshotSeq ==
  ASSUME TypeOK
  PROVE  /\ Snapshot \in Seq(Byte)
         /\ Len(Snapshot) = count
         /\ \A i \in 1 .. count :
              Snapshot[i] = storage[(head + (i - 1)) % Capacity]
<1>1. count \in Nat
  BY DEF TypeOK
<1>2. ASSUME NEW i \in 1 .. count
      PROVE  storage[(head + (i - 1)) % Capacity] \in Byte
  <2>1. i \in 1 .. Capacity
    BY DEF TypeOK
  <2>2. (head + (i - 1)) % Capacity \in Slots
    BY <2>1, ReadIndex DEF TypeOK
  <2>3. QED
    BY <2>2 DEF TypeOK
<1>3. Snapshot \in [1 .. count -> Byte]
  BY <1>2 DEF Snapshot
<1>4. QED
  BY <1>1, <1>3 DEF Snapshot

\* A byte written to a full buffer replaces the oldest one.
LEMMA EvictingWrite ==
  ASSUME IInv, IInv', WriteByte, Full
  PROVE  Snapshot' = Append(Tail(Snapshot), Head(chunk))
<1> DEFINE b == Head(chunk)
           W == Append(Tail(Snapshot), b)
<1> USE DEF IInv
<1>1. /\ Snapshot \in Seq(Byte)
      /\ Len(Snapshot) = Capacity
      /\ \A i \in 1 .. Capacity : Snapshot[i] = storage[(head + (i - 1)) % Capacity]
  BY SnapshotSeq DEF Full
<1>2. b \in Byte /\ storage' = [storage EXCEPT ![tail] = b]
  BY DEF WriteByte, TypeOK
<1>3. head' \in Slots /\ head' = IF head + 1 < Capacity THEN head + 1 ELSE 0
  BY AfterInSlots DEF TypeOK, WriteByte
<1>4. count' = Capacity /\ tail = head
  BY Tail_Is DEF WriteByte, Full, TypeOK, Slots
<1>5. Snapshot # << >>
  BY <1>1
<1>6. /\ Tail(Snapshot) \in Seq(Byte)
      /\ Len(Tail(Snapshot)) = Capacity - 1
      /\ \A i \in 1 .. Capacity - 1 : Tail(Snapshot)[i] = Snapshot[i + 1]
  BY <1>1, <1>5, HeadTailProperties
<1>7. /\ W \in Seq(Byte)
      /\ Len(W) = Capacity
      /\ \A i \in 1 .. Capacity - 1 : W[i] = Snapshot[i + 1]
      /\ W[Capacity] = b
  BY <1>2, <1>6
<1>8. Snapshot' = [i \in 1 .. Capacity |-> storage'[(head' + (i - 1)) % Capacity]]
  BY <1>4 DEF Snapshot
<1>9. ASSUME NEW i \in 1 .. Capacity
      PROVE  storage'[(head' + (i - 1)) % Capacity] = W[i]
  <2>1. /\ (head' + (i - 1)) % Capacity \in Slots
        /\ (head' + (i - 1)) % Capacity = IF head' + (i - 1) < Capacity
                                            THEN head' + (i - 1)
                                            ELSE head' + (i - 1) - Capacity
    BY <1>3, ReadIndex
  <2>2. CASE i = Capacity
    <3>1. (head' + (i - 1)) % Capacity = tail
      BY <1>3, <1>4, <2>1, <2>2 DEF TypeOK, Slots
    <3>2. QED
      BY <1>2, <1>7, <2>2, <3>1 DEF TypeOK
  <2>3. CASE i # Capacity
    <3>1. i + 1 \in 1 .. Capacity
      BY <2>3
    <3>2. (head + ((i + 1) - 1)) % Capacity = IF head + ((i + 1) - 1) < Capacity
                                                THEN head + ((i + 1) - 1)
                                                ELSE head + ((i + 1) - 1) - Capacity
      BY <3>1, ReadIndex DEF TypeOK
    <3>3. /\ (head' + (i - 1)) % Capacity = (head + ((i + 1) - 1)) % Capacity
          /\ (head' + (i - 1)) % Capacity # tail
      <4>1. i \in 1 .. Capacity - 1 /\ head \in 0 .. Capacity - 1
        BY <2>3 DEF TypeOK, Slots
      <4>2. QED
        BY <1>3, <1>4, <2>1, <3>2, <4>1
    <3>4. storage'[(head' + (i - 1)) % Capacity] = storage[(head' + (i - 1)) % Capacity]
      BY <1>2, <2>1, <3>3 DEF TypeOK
    <3>5. W[i] = storage[(head + ((i + 1) - 1)) % Capacity]
      BY <1>1, <1>7, <2>3, <3>1
    <3>6. QED
      BY <3>3, <3>4, <3>5
  <2>4. QED
    BY <2>2, <2>3
<1>10. W \in [1 .. Capacity -> Byte]
  BY <1>7, LenProperties
<1>11. QED
  BY <1>8, <1>9, <1>10

\* A byte written to a buffer that has room comes after the others.
LEMMA GrowingWrite ==
  ASSUME IInv, IInv', WriteByte, ~Full
  PROVE  Snapshot' = Append(Snapshot, Head(chunk))
<1> DEFINE b == Head(chunk)
           W == Append(Snapshot, b)
<1> USE DEF IInv
<1>1. /\ Snapshot \in Seq(Byte)
      /\ Len(Snapshot) = count
      /\ \A i \in 1 .. count : Snapshot[i] = storage[(head + (i - 1)) % Capacity]
  BY SnapshotSeq
<1>2. b \in Byte /\ storage' = [storage EXCEPT ![tail] = b]
  BY DEF WriteByte, TypeOK
<1>3. head' = head /\ count' = count + 1 /\ count \in 0 .. Capacity - 1
  BY DEF WriteByte, Full, TypeOK
<1>4. /\ Len(W) = count + 1
      /\ W \in Seq(Byte)
      /\ \A i \in 1 .. count : W[i] = Snapshot[i]
      /\ W[count + 1] = b
  BY <1>1, <1>2
<1>5. Snapshot' = [i \in 1 .. count + 1 |-> storage'[(head + (i - 1)) % Capacity]]
  BY <1>3 DEF Snapshot
<1>6. ASSUME NEW i \in 1 .. count + 1
      PROVE  storage'[(head + (i - 1)) % Capacity] = W[i]
  <2>1. i \in 1 .. Capacity
    BY <1>3
  <2>2. /\ (head + (i - 1)) % Capacity \in Slots
        /\ (head + (i - 1)) % Capacity = IF head + (i - 1) < Capacity
                                           THEN head + (i - 1)
                                           ELSE head + (i - 1) - Capacity
    BY <2>1, ReadIndex DEF TypeOK
  <2>3. CASE i = count + 1
    <3>1. (head + (i - 1)) % Capacity = tail
      BY <1>3, <2>2, <2>3, Tail_Is DEF TypeOK, Slots
    <3>2. QED
      BY <1>2, <1>4, <2>3, <3>1 DEF TypeOK
  <2>4. CASE i # count + 1
    <3>1. (head + (i - 1)) % Capacity # tail
      <4>1. i - 1 \in 0 .. count - 1 /\ head \in 0 .. Capacity - 1
        BY <1>3, <2>4 DEF TypeOK, Slots
      <4>2. tail = IF head + count < Capacity THEN head + count
                                             ELSE head + count - Capacity
        BY Tail_Is
      <4>3. QED
        BY ONLY <1>3, <2>2, <4>1, <4>2, CapacityAssumption
    <3>2. storage'[(head + (i - 1)) % Capacity] = storage[(head + (i - 1)) % Capacity]
      BY <1>2, <2>2, <3>1 DEF TypeOK
    <3>3. i \in 1 .. count
      BY <1>3, <2>4
    <3>4. QED
      BY <1>1, <1>4, <3>2, <3>3
  <2>5. QED
    BY <2>3, <2>4
<1>7. W \in [1 .. count + 1 -> Byte]
  BY <1>4, LenProperties
<1>8. QED
  BY <1>5, <1>6, <1>7

LEMMA InitRefines == Init => Window!Init
BY DEF Init, Snapshot, Window!Init

LEMMA StepRefines == IInv /\ IInv' /\ [Next]_vars => [Window!Next]_Snapshot
<1> SUFFICES ASSUME IInv, IInv', [Next]_vars PROVE [Window!Next]_Snapshot
  OBVIOUS
<1>1. ASSUME NEW bytes \in Chunks, BeginWrite(bytes) PROVE UNCHANGED Snapshot
  BY <1>1 DEF BeginWrite, Snapshot
<1>2. CASE WriteByte
  <2>1. Head(chunk) \in Byte
    BY <1>2 DEF WriteByte, IInv, TypeOK
  <2>2. Len(Snapshot) = count
    BY SnapshotSeq DEF IInv
  <2>3. Window!Push(Head(chunk))
    BY <1>2, <2>2, EvictingWrite, GrowingWrite DEF Window!Push, Full
  <2>4. QED
    BY <2>1, <2>3 DEF Window!Next
<1>3. CASE Reset
  <2>1. Snapshot' = << >>
    BY <1>3 DEF Reset, Snapshot
  <2>2. QED
    BY <2>1 DEF Window!Next, Window!Clear
<1>4. CASE UNCHANGED vars
  BY <1>4 DEF vars, Snapshot
<1>5. QED
  BY <1>1, <1>2, <1>3, <1>4 DEF Next

\* Whatever is written, in whatever chunks, the snapshot behaves as a queue
\* of at most Capacity bytes that loses exactly its oldest byte when it is
\* full: what snapshot() promises a phone that attaches to a session.
THEOREM Refinement == Spec => ImplementsWindow
<1>1. Spec => Window!Init /\ [][Window!Next]_Snapshot
  BY InitRefines, StepRefines, Invariance, PTL DEF Spec
<1>2. QED
  BY <1>1 DEF ImplementsWindow, Window!Spec
=============================================================================
