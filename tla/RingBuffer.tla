----------------------------- MODULE RingBuffer -----------------------------
(***************************************************************************)
(* apps/mac/TermCast/Core/RingBuffer.swift: the circular byte buffer every *)
(* session keeps for replay, used the way its comment asks ("callers must  *)
(* synchronise access"): one call at a time.  A call of write walks over   *)
(* its argument byte by byte; `chunk' holds the bytes it has still to      *)
(* store, so that every state between two iterations of the loop is a      *)
(* state of the model.  A definition placed just before another of a       *)
(* similar name (AfterNoWrap, FullLate, SnapshotFromZero) is a mistake the *)
(* code could make; README.md names the property that notices it.          *)
(***************************************************************************)
EXTENDS Naturals, Sequences

CONSTANTS
  Capacity,  \* RingBuffer.init(capacity:), 65536 in the program
  Byte,      \* the byte values told apart; 0 fills a new buffer
  Chunks     \* the arguments write is called with

ASSUME CapacityAssumption == Capacity \in Nat \ {0}
ASSUME ByteAssumption == 0 \in Byte
ASSUME ChunksAssumption == Chunks \subseteq Seq(Byte)

VARIABLES
  storage,   \* storage: [UInt8], indexed from 0
  head,      \* index of the oldest valid byte
  tail,      \* index of the next write position
  count,     \* number of valid bytes
  chunk      \* rest of the bytes of the write call under way

vars == <<storage, head, tail, count, chunk>>

Slots == 0 .. Capacity - 1

Init ==
  /\ storage = [i \in Slots |-> 0]
  /\ head = 0
  /\ tail = 0
  /\ count = 0
  /\ chunk = << >>

\* write(_:) is entered.
BeginWrite(bytes) ==
  /\ chunk = << >>
  /\ chunk' = bytes
  /\ UNCHANGED <<storage, head, tail, count>>

AfterNoWrap(i) == i + 1

\* The index after i, round the end of the storage.
After(i) == (i + 1) % Capacity

FullLate == count > Capacity

Full == count = Capacity

\* One iteration of write's loop; a full buffer evicts its oldest byte.
WriteByte ==
  /\ chunk # << >>
  /\ chunk' = Tail(chunk)
  /\ storage' = [storage EXCEPT ![tail] = Head(chunk)]
  /\ tail' = After(tail)
  /\ \/ Full /\ head' = After(head) /\ UNCHANGED count
     \/ ~Full /\ count' = count + 1 /\ UNCHANGED head

\* reset(): the indices only, the storage keeps its bytes.
Reset ==
  /\ chunk = << >>
  /\ head' = 0
  /\ tail' = 0
  /\ count' = 0
  /\ UNCHANGED <<storage, chunk>>

SnapshotFromZero == [i \in 1 .. count |-> storage[i - 1]]

\* What snapshot() returns: the valid bytes, oldest first.
Snapshot == [i \in 1 .. count |-> storage[(head + (i - 1)) % Capacity]]

Next ==
  \/ \E bytes \in Chunks : BeginWrite(bytes)
  \/ WriteByte
  \/ Reset

Spec == Init /\ [][Next]_vars

-----------------------------------------------------------------------------
(***************************************************************************)
(* Properties.                                                             *)
(***************************************************************************)

\* The indices of RingBuffer.swift's fields stay inside its storage, and
\* count never exceeds the capacity.
TypeOK ==
  /\ storage \in [Slots -> Byte]
  /\ head \in Slots
  /\ tail \in Slots
  /\ count \in 0 .. Capacity
  /\ chunk \in Seq(Byte)

\* The three counters RingBuffer.write updates one after the other agree:
\* the next write position is count places after the oldest byte, round the
\* end of the storage.  Snapshot order rests on it.
CountersAgree == tail = (head + count) % Capacity

\* The buffer's contract (design spec, "64KB circular byte buffer per
\* session"): whatever chunks are written, the snapshot behaves as a queue
\* that drops its oldest byte, and only that one, when a byte arrives and the
\* queue is full.
Window == INSTANCE ByteWindow WITH window <- Snapshot

ImplementsWindow == Window!Spec
=============================================================================
