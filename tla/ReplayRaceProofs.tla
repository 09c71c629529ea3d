-------------------------- MODULE ReplayRaceProofs --------------------------
(***************************************************************************)
(* Proofs about the replay race, for every capacity and any number of      *)
(* bytes: what a copy that nothing protects from the writer still has, and *)
(* that the writer's statements are the iterations RingBuffer models.      *)
(***************************************************************************)
EXTENDS ReplayRace, RingBufferProofs

USE CapacityAssumption, ReplayAssumption

-----------------------------------------------------------------------------
(***************************************************************************)
(* The inductive invariant.                                                *)
(***************************************************************************)

\* The bytes in hand are the last of those read, in order, and write's loop
\* has one of them in hand while it is in its body.
ChunkInOrder ==
  /\ Len(chunk) <= written
  /\ \A k \in 1 .. Len(chunk) : chunk[k] = written - Len(chunk) + k
  /\ writer # "store" => chunk # << >>

\* Until the buffer has been full once, the oldest byte is the first written
\* and the next place is the one after the last counted.
NothingEvicted ==
  count < Capacity =>
    /\ head = 0
    /\ count = written - Len(chunk)
    /\ tail = IF writer = "account" THEN After(count) ELSE count

\* A byte is counted after it has been stored; until the buffer has been full,
\* the place of a byte is its number.
StoredBeforeCounted ==
  /\ \A k \in Slots : k < count => storage[k] # 0
  /\ count < Capacity =>
       /\ \A k \in Slots : k < count => storage[k] = k + 1
       /\ writer # "store" => storage[count] = count + 1

\* The copy has got into its loop.
Copying == copier \in {"copy", "done", "trapped"}

\* The result has the size the buffer had, and the loop's end, read later, is
\* not before the end of the result.
CopyInside ==
  /\ Len(result) <= count
  /\ Copying => i <= Len(result) /\ Len(result) <= bound /\ bound <= count
  /\ copier = "done" => i = bound
  /\ copier = "trapped" => Len(result) < bound

\* What has been copied was stored, and is in its place if nothing has moved.
CopiedBytes ==
  Copying => \A k \in 1 .. i :
    result[k] # 0 /\ (count < Capacity => result[k] = k)

RaceInv ==
  /\ RaceTypeOK
  /\ ChunkInOrder
  /\ NothingEvicted
  /\ StoredBeforeCounted
  /\ CopyInside
  /\ CopiedBytes

LEMMA InitRaceInv == RaceInit => RaceInv
<1> SUFFICES ASSUME RaceInit PROVE RaceInv
  OBVIOUS
<1>1. TypeOK
  BY InitIInv DEF RaceInit, IInv
<1>2. RaceTypeOK
  BY <1>1 DEF RaceInit, RaceTypeOK
<1>3. ChunkInOrder /\ NothingEvicted /\ StoredBeforeCounted
  <2>1. /\ Len(chunk) = 0 /\ written = 0 /\ writer = "store"
        /\ head = 0 /\ tail = 0 /\ count = 0
    BY EmptySeq DEF RaceInit, Init
  <2>2. ChunkInOrder
    BY <2>1 DEF ChunkInOrder
  <2>3. NothingEvicted
    BY <2>1 DEF NothingEvicted
  <2>4. StoredBeforeCounted
    BY <2>1 DEF StoredBeforeCounted, Slots
  <2>5. QED
    BY <2>2, <2>3, <2>4
<1>4. CopyInside /\ CopiedBytes
  BY DEF RaceInit, Init, CopyInside, CopiedBytes, Copying
<1>5. QED
  BY <1>2, <1>3, <1>4 DEF RaceInv

-----------------------------------------------------------------------------
(***************************************************************************)
(* The writer's steps keep it.                                             *)
(***************************************************************************)

\* The byte in hand is the one after those that have been accounted for.
LEMMA ByteInHand ==
  ASSUME RaceInv, chunk # << >>
  PROVE  /\ Head(chunk) = written - Len(chunk) + 1
         /\ Head(chunk) \in Byte /\ Head(chunk) # 0
         /\ Len(chunk) \in Nat \ {0}
         /\ Tail(chunk) \in Seq(Byte)
         /\ Len(Tail(chunk)) = Len(chunk) - 1
         /\ \A k \in 1 .. Len(chunk) - 1 : Tail(chunk)[k] = chunk[k + 1]
<1>1. chunk \in Seq(Byte) /\ Len(chunk) <= written /\ written \in Nat
  BY DEF RaceInv, RaceTypeOK, TypeOK, ChunkInOrder
<1>2. Len(chunk) \in Nat \ {0} /\ Head(chunk) = chunk[1] /\ Head(chunk) \in Byte
  BY <1>1, EmptySeq, LenProperties, HeadTailProperties
<1>3. chunk[1] = written - Len(chunk) + 1
  BY <1>2 DEF RaceInv, ChunkInOrder
<1>4. /\ Tail(chunk) \in Seq(Byte)
      /\ Len(Tail(chunk)) = Len(chunk) - 1
      /\ \A k \in 1 .. Len(chunk) - 1 : Tail(chunk)[k] = chunk[k + 1]
  BY <1>1, HeadTailProperties
<1>5. QED
  BY <1>1, <1>2, <1>3, <1>4

LEMMA ReadStep ==
  ASSUME RaceInv, NEW n \in 1 .. MaxRead, Read(n)
  PROVE  RaceInv'
<1>1. UNCHANGED <<storage, head, tail, count, writer, copier, bound, i, result>>
  BY DEF Read, copierVars
<1>2. /\ chunk = << >> /\ chunk' = [k \in 1 .. n |-> written + k]
      /\ written' = written + n /\ written + n <= MaxBytes
      /\ written \in Nat /\ n \in Nat
  BY DEF Read, Run, RaceInv, RaceTypeOK
<1>3. /\ chunk' \in Seq(Byte) /\ Len(chunk') = n
      /\ \A k \in 1 .. n : chunk'[k] = written + k
  <2>1. \A k \in 1 .. n : written + k \in Byte
    BY <1>2
  <2>2. QED
    BY <1>2, <2>1
<1>4. Len(chunk) = 0 /\ written' - Len(chunk') = written - Len(chunk)
  BY <1>2, <1>3, EmptySeq
<1>5. RaceTypeOK'
  BY <1>1, <1>2, <1>3 DEF RaceInv, RaceTypeOK, TypeOK
<1>6. ChunkInOrder'
  BY <1>1, <1>2, <1>3 DEF RaceInv, ChunkInOrder
<1>7. NothingEvicted' /\ StoredBeforeCounted'
  BY <1>1, <1>4 DEF RaceInv, NothingEvicted, StoredBeforeCounted
<1>8. CopyInside' /\ CopiedBytes'
  BY <1>1 DEF RaceInv, CopyInside, CopiedBytes, Copying
<1>9. QED
  BY <1>5, <1>6, <1>7, <1>8 DEF RaceInv

LEMMA StoreStep ==
  ASSUME RaceInv, Store
  PROVE  RaceInv'
<1>1. /\ UNCHANGED <<chunk, head, tail, count, written, copier, bound, i, result>>
      /\ chunk # << >> /\ writer = "store" /\ writer' = "advance"
      /\ storage' = [storage EXCEPT ![tail] = Head(chunk)]
  BY DEF Store, copierVars
<1>2. /\ Head(chunk) = written - Len(chunk) + 1
      /\ Head(chunk) \in Byte /\ Head(chunk) # 0
  BY <1>1, ByteInHand
<1>3. storage \in [Slots -> Byte] /\ tail \in Slots /\ count \in 0 .. Capacity
  BY DEF RaceInv, RaceTypeOK, TypeOK
<1>4. /\ storage' \in [Slots -> Byte]
      /\ storage'[tail] = Head(chunk)
      /\ \A k \in Slots : k # tail => storage'[k] = storage[k]
  BY <1>1, <1>2, <1>3
<1>5. RaceTypeOK'
  BY <1>1, <1>4 DEF RaceInv, RaceTypeOK, TypeOK
<1>6. ChunkInOrder' /\ NothingEvicted'
  BY <1>1 DEF RaceInv, ChunkInOrder, NothingEvicted
<1>7. StoredBeforeCounted'
  <2>1. \A k \in Slots : k < count => storage'[k] # 0
    BY <1>2, <1>4 DEF RaceInv, StoredBeforeCounted
  <2>2. ASSUME count < Capacity
        PROVE  /\ \A k \in Slots : k < count => storage'[k] = k + 1
               /\ storage'[count] = count + 1
    <3>1. tail = count /\ Head(chunk) = count + 1
      BY <1>1, <1>2, <2>2 DEF RaceInv, NothingEvicted
    <3>2. QED
      BY <1>3, <1>4, <2>2, <3>1 DEF RaceInv, StoredBeforeCounted, Slots
  <2>3. QED
    BY <1>1, <2>1, <2>2 DEF StoredBeforeCounted
<1>8. CopyInside' /\ CopiedBytes'
  BY <1>1 DEF RaceInv, CopyInside, CopiedBytes, Copying
<1>9. QED
  BY <1>5, <1>6, <1>7, <1>8 DEF RaceInv

LEMMA AdvanceStep ==
  ASSUME RaceInv, Advance
  PROVE  RaceInv'
<1>1. /\ UNCHANGED <<chunk, storage, head, count, written, copier, bound, i, result>>
      /\ writer = "advance" /\ writer' = "account" /\ tail' = After(tail)
  BY DEF Advance, copierVars
<1>2. tail' \in Slots
  BY <1>1, AfterInSlots DEF RaceInv, RaceTypeOK, TypeOK
<1>3. RaceTypeOK'
  BY <1>1, <1>2 DEF RaceInv, RaceTypeOK, TypeOK
<1>4. ChunkInOrder' /\ StoredBeforeCounted'
  BY <1>1 DEF RaceInv, ChunkInOrder, StoredBeforeCounted
<1>5. NothingEvicted'
  BY <1>1 DEF RaceInv, NothingEvicted, After
<1>6. CopyInside' /\ CopiedBytes'
  BY <1>1 DEF RaceInv, CopyInside, CopiedBytes, Copying
<1>7. QED
  BY <1>3, <1>4, <1>5, <1>6 DEF RaceInv

LEMMA AccountStep ==
  ASSUME RaceInv, Account
  PROVE  RaceInv'
<1>1. /\ UNCHANGED <<storage, tail, written, copier, bound, i, result>>
      /\ writer = "account" /\ writer' = "store" /\ chunk' = Tail(chunk)
      /\ chunk # << >>
  BY DEF Account, copierVars, RaceInv, ChunkInOrder
<1>2. /\ Head(chunk) = written - Len(chunk) + 1
      /\ Len(chunk) \in Nat \ {0}
      /\ chunk' \in Seq(Byte)
      /\ Len(chunk') = Len(chunk) - 1
      /\ \A k \in 1 .. Len(chunk) - 1 : chunk'[k] = chunk[k + 1]
  BY <1>1, ByteInHand
<1>3. written \in Nat /\ count \in 0 .. Capacity /\ head \in Slots
  BY DEF RaceInv, RaceTypeOK, TypeOK
<1>4. /\ count' \in 0 .. Capacity /\ count <= count'
      /\ head' \in Slots
      /\ Full => count' = count
      /\ ~ Full => count' = count + 1 /\ head' = head /\ count < Capacity
  BY <1>3, AfterInSlots DEF Account, Full
<1>5. RaceTypeOK'
  BY <1>1, <1>2, <1>4 DEF RaceInv, RaceTypeOK, TypeOK
<1>6. ChunkInOrder'
  <2>1. \A k \in 1 .. Len(chunk') : chunk'[k] = written' - Len(chunk') + k
    <3>1. \A k \in 1 .. Len(chunk) - 1 :
            chunk[k + 1] = written - Len(chunk) + (k + 1)
      BY <1>2 DEF RaceInv, ChunkInOrder
    <3>2. QED
      BY <1>1, <1>2, <1>3, <3>1
  <2>2. QED
    BY <1>1, <1>2, <1>3, <2>1 DEF RaceInv, ChunkInOrder
<1>7. NothingEvicted'
  <2> SUFFICES ASSUME count' < Capacity
               PROVE  head' = 0 /\ count' = written' - Len(chunk') /\ tail' = count'
    BY <1>1 DEF NothingEvicted
  <2>1. ~ Full /\ count < Capacity /\ count' = count + 1 /\ head' = head
    BY <1>3, <1>4 DEF Full
  <2>2. /\ head = 0 /\ count = written - Len(chunk) /\ tail = After(count)
    BY <1>1, <2>1 DEF RaceInv, NothingEvicted
  <2>3. After(count) = count + 1
    BY <1>3, <2>1, AfterInSlots DEF Slots
  <2>4. QED
    BY <1>1, <1>2, <1>3, <2>1, <2>2, <2>3
<1>8. StoredBeforeCounted'
  <2>1. CASE Full
    BY <1>1, <1>3, <1>4, <2>1 DEF RaceInv, StoredBeforeCounted, Full
  <2>2. CASE ~ Full
    <3>1. storage[count] = count + 1 /\ count' = count + 1
      BY <1>1, <1>4, <2>2 DEF RaceInv, StoredBeforeCounted
    <3>2. \A k \in Slots : k < count' => storage'[k] = k + 1
      BY <1>1, <1>3, <1>4, <2>2, <3>1 DEF RaceInv, StoredBeforeCounted, Slots
    <3>3. QED
      BY <1>1, <3>2 DEF StoredBeforeCounted, Slots
  <2>3. QED
    BY <2>1, <2>2
<1>9. CopyInside'
  <2>1. Len(result) \in Nat /\ bound \in Nat
    BY DEF RaceInv, RaceTypeOK
  <2>2. QED
    BY <1>1, <1>3, <1>4, <2>1 DEF RaceInv, CopyInside, Copying
<1>10. CopiedBytes'
  BY <1>1, <1>3, <1>4 DEF RaceInv, CopiedBytes, Copying
<1>11. QED
  BY <1>5, <1>6, <1>7, <1>8, <1>9, <1>10 DEF RaceInv

-----------------------------------------------------------------------------
(***************************************************************************)
(* The copier's steps keep it.                                             *)
(***************************************************************************)

\* What the copier does leaves the writer's part of the invariant alone.
LEMMA CopierFrame ==
  ASSUME RaceInv, UNCHANGED writerVars
  PROVE  /\ TypeOK' /\ ChunkInOrder' /\ NothingEvicted' /\ StoredBeforeCounted'
         /\ UNCHANGED <<storage, head, count, written, writer>>
<1>1. UNCHANGED <<chunk, storage, head, tail, count, written, writer>>
  BY DEF writerVars
<1>2. TypeOK'
  BY <1>1 DEF RaceInv, RaceTypeOK, TypeOK
<1>3. ChunkInOrder' /\ NothingEvicted' /\ StoredBeforeCounted'
  BY <1>1 DEF RaceInv, ChunkInOrder, NothingEvicted, StoredBeforeCounted
<1>4. QED
  BY <1>1, <1>2, <1>3

\* A byte within the count is a stored one, in its place if nothing has moved.
LEMMA CopiedByte ==
  ASSUME RaceInv, NEW k \in Nat, k < count
  PROVE  /\ storage[Slot(k)] \in Byte
         /\ storage[Slot(k)] # 0
         /\ count < Capacity => storage[Slot(k)] = k + 1
<1>1. count \in 0 .. Capacity /\ head \in Slots /\ storage \in [Slots -> Byte]
  BY DEF RaceInv, RaceTypeOK, TypeOK
<1>2. /\ Slot(k) \in Slots
      /\ Slot(k) = IF head + k < Capacity THEN head + k ELSE head + k - Capacity
  <2>1. k \in 0 .. Capacity
    BY <1>1
  <2>2. Slot(k) = IF head + k < Capacity THEN head + k ELSE head + k - Capacity
    BY <1>1, <2>1, ModOnce DEF Slot
  <2>3. QED
    BY <1>1, <2>1, <2>2 DEF Slots
<1>3. CASE count = Capacity
  BY <1>1, <1>2, <1>3 DEF RaceInv, StoredBeforeCounted, Slots
<1>4. CASE count < Capacity
  <2>1. head = 0
    BY <1>4 DEF RaceInv, NothingEvicted
  <2>2. Slot(k) = k
    BY <1>1, <1>2, <2>1
  <2>3. QED
    BY <1>1, <1>2, <1>4, <2>2 DEF RaceInv, StoredBeforeCounted
<1>5. QED
  BY <1>1, <1>3, <1>4

LEMMA AllocateStep ==
  ASSUME RaceInv, Allocate
  PROVE  RaceInv'
<1>1. UNCHANGED <<bound, i>> /\ copier = "idle" /\ copier' = "range"
  BY DEF Allocate
<1>2. UNCHANGED writerVars /\ result' = [k \in 1 .. count |-> 0]
  BY DEF Allocate, Size
<1>3. count \in Nat
  BY DEF RaceInv, RaceTypeOK, TypeOK
<1>4. result' \in Seq(Byte) /\ Len(result') = count
  BY <1>2, <1>3, ByteAssumption
<1>5. RaceTypeOK'
  BY <1>1, <1>2, <1>4, CopierFrame DEF RaceInv, RaceTypeOK
<1>6. CopyInside' /\ CopiedBytes'
  BY <1>1, <1>2, <1>3, <1>4, CopierFrame DEF CopyInside, CopiedBytes, Copying
<1>7. QED
  BY <1>2, <1>5, <1>6, CopierFrame DEF RaceInv

LEMMA EnterLoopStep ==
  ASSUME RaceInv, EnterLoop
  PROVE  RaceInv'
<1>1. /\ UNCHANGED result /\ copier = "range" /\ copier' = "copy"
      /\ i' = 0 /\ bound' \in {Len(result), count}
  BY DEF EnterLoop
<1>2. UNCHANGED writerVars
  BY DEF EnterLoop
<1>3. count \in 0 .. Capacity /\ Len(result) \in Nat /\ Len(result) <= count
  BY DEF RaceInv, RaceTypeOK, TypeOK, CopyInside
<1>4. bound' \in 0 .. Capacity /\ Len(result) <= bound' /\ bound' <= count
  BY <1>1, <1>3
<1>5. RaceTypeOK'
  BY <1>1, <1>2, <1>4, CopierFrame DEF RaceInv, RaceTypeOK
<1>6. CopyInside' /\ CopiedBytes'
  BY <1>1, <1>2, <1>3, <1>4, CopierFrame DEF CopyInside, CopiedBytes, Copying
<1>7. QED
  BY <1>2, <1>5, <1>6, CopierFrame DEF RaceInv

LEMMA CopyStep ==
  ASSUME RaceInv, Copy
  PROVE  RaceInv'
<1>1. copier = "copy" /\ i < bound /\ UNCHANGED bound /\ UNCHANGED writerVars
  BY DEF Copy
<1>2. /\ count \in 0 .. Capacity /\ bound \in 0 .. Capacity /\ i \in Nat
      /\ result \in Seq(Byte) /\ Len(result) \in Nat
  BY DEF RaceInv, RaceTypeOK, TypeOK
<1>3. i <= Len(result) /\ Len(result) <= bound /\ bound <= count
  BY <1>1 DEF RaceInv, CopyInside, Copying
<1>4. CASE i < Len(result)
  <2> DEFINE b == storage[Slot(i)]
  <2>1. /\ result' = [result EXCEPT ![i + 1] = b]
        /\ i' = i + 1 /\ copier' = "copy"
    BY <1>1, <1>2, <1>4 DEF Copy
  <2>2. b \in Byte /\ b # 0 /\ (count < Capacity => b = i + 1)
    BY <1>1, <1>2, <1>3, CopiedByte
  <2> HIDE DEF b
  <2>3. /\ result' \in Seq(Byte) /\ Len(result') = Len(result)
        /\ \A k \in 1 .. Len(result) :
             result'[k] = IF k = i + 1 THEN b ELSE result[k]
    <3>1. i + 1 \in 1 .. Len(result)
      BY <1>2, <1>4
    <3>2. QED
      BY <1>2, <2>1, <2>2, <3>1, ExceptSeq
  <2>4. RaceTypeOK'
    <3>1. i' \in 0 .. Capacity
      BY <1>1, <1>2, <2>1
    <3>2. QED
      BY <1>1, <1>2, <2>1, <2>3, <3>1, CopierFrame DEF RaceInv, RaceTypeOK
  <2>5. CopyInside'
    BY <1>1, <1>2, <1>3, <1>4, <2>1, <2>3, CopierFrame DEF CopyInside, Copying
  <2>6. CopiedBytes'
    <3>1. \A k \in 1 .. i : result[k] # 0 /\ (count < Capacity => result[k] = k)
      BY <1>1 DEF RaceInv, CopiedBytes, Copying
    <3>2. \A k \in 1 .. i + 1 : result'[k] # 0 /\ (count < Capacity => result'[k] = k)
      <4>1. i + 1 \in 1 .. Len(result) /\ result'[i + 1] = b
        BY <1>2, <1>4, <2>3
      <4>2. \A k \in 1 .. i : k \in 1 .. Len(result) /\ result'[k] = result[k]
        BY <1>2, <1>4, <2>3
      <4>3. \A k \in 1 .. i + 1 : k \in 1 .. i \/ k = i + 1
        BY <1>2
      <4>4. QED
        BY <2>2, <3>1, <4>1, <4>2, <4>3
    <3>3. QED
      BY <1>1, <2>1, <3>2, CopierFrame DEF CopiedBytes
  <2>7. QED
    BY <1>1, <2>4, <2>5, <2>6, CopierFrame DEF RaceInv
<1>5. CASE i >= Len(result)
  <2>1. UNCHANGED <<result, i>> /\ copier' = "trapped"
    BY <1>2, <1>5 DEF Copy
  <2>2. RaceTypeOK'
    BY <1>1, <2>1, CopierFrame DEF RaceInv, RaceTypeOK
  <2>3. CopyInside'
    BY <1>1, <1>2, <1>3, <1>5, <2>1, CopierFrame DEF CopyInside, Copying
  <2>4. CopiedBytes'
    BY <1>1, <2>1, CopierFrame DEF RaceInv, CopiedBytes, Copying
  <2>5. QED
    BY <1>1, <2>2, <2>3, <2>4, CopierFrame DEF RaceInv
<1>6. QED
  BY <1>2, <1>4, <1>5

LEMMA ReturnStep ==
  ASSUME RaceInv, Return
  PROVE  RaceInv'
<1>1. /\ UNCHANGED <<bound, i, result>> /\ UNCHANGED writerVars
      /\ copier = "copy" /\ copier' = "done" /\ i = bound
  BY DEF Return
<1>2. RaceTypeOK'
  BY <1>1, CopierFrame DEF RaceInv, RaceTypeOK
<1>3. CopyInside' /\ CopiedBytes'
  BY <1>1, CopierFrame DEF RaceInv, CopyInside, CopiedBytes, Copying
<1>4. QED
  BY <1>1, <1>2, <1>3, CopierFrame DEF RaceInv

LEMMA AttachStep ==
  ASSUME RaceInv, Attach
  PROVE  RaceInv'
<1>1. /\ UNCHANGED writerVars /\ copier' = "idle"
      /\ bound' = 0 /\ i' = 0 /\ result' = << >>
  BY DEF Attach
<1>2. count \in 0 .. Capacity /\ Len(<< >>) = 0 /\ << >> \in Seq(Byte)
  BY EmptySeq DEF RaceInv, RaceTypeOK, TypeOK
<1>3. RaceTypeOK'
  BY <1>1, <1>2, CopierFrame DEF RaceInv, RaceTypeOK
<1>4. CopyInside' /\ CopiedBytes'
  BY <1>1, <1>2, CopierFrame DEF CopyInside, CopiedBytes, Copying
<1>5. QED
  BY <1>1, <1>3, <1>4, CopierFrame DEF RaceInv

LEMMA NextRaceInv == RaceInv /\ [RaceNext]_raceVars => RaceInv'
<1> SUFFICES ASSUME RaceInv, [RaceNext]_raceVars PROVE RaceInv'
  OBVIOUS
<1>1. ASSUME NEW n \in 1 .. MaxRead, Read(n) PROVE RaceInv'
  BY <1>1, ReadStep
<1>2. CASE Store \/ Advance \/ Account
  BY <1>2, StoreStep, AdvanceStep, AccountStep
<1>3. CASE Allocate \/ EnterLoop \/ Copy \/ Return \/ Attach
  BY <1>3, AllocateStep, EnterLoopStep, CopyStep, ReturnStep, AttachStep
<1>4. CASE UNCHANGED raceVars
  <2>1. UNCHANGED writerVars /\ UNCHANGED <<copier, bound, i, result>>
    BY <1>4 DEF raceVars, copierVars
  <2>2. RaceTypeOK' /\ CopyInside' /\ CopiedBytes'
    BY <2>1, CopierFrame DEF RaceInv, RaceTypeOK, CopyInside, CopiedBytes, Copying
  <2>3. QED
    BY <2>1, <2>2, CopierFrame DEF RaceInv
<1>5. QED
  BY <1>1, <1>2, <1>3, <1>4 DEF RaceNext

\* The statements of write and snapshot, in whatever order they interleave,
\* keep the inductive invariant.
THEOREM RaceInvariance == RaceSpec => []RaceInv
BY InitRaceInv, NextRaceInv, PTL DEF RaceSpec

-----------------------------------------------------------------------------
(***************************************************************************)
(* What survives the race.                                                 *)
(***************************************************************************)

\* The buffer's indices stay inside its storage under the statement-by-
\* statement writer too, and the copy's loop inside the capacity.
THEOREM RaceTypeCorrect == RaceSpec => []RaceTypeOK
BY RaceInvariance, PTL DEF RaceInv

\* A copy that has returned is as long as its array: the loop's end was not
\* before it, and past it the program would have trapped.
LEMMA DoneIsComplete ==
  ASSUME RaceInv, copier = "done"
  PROVE  i = Len(result) /\ Len(result) \in Nat /\ DOMAIN result = 1 .. Len(result)
<1>1. result \in Seq(Byte) /\ i \in Nat /\ bound \in Nat
  BY DEF RaceInv, RaceTypeOK
<1>2. Len(result) \in Nat /\ DOMAIN result = 1 .. Len(result)
  BY <1>1, LenProperties
<1>3. i = bound /\ i <= Len(result) /\ Len(result) <= bound
  BY DEF RaceInv, CopyInside, Copying
<1>4. i = Len(result)
  <2>1. i \in Nat /\ bound \in Nat /\ Len(result) \in Nat
    BY <1>1, <1>2
  <2>2. QED
    BY <1>3, <2>1
<1>5. QED
  BY <1>2, <1>4

\* Whatever the reader task does to the buffer meanwhile, every byte of a
\* replay that snapshot() returns is one that the shell wrote.
THEOREM ReplayInvented == RaceSpec => []ReplayInventsNothing
<1>1. RaceInv => ReplayInventsNothing
  BY DoneIsComplete DEF RaceInv, CopiedBytes, Copying, ReplayInventsNothing
<1>2. QED
  BY <1>1, RaceInvariance, PTL

\* A replay of a session whose buffer has not been full is a prefix of the
\* shell's output, although the shell goes on writing during the copy.
THEOREM EarlyReplay == RaceSpec => []EarlyReplayIsPrefix
<1>1. RaceInv => EarlyReplayIsPrefix
  <2> SUFFICES ASSUME RaceInv, copier = "done", count < Capacity
               PROVE  result = [k \in 1 .. Len(result) |-> k]
    BY DEF EarlyReplayIsPrefix
  <2>1. \A k \in 1 .. Len(result) : result[k] = k
    BY DoneIsComplete DEF RaceInv, CopiedBytes, Copying
  <2>2. result \in [1 .. Len(result) -> Byte]
    BY LenProperties DEF RaceInv, RaceTypeOK
  <2>3. QED
    BY <2>1, <2>2
<1>2. QED
  BY <1>1, RaceInvariance, PTL

\* Only the copy of a buffer that is still filling can index past its array
\* and trap: the array of a full one has the size count cannot exceed.
THEOREM FullReplaySafe == RaceSpec => []FullReplayNeverTraps
<1>1. RaceInv => FullReplayNeverTraps
  <2> SUFFICES ASSUME RaceInv, copier = "trapped" PROVE Len(result) < Capacity
    BY DEF FullReplayNeverTraps
  <2>1. bound \in 0 .. Capacity /\ Len(result) \in Nat /\ Len(result) < bound
    BY DEF RaceInv, RaceTypeOK, CopyInside
  <2>2. QED
    BY <2>1
<1>2. QED
  BY <1>1, RaceInvariance, PTL

-----------------------------------------------------------------------------
(***************************************************************************)
(* The writer's statements are the iterations RingBuffer models.           *)
(***************************************************************************)

LEMMA InitIsAtomic == RaceInit => Atomic!Init
BY DEF RaceInit, Init, Stored, Slots, Atomic!Init, Atomic!Slots

\* The store stands for the iteration: what is seen of the indices has moved.
LEMMA StoreIsIteration ==
  ASSUME Store
  PROVE  Atomic!WriteByte
<1>1. /\ UNCHANGED <<chunk, head, tail, count>>
      /\ chunk # << >> /\ writer = "store" /\ writer' = "advance"
      /\ storage' = [storage EXCEPT ![tail] = Head(chunk)]
  BY DEF Store
<1>2. ~ Stored /\ Stored' /\ (Full' <=> Full)
  BY <1>1 DEF Stored, Full
<1>3. CASE Full
  BY <1>1, <1>2, <1>3 DEF Atomic!WriteByte, Atomic!Full, Atomic!After, Full, After
<1>4. CASE ~ Full
  BY <1>1, <1>2, <1>4 DEF Atomic!WriteByte, Atomic!Full, Atomic!After, Full, After
<1>5. QED
  BY <1>3, <1>4

LEMMA StepIsAtomic == RaceInv /\ [RaceNext]_raceVars => [Atomic!Next]_(Atomic!vars)
<1> SUFFICES ASSUME RaceInv, [RaceNext]_raceVars
             PROVE  [Atomic!Next]_(Atomic!vars)
  OBVIOUS
<1>1. ASSUME NEW n \in 1 .. MaxRead, Read(n) PROVE Atomic!Next
  <2>1. writer = "store" /\ UNCHANGED <<storage, head, tail, count, writer>>
    BY <1>1 DEF Read, RaceInv, ChunkInOrder
  <2>2. chunk = << >> /\ chunk' \in Reads
    <3>1. written \in 0 .. MaxBytes
      BY DEF RaceInv, RaceTypeOK
    <3>2. chunk' \in Seq(Byte)
      BY NextRaceInv DEF RaceInv, RaceTypeOK, TypeOK
    <3>3. chunk' = Run(written, n) /\ chunk = << >>
      BY <1>1 DEF Read
    <3>4. Run(written, n) \in {Run(w, m) : w \in 0 .. MaxBytes, m \in 1 .. MaxRead}
      BY <1>1, <3>1
    <3>5. QED
      BY <3>2, <3>3, <3>4 DEF Reads
  <2>3. Atomic!BeginWrite(chunk')
    BY <2>1, <2>2 DEF Atomic!BeginWrite, Stored
  <2>4. QED
    BY <2>2, <2>3 DEF Atomic!Next
<1>2. CASE Store
  BY <1>2, StoreIsIteration DEF Atomic!Next
<1>3. CASE Advance
  BY <1>3 DEF Advance, Atomic!vars, Stored, Full
<1>4. CASE Account
  <2>1. /\ UNCHANGED <<storage, tail>> /\ chunk' = Tail(chunk)
        /\ writer = "account" /\ writer' = "store"
    BY <1>4 DEF Account
  <2>2. Stored /\ ~ Stored'
    BY <2>1 DEF Stored
  <2>3. CASE Full
    BY <1>4, <2>1, <2>2, <2>3 DEF Account, Atomic!vars
  <2>4. CASE ~ Full
    BY <1>4, <2>1, <2>2, <2>4 DEF Account, Atomic!vars
  <2>5. QED
    BY <2>3, <2>4
<1>5. CASE UNCHANGED writerVars
  BY <1>5 DEF writerVars, Atomic!vars, Stored, Full, After
<1>6. QED
  BY <1>1, <1>2, <1>3, <1>4, <1>5
     DEF RaceNext, raceVars, Allocate, EnterLoop, Copy, Return, Attach

\* RingBuffer.write as its statements run, interleaved with a copy, behaves as
\* RingBuffer's atomic iterations do: the copy never disturbs the writer, and
\* what is proved of the iterations holds of the statements.
THEOREM WriterRefines == RaceSpec => WriterIsAtomic
<1>1. RaceSpec => Atomic!Init /\ [][Atomic!Next]_(Atomic!vars)
  BY InitIsAtomic, StepIsAtomic, RaceInvariance, PTL DEF RaceSpec
<1>2. QED
  BY <1>1 DEF WriterIsAtomic, Atomic!Spec

\* RingBufferProofs under the same substitution.
Ring == INSTANCE RingBufferProofs WITH
  Chunks <- Reads,
  chunk <- IF Stored THEN Tail(chunk) ELSE chunk,
  tail <- IF writer = "advance" THEN After(tail) ELSE tail,
  head <- IF Stored /\ Full THEN After(head) ELSE head,
  count <- IF Stored /\ ~ Full THEN count + 1 ELSE count

\* RingBuffer.swift's contract survives its two users, on the writer's side:
\* at any statement, what a copy of the buffer ought to return is the bounded
\* queue of the bytes read, with the byte in hand in it once it is stored.
\* That the copies themselves are torn is another matter (ReplayIsContiguous).
THEOREM WriterIsQueue == RaceSpec => Atomic!ImplementsWindow
<1>1. Ring!CapacityAssumption /\ Ring!ByteAssumption /\ Ring!ChunksAssumption
  BY ByteAssumption DEF Ring!CapacityAssumption, Ring!ByteAssumption,
                        Ring!ChunksAssumption, Reads
<1>2. Ring!Spec => Ring!ImplementsWindow
  BY <1>1, Ring!Refinement
<1>3. Atomic!Spec => Ring!Spec
  <2>1. Atomic!Init => Ring!Init
    BY DEF Atomic!Init, Ring!Init, Atomic!Slots, Ring!Slots
  <2>2. [Atomic!Next]_(Atomic!vars) => [Ring!Next]_(Ring!vars)
    BY DEF Atomic!Next, Atomic!vars, Atomic!BeginWrite, Atomic!WriteByte, Atomic!Reset,
           Atomic!After, Atomic!Full, Ring!Next, Ring!vars, Ring!BeginWrite,
           Ring!WriteByte, Ring!Reset, Ring!After, Ring!Full
  <2>3. QED
    BY <2>1, <2>2, PTL DEF Atomic!Spec, Ring!Spec
<1>4. Ring!ImplementsWindow => Atomic!ImplementsWindow
  <2>1. Ring!Window!Init => Atomic!Window!Init
    BY DEF Ring!Window!Init, Atomic!Window!Init, Ring!Snapshot, Atomic!Snapshot
  <2>2. [Ring!Window!Next]_(Ring!Snapshot) => [Atomic!Window!Next]_(Atomic!Snapshot)
    BY DEF Ring!Window!Next, Ring!Window!Push, Ring!Window!Clear, Ring!Snapshot,
           Atomic!Window!Next, Atomic!Window!Push, Atomic!Window!Clear, Atomic!Snapshot
  <2>3. Ring!ImplementsWindow => Ring!Window!Init /\ [][Ring!Window!Next]_(Ring!Snapshot)
    BY DEF Ring!ImplementsWindow, Ring!Window!Spec
  <2>4. Ring!ImplementsWindow => Atomic!Window!Init /\ [][Atomic!Window!Next]_(Atomic!Snapshot)
    BY <2>1, <2>2, <2>3, PTL
  <2>5. QED
    BY <2>4 DEF Atomic!ImplementsWindow, Atomic!Window!Spec
<1>5. QED
  BY <1>2, <1>3, <1>4, WriterRefines, PTL DEF WriterIsAtomic
=============================================================================
