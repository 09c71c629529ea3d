----------------------------- MODULE ReplayRace -----------------------------
(***************************************************************************)
(* The ring buffer as PTYSession really uses it.  The buffer is declared   *)
(* nonisolated(unsafe): the detached task that reads the shell's pipe      *)
(* writes into it while the actor, serving an attach message, copies it.   *)
(* Nothing orders the two, so every access to a field is a step of its     *)
(* own.  A thread's stores become visible in program order, as on an Intel *)
(* Mac; a machine that reorders them has all these behaviours and more.    *)
(* The bytes a shell writes are numbered 1, 2, 3, ... so that a replay     *)
(* shows where it was torn; 0 is the filling of a new array.               *)
(***************************************************************************)
EXTENDS RingBuffer

CONSTANTS
  MaxBytes,  \* bytes the shell writes (bound of the model)
  MaxRead    \* bytes one read of the pipe returns, 4096 in the program

ASSUME ReplayAssumption ==
  /\ MaxBytes \in Nat
  /\ MaxRead \in Nat \ {0}
  /\ Byte = 0 .. MaxBytes

VARIABLES
  written,   \* bytes the reader task has read from the pipe
  writer,    \* where the reader task is in write's loop body
  copier,    \* where the actor is in snapshot()
  bound,     \* the upper end of `for i in 0..<count'
  i,         \* the loop variable of snapshot()
  result     \* the array snapshot() fills

writerVars == <<chunk, storage, head, tail, count, written, writer>>
copierVars == <<copier, bound, i, result>>
raceVars == <<writerVars, copierVars>>

RaceInit ==
  /\ Init
  /\ written = 0
  /\ writer = "store"
  /\ copier = "idle"
  /\ bound = 0
  /\ i = 0
  /\ result = << >>

\* The n bytes of the shell's output that follow its first w.
Run(w, n) == [k \in 1 .. n |-> w + k]

\* Darwin.read returns n bytes and buffer.write(bytes) is entered.
Read(n) ==
  /\ chunk = << >>
  /\ written + n <= MaxBytes
  /\ chunk' = Run(written, n)
  /\ written' = written + n
  /\ UNCHANGED <<storage, head, tail, count, writer, copierVars>>

\* The byte is stored after the tail has moved.
StoreAhead ==
  /\ chunk # << >>
  /\ writer = "store"
  /\ storage' = [storage EXCEPT ![After(tail)] = Head(chunk)]
  /\ writer' = "advance"
  /\ UNCHANGED <<chunk, head, tail, count, written, copierVars>>

\* storage[tail] = byte
Store ==
  /\ chunk # << >>
  /\ writer = "store"
  /\ storage' = [storage EXCEPT ![tail] = Head(chunk)]
  /\ writer' = "advance"
  /\ UNCHANGED <<chunk, head, tail, count, written, copierVars>>

\* tail = (tail + 1) % capacity
Advance ==
  /\ writer = "advance"
  /\ tail' = After(tail)
  /\ writer' = "account"
  /\ UNCHANGED <<chunk, storage, head, count, written, copierVars>>

\* The last statement of the body: the head moves or the count grows.
Account ==
  /\ writer = "account"
  /\ \/ Full /\ head' = After(head) /\ UNCHANGED count
     \/ ~Full /\ count' = count + 1 /\ UNCHANGED head
  /\ chunk' = Tail(chunk)
  /\ writer' = "store"
  /\ UNCHANGED <<storage, tail, written, copierVars>>

SizeFull == Capacity

Size == count

\* snapshot() is entered with a buffer that is not empty and allocates its
\* result.
Allocate ==
  /\ copier = "idle"
  /\ count > 0
  /\ result' = [k \in 1 .. Size |-> 0]
  /\ copier' = "range"
  /\ UNCHANGED <<writerVars, bound, i>>

\* The loop's range reads count once more, or a build that keeps it in a
\* register uses the value it has.
EnterLoop ==
  /\ copier = "range"
  /\ bound' \in {Len(result), count}
  /\ i' = 0
  /\ copier' = "copy"
  /\ UNCHANGED <<writerVars, result>>

SlotNext(k) == (head + k + 1) % Capacity

Slot(k) == (head + k) % Capacity

\* One iteration; an index past the end of result traps.
Copy ==
  /\ copier = "copy"
  /\ i < bound
  /\ \/ /\ i < Len(result)
        /\ result' = [result EXCEPT ![i + 1] = storage[Slot(i)]]
        /\ i' = i + 1
        /\ UNCHANGED copier
     \/ /\ i >= Len(result)
        /\ copier' = "trapped"
        /\ UNCHANGED <<result, i>>
  /\ UNCHANGED <<writerVars, bound>>

Return ==
  /\ copier = "copy"
  /\ i = bound
  /\ copier' = "done"
  /\ UNCHANGED <<writerVars, bound, i, result>>

\* The replay has been sent; another attach may follow.
Attach ==
  /\ copier = "done"
  /\ copier' = "idle"
  /\ bound' = 0
  /\ i' = 0
  /\ result' = << >>
  /\ UNCHANGED writerVars

\* A trap ends the process.
RaceNext ==
  /\ copier # "trapped"
  /\ \/ \E n \in 1 .. MaxRead : Read(n)
     \/ Store \/ Advance \/ Account
     \/ Allocate \/ EnterLoop \/ Copy \/ Return \/ Attach

RaceSpec == RaceInit /\ [][RaceNext]_raceVars

-----------------------------------------------------------------------------
(***************************************************************************)
(* What survives the race.                                                 *)
(***************************************************************************)

\* The variables have their types.
RaceTypeOK ==
  /\ TypeOK
  /\ written \in 0 .. MaxBytes
  /\ writer \in {"store", "advance", "account"}
  /\ copier \in {"idle", "range", "copy", "done", "trapped"}
  /\ bound \in 0 .. Capacity
  /\ i \in 0 .. Capacity
  /\ result \in Seq(Byte)

\* A replay never shows the filling of the storage or of the result: count,
\* written last in the loop body, covers stored bytes only.
ReplayInventsNothing ==
  copier = "done" => \A k \in DOMAIN result : result[k] # 0

\* Until the buffer has been full once, a replay is what the shell wrote first,
\* in order: nothing is evicted, so nothing moves under the copy.
EarlyReplayIsPrefix ==
  copier = "done" /\ count < Capacity =>
    result = [k \in 1 .. Len(result) |-> k]

\* The copy of a full buffer stays inside its array.
FullReplayNeverTraps ==
  copier = "trapped" => Len(result) < Capacity

\* A call of write is entered with what one read has returned.
Reads == {Run(w, n) : w \in 0 .. MaxBytes, n \in 1 .. MaxRead} \cap Seq(Byte)

Stored == writer # "store"

\* The three statements of write's loop body, each a step here, are one
\* iteration of RingBuffer's: it happens with the store, after which the
\* indices have still to follow.
Atomic == INSTANCE RingBuffer WITH
  Chunks <- Reads,
  chunk <- IF Stored THEN Tail(chunk) ELSE chunk,
  tail <- IF writer = "advance" THEN After(tail) ELSE tail,
  head <- IF Stored /\ Full THEN After(head) ELSE head,
  count <- IF Stored /\ ~ Full THEN count + 1 ELSE count

WriterIsAtomic == Atomic!Spec

-----------------------------------------------------------------------------
\* "Returns a contiguous copy of all buffered bytes, oldest first"
\* (RingBuffer.swift): the bytes of a replay are consecutive bytes of the
\* shell's output.
ReplayIsContiguous ==
  copier = "done" =>
    \A k \in 1 .. Len(result) - 1 : result[k + 1] = result[k] + 1
=============================================================================
