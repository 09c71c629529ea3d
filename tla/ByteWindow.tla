----------------------------- MODULE ByteWindow -----------------------------
(***************************************************************************)
(* What a session's ring buffer promises its clients: it is a queue of     *)
(* bytes, oldest first, that holds at most Capacity of them.  Pushing a    *)
(* byte into a full window drops exactly the oldest byte.                  *)
(* RingBuffer.tla, which follows RingBuffer.swift, implements this module. *)
(***************************************************************************)
EXTENDS Naturals, Sequences

CONSTANTS
  Capacity,  \* bytes the window can hold
  Byte       \* the values of a byte

VARIABLE window

Init == window = << >>

Push(b) ==
  window' = IF Len(window) = Capacity
              THEN Append(Tail(window), b)
              ELSE Append(window, b)

Clear == window' = << >>

Next == Clear \/ \E b \in Byte : Push(b)

Spec == Init /\ [][Next]_window
=============================================================================
