---------------------------- MODULE MCRingBuffer ----------------------------
(***************************************************************************)
(* The ring buffer for TLC: three slots, three byte values, write calls of *)
(* zero to four bytes, so one call can fill the buffer, wrap and evict.    *)
(***************************************************************************)
EXTENDS RingBuffer, SequencesExt

CONSTANT MaxChunk   \* longest argument of write

MCBytes == 0 .. 2

MCChunks == BoundedSeq(MCBytes, MaxChunk)
=============================================================================
