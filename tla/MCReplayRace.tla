---------------------------- MODULE MCReplayRace ----------------------------
(***************************************************************************)
(* The replay race for TLC: a buffer of four bytes and a shell that writes *)
(* eleven of them, enough to fill the buffer and then to overwrite it once *)
(* more from end to end while one copy is under way.                       *)
(***************************************************************************)
EXTENDS ReplayRace

MCBytes == 0 .. MaxBytes
=============================================================================
