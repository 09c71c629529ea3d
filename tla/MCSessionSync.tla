--------------------------- MODULE MCSessionSync ---------------------------
(***************************************************************************)
(* SessionSync for TLC: one phone, with two channels (it reconnects once)  *)
(* or with one.                                                            *)
(***************************************************************************)
EXTENDS SessionSync, TLC

CONSTANTS p1, ch1, ch2, s1, s2

OnePhone == [ch \in Channels |-> p1]
=============================================================================
