-------------------------- MODULE MCShellLifecycle --------------------------
(***************************************************************************)
(* ShellLifecycle for TLC: two shells that get the same pid one after the  *)
(* other, and a third that gets another.                                   *)
(***************************************************************************)
EXTENDS ShellLifecycle

CONSTANTS s1, s2, s3, p1, p2, i1, i2, i3

TwoShareAPid == [s \in Shells |-> IF s = s3 THEN p2 ELSE p1]
=============================================================================
