-------------------------- MODULE MCIOSConnection --------------------------
(***************************************************************************)
(* IOSConnection for TLC: two pairings, so that a task asleep for an old   *)
(* one can wake under a new one, and two tasks asleep before the timer     *)
(* stops starting others.                                                  *)
(***************************************************************************)
EXTENDS IOSConnection

CONSTANTS k1, k2
=============================================================================
