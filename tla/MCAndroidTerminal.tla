-------------------------- MODULE MCAndroidTerminal --------------------------
(***************************************************************************)
(* AndroidTerminal for TLC.                                                *)
(***************************************************************************)
EXTENDS AndroidTerminal

CONSTANTS a, b
=============================================================================
