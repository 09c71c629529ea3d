----------------------------- MODULE MCMacAgent -----------------------------
(***************************************************************************)
(* MacAgent, and with it ShellLifecycle, for TLC.                          *)
(***************************************************************************)
EXTENDS MacAgent

CONSTANTS s1, p1, i1, i2

SamePid == [s \in Shells |-> p1]
=============================================================================
