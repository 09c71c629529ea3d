---------------------------- MODULE MCKeepalive ----------------------------
(***************************************************************************)
(* Keepalive for TLC.                                                      *)
(***************************************************************************)
EXTENDS Keepalive
=============================================================================
