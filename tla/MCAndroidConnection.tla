------------------------ MODULE MCAndroidConnection ------------------------
(***************************************************************************)
(* AndroidConnection for TLC.                                              *)
(***************************************************************************)
EXTENDS AndroidConnection

CONSTANTS k1, k2, s1, s2, s3
=============================================================================
