---------------------------- MODULE MCWatchTarget ----------------------------
(***************************************************************************)
(* Instances of WatchTarget for TLC.                                       *)
(***************************************************************************)
EXTENDS WatchTarget

CONSTANTS d1, d2
=============================================================================
