----------------------------- MODULE MCProfile -----------------------------
(* Small instances of Profile.                                             *)
EXTENDS Profile

CONSTANTS ann, bob
=============================================================================
