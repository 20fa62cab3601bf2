--------------------------- MODULE MCFriendTiles ---------------------------
(* Small instances of FriendTiles.                                         *)
EXTENDS FriendTiles

CONSTANTS ann, bob, cy
=============================================================================
