---------------------------- MODULE MCDiscover ----------------------------
(* Small instances of Discover.                                            *)
EXTENDS Discover

CONSTANTS near, a, b

\* One circle.
OneZone == {{near}}
=============================================================================
