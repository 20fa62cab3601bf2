------------------------------- MODULE MCChat -------------------------------
(* Small instances of Chat.                                                *)
EXTENDS Chat

CONSTANTS ann, mbob, annm, bob, hi, yo

\* ann@x.co and mbob@x.co, ann@x.com and bob@x.co, with 1 for "ann@x.co", 2 for
\* "bob@x.co" and 3 for "m": both pairs' rooms are <<1, 3, 2>>.
Addresses == (ann :> <<1>>) @@ (mbob :> <<3, 2>>) @@ (annm :> <<1, 3>>) @@ (bob :> <<2>>)
=============================================================================
