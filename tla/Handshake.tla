----------------------------- MODULE Handshake -----------------------------
(***************************************************************************)
(* What adding a friend promises, whoever carries it out and however often *)
(* it is interrupted.  One handshake per call of addToFriends: the caller  *)
(* lists the friend, then the friend lists the caller, then their chat     *)
(* room is opened.  A handshake may stop at any stage for ever, but it     *)
(* never skips a stage, never takes one back and never changes partner.    *)
(***************************************************************************)
CONSTANTS Users,    \* the e-mail addresses that name the users
          Calls     \* the calls of addToFriends; Caller(c) makes call c
CONSTANT  Caller(_)

VARIABLE handshake  \* per call: whom its documents name, which have landed

Stages == {{}, {"own"}, {"own", "peer"}, {"own", "peer", "room"}}

TypeOK ==
    handshake \in [Calls -> [named : SUBSET Users, landed : Stages]]

Init ==
    handshake = [c \in Calls |-> [named |-> {}, landed |-> {}]]

\* The caller's own list names a friend, who is somebody else.
Propose(c, f) ==
    /\ handshake[c].landed = {}
    /\ f # Caller(c)
    /\ handshake' = [handshake EXCEPT ![c] = [named |-> {f}, landed |-> {"own"}]]

\* The friend's list names the caller.
Answer(c) ==
    /\ handshake[c].landed = {"own"}
    /\ handshake' = [handshake EXCEPT ![c] =
            [named |-> @.named, landed |-> {"own", "peer"}]]

\* The room of the two is opened.
OpenRoom(c) ==
    /\ handshake[c].landed = {"own", "peer"}
    /\ handshake' = [handshake EXCEPT ![c] =
            [named |-> @.named, landed |-> {"own", "peer", "room"}]]

Next ==
    \E c \in Calls :
        \/ \E f \in Users : Propose(c, f)
        \/ Answer(c)
        \/ OpenRoom(c)

Spec == Init /\ [][Next]_handshake
=============================================================================
