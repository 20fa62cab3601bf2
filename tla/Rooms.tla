------------------------------- MODULE Rooms -------------------------------
(***************************************************************************)
(* What the chat promises: a message that is sent is never lost from the   *)
(* record of what was said.  Its sender sees it at once.  Once it has      *)
(* appeared to the other, it is there for both and stays; until then, or   *)
(* if it never does, the sender may see it vanish.  Chats that have been   *)
(* given the same room show the same messages.                             *)
(***************************************************************************)
EXTENDS Naturals

CONSTANTS Users, Texts,
          Sends,    \* the numbers of a user's messages
          RoomOf    \* user, friend: the room of their chat

Message == [from : Users, n : Sends, to : Users, text : Texts]

VARIABLES
    said,       \* the messages sent
    listed      \* user, friend: the messages the chat shows on the user's screen

vars == <<said, listed>>

Init ==
    /\ said = {}
    /\ listed = [u \in Users |-> [v \in Users |-> {}]]

\* The screen of u for v is one of the room that m was sent to.
Concerns(m, u, v) == RoomOf[u][v] = RoomOf[m.from][m.to]

\* The sender has the message on the screen.
ShownToSender(m) ==
    [u \in Users |-> [v \in Users |->
        IF u = m.from /\ Concerns(m, u, v) THEN listed[u][v] \union {m} ELSE listed[u][v]]]

\* A user's messages are numbered in the order they are sent.
Say(m) ==
    /\ m.from # m.to
    /\ \A k \in said : k.from = m.from => k.n < m.n
    /\ said' = said \union {m}
    /\ listed' = ShownToSender(m)

Appear(m) ==
    /\ m \in said
    /\ listed' = [u \in Users |-> [v \in Users |->
            IF Concerns(m, u, v) THEN listed[u][v] \union {m} ELSE listed[u][v]]]
    /\ UNCHANGED said

\* A message that has not appeared to the other is taken back from its sender.
Vanish(m) ==
    /\ m \in said /\ m \notin listed[m.to][m.from]
    /\ listed' = [u \in Users |-> [v \in Users |->
            IF u = m.from THEN listed[u][v] \ {m} ELSE listed[u][v]]]
    /\ UNCHANGED said

Next == \E m \in Message : Say(m) \/ Appear(m) \/ Vanish(m)

Spec == Init /\ [][Next]_vars
=============================================================================
