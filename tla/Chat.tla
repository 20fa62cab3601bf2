-------------------------------- MODULE Chat --------------------------------
(***************************************************************************)
(* The chat screen: a text field, a Send button that awaits the add of a   *)
(* document to the room, and a live list of the room's documents.  A room  *)
(* is named by joining the two e-mail addresses in order, so the module    *)
(* spells addresses out, as sequences of character codes.                  *)
(***************************************************************************)
EXTENDS Naturals, Sequences, SequencesExt

CONSTANTS
    Users,      \* each is a user and the user's device
    Address,    \* the e-mail address of a user: a sequence of character codes
    Texts,      \* what is typed into the field
    Blank,      \* the empty field
    Null,       \* the message before anything is typed
    Nobody,     \* no chat is open
    Writers,    \* bound: the users who open chats
    MaxSends    \* bound: taps on Send per device

ASSUME AddressesDiffer ==
    /\ Address \in [Users -> Seq(Nat)]
    /\ \A u, v \in Users : Address[u] = Address[v] => u = v
ASSUME Sentinels == Nobody \notin Users /\ Null \notin Texts /\ Blank \in Texts
ASSUME Bounds == Writers \subseteq Users /\ MaxSends \in Nat

\* The order of Dart's String.compareTo.
Less(a, b) ==
    \E k \in 1 .. Len(b) :
        /\ \A j \in 1 .. k - 1 : j <= Len(a) /\ a[j] = b[j]
        /\ k <= Len(a) => a[k] < b[k]

\* getDocumentName on u's screen for v: the addresses, sorted and joined.
RoomUnsorted(u, v) == Address[u] \o Address[v]  \* mutant
RoomOfOne(u, v) ==  \* mutant: the room of the smaller address alone
    IF Less(Address[v], Address[u]) THEN Address[v] ELSE Address[u]
Room(u, v) ==
    IF Less(Address[v], Address[u]) THEN Address[v] \o Address[u]
                                    ELSE Address[u] \o Address[v]

\* The room of every chat.
RoomOf == [u \in Users |-> [v \in Users |-> Room(u, v)]]

\* A document of a room; <<from, n>> identifies it however often it is sent.
Doc == [from : Users, n : 1 .. MaxSends, to : Users,
        text : Texts \union {Null}, room : Seq(Nat)]

VARIABLES
    open,       \* device: the friend whose chat is open
    field,      \* device: the text the field shows
    message,    \* device: the text Send would send
    sent,       \* device: taps on Send so far
    waiting,    \* device: the sends whose onPressed, on the open screen, awaits
    pending,    \* devices, durable: documents not yet answered
    db,         \* server: the rooms' documents
    refused     \* server: the documents it has refused

vars == <<open, field, message, sent, waiting, pending, db, refused>>

TypeOK ==
    /\ open \in [Users -> Users \union {Nobody}]
    /\ field \in [Users -> Texts]
    /\ message \in [Users -> Texts \union {Null}]
    /\ sent \in [Users -> 0 .. MaxSends]
    /\ waiting \in [Users -> SUBSET (1 .. MaxSends)]
    /\ pending \subseteq Doc /\ db \subseteq Doc /\ refused \subseteq Doc

Init ==
    /\ open = [u \in Users |-> Nobody]
    /\ field = [u \in Users |-> Blank]
    /\ message = [u \in Users |-> Null]
    /\ sent = [u \in Users |-> 0]
    /\ waiting = [u \in Users |-> {}]
    /\ pending = {} /\ db = {} /\ refused = {}

-----------------------------------------------------------------------------
(* The screen.                                                             *)

ShowNull(u, v) ==  \* mutant: the field starts out null too
    /\ open' = [open EXCEPT ![u] = v]
    /\ field' = [field EXCEPT ![u] = Null]
    /\ message' = [message EXCEPT ![u] = Null]
    /\ waiting' = [waiting EXCEPT ![u] = {}]

\* u's screen is now the chat with v, or none: a new State, so what an older
\* screen showed, and awaited, no longer counts.
Show(u, v) ==
    /\ open' = [open EXCEPT ![u] = v]
    /\ field' = [field EXCEPT ![u] = Blank]
    /\ message' = [message EXCEPT ![u] = Null]
    /\ waiting' = [waiting EXCEPT ![u] = {}]

\* A tap on a friend's tile.
Open(u, v) ==
    /\ open[u] = Nobody /\ v # u
    /\ Show(u, v)
    /\ UNCHANGED <<sent, pending, db, refused>>

Close(u) ==
    /\ open[u] # Nobody
    /\ Show(u, Nobody)
    /\ UNCHANGED <<sent, pending, db, refused>>

\* The field is edited, to any text.
Type(u, t) ==
    /\ open[u] # Nobody
    /\ field' = [field EXCEPT ![u] = t]
    /\ message' = [message EXCEPT ![u] = t]
    /\ UNCHANGED <<open, sent, waiting, pending, db, refused>>

\* Send adds the message, null if nothing has been typed, and awaits.  The step
\* is the one in which the client has stored the write: a tap whose process is
\* killed before that has done nothing.
Send(u) ==
    /\ open[u] # Nobody
    /\ sent[u] < MaxSends
    /\ sent' = [sent EXCEPT ![u] = @ + 1]
    /\ pending' = pending \union
            {[from |-> u, n |-> sent[u] + 1, to |-> open[u], text |-> message[u],
              room |-> RoomOf[u][open[u]]]}
    /\ waiting' = [waiting EXCEPT ![u] = @ \union {sent[u] + 1}]
    /\ UNCHANGED <<open, field, message, db, refused>>

-----------------------------------------------------------------------------
(* The Firestore client and server.                                        *)

\* The server stores a document.  A write that is sent again may be answered
\* otherwise the second time, and one that was given up may still arrive on the
\* stream that was closed: see Apply in WritePipeline.
Deliver(w) ==
    /\ w \in (pending \union refused) \ db
    /\ db' = db \union {w}
    /\ UNCHANGED <<open, field, message, sent, waiting, pending, refused>>

Refuse(w) ==
    /\ w \in pending \ refused
    /\ refused' = refused \union {w}
    /\ UNCHANGED <<open, field, message, sent, waiting, pending, db>>

AnswerResets(w, ok) ==  \* mutant: the message is reset where the field should be
    /\ w \in pending \intersect (IF ok THEN db ELSE db \union refused)
    /\ pending' = pending \ {w}
    /\ waiting' = [waiting EXCEPT ![w.from] = @ \ {w.n}]
    /\ message' = IF ok /\ w.n \in waiting[w.from]
                  THEN [message EXCEPT ![w.from] = Null] ELSE message
    /\ UNCHANGED <<open, field, sent, db, refused>>

\* The answer reaches the device; a failure may be told of a stored document
\* too, see GivesUpTheRefused in WritePipeline.  If the screen that sent is
\* still there and the answer is good, the field is cleared, whatever it shows
\* by now.  Clearing it does not call onChanged, so the message stays.
Answer(w, ok) ==
    /\ w \in pending \intersect (IF ok THEN db ELSE db \union refused)
    /\ pending' = pending \ {w}
    /\ waiting' = [waiting EXCEPT ![w.from] = @ \ {w.n}]
    /\ field' = IF ok /\ w.n \in waiting[w.from]
                THEN [field EXCEPT ![w.from] = Blank] ELSE field
    /\ UNCHANGED <<open, message, sent, db, refused>>

RestartForgets(u) ==  \* mutant: what is not answered dies with the process
    /\ Show(u, Nobody)
    /\ pending' = {w \in pending : w.from # u}
    /\ UNCHANGED <<sent, db, refused>>

\* u's process is killed; the documents not answered are sent again.
Restart(u) ==
    /\ Show(u, Nobody)
    /\ UNCHANGED <<sent, pending, db, refused>>

Next ==
    \/ \E u \in Writers :
        \/ \E v \in Users : Open(u, v)
        \/ Close(u)
        \/ \E t \in Texts : Type(u, t)
        \/ Send(u)
        \/ Restart(u)
    \/ \E w \in pending \union refused : Deliver(w)
    \/ \E w \in pending : Refuse(w) \/ \E ok \in BOOLEAN : Answer(w, ok)

Spec == Init /\ [][Next]_vars

\* The client sends a document again until the server answers, as long as its
\* sender stays signed in (WritesAreDecided in WritePipeline).
Fairness ==
    WF_vars(\E w \in pending : Deliver(w) \/ Refuse(w) \/ \E ok \in BOOLEAN : Answer(w, ok))

FairSpec == Spec /\ Fairness

-----------------------------------------------------------------------------
(* Properties.                                                             *)

\* Send sends what the field shows, through late answers that clear the field
\* and edits made meanwhile.  (An empty field may still send an old text.)
SendsWhatIsShown ==
    \A u \in Users : field[u] # Blank => message[u] = field[u]

\* The documents u's device shows once its listener has caught up: those of
\* the server, and u's own from the moment Send has handed them over until the
\* client drops them, refused.
View(u) == db \union {w \in pending : w.from = u}

\* What u's screen for v lists.
Lists(u, v) == {w \in View(u) : w.room = RoomOf[u][v] /\ w.text # Null}

\* A message that is under way is listed for its sender, and one that is stored
\* on both sides, whoever opened the chat.
BothSidesList ==
    \A w \in pending \union db : w.text # Null =>
        /\ w \in Lists(w.from, w.to)
        /\ w \in db => w \in Lists(w.to, w.from)

\* One of u, v and one of x, y have addresses the one of which begins with the
\* other: ann@x.co and ann@x.com.
Confusable(u, v, x, y) ==
    \E a \in {u, v}, b \in {x, y} :
        IsStrictPrefix(Address[a], Address[b]) \/ IsStrictPrefix(Address[b], Address[a])

\* A message of two others appears in a chat only when an address of theirs
\* begins with an address of the chat's two, or the other way round.
OnlyThePairIsListed ==
    \A u, v \in Users : u # v => \A w \in Lists(u, v) :
        {w.from, w.to} = {u, v} \/ Confusable(u, v, w.from, w.to)

\* Every Send comes to an end at the server, through kills and repeated sends:
\* its document is stored, or refused.
SendsArrive ==
    \A u \in Users, n \in 1 .. MaxSends :
        sent[u] >= n ~> \E w \in db \union refused : w.from = u /\ w.n = n

\* A document as a message between two users, whatever its room.
Message(w) == [from |-> w.from, n |-> w.n, to |-> w.to, text |-> w.text]

R == INSTANCE Rooms WITH
        Sends <- 1 .. MaxSends,
        said <- {Message(w) : w \in {d \in pending \union db \union refused : d.text # Null}},
        listed <- [u \in Users |-> [v \in Users |-> {Message(w) : w \in Lists(u, v)}]]

\* Through kills, refusals, repeated sends and late answers a message is said
\* once and for all; its sender sees it at once and loses it again only if the
\* other has never had it; what the other has is there for both, for good.
ImplementsRooms == R!Spec
=============================================================================
