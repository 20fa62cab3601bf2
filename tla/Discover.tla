------------------------------ MODULE Discover ------------------------------
(***************************************************************************)
(* The Discover tab: a live query for users whose stored location lies in  *)
(* a circle, a random pick among what it has returned so far, and the three*)
(* Firestore writes that make the pick a friend.                           *)
(*                                                                         *)
(* Each user has one device.  A device's volatile state is its query       *)
(* subscriptions, its addToFriends calls and its location requests; a kill *)
(* of the process loses them.  The writes that the Firestore client has    *)
(* accepted survive a kill and are sent again until the server answers.    *)
(***************************************************************************)
EXTENDS Naturals, Sequences, FiniteSets

CONSTANTS
    Users,      \* e-mail addresses; each is also a user's device
    Seekers,    \* bound: the users who ever tap the Discover button
    Places,     \* where a location fix can put a device
    Zones,      \* the circles a query can ask for: sets of places
    Subs,       \* a device's subscriptions, one per tap on the Discover button
    NoPlace,    \* no User document, or one without a "location" field
    Nobody,     \* the friend of a call that has not been made
    MaxAdds,    \* bound: addToFriends calls per device
    MaxSeen,    \* bound: length of a subscription's candidate list
    MaxFixes    \* bound: location requests of a device in flight at once

ASSUME UsersFinite == IsFiniteSet(Users) /\ Seekers \subseteq Users
ASSUME ZonesOfPlaces == Zones \subseteq SUBSET Places
ASSUME Sentinels == NoPlace \notin Places /\ Nobody \notin Users
ASSUME BoundsAreNat == MaxAdds \in Nat /\ MaxSeen \in Nat /\ MaxFixes \in Nat \ {0}

Adds == 1 .. MaxAdds
Steps == {"own", "peer", "room"}

\* A document add of addToFriends.  The client picks the document's id when
\* add is called, so <<from, n, step>> names one document however often the
\* write is sent.
Write == [from : Users, n : Adds, friend : Users, step : Steps]
WriteOf(u, n, f, s) == [from |-> u, n |-> n, friend |-> f, step |-> s]

\* A call of addToFriends awaits its own, peer or room write in turn.
\* "lost": the process was killed, or a write was refused, before the end.
Call == [friend : Users \union {Nobody},
         at : {"idle", "own", "peer", "room", "done", "lost"}]
Idle == [friend |-> Nobody, at |-> "idle"]
AfterSkipsPeer == [own |-> "room", peer |-> "room", room |-> "done"]  \* mutant
After == [own |-> "peer", peer |-> "room", room |-> "done"]

\* zone: the circle asked for; seen: randomUserString, which lives as long as
\* the subscription; fresh: results the listener has not been given yet;
\* mounted: the State that subscribed is still in the widget tree.
Subscription == [open : BOOLEAN, zone : SUBSET Places, seen : Seq(Users),
                 fresh : BOOLEAN, mounted : BOOLEAN]
Unused == [open |-> FALSE, zone |-> {}, seen |-> << >>,
           fresh |-> FALSE, mounted |-> FALSE]

\* How the records change: a call goes to a step; a subscription has new
\* results, has its listener run, loses its screen.
At(call, s) == [call EXCEPT !.at = s]
Notified(r) == [r EXCEPT !.fresh = TRUE]
Handled(r, seen) == [r EXCEPT !.seen = seen, !.fresh = FALSE]
Disposed(r) == [r EXCEPT !.mounted = FALSE]

VARIABLES
    stored,     \* server: the location field of each User document
    db,         \* server: the documents added by addToFriends
    pending,    \* devices, durable: writes accepted and not yet acknowledged
    calls,      \* devices: the addToFriends calls made so far
    sub,        \* devices: the open subscriptions
    fixes       \* devices: number of getCurrentLocation calls in flight

vars == <<stored, db, pending, calls, sub, fixes>>

\* Types.  Every write, and so every pick, names a user: the random index
\* stays within the list, although its bound is another list's length.
TypeOK ==
    /\ stored \in [Users -> Places \union {NoPlace}]
    /\ db \subseteq Write
    /\ pending \subseteq Write
    /\ calls \in [Users -> [Adds -> Call]]
    /\ sub \in [Users -> [Subs -> Subscription]]
    /\ fixes \in [Users -> 0 .. MaxFixes]

\* Nobody has shared a location yet; every device has just opened a MainScreen.
Init ==
    /\ stored = [u \in Users |-> NoPlace]
    /\ db = {}
    /\ pending = {}
    /\ calls = [u \in Users |-> [n \in Adds |-> Idle]]
    /\ sub = [u \in Users |-> [s \in Subs |-> Unused]]
    /\ fixes = [u \in Users |-> 1]

-----------------------------------------------------------------------------
(* Location: each MainScreen asks for a fix once, when it is initialised.  *)

\* u's User document changes its location field to p.  Every open query whose
\* circle the document was in or is now in has new results: two fixes are
\* never equal, so the document always changes.
Relocate(u, p) ==
    /\ stored' = [stored EXCEPT ![u] = p]
    /\ sub' = [v \in Users |-> [s \in Subs |->
                IF sub[v][s].open /\ {stored[u], p} \intersect sub[v][s].zone # {}
                THEN Notified(sub[v][s]) ELSE sub[v][s]]]

\* The fix arrives and replaces the user's stored location.
LocationFix(u) ==
    /\ fixes[u] > 0
    /\ \E p \in Places : Relocate(u, p)
    /\ fixes' = [fixes EXCEPT ![u] = @ - 1]
    /\ UNCHANGED <<db, pending, calls>>

\* The registration form writes u's whole User document, first or again: a
\* stored location is gone, the friends below the document stay.
Register(u) ==
    /\ Relocate(u, NoPlace)
    /\ UNCHANGED <<db, pending, calls, fixes>>

\* No fix, no user yet, or no document to update: the exception ends the call.
LocationFails(u) ==
    /\ fixes[u] > 0
    /\ fixes' = [fixes EXCEPT ![u] = @ - 1]
    /\ UNCHANGED <<stored, db, pending, calls, sub>>

-----------------------------------------------------------------------------
(* The Discover screen.                                                    *)

\* A tap on the button awaits the position, then subscribes to the query at
\* the radius the slider showed; the screen may be gone by then.  Nothing ever
\* cancels the subscription.
Tap(u, s) ==
    /\ u \in Seekers
    /\ ~sub[u][s].open
    /\ \E z \in Zones, here \in BOOLEAN :
        sub' = [sub EXCEPT ![u][s] = [open |-> TRUE, zone |-> z, seen |-> << >>,
                                      fresh |-> TRUE, mounted |-> here]]
    /\ UNCHANGED <<stored, db, pending, calls, fixes>>

\* Another tab, or Back, disposes of the DiscoverScreen; what it subscribed
\* to lives on.
Leave(u, s) ==
    /\ sub[u][s].mounted
    /\ sub' = [sub EXCEPT ![u][s] = Disposed(@)]
    /\ UNCHANGED <<stored, db, pending, calls, fixes>>

Found(zone) == {x \in Users : stored[x] \in zone}

\* The results in the order the query lists them: by distance, so any order.
Orders(S) == {f \in [1 .. Cardinality(S) -> S] :
                \A i, j \in DOMAIN f : f[i] = f[j] => i = j}

\* The results the listener adds to the candidate list: all but the user.
CandidatesWithSelf(u, found) == found  \* mutant
Candidates(u, found) == found \ {u}

\* The indexes the pick is drawn from: below length-1 of the new results alone.
IndexesOfAll(found) == 0 .. Cardinality(found) - 1  \* mutant: nextInt(length)
Indexes(found) == 0 .. Cardinality(found) - 2

\* The entry it names in the list of all results so far.  Past the end Dart
\* throws and there is nobody to call addToFriends with.
Entry(list, random) ==
    IF random + 1 \in DOMAIN list THEN list[random + 1] ELSE Nobody

\* What addToFriends hands to the Firestore client before its first await.
StartAllAtOnce(u, n, f) == {WriteOf(u, n, f, s) : s \in Steps}  \* mutant
Start(u, n, f) == {WriteOf(u, n, f, "own")}

\* New results: everyone but the user joins the list that earlier results
\* have left, and the pick is one of the first length-1 entries of it, where
\* length counts the new results alone.  The add is started before the
\* MainScreen is pushed; the push throws when the screen is gone.
Picks(u, s, n) ==
    /\ sub[u][s].fresh
    /\ calls[u][n].at = "idle" /\ \A m \in 1 .. n - 1 : calls[u][m].at # "idle"
    /\ LET found == Found(sub[u][s].zone) IN
        /\ Cardinality(found) >= 2
        /\ \E others \in Orders(Candidates(u, found)) :
            LET seen == sub[u][s].seen \o others IN
            /\ Len(seen) <= MaxSeen
            /\ \E random \in Indexes(found) :
                LET f == Entry(seen, random) IN
                /\ calls' = [calls EXCEPT ![u][n] = [friend |-> f, at |-> "own"]]
                /\ pending' = pending \union Start(u, n, f)
            /\ sub' = [sub EXCEPT ![u][s] = Handled(@, seen)]
    /\ IF sub[u][s].mounted
       THEN /\ fixes[u] < MaxFixes
            /\ fixes' = [fixes EXCEPT ![u] = @ + 1]
       ELSE UNCHANGED fixes
    /\ UNCHANGED <<stored, db>>

\* Fewer than two results: Random.nextInt throws on a bound below one, after
\* the list has been extended.
PicksNobody(u, s) ==
    /\ sub[u][s].fresh
    /\ LET found == Found(sub[u][s].zone) IN
        /\ Cardinality(found) < 2
        /\ \E others \in Orders(Candidates(u, found)) :
            LET seen == sub[u][s].seen \o others IN
            /\ Len(seen) <= MaxSeen
            /\ sub' = [sub EXCEPT ![u][s] = Handled(@, seen)]
    /\ UNCHANGED <<stored, db, pending, calls, fixes>>

-----------------------------------------------------------------------------
(* addToFriends, and the Firestore client and server under it.             *)

\* The server applies a write.
Deliver(w) ==
    /\ w \in pending \ db
    /\ db' = db \union {w}
    /\ UNCHANGED <<stored, pending, calls, sub, fixes>>

AckUnawaited(w) ==  \* mutant: add is not awaited
    /\ w \in pending
    /\ calls[w.from][w.n].at = w.step
    /\ calls' = [calls EXCEPT ![w.from][w.n].at = After[w.step]]
    /\ pending' = pending \union
            (IF w.step = "room" THEN {}
             ELSE {WriteOf(w.from, w.n, w.friend, After[w.step])})
    /\ UNCHANGED <<stored, db, sub, fixes>>

\* The acknowledgement reaches the device.  If the call that awaits it is
\* still there it goes on to its next write; after a kill it is not.
Ack(w) ==
    /\ w \in pending \intersect db
    /\ LET u == w.from
           n == w.n IN
        IF calls[u][n].at = w.step
        THEN /\ calls' = [calls EXCEPT ![u][n] = At(@, After[w.step])]
             /\ pending' = (pending \ {w}) \union
                    (IF w.step = "room" THEN {}
                     ELSE {WriteOf(u, n, calls[u][n].friend, After[w.step])})
        ELSE /\ pending' = pending \ {w}
             /\ UNCHANGED calls
    /\ UNCHANGED <<stored, db, sub, fixes>>

RefuseSwallowed(w) ==  \* mutant: the failure does not reach the call
    /\ w \in pending
    /\ pending' = pending \ {w}
    /\ UNCHANGED <<stored, db, calls, sub, fixes>>

RefuseIgnored(w) ==  \* mutant: the call goes on after a failed write
    /\ w \in pending
    /\ w.step = "peer" /\ calls[w.from][w.n].at = "peer"
    /\ pending' = (pending \ {w}) \union {WriteOf(w.from, w.n, w.friend, "room")}
    /\ calls' = [calls EXCEPT ![w.from][w.n].at = "room"]
    /\ UNCHANGED <<stored, db, sub, fixes>>

\* A write fails: the client drops it and the call ends with the exception,
\* its earlier writes standing.  The write may have been applied all the same:
\* see GivesUpTheRefused in WritePipeline.
Refuse(w) ==
    /\ w \in pending
    /\ pending' = pending \ {w}
    /\ calls' = IF calls[w.from][w.n].at = w.step
                THEN [calls EXCEPT ![w.from][w.n] = At(@, "lost")] ELSE calls
    /\ UNCHANGED <<stored, db, sub, fixes>>

\* The process of u's device is killed and started again.  The login flag is
\* set, so the app opens a MainScreen.
Restart(u) ==
    /\ calls' = [calls EXCEPT ![u] = [n \in Adds |->
                    IF @[n].at \in Steps THEN At(@[n], "lost") ELSE @[n]]]
    /\ sub' = [sub EXCEPT ![u] = [s \in Subs |-> Unused]]
    /\ fixes' = [fixes EXCEPT ![u] = 1]
    /\ UNCHANGED <<stored, db, pending>>

Next ==
    \/ \E u \in Users :
        \/ LocationFix(u)
        \/ LocationFails(u)
        \/ Register(u)
        \/ Restart(u)
        \/ \E s \in Subs :
            \/ Tap(u, s)
            \/ Leave(u, s)
            \/ PicksNobody(u, s)
            \/ \E n \in Adds : Picks(u, s, n)
    \/ \E w \in pending : Deliver(w) \/ Ack(w) \/ Refuse(w)

Spec == Init /\ [][Next]_vars

-----------------------------------------------------------------------------
(* Properties.                                                             *)

\* The names in User/x/friends, as the server has them.
Lists(x) == {w.friend : w \in {v \in db : v.step = "own" /\ v.from = x}}
            \union {w.from : w \in {v \in db : v.step = "peer" /\ v.friend = x}}

\* A chat room is opened only for two users who list each other: addToFriends
\* awaits both list entries before it creates the room.
RoomOnlyForMutualFriends ==
    \A w \in db : w.step = "room" =>
        w.friend \in Lists(w.from) /\ w.from \in Lists(w.friend)

\* If a lists b and b does not list a, then a's own call for b is still
\* between its first and second write, or was cut off: one-sided friends come
\* from nothing but an addToFriends in progress or interrupted.
OneSidedExplained ==
    \A a, b \in Users : b \in Lists(a) /\ a \notin Lists(b) =>
        \E n \in Adds : calls[a][n].friend = b /\ calls[a][n].at \in {"own", "peer", "lost"}

\* A call that has run to its end has left all three documents, naming the
\* friend it was called with.
DoneIsComplete ==
    \A u \in Users, n \in Adds : calls[u][n].at = "done" =>
        \A s \in Steps : WriteOf(u, n, calls[u][n].friend, s) \in db

\* No user is ever listed as their own friend.
NoSelfFriend == \A u \in Users : u \notin Lists(u)

\* The Firestore client sends a write again until the server has answered it,
\* and the event loop runs every callback (WritesAreDecided in WritePipeline).
\* Nothing makes a user tap or a location fix arrive.
Fairness == WF_vars(\E w \in pending : Deliver(w) \/ Ack(w) \/ Refuse(w))

FairSpec == Spec /\ Fairness

\* Every call of addToFriends ends: its three documents are written, or it was
\* interrupted.
CallsEnd ==
    \A u \in Users, n \in Adds :
        calls[u][n].at \in Steps ~> calls[u][n].at \in {"done", "lost"}

-----------------------------------------------------------------------------
(* What addToFriends promises, and how the documents show it.              *)

Caller(c) == c[1]
Landed(c) == {w \in db : w.from = c[1] /\ w.n = c[2]}
Shown(c) == [named |-> {w.friend : w \in Landed(c)}, landed |-> {w.step : w \in Landed(c)}]

H == INSTANCE Handshake WITH
        Calls <- Users \X Adds,
        handshake <- [c \in Users \X Adds |-> Shown(c)]

\* Through kills, refusals and repeated sends, the documents of a call land in
\* order, each names the same friend, and none disappears.
ImplementsHandshake == H!Spec
=============================================================================
