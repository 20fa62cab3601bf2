--------------------------- MODULE DiscoverProofs ---------------------------
(***************************************************************************)
(* Proofs about Discover, for every set of users, places and zones and     *)
(* every value of the bounds.                                              *)
(***************************************************************************)
EXTENDS Discover, FiniteSetTheorems, SequenceTheorems, TLAPS

\* The steps a call has behind it when it reaches step s.
Before(s) == CASE s = "own" -> {}
               [] s = "peer" -> {"own"}
               [] s = "room" -> {"own", "peer"}

\* A document names the friend of the call that adds it, who is not the caller.
Named ==
    \A w \in db \union pending :
        w.friend = calls[w.from][w.n].friend /\ w.friend # w.from

\* Where there is a document, or the write of one, the call's earlier
\* documents are.
Ordered ==
    \A w \in db \union pending : \A s \in Before(w.step) :
        WriteOf(w.from, w.n, w.friend, s) \in db

\* A call in progress awaits a write that the client still holds.
Awaited ==
    \A u \in Users, n \in Adds : calls[u][n].at \in Steps =>
        WriteOf(u, n, calls[u][n].friend, calls[u][n].at) \in pending

\* A call that has run to its end has its room.
Ended ==
    \A u \in Users, n \in Adds : calls[u][n].at = "done" =>
        WriteOf(u, n, calls[u][n].friend, "room") \in db

\* A call that has not been made has no friend, so no document names it.
Unmade ==
    \A u \in Users, n \in Adds :
        (calls[u][n].at = "idle") <=> (calls[u][n].friend = Nobody)

\* The candidates of a subscription are other users.
OthersOnly ==
    \A u \in Users, s \in Subs : \A i \in 1 .. Len(sub[u][s].seen) : sub[u][s].seen[i] # u

IInv ==
    /\ TypeOK
    /\ Named
    /\ Ordered
    /\ Awaited
    /\ Ended
    /\ Unmade
    /\ OthersOnly

-----------------------------------------------------------------------------
(* The records.                                                            *)

\* Changing one entry of a two-dimensional table.
LEMMA OneEntry ==
    ASSUME NEW A, NEW B, NEW T, NEW f \in [A -> [B -> T]],
           NEW x \in A, NEW y \in B, NEW t \in T, NEW g, g = [f EXCEPT ![x][y] = t]
    PROVE  /\ g \in [A -> [B -> T]]
           /\ \A a \in A, b \in B : g[a][b] = IF a = x /\ b = y THEN t ELSE f[a][b]
OBVIOUS

\* A call that goes to another place keeps its friend.
LEMMA AtType ==
    \A call \in Call, s \in {"own", "peer", "room", "done", "lost"} :
        At(call, s) \in Call /\ At(call, s).friend = call.friend /\ At(call, s).at = s
BY DEF At, Call

\* A call is a friend and a place.
LEMMA CallType ==
    \A f \in Users : LET call == [friend |-> f, at |-> "own"] IN
        call \in Call /\ call.friend = f /\ call.at = "own"
BY DEF Call

\* A subscription changes its candidates only when its listener runs.
LEMMA SubscriptionType ==
    \A r \in Subscription :
        /\ r.seen \in Seq(Users)
        /\ Notified(r) \in Subscription /\ Notified(r).seen = r.seen
        /\ Disposed(r) \in Subscription /\ Disposed(r).seen = r.seen
        /\ \A seen \in Seq(Users) :
            Handled(r, seen) \in Subscription /\ Handled(r, seen).seen = seen
BY DEF Notified, Disposed, Handled, Subscription

\* A new subscription, and one that a kill has ended, have no candidates.
LEMMA NewSubscription ==
    /\ Unused \in Subscription /\ Unused.seen = << >>
    /\ \A z \in SUBSET Places, here \in BOOLEAN :
        LET r == [open |-> TRUE, zone |-> z, seen |-> << >>,
                  fresh |-> TRUE, mounted |-> here] IN
        r \in Subscription /\ r.seen = << >>
BY DEF Unused, Subscription

\* A write has the parts it is made from.
LEMMA WriteType ==
    /\ \A u \in Users, n \in Adds, f \in Users, s \in Steps :
        LET w == WriteOf(u, n, f, s) IN
        w \in Write /\ w.from = u /\ w.n = n /\ w.friend = f /\ w.step = s
    /\ \A w \in Write :
        /\ w.from \in Users /\ w.n \in Adds /\ w.friend \in Users /\ w.step \in Steps
        /\ w = WriteOf(w.from, w.n, w.friend, w.step)
BY DEF WriteOf, Write

-----------------------------------------------------------------------------
(* The candidate list.                                                     *)

\* The results of a query without the user: an ordering of them is a sequence
\* of other users that is at most one shorter than the results.
LEMMA OrdersAreCandidates ==
    ASSUME NEW u \in Users, NEW zone, NEW others \in Orders(Candidates(u, Found(zone)))
    PROVE  /\ others \in Seq(Users)
           /\ \A i \in 1 .. Len(others) : others[i] # u
           /\ Cardinality(Found(zone)) \in Nat
           /\ Len(others) >= Cardinality(Found(zone)) - 1
<1> DEFINE found == Found(zone)
           S == Candidates(u, found)
<1>1. IsFiniteSet(found)
  BY UsersFinite, FS_Subset DEF Found
<1>2. IsFiniteSet(S) /\ Cardinality(S) \in Nat /\ Cardinality(found) \in Nat
  BY <1>1, FS_RemoveElement, FS_CardinalityType, FS_Subset DEF Candidates
<1>3. Cardinality(S) >= Cardinality(found) - 1
  <2>1. CASE u \in found
    BY <2>1, <1>1, <1>2, FS_RemoveElement DEF Candidates
  <2>2. CASE u \notin found
    <3>1. S = found
      BY <2>2 DEF Candidates
    <3> QED BY <3>1, <1>2
  <2> QED BY <2>1, <2>2
<1>4. others \in [1 .. Cardinality(S) -> S]
  BY DEF Orders
<1>5. others \in Seq(S) /\ Len(others) = Cardinality(S)
  BY <1>4, <1>2, SeqDef, LenProperties
<1>6. S \subseteq Users \ {u}
  BY DEF Candidates, Found
<1>7. \A i \in 1 .. Len(others) : others[i] \in S
  BY <1>4, <1>5
<1> QED
  BY <1>2, <1>3, <1>5, <1>6, <1>7

\* A list of other users.
OnlyOthers(u, seen) ==
    seen \in Seq(Users) /\ \A i \in 1 .. Len(seen) : seen[i] # u

\* Joining two lists of other users gives one.
LEMMA JoinedCandidates ==
    ASSUME NEW u \in Users, NEW old, NEW others, OnlyOthers(u, old), OnlyOthers(u, others)
    PROVE  OnlyOthers(u, old \o others) /\ Len(old \o others) = Len(old) + Len(others)
<1> DEFINE seen == old \o others
<1>1. old \in Seq(Users) /\ others \in Seq(Users)
  BY DEF OnlyOthers
<1>2. seen \in Seq(Users) /\ Len(seen) = Len(old) + Len(others)
  BY <1>1, ConcatProperties
<1>3. \A i \in 1 .. Len(seen) : seen[i] = IF i <= Len(old) THEN old[i] ELSE others[i - Len(old)]
  BY <1>1, ConcatProperties
<1>4. \A i \in 1 .. Len(seen) : seen[i] # u
  BY <1>1, <1>2, <1>3, LenProperties DEF OnlyOthers
<1> QED BY <1>2, <1>4 DEF OnlyOthers

\* What a pick does to the candidates, the calls and the writes.
PickEffect(u, s, n, seen, f) ==
    /\ f # u
    /\ \A i \in 1 .. Len(seen) : seen[i] # u
    /\ sub' = [sub EXCEPT ![u][s] = Handled(@, seen)]
    /\ calls[u][n].at = "idle"
    /\ calls' = [calls EXCEPT ![u][n] = [friend |-> f, at |-> "own"]]
    /\ pending' = pending \union {WriteOf(u, n, f, "own")}

\* When the candidates so far are other users, the random index is within the
\* list and what it picks is another user.
LEMMA PicksAnother ==
    ASSUME TypeOK, OthersOnly, NEW u \in Users, NEW s \in Subs, NEW n \in Adds, Picks(u, s, n)
    PROVE  \E seen \in Seq(Users), f \in Users : PickEffect(u, s, n, seen, f)
<1> DEFINE found == Found(sub[u][s].zone)
           old == sub[u][s].seen
<1>1. PICK others \in Orders(Candidates(u, found)), random \in 0 .. Cardinality(found) - 2 :
        /\ calls' = [calls EXCEPT ![u][n] =
                        [friend |-> Entry(old \o others, random), at |-> "own"]]
        /\ pending' = pending \union {WriteOf(u, n, Entry(old \o others, random), "own")}
        /\ sub' = [sub EXCEPT ![u][s] = Handled(@, old \o others)]
  BY DEF Picks, Start, Indexes
<1> DEFINE seen == old \o others
           f == Entry(seen, random)
<1>2. /\ others \in Seq(Users)
      /\ \A i \in 1 .. Len(others) : others[i] # u
      /\ Cardinality(found) \in Nat
      /\ Len(others) >= Cardinality(found) - 1
  BY OrdersAreCandidates
<1>3. OnlyOthers(u, old) /\ OnlyOthers(u, others)
  BY <1>2, SubscriptionType DEF TypeOK, OthersOnly, OnlyOthers
<1>4. OnlyOthers(u, seen) /\ Len(seen) = Len(old) + Len(others)
  BY <1>3, JoinedCandidates
<1>5. \A i \in 1 .. Len(seen) : seen[i] \in Users /\ seen[i] # u
  BY <1>4, ElementOfSeq DEF OnlyOthers
<1>6. random + 1 \in 1 .. Len(seen)
  BY <1>2, <1>3, <1>4, LenProperties DEF OnlyOthers
<1>7. f \in Users /\ f # u
  <2>1. random + 1 \in DOMAIN seen
    BY <1>4, <1>6, LenProperties DEF OnlyOthers
  <2> QED BY <1>5, <1>6, <2>1 DEF Entry
<1>8. calls[u][n].at = "idle"
  BY DEF Picks
<1>9. PickEffect(u, s, n, seen, f)
  BY <1>1, <1>5, <1>7, <1>8 DEF PickEffect
<1> QED
  BY <1>4, <1>7, <1>9 DEF OnlyOthers

-----------------------------------------------------------------------------
(* Types.                                                                  *)

\* The steps that follow a step are where a call can be.
LEMMA AfterType ==
    /\ \A s \in Steps : After[s] \in Steps \union {"done"}
    /\ After["own"] = "peer" /\ After["peer"] = "room" /\ After["room"] = "done"
BY DEF After, Steps

LEMMA InitTypeOK == Init => TypeOK
BY BoundsAreNat DEF Init, TypeOK, Idle, Call, Unused, Subscription

LEMMA NextTypeOK == TypeOK /\ Unmade /\ OthersOnly /\ [Next]_vars => TypeOK'
<1> SUFFICES ASSUME TypeOK, Unmade, OthersOnly, [Next]_vars PROVE TypeOK'
  OBVIOUS
<1> USE DEF TypeOK
<1>1. ASSUME NEW u \in Users, NEW p \in Places \union {NoPlace}, Relocate(u, p)
      PROVE  /\ stored' \in [Users -> Places \union {NoPlace}]
             /\ sub' \in [Users -> [Subs -> Subscription]]
  BY <1>1, SubscriptionType DEF Relocate
<1>2. ASSUME NEW u \in Users, LocationFix(u) PROVE TypeOK'
  BY <1>1, <1>2, BoundsAreNat DEF LocationFix
<1>3. ASSUME NEW u \in Users, LocationFails(u) PROVE TypeOK'
  BY <1>3, BoundsAreNat DEF LocationFails
<1>4. ASSUME NEW u \in Users, Register(u) PROVE TypeOK'
  BY <1>1, <1>4 DEF Register
<1>5. ASSUME NEW u \in Users, Restart(u) PROVE TypeOK'
  BY <1>5, AtType, NewSubscription, BoundsAreNat DEF Restart
<1>6. ASSUME NEW u \in Users, NEW s \in Subs, Tap(u, s) PROVE TypeOK'
  <2>1. PICK r \in Subscription : sub' = [sub EXCEPT ![u][s] = r]
    BY <1>6, NewSubscription, ZonesOfPlaces DEF Tap
  <2>2. sub' \in [Users -> [Subs -> Subscription]]
    BY <2>1, OneEntry
  <2> QED BY <1>6, <2>2 DEF Tap
<1>7. ASSUME NEW u \in Users, NEW s \in Subs, Leave(u, s) PROVE TypeOK'
  BY <1>7, SubscriptionType DEF Leave
<1>8. ASSUME NEW u \in Users, NEW s \in Subs, PicksNobody(u, s) PROVE TypeOK'
  <2>1. PICK others \in Orders(Candidates(u, Found(sub[u][s].zone))) :
            sub' = [sub EXCEPT ![u][s] = Handled(@, sub[u][s].seen \o others)]
    BY <1>8 DEF PicksNobody
  <2>2. sub[u][s].seen \o others \in Seq(Users)
    BY OrdersAreCandidates, SubscriptionType, ConcatProperties
  <2>3. Handled(sub[u][s], sub[u][s].seen \o others) \in Subscription
    BY ONLY <2>2, sub[u][s] \in Subscription, SubscriptionType
  <2>4. sub' \in [Users -> [Subs -> Subscription]]
    BY <2>1, <2>3, OneEntry
  <2> QED BY <1>8, <2>4 DEF PicksNobody
<1>9. ASSUME NEW u \in Users, NEW s \in Subs, NEW n \in Adds, Picks(u, s, n) PROVE TypeOK'
  <2>1. PICK seen \in Seq(Users), f \in Users : PickEffect(u, s, n, seen, f)
    BY <1>9, PicksAnother
  <2>2. sub' \in [Users -> [Subs -> Subscription]]
    <3>1. sub[u][s] \in Subscription
      OBVIOUS
    <3>2. Handled(sub[u][s], seen) \in Subscription
      BY ONLY <3>1, seen \in Seq(Users), SubscriptionType
    <3> QED BY <2>1, <3>2, OneEntry DEF PickEffect
  <2>3. calls' \in [Users -> [Adds -> Call]]
    BY <2>1, CallType DEF PickEffect
  <2>4. pending' \subseteq Write
    BY <2>1, WriteType DEF PickEffect, Steps
  <2>5. fixes' \in [Users -> 0 .. MaxFixes]
    <3>1. \/ fixes[u] < MaxFixes /\ fixes' = [fixes EXCEPT ![u] = @ + 1]
          \/ fixes' = fixes
      BY <1>9 DEF Picks
    <3>2. fixes[u] \in Nat /\ MaxFixes \in Nat
      BY BoundsAreNat
    <3>3. fixes[u] < MaxFixes => fixes[u] + 1 \in 0 .. MaxFixes
      BY <3>2
    <3> QED BY <3>1, <3>3
  <2> QED BY <1>9, <2>2, <2>3, <2>4, <2>5 DEF Picks
<1>10. ASSUME NEW w \in pending, Deliver(w) PROVE TypeOK'
  BY <1>10 DEF Deliver
<1>11. ASSUME NEW w \in pending, Ack(w) PROVE TypeOK'
  <2>1. w.from \in Users /\ w.n \in Adds /\ w.step \in Steps /\ w.friend \in Users
    BY WriteType
  <2>2. CASE calls[w.from][w.n].at = w.step
    <3>1. At(calls[w.from][w.n], After[w.step]) \in Call
      BY <2>1, AtType, AfterType DEF Steps
    <3>2. w.step # "room" =>
            WriteOf(w.from, w.n, calls[w.from][w.n].friend, After[w.step]) \in Write
      <4>1. calls[w.from][w.n].friend \in Users
        <5>1. calls[w.from][w.n].at # "idle"
          BY <2>1, <2>2 DEF Steps
        <5> QED BY <2>1, <5>1 DEF Call, Unmade
      <4> QED BY <2>1, <4>1, AfterType, WriteType DEF Steps
    <3>3. calls' \in [Users -> [Adds -> Call]]
      <4>1. calls' = [calls EXCEPT ![w.from][w.n] = At(@, After[w.step])]
        BY <1>11, <2>2 DEF Ack
      <4> QED BY <2>1, <3>1, <4>1, OneEntry
    <3> QED BY <1>11, <2>2, <3>2, <3>3 DEF Ack
  <2>3. CASE calls[w.from][w.n].at # w.step
    BY <1>11, <2>3 DEF Ack
  <2> QED BY <2>2, <2>3
<1>12. ASSUME NEW w \in pending, Refuse(w) PROVE TypeOK'
  BY <1>12, WriteType, AtType DEF Refuse
<1>13. CASE UNCHANGED vars
  BY <1>13 DEF vars
<1> QED
  BY <1>2, <1>3, <1>4, <1>5, <1>6, <1>7, <1>8, <1>9, <1>10, <1>11, <1>12, <1>13 DEF Next

-----------------------------------------------------------------------------
(* The candidates stay other users.                                        *)

LEMMA NextOthersOnly == TypeOK /\ OthersOnly /\ [Next]_vars => OthersOnly'
<1> SUFFICES ASSUME TypeOK, OthersOnly, [Next]_vars PROVE OthersOnly'
  OBVIOUS
<1>1. sub \in [Users -> [Subs -> Subscription]]
  BY DEF TypeOK
\* It is enough that every list is the old one, is empty, or lists others.
<1>2. ASSUME \A v \in Users, s \in Subs :
                \/ sub'[v][s].seen = sub[v][s].seen
                \/ sub'[v][s].seen = << >>
                \/ \A i \in 1 .. Len(sub'[v][s].seen) : sub'[v][s].seen[i] # v
      PROVE  OthersOnly'
  BY <1>2 DEF OthersOnly
<1>3. ASSUME NEW u \in Users, NEW p, Relocate(u, p) PROVE OthersOnly'
  <2>1. \A v \in Users, s \in Subs : sub'[v][s] \in {sub[v][s], Notified(sub[v][s])}
    BY <1>3 DEF Relocate
  <2>2. \A v \in Users, s \in Subs : Notified(sub[v][s]).seen = sub[v][s].seen
    BY <1>1, SubscriptionType
  <2> QED BY <1>2, <2>1, <2>2
<1>4. ASSUME NEW u \in Users, Restart(u) PROVE OthersOnly'
  BY <1>1, <1>2, <1>4, NewSubscription DEF Restart
<1>5. ASSUME NEW u \in Users, NEW s \in Subs, Tap(u, s) PROVE OthersOnly'
  <2>1. PICK r \in Subscription : sub' = [sub EXCEPT ![u][s] = r] /\ r.seen = << >>
    BY <1>5, NewSubscription, ZonesOfPlaces DEF Tap
  <2> QED BY <1>1, <1>2, <2>1, OneEntry
<1>6. ASSUME NEW u \in Users, NEW s \in Subs, Leave(u, s) PROVE OthersOnly'
  <2>1. Disposed(sub[u][s]) \in Subscription /\ Disposed(sub[u][s]).seen = sub[u][s].seen
    BY <1>1, SubscriptionType
  <2>2. sub' = [sub EXCEPT ![u][s] = Disposed(sub[u][s])]
    BY <1>6 DEF Leave
  <2> QED BY <1>1, <1>2, <2>1, <2>2, OneEntry
<1>7. ASSUME NEW u \in Users, NEW s \in Subs, NEW seen \in Seq(Users),
             \A i \in 1 .. Len(seen) : seen[i] # u,
             sub' = [sub EXCEPT ![u][s] = Handled(@, seen)]
      PROVE  OthersOnly'
  <2>1. Handled(sub[u][s], seen) \in Subscription /\ Handled(sub[u][s], seen).seen = seen
    <3>1. sub[u][s] \in Subscription
      BY <1>1
    <3> QED BY ONLY <3>1, seen \in Seq(Users), SubscriptionType
  <2> QED BY <1>1, <1>2, <1>7, <2>1, OneEntry
<1>8. ASSUME NEW u \in Users, NEW s \in Subs, PicksNobody(u, s) PROVE OthersOnly'
  <2>1. PICK others \in Orders(Candidates(u, Found(sub[u][s].zone))) :
            sub' = [sub EXCEPT ![u][s] = Handled(@, sub[u][s].seen \o others)]
    BY <1>8 DEF PicksNobody
  <2>2. OnlyOthers(u, sub[u][s].seen \o others)
    BY JoinedCandidates, <1>1, SubscriptionType, OrdersAreCandidates DEF OthersOnly, OnlyOthers
  <2> QED BY <1>7, <2>1, <2>2 DEF OnlyOthers
<1>9. ASSUME NEW u \in Users, NEW s \in Subs, NEW n \in Adds, Picks(u, s, n) PROVE OthersOnly'
  BY <1>7, <1>9, PicksAnother DEF PickEffect
<1>10. CASE UNCHANGED sub
  BY <1>10 DEF OthersOnly
<1>11. ASSUME NEW w \in pending, Deliver(w) \/ Ack(w) \/ Refuse(w) PROVE UNCHANGED sub
  BY <1>11 DEF Deliver, Ack, Refuse
<1> QED
  BY <1>3, <1>4, <1>5, <1>6, <1>8, <1>9, <1>10, <1>11
     DEF Next, vars, LocationFix, LocationFails, Register

-----------------------------------------------------------------------------
(* The documents, the writes and the calls that await them.                *)

Documents == Named /\ Ordered /\ Awaited /\ Ended /\ Unmade

\* The steps before a step, and after it.
LEMMA BeforeSteps ==
    /\ Before("own") = {} /\ Before("peer") = {"own"} /\ Before("room") = {"own", "peer"}
    /\ \A s \in Steps : Before(s) \subseteq Steps /\ s \notin Before(s)
    /\ \A s \in Steps \ {"room"} : Before(After[s]) = Before(s) \union {s}
BY AfterType DEF Before, Steps

\* While calls keep their friends, what was named rightly stays so.
LEMMA StillNamed ==
    ASSUME TypeOK, Named, (db \union pending)' \subseteq db \union pending,
           \A u \in Users, n \in Adds : calls'[u][n].friend = calls[u][n].friend
    PROVE  Named'
<1> SUFFICES ASSUME NEW w \in (db \union pending)'
             PROVE  w.friend = calls'[w.from][w.n].friend /\ w.friend # w.from
  BY DEF Named
<1>1. w.from \in Users /\ w.n \in Adds
  BY WriteType DEF TypeOK
<1> QED BY <1>1 DEF Named

\* A pick: the new call's own write is its only one, for nothing names a call
\* that has not been made.
LEMMA PickDocuments ==
    ASSUME TypeOK, Documents, NEW u \in Users, NEW s \in Subs, NEW n \in Adds,
           NEW seen, NEW f \in Users, PickEffect(u, s, n, seen, f), UNCHANGED db
    PROVE  Documents'
<1> DEFINE new == [friend |-> f, at |-> "own"]
           w0 == WriteOf(u, n, f, "own")
<1>1. new \in Call /\ new.friend = f /\ new.at = "own"
  BY CallType
<1>2. \A v \in Users, m \in Adds :
        calls'[v][m] = IF v = u /\ m = n THEN new ELSE calls[v][m]
  BY <1>1, OneEntry DEF PickEffect, TypeOK
<1>3. w0 \in Write /\ w0.from = u /\ w0.n = n /\ w0.friend = f /\ w0.step = "own"
  BY WriteType DEF Steps
<1>4. \A w \in db \union pending : w \in Write /\ ~(w.from = u /\ w.n = n)
  <2> SUFFICES ASSUME NEW w \in db \union pending, w.from = u, w.n = n PROVE FALSE
    BY DEF TypeOK
  <2>1. w.friend = calls[u][n].friend
    BY DEF Documents, Named
  <2>2. calls[u][n].friend = Nobody
    BY DEF Documents, Unmade, PickEffect
  <2>3. w.friend \in Users
    BY WriteType DEF TypeOK
  <2> QED BY <2>1, <2>2, <2>3, Sentinels
<1>5. pending' = pending \union {w0} /\ db' = db
  BY DEF PickEffect
<1>6. Named'
  BY <1>1, <1>2, <1>3, <1>4, <1>5, WriteType DEF Documents, Named, PickEffect
<1>7. Ordered'
  BY <1>3, <1>5, BeforeSteps DEF Documents, Ordered
<1>8. Awaited'
  BY <1>1, <1>2, <1>5 DEF Documents, Awaited
<1>9. Ended'
  BY <1>1, <1>2, <1>5 DEF Documents, Ended
<1>10. Unmade'
  BY <1>1, <1>2, Sentinels DEF Documents, Unmade
<1> QED BY <1>6, <1>7, <1>8, <1>9, <1>10 DEF Documents

\* The server applies a write whose call's earlier documents it already has.
LEMMA DeliverDocuments ==
    ASSUME TypeOK, Documents, NEW w \in pending, Deliver(w) PROVE Documents'
BY DEF Deliver, Documents, Named, Ordered, Awaited, Ended, Unmade

\* An acknowledged write: the call that awaits it goes on.
LEMMA AckDocuments ==
    ASSUME TypeOK, Documents, NEW w \in pending, Ack(w) PROVE Documents'
<1> DEFINE u == w.from
           n == w.n
           call == calls[u][n]
           next == After[w.step]
<1>1. u \in Users /\ n \in Adds /\ w.friend \in Users /\ w.step \in Steps
  BY WriteType DEF TypeOK
<1>2. w \in db /\ db' = db
  BY DEF Ack
<1>3. call \in Call /\ call.friend = w.friend /\ w.friend # u
  BY <1>1 DEF TypeOK, Documents, Named
<1>4. \A v \in Users, m \in Adds :
        calls[v][m].at \in Steps /\ WriteOf(v, m, calls[v][m].friend, calls[v][m].at) = w
            => v = u /\ m = n /\ call.at = w.step
  <2> SUFFICES ASSUME NEW v \in Users, NEW m \in Adds, calls[v][m].at \in Steps,
                      WriteOf(v, m, calls[v][m].friend, calls[v][m].at) = w
               PROVE  v = u /\ m = n /\ call.at = w.step
    OBVIOUS
  <2> QED BY DEF WriteOf
<1>5. CASE call.at # w.step
  <2>1. pending' = pending \ {w} /\ calls' = calls
    BY <1>5 DEF Ack
  <2>2. Awaited'
    BY <1>4, <1>5, <2>1 DEF Documents, Awaited
  <2> QED BY <1>2, <2>1, <2>2 DEF Documents, Named, Ordered, Ended, Unmade
<1>6. CASE call.at = w.step
  <2>1. At(call, next) \in Call /\ At(call, next).friend = w.friend /\ At(call, next).at = next
    BY <1>1, <1>3, AtType, AfterType DEF Steps
  <2>2. calls' = [calls EXCEPT ![u][n] = At(call, next)]
    BY <1>6 DEF Ack
  <2>3. \A v \in Users, m \in Adds :
            calls'[v][m] = IF v = u /\ m = n THEN At(call, next) ELSE calls[v][m]
    BY <1>1, <2>1, <2>2, OneEntry DEF TypeOK
  <2> DEFINE w1 == WriteOf(u, n, w.friend, next)
  <2>4. w.step # "room" =>
            /\ w1 \in Write /\ w1.from = u /\ w1.n = n /\ w1.friend = w.friend /\ w1.step = next
            /\ pending' = (pending \ {w}) \union {w1}
    BY <1>1, <1>3, <1>6, AfterType, WriteType DEF Ack, Steps
  <2>5. w.step = "room" => pending' = pending \ {w} /\ next = "done"
    BY <1>6, AfterType DEF Ack
  <2>6. \A x \in Users, m \in Adds : calls'[x][m].friend = calls[x][m].friend
    BY <1>3, <2>1, <2>3
  <2>7. Named'
    <3> SUFFICES ASSUME NEW x \in (db \union pending)'
                 PROVE  x.friend = calls'[x.from][x.n].friend /\ x.friend # x.from
      BY DEF Named
    <3>1. CASE x \in db \union pending
      <4>1. x.from \in Users /\ x.n \in Adds
        BY <3>1, WriteType DEF TypeOK
      <4> QED BY <3>1, <4>1, <2>6 DEF Documents, Named
    <3>2. CASE x \notin db \union pending
      BY <3>2, <1>1, <1>2, <1>3, <2>4, <2>5, <2>6
    <3> QED BY <3>1, <3>2
  <2>8. Ordered'
    <3> SUFFICES ASSUME NEW x \in (db \union pending)', NEW s \in Before(x.step)
                 PROVE  WriteOf(x.from, x.n, x.friend, s) \in db
      BY <1>2 DEF Ordered
    <3>1. CASE x \in db \union pending
      BY <3>1 DEF Documents, Ordered
    <3>2. CASE x \notin db \union pending
      <4>1. w.step \in Steps \ {"room"} /\ x = w1
        BY <3>2, <1>1, <1>2, <2>4, <2>5
      <4>2. s \in Before(w.step) \union {w.step}
        BY <4>1, <2>4, BeforeSteps
      <4>3. w = WriteOf(u, n, w.friend, w.step)
        BY WriteType DEF TypeOK
      <4> QED BY <4>1, <4>2, <4>3, <1>2, <2>4 DEF Documents, Ordered
    <3> QED BY <3>1, <3>2
  <2>9. Awaited'
    <3> SUFFICES ASSUME NEW v \in Users, NEW m \in Adds, calls'[v][m].at \in Steps
                 PROVE  WriteOf(v, m, calls'[v][m].friend, calls'[v][m].at) \in pending'
      BY DEF Awaited
    <3>1. CASE v = u /\ m = n
      BY <3>1, <1>1, <2>1, <2>3, <2>4, <2>5, AfterType DEF Steps
    <3>2. CASE ~(v = u /\ m = n)
      BY <3>2, <1>4, <2>3, <2>4, <2>5 DEF Documents, Awaited
    <3> QED BY <3>1, <3>2
  <2>10. Ended'
    <3> SUFFICES ASSUME NEW v \in Users, NEW m \in Adds, calls'[v][m].at = "done"
                 PROVE  WriteOf(v, m, calls'[v][m].friend, "room") \in db
      BY <1>2 DEF Ended
    <3>1. CASE v = u /\ m = n
      <4>1. w.step = "room"
        BY <3>1, <1>1, <2>1, <2>3, AfterType DEF Steps
      <4>2. w = WriteOf(u, n, w.friend, "room")
        BY <4>1, WriteType DEF TypeOK
      <4> QED BY <3>1, <4>2, <1>2, <2>1, <2>3
    <3>2. CASE ~(v = u /\ m = n)
      BY <3>2, <2>3 DEF Documents, Ended
    <3> QED BY <3>1, <3>2
  <2>11. Unmade'
    <3>1. call.at # "idle" /\ next # "idle"
      BY <1>1, <1>6, AfterType DEF Steps
    <3> QED BY <3>1, <2>1, <2>3, <2>6 DEF Documents, Unmade
  <2> QED BY <2>7, <2>8, <2>9, <2>10, <2>11 DEF Documents
<1> QED BY <1>5, <1>6

\* A refused write: no document is added, and the call that awaits it is lost.
LEMMA RefuseDocuments ==
    ASSUME TypeOK, Documents, NEW w \in pending, Refuse(w) PROVE Documents'
<1> DEFINE u == w.from
           n == w.n
           call == calls[u][n]
<1>1. u \in Users /\ n \in Adds /\ call \in Call /\ w.step \in Steps
  BY WriteType DEF TypeOK
<1>2. pending' = pending \ {w} /\ db' = db
  BY DEF Refuse
<1>3. At(call, "lost") \in Call /\ At(call, "lost").friend = call.friend /\ At(call, "lost").at = "lost"
  BY <1>1, AtType
<1>4. \A v \in Users, m \in Adds :
        calls'[v][m] = IF v = u /\ m = n /\ call.at = w.step THEN At(call, "lost") ELSE calls[v][m]
  <2>1. CASE call.at = w.step
    <3>1. calls' = [calls EXCEPT ![u][n] = At(call, "lost")]
      BY <2>1 DEF Refuse
    <3> QED BY <1>1, <1>3, <2>1, <3>1, OneEntry DEF TypeOK
  <2>2. CASE call.at # w.step
    BY <2>2 DEF Refuse
  <2> QED BY <2>1, <2>2
<1>5. \A v \in Users, m \in Adds : calls'[v][m].friend = calls[v][m].friend
  BY <1>3, <1>4
<1>6. Named'
  BY <1>2, <1>5, StillNamed DEF Documents
<1>7. Ordered'
  BY <1>2 DEF Documents, Ordered
<1>8. Awaited'
  <2> SUFFICES ASSUME NEW v \in Users, NEW m \in Adds, calls'[v][m].at \in Steps
               PROVE  WriteOf(v, m, calls'[v][m].friend, calls'[v][m].at) \in pending'
    BY DEF Awaited
  <2>1. calls'[v][m] = calls[v][m]
    BY <1>3, <1>4 DEF Steps
  <2>2. WriteOf(v, m, calls[v][m].friend, calls[v][m].at) \in pending
    BY <2>1 DEF Documents, Awaited
  <2>3. WriteOf(v, m, calls[v][m].friend, calls[v][m].at) # w
    <3> SUFFICES ASSUME WriteOf(v, m, calls[v][m].friend, calls[v][m].at) = w PROVE FALSE
      OBVIOUS
    <3>1. v = u /\ m = n /\ call.at = w.step
      BY DEF WriteOf
    <3> QED BY <3>1, <1>1, <1>3, <1>4 DEF Steps
  <2> QED BY <1>2, <2>1, <2>2, <2>3
<1>9. Ended'
  BY <1>2, <1>3, <1>4 DEF Documents, Ended
<1>10. Unmade'
  BY <1>1, <1>3, <1>4, <1>5 DEF Documents, Unmade, Steps
<1> QED BY <1>6, <1>7, <1>8, <1>9, <1>10 DEF Documents

\* A kill: the calls in progress are lost, what they have written stays.
LEMMA RestartDocuments ==
    ASSUME TypeOK, Documents, NEW u \in Users, Restart(u) PROVE Documents'
<1>1. db' = db /\ pending' = pending
  BY DEF Restart
<1>2. \A v \in Users, m \in Adds :
        calls'[v][m] = IF v = u /\ calls[v][m].at \in Steps
                       THEN At(calls[v][m], "lost") ELSE calls[v][m]
  BY DEF Restart, TypeOK
<1>3. \A v \in Users, m \in Adds : LET lost == At(calls[v][m], "lost") IN
        lost.friend = calls[v][m].friend /\ lost.at = "lost"
  BY AtType DEF TypeOK
<1>4. \A v \in Users, m \in Adds :
        /\ calls'[v][m].friend = calls[v][m].friend
        /\ calls'[v][m].at \in {calls[v][m].at, "lost"}
        /\ calls[v][m].at \notin Steps => calls'[v][m].at = calls[v][m].at
  BY <1>2, <1>3
<1>5. Named'
  BY <1>1, <1>4, StillNamed DEF Documents
<1>6. Ordered'
  BY <1>1 DEF Documents, Ordered
<1>7. Awaited'
  BY <1>1, <1>2, <1>3 DEF Documents, Awaited, Steps
<1>8. Ended'
  BY <1>1, <1>4 DEF Documents, Ended
<1>9. Unmade'
  BY <1>4 DEF Documents, Unmade, Steps
<1> QED BY <1>5, <1>6, <1>7, <1>8, <1>9 DEF Documents

LEMMA NextDocuments == TypeOK /\ OthersOnly /\ Documents /\ [Next]_vars => Documents'
<1> SUFFICES ASSUME TypeOK, OthersOnly, Documents, [Next]_vars PROVE Documents'
  OBVIOUS
<1>1. ASSUME NEW u \in Users, NEW s \in Subs, NEW n \in Adds, Picks(u, s, n) PROVE Documents'
  <2>1. UNCHANGED db
    BY <1>1 DEF Picks
  <2> QED BY <1>1, <2>1, PicksAnother, PickDocuments
<1>2. CASE UNCHANGED <<db, pending, calls>>
  BY <1>2 DEF Documents, Named, Ordered, Awaited, Ended, Unmade
<1>3. ASSUME NEW u \in Users, NEW s \in Subs, Tap(u, s) \/ Leave(u, s) \/ PicksNobody(u, s)
      PROVE  UNCHANGED <<db, pending, calls>>
  BY <1>3 DEF Tap, Leave, PicksNobody
<1>4. ASSUME NEW u \in Users, LocationFix(u) \/ LocationFails(u) \/ Register(u)
      PROVE  UNCHANGED <<db, pending, calls>>
  BY <1>4 DEF LocationFix, LocationFails, Register
<1>5. CASE UNCHANGED vars
  BY <1>2, <1>5 DEF vars
<1> QED
  BY <1>1, <1>2, <1>3, <1>4, <1>5, DeliverDocuments, AckDocuments, RefuseDocuments,
     RestartDocuments DEF Next

-----------------------------------------------------------------------------
(* The theorems.                                                           *)

LEMMA InitIInv == Init => IInv
<1> SUFFICES ASSUME Init PROVE IInv
  OBVIOUS
<1>1. \A u \in Users, n \in Adds : calls[u][n].at = "idle" /\ calls[u][n].friend = Nobody
  BY DEF Init, Idle
<1>2. \A u \in Users, s \in Subs : sub[u][s].seen = << >>
  BY NewSubscription DEF Init
<1> QED
  BY <1>1, <1>2, InitTypeOK
     DEF Init, IInv, Named, Ordered, Awaited, Ended, Unmade, OthersOnly, Steps

LEMMA NextIInv == IInv /\ [Next]_vars => IInv'
BY NextTypeOK, NextOthersOnly, NextDocuments DEF IInv, Documents

LEMMA Inductive == Spec => []IInv
BY InitIInv, NextIInv, PTL DEF Spec

\* In every reachable state each variable has its type; in particular every
\* random pick is an entry of the candidate list, never beyond its end.
THEOREM TypeCorrect == Spec => []TypeOK
<1>1. IInv => TypeOK
  BY DEF IInv
<1> QED BY <1>1, Inductive, PTL

\* A chat room is only ever opened for two users who list each other.
THEOREM RoomsAreMutual == Spec => []RoomOnlyForMutualFriends
<1>1. IInv => RoomOnlyForMutualFriends
  <2> SUFFICES ASSUME IInv, NEW w \in db, w.step = "room"
               PROVE  w.friend \in Lists(w.from) /\ w.from \in Lists(w.friend)
    BY DEF RoomOnlyForMutualFriends
  <2> DEFINE own == WriteOf(w.from, w.n, w.friend, "own")
             peer == WriteOf(w.from, w.n, w.friend, "peer")
  <2>1. own \in db /\ peer \in db
    BY BeforeSteps DEF IInv, Ordered
  <2>2. /\ own.step = "own" /\ own.from = w.from /\ own.friend = w.friend
        /\ peer.step = "peer" /\ peer.from = w.from /\ peer.friend = w.friend
    BY DEF WriteOf
  <2> QED BY <2>1, <2>2 DEF Lists
<1> QED BY <1>1, Inductive, PTL

\* One-sided friends come only from a call in progress or cut off.
THEOREM OneSidedIsExplained == Spec => []OneSidedExplained
<1>1. IInv => OneSidedExplained
  <2> SUFFICES ASSUME IInv, NEW a \in Users, NEW b \in Users, b \in Lists(a), a \notin Lists(b)
               PROVE  \E n \in Adds : calls[a][n].friend = b /\ calls[a][n].at \in {"own", "peer", "lost"}
    BY DEF OneSidedExplained
  <2>1. \A w \in db : WriteOf(w.from, w.n, w.friend, "own").step = "own"
                     /\ WriteOf(w.from, w.n, w.friend, "own").from = w.from
                     /\ WriteOf(w.from, w.n, w.friend, "own").friend = w.friend
    BY DEF WriteOf
  <2>3. \A w \in db : ~(w.step = "peer" /\ w.from = a /\ w.friend = b)
    BY DEF Lists
  <2>4. \A w \in db : ~(w.step = "own" /\ w.from = b /\ w.friend = a)
    BY DEF Lists
  <2>5. \A w \in db : ~(w.step = "peer" /\ w.from = b /\ w.friend = a)
    BY <2>1, <2>4, BeforeSteps DEF IInv, Ordered
  <2>6. PICK w \in db : w.step = "own" /\ w.from = a /\ w.friend = b
    BY <2>5 DEF Lists
  <2> DEFINE call == calls[a][w.n]
             peer == WriteOf(a, w.n, b, "peer")
  <2>7. w.n \in Adds /\ call \in Call /\ call.friend = b
    BY <2>6, WriteType DEF IInv, TypeOK, Named
  <2>8. peer.step = "peer" /\ peer.from = a /\ peer.friend = b
    BY DEF WriteOf
  <2>9. peer \notin db
    BY <2>3, <2>8
  <2>10. \A n, f : /\ WriteOf(a, n, f, "room").step = "room"
                   /\ WriteOf(a, n, f, "room").from = a
                   /\ WriteOf(a, n, f, "room").n = n
                   /\ WriteOf(a, n, f, "room").friend = f
    BY DEF WriteOf
  <2>11. WriteOf(a, w.n, b, "room") \notin db \union pending
    BY <2>9, <2>10, BeforeSteps DEF IInv, Ordered
  <2>12. call.at \notin {"room", "done"}
    BY <2>7, <2>11 DEF IInv, Awaited, Ended, Steps
  <2>13. call.at # "idle"
    BY <2>7, Sentinels DEF IInv, Unmade
  <2> QED BY <2>7, <2>12, <2>13 DEF Call
<1> QED BY <1>1, Inductive, PTL

\* A call that ran to its end has left all three documents.
THEOREM DoneCallsAreComplete == Spec => []DoneIsComplete
<1>1. IInv => DoneIsComplete
  <2> SUFFICES ASSUME IInv, NEW u \in Users, NEW n \in Adds, calls[u][n].at = "done", NEW s \in Steps
               PROVE  WriteOf(u, n, calls[u][n].friend, s) \in db
    BY DEF DoneIsComplete
  <2> DEFINE room == WriteOf(u, n, calls[u][n].friend, "room")
  <2>1. room \in db
    BY DEF IInv, Ended
  <2>2. room.from = u /\ room.n = n /\ room.friend = calls[u][n].friend /\ room.step = "room"
    BY DEF WriteOf
  <2> QED BY <2>1, <2>2, BeforeSteps DEF IInv, Ordered, Steps
<1> QED BY <1>1, Inductive, PTL

\* No user is ever listed as their own friend.
THEOREM NobodyBefriendsThemselves == Spec => []NoSelfFriend
<1>1. IInv => NoSelfFriend
  BY DEF IInv, Named, NoSelfFriend, Lists
<1> QED BY <1>1, Inductive, PTL

-----------------------------------------------------------------------------
(* Refinement.                                                             *)

\* A call with no documents has shown nothing; one with documents has shown
\* its friend and the steps they stand for.
LEMMA ShownDocuments ==
    ASSUME NEW c
    PROVE  /\ Landed(c) = {} => Shown(c) = [named |-> {}, landed |-> {}]
           /\ Shown(c).named = {w.friend : w \in Landed(c)}
           /\ Shown(c).landed = {w.step : w \in Landed(c)}
BY DEF Shown

\* When a write lands, the documents of its call are exactly the earlier ones.
LEMMA LandedBefore ==
    ASSUME IInv, NEW w \in pending, Deliver(w)
    PROVE  LET c == <<w.from, w.n>> IN
           /\ Shown(c).landed = Before(w.step)
           /\ w.step # "own" => Shown(c).named = {w.friend}
<1> DEFINE c == <<w.from, w.n>>
<1>1. w \in Write /\ w \notin db
  BY DEF IInv, TypeOK, Deliver
<1>2. w.from \in Users /\ w.n \in Adds /\ w.step \in Steps /\ w.friend \in Users
      /\ w = WriteOf(w.from, w.n, w.friend, w.step)
  BY <1>1, WriteType
<1>3. \A s \in Before(w.step) : \E v \in Landed(c) : v.step = s /\ v.friend = w.friend
  <2> SUFFICES ASSUME NEW s \in Before(w.step)
               PROVE  WriteOf(w.from, w.n, w.friend, s) \in Landed(c)
    BY DEF WriteOf
  <2>1. WriteOf(w.from, w.n, w.friend, s) \in db
    BY DEF IInv, Ordered
  <2> QED BY <2>1 DEF Landed, WriteOf
<1>4. \A v \in Landed(c) : v.friend = w.friend
  BY DEF IInv, Named, Landed
<1>5. \A v \in Landed(c) : v.step \in Before(w.step)
  <2> SUFFICES ASSUME NEW v \in Landed(c), v.step \notin Before(w.step) PROVE FALSE
    OBVIOUS
  <2>1. v \in db /\ v.from = w.from /\ v.n = w.n /\ v.friend = w.friend
    BY <1>4 DEF Landed
  <2>2. v.step \in Steps /\ v = WriteOf(v.from, v.n, v.friend, v.step)
    BY <2>1, WriteType DEF IInv, TypeOK
  <2>3. v.step # w.step
    BY <1>1, <1>2, <2>1, <2>2
  <2>4. w.step \in Before(v.step)
    BY <1>2, <2>2, <2>3, BeforeSteps DEF Steps
  <2>5. WriteOf(v.from, v.n, v.friend, w.step) \in db
    BY <2>1, <2>4 DEF IInv, Ordered
  <2> QED BY <1>1, <1>2, <2>1, <2>5
<1>6. Shown(c).landed = Before(w.step)
  <2>1. Before(w.step) \subseteq {v.step : v \in Landed(c)}
    BY <1>3
  <2>2. {v.step : v \in Landed(c)} \subseteq Before(w.step)
    BY <1>5
  <2> QED BY <2>1, <2>2, ShownDocuments
<1>7. w.step # "own" => Shown(c).named = {w.friend}
  <2> SUFFICES ASSUME w.step # "own" PROVE Shown(c).named = {w.friend}
    OBVIOUS
  <2>1. "own" \in Before(w.step)
    BY <1>2, BeforeSteps DEF Steps
  <2>2. \E v \in Landed(c) : v.friend = w.friend
    BY <1>3, <2>1
  <2> QED BY <1>4, <2>2, ShownDocuments
<1> QED BY <1>6, <1>7

\* A write that lands is the next stage of its call's handshake.
LEMMA DeliverRefines ==
    ASSUME IInv, NEW w \in pending, Deliver(w) PROVE H!Next
<1> DEFINE c == <<w.from, w.n>>
           hs == [d \in Users \X Adds |-> Shown(d)]
           after == [named |-> {w.friend}, landed |-> Before(w.step) \union {w.step}]
<1>1. w.from \in Users /\ w.n \in Adds /\ w.step \in Steps /\ w.friend \in Users
      /\ w.friend # w.from
  BY WriteType DEF IInv, TypeOK, Named
<1>2. db' = db \union {w}
  BY DEF Deliver
<1>3. \A d : Landed(d)' = IF d[1] = w.from /\ d[2] = w.n THEN Landed(d) \union {w} ELSE Landed(d)
  BY <1>2 DEF Landed
<1>4. \A d \in Users \X Adds : d # c => Shown(d)' = Shown(d)
  <2> SUFFICES ASSUME NEW d \in Users \X Adds, d # c PROVE Shown(d)' = Shown(d)
    OBVIOUS
  <2>1. ~(d[1] = w.from /\ d[2] = w.n)
    OBVIOUS
  <2> QED BY <2>1, <1>3 DEF Shown
<1>5. Landed(c)' = Landed(c) \union {w}
  BY <1>3
<1>6. Shown(c).landed = Before(w.step) /\ (w.step # "own" => Shown(c).named = {w.friend})
  BY LandedBefore
<1>7. Shown(c)' = after
  <2>1. {v.step : v \in Landed(c)'} = Before(w.step) \union {w.step}
    BY <1>5, <1>6, ShownDocuments
  <2>2. \A v \in Landed(c) : v.friend = w.friend
    BY DEF IInv, Named, Landed
  <2>3. {v.friend : v \in Landed(c)'} = {w.friend}
    BY <1>5, <2>2
  <2> QED BY <2>1, <2>3 DEF Shown
<1>8. hs' = [hs EXCEPT ![c] = after]
  BY <1>1, <1>4, <1>7
<1>9. hs[c] = Shown(c) /\ c \in Users \X Adds /\ c[1] = w.from
  BY <1>1
<1>10. CASE w.step = "own"
  <2>1. H!Propose(c, w.friend)
    BY <1>1, <1>6, <1>8, <1>9, <1>10, BeforeSteps DEF H!Propose, Caller
  <2> QED BY <1>1, <1>9, <2>1 DEF H!Next
<1>11. CASE w.step = "peer"
  <2>1. [named |-> hs[c].named, landed |-> {"own", "peer"}] = after
    BY <1>6, <1>9, <1>11, BeforeSteps
  <2>2. H!Answer(c)
    BY <1>6, <1>8, <1>9, <1>11, <2>1, BeforeSteps DEF H!Answer
  <2> QED BY <1>9, <2>2 DEF H!Next
<1>12. CASE w.step = "room"
  <2>1. [named |-> hs[c].named, landed |-> {"own", "peer", "room"}] = after
    BY <1>6, <1>9, <1>12, BeforeSteps
  <2>2. H!OpenRoom(c)
    BY <1>6, <1>8, <1>9, <1>12, <2>1, BeforeSteps DEF H!OpenRoom
  <2> QED BY <1>9, <2>2 DEF H!Next
<1> QED BY <1>1, <1>10, <1>11, <1>12 DEF Steps

\* Whatever kills, refusals and repeated sends do, the documents of a call land
\* in order, name one friend, and stay.
THEOREM AddToFriendsIsAHandshake == Spec => ImplementsHandshake
<1> DEFINE hs == [c \in Users \X Adds |-> Shown(c)]
<1>1. Init => H!Init
  BY ShownDocuments DEF Init, H!Init, Landed
<1>2. IInv /\ [Next]_vars => [H!Next]_hs
  <2> SUFFICES ASSUME IInv, [Next]_vars PROVE H!Next \/ hs' = hs
    OBVIOUS
  <2>1. CASE db' = db
    BY <2>1 DEF Shown, Landed
  <2>2. ASSUME NEW w \in pending, Deliver(w) PROVE H!Next
    BY <2>2, DeliverRefines
  <2>3. ASSUME NEW w \in pending, Ack(w) \/ Refuse(w) PROVE db' = db
    BY <2>3 DEF Ack, Refuse
  <2>4. ASSUME NEW u \in Users,
               LocationFix(u) \/ LocationFails(u) \/ Register(u) \/ Restart(u)
        PROVE  db' = db
    BY <2>4 DEF LocationFix, LocationFails, Register, Restart
  <2>5. ASSUME NEW u \in Users, NEW s \in Subs,
               Tap(u, s) \/ Leave(u, s) \/ PicksNobody(u, s) \/ \E n \in Adds : Picks(u, s, n)
        PROVE  db' = db
    BY <2>5 DEF Tap, Leave, PicksNobody, Picks
  <2>6. CASE UNCHANGED vars
    BY <2>1, <2>6 DEF vars
  <2> QED BY <2>1, <2>2, <2>3, <2>4, <2>5, <2>6 DEF Next
<1> QED BY <1>1, <1>2, Inductive, PTL DEF Spec, ImplementsHandshake, H!Spec
=============================================================================
