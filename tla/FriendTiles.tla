----------------------------- MODULE FriendTiles -----------------------------
(***************************************************************************)
(* The friends list of the home screen.  Each snapshot of User/x/friends   *)
(* rebuilds the list: uniqueListTiles collects the indices of documents    *)
(* whose name an earlier document has, and the builder gives every other   *)
(* index a tile.  The same friend is listed several times whenever         *)
(* addToFriends has picked them several times (module Discover).           *)
(***************************************************************************)
EXTENDS Naturals, Sequences, SequencesExt

CONSTANTS
    Names,      \* what the "name" field of a friends document can be
    MaxDocs     \* bound: documents in the collection

ASSUME MaxDocsIsNat == MaxDocs \in Nat

VARIABLES
    docs,       \* the names in snapshot.data.documents
    i,          \* the outer loop's index, from 1
    forbidden   \* listOfIndicesForbidden

vars == <<docs, i, forbidden>>

TypeOK ==
    /\ docs \in Seq(Names) /\ Len(docs) <= MaxDocs
    /\ i \in 1 .. Len(docs) + 1
    /\ forbidden \subseteq 1 .. Len(docs)

\* The collection is empty until the first friend is added.
Init == docs = << >> /\ i = 1 /\ forbidden = {}

\* The outer loop's condition.
RunningPastTheEnd == i <= Len(docs) + 1 /\ i \notin forbidden  \* mutant: off by one
Running == i <= Len(docs) /\ i \notin forbidden

\* mutant: the inner loop stops after one comparison
TwinsNextDoor(k) == {j \in {k + 1} : j <= Len(docs) /\ docs[j] = docs[k]}

\* The inner loop: every later index with the name of index i, once.
Twins(k) == {j \in k + 1 .. Len(docs) : docs[j] = docs[k]}

Visit ==
    /\ Running
    /\ forbidden' = forbidden \union Twins(i)
    /\ i' = i + 1
    /\ UNCHANGED docs

SnapshotKeepsList ==  \* mutant: the list of indices outlives the snapshot
    /\ ~Running
    /\ Len(docs) < MaxDocs
    /\ \E k \in 1 .. Len(docs) + 1, name \in Names : docs' = InsertAt(docs, k, name)
    /\ i' = 1
    /\ UNCHANGED forbidden

\* addToFriends has added a document.  Documents are listed by their random
\* ids, so it turns up anywhere; the builder starts over with an empty list.
Snapshot ==
    /\ ~Running
    /\ Len(docs) < MaxDocs
    /\ \E k \in 1 .. Len(docs) + 1, name \in Names : docs' = InsertAt(docs, k, name)
    /\ i' = 1
    /\ forbidden' = {}

Next == Visit \/ Snapshot

Spec == Init /\ [][Next]_vars

-----------------------------------------------------------------------------
(* Properties.                                                             *)

\* The indices that get a tile.
Tiles == DOMAIN docs \ forbidden

\* No friend vanishes from the list: the first document of every name keeps
\* its tile, whatever the order of the documents.
EveryFriendHasATile ==
    \A j \in DOMAIN docs : \E k \in Tiles : k <= j /\ docs[k] = docs[j]

\* The loop does what it is named for as far as it gets: a name it has visited
\* keeps a single tile.  It stops at the first index it has hidden, so in
\* a, a, b, b the friend b, never visited, keeps both.
VisitedNamesHaveOneTile ==
    \A j, k \in Tiles : j < i /\ docs[j] = docs[k] => j = k
=============================================================================
