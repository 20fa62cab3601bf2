-------------------------- MODULE FriendTilesProofs --------------------------
(***************************************************************************)
(* Proofs about FriendTiles, for every set of names and number of          *)
(* documents.                                                              *)
(***************************************************************************)
EXTENDS FriendTiles, SequenceTheorems, TLAPS

\* The index j repeats an earlier name.
Repeats(j) == \E k \in 1 .. j - 1 : docs[k] = docs[j]

\* The loop invariant: what is hidden so far are the later copies of the names
\* visited, and no two of those are the same.
LoopInv ==
    /\ \A j \in 1 .. i - 1 : ~Repeats(j)
    /\ forbidden = {j \in DOMAIN docs : \E k \in 1 .. i - 1 : k < j /\ docs[k] = docs[j]}

IInv == TypeOK /\ LoopInv

\* Adding a document gives a longer list of names.
LEMMA InsertAtType ==
    ASSUME NEW d \in Seq(Names), NEW k \in 1 .. Len(d) + 1, NEW name \in Names
    PROVE  InsertAt(d, k, name) \in Seq(Names) /\ Len(InsertAt(d, k, name)) = Len(d) + 1
<1> DEFINE front == SubSeq(d, 1, k - 1)
           back == SubSeq(d, k, Len(d))
<1>1. k \in Nat /\ Len(d) \in Nat /\ 1 <= k /\ k <= Len(d) + 1
  BY LenProperties
<1>2. front \in Seq(Names) /\ Len(front) = k - 1
  BY <1>1, SubSeqProperties
<1>3. back \in Seq(Names) /\ Len(back) = Len(d) - k + 1
  BY <1>1, SubSeqProperties
<1>4. <<name>> \in Seq(Names) /\ Len(<<name>>) = 1
  OBVIOUS
<1>5. front \o <<name>> \in Seq(Names) /\ Len(front \o <<name>>) = k
  BY <1>1, <1>2, <1>4, ConcatProperties
<1>6. \A s, t \in Seq(Names) : s \o t \in Seq(Names) /\ Len(s \o t) = Len(s) + Len(t)
  BY ConcatProperties
<1>7. (front \o <<name>>) \o back \in Seq(Names)
      /\ Len((front \o <<name>>) \o back) = k + (Len(d) - k + 1)
  BY ONLY <1>3, <1>5, <1>6
<1>8. InsertAt(d, k, name) = (front \o <<name>>) \o back
  BY DEF InsertAt
<1>9. k + (Len(d) - k + 1) = Len(d) + 1
  BY <1>1
<1> QED BY ONLY <1>7, <1>8, <1>9

LEMMA InitIInv == Init => IInv
BY MaxDocsIsNat DEF Init, IInv, TypeOK, LoopInv

LEMMA NextIInv == IInv /\ [Next]_vars => IInv'
<1> SUFFICES ASSUME IInv, [Next]_vars PROVE IInv'
  OBVIOUS
<1>1. docs \in Seq(Names) /\ Len(docs) \in Nat /\ DOMAIN docs = 1 .. Len(docs)
  BY LenProperties DEF IInv, TypeOK
<1>2. CASE Visit
  <2>1. i \in 1 .. Len(docs) /\ i' = i + 1 /\ docs' = docs
    BY <1>1, <1>2 DEF Visit, Running, IInv, TypeOK
  <2>2. forbidden' = forbidden \union {j \in i + 1 .. Len(docs) : docs[j] = docs[i]}
    BY <1>2 DEF Visit, Twins
  <2>3. TypeOK'
    <3>1. i' \in 1 .. Len(docs) + 1
      BY <1>1, <2>1
    <3>2. forbidden' \subseteq 1 .. Len(docs)
      <4>1. forbidden \subseteq 1 .. Len(docs)
        BY DEF IInv, TypeOK
      <4>2. \A j \in i + 1 .. Len(docs) : j \in 1 .. Len(docs)
        BY <1>1, <2>1
      <4>3. {j \in i + 1 .. Len(docs) : docs[j] = docs[i]} \subseteq 1 .. Len(docs)
        BY <4>2
      <4> QED BY ONLY <2>2, <4>1, <4>3
    <3> QED BY <2>1, <3>1, <3>2 DEF IInv, TypeOK
  <2>4. ~Repeats(i)
    <3>1. i \notin forbidden
      BY <1>2 DEF Visit, Running
    <3> QED BY <1>1, <2>1, <3>1 DEF IInv, LoopInv, Repeats
  <2>5. \A j \in 1 .. i' - 1 : ~Repeats(j)'
    BY <1>1, <2>1, <2>4 DEF IInv, LoopInv, Repeats
  <2>6. forbidden' = {j \in DOMAIN docs : \E k \in 1 .. i' - 1 : k < j /\ docs[k] = docs[j]}
    <3>1. \A j \in DOMAIN docs :
            (\E k \in 1 .. i : k < j /\ docs[k] = docs[j])
            <=> (\E k \in 1 .. i - 1 : k < j /\ docs[k] = docs[j]) \/ (i < j /\ docs[j] = docs[i])
      BY <1>1, <2>1
    <3> QED BY <1>1, <2>1, <2>2, <3>1 DEF IInv, LoopInv
  <2> QED BY <2>1, <2>3, <2>5, <2>6 DEF IInv, LoopInv
<1>3. CASE Snapshot
  <2>1. PICK k \in 1 .. Len(docs) + 1, name \in Names : docs' = InsertAt(docs, k, name)
    BY <1>3 DEF Snapshot
  <2>2. docs' \in Seq(Names) /\ Len(docs') = Len(docs) + 1
    BY <1>1, <2>1, InsertAtType
  <2>3. Len(docs) < MaxDocs /\ i' = 1 /\ forbidden' = {}
    BY <1>3 DEF Snapshot
  <2>4. TypeOK'
    BY <1>1, <2>2, <2>3, MaxDocsIsNat DEF TypeOK
  <2> QED BY <2>3, <2>4 DEF IInv, LoopInv
<1>4. CASE UNCHANGED vars
  BY <1>4 DEF vars, IInv, TypeOK, LoopInv, Repeats
<1> QED BY <1>2, <1>3, <1>4 DEF Next

LEMMA Inductive == Spec => []IInv
BY InitIInv, NextIInv, PTL DEF Spec

\* Types: the loop's index and the hidden ones never leave the list.
THEOREM TypeCorrect == Spec => []TypeOK
<1>1. IInv => TypeOK
  BY DEF IInv
<1> QED BY <1>1, Inductive, PTL

\* The list a snapshot has built has a tile for every friend.
THEOREM FriendsKeepATile == Spec => []EveryFriendHasATile
<1>1. IInv => EveryFriendHasATile
  <2> SUFFICES ASSUME IInv, NEW j \in DOMAIN docs
               PROVE  \E k \in Tiles : k <= j /\ docs[k] = docs[j]
    BY DEF EveryFriendHasATile
  <2>1. docs \in Seq(Names) /\ DOMAIN docs = 1 .. Len(docs) /\ Len(docs) \in Nat
        /\ i \in 1 .. Len(docs) + 1
    BY LenProperties DEF IInv, TypeOK
  <2>2. CASE j \in Tiles
    BY <2>1, <2>2
  <2>3. CASE j \notin Tiles
    <3>1. PICK k \in 1 .. i - 1 : k < j /\ docs[k] = docs[j]
      BY <2>3 DEF Tiles, IInv, LoopInv
    <3>2. k \in DOMAIN docs /\ ~Repeats(k)
      BY <2>1, <3>1 DEF IInv, LoopInv
    <3>3. k \notin forbidden
      BY <2>1, <3>2 DEF IInv, LoopInv, Repeats
    <3> QED BY <2>1, <3>1, <3>2, <3>3 DEF Tiles
  <2> QED BY <2>2, <2>3
<1> QED BY <1>1, Inductive, PTL

\* In every snapshot's list, the names the loop has visited have one tile each.
THEOREM VisitedNamesAreUnique == Spec => []VisitedNamesHaveOneTile
<1>1. IInv => VisitedNamesHaveOneTile
  <2> SUFFICES ASSUME IInv, NEW j \in Tiles, NEW k \in Tiles, j < i, docs[j] = docs[k]
               PROVE  j = k
    BY DEF VisitedNamesHaveOneTile
  <2>1. /\ DOMAIN docs = 1 .. Len(docs) /\ Len(docs) \in Nat
        /\ i \in 1 .. Len(docs) + 1 /\ j \in 1 .. i - 1
        /\ j \in DOMAIN docs \ forbidden /\ k \in DOMAIN docs \ forbidden
    BY LenProperties DEF IInv, TypeOK, Tiles
  <2>2. ~(j < k)
    BY <2>1 DEF IInv, LoopInv
  <2>3. ~(k < j)
    BY <2>1 DEF IInv, LoopInv, Repeats
  <2> QED BY <2>1, <2>2, <2>3
<1> QED BY <1>1, Inductive, PTL
=============================================================================
