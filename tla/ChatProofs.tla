------------------------------ MODULE ChatProofs ------------------------------
(***************************************************************************)
(* Proofs about Chat, for every set of users, addresses and texts.         *)
(***************************************************************************)
EXTENDS Chat, SequenceTheorems, WellFoundedInduction, TLAPS

-----------------------------------------------------------------------------
(* The order of addresses, and the names of rooms.                         *)

LEMMA LeastNatural ==
    ASSUME NEW T \in SUBSET Nat, T # {}
    PROVE  \E x \in T : \A y \in T : x <= y
<1>1. PICK x \in T : \A y \in T : ~ (<<y, x>> \in OpToRel(<, Nat))
  BY NatLessThanWellFounded, WFMin
<1>2. \A y \in T : ~(y < x)
  BY <1>1 DEF OpToRel
<1> QED BY <1>2

\* compareTo never says both ways that the first is the smaller one.
LEMMA LessOneWay ==
    ASSUME NEW a \in Seq(Nat), NEW b \in Seq(Nat)
    PROVE  ~(Less(a, b) /\ Less(b, a))
<1> SUFFICES ASSUME Less(a, b), Less(b, a) PROVE FALSE
  OBVIOUS
<1>1. PICK k \in 1 .. Len(b) : /\ \A j \in 1 .. k - 1 : j <= Len(a) /\ a[j] = b[j]
                               /\ k <= Len(a) => a[k] < b[k]
  BY DEF Less
<1>2. PICK m \in 1 .. Len(a) : /\ \A j \in 1 .. m - 1 : j <= Len(b) /\ b[j] = a[j]
                               /\ m <= Len(b) => b[m] < a[m]
  BY DEF Less
<1>3. /\ Len(a) \in Nat /\ Len(b) \in Nat
      /\ \A j \in 1 .. Len(a) : a[j] \in Nat
      /\ \A j \in 1 .. Len(b) : b[j] \in Nat
  BY LenProperties, ElementOfSeq
<1>4. CASE k < m
  BY <1>1, <1>2, <1>3, <1>4
<1>5. CASE m < k
  BY <1>1, <1>2, <1>3, <1>5
<1>6. CASE k = m
  BY <1>1, <1>2, <1>3, <1>6
<1> QED BY <1>1, <1>2, <1>3, <1>4, <1>5, <1>6

\* Of two addresses one is the smaller: look at the first place they differ.
LEMMA LessSomeWay ==
    ASSUME NEW a \in Seq(Nat), NEW b \in Seq(Nat), a # b
    PROVE  Less(a, b) \/ Less(b, a)
<1> DEFINE Differ(k) == k > Len(a) \/ k > Len(b) \/ a[k] # b[k]
           T == {k \in Nat : k > 0 /\ Differ(k)}
<1>1. /\ Len(a) \in Nat /\ Len(b) \in Nat
      /\ \A j \in 1 .. Len(a) : a[j] \in Nat
      /\ \A j \in 1 .. Len(b) : b[j] \in Nat
  BY LenProperties, ElementOfSeq
<1>2. Len(a) + 1 \in T
  BY <1>1
<1>3. PICK k \in T : \A y \in T : k <= y
  BY <1>2, LeastNatural
<1>4. \A j \in 1 .. k - 1 : j <= Len(a) /\ j <= Len(b) /\ a[j] = b[j]
  <2> SUFFICES ASSUME NEW j \in 1 .. k - 1, Differ(j) PROVE FALSE
    BY <1>1
  <2>1. j \in Nat /\ j > 0 /\ j < k
    BY <1>3
  <2>2. j \in T
    BY <2>1
  <2> QED BY <1>3, <2>1, <2>2
<1>5. k \in Nat /\ k > 0 /\ Differ(k)
  BY <1>3
<1> HIDE DEF T
<1>6. CASE k > Len(a) /\ k > Len(b)
  <2>1. Len(a) = k - 1 /\ Len(b) = k - 1
    <3>1. k - 1 <= Len(a) /\ k - 1 <= Len(b)
      <4>1. CASE k = 1
        BY <1>1, <4>1
      <4>2. CASE k > 1
        BY <1>4, <1>5, <4>2
      <4> QED BY <1>5, <4>1, <4>2
    <3> QED BY <1>1, <1>5, <1>6, <3>1
  <2>2. \A i \in 1 .. Len(a) : a[i] = b[i]
    BY <1>4, <2>1
  <2>3. a = b
    BY <2>1, <2>2, SeqEqual
  <2> QED BY <2>3
<1>7. CASE k > Len(a) /\ k <= Len(b)
  <2>1. k \in 1 .. Len(b) /\ ~(k <= Len(a))
    BY <1>1, <1>5, <1>7
  <2>2. \A j \in 1 .. k - 1 : j <= Len(a) /\ a[j] = b[j]
    BY <1>4
  <2> QED BY <2>1, <2>2 DEF Less
<1>8. CASE k <= Len(a) /\ k > Len(b)
  <2>1. k \in 1 .. Len(a) /\ ~(k <= Len(b))
    BY <1>1, <1>5, <1>8
  <2>2. \A j \in 1 .. k - 1 : j <= Len(b) /\ b[j] = a[j]
    BY <1>4
  <2> QED BY <2>1, <2>2 DEF Less
<1>9. CASE k <= Len(a) /\ k <= Len(b)
  <2>1. k \in 1 .. Len(a) /\ k \in 1 .. Len(b) /\ a[k] # b[k]
    BY <1>1, <1>5, <1>9
  <2>2. a[k] < b[k] \/ b[k] < a[k]
    BY <1>1, <2>1
  <2>3. CASE a[k] < b[k]
    BY <1>4, <2>1, <2>3 DEF Less
  <2>4. CASE b[k] < a[k]
    BY <1>4, <2>1, <2>4 DEF Less
  <2> QED BY <2>2, <2>3, <2>4
<1> QED BY <1>1, <1>5, <1>6, <1>7, <1>8, <1>9

LEMMA AddressType ==
    ASSUME NEW u \in Users, NEW v \in Users
    PROVE  Address[u] \in Seq(Nat) /\ (u # v => Address[u] # Address[v])
BY AddressesDiffer

\* getDocumentName gives both sides of a chat the same room.
THEOREM RoomIsShared ==
    ASSUME NEW u \in Users, NEW v \in Users, u # v
    PROVE  Room(u, v) = Room(v, u)
<1>1. Less(Address[u], Address[v]) <=> ~Less(Address[v], Address[u])
  BY AddressType, LessOneWay, LessSomeWay
<1> QED BY <1>1 DEF Room

LEMMA RoomType == \A u, v \in Users : Room(u, v) \in Seq(Nat)
BY AddressType, ConcatProperties DEF Room

LEMMA RoomOfShape ==
    ASSUME NEW u \in Users, NEW v \in Users
    PROVE  RoomOf[u][v] = Room(u, v)
BY DEF RoomOf

\* A place of a joined sequence is one of the first part or of the second.
At(a, b, i) == IF i <= Len(a) THEN a[i] ELSE b[i - Len(a)]

Agree(a, b, c, d) ==
    /\ Len(a) + Len(b) = Len(c) + Len(d)
    /\ \A i \in 1 .. Len(a) + Len(b) : At(a, b, i) = At(c, d, i)

LEMMA ConcatPlaces ==
    ASSUME NEW a \in Seq(Nat), NEW b \in Seq(Nat)
    PROVE  /\ Len(a \o b) = Len(a) + Len(b)
           /\ \A i \in 1 .. Len(a) + Len(b) : (a \o b)[i] = At(a, b, i)
BY ConcatProperties DEF At

LEMMA ConcatAgree ==
    ASSUME NEW a \in Seq(Nat), NEW b \in Seq(Nat), NEW c \in Seq(Nat), NEW d \in Seq(Nat),
           NEW ab, NEW cd, ab = a \o b, cd = c \o d, ab = cd
    PROVE  Agree(a, b, c, d)
<1>1. /\ Len(ab) = Len(a) + Len(b)
      /\ \A i \in 1 .. Len(a) + Len(b) : ab[i] = At(a, b, i)
  BY ConcatPlaces
<1>2. /\ Len(cd) = Len(c) + Len(d)
      /\ \A i \in 1 .. Len(c) + Len(d) : cd[i] = At(c, d, i)
  BY ConcatPlaces
<1> QED BY ONLY <1>1, <1>2, ab = cd DEF Agree

\* First parts of one length are equal, and so are the second parts.
LEMMA SplitConcat ==
    ASSUME NEW a \in Seq(Nat), NEW b \in Seq(Nat), NEW c \in Seq(Nat), NEW d \in Seq(Nat),
           Len(a) = Len(c), a \o b = c \o d
    PROVE  a = c /\ b = d
<1>1. Len(a) \in Nat /\ Len(b) \in Nat /\ Len(c) \in Nat /\ Len(d) \in Nat
  BY LenProperties
<1>2. /\ Len(a) + Len(b) = Len(c) + Len(d)
      /\ \A i \in 1 .. Len(a) + Len(b) : At(a, b, i) = At(c, d, i)
  <2> DEFINE ab == a \o b  cd == c \o d
  <2>1. ab = a \o b /\ cd = c \o d /\ ab = cd
    OBVIOUS
  <2> HIDE DEF ab, cd
  <2>2. Agree(a, b, c, d)
    BY <2>1, ConcatAgree
  <2> QED BY <2>2 DEF Agree
<1>3. \A i \in 1 .. Len(a) : a[i] = c[i]
  <2>1. \A i \in 1 .. Len(a) : i \in 1 .. Len(a) + Len(b)
    BY <1>1
  <2> QED BY <1>1, <1>2, <2>1 DEF At
<1>4. ASSUME NEW i \in 1 .. Len(b) PROVE b[i] = d[i]
  <2>1. Len(a) + i \in 1 .. Len(a) + Len(b) /\ ~(Len(a) + i <= Len(a)) /\ (Len(a) + i) - Len(a) = i
    BY <1>1
  <2> QED BY <1>2, <2>1 DEF At
<1>5. Len(b) = Len(d)
  BY <1>1, <1>2
<1> QED BY <1>3, <1>4, <1>5, SeqEqual

\* A shorter first part begins the longer one.
LEMMA PrefixOfConcat ==
    ASSUME NEW a \in Seq(Nat), NEW b \in Seq(Nat), NEW c \in Seq(Nat), NEW d \in Seq(Nat),
           Len(a) < Len(c), a \o b = c \o d
    PROVE  IsStrictPrefix(a, c)
<1>1. Len(a) \in Nat /\ Len(b) \in Nat /\ Len(c) \in Nat
  BY LenProperties
<1>2. \A i \in 1 .. Len(a) : a[i] = c[i]
  <2>1. \A i \in 1 .. Len(a) : i \in 1 .. Len(a) + Len(b) /\ i <= Len(a) /\ i <= Len(c)
    BY <1>1
  <2>2. \A i \in 1 .. Len(a) + Len(b) : At(a, b, i) = At(c, d, i)
    <3> DEFINE ab == a \o b  cd == c \o d
    <3>1. ab = a \o b /\ cd = c \o d /\ ab = cd
      OBVIOUS
    <3> HIDE DEF ab, cd
    <3>2. Agree(a, b, c, d)
      BY <3>1, ConcatAgree
    <3> QED BY <3>2 DEF Agree
  <2> QED BY <2>1, <2>2 DEF At
<1>3. /\ SubSeq(a, 1, Len(a)) \in Seq(Nat) /\ Len(SubSeq(a, 1, Len(a))) = Len(a)
      /\ SubSeq(c, 1, Len(a)) \in Seq(Nat) /\ Len(SubSeq(c, 1, Len(a))) = Len(a)
      /\ \A i \in 1 .. Len(a) : SubSeq(a, 1, Len(a))[i] = a[i] /\ SubSeq(c, 1, Len(a))[i] = c[i]
  <2>1. /\ \A i \in 1 .. Len(a) : a[i] \in Nat /\ c[i] \in Nat
        /\ \A i \in 1 .. Len(a) : 1 + i - 1 = i
        /\ 1 \in Int /\ Len(a) \in Int
        /\ (IF 1 <= Len(a) THEN Len(a) - 1 + 1 ELSE 0) = Len(a) /\ Len(a) - 1 + 1 = Len(a)
    <3>1. /\ \A i \in 1 .. Len(a) : a[i] \in Nat
          /\ \A i \in 1 .. Len(c) : c[i] \in Nat
      BY ElementOfSeq
    <3> QED BY <1>1, <3>1
  <2>2. /\ SubSeq(a, 1, Len(a)) \in Seq(Nat) /\ Len(SubSeq(a, 1, Len(a))) = Len(a)
        /\ \A i \in 1 .. Len(a) : SubSeq(a, 1, Len(a))[i] = a[i]
    BY <2>1, SubSeqProperties
  <2>3. /\ SubSeq(c, 1, Len(a)) \in Seq(Nat) /\ Len(SubSeq(c, 1, Len(a))) = Len(a)
        /\ \A i \in 1 .. Len(a) : SubSeq(c, 1, Len(a))[i] = c[i]
    BY <2>1, SubSeqProperties
  <2> QED BY <2>2, <2>3
<1>4. SubSeq(a, 1, Len(a)) = SubSeq(c, 1, Len(a))
  BY <1>2, <1>3, SeqEqual
<1> QED BY <1>1, <1>4 DEF IsStrictPrefix, IsPrefix

\* A room shared by two pairs is one of confusable addresses.
LEMMA RoomOfOnePair ==
    ASSUME NEW u \in Users, NEW v \in Users, NEW p \in Users, NEW q \in Users,
           Room(u, v) = Room(p, q)
    PROVE  {u, v} = {p, q} \/ Confusable(u, v, p, q)
<1>1. ASSUME NEW x \in {u, v}, NEW y \in {u, v}, NEW z \in {p, q}, NEW w \in {p, q},
             Address[x] \o Address[y] = Address[z] \o Address[w]
      PROVE  (x = z /\ y = w) \/ Confusable(u, v, p, q)
  <2>1. /\ Address[x] \in Seq(Nat) /\ Address[y] \in Seq(Nat)
        /\ Address[z] \in Seq(Nat) /\ Address[w] \in Seq(Nat)
    BY AddressType
  <2>2. Len(Address[x]) \in Nat /\ Len(Address[z]) \in Nat
    BY <2>1, LenProperties
  <2>3. CASE Len(Address[x]) = Len(Address[z])
    <3>1. Address[x] = Address[z] /\ Address[y] = Address[w]
      BY <1>1, <2>1, <2>3, SplitConcat
    <3> QED BY <3>1, AddressType
  <2>4. CASE Len(Address[x]) < Len(Address[z])
    <3>1. IsStrictPrefix(Address[x], Address[z])
      BY <1>1, <2>1, <2>4, PrefixOfConcat
    <3> QED BY <3>1 DEF Confusable
  <2>5. CASE Len(Address[z]) < Len(Address[x])
    <3>1. IsStrictPrefix(Address[z], Address[x])
      BY <1>1, <2>1, <2>5, PrefixOfConcat
    <3> QED BY <3>1 DEF Confusable
  <2> QED BY <2>2, <2>3, <2>4, <2>5
<1>2. /\ Room(u, v) = Address[u] \o Address[v] \/ Room(u, v) = Address[v] \o Address[u]
      /\ Room(p, q) = Address[p] \o Address[q] \/ Room(p, q) = Address[q] \o Address[p]
  BY DEF Room
<1>3. CASE Address[u] \o Address[v] = Address[p] \o Address[q]
  <2>1. (u = p /\ v = q) \/ Confusable(u, v, p, q)
    BY <1>1, <1>3
  <2> QED BY <2>1
<1>4. CASE Address[u] \o Address[v] = Address[q] \o Address[p]
  <2>1. (u = q /\ v = p) \/ Confusable(u, v, p, q)
    BY <1>1, <1>4
  <2> QED BY <2>1
<1>5. CASE Address[v] \o Address[u] = Address[p] \o Address[q]
  <2>1. (v = p /\ u = q) \/ Confusable(u, v, p, q)
    BY <1>1, <1>5
  <2> QED BY <2>1
<1>6. CASE Address[v] \o Address[u] = Address[q] \o Address[p]
  <2>1. (v = q /\ u = p) \/ Confusable(u, v, p, q)
    BY <1>1, <1>6
  <2> QED BY <2>1
<1> QED BY <1>2, <1>3, <1>4, <1>5, <1>6

-----------------------------------------------------------------------------
(* The documents.                                                          *)

\* Every document is in the room of the two different users it goes between.
WellAddressed ==
    /\ \A u \in Users : open[u] # u
    /\ \A w \in pending \union db \union refused : w.from # w.to /\ w.room = Room(w.from, w.to)

\* A document's number is one that its sender has used.
Numbered == \A w \in pending \union db \union refused : w.n <= sent[w.from]

IInv == TypeOK /\ WellAddressed /\ SendsWhatIsShown /\ Numbered

LEMMA InitIInv == Init => IInv
BY Sentinels, Bounds DEF Init, IInv, TypeOK, WellAddressed, SendsWhatIsShown, Numbered

\* Show leaves a field and a message that agree.
LEMMA ShowStep ==
    ASSUME IInv, NEW u \in Users, NEW v \in Users \union {Nobody}, v # u, Show(u, v),
           UNCHANGED <<sent, pending, db, refused>>
    PROVE  IInv'
<1>1. TypeOK'
  BY Sentinels DEF Show, IInv, TypeOK
<1>2. WellAddressed'
  BY DEF Show, IInv, TypeOK, WellAddressed
<1>3. SendsWhatIsShown'
  BY DEF Show, IInv, TypeOK, SendsWhatIsShown
<1>4. Numbered'
  BY DEF Show, IInv, Numbered
<1> QED BY <1>1, <1>2, <1>3, <1>4 DEF IInv

LEMMA SendStep ==
    ASSUME IInv, NEW u \in Users, Send(u)
    PROVE  IInv'
<1> DEFINE w == [from |-> u, n |-> sent[u] + 1, to |-> open[u], text |-> message[u],
                 room |-> RoomOf[u][open[u]]]
<1>1. /\ open[u] \in Users /\ open[u] # u
      /\ sent[u] + 1 \in 1 .. MaxSends
      /\ message[u] \in Texts \union {Null}
  BY Bounds DEF Send, IInv, TypeOK, WellAddressed
<1>2. w \in Doc
  BY <1>1, RoomType, RoomOfShape DEF Doc
<1>3. w.from = u /\ w.to = open[u] /\ w.room = Room(u, open[u])
  BY <1>1, RoomOfShape
<1>4. pending' = pending \union {w}
  BY DEF Send
<1> HIDE DEF w
<1>5. TypeOK'
  <2>1. pending' \subseteq Doc
    BY <1>2, <1>4 DEF IInv, TypeOK
  <2>2. sent' \in [Users -> 0 .. MaxSends] /\ waiting' \in [Users -> SUBSET (1 .. MaxSends)]
    BY <1>1, Bounds DEF Send, IInv, TypeOK
  <2> QED BY <2>1, <2>2 DEF Send, IInv, TypeOK
<1>6. WellAddressed'
  BY <1>1, <1>3, <1>4 DEF Send, IInv, WellAddressed
<1>7. Numbered'
  <2>1. w.n = sent[u] + 1 /\ w.from = u
    BY DEF w
  <2>2. \A k \in pending \union db \union refused : k.from \in Users /\ k.n \in 1 .. MaxSends
    BY DEF IInv, TypeOK, Doc
  <2>3. \A k \in Users : sent[k] \in Nat /\ sent'[k] = (IF k = u THEN sent[k] + 1 ELSE sent[k])
    BY DEF Send, IInv, TypeOK
  <2>4. \A k \in pending \union db \union refused : k.n <= sent'[k.from]
    BY <2>2, <2>3, Bounds DEF IInv, Numbered
  <2>5. db' = db /\ refused' = refused /\ w.n <= sent'[w.from]
    BY <2>1, <2>3 DEF Send
  <2> QED BY <1>4, <2>4, <2>5 DEF Numbered
<1> QED BY <1>5, <1>6, <1>7 DEF Send, IInv, SendsWhatIsShown

LEMMA AnswerStep ==
    ASSUME IInv, NEW w \in pending, NEW ok \in BOOLEAN, Answer(w, ok)
    PROVE  IInv'
<1>1. w.from \in Users /\ w.n \in 1 .. MaxSends
  BY DEF IInv, TypeOK, Doc
<1>2. field' = field \/ field' = [field EXCEPT ![w.from] = Blank]
  BY DEF Answer
<1>3. TypeOK'
  <2>1. field' \in [Users -> Texts]
    BY <1>1, <1>2, Sentinels DEF IInv, TypeOK
  <2>2. waiting' \in [Users -> SUBSET (1 .. MaxSends)]
    BY <1>1 DEF Answer, IInv, TypeOK
  <2> QED BY <2>1, <2>2 DEF Answer, IInv, TypeOK
<1>4. WellAddressed'
  BY DEF Answer, IInv, WellAddressed
<1>5. SendsWhatIsShown'
  BY <1>1, <1>2 DEF Answer, IInv, TypeOK, SendsWhatIsShown
<1>6. Numbered'
  BY DEF Answer, IInv, Numbered
<1> QED BY <1>3, <1>4, <1>5, <1>6 DEF IInv

LEMMA NextIInv == IInv /\ [Next]_vars => IInv'
<1> SUFFICES ASSUME IInv, [Next]_vars PROVE IInv'
  OBVIOUS
<1>1. ASSUME NEW u \in Writers, NEW v \in Users, Open(u, v) PROVE IInv'
  BY <1>1, ShowStep, Bounds DEF Open
<1>2. ASSUME NEW u \in Writers, Close(u) \/ Restart(u) PROVE IInv'
  BY <1>2, ShowStep, Bounds, Sentinels DEF Close, Restart
<1>3. ASSUME NEW u \in Writers, NEW t \in Texts, Type(u, t) PROVE IInv'
  BY <1>3, Bounds DEF Type, IInv, TypeOK, WellAddressed, SendsWhatIsShown, Numbered
<1>4. ASSUME NEW u \in Writers, Send(u) PROVE IInv'
  BY <1>4, SendStep, Bounds
<1>5. ASSUME NEW w \in pending \union refused, Deliver(w) \/ Refuse(w) PROVE IInv'
  BY <1>5 DEF Deliver, Refuse, IInv, TypeOK, WellAddressed, SendsWhatIsShown, Numbered
<1>6. ASSUME NEW w \in pending, NEW ok \in BOOLEAN, Answer(w, ok) PROVE IInv'
  BY <1>6, AnswerStep
<1>7. CASE UNCHANGED vars
  BY <1>7 DEF vars, IInv, TypeOK, WellAddressed, SendsWhatIsShown, Numbered
<1> QED BY <1>1, <1>2, <1>3, <1>4, <1>5, <1>6, <1>7 DEF Next

LEMMA Inductive == Spec => []IInv
BY InitIInv, NextIInv, PTL DEF Spec

-----------------------------------------------------------------------------
(* The properties.                                                         *)

\* Types: what is sent, stored and refused are documents of a room.
THEOREM TypeCorrect == Spec => []TypeOK
<1>1. IInv => TypeOK
  BY DEF IInv
<1> QED BY <1>1, Inductive, PTL

\* Send sends what the field shows, whatever late answers have cleared.
THEOREM SendsTheShownText == Spec => []SendsWhatIsShown
<1>1. IInv => SendsWhatIsShown
  BY DEF IInv
<1> QED BY <1>1, Inductive, PTL

\* A message under way is listed for its sender, a stored one on both sides, for
\* addresses of any form.
THEOREM BothSidesAreServed == Spec => []BothSidesList
<1>1. IInv => BothSidesList
  <2> SUFFICES ASSUME IInv, NEW w \in pending \union db, w.text # Null
               PROVE  w.room = RoomOf[w.from][w.to] /\ w.room = RoomOf[w.to][w.from]
    BY DEF BothSidesList, Lists, View
  <2>1. w.from \in Users /\ w.to \in Users /\ w.from # w.to /\ w.room = Room(w.from, w.to)
    BY DEF IInv, TypeOK, WellAddressed, Doc
  <2> QED BY <2>1, RoomIsShared, RoomOfShape
<1> QED BY <1>1, Inductive, PTL

\* Whatever the addresses, a chat lists a message of two others only if one of
\* their addresses begins with one of the chat's, or the other way round.
THEOREM RoomsAreSeparate == Spec => []OnlyThePairIsListed
<1>1. IInv => OnlyThePairIsListed
  <2> SUFFICES ASSUME IInv, NEW u \in Users, NEW v \in Users, NEW w \in View(u),
                      w.room = RoomOf[u][v]
               PROVE  {w.from, w.to} = {u, v} \/ Confusable(u, v, w.from, w.to)
    BY DEF OnlyThePairIsListed, Lists
  <2>1. w.from \in Users /\ w.to \in Users /\ w.room = Room(w.from, w.to)
    BY DEF View, IInv, TypeOK, WellAddressed, Doc
  <2>2. PICK x \in Users, y \in Users : x = w.from /\ y = w.to
    BY <2>1
  <2>3. Room(u, v) = Room(x, y)
    BY <2>1, <2>2, RoomOfShape
  <2>4. {u, v} = {x, y} \/ Confusable(u, v, x, y)
    BY <2>3, RoomOfOnePair
  <2> QED BY <2>2, <2>4
<1> QED BY <1>1, Inductive, PTL

-----------------------------------------------------------------------------
(* The refinement.                                                         *)

Docs == pending \union db \union refused
Said == {Message(w) : w \in {d \in Docs : d.text # Null}}
Listed == [u \in Users |-> [v \in Users |-> {Message(w) : w \in Lists(u, v)}]]

LEMMA MessageType ==
    ASSUME NEW w \in Doc, w.text # Null
    PROVE  /\ Message(w) \in R!Message
           /\ w.from \in Users /\ w.n \in 1 .. MaxSends /\ w.to \in Users
           /\ Message(w).from = w.from /\ Message(w).n = w.n /\ Message(w).to = w.to
<1>1. w.from \in Users /\ w.n \in 1 .. MaxSends /\ w.to \in Users /\ w.text \in Texts
  BY DEF Doc
<1> QED BY <1>1 DEF R!Message, Message

\* The documents, and the rooms they are in.
LEMMA DocsType ==
    ASSUME IInv
    PROVE  /\ Docs \subseteq Doc /\ pending \subseteq Docs /\ db \subseteq Docs
           /\ \A w \in Docs : /\ w.from \in Users /\ w.to \in Users /\ w.from # w.to
                             /\ w.room = RoomOf[w.from][w.to] /\ w.room = RoomOf[w.to][w.from]
<1>1. /\ Docs \subseteq Doc
      /\ \A w \in Docs : w.from # w.to /\ w.room = Room(w.from, w.to)
  BY DEF Docs, IInv, TypeOK, WellAddressed
<1>2. \A w \in Docs : w.from \in Users /\ w.to \in Users
  BY <1>1 DEF Doc
<1> QED BY <1>1, <1>2, RoomIsShared, RoomOfShape DEF Docs

\* A document can be told by its message.
LEMMA MessageTells ==
    ASSUME IInv, NEW w \in Docs, NEW k \in Docs, Message(w) = Message(k)
    PROVE  w = k
<1>1. w \in Doc /\ k \in Doc
      /\ w.room = RoomOf[w.from][w.to] /\ k.room = RoomOf[k.from][k.to]
  BY DocsType
<1>2. w.from = k.from /\ w.n = k.n /\ w.to = k.to /\ w.text = k.text
  BY DEF Message
<1>3. w.room = k.room
  BY <1>1, <1>2
<1> QED BY <1>1, <1>2, <1>3 DEF Doc

\* The screens after a step are G, if the lists are, one by one.
LEMMA ListedAfter ==
    ASSUME NEW G, G = [u \in Users |-> [v \in Users |-> G[u][v]]],
           \A u, v \in Users : {Message(k) : k \in Lists(u, v)'} = G[u][v]
    PROVE  Listed' = G
<1> DEFINE After(u, v) == {Message(k) : k \in Lists(u, v)'}
           Then(u, v) == G[u][v]
<1>1. \A u, v \in Users : After(u, v) = Then(u, v)
  OBVIOUS
<1>2. Listed' = [u \in Users |-> [v \in Users |-> After(u, v)]]
  BY DEF Listed, Message
<1>3. G = [u \in Users |-> [v \in Users |-> Then(u, v)]]
  OBVIOUS
<1> HIDE DEF After, Then
<1> QED BY <1>1, <1>2, <1>3

\* A tap on Send adds one message, numbered after the sender's others, and the
\* sender sees it.
LEMMA SendSays ==
    ASSUME IInv, NEW u \in Writers, Send(u)
    PROVE  [R!Next]_(R!vars)
<1> DEFINE w == [from |-> u, n |-> sent[u] + 1, to |-> open[u], text |-> message[u],
                 room |-> RoomOf[u][open[u]]]
<1>0. u \in Users
  BY Bounds
<1>1. /\ Docs' = Docs \union {w} /\ db' = db /\ pending' = pending \union {w}
      /\ w.text = message[u]
  BY DEF Send, Docs
<1>3. w \in Docs' /\ w.from = u /\ w.n = sent[u] + 1 /\ w.room = RoomOf[w.from][w.to]
  BY <1>1
<1>4. IInv'
  BY <1>0, SendStep
<1> HIDE DEF w
<1>7. \A x, y \in Users :
        Lists(x, y)' = IF x = u /\ w.room = RoomOf[x][y] /\ w.text # Null
                       THEN Lists(x, y) \union {w} ELSE Lists(x, y)
  BY <1>1, <1>3 DEF Lists, View
<1>5. CASE w.text = Null
  <2>1. Said' = Said
    BY <1>1, <1>5 DEF Said
  <2>2. Listed' = Listed
    BY <1>5, <1>7 DEF Listed
  <2> QED BY <2>1, <2>2 DEF R!vars, Said, Listed, Docs
<1>6. CASE w.text # Null
  <2>1. Said' = Said \union {Message(w)}
    BY <1>1, <1>6 DEF Said
  <2>2. /\ Message(w) \in R!Message /\ w.from # w.to
        /\ Message(w).from = u /\ Message(w).n = sent[u] + 1 /\ Message(w).to = w.to
    <3>1. w \in Doc /\ w.from # w.to
      BY <1>3, <1>4 DEF Docs, IInv, TypeOK, WellAddressed
    <3> QED BY <1>3, <1>6, <3>1, MessageType
  <2>3. ASSUME NEW k \in Said, k.from = u PROVE k.n < sent[u] + 1
    <3>1. PICK d \in Docs : d.text # Null /\ k = Message(d)
      BY <2>3 DEF Said
    <3>2. d.from = u /\ k.n = d.n
      BY <2>3, <3>1, DocsType, MessageType
    <3>3. d.n <= sent[u] /\ d.n \in 1 .. MaxSends /\ sent[u] \in Nat
      BY <1>0, <3>1, <3>2 DEF Docs, IInv, TypeOK, Numbered, Doc
    <3> QED BY <3>2, <3>3
  <2>4. PICK m \in R!Message : m = Message(w)
    BY <2>2
  <2>5. Listed' = R!ShownToSender(m)
    <3> DEFINE G == R!ShownToSender(m)
    <3>1. \A x, y \in Users : G[x][y] = IF x = u /\ w.room = RoomOf[x][y]
                                      THEN Listed[x][y] \union {Message(w)} ELSE Listed[x][y]
      BY <1>3, <2>2, <2>4 DEF R!ShownToSender, R!Concerns, Listed
    <3>2. G = [x \in Users |-> [y \in Users |-> G[x][y]]]
      BY DEF R!ShownToSender
    <3>3. \A x, y \in Users : Listed[x][y] = {Message(k) : k \in Lists(x, y)}
      BY DEF Listed
    <3>4. ASSUME NEW x \in Users, NEW y \in Users
          PROVE  {Message(k) : k \in Lists(x, y)'} = G[x][y]
      <4>1. CASE x = u /\ w.room = RoomOf[x][y]
        <5>1. Lists(x, y)' = Lists(x, y) \union {w}
          BY <1>6, <1>7, <4>1
        <5>2. {Message(k) : k \in Lists(x, y) \union {w}}
                = {Message(k) : k \in Lists(x, y)} \union {Message(w)}
          OBVIOUS
        <5>3. G[x][y] = {Message(k) : k \in Lists(x, y)} \union {Message(w)}
          BY <3>1, <3>3, <4>1
        <5> QED BY <5>1, <5>2, <5>3
      <4>2. CASE ~(x = u /\ w.room = RoomOf[x][y])
        <5>1. Lists(x, y)' = Lists(x, y)
          BY <1>7, <4>2
        <5>2. G[x][y] = {Message(k) : k \in Lists(x, y)}
          BY <3>1, <3>3, <4>2
        <5> QED BY <5>1, <5>2
      <4> QED BY <4>1, <4>2
    <3> HIDE DEF G
    <3>5. Listed' = G
      BY <3>2, <3>4, ListedAfter
    <3> QED BY <3>5 DEF G
  <2>6. R!Say(m)
    BY <1>3, <2>1, <2>2, <2>3, <2>4, <2>5 DEF R!Say, Said, Listed, Docs
  <2> QED BY <2>6 DEF R!Next
<1> QED BY <1>5, <1>6

\* A document that is stored appears in every chat of its room.
LEMMA DeliverAppears ==
    ASSUME IInv, NEW w \in pending \union refused, Deliver(w)
    PROVE  [R!Next]_(R!vars)
<1>1. Docs' = Docs /\ db' = db \union {w} /\ w \in Docs /\ pending' = pending
  BY DEF Deliver, Docs
<1>2. Said' = Said
  BY <1>1 DEF Said
<1>5. \A x, y \in Users :
        Lists(x, y)' = IF w.room = RoomOf[x][y] /\ w.text # Null
                       THEN Lists(x, y) \union {w} ELSE Lists(x, y)
  BY <1>1 DEF Lists, View
<1>3. CASE w.text = Null
  <2>2. Listed' = Listed
    BY <1>3, <1>5 DEF Listed
  <2> QED BY <1>2, <2>2 DEF R!vars, Said, Listed, Docs
<1>4. CASE w.text # Null
  <2>1. /\ Message(w) \in R!Message /\ Message(w) \in Said
        /\ w.from \in Users /\ w.to \in Users /\ w.room = RoomOf[w.from][w.to]
        /\ Message(w).from = w.from /\ Message(w).to = w.to
    BY <1>1, <1>4, DocsType, MessageType DEF Said
  <2>2. PICK m \in R!Message : m = Message(w)
    BY <2>1
  <2> DEFINE G == [u \in Users |-> [v \in Users |->
                    IF R!Concerns(m, u, v) THEN Listed[u][v] \union {m} ELSE Listed[u][v]]]
  <2>3. Listed' = G
    <3>1. \A x, y \in Users : G[x][y] = IF w.room = RoomOf[x][y]
                                      THEN Listed[x][y] \union {Message(w)} ELSE Listed[x][y]
      BY <2>1, <2>2 DEF R!Concerns
    <3>2. G = [x \in Users |-> [y \in Users |-> G[x][y]]]
      OBVIOUS
    <3>3. \A x, y \in Users : Listed[x][y] = {Message(k) : k \in Lists(x, y)}
      BY DEF Listed
    <3>4. ASSUME NEW x \in Users, NEW y \in Users
          PROVE  {Message(k) : k \in Lists(x, y)'} = G[x][y]
      <4>1. CASE w.room = RoomOf[x][y]
        <5>1. Lists(x, y)' = Lists(x, y) \union {w}
          BY <1>4, <1>5, <4>1
        <5>2. {Message(k) : k \in Lists(x, y) \union {w}}
                = {Message(k) : k \in Lists(x, y)} \union {Message(w)}
          OBVIOUS
        <5>3. G[x][y] = {Message(k) : k \in Lists(x, y)} \union {Message(w)}
          BY <3>1, <3>3, <4>1
        <5> QED BY <5>1, <5>2, <5>3
      <4>2. CASE w.room # RoomOf[x][y]
        <5>1. Lists(x, y)' = Lists(x, y)
          BY <1>5, <4>2
        <5>2. G[x][y] = {Message(k) : k \in Lists(x, y)}
          BY <3>1, <3>3, <4>2
        <5> QED BY <5>1, <5>2
      <4> QED BY <4>1, <4>2
    <3> HIDE DEF G
    <3> QED BY <3>2, <3>4, ListedAfter
  <2>4. R!Appear(m)
    BY <1>2, <2>1, <2>2, <2>3 DEF R!Appear, Said, Listed, Docs
  <2> QED BY <2>4 DEF R!Next
<1> QED BY <1>3, <1>4

\* An answer takes a document from its sender's screen only when the server does
\* not have it, and then nobody else does.
LEMMA AnswerTakesBack ==
    ASSUME IInv, NEW w \in pending, NEW ok \in BOOLEAN, Answer(w, ok)
    PROVE  [R!Next]_(R!vars)
<1>1. /\ pending' = pending \ {w} /\ db' = db /\ Docs' = Docs
      /\ w \in Docs /\ w \in db \union refused
  BY DEF Answer, Docs
<1>2. Said' = Said
  BY <1>1 DEF Said
<1>3. /\ w \in Doc /\ w.from \in Users /\ w.to \in Users /\ w.from # w.to
      /\ w.room = RoomOf[w.from][w.to]
  BY <1>1, DocsType
<1>4. CASE w \in db \/ w.text = Null
  <2>1. \A x, y \in Users : Lists(x, y)' = Lists(x, y)
    BY <1>1, <1>4 DEF Lists, View
  <2>2. Listed' = Listed
    BY <2>1 DEF Listed
  <2> QED BY <1>2, <2>2 DEF R!vars, Said, Listed, Docs
<1>5. CASE w \notin db /\ w.text # Null
  <2>1. /\ Message(w) \in R!Message /\ Message(w) \in Said
        /\ Message(w).from = w.from /\ Message(w).to = w.to
    BY <1>1, <1>3, <1>5, MessageType DEF Said
  <2>2. PICK m \in R!Message : m = Message(w)
    BY <2>1
  <2>3. \A x, y \in Users : Lists(x, y)' = IF x = w.from THEN Lists(x, y) \ {w} ELSE Lists(x, y)
    BY <1>1, <1>5 DEF Lists, View
  <2>4. \A x, y \in Users : Listed[x][y] = {Message(k) : k \in Lists(x, y)}
    BY DEF Listed
  <2>5. \A x, y \in Users : Lists(x, y) \subseteq Docs
    BY DEF Lists, View, Docs
  <2>6. m \notin Listed[w.to][w.from]
    <3> SUFFICES ASSUME m \in Listed[w.to][w.from] PROVE FALSE
      OBVIOUS
    <3>1. PICK k \in Lists(w.to, w.from) : m = Message(k)
      BY <1>3, <2>4
    <3>2. k = w
      BY <1>1, <1>3, <2>2, <2>5, <3>1, MessageTells
    <3>3. w \in View(w.to)
      BY <3>2 DEF Lists
    <3> QED BY <1>3, <1>5, <3>3 DEF View
  <2> DEFINE G == [u \in Users |-> [v \in Users |->
                    IF u = m.from THEN Listed[u][v] \ {m} ELSE Listed[u][v]]]
  <2>7. Listed' = G
    <3>1. G = [x \in Users |-> [y \in Users |-> G[x][y]]]
      OBVIOUS
    <3>2. ASSUME NEW x \in Users, NEW y \in Users
          PROVE  {Message(k) : k \in Lists(x, y)'} = G[x][y]
      <4>1. CASE x = w.from
        <5>1. G[x][y] = {Message(k) : k \in Lists(x, y)} \ {Message(w)}
          BY <2>1, <2>2, <2>4, <4>1
        <5>2. Lists(x, y)' = Lists(x, y) \ {w}
          BY <2>3, <4>1
        <5>3. \A k \in Lists(x, y) : Message(k) = Message(w) => k = w
          BY <1>1, <2>5, MessageTells
        <5> QED BY <5>1, <5>2, <5>3
      <4>2. CASE x # w.from
        <5>1. G[x][y] = {Message(k) : k \in Lists(x, y)}
          BY <2>1, <2>2, <2>4, <4>2
        <5> QED BY <2>3, <4>2, <5>1
      <4> QED BY <4>1, <4>2
    <3> HIDE DEF G
    <3> QED BY <3>1, <3>2, ListedAfter
  <2>8. R!Vanish(m)
    BY <1>2, <2>1, <2>2, <2>6, <2>7 DEF R!Vanish, Said, Listed, Docs
  <2> QED BY <2>8 DEF R!Next
<1> QED BY <1>4, <1>5

\* No other step shows: nothing that was said is forgotten with its process.
LEMMA OthersStutter ==
    ASSUME Docs' = Docs, db' = db, pending' = pending
    PROVE  UNCHANGED R!vars
<1>1. Said' = Said /\ Listed' = Listed
  BY DEF Said, Listed, Lists, View
<1> QED BY <1>1 DEF R!vars, Said, Listed, Docs

\* Whatever the addresses, the screens show what the abstract rooms do.
THEOREM ChatImplementsRooms == Spec => ImplementsRooms
<1>1. Init => R!Init
  <2> SUFFICES ASSUME Init PROVE Said = {} /\ Listed = [u \in Users |-> [v \in Users |-> {}]]
    BY DEF R!Init, Said, Listed, Docs
  <2>1. Docs = {} /\ db = {} /\ pending = {}
    BY DEF Init, Docs
  <2>2. \A u, v \in Users : Lists(u, v) = {}
    BY <2>1 DEF Lists, View
  <2> QED BY <2>1, <2>2 DEF Said, Listed
<1>2. IInv /\ [Next]_vars => [R!Next]_(R!vars)
  <2> SUFFICES ASSUME IInv, [Next]_vars PROVE [R!Next]_(R!vars)
    OBVIOUS
  <2>1. ASSUME NEW u \in Writers, Send(u) PROVE [R!Next]_(R!vars)
    BY <2>1, SendSays
  <2>2. ASSUME NEW w \in pending \union refused, Deliver(w) PROVE [R!Next]_(R!vars)
    BY <2>2, DeliverAppears
  <2>3. ASSUME NEW w \in pending, NEW ok \in BOOLEAN, Answer(w, ok) PROVE [R!Next]_(R!vars)
    BY <2>3, AnswerTakesBack
  <2>4. ASSUME NEW u \in Writers,
               Close(u) \/ Restart(u) \/ (\E v \in Users : Open(u, v)) \/ (\E t \in Texts : Type(u, t))
        PROVE  [R!Next]_(R!vars)
    <3>1. Docs' = Docs /\ db' = db /\ pending' = pending
      BY <2>4 DEF Close, Restart, Open, Type, Docs
    <3> QED BY <3>1, OthersStutter
  <2>5. ASSUME NEW w \in pending, Refuse(w) PROVE [R!Next]_(R!vars)
    <3>1. Docs' = Docs /\ db' = db /\ pending' = pending
      BY <2>5 DEF Refuse, Docs
    <3> QED BY <3>1, OthersStutter
  <2>6. CASE UNCHANGED vars
    <3>1. Docs' = Docs /\ db' = db /\ pending' = pending
      BY <2>6 DEF vars, Docs
    <3> QED BY <3>1, OthersStutter
  <2> QED BY <2>1, <2>2, <2>3, <2>4, <2>5, <2>6 DEF Next
<1> QED BY <1>1, <1>2, Inductive, PTL DEF Spec, ImplementsRooms, R!Spec
=============================================================================
