------------------------- MODULE WatchTargetProofs -------------------------
(***************************************************************************)
(* Proofs about WatchTarget, for every finite set of documents and any     *)
(* number of changes, listens and breaks.                                  *)
(***************************************************************************)
EXTENDS WatchTarget, FiniteSetTheorems, SequenceTheorems, TLAPS

IsAck(m) == m.type \in {"added", "removed"}
IsSnapshot(m) == m.type = "snapshot"
IsDocument(m) == m.type = "document"
IsFilter(m) == m.type = "filter"
IsReset(m) == m.type = "reset"
IsCurrent(m) == m.type = "current"
Comes(m, d) == IsDocument(m) /\ m.doc = d /\ m.matches
Goes(m, d) == IsReset(m) \/ (IsDocument(m) /\ m.doc = d /\ ~m.matches)

\* The keys the view will have once what is noted is applied.
Keys == Changed(view.synced)

\* In the messages q: no ack behind i; s is the first snapshot behind i; every
\* key of h beyond keys is told between them; every one of keys beyond h is told
\* to go; the number of documents is sent; the target is said to be current.
Quiet(q, i) == \A j \in DOMAIN q : j > i => ~IsAck(q[j])
First(q, i, s) ==
    /\ s \in DOMAIN q /\ i < s /\ IsSnapshot(q[s])
    /\ \A j \in DOMAIN q : i < j /\ j < s => ~IsSnapshot(q[j])
Brings(q, i, s, h, keys) ==
    \A d \in h \ keys : \E j \in DOMAIN q : i < j /\ j < s /\ Comes(q[j], d)
Drops(q, i, s, h, keys) ==
    \A d \in keys \ h : \E j \in DOMAIN q : i < j /\ j < s /\ Goes(q[j], d)
Counted(q, s) == s - 1 \in DOMAIN q /\ IsFilter(q[s - 1])
CurrentBehind(q, i) == \E j \in DOMAIN q : j > i /\ IsCurrent(q[j])

\* Behind i the messages tell how keys become h, or how many h are; then one set
\* is part of the other when the count comes.
Brought(q, i, s, h, keys) ==
    \/ Counted(q, s) /\ (keys \subseteq h \/ Brings(q, i, s, h, keys))
    \/ Brings(q, i, s, h, keys) /\ Drops(q, i, s, h, keys)

\* No stream, no messages and nothing noted.
NothingOpen ==
    /\ stream # "open" => /\ up = << >> /\ down = << >> /\ told = 0
                          /\ state = Fresh /\ ~mismatch
    /\ ~listening => view = NoView

\* Every request not yet answered has its ack to come.
Acks(q) == Cardinality({i \in DOMAIN q : IsAck(q[i])})
AcksAreCounted == state.outstanding = Len(up) + Acks(down)

\* Nothing is from a version to come.
Known ==
    /\ told <= Now /\ savedToken <= Now /\ localToken <= Now /\ remoteToken <= Now
    /\ lastSnapshot <= Now /\ (view.current => lastSnapshot # 0)
    /\ \A i \in DOMAIN up : up[i] # Unwatch => up[i].token <= Now
    /\ \A i \in DOMAIN down : IsSnapshot(down[i]) => down[i].version <= Now

\* What comes before a snapshot is true of its version.
FiltersCount ==
    \A i \in DOMAIN down : IsFilter(down[i]) =>
        /\ i + 1 \in DOMAIN down /\ IsSnapshot(down[i + 1])
        /\ down[i].count = Cardinality(history[down[i + 1].version])
DocumentsAreTrue ==
    \A i \in DOMAIN down : IsDocument(down[i]) =>
        \E s \in DOMAIN down : /\ First(down, i, s)
                               /\ down[i].matches <=> down[i].doc \in history[down[s].version]
ResetsTellAll ==
    \A i \in DOMAIN down : IsReset(down[i]) =>
        \E s \in DOMAIN down : /\ First(down, i, s)
                               /\ Brings(down, i, s, history[down[s].version], {})
Batches == FiltersCount /\ DocumentsAreTrue /\ ResetsTellAll

\* The last request is to watch, from a token that is that of the keys.
Requests ==
    listening /\ up # << >> =>
        LET r == up[Len(up)] IN
            /\ r # Unwatch
            /\ cached # {} /\ r.token # 0 => cached = history[r.token]

\* The client watches, and all its requests are taken up.
Heard == listening /\ stream = "open" /\ up = << >>

\* Then the last ack is that of a watch, and the last snapshot of what the
\* server has told.
Watched ==
    Heard =>
        /\ told # 0
        /\ IF down = << >> THEN state.changes = NoChanges
           ELSE IsSnapshot(down[Len(down)]) /\ down[Len(down)].version = told
        /\ \A a \in DOMAIN down : IsAck(down[a]) /\ Quiet(down, a) => down[a].type = "added"

\* Then each snapshot behind the last ack is complete for who has the keys at
\* hand, or those of the snapshot before.
Complete ==
    Heard =>
        /\ down = << >> => cached = history[told]
        /\ \A a, s \in DOMAIN down : IsAck(down[a]) /\ Quiet(down, a) /\ First(down, a, s) =>
                Brought(down, a, s, history[down[s].version], cached)
        /\ \A p, s \in DOMAIN down : IsSnapshot(down[p]) /\ Quiet(down, p) /\ First(down, p, s) =>
                Brought(down, p, s, history[down[s].version], history[down[p].version])

\* An active target will have all keys of the next snapshot, or has some of
\* them; once the number is compared it has these or starts over.
Receiving ==
    Active /\ ~mismatch =>
        \A s \in DOMAIN down : First(down, 0, s) =>
            Brought(down, 0, s, history[down[s].version], Keys)

\* A count that did not fit is followed by its snapshot.
MismatchIsNext ==
    mismatch => /\ down # << >> /\ IsSnapshot(down[1])
                /\ Active => Keys = {} /\ ~state.current

\* A view that stays current while its target is not active has lost its
\* stream, and no snapshot comes before the ack.
CurrentAwaitsAck ==
    listening /\ view.current /\ state.outstanding # 0 =>
        /\ state.outstanding = 1
        /\ IF down = << >> THEN told = 0 ELSE IsAck(down[1])

\* Keys are stored with their token, or there are none.
TokensFit ==
    cached # {} =>
        /\ savedToken # 0 /\ cached = history[savedToken]
        /\ listening => localToken # 0 /\ cached = history[localToken]
        /\ listening /\ remoteToken # 0 => cached = history[remoteToken]

\* The keys at hand are those the last request's token stands for: the server
\* is told what the client has.
ServerKnowsTheKeys ==
    listening /\ up # << >> =>
        LET t == up[Len(up)].token IN view.synced = IF t = 0 THEN {} ELSE history[t]

\* A reset is followed by word that the target is current again.
ResetsRenew == \A i \in DOMAIN down : IsReset(down[i]) => CurrentBehind(down, i)

\* A client that is heard is current, or will be: the word for it is behind the
\* last ack, or is still to come, or is with the aggregator.
BecomesCurrent ==
    Heard =>
        /\ \A i \in DOMAIN down : IsAck(down[i]) /\ Quiet(down, i) => CurrentBehind(down, i)
        /\ Active /\ ~mismatch => state.current \/ CurrentBehind(down, 0)
        /\ down = << >> => view.current
Renewal == ResetsRenew /\ BecomesCurrent

Types == TypeOK /\ MappingsAgree /\ NothingOpen /\ AcksAreCounted /\ Known
Channel == Batches /\ Requests /\ Watched /\ Complete
Client == Receiving /\ MismatchIsNext /\ CurrentAwaitsAck /\ TokensFit
IInv == Types /\ Channel /\ Client /\ CurrentMeansMatching

-----------------------------------------------------------------------------
(* Sequences.                                                              *)

LEMMA SeqFacts ==
    ASSUME NEW X, NEW s \in Seq(X)
    PROVE  /\ Len(s) \in Nat /\ DOMAIN s = 1 .. Len(s)
           /\ \A i \in DOMAIN s : s[i] \in X
           /\ s = << >> <=> Len(s) = 0
BY LenProperties, ElementOfSeq, EmptySeq

\* st is s followed by t.
Joined(s, t, st) ==
    /\ Len(st) = Len(s) + Len(t) /\ DOMAIN st = 1 .. Len(s) + Len(t)
    /\ \A i \in DOMAIN s : i \in DOMAIN st /\ st[i] = s[i]
    /\ \A i \in DOMAIN t : Len(s) + i \in DOMAIN st /\ st[Len(s) + i] = t[i]
    /\ \A i \in DOMAIN st : i \in DOMAIN s \/ (i - Len(s) \in DOMAIN t /\ st[i] = t[i - Len(s)])

LEMMA ConcatFacts ==
    ASSUME NEW X, NEW s \in Seq(X), NEW t \in Seq(X)
    PROVE  s \o t \in Seq(X) /\ Joined(s, t, s \o t)
<1> DEFINE st == s \o t
<1>1. /\ st \in Seq(X) /\ Len(st) = Len(s) + Len(t)
      /\ \A i \in 1 .. Len(s) + Len(t) : st[i] = IF i <= Len(s) THEN s[i] ELSE t[i - Len(s)]
  BY ConcatProperties
<1>2. Len(s) \in Nat /\ DOMAIN s = 1 .. Len(s) /\ Len(t) \in Nat /\ DOMAIN t = 1 .. Len(t)
  BY SeqFacts
<1>3. DOMAIN st = 1 .. Len(s) + Len(t)
  BY <1>1, SeqFacts
<1> HIDE DEF st
<1>4. \A i \in 1 .. Len(s) : i \in 1 .. Len(s) + Len(t) /\ st[i] = s[i]
  BY <1>1, <1>2
<1>5. \A i \in 1 .. Len(t) : Len(s) + i \in 1 .. Len(s) + Len(t) /\ st[Len(s) + i] = t[i]
  <2> SUFFICES ASSUME NEW i \in 1 .. Len(t)
               PROVE  Len(s) + i \in 1 .. Len(s) + Len(t) /\ st[Len(s) + i] = t[i]
    OBVIOUS
  <2>1. Len(s) + i \in 1 .. Len(s) + Len(t) /\ ~(Len(s) + i <= Len(s)) /\ (Len(s) + i) - Len(s) = i
    BY <1>2
  <2> QED BY <1>1, <2>1
<1>6. \A i \in 1 .. Len(s) + Len(t) :
        i \in 1 .. Len(s) \/ (i - Len(s) \in 1 .. Len(t) /\ st[i] = t[i - Len(s)])
  BY <1>1, <1>2
<1> QED BY <1>1, <1>2, <1>3, <1>4, <1>5, <1>6 DEF st, Joined

LEMMA TailFacts ==
    ASSUME NEW X, NEW s \in Seq(X), s # << >>
    PROVE  /\ Tail(s) \in Seq(X) /\ Len(Tail(s)) = Len(s) - 1 /\ Len(s) >= 1
           /\ 1 \in DOMAIN s /\ Head(s) = s[1] /\ s[1] \in X
           /\ \A i \in DOMAIN Tail(s) : i + 1 \in DOMAIN s /\ Tail(s)[i] = s[i + 1]
           /\ \A i \in DOMAIN s : i = 1 \/ (i - 1 \in DOMAIN Tail(s) /\ Tail(s)[i - 1] = s[i])
<1> DEFINE t == Tail(s)
<1>1. /\ t \in Seq(X) /\ Len(t) = Len(s) - 1 /\ Head(s) \in X
      /\ \A i \in 1 .. Len(t) : t[i] = s[i + 1]
  BY HeadTailProperties
<1>2. Len(s) \in Nat /\ Len(s) # 0 /\ DOMAIN s = 1 .. Len(s) /\ Head(s) = s[1]
  BY SeqFacts
<1>3. DOMAIN t = 1 .. Len(t)
  BY <1>1, SeqFacts
<1> HIDE DEF t
<1>4. \A i \in 1 .. Len(s) : i = 1 \/ (i - 1 \in 1 .. Len(t) /\ (i - 1) + 1 = i)
  BY <1>1, <1>2
<1>5. \A i \in 1 .. Len(s) : i = 1 \/ t[i - 1] = s[i]
  BY <1>1, <1>4
<1>6. \A i \in 1 .. Len(t) : i + 1 \in 1 .. Len(s)
  BY <1>1, <1>2
<1>7. 1 \in 1 .. Len(s) /\ Len(s) >= 1
  BY <1>2
<1> QED BY <1>1, <1>2, <1>3, <1>4, <1>5, <1>6, <1>7 DEF t

LEMMA LastFacts ==
    ASSUME NEW X, NEW s \in Seq(X), s # << >>
    PROVE  IF Tail(s) = << >> THEN Len(s) = 1 ELSE Tail(s)[Len(Tail(s))] = s[Len(s)]
<1>1. /\ Tail(s) \in Seq(X) /\ Len(Tail(s)) = Len(s) - 1 /\ Len(s) >= 1 /\ Len(s) \in Nat
      /\ \A i \in DOMAIN Tail(s) : Tail(s)[i] = s[i + 1]
  BY TailFacts, SeqFacts
<1>2. Tail(s) = << >> <=> Len(s) - 1 = 0
  BY <1>1, SeqFacts
<1>3. DOMAIN Tail(s) = 1 .. Len(s) - 1
  BY <1>1, SeqFacts
<1>4. \A k \in Nat : k >= 1 /\ k - 1 # 0 => k - 1 \in 1 .. k - 1 /\ (k - 1) + 1 = k
  OBVIOUS
<1>5. Len(s) - 1 # 0 => Tail(s)[Len(s) - 1] = s[Len(s)]
  BY <1>1, <1>3, <1>4
<1> QED BY <1>1, <1>2, <1>5

LEMMA AppendFacts ==
    ASSUME NEW X, NEW s \in Seq(X), NEW e \in X
    PROVE  LET t == Append(s, e) IN
           /\ t \in Seq(X) /\ Len(t) = Len(s) + 1 /\ t # << >> /\ DOMAIN t = 1 .. Len(s) + 1
           /\ \A i \in DOMAIN s : i \in DOMAIN t /\ t[i] = s[i]
           /\ t[Len(s) + 1] = e /\ t[Len(t)] = e
BY AppendProperties, SeqFacts

\* What an ack on the stream counts.
LEMMA AcksEmpty == Acks(<< >>) = 0
<1>1. {i \in DOMAIN << >> : IsAck(<< >>[i])} = {}
  OBVIOUS
<1> QED BY <1>1, FS_EmptySet DEF Acks

LEMMA AcksFinite ==
    ASSUME NEW q \in Seq(Message)
    PROVE  /\ IsFiniteSet({i \in DOMAIN q : IsAck(q[i])}) /\ Acks(q) \in Nat
           /\ Acks(q) = 0 <=> \A i \in DOMAIN q : ~IsAck(q[i])
<1> DEFINE S == {i \in DOMAIN q : IsAck(q[i])}
<1>0. 1 \in Int /\ Len(q) \in Int /\ DOMAIN q = 1 .. Len(q)
  BY SeqFacts
<1>1. IsFiniteSet(1 .. Len(q)) /\ S \subseteq 1 .. Len(q)
  BY <1>0, FS_Interval
<1>2. IsFiniteSet(S)
  BY <1>1, FS_Subset
<1>3. S = {} <=> \A i \in DOMAIN q : ~IsAck(q[i])
  OBVIOUS
<1> QED BY <1>2, <1>3, FS_CardinalityType, FS_EmptySet DEF Acks

LEMMA AcksTail ==
    ASSUME NEW q \in Seq(Message), q # << >>
    PROVE  Acks(Tail(q)) = IF IsAck(q[1]) THEN Acks(q) - 1 ELSE Acks(q)
<1> DEFINE t == Tail(q)
           S == {i \in DOMAIN q : IsAck(q[i])}
           T == {i \in DOMAIN t : IsAck(t[i])}
           f == [i \in T |-> i + 1]
<1>1. /\ t \in Seq(Message) /\ Len(t) = Len(q) - 1 /\ Len(q) >= 1 /\ Len(q) \in Nat
      /\ DOMAIN q = 1 .. Len(q) /\ DOMAIN t = 1 .. Len(t)
      /\ \A i \in DOMAIN t : i + 1 \in DOMAIN q /\ t[i] = q[i + 1]
      /\ \A i \in DOMAIN q : i = 1 \/ (i - 1 \in DOMAIN t /\ t[i - 1] = q[i])
  BY TailFacts, SeqFacts
<1>2. IsFiniteSet(S) /\ IsFiniteSet(T)
  BY <1>1, AcksFinite
<1> HIDE DEF t
<1>3. f \in Bijection(T, S \ {1})
  <2>1. f \in [T -> S \ {1}]
    BY <1>1
  <2>2. \A i, j \in T : f[i] = f[j] => i = j
    BY <1>1
  <2>3. \A j \in S \ {1} : \E i \in T : f[i] = j
    <3> TAKE j \in S \ {1}
    <3>1. j - 1 \in T
      BY <1>1
    <3>2. f[j - 1] = j
      BY <1>1, <3>1
    <3> QED BY <3>1, <3>2
  <2> QED BY <2>1, <2>2, <2>3 DEF Bijection, Injection, Surjection, IsInjective
<1>4. Cardinality(S \ {1}) = Cardinality(T)
  BY <1>2, <1>3, FS_Bijection DEF ExistsBijection
<1>5. Cardinality(S \ {1}) = IF 1 \in S THEN Cardinality(S) - 1 ELSE Cardinality(S)
  BY <1>2, FS_RemoveElement
<1>6. 1 \in S <=> IsAck(q[1])
  BY <1>1
<1> QED BY <1>4, <1>5, <1>6 DEF Acks, t

\* At most the first message of m is an ack.
LEMMA AcksConcat ==
    ASSUME NEW q \in Seq(Message), NEW m \in Seq(Message), Quiet(m, 1)
    PROVE  Acks(q \o m) = IF m # << >> /\ IsAck(m[1]) THEN Acks(q) + 1 ELSE Acks(q)
<1> DEFINE t == q \o m
           S == {i \in DOMAIN q : IsAck(q[i])}
           T == {i \in DOMAIN t : IsAck(t[i])}
           n == Len(q) + 1
<1>1. /\ Len(q) \in Nat /\ DOMAIN q = 1 .. Len(q)
      /\ Len(m) \in Nat /\ DOMAIN m = 1 .. Len(m) /\ (m = << >> <=> Len(m) = 0)
      /\ DOMAIN t = 1 .. Len(q) + Len(m)
      /\ \A i \in DOMAIN q : i \in DOMAIN t /\ t[i] = q[i]
      /\ \A i \in DOMAIN m : Len(q) + i \in DOMAIN t /\ t[Len(q) + i] = m[i]
      /\ \A i \in DOMAIN t : i \in DOMAIN q \/ (i - Len(q) \in DOMAIN m /\ t[i] = m[i - Len(q)])
  BY ConcatFacts, SeqFacts DEF Joined
<1>2. IsFiniteSet(S)
  BY AcksFinite
<1> HIDE DEF t
<1>3. CASE m # << >> /\ IsAck(m[1])
  <2>1. t[n] = m[1] /\ n \in DOMAIN t /\ n \notin DOMAIN q
    BY <1>1, <1>3
  <2>2. \A i \in DOMAIN t : i \notin DOMAIN q /\ i # n => ~IsAck(t[i])
    BY <1>1 DEF Quiet
  <2>3. T = S \union {n}
    BY <1>1, <1>3, <2>1, <2>2
  <2> QED BY <1>2, <1>3, <2>1, <2>3, FS_AddElement DEF Acks, t
<1>4. CASE ~(m # << >> /\ IsAck(m[1]))
  <2>1. \A i \in DOMAIN t : i \notin DOMAIN q => ~IsAck(t[i])
    BY <1>1, <1>4 DEF Quiet
  <2>2. T = S
    BY <1>1, <2>1
  <2> QED BY <1>4, <2>2 DEF Acks, t
<1> QED BY <1>3, <1>4

-----------------------------------------------------------------------------
(* Messages and requests.                                                  *)

LEMMA MessageFacts ==
    /\ \A m \in Message : IsSnapshot(m) => m.version \in Versions
    /\ \A m \in Message : IsFilter(m) => m.count \in Nat
    /\ \A m \in Message : IsDocument(m) => m.doc \in Docs /\ m.matches \in BOOLEAN
    /\ \A m \in Message : m.type \in {"added", "removed", "current", "reset", "document",
                                      "filter", "snapshot"}
BY DEF Message, IsSnapshot, IsFilter, IsDocument

LEMMA Constructed ==
    /\ Added \in Message /\ Added.type = "added"
    /\ Removed \in Message /\ Removed.type = "removed"
    /\ Current \in Message /\ Current.type = "current"
    /\ Restart \in Message /\ Restart.type = "reset"
    /\ \A d \in Docs, b \in BOOLEAN :
            LET m == Document(d, b) IN
                m \in Message /\ m.type = "document" /\ m.doc = d /\ m.matches = b
    /\ \A n \in Nat : LET m == Filter(n) IN m \in Message /\ m.type = "filter" /\ m.count = n
    /\ \A v \in Versions :
            LET m == Snapshot(v) IN m \in Message /\ m.type = "snapshot" /\ m.version = v
BY DEF Message, Added, Removed, Current, Restart, Document, Filter, Snapshot

LEMMA RequestFacts ==
    /\ Unwatch \in Request
    /\ \A t \in Tokens : LET r == Watch(t) IN r \in Request /\ r # Unwatch /\ r.token = t
    /\ \A r \in Request : r # Unwatch => r.token \in Tokens
<1>1. \A t \in Tokens : Watch(t) # Unwatch
  <2> SUFFICES ASSUME NEW t \in Tokens, Watch(t) = Unwatch PROVE FALSE
    OBVIOUS
  <2>1. DOMAIN Watch(t) = {"token"} /\ DOMAIN Unwatch = {"unwatch"}
    BY DEF Watch, Unwatch
  <2> QED BY <2>1
<1>2. \A r \in [unwatch : {TRUE}] : r = Unwatch
  <2> TAKE r \in [unwatch : {TRUE}]
  <2>1. r = [unwatch |-> r.unwatch] /\ r.unwatch = TRUE
    OBVIOUS
  <2> QED BY <2>1 DEF Unwatch
<1> QED BY <1>1, <1>2 DEF Request, Watch, Unwatch

-----------------------------------------------------------------------------
(* What the server sends at once: the documents of a version and the       *)
(* snapshot, for who has the keys had; after an ack, a reset or neither.   *)

Answer(m, had, acked) ==
    /\ m \in Seq(Message) /\ Len(m) >= 1
    /\ IsSnapshot(m[Len(m)]) /\ m[Len(m)].version = Now
    /\ \A i \in DOMAIN m : IsSnapshot(m[i]) => i = Len(m)
    /\ \A i \in DOMAIN m : IsFilter(m[i]) =>
            i + 1 = Len(m) /\ m[i].count = Cardinality(history[Now])
    /\ \A i \in DOMAIN m : IsDocument(m[i]) => (m[i].matches <=> m[i].doc \in history[Now])
    /\ Brings(m, 0, Len(m), history[Now], had)
    /\ Counted(m, Len(m)) \/ Drops(m, 0, Len(m), history[Now], had)
    /\ AlwaysCounts => Counted(m, Len(m))
    /\ \A i \in DOMAIN m : IsReset(m[i]) => Brings(m, i, Len(m), history[Now], {})
    /\ \A i \in DOMAIN m : IsAck(m[i]) \/ IsReset(m[i]) => CurrentBehind(m, i)
    /\ Quiet(m, 1)
    /\ m[1].type # "removed" /\ (IsAck(m[1]) <=> acked)

\* A finite set's elements are put in a sequence.
LEMMA SequencedFacts ==
    ASSUME NEW X, NEW S \in SUBSET X, IsFiniteSet(S)
    PROVE  LET f == Sequenced(S) IN
           f \in Seq(X) /\ S = {f[i] : i \in DOMAIN f}
<1> DEFINE n == Cardinality(S)
           Good(f) == \A x \in S : \E i \in DOMAIN f : f[i] = x
<1>1. n \in Nat /\ ExistsBijection(1 .. n, S)
  BY FS_CardinalityType
<1>2. \E f \in [1 .. n -> S] : Good(f)
  <2>1. PICK f \in Bijection(1 .. n, S) : TRUE
    BY <1>1 DEF ExistsBijection
  <2>2. f \in [1 .. n -> S] /\ \A x \in S : \E i \in 1 .. n : f[i] = x
    BY <2>1 DEF Bijection, Surjection
  <2> QED BY <2>2
<1>3. Sequenced(S) \in [1 .. n -> S] /\ Good(Sequenced(S))
  BY <1>2 DEF Sequenced
<1> DEFINE f == Sequenced(S)
<1>4. f \in [1 .. n -> S] /\ \A x \in S : \E i \in 1 .. n : f[i] = x
  BY <1>3
<1> HIDE DEF f
<1>5. f \in Seq(X)
  BY <1>1, <1>4, SeqDef
<1>6. S = {f[i] : i \in DOMAIN f}
  BY <1>4
<1> QED BY <1>5, <1>6 DEF f

\* m is made of a, b, c, f and x; a, c and f are at most one message.
Made(m, a, b, c, f, x) ==
    LET L == Len(m) IN
    /\ L >= 1 /\ L \in Nat /\ DOMAIN m = 1 .. L /\ m[L] = x
    /\ \A i \in DOMAIN m : \/ i = L
                           \/ i = 1 /\ a # << >> /\ m[i] = a[1]
                           \/ (a = << >> \/ i > 1) /\ \E j \in DOMAIN b : m[i] = b[j]
                           \/ (a = << >> \/ i > 1) /\ c # << >> /\ m[i] = c[1]
                           \/ (a = << >> \/ i > 1) /\ i + 1 = L /\ f # << >> /\ m[i] = f[1]
    /\ \A j \in DOMAIN b : \E i \in DOMAIN m : i < L /\ m[i] = b[j]
    /\ a # << >> => L > 1 /\ m[1] = a[1]
    /\ c # << >> => \E i \in DOMAIN m : m[i] = c[1]
    /\ f # << >> => L > 1 /\ m[L - 1] = f[1]

LEMMA Assembled ==
    ASSUME NEW X, NEW x \in X, NEW a \in Seq(X), NEW b \in Seq(X), NEW c \in Seq(X), NEW f \in Seq(X),
           Len(a) <= 1, Len(c) <= 1, Len(f) <= 1
    PROVE  /\ a \o b \o c \o f \o <<x>> \in Seq(X)
           /\ Made(a \o b \o c \o f \o <<x>>, a, b, c, f, x)
<1> DEFINE p == a \o b
           q == p \o c
           r == q \o f
           m == r \o <<x>>
           Bef(i) == a = << >> \/ i > 1
<1>1. /\ Len(a) \in {0, 1} /\ (a = << >> <=> Len(a) = 0) /\ DOMAIN a = 1 .. Len(a)
      /\ Len(c) \in {0, 1} /\ (c = << >> <=> Len(c) = 0) /\ DOMAIN c = 1 .. Len(c)
      /\ Len(f) \in {0, 1} /\ (f = << >> <=> Len(f) = 0) /\ DOMAIN f = 1 .. Len(f)
      /\ Len(b) \in Nat /\ DOMAIN b = 1 .. Len(b)
      /\ <<x>> \in Seq(X) /\ Len(<<x>>) = 1 /\ DOMAIN <<x>> = 1 .. 1 /\ <<x>>[1] = x
  <2>1. \A s \in Seq(X) : Len(s) <= 1 =>
            Len(s) \in {0, 1} /\ (s = << >> <=> Len(s) = 0) /\ DOMAIN s = 1 .. Len(s)
    <3> TAKE s \in Seq(X)
    <3>1. Len(s) \in Nat /\ DOMAIN s = 1 .. Len(s) /\ (s = << >> <=> Len(s) = 0)
      BY SeqFacts
    <3> QED BY <3>1
  <2>2. Len(b) \in Nat /\ DOMAIN b = 1 .. Len(b)
    BY SeqFacts
  <2>3. <<x>> \in Seq(X) /\ Len(<<x>>) = 1 /\ DOMAIN <<x>> = 1 .. 1 /\ <<x>>[1] = x
    OBVIOUS
  <2> QED BY <2>1, <2>2, <2>3
<1>2. p \in Seq(X) /\ Joined(a, b, p)
  BY ConcatFacts
<1> HIDE DEF p
<1>3. q \in Seq(X) /\ Joined(p, c, q)
  BY <1>2, ConcatFacts
<1> HIDE DEF q
<1>4. r \in Seq(X) /\ Joined(q, f, r)
  BY <1>3, ConcatFacts
<1> HIDE DEF r
<1>5. m \in Seq(X) /\ Joined(r, <<x>>, m)
  BY <1>1, <1>4, ConcatFacts
<1> HIDE DEF m
<1>6. \A i \in DOMAIN p : \/ i = 1 /\ a # << >> /\ p[i] = a[1]
                          \/ Bef(i) /\ \E j \in DOMAIN b : p[i] = b[j]
  <2> TAKE i \in DOMAIN p
  <2>1. CASE i \in DOMAIN a
    BY <1>1, <1>2, <2>1 DEF Joined
  <2>2. CASE i \notin DOMAIN a
    BY <1>1, <1>2, <2>2 DEF Joined
  <2> QED BY <2>1, <2>2
<1>7. \A i \in DOMAIN q : \/ i = 1 /\ a # << >> /\ q[i] = a[1]
                          \/ Bef(i) /\ \E j \in DOMAIN b : q[i] = b[j]
                          \/ Bef(i) /\ c # << >> /\ q[i] = c[1]
  <2> TAKE i \in DOMAIN q
  <2>1. CASE i \in DOMAIN p
    BY <1>3, <1>6, <2>1 DEF Joined
  <2>2. CASE i \notin DOMAIN p
    <3>1. i - Len(p) = 1 /\ c # << >> /\ q[i] = c[1]
      BY <1>1, <1>2, <1>3, <2>2 DEF Joined
    <3>2. Bef(i)
      BY <1>1, <1>2, <1>3, <3>1 DEF Joined
    <3> QED BY <3>1, <3>2
  <2> QED BY <2>1, <2>2
<1>8. \A i \in DOMAIN r \ DOMAIN q : Bef(i) /\ i = Len(r) /\ f # << >> /\ r[i] = f[1]
  <2> TAKE i \in DOMAIN r \ DOMAIN q
  <2>1. i - Len(q) = 1 /\ f # << >> /\ r[i] = f[1]
    BY <1>1, <1>2, <1>3, <1>4 DEF Joined
  <2>2. i = Len(r)
    BY <1>1, <1>2, <1>3, <1>4, <2>1 DEF Joined
  <2>3. Bef(i)
    BY <1>1, <1>2, <1>3, <1>4, <2>1 DEF Joined
  <2> QED BY <2>1, <2>2, <2>3
<1>9. m[Len(m)] = x
  <2>1. 1 \in DOMAIN <<x>>
    BY <1>1
  <2> QED BY <1>1, <1>5, <2>1 DEF Joined
<1> DEFINE L == Len(m)
<1>10. \A i \in DOMAIN m : \/ i = L
                           \/ i = 1 /\ a # << >> /\ m[i] = a[1]
                           \/ Bef(i) /\ \E j \in DOMAIN b : m[i] = b[j]
                           \/ Bef(i) /\ c # << >> /\ m[i] = c[1]
                           \/ Bef(i) /\ i + 1 = L /\ f # << >> /\ m[i] = f[1]
  <2> TAKE i \in DOMAIN m
  <2>1. CASE i \in DOMAIN q
    <3>1. i \in DOMAIN r /\ m[i] = q[i]
      BY <1>4, <1>5, <2>1 DEF Joined
    <3> QED BY <1>7, <2>1, <3>1
  <2>2. CASE i \in DOMAIN r \ DOMAIN q
    BY <1>5, <1>8, <2>2 DEF Joined
  <2>3. CASE i \notin DOMAIN r
    <3>1. Len(r) \in Nat /\ DOMAIN r = 1 .. Len(r)
      BY <1>4, SeqFacts
    <3>2. Len(m) = Len(r) + 1 /\ DOMAIN m = 1 .. Len(r) + 1
      BY <1>1, <1>5 DEF Joined
    <3> HIDE DEF Bef
    <3> QED BY <2>3, <3>1, <3>2
  <2> QED BY <2>1, <2>2, <2>3
<1>11. \A j \in DOMAIN b : \E i \in DOMAIN m : i < L /\ m[i] = b[j]
  <2> TAKE j \in DOMAIN b
  <2>1. Len(a) + j \in DOMAIN p /\ p[Len(a) + j] = b[j]
    BY <1>2 DEF Joined
  <2> DEFINE i == Len(a) + j
  <2> HIDE DEF i
  <2>2. i \in DOMAIN q /\ q[i] = b[j]
    BY <1>3, <2>1 DEF i, Joined
  <2>3. i \in DOMAIN r /\ r[i] = b[j]
    BY <1>4, <2>2 DEF Joined
  <2>4. i \in DOMAIN m /\ m[i] = b[j]
    BY <1>5, <2>3 DEF Joined
  <2>5. Len(r) \in Nat /\ DOMAIN r = 1 .. Len(r) /\ L = Len(r) + 1
    <3>1. Len(<<x>>) = 1 /\ Len(m) = Len(r) + Len(<<x>>)
      BY <1>1, <1>5 DEF Joined
    <3> QED BY <1>4, <3>1, SeqFacts
  <2>6. i < L
    BY <2>3, <2>5
  <2> QED BY <2>4, <2>6
<1>12. a # << >> => L > 1 /\ m[1] = a[1]
  <2> SUFFICES ASSUME a # << >> PROVE L > 1 /\ m[1] = a[1]
    OBVIOUS
  <2>1. 1 \in DOMAIN p /\ p[1] = a[1]
    BY <1>1, <1>2 DEF Joined
  <2>2. 1 \in DOMAIN r /\ r[1] = a[1]
    BY <1>3, <1>4, <2>1 DEF Joined
  <2>3. 1 \in DOMAIN m /\ m[1] = a[1]
    BY <1>5, <2>2 DEF Joined
  <2>4. Len(r) \in Nat /\ DOMAIN r = 1 .. Len(r) /\ Len(m) = Len(r) + 1
    BY <1>1, <1>4, <1>5, SeqFacts DEF Joined
  <2> QED BY <2>2, <2>3, <2>4
<1>13. f # << >> => L > 1 /\ m[L - 1] = f[1]
  <2> SUFFICES ASSUME f # << >> PROVE L > 1 /\ m[L - 1] = f[1]
    OBVIOUS
  <2>1. Len(q) + 1 \in DOMAIN r /\ r[Len(q) + 1] = f[1]
    BY <1>1, <1>4 DEF Joined
  <2>2. Len(q) \in Nat /\ L = Len(q) + 2
    <3>1. Len(q) \in Nat /\ Len(f) = 1
      BY <1>1, <1>3, SeqFacts
    <3>2. Len(r) = Len(q) + Len(f) /\ Len(m) = Len(r) + 1
      BY <1>1, <1>4, <1>5 DEF Joined
    <3> QED BY <3>1, <3>2
  <2>3. Len(q) + 1 \in DOMAIN m /\ m[Len(q) + 1] = f[1]
    BY <1>5, <2>1 DEF Joined
  <2>4. L > 1 /\ L - 1 = Len(q) + 1
    <3> HIDE DEF L
    <3> QED BY <2>2
  <2> QED BY <2>3, <2>4
<1>14. L >= 1 /\ L \in Nat
  <2>1. Len(r) \in Nat /\ Len(m) = Len(r) + 1
    BY <1>1, <1>4, <1>5, SeqFacts DEF Joined
  <2> QED BY <2>1
<1>15. m \in Seq(X) /\ DOMAIN m = 1 .. L
  BY <1>5, SeqFacts
<1>16. c # << >> => \E i \in DOMAIN m : m[i] = c[1]
  <2> SUFFICES ASSUME c # << >> PROVE \E i \in DOMAIN m : m[i] = c[1]
    OBVIOUS
  <2> DEFINE i == Len(p) + 1
  <2>1. i \in DOMAIN q /\ q[i] = c[1]
    BY <1>1, <1>3 DEF Joined
  <2> HIDE DEF i
  <2>2. i \in DOMAIN r /\ r[i] = c[1]
    BY <1>4, <2>1 DEF Joined
  <2> QED BY <1>5, <2>2 DEF Joined
<1> QED BY <1>9, <1>10, <1>11, <1>12, <1>13, <1>14, <1>15, <1>16 DEF m, r, q, p, Made

LEMMA SendAnswers ==
    ASSUME TypeOK, NEW first \in {<< >>, <<Added>>, <<Restart>>}, NEW had \in SUBSET Docs,
           NEW middle \in {<< >>, <<Current>>}, Send(first, had, middle),
           first = <<Restart>> => had = {}, first # << >> => middle # << >>
    PROVE  \E m : /\ down' = down \o m /\ Answer(m, had, first = <<Added>>)
                  /\ first # << >> => m[1] = first[1]
<1> DEFINE now == history[Now]
           e == <<Snapshot(Now)>>
<1>1. /\ Now \in Versions /\ now \in SUBSET Docs /\ down \in Seq(Message)
      /\ IsFiniteSet(now) /\ Cardinality(now) \in Nat
  <2>1. Now \in Versions /\ Now \in DOMAIN history
    BY SeqFacts DEF TypeOK, Now, Versions
  <2>2. now \in SUBSET Docs
    BY <2>1, SeqFacts DEF TypeOK
  <2> QED BY <2>1, <2>2, DocsFinite, FS_Subset, FS_CardinalityType DEF TypeOK
<1>2. PICK in \in SUBSET now, out \in SUBSET (had \ now), counts \in BOOLEAN :
        /\ now \ had \subseteq in
        /\ AlwaysCounts \/ out # had \ now => counts
        /\ down' = down \o
                (first \o Sequenced({Document(d, TRUE) : d \in in} \union {Document(d, FALSE) : d \in out})
                    \o middle
                    \o (IF counts THEN <<Filter(Cardinality(now))>> ELSE << >>)
                    \o e)
  BY DEF Send
<1> DEFINE S1 == {Document(d, TRUE) : d \in in}
           S2 == {Document(d, FALSE) : d \in out}
           S == S1 \union S2
           b == Sequenced(S)
           f == IF counts THEN <<Filter(Cardinality(now))>> ELSE << >>
<1>3. S \subseteq Message /\ IsFiniteSet(S)
  <2>1. in \subseteq Docs /\ out \subseteq Docs /\ IsFiniteSet(in) /\ IsFiniteSet(out)
    BY <1>1, DocsFinite, FS_Subset
  <2>2. IsFiniteSet(S1)
    <3> DEFINE g == [d \in in |-> Document(d, TRUE)]
    <3>1. g \in Surjection(in, S1)
      BY DEF Surjection
    <3> QED BY <2>1, <3>1, FS_Surjection
  <2>3. IsFiniteSet(S2)
    <3> DEFINE g == [d \in out |-> Document(d, FALSE)]
    <3>1. g \in Surjection(out, S2)
      BY DEF Surjection
    <3> QED BY <2>1, <3>1, FS_Surjection
  <2>4. IsFiniteSet(S1 \union S2)
    BY <2>2, <2>3, FS_Union
  <2>5. \A d \in Docs : Document(d, TRUE) \in Message /\ Document(d, FALSE) \in Message
    BY Constructed
  <2>6. S1 \subseteq Message /\ S2 \subseteq Message
    BY <2>1, <2>5
  <2> QED BY <2>4, <2>6
<1>4. /\ b \in Seq(Message) /\ S = {b[i] : i \in DOMAIN b}
      /\ first \in Seq(Message) /\ middle \in Seq(Message)
      /\ f \in Seq(Message) /\ e \in Seq(Message)
  <2>1. b \in Seq(Message) /\ S = {b[i] : i \in DOMAIN b}
    <3>1. S \in SUBSET Message /\ IsFiniteSet(S)
      BY <1>3
    <3>2. \A T \in SUBSET Message : IsFiniteSet(T) =>
            LET g == Sequenced(T) IN g \in Seq(Message) /\ T = {g[i] : i \in DOMAIN g}
      BY SequencedFacts
    <3> HIDE DEF S
    <3> QED BY <3>1, <3>2
  <2>2. /\ Added \in Message /\ Restart \in Message /\ Current \in Message
        /\ Snapshot(Now) \in Message /\ Filter(Cardinality(now)) \in Message
    BY <1>1, Constructed
  <2>3. \A x \in Message : <<x>> \in Seq(Message)
    OBVIOUS
  <2>4. << >> \in Seq(Message)
    OBVIOUS
  <2> QED BY <2>1, <2>2, <2>3, <2>4
<1>5. \A x \in S : /\ IsDocument(x) /\ ~IsAck(x) /\ ~IsFilter(x) /\ ~IsSnapshot(x)
                   /\ x.doc \in Docs /\ (x.matches <=> x.doc \in now)
  <2>1. \A d \in Docs : LET t == Document(d, TRUE)  n == Document(d, FALSE) IN
            /\ t.type = "document" /\ t.doc = d /\ t.matches = TRUE
            /\ n.type = "document" /\ n.doc = d /\ n.matches = FALSE
    BY Constructed
  <2>2. in \subseteq Docs /\ out \subseteq Docs /\ in \subseteq now /\ out \intersect now = {}
    BY <1>1
  <2>3. \A x \in S1 : x.type = "document" /\ x.doc \in in /\ x.matches = TRUE
    <3> TAKE x \in S1
    <3>1. PICK d \in in : x = Document(d, TRUE)
      OBVIOUS
    <3> QED BY <2>1, <2>2, <3>1
  <2>4. \A x \in S2 : x.type = "document" /\ x.doc \in out /\ x.matches = FALSE
    <3> TAKE x \in S2
    <3>1. PICK d \in out : x = Document(d, FALSE)
      OBVIOUS
    <3> QED BY <2>1, <2>2, <3>1
  <2>5. \A x \in S : x.type = "document" /\ x.doc \in Docs /\ (x.matches <=> x.doc \in now)
    <3> HIDE DEF S1, S2
    <3> QED BY <2>2, <2>3, <2>4
  <2> HIDE DEF S
  <2> QED BY <2>5 DEF IsDocument, IsAck, IsFilter, IsSnapshot
<1>6. \A d \in now \ had : \E x \in S : Comes(x, d)
  <2> TAKE d \in now \ had
  <2>1. d \in in /\ d \in Docs
    BY <1>1, <1>2
  <2>2. Document(d, TRUE) \in S
    BY <2>1
  <2>3. Comes(Document(d, TRUE), d)
    <3>1. LET t == Document(d, TRUE) IN t.type = "document" /\ t.doc = d /\ t.matches = TRUE
      BY <2>1, Constructed
    <3> QED BY <3>1 DEF Comes, IsDocument
  <2> QED BY <2>2, <2>3
<1>7. ~counts => \A d \in had \ now : \E x \in S : IsDocument(x) /\ x.doc = d /\ ~x.matches
  <2> SUFFICES ASSUME ~counts, NEW d \in had \ now
               PROVE  \E x \in S : IsDocument(x) /\ x.doc = d /\ ~x.matches
    OBVIOUS
  <2>1. d \in out /\ d \in Docs
    BY <1>1, <1>2
  <2>2. Document(d, FALSE) \in S
    BY <2>1
  <2>3. LET t == Document(d, FALSE) IN IsDocument(t) /\ t.doc = d /\ ~t.matches
    <3>1. LET t == Document(d, FALSE) IN t.type = "document" /\ t.doc = d /\ t.matches = FALSE
      BY <2>1, Constructed
    <3> QED BY <3>1 DEF IsDocument
  <2> QED BY <2>2, <2>3
<1> DEFINE m == first \o b \o middle \o f \o e
           L == Len(m)
           acked == first = <<Added>>
<1>8. down' = down \o m
  BY <1>2
<1>9. Len(first) <= 1 /\ Len(middle) <= 1 /\ Len(f) <= 1
  <2> HIDE DEF b, S
  <2>1. Len(<< >>) <= 1 /\ \A x \in Message : Len(<<x>>) <= 1
    OBVIOUS
  <2>2. /\ Added \in Message /\ Restart \in Message /\ Current \in Message
        /\ Filter(Cardinality(now)) \in Message
    BY <1>1, Constructed
  <2> QED BY <2>1, <2>2
<1>10. /\ first # << >> => first[1] \in {Added, Restart} /\ (acked <=> first[1] = Added)
       /\ middle # << >> => middle[1] = Current
       /\ f # << >> <=> counts
       /\ f # << >> => f[1] = Filter(Cardinality(now))
       /\ \A j \in DOMAIN b : b[j] \in S
       /\ \A y \in S : \E j \in DOMAIN b : b[j] = y
  <2>1. first # << >> => first[1] \in {Added, Restart} /\ (acked <=> first[1] = Added)
    OBVIOUS
  <2>2. middle # << >> => middle[1] = Current
    OBVIOUS
  <2>3. (f # << >> <=> counts) /\ (f # << >> => f[1] = Filter(Cardinality(now)))
    OBVIOUS
  <2> HIDE DEF b, S
  <2> QED BY <1>4, <2>1, <2>2, <2>3
<1>11. Added # Restart /\ Snapshot(Now) \in Message
  BY <1>1, Constructed
<1> HIDE DEF S, b, f
<1>12. m \in Seq(Message) /\ Made(m, first, b, middle, f, Snapshot(Now))
  BY <1>4, <1>9, <1>11, Assembled DEF m
<1> HIDE DEF m
<1>13. /\ IsSnapshot(Snapshot(Now)) /\ Snapshot(Now).version = Now
       /\ ~IsFilter(Snapshot(Now)) /\ ~IsDocument(Snapshot(Now)) /\ ~IsAck(Snapshot(Now))
       /\ Snapshot(Now).type # "removed"
       /\ LET c == Filter(Cardinality(now)) IN
            /\ IsFilter(c) /\ c.count = Cardinality(now) /\ c.type # "removed"
            /\ ~IsSnapshot(c) /\ ~IsDocument(c) /\ ~IsAck(c)
       /\ \A c \in {Current, Restart, Added} :
            /\ ~IsSnapshot(c) /\ ~IsDocument(c) /\ ~IsFilter(c) /\ c.type # "removed"
            /\ IsAck(c) <=> c = Added
            /\ IsReset(c) <=> c = Restart
       /\ ~IsReset(Snapshot(Now)) /\ ~IsReset(Filter(Cardinality(now)))
  BY <1>1, Constructed DEF IsSnapshot, IsFilter, IsDocument, IsAck, IsReset
<1>14. \A i \in DOMAIN m :
            /\ m[i].type # "removed"
            /\ IsSnapshot(m[i]) => i = L
            /\ IsFilter(m[i]) => i + 1 = L /\ m[i].count = Cardinality(now)
            /\ IsDocument(m[i]) => (m[i].matches <=> m[i].doc \in now)
            /\ IsAck(m[i]) <=> i = 1 /\ acked
            /\ IsReset(m[i]) => i = 1 /\ first = <<Restart>>
  <2> TAKE i \in DOMAIN m
  <2>0. acked => first # << >> /\ L > 1
    BY <1>12 DEF Made
  <2>1. CASE i = L
    <3>1. m[i] = Snapshot(Now) /\ (acked => i # 1)
      BY <1>12, <2>0, <2>1 DEF Made
    <3> QED BY <1>13, <2>1, <3>1
  <2>2. CASE i = 1 /\ first # << >> /\ m[i] = first[1]
    BY <1>10, <1>11, <1>13, <2>2
  <2>3. CASE (first = << >> \/ i > 1) /\ \E j \in DOMAIN b : m[i] = b[j]
    <3>1. m[i] \in S
      BY <1>10, <2>3
    <3>2. m[i].type # "removed" /\ ~IsReset(m[i])
      BY <1>5, <3>1 DEF IsDocument, IsReset
    <3> QED BY <1>5, <2>0, <2>3, <3>1, <3>2
  <2>4. CASE (first = << >> \/ i > 1) /\ middle # << >> /\ m[i] = middle[1]
    <3>1. Current # Added /\ Current # Restart
      BY Constructed
    <3> QED BY <1>10, <1>13, <2>0, <2>4, <3>1
  <2>5. CASE (first = << >> \/ i > 1) /\ i + 1 = L /\ f # << >> /\ m[i] = f[1]
    BY <1>10, <1>13, <2>0, <2>5
  <2> QED BY <1>12, <2>1, <2>2, <2>3, <2>4, <2>5 DEF Made
\* A document's message has a place before the snapshot, and behind the first.
<1>15. \A x \in S : \E i \in DOMAIN m : 0 < i /\ i < L /\ m[i] = x /\ (first # << >> => 1 < i)
  <2> TAKE x \in S
  <2>1. PICK j \in DOMAIN b : b[j] = x
    BY <1>10
  <2>2. PICK i \in DOMAIN m : i < L /\ m[i] = x
    BY <1>12, <2>1 DEF Made
  <2>3. i \in Nat /\ 0 < i
    BY <1>12, <2>2 DEF Made
  <2>4. first # << >> => i # 1
    <3>1. first # << >> => m[1] \in {Added, Restart} /\ ~IsDocument(m[1])
      BY <1>10, <1>12, <1>13 DEF Made
    <3> QED BY <1>5, <2>2, <3>1
  <2>5. first # << >> => 1 < i
    BY <2>3, <2>4
  <2> QED BY <2>2, <2>3, <2>5
<1>16. Brings(m, 0, L, now, had)
  <2> SUFFICES ASSUME NEW d \in now \ had
               PROVE  \E i \in DOMAIN m : 0 < i /\ i < L /\ Comes(m[i], d)
    BY DEF Brings
  <2>1. PICK x \in S : Comes(x, d)
    BY <1>6
  <2> QED BY <1>15, <2>1
<1>17. ASSUME NEW r \in DOMAIN m, IsReset(m[r]) PROVE Brings(m, r, L, now, {})
  <2>1. r = 1 /\ first = <<Restart>> /\ had = {}
    BY <1>14, <1>17
  <2>2. first # << >>
    BY <2>1
  <2> SUFFICES ASSUME NEW d \in now \ {}
               PROVE  \E i \in DOMAIN m : 1 < i /\ i < L /\ Comes(m[i], d)
    BY <2>1 DEF Brings
  <2>3. PICK x \in S : Comes(x, d)
    BY <1>6, <2>1
  <2> QED BY <1>15, <2>2, <2>3
<1>18. 1 \in DOMAIN m
  BY <1>12 DEF Made
<1>19. Quiet(m, 1)
  BY <1>12, <1>14 DEF Quiet, Made
<1>20. counts => Counted(m, L)
  <2>1. counts => L > 1 /\ IsFilter(m[L - 1])
    BY <1>10, <1>12, <1>13 DEF Made
  <2>2. L \in Nat /\ DOMAIN m = 1 .. L
    BY <1>12 DEF Made
  <2>3. L > 1 => L - 1 \in 1 .. L
    BY <2>2
  <2> QED BY <2>1, <2>2, <2>3 DEF Counted
<1>21. ~counts => Drops(m, 0, L, now, had)
  <2> SUFFICES ASSUME ~counts, NEW d \in had \ now
               PROVE  \E i \in DOMAIN m : 0 < i /\ i < L /\ Goes(m[i], d)
    BY DEF Drops
  <2>1. PICK x \in S : IsDocument(x) /\ x.doc = d /\ ~x.matches
    BY <1>7
  <2> QED BY <1>15, <2>1 DEF Goes
<1>22. AlwaysCounts => counts
  BY <1>2
<1>23. IsSnapshot(m[L]) /\ m[L].version = Now
  BY <1>12, <1>13 DEF Made
<1>24. L >= 1
  BY <1>12 DEF Made
<1>25. ASSUME NEW i \in DOMAIN m, IsAck(m[i]) \/ IsReset(m[i]) PROVE CurrentBehind(m, i)
  <2>1. i = 1 /\ first # << >> /\ middle # << >>
    BY <1>14, <1>25
  <2>2. PICK j \in DOMAIN m : m[j] = Current
    BY <1>10, <1>12, <2>1 DEF Made
  <2>3. j # 1
    <3>1. m[1] \in {Added, Restart} /\ Current # Added /\ Current # Restart
      BY <1>10, <1>12, <2>1, Constructed DEF Made
    <3> QED BY <2>2, <3>1
  <2>4. j > 1
    BY <1>12, <2>3 DEF Made
  <2> QED BY <2>1, <2>2, <2>4, Constructed DEF CurrentBehind, IsCurrent
<1>26. Answer(m, had, acked)
  <2> HIDE DEF acked, L
  <2> QED BY <1>12, <1>14, <1>16, <1>17, <1>18, <1>19, <1>20, <1>21, <1>22, <1>23, <1>24, <1>25
          DEF Answer, L
<1>27. first # << >> => m[1] = first[1]
  BY <1>12 DEF Made
<1> QED BY <1>8, <1>26, <1>27

\* Who is told anew after a reset needs to have had nothing, or anything.
LEMMA ResetAnswers ==
    ASSUME NEW m, NEW acked, Answer(m, {}, acked), IsReset(m[1]), NEW keys
    PROVE  Answer(m, keys, acked)
<1>1. Len(m) \in Nat /\ DOMAIN m = 1 .. Len(m) /\ Len(m) >= 1
  BY SeqFacts DEF Answer
<1>2. Len(m) # 1
  BY DEF Answer, IsReset, IsSnapshot
<1>3. 1 \in DOMAIN m /\ 0 < 1 /\ 1 < Len(m)
  BY <1>1, <1>2
<1>4. Drops(m, 0, Len(m), history[Now], keys)
  BY <1>3 DEF Drops, Goes
<1>5. Brings(m, 0, Len(m), history[Now], keys)
  BY DEF Answer, Brings
<1> QED BY <1>4, <1>5 DEF Answer

-----------------------------------------------------------------------------
(* Types, counts and mappings.                                             *)

LEMMA StateFacts ==
    /\ Fresh \in TargetState /\ Fresh.outstanding = 0 /\ ~Fresh.current /\ Fresh.changes = NoChanges
    /\ \A s \in TargetState :
        /\ s.outstanding \in Nat /\ s.current \in BOOLEAN
        /\ s.changes \in [Docs -> {"none", "added", "modified", "removed"}]
        /\ LET c == Cleared(s) IN
            /\ c \in TargetState /\ c.outstanding = s.outstanding
            /\ c.current = s.current /\ c.changes = NoChanges
        /\ \A n \in {1, 2} : LET w == Awaiting(s, n) IN
            /\ w \in TargetState /\ w.outstanding = s.outstanding + n
            /\ w.current = s.current /\ w.changes = s.changes
        /\ s.outstanding >= 1 => LET t == Answered(s) IN
            /\ t \in TargetState /\ t.outstanding = s.outstanding - 1
            /\ t.current = s.current /\ t.changes = s.changes
<1>1. NoChanges \in [Docs -> {"none", "added", "modified", "removed"}]
  BY DEF NoChanges
<1>2. Fresh \in TargetState /\ Fresh.outstanding = 0 /\ ~Fresh.current /\ Fresh.changes = NoChanges
  BY <1>1 DEF Fresh, TargetState
<1>3. ASSUME NEW s \in TargetState
      PROVE  /\ s.outstanding \in Nat /\ s.current \in BOOLEAN
             /\ s.changes \in [Docs -> {"none", "added", "modified", "removed"}]
             /\ LET c == Cleared(s) IN
                  /\ c \in TargetState /\ c.outstanding = s.outstanding
                  /\ c.current = s.current /\ c.changes = NoChanges
             /\ \A n \in {1, 2} : LET w == Awaiting(s, n) IN
                  /\ w \in TargetState /\ w.outstanding = s.outstanding + n
                  /\ w.current = s.current /\ w.changes = s.changes
             /\ s.outstanding >= 1 => LET t == Answered(s) IN
                  /\ t \in TargetState /\ t.outstanding = s.outstanding - 1
                  /\ t.current = s.current /\ t.changes = s.changes
  <2>1. /\ s.outstanding \in Nat /\ s.current \in BOOLEAN
        /\ s.changes \in [Docs -> {"none", "added", "modified", "removed"}]
    BY DEF TargetState
  <2>2. LET c == Cleared(s) IN
            /\ c \in TargetState /\ c.outstanding = s.outstanding
            /\ c.current = s.current /\ c.changes = NoChanges
    BY <1>1 DEF TargetState, Cleared
  <2>3. \A n \in {1, 2} : LET w == Awaiting(s, n) IN
            /\ w \in TargetState /\ w.outstanding = s.outstanding + n
            /\ w.current = s.current /\ w.changes = s.changes
    BY DEF TargetState, Awaiting
  <2>4. s.outstanding >= 1 => LET t == Answered(s) IN
            /\ t \in TargetState /\ t.outstanding = s.outstanding - 1
            /\ t.current = s.current /\ t.changes = s.changes
    BY DEF TargetState, Answered
  <2> QED BY <2>1, <2>2, <2>3, <2>4
<1> QED BY <1>2, <1>3

LEMMA ResetFacts ==
    ASSUME TypeOK
    PROVE  /\ Reset \in TargetState /\ Reset.outstanding = 0 /\ ~Reset.current
           /\ \A d \in Docs : Reset.changes[d] = IF d \in view.synced THEN "removed" ELSE "none"
<1>1. [d \in Docs |-> Change(d, FALSE)] \in [Docs -> {"none", "added", "modified", "removed"}]
  BY DEF Change
<1> QED BY <1>1 DEF Reset, Fresh, TargetState, Change

\* The client takes a message from the stream.
LEMMA TakenFacts ==
    ASSUME TypeOK, AcksAreCounted, Known, down # << >>, down' = Tail(down), history' = history
    PROVE  /\ down' \in Seq(Message) /\ Head(down) = down[1] /\ down[1] \in Message
           /\ \A i \in DOMAIN down' : IsSnapshot(down'[i]) => down'[i].version <= Now'
           /\ IsSnapshot(down[1]) => down[1].version <= Now
           /\ IF IsAck(down[1]) THEN Acks(down') = Acks(down) - 1 /\ state.outstanding >= 1
              ELSE Acks(down') = Acks(down)
<1>1. down \in Seq(Message) /\ up \in Seq(Request)
  BY DEF TypeOK
<1>2. /\ down' \in Seq(Message) /\ Head(down) = down[1] /\ down[1] \in Message /\ 1 \in DOMAIN down
      /\ \A i \in DOMAIN down' : i + 1 \in DOMAIN down /\ down'[i] = down[i + 1]
  BY <1>1, TailFacts
<1>3. Now' = Now
  BY DEF Now
<1>4. Acks(down') = IF IsAck(down[1]) THEN Acks(down) - 1 ELSE Acks(down)
  BY <1>1, AcksTail
<1>5. Acks(down) \in Nat /\ (IsAck(down[1]) => Acks(down) # 0) /\ Len(up) \in Nat
  BY <1>1, <1>2, AcksFinite, SeqFacts
<1>6. IsAck(down[1]) => state.outstanding >= 1
  BY <1>5 DEF AcksAreCounted
<1> QED BY <1>2, <1>3, <1>4, <1>6 DEF Known

\* Types, from what an action leaves of the state.
LEMMA ArrivalTypes ==
    ASSUME Types, down # << >>, down' = Tail(down),
           UNCHANGED <<server, up, disk, listening, tokens, stream, view, bounds>>,
           state' \in TargetState, mismatch' \in BOOLEAN,
           state'.outstanding = IF IsAck(down[1]) THEN state.outstanding - 1 ELSE state.outstanding,
           Active' => /\ With(state', "added") \intersect view.synced = {}
                      /\ With(state', "modified") \union With(state', "removed") \subseteq view.synced
    PROVE  Types'
<1>1. UNCHANGED <<history, told, up, cached, savedToken, lastSnapshot, listening, localToken,
                  remoteToken, stream, view, listens, breaks>>
  BY DEF server, disk, tokens, bounds
<1>2. /\ down' \in Seq(Message)
      /\ \A i \in DOMAIN down' : IsSnapshot(down'[i]) => down'[i].version <= Now'
      /\ IF IsAck(down[1]) THEN Acks(down') = Acks(down) - 1 /\ state.outstanding >= 1
         ELSE Acks(down') = Acks(down)
  BY <1>1, TakenFacts DEF Types
<1>3. TypeOK'
  BY <1>1, <1>2 DEF Types, TypeOK
<1>4. MappingsAgree'
  BY <1>1 DEF Types, MappingsAgree
<1>5. NothingOpen'
  BY <1>1 DEF Types, NothingOpen
<1>6. AcksAreCounted'
  <2>1. Acks(down) \in Nat /\ Len(up) \in Nat
    BY AcksFinite, SeqFacts DEF Types, TypeOK
  <2> QED BY <1>1, <1>2, <2>1 DEF Types, AcksAreCounted
<1>7. Known'
  BY <1>1, <1>2 DEF Types, Known, Now
<1> QED BY <1>3, <1>4, <1>5, <1>6, <1>7 DEF Types

\* What an answer makes of the target's state.
LEMMA AckState ==
    ASSUME state \in TargetState, state.outstanding >= 1, AddedArrives \/ RemovedArrives
    PROVE  /\ state' \in TargetState /\ state'.outstanding = state.outstanding - 1
           /\ state'.outstanding = 0 => state'.changes = NoChanges
<1> DEFINE t == Answered(state)
           c == Cleared(t)
<1>1. state.outstanding \in Nat /\ t \in TargetState /\ t.outstanding = state.outstanding - 1
  BY StateFacts
<1>2. c \in TargetState /\ c.outstanding = t.outstanding /\ c.changes = NoChanges
  BY <1>1, StateFacts
<1>3. Fresh \in TargetState /\ Fresh.outstanding = 0 /\ Fresh.changes = NoChanges
  BY StateFacts
<1>4. AddedArrives => state' = IF t.outstanding = 0 THEN c ELSE t
  BY DEF AddedArrives
<1>5. RemovedArrives => state' = IF t.outstanding = 0 THEN Fresh ELSE t
  BY DEF RemovedArrives
<1> HIDE DEF t, c
<1>6. CASE t.outstanding = 0
  BY <1>1, <1>2, <1>3, <1>4, <1>5, <1>6
<1>7. CASE t.outstanding # 0
  BY <1>1, <1>4, <1>5, <1>7
<1> QED BY <1>6, <1>7

LEMMA AckTypes == Types /\ (AddedArrives \/ RemovedArrives) => Types'
<1> SUFFICES ASSUME Types, AddedArrives \/ RemovedArrives PROVE Types'
  OBVIOUS
<1>1. /\ down # << >> /\ down' = Tail(down)
      /\ UNCHANGED <<server, up, disk, listening, tokens, stream, view, bounds>>
      /\ mismatch' = mismatch
      /\ Head(down).type \in {"added", "removed"}
  BY DEF AddedArrives, RemovedArrives, Receive
<1>2. IsAck(down[1]) /\ state.outstanding >= 1
  <2>1. history' = history
    BY <1>1 DEF server
  <2>2. Head(down) = down[1] /\ (IsAck(down[1]) => state.outstanding >= 1)
    BY <1>1, <2>1, TakenFacts DEF Types
  <2> QED BY <1>1, <2>2 DEF IsAck
<1>3. /\ state' \in TargetState /\ state'.outstanding = state.outstanding - 1
      /\ state'.outstanding = 0 => state'.changes = NoChanges
  BY <1>2, AckState DEF Types, TypeOK
<1>4. mismatch' \in BOOLEAN
  BY <1>1 DEF Types, TypeOK
<1>5. Active' => \A k \in {"added", "modified", "removed"} : With(state', k) = {}
  BY <1>3 DEF Active, With, NoChanges
<1> QED BY <1>1, <1>2, <1>3, <1>4, <1>5, ArrivalTypes

LEMMA NoteTypes ==
    Types /\ (CurrentArrives \/ DocumentArrives \/ ResetArrives \/ FilterArrives) => Types'
<1> SUFFICES ASSUME Types, CurrentArrives \/ DocumentArrives \/ ResetArrives \/ FilterArrives
             PROVE  Types'
  OBVIOUS
<1>1. /\ down # << >> /\ down' = Tail(down)
      /\ UNCHANGED <<server, up, disk, listening, tokens, stream, view, bounds>>
      /\ mismatch' \in {mismatch, TRUE}
      /\ Head(down).type \in {"current", "document", "reset", "filter"}
  BY DEF CurrentArrives, DocumentArrives, ResetArrives, FilterArrives, Receive, aggregator
<1>2. Head(down) = down[1] /\ down[1] \in Message /\ ~IsAck(down[1])
  <2>1. history' = history
    BY <1>1 DEF server
  <2>2. Head(down) = down[1] /\ down[1] \in Message
    BY <1>1, <2>1, TakenFacts DEF Types
  <2> QED BY <1>1, <2>2 DEF IsAck
<1>3. state \in TargetState /\ mismatch' \in BOOLEAN /\ listening' = listening /\ view' = view
  BY <1>1 DEF Types, TypeOK
<1>4. ASSUME Active, DocumentArrives
      PROVE  LET d == down[1].doc IN
             /\ d \in Docs
             /\ state' = [state EXCEPT !.changes[d] = Change(d, down[1].matches)]
             /\ state' \in TargetState /\ state'.outstanding = state.outstanding
             /\ state'.changes = [state.changes EXCEPT ![d] = Change(d, down[1].matches)]
  <2>1. down[1].doc \in Docs
    BY <1>2, <1>4, MessageFacts DEF DocumentArrives, Receive, IsDocument
  <2>2. state' = [state EXCEPT !.changes[down[1].doc] = Change(down[1].doc, down[1].matches)]
    BY <1>2, <1>4 DEF DocumentArrives
  <2>3. Change(down[1].doc, down[1].matches) \in {"none", "added", "modified", "removed"}
    BY DEF Change
  <2> QED BY <1>3, <2>1, <2>2, <2>3 DEF TargetState
<1>5. ASSUME Active, CurrentArrives
      PROVE  /\ state' \in TargetState /\ state'.outstanding = state.outstanding
             /\ state'.changes = state.changes
  BY <1>3, <1>5 DEF CurrentArrives, TargetState
<1>6. state' \in TargetState /\ state'.outstanding = state.outstanding
  <2>1. state' = state \/ (Active /\ state' = Reset) \/ (Active /\ CurrentArrives)
            \/ (Active /\ DocumentArrives)
    BY DEF CurrentArrives, DocumentArrives, ResetArrives, FilterArrives, aggregator
  <2>2. Active => state.outstanding = 0
    BY DEF Active
  <2> QED BY <1>3, <1>4, <1>5, <2>1, <2>2, ResetFacts DEF Types
<1>7. ASSUME Active'
      PROVE  \A d \in Docs : /\ state'.changes[d] = "added" => d \notin view.synced
                             /\ state'.changes[d] \in {"modified", "removed"} => d \in view.synced
  <2>1. Active
    BY <1>3, <1>6, <1>7 DEF Active
  <2>2. \A d \in Docs : /\ state.changes[d] = "added" => d \notin view.synced
                        /\ state.changes[d] \in {"modified", "removed"} => d \in view.synced
    BY <2>1 DEF Types, MappingsAgree, With
  <2>3. CASE CurrentArrives
    BY <1>5, <2>1, <2>2, <2>3
  <2>4. CASE DocumentArrives
    <3> DEFINE e == down[1].doc
    <3>1. /\ e \in Docs /\ state'.changes = [state.changes EXCEPT ![e] = Change(e, down[1].matches)]
      BY <1>4, <2>1, <2>4
    <3>2. /\ Change(e, down[1].matches) = "added" => e \notin view.synced
          /\ Change(e, down[1].matches) \in {"modified", "removed"} => e \in view.synced
      BY DEF Change
    <3>3. state.changes \in [Docs -> {"none", "added", "modified", "removed"}]
      BY <1>3, StateFacts
    <3> HIDE DEF e
    <3> QED BY <2>2, <3>1, <3>2, <3>3
  <2>5. CASE state' = Reset
    BY <2>5, ResetFacts DEF Types
  <2>6. CASE state' = state
    BY <2>2, <2>6
  <2> QED BY <2>1, <2>3, <2>4, <2>5, <2>6 DEF ResetArrives, FilterArrives, aggregator
<1>8. Active' => /\ With(state', "added") \intersect view.synced = {}
                 /\ With(state', "modified") \union With(state', "removed") \subseteq view.synced
  BY <1>7 DEF With
<1> QED BY <1>1, <1>2, <1>3, <1>6, <1>8, ArrivalTypes

\* What a snapshot does, with the target active or not, found to fit or not.
LEMMA SnapshotFacts ==
    ASSUME Types, SnapshotArrives
    PROVE  LET v == down[1].version IN
           /\ down # << >> /\ down' = Tail(down) /\ IsSnapshot(down[1])
           /\ v \in Versions /\ v <= Now /\ lastSnapshot' = v
           /\ UNCHANGED <<server, listening, stream, bounds>>
           /\ mismatch' = FALSE
           /\ Active => /\ cached' = Changed(cached) /\ localToken' = v
                        /\ savedToken' \in {v, savedToken}
                        /\ savedToken' # v => localToken # 0 /\ state.changes = NoChanges
                        /\ view' \in View /\ view'.synced = Keys /\ view'.current = state.current
           /\ ~Active => UNCHANGED <<cached, savedToken, localToken, view>>
           /\ remoteToken' \in {0, v, remoteToken}
           /\ remoteToken' = remoteToken => ~Active \/ remoteToken = v \/ remoteToken = 0
           /\ remoteToken' = 0 \/ remoteToken' = (IF Active THEN v ELSE remoteToken)
           /\ state' \in TargetState
           /\ state'.current = state.current
           /\ state'.changes = IF Active THEN NoChanges ELSE state.changes
           /\ IF mismatch /\ listening
              THEN /\ up' = up \o <<Unwatch, Watch(0)>>
                   /\ state'.outstanding = state.outstanding + 2
              ELSE up' = up /\ state'.outstanding = state.outstanding
<1>1. /\ down # << >> /\ down' = Tail(down) /\ Head(down).type = "snapshot"
      /\ UNCHANGED <<server, listening, stream, bounds>>
      /\ mismatch' = FALSE
  BY DEF SnapshotArrives, Receive
<1>2. Head(down) = down[1] /\ down[1] \in Message /\ (IsSnapshot(down[1]) => down[1].version <= Now)
  <2>1. history' = history
    BY <1>1 DEF server
  <2> QED BY <1>1, <2>1, TakenFacts DEF Types
<1>3. IsSnapshot(down[1]) /\ down[1].version \in Versions
  BY <1>1, <1>2, MessageFacts DEF IsSnapshot
<1> DEFINE v == down[1].version
           s == IF Active THEN Cleared(state) ELSE state
<1>4. /\ lastSnapshot' = v
      /\ Active => ApplyRemoteEvent(v)
      /\ ~Active => UNCHANGED <<cached, savedToken, localToken, view>>
      /\ IF mismatch /\ listening
         THEN remoteToken' = 0 /\ up' = up \o <<Unwatch, Watch(0)>> /\ state' = Awaiting(s, 2)
         ELSE remoteToken' = (IF Active THEN v ELSE remoteToken) /\ state' = s /\ up' = up
  BY <1>2 DEF SnapshotArrives
<1>5. state \in TargetState /\ view \in View
  BY DEF Types, TypeOK
<1>6. /\ s \in TargetState /\ s.outstanding = state.outstanding /\ s.current = state.current
      /\ s.changes = IF Active THEN NoChanges ELSE state.changes
  BY <1>5, StateFacts
<1>7. /\ state' \in TargetState /\ state'.current = s.current /\ state'.changes = s.changes
      /\ state'.outstanding = IF mismatch /\ listening THEN s.outstanding + 2 ELSE s.outstanding
  <2> HIDE DEF s
  <2> QED BY <1>4, <1>6, StateFacts
<1>8. Active => /\ cached' = Changed(cached) /\ localToken' = v
                /\ savedToken' \in {v, savedToken}
                /\ savedToken' # v => localToken # 0 /\ state.changes = NoChanges
                /\ view' \in View /\ view'.synced = Keys /\ view'.current = state.current
  <2> SUFFICES ASSUME Active
               PROVE  /\ cached' = Changed(cached) /\ localToken' = v
                      /\ savedToken' \in {v, savedToken}
                      /\ savedToken' # v => localToken # 0 /\ state.changes = NoChanges
                      /\ view' \in View /\ view'.synced = Keys /\ view'.current = state.current
    OBVIOUS
  <2>1. /\ cached' = Changed(cached) /\ localToken' = v
        /\ savedToken' \in {v} \union
              (IF localToken = 0 \/ \E d \in Docs : state.changes[d] # "none" THEN {}
               ELSE {savedToken})
        /\ view' = [synced |-> Changed(view.synced), current |-> state.current]
    BY <1>4 DEF ApplyRemoteEvent
  <2>2. Changed(view.synced) \in SUBSET Docs /\ state.current \in BOOLEAN
    BY <1>5, StateFacts DEF Changed, With, View
  <2>3. (\A d \in Docs : state.changes[d] = "none") => state.changes = NoChanges
    BY <1>5, StateFacts DEF NoChanges
  <2>4. view' \in View /\ view'.synced = Keys /\ view'.current = state.current
    BY <2>1, <2>2 DEF View, Keys
  <2> QED BY <2>1, <2>3, <2>4
<1> HIDE DEF v, s
<1>9. /\ remoteToken' \in {0, v, remoteToken}
      /\ remoteToken' = remoteToken => ~Active \/ remoteToken = v \/ remoteToken = 0
      /\ remoteToken' = 0 \/ remoteToken' = (IF Active THEN v ELSE remoteToken)
  BY <1>4
<1> QED BY <1>1, <1>2, <1>3, <1>4, <1>6, <1>7, <1>8, <1>9 DEF v

\* An unwatch and a watch request are sent.
LEMMA AnewFacts ==
    ASSUME NEW q \in Seq(Request)
    PROVE  LET r == q \o <<Unwatch, Watch(0)>> IN
           /\ r \in Seq(Request) /\ Len(r) = Len(q) + 2 /\ r # << >> /\ r[Len(r)] = Watch(0)
           /\ \A i \in DOMAIN r : (i \in DOMAIN q /\ r[i] = q[i]) \/ r[i] \in {Unwatch, Watch(0)}
<1> DEFINE e == <<Unwatch, Watch(0)>>
           r == q \o e
<1>1. Unwatch \in Request /\ Watch(0) \in Request
  BY RequestFacts, BoundsAreNat DEF Tokens
<1>2. /\ e \in Seq(Request) /\ Len(e) = 2 /\ DOMAIN e = 1 .. 2 /\ e[2] = Watch(0)
      /\ \A i \in 1 .. 2 : e[i] \in {Unwatch, Watch(0)}
  BY <1>1
<1> HIDE DEF e
<1>3. r \in Seq(Request) /\ Joined(q, e, r)
  BY <1>2, ConcatFacts
<1> HIDE DEF r
<1>4. Len(q) \in Nat /\ DOMAIN q = 1 .. Len(q)
  BY SeqFacts
<1>5. Len(r) = Len(q) + 2 /\ r[Len(r)] = Watch(0) /\ r # << >>
  <2>1. Len(r) = Len(q) + 2
    BY <1>2, <1>3 DEF Joined
  <2>2. r[Len(q) + 2] = Watch(0)
    BY <1>2, <1>3 DEF Joined
  <2>3. r # << >>
    BY <1>3, <1>4, <2>1, SeqFacts
  <2> QED BY <2>1, <2>2, <2>3
<1>6. \A i \in DOMAIN r : (i \in DOMAIN q /\ r[i] = q[i]) \/ r[i] \in {Unwatch, Watch(0)}
  BY <1>2, <1>3 DEF Joined
<1> QED BY <1>3, <1>5, <1>6 DEF r, e

LEMMA SnapshotTypes == Types /\ SnapshotArrives => Types'
<1> SUFFICES ASSUME Types, SnapshotArrives PROVE Types'
  OBVIOUS
<1> DEFINE v == down[1].version
           asked == mismatch /\ listening
<1>1. /\ down # << >> /\ down' = Tail(down) /\ IsSnapshot(down[1])
      /\ v \in Versions /\ v <= Now /\ lastSnapshot' = v /\ mismatch' = FALSE
      /\ UNCHANGED <<history, told, listening, stream, listens, breaks>>
      /\ state' \in TargetState
      /\ IF asked THEN up' = up \o <<Unwatch, Watch(0)>> /\ state'.outstanding = state.outstanding + 2
         ELSE up' = up /\ state'.outstanding = state.outstanding
  BY SnapshotFacts DEF server, bounds
<1>2. /\ remoteToken' \in {0, v, remoteToken} /\ localToken' \in {v, localToken}
      /\ savedToken' \in {v, savedToken}
      /\ Active => /\ cached' = Changed(cached) /\ view' \in View /\ view'.synced = Keys
                   /\ state'.changes = NoChanges
      /\ ~Active => UNCHANGED <<cached, view>> /\ state'.changes = state.changes
  BY SnapshotFacts
<1>3. TypeOK /\ MappingsAgree /\ NothingOpen /\ AcksAreCounted /\ Known
  BY DEF Types
<1>4. /\ down' \in Seq(Message)
      /\ \A i \in DOMAIN down' : IsSnapshot(down'[i]) => down'[i].version <= Now'
      /\ Acks(down') = Acks(down)
  <2>1. ~IsAck(down[1])
    BY <1>1 DEF IsAck, IsSnapshot
  <2> QED BY <1>1, <1>3, <2>1, TakenFacts
<1>5. /\ up' \in Seq(Request) /\ Len(up') = IF asked THEN Len(up) + 2 ELSE Len(up)
      /\ asked => up' # << >>
      /\ \A i \in DOMAIN up' : (i \in DOMAIN up /\ up'[i] = up[i]) \/ up'[i] \in {Unwatch, Watch(0)}
  <2>1. up \in Seq(Request)
    BY <1>3 DEF TypeOK
  <2> QED BY <1>1, <2>1, AnewFacts
<1> HIDE DEF v, asked
<1>6. TypeOK'
  <2>1. v \in Tokens /\ 0 \in Tokens
    BY <1>1, BoundsAreNat DEF Tokens, Versions
  <2>2. cached' \subseteq Docs
    <3>1. Changed(cached) \subseteq Docs
      BY <1>3 DEF TypeOK, Changed, With
    <3> QED BY <1>2, <1>3, <3>1 DEF TypeOK
  <2>3. view' \in View
    BY <1>2, <1>3 DEF TypeOK
  <2>4. history' \in Seq(SUBSET Docs) /\ Len(history') \in Versions
    BY <1>1, <1>3 DEF TypeOK
  <2>5. mismatch' \in BOOLEAN
    BY <1>1
  <2> QED BY <1>1, <1>2, <1>3, <1>4, <1>5, <2>1, <2>2, <2>3, <2>4, <2>5 DEF TypeOK
<1>7. MappingsAgree'
  <2>1. CASE Active
    <3>1. listening /\ cached' = view'.synced
      BY <1>2, <1>3, <2>1 DEF MappingsAgree, Active, Keys
    <3>2. \A k \in {"added", "modified", "removed"} : With(state', k) = {}
      BY <1>2, <2>1 DEF With, NoChanges
    <3> QED BY <3>1, <3>2 DEF MappingsAgree
  <2>2. CASE ~Active
    <3>1. ~Active'
      <4>1. state.outstanding \in Nat
        BY <1>3, StateFacts DEF TypeOK
      <4> QED BY <1>1, <2>2, <4>1 DEF Active
    <3> QED BY <1>1, <1>2, <1>3, <2>2, <3>1 DEF MappingsAgree
  <2> QED BY <2>1, <2>2
<1>8. NothingOpen'
  <2>1. stream = "open"
    BY <1>1, <1>3 DEF NothingOpen
  <2>2. ~listening => view' = NoView
    BY <1>2, <1>3 DEF NothingOpen, Active
  <2> QED BY <1>1, <2>1, <2>2 DEF NothingOpen
<1>9. AcksAreCounted'
  <2>1. Acks(down) \in Nat /\ Len(up) \in Nat
    BY <1>3, AcksFinite, SeqFacts DEF TypeOK
  <2> QED BY <1>1, <1>3, <1>4, <1>5, <2>1 DEF AcksAreCounted
<1>10. Known'
  <2>1. Now' = Now /\ v # 0 /\ 0 <= Now
    BY <1>1, <1>3 DEF Now, Versions, TypeOK
  <2>2. Watch(0).token = 0
    BY DEF Watch
  <2>3. \A i \in DOMAIN up' : up'[i] # Unwatch => up'[i].token <= Now
    BY <1>3, <1>5, <2>1, <2>2 DEF Known
  <2> QED BY <1>1, <1>2, <1>3, <1>4, <2>1, <2>3 DEF Known
<1> QED BY <1>6, <1>7, <1>8, <1>9, <1>10 DEF Types

\* Listen, StopListening and Open send at most a request: they leave the stream's
\* messages and what is noted.
LEMMA RequestTypes == Types /\ (Listen \/ StopListening \/ Open) => Types'
<1> SUFFICES ASSUME Types, Listen \/ StopListening \/ Open PROVE Types'
  OBVIOUS
<1> USE DEF Types
<1>1. /\ UNCHANGED <<history, told, down, cached, lastSnapshot, mismatch, breaks>>
      /\ savedToken' \in {savedToken, localToken} /\ listens' \in 0 .. MaxListens
      /\ listening' \in BOOLEAN
      /\ localToken' \in {0, savedToken, localToken}
      /\ remoteToken' \in {0, savedToken, remoteToken}
      /\ view' \in {view, NoView, [synced |-> cached, current |-> FALSE]}
      /\ stream' \in {stream, "starting", "open"} /\ (stream = "open" => stream' = "open")
      /\ \/ stream' = "open" /\ state' = Awaiting(state, 1)
            /\ up' \in {Append(up, Watch(savedToken)), Append(up, Watch(remoteToken)),
                        Append(up, Unwatch)}
         \/ stream # "open" /\ UNCHANGED <<up, state>>
  <2>1. listens < MaxListens => listens + 1 \in 0 .. MaxListens
    BY BoundsAreNat DEF TypeOK
  <2>2. listens \in 0 .. MaxListens /\ listening \in BOOLEAN
    BY DEF TypeOK
  <2>3. CASE Listen
    BY <2>1, <2>2, <2>3 DEF Listen, server, disk
  <2>4. CASE StopListening
    BY <2>2, <2>4 DEF StopListening, server, bounds
  <2>5. CASE Open
    BY <2>2, <2>5 DEF Open, server, disk, tokens, bounds
  <2> QED BY <2>3, <2>4, <2>5
<1>2. \E r \in Request :
        /\ r = Unwatch \/ r.token <= Now
        /\ \/ up' = Append(up, r) /\ state' = Awaiting(state, 1) /\ stream' = "open"
           \/ stream # "open" /\ UNCHANGED <<up, state>>
  <2>1. savedToken \in Tokens /\ remoteToken \in Tokens /\ savedToken <= Now /\ remoteToken <= Now
    BY DEF TypeOK, Known
  <2> QED BY <1>1, <2>1, RequestFacts
<1>3. PICK r \in Request :
        /\ r = Unwatch \/ r.token <= Now
        /\ \/ up' = Append(up, r) /\ state' = Awaiting(state, 1) /\ stream' = "open"
           \/ stream # "open" /\ UNCHANGED <<up, state>>
  BY <1>2
<1>4. /\ up' \in Seq(Request)
      /\ \A i \in DOMAIN up' : up'[i] = r \/ (i \in DOMAIN up /\ up'[i] = up[i])
      /\ up' = up \/ Len(up') = Len(up) + 1
  <2>1. up \in Seq(Request)
    BY DEF TypeOK
  <2>2. CASE up' = Append(up, r)
    <3>1. /\ up' \in Seq(Request) /\ Len(up') = Len(up) + 1 /\ DOMAIN up' = 1 .. Len(up) + 1
          /\ \A i \in DOMAIN up : up'[i] = up[i]
          /\ up'[Len(up) + 1] = r
      BY <2>1, <2>2, AppendFacts
    <3>2. Len(up) \in Nat /\ DOMAIN up = 1 .. Len(up)
      BY <2>1, SeqFacts
    <3>3. \A i \in 1 .. Len(up) + 1 : i \in 1 .. Len(up) \/ i = Len(up) + 1
      BY <3>2
    <3>4. \A i \in 1 .. Len(up) + 1 : up'[i] = r \/ (i \in DOMAIN up /\ up'[i] = up[i])
      <4> TAKE i \in 1 .. Len(up) + 1
      <4>1. CASE i \in 1 .. Len(up)
        BY <3>1, <3>2, <4>1
      <4>2. CASE i = Len(up) + 1
        BY <3>1, <4>2
      <4> QED BY <3>3, <4>1, <4>2
    <3> QED BY <3>1, <3>4
  <2> QED BY <1>3, <2>1, <2>2
<1>5. state' \in TargetState /\ state'.changes = state.changes
  BY <1>3, StateFacts DEF TypeOK
<1>6. TypeOK'
  <2>1. 0 \in Tokens
    BY BoundsAreNat DEF Tokens
  <2>2. view' \in View
    <3>1. NoView \in View /\ [synced |-> cached, current |-> FALSE] \in View
      BY DEF TypeOK, View, NoView
    <3> QED BY <1>1, <3>1 DEF TypeOK
  <2>3. stream' \in {"stopped", "starting", "open"}
    BY <1>1 DEF TypeOK
  <2> QED BY <1>1, <1>4, <1>5, <2>1, <2>2, <2>3 DEF TypeOK
<1>7. MappingsAgree'
  <2>1. CASE Listen
    <3>1. listening' /\ view'.synced = cached'
      BY <2>1 DEF Listen, disk
    <3>2. Active' => state' = Fresh
      <4>1. CASE stream = "open"
        <5>1. state' = Awaiting(state, 1) /\ state.outstanding \in Nat
          BY <2>1, <4>1, StateFacts DEF Listen, TypeOK
        <5>2. state'.outstanding = state.outstanding + 1
          BY <5>1, StateFacts DEF TypeOK
        <5> QED BY <5>1, <5>2 DEF Active
      <4>2. CASE stream # "open"
        BY <2>1, <4>2 DEF Listen, NothingOpen
      <4> QED BY <4>1, <4>2
    <3>3. \A k \in {"added", "modified", "removed"} : With(Fresh, k) = {}
      BY StateFacts DEF With, NoChanges
    <3> QED BY <3>1, <3>2, <3>3 DEF MappingsAgree
  <2>2. CASE StopListening
    BY <2>2 DEF StopListening, MappingsAgree, Active
  <2>3. CASE Open
    <3>1. listening' = listening /\ view' = view /\ cached' = cached
      BY <2>3 DEF Open, disk
    <3>2. Active' => state' = state
      <4>1. state'.outstanding = 0 => state' = state
        <5>1. state.outstanding \in Nat
          BY StateFacts DEF TypeOK
        <5>2. state' = Awaiting(state, 1) => state'.outstanding = state.outstanding + 1
          BY StateFacts DEF TypeOK
        <5> QED BY <1>3, <5>1, <5>2
      <4> QED BY <4>1 DEF Active
    <3> QED BY <3>1, <3>2 DEF MappingsAgree, Active
  <2> QED BY <2>1, <2>2, <2>3
<1>8. NothingOpen'
  <2>1. ~listening' => view' = NoView
    BY DEF Listen, StopListening, Open, NothingOpen
  <2> QED BY <1>1, <1>3, <2>1 DEF NothingOpen
<1>9. AcksAreCounted'
  <2>1. Acks(down) \in Nat /\ Len(up) \in Nat
    BY AcksFinite, SeqFacts DEF TypeOK
  <2>2. Acks(down') = Acks(down)
    BY <1>1
  <2>3. CASE up' = Append(up, r) /\ state' = Awaiting(state, 1)
    <3>1. Len(up') = Len(up) + 1
      BY <2>3, AppendFacts DEF TypeOK
    <3>2. state'.outstanding = state.outstanding + 1
      BY <2>3, StateFacts DEF TypeOK
    <3> QED BY <2>1, <2>2, <3>1, <3>2 DEF AcksAreCounted
  <2>4. CASE UNCHANGED <<up, state>>
    BY <2>2, <2>4 DEF AcksAreCounted
  <2> QED BY <1>3, <2>3, <2>4
<1>10. Known'
  <2>1. Now' = Now /\ 0 <= Now
    BY <1>1 DEF Now, TypeOK, Versions
  <2>2. \A i \in DOMAIN up' : up'[i] # Unwatch => up'[i].token <= Now
    BY <1>3, <1>4 DEF Known
  <2>3. view'.current => view.current
    BY <1>1 DEF NoView
  <2> QED BY <1>1, <2>1, <2>2, <2>3 DEF Known
<1> QED BY <1>6, <1>7, <1>8, <1>9, <1>10

LEMMA HangupTypes == Types /\ (Break \/ Kill) => Types'
<1> SUFFICES ASSUME Types, Break \/ Kill PROVE Types'
  OBVIOUS
<1> USE DEF Types
<1>1. /\ UNCHANGED <<history, cached, savedToken, lastSnapshot, listens>>
      /\ up' = << >> /\ down' = << >> /\ told' = 0 /\ state' = Fresh /\ mismatch' = FALSE
      /\ stream' \in {"starting", "stopped"} /\ breaks < MaxBreaks /\ breaks' = breaks + 1
      /\ \/ UNCHANGED <<listening, localToken, remoteToken, view>>
         \/ listening' = FALSE /\ localToken' = 0 /\ remoteToken' = 0 /\ view' = NoView
  BY DEF Break, Kill, Hangup, disk, tokens
<1>2. TypeOK'
  <2>1. 0 \in Tokens /\ breaks' \in 0 .. MaxBreaks
    BY <1>1, BoundsAreNat DEF Tokens, TypeOK
  <2>2. view' \in View
    <3>1. NoView \in View /\ [synced |-> cached, current |-> FALSE] \in View
      BY DEF TypeOK, View, NoView
    <3> QED BY <1>1, <3>1 DEF TypeOK
  <2>3. up' \in Seq(Request) /\ down' \in Seq(Message)
    BY <1>1
  <2> QED BY <1>1, <2>1, <2>2, <2>3, StateFacts DEF TypeOK
<1>3. MappingsAgree'
  <2>1. \A k \in {"added", "modified", "removed"} : With(Fresh, k) = {}
    BY StateFacts DEF With, NoChanges
  <2> QED BY <1>1, <2>1 DEF MappingsAgree
<1>4. NothingOpen'
  BY <1>1 DEF NothingOpen
<1>5. AcksAreCounted'
  <2>1. Len(<< >>) = 0 /\ Acks(down') = 0
    BY <1>1, AcksEmpty
  <2> QED BY <1>1, <2>1, StateFacts DEF AcksAreCounted
<1>6. Known'
  <2>1. Now' = Now /\ 0 <= Now
    BY <1>1 DEF Now, TypeOK, Versions
  <2>2. DOMAIN up' = {} /\ DOMAIN down' = {}
    BY <1>1
  <2>3. view'.current => view.current
    BY <1>1 DEF NoView
  <2> QED BY <1>1, <2>1, <2>2, <2>3 DEF Known
<1> QED BY <1>2, <1>3, <1>4, <1>5, <1>6

LEMMA OfflineTypes == Types /\ Offline => Types'
<1> SUFFICES ASSUME Types, Offline PROVE Types'
  OBVIOUS
<1> USE DEF Types
<1>1. /\ UNCHANGED <<history, told, up, down, cached, savedToken, lastSnapshot, listening,
                     localToken, remoteToken, stream, state, mismatch, listens, breaks>>
      /\ view.current /\ view' = [view EXCEPT !.current = FALSE]
  BY DEF Offline, server, disk, tokens, aggregator, bounds
<1>2. view' \in View /\ view'.synced = view.synced /\ ~view'.current
  BY <1>1 DEF TypeOK, View
<1>3. TypeOK'
  BY <1>1, <1>2 DEF TypeOK
<1>4. MappingsAgree'
  BY <1>1, <1>2 DEF MappingsAgree, Active, With
<1>5. NothingOpen'
  BY <1>1 DEF NothingOpen, NoView
<1>6. AcksAreCounted'
  BY <1>1 DEF AcksAreCounted
<1>7. Known'
  BY <1>1, <1>2 DEF Known, Now
<1> QED BY <1>3, <1>4, <1>5, <1>6, <1>7

\* The server's data has one more version.
LEMMA ChangesFacts ==
    ASSUME TypeOK, ServerChanges
    PROVE  /\ history' \in Seq(SUBSET Docs) /\ Len(history') \in Versions /\ Now' = Now + 1
           /\ \A v \in 1 .. Now : history'[v] = history[v]
           /\ Now \in Nat
           /\ UNCHANGED <<told, up, down, cached, savedToken, lastSnapshot, listening, localToken,
                          remoteToken, stream, state, mismatch, view, listens, breaks>>
<1>1. /\ UNCHANGED <<told, up, down, cached, savedToken, lastSnapshot, listening, localToken,
                     remoteToken, stream, state, mismatch, view, listens, breaks>>
      /\ Now < MaxVersion /\ \E S \in SUBSET Docs : history' = Append(history, S)
  BY DEF ServerChanges, disk, tokens, aggregator, bounds
<1>2. PICK S \in SUBSET Docs : history' = Append(history, S)
  BY <1>1
<1>3. /\ history' \in Seq(SUBSET Docs) /\ Len(history') = Len(history) + 1
      /\ \A v \in DOMAIN history : history'[v] = history[v]
  BY <1>2, AppendFacts DEF TypeOK
<1>4. Len(history) \in Nat /\ DOMAIN history = 1 .. Len(history) /\ Len(history) >= 1
  BY SeqFacts DEF TypeOK, Versions
<1>5. Len(history') \in Versions
  BY <1>1, <1>3, <1>4, BoundsAreNat DEF Versions, Now
<1> QED BY <1>1, <1>3, <1>4, <1>5 DEF Now

LEMMA ChangesTypes == Types /\ ServerChanges => Types'
<1> SUFFICES ASSUME Types, ServerChanges PROVE Types'
  OBVIOUS
<1> USE DEF Types
<1>1. /\ history' \in Seq(SUBSET Docs) /\ Len(history') \in Versions /\ Now' = Now + 1 /\ Now \in Nat
      /\ UNCHANGED <<told, up, down, cached, savedToken, lastSnapshot, listening, localToken,
                     remoteToken, stream, state, mismatch, view, listens, breaks>>
  BY ChangesFacts
<1>2. TypeOK'
  BY <1>1 DEF TypeOK
<1>3. MappingsAgree' /\ NothingOpen' /\ AcksAreCounted'
  BY <1>1 DEF MappingsAgree, Active, With, NothingOpen, AcksAreCounted
<1>4. Known'
  <2>1. \A n \in Nat : n <= Now => n <= Now'
    BY <1>1
  <2>2. /\ told \in Nat /\ savedToken \in Nat /\ localToken \in Nat /\ remoteToken \in Nat
        /\ lastSnapshot \in Nat
    BY DEF TypeOK, Tokens
  <2>3. \A i \in DOMAIN up : up[i] # Unwatch => up[i].token \in Nat
    BY SeqFacts, RequestFacts DEF TypeOK, Tokens
  <2>4. \A i \in DOMAIN down : IsSnapshot(down[i]) => down[i].version \in Nat
    BY SeqFacts, MessageFacts DEF TypeOK, Versions
  <2> QED BY <1>1, <2>1, <2>2, <2>3, <2>4 DEF Known
<1> QED BY <1>2, <1>3, <1>4

\* The server sends m, and takes up a request if m begins with an ack.
LEMMA SentTypes ==
    ASSUME Types, NEW m \in Seq(Message), down' = down \o m, Quiet(m, 1), m # << >>,
           \A i \in DOMAIN m : IsSnapshot(m[i]) => m[i].version = Now,
           stream = "open", told' \in {0, Now},
           IF IsAck(m[1]) THEN up # << >> /\ up' = Tail(up) ELSE up' = up,
           UNCHANGED <<history, disk, listening, tokens, stream, aggregator, view, bounds>>
    PROVE  Types'
<1> USE DEF Types
<1>1. UNCHANGED <<history, cached, savedToken, lastSnapshot, listening, localToken,
                  remoteToken, stream, state, mismatch, view, listens, breaks>>
  BY DEF disk, tokens, aggregator, bounds
<1>2. /\ down \in Seq(Message) /\ down' \in Seq(Message) /\ Joined(down, m, down')
      /\ Acks(down') = IF IsAck(m[1]) THEN Acks(down) + 1 ELSE Acks(down)
  BY ConcatFacts, AcksConcat DEF TypeOK
<1>3. /\ up' \in Seq(Request) /\ up \in Seq(Request)
      /\ Len(up') = IF IsAck(m[1]) THEN Len(up) - 1 ELSE Len(up)
      /\ \A i \in DOMAIN up' : \E j \in DOMAIN up : up'[i] = up[j]
  <2>1. up \in Seq(Request)
    BY DEF TypeOK
  <2>2. CASE IsAck(m[1])
    <3>1. up # << >> /\ up' = Tail(up)
      BY <2>2
    <3>2. /\ up' \in Seq(Request) /\ Len(up') = Len(up) - 1
          /\ \A i \in DOMAIN up' : i + 1 \in DOMAIN up /\ up'[i] = up[i + 1]
      BY <2>1, <3>1, TailFacts
    <3> QED BY <2>1, <2>2, <3>2
  <2>3. CASE ~IsAck(m[1])
    BY <2>1, <2>3
  <2> QED BY <2>2, <2>3
<1>4. Now' = Now /\ Now \in Nat /\ Now \in Tokens
  BY <1>1, BoundsAreNat DEF Now, TypeOK, Versions, Tokens
<1>5. TypeOK'
  <2>1. told' \in Tokens
    BY <1>4, BoundsAreNat DEF Tokens
  <2> QED BY <1>1, <1>2, <1>3, <2>1 DEF TypeOK
<1>6. MappingsAgree' /\ NothingOpen'
  BY <1>1 DEF MappingsAgree, Active, With, NothingOpen
<1>7. AcksAreCounted'
  <2>1. Acks(down) \in Nat /\ Len(up) \in Nat
    BY <1>2, <1>3, AcksFinite, SeqFacts
  <2> QED BY <1>1, <1>2, <1>3, <2>1 DEF AcksAreCounted
<1>8. Known'
  <2>1. \A i \in DOMAIN down' : IsSnapshot(down'[i]) => down'[i].version <= Now
    <3> TAKE i \in DOMAIN down'
    <3>1. CASE i \in DOMAIN down
      BY <1>2, <3>1 DEF Known, Joined
    <3>2. CASE i \notin DOMAIN down
      BY <1>2, <1>4, <3>2 DEF Joined
    <3> QED BY <3>1, <3>2
  <2>2. \A i \in DOMAIN up' : up'[i] # Unwatch => up'[i].token <= Now
    BY <1>3 DEF Known
  <2>3. told' <= Now
    BY <1>4
  <2> QED BY <1>1, <1>4, <2>1, <2>2, <2>3 DEF Known
<1> QED BY <1>5, <1>6, <1>7, <1>8

\* The stream is open whenever the server has a request or watches.
LEMMA ServerSpeaks ==
    ASSUME Types, up # << >> \/ told # 0
    PROVE  stream = "open"
BY DEF Types, NothingOpen

\* The three ways the server tells documents.
LEMMA TellingFacts ==
    ASSUME Types, AnswersWatch \/ Tells \/ TellsAnew
    PROVE  \E m, had :
            /\ down' = down \o m /\ Answer(m, had, IsAck(m[1]))
            /\ stream = "open" /\ told' = Now
            /\ UNCHANGED <<history, disk, listening, tokens, stream, aggregator, view, bounds>>
            /\ \/ /\ up # << >> /\ up[1] # Unwatch /\ up' = Tail(up) /\ IsAck(m[1])
                  /\ had = IF up[1].token = 0 THEN {} ELSE history[up[1].token]
               \/ told # 0 /\ up' = up /\ ~IsAck(m[1]) /\ had = history[told]
<1> USE DEF Types
<1>1. TypeOK /\ history \in Seq(SUBSET Docs)
  BY DEF TypeOK
<1>2. \A t \in Tokens : t <= Now /\ t # 0 => history[t] \in SUBSET Docs
  <2>1. DOMAIN history = 1 .. Now /\ Now \in Nat
    BY <1>1, SeqFacts DEF Now
  <2>2. \A t \in Tokens : t <= Now /\ t # 0 => t \in DOMAIN history
    BY <2>1 DEF Tokens
  <2> QED BY <1>1, <2>2, SeqFacts
<1>3. <<Added>> # << >> /\ <<Restart>> # <<Added>> /\ <<Restart>> # << >>
  BY Constructed
<1>4. ASSUME AnswersWatch
      PROVE  \E m, had :
            /\ down' = down \o m /\ Answer(m, had, TRUE)
            /\ stream = "open" /\ told' = Now
            /\ UNCHANGED <<history, disk, listening, tokens, stream, aggregator, view, bounds>>
            /\ up # << >> /\ up[1] # Unwatch /\ up' = Tail(up) /\ IsAck(m[1])
            /\ had = IF up[1].token = 0 THEN {} ELSE history[up[1].token]
  <2>1. /\ up # << >> /\ Head(up) = up[1] /\ 1 \in DOMAIN up /\ up[1] \in Request
    BY <1>4, TailFacts DEF AnswersWatch, TypeOK
  <2> DEFINE had == IF up[1].token = 0 THEN {} ELSE history[up[1].token]
  <2>2. /\ up[1] # Unwatch /\ up' = Tail(up) /\ told' = Now
        /\ Send(<<Added>>, had, <<Current>>)
        /\ UNCHANGED <<history, disk, listening, tokens, stream, aggregator, view, bounds>>
    BY <1>4, <2>1 DEF AnswersWatch
  <2>3. had \in SUBSET Docs
    <3>1. up[1].token \in Tokens /\ up[1].token <= Now
      BY <2>1, <2>2, RequestFacts DEF Known
    <3> QED BY <1>2, <3>1
  <2> HIDE DEF had
  <2>4. PICK m : down' = down \o m /\ Answer(m, had, <<Added>> = <<Added>>)
    BY <1>1, <1>3, <2>2, <2>3, SendAnswers
  <2>5. Answer(m, had, TRUE) /\ IsAck(m[1])
    BY <2>4 DEF Answer
  <2>6. stream = "open"
    BY <2>1, ServerSpeaks
  <2> QED BY <2>1, <2>2, <2>4, <2>5, <2>6 DEF had
<1>5. ASSUME Tells \/ TellsAnew
      PROVE  \E m, had :
            /\ down' = down \o m /\ Answer(m, had, FALSE)
            /\ stream = "open" /\ told' = Now
            /\ UNCHANGED <<history, disk, listening, tokens, stream, aggregator, view, bounds>>
            /\ told # 0 /\ up' = up /\ ~IsAck(m[1]) /\ had = history[told]
  <2>1. /\ told # 0 /\ told' = Now /\ up' = up
        /\ Send(<< >>, history[told], << >>) \/ Send(<<Restart>>, {}, <<Current>>)
        /\ UNCHANGED <<history, disk, listening, tokens, stream, aggregator, view, bounds>>
    BY <1>5 DEF Tells, TellsAnew
  <2>2. history[told] \in SUBSET Docs
    BY <1>2, <2>1 DEF TypeOK, Known
  <2>3. \E m : down' = down \o m /\ Answer(m, history[told], FALSE)
    <3>1. CASE Send(<< >>, history[told], << >>)
      <4>1. \E m : down' = down \o m /\ Answer(m, history[told], << >> = <<Added>>)
        BY <1>1, <1>3, <2>2, <3>1, SendAnswers
      <4> QED BY <1>3, <4>1
    <3>2. CASE Send(<<Restart>>, {}, <<Current>>)
      <4>1. PICK m : /\ down' = down \o m /\ Answer(m, {}, <<Restart>> = <<Added>>)
                     /\ <<Restart>> # << >> => m[1] = <<Restart>>[1]
        BY <1>1, <3>2, SendAnswers
      <4>2. Answer(m, {}, FALSE) /\ IsReset(m[1])
        BY <1>3, <4>1, Constructed DEF IsReset
      <4> QED BY <4>1, <4>2, ResetAnswers
    <3> QED BY <2>1, <3>1, <3>2
  <2>4. \A m, had : Answer(m, had, FALSE) => ~IsAck(m[1])
    BY DEF Answer
  <2>5. stream = "open"
    BY <2>1, ServerSpeaks
  <2> QED BY <2>1, <2>3, <2>4, <2>5
<1>6. \A m, had, b : Answer(m, had, b) /\ b \in BOOLEAN => Answer(m, had, IsAck(m[1]))
  BY DEF Answer
<1> QED BY <1>4, <1>5, <1>6

LEMMA ServerTypes == Types /\ (AnswersWatch \/ AnswersUnwatch \/ Tells \/ TellsAnew) => Types'
<1> SUFFICES ASSUME Types, AnswersWatch \/ AnswersUnwatch \/ Tells \/ TellsAnew PROVE Types'
  OBVIOUS
<1>1. CASE AnswersWatch \/ Tells \/ TellsAnew
  <2>1. PICK m, had :
            /\ down' = down \o m /\ Answer(m, had, IsAck(m[1]))
            /\ stream = "open" /\ told' = Now
            /\ UNCHANGED <<history, disk, listening, tokens, stream, aggregator, view, bounds>>
            /\ \/ up # << >> /\ up' = Tail(up) /\ IsAck(m[1])
               \/ up' = up /\ ~IsAck(m[1])
    BY <1>1, TellingFacts
  <2>2. /\ m \in Seq(Message) /\ Quiet(m, 1) /\ m # << >>
        /\ \A i \in DOMAIN m : IsSnapshot(m[i]) => m[i].version = Now
    BY <2>1, SeqFacts DEF Answer
  <2> QED BY <2>1, <2>2, SentTypes
<1>2. CASE AnswersUnwatch
  <2> DEFINE m == <<Removed>>
  <2>1. /\ up # << >> /\ up' = Tail(up) /\ told' = 0 /\ down' = Append(down, Removed)
        /\ UNCHANGED <<history, disk, listening, tokens, stream, aggregator, view, bounds>>
    BY <1>2 DEF AnswersUnwatch
  <2>2. down' = down \o m /\ Removed \in Message
    BY <2>1, Constructed, AppendIsConcat DEF Types, TypeOK
  <2>3. m \in Seq(Message) /\ m # << >> /\ DOMAIN m = {1} /\ m[1] = Removed
    BY <2>2
  <2> HIDE DEF m
  <2>4. IsAck(m[1]) /\ Quiet(m, 1) /\ \A i \in DOMAIN m : ~IsSnapshot(m[i])
    BY <2>3, Constructed DEF IsAck, Quiet, IsSnapshot
  <2> QED BY <2>1, <2>2, <2>3, <2>4, ServerSpeaks, SentTypes
<1> QED BY <1>1, <1>2

LEMMA StillTypes == Types /\ UNCHANGED vars => Types'
<1> SUFFICES ASSUME Types, UNCHANGED vars PROVE Types'
  OBVIOUS
<1>1. UNCHANGED <<history, told, up, down, cached, savedToken, lastSnapshot, listening, localToken,
                  remoteToken, stream, state, mismatch, view, listens, breaks>>
  BY DEF vars, server, disk, tokens, aggregator, bounds
<1>2. TypeOK'
  BY <1>1 DEF Types, TypeOK
<1>3. MappingsAgree'
  BY <1>1 DEF Types, MappingsAgree, Active, With
<1>4. NothingOpen' /\ AcksAreCounted'
  BY <1>1 DEF Types, NothingOpen, AcksAreCounted
<1>5. Known'
  BY <1>1 DEF Types, Known, Now
<1> QED BY <1>2, <1>3, <1>4, <1>5 DEF Types

LEMMA TypesHold == Spec => []Types
<1>1. Init => Types
  <2> SUFFICES ASSUME Init PROVE Types
    OBVIOUS
  <2>1. PICK S \in SUBSET Docs : history = <<S>>
    BY DEF Init
  <2>2. /\ history \in Seq(SUBSET Docs) /\ Len(history) = 1 /\ Len(history) \in Versions
        /\ 0 \in Tokens
    BY <2>1, BoundsAreNat DEF Versions, Tokens
  <2>3. /\ told = 0 /\ up = << >> /\ down = << >> /\ cached = {} /\ savedToken = 0
        /\ lastSnapshot = 0 /\ listening = FALSE /\ localToken = 0 /\ remoteToken = 0
        /\ stream = "stopped" /\ state = Fresh /\ mismatch = FALSE /\ view = NoView
        /\ listens = 0 /\ breaks = 0
    BY DEF Init
  <2>4. TypeOK
    <3>1. NoView \in View /\ Fresh \in TargetState
      BY StateFacts DEF NoView, View
    <3>2. << >> \in Seq(Request) /\ << >> \in Seq(Message)
      OBVIOUS
    <3>3. 0 \in 0 .. MaxListens /\ 0 \in 0 .. MaxBreaks
      BY BoundsAreNat
    <3> QED BY <2>2, <2>3, <3>1, <3>2, <3>3 DEF TypeOK
  <2>5. MappingsAgree /\ NothingOpen
    BY <2>3 DEF MappingsAgree, Active, NothingOpen
  <2>6. AcksAreCounted
    <3>1. Len(<< >>) = 0
      OBVIOUS
    <3> QED BY <2>3, <3>1, AcksEmpty, StateFacts DEF AcksAreCounted
  <2>7. Known
    <3>1. DOMAIN << >> = {} /\ ~NoView.current
      BY DEF NoView
    <3> QED BY <2>2, <2>3, <3>1 DEF Known, Now
  <2> QED BY <2>4, <2>5, <2>6, <2>7 DEF Types
<1>2. Types /\ [Next]_vars => Types'
  BY AckTypes, NoteTypes, SnapshotTypes, RequestTypes, HangupTypes, OfflineTypes, ChangesTypes,
     ServerTypes, StillTypes DEF Next
<1> QED BY <1>1, <1>2, PTL DEF Spec

\* Whatever the server sends and wherever the client is, every variable has its
\* type; in particular no target ever waits for less than no answers.
THEOREM TypeCorrect == Spec => []TypeOK
<1>1. Types => TypeOK
  BY DEF Types
<1> QED BY <1>1, TypesHold, PTL

\* The view and LevelDB hold the same keys, and what the watch stream has
\* noted for the target fits them (WatchChangeAggregator, View).
THEOREM MappingsAreKept == Spec => []MappingsAgree
<1>1. Types => MappingsAgree
  BY DEF Types
<1> QED BY <1>1, TypesHold, PTL

-----------------------------------------------------------------------------
(* If the server counts every time: views that are current match.          *)

LEMMA KeysFacts ==
    ASSUME TypeOK
    PROVE  /\ Keys \in SUBSET Docs
           /\ state.changes = NoChanges => Keys = view.synced
<1>1. state.changes = NoChanges => \A k \in {"added", "removed"} : With(state, k) = {}
  BY DEF With, NoChanges
<1>2. view.synced \in SUBSET Docs
  BY DEF TypeOK, View
<1> QED BY <1>1, <1>2 DEF Keys, Changed, With

LEMMA ListenKeeps == IInv /\ Listen => (Channel /\ Client /\ CurrentMeansMatching)'
<1> SUFFICES ASSUME IInv, Listen PROVE (Channel /\ Client /\ CurrentMeansMatching)'
  OBVIOUS
<1>1. /\ UNCHANGED <<history, told, down, cached, savedToken, lastSnapshot, mismatch>>
      /\ listening' /\ localToken' = savedToken /\ remoteToken' = savedToken /\ ~view'.current
      /\ \/ /\ stream = "open" /\ stream' = "open" /\ up' = Append(up, Watch(savedToken))
            /\ state' = Awaiting(state, 1)
         \/ stream # "open" /\ stream' = "starting" /\ UNCHANGED <<up, state>>
  BY DEF Listen, server, disk
<1>2. TypeOK /\ NothingOpen /\ TokensFit /\ Batches /\ MismatchIsNext
  BY DEF IInv, Types, Channel, Client
<1>3. stream = "open" => ~Active' /\ up' # << >>
  <2>1. state' = Awaiting(state, 1) => state'.outstanding = state.outstanding + 1
    BY <1>2, StateFacts DEF TypeOK
  <2>2. state.outstanding \in Nat
    BY <1>2, StateFacts DEF TypeOK
  <2>3. Watch(savedToken) \in Request /\ up \in Seq(Request)
    BY <1>2, RequestFacts DEF TypeOK
  <2> QED BY <1>1, <2>1, <2>2, <2>3, AppendFacts DEF Active
<1>4. stream # "open" => up' = << >> /\ down' = << >> /\ ~mismatch'
  BY <1>1, <1>2 DEF NothingOpen
<1>5. Batches'
  BY <1>1, <1>2 DEF Batches, FiltersCount, DocumentsAreTrue, ResetsTellAll
<1>6. Requests'
  <2> SUFFICES ASSUME stream = "open"
               PROVE  LET r == up'[Len(up')] IN
                        /\ r # Unwatch
                        /\ cached' # {} /\ r.token # 0 => cached' = history'[r.token]
    BY <1>1, <1>4 DEF Requests
  <2>1. savedToken \in Tokens /\ up \in Seq(Request)
    BY <1>2 DEF TypeOK
  <2>2. LET r == Watch(savedToken) IN r \in Request /\ r # Unwatch /\ r.token = savedToken
    BY <2>1, RequestFacts
  <2>3. up'[Len(up')] = Watch(savedToken)
    BY <1>1, <2>1, <2>2, AppendFacts
  <2> QED BY <1>1, <1>2, <2>2, <2>3 DEF TokensFit
<1>7. ~Heard'
  BY <1>1, <1>3 DEF Heard
<1>8. Watched' /\ Complete'
  BY <1>7 DEF Watched, Complete
<1>9. Receiving'
  BY <1>3, <1>4 DEF Receiving
<1>10. MismatchIsNext'
  BY <1>1, <1>2, <1>3, <1>4 DEF MismatchIsNext
<1>11. CurrentAwaitsAck' /\ CurrentMeansMatching'
  BY <1>1 DEF CurrentAwaitsAck, CurrentMeansMatching
<1>12. TokensFit'
  BY <1>1, <1>2 DEF TokensFit
<1> QED BY <1>5, <1>6, <1>8, <1>9, <1>10, <1>11, <1>12 DEF Channel, Client

LEMMA StopKeeps == IInv /\ StopListening => (Channel /\ Client /\ CurrentMeansMatching)'
<1> SUFFICES ASSUME IInv, StopListening PROVE (Channel /\ Client /\ CurrentMeansMatching)'
  OBVIOUS
<1>1. /\ UNCHANGED <<history, told, down, cached, lastSnapshot, mismatch>>
      /\ listening /\ ~listening' /\ savedToken' = localToken /\ ~view'.current
  BY DEF StopListening, server, NoView
<1>2. Batches /\ MismatchIsNext /\ TokensFit
  BY DEF IInv, Channel, Client
<1>3. Batches'
  BY <1>1, <1>2 DEF Batches, FiltersCount, DocumentsAreTrue, ResetsTellAll
<1>4. Requests' /\ Watched' /\ Complete'
  BY <1>1 DEF Requests, Heard, Watched, Complete
<1>5. Receiving' /\ CurrentAwaitsAck' /\ CurrentMeansMatching'
  BY <1>1 DEF Receiving, Active, CurrentAwaitsAck, CurrentMeansMatching
<1>6. MismatchIsNext'
  BY <1>1, <1>2 DEF MismatchIsNext, Active
<1>7. TokensFit'
  BY <1>1, <1>2 DEF TokensFit
<1> QED BY <1>3, <1>4, <1>5, <1>6, <1>7 DEF Channel, Client

LEMMA OpenKeeps == IInv /\ Open => (Channel /\ Client /\ CurrentMeansMatching)'
<1> SUFFICES ASSUME IInv, Open PROVE (Channel /\ Client /\ CurrentMeansMatching)'
  OBVIOUS
<1>1. /\ UNCHANGED <<history, told, down, cached, savedToken, lastSnapshot, listening,
                     localToken, remoteToken, mismatch, view>>
      /\ stream # "open" /\ stream' = "open"
      /\ IF listening THEN up' = Append(up, Watch(remoteToken)) /\ state' = Awaiting(state, 1)
         ELSE UNCHANGED <<up, state>>
  BY DEF Open, server, disk, tokens
<1>2. /\ TypeOK /\ TokensFit /\ CurrentMeansMatching
      /\ up = << >> /\ down = << >> /\ told = 0 /\ state = Fresh /\ ~mismatch
  BY <1>1 DEF IInv, Types, Client, NothingOpen
<1>3. Batches' /\ Receiving' /\ MismatchIsNext'
  BY <1>1, <1>2 DEF Batches, FiltersCount, DocumentsAreTrue, ResetsTellAll, Receiving,
                    MismatchIsNext
<1>4. remoteToken \in Tokens /\ << >> \in Seq(Request)
  BY <1>2 DEF TypeOK
<1>5. Requests' /\ (listening' => up' # << >>)
  <2>1. LET r == Watch(remoteToken) IN r \in Request /\ r # Unwatch /\ r.token = remoteToken
    BY <1>4, RequestFacts
  <2>2. listening => up'[Len(up')] = Watch(remoteToken) /\ up' # << >>
    <3>1. up \in Seq(Request)
      BY <1>2 DEF TypeOK
    <3> QED BY <1>1, <2>1, <3>1, AppendFacts
  <2> QED BY <1>1, <1>2, <2>1, <2>2 DEF Requests, TokensFit
<1>6. Watched' /\ Complete'
  BY <1>1, <1>5 DEF Heard, Watched, Complete
<1>7. CurrentAwaitsAck'
  <2>1. listening => state'.outstanding = 1
    BY <1>1, <1>2, StateFacts
  <2> QED BY <1>1, <1>2, <2>1 DEF CurrentAwaitsAck
<1>8. TokensFit' /\ CurrentMeansMatching'
  BY <1>1, <1>2 DEF TokensFit, CurrentMeansMatching
<1> QED BY <1>3, <1>5, <1>6, <1>7, <1>8 DEF Channel, Client

LEMMA HangupKeeps == IInv /\ (Break \/ Kill) => (Channel /\ Client /\ CurrentMeansMatching)'
<1> SUFFICES ASSUME IInv, Break \/ Kill PROVE (Channel /\ Client /\ CurrentMeansMatching)'
  OBVIOUS
<1>1. /\ UNCHANGED <<history, cached, savedToken, lastSnapshot>>
      /\ up' = << >> /\ down' = << >> /\ state' = Fresh /\ mismatch' = FALSE
      /\ stream' # "open"
      /\ \/ UNCHANGED <<listening, localToken, remoteToken, view>>
         \/ listening' = FALSE /\ ~view'.current
  BY DEF Break, Kill, Hangup, disk, tokens, NoView
<1>2. TokensFit /\ CurrentMeansMatching
  BY DEF IInv, Client
<1>3. Batches' /\ Receiving' /\ MismatchIsNext'
  BY <1>1 DEF Batches, FiltersCount, DocumentsAreTrue, ResetsTellAll, Receiving,
              MismatchIsNext
<1>4. Requests' /\ Watched' /\ Complete'
  BY <1>1 DEF Requests, Heard, Watched, Complete
<1>5. CurrentAwaitsAck'
  BY <1>1, StateFacts DEF CurrentAwaitsAck
<1>6. TokensFit' /\ CurrentMeansMatching'
  BY <1>1, <1>2 DEF TokensFit, CurrentMeansMatching
<1> QED BY <1>3, <1>4, <1>5, <1>6 DEF Channel, Client

\* With the same stream, keys and notes, and a view no more current.
LEMMA SameKeeps ==
    ASSUME IInv,
           UNCHANGED <<history, told, up, down, cached, savedToken, lastSnapshot, listening,
                       localToken, remoteToken, stream, state, mismatch>>,
           view'.synced = view.synced, view'.current => view.current
    PROVE  (Channel /\ Client /\ CurrentMeansMatching)'
<1>1. Channel /\ Client /\ CurrentMeansMatching
  BY DEF IInv
<1>2. Batches'
  BY <1>1 DEF Channel, Batches, FiltersCount, DocumentsAreTrue, ResetsTellAll
<1>3. Requests' /\ Watched' /\ Complete'
  BY <1>1 DEF Channel, Requests, Heard, Watched, Complete
<1>4. Keys' = Keys /\ (Active' <=> Active)
  BY DEF Keys, Changed, With, Active
<1>5. Receiving' /\ MismatchIsNext'
  BY <1>1, <1>4 DEF Client, Receiving, MismatchIsNext
<1>6. CurrentAwaitsAck' /\ TokensFit' /\ CurrentMeansMatching'
  BY <1>1 DEF Client, CurrentAwaitsAck, TokensFit, CurrentMeansMatching
<1> QED BY <1>2, <1>3, <1>5, <1>6 DEF Channel, Client

LEMMA StillKeeps ==
    IInv /\ (Offline \/ UNCHANGED vars) => (Channel /\ Client /\ CurrentMeansMatching)'
<1> SUFFICES ASSUME IInv, Offline \/ UNCHANGED vars
             PROVE (Channel /\ Client /\ CurrentMeansMatching)'
  OBVIOUS
<1>1. UNCHANGED <<history, told, up, down, cached, savedToken, lastSnapshot, listening,
                  localToken, remoteToken, stream, state, mismatch>>
  BY DEF Offline, vars, server, disk, tokens, aggregator, bounds
<1>2. view'.synced = view.synced /\ (view'.current => view.current)
  <2>1. CASE Offline
    BY <2>1 DEF Offline, IInv, Types, TypeOK, View
  <2>2. CASE UNCHANGED vars
    BY <2>2 DEF vars
  <2> QED BY <2>1, <2>2
<1> QED BY <1>1, <1>2, SameKeeps

LEMMA ChangesKeep == IInv /\ ServerChanges => (Channel /\ Client /\ CurrentMeansMatching)'
<1> SUFFICES ASSUME IInv, ServerChanges PROVE (Channel /\ Client /\ CurrentMeansMatching)'
  OBVIOUS
<1>1. /\ \A v \in 1 .. Now : history'[v] = history[v]
      /\ Now \in Nat
      /\ UNCHANGED <<told, up, down, cached, savedToken, lastSnapshot, listening, localToken,
                     remoteToken, stream, state, mismatch, view>>
  BY ChangesFacts DEF IInv, Types
<1>2. TypeOK /\ Known /\ Channel /\ Client /\ CurrentMeansMatching
  BY DEF IInv, Types
<1>3. \A v \in Tokens : v # 0 /\ v <= Now => history'[v] = history[v]
  <2>1. \A v \in Tokens : v # 0 /\ v <= Now => v \in 1 .. Now
    BY <1>1 DEF Tokens
  <2> QED BY <1>1, <2>1
<1>4. \A i \in DOMAIN down : IsSnapshot(down[i]) =>
            history'[down[i].version] = history[down[i].version]
  <2> TAKE i \in DOMAIN down
  <2> HAVE IsSnapshot(down[i])
  <2>1. down[i].version \in Versions
    BY <1>2, SeqFacts, MessageFacts DEF TypeOK
  <2>2. down[i].version \in Tokens /\ down[i].version # 0
    BY <2>1 DEF Versions, Tokens
  <2> QED BY <1>2, <1>3, <2>2 DEF Known
<1>5. /\ savedToken # 0 => history'[savedToken] = history[savedToken]
      /\ localToken # 0 => history'[localToken] = history[localToken]
      /\ remoteToken # 0 => history'[remoteToken] = history[remoteToken]
      /\ told # 0 => history'[told] = history[told]
      /\ lastSnapshot # 0 => history'[lastSnapshot] = history[lastSnapshot]
  BY <1>2, <1>3 DEF TypeOK, Known
<1>6. Batches'
  <2>1. FiltersCount'
    BY <1>1, <1>2, <1>4 DEF Channel, Batches, FiltersCount
  <2>2. DocumentsAreTrue'
    BY <1>1, <1>2, <1>4 DEF Channel, Batches, DocumentsAreTrue, First
  <2>3. ResetsTellAll'
    BY <1>1, <1>2, <1>4 DEF Channel, Batches, ResetsTellAll, First
  <2> QED BY <2>1, <2>2, <2>3 DEF Batches
<1>7. Requests'
  <2> SUFFICES ASSUME listening, up # << >>
               PROVE  LET r == up[Len(up)] IN
                        /\ r # Unwatch
                        /\ cached # {} /\ r.token # 0 => cached = history'[r.token]
    BY <1>1 DEF Requests
  <2>1. Len(up) \in DOMAIN up /\ up[Len(up)] \in Request
    <3>1. up \in Seq(Request) /\ Len(up) # 0 /\ Len(up) \in Nat /\ DOMAIN up = 1 .. Len(up)
      BY <1>2, SeqFacts DEF TypeOK
    <3>2. Len(up) \in 1 .. Len(up)
      BY <3>1
    <3> QED BY <3>1, <3>2, SeqFacts
  <2> DEFINE r == up[Len(up)]
  <2>2. /\ r # Unwatch /\ r \in Request /\ r.token <= Now
        /\ cached # {} /\ r.token # 0 => cached = history[r.token]
    BY <1>2, <2>1 DEF Channel, Requests, Known
  <2> HIDE DEF r
  <2>3. r.token \in Tokens
    BY <2>2, RequestFacts
  <2> QED BY <1>3, <2>2, <2>3 DEF r
<1>8. Heard' <=> Heard
  BY <1>1 DEF Heard
<1>9. Watched'
  BY <1>1, <1>2, <1>8 DEF Channel, Watched
<1>10. Complete'
  <2> SUFFICES ASSUME Heard PROVE Complete'
    BY <1>8 DEF Complete
  <2>1. down = << >> => cached = history'[told]
    BY <1>2, <1>5 DEF Channel, Watched, Complete
  <2>2. \A a, s \in DOMAIN down : IsAck(down[a]) /\ Quiet(down, a) /\ First(down, a, s) =>
            Brought(down, a, s, history'[down[s].version], cached)
    BY <1>2, <1>4 DEF Channel, Complete, First
  <2>3. \A p, s \in DOMAIN down : IsSnapshot(down[p]) /\ Quiet(down, p) /\ First(down, p, s) =>
            Brought(down, p, s, history'[down[s].version], history'[down[p].version])
    BY <1>2, <1>4 DEF Channel, Complete, First
  <2> QED BY <1>1, <2>1, <2>2, <2>3 DEF Complete
<1>11. Keys' = Keys /\ (Active' <=> Active)
  BY <1>1 DEF Keys, Changed, With, Active
<1>12. Receiving'
  BY <1>1, <1>2, <1>4, <1>11 DEF Client, Receiving, First
<1>13. MismatchIsNext' /\ CurrentAwaitsAck'
  BY <1>1, <1>2, <1>11 DEF Client, MismatchIsNext, CurrentAwaitsAck
<1>14. TokensFit'
  BY <1>1, <1>2, <1>5 DEF Client, TokensFit
<1>15. CurrentMeansMatching'
  BY <1>1, <1>2, <1>5 DEF CurrentMeansMatching, Known
<1> QED BY <1>6, <1>7, <1>9, <1>10, <1>12, <1>13, <1>14, <1>15 DEF Channel, Client

\* st is the messages q with an answer m behind them.
Behind(st, q, m, had, acked) ==
    LET e == Len(q) + Len(m) IN
    /\ e \in DOMAIN st /\ e \notin DOMAIN q /\ IsSnapshot(st[e]) /\ st[e].version = Now
    /\ st # << >> /\ Len(st) = e
    /\ \A s \in DOMAIN st : IsSnapshot(st[s]) => s \in DOMAIN q \/ s = e
    /\ \A i \in Nat, s \in DOMAIN q : First(st, i, s) <=> First(q, i, s)
    /\ \A i \in Nat, s \in DOMAIN q : \A h, keys :
         /\ Brings(q, i, s, h, keys) => Brings(st, i, s, h, keys)
         /\ Brought(q, i, s, h, keys) => Brought(st, i, s, h, keys)
    /\ \A i \in 0 .. Len(q) + 1 : i <= Len(q) \/ acked =>
         /\ Brings(st, i, e, history[Now], had)
         /\ Counted(st, e) \/ Drops(st, i, e, history[Now], had)
    /\ AlwaysCounts => Counted(st, e)
    /\ \A i \in DOMAIN q : Quiet(st, i) => Quiet(q, i)
    /\ \A i \in DOMAIN st : IsAck(st[i]) =>
         i \in DOMAIN q \/ (acked /\ i = Len(q) + 1 /\ st[i].type = "added")
    /\ acked => Len(q) + 1 \in DOMAIN st /\ IsAck(st[Len(q) + 1])
    /\ \A i \in Nat : i > Len(q) => Quiet(st, i)

LEMMA AnswerBehind ==
    ASSUME NEW q \in Seq(Message), NEW m, NEW had, NEW acked \in BOOLEAN,
           Answer(m, had, acked), NEW st, Joined(q, m, st)
    PROVE  Behind(st, q, m, had, acked)
<1> DEFINE n == Len(q)
           L == Len(m)
           e == n + L
<1>1. /\ n \in Nat /\ DOMAIN q = 1 .. n /\ L \in Nat /\ L >= 1 /\ DOMAIN m = 1 .. L
      /\ DOMAIN st = 1 .. e /\ Len(st) = e
      /\ \A i \in 1 .. n : st[i] = q[i]
      /\ \A i \in 1 .. L : st[n + i] = m[i]
      /\ \A i \in 1 .. e : i \in 1 .. n \/ (i - n \in 1 .. L /\ st[i] = m[i - n])
  BY SeqFacts DEF Joined, Answer
<1>2. /\ IsSnapshot(m[L]) /\ m[L].version = Now
      /\ \A i \in 1 .. L : IsSnapshot(m[i]) => i = L
      /\ \A d \in history[Now] \ had : \E i \in 1 .. L : i < L /\ Comes(m[i], d)
      /\ Counted(m, L) \/ \A d \in had \ history[Now] : \E i \in 1 .. L : i < L /\ Goes(m[i], d)
      /\ \A i \in 1 .. L : i > 1 => ~IsAck(m[i])
      /\ m[1] \in Message /\ m[1].type # "removed" /\ (IsAck(m[1]) <=> acked)
  <2>1. m \in Seq(Message) /\ 1 \in DOMAIN m
    BY <1>1 DEF Answer
  <2>2. m[1] \in Message
    BY <2>1, SeqFacts
  <2>3. \A i \in 1 .. L : i > 1 => ~IsAck(m[i])
    BY <1>1 DEF Answer, Quiet
  <2>4. \A d \in history[Now] \ had : \E i \in 1 .. L : i < L /\ Comes(m[i], d)
    BY <1>1 DEF Answer, Brings
  <2>5. Counted(m, L) \/ \A d \in had \ history[Now] : \E i \in 1 .. L : i < L /\ Goes(m[i], d)
    BY <1>1 DEF Answer, Drops
  <2> QED BY <1>1, <2>2, <2>3, <2>4, <2>5 DEF Answer
<1>3. /\ e \in DOMAIN st /\ e \notin DOMAIN q /\ IsSnapshot(st[e]) /\ st[e].version = Now
      /\ st # << >>
  <2>1. e \in 1 .. e /\ L \in 1 .. L /\ e \notin 1 .. n
    BY <1>1
  <2>2. st # << >>
    BY <1>1
  <2> QED BY <1>1, <1>2, <2>1, <2>2
<1>4. \A s \in DOMAIN st : IsSnapshot(st[s]) => s \in DOMAIN q \/ s = e
  <2> SUFFICES ASSUME NEW s \in 1 .. e, IsSnapshot(st[s]), s \notin 1 .. n PROVE s = e
    BY <1>1
  <2>1. s - n \in 1 .. L /\ st[s] = m[s - n]
    BY <1>1
  <2>2. s - n = L
    BY <1>2, <2>1
  <2> QED BY <1>1, <2>2
<1>5. \A i \in Nat, s \in DOMAIN q : First(st, i, s) <=> First(q, i, s)
  <2> SUFFICES ASSUME NEW i \in Nat, NEW s \in 1 .. n PROVE First(st, i, s) <=> First(q, i, s)
    BY <1>1
  <2>1. \A j \in 1 .. e : j < s => j \in 1 .. n
    BY <1>1
  <2>2. s \in 1 .. e /\ \A j \in 1 .. n : j \in 1 .. e
    BY <1>1
  <2> QED BY <1>1, <2>1, <2>2 DEF First
<1>6. \A i \in Nat, s \in DOMAIN q : \A h, keys :
            /\ Brings(q, i, s, h, keys) => Brings(st, i, s, h, keys)
            /\ Brought(q, i, s, h, keys) => Brought(st, i, s, h, keys)
  <2>1. \A j \in 1 .. n : j \in 1 .. e
    BY <1>1
  <2>2. \A i \in Nat, s \in DOMAIN q : \A h, keys :
            Brings(q, i, s, h, keys) => Brings(st, i, s, h, keys)
    BY <1>1, <2>1 DEF Brings
  <2>3. \A i \in Nat, s \in DOMAIN q : \A h, keys :
            Drops(q, i, s, h, keys) => Drops(st, i, s, h, keys)
    BY <1>1, <2>1 DEF Drops
  <2>4. \A s \in DOMAIN q : Counted(q, s) => Counted(st, s)
    BY <1>1, <2>1 DEF Counted
  <2> QED BY <2>2, <2>3, <2>4 DEF Brought
<1>7. \A d \in history[Now] \ had : \E j \in DOMAIN st : n < j /\ j < e /\ Comes(st[j], d)
  <2> TAKE d \in history[Now] \ had
  <2>1. PICK i \in 1 .. L : i < L /\ Comes(m[i], d)
    BY <1>2
  <2>2. n + i \in 1 .. e /\ n < n + i /\ n + i < e
    BY <1>1, <2>1
  <2> QED BY <1>1, <2>1, <2>2
<1>8. Counted(st, e) \/ \A d \in had \ history[Now] :
                                \E j \in DOMAIN st : n < j /\ j < e /\ Goes(st[j], d)
  <2>1. CASE Counted(m, L)
    <3>1. L - 1 \in 1 .. L /\ IsFilter(m[L - 1])
      BY <1>1, <2>1 DEF Counted
    <3>2. n + (L - 1) \in 1 .. e /\ n + (L - 1) = e - 1
      BY <1>1, <3>1
    <3>3. st[n + (L - 1)] = m[L - 1]
      BY <1>1, <3>1
    <3> QED BY <1>1, <3>1, <3>2, <3>3 DEF Counted
  <2>2. CASE \A d \in had \ history[Now] : \E i \in 1 .. L : i < L /\ Goes(m[i], d)
    <3> SUFFICES ASSUME NEW d \in had \ history[Now]
                 PROVE  \E j \in DOMAIN st : n < j /\ j < e /\ Goes(st[j], d)
      OBVIOUS
    <3>1. PICK i \in 1 .. L : i < L /\ Goes(m[i], d)
      BY <2>2
    <3>2. n + i \in 1 .. e /\ n < n + i /\ n + i < e
      BY <1>1, <3>1
    <3> QED BY <1>1, <3>1, <3>2
  <2> QED BY <1>2, <2>1, <2>2
<1>9. /\ acked => n + 1 \in DOMAIN st /\ st[n + 1] = m[1] /\ IsAck(st[n + 1])
      /\ st[n + 1] = m[1]
  <2>1. n + 1 \in 1 .. e /\ 1 \in 1 .. L
    BY <1>1
  <2> QED BY <1>1, <1>2, <2>1
<1>10. \A i \in 0 .. n + 1 : i <= n \/ acked =>
            /\ Brings(st, i, e, history[Now], had)
            /\ Counted(st, e) \/ Drops(st, i, e, history[Now], had)
  <2> SUFFICES ASSUME NEW i \in 0 .. n + 1, i <= n \/ acked
               PROVE  /\ Brings(st, i, e, history[Now], had)
                      /\ Counted(st, e) \/ Drops(st, i, e, history[Now], had)
    OBVIOUS
  <2>1. acked => \A d : ~Comes(st[n + 1], d) /\ ~Goes(st[n + 1], d)
    BY <1>9 DEF Comes, Goes, IsAck, IsDocument, IsReset
  <2>2. \A j \in 1 .. e : n < j => i < j \/ (acked /\ j = n + 1)
    BY <1>1
  <2>3. Brings(st, i, e, history[Now], had)
    BY <1>1, <1>7, <2>1, <2>2 DEF Brings
  <2>4. Counted(st, e) \/ Drops(st, i, e, history[Now], had)
    BY <1>1, <1>8, <2>1, <2>2 DEF Drops
  <2> QED BY <2>3, <2>4
<1>11. AlwaysCounts => Counted(st, e)
  <2> SUFFICES ASSUME AlwaysCounts PROVE Counted(st, e)
    OBVIOUS
  <2>1. L - 1 \in 1 .. L /\ IsFilter(m[L - 1])
    BY <1>1 DEF Answer, Counted
  <2>2. n + (L - 1) \in 1 .. e /\ n + (L - 1) = e - 1
    BY <1>1, <2>1
  <2>3. st[n + (L - 1)] = m[L - 1]
    BY <1>1, <2>1
  <2> QED BY <1>1, <2>1, <2>2, <2>3 DEF Counted
<1>12. \A i \in DOMAIN q : Quiet(st, i) => Quiet(q, i)
  <2>1. \A j \in 1 .. n : j \in 1 .. e
    BY <1>1
  <2> QED BY <1>1, <2>1 DEF Quiet
<1>13. \A i \in DOMAIN st : i \notin DOMAIN q /\ IsAck(st[i]) =>
            acked /\ i = n + 1 /\ st[i].type = "added"
  <2> SUFFICES ASSUME NEW i \in 1 .. e, i \notin 1 .. n, IsAck(st[i])
               PROVE  acked /\ i = n + 1 /\ st[i].type = "added"
    BY <1>1
  <2>1. i - n \in 1 .. L /\ st[i] = m[i - n] /\ (i - n = 1 => i = n + 1)
    BY <1>1
  <2>2. i - n = 1
    BY <1>2, <2>1
  <2> QED BY <1>2, <2>1, <2>2 DEF IsAck
<1>14. \A i \in Nat : i > n => Quiet(st, i)
  <2> SUFFICES ASSUME NEW i \in Nat, i > n, NEW j \in 1 .. e, j > i PROVE ~IsAck(st[j])
    BY <1>1 DEF Quiet
  <2>1. j \notin 1 .. n /\ j # n + 1
    BY <1>1
  <2> QED BY <1>1, <1>13, <2>1
<1>15. \A i \in DOMAIN st : IsAck(st[i]) =>
            i \in DOMAIN q \/ (acked /\ i = n + 1 /\ st[i].type = "added")
  BY <1>13
<1> HIDE DEF e, n, L
<1> QED
  <2>1. /\ e \in DOMAIN st /\ e \notin DOMAIN q /\ IsSnapshot(st[e]) /\ st[e].version = Now
        /\ st # << >> /\ Len(st) = e
        /\ \A s \in DOMAIN st : IsSnapshot(st[s]) => s \in DOMAIN q \/ s = e
    BY <1>1, <1>3, <1>4
  <2>2. \A i \in Nat : i > Len(q) => Quiet(st, i)
    BY <1>14 DEF n
  <2>3. \A i \in 0 .. Len(q) + 1 : i <= Len(q) \/ acked =>
            /\ Brings(st, i, e, history[Now], had)
            /\ Counted(st, e) \/ Drops(st, i, e, history[Now], had)
    BY <1>10 DEF n
  <2>4. acked => Len(q) + 1 \in DOMAIN st /\ IsAck(st[Len(q) + 1])
    BY <1>9 DEF n
  <2>5. \A i \in DOMAIN st : IsAck(st[i]) =>
            i \in DOMAIN q \/ (acked /\ i = Len(q) + 1 /\ st[i].type = "added")
    BY <1>15 DEF n
  <2>6. e = Len(q) + Len(m)
    BY DEF e, n, L
  <2> QED BY <1>5, <1>6, <1>11, <1>12, <2>1, <2>2, <2>3, <2>4, <2>5, <2>6 DEF Behind

LEMMA AnswerBatches ==
    ASSUME TypeOK, Batches, NEW m, NEW had, NEW acked \in BOOLEAN,
           Answer(m, had, acked), down' = down \o m, history' = history
    PROVE  Batches' /\ Joined(down, m, down')
<1> DEFINE n == Len(down)
           L == Len(m)
           e == n + L
<1>1. down \in Seq(Message) /\ m \in Seq(Message) /\ Joined(down, m, down')
  BY ConcatFacts DEF TypeOK, Answer
<1>2. /\ n \in Nat /\ DOMAIN down = 1 .. n /\ L \in Nat /\ L >= 1 /\ DOMAIN m = 1 .. L
      /\ DOMAIN down' = 1 .. e
      /\ \A i \in 1 .. n : down'[i] = down[i]
      /\ \A i \in 1 .. L : down'[n + i] = m[i]
      /\ \A i \in 1 .. e : i \in 1 .. n \/ (i - n \in 1 .. L /\ down'[i] = m[i - n])
  BY <1>1, SeqFacts DEF Joined, Answer
<1>3. /\ e \in DOMAIN down' /\ IsSnapshot(down'[e]) /\ down'[e].version = Now
      /\ \A s \in DOMAIN down' : IsSnapshot(down'[s]) => s \in DOMAIN down \/ s = e
      /\ \A i \in Nat, s \in DOMAIN down : First(down', i, s) <=> First(down, i, s)
      /\ \A i \in Nat, s \in DOMAIN down : \A h, keys :
            Brings(down, i, s, h, keys) => Brings(down', i, s, h, keys)
  <2>1. Behind(down', down, m, had, acked)
    BY <1>1, AnswerBehind
  <2> QED BY <2>1 DEF Behind
<1>4. /\ \A i \in 1 .. L : IsFilter(m[i]) => i + 1 = L /\ m[i].count = Cardinality(history[Now])
      /\ \A i \in 1 .. L : IsDocument(m[i]) => (m[i].matches <=> m[i].doc \in history[Now])
      /\ \A i \in 1 .. L : IsReset(m[i]) => Brings(m, i, L, history[Now], {})
  BY <1>2 DEF Answer
<1> HIDE DEF n, L, e
<1>5. \A i \in 1 .. e : i \notin 1 .. n /\ i # e => First(down', i, e)
  <2> SUFFICES ASSUME NEW i \in 1 .. e, i \notin 1 .. n, i # e PROVE First(down', i, e)
    OBVIOUS
  <2>1. \A j \in 1 .. e : i < j => j \notin 1 .. n
    BY <1>2
  <2>2. i < e
    BY <1>2 DEF e
  <2>3. \A j \in 1 .. e : j < e => j # e
    BY <1>2 DEF e
  <2> QED BY <1>2, <1>3, <2>1, <2>2, <2>3 DEF First
<1>6. FiltersCount'
  <2> SUFFICES ASSUME NEW i \in 1 .. e, IsFilter(down'[i])
               PROVE  /\ i + 1 \in DOMAIN down' /\ IsSnapshot(down'[i + 1])
                      /\ down'[i].count = Cardinality(history[down'[i + 1].version])
    BY <1>2 DEF FiltersCount
  <2>1. CASE i \in 1 .. n
    <3>1. /\ i + 1 \in 1 .. n /\ IsSnapshot(down[i + 1])
          /\ down[i].count = Cardinality(history[down[i + 1].version])
      BY <1>2, <2>1 DEF Batches, FiltersCount
    <3>2. i + 1 \in 1 .. e
      BY <1>2, <3>1 DEF e
    <3> QED BY <1>2, <2>1, <3>1, <3>2
  <2>2. CASE i \notin 1 .. n
    <3>1. i - n \in 1 .. L /\ down'[i] = m[i - n]
      BY <1>2, <2>2
    <3>2. i - n + 1 = L /\ down'[i].count = Cardinality(history[Now])
      BY <1>4, <3>1
    <3>3. i + 1 = e
      BY <1>2, <3>2 DEF e
    <3> QED BY <1>3, <3>2, <3>3
  <2> QED BY <2>1, <2>2
<1>7. DocumentsAreTrue'
  <2> SUFFICES ASSUME NEW i \in 1 .. e, IsDocument(down'[i])
               PROVE  \E s \in DOMAIN down' :
                        /\ First(down', i, s)
                        /\ down'[i].matches <=> down'[i].doc \in history[down'[s].version]
    BY <1>2 DEF DocumentsAreTrue
  <2>1. CASE i \in 1 .. n
    <3>1. PICK s \in 1 .. n : /\ First(down, i, s)
                              /\ down[i].matches <=> down[i].doc \in history[down[s].version]
      BY <1>2, <2>1 DEF Batches, DocumentsAreTrue
    <3>2. s \in DOMAIN down' /\ down'[s] = down[s] /\ down'[i] = down[i] /\ i \in Nat
      BY <1>2, <2>1 DEF e
    <3> QED BY <1>2, <1>3, <3>1, <3>2
  <2>2. CASE i \notin 1 .. n
    <3>1. i - n \in 1 .. L /\ down'[i] = m[i - n]
      BY <1>2, <2>2
    <3>2. down'[i].matches <=> down'[i].doc \in history[Now]
      BY <1>4, <3>1
    <3>3. i # e
      BY <1>3 DEF IsDocument, IsSnapshot
    <3>4. First(down', i, e)
      BY <1>5, <2>2, <3>3
    <3> QED BY <1>3, <3>2, <3>4
  <2> QED BY <2>1, <2>2
<1>8. ResetsTellAll'
  <2> SUFFICES ASSUME NEW i \in 1 .. e, IsReset(down'[i])
               PROVE  \E s \in DOMAIN down' :
                        /\ First(down', i, s)
                        /\ Brings(down', i, s, history[down'[s].version], {})
    BY <1>2 DEF ResetsTellAll
  <2>1. CASE i \in 1 .. n
    <3>1. PICK s \in 1 .. n : /\ First(down, i, s)
                              /\ Brings(down, i, s, history[down[s].version], {})
      BY <1>2, <2>1 DEF Batches, ResetsTellAll
    <3>2. s \in DOMAIN down' /\ down'[s] = down[s] /\ i \in Nat
      BY <1>2, <2>1 DEF e
    <3> QED BY <1>2, <1>3, <3>1, <3>2
  <2>2. CASE i \notin 1 .. n
    <3>1. i - n \in 1 .. L /\ down'[i] = m[i - n]
      BY <1>2, <2>2
    <3>2. Brings(m, i - n, L, history[Now], {})
      BY <1>4, <3>1
    <3>3. i # e
      BY <1>3 DEF IsReset, IsSnapshot
    <3>4. First(down', i, e)
      BY <1>5, <2>2, <3>3
    <3>5. Brings(down', i, e, history[Now], {})
      <4> SUFFICES ASSUME NEW d \in history[Now] \ {}
                   PROVE  \E j \in 1 .. e : i < j /\ j < e /\ Comes(down'[j], d)
        BY <1>2 DEF Brings
      <4>1. PICK j \in 1 .. L : i - n < j /\ j < L /\ Comes(m[j], d)
        BY <1>2, <3>2 DEF Brings
      <4>2. n + j \in 1 .. e /\ i < n + j /\ n + j < e /\ down'[n + j] = m[j]
        BY <1>2, <4>1 DEF e
      <4> QED BY <4>1, <4>2
    <3> QED BY <1>3, <3>4, <3>5
  <2> QED BY <2>1, <2>2
<1> QED BY <1>1, <1>6, <1>7, <1>8 DEF Batches

LEMMA TellingKeeps ==
    ASSUME AlwaysCounts \/ ServerKnowsTheKeys, IInv, AnswersWatch \/ Tells \/ TellsAnew
    PROVE  (Channel /\ Client /\ CurrentMeansMatching)'
<1>1. /\ TypeOK /\ MappingsAgree /\ NothingOpen /\ AcksAreCounted /\ Known /\ Batches
      /\ Requests /\ Watched /\ Complete /\ Receiving /\ MismatchIsNext /\ CurrentAwaitsAck
      /\ TokensFit /\ CurrentMeansMatching
  BY DEF IInv, Types, Channel, Client
<1>2. PICK m, had :
            /\ down' = down \o m /\ Answer(m, had, IsAck(m[1]))
            /\ stream = "open" /\ told' = Now
            /\ UNCHANGED <<history, disk, listening, tokens, stream, aggregator, view, bounds>>
            /\ \/ /\ up # << >> /\ up[1] # Unwatch /\ up' = Tail(up) /\ IsAck(m[1])
                  /\ had = IF up[1].token = 0 THEN {} ELSE history[up[1].token]
               \/ told # 0 /\ up' = up /\ ~IsAck(m[1]) /\ had = history[told]
  BY TellingFacts DEF IInv
<1>3. UNCHANGED <<history, cached, savedToken, lastSnapshot, listening, localToken, remoteToken,
                  stream, state, mismatch, view>>
  BY <1>2 DEF disk, tokens, aggregator, bounds
<1> DEFINE n == Len(down)
           e == n + Len(m)
           acked == IsAck(m[1])
<1>4. Batches' /\ Joined(down, m, down') /\ acked \in BOOLEAN
  <2>1. acked \in BOOLEAN
    BY DEF IsAck
  <2> QED BY <1>1, <1>2, <1>3, <2>1, AnswerBatches
<1>5. /\ e \in DOMAIN down' /\ e \notin DOMAIN down /\ IsSnapshot(down'[e])
      /\ down'[e].version = Now /\ down' # << >> /\ Len(down') = e
      /\ \A s \in DOMAIN down' : IsSnapshot(down'[s]) => s \in DOMAIN down \/ s = e
      /\ \A i \in Nat, s \in DOMAIN down : First(down', i, s) <=> First(down, i, s)
      /\ \A i \in Nat, s \in DOMAIN down : \A h, keys :
            Brought(down, i, s, h, keys) => Brought(down', i, s, h, keys)
      /\ \A i \in 0 .. n + 1 : i <= n \/ acked =>
            /\ Brings(down', i, e, history[Now], had)
            /\ Counted(down', e) \/ Drops(down', i, e, history[Now], had)
      /\ AlwaysCounts => Counted(down', e)
      /\ \A i \in DOMAIN down : Quiet(down', i) => Quiet(down, i)
      /\ \A i \in DOMAIN down' : IsAck(down'[i]) =>
            i \in DOMAIN down \/ (acked /\ i = n + 1 /\ down'[i].type = "added")
      /\ acked => n + 1 \in DOMAIN down' /\ IsAck(down'[n + 1])
      /\ \A i \in Nat : i > n => Quiet(down', i)
  <2>1. Behind(down', down, m, had, acked)
    <3>1. down \in Seq(Message)
      BY <1>1 DEF TypeOK
    <3> QED BY <1>2, <1>4, <3>1, AnswerBehind
  <2> QED BY <2>1 DEF Behind
<1>6. /\ n \in Nat /\ DOMAIN down = 1 .. n /\ (down = << >> <=> n = 0)
      /\ DOMAIN down' \subseteq Nat /\ 1 .. n \subseteq DOMAIN down'
      /\ \A i \in 1 .. n : down'[i] = down[i]
      /\ e \in Nat /\ n < e
  <2>1. /\ n \in Nat /\ DOMAIN down = 1 .. n /\ (down = << >> <=> n = 0)
    BY <1>1, SeqFacts DEF TypeOK
  <2>2. m \in Seq(Message) /\ Len(m) >= 1 /\ Len(m) \in Nat
    BY <1>2, SeqFacts DEF Answer
  <2>3. DOMAIN down' = 1 .. n + Len(m)
    BY <1>4 DEF Joined
  <2> QED BY <1>4, <2>1, <2>2, <2>3 DEF Joined
<1> HIDE DEF n, e, acked
<1>7. ASSUME acked, listening
      PROVE  up # << >> /\ up' = Tail(up) /\ ~Active
             /\ had = IF up[1].token = 0 THEN {} ELSE history[up[1].token]
  <2>1. /\ up # << >> /\ up' = Tail(up)
        /\ had = IF up[1].token = 0 THEN {} ELSE history[up[1].token]
    BY <1>2, <1>7 DEF acked
  <2>2. Len(up) # 0 /\ Len(up) \in Nat /\ Acks(down) \in Nat
    <3>1. up \in Seq(Request) /\ down \in Seq(Message)
      BY <1>1 DEF TypeOK
    <3>2. Len(up) # 0 /\ Len(up) \in Nat
      BY <2>1, <3>1, SeqFacts
    <3> QED BY <3>1, <3>2, AcksFinite
  <2>3. state.outstanding # 0
    BY <1>1, <2>2 DEF AcksAreCounted
  <2> QED BY <2>1, <2>3 DEF Active
<1>8. ~acked => told # 0 /\ up' = up /\ had = history[told]
  BY <1>2 DEF acked
<1>9. Requests'
  <2> SUFFICES ASSUME listening, up' # << >> PROVE Requests'
    BY <1>3 DEF Requests
  <2>1. CASE ~acked
    BY <1>1, <1>3, <1>8, <2>1 DEF Requests
  <2>2. CASE acked
    <3>1. up \in Seq(Request) /\ up # << >> /\ up' = Tail(up)
      BY <1>1, <1>7, <2>2 DEF TypeOK
    <3>2. up'[Len(up')] = up[Len(up)]
      BY <3>1, LastFacts
    <3> QED BY <1>1, <1>3, <3>1, <3>2 DEF Requests
  <2> QED BY <2>1, <2>2
\* With a watch request answered and none left, its token fits the keys; if the
\* server takes them to be fewer, or none to be some, it counts.
<1>10. ASSUME acked, listening, up' = << >> PROVE Brought(down', n + 1, e, history[Now], cached)
  <2>1. up \in Seq(Request) /\ up # << >> /\ Tail(up) = << >>
    BY <1>1, <1>7, <1>10 DEF TypeOK
  <2>2. Len(up) = 1
    BY <2>1, LastFacts
  <2>3. /\ had = IF up[1].token = 0 THEN {} ELSE history[up[1].token]
        /\ cached # {} /\ up[1].token # 0 => cached = history[up[1].token]
    BY <1>1, <1>7, <1>10, <2>1, <2>2 DEF Requests
  <2>4. /\ Brings(down', n + 1, e, history[Now], had)
        /\ Counted(down', e) \/ Drops(down', n + 1, e, history[Now], had)
    <3>1. n + 1 \in 0 .. n + 1
      BY <1>6
    <3> QED BY <1>5, <1>10, <3>1
  <2>5. CASE AlwaysCounts
    <3>1. Counted(down', e)
      BY <1>5, <2>5
    <3>2. CASE cached = {}
      BY <3>1, <3>2 DEF Brought
    <3>3. CASE cached # {}
      <4>1. Brings(down', n + 1, e, history[Now], cached)
        BY <2>3, <2>4, <3>3 DEF Brings
      <4> QED BY <3>1, <4>1 DEF Brought
    <3> QED BY <3>2, <3>3
  <2>6. CASE ServerKnowsTheKeys
    <3>1. cached = had
      BY <1>1, <1>10, <2>1, <2>2, <2>3, <2>6 DEF ServerKnowsTheKeys, MappingsAgree
    <3> QED BY <2>4, <3>1 DEF Brought
  <2> QED BY <2>5, <2>6
<1>11. ASSUME ~acked, Heard'
       PROVE  /\ Heard /\ told # 0
              /\ down = << >> => state.changes = NoChanges /\ cached = history[told]
              /\ down # << >> => n \in DOMAIN down /\ IsSnapshot(down[n]) /\ down[n].version = told
              /\ \A a \in DOMAIN down : IsAck(down[a]) /\ Quiet(down, a) => down[a].type = "added"
  <2>1. Heard
    BY <1>3, <1>8, <1>11 DEF Heard
  <2>2. n # 0 => n \in 1 .. n
    BY <1>6
  <2> QED BY <1>1, <1>6, <1>8, <1>11, <2>1, <2>2 DEF Watched, Complete, n
<1>12. Watched'
  <2> SUFFICES ASSUME Heard',
                      NEW a \in DOMAIN down', IsAck(down'[a]), Quiet(down', a)
               PROVE  down'[a].type = "added"
    <3>1. Now # 0
      BY <1>1 DEF TypeOK, Versions, Now
    <3> QED BY <1>2, <1>5, <3>1 DEF Watched
  <2>1. CASE a \in DOMAIN down
    <3>1. IsAck(down[a]) /\ Quiet(down, a)
      BY <1>5, <1>6, <2>1
    <3>2. ~acked
      <4>1. acked => n + 1 \in DOMAIN down' /\ IsAck(down'[n + 1]) /\ n + 1 > a
        BY <1>5, <1>6, <2>1
      <4> QED BY <4>1 DEF Quiet
    <3> QED BY <1>6, <1>11, <2>1, <3>1, <3>2
  <2>2. CASE a \notin DOMAIN down
    BY <1>5, <2>2
  <2> QED BY <2>1, <2>2
<1>13. \A a \in DOMAIN down : acked => ~Quiet(down', a)
  <2>1. acked => n + 1 \in DOMAIN down' /\ IsAck(down'[n + 1]) /\ \A a \in 1 .. n : n + 1 > a
    BY <1>5, <1>6
  <2> QED BY <1>6, <2>1 DEF Quiet
<1>14. ASSUME ~acked, Heard', NEW i \in Nat, i < n, First(down', i, e) PROVE FALSE
  <2>1. n \in DOMAIN down /\ n \in DOMAIN down' /\ down'[n] = down[n] /\ down # << >> /\ n < e
    BY <1>6, <1>14
  <2>2. IsSnapshot(down'[n])
    BY <1>11, <1>14, <2>1
  <2> QED BY <1>14, <2>1, <2>2 DEF First
<1>15. Complete'
  <2> SUFFICES ASSUME Heard' PROVE Complete'
    BY DEF Complete
  <2>1. ASSUME NEW a \in DOMAIN down', NEW s \in DOMAIN down',
               IsAck(down'[a]), Quiet(down', a), First(down', a, s)
        PROVE  Brought(down', a, s, history[down'[s].version], cached)
    <3>1. a < s /\ IsSnapshot(down'[s]) /\ a \in Nat /\ (s \in DOMAIN down \/ s = e)
      BY <1>5, <1>6, <2>1 DEF First
    <3>2. CASE acked
      <4>1. a = n + 1
        BY <1>5, <1>13, <2>1, <3>2
      <4>2. s = e
        BY <1>6, <3>1, <4>1
      <4>3. listening /\ up' = << >>
        BY <1>3 DEF Heard
      <4> QED BY <1>5, <1>10, <3>2, <4>1, <4>2, <4>3
    <3>3. CASE ~acked
      <4>1. a \in DOMAIN down /\ IsAck(down[a]) /\ Quiet(down, a) /\ Heard
        BY <1>5, <1>6, <1>11, <2>1, <3>3
      <4>2. CASE s \in DOMAIN down
        <5>1. First(down, a, s) /\ down'[s] = down[s]
          BY <1>5, <1>6, <2>1, <3>1, <4>2
        <5>2. Brought(down, a, s, history[down[s].version], cached)
          BY <1>1, <2>1, <4>1, <4>2, <5>1 DEF Complete
        <5> QED BY <1>5, <3>1, <4>2, <5>1, <5>2
      <4>3. CASE s = e
        <5>1. a <= n /\ down # << >>
          BY <1>6, <4>1
        <5>2. a # n
          BY <1>11, <3>3, <4>1, <5>1 DEF IsAck, IsSnapshot
        <5>3. a < n
          BY <1>6, <3>1, <5>1, <5>2
        <5> QED BY <1>14, <2>1, <3>1, <3>3, <4>3, <5>3
      <4> QED BY <3>1, <4>2, <4>3
    <3> QED BY <3>2, <3>3
  <2>2. ASSUME NEW p \in DOMAIN down', NEW s \in DOMAIN down',
               IsSnapshot(down'[p]), Quiet(down', p), First(down', p, s)
        PROVE  Brought(down', p, s, history[down'[s].version], history[down'[p].version])
    <3>1. p < s /\ IsSnapshot(down'[s]) /\ p \in Nat /\ (s \in DOMAIN down \/ s = e)
      BY <1>5, <1>6, <2>2 DEF First
    <3>2. p \in DOMAIN down
      BY <1>5, <1>6, <2>2, <3>1
    <3>3. ~acked
      BY <1>13, <2>2, <3>2
    <3>4. IsSnapshot(down[p]) /\ down'[p] = down[p] /\ Quiet(down, p) /\ Heard
      BY <1>5, <1>6, <1>11, <2>2, <3>2, <3>3
    <3>5. CASE s \in DOMAIN down
      <4>1. First(down, p, s) /\ down'[s] = down[s]
        BY <1>5, <1>6, <2>2, <3>1, <3>5
      <4>2. Brought(down, p, s, history[down[s].version], history[down[p].version])
        BY <1>1, <3>2, <3>4, <3>5, <4>1 DEF Complete
      <4> QED BY <1>5, <3>1, <3>4, <3>5, <4>1, <4>2
    <3>6. CASE s = e
      <4>1. p = n
        BY <1>6, <1>14, <2>2, <3>1, <3>2, <3>3, <3>6
      <4>2. down[p].version = told
        BY <1>6, <1>11, <3>2, <3>3, <4>1
      <4>3. /\ Brings(down', p, e, history[Now], had) /\ had = history[told]
            /\ Counted(down', e) \/ Drops(down', p, e, history[Now], had)
        <5>1. p \in 0 .. n + 1 /\ p <= n
          BY <1>6, <4>1
        <5> QED BY <1>5, <1>8, <3>3, <5>1
      <4> QED BY <1>5, <3>4, <3>6, <4>2, <4>3 DEF Brought
    <3> QED BY <3>1, <3>5, <3>6
  <2> QED BY <1>3, <1>5, <2>1, <2>2 DEF Complete
<1>16. Keys' = Keys /\ (Active' <=> Active)
  BY <1>3 DEF Keys, Changed, With, Active
<1>17. Receiving'
  <2> SUFFICES ASSUME Active, ~mismatch, NEW s \in DOMAIN down', First(down', 0, s)
               PROVE  Brought(down', 0, s, history[down'[s].version], Keys)
    BY <1>3, <1>16 DEF Receiving
  <2>1. ~acked /\ listening /\ up' = << >>
    <3>1. ~acked /\ listening /\ state.outstanding = 0
      BY <1>7 DEF Active
    <3>2. up \in Seq(Request) /\ Len(up) \in Nat /\ Acks(down) \in Nat
      <4>1. up \in Seq(Request) /\ down \in Seq(Message)
        BY <1>1 DEF TypeOK
      <4> QED BY <4>1, SeqFacts, AcksFinite
    <3>3. Len(up) = 0
      BY <1>1, <3>1, <3>2 DEF AcksAreCounted
    <3> QED BY <1>8, <3>1, <3>2, <3>3, SeqFacts
  <2>2. Heard'
    BY <1>2, <1>3, <2>1 DEF Heard
  <2>3. CASE s \in DOMAIN down
    <3>1. First(down, 0, s) /\ down'[s] = down[s]
      BY <1>5, <1>6, <2>3
    <3> QED BY <1>1, <1>5, <2>3, <3>1 DEF Receiving
  <2>4. CASE s = e
    <3>1. down = << >> /\ n = 0
      BY <1>6, <1>14, <2>1, <2>2, <2>4
    <3>2. Keys = history[told]
      <4>1. state.changes = NoChanges /\ cached = history[told]
        BY <1>11, <2>1, <2>2, <3>1
      <4> QED BY <1>1, <2>1, <4>1, KeysFacts DEF MappingsAgree
    <3>3. /\ Brings(down', 0, e, history[Now], had) /\ had = Keys
          /\ Counted(down', e) \/ Drops(down', 0, e, history[Now], had)
      <4>1. 0 \in 0 .. n + 1 /\ 0 <= n
        BY <1>6
      <4> QED BY <1>5, <1>8, <2>1, <3>2, <4>1
    <3> QED BY <1>5, <2>4, <3>3 DEF Brought
  <2> QED BY <1>5, <2>3, <2>4 DEF First
<1>18. down # << >> => 1 \in DOMAIN down /\ down'[1] = down[1]
  BY <1>6
<1>19. MismatchIsNext'
  BY <1>1, <1>3, <1>5, <1>16, <1>18 DEF MismatchIsNext
<1>20. CurrentAwaitsAck'
  <2>1. down = << >> => n + 1 = 1
    BY <1>6
  <2> QED BY <1>1, <1>3, <1>5, <1>8, <1>18, <2>1 DEF CurrentAwaitsAck
<1>21. TokensFit' /\ CurrentMeansMatching'
  BY <1>1, <1>3 DEF TokensFit, CurrentMeansMatching
<1> QED BY <1>4, <1>9, <1>12, <1>15, <1>17, <1>19, <1>20, <1>21 DEF Channel, Client

LEMMA UnwatchKeeps == IInv /\ AnswersUnwatch => (Channel /\ Client /\ CurrentMeansMatching)'
<1> SUFFICES ASSUME IInv, AnswersUnwatch PROVE (Channel /\ Client /\ CurrentMeansMatching)'
  OBVIOUS
<1>1. /\ TypeOK /\ AcksAreCounted /\ Batches /\ Requests /\ MismatchIsNext /\ CurrentAwaitsAck
      /\ TokensFit /\ CurrentMeansMatching
  BY DEF IInv, Types, Channel, Client
<1>2. /\ up # << >> /\ Head(up) = Unwatch /\ up' = Tail(up) /\ told' = 0
      /\ down' = Append(down, Removed)
      /\ UNCHANGED <<history, cached, savedToken, lastSnapshot, listening, localToken, remoteToken,
                     stream, state, mismatch, view>>
  BY DEF AnswersUnwatch, disk, tokens, aggregator
<1>3. up \in Seq(Request) /\ down \in Seq(Message)
  BY <1>1 DEF TypeOK
<1> DEFINE n == Len(down)
<1>4. /\ n \in Nat /\ DOMAIN down = 1 .. n /\ DOMAIN down' = 1 .. n + 1 /\ down' # << >>
      /\ \A i \in 1 .. n : down'[i] = down[i]
      /\ down'[n + 1] = Removed
      /\ down = << >> <=> n = 0
  BY <1>2, <1>3, SeqFacts, AppendFacts, Constructed
<1> HIDE DEF n
<1>5. \A i \in 1 .. n + 1 : i \in 1 .. n \/ (i = n + 1 /\ down'[i] = Removed)
  BY <1>4
<1>6. IsAck(Removed) /\ ~IsSnapshot(Removed) /\ ~IsFilter(Removed) /\ ~IsDocument(Removed)
  BY Constructed DEF IsAck, IsSnapshot, IsFilter, IsDocument
<1>7. \A i \in 1 .. n : i \in 1 .. n + 1
  BY <1>4
<1>8. Batches'
  <2>1. FiltersCount'
    BY <1>1, <1>2, <1>4, <1>5, <1>6, <1>7 DEF Batches, FiltersCount
  <2>2. DocumentsAreTrue'
    <3> SUFFICES ASSUME NEW i \in 1 .. n + 1, IsDocument(down'[i])
                 PROVE  \E s \in DOMAIN down' :
                          /\ First(down', i, s)
                          /\ down'[i].matches <=> down'[i].doc \in history'[down'[s].version]
      BY <1>4 DEF DocumentsAreTrue
    <3>1. i \in 1 .. n
      BY <1>5, <1>6
    <3>2. PICK s \in 1 .. n : /\ First(down, i, s)
                              /\ down[i].matches <=> down[i].doc \in history[down[s].version]
      BY <1>1, <1>4, <3>1 DEF Batches, DocumentsAreTrue
    <3>3. First(down', i, s)
      BY <1>4, <1>5, <1>6, <1>7, <3>2 DEF First
    <3> QED BY <1>2, <1>4, <1>7, <3>1, <3>2, <3>3
  <2>3. ResetsTellAll'
    <3> SUFFICES ASSUME NEW i \in 1 .. n + 1, IsReset(down'[i])
                 PROVE  \E s \in DOMAIN down' :
                          /\ First(down', i, s)
                          /\ Brings(down', i, s, history'[down'[s].version], {})
      BY <1>4 DEF ResetsTellAll
    <3>1. i \in 1 .. n
      BY <1>5, <1>6 DEF IsReset, IsAck
    <3>2. PICK s \in 1 .. n : /\ First(down, i, s)
                              /\ Brings(down, i, s, history[down[s].version], {})
      BY <1>1, <1>4, <3>1 DEF Batches, ResetsTellAll
    <3>3. First(down', i, s)
      BY <1>4, <1>5, <1>6, <1>7, <3>2 DEF First
    <3>4. Brings(down', i, s, history[down[s].version], {})
      BY <1>4, <1>7, <3>2 DEF Brings
    <3> QED BY <1>2, <1>4, <1>7, <3>2, <3>3, <3>4
  <2> QED BY <2>1, <2>2, <2>3 DEF Batches
<1>9. listening => up' # << >> /\ up'[Len(up')] = up[Len(up)]
  <2>1. Head(up) = up[1]
    BY <1>2, <1>3, TailFacts
  <2>2. listening => up[Len(up)] # up[1]
    BY <1>1, <1>2, <2>1 DEF Requests
  <2> QED BY <1>2, <1>3, <2>2, LastFacts
<1>10. Requests'
  BY <1>1, <1>2, <1>9 DEF Requests
<1>11. Watched' /\ Complete'
  BY <1>2, <1>9 DEF Heard, Watched, Complete
<1>12. ~Active /\ ~Active'
  <2>1. Len(up) # 0 /\ Len(up) \in Nat
    BY <1>2, <1>3, SeqFacts
  <2>2. Acks(down) \in Nat
    BY <1>3, AcksFinite
  <2> QED BY <1>1, <1>2, <2>1, <2>2 DEF AcksAreCounted, Active
<1>13. down # << >> => 1 \in DOMAIN down /\ down'[1] = down[1]
  BY <1>4
<1>14. Receiving' /\ MismatchIsNext'
  BY <1>1, <1>2, <1>4, <1>12, <1>13 DEF Receiving, MismatchIsNext
<1>15. CurrentAwaitsAck'
  <2>1. down = << >> => down'[1] = Removed
    BY <1>4
  <2> QED BY <1>1, <1>2, <1>4, <1>6, <1>13, <2>1 DEF CurrentAwaitsAck
<1>16. TokensFit' /\ CurrentMeansMatching'
  BY <1>1, <1>2 DEF TokensFit, CurrentMeansMatching
<1> QED BY <1>8, <1>10, <1>11, <1>14, <1>15, <1>16 DEF Channel, Client

\* t is the messages q without the first.
Shifted(t, q) ==
    /\ \A i \in Nat, s \in DOMAIN t : First(t, i, s) <=> First(q, i + 1, s + 1)
    /\ \A i \in Nat : Quiet(t, i) <=> Quiet(q, i + 1)
    /\ \A i, s \in Nat : \A h, keys :
         /\ Brings(t, i, s, h, keys) <=> Brings(q, i + 1, s + 1, h, keys)
         /\ (s # 1 \/ ~IsFilter(q[1])) /\ Brought(q, i + 1, s + 1, h, keys) => Brought(t, i, s, h, keys)
    /\ \A s \in Nat : ~IsFilter(q[1]) /\ Counted(q, s + 1) => Counted(t, s)

LEMMA TailShifted ==
    ASSUME NEW q \in Seq(Message), q # << >>
    PROVE  Shifted(Tail(q), q)
<1> DEFINE t == Tail(q)
           n == Len(q)
<1>1. /\ n \in Nat /\ n >= 1 /\ DOMAIN q = 1 .. n /\ DOMAIN t = 1 .. n - 1
      /\ \A i \in 1 .. n - 1 : t[i] = q[i + 1]
  BY TailFacts, SeqFacts
<1> HIDE DEF t, n
<1>2. /\ \A j \in 1 .. n - 1 : j + 1 \in 1 .. n
      /\ \A j \in 1 .. n : j > 1 => j - 1 \in 1 .. n - 1 /\ (j - 1) + 1 = j
      /\ \A j \in 1 .. n : \A i \in Nat : j > i + 1 => j > 1 /\ j - 1 > i
      /\ \A j \in 1 .. n - 1 : \A i \in Nat : (j > i <=> j + 1 > i + 1) /\ (j < i <=> j + 1 < i + 1)
  BY <1>1
<1>3. \A j \in 1 .. n : j > 1 => t[j - 1] = q[j]
  BY <1>1, <1>2
<1>4. ASSUME NEW i \in Nat, NEW s \in DOMAIN t PROVE First(t, i, s) <=> First(q, i + 1, s + 1)
  <2>1. s \in Nat /\ s + 1 \in DOMAIN q /\ t[s] = q[s + 1] /\ (i < s <=> i + 1 < s + 1)
    BY <1>1, <1>4
  <2>2. ASSUME First(t, i, s) PROVE First(q, i + 1, s + 1)
    <3> SUFFICES ASSUME NEW j \in 1 .. n, i + 1 < j, j < s + 1 PROVE ~IsSnapshot(q[j])
      BY <1>1, <2>1, <2>2 DEF First
    <3>1. j - 1 \in 1 .. n - 1 /\ i < j - 1 /\ j - 1 < s /\ t[j - 1] = q[j]
      BY <1>1, <1>3, <2>1
    <3> QED BY <1>1, <2>2, <3>1 DEF First
  <2>3. ASSUME First(q, i + 1, s + 1) PROVE First(t, i, s)
    <3> SUFFICES ASSUME NEW j \in 1 .. n - 1, i < j, j < s PROVE ~IsSnapshot(t[j])
      BY <1>1, <1>4, <2>1, <2>3 DEF First
    <3>1. j + 1 \in 1 .. n /\ i + 1 < j + 1 /\ j + 1 < s + 1 /\ t[j] = q[j + 1]
      BY <1>1, <2>1
    <3> QED BY <1>1, <2>3, <3>1 DEF First
  <2> QED BY <2>2, <2>3
<1>5. ASSUME NEW i \in Nat PROVE Quiet(t, i) <=> Quiet(q, i + 1)
  <2>1. ASSUME Quiet(t, i), NEW j \in 1 .. n, j > i + 1 PROVE ~IsAck(q[j])
    <3>1. j - 1 \in 1 .. n - 1 /\ j - 1 > i /\ t[j - 1] = q[j]
      BY <1>1, <1>3, <2>1
    <3> QED BY <1>1, <2>1, <3>1 DEF Quiet
  <2>2. ASSUME Quiet(q, i + 1), NEW j \in 1 .. n - 1, j > i PROVE ~IsAck(t[j])
    <3>1. j + 1 \in 1 .. n /\ j + 1 > i + 1 /\ t[j] = q[j + 1]
      BY <1>1, <2>2
    <3> QED BY <1>1, <2>2, <3>1 DEF Quiet
  <2> QED BY <1>1, <2>1, <2>2 DEF Quiet
<1>6. ASSUME NEW i \in Nat, NEW s \in Nat, NEW h, NEW keys
      PROVE  Brings(t, i, s, h, keys) <=> Brings(q, i + 1, s + 1, h, keys)
  <2>1. ASSUME Brings(t, i, s, h, keys), NEW d \in h \ keys
        PROVE  \E j \in DOMAIN q : i + 1 < j /\ j < s + 1 /\ Comes(q[j], d)
    <3>1. PICK j \in 1 .. n - 1 : i < j /\ j < s /\ Comes(t[j], d)
      BY <1>1, <2>1 DEF Brings
    <3>2. j + 1 \in 1 .. n /\ i + 1 < j + 1 /\ j + 1 < s + 1 /\ t[j] = q[j + 1]
      BY <1>1, <3>1
    <3> QED BY <1>1, <3>1, <3>2
  <2>2. ASSUME Brings(q, i + 1, s + 1, h, keys), NEW d \in h \ keys
        PROVE  \E j \in DOMAIN t : i < j /\ j < s /\ Comes(t[j], d)
    <3>1. PICK j \in 1 .. n : i + 1 < j /\ j < s + 1 /\ Comes(q[j], d)
      BY <1>1, <2>2 DEF Brings
    <3>2. j - 1 \in 1 .. n - 1 /\ i < j - 1 /\ j - 1 < s /\ t[j - 1] = q[j]
      BY <1>1, <1>3, <3>1
    <3> QED BY <1>1, <3>1, <3>2
  <2> QED BY <2>1, <2>2 DEF Brings
<1>7. ASSUME NEW i \in Nat, NEW s \in Nat, NEW h, NEW keys, Drops(q, i + 1, s + 1, h, keys)
      PROVE  Drops(t, i, s, h, keys)
  <2> SUFFICES ASSUME NEW d \in keys \ h
               PROVE  \E j \in DOMAIN t : i < j /\ j < s /\ Goes(t[j], d)
    BY DEF Drops
  <2>1. PICK j \in 1 .. n : i + 1 < j /\ j < s + 1 /\ Goes(q[j], d)
    BY <1>1, <1>7 DEF Drops
  <2>2. j - 1 \in 1 .. n - 1 /\ i < j - 1 /\ j - 1 < s /\ t[j - 1] = q[j]
    BY <1>1, <1>3, <2>1
  <2> QED BY <1>1, <2>1, <2>2
<1>8. ASSUME NEW s \in Nat, s # 1 \/ ~IsFilter(q[1]), Counted(q, s + 1) PROVE Counted(t, s)
  <2>1. (s + 1) - 1 = s
    OBVIOUS
  <2>2. s \in 1 .. n /\ IsFilter(q[s])
    BY <1>1, <1>8, <2>1 DEF Counted
  <2>3. s > 1
    BY <1>8, <2>2
  <2> QED BY <1>1, <1>2, <1>3, <2>2, <2>3 DEF Counted
<1>9. \A i, s \in Nat : \A h, keys :
            (s # 1 \/ ~IsFilter(q[1])) /\ Brought(q, i + 1, s + 1, h, keys) => Brought(t, i, s, h, keys)
  BY <1>6, <1>7, <1>8 DEF Brought
<1> QED BY <1>4, <1>5, <1>6, <1>8, <1>9 DEF Shifted, t

LEMMA TakenBatches ==
    ASSUME TypeOK, Batches, down # << >>, down' = Tail(down), history' = history
    PROVE  Batches'
<1> DEFINE n == Len(down)
<1>1. /\ n \in Nat /\ n >= 1 /\ DOMAIN down = 1 .. n /\ DOMAIN down' = 1 .. n - 1
      /\ \A i \in 1 .. n - 1 : down'[i] = down[i + 1]
  <2>1. down \in Seq(Message)
    BY DEF TypeOK
  <2> QED BY <2>1, TailFacts, SeqFacts
<1>2. Shifted(down', down)
  BY TailShifted DEF TypeOK
<1> HIDE DEF n
<1>3. \A i \in 1 .. n - 1 : i \in Nat /\ i + 1 \in 1 .. n
  BY <1>1
<1>4. \A i \in 1 .. n : i > 1 => i - 1 \in 1 .. n - 1 /\ i - 1 \in Nat /\ (i - 1) + 1 = i
  BY <1>1
<1>5. FiltersCount'
  <2> SUFFICES ASSUME NEW i \in 1 .. n - 1, IsFilter(down'[i])
               PROVE  /\ i + 1 \in 1 .. n - 1 /\ IsSnapshot(down'[i + 1])
                      /\ down'[i].count = Cardinality(history[down'[i + 1].version])
    BY <1>1 DEF FiltersCount
  <2> DEFINE k == i + 1
  <2>1. k \in 1 .. n /\ down'[i] = down[k]
    BY <1>1, <1>3
  <2>2. /\ k + 1 \in 1 .. n /\ IsSnapshot(down[k + 1])
        /\ down[k].count = Cardinality(history[down[k + 1].version])
    BY <1>1, <2>1 DEF Batches, FiltersCount
  <2>3. k \in 1 .. n - 1
    BY <1>1, <2>2
  <2> QED BY <1>1, <2>1, <2>2, <2>3
<1>6. DocumentsAreTrue'
  <2> SUFFICES ASSUME NEW i \in 1 .. n - 1, IsDocument(down'[i])
               PROVE  \E s \in 1 .. n - 1 :
                        /\ First(down', i, s)
                        /\ down'[i].matches <=> down'[i].doc \in history[down'[s].version]
    BY <1>1 DEF DocumentsAreTrue
  <2> DEFINE k == i + 1
  <2>1. k \in 1 .. n /\ down'[i] = down[k] /\ i \in Nat
    BY <1>1, <1>3
  <2>2. PICK s \in 1 .. n : /\ First(down, k, s)
                            /\ down[k].matches <=> down[k].doc \in history[down[s].version]
    BY <1>1, <2>1 DEF Batches, DocumentsAreTrue
  <2>3. s > 1
    BY <1>1, <2>1, <2>2 DEF First
  <2>4. s - 1 \in 1 .. n - 1 /\ (s - 1) + 1 = s
    BY <1>4, <2>3
  <2>5. First(down', i, s - 1) /\ down'[s - 1] = down[s]
    BY <1>1, <1>2, <2>1, <2>2, <2>4 DEF Shifted
  <2> QED BY <2>1, <2>2, <2>4, <2>5
<1>7. ResetsTellAll'
  <2> SUFFICES ASSUME NEW i \in 1 .. n - 1, IsReset(down'[i])
               PROVE  \E s \in 1 .. n - 1 :
                        /\ First(down', i, s)
                        /\ Brings(down', i, s, history[down'[s].version], {})
    BY <1>1 DEF ResetsTellAll
  <2> DEFINE k == i + 1
  <2>1. k \in 1 .. n /\ down'[i] = down[k] /\ i \in Nat
    BY <1>1, <1>3
  <2>2. PICK s \in 1 .. n : /\ First(down, k, s)
                            /\ Brings(down, k, s, history[down[s].version], {})
    BY <1>1, <2>1 DEF Batches, ResetsTellAll
  <2>3. s > 1
    BY <1>1, <2>1, <2>2 DEF First
  <2>4. s - 1 \in 1 .. n - 1 /\ (s - 1) + 1 = s /\ s - 1 \in Nat
    BY <1>4, <2>3
  <2>5. First(down', i, s - 1) /\ down'[s - 1] = down[s]
    BY <1>1, <1>2, <2>1, <2>2, <2>4 DEF Shifted
  <2> DEFINE h == history[down[s].version]
  <2>6. Brings(down, i + 1, (s - 1) + 1, h, {})
    BY <2>2, <2>4
  <2> HIDE DEF h
  <2>7. Brings(down', i, s - 1, h, {})
    BY <1>2, <2>1, <2>4, <2>6 DEF Shifted
  <2> QED BY <2>4, <2>5, <2>7 DEF h
<1> QED BY <1>5, <1>6, <1>7 DEF Batches

\* The messages after the first, as the ones of down.
LEMMA TakenPlaces ==
    ASSUME TypeOK, down # << >>, down' = Tail(down)
    PROVE  /\ 1 \in DOMAIN down /\ Shifted(down', down) /\ Len(down) \in Nat
           /\ \A i \in DOMAIN down' : i \in Nat /\ i + 1 \in DOMAIN down /\ down'[i] = down[i + 1]
           /\ IF down' = << >> THEN Len(down) = 1 ELSE down'[Len(down')] = down[Len(down)]
           /\ down' # << >> => 1 \in DOMAIN down' /\ down'[1] = down[2] /\ 2 \in DOMAIN down
           /\ 2 \in DOMAIN down => 1 \in DOMAIN down'
<1>1. down \in Seq(Message)
  BY DEF TypeOK
<1>2. Shifted(down', down)
  BY <1>1, TailShifted
<1>3. /\ Len(down) \in Nat /\ Len(down) >= 1
      /\ DOMAIN down = 1 .. Len(down) /\ DOMAIN down' = 1 .. Len(down) - 1
      /\ \A i \in 1 .. Len(down) - 1 : down'[i] = down[i + 1]
      /\ down' = << >> <=> Len(down) - 1 = 0
  <2>1. /\ Tail(down) \in Seq(Message) /\ Len(Tail(down)) = Len(down) - 1 /\ Len(down) >= 1
        /\ \A i \in DOMAIN Tail(down) : Tail(down)[i] = down[i + 1]
    BY <1>1, TailFacts
  <2>2. Len(down) \in Nat /\ DOMAIN down = 1 .. Len(down)
    BY <1>1, SeqFacts
  <2>3. DOMAIN Tail(down) = 1 .. Len(down) - 1 /\ (Tail(down) = << >> <=> Len(down) - 1 = 0)
    BY <2>1, SeqFacts
  <2> QED BY <2>1, <2>2, <2>3
<1>4. \A i \in 1 .. Len(down) - 1 : i \in Nat /\ i + 1 \in 1 .. Len(down)
  BY <1>3
<1>5. /\ Len(down) - 1 # 0 => 1 \in 1 .. Len(down) - 1
      /\ 1 \in 1 .. Len(down) /\ (2 \in 1 .. Len(down) => 1 \in 1 .. Len(down) - 1)
      /\ 1 \in 1 .. Len(down) - 1 => 2 \in 1 .. Len(down)
  BY <1>3
<1>6. IF down' = << >> THEN Len(down) = 1 ELSE down'[Len(down')] = down[Len(down)]
  BY <1>1, LastFacts
<1>7. down' # << >> => down'[1] = down[2]
  BY <1>3, <1>5
<1> QED BY <1>2, <1>3, <1>4, <1>5, <1>6, <1>7

\* The target is active: the client has sent no request and gets no ack.
LEMMA ActiveFacts ==
    ASSUME Types, Active
    PROVE  /\ up = << >> /\ listening /\ view.synced = cached
           /\ \A i \in DOMAIN down : ~IsAck(down[i])
           /\ \A i \in Nat : Quiet(down, i)
           /\ down # << >> => Heard
<1>1. up \in Seq(Request) /\ down \in Seq(Message) /\ state.outstanding = 0 /\ listening
  BY DEF Types, TypeOK, Active
<1>2. Len(up) \in Nat /\ Acks(down) \in Nat /\ 0 = Len(up) + Acks(down)
  BY <1>1, SeqFacts, AcksFinite DEF Types, AcksAreCounted
<1>3. Len(up) = 0 /\ Acks(down) = 0
  BY <1>2
<1>4. up = << >> /\ \A i \in DOMAIN down : ~IsAck(down[i])
  BY <1>1, <1>3, SeqFacts, AcksFinite
<1>5. down # << >> => stream = "open"
  BY DEF Types, NothingOpen
<1> QED BY <1>1, <1>4, <1>5 DEF Quiet, Heard, Types, MappingsAgree

\* What Watched and Complete say of the messages holds of those after the first.
LEMMA TakenComplete ==
    ASSUME TypeOK, Watched, Complete, Heard, down # << >>, down' = Tail(down)
    PROVE  /\ \A a \in DOMAIN down' : IsAck(down'[a]) /\ Quiet(down', a) => down'[a].type = "added"
           /\ down' # << >> => /\ IsSnapshot(down'[Len(down')])
                               /\ down'[Len(down')].version = told
           /\ \A a, s \in DOMAIN down' : IsAck(down'[a]) /\ Quiet(down', a) /\ First(down', a, s) =>
                Brought(down', a, s, history[down'[s].version], cached)
           /\ \A p, s \in DOMAIN down' : IsSnapshot(down'[p]) /\ Quiet(down', p) /\ First(down', p, s) =>
                Brought(down', p, s, history[down'[s].version], history[down'[p].version])
<1>1. /\ Shifted(down', down)
      /\ \A i \in DOMAIN down' : i \in Nat /\ i + 1 \in DOMAIN down /\ down'[i] = down[i + 1]
      /\ down' # << >> => down'[Len(down')] = down[Len(down)]
  BY TakenPlaces
<1>2. \A i, s \in DOMAIN down' : First(down', i, s) => s # 1
  <2>1. down' \in Seq(Message) /\ DOMAIN down' = 1 .. Len(down')
    BY TailFacts, SeqFacts DEF TypeOK
  <2>2. \A i, s \in DOMAIN down' : i < s => s # 1
    BY <2>1
  <2> QED BY <2>2 DEF First
<1>3. ASSUME NEW a \in DOMAIN down', IsAck(down'[a]), Quiet(down', a)
      PROVE  down'[a].type = "added"
  BY <1>1, <1>3 DEF Watched, Shifted
<1>4. down' # << >> => IsSnapshot(down'[Len(down')]) /\ down'[Len(down')].version = told
  BY <1>1 DEF Watched
<1>5. ASSUME NEW a \in DOMAIN down', NEW s \in DOMAIN down',
             IsAck(down'[a]), Quiet(down', a), First(down', a, s)
      PROVE  Brought(down', a, s, history[down'[s].version], cached)
  <2>1. /\ a \in Nat /\ a + 1 \in DOMAIN down /\ IsAck(down[a + 1])
        /\ s \in Nat /\ s + 1 \in DOMAIN down /\ down'[s] = down[s + 1]
    BY <1>1, <1>5
  <2>2. Quiet(down, a + 1) /\ First(down, a + 1, s + 1)
    BY <1>1, <1>5, <2>1 DEF Shifted
  <2>3. Brought(down, a + 1, s + 1, history[down[s + 1].version], cached)
    BY <2>1, <2>2 DEF Complete
  <2>4. s # 1
    BY <1>2, <1>5
  <2> DEFINE h == history[down[s + 1].version]
  <2> HIDE DEF h
  <2>5. Brought(down', a, s, h, cached)
    BY <1>1, <2>1, <2>3, <2>4 DEF Shifted, h
  <2> QED BY <2>1, <2>5 DEF h
<1>6. ASSUME NEW p \in DOMAIN down', NEW s \in DOMAIN down',
             IsSnapshot(down'[p]), Quiet(down', p), First(down', p, s)
      PROVE  Brought(down', p, s, history[down'[s].version], history[down'[p].version])
  <2>1. /\ p \in Nat /\ p + 1 \in DOMAIN down /\ IsSnapshot(down[p + 1]) /\ down'[p] = down[p + 1]
        /\ s \in Nat /\ s + 1 \in DOMAIN down /\ down'[s] = down[s + 1]
    BY <1>1, <1>6
  <2>2. Quiet(down, p + 1) /\ First(down, p + 1, s + 1)
    BY <1>1, <1>6, <2>1 DEF Shifted
  <2>3. Brought(down, p + 1, s + 1, history[down[s + 1].version], history[down[p + 1].version])
    BY <2>1, <2>2 DEF Complete
  <2>4. s # 1
    BY <1>2, <1>6
  <2> DEFINE h == history[down[s + 1].version]
             k == history[down[p + 1].version]
  <2> HIDE DEF h, k
  <2>5. Brought(down', p, s, h, k)
    BY <1>1, <2>1, <2>3, <2>4 DEF Shifted, h, k
  <2> QED BY <2>1, <2>5 DEF h, k
<1> QED BY <1>3, <1>4, <1>5, <1>6

\* Any message but a snapshot leaves what is stored and asked.
LEMMA ArrivalChannel ==
    ASSUME IInv, down # << >>, down' = Tail(down), ~IsSnapshot(down[1]),
           UNCHANGED <<server, up, disk, listening, tokens, stream, view, bounds>>
    PROVE  Channel' /\ TokensFit' /\ CurrentMeansMatching'
<1>1. UNCHANGED <<history, told, up, cached, savedToken, lastSnapshot, listening, localToken,
                  remoteToken, stream, view>>
  BY DEF server, disk, tokens
<1>2. TypeOK /\ Batches /\ Requests /\ Watched /\ Complete /\ TokensFit /\ CurrentMeansMatching
  BY DEF IInv, Types, Channel, Client
<1>3. Batches'
  BY <1>1, <1>2, TakenBatches
<1>4. 1 \in DOMAIN down /\ (down' = << >> => Len(down) = 1)
  BY <1>2, TakenPlaces
<1>5. Requests' /\ TokensFit' /\ CurrentMeansMatching'
  BY <1>1, <1>2 DEF Requests, TokensFit, CurrentMeansMatching
<1>6. (Heard' <=> Heard) /\ (Heard => down' # << >>)
  BY <1>1, <1>2, <1>4 DEF Heard, Watched
<1>7. Watched'
  BY <1>1, <1>2, <1>6, TakenComplete DEF Watched
<1>8. Complete'
  BY <1>1, <1>2, <1>6, TakenComplete DEF Complete
<1> QED BY <1>3, <1>5, <1>7, <1>8 DEF Channel

\* The next snapshot, with another message than a snapshot taken from before it.
LEMMA NextSnapshot ==
    ASSUME IInv, down # << >>, down' = Tail(down), ~IsSnapshot(down[1]),
           NEW s \in DOMAIN down', First(down', 0, s)
    PROVE  /\ s \in Nat /\ s + 1 \in DOMAIN down /\ down'[s] = down[s + 1]
           /\ First(down, 1, s + 1) /\ First(down, 0, s + 1)
           /\ \A r \in DOMAIN down : First(down, 1, r) => r = s + 1
<1>1. TypeOK /\ Batches
  BY DEF IInv, Types, Channel
<1>2. /\ 1 \in DOMAIN down /\ Shifted(down', down)
      /\ s \in Nat /\ s + 1 \in DOMAIN down /\ down'[s] = down[s + 1]
  BY <1>1, TakenPlaces
<1>3. First(down, 1, s + 1)
  BY <1>2 DEF Shifted
<1>4. First(down, 0, s + 1)
  <2>1. DOMAIN down \subseteq Nat
    BY <1>1, SeqFacts DEF TypeOK
  <2>2. \A j \in DOMAIN down : 0 < j => j = 1 \/ 1 < j
    BY <2>1
  <2> QED BY <1>2, <1>3, <2>2 DEF First
<1>5. ASSUME NEW r \in DOMAIN down, First(down, 1, r) PROVE r = s + 1
  <2>1. r \in Nat
    BY <1>1, SeqFacts DEF TypeOK
  <2>2. ~(r < s + 1) /\ ~(s + 1 < r)
    BY <1>2, <1>3, <1>5 DEF First
  <2> QED BY <1>2, <2>1, <2>2
<1> QED BY <1>2, <1>3, <1>4, <1>5

\* What the next snapshot still brings, if the message taken told of no other key.
LEMMA StillBrought ==
    ASSUME IInv, Active, down # << >>, down' = Tail(down),
           ~IsSnapshot(down[1]), ~IsFilter(down[1]),
           NEW s \in DOMAIN down', First(down', 0, s), NEW keys,
           \A d \in history[down'[s].version] \ keys : d \notin Keys /\ ~Comes(down[1], d),
           \A d \in keys \ history[down'[s].version] : d \in Keys /\ ~Goes(down[1], d)
    PROVE  Brought(down', 0, s, history[down'[s].version], keys)
<1> DEFINE h == history[down'[s].version]
<1>1. /\ s \in Nat /\ s + 1 \in DOMAIN down /\ down'[s] = down[s + 1] /\ First(down, 0, s + 1)
  BY NextSnapshot
<1>2. TypeOK /\ Receiving /\ ~mismatch
  BY DEF IInv, Types, Client, MismatchIsNext
<1>3. Brought(down, 0, s + 1, h, Keys)
  BY <1>1, <1>2 DEF Receiving
<1>4. \A d \in h \ keys : d \in h \ Keys /\ ~Comes(down[1], d)
  OBVIOUS
<1>5. \A d \in keys \ h : d \in Keys \ h /\ ~Goes(down[1], d)
  OBVIOUS
<1>6. Shifted(down', down) /\ DOMAIN down \subseteq Nat
  BY <1>2, TakenPlaces, SeqFacts DEF TypeOK
<1> HIDE DEF h
<1>7. \A j \in DOMAIN down : 0 < j /\ j # 1 => 1 < j
  BY <1>6
<1>8. Brings(down, 0, s + 1, h, Keys) => Brings(down, 1, s + 1, h, keys)
  BY <1>4, <1>7 DEF Brings
<1>9. Drops(down, 0, s + 1, h, Keys) => Drops(down, 1, s + 1, h, keys)
  BY <1>5, <1>7 DEF Drops
<1>10. Keys \subseteq h => keys \subseteq h
  BY <1>5
<1>11. Brought(down, 1, s + 1, h, keys)
  BY <1>3, <1>8, <1>9, <1>10 DEF Brought
<1>12. Brought(down, 0 + 1, s + 1, h, keys)
  BY <1>11
<1> QED BY <1>1, <1>6, <1>12 DEF Shifted, h

LEMMA AckKeeps == IInv /\ (AddedArrives \/ RemovedArrives) =>
                        (Channel /\ Client /\ CurrentMeansMatching)'
<1> SUFFICES ASSUME IInv, AddedArrives \/ RemovedArrives
             PROVE  (Channel /\ Client /\ CurrentMeansMatching)'
  OBVIOUS
<1>1. /\ down # << >> /\ down' = Tail(down) /\ Head(down).type \in {"added", "removed"}
      /\ UNCHANGED <<server, up, disk, listening, tokens, stream, view, bounds>>
      /\ mismatch' = mismatch
      /\ RemovedArrives => Head(down).type = "removed"
  BY DEF AddedArrives, RemovedArrives, Receive
<1>2. /\ Types /\ TypeOK /\ MappingsAgree /\ AcksAreCounted /\ NothingOpen /\ Known
      /\ Watched /\ Complete /\ MismatchIsNext /\ CurrentAwaitsAck
  BY DEF IInv, Types, Channel, Client
<1>3. UNCHANGED <<history, told, up, cached, listening, stream, view>>
  BY <1>1 DEF server, disk
<1>4. /\ Head(down) = down[1] /\ Acks(down') = Acks(down) - 1 /\ state.outstanding >= 1
      /\ down' \in Seq(Message) /\ IsAck(down[1])
  BY <1>1, <1>2, <1>3, TakenFacts DEF IsAck
<1>5. /\ state.outstanding \in Nat /\ state'.outstanding = state.outstanding - 1
      /\ state'.outstanding = 0 => state'.changes = NoChanges
  <2>1. state \in TargetState
    BY <1>2 DEF TypeOK
  <2> QED BY <1>4, <2>1, AckState, StateFacts
<1>6. ~IsSnapshot(down[1]) /\ ~IsFilter(down[1])
  BY <1>4 DEF IsAck, IsSnapshot, IsFilter
<1>7. Channel' /\ TokensFit' /\ CurrentMeansMatching'
  BY <1>1, <1>6, ArrivalChannel
<1>8. MismatchIsNext'
  BY <1>1, <1>2, <1>6 DEF MismatchIsNext
<1>9. CurrentAwaitsAck'
  <2>1. state.outstanding = 1 => state'.outstanding = 0
    BY <1>5
  <2> QED BY <1>2, <1>3, <1>4, <1>5, <2>1 DEF CurrentAwaitsAck
<1>10. Receiving'
  <2> SUFFICES ASSUME listening, state'.outstanding = 0,
                      NEW s \in DOMAIN down', First(down', 0, s)
               PROVE  Brought(down', 0, s, history[down'[s].version], Keys')
    BY <1>3 DEF Receiving, Active
  <2>1. up = << >> /\ \A i \in DOMAIN down' : ~IsAck(down'[i])
    <3>1. up \in Seq(Request) /\ down \in Seq(Message)
      BY <1>2 DEF TypeOK
    <3>2. Len(up) \in Nat /\ Acks(down) \in Nat /\ Acks(down') \in Nat
      BY <1>4, <3>1, SeqFacts, AcksFinite
    <3>3. Len(up) = 0 /\ Acks(down') = 0
      BY <1>2, <1>4, <1>5, <3>2 DEF AcksAreCounted
    <3> QED BY <1>4, <3>1, <3>3, SeqFacts, AcksFinite
  <2>2. Heard
    BY <1>1, <1>2, <2>1 DEF Heard, NothingOpen
  <2>3. 1 \in DOMAIN down /\ Shifted(down', down)
    BY <1>1, <1>2, TakenPlaces
  <2>4. Quiet(down, 1)
    <3>1. Quiet(down', 0) <=> Quiet(down, 0 + 1)
      BY <2>3 DEF Shifted
    <3> QED BY <2>1, <3>1 DEF Quiet
  <2>5. AddedArrives
    <3>1. down[1].type = "added"
      BY <1>2, <1>4, <2>2, <2>3, <2>4 DEF Watched
    <3> QED BY <1>1, <1>4, <3>1
  <2>6. Keys' = cached
    <3>1. state'.changes = NoChanges /\ view'.synced = cached
      BY <1>2, <1>3, <1>5, <2>5 DEF MappingsAgree
    <3>2. cached \subseteq Docs
      BY <1>2 DEF TypeOK
    <3> QED BY <3>1, <3>2 DEF Keys, Changed, With, NoChanges
  <2>7. /\ s \in Nat /\ s + 1 \in DOMAIN down /\ down'[s] = down[s + 1]
        /\ First(down, 1, s + 1)
    BY <1>1, <1>6, NextSnapshot
  <2> DEFINE h == history[down'[s].version]
  <2>8. Brought(down, 0 + 1, s + 1, h, cached)
    BY <1>2, <1>4, <2>2, <2>3, <2>4, <2>7 DEF Complete
  <2> HIDE DEF h
  <2>9. Brought(down', 0, s, h, cached)
    BY <1>6, <2>3, <2>7, <2>8 DEF Shifted
  <2> QED BY <2>6, <2>9 DEF h
<1> QED BY <1>7, <1>8, <1>9, <1>10 DEF Client

\* What GetCurrentDocumentCountForTarget counts.
LEMMA CountFacts ==
    ASSUME Types, Active
    PROVE  Count = Cardinality(Keys) /\ IsFiniteSet(Keys)
<1> DEFINE V == view.synced
           A == With(state, "added")
           R == With(state, "removed")
<1>1. /\ V \in SUBSET Docs /\ A \in SUBSET Docs /\ R \in SUBSET Docs
      /\ A \intersect V = {} /\ R \subseteq V
  BY DEF Types, TypeOK, MappingsAgree, View, With
<1>2. Keys = (V \ R) \union A /\ Count = Cardinality(V) + Cardinality(A) - Cardinality(R)
  BY DEF Keys, Changed, Count
<1> HIDE DEF V, A, R
<1>3. IsFiniteSet(V) /\ IsFiniteSet(A) /\ IsFiniteSet(R)
  BY <1>1, DocsFinite, FS_Subset
<1>4. V \intersect R = R /\ (V \ R) \intersect A = {}
  BY <1>1
<1>5. IsFiniteSet(V \ R) /\ Cardinality(V \ R) = Cardinality(V) - Cardinality(R)
  <2>1. /\ IsFiniteSet(V \ R)
        /\ Cardinality(V \ R) = Cardinality(V) - Cardinality(V \intersect R)
    BY <1>3, FS_Difference
  <2> QED BY <1>4, <2>1
<1>6. /\ IsFiniteSet((V \ R) \union A)
      /\ Cardinality((V \ R) \union A) = Cardinality(V \ R) + Cardinality(A) - Cardinality({})
  <2>1. (V \ R) \intersect A = {} /\ IsFiniteSet(V \ R) /\ IsFiniteSet(A)
    BY <1>3, <1>4, <1>5
  <2> DEFINE W == V \ R
  <2> HIDE DEF W
  <2>2. /\ IsFiniteSet(W \union A)
        /\ Cardinality(W \union A) = Cardinality(W) + Cardinality(A) - Cardinality(W \intersect A)
    BY <2>1, FS_Union DEF W
  <2> QED BY <2>1, <2>2 DEF W
<1>7. /\ Cardinality({}) = 0
      /\ Cardinality(V) \in Nat /\ Cardinality(A) \in Nat /\ Cardinality(R) \in Nat
  BY <1>3, FS_EmptySet, FS_CardinalityType
<1> QED BY <1>2, <1>5, <1>6, <1>7

\* The keys after a document's message and after a reset.
LEMMA KeysAfter ==
    ASSUME Types, view' = view
    PROVE  /\ \A d \in Docs, in \in BOOLEAN :
                state' = [state EXCEPT !.changes[d] = Change(d, in)] =>
                    Keys' = IF in THEN Keys \union {d} ELSE Keys \ {d}
           /\ state' = Reset => Keys' = {}
           /\ state'.changes = state.changes => Keys' = Keys
<1>1. /\ view.synced \in SUBSET Docs /\ state \in TargetState
      /\ state.changes \in [Docs -> {"none", "added", "modified", "removed"}]
  BY StateFacts DEF Types, TypeOK, View
<1>2. ASSUME NEW d \in Docs, NEW in \in BOOLEAN,
             state' = [state EXCEPT !.changes[d] = Change(d, in)]
      PROVE  Keys' = IF in THEN Keys \union {d} ELSE Keys \ {d}
  <2>1. state'.changes = [state.changes EXCEPT ![d] = Change(d, in)]
    BY <1>1, <1>2 DEF TargetState
  <2> DEFINE c == state.changes
             k == state'.changes
  <2>2. /\ \A e \in Docs : e # d => k[e] = c[e]
        /\ k[d] = IF in THEN (IF d \in view.synced THEN "modified" ELSE "added")
                  ELSE (IF d \in view.synced THEN "removed" ELSE "none")
    BY <1>1, <2>1 DEF Change
  <2>3. /\ Keys' = {e \in Docs : (e \in view.synced /\ k[e] # "removed") \/ k[e] = "added"}
        /\ Keys = {e \in Docs : (e \in view.synced /\ c[e] # "removed") \/ c[e] = "added"}
    BY <1>1 DEF Keys, Changed, With
  <2> HIDE DEF c, k
  <2>4. CASE in
    <3>1. d \in Keys'
      BY <2>2, <2>3, <2>4
    <3> QED BY <2>2, <2>3, <2>4, <3>1
  <2>5. CASE ~in
    <3>1. d \notin Keys'
      BY <2>2, <2>3, <2>5
    <3> QED BY <2>2, <2>3, <2>5, <3>1
  <2> QED BY <2>4, <2>5
<1>3. ASSUME state' = Reset PROVE Keys' = {}
  <2>1. \A d \in Docs : state'.changes[d] = IF d \in view.synced THEN "removed" ELSE "none"
    BY <1>3, ResetFacts DEF Types
  <2> QED BY <1>1, <2>1 DEF Keys, Changed, With
<1>4. state'.changes = state.changes => Keys' = Keys
  BY DEF Keys, Changed, With
<1> QED BY <1>2, <1>3, <1>4

LEMMA NoteKeeps ==
    IInv /\ (CurrentArrives \/ DocumentArrives \/ ResetArrives \/ FilterArrives) =>
        (Channel /\ Client /\ CurrentMeansMatching)'
<1> SUFFICES ASSUME IInv, CurrentArrives \/ DocumentArrives \/ ResetArrives \/ FilterArrives
             PROVE  (Channel /\ Client /\ CurrentMeansMatching)'
  OBVIOUS
<1>1. /\ down # << >> /\ down' = Tail(down)
      /\ UNCHANGED <<server, up, disk, listening, tokens, stream, view, bounds>>
      /\ Head(down).type \in {"current", "document", "reset", "filter"}
      /\ CurrentArrives => Head(down).type = "current"
      /\ DocumentArrives => Head(down).type = "document"
      /\ ResetArrives => Head(down).type = "reset"
      /\ FilterArrives => Head(down).type = "filter"
      /\ FilterArrives \/ mismatch' = mismatch
      /\ ~Active => state' = state /\ mismatch' = mismatch
  BY DEF CurrentArrives, DocumentArrives, ResetArrives, FilterArrives, Receive, aggregator
<1>2. /\ Types /\ TypeOK /\ Batches /\ MismatchIsNext /\ CurrentAwaitsAck
  BY DEF IInv, Types, Channel, Client
<1>3. UNCHANGED <<history, told, up, listening, stream, view>>
  BY <1>1 DEF server
<1>4. Head(down) = down[1] /\ down[1] \in Message /\ ~IsAck(down[1]) /\ ~IsSnapshot(down[1])
  <2>1. Head(down) = down[1] /\ down[1] \in Message
    BY <1>1, <1>2, <1>3, TakenFacts DEF Types
  <2> QED BY <1>1, <2>1 DEF IsAck, IsSnapshot
<1>5. Channel' /\ TokensFit' /\ CurrentMeansMatching'
  BY <1>1, <1>4, ArrivalChannel
<1>6. /\ state.outstanding \in Nat /\ state \in TargetState
      /\ Reset.outstanding = 0 /\ ~Reset.current
  BY <1>2, StateFacts, ResetFacts DEF TypeOK
<1>7. ASSUME Active, DocumentArrives
      PROVE  LET d == down[1].doc IN
             /\ d \in Docs /\ down[1].matches \in BOOLEAN
             /\ state' = [state EXCEPT !.changes[d] = Change(d, down[1].matches)]
  BY <1>1, <1>4, <1>7, MessageFacts DEF DocumentArrives, IsDocument
<1>8. state'.outstanding = state.outstanding
  <2>1. CASE ~Active
    BY <1>1, <2>1
  <2>2. CASE Active /\ CurrentArrives
    BY <1>6, <2>2 DEF CurrentArrives, TargetState
  <2>3. CASE Active /\ DocumentArrives
    BY <1>6, <1>7, <2>3 DEF TargetState
  <2>4. CASE Active /\ (ResetArrives \/ FilterArrives)
    BY <1>6, <2>4 DEF ResetArrives, FilterArrives, aggregator, Active
  <2> QED BY <2>1, <2>2, <2>3, <2>4
<1>9. (Active' <=> Active) /\ ~mismatch
  BY <1>2, <1>3, <1>4, <1>8 DEF Active, MismatchIsNext
<1>10. CurrentAwaitsAck'
  BY <1>1, <1>2, <1>3, <1>4, <1>8 DEF CurrentAwaitsAck
<1>11. 1 \in DOMAIN down /\ Shifted(down', down) /\ (down' # << >> => 1 \in DOMAIN down')
       /\ (2 \in DOMAIN down => 1 \in DOMAIN down')
       /\ \A i \in DOMAIN down' : i \in Nat /\ i + 1 \in DOMAIN down /\ down'[i] = down[i + 1]
  BY <1>1, <1>2, TakenPlaces
\* What follows a filter is its snapshot.
<1>12. ASSUME FilterArrives
       PROVE  LET h == history[down'[1].version] IN
              /\ 1 \in DOMAIN down' /\ IsSnapshot(down'[1]) /\ down' # << >>
              /\ down[1].count = Cardinality(h) /\ h \in SUBSET Docs
  <2>1. IsFilter(down[1])
    BY <1>1, <1>4, <1>12 DEF IsFilter
  <2>2. /\ 1 + 1 \in DOMAIN down /\ IsSnapshot(down[1 + 1])
        /\ down[1].count = Cardinality(history[down[1 + 1].version])
    BY <1>2, <1>11, <2>1 DEF Batches, FiltersCount
  <2>3. 1 \in DOMAIN down' /\ down'[1] = down[2] /\ 1 + 1 = 2
    BY <1>11, <2>2
  <2>4. history[down[2].version] \in SUBSET Docs
    <3>1. down[2] \in Message /\ down[2].version \in Versions /\ down[2].version <= Now
      <4>1. down \in Seq(Message) /\ Known
        BY <1>2 DEF TypeOK, Types
      <4>2. down[2] \in Message
        BY <2>2, <4>1, SeqFacts
      <4> QED BY <2>2, <4>1, <4>2, MessageFacts DEF Known
    <3>2. history \in Seq(SUBSET Docs) /\ DOMAIN history = 1 .. Now /\ Now \in Nat
      BY <1>2, SeqFacts DEF TypeOK, Now
    <3>3. down[2].version \in DOMAIN history
      BY <3>1, <3>2 DEF Versions
    <3> QED BY <3>2, <3>3, SeqFacts
  <2>5. down' # << >>
    BY <2>3
  <2> QED BY <2>2, <2>3, <2>4, <2>5
<1>13. ASSUME Active, FilterArrives
       PROVE  \/ state' = Reset /\ mismatch' = TRUE /\ Keys' = {}
              \/ state' = state /\ mismatch' = mismatch /\ down[1].count = Cardinality(Keys)
  <2>1. CASE Mismatch(down[1].count)
    BY <1>2, <1>3, <1>4, <1>13, <2>1, KeysAfter DEF FilterArrives
  <2>2. CASE ~Mismatch(down[1].count)
    BY <1>2, <1>4, <1>13, <2>2, CountFacts DEF FilterArrives, aggregator, Mismatch
  <2> QED BY <2>1, <2>2
<1>14. MismatchIsNext'
  <2> SUFFICES ASSUME mismatch' PROVE MismatchIsNext'
    BY DEF MismatchIsNext
  <2>1. Active /\ FilterArrives
    BY <1>1, <1>9
  <2>2. state' = Reset /\ Keys' = {}
    BY <1>9, <1>13, <2>1
  <2> QED BY <1>6, <1>12, <2>1, <2>2 DEF MismatchIsNext
<1>15. Receiving'
  <2> SUFFICES ASSUME Active, ~mismatch', NEW s \in DOMAIN down', First(down', 0, s)
               PROVE  Brought(down', 0, s, history[down'[s].version], Keys')
    BY <1>3, <1>9 DEF Receiving
  <2> DEFINE h == history[down'[s].version]
  <2>1. /\ s \in Nat /\ s + 1 \in DOMAIN down /\ down'[s] = down[s + 1]
        /\ First(down, 1, s + 1) /\ First(down, 0, s + 1)
        /\ \A r \in DOMAIN down : First(down, 1, r) => r = s + 1
    BY <1>1, <1>4, NextSnapshot
  <2>2. CASE CurrentArrives
    <3>1. state'.changes = state.changes
      BY <1>6, <2>2 DEF CurrentArrives, TargetState
    <3>2. Keys' = Keys
      BY <1>2, <1>3, <3>1, KeysAfter
    <3>3. ~IsFilter(down[1]) /\ \A d : ~Comes(down[1], d) /\ ~Goes(down[1], d)
      BY <1>1, <1>4, <2>2 DEF IsFilter, Comes, Goes, IsDocument, IsReset
    <3> QED BY <1>1, <1>4, <3>2, <3>3, StillBrought
  <2>3. CASE DocumentArrives
    <3> DEFINE d == down[1].doc
    <3>1. d \in Docs /\ Keys' = IF down[1].matches THEN Keys \union {d} ELSE Keys \ {d}
      BY <1>2, <1>3, <1>7, <2>3, KeysAfter
    <3>2. IsDocument(down[1]) /\ ~IsFilter(down[1]) /\ ~IsReset(down[1])
      BY <1>1, <1>4, <2>3 DEF IsFilter, IsDocument, IsReset
    <3>3. down[1].matches <=> d \in h
      <4>1. PICK r \in DOMAIN down : /\ First(down, 1, r)
                                     /\ down[1].matches <=> d \in history[down[r].version]
        BY <1>2, <1>11, <3>2 DEF Batches, DocumentsAreTrue
      <4> QED BY <2>1, <4>1
    <3>4. \A x \in h \ Keys' : x \notin Keys /\ ~Comes(down[1], x)
      BY <3>1, <3>3 DEF Comes
    <3>5. \A x \in Keys' \ h : x \in Keys /\ ~Goes(down[1], x)
      BY <3>1, <3>2, <3>3 DEF Goes
    <3> DEFINE k == Keys'
    <3>6. /\ \A x \in history[down'[s].version] \ k : x \notin Keys /\ ~Comes(down[1], x)
          /\ \A x \in k \ history[down'[s].version] : x \in Keys /\ ~Goes(down[1], x)
      BY <3>4, <3>5
    <3> HIDE DEF k
    <3>7. Brought(down', 0, s, history[down'[s].version], k)
      BY <1>1, <1>4, <3>2, <3>6, StillBrought
    <3> QED BY <3>7 DEF k
  <2>4. CASE ResetArrives
    <3>1. Keys' = {}
      BY <1>2, <1>3, <2>4, KeysAfter DEF ResetArrives
    <3>2. IsReset(down[1])
      BY <1>1, <1>4, <2>4 DEF IsReset
    <3>3. PICK r \in DOMAIN down : /\ First(down, 1, r)
                                   /\ Brings(down, 1, r, history[down[r].version], {})
      BY <1>2, <1>11, <3>2 DEF Batches, ResetsTellAll
    <3>4. Brings(down, 0 + 1, s + 1, h, {})
      BY <2>1, <3>3
    <3> HIDE DEF h
    <3>5. Brings(down', 0, s, h, {}) /\ Drops(down', 0, s, h, {})
      BY <1>11, <2>1, <3>4 DEF Shifted, Drops
    <3> QED BY <3>1, <3>5 DEF Brought, h
  <2>5. CASE FilterArrives /\ state' = state /\ down[1].count = Cardinality(Keys)
    <3>1. Keys' = Keys
      BY <1>2, <1>3, <2>5, KeysAfter
    <3>2. s = 1
      <4>1. 1 \in DOMAIN down' /\ IsSnapshot(down'[1])
        BY <1>12, <2>5
      <4>2. ~(1 < s) /\ 0 < s
        BY <4>1 DEF First
      <4> QED BY <2>1, <4>2
    <3>3. \A x : ~Comes(down[1], x)
      BY <1>1, <1>4, <2>5 DEF Comes, IsDocument
    <3>4. Keys \subseteq h \/ Brings(down, 0, s + 1, h, Keys)
      <4>1. Receiving
        BY DEF IInv, Client
      <4>2. Brought(down, 0, s + 1, h, Keys)
        BY <1>9, <2>1, <4>1 DEF Receiving
      <4> QED BY <4>2 DEF Brought
    <3>5. Keys \subseteq h \/ h \subseteq Keys
      <4>1. \A j \in DOMAIN down : 0 < j /\ j < 1 + 1 => j = 1
        BY <1>2, SeqFacts DEF TypeOK
      <4> QED BY <3>2, <3>3, <3>4, <4>1 DEF Brings
    <3>6. Cardinality(Keys) = Cardinality(h) /\ h \in SUBSET Docs
      BY <1>12, <2>5, <3>2
    <3>7. IsFiniteSet(Keys) /\ IsFiniteSet(h)
      BY <1>2, <3>6, CountFacts, DocsFinite, FS_Subset
    <3> HIDE DEF h
    <3>8. Keys = h
      BY <3>5, <3>6, <3>7, FS_Subset
    <3>9. Brings(down', 0, s, h, h) /\ Drops(down', 0, s, h, h)
      BY DEF Brings, Drops
    <3> QED BY <3>1, <3>8, <3>9 DEF Brought, h
  <2> QED BY <1>1, <1>13, <2>2, <2>3, <2>4, <2>5
<1> QED BY <1>5, <1>10, <1>14, <1>15 DEF Client

\* A target found not to fit is unwatched and watched without a token.
LEMMA AnewKeeps ==
    ASSUME TypeOK, up' = up \o <<Unwatch, Watch(0)>>
    PROVE  Requests' /\ ~Heard'
<1>1. up \in Seq(Request) /\ 0 \in Tokens
  BY BoundsAreNat DEF TypeOK, Tokens
<1>2. up' # << >> /\ up'[Len(up')] = Watch(0)
  BY <1>1, AnewFacts
<1>3. Watch(0) # Unwatch /\ Watch(0).token = 0
  BY <1>1, RequestFacts
<1> QED BY <1>2, <1>3 DEF Requests, Heard

LEMMA SnapshotKeeps == IInv /\ SnapshotArrives => (Channel /\ Client /\ CurrentMeansMatching)'
<1> SUFFICES ASSUME IInv, SnapshotArrives PROVE (Channel /\ Client /\ CurrentMeansMatching)'
  OBVIOUS
<1> DEFINE v == down[1].version
<1>1. /\ Types /\ TypeOK /\ MappingsAgree /\ AcksAreCounted /\ NothingOpen
      /\ Batches /\ Requests /\ Watched /\ Complete
      /\ Receiving /\ MismatchIsNext /\ CurrentAwaitsAck /\ TokensFit
  BY DEF IInv, Types, Channel, Client
<1>2. /\ down # << >> /\ down' = Tail(down) /\ IsSnapshot(down[1])
      /\ v \in Versions /\ lastSnapshot' = v /\ mismatch' = FALSE
      /\ UNCHANGED <<history, told, listening, stream>>
  BY <1>1, SnapshotFacts DEF server
<1>3. /\ Active => /\ cached' = Changed(cached) /\ localToken' = v
                   /\ savedToken' \in {v, savedToken}
                   /\ savedToken' # v => localToken # 0 /\ state.changes = NoChanges
                   /\ view'.synced = Keys /\ view'.current = state.current
      /\ ~Active => UNCHANGED <<cached, savedToken, localToken, view>>
      /\ remoteToken' = 0 \/ remoteToken' = (IF Active THEN v ELSE remoteToken)
      /\ state'.changes = IF Active THEN NoChanges ELSE state.changes
  BY <1>1, SnapshotFacts
<1>4. IF mismatch /\ listening
      THEN /\ up' = up \o <<Unwatch, Watch(0)>>
           /\ state'.outstanding = state.outstanding + 2
      ELSE up' = up /\ state'.outstanding = state.outstanding
  BY <1>1, SnapshotFacts
<1>5. state.outstanding \in Nat /\ ~IsAck(down[1]) /\ v # 0
  BY <1>1, <1>2, StateFacts DEF TypeOK, IsAck, IsSnapshot, Versions
<1> HIDE DEF v
<1>6. Batches' /\ MismatchIsNext'
  BY <1>1, <1>2, TakenBatches DEF MismatchIsNext
<1>7. /\ 1 \in DOMAIN down /\ Shifted(down', down) /\ (down' = << >> => Len(down) = 1)
      /\ \A i \in DOMAIN down' : i \in Nat /\ i + 1 \in DOMAIN down /\ down'[i] = down[i + 1]
  BY <1>1, <1>2, TakenPlaces
<1>8. CASE Active /\ mismatch
  <2>1. listening /\ view.synced = cached /\ Keys = {} /\ ~state.current
    BY <1>1, <1>8, ActiveFacts DEF MismatchIsNext
  <2>2. cached' = {} /\ ~view'.current
    BY <1>3, <1>8, <2>1 DEF Keys
  <2>3. Requests' /\ ~Heard'
    BY <1>1, <1>4, <1>8, <2>1, AnewKeeps
  <2>4. ~Active'
    BY <1>4, <1>5, <1>8, <2>1 DEF Active
  <2> QED BY <1>6, <2>2, <2>3, <2>4 DEF Channel, Client, Watched, Complete, Receiving,
                                        CurrentAwaitsAck, TokensFit, CurrentMeansMatching
<1>9. CASE Active /\ ~mismatch
  <2>1. /\ up = << >> /\ listening /\ view.synced = cached /\ Heard
        /\ \A i \in DOMAIN down : ~IsAck(down[i])
        /\ \A i \in Nat : Quiet(down, i)
    BY <1>1, <1>2, <1>9, ActiveFacts
  <2>2. Keys = history[v]
    <3>1. \A j \in DOMAIN down : ~(0 < j /\ j < 1)
      BY <1>1, SeqFacts DEF TypeOK
    <3>2. First(down, 0, 1)
      BY <1>2, <1>7, <3>1 DEF First
    <3>3. Brought(down, 0, 1, history[v], Keys)
      BY <1>1, <1>7, <1>9, <3>2 DEF Receiving, v
    <3>4. ~Counted(down, 1)
      <4>1. 1 - 1 \notin DOMAIN down
        BY <1>1, SeqFacts DEF TypeOK
      <4> QED BY <4>1 DEF Counted
    <3> QED BY <3>1, <3>3, <3>4 DEF Brought, Brings, Drops
  <2>3. cached' = Keys /\ view'.synced = Keys /\ up' = << >> /\ state'.outstanding = 0
    BY <1>3, <1>4, <1>9, <2>1 DEF Keys, Active
  <2>4. Keys' = Keys
    <3>1. Keys \subseteq Docs
      BY <1>1, KeysFacts
    <3> QED BY <1>3, <1>9, <2>3, <3>1 DEF Keys, Changed, With, NoChanges
  <2>5. \A i \in DOMAIN down' : ~IsAck(down'[i])
    BY <1>7, <2>1
  <2>6. Watched'
    <3>1. \A a \in DOMAIN down' : IsAck(down'[a]) /\ Quiet(down', a) => down'[a].type = "added"
      BY <2>5
    <3>2. told # 0 /\ (down' # << >> => IsSnapshot(down'[Len(down')])
                                        /\ down'[Len(down')].version = told)
      BY <1>1, <1>2, <2>1, TakenComplete DEF Watched
    <3> QED BY <1>2, <1>3, <1>9, <3>1, <3>2 DEF Watched
  <2>7. Complete'
    <3>1. down' = << >> => cached' = history[told]
      <4>1. down' = << >> => v = told
        BY <1>1, <1>2, <1>7, <2>1 DEF Watched, v
      <4> QED BY <2>2, <2>3, <4>1
    <3>2. \A p, s \in DOMAIN down' : IsSnapshot(down'[p]) /\ Quiet(down', p) /\ First(down', p, s) =>
                Brought(down', p, s, history[down'[s].version], history[down'[p].version])
      BY <1>1, <1>2, <2>1, TakenComplete
    <3> QED BY <1>2, <2>5, <3>1, <3>2 DEF Complete
  <2>8. Receiving'
    <3> SUFFICES ASSUME NEW s \in DOMAIN down', First(down', 0, s)
                 PROVE  Brought(down', 0, s, history[down'[s].version], Keys)
      BY <1>2, <2>4 DEF Receiving
    <3>1. s \in Nat /\ s + 1 \in DOMAIN down /\ down'[s] = down[s + 1]
      BY <1>7
    <3>2. First(down, 0 + 1, s + 1) /\ 0 + 1 = 1
      BY <1>7 DEF Shifted
    <3>3. Brought(down, 1, s + 1, history[down[s + 1].version], history[v])
      BY <1>1, <1>2, <1>7, <2>1, <3>1, <3>2 DEF Complete, v
    <3> DEFINE h == history[down'[s].version]
    <3>4. Brought(down, 0 + 1, s + 1, h, Keys) /\ ~IsFilter(down[1])
      BY <1>2, <2>2, <3>1, <3>3 DEF IsFilter, IsSnapshot
    <3> HIDE DEF h
    <3>5. Brought(down', 0, s, h, Keys)
      BY <1>7, <3>1, <3>4 DEF Shifted
    <3> QED BY <3>5 DEF h
  <2>9. TokensFit'
    <3>1. savedToken' # v => Keys = cached
      BY <1>1, <1>3, <1>9, <2>1, KeysFacts
    <3>2. cached' # {} => savedToken' # 0 /\ cached' = history[savedToken']
      BY <1>1, <1>3, <1>5, <1>9, <2>2, <2>3, <3>1 DEF TokensFit
    <3> QED BY <1>2, <1>3, <1>5, <1>9, <2>2, <2>3, <3>2 DEF TokensFit
  <2>10. Requests' /\ CurrentAwaitsAck' /\ CurrentMeansMatching'
    BY <1>2, <2>2, <2>3 DEF Requests, CurrentAwaitsAck, CurrentMeansMatching
  <2> QED BY <1>6, <2>6, <2>7, <2>8, <2>9, <2>10 DEF Channel, Client
<1>10. CASE ~Active
  <2>1. UNCHANGED <<cached, savedToken, localToken, view>> /\ remoteToken' \in {0, remoteToken}
    BY <1>3, <1>10
  <2>2. ~view'.current
    <3>1. listening => ~view.current
      BY <1>1, <1>2, <1>5, <1>10 DEF Active, CurrentAwaitsAck
    <3> QED BY <1>1, <2>1, <3>1 DEF NothingOpen, NoView
  <2>3. ~Active'
    BY <1>2, <1>4, <1>5, <1>10 DEF Active
  <2>4. Receiving' /\ CurrentAwaitsAck' /\ CurrentMeansMatching'
    BY <2>2, <2>3 DEF Receiving, CurrentAwaitsAck, CurrentMeansMatching
  <2>5. TokensFit'
    BY <1>1, <1>2, <2>1 DEF TokensFit
  <2>6. CASE mismatch /\ listening
    <3>1. Requests' /\ ~Heard'
      BY <1>1, <1>4, <2>6, AnewKeeps
    <3> QED BY <1>6, <2>4, <2>5, <3>1 DEF Channel, Client, Watched, Complete
  <2>7. CASE ~(mismatch /\ listening)
    <3>1. up' = up /\ (Heard' <=> Heard)
      BY <1>2, <1>4, <2>7 DEF Heard
    <3>2. Requests'
      BY <1>1, <1>2, <2>1, <3>1 DEF Requests
    <3>3. Heard => down' # << >>
      <4> SUFFICES ASSUME Heard, down' = << >> PROVE FALSE
        OBVIOUS
      <4>1. state.outstanding # 0 /\ Len(up) = 0
        BY <1>10 DEF Heard, Active
      <4>2. down \in Seq(Message) /\ DOMAIN down = 1 .. 1
        BY <1>1, <1>7, SeqFacts DEF TypeOK
      <4>3. \A i \in DOMAIN down : ~IsAck(down[i])
        BY <1>5, <4>2
      <4>4. Acks(down) = 0
        BY <4>2, <4>3, AcksFinite
      <4> QED BY <1>1, <1>5, <4>1, <4>4 DEF AcksAreCounted
    <3>4. Watched'
      BY <1>1, <1>2, <3>1, <3>3, TakenComplete DEF Watched
    <3>5. Complete'
      BY <1>1, <1>2, <2>1, <3>1, <3>3, TakenComplete DEF Complete
    <3> QED BY <1>6, <2>4, <2>5, <3>2, <3>4, <3>5 DEF Channel, Client
  <2> QED BY <2>6, <2>7
<1> QED BY <1>8, <1>9, <1>10

LEMMA InitKeeps == Init /\ Types => IInv
<1> SUFFICES ASSUME Init, Types PROVE IInv
  OBVIOUS
<1>1. /\ up = << >> /\ down = << >> /\ cached = {} /\ listening = FALSE
      /\ mismatch = FALSE /\ ~view.current
  BY DEF Init, NoView
<1>2. Batches
  BY <1>1 DEF Batches, FiltersCount, DocumentsAreTrue, ResetsTellAll
<1>3. Requests /\ Watched /\ Complete
  BY <1>1 DEF Requests, Heard, Watched, Complete
<1>4. Receiving /\ MismatchIsNext /\ CurrentAwaitsAck /\ TokensFit /\ CurrentMeansMatching
  BY <1>1 DEF Receiving, MismatchIsNext, CurrentAwaitsAck, TokensFit, CurrentMeansMatching
<1> QED BY <1>2, <1>3, <1>4 DEF IInv, Channel, Client

\* The server counts, or is told what the client has: then every step keeps
\* what the messages under way bring.
LEMMA StepKeeps ==
    IInv /\ (AlwaysCounts \/ ServerKnowsTheKeys) /\ [Next]_vars /\ Types' => IInv'
<1> SUFFICES ASSUME IInv, AlwaysCounts \/ ServerKnowsTheKeys, [Next]_vars, Types' PROVE IInv'
  OBVIOUS
<1>1. (Channel /\ Client /\ CurrentMeansMatching)'
  BY ListenKeeps, StopKeeps, OpenKeeps, HangupKeeps, StillKeeps, AckKeeps, NoteKeeps,
     SnapshotKeeps, ChangesKeep, TellingKeeps, UnwatchKeeps DEF Next
<1> QED BY <1>1 DEF IInv

\* If the server counts every time, a view that is current shows exactly the
\* documents that matched when the last snapshot was taken, however streams
\* break, processes are killed and listens end in between (View, LocalStore and
\* RemoteStore together).
THEOREM CurrentViewsMatch ==
    ASSUME AlwaysCounts
    PROVE  Spec => []CurrentMeansMatching
<1>1. IInv => CurrentMeansMatching
  BY DEF IInv
<1> QED BY <1>1, InitKeeps, StepKeeps, TypesHold, PTL DEF Spec

\* So does it if the server counts only what it left out, as long as a target is
\* watched with the token of the keys the client has.  A token that was kept
\* when the keys were dropped (LocalStore, after a count that did not fit), and
\* keys that were kept when the token was dropped (RaiseWatchSnapshot's request
\* without one), are all that can make a current view wrong.
THEOREM OnlyUnknownKeysMislead ==
    Spec /\ []ServerKnowsTheKeys => []CurrentMeansMatching
<1>1. IInv => CurrentMeansMatching
  BY DEF IInv
<1> QED BY <1>1, InitKeeps, StepKeeps, TypesHold, PTL DEF Spec

-----------------------------------------------------------------------------
(* When nothing is under way the view is current.                          *)

\* Requests under way, a stream that is not open, or no target to watch.
LEMMA UnheardRenews ==
    ASSUME IInv, IInv', Renewal, Listen \/ StopListening \/ Open \/ Break \/ Kill \/ AnswersUnwatch
    PROVE  Renewal'
<1>1. up \in Seq(Request) /\ down \in Seq(Message) /\ savedToken \in Tokens /\ remoteToken \in Tokens
  BY DEF IInv, Types, TypeOK
<1>2. ~Heard'
  <2>1. CASE Listen \/ Open
    <3>1. Append(up, Watch(savedToken)) # << >> /\ Append(up, Watch(remoteToken)) # << >>
      BY <1>1, RequestFacts, AppendFacts
    <3> QED BY <2>1, <3>1 DEF Listen, Open, Heard
  <2>2. CASE StopListening \/ Break \/ Kill
    BY <2>2 DEF StopListening, Break, Kill, Heard
  <2>3. CASE AnswersUnwatch
    <3>1. Watched' /\ told' = 0
      BY <2>3 DEF IInv, Channel, AnswersUnwatch
    <3> QED BY <3>1 DEF Watched
  <2> QED BY <2>1, <2>2, <2>3
<1>3. ResetsRenew'
  <2>1. CASE Listen \/ StopListening \/ Open
    <3>1. down' = down
      BY <2>1 DEF Listen, StopListening, Open
    <3> QED BY <3>1 DEF Renewal, ResetsRenew
  <2>2. CASE Break \/ Kill
    <3>1. down' = << >>
      BY <2>2 DEF Break, Kill, Hangup
    <3> QED BY <3>1 DEF ResetsRenew
  <2>3. CASE AnswersUnwatch
    <3>1. /\ down' = Append(down, Removed) /\ DOMAIN down = 1 .. Len(down) /\ Len(down) \in Nat
          /\ DOMAIN down' = 1 .. Len(down) + 1 /\ down'[Len(down) + 1] = Removed
          /\ \A i \in DOMAIN down : i \in DOMAIN down' /\ down'[i] = down[i]
      BY <1>1, <2>3, SeqFacts, AppendFacts, Constructed DEF AnswersUnwatch
    <3>2. ~IsReset(Removed)
      BY Constructed DEF IsReset
    <3> SUFFICES ASSUME NEW i \in DOMAIN down', IsReset(down'[i]) PROVE CurrentBehind(down', i)
      BY DEF ResetsRenew
    <3>3. i \in DOMAIN down
      BY <3>1, <3>2
    <3>4. CurrentBehind(down, i)
      BY <3>1, <3>3 DEF Renewal, ResetsRenew
    <3> QED BY <3>1, <3>4 DEF CurrentBehind
  <2> QED BY <2>1, <2>2, <2>3
<1> QED BY <1>2, <1>3 DEF Renewal, BecomesCurrent

\* Only what the server has, or nothing, changes.
LEMMA StillRenews ==
    ASSUME Renewal, Offline \/ ServerChanges \/ UNCHANGED vars
    PROVE  Renewal'
<1>1. /\ UNCHANGED <<up, down, listening, stream, state, mismatch>>
      /\ stream = "open" => view' = view
  BY DEF Offline, ServerChanges, vars, server, disk, tokens, aggregator, bounds
<1>2. ResetsRenew'
  BY <1>1 DEF Renewal, ResetsRenew
<1>3. (Heard' <=> Heard) /\ (Active' <=> Active)
  BY <1>1 DEF Heard, Active
<1>4. BecomesCurrent'
  BY <1>1, <1>3 DEF Renewal, BecomesCurrent, Heard
<1> QED BY <1>2, <1>4 DEF Renewal

\* The server tells documents: with its ack or a reset goes the word that the
\* target is current.
LEMMA TellingRenews ==
    ASSUME IInv, Renewal, AnswersWatch \/ Tells \/ TellsAnew
    PROVE  Renewal'
<1>1. PICK m, had :
            /\ down' = down \o m /\ Answer(m, had, IsAck(m[1]))
            /\ UNCHANGED <<history, disk, listening, tokens, stream, aggregator, view, bounds>>
            /\ \/ up # << >> /\ IsAck(m[1])
               \/ up' = up /\ ~IsAck(m[1])
  BY TellingFacts DEF IInv
<1>2. UNCHANGED <<listening, stream, state, mismatch>>
  BY <1>1 DEF aggregator
<1> DEFINE n == Len(down)
<1>3. /\ down \in Seq(Message) /\ m \in Seq(Message) /\ n \in Nat
      /\ DOMAIN down = 1 .. n /\ Len(m) >= 1 /\ DOMAIN m = 1 .. Len(m) /\ Len(m) \in Nat
      /\ Joined(down, m, down') /\ down' \in Seq(Message)
  BY <1>1, ConcatFacts, SeqFacts DEF Answer, IInv, Types, TypeOK
<1>4. down' # << >>
  BY <1>3, SeqFacts DEF Joined
<1> HIDE DEF n
<1>5. \A i : CurrentBehind(down, i) => CurrentBehind(down', i)
  BY <1>3 DEF Joined, CurrentBehind
<1>6. ASSUME NEW i \in DOMAIN down', i \notin DOMAIN down, IsAck(down'[i]) \/ IsReset(down'[i])
      PROVE  CurrentBehind(down', i)
  <2> DEFINE k == i - n
  <2>1. k \in DOMAIN m /\ down'[i] = m[k] /\ i = n + k
    BY <1>3, <1>6 DEF Joined, n
  <2> HIDE DEF k
  <2>2. CurrentBehind(m, k)
    BY <1>1, <1>6, <2>1 DEF Answer
  <2>3. PICK j \in DOMAIN m : j > k /\ IsCurrent(m[j])
    BY <2>2 DEF CurrentBehind
  <2>4. n + j \in DOMAIN down' /\ down'[n + j] = m[j]
    BY <1>3 DEF Joined, n
  <2>5. n + j > i
    BY <1>3, <2>1, <2>3
  <2> QED BY <2>3, <2>4, <2>5 DEF CurrentBehind
<1>7. ResetsRenew'
  <2> SUFFICES ASSUME NEW i \in DOMAIN down', IsReset(down'[i]) PROVE CurrentBehind(down', i)
    BY DEF ResetsRenew
  <2>1. CASE i \in DOMAIN down
    BY <1>3, <1>5, <2>1 DEF Joined, Renewal, ResetsRenew
  <2> QED BY <1>6, <2>1
<1>8. ASSUME Heard', NEW i \in DOMAIN down', IsAck(down'[i]), Quiet(down', i)
      PROVE  CurrentBehind(down', i)
  <2>1. CASE i \in DOMAIN down
    <3>1. 1 \in DOMAIN m /\ n + 1 \in DOMAIN down' /\ down'[n + 1] = m[1] /\ n + 1 > i
      BY <1>3, <2>1 DEF Joined, n
    <3>2. up' = up /\ Heard
      BY <1>1, <1>2, <1>8, <3>1 DEF Quiet, Heard
    <3>3. IsAck(down[i]) /\ Quiet(down, i)
      BY <1>3, <1>8, <2>1 DEF Joined, Quiet
    <3> QED BY <1>5, <2>1, <3>2, <3>3 DEF Renewal, BecomesCurrent
  <2> QED BY <1>6, <1>8, <2>1
<1>9. ASSUME Heard', Active', ~mismatch' PROVE state'.current \/ CurrentBehind(down', 0)
  <2>1. Active
    BY <1>2, <1>9 DEF Active
  <2>2. up = << >> /\ Heard
    BY <1>2, <1>9, <2>1, ActiveFacts DEF IInv, Heard
  <2> QED BY <1>2, <1>5, <1>9, <2>1, <2>2 DEF Renewal, BecomesCurrent
<1> QED BY <1>4, <1>7, <1>8, <1>9 DEF Renewal, BecomesCurrent

\* What is behind the messages' places when one is taken.
LEMMA TakenRenewal ==
    ASSUME TypeOK, ResetsRenew, down # << >>, down' = Tail(down)
    PROVE  /\ ResetsRenew'
           /\ \A i \in Nat : CurrentBehind(down, i + 1) => CurrentBehind(down', i)
           /\ ~IsCurrent(down[1]) /\ CurrentBehind(down, 0) => CurrentBehind(down', 0)
<1>1. /\ down \in Seq(Message) /\ DOMAIN down \subseteq Nat
      /\ \A i \in DOMAIN down' : i \in Nat /\ i + 1 \in DOMAIN down /\ down'[i] = down[i + 1]
      /\ \A i \in DOMAIN down : i = 1 \/ (i - 1 \in DOMAIN down' /\ down'[i - 1] = down[i])
  BY TakenPlaces, TailFacts, SeqFacts DEF TypeOK
<1>2. ASSUME NEW i \in Nat, CurrentBehind(down, i + 1) PROVE CurrentBehind(down', i)
  <2>1. PICK j \in DOMAIN down : j > i + 1 /\ IsCurrent(down[j])
    BY <1>2 DEF CurrentBehind
  <2>2. j \in Nat /\ j # 1 /\ j - 1 > i
    BY <1>1, <2>1
  <2> QED BY <1>1, <2>1, <2>2 DEF CurrentBehind
<1>3. ASSUME ~IsCurrent(down[1]), CurrentBehind(down, 0) PROVE CurrentBehind(down', 0)
  <2>1. PICK j \in DOMAIN down : j > 0 /\ IsCurrent(down[j])
    BY <1>3 DEF CurrentBehind
  <2>2. j # 1 /\ j \in Nat
    BY <1>1, <1>3, <2>1
  <2>3. j > 0 + 1
    BY <2>1, <2>2
  <2> QED BY <1>2, <2>1, <2>3 DEF CurrentBehind
<1>4. ResetsRenew'
  BY <1>1, <1>2 DEF ResetsRenew
<1> QED BY <1>2, <1>3, <1>4

\* A message is taken.  One that makes a target that was current less so, a
\* reset, has the word for it behind; the one that has not, a count that does
\* not fit, makes the next snapshot ask anew.
LEMMA DeliverRenews ==
    ASSUME IInv, IInv', Renewal, Deliver
    PROVE  Renewal'
<1>1. /\ down # << >> /\ down' = Tail(down)
      /\ UNCHANGED <<history, told, listening, stream>>
  BY DEF Deliver, AddedArrives, RemovedArrives, CurrentArrives, DocumentArrives, ResetArrives,
         FilterArrives, SnapshotArrives, Receive, server
<1>2. /\ Types /\ TypeOK /\ AcksAreCounted /\ Watched
      /\ Types' /\ AcksAreCounted'
  BY DEF IInv, Types, Channel
<1>3. /\ ResetsRenew'
      /\ \A i \in Nat : CurrentBehind(down, i + 1) => CurrentBehind(down', i)
      /\ ~IsCurrent(down[1]) /\ CurrentBehind(down, 0) => CurrentBehind(down', 0)
  BY <1>1, <1>2, TakenRenewal DEF Renewal
<1>4. /\ 1 \in DOMAIN down /\ Shifted(down', down) /\ Len(down) \in Nat
      /\ \A i \in DOMAIN down' : i \in Nat /\ i + 1 \in DOMAIN down /\ down'[i] = down[i + 1]
      /\ down' = << >> => Len(down) = 1
      /\ Head(down) = down[1] /\ down \in Seq(Message)
  BY <1>1, <1>2, TakenPlaces, TailFacts DEF TypeOK
<1> SUFFICES ASSUME Heard' PROVE BecomesCurrent'
  BY <1>3 DEF Renewal, BecomesCurrent
<1>5. Heard /\ up' = up /\ (SnapshotArrives => ~mismatch)
  <2>1. CASE SnapshotArrives
    <3>1. up' = IF mismatch /\ listening THEN up \o <<Unwatch, Watch(0)>> ELSE up
      BY <2>1 DEF SnapshotArrives
    <3>2. up \o <<Unwatch, Watch(0)>> # << >>
      <4>1. up \in Seq(Request)
        BY <1>2 DEF TypeOK
      <4> QED BY <4>1, AnewFacts
    <3>3. up' = << >> /\ listening
      BY <1>1 DEF Heard
    <3> QED BY <1>1, <2>1, <3>1, <3>2, <3>3 DEF Heard
  <2>2. CASE ~SnapshotArrives
    <3>1. up' = up
      BY <2>2 DEF Deliver, AddedArrives, RemovedArrives, CurrentArrives, DocumentArrives,
                  ResetArrives, FilterArrives
    <3> QED BY <1>1, <2>2, <3>1 DEF Heard
  <2> QED BY <2>1, <2>2
<1>6. /\ \A i \in DOMAIN down : IsAck(down[i]) /\ Quiet(down, i) => CurrentBehind(down, i)
      /\ Active /\ ~mismatch => state.current \/ CurrentBehind(down, 0)
      /\ ResetsRenew
  BY <1>5 DEF Renewal, BecomesCurrent
<1>7. ASSUME NEW i \in DOMAIN down', IsAck(down'[i]), Quiet(down', i) PROVE CurrentBehind(down', i)
  BY <1>3, <1>4, <1>6, <1>7 DEF Shifted
<1>8. /\ Acks(down') = state'.outstanding
      /\ Acks(down') = 0 <=> \A i \in DOMAIN down' : ~IsAck(down'[i])
  <2>1. down' \in Seq(Message) /\ up' = << >> /\ state' \in TargetState
    BY <1>2 DEF Types, TypeOK, Heard
  <2>2. /\ Acks(down') \in Nat
        /\ Acks(down') = 0 <=> \A i \in DOMAIN down' : ~IsAck(down'[i])
    BY <2>1, AcksFinite
  <2>3. state'.outstanding = Len(up') + Acks(down') /\ Len(up') = 0
    BY <1>2, <2>1 DEF AcksAreCounted
  <2>4. Acks(down') = state'.outstanding
    BY <2>2, <2>3
  <2> QED BY <2>2, <2>4
<1>9. ASSUME Active', ~mismatch' PROVE state'.current \/ CurrentBehind(down', 0)
  <2>1. Quiet(down, 1)
    <3>1. \A i \in DOMAIN down' : ~IsAck(down'[i])
      BY <1>8, <1>9 DEF Active
    <3>2. Quiet(down', 0) /\ 0 + 1 = 1 /\ 0 \in Nat
      BY <3>1 DEF Quiet
    <3> QED BY <1>4, <3>2 DEF Shifted
  <2>2. IsAck(down[1]) \/ IsReset(down[1]) => CurrentBehind(down', 0)
    <3>1. IsAck(down[1]) \/ IsReset(down[1]) => CurrentBehind(down, 1)
      BY <1>4, <1>6, <2>1 DEF ResetsRenew
    <3>2. 0 + 1 = 1 /\ 0 \in Nat
      OBVIOUS
    <3> QED BY <1>3, <3>1, <3>2
  <2>3. state \in TargetState /\ state.outstanding \in Nat
    BY <1>2, StateFacts DEF TypeOK
  <2>4. CASE AddedArrives \/ RemovedArrives
    <3>1. IsAck(down[1])
      BY <1>4, <2>4 DEF AddedArrives, RemovedArrives, Receive, IsAck
    <3> QED BY <2>2, <3>1
  <2>5. CASE CurrentArrives
    <3>1. CASE Active
      BY <2>3, <2>5, <3>1 DEF CurrentArrives, TargetState
    <3>2. CASE ~Active
      BY <1>1, <1>9, <2>5, <3>2 DEF CurrentArrives, Active
    <3> QED BY <3>1, <3>2
  <2>6. CASE ResetArrives
    <3>1. IsReset(down[1])
      BY <1>4, <2>6 DEF ResetArrives, Receive, IsReset
    <3> QED BY <2>2, <3>1
  <2>7. CASE DocumentArrives \/ FilterArrives \/ SnapshotArrives
    <3>1. ~IsCurrent(down[1])
      BY <1>4, <2>7 DEF DocumentArrives, FilterArrives, SnapshotArrives, Receive, IsCurrent
    <3>2. state'.current = state.current /\ Active /\ ~mismatch
      <4>1. CASE DocumentArrives
        <5>1. state'.outstanding = state.outstanding /\ state'.current = state.current
          BY <2>3, <4>1 DEF DocumentArrives, TargetState
        <5> QED BY <1>1, <1>9, <4>1, <5>1 DEF DocumentArrives, Active
      <4>2. CASE FilterArrives
        BY <1>1, <1>9, <4>2 DEF FilterArrives, aggregator, Active
      <4>3. CASE SnapshotArrives
        <5>1. /\ state'.current = state.current /\ ~mismatch
              /\ state'.outstanding = state.outstanding
          BY <1>2, <1>5, <4>3, SnapshotFacts
        <5> QED BY <1>1, <1>9, <5>1 DEF Active
      <4> QED BY <2>7, <4>1, <4>2, <4>3
    <3> QED BY <1>3, <1>6, <3>1, <3>2
  <2> QED BY <2>4, <2>5, <2>6, <2>7 DEF Deliver
<1>10. ASSUME down' = << >> PROVE view'.current
  <2>1. IsSnapshot(down[1]) /\ ~IsCurrent(down[1]) /\ DOMAIN down = {1}
    <3>1. Len(down) = 1 /\ DOMAIN down = 1 .. Len(down)
      BY <1>4, <1>10, SeqFacts
    <3>2. IsSnapshot(down[1])
      BY <1>1, <1>2, <1>5, <3>1 DEF Watched
    <3> QED BY <3>1, <3>2 DEF IsSnapshot, IsCurrent
  <2>2. SnapshotArrives
    BY <1>4, <2>1 DEF Deliver, AddedArrives, RemovedArrives, CurrentArrives, DocumentArrives,
                      ResetArrives, FilterArrives, Receive, IsSnapshot
  <2>3. ~mismatch /\ state'.outstanding = state.outstanding
    BY <1>2, <1>5, <2>2, SnapshotFacts
  <2>4. Active
    <3>1. Acks(down') = 0
      BY <1>8, <1>10
    <3> QED BY <1>5, <1>8, <2>3, <3>1 DEF Active, Heard
  <2>5. state.current
    BY <1>6, <2>1, <2>3, <2>4 DEF CurrentBehind
  <2> QED BY <1>2, <2>2, <2>4, <2>5, SnapshotFacts
<1> QED BY <1>7, <1>9, <1>10 DEF BecomesCurrent

\* With the stream open and empty, and the server having told its last version,
\* a listened query's view is current and shows exactly what matches: no break,
\* kill, mismatch or overlap of requests leaves the client waiting for an answer
\* nobody will give (WatchChangeAggregator's counting of answers, RemoteStore's
\* renewed watches).  The server counts every time, or knows the client's keys.
THEOREM QuietClientsAreServed ==
    Spec /\ [](AlwaysCounts \/ ServerKnowsTheKeys) => []QuietMeansServed
<1>1. Init => Renewal
  BY DEF Init, Renewal, ResetsRenew, BecomesCurrent, Heard
<1>2. IInv /\ IInv' /\ Renewal /\ [Next]_vars => Renewal'
  <2>1. Next => \/ Listen \/ StopListening \/ Open \/ Break \/ Kill \/ AnswersUnwatch
                \/ Offline \/ ServerChanges
                \/ AnswersWatch \/ Tells \/ TellsAnew
                \/ Deliver
    BY DEF Next, Deliver
  <2> QED BY <2>1, UnheardRenews, StillRenews, TellingRenews, DeliverRenews
<1>3. IInv /\ Renewal => QuietMeansServed
  <2> SUFFICES ASSUME IInv, Renewal, listening, stream = "open", up = << >>, down = << >>,
                      told \in {0, Now}
               PROVE  view.current /\ view.synced = history[Now]
    BY DEF QuietMeansServed
  <2>1. Heard /\ view.current
    BY DEF Heard, Renewal, BecomesCurrent
  <2>2. told = Now /\ cached = history[told] /\ view.synced = cached
    BY <2>1 DEF IInv, Channel, Watched, Complete, Types, MappingsAgree
  <2> QED BY <2>1, <2>2
<1> QED BY <1>1, <1>2, <1>3, InitKeeps, StepKeeps, TypesHold, PTL DEF Spec

=============================================================================
