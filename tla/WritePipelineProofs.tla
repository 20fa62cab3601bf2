------------------------- MODULE WritePipelineProofs -------------------------
(***************************************************************************)
(* Proofs about WritePipeline, for every set of users and calls, every     *)
(* size of the pipeline and any number of streams.                         *)
(***************************************************************************)
EXTENDS WritePipeline, SequenceTheorems, TLAPS

Request == Batch \union {Hello}
Decided(c) == c \in applied \union refused

\* The user's queue was given the call; it was given c before d.
Has(u, c) == \E i \in DOMAIN ledger[u] : ledger[u][i] = c
Before(u, c, d) ==
    \E i, j \in DOMAIN ledger[u] : i < j /\ ledger[u][i] = c /\ ledger[u][j] = d

\* Batches are told apart by user and id and hold one call each, in the order
\* of the ledger; a callback is that of a stored batch.
Keyed(S) == \A b, d \in S : Key(b) = Key(d) => b = d
Kept ==
    /\ Keyed(stored) /\ callbacks \subseteq stored
    /\ \A b \in stored : b.id < nextId /\ Has(b.user, b.call)
    /\ \A b, d \in stored : b.call = d.call => b = d
    /\ \A b, d \in stored : b.user = d.user /\ Before(b.user, b.call, d.call) => b.id < d.id
    /\ \A c \in Calls : told[c] # "nothing" => \E u \in Users : Has(u, c)

\* Pipeline p is the oldest part of the queue of u.
Oldest(S, u, p) ==
    /\ p \in Seq(Batch) /\ Len(p) <= MaxPending
    /\ \A i \in DOMAIN p : p[i] \in Queue(S, u)
    /\ \A i, j \in DOMAIN p : i < j => p[i].id < p[j].id
    /\ \A b \in Queue(S, u), i \in DOMAIN p :
        b.id < p[i].id => \E j \in DOMAIN p : j < i /\ p[j] = b
Piped == Oldest(stored, user, pipeline) /\ << >> \in Fetches(stored, user, pipeline)

\* What a stream knows in each of its states.
Streaming ==
    /\ pipeline # << >> => Started
    /\ IdleMeansUnneeded
    /\ state = "Open" => streams \in Streams
    /\ state # "Open" => ~handshake /\ responses = 0 /\ fate = "alive"
    /\ state = "Open" /\ ~handshake =>
        /\ fate = "alive"
        /\ \/ line[streams] = <<Hello>> /\ responses = 0
           \/ line[streams] = << >> /\ responses = 1

\* Whatever a stream still holds for the server, the calls its user made
\* before are decided on or ahead of it on the same stream.
InOrder(q) ==
    \A i \in DOMAIN q : q[i] # Hello =>
        /\ Has(q[i].user, q[i].call)
        /\ \A c \in Calls : Before(q[i].user, c, q[i].call) =>
            Decided(c) \/ \E j \in DOMAIN q : j < i /\ q[j] # Hello /\ q[j].call = c
LinesInOrder == \A k \in Streams : InOrder(line[k])

IInv == /\ TypeOK /\ Kept /\ ToldTheTruth /\ NothingLost
        /\ Piped /\ Streaming /\ Expected /\ LinesInOrder

-----------------------------------------------------------------------------
(* Sequences of requests.                                                  *)

\* Requests q are those of pipeline p after the first t.
Agree(p, q, t) ==
    /\ Len(p) = t + Len(q)
    /\ \A i \in DOMAIN q : q[i] = p[t + i]

LEMMA SeqFacts ==
    ASSUME NEW X, NEW s \in Seq(X)
    PROVE  /\ Len(s) \in Nat /\ DOMAIN s = 1 .. Len(s)
           /\ \A i \in DOMAIN s : s[i] \in X
           /\ s = << >> <=> Len(s) = 0
BY LenProperties, ElementOfSeq, EmptySeq

LEMMA ConcatFacts ==
    ASSUME NEW X, NEW s \in Seq(X), NEW t \in Seq(X)
    PROVE  LET st == s \o t IN
           /\ st \in Seq(X) /\ Len(st) = Len(s) + Len(t)
           /\ DOMAIN st = 1 .. Len(s) + Len(t)
           /\ \A i \in DOMAIN s : i \in DOMAIN st /\ st[i] = s[i]
           /\ \A i \in DOMAIN t : Len(s) + i \in DOMAIN st /\ st[Len(s) + i] = t[i]
           /\ \A i \in DOMAIN st : i \in DOMAIN s \/ (i - Len(s) \in DOMAIN t /\ st[i] = t[i - Len(s)])
<1> DEFINE st == s \o t
<1>1. /\ st \in Seq(X) /\ Len(st) = Len(s) + Len(t)
      /\ \A i \in 1 .. Len(s) + Len(t) : st[i] = IF i <= Len(s) THEN s[i] ELSE t[i - Len(s)]
  BY ConcatProperties
<1>2. Len(s) \in Nat /\ DOMAIN s = 1 .. Len(s) /\ Len(t) \in Nat /\ DOMAIN t = 1 .. Len(t)
  BY SeqFacts
<1>3. DOMAIN st = 1 .. Len(s) + Len(t)
  BY <1>1, SeqFacts
<1> HIDE DEF st
<1>4. \A i \in 1 .. Len(s) : i \in 1 .. Len(s) + Len(t) /\ st[i] = s[i]
  BY <1>1, <1>2
<1>5. \A i \in 1 .. Len(t) : Len(s) + i \in 1 .. Len(s) + Len(t) /\ st[Len(s) + i] = t[i]
  <2> SUFFICES ASSUME NEW i \in 1 .. Len(t)
               PROVE  Len(s) + i \in 1 .. Len(s) + Len(t) /\ st[Len(s) + i] = t[i]
    OBVIOUS
  <2>1. Len(s) + i \in 1 .. Len(s) + Len(t) /\ ~(Len(s) + i <= Len(s)) /\ (Len(s) + i) - Len(s) = i
    BY <1>2
  <2> QED BY <1>1, <2>1
<1>6. \A i \in 1 .. Len(s) + Len(t) :
        i \in 1 .. Len(s) \/ (i - Len(s) \in 1 .. Len(t) /\ st[i] = t[i - Len(s)])
  BY <1>1, <1>2
<1> QED BY <1>1, <1>2, <1>3, <1>4, <1>5, <1>6 DEF st

LEMMA TailFacts ==
    ASSUME NEW X, NEW s \in Seq(X), s # << >>
    PROVE  /\ Tail(s) \in Seq(X) /\ Len(Tail(s)) = Len(s) - 1 /\ Len(s) >= 1
           /\ 1 \in DOMAIN s /\ Head(s) = s[1] /\ s[1] \in X
           /\ \A i \in DOMAIN Tail(s) : i + 1 \in DOMAIN s /\ Tail(s)[i] = s[i + 1]
           /\ \A i \in DOMAIN s : i = 1 \/ (i - 1 \in DOMAIN Tail(s) /\ Tail(s)[i - 1] = s[i])
<1> DEFINE t == Tail(s)
<1>1. /\ t \in Seq(X) /\ Len(t) = Len(s) - 1 /\ Head(s) \in X
      /\ \A i \in 1 .. Len(t) : t[i] = s[i + 1]
  BY HeadTailProperties
<1>2. Len(s) \in Nat /\ Len(s) # 0 /\ DOMAIN s = 1 .. Len(s) /\ Head(s) = s[1]
  BY SeqFacts
<1>3. DOMAIN t = 1 .. Len(t)
  BY <1>1, SeqFacts
<1> HIDE DEF t
<1>4. \A i \in 1 .. Len(s) : i = 1 \/ (i - 1 \in 1 .. Len(t) /\ (i - 1) + 1 = i)
  BY <1>1, <1>2
<1>5. \A i \in 1 .. Len(s) : i = 1 \/ t[i - 1] = s[i]
  BY <1>1, <1>4
<1>6. \A i \in 1 .. Len(t) : i + 1 \in 1 .. Len(s)
  BY <1>1, <1>2
<1>7. 1 \in 1 .. Len(s) /\ Len(s) >= 1
  BY <1>2
<1> QED BY <1>1, <1>2, <1>3, <1>4, <1>5, <1>6, <1>7 DEF t

LEMMA AgreeAppend ==
    ASSUME NEW p \in Seq(Request), NEW q \in Seq(Request), NEW s \in Seq(Request), NEW t \in Nat,
           Agree(p, q, t)
    PROVE  Agree(p \o s, q \o s, t)
<1>0. /\ Len(p) \in Nat /\ Len(q) \in Nat /\ Len(s) \in Nat /\ Len(p) = t + Len(q)
      /\ DOMAIN p = 1 .. Len(p) /\ DOMAIN q = 1 .. Len(q) /\ DOMAIN s = 1 .. Len(s)
  BY SeqFacts DEF Agree
<1>a. Len(p \o s) = Len(p) + Len(s) /\ Len(q \o s) = Len(q) + Len(s)
  BY ConcatFacts
<1>1. Len(p \o s) = t + Len(q \o s)
  BY <1>0, <1>a
<1>2. ASSUME NEW i \in DOMAIN (q \o s)
      PROVE  (q \o s)[i] = (p \o s)[t + i]
  <2>1. CASE i \in DOMAIN q
    <3>1. q[i] = p[t + i] /\ t + i \in DOMAIN p
      BY <1>0, <2>1 DEF Agree
    <3> QED BY <2>1, <3>1, ConcatFacts
  <2>2. CASE i - Len(q) \in DOMAIN s /\ (q \o s)[i] = s[i - Len(q)]
    <3>1. i \in Nat
      BY <1>0, ConcatFacts
    <3>2. (t + i) = Len(p) + (i - Len(q))
      BY <1>0, <3>1
    <3>3. (p \o s)[Len(p) + (i - Len(q))] = s[i - Len(q)]
      BY <2>2, ConcatFacts
    <3> QED BY <2>2, <3>2, <3>3
  <2>3. i \in DOMAIN q \/ (i - Len(q) \in DOMAIN s /\ (q \o s)[i] = s[i - Len(q)])
    BY ConcatFacts
  <2> QED BY <2>1, <2>2, <2>3
<1> QED BY <1>1, <1>2 DEF Agree

LEMMA AgreeTake ==
    ASSUME NEW p \in Seq(Request), NEW q \in Seq(Request), NEW t \in Nat, q # << >>, Agree(p, q, t)
    PROVE  Agree(p, Tail(q), t + 1) /\ t + 1 \in DOMAIN p /\ p[t + 1] = q[1]
<1>0. /\ Len(p) \in Nat /\ Len(q) \in Nat /\ Len(p) = t + Len(q) /\ Len(q) >= 1
      /\ DOMAIN p = 1 .. Len(p) /\ DOMAIN q = 1 .. Len(q) /\ 1 \in DOMAIN q
      /\ Tail(q) \in Seq(Request) /\ Len(Tail(q)) = Len(q) - 1
      /\ DOMAIN Tail(q) = 1 .. Len(Tail(q))
  BY SeqFacts, TailFacts DEF Agree
<1>1. Len(p) = (t + 1) + Len(Tail(q)) /\ t + 1 \in DOMAIN p
  BY <1>0
<1>2. ASSUME NEW i \in DOMAIN Tail(q) PROVE Tail(q)[i] = p[(t + 1) + i]
  <2>1. Tail(q)[i] = q[i + 1] /\ i + 1 \in DOMAIN q
    BY TailFacts
  <2>2. t + (i + 1) = (t + 1) + i
    BY <1>0
  <2> QED BY <2>1, <2>2 DEF Agree
<1>3. p[t + 1] = q[1]
  BY <1>0 DEF Agree
<1> QED BY <1>1, <1>2, <1>3 DEF Agree

LEMMA AgreePop ==
    ASSUME NEW p \in Seq(Request), NEW q \in Seq(Request), NEW t \in Nat, t >= 1, Agree(p, q, t)
    PROVE  p # << >> /\ Agree(Tail(p), q, t - 1)
<1>0. /\ Len(p) \in Nat /\ Len(q) \in Nat /\ Len(p) = t + Len(q)
      /\ DOMAIN p = 1 .. Len(p) /\ DOMAIN q = 1 .. Len(q)
  BY SeqFacts DEF Agree
<1>1. p # << >>
  <2>1. Len(p) # 0
    BY <1>0
  <2> QED BY <2>1, SeqFacts
<1>2. /\ Tail(p) \in Seq(Request) /\ Len(Tail(p)) = Len(p) - 1
      /\ DOMAIN Tail(p) = 1 .. Len(Tail(p))
  BY <1>1, TailFacts, SeqFacts
<1>3. Len(Tail(p)) = (t - 1) + Len(q)
  BY <1>0, <1>2
<1>4. ASSUME NEW i \in DOMAIN q PROVE q[i] = Tail(p)[(t - 1) + i]
  <2>1. (t - 1) + i \in DOMAIN Tail(p) /\ ((t - 1) + i) + 1 = t + i
    BY <1>0, <1>2
  <2>2. Tail(p)[(t - 1) + i] = p[t + i]
    BY <1>1, <2>1, TailFacts
  <2> QED BY <2>2 DEF Agree
<1> QED BY <1>1, <1>3, <1>4 DEF Agree

-----------------------------------------------------------------------------
(* What FillWritePipeline fetches.                                         *)

Later(S, u, p) == {b \in Queue(S, u) : p = << >> \/ b.id > p[Len(p)].id}

LEMMA FetchesAre ==
    ASSUME NEW S \in SUBSET Batch, NEW u, NEW p \in Seq(Batch), NEW s \in Fetches(S, u, p)
    PROVE  /\ s \in Seq(Batch) /\ Len(p) + Len(s) <= MaxPending
           /\ \A i \in DOMAIN s : s[i] \in Later(S, u, p)
           /\ \A i, j \in DOMAIN s : i < j => s[i].id < s[j].id
           /\ \A b \in Later(S, u, p) :
                \/ \E i \in DOMAIN s : s[i] = b
                \/ /\ Len(p) + Len(s) = MaxPending
                   /\ \A i \in DOMAIN s : s[i].id < b.id
<1>1. PICK k \in 0 .. MaxPending - Len(p) : s \in [1 .. k -> Later(S, u, p)]
  BY DEF Fetches, Later
<1>2. Later(S, u, p) \subseteq Batch
  BY DEF Later, Queue
<1>3. Len(p) \in Nat /\ MaxPending \in Nat
  BY SeqFacts, BoundsAreNat
<1>4. k \in Nat /\ Len(p) + k <= MaxPending
  BY <1>1, <1>3
<1>5. s \in Seq(Batch)
  BY <1>1, <1>2, <1>4, SeqDef
<1>6. Len(s) = k
  BY <1>1, <1>4, <1>5, SeqFacts
<1>7. \A i \in DOMAIN s : s[i] \in Later(S, u, p)
  BY <1>1
<1> QED BY <1>4, <1>5, <1>6, <1>7 DEF Fetches, Later

LEMMA FetchesNothing ==
    ASSUME NEW S \in SUBSET Batch, NEW u, NEW p \in Seq(Batch), Len(p) <= MaxPending
    PROVE  << >> \in Fetches(S, u, p) <=> Later(S, u, p) = {} \/ Len(p) = MaxPending
<1>1. Len(p) \in Nat /\ MaxPending \in Nat /\ Len(<< >>) = 0 /\ DOMAIN << >> = {}
  BY SeqFacts, BoundsAreNat
<1>2. 0 \in 0 .. MaxPending - Len(p) /\ Len(p) + 0 = Len(p)
  BY <1>1
<1>3. << >> \in [1 .. 0 -> Later(S, u, p)]
  OBVIOUS
<1>4. << >> \in UNION {[1 .. k -> Later(S, u, p)] : k \in 0 .. MaxPending - Len(p)}
  BY <1>2, <1>3
<1>5. << >> \in Fetches(S, u, p) <=>
        \A b \in Later(S, u, p) : Len(p) + 0 = MaxPending
  BY <1>1, <1>4 DEF Fetches, Later
<1> QED BY <1>2, <1>5

LEMMA FetchFacts ==
    ASSUME NEW S \in SUBSET Batch, Keyed(S), NEW u \in Users, NEW p, Oldest(S, u, p),
           NEW s \in Fetches(S, u, p)
    PROVE  /\ s \in Seq(Batch) /\ Oldest(S, u, p \o s) /\ << >> \in Fetches(S, u, p \o s)
           /\ p \o s = << >> => Queue(S, u) = {}
<1> DEFINE q == p \o s
<1>0. p \in Seq(Batch)
  BY DEF Oldest
<1>1. /\ s \in Seq(Batch) /\ Len(p) + Len(s) <= MaxPending
      /\ \A i \in DOMAIN s : s[i] \in Later(S, u, p)
      /\ \A i, j \in DOMAIN s : i < j => s[i].id < s[j].id
      /\ \A b \in Later(S, u, p) :
           \/ \E i \in DOMAIN s : s[i] = b
           \/ /\ Len(p) + Len(s) = MaxPending
              /\ \A i \in DOMAIN s : s[i].id < b.id
  BY <1>0, FetchesAre
<1>2. /\ q \in Seq(Batch) /\ Len(q) = Len(p) + Len(s) /\ DOMAIN q = 1 .. Len(p) + Len(s)
      /\ \A i \in DOMAIN p : i \in DOMAIN q /\ q[i] = p[i]
      /\ \A i \in DOMAIN s : Len(p) + i \in DOMAIN q /\ q[Len(p) + i] = s[i]
      /\ \A i \in DOMAIN q : i \in DOMAIN p \/ (i - Len(p) \in DOMAIN s /\ q[i] = s[i - Len(p)])
  BY <1>0, <1>1, ConcatFacts
<1>3. /\ Len(p) \in Nat /\ DOMAIN p = 1 .. Len(p) /\ Len(s) \in Nat /\ DOMAIN s = 1 .. Len(s)
      /\ (p = << >> <=> Len(p) = 0) /\ (s = << >> <=> Len(s) = 0) /\ (q = << >> <=> Len(q) = 0)
      /\ MaxPending \in Nat \ {0}
  BY <1>0, <1>1, <1>2, SeqFacts, BoundsAreNat
<1> HIDE DEF q
<1>4. \A b \in S : b \in Batch /\ b.id \in Nat
  BY DEF Batch
<1>5. Queue(S, u) \subseteq S /\ Later(S, u, p) \subseteq Queue(S, u)
  BY DEF Queue, Later
<1>6. \A i \in DOMAIN q : q[i] \in Queue(S, u)
  BY <1>1, <1>2, <1>5 DEF Oldest
<1>7. \A i \in DOMAIN p, b \in Later(S, u, p) : p[i].id < b.id
  <2> SUFFICES ASSUME NEW i \in DOMAIN p, NEW b \in Later(S, u, p) PROVE p[i].id < b.id
    OBVIOUS
  <2>1. Len(p) \in DOMAIN p /\ p # << >> /\ (i = Len(p) \/ i < Len(p))
    BY <1>3
  <2>2. p[i].id \in Nat /\ p[Len(p)].id \in Nat /\ b.id \in Nat
    BY <1>4, <1>5, <2>1 DEF Oldest
  <2>3. p[Len(p)].id < b.id
    BY <2>1, <2>2 DEF Later
  <2>4. i < Len(p) => p[i].id < p[Len(p)].id
    BY <2>1 DEF Oldest
  <2> QED BY <2>1, <2>2, <2>3, <2>4
<1>8. ASSUME NEW i \in DOMAIN q, NEW j \in DOMAIN q, i < j
      PROVE  q[i].id < q[j].id
  <2>1. CASE j \in DOMAIN p
    <3>1. i \in DOMAIN p
      BY <1>2, <1>3, <1>8, <2>1
    <3> QED BY <1>2, <1>8, <2>1, <3>1 DEF Oldest
  <2>2. CASE j \notin DOMAIN p /\ i \in DOMAIN p
    BY <1>1, <1>2, <1>7, <2>2
  <2>3. CASE j \notin DOMAIN p /\ i \notin DOMAIN p
    <3>1. /\ i - Len(p) \in DOMAIN s /\ q[i] = s[i - Len(p)]
          /\ j - Len(p) \in DOMAIN s /\ q[j] = s[j - Len(p)]
      BY <1>2, <2>3
    <3>2. i - Len(p) < j - Len(p)
      BY <1>2, <1>3, <1>8
    <3> QED BY <1>1, <3>1, <3>2
  <2> QED BY <2>1, <2>2, <2>3
<1>9. ASSUME NEW b \in Queue(S, u), NEW i \in DOMAIN q, b.id < q[i].id
      PROVE  \E j \in DOMAIN q : j < i /\ q[j] = b
  <2>1. CASE i \in DOMAIN p
    <3>1. PICK j \in DOMAIN p : j < i /\ p[j] = b
      BY <1>2, <1>9, <2>1 DEF Oldest
    <3> QED BY <1>2, <3>1
  <2>2. CASE i \notin DOMAIN p
    <3>1. i - Len(p) \in DOMAIN s /\ q[i] = s[i - Len(p)] /\ i > Len(p)
      BY <1>2, <1>3, <2>2
    <3>2. CASE b \in Later(S, u, p)
      <4>1. b.id \in Nat /\ q[i].id \in Nat
        BY <1>4, <1>5, <1>6
      <4>2. ~(q[i].id < b.id)
        BY <1>9, <4>1
      <4>3. PICK j \in DOMAIN s : s[j] = b
        BY <1>1, <3>1, <3>2, <4>2
      <4>4. Len(p) + j \in DOMAIN q /\ q[Len(p) + j] = b
        BY <1>2, <4>3
      <4>5. ~(i < Len(p) + j)
        BY <1>8, <4>2, <4>4
      <4>6. i # Len(p) + j
        BY <1>9, <4>1, <4>4
      <4> QED BY <1>2, <1>3, <4>4, <4>5, <4>6
    <3>3. CASE b \notin Later(S, u, p)
      <4>1. p # << >> /\ ~(b.id > p[Len(p)].id) /\ Len(p) \in DOMAIN p
        BY <1>3, <3>3 DEF Later
      <4>2. b.id \in Nat /\ p[Len(p)] \in Queue(S, u) /\ p[Len(p)].id \in Nat
        BY <1>4, <1>5, <4>1 DEF Oldest
      <4>3. CASE b.id < p[Len(p)].id
        <5>1. PICK j \in DOMAIN p : p[j] = b
          BY <4>1, <4>3 DEF Oldest
        <5>2. j < i
          BY <1>2, <1>3, <3>1, <5>1
        <5> QED BY <1>2, <5>1, <5>2
      <4>4. CASE b.id = p[Len(p)].id
        <5>1. b = p[Len(p)]
          BY <1>5, <4>2, <4>4 DEF Keyed, Key, Queue
        <5> QED BY <1>2, <3>1, <4>1, <5>1
      <4> QED BY <4>1, <4>2, <4>3, <4>4
    <3> QED BY <3>2, <3>3
  <2> QED BY <2>1, <2>2
<1>10. Oldest(S, u, q)
  BY <1>1, <1>2, <1>6, <1>8, <1>9 DEF Oldest
<1>11. ASSUME Len(q) # MaxPending, NEW b \in Later(S, u, q) PROVE FALSE
  <2>1. b \in Queue(S, u) /\ b.id \in Nat
    BY <1>4, <1>5 DEF Later
  <2>2. CASE b \in Later(S, u, p)
    <3>1. PICK i \in DOMAIN s : s[i] = b
      BY <1>1, <1>2, <1>11, <2>2
    <3>2. Len(p) + i \in DOMAIN q /\ q[Len(p) + i] = b /\ Len(q) \in DOMAIN q /\ q # << >>
      BY <1>2, <1>3, <3>1
    <3>3. b.id > q[Len(q)].id /\ q[Len(q)].id \in Nat
      BY <1>4, <1>5, <1>6, <3>2 DEF Later
    <3>4. Len(p) + i < Len(q) \/ Len(p) + i = Len(q)
      <4>1. i \in 1 .. Len(s) /\ Len(q) = Len(p) + Len(s) /\ Len(p) \in Nat /\ Len(s) \in Nat
        BY <1>2, <1>3, <3>1
      <4> QED BY ONLY <4>1
    <3> QED BY <1>8, <2>1, <3>2, <3>3, <3>4
  <2>3. CASE b \notin Later(S, u, p)
    <3>1. p # << >> /\ ~(b.id > p[Len(p)].id) /\ Len(p) \in DOMAIN p
      BY <1>3, <2>1, <2>3 DEF Later
    <3>2. Len(q) \in DOMAIN q /\ q # << >> /\ q[Len(p)] = p[Len(p)] /\ Len(p) \in DOMAIN q
      BY <1>2, <1>3, <3>1
    <3>3. b.id > q[Len(q)].id /\ q[Len(q)].id \in Nat /\ q[Len(p)].id \in Nat
      BY <1>4, <1>5, <1>6, <3>2 DEF Later
    <3>4. Len(p) < Len(q) \/ Len(p) = Len(q)
      <4>1. Len(q) = Len(p) + Len(s) /\ Len(p) \in Nat /\ Len(s) \in Nat
        BY <1>2, <1>3
      <4> QED BY ONLY <4>1
    <3> QED BY <1>8, <2>1, <3>1, <3>2, <3>3, <3>4
  <2> QED BY <2>2, <2>3
<1>12. << >> \in Fetches(S, u, q)
  BY <1>1, <1>2, <1>11, FetchesNothing
<1>13. ASSUME q = << >> PROVE Queue(S, u) = {}
  <2>1. Len(q) = 0 /\ Len(q) # MaxPending
    BY <1>3, <1>13
  <2>2. Later(S, u, q) = {}
    BY <1>11, <2>1
  <2> QED BY <1>13, <2>2 DEF Later
<1> QED BY <1>1, <1>10, <1>12, <1>13 DEF q

-----------------------------------------------------------------------------
(* Facts shared by several steps.                                          *)

\* The types of what the proofs look into.
LEMMA Types ==
    ASSUME TypeOK
    PROVE  /\ stored \in SUBSET Batch /\ user \in Users /\ pipeline \in Seq(Batch)
           /\ pipeline \in Seq(Request) /\ responses \in Nat
           /\ \A b \in Batch : /\ b.user \in Users /\ b.id \in Nat /\ b.call \in Calls
                               /\ b # Hello /\ b \in Request
           /\ \A k \in Streams : line[k] \in Seq(Request)
           /\ \A u \in Users : ledger[u] \in Seq(Calls)
           /\ Len(pipeline) \in Nat /\ DOMAIN pipeline = 1 .. Len(pipeline)
<1>1. stored \in SUBSET Batch /\ user \in Users /\ pipeline \in Seq(Batch) /\ responses \in Nat
  BY DEF TypeOK
<1>2. pipeline \in Seq(Request)
  <2>1. \A i \in DOMAIN pipeline : pipeline[i] \in Request
    BY <1>1, SeqFacts DEF Request
  <2>2. pipeline \in [1 .. Len(pipeline) -> Batch] /\ Len(pipeline) \in Nat
    BY <1>1, LenProperties
  <2>3. pipeline \in [1 .. Len(pipeline) -> Request]
    BY <2>1, <2>2
  <2> QED BY <2>2, <2>3, SeqDef
<1>3. \A b \in Batch : /\ b.user \in Users /\ b.id \in Nat /\ b.call \in Calls
                      /\ b # Hello /\ b \in Request
  BY HelloIsNoBatch DEF Batch, Request
<1>4. /\ \A k \in Streams : line[k] \in Seq(Request)
      /\ \A u \in Users : ledger[u] \in Seq(Calls)
  BY DEF TypeOK, Request
<1> QED BY <1>1, <1>2, <1>3, <1>4, SeqFacts

\* What a live stream holds is in order, by its place in the pipeline.
LEMMA LiveInOrder ==
    TypeOK /\ Kept /\ NothingLost /\ Piped /\ Expected /\ state = "Open" /\ handshake /\ streams \in Streams
        => InOrder(line[streams])
<1> SUFFICES ASSUME TypeOK, Kept, NothingLost, Piped, Expected, state = "Open", handshake,
                    streams \in Streams,
                    NEW i \in DOMAIN line[streams]
             PROVE  /\ Has(line[streams][i].user, line[streams][i].call)
                    /\ \A c \in Calls : Before(line[streams][i].user, c, line[streams][i].call) =>
                        Decided(c) \/ \E j \in DOMAIN line[streams] :
                            j < i /\ line[streams][j] # Hello /\ line[streams][j].call = c
  BY DEF InOrder
<1> DEFINE L == line[streams]
           t == IF fate = "alive" THEN responses ELSE responses + 1
<1>1. /\ L \in Seq(Request) /\ Len(L) \in Nat /\ DOMAIN L = 1 .. Len(L)
      /\ responses \in Nat /\ t \in Nat
      /\ Len(pipeline) \in Nat /\ DOMAIN pipeline = 1 .. Len(pipeline)
  BY Types, SeqFacts
<1>2. /\ Len(pipeline) = t + Len(L)
      /\ \A k \in DOMAIN L : L[k] = pipeline[t + k]
      /\ \A k \in 1 .. responses : pipeline[k].call \in applied
      /\ t # responses => t = responses + 1 /\ pipeline[t].call \in refused
  BY <1>1 DEF Expected
<1> HIDE DEF L, t
<1>3. \A k \in DOMAIN pipeline : /\ pipeline[k] \in stored /\ pipeline[k] \in Batch
                                 /\ pipeline[k].user = user
  BY Types DEF Piped, Oldest, Queue
<1>4. i \in DOMAIN L
  BY DEF L
<1>5. t + i \in DOMAIN pipeline /\ L[i] = pipeline[t + i]
  BY <1>1, <1>2, <1>4
<1>6. Has(L[i].user, L[i].call)
  BY <1>3, <1>5 DEF Kept
<1>7. ASSUME NEW c \in Calls, Before(L[i].user, c, L[i].call), ~Decided(c)
      PROVE  \E j \in DOMAIN L : j < i /\ L[j] # Hello /\ L[j].call = c
  <2>1. PICK k \in DOMAIN ledger[user] : ledger[user][k] = c
    BY <1>3, <1>5, <1>7 DEF Before
  <2>2. PICK b \in stored : b.user = user /\ b.call = c
    BY <1>7, <2>1, Types DEF NothingLost, Decided
  <2>3. b.id < pipeline[t + i].id
    BY <1>3, <1>5, <1>7, <2>2 DEF Kept
  <2>4. PICK j \in DOMAIN pipeline : j < t + i /\ pipeline[j] = b
    BY <1>5, <2>2, <2>3 DEF Piped, Oldest, Queue
  <2>5. ~(j \in 1 .. responses) /\ ~(t # responses /\ j = t)
    BY <1>2, <1>7, <2>2, <2>4 DEF Decided
  <2>6. j - t \in DOMAIN L /\ j - t < i /\ t + (j - t) = j
    <3>1. t = responses \/ t = responses + 1
      BY <1>2
    <3>2. i \in 1 .. Len(L) /\ j \in 1 .. Len(pipeline)
      BY <1>1, <1>4
    <3>3. j \in Nat /\ j > t
      BY <1>1, <2>5, <3>1, <3>2
    <3> QED BY <1>1, <1>2, <2>4, <3>2, <3>3
  <2>7. L[j - t] = b /\ b # Hello
    BY <1>2, <2>2, <2>4, <2>6, Types
  <2> QED BY <2>2, <2>6, <2>7
<1> QED BY <1>6, <1>7 DEF L

\* The stream is closed, whatever closes it.
LEMMA CloseStep ==
    ASSUME IInv, Closed, idle' = FALSE, line' = line \/ line' = Unsent,
           state' \in {"Initial", "Starting", "Backoff", "Error"},
           pipeline' # << >> => state' \in {"Starting", "Backoff"},
           UNCHANGED <<ledger, applied, refused>>
    PROVE  /\ Streaming' /\ Expected' /\ LinesInOrder'
           /\ line' \in [Streams -> Seq(Request)] /\ handshake' \in BOOLEAN /\ idle' \in BOOLEAN
           /\ streams' \in 0 .. MaxStreams /\ responses' \in Nat /\ fate' = "alive"
<1>1. handshake' = FALSE /\ responses' = 0 /\ fate' = "alive" /\ streams' = streams
  BY DEF Closed
<1>2. Streaming'
  BY <1>1 DEF Streaming, Started, IdleMeansUnneeded
<1>3. Expected'
  BY DEF Expected
<1>4. /\ DOMAIN line' = Streams
      /\ \A k \in Streams : line'[k] = line[k] \/ line'[k] = << >>
  BY DEF Unsent, IInv, TypeOK
<1>5. line' \in [Streams -> Seq(Request)]
  <2>1. \A k \in Streams : line'[k] \in Seq(Request)
    BY <1>4, Types, EmptySeq DEF IInv
  <2> QED BY <1>4, <2>1 DEF Unsent, IInv, TypeOK, Request
<1>6. LinesInOrder'
  <2>1. \A k \in Streams : InOrder(line[k])
    BY DEF IInv, LinesInOrder
  <2>2. \A k \in Streams : line'[k] = << >> => InOrder(line[k])'
    BY DEF InOrder
  <2>3. \A k \in Streams : line'[k] = line[k] => InOrder(line[k])'
    BY <2>1 DEF InOrder, Has, Before, Decided
  <2> QED BY <1>4, <2>2, <2>3 DEF LinesInOrder
<1>7. streams' \in 0 .. MaxStreams
  BY <1>1 DEF IInv, TypeOK
<1> QED BY <1>1, <1>2, <1>3, <1>5, <1>6, <1>7

\* The callback for the front of the pipeline waits for the call of its batch.
LEMMA FrontAwaited ==
    ASSUME IInv, pipeline # << >>
    PROVE  /\ Head(pipeline) \in stored /\ Head(pipeline).user = user
           /\ Head(pipeline) \in Batch /\ Head(pipeline).call \in Calls
           /\ Head(pipeline) \in callbacks => Awaited(Head(pipeline)) = {Head(pipeline).call}
           /\ Head(pipeline) \notin callbacks => Awaited(Head(pipeline)) = {}
<1> DEFINE b == Head(pipeline)
<1>1. /\ stored \in SUBSET Batch /\ pipeline \in Seq(Batch)
      /\ 1 \in DOMAIN pipeline /\ b = pipeline[1]
  BY Types, TailFacts DEF IInv
<1>2. b \in stored /\ b.user = user /\ b \in Batch /\ b.call \in Calls
  BY <1>1, Types DEF IInv, Piped, Oldest, Queue
<1>3. \A x \in callbacks : Key(x) = Key(b) <=> x = b
  BY <1>2 DEF IInv, Kept, Keyed
<1> HIDE DEF b
<1>4. b \in callbacks => Awaited(b) = {b.call}
  BY <1>3 DEF Awaited
<1>5. b \notin callbacks => Awaited(b) = {}
  BY <1>3 DEF Awaited
<1> QED BY <1>2, <1>4, <1>5 DEF b

\* What Tell says of each call.
LEMMA Telling ==
    ASSUME IInv, pipeline # << >>, NEW verdict \in {"ok", "failed"}, Tell(Head(pipeline), verdict)
    PROVE  /\ told' \in [Calls -> {"nothing", "ok", "failed"}]
           /\ \A c \in Calls : told'[c] =
                IF Head(pipeline) \in callbacks /\ c = Head(pipeline).call THEN verdict ELSE told[c]
<1>1. told \in [Calls -> {"nothing", "ok", "failed"}]
  BY DEF IInv, TypeOK
<1>2. told' = [c \in Calls |-> IF c \in Awaited(Head(pipeline)) THEN verdict ELSE told[c]]
  BY DEF Tell
<1>3. \A c \in Calls : c \in Awaited(Head(pipeline)) <=>
            Head(pipeline) \in callbacks /\ c = Head(pipeline).call
  BY FrontAwaited
<1> QED BY <1>1, <1>2, <1>3

\* The front of the pipeline is done with: its batch and its callback are
\* removed, and the app, if it still waits, is told.
LEMMA HeadDone ==
    ASSUME IInv, pipeline # << >>, NEW verdict \in {"ok", "failed"},
           Notify(Head(pipeline), verdict), stored' = Remove(stored, Head(pipeline)),
           UNCHANGED <<ledger, cut, user, nextId, applied, refused>>,
           verdict = "ok" => Head(pipeline).call \in applied,
           Decided(Head(pipeline).call)
    PROVE  /\ Kept' /\ ToldTheTruth' /\ NothingLost'
           /\ Oldest(stored', user, Tail(pipeline))
           /\ stored' \in SUBSET Batch /\ callbacks' \in SUBSET Batch
           /\ told' \in [Calls -> {"nothing", "ok", "failed"}]
<1> DEFINE b == Head(pipeline)
<1>0. /\ stored \in SUBSET Batch /\ pipeline \in Seq(Batch)
      /\ 1 \in DOMAIN pipeline /\ b = pipeline[1]
  BY Types, TailFacts DEF IInv
<1>1. b \in stored /\ b.user = user /\ b \in Batch /\ b.call \in Calls
  BY <1>0, Types DEF IInv, Piped, Oldest, Queue
<1>2. stored' = stored \ {b}
  BY <1>1 DEF Remove, IInv, Kept, Keyed
<1>3. callbacks' = callbacks \ {b}
  BY <1>1 DEF Notify, Remove, IInv, Kept, Keyed
<1>4. \A c \in Calls : told'[c] = IF b \in callbacks /\ c = b.call THEN verdict ELSE told[c]
  BY Telling DEF Notify
<1>5. told' \in [Calls -> {"nothing", "ok", "failed"}]
  BY Telling DEF Notify
<1>6. b.call \in applied \union refused /\ (verdict = "ok" => b.call \in applied)
  BY DEF Decided
<1> HIDE DEF b
<1>7. \A d \in stored : d.call = b.call => d = b
  BY <1>1 DEF IInv, Kept
<1>8. Kept'
  <2>1. Keyed(stored)' /\ callbacks' \subseteq stored'
    BY <1>2, <1>3 DEF IInv, Kept, Keyed, Key
  <2>2. \A d \in stored' : (d.id < nextId /\ Has(d.user, d.call))'
    BY <1>2 DEF IInv, Kept, Has
  <2>3. /\ \A d, e \in stored' : d.call = e.call => d = e
        /\ \A d, e \in stored' : d.user = e.user /\ Before(d.user, d.call, e.call)' => d.id < e.id
    BY <1>2 DEF IInv, Kept, Before
  <2>4. \A c \in Calls : told'[c] # "nothing" => \E u \in Users : Has(u, c)'
    <3>1. \A c \in Calls : told[c] # "nothing" => \E u \in Users : Has(u, c)
      BY DEF IInv, Kept
    <3>2. Has(user, b.call) /\ user \in Users
      BY <1>1, Types DEF IInv, Kept
    <3>3. \A u, c : Has(u, c)' <=> Has(u, c)
      BY DEF Has
    <3> QED BY <1>4, <3>1, <3>2, <3>3
  <2> QED BY <2>1, <2>2, <2>3, <2>4 DEF Kept
<1>9. ToldTheTruth'
  <2> SUFFICES ASSUME NEW c \in Calls
               PROVE  /\ told'[c] = "ok" => c \in applied
                      /\ told'[c] = "failed" => c \in applied \union refused
                      /\ told'[c] # "nothing" =>
                            /\ \A d \in callbacks' : d.call # c
                            /\ \A d \in stored' : d.call = c => told'[c] = "ok" /\ c \in cut
    BY DEF ToldTheTruth
  <2>1. CASE b \in callbacks /\ c = b.call
    <3>1. told'[c] = verdict
      BY <1>4, <2>1
    <3>2. callbacks' \subseteq stored'
      BY <1>8 DEF Kept
    <3> QED BY <1>2, <1>6, <1>7, <2>1, <3>1, <3>2
  <2>2. CASE ~(b \in callbacks /\ c = b.call)
    <3>1. told'[c] = told[c]
      BY <1>4, <2>2
    <3> QED BY <1>2, <1>3, <3>1 DEF IInv, ToldTheTruth
  <2> QED BY <2>1, <2>2
<1>10. NothingLost'
  BY <1>2, <1>6 DEF IInv, NothingLost
<1>11. Oldest(stored', user, Tail(pipeline))
  <2>1. Oldest(stored, user, pipeline)
    BY DEF IInv, Piped
  <2> DEFINE t == Tail(pipeline)
  <2>2. /\ t \in Seq(Batch) /\ Len(t) = Len(pipeline) - 1
        /\ \A i \in DOMAIN t : i + 1 \in DOMAIN pipeline /\ t[i] = pipeline[i + 1]
        /\ \A i \in DOMAIN pipeline : i = 1 \/ (i - 1 \in DOMAIN t /\ t[i - 1] = pipeline[i])
    BY <1>0, TailFacts
  <2>3. /\ Len(pipeline) \in Nat /\ DOMAIN pipeline = 1 .. Len(pipeline)
        /\ Len(t) \in Nat /\ DOMAIN t = 1 .. Len(t) /\ MaxPending \in Nat
    BY <2>2, Types, SeqFacts, BoundsAreNat DEF IInv
  <2> HIDE DEF t
  <2>4. \A i \in DOMAIN pipeline : pipeline[i].id \in Nat
    BY <1>0, <2>1, Types DEF IInv, Oldest, Queue
  <2>5. \A i \in DOMAIN t : t[i] \in Queue(stored', user)
    <3> SUFFICES ASSUME NEW i \in DOMAIN t PROVE t[i] \in stored' /\ t[i].user = user
      BY DEF Queue
    <3>1. i + 1 \in DOMAIN pipeline /\ t[i] = pipeline[i + 1] /\ 1 < i + 1
      BY <2>2, <2>3
    <3>2. pipeline[1].id < pipeline[i + 1].id
      BY <1>0, <2>1, <3>1 DEF Oldest
    <3>3. pipeline[i + 1] # b
      BY <1>0, <2>4, <3>1, <3>2
    <3> QED BY <1>2, <2>1, <3>1, <3>3 DEF Oldest, Queue
  <2>6. ASSUME NEW i \in DOMAIN t, NEW j \in DOMAIN t, i < j PROVE t[i].id < t[j].id
    <3>1. i + 1 < j + 1
      BY <2>3, <2>6
    <3> QED BY <2>1, <2>2, <3>1 DEF Oldest
  <2>7. ASSUME NEW d \in Queue(stored', user), NEW i \in DOMAIN t, d.id < t[i].id
        PROVE  \E j \in DOMAIN t : j < i /\ t[j] = d
    <3>1. d \in Queue(stored, user) /\ d # b
      BY <1>2 DEF Queue
    <3>2. PICK j \in DOMAIN pipeline : j < i + 1 /\ pipeline[j] = d
      BY <2>1, <2>2, <2>7, <3>1 DEF Oldest
    <3>3. j # 1
      BY <1>0, <3>1, <3>2
    <3>4. j - 1 \in DOMAIN t /\ t[j - 1] = d
      BY <2>2, <3>2, <3>3
    <3>5. j - 1 < i
      BY <2>3, <3>2
    <3> QED BY <3>4, <3>5
  <2>8. Len(t) <= MaxPending
    BY <2>1, <2>2, <2>3 DEF Oldest
  <2>9. Oldest(stored', user, t)
    BY <2>2, <2>5, <2>6, <2>7, <2>8 DEF Oldest
  <2> QED BY <2>9 DEF t
<1>12. stored' \in SUBSET Batch /\ callbacks' \in SUBSET Batch
  BY <1>0, <1>2, <1>3 DEF IInv, TypeOK
<1> QED BY <1>5, <1>8, <1>9, <1>10, <1>11, <1>12

\* A pipeline loaded anew.
LEMMA Reloaded ==
    ASSUME NEW S \in SUBSET Batch, Keyed(S), NEW v \in Users, NEW s \in Fetches(S, v, << >>)
    PROVE  /\ s \in Seq(Batch) /\ Oldest(S, v, s) /\ << >> \in Fetches(S, v, s)
<1>1. Oldest(S, v, << >>)
  BY BoundsAreNat DEF Oldest
<1>2. /\ s \in Seq(Batch) /\ Oldest(S, v, << >> \o s)
      /\ << >> \in Fetches(S, v, << >> \o s)
  BY <1>1, FetchFacts
<1>3. << >> \o s = s
  BY <1>2, ConcatEmptySeq
<1> QED BY <1>2, <1>3

\* Ids that are loaded anew are above those of every stored batch.
LEMMA NextIdsAbove ==
    ASSUME NEW S \in SUBSET Batch, NEW i \in NextIds(S)
    PROVE  i \in Nat \ {0} /\ \A b \in S : b.id < i
<1>1. \A b \in S : b.id \in Nat
  BY DEF Batch
<1>2. i \in {1} \union {b.id + 1 : b \in S} /\ \A b \in S : b.id < i
  BY DEF NextIds
<1>3. \A b \in S : b.id + 1 \in Nat \ {0}
  BY <1>1
<1>4. i = 1 \/ \E b \in S : i = b.id + 1
  BY <1>2
<1>5. i \in Nat \ {0}
  BY <1>3, <1>4
<1> QED BY <1>2, <1>5

-----------------------------------------------------------------------------
(* The steps, after what they leave alone.                                 *)

LEMMA KeptAlone ==
    ASSUME IInv, UNCHANGED <<ledger, told, cut, stored, nextId, callbacks>>,
           applied \subseteq applied', refused \subseteq refused'
    PROVE  Kept' /\ ToldTheTruth' /\ NothingLost'
<1>1. Kept'
  BY DEF IInv, Kept, Keyed, Key, Has, Before
<1>2. ToldTheTruth'
  BY DEF IInv, ToldTheTruth
<1>3. NothingLost'
  BY DEF IInv, NothingLost
<1> QED BY <1>1, <1>2, <1>3

LEMMA PipedAlone ==
    ASSUME IInv, UNCHANGED <<stored, user, pipeline>>
    PROVE  Piped'
BY DEF IInv, Piped, Oldest, Queue, Fetches

LEMMA LinesAlone ==
    ASSUME IInv, UNCHANGED <<ledger, line, applied, refused>>
    PROVE  LinesInOrder'
BY DEF IInv, LinesInOrder, InOrder, Has, Before, Decided

LEMMA InitIInv == Init => IInv
<1> SUFFICES ASSUME Init PROVE IInv
  OBVIOUS
<1>1. TypeOK
  <2>1. << >> \in Seq(Calls) /\ << >> \in Seq(Batch) /\ << >> \in Seq(Batch \union {Hello})
    BY EmptySeq
  <2>2. /\ ledger \in [Users -> Seq(Calls)] /\ line \in [Streams -> Seq(Batch \union {Hello})]
        /\ told \in [Calls -> {"nothing", "ok", "failed"}]
    BY <2>1 DEF Init
  <2>3. streams \in 0 .. MaxStreams
    BY BoundsAreNat DEF Init
  <2>4. /\ pipeline \in Seq(Batch) /\ stored \subseteq Batch /\ callbacks \subseteq Batch
        /\ applied \subseteq Calls /\ refused \subseteq Calls /\ cut \subseteq Calls
    BY <2>1 DEF Init
  <2>5. /\ user \in Users /\ nextId \in Nat \ {0} /\ responses \in Nat
        /\ state = "Initial" /\ fate = "alive"
    BY DEF Init
  <2>6. handshake \in BOOLEAN /\ idle \in BOOLEAN
    BY DEF Init
  <2> QED BY <2>2, <2>3, <2>4, <2>5, <2>6 DEF TypeOK
<1>2. Kept /\ ToldTheTruth
  BY DEF Init, Kept, Keyed, ToldTheTruth
<1>3. NothingLost
  BY DEF Init, NothingLost
<1>4. Piped
  <2>1. Oldest(stored, user, pipeline)
    BY BoundsAreNat DEF Init, Oldest
  <2>2. << >> \in Fetches(stored, user, pipeline)
    <3>1. Later(stored, user, pipeline) = {}
      BY DEF Init, Later, Queue
    <3> QED BY <1>1, <2>1, <3>1, Types, FetchesNothing DEF Oldest
  <2> QED BY <2>1, <2>2 DEF Piped
<1>5. Streaming /\ Expected
  BY DEF Init, Streaming, IdleMeansUnneeded, Expected
<1>6. LinesInOrder
  BY DEF Init, LinesInOrder, InOrder
<1> QED BY <1>1, <1>2, <1>3, <1>4, <1>5, <1>6 DEF IInv

LEMMA TokenArrivesStep ==
    ASSUME IInv, TokenArrives
    PROVE  IInv'
<1>1. /\ state = "Starting" /\ state' = "Open" /\ streams' = streams + 1
      /\ line' = [line EXCEPT ![streams + 1] = <<Hello>>]
      /\ UNCHANGED <<app, queue, pipeline, handshake, idle, responses, fate, server>>
      /\ streams < MaxStreams
  BY DEF TokenArrives, Spare
<1>2. streams + 1 \in Streams /\ streams + 1 \in 0 .. MaxStreams
  BY <1>1, BoundsAreNat DEF IInv, TypeOK, Streams
<1>3. /\ line'[streams + 1] = <<Hello>> /\ <<Hello>> \in Seq(Batch \union {Hello})
      /\ \A k \in Streams : k # streams + 1 => line'[k] = line[k]
      /\ line' \in [Streams -> Seq(Batch \union {Hello})]
  BY <1>1, <1>2 DEF IInv, TypeOK
<1>4. TypeOK'
  BY <1>1, <1>2, <1>3 DEF IInv, TypeOK, app, queue, server
<1>5. Kept' /\ ToldTheTruth' /\ NothingLost' /\ Piped'
  BY <1>1, KeptAlone, PipedAlone DEF app, queue, server
<1>6. Streaming' /\ Expected'
  BY <1>1, <1>2, <1>3 DEF IInv, Streaming, Started, IdleMeansUnneeded, Expected
<1>7. LinesInOrder'
  <2> SUFFICES ASSUME NEW k \in Streams PROVE InOrder(line[k])'
    BY DEF LinesInOrder
  <2>2. CASE k = streams + 1
    <3>1. line'[k] = <<Hello>> /\ DOMAIN <<Hello>> = {1} /\ <<Hello>>[1] = Hello
      BY <1>3, <2>2
    <3> QED BY <3>1 DEF InOrder
  <2>3. CASE k # streams + 1
    <3>1. line'[k] = line[k] /\ UNCHANGED <<ledger, applied, refused>>
      BY <1>1, <1>3, <2>3 DEF app, server
    <3>2. InOrder(line[k])
      BY DEF IInv, LinesInOrder
    <3> QED BY <3>1, <3>2 DEF InOrder, Has, Before, Decided
  <2> QED BY <2>2, <2>3
<1> QED BY <1>4, <1>5, <1>6, <1>7 DEF IInv

LEMMA TokenFailsStep ==
    ASSUME IInv, TokenFails
    PROVE  IInv'
<1>1. /\ Closed /\ idle' = FALSE /\ line' = line /\ UNCHANGED <<app, queue, pipeline, server>>
      /\ state' = IF pipeline # << >> THEN "Backoff" ELSE "Error"
  BY DEF TokenFails, Start
<1>2. /\ Streaming' /\ Expected' /\ LinesInOrder'
      /\ line' \in [Streams -> Seq(Request)] /\ handshake' \in BOOLEAN /\ idle' \in BOOLEAN
      /\ streams' \in 0 .. MaxStreams /\ responses' \in Nat /\ fate' = "alive"
  BY <1>1, CloseStep DEF app, server
<1>3. TypeOK'
  BY <1>1, <1>2 DEF IInv, TypeOK, Request, app, queue, server
<1>4. Kept' /\ ToldTheTruth' /\ NothingLost' /\ Piped'
  BY <1>1, KeptAlone, PipedAlone DEF app, queue, server
<1> QED BY <1>2, <1>3, <1>4 DEF IInv

LEMMA BackoffStep ==
    ASSUME IInv, BackoffElapses
    PROVE  IInv'
<1>1. /\ state = "Backoff" /\ state' = "Starting"
      /\ UNCHANGED <<app, queue, pipeline, handshake, idle, streams, responses, fate, line, server>>
  BY DEF BackoffElapses
<1>2. TypeOK'
  BY <1>1 DEF IInv, TypeOK, app, queue, server
<1>3. Kept' /\ ToldTheTruth' /\ NothingLost' /\ Piped' /\ LinesInOrder'
  BY <1>1, KeptAlone, PipedAlone, LinesAlone DEF app, queue, server
<1>4. Streaming' /\ Expected'
  BY <1>1 DEF IInv, Streaming, Started, IdleMeansUnneeded, Expected
<1> QED BY <1>2, <1>3, <1>4 DEF IInv

\* IdleTimeout and Break.
LEMMA StopStep ==
    ASSUME IInv, IdleTimeout \/ Break
    PROVE  IInv'
<1>1. /\ Closed /\ idle' = FALSE /\ line' = Unsent /\ UNCHANGED <<app, queue, pipeline, server>>
      /\ state' \in {"Initial", "Starting", "Backoff", "Error"}
      /\ pipeline # << >> => state' \in {"Starting", "Backoff"}
  BY DEF IdleTimeout, Break, Start
<1>2. /\ Streaming' /\ Expected' /\ LinesInOrder'
      /\ line' \in [Streams -> Seq(Request)] /\ handshake' \in BOOLEAN /\ idle' \in BOOLEAN
      /\ streams' \in 0 .. MaxStreams /\ responses' \in Nat /\ fate' = "alive"
  BY <1>1, CloseStep DEF app, server
<1>3. TypeOK'
  BY <1>1, <1>2 DEF IInv, TypeOK, Request, app, queue, server
<1>4. Kept' /\ ToldTheTruth' /\ NothingLost' /\ Piped'
  BY <1>1, KeptAlone, PipedAlone DEF app, queue, server
<1> QED BY <1>2, <1>3, <1>4 DEF IInv

LEMMA WriteOpFailsStep ==
    ASSUME IInv, WriteOpFails
    PROVE  IInv'
<1>1. /\ state = "Open" /\ fate = "refused" /\ fate' \in {"failing", "failed"}
      /\ UNCHANGED <<app, queue, pipeline, state, handshake, idle, streams, responses, line, server>>
  BY DEF WriteOpFails
<1>2. TypeOK'
  BY <1>1 DEF IInv, TypeOK, app, queue, server
<1>3. Kept' /\ ToldTheTruth' /\ NothingLost' /\ Piped' /\ LinesInOrder'
  BY <1>1, KeptAlone, PipedAlone, LinesAlone DEF app, queue, server
<1>4. Streaming'
  BY <1>1 DEF IInv, Streaming, Started, IdleMeansUnneeded
<1>5. Expected'
  BY <1>1 DEF IInv, Expected, server
<1> QED BY <1>2, <1>3, <1>4, <1>5 DEF IInv

-----------------------------------------------------------------------------
(* Users and processes.                                                    *)

LEMMA ChangeUserStep ==
    ASSUME IInv, NEW v \in Users, ChangeUser(v)
    PROVE  IInv'
<1>1. /\ Closed /\ idle' = FALSE /\ line' = Unsent /\ UNCHANGED <<app, stored, callbacks, server>>
      /\ user' = v
  BY DEF ChangeUser
<1>2. /\ pipeline' \in Fetches(stored, v, << >>)
      /\ state' \in {"Initial", "Starting", "Backoff", "Error"}
      /\ pipeline' # << >> => state' \in {"Starting", "Backoff"}
  <2> DEFINE at == IF Started THEN "Initial" ELSE state
  <2>1. PICK s \in Fetches(stored, v, << >>) :
          pipeline' = s /\ state' = IF s # << >> THEN Start(at) ELSE at
    BY DEF ChangeUser
  <2>2. at \in {"Initial", "Error"}
    BY DEF Started, IInv, TypeOK
  <2> QED BY <2>1, <2>2 DEF Start
<1>3. nextId' \in NextIds(stored) \/ nextId' = nextId
  BY DEF ChangeUser
<1>4. stored \in SUBSET Batch /\ Keyed(stored)
  BY Types DEF IInv, Kept
<1>5. /\ Streaming' /\ Expected' /\ LinesInOrder'
      /\ line' \in [Streams -> Seq(Request)] /\ handshake' \in BOOLEAN /\ idle' \in BOOLEAN
      /\ streams' \in 0 .. MaxStreams /\ responses' \in Nat /\ fate' = "alive"
  BY <1>1, <1>2, CloseStep DEF app, server
<1>6. /\ pipeline' \in Seq(Batch) /\ Oldest(stored, v, pipeline')
      /\ << >> \in Fetches(stored, v, pipeline')
  BY <1>2, <1>4, Reloaded
<1>7. nextId' \in Nat \ {0} /\ \A b \in stored : b.id < nextId'
  <2>1. PICK i : i = nextId'
    OBVIOUS
  <2>2. CASE i \in NextIds(stored)
    BY <1>4, <2>1, <2>2, NextIdsAbove
  <2>3. CASE i = nextId
    BY <2>1, <2>3 DEF IInv, TypeOK, Kept
  <2> QED BY <1>3, <2>1, <2>2, <2>3
<1>8. TypeOK'
  BY <1>1, <1>2, <1>5, <1>6, <1>7 DEF IInv, TypeOK, Request, app, server
<1>9. Kept'
  BY <1>1, <1>7 DEF IInv, Kept, Keyed, Key, Has, Before, app
<1>10. ToldTheTruth' /\ NothingLost'
  BY <1>1 DEF IInv, ToldTheTruth, NothingLost, app, server
<1>11. Piped'
  <2>1. Oldest(stored', v, pipeline') /\ << >> \in Fetches(stored', v, pipeline')
    BY <1>1, <1>6
  <2> QED BY <1>1, <2>1 DEF Piped, Oldest, Fetches, Queue
<1> QED BY <1>5, <1>8, <1>9, <1>10, <1>11 DEF IInv

\* A kill, whatever it cut short: what is left of the queues is loaded anew.
LEMMA RebootStep ==
    ASSUME IInv, NEW v \in Users, Reboot(v), stored' \in SUBSET stored,
           told' \in [Calls -> {"nothing", "ok", "failed"}], cut' \in SUBSET Calls,
           \A c \in Calls : told'[c] # "nothing" => \E u \in Users : Has(u, c),
           ToldTheTruth', NothingLost'
    PROVE  IInv'
<1>1. /\ Closed /\ idle' = FALSE /\ line' = Unsent /\ UNCHANGED <<ledger, server>>
      /\ user' = v /\ callbacks' = {} /\ nextId' \in NextIds(stored')
      /\ pipeline' \in Fetches(stored', v, << >>)
      /\ state' \in {"Initial", "Starting"}
      /\ pipeline' # << >> => state' = "Starting"
  BY DEF Reboot
<1>2. PICK S : S = stored'
  OBVIOUS
<1>3. S \in SUBSET Batch /\ S \in SUBSET stored /\ Keyed(S)
  BY <1>2, Types DEF IInv, Kept, Keyed
<1>4. /\ Streaming' /\ Expected' /\ LinesInOrder'
      /\ line' \in [Streams -> Seq(Request)] /\ handshake' \in BOOLEAN /\ idle' \in BOOLEAN
      /\ streams' \in 0 .. MaxStreams /\ responses' \in Nat /\ fate' = "alive"
  BY <1>1, CloseStep DEF server
<1>5. /\ pipeline' \in Seq(Batch) /\ Oldest(S, v, pipeline')
      /\ << >> \in Fetches(S, v, pipeline')
  <2>1. PICK s : s = pipeline'
    OBVIOUS
  <2>2. s \in Fetches(S, v, << >>)
    BY <1>1, <1>2, <2>1
  <2> QED BY <1>3, <2>1, <2>2, Reloaded
<1>6. nextId' \in Nat \ {0} /\ \A b \in S : b.id < nextId'
  <2>1. PICK i : i = nextId'
    OBVIOUS
  <2>2. i \in NextIds(S)
    BY <1>1, <1>2, <2>1
  <2> QED BY <1>3, <2>1, <2>2, NextIdsAbove
<1>7. TypeOK'
  BY <1>1, <1>2, <1>3, <1>4, <1>5, <1>6 DEF IInv, TypeOK, Request, server
<1>8. Kept'
  BY <1>1, <1>2, <1>3, <1>6 DEF IInv, Kept, Keyed, Key, Has, Before
<1>9. Piped'
  BY <1>1, <1>2, <1>5 DEF Piped, Oldest, Fetches, Queue
<1> QED BY <1>4, <1>7, <1>8, <1>9 DEF IInv

LEMMA RestartStep ==
    ASSUME IInv, NEW v \in Users, Restart(v)
    PROVE  IInv'
<1>1. Reboot(v) /\ UNCHANGED <<told, cut, stored>>
  BY DEF Restart
<1>2. callbacks' = {} /\ UNCHANGED <<ledger, applied, refused>>
  BY <1>1 DEF Reboot, server
<1>3. ToldTheTruth' /\ NothingLost'
  BY <1>1, <1>2 DEF IInv, ToldTheTruth, NothingLost
<1>4. /\ stored' \in SUBSET stored /\ cut' \in SUBSET Calls
      /\ told' \in [Calls -> {"nothing", "ok", "failed"}]
      /\ \A c \in Calls : told'[c] # "nothing" => \E u \in Users : Has(u, c)
  BY <1>1 DEF IInv, TypeOK, Kept
<1> QED BY <1>1, <1>3, <1>4, RebootStep

\* On an open stream that has shaken hands, how much of the pipeline the
\* server has taken up.
Gone == IF fate = "alive" THEN responses ELSE responses + 1

LEMMA LiveStream ==
    ASSUME IInv, state = "Open", handshake
    PROVE  /\ Gone \in Nat /\ responses \in Nat /\ Gone >= responses
           /\ Agree(pipeline, line[streams], Gone)
           /\ streams \in Streams /\ line[streams] \in Seq(Request) /\ pipeline \in Seq(Request)
           /\ \A i \in 1 .. responses : pipeline[i].call \in applied
           /\ fate # "alive" => pipeline[Gone].call \in refused
           /\ Gone >= 1 => pipeline # << >> /\ Head(pipeline) = pipeline[1]
<1>1. Gone \in Nat /\ responses \in Nat /\ Gone >= responses
  BY DEF IInv, TypeOK, Gone
<1>2. streams \in Streams /\ line[streams] \in Seq(Request) /\ pipeline \in Seq(Request)
  BY Types DEF IInv, Streaming
<1>3. /\ Agree(pipeline, line[streams], Gone)
      /\ \A i \in 1 .. responses : pipeline[i].call \in applied
      /\ fate # "alive" => pipeline[Gone].call \in refused
  BY DEF IInv, Expected, Agree, Gone
<1>4. ASSUME Gone >= 1 PROVE pipeline # << >> /\ Head(pipeline) = pipeline[1]
  <2>1. pipeline # << >>
    BY <1>1, <1>2, <1>3, <1>4, AgreePop
  <2> QED BY <1>2, <2>1, TailFacts
<1> QED BY <1>1, <1>2, <1>3, <1>4

\* A refused stream is closed when the front of the pipeline is decided on.
LEMMA FrontDecided ==
    ASSUME IInv, state = "Open", fate = "failed" \/ (fate = "refused" /\ responses = 0)
    PROVE  pipeline # << >> /\ Decided(Head(pipeline).call)
<1>1. handshake
  BY DEF IInv, Streaming
<1>2. responses \in Nat /\ fate # "alive" /\ Gone = responses + 1
  BY Types DEF IInv, Gone
<1>3. Gone >= 1 /\ (1 \in 1 .. responses \/ Gone = 1)
  BY <1>2
<1>4. /\ pipeline # << >> /\ Head(pipeline) = pipeline[1]
      /\ \A i \in 1 .. responses : pipeline[i].call \in applied
      /\ pipeline[Gone].call \in refused
  BY <1>1, <1>2, <1>3, LiveStream
<1> QED BY <1>3, <1>4 DEF Decided

LEMMA AcknowledgingStep ==
    ASSUME IInv, NEW v \in Users, RestartAcknowledging(v)
    PROVE  IInv'
<1> DEFINE b == Head(pipeline)
<1>1. /\ state = "Open" /\ handshake /\ responses > 0
      /\ Tell(b, "ok") /\ cut' = cut \union Awaited(b) /\ stored' = stored /\ Reboot(v)
  BY DEF RestartAcknowledging
<1>2. callbacks' = {} /\ UNCHANGED <<ledger, applied, refused>>
  BY <1>1 DEF Reboot, server
<1>3. pipeline # << >> /\ b.call \in applied
  <2>1. Gone >= 1 /\ 1 \in 1 .. responses
    BY <1>1, LiveStream
  <2> QED BY <1>1, <2>1, LiveStream
<1>4. /\ b \in stored /\ b.user = user /\ b.call \in Calls /\ user \in Users
      /\ b \in callbacks => Awaited(b) = {b.call}
      /\ b \notin callbacks => Awaited(b) = {}
  BY <1>3, FrontAwaited, Types DEF IInv
<1>5. /\ told' \in [Calls -> {"nothing", "ok", "failed"}]
      /\ \A c \in Calls : told'[c] = IF b \in callbacks /\ c = b.call THEN "ok" ELSE told[c]
  BY <1>1, <1>3, Telling
<1> HIDE DEF b
<1>6. cut' \in SUBSET Calls /\ cut \subseteq cut' /\ (b \in callbacks => b.call \in cut')
  BY <1>1, <1>4 DEF IInv, TypeOK
<1>7. \A c \in Calls : told'[c] # "nothing" => \E u \in Users : Has(u, c)
  BY <1>4, <1>5 DEF IInv, Kept
<1>8. ToldTheTruth'
  <2> SUFFICES ASSUME NEW c \in Calls
               PROVE  /\ told'[c] = "ok" => c \in applied
                      /\ told'[c] = "failed" => c \in applied \union refused
                      /\ told'[c] # "nothing" =>
                            \A d \in stored : d.call = c => told'[c] = "ok" /\ c \in cut'
    BY <1>1, <1>2 DEF ToldTheTruth
  <2>1. CASE b \in callbacks /\ c = b.call
    BY <1>3, <1>5, <1>6, <2>1
  <2>2. CASE ~(b \in callbacks /\ c = b.call)
    <3>1. told'[c] = told[c]
      BY <1>5, <2>2
    <3> QED BY <1>6, <3>1 DEF IInv, ToldTheTruth
  <2> QED BY <2>1, <2>2
<1>9. NothingLost'
  BY <1>1, <1>2 DEF IInv, NothingLost
<1>10. stored' \in SUBSET stored
  BY <1>1
<1> QED BY <1>1, <1>5, <1>6, <1>7, <1>8, <1>9, <1>10, RebootStep

LEMMA RejectingStep ==
    ASSUME IInv, NEW v \in Users, RestartRejecting(v)
    PROVE  IInv'
<1> DEFINE b == Head(pipeline)
<1>1. /\ Refusal /\ stored' = Remove(stored, b) /\ UNCHANGED <<told, cut>> /\ Reboot(v)
  BY DEF RestartRejecting
<1>2. callbacks' = {} /\ UNCHANGED <<ledger, applied, refused>>
  BY <1>1 DEF Reboot, server
<1>3. pipeline # << >> /\ Decided(b.call)
  BY <1>1, FrontDecided DEF Refusal
<1>4. b \in stored
  BY <1>3, FrontAwaited
<1>5. stored' = stored \ {b}
  BY <1>1, <1>4 DEF Remove, IInv, Kept, Keyed
<1> HIDE DEF b
<1>6. ToldTheTruth'
  BY <1>1, <1>2, <1>5 DEF IInv, ToldTheTruth
<1>7. NothingLost'
  BY <1>2, <1>3, <1>5 DEF IInv, NothingLost, Decided
<1>8. /\ stored' \in SUBSET stored /\ cut' \in SUBSET Calls
      /\ told' \in [Calls -> {"nothing", "ok", "failed"}]
      /\ \A c \in Calls : told'[c] # "nothing" => \E u \in Users : Has(u, c)
  BY <1>1, <1>5 DEF IInv, TypeOK, Kept
<1> QED BY <1>1, <1>6, <1>7, <1>8, RebootStep

LEMMA CloseRefusedStep ==
    ASSUME IInv, CloseRefused
    PROVE  IInv'
<1> DEFINE b == Head(pipeline)
<1>1. /\ state = "Open"
      /\ fate = "failed" \/ (fate = "refused" /\ responses = 0)
      /\ Notify(b, "failed") /\ stored' = Remove(stored, b)
      /\ Closed /\ idle' = FALSE /\ line' = Unsent /\ UNCHANGED <<ledger, cut, user, nextId, server>>
  BY DEF CloseRefused, Refusal
<1>2. pipeline # << >> /\ Decided(b.call)
  BY <1>1, FrontDecided
<1>3. PICK s \in Fetches(stored', user, Tail(pipeline)) :
        /\ pipeline' = Tail(pipeline) \o s
        /\ state' = IF pipeline' # << >> THEN "Starting" ELSE "Initial"
  BY DEF CloseRefused
<1> HIDE DEF b
<1>4. /\ Kept' /\ ToldTheTruth' /\ NothingLost'
      /\ Oldest(stored', user, Tail(pipeline))
      /\ stored' \in SUBSET Batch /\ callbacks' \in SUBSET Batch
      /\ told' \in [Calls -> {"nothing", "ok", "failed"}]
  BY <1>1, <1>2, HeadDone DEF b, server
<1>5. /\ Oldest(stored', user, pipeline') /\ << >> \in Fetches(stored', user, pipeline')
      /\ pipeline' \in Seq(Batch)
  <2>1. Keyed(stored') /\ user \in Users
    BY <1>4, Types DEF Kept, Keyed, IInv
  <2> DEFINE q == Tail(pipeline)
  <2>2. Oldest(stored', user, q) /\ s \in Fetches(stored', user, q)
    BY <1>3, <1>4
  <2> HIDE DEF q
  <2>3. Oldest(stored', user, q \o s) /\ << >> \in Fetches(stored', user, q \o s)
    BY <1>4, <2>1, <2>2, FetchFacts
  <2>4. q \o s \in Seq(Batch)
    BY <2>3 DEF Oldest
  <2> QED BY <1>3, <2>3, <2>4 DEF q
<1>6. /\ Streaming' /\ Expected' /\ LinesInOrder'
      /\ line' \in [Streams -> Seq(Request)] /\ handshake' \in BOOLEAN /\ idle' \in BOOLEAN
      /\ streams' \in 0 .. MaxStreams /\ responses' \in Nat /\ fate' = "alive"
  BY <1>1, <1>3, CloseStep DEF server
<1>7. TypeOK'
  BY <1>1, <1>3, <1>4, <1>5, <1>6 DEF IInv, TypeOK, Request, server
<1>8. Piped'
  BY <1>1, <1>5 DEF Piped, Oldest, Fetches, Queue
<1> QED BY <1>4, <1>6, <1>7, <1>8 DEF IInv

-----------------------------------------------------------------------------
(* The server.                                                             *)

\* What is to be shown of line k after a step.
LEMMA InOrderAfter ==
    ASSUME NEW k, NEW t, line'[k] = t, ledger' = ledger,
           \A i \in DOMAIN t : t[i] # Hello =>
               /\ Has(t[i].user, t[i].call)
               /\ \A c \in Calls : Before(t[i].user, c, t[i].call) =>
                   \/ c \in applied' \union refused'
                   \/ \E j \in DOMAIN t : j < i /\ t[j] # Hello /\ t[j].call = c
    PROVE  InOrder(line[k])'
BY DEF InOrder, Has, Before, Decided

LEMMA TailInOrder ==
    ASSUME IInv, NEW k \in Streams, line[k] # << >>,
           UNCHANGED ledger, applied \subseteq applied', refused \subseteq refused',
           line'[k] = Tail(line[k]),
           Head(line[k]) # Hello => Head(line[k]).call \in applied' \union refused'
    PROVE  InOrder(line[k])'
<1> DEFINE q == line[k]
<1>1. /\ q \in Seq(Request) /\ Head(q) = q[1] /\ 1 \in DOMAIN q
      /\ Len(q) \in Nat /\ DOMAIN q = 1 .. Len(q)
      /\ Len(Tail(q)) \in Nat /\ DOMAIN Tail(q) = 1 .. Len(Tail(q))
      /\ \A i \in DOMAIN Tail(q) : i + 1 \in DOMAIN q /\ Tail(q)[i] = q[i + 1]
      /\ \A i \in DOMAIN q : i = 1 \/ (i - 1 \in DOMAIN Tail(q) /\ Tail(q)[i - 1] = q[i])
  BY Types, TailFacts, SeqFacts DEF IInv
<1>2. InOrder(q)
  BY DEF IInv, LinesInOrder
<1>3. line'[k] = Tail(q) /\ (q[1] # Hello => q[1].call \in applied' \union refused')
  BY <1>1
<1> HIDE DEF q
<1> SUFFICES ASSUME NEW i \in DOMAIN Tail(q), Tail(q)[i] # Hello
             PROVE  /\ Has(Tail(q)[i].user, Tail(q)[i].call)
                    /\ \A c \in Calls : Before(Tail(q)[i].user, c, Tail(q)[i].call) =>
                        \/ c \in applied' \union refused'
                        \/ \E j \in DOMAIN Tail(q) :
                            j < i /\ Tail(q)[j] # Hello /\ Tail(q)[j].call = c
  BY <1>3, InOrderAfter
<1>4. i + 1 \in DOMAIN q /\ Tail(q)[i] = q[i + 1]
  BY <1>1
<1>5. ASSUME NEW c \in Calls, Before(q[i + 1].user, c, q[i + 1].call),
             c \notin applied' \union refused'
      PROVE  \E j \in DOMAIN Tail(q) : j < i /\ Tail(q)[j] # Hello /\ Tail(q)[j].call = c
  <2>1. ~Decided(c)
    BY <1>5 DEF Decided
  <2>2. PICK j \in DOMAIN q : j < i + 1 /\ q[j] # Hello /\ q[j].call = c
    BY <1>2, <1>4, <1>5, <2>1 DEF InOrder
  <2>3. j # 1
    BY <1>3, <1>5, <2>2
  <2>4. j - 1 \in DOMAIN Tail(q) /\ Tail(q)[j - 1] = q[j]
    BY <1>1, <2>2, <2>3
  <2>5. j - 1 < i
    BY <1>1, <1>4, <2>2
  <2> QED BY <2>2, <2>4, <2>5
<1>6. Has(q[i + 1].user, q[i + 1].call)
  BY <1>2, <1>4 DEF InOrder
<1> QED BY <1>4, <1>5, <1>6

\* What the steps of the server have in common: line k is shortened, and what
\* was at its head is decided on.
LEMMA ServerStep ==
    ASSUME IInv, NEW k \in Streams, line[k] # << >>,
           UNCHANGED <<app, queue, pipeline, state, handshake, idle, streams>>,
           applied \subseteq applied', refused \subseteq refused',
           applied' \subseteq Calls, refused' \subseteq Calls,
           line' = [line EXCEPT ![k] = Tail(@)] \/ line' = [line EXCEPT ![k] = << >>],
           Head(line[k]) # Hello => Head(line[k]).call \in applied' \union refused',
           responses' \in Nat, fate' \in {"alive", "refused", "failing", "failed"}
    PROVE  TypeOK' /\ Kept' /\ ToldTheTruth' /\ NothingLost' /\ Piped' /\ LinesInOrder'
<1>1. /\ Tail(line[k]) \in Seq(Batch \union {Hello}) /\ << >> \in Seq(Batch \union {Hello})
  BY Types, TailFacts, EmptySeq DEF IInv, Request
<1>2. line' \in [Streams -> Seq(Batch \union {Hello})]
  BY <1>1 DEF IInv, TypeOK
<1>3. /\ line'[k] = Tail(line[k]) \/ line'[k] = << >>
      /\ \A m \in Streams : m # k => line'[m] = line[m]
  BY DEF IInv, TypeOK
<1>4. TypeOK'
  BY <1>2 DEF IInv, TypeOK, app, queue
<1>5. Kept' /\ ToldTheTruth' /\ NothingLost' /\ Piped'
  BY KeptAlone, PipedAlone DEF app, queue
<1>6. InOrder(line[k])'
  <2>1. CASE line'[k] = Tail(line[k])
    BY <2>1, TailInOrder DEF app
  <2>2. CASE line'[k] = << >>
    BY <2>2 DEF InOrder
  <2> QED BY <1>3, <2>1, <2>2
<1>7. ASSUME NEW m \in Streams, m # k PROVE InOrder(line[m])'
  <2>1. InOrder(line[m]) /\ line'[m] = line[m] /\ ledger' = ledger
    BY <1>3, <1>7 DEF IInv, LinesInOrder, app
  <2> QED BY <2>1 DEF InOrder, Has, Before, Decided
<1>8. LinesInOrder'
  <2>1. \A m \in Streams : InOrder(line[m])'
    BY <1>6, <1>7
  <2> QED BY <2>1 DEF LinesInOrder
<1> QED BY <1>4, <1>5, <1>8

\* The open stream's line holds a batch only after the handshake.
LEMMA BatchesFollowHello ==
    ASSUME IInv, state = "Open", line[streams] # << >>
    PROVE  /\ streams \in Streams
           /\ handshake <=> Head(line[streams]) # Hello
           /\ ~handshake => line[streams] = <<Hello>> /\ responses = 0 /\ fate = "alive"
<1>1. streams \in Streams
  BY DEF IInv, Streaming
<1>2. ASSUME ~handshake PROVE line[streams] = <<Hello>> /\ responses = 0 /\ fate = "alive"
  BY <1>2 DEF IInv, Streaming
<1>3. ASSUME ~handshake PROVE Head(line[streams]) = Hello
  <2>1. Head(<<Hello>>) = Hello
    OBVIOUS
  <2> QED BY <1>2, <1>3, <2>1
<1>4. ASSUME handshake PROVE Head(line[streams]) # Hello
  <2>1. /\ Gone \in Nat /\ Agree(pipeline, line[streams], Gone)
        /\ line[streams] \in Seq(Request) /\ pipeline \in Seq(Request)
    BY <1>4, LiveStream
  <2>2. Gone + 1 \in DOMAIN pipeline /\ pipeline[Gone + 1] = line[streams][1]
    BY <2>1, AgreeTake
  <2>3. pipeline[Gone + 1] \in Batch
    BY <2>2, Types, SeqFacts DEF IInv
  <2>4. Head(line[streams]) = line[streams][1]
    BY <2>1, TailFacts
  <2> QED BY <2>2, <2>3, <2>4, HelloIsNoBatch
<1> QED BY <1>1, <1>2, <1>3, <1>4

LEMMA GreetStep ==
    ASSUME IInv, NEW k \in Streams, Greet(k)
    PROVE  IInv'
<1>1. /\ line[k] # << >> /\ Head(line[k]) = Hello /\ line' = [line EXCEPT ![k] = Tail(@)]
      /\ responses' = IF Live(k) THEN responses + 1 ELSE responses
      /\ UNCHANGED <<app, queue, pipeline, state, handshake, idle, streams, fate, server>>
  BY DEF Greet, Taken, Respond
<1>2. TypeOK' /\ Kept' /\ ToldTheTruth' /\ NothingLost' /\ Piped' /\ LinesInOrder'
  <2>1. responses' \in Nat /\ fate' \in {"alive", "refused", "failing", "failed"}
    BY <1>1 DEF IInv, TypeOK
  <2>2. applied' = applied /\ refused' = refused /\ applied \subseteq Calls /\ refused \subseteq Calls
    BY <1>1 DEF IInv, TypeOK, server
  <2> QED BY <1>1, <2>1, <2>2, ServerStep
<1>3. Streaming' /\ Expected'
  <2>1. CASE Live(k)
    <3>1. ~handshake /\ line[streams] = <<Hello>> /\ responses = 0 /\ fate = "alive" /\ k = streams
      BY <1>1, <2>1, BatchesFollowHello DEF Live
    <3>2. line'[streams] = Tail(<<Hello>>) /\ Tail(<<Hello>>) = << >>
      BY <1>1, <3>1 DEF IInv, TypeOK
    <3>3. state' = "Open" /\ handshake' = handshake /\ responses' = 1 /\ streams' = streams
      BY <1>1, <2>1, <3>1 DEF Live
    <3>4. ~idle'
      BY <1>1, <3>1 DEF IInv, Streaming, IdleMeansUnneeded
    <3>5. streams \in Streams /\ fate' = "alive" /\ line'[streams] = << >>
      BY <1>1, <3>1, <3>2
    <3>6. Streaming'
      BY <3>1, <3>3, <3>4, <3>5 DEF Streaming, Started, IdleMeansUnneeded
    <3>7. Expected'
      BY <3>1, <3>3 DEF Expected
    <3> QED BY <3>6, <3>7
  <2>2. CASE ~Live(k)
    <3>1. state = "Open" => line'[streams] = line[streams]
      BY <1>1, <2>2 DEF Live, IInv, TypeOK, Streaming
    <3> QED BY <1>1, <2>2, <3>1 DEF IInv, Streaming, Started, IdleMeansUnneeded, Expected, server
  <2> QED BY <2>1, <2>2
<1> QED BY <1>2, <1>3 DEF IInv

\* When the open stream's first request is taken up it is the next batch of
\* the pipeline, and the requests behind it follow in the pipeline.
LEMMA NextTaken ==
    ASSUME IInv, state = "Open", line[streams] # << >>, Head(line[streams]) # Hello, fate = "alive"
    PROVE  /\ handshake /\ streams \in Streams /\ responses \in Nat
           /\ Agree(pipeline, Tail(line[streams]), responses + 1)
           /\ pipeline[responses + 1].call = Head(line[streams]).call
           /\ \A i \in 1 .. responses : pipeline[i].call \in applied
           /\ pipeline # << >>
<1>1. handshake /\ streams \in Streams
  BY BatchesFollowHello
<1>2. Gone = responses
  BY DEF Gone
<1>3. /\ responses \in Nat /\ Agree(pipeline, line[streams], responses)
      /\ line[streams] \in Seq(Request) /\ pipeline \in Seq(Request)
      /\ \A i \in 1 .. responses : pipeline[i].call \in applied
  BY <1>1, <1>2, LiveStream
<1>4. /\ Agree(pipeline, Tail(line[streams]), responses + 1)
      /\ responses + 1 \in DOMAIN pipeline /\ pipeline[responses + 1] = line[streams][1]
  BY <1>3, AgreeTake
<1>5. Head(line[streams]) = line[streams][1]
  BY <1>3, TailFacts
<1> QED BY <1>1, <1>3, <1>4, <1>5

LEMMA ApplyStep ==
    ASSUME IInv, NEW k \in Streams, Apply(k)
    PROVE  IInv'
<1>1. /\ line[k] # << >> /\ Head(line[k]) # Hello /\ line' = [line EXCEPT ![k] = Tail(@)]
      /\ Live(k) => fate = "alive"
      /\ applied' = applied \union {Head(line[k]).call} /\ refused' = refused
      /\ responses' = IF Live(k) THEN responses + 1 ELSE responses
      /\ UNCHANGED <<app, queue, pipeline, state, handshake, idle, streams, fate>>
  BY DEF Apply, Taken, Respond
<1>2. Head(line[k]).call \in Calls
  <2>1. line[k] \in Seq(Request)
    BY Types DEF IInv
  <2>2. Head(line[k]) \in Request
    BY <1>1, <2>1, TailFacts
  <2>3. Head(line[k]) \in Batch
    BY <1>1, <2>2 DEF Request
  <2> QED BY <2>3, Types DEF IInv
<1>3. TypeOK' /\ Kept' /\ ToldTheTruth' /\ NothingLost' /\ Piped' /\ LinesInOrder'
  <2>1. responses' \in Nat /\ fate' \in {"alive", "refused", "failing", "failed"}
    BY <1>1 DEF IInv, TypeOK
  <2>2. applied' \subseteq Calls /\ refused' \subseteq Calls
    BY <1>1, <1>2 DEF IInv, TypeOK
  <2> QED BY <1>1, <2>1, <2>2, ServerStep
<1>4. Streaming' /\ Expected'
  <2>1. CASE Live(k)
    <3>1. /\ handshake /\ k = streams /\ streams \in Streams /\ state = "Open" /\ fate = "alive"
          /\ responses \in Nat
          /\ Agree(pipeline, Tail(line[streams]), responses + 1)
          /\ pipeline[responses + 1].call = Head(line[streams]).call
          /\ \A i \in 1 .. responses : pipeline[i].call \in applied
          /\ pipeline # << >>
      BY <1>1, <2>1, NextTaken DEF Live
    <3>2. line'[streams] = Tail(line[streams]) /\ responses' = responses + 1
      BY <1>1, <2>1, <3>1 DEF IInv, TypeOK
    <3>3. \A i \in 1 .. responses + 1 : pipeline[i].call \in applied'
      <4>1. \A i \in 1 .. responses + 1 : i \in 1 .. responses \/ i = responses + 1
        BY <3>1
      <4> QED BY <1>1, <3>1, <4>1
    <3>4. Streaming'
      BY <1>1, <3>1 DEF IInv, Streaming, Started, IdleMeansUnneeded
    <3>5. Expected'
      BY <1>1, <3>1, <3>2, <3>3 DEF Expected, Agree
    <3> QED BY <3>4, <3>5
  <2>2. CASE ~Live(k)
    <3>1. state = "Open" => line'[streams] = line[streams]
      BY <1>1, <2>2 DEF Live, IInv, TypeOK, Streaming
    <3> QED BY <1>1, <2>2, <3>1 DEF IInv, Streaming, Started, IdleMeansUnneeded, Expected
  <2> QED BY <2>1, <2>2
<1> QED BY <1>3, <1>4 DEF IInv

LEMMA RefuseStep ==
    ASSUME IInv, NEW k \in Streams, Refuse(k)
    PROVE  IInv'
<1>1. /\ line[k] # << >> /\ Head(line[k]) # Hello
      /\ refused' = refused \union {Head(line[k]).call} /\ applied' = applied
      /\ Live(k) => fate = "alive" /\ fate' = "refused" /\ line' = [line EXCEPT ![k] = Tail(@)]
      /\ ~Live(k) => fate' = fate /\ line' = [line EXCEPT ![k] = << >>]
      /\ UNCHANGED <<app, queue, pipeline, state, handshake, idle, streams, responses>>
  BY DEF Refuse, Taken
<1>2. Head(line[k]).call \in Calls
  <2>1. line[k] \in Seq(Request)
    BY Types DEF IInv
  <2>2. Head(line[k]) \in Request
    BY <1>1, <2>1, TailFacts
  <2>3. Head(line[k]) \in Batch
    BY <1>1, <2>2 DEF Request
  <2> QED BY <2>3, Types DEF IInv
<1>3. TypeOK' /\ Kept' /\ ToldTheTruth' /\ NothingLost' /\ Piped' /\ LinesInOrder'
  <2>1. responses' \in Nat /\ fate' \in {"alive", "refused", "failing", "failed"}
    BY <1>1 DEF IInv, TypeOK
  <2>2. applied' \subseteq Calls /\ refused' \subseteq Calls
    BY <1>1, <1>2 DEF IInv, TypeOK
  <2>3. line' = [line EXCEPT ![k] = Tail(@)] \/ line' = [line EXCEPT ![k] = << >>]
    BY <1>1
  <2> QED BY <1>1, <2>1, <2>2, <2>3, ServerStep
<1>4. Streaming' /\ Expected'
  <2>1. CASE Live(k)
    <3>1. /\ handshake /\ k = streams /\ streams \in Streams /\ state = "Open"
          /\ responses \in Nat
          /\ Agree(pipeline, Tail(line[streams]), responses + 1)
          /\ pipeline[responses + 1].call = Head(line[streams]).call
          /\ \A i \in 1 .. responses : pipeline[i].call \in applied
          /\ pipeline # << >>
      BY <1>1, <2>1, NextTaken DEF Live
    <3>2. line'[streams] = Tail(line[streams]) /\ fate' = "refused"
      BY <1>1, <2>1, <3>1 DEF IInv, TypeOK
    <3>3. pipeline[responses + 1].call \in refused'
      BY <1>1, <3>1
    <3>4. Streaming'
      BY <1>1, <3>1 DEF IInv, Streaming, Started, IdleMeansUnneeded
    <3>5. Expected'
      BY <1>1, <3>1, <3>2, <3>3 DEF Expected, Agree
    <3> QED BY <3>4, <3>5
  <2>2. CASE ~Live(k)
    <3>1. state = "Open" => line'[streams] = line[streams]
      BY <1>1, <2>2 DEF Live, IInv, TypeOK, Streaming
    <3>2. refused \subseteq refused'
      BY <1>1
    <3> QED BY <1>1, <2>2, <3>1, <3>2 DEF IInv, Streaming, Started, IdleMeansUnneeded, Expected
  <2> QED BY <2>1, <2>2
<1> QED BY <1>3, <1>4 DEF IInv

-----------------------------------------------------------------------------
(* Writes and responses.                                                   *)

LEMMA HandshakeStep ==
    ASSUME IInv, HandshakeComplete
    PROVE  IInv'
<1>1. /\ state = "Open" /\ responses > 0 /\ ~handshake /\ handshake' = TRUE
      /\ responses' = responses - 1
      /\ line' = [line EXCEPT ![streams] = @ \o pipeline]
      /\ fate # "failing" => fate' = fate
      /\ UNCHANGED <<app, queue, pipeline, state, streams, server>>
  BY DEF HandshakeComplete, Read, Written
<1>2. responses = 1 /\ line[streams] = << >> /\ fate = "alive" /\ streams \in Streams
  BY <1>1 DEF IInv, Streaming
<1>3. responses' = 0 /\ fate' = "alive" /\ streams' = streams
  BY <1>1, <1>2
<1>4. ~idle'
  BY <1>1 DEF HandshakeComplete, IInv, Streaming, IdleMeansUnneeded
<1>5. /\ line'[streams] = pipeline
      /\ \A k \in Streams : k # streams => line'[k] = line[k]
      /\ line' \in [Streams -> Seq(Batch \union {Hello})]
  <2>1. pipeline \in Seq(Batch \union {Hello}) /\ << >> \o pipeline = pipeline
    BY Types, ConcatEmptySeq DEF IInv, Request
  <2>2. line' = [line EXCEPT ![streams] = pipeline]
    BY <1>1, <1>2, <2>1
  <2> QED BY <1>2, <2>1, <2>2 DEF IInv, TypeOK
<1>6. idle' \in BOOLEAN
  BY DEF HandshakeComplete
<1>7. TypeOK'
  BY <1>1, <1>3, <1>5, <1>6 DEF IInv, TypeOK, app, queue, server
<1>8. Kept' /\ ToldTheTruth' /\ NothingLost' /\ Piped'
  BY <1>1, KeptAlone, PipedAlone DEF app, queue, server
<1>9. Streaming'
  BY <1>1, <1>2, <1>3, <1>4 DEF Streaming, Started, IdleMeansUnneeded
<1>10. Expected'
  <2>1. /\ Len(pipeline) \in Nat /\ DOMAIN pipeline = 1 .. Len(pipeline)
    BY Types DEF IInv
  <2>2. Len(pipeline) = 0 + Len(pipeline) /\ \A i \in DOMAIN pipeline : 0 + i = i
    BY <2>1
  <2>3. /\ fate' = "alive" /\ responses' = 0 /\ line'[streams'] = pipeline /\ pipeline' = pipeline
        /\ applied' = applied
    BY <1>1, <1>3, <1>5 DEF server
  <2>4. \A i \in DOMAIN pipeline : pipeline[i] = pipeline[0 + i]
    BY <2>2
  <2>5. \A i \in 1 .. 0 : FALSE
    OBVIOUS
  <2> QED BY <2>2, <2>3, <2>4, <2>5 DEF Expected
<1>11. LinesInOrder'
  <2>1. (TypeOK /\ Kept /\ NothingLost /\ Piped /\ Expected /\ state = "Open" /\ handshake /\ streams \in Streams)'
    BY <1>1, <1>2, <1>7, <1>8, <1>10 DEF Streams
  <2>2. InOrder(line[streams])'
    BY <2>1, LiveInOrder, PTL
  <2>3. ASSUME NEW k \in Streams, k # streams PROVE InOrder(line[k])'
    <3>1. InOrder(line[k]) /\ line'[k] = line[k] /\ UNCHANGED <<ledger, applied, refused>>
      BY <1>1, <1>5, <2>3 DEF IInv, LinesInOrder, app, server
    <3> QED BY <3>1 DEF InOrder, Has, Before, Decided
  <2>4. ASSUME NEW k \in Streams PROVE InOrder(line[k])'
    <3>1. CASE k = streams
      <4>1. line'[k] = (line[streams])'
        BY <1>3, <3>1
      <4> QED BY <2>2, <4>1 DEF InOrder
    <3> QED BY <2>3, <3>1
  <2> QED BY <2>4 DEF LinesInOrder
<1> QED BY <1>7, <1>8, <1>9, <1>10, <1>11 DEF IInv

\* What FillWritePipeline does, once the batches it goes through are known to
\* be in order.
LEMMA FillStep ==
    ASSUME TypeOK, streams \in Streams \/ state # "Open",
           NEW p, Fill(stored', user, p, state),
           stored' \in SUBSET Batch, Keyed(stored'), Oldest(stored', user, p)
    PROVE  \E s \in Seq(Batch) :
            /\ pipeline' = p \o s /\ pipeline' \in Seq(Batch)
            /\ Oldest(stored', user, pipeline') /\ << >> \in Fetches(stored', user, pipeline')
            /\ pipeline' = << >> => Queue(stored', user) = {}
            /\ state' = IF pipeline' # << >> THEN Start(state) ELSE state
            /\ state = "Open" /\ handshake => line'[streams] = line[streams] \o s
            /\ ~(state = "Open" /\ handshake) => line' = line
            /\ \A k \in Streams : k # streams => line'[k] = line[k]
            /\ line' \in [Streams -> Seq(Batch \union {Hello})]
            /\ idle' \in BOOLEAN
            /\ idle' <=> state = "Open" /\ (pipeline' = << >> \/ (idle /\ (s = << >> \/ ~handshake)))
<1>1. PICK s \in Fetches(stored', user, p) :
        /\ pipeline' = p \o s
        /\ state' = IF p \o s # << >> THEN Start(state) ELSE state
        /\ line' = IF state = "Open" /\ handshake /\ s # << >>
                   THEN [line EXCEPT ![streams] = @ \o s] ELSE line
        /\ idle' = (state = "Open" /\ (p \o s = << >> \/ (idle /\ (s = << >> \/ ~handshake))))
  BY DEF Fill, Written
<1>2. /\ s \in Seq(Batch) /\ Oldest(stored', user, p \o s) /\ << >> \in Fetches(stored', user, p \o s)
      /\ p \o s = << >> => Queue(stored', user) = {}
  BY <1>1, FetchFacts, Types
<1>3. pipeline' \in Seq(Batch)
  BY <1>1, <1>2 DEF Oldest
<1>4. /\ idle' \in BOOLEAN
      /\ idle' <=> state = "Open" /\ (p \o s = << >> \/ (idle /\ (s = << >> \/ ~handshake)))
  BY <1>1
<1>5. s \in Seq(Batch \union {Hello})
  <2>1. s \in [1 .. Len(s) -> Batch] /\ Len(s) \in Nat
    BY <1>2, LenProperties
  <2>2. s \in [1 .. Len(s) -> Batch \union {Hello}]
    BY <2>1
  <2> QED BY <2>1, <2>2, SeqDef
<1>6. /\ state = "Open" /\ handshake => line'[streams] = line[streams] \o s
      /\ ~(state = "Open" /\ handshake) => line' = line
      /\ \A k \in Streams : k # streams => line'[k] = line[k]
      /\ line' \in [Streams -> Seq(Batch \union {Hello})]
  <2>1. /\ line \in [Streams -> Seq(Batch \union {Hello})]
        /\ \A k \in Streams : line[k] \in Seq(Batch \union {Hello})
    BY DEF TypeOK
  <2>2. CASE state = "Open" /\ handshake /\ s # << >>
    <3>1. line' = [line EXCEPT ![streams] = line[streams] \o s] /\ streams \in Streams
      BY <1>1, <2>2
    <3>2. line[streams] \o s \in Seq(Batch \union {Hello})
      BY <1>5, <2>1, <3>1, ConcatProperties
    <3> QED BY <2>1, <2>2, <3>1, <3>2
  <2>3. CASE ~(state = "Open" /\ handshake /\ s # << >>)
    <3>1. line' = line
      BY <1>1, <2>3
    <3>2. streams \in Streams => line[streams] \o << >> = line[streams]
      BY <2>1, ConcatEmptySeq
    <3> QED BY <2>1, <2>3, <3>1, <3>2
  <2> QED BY <2>2, <2>3
<1> QED BY <1>1, <1>2, <1>3, <1>4, <1>6

LEMMA ResultStep ==
    ASSUME IInv, MutationResult
    PROVE  IInv'
<1> DEFINE b == Head(pipeline)
           p == Tail(pipeline)
<1>1. /\ state = "Open" /\ responses > 0 /\ handshake /\ responses' = responses - 1
      /\ fate # "failed" /\ fate' = IF fate = "failing" THEN "failed" ELSE fate
      /\ Notify(b, "ok") /\ stored' = Remove(stored, b) /\ Fill(stored', user, p, state)
      /\ UNCHANGED <<ledger, cut, user, nextId, handshake, streams, server>>
  BY DEF MutationResult, Read
<1>2. /\ Gone \in Nat /\ responses \in Nat /\ Gone >= 1 /\ 1 \in 1 .. responses
      /\ Agree(pipeline, line[streams], Gone)
      /\ streams \in Streams /\ line[streams] \in Seq(Request) /\ pipeline \in Seq(Request)
      /\ \A i \in 1 .. responses : pipeline[i].call \in applied
      /\ fate # "alive" => pipeline[Gone].call \in refused
      /\ pipeline # << >> /\ b = pipeline[1]
  <2>1. Gone >= 1 /\ 1 \in 1 .. responses
    BY <1>1, LiveStream
  <2> QED BY <1>1, <2>1, LiveStream
<1>3. pipeline \in Seq(Batch) /\ p \in Seq(Batch) /\ p \in Seq(Request)
  BY <1>2, Types, TailFacts DEF IInv
<1>4. b.call \in applied /\ Decided(b.call)
  BY <1>2 DEF Decided
<1>5. /\ Kept' /\ ToldTheTruth' /\ NothingLost'
      /\ Oldest(stored', user, p)
      /\ stored' \in SUBSET Batch /\ callbacks' \in SUBSET Batch
      /\ told' \in [Calls -> {"nothing", "ok", "failed"}]
  BY <1>1, <1>2, <1>4, HeadDone DEF server
<1>6. PICK s \in Seq(Batch) :
        /\ pipeline' = p \o s /\ pipeline' \in Seq(Batch)
        /\ Oldest(stored', user, pipeline') /\ << >> \in Fetches(stored', user, pipeline')
        /\ state' = IF pipeline' # << >> THEN Start(state) ELSE state
        /\ line'[streams] = line[streams] \o s
        /\ \A k \in Streams : k # streams => line'[k] = line[k]
        /\ line' \in [Streams -> Seq(Batch \union {Hello})]
        /\ idle' \in BOOLEAN
        /\ idle' <=> state = "Open" /\ (pipeline' = << >> \/ (idle /\ (s = << >> \/ ~handshake)))
  <2>1. TypeOK /\ Keyed(stored')
    BY <1>5 DEF IInv, Kept, Keyed
  <2> HIDE DEF b, p
  <2> QED BY <1>1, <1>2, <1>5, <2>1, FillStep
<1>7. state' = "Open"
  BY <1>1, <1>6 DEF Start
<1>8. p = Tail(pipeline) /\ \A i \in DOMAIN p : p[i] = pipeline[i + 1]
  BY <1>2, TailFacts
<1> HIDE DEF b, p
<1>9. TypeOK'
  <2>1. fate' \in {"alive", "refused", "failing", "failed"} /\ responses' \in Nat
    BY <1>1, <1>2 DEF IInv, TypeOK
  <2> QED BY <1>1, <1>5, <1>6, <1>7, <2>1 DEF IInv, TypeOK, server
<1>10. Piped'
  <2>1. user' = user
    BY <1>1
  <2>2. Oldest(stored', user, pipeline') /\ << >> \in Fetches(stored', user, pipeline')
    BY <1>6
  <2> QED BY <2>1, <2>2 DEF Piped, Oldest, Fetches, Queue
<1>11. Streaming'
  <2>1. ~idle
    BY <1>2 DEF IInv, Streaming, IdleMeansUnneeded
  <2> QED BY <1>1, <1>2, <1>6, <1>7, <2>1 DEF Streaming, Started, IdleMeansUnneeded
<1>12. Expected'
  <2> DEFINE t == Gone - 1
  <2>1. Gone' = t /\ t \in Nat /\ t + 1 = Gone
    BY <1>1, <1>2 DEF Gone
  <2>2. Agree(p, line[streams], t)
    BY <1>2, <1>8, AgreePop
  <2>3. s \in Seq(Request)
    <3>1. s \in [1 .. Len(s) -> Batch] /\ Len(s) \in Nat
      BY <1>6, LenProperties
    <3>2. s \in [1 .. Len(s) -> Request]
      BY <3>1 DEF Request
    <3> QED BY <3>1, <3>2, SeqDef
  <2>4. Agree(pipeline', line'[streams'], t)
    BY <1>1, <1>2, <1>3, <1>6, <2>1, <2>2, <2>3, AgreeAppend
  <2>5. \A i \in 1 .. t : i \in DOMAIN p /\ pipeline'[i] = pipeline[i + 1]
    <3> SUFFICES ASSUME NEW i \in 1 .. t PROVE i \in DOMAIN p /\ pipeline'[i] = pipeline[i + 1]
      OBVIOUS
    <3>1. Len(p) = t + Len(line[streams]) /\ Len(p) \in Nat /\ DOMAIN p = 1 .. Len(p)
          /\ Len(line[streams]) \in Nat
      BY <1>2, <1>3, <2>2, SeqFacts DEF Agree
    <3>2. i \in DOMAIN p
      BY <2>1, <3>1
    <3>3. (p \o s)[i] = p[i]
      BY <1>3, <1>6, <3>2, ConcatFacts
    <3> QED BY <1>6, <1>8, <3>2, <3>3
  <2>6. \A i \in 1 .. responses' : pipeline'[i].call \in applied'
    <3> SUFFICES ASSUME NEW i \in 1 .. responses' PROVE pipeline'[i].call \in applied'
      OBVIOUS
    <3>1. i \in 1 .. t /\ i + 1 \in 1 .. responses
      BY <1>1, <1>2, <2>1, LiveStream
    <3> QED BY <1>1, <1>2, <2>5, <3>1 DEF server
  <2>7. ASSUME fate' # "alive" PROVE pipeline'[t].call \in refused'
    <3>1. fate # "alive" /\ Gone = responses + 1
      BY <1>1, <2>7 DEF Gone
    <3>2. t \in 1 .. t
      BY <1>1, <1>2, <2>1, <3>1
    <3>3. pipeline'[t] = pipeline[Gone]
      BY <2>1, <2>5, <3>2
    <3> QED BY <1>1, <1>2, <3>1, <3>3 DEF server
  <2> HIDE DEF t
  <2> QED BY <2>1, <2>4, <2>6, <2>7 DEF Expected, Agree, Gone
<1>13. LinesInOrder'
  <2>1. (TypeOK /\ Kept /\ NothingLost /\ Piped /\ Expected /\ state = "Open" /\ handshake /\ streams \in Streams)'
    BY <1>1, <1>2, <1>5, <1>7, <1>9, <1>10, <1>12 DEF Streams
  <2>2. InOrder(line[streams])'
    BY <2>1, LiveInOrder, PTL
  <2>3. ASSUME NEW k \in Streams, k # streams PROVE InOrder(line[k])'
    <3>1. InOrder(line[k]) /\ line'[k] = line[k] /\ UNCHANGED <<ledger, applied, refused>>
      BY <1>1, <1>6, <2>3 DEF IInv, LinesInOrder, server
    <3> QED BY <3>1 DEF InOrder, Has, Before, Decided
  <2>4. ASSUME NEW k \in Streams PROVE InOrder(line[k])'
    <3>1. CASE k = streams
      <4>1. line'[k] = (line[streams])'
        BY <1>1, <3>1
      <4> QED BY <2>2, <4>1 DEF InOrder
    <3> QED BY <2>3, <3>1
  <2> QED BY <2>4 DEF LinesInOrder
<1> QED BY <1>5, <1>9, <1>10, <1>11, <1>12, <1>13 DEF IInv

\* The ledger grows by a call that is in none.
LEMMA LedgerGrows ==
    ASSUME IInv, NEW c \in Calls, Write(c)
    PROVE  /\ \A u \in Users : ~Has(u, c)
           /\ \A u \in Users, d \in Calls : Has(u, d)' <=> Has(u, d) \/ (u = user /\ d = c)
           /\ \A u \in Users, d, e \in Calls : Before(u, e, d)' => e # c /\ (d = c \/ Before(u, e, d))
           /\ ledger' \in [Users -> Seq(Calls)]
<1>1. /\ ledger' = [ledger EXCEPT ![user] = Append(@, c)] /\ user \in Users
      /\ \A u \in Users : \A i \in DOMAIN ledger[u] : ledger[u][i] # c
      /\ \A u \in Users : ledger[u] \in Seq(Calls)
      /\ ledger \in [Users -> Seq(Calls)]
  BY Types DEF Write, IInv, TypeOK
<1>2. \A u \in Users : ~Has(u, c)
  BY <1>1 DEF Has
<1> DEFINE n == Len(ledger[user])
<1>3. /\ ledger'[user] = Append(ledger[user], c) /\ n \in Nat
      /\ \A u \in Users : u # user => ledger'[u] = ledger[u]
  BY <1>1, LenProperties
<1>4. /\ ledger'[user] \in Seq(Calls)
      /\ DOMAIN ledger[user] = 1 .. n /\ DOMAIN ledger'[user] = 1 .. n + 1
      /\ \A i \in 1 .. n : ledger'[user][i] = ledger[user][i]
      /\ ledger'[user][n + 1] = c
  BY <1>1, <1>3, AppendProperties, LenProperties
<1> HIDE DEF n
<1>5. ASSUME NEW u \in Users, NEW d \in Calls
      PROVE  Has(u, d)' <=> Has(u, d) \/ (u = user /\ d = c)
  <2>1. CASE u = user
    <3>1. \A i : i \in 1 .. n + 1 <=> i \in 1 .. n \/ i = n + 1
      BY <1>3
    <3> QED BY <1>4, <2>1, <3>1 DEF Has
  <2>2. CASE u # user
    BY <1>3, <2>2 DEF Has
  <2> QED BY <2>1, <2>2
<1>6. ASSUME NEW u \in Users, NEW d \in Calls, NEW e \in Calls, Before(u, e, d)'
      PROVE  e # c /\ (d = c \/ Before(u, e, d))
  <2>1. PICK i, j \in DOMAIN ledger'[u] : i < j /\ ledger'[u][i] = e /\ ledger'[u][j] = d
    BY <1>6 DEF Before
  <2>2. CASE u = user
    <3>1. i \in 1 .. n /\ (j \in 1 .. n \/ j = n + 1)
      BY <1>3, <1>4, <2>1, <2>2
    <3>2. e = ledger[user][i] /\ e # c
      BY <1>1, <1>4, <2>1, <2>2, <3>1
    <3>3. j = n + 1 => d = c
      BY <1>4, <2>1, <2>2
    <3>4. j \in 1 .. n => Before(u, e, d)
      BY <1>4, <2>1, <2>2, <3>1, <3>2 DEF Before
    <3> QED BY <3>1, <3>2, <3>3, <3>4
  <2>3. CASE u # user
    <3>1. ledger'[u] = ledger[u]
      BY <1>3, <2>3
    <3> QED BY <1>1, <2>1, <3>1 DEF Before
  <2> QED BY <2>2, <2>3
<1>7. ledger' \in [Users -> Seq(Calls)]
  BY <1>1, <1>3, <1>4
<1> QED BY <1>2, <1>5, <1>6, <1>7

LEMMA WriteStep ==
    ASSUME IInv, NEW c \in Calls, Write(c)
    PROVE  IInv'
<1> DEFINE b == [user |-> user, id |-> nextId, call |-> c]
<1>1. /\ stored' = Put(stored, b) /\ callbacks' = Insert(callbacks, b)
      /\ nextId' = nextId + 1 /\ Fill(stored', user, pipeline, state)
      /\ UNCHANGED <<told, cut, user, handshake, streams, responses, fate, server>>
  BY DEF Write
<1>2. /\ b \in Batch /\ b.user = user /\ b.id = nextId /\ b.call = c
      /\ nextId \in Nat /\ user \in Users
  BY DEF IInv, TypeOK, Batch
<1> HIDE DEF b
<1>3. /\ \A u \in Users : ~Has(u, c)
      /\ \A u \in Users, d \in Calls : Has(u, d)' <=> Has(u, d) \/ (u = user /\ d = c)
      /\ \A u \in Users, d, e \in Calls : Before(u, e, d)' => e # c /\ (d = c \/ Before(u, e, d))
      /\ ledger' \in [Users -> Seq(Calls)]
  BY LedgerGrows
<1>4. /\ stored \in SUBSET Batch /\ pipeline \in Seq(Batch)
      /\ \A d \in stored : d.id \in Nat /\ d.id < nextId /\ d.user \in Users /\ d.call \in Calls
      /\ \A d \in stored : Has(d.user, d.call) /\ d.call # c
  BY <1>3, Types DEF IInv, Kept
<1>5. stored' = stored \union {b} /\ callbacks' = callbacks \union {b}
  <2>1. \A d \in stored : Key(d) # Key(b)
    BY <1>2, <1>4 DEF Key
  <2> QED BY <1>1, <2>1 DEF Put, Insert, IInv, Kept
<1>6. stored' \in SUBSET Batch /\ callbacks' \in SUBSET Batch
  BY <1>2, <1>4, <1>5 DEF IInv, TypeOK
<1>7. Kept'
  <2>1. Keyed(stored)' /\ callbacks' \subseteq stored'
    BY <1>2, <1>4, <1>5 DEF IInv, Kept, Keyed, Key
  <2>2. \A d \in stored' : d.id < nextId' /\ Has(d.user, d.call)'
    BY <1>1, <1>2, <1>3, <1>4, <1>5
  <2>3. \A d, e \in stored' : d.call = e.call => d = e
    BY <1>2, <1>4, <1>5 DEF IInv, Kept
  <2>4. ASSUME NEW d \in stored', NEW e \in stored', d.user = e.user, Before(d.user, d.call, e.call)'
        PROVE  d.id < e.id
    <3>1. d.call # c /\ (e.call = c \/ Before(d.user, d.call, e.call))
      BY <1>2, <1>3, <1>4, <1>5, <2>4
    <3>2. d \in stored /\ (e = b \/ e \in stored)
      BY <1>2, <1>5, <3>1
    <3>3. e \in stored => e.call # c
      BY <1>4
    <3> QED BY <1>2, <1>4, <2>4, <3>1, <3>2, <3>3 DEF IInv, Kept
  <2>5. \A d \in Calls : told'[d] # "nothing" => \E u \in Users : Has(u, d)'
    BY <1>1, <1>3 DEF IInv, Kept
  <2> QED BY <2>1, <2>2, <2>3, <2>4, <2>5 DEF Kept
<1>8. ToldTheTruth'
  <2>1. told[c] = "nothing"
    BY <1>3 DEF IInv, Kept
  <2> QED BY <1>1, <1>2, <1>5, <2>1 DEF IInv, ToldTheTruth, server
<1>9. NothingLost'
  <2> SUFFICES ASSUME NEW u \in Users, NEW i \in DOMAIN ledger'[u],
                      ledger'[u][i] \notin applied \union refused
               PROVE  \E d \in stored' : d.user = u /\ d.call = ledger'[u][i]
    BY <1>1 DEF NothingLost, server
  <2>1. PICK e \in Calls : e = ledger'[u][i]
    BY <1>3, SeqFacts
  <2>2. Has(u, e)'
    BY <2>1 DEF Has
  <2>3. CASE Has(u, e)
    <3>1. PICK k \in DOMAIN ledger[u] : ledger[u][k] = e
      BY <2>3 DEF Has
    <3>2. \E d \in stored : d.user = u /\ d.call = e
      BY <2>1, <3>1 DEF IInv, NothingLost
    <3> QED BY <1>5, <2>1, <3>2
  <2>4. CASE u = user /\ e = c
    BY <1>2, <1>5, <2>1, <2>4
  <2> QED BY <1>3, <2>2, <2>3, <2>4
<1>10. Oldest(stored', user, pipeline)
  <2>1. Oldest(stored, user, pipeline)
    BY DEF IInv, Piped
  <2>2. \A i \in DOMAIN pipeline : pipeline[i] \in Queue(stored', user)
    BY <1>5, <2>1 DEF Oldest, Queue
  <2>3. ASSUME NEW d \in Queue(stored', user), NEW i \in DOMAIN pipeline, d.id < pipeline[i].id
        PROVE  d \in Queue(stored, user)
    <3>1. pipeline[i].id \in Nat /\ pipeline[i].id < nextId
      BY <1>4, <2>1 DEF Oldest, Queue
    <3>2. d # b
      BY <1>2, <2>3, <3>1
    <3> QED BY <1>5, <3>2 DEF Queue
  <2> QED BY <2>1, <2>2, <2>3 DEF Oldest
<1>11. PICK s \in Seq(Batch) :
        /\ pipeline' = pipeline \o s /\ pipeline' \in Seq(Batch)
        /\ Oldest(stored', user, pipeline') /\ << >> \in Fetches(stored', user, pipeline')
        /\ pipeline' = << >> => Queue(stored', user) = {}
        /\ state' = IF pipeline' # << >> THEN Start(state) ELSE state
        /\ state = "Open" /\ handshake => line'[streams] = line[streams] \o s
        /\ ~(state = "Open" /\ handshake) => line' = line
        /\ \A k \in Streams : k # streams => line'[k] = line[k]
        /\ line' \in [Streams -> Seq(Batch \union {Hello})]
        /\ idle' \in BOOLEAN
        /\ idle' <=> state = "Open" /\ (pipeline' = << >> \/ (idle /\ (s = << >> \/ ~handshake)))
  <2>1. TypeOK /\ Keyed(stored') /\ (streams \in Streams \/ state # "Open")
    BY <1>7 DEF IInv, Kept, Keyed, Streaming
  <2> QED BY <1>1, <1>6, <1>10, <2>1, FillStep
<1>12. pipeline' # << >>
  BY <1>2, <1>5, <1>11 DEF Queue
<1>13. /\ state' = Start(state) /\ state' \in {"Starting", "Backoff", "Open"}
       /\ (state' = "Open" <=> state = "Open")
  BY <1>11, <1>12 DEF Start, IInv, TypeOK
<1>14. ~idle'
  <2>1. ASSUME idle PROVE s # << >> /\ handshake
    <3>1. pipeline = << >> /\ handshake
      BY <2>1 DEF IInv, Streaming, IdleMeansUnneeded
    <3>2. << >> \o << >> = << >>
      BY <1>4, <3>1, ConcatEmptySeq
    <3> QED BY <1>11, <1>12, <3>1, <3>2
  <2> QED BY <1>11, <1>12, <2>1
<1>15. TypeOK'
  BY <1>1, <1>2, <1>3, <1>6, <1>11, <1>13 DEF IInv, TypeOK, server
<1>16. Piped'
  <2>1. user' = user
    BY <1>1
  <2>2. Oldest(stored', user, pipeline') /\ << >> \in Fetches(stored', user, pipeline')
    BY <1>11
  <2> QED BY <2>1, <2>2 DEF Piped, Oldest, Fetches, Queue
<1>17. Streaming'
  <2>1. IdleMeansUnneeded'
    BY <1>14 DEF IdleMeansUnneeded
  <2>2. Started'
    BY <1>13 DEF Started
  <2>3. streams' = streams /\ responses' = responses /\ fate' = fate /\ handshake' = handshake
    BY <1>1
  <2>4. ~handshake => line' = line
    BY <1>11
  <2> QED BY <1>13, <2>1, <2>2, <2>3, <2>4 DEF IInv, Streaming
<1>18. Expected'
  <2> SUFFICES ASSUME state = "Open", handshake PROVE Expected'
    BY <1>1, <1>13 DEF Expected
  <2>1. /\ Gone \in Nat /\ responses \in Nat /\ Gone >= responses
        /\ Agree(pipeline, line[streams], Gone)
        /\ streams \in Streams /\ line[streams] \in Seq(Request) /\ pipeline \in Seq(Request)
        /\ \A i \in 1 .. responses : pipeline[i].call \in applied
        /\ fate # "alive" => pipeline[Gone].call \in refused
    BY LiveStream
  <2>2. s \in Seq(Request)
    <3>1. s \in [1 .. Len(s) -> Batch] /\ Len(s) \in Nat
      BY <1>11, LenProperties
    <3>2. s \in [1 .. Len(s) -> Request]
      BY <3>1 DEF Request
    <3> QED BY <3>1, <3>2, SeqDef
  <2>3. Agree(pipeline', line'[streams'], Gone)
    BY <1>1, <1>11, <2>1, <2>2, AgreeAppend
  <2>4. \A i \in 1 .. Gone : pipeline'[i] = pipeline[i]
    <3>1. DOMAIN pipeline = 1 .. Len(pipeline) /\ Len(pipeline) = Gone + Len(line[streams])
          /\ Len(line[streams]) \in Nat
      BY <2>1, SeqFacts DEF Agree
    <3>2. \A i \in 1 .. Gone : i \in DOMAIN pipeline
      BY <2>1, <3>1
    <3> QED BY <1>4, <1>11, <3>2, ConcatFacts
  <2>5. Gone' = Gone /\ fate' = fate /\ responses' = responses /\ applied' = applied /\ refused' = refused
    BY <1>1 DEF Gone, server
  <2>6. \A i \in 1 .. responses' : pipeline'[i].call \in applied'
    <3>1. \A i \in 1 .. responses : i \in 1 .. Gone
      BY <2>1
    <3> QED BY <2>1, <2>4, <2>5, <3>1
  <2>7. ASSUME fate' # "alive" PROVE pipeline'[Gone].call \in refused'
    <3>1. Gone \in 1 .. Gone
      <4>1. Gone = responses + 1
        BY <2>5, <2>7 DEF Gone
      <4> QED BY <2>1, <4>1
    <3> QED BY <2>1, <2>4, <2>5, <2>7, <3>1
  <2> QED BY <2>3, <2>5, <2>6, <2>7 DEF Expected, Agree, Gone
<1>19. LinesInOrder'
  <2>1. ASSUME NEW k \in Streams, line'[k] = line[k] PROVE InOrder(line[k])'
    <3>0. PICK q : q = line[k]
      OBVIOUS
    <3>1. InOrder(q) /\ q \in Seq(Request)
      BY <3>0, Types DEF IInv, LinesInOrder
    <3>2. ASSUME NEW i \in DOMAIN q, q[i] # Hello
          PROVE  /\ q[i].user \in Users /\ q[i].call \in Calls /\ q[i].call # c
                 /\ Has(q[i].user, q[i].call)' /\ Has(q[i].user, q[i].call)
      <4>1. q[i] \in Batch
        BY <3>1, <3>2, SeqFacts DEF Request
      <4>2. q[i].user \in Users /\ q[i].call \in Calls /\ Has(q[i].user, q[i].call)
        BY <3>1, <3>2, <4>1, Types DEF InOrder, IInv
      <4> QED BY <1>3, <4>2
    <3>3. ASSUME NEW i \in DOMAIN q, q[i] # Hello, NEW d \in Calls, Before(q[i].user, d, q[i].call)'
          PROVE  Decided(d) \/ \E j \in DOMAIN q : j < i /\ q[j] # Hello /\ q[j].call = d
      <4>1. Before(q[i].user, d, q[i].call)
        BY <1>3, <3>2, <3>3
      <4> QED BY <3>1, <3>3, <4>1 DEF InOrder
    <3>4. line'[k] = q /\ applied' = applied /\ refused' = refused
      BY <1>1, <2>1, <3>0 DEF server
    <3> QED BY <3>2, <3>3, <3>4 DEF InOrder, Decided, Has, Before
  <2>2. CASE ~(state = "Open" /\ handshake)
    <3>1. \A k \in Streams : line'[k] = line[k]
      BY <1>11, <2>2
    <3> QED BY <2>1, <3>1 DEF LinesInOrder
  <2>3. CASE state = "Open" /\ handshake
    <3>1. (TypeOK /\ Kept /\ NothingLost /\ Piped /\ Expected /\ state = "Open" /\ handshake /\ streams \in Streams)'
      <4>1. streams' \in Streams
        BY <1>1, <2>3 DEF IInv, Streaming
      <4> QED BY <1>1, <1>7, <1>9, <1>13, <1>15, <1>16, <1>18, <2>3, <4>1 DEF Streams
    <3>2. InOrder(line[streams])'
      BY <3>1, LiveInOrder, PTL
    <3>3. ASSUME NEW k \in Streams PROVE InOrder(line[k])'
      <4>1. CASE k = streams
        <5>1. line'[k] = (line[streams])'
          BY <1>1, <4>1
        <5> QED BY <3>2, <5>1 DEF InOrder
      <4>2. CASE k # streams
        BY <1>11, <2>1, <4>2
      <4> QED BY <4>1, <4>2
    <3> QED BY <3>3 DEF LinesInOrder
  <2> QED BY <2>2, <2>3
<1> QED BY <1>7, <1>8, <1>9, <1>15, <1>16, <1>17, <1>18, <1>19 DEF IInv

-----------------------------------------------------------------------------
(* The theorems.                                                           *)

LEMMA NextIInv == IInv /\ [Next]_vars => IInv'
<1> SUFFICES ASSUME IInv, [Next]_vars PROVE IInv'
  OBVIOUS
<1>1. CASE UNCHANGED vars
  <2>1. UNCHANGED <<ledger, told, cut, stored, user, nextId, callbacks, pipeline, state, handshake, idle,
                    streams, line, responses, fate, applied, refused>>
    BY <1>1 DEF vars, app, queue, stream, server
  <2>2. TypeOK' /\ Streaming' /\ Expected'
    BY <2>1 DEF IInv, TypeOK, Streaming, Started, IdleMeansUnneeded, Expected
  <2>3. Kept' /\ ToldTheTruth' /\ NothingLost' /\ Piped' /\ LinesInOrder'
    BY <2>1, KeptAlone, PipedAlone, LinesAlone
  <2> QED BY <2>2, <2>3 DEF IInv
<1> QED BY <1>1, WriteStep, TokenArrivesStep, TokenFailsStep, BackoffStep, HandshakeStep, ResultStep,
           StopStep, WriteOpFailsStep, CloseRefusedStep, ChangeUserStep, RestartStep,
           AcknowledgingStep, RejectingStep, GreetStep, ApplyStep, RefuseStep
        DEF Next

LEMMA Inductive == Spec => []IInv
BY InitIInv, NextIInv, PTL DEF Spec

\* Type correctness: the batches, the pipeline and what is on the streams
\* keep their kinds through every failure, change of user and restart.
THEOREM TypeCorrect == Spec => []TypeOK
<1>1. IInv => TypeOK
  BY DEF IInv
<1> QED BY <1>1, Inductive, PTL

\* FillWritePipeline is called wherever it must be: the pipeline is never left
\* short of a batch it has room for, nor waiting on a stopped stream.
THEOREM PipelineStaysFull == Spec => []PipelineIsFull
<1>1. IInv => PipelineIsFull
  BY DEF IInv, Piped, Oldest, Streaming, PipelineIsFull
<1> QED BY <1>1, Inductive, PTL

\* The assertion of OnWriteStreamClose: a stream that is stopped for being
\* idle is not needed, whatever is written while its timer runs.
THEOREM IdleStreamsAreUnneeded == Spec => []IdleMeansUnneeded
<1>1. IInv => IdleMeansUnneeded
  BY DEF IInv, Streaming
<1> QED BY <1>1, Inductive, PTL

\* OnWriteStreamMutationResult relies on positions alone: its front batch is
\* there, and is the one the server has answered.
THEOREM ResultsMeetTheirBatch == Spec => []Expected
<1>1. IInv => Expected
  BY DEF IInv
<1> QED BY <1>1, Inductive, PTL

\* What the app is told of a write is so, and final, although callbacks are
\* found by batch ids that are given again.
THEOREM TellsTheTruth == Spec => []ToldTheTruth
<1>1. IInv => ToldTheTruth
  BY DEF IInv
<1> QED BY <1>1, Inductive, PTL

\* An accepted write is in LevelDB until the server has decided on it.
THEOREM LosesNothing == Spec => []NothingLost
<1>1. IInv => NothingLost
  BY DEF IInv
<1> QED BY <1>1, Inductive, PTL

-----------------------------------------------------------------------------
(* Refinement of DurableWrites.                                            *)

\* The app is told of the front of the pipeline, or has no callback any more.
LEMMA TellStep ==
    ASSUME IInv, pipeline # << >>, NEW verdict \in {"ok", "failed"}, Tell(Head(pipeline), verdict),
           UNCHANGED <<ledger, applied, refused>>,
           verdict = "ok" => Head(pipeline).call \in applied, Decided(Head(pipeline).call)
    PROVE  [D!Next]_(D!vars)
<1> DEFINE b == Head(pipeline)
<1>1. b.call \in Calls
  BY FrontAwaited
<1>2. /\ told' \in [Calls -> {"nothing", "ok", "failed"}]
      /\ \A c \in Calls : told'[c] = IF b \in callbacks /\ c = b.call THEN verdict ELSE told[c]
  BY Telling
<1>3. told \in [Calls -> {"nothing", "ok", "failed"}]
  BY DEF IInv, TypeOK
<1> HIDE DEF b
<1>4. CASE b \in callbacks
  <2>1. told' = [told EXCEPT ![b.call] = verdict]
    BY <1>2, <1>3, <1>4
  <2>2. told[b.call] = "nothing"
    BY <1>1, <1>4 DEF IInv, ToldTheTruth
  <2>3. D!Decided(b.call) /\ (verdict = "ok" => b.call \in applied)
    BY DEF D!Decided, Decided, b
  <2>4. D!Tell(b.call)
    BY <2>1, <2>2, <2>3 DEF D!Tell
  <2> QED BY <1>1, <2>4 DEF D!Next
<1>5. CASE b \notin callbacks
  <2>1. told' = told
    BY <1>2, <1>3, <1>5
  <2> QED BY <2>1 DEF D!vars
<1> QED BY <1>4, <1>5

\* The head of a line comes after decided calls only.
LEMMA DecideStep ==
    ASSUME IInv, NEW k \in Streams, line[k] # << >>, Head(line[k]) # Hello, UNCHANGED <<ledger, told>>,
           \/ applied' = applied \union {Head(line[k]).call} /\ UNCHANGED refused
           \/ refused' = refused \union {Head(line[k]).call} /\ UNCHANGED applied
    PROVE  [D!Next]_(D!vars)
<1> DEFINE b == Head(line[k])
<1>1. line[k] \in Seq(Request)
  BY Types DEF IInv
<1>2. /\ 1 \in DOMAIN line[k] /\ b = line[k][1] /\ DOMAIN line[k] = 1 .. Len(line[k])
      /\ b \in Request /\ b # Hello
  BY <1>1, TailFacts, SeqFacts
<1>3. b \in Batch /\ b.user \in Users
  BY <1>2, Types DEF Request, IInv
<1>4. InOrder(line[k])
  BY DEF IInv, LinesInOrder
<1>5. /\ Has(b.user, b.call)
      /\ \A c \in Calls : Before(b.user, c, b.call) => Decided(c)
  <2>1. \A j \in DOMAIN line[k] : ~(j < 1)
    BY <1>2
  <2> QED BY <1>2, <1>4, <2>1 DEF InOrder
<1> HIDE DEF b
<1>6. PICK i \in DOMAIN ledger[b.user] : ledger[b.user][i] = b.call
  BY <1>5 DEF Has
<1>7. /\ ledger[b.user] \in Seq(Calls) /\ DOMAIN ledger[b.user] = 1 .. Len(ledger[b.user])
      /\ Len(ledger[b.user]) \in Nat
  BY <1>3, Types, SeqFacts DEF IInv
<1>8. ASSUME NEW j \in 1 .. i - 1 PROVE D!Decided(ledger[b.user][j])
  <2>1. j \in DOMAIN ledger[b.user] /\ j < i
    BY <1>6, <1>7
  <2>2. ledger[b.user][j] \in Calls
    BY <1>7, <2>1, SeqFacts
  <2>3. Before(b.user, ledger[b.user][j], b.call)
    BY <1>6, <2>1 DEF Before
  <2> QED BY <1>5, <2>2, <2>3 DEF D!Decided, Decided
<1>9. D!Decide(b.user, i)
  BY <1>6, <1>8 DEF D!Decide, b
<1> QED BY <1>3, <1>6, <1>9 DEF D!Next

LEMMA Simulates == IInv /\ [Next]_vars => [D!Next]_(D!vars)
<1> SUFFICES ASSUME IInv, [Next]_vars PROVE [D!Next]_(D!vars)
  OBVIOUS
<1>1. ASSUME NEW c \in Calls, Write(c) PROVE [D!Next]_(D!vars)
  <2>1. D!Accept(user, c)
    BY <1>1 DEF Write, D!Accept, server
  <2> QED BY <2>1, Types DEF D!Next, IInv
<1>2. CASE MutationResult \/ \E v \in Users : RestartAcknowledging(v)
  <2>1. /\ state = "Open" /\ handshake /\ responses > 0
        /\ Tell(Head(pipeline), "ok") /\ UNCHANGED <<ledger, applied, refused>>
    BY <1>2 DEF MutationResult, Read, Notify, RestartAcknowledging, Reboot, server
  <2>2. pipeline # << >> /\ Head(pipeline).call \in applied
    <3>1. Gone >= 1 /\ 1 \in 1 .. responses
      BY <2>1, LiveStream
    <3> QED BY <2>1, <3>1, LiveStream
  <2> QED BY <2>1, <2>2, TellStep DEF Decided
<1>3. CASE CloseRefused
  <2>1. /\ state = "Open"
        /\ fate = "failed" \/ (fate = "refused" /\ responses = 0)
        /\ Tell(Head(pipeline), "failed") /\ UNCHANGED <<ledger, applied, refused>>
    BY <1>3 DEF CloseRefused, Refusal, Notify, server
  <2>2. pipeline # << >> /\ Decided(Head(pipeline).call)
    BY <2>1, FrontDecided
  <2> QED BY <2>1, <2>2, TellStep
<1>4. ASSUME NEW k \in Streams, Apply(k) \/ Refuse(k) PROVE [D!Next]_(D!vars)
  <2>1. /\ line[k] # << >> /\ Head(line[k]) # Hello /\ UNCHANGED <<ledger, told>>
        /\ \/ applied' = applied \union {Head(line[k]).call} /\ UNCHANGED refused
           \/ refused' = refused \union {Head(line[k]).call} /\ UNCHANGED applied
    BY <1>4 DEF Apply, Refuse, app
  <2> QED BY <2>1, DecideStep
<1>5. ASSUME UNCHANGED <<ledger, told, server>> PROVE [D!Next]_(D!vars)
  BY <1>5 DEF server, D!vars
<1>6. CASE \/ TokenArrives \/ TokenFails \/ BackoffElapses \/ HandshakeComplete \/ IdleTimeout
           \/ Break \/ WriteOpFails
           \/ \E v \in Users : ChangeUser(v) \/ Restart(v) \/ RestartRejecting(v)
           \/ \E k \in Streams : Greet(k)
  BY <1>5, <1>6 DEF TokenArrives, TokenFails, BackoffElapses, HandshakeComplete, IdleTimeout,
                    Break, WriteOpFails, ChangeUser, Restart, RestartRejecting, Reboot, Greet, app
<1>7. CASE UNCHANGED vars
  BY <1>5, <1>7 DEF vars, app
<1> QED BY <1>1, <1>2, <1>3, <1>4, <1>6, <1>7 DEF Next

\* The write path implements what it promises: each user's writes are kept in
\* the order they were made and are first decided on in that order, over any
\* number of streams, retries, changes of user and restarts.
THEOREM KeepsItsPromise == Spec => ImplementsDurableWrites
<1>1. Init => D!Init
  BY DEF Init, D!Init
<1> QED BY <1>1, Inductive, Simulates, PTL DEF Spec, ImplementsDurableWrites, D!Spec

-----------------------------------------------------------------------------
(* What else follows.                                                      *)

\* Nothing is on its way between client and server, nor waits to be.
Quiet ==
    /\ state \notin {"Starting", "Backoff"}
    /\ state = "Open" => line[streams] = << >> /\ responses = 0 /\ fate = "alive"

\* All that the user who is signed in has written is decided on.
AllDecided ==
    /\ Queue(stored, user) = {}
    /\ \A i \in DOMAIN ledger[user] : Decided(ledger[user][i])

\* The write path never rests with work left: when the stream, its timers and
\* its messages are quiet, whatever stopped or broke it, FillWritePipeline has
\* left no batch of the user behind.
THEOREM NeverRestsWithWorkLeft == Spec => [](Quiet => AllDecided)
<1>1. IInv /\ Quiet => AllDecided
  <2> SUFFICES ASSUME IInv, Quiet PROVE AllDecided
    OBVIOUS
  <2>1. pipeline = << >>
    <3>1. CASE state = "Open"
      <4>1. handshake
        <5>1. line[streams] = << >> /\ responses = 0
          BY <3>1 DEF Quiet
        <5>2. << >> # <<Hello>> /\ 0 # 1
          OBVIOUS
        <5>3. ~(line[streams] = <<Hello>> /\ responses = 0) /\ ~(line[streams] = << >> /\ responses = 1)
          BY <5>1, <5>2
        <5> QED BY <3>1, <5>3 DEF IInv, Streaming
      <4>2. /\ Gone = 0 /\ Len(line[streams]) = 0
            /\ Agree(pipeline, line[streams], Gone) /\ pipeline \in Seq(Request)
        BY <3>1, <4>1, LiveStream, SeqFacts DEF Quiet, Gone
      <4>3. Len(pipeline) = 0
        BY <4>2 DEF Agree
      <4> QED BY <4>2, <4>3, SeqFacts
    <3>2. CASE state # "Open"
      BY <3>2 DEF Quiet, IInv, Streaming, Started
    <3> QED BY <3>1, <3>2
  <2>2. Queue(stored, user) = {}
    <3>1. << >> \in Fetches(stored, user, << >>) /\ stored \in SUBSET Batch
      BY <2>1, Types DEF IInv, Piped
    <3>2. Len(<< >>) = 0 /\ << >> \in Seq(Batch) /\ MaxPending # 0 /\ Len(<< >>) <= MaxPending
      BY SeqFacts, BoundsAreNat
    <3>3. Later(stored, user, << >>) = {}
      BY <3>1, <3>2, FetchesNothing
    <3> QED BY <3>3 DEF Later
  <2>3. user \in Users
    BY Types DEF IInv
  <2>4. \A i \in DOMAIN ledger[user] : Decided(ledger[user][i])
    BY <2>2, <2>3 DEF IInv, NothingLost, Decided, Queue
  <2> QED BY <2>2, <2>4 DEF AllDecided
<1> QED BY <1>1, Inductive, PTL

\* A failed write operation that has overtaken responses already received.
AnswersOvertaken == fate = "failed" /\ responses > 0

\* The batch told to have failed is the front of the pipeline alone.
LEMMA TellsTheFront ==
    ASSUME IInv, pipeline # << >>, NEW verdict \in {"ok", "failed"}, Tell(Head(pipeline), verdict),
           NEW c \in Calls, told'[c] # told[c]
    PROVE  c = Head(pipeline).call /\ told'[c] = verdict
BY Telling

\* The only way for a batch to be given up that the server has not refused is
\* that a failed write overtakes the answers: as long as none does, the comment
\* in HandleWriteError ("the request itself was the problem") is right.
THEOREM OnlyOvertakenAnswersMislead ==
    Spec /\ []~AnswersOvertaken => []GivesUpTheRefused
<1>1. Init => GivesUpTheRefused
  BY DEF Init, GivesUpTheRefused
<1>2. IInv /\ ~AnswersOvertaken /\ GivesUpTheRefused /\ [Next]_vars => GivesUpTheRefused'
  <2> SUFFICES ASSUME IInv, ~AnswersOvertaken, GivesUpTheRefused, [Next]_vars,
                      NEW c \in Calls, told'[c] = "failed"
               PROVE  c \in refused'
    BY DEF GivesUpTheRefused
  <2>1. refused \subseteq refused'
    BY DEF Next, vars, server, Write, TokenArrives, TokenFails, BackoffElapses, HandshakeComplete,
           MutationResult, IdleTimeout, Break, WriteOpFails, CloseRefused, ChangeUser, Restart,
           RestartAcknowledging, RestartRejecting, Reboot, Greet, Apply, Refuse
  <2>2. CASE told'[c] = told[c]
    BY <2>1, <2>2 DEF GivesUpTheRefused
  <2>3. CASE told'[c] # told[c]
    <3>1. MutationResult \/ (\E v \in Users : RestartAcknowledging(v)) \/ CloseRefused
      BY <2>3 DEF Next, vars, app, Write, TokenArrives, TokenFails, BackoffElapses, HandshakeComplete,
             IdleTimeout, Break, WriteOpFails, ChangeUser, Restart, RestartRejecting, Greet, Apply,
             Refuse
    <3>2. CASE MutationResult \/ \E v \in Users : RestartAcknowledging(v)
      <4>1. state = "Open" /\ handshake /\ responses > 0 /\ Tell(Head(pipeline), "ok")
        BY <3>2 DEF MutationResult, Read, Notify, RestartAcknowledging
      <4>2. Gone >= 1
        BY <4>1, LiveStream
      <4>3. pipeline # << >>
        BY <4>1, <4>2, LiveStream
      <4>4. told'[c] = "ok"
        BY <2>3, <4>1, <4>3, TellsTheFront
      <4> QED BY <4>4
    <3>3. CASE CloseRefused
      <4>1. /\ state = "Open" /\ Tell(Head(pipeline), "failed")
            /\ fate = "failed" \/ (fate = "refused" /\ responses = 0)
        BY <3>3 DEF CloseRefused, Refusal, Notify
      <4>2. handshake
        BY <4>1 DEF IInv, Streaming
      <4>3. responses = 0 /\ fate # "alive"
        BY <4>1, Types DEF AnswersOvertaken, IInv
      <4>4. Gone = 1
        BY <4>3 DEF Gone
      <4>5. pipeline # << >> /\ Head(pipeline).call \in refused
        BY <4>1, <4>2, <4>3, <4>4, LiveStream
      <4> QED BY <2>1, <2>3, <4>1, <4>5, TellsTheFront
    <3> QED BY <3>1, <3>2, <3>3
  <2> QED BY <2>2, <2>3
<1> QED BY <1>1, <1>2, Inductive, PTL DEF Spec
=============================================================================
