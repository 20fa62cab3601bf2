-------------------------- MODULE CredentialsProofs --------------------------
(***************************************************************************)
(* Proofs about Credentials, for every set of users and any number of      *)
(* changes and breaks.                                                     *)
(***************************************************************************)
EXTENDS Credentials, SequenceTheorems, TLAPS

Msg == News \union Answer
NoNews(s) == \A i \in DOMAIN s : ~IsNews(s[i])

\* The latest news on its way to the client names Firebase Auth's user; with
\* none on its way the client knows the user.
Latest(s) ==
    \A i \in DOMAIN s :
        IsNews(s[i]) /\ (\A j \in DOMAIN s : j > i => ~IsNews(s[j])) => s[i].news = auth
NewsArrives ==
    /\ NoNews(main) /\ NoNews(worker) => user = auth
    /\ Latest(main)
    /\ NoNews(main) => Latest(worker)

\* An answer for the stream as it is holds the client's user, unless there is
\* news ahead of it, which will make it stale.
Current(m) == ~IsNews(m) /\ m.closes = closes
First(s, i) == \A j \in DOMAIN s : j < i => ~IsNews(s[j])
Fits(m) == m.owner \in {user, Aborted}
AnswersFit ==
    /\ \A a \in fetching : a.closes = closes /\ NoNews(main) /\ NoNews(worker) => Fits(a)
    /\ \A i \in DOMAIN main :
        Current(main[i]) /\ First(main, i) /\ NoNews(worker) => Fits(main[i])
    /\ \A i \in DOMAIN worker : Current(worker[i]) /\ First(worker, i) => Fits(worker[i])

\* Nothing is from the future.
Ages ==
    /\ \A r \in asked \union fetching : r.closes <= closes
    /\ \A i \in DOMAIN main : ~IsNews(main[i]) => main[i].closes <= closes
    /\ \A i \in DOMAIN worker : ~IsNews(worker[i]) => worker[i].closes <= closes

\* A stream that is starting waits for one answer, any other for none.
InAsked == \E r \in asked : r.closes = closes
InFetching == \E a \in fetching : a.closes = closes
InMain == \E i \in DOMAIN main : Current(main[i])
InWorker == \E i \in DOMAIN worker : Current(worker[i])
OneAnswer ==
    /\ InAsked \/ InFetching \/ InMain \/ InWorker => state = "Starting"
    /\ InAsked => ~InFetching /\ ~InMain /\ ~InWorker
    /\ InFetching => ~InMain /\ ~InWorker
    /\ InMain => ~InWorker
    /\ \A r, s \in asked : r.closes = closes /\ s.closes = closes => r = s
    /\ \A a, b \in fetching : a.closes = closes /\ b.closes = closes => a = b
    /\ \A i, j \in DOMAIN main : Current(main[i]) /\ Current(main[j]) => i = j
    /\ \A i, j \in DOMAIN worker : Current(worker[i]) /\ Current(worker[j]) => i = j

IInv == TypeOK /\ NewsArrives /\ AnswersFit /\ Ages /\ OneAnswer /\ OwnToken

-----------------------------------------------------------------------------
(* Messages.                                                               *)

LEMMA NewsType ==
    /\ \A u \in Users : LET m == [news |-> u] IN m \in Msg /\ IsNews(m) /\ m.news = u
    /\ \A m \in Msg : IsNews(m) => m.news \in Users
    /\ \A m \in Msg : ~IsNews(m) => m \in Answer
    /\ \A m \in Answer : m \in Msg /\ ~IsNews(m)
BY DEF Msg, News, Answer, IsNews

LEMMA AnswerType ==
    /\ \A m \in Answer : m.closes \in Nat /\ m.counter \in Nat /\ m.owner \in Users \union {Aborted}
    /\ \A m \in Answer : LET a == [m EXCEPT !.owner = Aborted] IN
            a \in Answer /\ a.closes = m.closes /\ a.owner = Aborted
BY DEF Answer

LEMMA AppendMsg ==
    ASSUME NEW s \in Seq(Msg), NEW m \in Msg
    PROVE  LET t == Append(s, m) IN
           /\ t \in Seq(Msg) /\ Len(s) \in Nat
           /\ DOMAIN s = 1 .. Len(s) /\ DOMAIN t = 1 .. Len(s) + 1
           /\ \A i \in 1 .. Len(s) : t[i] = s[i]
           /\ t[Len(s) + 1] = m
           /\ NoNews(t) <=> NoNews(s) /\ ~IsNews(m)
<1> DEFINE t == Append(s, m)
<1>1. /\ t \in Seq(Msg) /\ Len(t) = Len(s) + 1
      /\ \A i \in 1 .. Len(s) : t[i] = s[i]
      /\ t[Len(s) + 1] = m
  BY AppendProperties
<1>2. Len(s) \in Nat /\ DOMAIN s = 1 .. Len(s)
  BY LenProperties
<1>3. DOMAIN t = 1 .. Len(t)
  BY <1>1, LenProperties
<1> HIDE DEF t
<1>4. NoNews(t) <=> NoNews(s) /\ ~IsNews(m)
  BY <1>1, <1>2, <1>3 DEF NoNews
<1> QED BY <1>1, <1>2, <1>3, <1>4 DEF t

LEMMA TailMsg ==
    ASSUME NEW s \in Seq(Msg), s # << >>
    PROVE  LET t == Tail(s) IN
           /\ t \in Seq(Msg) /\ Len(s) \in Nat \ {0}
           /\ DOMAIN s = 1 .. Len(s) /\ DOMAIN t = 1 .. Len(s) - 1
           /\ \A i \in 1 .. Len(s) - 1 : t[i] = s[i + 1]
           /\ Head(s) = s[1] /\ s[1] \in Msg
           /\ NoNews(s) <=> NoNews(t) /\ ~IsNews(s[1])
<1> DEFINE t == Tail(s)
<1>1. /\ t \in Seq(Msg) /\ Len(t) = Len(s) - 1 /\ Head(s) \in Msg
      /\ \A i \in 1 .. Len(t) : t[i] = s[i + 1]
  BY HeadTailProperties
<1>2. Len(s) \in Nat \ {0} /\ DOMAIN s = 1 .. Len(s) /\ Head(s) = s[1]
  BY LenProperties, EmptySeq
<1>3. DOMAIN t = 1 .. Len(t)
  BY <1>1, LenProperties
<1> HIDE DEF t
<1>4. NoNews(s) <=> NoNews(t) /\ ~IsNews(s[1])
  <2>1. ASSUME NoNews(s) PROVE NoNews(t) /\ ~IsNews(s[1])
    <3>1. \A i \in 1 .. Len(s) - 1 : i + 1 \in 1 .. Len(s)
      BY <1>2
    <3>2. 1 \in 1 .. Len(s)
      BY <1>2
    <3> QED BY <1>1, <1>2, <1>3, <2>1, <3>1, <3>2 DEF NoNews
  <2>2. ASSUME NoNews(t), ~IsNews(s[1]), NEW i \in 1 .. Len(s)
        PROVE  ~IsNews(s[i])
    <3>1. CASE i = 1
      BY <2>2, <3>1
    <3>2. CASE i # 1
      <4>1. i - 1 \in 1 .. Len(t) /\ (i - 1) + 1 = i
        BY <1>1, <1>2, <3>2
      <4>2. t[i - 1] = s[i]
        BY <1>1, <4>1
      <4> QED BY <1>3, <2>2, <4>1, <4>2 DEF NoNews
    <3> QED BY <3>1, <3>2
  <2> QED BY <1>2, <2>1, <2>2 DEF NoNews
<1> QED BY <1>1, <1>2, <1>3, <1>4 DEF t

-----------------------------------------------------------------------------
LEMMA InitIInv == Init => IInv
<1> SUFFICES ASSUME Init PROVE IInv
  OBVIOUS
<1>1. /\ main = << >> /\ worker = << >> /\ DOMAIN main = {} /\ DOMAIN worker = {}
      /\ fetching = {} /\ state = "Starting" /\ closes = 0 /\ user = auth
      /\ \A r \in asked : r = [closes |-> 0, counter |-> 0]
  BY DEF Init
<1>2. TypeOK
  BY BoundsAreNat DEF Init, TypeOK
<1>3. NewsArrives /\ AnswersFit /\ OneAnswer /\ OwnToken
  BY <1>1 DEF NewsArrives, Latest, NoNews, AnswersFit, OneAnswer, OwnToken,
              InAsked, InFetching, InMain, InWorker
<1>4. Ages
  BY <1>1 DEF Ages
<1> QED BY <1>2, <1>3, <1>4 DEF IInv

\* What the invariant says of the queues.
LEMMA Queues ==
    ASSUME IInv
    PROVE  /\ main \in Seq(Msg) /\ worker \in Seq(Msg)
           /\ closes \in Nat /\ counter \in Nat /\ auth \in Users /\ user \in Users
           /\ Len(main) \in Nat /\ DOMAIN main = 1 .. Len(main)
           /\ Len(worker) \in Nat /\ DOMAIN worker = 1 .. Len(worker)
           /\ \A i \in DOMAIN main : main[i] \in Msg
           /\ \A i \in DOMAIN worker : worker[i] \in Msg
<1>1. main \in Seq(Msg) /\ worker \in Seq(Msg)
  BY DEF IInv, TypeOK, Msg
<1> QED BY <1>1, LenProperties, ElementOfSeq DEF IInv, TypeOK

-----------------------------------------------------------------------------
(* Firebase Auth.                                                          *)

LEMMA AuthChangesStep ==
    ASSUME IInv, NEW u \in Users, AuthChanges(u)
    PROVE  IInv'
<1> DEFINE m == [news |-> u]
<1>1. m \in Msg /\ IsNews(m) /\ m.news = u
  BY NewsType
<1>2. main' = Append(main, m) /\ auth' = u
  BY DEF AuthChanges
<1>3. UNCHANGED <<asked, fetching, counter, worker, user, state, closes, owner, breaks>>
  BY DEF AuthChanges
<1> HIDE DEF m
<1>4. /\ main' \in Seq(Msg) /\ Len(main) \in Nat
      /\ DOMAIN main = 1 .. Len(main) /\ DOMAIN main' = 1 .. Len(main) + 1
      /\ \A i \in 1 .. Len(main) : main'[i] = main[i]
      /\ main'[Len(main) + 1] = m /\ ~NoNews(main')
  BY <1>1, <1>2, Queues, AppendMsg
<1>5. TypeOK'
  BY <1>2, <1>3, <1>4, BoundsAreNat DEF AuthChanges, IInv, TypeOK, Msg
<1>6. NewsArrives'
  <2>1. Latest(main)'
    BY <1>1, <1>2, <1>4 DEF Latest
  <2> QED BY <1>4, <2>1 DEF NewsArrives
<1>7. AnswersFit'
  <2>1. \A i \in DOMAIN main' :
            (Current(main[i]) /\ First(main, i))' => i \in DOMAIN main /\ Current(main[i]) /\ First(main, i)
    BY <1>1, <1>3, <1>4 DEF Current, First
  <2>2. \A i \in DOMAIN main : main'[i] = main[i] /\ (Fits(main[i]) <=> Fits(main[i])')
    BY <1>3, <1>4 DEF Fits
  <2> QED BY <1>3, <1>4, <2>1, <2>2 DEF IInv, AnswersFit, Current, First, Fits, NoNews
<1>8. Ages'
  BY <1>1, <1>3, <1>4 DEF IInv, Ages
<1>9. OneAnswer'
  BY <1>1, <1>3, <1>4 DEF IInv, OneAnswer, InAsked, InFetching, InMain, InWorker, Current
<1> QED BY <1>3, <1>5, <1>6, <1>7, <1>8, <1>9 DEF IInv, OwnToken

LEMMA FetchStep ==
    ASSUME IInv, NEW r \in asked, Fetch(r)
    PROVE  IInv'
<1> DEFINE a == [closes |-> r.closes, counter |-> r.counter, owner |-> auth]
<1>1. r.closes \in Nat /\ r.counter \in Nat /\ auth \in Users
  BY DEF IInv, TypeOK
<1>2. a \in Answer /\ a.closes = r.closes /\ a.owner = auth
  BY <1>1 DEF Answer
<1>3. /\ asked' = asked \ {r} /\ fetching' = fetching \union {a}
      /\ UNCHANGED <<auth, main, counter, worker, user, state, closes, owner, changes, breaks>>
  BY DEF Fetch
<1> HIDE DEF a
<1>4. TypeOK'
  BY <1>2, <1>3 DEF IInv, TypeOK
<1>5. NewsArrives'
  BY <1>3 DEF IInv, NewsArrives, NoNews, Latest
<1>6. AnswersFit'
  BY <1>2, <1>3 DEF IInv, AnswersFit, NewsArrives, NoNews, Current, First, Fits
<1>7. Ages'
  BY <1>2, <1>3 DEF IInv, Ages
<1>8. OneAnswer'
  BY <1>2, <1>3 DEF IInv, OneAnswer, InAsked, InFetching, InMain, InWorker, Current
<1> QED BY <1>3, <1>4, <1>5, <1>6, <1>7, <1>8 DEF IInv, OwnToken

LEMMA FetchedStep ==
    ASSUME IInv, NEW a \in fetching, Fetched(a)
    PROVE  IInv'
<1>1. a \in Answer
  BY DEF IInv, TypeOK
<1>2. PICK m \in Answer : /\ main' = Append(main, m) /\ m.closes = a.closes
                          /\ m.owner \in {a.owner, Aborted}
  BY <1>1, AnswerType DEF Fetched
<1>3. /\ fetching' = fetching \ {a}
      /\ UNCHANGED <<auth, asked, counter, worker, user, state, closes, owner, changes>>
  BY DEF Fetched
<1>4. m \in Msg /\ ~IsNews(m)
  BY NewsType
<1>5. /\ main' \in Seq(Msg) /\ Len(main) \in Nat
      /\ DOMAIN main = 1 .. Len(main) /\ DOMAIN main' = 1 .. Len(main) + 1
      /\ \A i \in 1 .. Len(main) : main'[i] = main[i]
      /\ main'[Len(main) + 1] = m /\ (NoNews(main') <=> NoNews(main))
  BY <1>2, <1>4, Queues, AppendMsg
<1>6. TypeOK'
  <2>1. breaks' \in 0 .. MaxBreaks
    BY BoundsAreNat DEF Fetched, IInv, TypeOK
  <2> QED BY <1>3, <1>5, <2>1 DEF IInv, TypeOK, Msg
<1>7. NewsArrives'
  <2>1. Latest(main)'
    <3> SUFFICES ASSUME NEW i \in DOMAIN main', IsNews(main'[i]),
                        \A j \in DOMAIN main' : j > i => ~IsNews(main'[j])
                 PROVE  main'[i].news = auth
      BY <1>3 DEF Latest
    <3>1. i \in DOMAIN main /\ main'[i] = main[i]
      BY <1>4, <1>5
    <3>2. \A j \in DOMAIN main : j > i => ~IsNews(main[j])
      BY <1>5
    <3> QED BY <3>1, <3>2 DEF IInv, NewsArrives, Latest
  <2> QED BY <1>3, <1>5, <2>1 DEF IInv, NewsArrives, NoNews, Latest
<1>8. AnswersFit'
  <2>1. ASSUME NEW i \in DOMAIN main', Current(main[i])', First(main, i)', NoNews(worker)
        PROVE  Fits(main[i])'
    <3>1. CASE i \in DOMAIN main
      BY <1>3, <1>5, <2>1, <3>1 DEF IInv, AnswersFit, Current, First, Fits
    <3>2. CASE i = Len(main) + 1
      <4>1. NoNews(main)
        BY <1>5, <2>1, <3>2 DEF First, NoNews
      <4>2. a.closes = closes
        BY <1>2, <1>3, <1>5, <2>1, <3>2 DEF Current
      <4> QED BY <1>2, <1>3, <1>5, <2>1, <3>2, <4>1, <4>2 DEF IInv, AnswersFit, Fits
    <3> QED BY <1>5, <3>1, <3>2
  <2> QED BY <1>3, <1>5, <2>1 DEF IInv, AnswersFit, NoNews, Current, First, Fits
<1>9. Ages'
  BY <1>2, <1>3, <1>5 DEF IInv, Ages
<1>10. OneAnswer'
  BY <1>2, <1>3, <1>4, <1>5 DEF IInv, OneAnswer, InAsked, InFetching, InMain, InWorker, Current
<1> QED BY <1>3, <1>6, <1>7, <1>8, <1>9, <1>10 DEF IInv, OwnToken

-----------------------------------------------------------------------------
(* The main queue.                                                         *)

\* A queue's tail is the queue, one place on.
LEMMA TailOf ==
    ASSUME NEW s \in Seq(Msg), s # << >>
    PROVE  /\ 1 \in DOMAIN s /\ Head(s) = s[1] /\ s[1] \in Msg /\ Tail(s) \in Seq(Msg)
           /\ \A i \in DOMAIN Tail(s) : i + 1 \in DOMAIN s /\ Tail(s)[i] = s[i + 1] /\ i + 1 > 1
           /\ \A i \in DOMAIN s : i = 1 \/ (i - 1 \in DOMAIN Tail(s) /\ Tail(s)[i - 1] = s[i])
           /\ \A i, j \in DOMAIN Tail(s) : i + 1 = j + 1 => i = j
           /\ \A i \in DOMAIN Tail(s), j \in DOMAIN s :
                j > i + 1 => j - 1 \in DOMAIN Tail(s) /\ j - 1 > i /\ Tail(s)[j - 1] = s[j]
           /\ \A i \in DOMAIN Tail(s), j \in DOMAIN s :
                j < i + 1 => j = 1 \/ (j - 1 \in DOMAIN Tail(s) /\ j - 1 < i /\ Tail(s)[j - 1] = s[j])
           /\ NoNews(s) <=> NoNews(Tail(s)) /\ ~IsNews(s[1])
<1> DEFINE t == Tail(s)
<1>1. /\ t \in Seq(Msg) /\ Len(s) \in Nat \ {0}
      /\ DOMAIN s = 1 .. Len(s) /\ DOMAIN t = 1 .. Len(s) - 1
      /\ \A i \in 1 .. Len(s) - 1 : t[i] = s[i + 1]
      /\ Head(s) = s[1] /\ s[1] \in Msg
      /\ NoNews(s) <=> NoNews(t) /\ ~IsNews(s[1])
  BY TailMsg
<1> HIDE DEF t
<1>2. \A j \in 1 .. Len(s) :
        j = 1 \/ (j - 1 \in 1 .. Len(s) - 1 /\ (j - 1) + 1 = j)
  BY <1>1
<1>3. \A j \in 1 .. Len(s) : j = 1 \/ t[j - 1] = s[j]
  BY <1>1, <1>2
<1>4. \A i \in 1 .. Len(s) - 1 : i + 1 \in 1 .. Len(s) /\ i + 1 > 1
  BY <1>1
<1>5. \A i, j \in 1 .. Len(s) - 1 : i + 1 = j + 1 => i = j
  BY <1>1
<1>6. \A i \in 1 .. Len(s) - 1, j \in 1 .. Len(s) :
        /\ j > i + 1 => j # 1 /\ j - 1 > i
        /\ j < i + 1 => j = 1 \/ j - 1 < i
  BY <1>1
<1>7. 1 \in 1 .. Len(s)
  BY <1>1
<1> QED BY <1>1, <1>2, <1>3, <1>4, <1>5, <1>6, <1>7 DEF t

\* What follows of a queue from which the first message has been taken.
LEMMA Shifted ==
    ASSUME NEW s \in Seq(Msg), s # << >>
    PROVE  /\ Latest(s) => Latest(Tail(s))
           /\ Latest(s) /\ IsNews(s[1]) /\ NoNews(Tail(s)) => s[1].news = auth
           /\ \A i \in DOMAIN Tail(s) : ~IsNews(s[1]) /\ First(Tail(s), i) => First(s, i + 1)
<1>1. ASSUME Latest(s), NEW i \in DOMAIN Tail(s), IsNews(Tail(s)[i]),
             \A j \in DOMAIN Tail(s) : j > i => ~IsNews(Tail(s)[j])
      PROVE  Tail(s)[i].news = auth
  <2>1. i + 1 \in DOMAIN s /\ Tail(s)[i] = s[i + 1]
    BY TailOf
  <2>2. ASSUME NEW j \in DOMAIN s, j > i + 1 PROVE ~IsNews(s[j])
    <3>1. j - 1 \in DOMAIN Tail(s) /\ j - 1 > i /\ Tail(s)[j - 1] = s[j]
      BY <2>2, TailOf
    <3> QED BY <1>1, <3>1
  <2> QED BY <1>1, <2>1, <2>2 DEF Latest
<1>2. ASSUME Latest(s), IsNews(s[1]), NoNews(Tail(s)) PROVE s[1].news = auth
  <2>1. 1 \in DOMAIN s
    BY TailOf
  <2>2. ASSUME NEW j \in DOMAIN s, j > 1 PROVE ~IsNews(s[j])
    <3>1. j - 1 \in DOMAIN Tail(s) /\ Tail(s)[j - 1] = s[j]
      BY <2>2, TailOf
    <3> QED BY <1>2, <3>1 DEF NoNews
  <2> QED BY <1>2, <2>1, <2>2 DEF Latest
<1>3. ASSUME NEW i \in DOMAIN Tail(s), ~IsNews(s[1]), First(Tail(s), i) PROVE First(s, i + 1)
  <2>1. SUFFICES ASSUME NEW j \in DOMAIN s, j < i + 1 PROVE ~IsNews(s[j])
    BY DEF First
  <2>2. j = 1 \/ (j - 1 \in DOMAIN Tail(s) /\ j - 1 < i /\ Tail(s)[j - 1] = s[j])
    BY <2>1, TailOf
  <2> QED BY <1>3, <2>2 DEF First
<1>4. Latest(s) => Latest(Tail(s))
  BY <1>1 DEF Latest
<1> QED BY <1>2, <1>3, <1>4

LEMMA HearStep ==
    ASSUME IInv, Hear
    PROVE  IInv'
<1>1. /\ main \in Seq(Msg) /\ main # << >> /\ IsNews(main[1]) /\ main[1] \in Msg
      /\ main' = Tail(main) /\ worker' = Append(worker, main[1]) /\ main' \in Seq(Msg)
  BY Queues, TailOf DEF Hear
<1>2. UNCHANGED <<auth, asked, fetching, user, state, closes, owner, changes, breaks>>
  BY DEF Hear
<1>3. /\ worker' \in Seq(Msg) /\ Len(worker) \in Nat
      /\ DOMAIN worker = 1 .. Len(worker) /\ DOMAIN worker' = 1 .. Len(worker) + 1
      /\ \A i \in 1 .. Len(worker) : worker'[i] = worker[i]
      /\ worker'[Len(worker) + 1] = main[1] /\ ~NoNews(worker')
  BY <1>1, Queues, AppendMsg
<1>4. /\ \A i \in DOMAIN main' : i + 1 \in DOMAIN main /\ main'[i] = main[i + 1]
      /\ \A i, j \in DOMAIN main' : i + 1 = j + 1 => i = j
  BY <1>1, TailOf
<1>5. TypeOK'
  BY <1>1, <1>2, <1>3 DEF Hear, IInv, TypeOK, Msg
<1>6. NewsArrives'
  <2>1. Latest(main)'
    BY <1>1, <1>2, Shifted DEF IInv, NewsArrives, Latest
  <2>2. ASSUME NoNews(main') PROVE Latest(worker)'
    <3>1. main[1].news = auth
      BY <1>1, <2>2, Shifted DEF IInv, NewsArrives
    <3> QED BY <1>1, <1>2, <1>3, <3>1 DEF Latest
  <2> QED BY <1>3, <2>1, <2>2 DEF NewsArrives
<1>7. AnswersFit'
  <2>1. ASSUME NEW i \in DOMAIN worker', Current(worker[i])', First(worker, i)'
        PROVE  i \in DOMAIN worker /\ Current(worker[i]) /\ First(worker, i)
    BY <1>1, <1>2, <1>3, <2>1 DEF Current, First
  <2> QED BY <1>2, <1>3, <2>1 DEF IInv, AnswersFit, Fits
<1>8. Ages'
  BY <1>1, <1>2, <1>3, <1>4 DEF IInv, Ages
<1>9. OneAnswer'
  BY <1>1, <1>2, <1>3, <1>4 DEF IInv, OneAnswer, InAsked, InFetching, InMain, InWorker, Current
<1> QED BY <1>2, <1>5, <1>6, <1>7, <1>8, <1>9 DEF IInv, OwnToken

LEMMA ReturnStep ==
    ASSUME IInv, Return
    PROVE  IInv'
<1>1. /\ main \in Seq(Msg) /\ main # << >> /\ ~IsNews(main[1]) /\ main[1] \in Answer
      /\ main' = Tail(main) /\ main' \in Seq(Msg) /\ Head(main) = main[1]
      /\ 1 \in DOMAIN main
  BY Queues, TailOf, NewsType DEF Return
<1>2. PICK m \in Answer : /\ worker' = Append(worker, m) /\ m.closes = main[1].closes
                          /\ m.owner \in {main[1].owner, Aborted}
  BY <1>1, AnswerType DEF Return
<1>3. UNCHANGED <<auth, asked, fetching, counter, user, state, closes, owner, changes, breaks>>
  BY DEF Return
<1>4. m \in Msg /\ ~IsNews(m)
  BY NewsType
<1>5. /\ worker' \in Seq(Msg) /\ Len(worker) \in Nat
      /\ DOMAIN worker = 1 .. Len(worker) /\ DOMAIN worker' = 1 .. Len(worker) + 1
      /\ \A i \in 1 .. Len(worker) : worker'[i] = worker[i]
      /\ worker'[Len(worker) + 1] = m /\ (NoNews(worker') <=> NoNews(worker))
  BY <1>2, <1>4, Queues, AppendMsg
<1>6. /\ \A i \in DOMAIN main' : i + 1 \in DOMAIN main /\ main'[i] = main[i + 1] /\ i + 1 > 1
      /\ \A i, j \in DOMAIN main' : i + 1 = j + 1 => i = j
      /\ NoNews(main') <=> NoNews(main)
  BY <1>1, TailOf
<1>7. TypeOK'
  BY <1>1, <1>3, <1>5 DEF IInv, TypeOK, Msg
<1>8. NewsArrives'
  <2>1. Latest(main)'
    BY <1>1, <1>3, Shifted DEF IInv, NewsArrives, Latest
  <2>2. ASSUME Latest(worker) PROVE Latest(worker)'
    <3> SUFFICES ASSUME NEW i \in DOMAIN worker', IsNews(worker'[i]),
                        \A j \in DOMAIN worker' : j > i => ~IsNews(worker'[j])
                 PROVE  worker'[i].news = auth
      BY <1>3 DEF Latest
    <3>1. i \in DOMAIN worker /\ worker'[i] = worker[i]
      BY <1>4, <1>5
    <3>2. \A j \in DOMAIN worker : j > i => ~IsNews(worker[j])
      BY <1>5
    <3> QED BY <2>2, <3>1, <3>2 DEF Latest
  <2> QED BY <1>3, <1>5, <1>6, <2>1, <2>2 DEF IInv, NewsArrives
<1>9. AnswersFit'
  <2>1. ASSUME NEW i \in DOMAIN main', Current(main[i])', First(main, i)', NoNews(worker')
        PROVE  Fits(main[i])'
    <3>1. i + 1 \in DOMAIN main /\ main'[i] = main[i + 1] /\ Current(main[i + 1])
      BY <1>3, <1>6, <2>1 DEF Current
    <3>2. First(main, i + 1)
      BY <1>1, <2>1, Shifted DEF First
    <3> QED BY <1>3, <1>5, <2>1, <3>1, <3>2 DEF IInv, AnswersFit, Fits
  <2>2. ASSUME NEW i \in DOMAIN worker', Current(worker[i])', First(worker, i)'
        PROVE  Fits(worker[i])'
    <3>1. CASE i \in DOMAIN worker
      BY <1>3, <1>5, <2>2, <3>1 DEF IInv, AnswersFit, Current, First, Fits
    <3>2. CASE i = Len(worker) + 1
      <4>1. NoNews(worker)
        BY <1>5, <2>2, <3>2 DEF First, NoNews
      <4>2. Current(main[1])
        BY <1>1, <1>2, <1>3, <1>5, <2>2, <3>2 DEF Current
      <4>3. First(main, 1)
        BY Queues DEF First
      <4>4. Fits(main[1])
        BY <1>1, <4>1, <4>2, <4>3 DEF IInv, AnswersFit
      <4> QED BY <1>2, <1>3, <1>5, <3>2, <4>4 DEF Fits
    <3> QED BY <1>5, <3>1, <3>2
  <2>3. \A a \in fetching' : (a.closes = closes /\ NoNews(main) /\ NoNews(worker) => Fits(a))'
    BY <1>3, <1>5, <1>6 DEF IInv, AnswersFit, Fits
  <2> QED BY <2>1, <2>2, <2>3 DEF AnswersFit
<1>10. Ages'
  BY <1>1, <1>2, <1>3, <1>5, <1>6 DEF IInv, Ages
<1>11. OneAnswer'
  <2>1. InWorker' => InWorker \/ Current(main[1])
    BY <1>1, <1>2, <1>3, <1>5 DEF InWorker, Current
  <2>2. ASSUME InMain' PROVE InMain /\ ~Current(main[1])
    <3>1. PICK i \in DOMAIN main' : Current(main[i])'
      BY <2>2 DEF InMain
    <3>2. i + 1 \in DOMAIN main /\ i + 1 # 1 /\ Current(main[i + 1])
      BY <1>3, <1>6, <3>1, Queues DEF Current
    <3> QED BY <1>1, <3>2 DEF IInv, OneAnswer, InMain
  <2>3. Current(main[1]) => InMain
    BY <1>1 DEF InMain
  <2>4. \A i, j \in DOMAIN main' : (Current(main[i]) /\ Current(main[j]))' => i = j
    BY <1>3, <1>6 DEF IInv, OneAnswer, Current
  <2>5. ASSUME NEW i \in DOMAIN worker', NEW j \in DOMAIN worker', Current(worker[i])', Current(worker[j])'
        PROVE  i = j
    <3>1. \A k \in DOMAIN worker' : Current(worker[k])' =>
             (k \in DOMAIN worker /\ Current(worker[k])) \/ (k = Len(worker) + 1 /\ Current(main[1]))
      BY <1>1, <1>2, <1>3, <1>5 DEF Current
    <3>2. Current(main[1]) => ~InWorker
      BY <2>3 DEF IInv, OneAnswer
    <3> QED BY <2>5, <3>1, <3>2 DEF IInv, OneAnswer, InWorker
  <2> QED BY <1>3, <2>1, <2>2, <2>3, <2>4, <2>5 DEF IInv, OneAnswer, InAsked, InFetching
<1> QED BY <1>3, <1>7, <1>8, <1>9, <1>10, <1>11 DEF IInv, OwnToken

-----------------------------------------------------------------------------
(* The worker queue.                                                       *)

\* A stream that is closed once more waits for nothing that is on its way.
LEMMA NothingCurrent ==
    ASSUME IInv
    PROVE  /\ \A r \in asked : r.closes # closes + 1 /\ r.closes <= closes + 1
           /\ \A a \in fetching : a.closes # closes + 1 /\ a.closes <= closes + 1
           /\ \A i \in DOMAIN main :
                ~IsNews(main[i]) => main[i].closes # closes + 1 /\ main[i].closes <= closes + 1
           /\ \A i \in DOMAIN worker :
                ~IsNews(worker[i]) => worker[i].closes # closes + 1 /\ worker[i].closes <= closes + 1
<1>1. closes \in Nat
  BY Queues
<1>2. \A c \in Nat : c <= closes => c # closes + 1 /\ c <= closes + 1
  BY <1>1
<1>3. \A x \in asked \union fetching : x.closes \in Nat
  BY AnswerType DEF IInv, TypeOK
<1>4. \A i \in DOMAIN main : ~IsNews(main[i]) => main[i].closes \in Nat
  BY Queues, NewsType, AnswerType
<1>5. \A i \in DOMAIN worker : ~IsNews(worker[i]) => worker[i].closes \in Nat
  BY Queues, NewsType, AnswerType
<1> QED BY <1>2, <1>3, <1>4, <1>5 DEF IInv, Ages

LEMMA ChangeStep ==
    ASSUME IInv, Change
    PROVE  IInv'
<1>1. /\ worker \in Seq(Msg) /\ worker # << >> /\ IsNews(worker[1]) /\ worker[1] \in Msg
      /\ worker' = Tail(worker) /\ worker' \in Seq(Msg) /\ user' = worker[1].news
      /\ ~NoNews(worker)
  BY Queues, TailOf DEF Change
<1>2. \A i \in DOMAIN worker' : i + 1 \in DOMAIN worker /\ worker'[i] = worker[i + 1]
  BY <1>1, TailOf
<1> DEFINE r == [closes |-> closes + 1, counter |-> counter]
<1>3. /\ asked' = asked \union {r} /\ closes' = closes + 1 /\ state' = "Starting"
      /\ UNCHANGED <<auth, fetching, main, counter, owner, changes, breaks>>
  BY DEF Change, Ask
<1>4. /\ r \in [closes : Nat, counter : Nat] /\ r.closes = closes + 1
      /\ closes' \in Nat /\ closes' <= closes'
  BY <1>3, Queues
<1> HIDE DEF r
<1>5. TypeOK'
  BY <1>1, <1>3, <1>4, NewsType DEF IInv, TypeOK, Msg
<1>6. NewsArrives'
  <2>1. ASSUME NoNews(main), NoNews(worker') PROVE user' = auth
    BY <1>1, <2>1, Shifted DEF IInv, NewsArrives
  <2>2. ASSUME NoNews(main) PROVE Latest(worker)'
    BY <1>1, <1>3, <2>2, Shifted DEF IInv, NewsArrives, Latest
  <2> QED BY <1>3, <2>1, <2>2 DEF IInv, NewsArrives, NoNews, Latest
<1>7. /\ \A a \in fetching' : a.closes # closes'
      /\ \A i \in DOMAIN main' : ~Current(main[i])'
      /\ \A i \in DOMAIN worker' : ~Current(worker[i])'
      /\ \A q \in asked' : q.closes = closes' => q = r
  BY <1>2, <1>3, NothingCurrent DEF Current
<1>8. AnswersFit'
  BY <1>7 DEF AnswersFit
<1>9. Ages'
  BY <1>2, <1>3, <1>4, NothingCurrent DEF Ages
<1>10. OneAnswer'
  BY <1>3, <1>7 DEF OneAnswer, InAsked, InFetching, InMain, InWorker
<1>11. OwnToken'
  BY <1>3 DEF OwnToken
<1> QED BY <1>5, <1>6, <1>8, <1>9, <1>10, <1>11 DEF IInv

LEMMA ResumeStep ==
    ASSUME IInv, Resume
    PROVE  IInv'
<1>1. /\ worker \in Seq(Msg) /\ worker # << >> /\ ~IsNews(worker[1]) /\ worker[1] \in Answer
      /\ worker' = Tail(worker) /\ worker' \in Seq(Msg) /\ Head(worker) = worker[1]
      /\ 1 \in DOMAIN worker /\ (NoNews(worker') <=> NoNews(worker))
  BY Queues, TailOf, NewsType DEF Resume
<1>2. /\ \A i \in DOMAIN worker' : i + 1 \in DOMAIN worker /\ worker'[i] = worker[i + 1]
      /\ \A i \in DOMAIN worker' : i + 1 > 1
      /\ \A i, j \in DOMAIN worker' : i + 1 = j + 1 => i = j
      /\ \A i \in DOMAIN worker' : First(worker', i) => First(worker, i + 1)
  BY <1>1, TailOf, Shifted
<1>3. UNCHANGED <<auth, asked, fetching, main, counter, user, changes, breaks>>
  BY DEF Resume
<1>4. NewsArrives'
  <2>1. Latest(worker) => Latest(worker)'
    BY <1>1, <1>3, Shifted DEF Latest
  <2> QED BY <1>1, <1>3, <2>1 DEF IInv, NewsArrives, NoNews, Latest
<1>5. closes \in Nat /\ closes + 1 \in Nat
  BY Queues
<1>6. CASE UNCHANGED <<state, closes, owner>>
  <2>1. TypeOK'
    BY <1>1, <1>3, <1>6 DEF IInv, TypeOK, Msg
  <2>2. AnswersFit'
    <3>1. ASSUME NEW i \in DOMAIN worker', Current(worker[i])', First(worker, i)'
          PROVE  Fits(worker[i])'
      BY <1>2, <1>3, <1>6, <3>1 DEF IInv, AnswersFit, Current, First, Fits
    <3>2. \A i \in DOMAIN main' :
            (Current(main[i]) /\ First(main, i) /\ NoNews(worker) => Fits(main[i]))'
      BY <1>1, <1>3, <1>6 DEF IInv, AnswersFit, Current, First, Fits
    <3>3. \A a \in fetching' : (a.closes = closes /\ NoNews(main) /\ NoNews(worker) => Fits(a))'
      BY <1>1, <1>3, <1>6 DEF IInv, AnswersFit, NoNews, Fits
    <3> QED BY <3>1, <3>2, <3>3 DEF AnswersFit
  <2>3. Ages'
    BY <1>2, <1>3, <1>6 DEF IInv, Ages
  <2>4. OneAnswer'
    BY <1>2, <1>3, <1>6 DEF IInv, OneAnswer, InAsked, InFetching, InMain, InWorker, Current
  <2>5. OwnToken'
    BY <1>3, <1>6 DEF IInv, OwnToken
  <2> QED BY <1>4, <2>1, <2>2, <2>3, <2>4, <2>5 DEF IInv
<1>7. CASE closes' = closes + 1 /\ state' = "Backoff" /\ UNCHANGED owner
  <2>1. TypeOK'
    BY <1>1, <1>3, <1>5, <1>7 DEF IInv, TypeOK, Msg
  <2>2. /\ \A a \in fetching' : a.closes # closes'
        /\ \A i \in DOMAIN main' : ~Current(main[i])'
        /\ \A i \in DOMAIN worker' : ~Current(worker[i])'
        /\ \A q \in asked' : q.closes # closes'
    BY <1>2, <1>3, <1>7, NothingCurrent DEF Current
  <2>3. AnswersFit' /\ OneAnswer' /\ OwnToken'
    BY <1>7, <2>2 DEF AnswersFit, OneAnswer, OwnToken, InAsked, InFetching, InMain, InWorker
  <2>4. Ages'
    BY <1>2, <1>3, <1>7, NothingCurrent DEF Ages
  <2> QED BY <1>4, <2>1, <2>3, <2>4 DEF IInv
<1>8. CASE /\ worker[1].closes = closes /\ worker[1].owner # Aborted
           /\ state' = "Open" /\ owner' = worker[1].owner /\ UNCHANGED closes
  <2>1. Current(worker[1]) /\ First(worker, 1)
    BY <1>1, <1>8, Queues DEF Current, First
  <2>2. InWorker
    BY <1>1, <2>1 DEF InWorker
  <2>3. OwnToken' /\ owner' \in Users
    BY <1>1, <1>3, <1>8, <2>1, AnswerType DEF IInv, AnswersFit, Fits, OwnToken
  <2>4. TypeOK'
    BY <1>1, <1>3, <1>8, <2>3 DEF IInv, TypeOK, Msg
  <2>5. \A i \in DOMAIN worker' : ~Current(worker[i])'
    <3>1. SUFFICES ASSUME NEW i \in DOMAIN worker', Current(worker[i])' PROVE FALSE
      OBVIOUS
    <3>2. i + 1 \in DOMAIN worker /\ Current(worker[i + 1])
      BY <1>2, <1>8, <3>1 DEF Current
    <3>3. i + 1 = 1
      BY <1>1, <2>1, <3>2 DEF IInv, OneAnswer
    <3>4. i + 1 > 1
      BY <1>2
    <3> QED BY <3>3, <3>4
  <2>6. /\ \A a \in fetching' : a.closes # closes'
        /\ \A i \in DOMAIN main' : ~Current(main[i])'
        /\ \A q \in asked' : q.closes # closes'
    BY <1>3, <1>8, <2>2 DEF IInv, OneAnswer, InAsked, InFetching, InMain, Current
  <2>7. AnswersFit' /\ OneAnswer'
    BY <2>5, <2>6 DEF AnswersFit, OneAnswer, InAsked, InFetching, InMain, InWorker
  <2>8. Ages'
    BY <1>2, <1>3, <1>8 DEF IInv, Ages
  <2> QED BY <1>4, <2>3, <2>4, <2>7, <2>8 DEF IInv
<1> QED BY <1>1, <1>6, <1>7, <1>8 DEF Resume

LEMMA BreakStep ==
    ASSUME IInv, Break
    PROVE  IInv'
<1>1. /\ closes' = closes + 1 /\ state' = "Backoff" /\ closes + 1 \in Nat
      /\ UNCHANGED <<auth, asked, fetching, main, counter, worker, user, owner, changes>>
  BY Queues DEF Break
<1>2. TypeOK'
  BY <1>1, BoundsAreNat DEF Break, IInv, TypeOK
<1>3. NewsArrives'
  BY <1>1 DEF IInv, NewsArrives, NoNews, Latest
<1>4. /\ \A a \in fetching' : a.closes # closes'
      /\ \A i \in DOMAIN main' : ~Current(main[i])'
      /\ \A i \in DOMAIN worker' : ~Current(worker[i])'
      /\ \A q \in asked' : q.closes # closes'
  BY <1>1, NothingCurrent DEF Current
<1>5. AnswersFit' /\ OneAnswer' /\ OwnToken'
  BY <1>1, <1>4 DEF AnswersFit, OneAnswer, OwnToken, InAsked, InFetching, InMain, InWorker
<1>6. Ages'
  BY <1>1, NothingCurrent DEF Ages
<1> QED BY <1>2, <1>3, <1>5, <1>6 DEF IInv

LEMMA BackoffStep ==
    ASSUME IInv, BackoffElapses
    PROVE  IInv'
<1> DEFINE r == [closes |-> closes, counter |-> counter]
<1>1. /\ state = "Backoff" /\ state' = "Starting" /\ asked' = asked \union {r}
      /\ UNCHANGED <<auth, fetching, main, counter, worker, user, closes, owner, changes, breaks>>
  BY DEF BackoffElapses, Ask
<1>2. /\ r \in [closes : Nat, counter : Nat] /\ r.closes = closes /\ closes <= closes
  BY Queues
<1> HIDE DEF r
<1>3. TypeOK'
  BY <1>1, <1>2 DEF IInv, TypeOK
<1>4. NewsArrives' /\ AnswersFit'
  BY <1>1 DEF IInv, NewsArrives, NoNews, Latest, AnswersFit, Current, First, Fits
<1>5. Ages'
  BY <1>1, <1>2 DEF IInv, Ages
<1>6. OneAnswer'
  BY <1>1, <1>2 DEF IInv, OneAnswer, InAsked, InFetching, InMain, InWorker, Current
<1>7. OwnToken'
  BY <1>1 DEF OwnToken
<1> QED BY <1>3, <1>4, <1>5, <1>6, <1>7 DEF IInv

-----------------------------------------------------------------------------
LEMMA NextIInv == IInv /\ [Next]_vars => IInv'
<1> SUFFICES ASSUME IInv, [Next]_vars PROVE IInv'
  OBVIOUS
<1>1. CASE UNCHANGED vars
  BY <1>1 DEF vars, IInv, TypeOK, NewsArrives, NoNews, Latest, AnswersFit, Current, First, Fits,
              Ages, OneAnswer, InAsked, InFetching, InMain, InWorker, OwnToken
<1> QED BY <1>1, AuthChangesStep, FetchStep, FetchedStep, HearStep, ReturnStep, ChangeStep,
           ResumeStep, BreakStep, BackoffStep DEF Next

LEMMA Inductive == Spec => []IInv
BY InitIInv, NextIInv, PTL DEF Spec

\* Type correctness: whatever is announced, fetched and answered, the queues
\* hold news and answers and the stream is in one of its states.
THEOREM TypeCorrect == Spec => []TypeOK
<1>1. IInv => TypeOK
  BY DEF IInv
<1> QED BY <1>1, Inductive, PTL

\* An open write stream carries the token of the user whose batches it sends,
\* although the user is changed on one queue, counted on another and taken
\* over on a third: the counters of the provider and of the stream between
\* them drop every answer that is for another user.
THEOREM TokensAreOwn == Spec => []OwnToken
<1>1. IInv => OwnToken
  BY DEF IInv
<1> QED BY <1>1, Inductive, PTL

\* The assertion of Stream::ResumeStartWithCredentials never fails: an answer
\* whose close count is the stream's finds the stream starting.
THEOREM AnswersMeetStarting == Spec => []ResumeMeetsStarting
<1>1. IInv => ResumeMeetsStarting
  <2> SUFFICES ASSUME IInv, worker # << >>, ~IsNews(Head(worker)), Head(worker).closes = closes
               PROVE  state = "Starting"
    BY DEF ResumeMeetsStarting
  <2>1. 1 \in DOMAIN worker /\ Head(worker) = worker[1]
    BY Queues, TailOf
  <2> QED BY <2>1 DEF IInv, OneAnswer, InWorker, Current
<1> QED BY <1>1, Inductive, PTL

-----------------------------------------------------------------------------
(* No wake-up is lost.                                                     *)

\* A stream that is starting has an answer on its way, or one still to come.
Awaited == state = "Starting" => InAsked \/ InFetching \/ InMain \/ InWorker

\* What is current in a queue stays so when a message is appended, and is the
\* first one or behind it.
LEMMA KeptCurrent ==
    ASSUME NEW s \in Seq(Msg), NEW i \in DOMAIN s
    PROVE  /\ \A m \in Msg : i \in DOMAIN Append(s, m) /\ Append(s, m)[i] = s[i]
           /\ i = 1 \/ (i - 1 \in DOMAIN Tail(s) /\ Tail(s)[i - 1] = s[i])
<1>1. s # << >>
  OBVIOUS
<1>2. i = 1 \/ (i - 1 \in DOMAIN Tail(s) /\ Tail(s)[i - 1] = s[i])
  BY <1>1, TailOf
<1>3. ASSUME NEW m \in Msg PROVE i \in DOMAIN Append(s, m) /\ Append(s, m)[i] = s[i]
  <2>1. /\ DOMAIN s = 1 .. Len(s) /\ DOMAIN Append(s, m) = 1 .. Len(s) + 1 /\ Len(s) \in Nat
        /\ \A j \in 1 .. Len(s) : Append(s, m)[j] = s[j]
    BY AppendMsg
  <2> QED BY <2>1
<1> QED BY <1>2, <1>3

LEMMA LastOf ==
    ASSUME NEW s \in Seq(Msg), NEW m \in Msg
    PROVE  \E i \in DOMAIN Append(s, m) : Append(s, m)[i] = m
<1>1. DOMAIN Append(s, m) = 1 .. Len(s) + 1 /\ Len(s) \in Nat /\ Append(s, m)[Len(s) + 1] = m
  BY AppendMsg
<1> QED BY <1>1

\* News arrives at the main queue, or passes to the worker queue.
LEMMA NewsAwaited ==
    ASSUME IInv, Awaited, (\E u \in Users : AuthChanges(u)) \/ Hear
    PROVE  Awaited'
<1>0. main \in Seq(Msg) /\ worker \in Seq(Msg)
  BY Queues
<1>1. CASE Hear
  <2>1. /\ main # << >> /\ IsNews(Head(main)) /\ main' = Tail(main)
        /\ worker' = Append(worker, Head(main)) /\ UNCHANGED <<asked, fetching, state, closes>>
    BY <1>1 DEF Hear
  <2>2. Head(main) = main[1] /\ Head(main) \in Msg
    BY <1>0, <2>1, TailOf
  <2>3. InMain => InMain'
    <3> SUFFICES ASSUME NEW i \in DOMAIN main, Current(main[i]) PROVE InMain'
      BY DEF InMain
    <3>1. i # 1
      BY <2>1, <2>2 DEF Current
    <3>2. i - 1 \in DOMAIN main' /\ main'[i - 1] = main[i]
      BY <1>0, <2>1, <3>1, KeptCurrent
    <3> QED BY <2>1, <3>2 DEF InMain, Current
  <2>4. InWorker => InWorker'
    <3> SUFFICES ASSUME NEW i \in DOMAIN worker, Current(worker[i]) PROVE InWorker'
      BY DEF InWorker
    <3>1. i \in DOMAIN worker' /\ worker'[i] = worker[i]
      BY <1>0, <2>1, <2>2, KeptCurrent
    <3> QED BY <2>1, <3>1 DEF InWorker, Current
  <2> QED BY <2>1, <2>3, <2>4 DEF Awaited, InAsked, InFetching
<1>2. ASSUME NEW u \in Users, AuthChanges(u) PROVE Awaited'
  <2>1. /\ main' = Append(main, [news |-> u]) /\ [news |-> u] \in Msg
        /\ UNCHANGED <<asked, fetching, worker, state, closes>>
    BY <1>2, NewsType DEF AuthChanges
  <2>2. InMain => InMain'
    <3> SUFFICES ASSUME NEW i \in DOMAIN main, Current(main[i]) PROVE InMain'
      BY DEF InMain
    <3>1. i \in DOMAIN main' /\ main'[i] = main[i]
      BY <1>0, <2>1, KeptCurrent
    <3> QED BY <2>1, <3>1 DEF InMain, Current
  <2> QED BY <2>1, <2>2 DEF Awaited, InAsked, InFetching, InWorker, Current
<1> QED BY <1>1, <1>2

\* A request is run; its answer is posted, with a token or without.
LEMMA FetchAwaited ==
    ASSUME IInv, Awaited, (\E r \in asked : Fetch(r)) \/ (\E a \in fetching : Fetched(a))
    PROVE  Awaited'
<1>0. main \in Seq(Msg) /\ worker \in Seq(Msg) /\ fetching \subseteq Answer
  BY Queues DEF IInv, TypeOK
<1>1. ASSUME NEW r \in asked, Fetch(r) PROVE Awaited'
  <2> DEFINE a == [closes |-> r.closes, counter |-> r.counter, owner |-> auth]
  <2>1. /\ asked' = asked \ {r} /\ fetching' = fetching \union {a} /\ a.closes = r.closes
        /\ UNCHANGED <<main, worker, state, closes>>
    BY <1>1 DEF Fetch
  <2> HIDE DEF a
  <2>2. InAsked => InAsked' \/ InFetching'
    BY <2>1 DEF InAsked, InFetching
  <2>3. InFetching => InFetching'
    BY <2>1 DEF InFetching
  <2> QED BY <2>1, <2>2, <2>3 DEF Awaited, InMain, InWorker, Current
<1>2. ASSUME NEW a \in fetching, Fetched(a) PROVE Awaited'
  <2>1. /\ fetching' = fetching \ {a} /\ UNCHANGED <<asked, worker, state, closes>>
        /\ \/ main' = Append(main, a)
           \/ main' = Append(main, [a EXCEPT !.owner = Aborted])
    BY <1>2 DEF Fetched
  <2>2. PICK m \in Answer : main' = Append(main, m) /\ m.closes = a.closes
    BY <1>0, <2>1, AnswerType
  <2>3. m \in Msg /\ ~IsNews(m)
    BY NewsType
  <2>4. InMain => InMain'
    <3> SUFFICES ASSUME NEW i \in DOMAIN main, Current(main[i]) PROVE InMain'
      BY DEF InMain
    <3>1. i \in DOMAIN main' /\ main'[i] = main[i]
      BY <1>0, <2>2, <2>3, KeptCurrent
    <3> QED BY <2>1, <3>1 DEF InMain, Current
  <2>5. InFetching => InFetching' \/ InMain'
    <3> SUFFICES ASSUME a.closes = closes PROVE InMain'
      BY <2>1 DEF InFetching
    <3>1. PICK i \in DOMAIN main' : main'[i] = m
      BY <1>0, <2>2, <2>3, LastOf
    <3> QED BY <2>1, <2>2, <2>3, <3>1 DEF InMain, Current
  <2> QED BY <2>1, <2>4, <2>5 DEF Awaited, InAsked, InWorker, Current
<1> QED BY <1>1, <1>2

\* An answer is passed on, and taken by the stream.
LEMMA AnswerAwaited ==
    ASSUME IInv, Awaited, Return \/ Resume
    PROVE  Awaited'
<1>0. main \in Seq(Msg) /\ worker \in Seq(Msg)
  BY Queues
<1>1. CASE Return
  <2>1. /\ main # << >> /\ ~IsNews(Head(main)) /\ main' = Tail(main)
        /\ worker' = Append(worker, IF Head(main).counter = counter THEN Head(main)
                                    ELSE [Head(main) EXCEPT !.owner = Aborted])
        /\ UNCHANGED <<asked, fetching, state, closes>>
    BY <1>1 DEF Return
  <2>2. Head(main) = main[1] /\ Head(main) \in Answer
    BY <1>0, <2>1, TailOf, NewsType
  <2>3. PICK m \in Answer : worker' = Append(worker, m) /\ m.closes = main[1].closes
    BY <2>1, <2>2, AnswerType
  <2>4. m \in Msg /\ ~IsNews(m)
    BY NewsType
  <2>5. InWorker => InWorker'
    <3> SUFFICES ASSUME NEW i \in DOMAIN worker, Current(worker[i]) PROVE InWorker'
      BY DEF InWorker
    <3>1. i \in DOMAIN worker' /\ worker'[i] = worker[i]
      BY <1>0, <2>3, <2>4, KeptCurrent
    <3> QED BY <2>1, <3>1 DEF InWorker, Current
  <2>6. InMain => InMain' \/ InWorker'
    <3> SUFFICES ASSUME NEW i \in DOMAIN main, Current(main[i]) PROVE InMain' \/ InWorker'
      BY DEF InMain
    <3>1. CASE i = 1
      <4>1. PICK j \in DOMAIN worker' : worker'[j] = m
        BY <1>0, <2>3, <2>4, LastOf
      <4>2. m.closes = closes
        BY <2>3, <3>1 DEF Current
      <4> QED BY <2>1, <2>4, <4>1, <4>2 DEF InWorker, Current
    <3>2. CASE i # 1
      <4>1. i - 1 \in DOMAIN main' /\ main'[i - 1] = main[i]
        BY <1>0, <2>1, <3>2, KeptCurrent
      <4> QED BY <2>1, <4>1 DEF InMain, Current
    <3> QED BY <3>1, <3>2
  <2> QED BY <2>1, <2>5, <2>6 DEF Awaited, InAsked, InFetching
<1>2. CASE Resume
  <2>1. /\ worker # << >> /\ worker' = Tail(worker) /\ UNCHANGED <<asked, fetching, main>>
        /\ \/ Head(worker).closes # closes /\ UNCHANGED <<state, closes>>
           \/ state' # "Starting"
    BY <1>2 DEF Resume
  <2>2. CASE state' # "Starting"
    BY <2>2 DEF Awaited
  <2>3. CASE Head(worker).closes # closes /\ UNCHANGED <<state, closes>>
    <3>1. Head(worker) = worker[1]
      BY <1>0, <2>1, TailOf
    <3>2. InWorker => InWorker'
      <4> SUFFICES ASSUME NEW i \in DOMAIN worker, Current(worker[i]) PROVE InWorker'
        BY DEF InWorker
      <4>1. i # 1
        BY <2>3, <3>1 DEF Current
      <4>2. i - 1 \in DOMAIN worker' /\ worker'[i - 1] = worker[i]
        BY <1>0, <2>1, <4>1, KeptCurrent
      <4> QED BY <2>3, <4>2 DEF InWorker, Current
    <3> QED BY <2>1, <2>3, <3>2 DEF Awaited, InAsked, InFetching, InMain, Current
  <2> QED BY <2>1, <2>2, <2>3
<1> QED BY <1>1, <1>2

\* The stream is closed, and asks when it starts.
LEMMA StreamAwaited ==
    ASSUME Change \/ Break \/ BackoffElapses
    PROVE  Awaited'
<1>0. ASSUME NEW c, closes' = c, Ask(c) PROVE InAsked'
  <2> DEFINE r == [closes |-> c, counter |-> counter]
  <2>1. r \in asked' /\ r.closes = c
    BY <1>0 DEF Ask
  <2> QED BY <1>0, <2>1 DEF InAsked
<1>1. CASE Change
  BY <1>0, <1>1 DEF Change, Awaited
<1>2. CASE Break
  BY <1>2 DEF Break, Awaited
<1>3. CASE BackoffElapses
  BY <1>0, <1>3 DEF BackoffElapses, Awaited
<1> QED BY <1>1, <1>2, <1>3

\* No news, answer or request is lost between the three queues: when they are
\* empty the stream is open, for the user there is and with that user's token.
\* With the counters that drop answers (close_count_, token_counter) this is
\* what must not be dropped.
THEOREM NoWakeUpIsLost == Spec => []NeverStuck
<1>1. Init => Awaited
  BY DEF Init, Awaited, InAsked
<1>2. IInv /\ Awaited /\ [Next]_vars => Awaited'
  <2>1. UNCHANGED vars /\ Awaited => Awaited'
    BY DEF vars, Awaited, InAsked, InFetching, InMain, InWorker, Current
  <2> QED BY <2>1, NewsAwaited, FetchAwaited, AnswerAwaited, StreamAwaited DEF Next
<1>3. IInv /\ Awaited => NeverStuck
  <2> SUFFICES ASSUME IInv, Awaited, asked = {}, fetching = {}, main = << >>, worker = << >>,
                      state # "Backoff"
               PROVE  state = "Open" /\ user = auth /\ owner = auth
    BY DEF NeverStuck
  <2>1. NoNews(main) /\ NoNews(worker) /\ ~InMain /\ ~InWorker /\ ~InAsked /\ ~InFetching
    <3>1. \A i : i \notin DOMAIN << >>
      OBVIOUS
    <3>2. NoNews(main) /\ NoNews(worker) /\ ~InMain /\ ~InWorker
      BY <3>1, Zenon DEF NoNews, InMain, InWorker
    <3> QED BY <3>2 DEF InAsked, InFetching
  <2>2. state = "Open"
    BY <2>1 DEF Awaited, IInv, TypeOK
  <2>3. user = auth /\ owner = user
    BY <2>1, <2>2 DEF IInv, NewsArrives, OwnToken
  <2> QED BY <2>2, <2>3
<1> QED BY <1>1, <1>2, <1>3, Inductive, PTL DEF Spec
=============================================================================
