---------------------------- MODULE SessionProofs ----------------------------
(***************************************************************************)
(* Proofs about Session, for every set of addresses, any depth of the      *)
(* stack and any number of sign-outs.                                      *)
(***************************************************************************)
EXTENDS Session, SequenceTheorems, TLAPS

\* A MainScreen from before the last sign-out lies under a Welcome, which Back
\* does not pop.
Buried ==
    \A k \in DOMAIN stack : stack[k].kind = "Main" /\ stack[k].since # outs =>
        \E j \in DOMAIN stack : k < j /\ stack[j].kind = "Welcome"

\* An account's profile is explained from the moment the account is asked for.
Asked == accounts \union {c.email : c \in creating}
Backed(e) == e \in profiles \union refused \union cut \/ \E p \in Writes : p.email = e
RequestsHaveProfiles == \A e \in Asked : Backed(e)

-----------------------------------------------------------------------------
(* The stack.                                                              *)

\* What the stack is: a nonempty sequence of screens.
LEMMA StackShape ==
    ASSUME TypeOK
    PROVE  /\ stack \in Seq(Screen) /\ Len(stack) \in Nat /\ 1 <= Len(stack)
           /\ Len(stack) <= MaxDepth /\ DOMAIN stack = 1 .. Len(stack)
           /\ MaxDepth \in Nat /\ MaxOuts \in Nat /\ outs \in 0 .. MaxOuts
           /\ \A k \in 1 .. Len(stack) : stack[k] \in Screen
BY LenProperties, ElementOfSeq, BoundsAreNat DEF TypeOK

\* A new screen is one of the sign-outs so far.
LEMMA NewType ==
    ASSUME TypeOK, NEW kind \in {"Welcome", "Login", "Register", "Main"}
    PROVE  New(kind) \in Screen /\ New(kind).kind = kind /\ New(kind).since = outs
BY BoundsAreNat DEF New, Screen, TypeOK

\* A push leaves every screen where it is, under the new one.
LEMMA PushShape ==
    ASSUME TypeOK, NEW kind \in {"Welcome", "Login", "Register", "Main"}, Push(kind)
    PROVE  /\ stack' \in Seq(Screen) /\ Len(stack') = Len(stack) + 1 /\ Len(stack') <= MaxDepth
           /\ \A k \in 1 .. Len(stack) : stack'[k] = stack[k]
           /\ stack'[Len(stack) + 1] = New(kind)
<1>1. New(kind) \in Screen
  BY NewType
<1>2. stack' = Append(stack, New(kind)) /\ Len(stack) < MaxDepth
  BY DEF Push
<1> QED BY <1>1, <1>2, StackShape, AppendProperties

\* Back takes the top screen away and no other.
LEMMA FrontShape ==
    ASSUME TypeOK, Len(stack) > 1, stack' = Front(stack)
    PROVE  /\ stack' \in Seq(Screen) /\ Len(stack') = Len(stack) - 1
           /\ \A k \in 1 .. Len(stack) - 1 : stack'[k] = stack[k]
BY StackShape, SubSeqProperties DEF Front

\* The records' fields change independently.
LEMMA ScreenFields ==
    ASSUME NEW s \in Screen
    PROVE  /\ \A b \in BOOLEAN : LET t == [s EXCEPT !.picking = b] IN
                t \in Screen /\ t.kind = s.kind /\ t.since = s.since
           /\ \A u \in Emails \union {Nobody, Unread} : LET t == [s EXCEPT !.user = u] IN
                t \in Screen /\ t.kind = s.kind /\ t.since = s.since
           /\ \A n \in 0 .. MaxOuts : LET t == [s EXCEPT !.since = n] IN
                t \in Screen /\ t.kind = s.kind
BY DEF Screen

\* What Back and a kill leave of writes: every one, for the same address.
LEMMA AbandonedShape ==
    ASSUME NEW W \in SUBSET Profile, NEW k, MaxDepth \in Nat
    PROVE  /\ Abandoned(W, k) \subseteq Profile
           /\ \A q \in Abandoned(W, k) : q.form > 0 => q \in W /\ q.form # k
           /\ \A p \in W : \E q \in Abandoned(W, k) : q.email = p.email
<1>1. \A p \in W : LET q == [p EXCEPT !.form = 0] IN
                     q \in Profile /\ q.email = p.email /\ q.form = 0
  BY DEF Profile
<1> DEFINE left(p) == IF p.form = k THEN [p EXCEPT !.form = 0] ELSE p
<1>2. \A p \in W : /\ left(p) \in Profile /\ left(p).email = p.email
                   /\ left(p).form > 0 => left(p) = p /\ p.form # k
  <2> SUFFICES ASSUME NEW p \in W
               PROVE  /\ left(p) \in Profile /\ left(p).email = p.email
                      /\ left(p).form > 0 => left(p) = p /\ p.form # k
    OBVIOUS
  <2>1. CASE p.form = k
    BY <1>1, <2>1
  <2>2. CASE p.form # k
    BY <2>2
  <2> QED BY <2>1, <2>2
<1>3. Abandoned(W, k) = {left(p) : p \in W}
  BY DEF Abandoned
<1> HIDE DEF left
<1> QED BY <1>2, <1>3

LEMMA OrphansShape ==
    ASSUME NEW W \in SUBSET Profile, MaxDepth \in Nat
    PROVE  /\ Orphans(W) \subseteq Profile
           /\ \A q \in Orphans(W) : q.form = 0
           /\ \A p \in W : \E q \in Orphans(W) : q.email = p.email
<1>1. \A p \in W : LET q == [p EXCEPT !.form = 0] IN
                     q \in Profile /\ q.email = p.email /\ q.form = 0
  BY DEF Profile
<1> QED BY <1>1 DEF Orphans

LEMMA RequestFields ==
    \A c \in Request : LET d == [c EXCEPT !.live = FALSE] IN
        d \in Request /\ d.email = c.email
BY DEF Request

\* A screen changes in its fields user or picking alone.
LEMMA FieldShape ==
    ASSUME TypeOK, NEW k \in 1 .. Len(stack), NEW s \in Screen,
           s.kind = stack[k].kind, s.since = stack[k].since, stack' = [stack EXCEPT ![k] = s]
    PROVE  /\ stack' \in Seq(Screen) /\ Len(stack') = Len(stack)
           /\ \A j \in 1 .. Len(stack) :
                stack'[j].kind = stack[j].kind /\ stack'[j].since = stack[j].since
BY StackShape, ExceptSeq

\* A sign-out puts a Welcome of its own on top.
LEMMA SignOutShape ==
    ASSUME TypeOK, SignOut
    PROVE  /\ outs' \in 0 .. MaxOuts
           /\ stack' \in Seq(Screen) /\ Len(stack') = Len(stack) + 1
           /\ Len(stack') \in 1 .. MaxDepth
           /\ stack'[Len(stack) + 1].kind = "Welcome"
<1> DEFINE top == [stack[Len(stack)] EXCEPT !.picking = FALSE]
           old == [stack EXCEPT ![Len(stack)] = top]
           new == [New("Welcome") EXCEPT !.since = outs + 1]
<1>1. outs \in Nat /\ MaxOuts \in Nat /\ Len(stack) \in Nat /\ Len(stack) \in 1 .. Len(stack)
      /\ stack \in Seq(Screen) /\ stack[Len(stack)] \in Screen /\ MaxDepth \in Nat
  BY StackShape
<1>2. outs < MaxOuts /\ outs' = outs + 1 /\ Len(stack) < MaxDepth
  BY DEF SignOut
<1>3. outs + 1 \in 0 .. MaxOuts
  BY <1>1, <1>2
<1>4. new \in Screen /\ new.kind = "Welcome"
  <2>1. New("Welcome") \in Screen /\ New("Welcome").kind = "Welcome"
    BY NewType
  <2> QED BY <1>3, <2>1, ScreenFields
<1>5. top \in Screen
  BY <1>1, ScreenFields
<1>6. old \in Seq(Screen) /\ Len(old) = Len(stack)
  BY <1>1, <1>5, ExceptSeq
<1>7. stack' = Append(old, new)
  BY DEF SignOut
<1> HIDE DEF new, old
<1>8. stack' \in Seq(Screen) /\ Len(stack') = Len(stack) + 1 /\ stack'[Len(stack) + 1] = new
  BY ONLY <1>4, <1>6, <1>7, AppendProperties
<1> QED BY <1>1, <1>2, <1>3, <1>4, <1>8

-----------------------------------------------------------------------------
(* Types.                                                                  *)

LEMMA InitType == Init => TypeOK
<1> SUFFICES ASSUME Init PROVE TypeOK
  OBVIOUS
<1> DEFINE s == [kind |-> "Welcome", user |-> Unread, picking |-> FALSE, since |-> 0]
<1>1. s \in Screen
  BY BoundsAreNat DEF Screen
<1>3. MaxDepth \in Nat /\ 1 <= MaxDepth /\ MaxOuts \in Nat
  BY BoundsAreNat
<1>2. stack \in Seq(Screen) /\ Len(stack) = 1
  BY <1>1 DEF Init
<1>4. Len(stack) \in 1 .. MaxDepth /\ outs \in 0 .. MaxOuts
  BY <1>2, <1>3 DEF Init
<1> QED BY <1>2, <1>4 DEF Init, TypeOK

LEMMA NextType == TypeOK /\ [Next]_vars => TypeOK'
<1> SUFFICES ASSUME TypeOK, [Next]_vars PROVE TypeOK'
  OBVIOUS
<1>0. /\ stack \in Seq(Screen) /\ Len(stack) \in Nat /\ 1 <= Len(stack)
      /\ Len(stack) <= MaxDepth /\ DOMAIN stack = 1 .. Len(stack)
      /\ MaxDepth \in Nat /\ MaxOuts \in Nat /\ outs \in 0 .. MaxOuts
      /\ \A k \in 1 .. Len(stack) : stack[k] \in Screen
      /\ stack[Len(stack)] \in Screen
  BY StackShape
<1> USE <1>0
<1>1. CASE PrefsAnswer
  <2>1. New("Main") \in Screen
    BY NewType
  <2>2. stack' \in Seq(Screen) /\ Len(stack') = Len(stack)
    BY <1>1, <2>1, ExceptSeq DEF PrefsAnswer
  <2> QED BY <1>1, <2>2 DEF PrefsAnswer, TypeOK
<1>2. CASE Restart
  <2>1. New("Welcome") \in Screen
    BY NewType
  <2>2. stack' \in Seq(Screen) /\ Len(stack') = 1
    BY <1>2, <2>1 DEF Restart
  <2>3. handing' \subseteq Profile /\ storing' \subseteq Profile /\ creating' \subseteq Request
    BY <1>2, OrphansShape, RequestFields DEF Restart, TypeOK
  <2>5. cut' \subseteq Emails
    BY <1>2 DEF Restart, TypeOK, Profile
  <2>4. loading' \in BOOLEAN /\ logged' \in BOOLEAN /\ signing' \subseteq Emails
    BY <1>2 DEF Restart
  <2> QED BY <1>2, <2>2, <2>3, <2>4, <2>5 DEF Restart, TypeOK
<1>3. CASE SignOut
  BY <1>3, SignOutShape DEF SignOut, TypeOK
<1>4. CASE Back
  <2>1. handing' \subseteq Profile /\ storing' \subseteq Profile
    BY <1>4, AbandonedShape DEF Back, TypeOK
  <2>2. stack' \in Seq(Screen) /\ Len(stack') \in 1 .. MaxDepth
    BY <1>4, FrontShape DEF Back
  <2> QED BY <1>4, <2>1, <2>2 DEF Back, TypeOK
<1>5. ASSUME NEW kind \in {"Login", "Register"}, Open(kind) PROVE TypeOK'
  BY <1>5, PushShape DEF Open, TypeOK
<1>6. ASSUME NEW here \in BOOLEAN, Discover(here) PROVE TypeOK'
  <2>1. [stack[Len(stack)] EXCEPT !.picking = here] \in Screen
    BY ScreenFields
  <2>2. stack' \in Seq(Screen) /\ Len(stack') = Len(stack)
    BY <1>6, <2>1, ExceptSeq DEF Discover
  <2> QED BY <1>6, <2>2 DEF Discover, TypeOK
<1>7. ASSUME NEW e \in Emails, Login(e) PROVE TypeOK'
  <2>1. Push("Main")
    BY <1>7 DEF Login
  <2>2. stack' \in Seq(Screen) /\ Len(stack') \in 1 .. MaxDepth
    BY <2>1, PushShape
  <2>3. flag' \in BOOLEAN /\ logged' \in BOOLEAN
    BY <1>7 DEF Login, TypeOK
  <2> QED BY <1>7, <2>2, <2>3 DEF Login, TypeOK
<1>8. ASSUME NEW e \in Emails, Register(e) PROVE TypeOK'
  <2>1. [email |-> e, live |-> TRUE] \in Request /\ [email |-> e, form |-> Len(stack)] \in Profile
    BY DEF Request, Profile
  <2>2. creating' \subseteq Request /\ handing' \subseteq Profile
    BY <1>8, <2>1 DEF Register, TypeOK
  <2> QED BY <1>8, <2>2 DEF Register, TypeOK
<1>9. ASSUME NEW e \in Emails, SignIn(e) PROVE TypeOK'
  BY <1>9 DEF SignIn, TypeOK
<1>10. ASSUME NEW c \in creating, Create(c) PROVE TypeOK'
  BY <1>10 DEF Create, TypeOK, Request
<1>11. ASSUME NEW k \in DOMAIN stack, Pick(k) PROVE TypeOK'
  BY <1>11, PushShape DEF Pick, TypeOK
<1>12. ASSUME NEW k \in DOMAIN stack, ReadUser(k) PROVE TypeOK'
  <2>1. [stack[k] EXCEPT !.user = auth] \in Screen
    BY ScreenFields DEF TypeOK
  <2>2. stack' \in Seq(Screen) /\ Len(stack') = Len(stack)
    BY <1>12, <2>1, ExceptSeq DEF ReadUser
  <2> QED BY <1>12, <2>2 DEF ReadUser, TypeOK
<1>13. ASSUME NEW p \in storing, Store(p) PROVE TypeOK'
  <2>1. p.email \in Emails
    BY DEF TypeOK, Profile
  <2> QED BY <1>13, <2>1, PushShape DEF Store, TypeOK
<1>14. ASSUME NEW p \in storing, Refuse(p) PROVE TypeOK'
  BY <1>14 DEF Refuse, TypeOK, Profile
<1>15. ASSUME NEW p \in handing, Accept(p) PROVE TypeOK'
  BY <1>15 DEF Accept, TypeOK
<1>16. CASE UNCHANGED vars
  BY <1>16 DEF vars, TypeOK
<1> QED BY <1>1, <1>2, <1>3, <1>4, <1>5, <1>6, <1>7, <1>8, <1>9, <1>10, <1>11,
           <1>12, <1>13, <1>14, <1>15, <1>16 DEF Next

\* Types: the stack is never empty or too deep, every reply finds what it is for.
THEOREM TypeCorrect == Spec => []TypeOK
BY InitType, NextType, PTL DEF Spec

-----------------------------------------------------------------------------
(* Sign-outs.                                                              *)

LEMMA InitBuried == Init => Buried
BY DEF Init, Buried

\* A push of any screen of the present session.
LEMMA PushBuried ==
    ASSUME TypeOK, Buried, NEW kind \in {"Welcome", "Login", "Register", "Main"},
           Push(kind), UNCHANGED outs
    PROVE  Buried'
<1>1. /\ stack' \in Seq(Screen) /\ Len(stack') = Len(stack) + 1
      /\ \A k \in 1 .. Len(stack) : stack'[k] = stack[k]
      /\ stack'[Len(stack) + 1].since = outs
  BY PushShape, NewType
<1>2. DOMAIN stack' = 1 .. Len(stack) + 1
  BY <1>1, LenProperties
<1> QED BY <1>1, <1>2, StackShape DEF Buried

\* A step that changes neither what the screens are nor when they were opened.
LEMMA SameBuried ==
    ASSUME TypeOK, Buried, UNCHANGED outs, stack' \in Seq(Screen), Len(stack') = Len(stack),
           \A j \in 1 .. Len(stack) :
               stack'[j].kind = stack[j].kind /\ stack'[j].since = stack[j].since
    PROVE  Buried'
<1>1. DOMAIN stack' = 1 .. Len(stack) /\ DOMAIN stack = 1 .. Len(stack)
  BY LenProperties, StackShape
<1>2. ASSUME NEW k \in 1 .. Len(stack), stack'[k].kind = "Main", stack'[k].since # outs
      PROVE  \E j \in 1 .. Len(stack) : k < j /\ stack'[j].kind = "Welcome"
  <2>1. stack[k].kind = "Main" /\ stack[k].since # outs
    BY <1>2
  <2>2. PICK j \in 1 .. Len(stack) : k < j /\ stack[j].kind = "Welcome"
    BY ONLY <1>1, <2>1, k \in 1 .. Len(stack), Buried DEF Buried
  <2> QED BY <2>2
<1> QED BY <1>1, <1>2 DEF Buried

LEMMA NextBuried == TypeOK /\ Buried /\ [Next]_vars => Buried'
<1> SUFFICES ASSUME TypeOK, Buried, [Next]_vars PROVE Buried'
  OBVIOUS
<1>0. /\ stack \in Seq(Screen) /\ Len(stack) \in Nat /\ 1 <= Len(stack)
      /\ Len(stack) <= MaxDepth /\ DOMAIN stack = 1 .. Len(stack)
      /\ MaxDepth \in Nat /\ MaxOuts \in Nat /\ outs \in 0 .. MaxOuts
      /\ \A k \in 1 .. Len(stack) : stack[k] \in Screen
      /\ stack[Len(stack)] \in Screen
  BY StackShape
<1> USE <1>0
<1>1. CASE PrefsAnswer
  <2>1. New("Main") \in Screen /\ New("Main").since = outs
    BY NewType
  <2>2. stack' \in Seq(Screen) /\ Len(stack') = Len(stack) /\ DOMAIN stack' = 1 .. Len(stack)
    BY <1>1, <2>1, ExceptSeq, LenProperties DEF PrefsAnswer
  <2>3. /\ stack'[1] = stack[1] \/ stack'[1].since = outs
        /\ \A j \in 2 .. Len(stack) : stack'[j] = stack[j]
    BY <1>1, <2>1, ExceptSeq DEF PrefsAnswer
  <2>4. UNCHANGED outs
    BY <1>1 DEF PrefsAnswer
  <2> QED BY <2>2, <2>3, <2>4 DEF Buried
<1>2. CASE Restart
  <2>1. New("Welcome").kind = "Welcome"
    BY NewType
  <2>2. stack' = <<New("Welcome")>> /\ UNCHANGED outs
    BY <1>2 DEF Restart
  <2> QED BY <2>1, <2>2 DEF Buried
<1>3. CASE SignOut
  <2>1. /\ stack' \in Seq(Screen) /\ Len(stack') = Len(stack) + 1
        /\ stack'[Len(stack) + 1].kind = "Welcome"
    BY <1>3, SignOutShape
  <2>2. DOMAIN stack' = 1 .. Len(stack) + 1
    BY <2>1, LenProperties
  <2>3. ASSUME NEW k \in DOMAIN stack', stack'[k].kind = "Main" PROVE k < Len(stack) + 1
    BY <2>1, <2>2, <2>3
  <2> QED BY <2>1, <2>2, <2>3 DEF Buried
<1>4. CASE Back
  <2>1. Len(stack) > 1 /\ stack[Len(stack)].kind # "Welcome" /\ UNCHANGED outs
    BY <1>4 DEF Back, Top
  <2>2. /\ stack' \in Seq(Screen) /\ Len(stack') = Len(stack) - 1
        /\ \A k \in 1 .. Len(stack) - 1 : stack'[k] = stack[k]
    BY <1>4, <2>1, FrontShape DEF Back
  <2>3. DOMAIN stack' = 1 .. Len(stack) - 1
    BY <2>2, LenProperties
  <2>4. ASSUME NEW k \in 1 .. Len(stack) - 1, stack'[k].kind = "Main", stack'[k].since # outs
        PROVE  \E j \in 1 .. Len(stack) - 1 : k < j /\ stack'[j].kind = "Welcome"
    <3>0. k \in DOMAIN stack /\ stack[k].kind = "Main" /\ stack[k].since # outs
      <4>1. stack'[k] = stack[k]
        BY ONLY <2>2, k \in 1 .. Len(stack) - 1
      <4>2. k \in 1 .. Len(stack)
        BY ONLY Len(stack) \in Nat, k \in 1 .. Len(stack) - 1
      <4> QED BY ONLY <4>1, <4>2, <2>4, DOMAIN stack = 1 .. Len(stack)
    <3>1. PICK j \in 1 .. Len(stack) : k < j /\ stack[j].kind = "Welcome"
      BY ONLY <3>0, Buried, DOMAIN stack = 1 .. Len(stack) DEF Buried
    <3>2. j # Len(stack)
      BY <2>1, <3>1
    <3>3. \A n \in Nat : \A m \in 1 .. n : m # n => m \in 1 .. n - 1
      OBVIOUS
    <3>4. j \in 1 .. Len(stack) - 1
      BY ONLY Len(stack) \in Nat, j \in 1 .. Len(stack), <3>2, <3>3
    <3> QED BY <2>2, <3>1, <3>4
  <2> QED BY <2>1, <2>3, <2>4 DEF Buried
<1>5. ASSUME NEW kind \in {"Login", "Register"}, Open(kind) PROVE Buried'
  BY <1>5, PushBuried DEF Open
<1>6. ASSUME NEW here \in BOOLEAN, Discover(here) PROVE Buried'
  <2> DEFINE s == [stack[Len(stack)] EXCEPT !.picking = here]
  <2>1. s \in Screen /\ s.kind = stack[Len(stack)].kind /\ s.since = stack[Len(stack)].since
    BY ScreenFields
  <2>2. stack' = [stack EXCEPT ![Len(stack)] = s] /\ UNCHANGED outs
    BY <1>6 DEF Discover
  <2> QED BY <2>1, <2>2, FieldShape, SameBuried
<1>7. ASSUME NEW e \in Emails, Login(e) PROVE Buried'
  BY <1>7, PushBuried DEF Login
<1>8. ASSUME NEW k \in DOMAIN stack, Pick(k) PROVE Buried'
  BY <1>8, PushBuried DEF Pick
<1>9. ASSUME NEW k \in DOMAIN stack, ReadUser(k) PROVE Buried'
  <2> DEFINE s == [stack[k] EXCEPT !.user = auth]
  <2>1. s \in Screen /\ s.kind = stack[k].kind /\ s.since = stack[k].since
    BY ScreenFields DEF TypeOK
  <2>2. stack' = [stack EXCEPT ![k] = s] /\ UNCHANGED outs
    BY <1>9 DEF ReadUser
  <2> QED BY <2>1, <2>2, FieldShape, SameBuried
<1>10. ASSUME NEW p \in storing, Store(p) PROVE Buried'
  <2>1. CASE Push("Login")
    BY <1>10, <2>1, PushBuried DEF Store
  <2>2. CASE UNCHANGED stack
    BY <1>10, <2>2 DEF Store, Buried
  <2> QED BY <1>10, <2>1, <2>2 DEF Store
<1>11. CASE UNCHANGED <<stack, outs>>
  BY <1>11 DEF Buried
<1>12. ASSUME \/ \E e \in Emails : Register(e) \/ SignIn(e)
              \/ \E c \in creating : Create(c)
              \/ \E p \in handing : Accept(p)
              \/ \E p \in storing : Refuse(p)
              \/ UNCHANGED vars
       PROVE  UNCHANGED <<stack, outs>>
  BY <1>12 DEF Accept, Register, SignIn, Create, Refuse, vars
<1> QED BY <1>1, <1>2, <1>3, <1>4, <1>5, <1>6, <1>7, <1>8, <1>9, <1>10, <1>11, <1>12 DEF Next

\* No MainScreen from before the last sign-out comes to the top again: not by
\* Back, not by a late answer, a pick or the preferences.
THEOREM OldMainsAreBuried == Spec => []OldMainsStayBuried
<1>1. TypeOK /\ Buried => OldMainsStayBuried
  <2> SUFFICES ASSUME TypeOK, Buried, Top.kind = "Main", Top.since # outs PROVE FALSE
    BY DEF OldMainsStayBuried
  <2> QED BY StackShape DEF Buried, Top
<1> QED BY <1>1, InitType, NextType, InitBuried, NextBuried, PTL DEF Spec

-----------------------------------------------------------------------------
(* Registrations.                                                          *)

LEMMA NextRequests == TypeOK /\ RequestsHaveProfiles /\ [Next]_vars => RequestsHaveProfiles'
<1> SUFFICES ASSUME TypeOK, RequestsHaveProfiles, [Next]_vars, NEW e \in Asked' PROVE Backed(e)'
  BY DEF RequestsHaveProfiles
<1>1. CASE Restart
  <2>1. e \in Asked
    <3>1. creating \subseteq Request /\ UNCHANGED accounts
      BY <1>1 DEF Restart, TypeOK
    <3>2. creating' = {[c EXCEPT !.live = FALSE] : c \in creating}
      BY <1>1 DEF Restart
    <3>3. \A d \in creating' : \E c \in creating : d.email = c.email
      BY <3>1, <3>2, RequestFields
    <3> QED BY <3>1, <3>3 DEF Asked
  <2>2. ASSUME NEW p \in storing, p.email = e PROVE \E q \in Writes' : q.email = e
    BY <1>1, <2>2, OrphansShape, StackShape DEF Restart, TypeOK, Writes
  <2>3. ASSUME NEW p \in handing, p.email = e PROVE e \in cut'
    BY <1>1, <2>3 DEF Restart
  <2> QED BY <1>1, <2>1, <2>2, <2>3 DEF Restart, Backed, RequestsHaveProfiles, Writes
<1>2. CASE Back
  <2>1. e \in Asked
    BY <1>2 DEF Back, Asked
  <2>2. ASSUME NEW p \in Writes, p.email = e PROVE \E q \in Writes' : q.email = e
    BY <1>2, <2>2, AbandonedShape, StackShape DEF Back, TypeOK, Writes
  <2> QED BY <1>2, <2>1, <2>2 DEF Back, Backed, RequestsHaveProfiles
<1>3. ASSUME NEW a \in Emails, Register(a) PROVE Backed(e)'
  <2>1. CASE e \in Asked
    BY <1>3, <2>1 DEF Register, Backed, RequestsHaveProfiles, Writes
  <2>2. CASE e \notin Asked
    <3>1. e = a
      BY <1>3, <2>2 DEF Register, Asked
    <3>2. [email |-> e, form |-> Len(stack)] \in handing'
      BY <1>3, <3>1 DEF Register
    <3> QED BY <3>2 DEF Backed, Writes
  <2> QED BY <2>1, <2>2
<1>4. ASSUME NEW c \in creating, Create(c) PROVE Backed(e)'
  BY <1>4 DEF Create, Asked, Backed, RequestsHaveProfiles, Writes
<1>5. ASSUME NEW p \in storing, Store(p) \/ Refuse(p) PROVE Backed(e)'
  BY <1>5 DEF Store, Refuse, Asked, Backed, RequestsHaveProfiles, Writes
<1>6. CASE UNCHANGED <<accounts, creating, profiles, refused, handing, storing, cut>>
  BY <1>6 DEF Asked, Backed, RequestsHaveProfiles, Writes
<1>7. ASSUME \/ PrefsAnswer \/ SignOut
             \/ \E kind \in {"Login", "Register"} : Open(kind)
             \/ \E here \in BOOLEAN : Discover(here)
             \/ \E a \in Emails : Login(a) \/ SignIn(a)
             \/ \E k \in DOMAIN stack : Pick(k) \/ ReadUser(k)
             \/ UNCHANGED vars
      PROVE  UNCHANGED <<accounts, creating, profiles, refused, handing, storing, cut>>
  BY <1>7 DEF PrefsAnswer, SignOut, Open, Discover, Login, SignIn, Pick, ReadUser, vars
<1>8. ASSUME NEW p \in handing, Accept(p) PROVE Backed(e)'
  BY <1>8 DEF Accept, Asked, Backed, RequestsHaveProfiles, Writes
<1> QED BY <1>1, <1>2, <1>3, <1>4, <1>5, <1>6, <1>7, <1>8 DEF Next

\* An account without a profile has its write under way or refused, or a kill
\* came between its two requests: through kills, repeated and abandoned forms,
\* and answers in any order.
THEOREM ExplainsAccounts == Spec => []AccountsAreExplained
<1>1. Init => RequestsHaveProfiles
  BY DEF Init, RequestsHaveProfiles, Asked
<1>2. RequestsHaveProfiles => AccountsAreExplained
  BY DEF RequestsHaveProfiles, Asked, Backed, AccountsAreExplained
<1> QED BY <1>1, <1>2, InitType, NextType, NextRequests, PTL DEF Spec

-----------------------------------------------------------------------------
(* Late replies.                                                           *)

\* The user signs out only when every sign-in has been answered.
SignOutsWait == [][outs' # outs => signing = {}]_vars

\* While sign-ins are unanswered, Login was the last to say who is in.
LoginCounts ==
    /\ signing # {} => flag \/ logged
    /\ logged => loading

LEMMA NextLoginCounts ==
    TypeOK /\ LoginCounts /\ [Next]_vars /\ [outs' # outs => signing = {}]_vars => LoginCounts'
<1> SUFFICES ASSUME TypeOK, LoginCounts, [Next]_vars, [outs' # outs => signing = {}]_vars
             PROVE  LoginCounts'
  OBVIOUS
<1>1. CASE PrefsAnswer
  BY <1>1 DEF PrefsAnswer, LoginCounts
<1>2. CASE Restart
  BY <1>2 DEF Restart, LoginCounts
<1>3. CASE SignOut
  <2>1. outs' # outs
    BY <1>3, StackShape DEF SignOut
  <2>2. signing = {}
    BY <2>1 DEF vars
  <2>3. ~loading /\ UNCHANGED <<signing, loading, logged>>
    BY <1>3 DEF SignOut
  <2> QED BY <2>2, <2>3 DEF LoginCounts
<1>4. ASSUME NEW e \in Emails, Login(e) PROVE LoginCounts'
  <2>1. CASE loading
    BY <1>4, <2>1 DEF Login, LoginCounts
  <2>2. CASE ~loading
    BY <1>4, <2>2 DEF Login, LoginCounts
  <2> QED BY <2>1, <2>2
<1>5. ASSUME NEW e \in Emails, SignIn(e) PROVE LoginCounts'
  <2>1. signing # {} /\ UNCHANGED <<flag, loading, logged>>
    BY <1>5 DEF SignIn
  <2> QED BY <2>1 DEF LoginCounts
<1>6. CASE UNCHANGED <<flag, signing, loading, logged>>
  BY <1>6 DEF LoginCounts
<1>7. ASSUME \/ Back
             \/ \E kind \in {"Login", "Register"} : Open(kind)
             \/ \E here \in BOOLEAN : Discover(here)
             \/ \E a \in Emails : Register(a)
             \/ \E c \in creating : Create(c)
             \/ \E k \in DOMAIN stack : Pick(k) \/ ReadUser(k)
             \/ \E p \in handing : Accept(p)
             \/ \E p \in storing : Store(p) \/ Refuse(p)
             \/ UNCHANGED vars
      PROVE  UNCHANGED <<flag, signing, loading, logged>>
  BY <1>7 DEF Accept, Back, Open, Discover, Register, Create, Pick, ReadUser, Store, Refuse, vars
<1> QED BY <1>1, <1>2, <1>3, <1>4, <1>5, <1>6, <1>7 DEF Next

\* Only a reply that was still outstanding at a sign-out can sign in a user who
\* has not pressed Login since: over any stack, with kills and slow preferences.
THEOREM OnlyLateRepliesSignIn == Spec /\ SignOutsWait => SignedOutStaysSignedOut
<1>1. Init => LoginCounts
  BY DEF Init, LoginCounts
<1>2. LoginCounts /\ [Next]_vars =>
        [auth' \notin {auth, Nobody} /\ UNCHANGED creating => flag \/ logged]_vars
  <2> SUFFICES ASSUME LoginCounts, [Next]_vars, auth' \notin {auth, Nobody}, UNCHANGED creating
               PROVE  flag \/ logged
    OBVIOUS
  <2>1. (\E e \in Emails : SignIn(e)) \/ (\E c \in creating : Create(c))
    BY DEF Next, vars, PrefsAnswer, Restart, SignOut, Back, Open, Discover, Login, Register,
           Pick, ReadUser, Accept, Store, Refuse
  <2>2. signing # {}
    <3>1. ASSUME NEW c \in creating, Create(c) PROVE FALSE
      BY <3>1 DEF Create
    <3> QED BY <2>1, <3>1 DEF SignIn
  <2> QED BY <2>2 DEF LoginCounts
<1> QED BY <1>1, <1>2, InitType, NextType, NextLoginCounts, PTL
        DEF Spec, SignOutsWait, SignedOutStaysSignedOut

-----------------------------------------------------------------------------
(* Forms.                                                                  *)

\* A form that is awaited is still where its write was sent from.  (The home
\* route is no form: the preferences may replace it.)
FormsAreThere ==
    \A p \in Writes : p.form > 0 => p.form \in DOMAIN stack /\ stack[p.form].kind = "Register"
HomeIsNoForm == stack[1].kind \in {"Welcome", "Main"}

LEMMA PushForms ==
    ASSUME TypeOK, FormsAreThere, HomeIsNoForm,
           NEW kind \in {"Welcome", "Login", "Register", "Main"}, Push(kind), Writes' \subseteq Writes
    PROVE  FormsAreThere' /\ HomeIsNoForm'
<1>1. /\ stack' \in Seq(Screen) /\ Len(stack') = Len(stack) + 1
      /\ \A k \in 1 .. Len(stack) : stack'[k] = stack[k]
  BY PushShape
<1>2. DOMAIN stack' = 1 .. Len(stack) + 1
  BY <1>1, LenProperties
<1> QED BY <1>1, <1>2, StackShape DEF FormsAreThere, HomeIsNoForm

\* Screens keep their kinds but for the home route, which is no form.
LEMMA SameForms ==
    ASSUME TypeOK, FormsAreThere, HomeIsNoForm, Writes' \subseteq Writes,
           stack' \in Seq(Screen), Len(stack') = Len(stack),
           \A k \in 2 .. Len(stack) : stack'[k].kind = stack[k].kind,
           stack'[1].kind \in {"Welcome", "Main"}
    PROVE  FormsAreThere' /\ HomeIsNoForm'
<1>1. DOMAIN stack' = 1 .. Len(stack) /\ DOMAIN stack = 1 .. Len(stack) /\ Len(stack) \in Nat
  BY LenProperties, StackShape
<1>2. ASSUME NEW p \in Writes', p.form > 0
      PROVE  p.form \in DOMAIN stack' /\ stack'[p.form].kind = "Register"
  <2>1. p.form \in 1 .. Len(stack) /\ stack[p.form].kind = "Register"
    BY <1>1, <1>2 DEF FormsAreThere
  <2>2. p.form # 1
    BY <2>1 DEF HomeIsNoForm
  <2>3. p.form \in 2 .. Len(stack)
    BY <1>1, <2>1, <2>2
  <2> QED BY <1>1, <2>1, <2>3
<1> QED BY <1>2 DEF FormsAreThere, HomeIsNoForm

LEMMA NextForms ==
    TypeOK /\ FormsAreThere /\ HomeIsNoForm /\ [Next]_vars => FormsAreThere' /\ HomeIsNoForm'
<1> SUFFICES ASSUME TypeOK, FormsAreThere, HomeIsNoForm, [Next]_vars
             PROVE  FormsAreThere' /\ HomeIsNoForm'
  OBVIOUS
<1>0. /\ stack \in Seq(Screen) /\ Len(stack) \in Nat /\ 1 <= Len(stack)
      /\ DOMAIN stack = 1 .. Len(stack) /\ MaxDepth \in Nat
      /\ \A k \in 1 .. Len(stack) : stack[k] \in Screen
      /\ stack[Len(stack)] \in Screen
  BY StackShape
<1> USE <1>0
<1>1. CASE PrefsAnswer
  <2>1. New("Main") \in Screen /\ New("Main").kind = "Main"
    BY NewType
  <2>2. /\ stack' \in Seq(Screen) /\ Len(stack') = Len(stack)
        /\ \A k \in 2 .. Len(stack) : stack'[k] = stack[k]
        /\ stack'[1] = stack[1] \/ stack'[1] = New("Main")
    BY <1>1, <2>1, ExceptSeq DEF PrefsAnswer
  <2>3. stack'[1].kind \in {"Welcome", "Main"} /\ Writes' \subseteq Writes
    BY <1>1, <2>1, <2>2 DEF HomeIsNoForm, PrefsAnswer, Writes
  <2> QED BY <2>2, <2>3, SameForms
<1>2. CASE Restart
  <2>1. stack'[1].kind = "Welcome"
    <3>1. New("Welcome").kind = "Welcome"
      BY NewType
    <3> QED BY <1>2, <3>1 DEF Restart
  <2>2. \A p \in Writes' : p.form = 0
    BY <1>2, OrphansShape DEF Restart, TypeOK, Writes
  <2> QED BY <2>1, <2>2 DEF FormsAreThere, HomeIsNoForm
<1>3. CASE SignOut
  <2>1. /\ stack' \in Seq(Screen) /\ Len(stack') = Len(stack) + 1
        /\ Writes' = Writes
    BY <1>3, SignOutShape DEF SignOut, Writes
  <2>2. DOMAIN stack' = 1 .. Len(stack) + 1
    BY <2>1, LenProperties
  <2> DEFINE top == [stack[Len(stack)] EXCEPT !.picking = FALSE]
             old == [stack EXCEPT ![Len(stack)] = top]
  <2>3. top \in Screen /\ top.kind = stack[Len(stack)].kind
    BY ScreenFields
  <2>4. /\ old \in Seq(Screen) /\ Len(old) = Len(stack)
        /\ \A k \in 1 .. Len(stack) : old[k].kind = stack[k].kind
    BY <2>3, ExceptSeq
  <2>5. \A k \in 1 .. Len(stack) : stack'[k] = old[k]
    <3>1. stack' = Append(old, [New("Welcome") EXCEPT !.since = outs + 1])
      BY <1>3 DEF SignOut
    <3> HIDE DEF old
    <3> QED BY <2>4, <3>1
  <2>6. \A k \in 1 .. Len(stack) : stack'[k].kind = stack[k].kind
    BY <2>4, <2>5
  <2>7. 1 \in 1 .. Len(stack) /\ \A k \in 1 .. Len(stack) : k \in 1 .. Len(stack) + 1
    OBVIOUS
  <2> QED BY <2>1, <2>2, <2>6, <2>7 DEF FormsAreThere, HomeIsNoForm
<1>4. CASE Back
  <2>1. /\ Len(stack) > 1 /\ stack' = Front(stack)
        /\ \A q \in Writes' : q.form > 0 => q \in Writes /\ q.form # Len(stack)
    BY <1>4, AbandonedShape DEF Back, TypeOK, Writes
  <2>2. /\ stack' \in Seq(Screen) /\ Len(stack') = Len(stack) - 1
        /\ \A k \in 1 .. Len(stack) - 1 : stack'[k] = stack[k]
    BY <2>1, FrontShape
  <2>3. DOMAIN stack' = 1 .. Len(stack) - 1 /\ 1 \in 1 .. Len(stack) - 1
    BY <2>1, <2>2, LenProperties
  <2>4. ASSUME NEW q \in Writes', q.form > 0
        PROVE  q.form \in DOMAIN stack' /\ stack'[q.form].kind = "Register"
    <3>1. q \in Writes /\ q.form # Len(stack)
      BY <2>1, <2>4
    <3>2. q.form \in 1 .. Len(stack) /\ stack[q.form].kind = "Register"
      BY <2>4, <3>1 DEF FormsAreThere
    <3>3. q.form \in 1 .. Len(stack) - 1
      BY <3>1, <3>2
    <3> QED BY <2>2, <2>3, <3>2, <3>3
  <2> QED BY <2>2, <2>3, <2>4 DEF FormsAreThere, HomeIsNoForm
<1>5. ASSUME NEW kind \in {"Login", "Register"}, Open(kind) PROVE FormsAreThere' /\ HomeIsNoForm'
  BY <1>5, PushForms DEF Open, Writes
<1>6. ASSUME NEW here \in BOOLEAN, Discover(here) PROVE FormsAreThere' /\ HomeIsNoForm'
  <2> DEFINE s == [stack[Len(stack)] EXCEPT !.picking = here]
  <2>1. s \in Screen /\ s.kind = stack[Len(stack)].kind /\ s.since = stack[Len(stack)].since
    BY ScreenFields
  <2>2. stack' = [stack EXCEPT ![Len(stack)] = s] /\ Writes' = Writes
    BY <1>6 DEF Discover, Writes
  <2>3. /\ stack' \in Seq(Screen) /\ Len(stack') = Len(stack)
        /\ \A j \in 1 .. Len(stack) : stack'[j].kind = stack[j].kind
    BY <2>1, <2>2, FieldShape
  <2> QED BY <2>2, <2>3, SameForms DEF HomeIsNoForm
<1>7. ASSUME NEW e \in Emails, Login(e) PROVE FormsAreThere' /\ HomeIsNoForm'
  BY <1>7, PushForms DEF Login, Writes
<1>8. ASSUME NEW e \in Emails, Register(e) PROVE FormsAreThere' /\ HomeIsNoForm'
  <2>1. /\ stack' = stack /\ stack[Len(stack)].kind = "Register"
        /\ Writes' = Writes \union {[email |-> e, form |-> Len(stack)]}
    BY <1>8 DEF Register, Top, Writes
  <2>2. Len(stack) \in DOMAIN stack
    OBVIOUS
  <2> QED BY <2>1, <2>2 DEF FormsAreThere, HomeIsNoForm
<1>9. ASSUME NEW k \in DOMAIN stack, Pick(k) PROVE FormsAreThere' /\ HomeIsNoForm'
  BY <1>9, PushForms DEF Pick, Writes
<1>10. ASSUME NEW k \in DOMAIN stack, ReadUser(k) PROVE FormsAreThere' /\ HomeIsNoForm'
  <2> DEFINE s == [stack[k] EXCEPT !.user = auth]
  <2>1. s \in Screen /\ s.kind = stack[k].kind /\ s.since = stack[k].since
    BY ScreenFields DEF TypeOK
  <2>2. stack' = [stack EXCEPT ![k] = s] /\ Writes' = Writes
    BY <1>10 DEF ReadUser, Writes
  <2>3. /\ stack' \in Seq(Screen) /\ Len(stack') = Len(stack)
        /\ \A j \in 1 .. Len(stack) : stack'[j].kind = stack[j].kind
    BY <2>1, <2>2, FieldShape
  <2> QED BY <2>2, <2>3, SameForms DEF HomeIsNoForm
<1>11. ASSUME NEW p \in storing, Store(p) PROVE FormsAreThere' /\ HomeIsNoForm'
  <2>1. Writes' \subseteq Writes
    BY <1>11 DEF Store, Writes
  <2>2. CASE Push("Login")
    BY <2>1, <2>2, PushForms
  <2>3. CASE UNCHANGED stack
    BY <2>1, <2>3 DEF FormsAreThere, HomeIsNoForm
  <2> QED BY <1>11, <2>2, <2>3 DEF Store
<1>12. ASSUME UNCHANGED stack, Writes' \subseteq Writes PROVE FormsAreThere' /\ HomeIsNoForm'
  BY <1>12 DEF FormsAreThere, HomeIsNoForm
<1>13. ASSUME \/ \E e \in Emails : SignIn(e)
              \/ \E c \in creating : Create(c)
              \/ \E p \in handing : Accept(p)
              \/ \E p \in storing : Refuse(p)
              \/ UNCHANGED vars
       PROVE  UNCHANGED stack /\ Writes' \subseteq Writes
  BY <1>13 DEF SignIn, Create, Accept, Refuse, vars, Writes
<1> QED BY <1>1, <1>2, <1>3, <1>4, <1>5, <1>6, <1>7, <1>8, <1>9, <1>10, <1>11, <1>12, <1>13 DEF Next

\* onPressed of Register resumes only while its form is on the stack, and in
\* place: a stored profile opens Login for no form that was left, replaced by
\* another screen or lost with the process.
THEOREM OnlyLiveFormsResume == Spec => []FormsAreThere
<1>1. Init => FormsAreThere /\ HomeIsNoForm
  BY DEF Init, FormsAreThere, HomeIsNoForm, Writes
<1> QED BY <1>1, InitType, NextType, NextForms, PTL DEF Spec
=============================================================================
