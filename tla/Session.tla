------------------------------- MODULE Session -------------------------------
(***************************************************************************)
(* One device's session: the login flag in the preferences, the account    *)
(* Firebase has signed in, and the stack of screens.  Neither Login nor    *)
(* Register waits for Firebase Auth, so replies arrive under any screen.   *)
(***************************************************************************)
EXTENDS Naturals, Sequences, SequencesExt

CONSTANTS
    Emails,     \* what is typed into the forms
    Nobody,     \* no account: the null FirebaseUser
    Unread,     \* a MainScreen's user before currentUser has answered
    MaxDepth,   \* bound: screens on the stack
    MaxOuts     \* bound: sign-outs

ASSUME Sentinels == Nobody \notin Emails /\ Unread \notin Emails /\ Nobody # Unread
ASSUME BoundsAreNat == MaxDepth \in Nat \ {0} /\ MaxOuts \in Nat

\* A route.  user and picking belong to a MainScreen: the user it read, and
\* whether its Discover tab is open with a live subscription.  since: how many
\* sign-outs had happened when it was opened.
Screen == [kind : {"Welcome", "Login", "Register", "Main"},
           user : Emails \union {Nobody, Unread}, picking : BOOLEAN, since : 0 .. MaxOuts]

\* A profile write: the e-mail address, and the place on the stack of the form
\* that awaits it, 0 once that form is gone.
Profile == [email : Emails, form : 0 .. MaxDepth]

\* A createUser request; live: the process that sent it still runs.
Request == [email : Emails, live : BOOLEAN]

VARIABLES
    accounts,   \* server: the accounts of Firebase Auth
    profiles,   \* server: the User documents
    refused,    \* server: the addresses whose profile it has refused
    auth,       \* device, durable: the account signed in
    flag,       \* device, durable: isLoggedIn; no value counts as FALSE
    handing,    \* device: profile writes handed to the client and not stored yet
    storing,    \* device, durable: profile writes the server has not answered
    cut,        \* history: the addresses whose hand-over a kill has ended
    creating,   \* createUser requests the server has not answered
    signing,    \* device: signIn requests without a reply
    loading,    \* device: SharedPreferences.getInstance has not answered yet
    logged,     \* device: a setLoginPrefs waits behind getPrefs for the same answer
    stack,      \* device: the Navigator's routes, the top one last
    outs        \* sign-outs so far

vars == <<accounts, profiles, refused, auth, flag, handing, storing, cut,
          creating, signing, loading, logged, stack, outs>>

\* The profile writes under way on the device.
Writes == handing \union storing

\* What a set of writes becomes when its form on place k is gone; when all are.
Abandoned(writes, k) == {IF p.form = k THEN [p EXCEPT !.form = 0] ELSE p : p \in writes}
Orphans(writes) == {[p EXCEPT !.form = 0] : p \in writes}

New(kind) == [kind |-> kind, user |-> Unread, picking |-> FALSE, since |-> outs]
Top == stack[Len(stack)]
Push(kind) == Len(stack) < MaxDepth /\ stack' = Append(stack, New(kind))

TypeOK ==
    /\ accounts \subseteq Emails /\ profiles \subseteq Emails /\ refused \subseteq Emails
    /\ auth \in Emails \union {Nobody} /\ flag \in BOOLEAN
    /\ handing \subseteq Profile /\ storing \subseteq Profile /\ cut \subseteq Emails
    /\ creating \subseteq Request /\ signing \subseteq Emails
    /\ loading \in BOOLEAN /\ logged \in BOOLEAN
    /\ stack \in Seq(Screen) /\ Len(stack) \in 1 .. MaxDepth
    /\ outs \in 0 .. MaxOuts

\* The app's first start: it shows Welcome until the preferences answer.
Init ==
    /\ accounts = {} /\ profiles = {} /\ refused = {} /\ auth = Nobody /\ flag = FALSE
    /\ handing = {} /\ storing = {} /\ cut = {} /\ creating = {} /\ signing = {}
    /\ loading = TRUE /\ logged = FALSE /\ outs = 0
    /\ stack = <<[kind |-> "Welcome", user |-> Unread, picking |-> FALSE, since |-> 0]>>

-----------------------------------------------------------------------------
(* Starting.                                                               *)

\* The preferences answer: the home route becomes a MainScreen if the flag is
\* set, whatever has been pushed over it.  Only then can Login set the flag.
PrefsAnswer ==
    /\ loading
    /\ loading' = FALSE /\ logged' = FALSE
    /\ stack' = IF flag THEN [stack EXCEPT ![1] = New("Main")] ELSE stack
    /\ flag' = (flag \/ logged)
    /\ UNCHANGED <<accounts, profiles, refused, auth, handing, storing, cut,
                   creating, signing, outs>>

RestartDropsWrites ==  \* mutant: profile writes are not durable
    /\ stack' = <<New("Welcome")>> /\ loading' = TRUE /\ logged' = FALSE
    /\ handing' = {} /\ storing' = {} /\ creating' = {} /\ signing' = {}
    /\ cut' = cut \union {p.email : p \in handing}
    /\ UNCHANGED <<accounts, profiles, refused, auth, flag, outs>>

\* The process is killed and started again.  Replies to what it asked of
\* Firebase Auth are lost, and so are the profile writes the client has not
\* stored; the stored ones are sent again.
Restart ==
    /\ stack' = <<New("Welcome")>> /\ loading' = TRUE /\ logged' = FALSE
    /\ handing' = {}
    /\ cut' = cut \union {p.email : p \in handing}
    /\ storing' = Orphans(storing)
    /\ creating' = {[c EXCEPT !.live = FALSE] : c \in creating}
    /\ signing' = {}
    /\ UNCHANGED <<accounts, profiles, refused, auth, flag, outs>>

-----------------------------------------------------------------------------
(* The screens.                                                            *)

\* Welcome's two buttons.
Open(kind) ==
    /\ Top.kind = "Welcome"
    /\ Push(kind)
    /\ UNCHANGED <<accounts, profiles, refused, auth, flag, handing, storing, cut,
                   creating, signing, loading, logged, outs>>

\* Login asks for the sign-in, sets the flag and opens a MainScreen, all
\* without waiting for an answer.
Login(e) ==
    /\ Top.kind = "Login"
    /\ signing' = signing \union {e}
    /\ IF loading THEN logged' = TRUE /\ UNCHANGED flag
                  ELSE flag' = TRUE /\ UNCHANGED logged
    /\ Push("Main")
    /\ UNCHANGED <<accounts, profiles, refused, auth, handing, storing, cut,
                   creating, loading, outs>>

\* Register, with no field left untouched: the account is asked for, and
\* without waiting for the answer the profile is handed over; only the profile
\* is awaited.
Register(e) ==
    /\ Top.kind = "Register"
    /\ creating' = creating \union {[email |-> e, live |-> TRUE]}
    /\ handing' = handing \union {[email |-> e, form |-> Len(stack)]}
    /\ UNCHANGED <<accounts, profiles, refused, auth, flag, storing, cut, signing,
                   loading, logged, stack, outs>>

\* The Firestore client, on a thread of its own, stores the profile's write on
\* the device.  The account may be there by then, and the process may be gone.
Accept(p) ==
    /\ p \in handing
    /\ handing' = handing \ {p}
    /\ storing' = storing \union {p}
    /\ UNCHANGED <<accounts, profiles, refused, auth, flag, cut, creating, signing,
                   loading, logged, stack, outs>>

\* Main's fourth tab: once the preferences are there, flag and account are
\* cleared and Welcome is pushed; the Discover tab, if it was shown, is gone.
SignOut ==
    /\ Top.kind = "Main" /\ ~loading
    /\ outs < MaxOuts /\ outs' = outs + 1
    /\ flag' = FALSE /\ auth' = Nobody
    /\ Len(stack) < MaxDepth
    /\ stack' = Append([stack EXCEPT ![Len(stack)].picking = FALSE],
                       [New("Welcome") EXCEPT !.since = outs + 1])
    /\ UNCHANGED <<accounts, profiles, refused, handing, storing, cut, creating,
                   signing, loading, logged>>

BackUnguarded ==  \* mutant: Welcome lets Back through
    /\ Len(stack) > 1
    /\ stack' = Front(stack)
    /\ handing' = Abandoned(handing, Len(stack))
    /\ storing' = Abandoned(storing, Len(stack))
    /\ UNCHANGED <<accounts, profiles, refused, auth, flag, cut, creating, signing,
                   loading, logged, outs>>

BackToNothing ==  \* mutant: the last route is popped too
    /\ Top.kind # "Welcome"
    /\ stack' = Front(stack)
    /\ UNCHANGED <<accounts, profiles, refused, auth, flag, handing, storing, cut,
                   creating, signing, loading, logged, outs>>

\* Back disposes of the top screen.  Welcome's WillPopScope refuses.
Back ==
    /\ Top.kind # "Welcome"
    /\ Len(stack) > 1
    /\ stack' = Front(stack)
    /\ handing' = Abandoned(handing, Len(stack))
    /\ storing' = Abandoned(storing, Len(stack))
    /\ UNCHANGED <<accounts, profiles, refused, auth, flag, cut, creating, signing,
                   loading, logged, outs>>

\* A MainScreen's Discover tab is opened and its button pressed, or is left.
Discover(here) ==
    /\ Top.kind = "Main"
    /\ stack' = [stack EXCEPT ![Len(stack)].picking = here]
    /\ UNCHANGED <<accounts, profiles, refused, auth, flag, handing, storing, cut,
                   creating, signing, loading, logged, outs>>

\* A subscription has a pick: over whatever is on top, a MainScreen.  (With no
\* user the tap that subscribes throws.)
Pick(k) ==
    /\ stack[k].picking /\ stack[k].user \in Emails
    /\ Push("Main")
    /\ UNCHANGED <<accounts, profiles, refused, auth, flag, handing, storing, cut,
                   creating, signing, loading, logged, outs>>

\* currentUser answers a MainScreen, once.
ReadUser(k) ==
    /\ stack[k].kind = "Main" /\ stack[k].user = Unread
    /\ stack' = [stack EXCEPT ![k].user = auth]
    /\ UNCHANGED <<accounts, profiles, refused, auth, flag, handing, storing, cut,
                   creating, signing, loading, logged, outs>>

-----------------------------------------------------------------------------
(* The replies of Firebase.                                                *)

\* The server makes the account, or refuses: it exists, or is malformed.  A
\* new account is signed in where it was asked for.
Create(c) ==
    /\ c \in creating
    /\ creating' = creating \ {c}
    /\ \/ UNCHANGED <<accounts, auth>>
       \/ /\ c.email \notin accounts
          /\ accounts' = accounts \union {c.email}
          /\ auth' = IF c.live THEN c.email ELSE auth
    /\ UNCHANGED <<profiles, refused, flag, handing, storing, cut, signing,
                   loading, logged, stack, outs>>

\* A sign-in succeeds or fails, whenever.
SignIn(e) ==
    /\ e \in signing
    /\ signing' = signing \ {e}
    /\ auth' \in {auth} \union ({e} \intersect accounts)
    /\ UNCHANGED <<accounts, profiles, refused, flag, handing, storing, cut,
                   creating, loading, logged, stack, outs>>

\* The profile is stored; the form that awaited it, if it is still there,
\* opens Login over whatever is on top.
Store(p) ==
    /\ p \in storing
    /\ storing' = storing \ {p}
    /\ profiles' = profiles \union {p.email}
    /\ IF p.form > 0 THEN Push("Login") ELSE UNCHANGED stack
    /\ UNCHANGED <<accounts, refused, auth, flag, handing, cut, creating,
                   signing, loading, logged, outs>>

\* The profile's write fails, refused or (see GivesUpTheRefused in
\* WritePipeline) applied all the same: nothing is opened, nobody is told.
Refuse(p) ==
    /\ p \in storing
    /\ storing' = storing \ {p}
    /\ \/ refused' = refused \union {p.email} /\ UNCHANGED profiles
       \/ profiles' = profiles \union {p.email} /\ UNCHANGED refused
    /\ UNCHANGED <<accounts, auth, flag, handing, cut, creating, signing,
                   loading, logged, stack, outs>>

Next ==
    \/ PrefsAnswer \/ Restart \/ SignOut \/ Back
    \/ \E kind \in {"Login", "Register"} : Open(kind)
    \/ \E here \in BOOLEAN : Discover(here)
    \/ \E e \in Emails : Login(e) \/ Register(e) \/ SignIn(e)
    \/ \E c \in creating : Create(c)
    \/ \E k \in DOMAIN stack : Pick(k) \/ ReadUser(k)
    \/ \E p \in handing : Accept(p)
    \/ \E p \in storing : Store(p) \/ Refuse(p)

Spec == Init /\ [][Next]_vars

-----------------------------------------------------------------------------
(* Properties.                                                             *)

\* Signing out closes what was open: no MainScreen from before the last
\* sign-out comes to the top again, by Back, by a late answer or by a pick.
OldMainsStayBuried == Top.kind = "Main" => Top.since = outs

\* An account without a profile is explained: its write is under way, or was
\* refused, or a kill ended a Register of that address between the account's
\* request and the profile's storing.  No form left early, no repeated Register
\* and no kill after the storing leaves one.
AccountsAreExplained ==
    \A e \in accounts :
        e \in profiles \union refused \union cut \/ \E p \in Writes : p.email = e

\* "user signed out": until Login is pressed again, no sign-in takes effect.
\* (A new account is signed in without Login; creating tells it apart.)
SignedOutStaysSignedOut ==
    [][auth' \notin {auth, Nobody} /\ UNCHANGED creating => flag \/ logged]_vars
=============================================================================
