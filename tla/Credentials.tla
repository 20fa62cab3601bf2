----------------------------- MODULE Credentials -----------------------------
(***************************************************************************)
(* Whose token a stream of the Firestore client carries.  Firebase Auth    *)
(* changes its user on a queue of its own and posts the news to the main   *)
(* queue; the credentials provider hears of it there and puts the change   *)
(* on the client's worker queue; the stream asks the provider for a token, *)
(* which comes back by the main and the worker queue.  Meanwhile the       *)
(* stream may be stopped, broken and started again.                        *)
(***************************************************************************)
EXTENDS Naturals, Sequences

CONSTANTS
    Users,      \* who may be signed in, "nobody" being one of them
    Aborted,    \* the token's place in a failed answer
    MaxChanges, \* bound: changes of Firebase Auth's user or token
    MaxBreaks   \* bound: streams broken and tokens that could not be had

ASSUME AbortedIsNoUser == Aborted \notin Users
ASSUME BoundsAreNat == MaxChanges \in Nat /\ MaxBreaks \in Nat

\* An answer to a request for a token: closes and counter are close_count_ and
\* token_counter when it was made, owner the user whose token it is.
News == [news : Users]
Answer == [closes : Nat, counter : Nat, owner : Users \union {Aborted}]

VARIABLES
    auth,       \* Firebase Auth: _currentUser
    asked,      \* Firebase Auth: requests its work queue has not run
    fetching,   \* Firebase Auth: answers on their way
    main,       \* the main queue: news of a change, answers
    counter,    \* provider: token_counter
    worker,     \* the worker queue: news of a change, answers
    user,       \* client: current_user_
    state,      \* stream: state_
    closes,     \* stream: close_count_
    owner,      \* stream: whose token the open call carries
    changes, breaks \* counts, for the bounds

vars == <<auth, asked, fetching, main, counter, worker, user, state, closes, owner, changes, breaks>>

TypeOK ==
    /\ auth \in Users /\ user \in Users /\ owner \in Users
    /\ asked \subseteq [closes : Nat, counter : Nat] /\ fetching \subseteq Answer
    /\ main \in Seq(News \union Answer) /\ worker \in Seq(News \union Answer)
    /\ counter \in Nat /\ closes \in Nat
    /\ state \in {"Starting", "Backoff", "Open"}
    /\ changes \in 0 .. MaxChanges /\ breaks \in 0 .. MaxBreaks

\* A stream that is needed from the start, for the user the client was made
\* with.
Init ==
    /\ auth \in Users /\ user = auth /\ owner = auth
    /\ asked = {[closes |-> 0, counter |-> 0]} /\ fetching = {}
    /\ main = << >> /\ worker = << >> /\ counter = 0
    /\ state = "Starting" /\ closes = 0
    /\ changes = 0 /\ breaks = 0

IsNews(m) == "news" \in DOMAIN m

-----------------------------------------------------------------------------
(* Firebase Auth's work queue.                                             *)

AuthChangesUnannounced(u) ==  \* mutant: the change is not posted
    /\ changes < MaxChanges /\ changes' = changes + 1
    /\ auth' = u
    /\ UNCHANGED main
    /\ UNCHANGED <<asked, fetching, counter, worker, user, state, closes, owner, breaks>>

\* The user, or the same user's token, changes, and the news is posted.
AuthChanges(u) ==
    /\ changes < MaxChanges /\ changes' = changes + 1
    /\ auth' = u
    /\ main' = Append(main, [news |-> u])
    /\ UNCHANGED <<asked, fetching, counter, worker, user, state, closes, owner, breaks>>

\* A request takes the user there is when it is run ...
Fetch(r) ==
    /\ r \in asked
    /\ asked' = asked \ {r}
    /\ fetching' = fetching \union {[closes |-> r.closes, counter |-> r.counter, owner |-> auth]}
    /\ UNCHANGED <<auth, main, counter, worker, user, state, closes, owner, changes, breaks>>

\* ... and the answer is posted to the main queue, later if the token had to
\* be refreshed, which may fail.
Fetched(a) ==
    /\ a \in fetching
    /\ fetching' = fetching \ {a}
    /\ \/ main' = Append(main, a) /\ UNCHANGED breaks
       \/ /\ breaks < MaxBreaks /\ breaks' = breaks + 1
          /\ main' = Append(main, [a EXCEPT !.owner = Aborted])
    /\ UNCHANGED <<auth, asked, counter, worker, user, state, closes, owner, changes>>

-----------------------------------------------------------------------------
(* The main queue: the credentials provider.                               *)

\* The listener counts the change and passes it on.
Hear ==
    /\ main # << >> /\ IsNews(Head(main))
    /\ main' = Tail(main)
    /\ counter' = counter + 1
    /\ worker' = Append(worker, Head(main))
    /\ UNCHANGED <<auth, asked, fetching, user, state, closes, owner, changes, breaks>>

\* GetToken's callback: an answer from before a change is not passed on.
Return ==
    /\ main # << >> /\ ~IsNews(Head(main))
    /\ main' = Tail(main)
    /\ worker' = Append(worker, IF Head(main).counter = counter THEN Head(main)
                                ELSE [Head(main) EXCEPT !.owner = Aborted])
    /\ UNCHANGED <<auth, asked, fetching, counter, user, state, closes, owner, changes, breaks>>

-----------------------------------------------------------------------------
(* The worker queue: the client.                                           *)

\* Stream::RequestCredentials, with c as close_count_.
Ask(c) ==
    /\ state' = "Starting"
    /\ asked' = asked \union {[closes |-> c, counter |-> counter]}

ChangeAsksFirst ==  \* mutant: the token is asked for before the stream is stopped
    /\ worker # << >> /\ IsNews(Head(worker))
    /\ worker' = Tail(worker)
    /\ user' = Head(worker).news
    /\ closes' = closes + 1
    /\ Ask(closes)
    /\ UNCHANGED <<auth, fetching, main, counter, owner, changes, breaks>>

ChangeKeepsOpen ==  \* mutant: only a stream that is still starting is restarted
    /\ worker # << >> /\ IsNews(Head(worker))
    /\ worker' = Tail(worker)
    /\ user' = Head(worker).news
    /\ IF state = "Open" THEN UNCHANGED <<asked, state, closes>>
       ELSE closes' = closes + 1 /\ Ask(closes + 1)
    /\ UNCHANGED <<auth, fetching, main, counter, owner, changes, breaks>>

\* HandleCredentialChange: the stream is stopped and started.
Change ==
    /\ worker # << >> /\ IsNews(Head(worker))
    /\ worker' = Tail(worker)
    /\ user' = Head(worker).news
    /\ closes' = closes + 1
    /\ Ask(closes + 1)
    /\ UNCHANGED <<auth, fetching, main, counter, owner, changes, breaks>>

ResumeIgnoresError ==  \* mutant: whatever the answer, the call is started
    /\ worker # << >> /\ ~IsNews(Head(worker))
    /\ worker' = Tail(worker)
    /\ IF Head(worker).closes # closes THEN UNCHANGED <<state, owner>>
       ELSE state' = "Open" /\ owner' = Head(worker).owner
    /\ UNCHANGED <<auth, asked, fetching, main, counter, user, closes, changes, breaks>>

ResumeUnchecked ==  \* mutant: close_count_ is not compared
    /\ worker # << >> /\ ~IsNews(Head(worker))
    /\ worker' = Tail(worker)
    /\ IF Head(worker).owner = Aborted
       THEN closes' = closes + 1 /\ state' = "Backoff" /\ UNCHANGED owner
       ELSE state' = "Open" /\ owner' = Head(worker).owner /\ UNCHANGED closes
    /\ UNCHANGED <<auth, asked, fetching, main, counter, user, changes, breaks>>

\* An answer for the stream as it is opens the call, or closes the stream with
\* an error; one from before the stream was closed is dropped.
Resume ==
    /\ worker # << >> /\ ~IsNews(Head(worker))
    /\ worker' = Tail(worker)
    /\ IF Head(worker).closes # closes THEN UNCHANGED <<state, closes, owner>>
       ELSE IF Head(worker).owner = Aborted
       THEN closes' = closes + 1 /\ state' = "Backoff" /\ UNCHANGED owner
       ELSE state' = "Open" /\ owner' = Head(worker).owner /\ UNCHANGED closes
    /\ UNCHANGED <<auth, asked, fetching, main, counter, user, changes, breaks>>

Break ==
    /\ state = "Open"
    /\ breaks < MaxBreaks /\ breaks' = breaks + 1
    /\ closes' = closes + 1 /\ state' = "Backoff"
    /\ UNCHANGED <<auth, asked, fetching, main, counter, worker, user, owner, changes>>

BackoffElapses ==
    /\ state = "Backoff"
    /\ Ask(closes)
    /\ UNCHANGED <<auth, fetching, main, counter, worker, user, closes, owner, changes, breaks>>

Next ==
    \/ \E u \in Users : AuthChanges(u)
    \/ \E r \in asked : Fetch(r)
    \/ \E a \in fetching : Fetched(a)
    \/ Hear \/ Return \/ Change \/ Resume \/ Break \/ BackoffElapses

Spec == Init /\ [][Next]_vars

-----------------------------------------------------------------------------
(* Properties.                                                             *)

\* A stream is open with the token of the user whose batches it carries.
OwnToken == state = "Open" => owner = user

\* "State should still be 'Starting'": an answer that is not stale meets a
\* stream that waits for it, and there is never a second one.
ResumeMeetsStarting ==
    worker # << >> /\ ~IsNews(Head(worker)) /\ Head(worker).closes = closes
        => state = "Starting"

\* No wake-up is lost: when all queues are empty, no token is being fetched and
\* no timer runs, the stream is open, and for the user there is.
NeverStuck ==
    asked = {} /\ fetching = {} /\ main = << >> /\ worker = << >> /\ state # "Backoff"
        => state = "Open" /\ user = auth /\ owner = auth

\* Every queue runs what is put on it, and timers go off.
Fairness ==
    /\ WF_vars(\E r \in asked : Fetch(r))
    /\ WF_vars(\E a \in fetching : Fetched(a))
    /\ WF_vars(Hear \/ Return)
    /\ WF_vars(Change \/ Resume)
    /\ WF_vars(BackoffElapses)

FairSpec == Spec /\ Fairness

\* Once the user stops changing and streams stop breaking, the stream is open
\* for the user who is signed in.
SettlesOnTheUser == <>[](state = "Open" /\ user = auth /\ owner = auth)
=============================================================================
