---------------------------- MODULE WritePipeline ----------------------------
(***************************************************************************)
(* The write path of the Firestore client under the app, one device.  The  *)
(* batches a user has written are kept in LevelDB until the server answers.*)
(* The RemoteStore sends the oldest of them, the write pipeline, over one  *)
(* stream at a time.  A response says nothing of the batch it answers: the *)
(* first one of a stream completes the handshake, each later one counts    *)
(* for the batch at the front of the pipeline.  Every action but those of  *)
(* the server is one operation of the client's serial worker queue.        *)
(***************************************************************************)
EXTENDS Naturals, Sequences, FiniteSets

CONSTANTS
    Users,      \* who may be signed in, "nobody" being one of them
    Calls,      \* the writes the app makes
    Hello,      \* the handshake request
    MaxPending, \* kMaxPendingWrites
    MaxStreams  \* bound: streams opened; the last one stays open

ASSUME UsersAndCallsFinite == IsFiniteSet(Users) /\ IsFiniteSet(Calls)
ASSUME BoundsAreNat == MaxPending \in Nat \ {0} /\ MaxStreams \in Nat

\* A mutation batch; a callback is kept under the same user and id.
Batch == [user : Users, id : Nat \ {0}, call : Calls]
ASSUME HelloIsNoBatch == Hello \notin Batch

VARIABLES
    ledger,     \* history: the calls each user's queue has been given, in order
    told,       \* app: what it has been told of each call
    cut,        \* history: the calls told "ok" just before a kill; see RestartAcknowledging
    stored,     \* device, durable: the batches of all users
    user,       \* device: current_user_
    nextId,     \* device: next_batch_id_
    callbacks,  \* device: mutation_callbacks_
    pipeline,   \* device: write_pipeline_
    state,      \* the write stream's state_
    handshake,  \* its handshake_complete_
    idle,       \* its idleness timer is set
    streams,    \* streams opened so far; the last one may be open
    line,       \* per stream: what was written and the server has not taken up
    responses,  \* the number of responses received and not yet read
    fate,       \* of the open stream; see Refuse and WriteOpFails
    applied,    \* server: the calls it has applied
    refused     \* server: the calls it has refused

app == <<ledger, told, cut>>
queue == <<stored, user, nextId, callbacks>>
stream == <<state, handshake, idle, streams, responses, fate>>
server == <<applied, refused>>
vars == <<app, queue, pipeline, stream, line, server>>

Streams == 1 .. MaxStreams
Started == state \in {"Starting", "Backoff", "Open"}

TypeOK ==
    /\ ledger \in [Users -> Seq(Calls)]
    /\ told \in [Calls -> {"nothing", "ok", "failed"}] /\ cut \subseteq Calls
    /\ stored \subseteq Batch /\ callbacks \subseteq Batch
    /\ user \in Users /\ nextId \in Nat \ {0}
    /\ pipeline \in Seq(Batch)
    /\ state \in {"Initial", "Starting", "Backoff", "Open", "Error"}
    /\ handshake \in BOOLEAN /\ idle \in BOOLEAN
    /\ streams \in 0 .. MaxStreams
    /\ line \in [Streams -> Seq(Batch \union {Hello})]
    /\ responses \in Nat
    /\ fate \in {"alive", "refused", "failing", "failed"}
    /\ applied \subseteq Calls /\ refused \subseteq Calls

Init ==
    /\ ledger = [u \in Users |-> << >>] /\ told = [c \in Calls |-> "nothing"] /\ cut = {}
    /\ stored = {} /\ callbacks = {} /\ nextId = 1 /\ user \in Users
    /\ pipeline = << >> /\ state = "Initial" /\ handshake = FALSE /\ idle = FALSE
    /\ streams = 0 /\ line = [k \in Streams |-> << >>] /\ responses = 0 /\ fate = "alive"
    /\ applied = {} /\ refused = {}

-----------------------------------------------------------------------------
(* The mutation queues.                                                    *)

Key(b) == <<b.user, b.id>>
Queue(S, u) == {b \in S : b.user = u}

\* A row of the same key is replaced; std::unordered_map::insert keeps it.
Put(S, b) == {x \in S : Key(x) # Key(b)} \union {b}
Insert(S, b) == IF \E x \in S : Key(x) = Key(b) THEN S ELSE S \union {b}
Remove(S, b) == {x \in S : Key(x) # Key(b)}

\* Loaded when a queue is started: one above the batches of every user.
NextIdsFromOne(S) == {1}  \* mutant
NextIds(S) == {i \in {1} \union {b.id + 1 : b \in S} : \A b \in S : b.id < i}

\* The calls of the app's callback for b, if this process has one.
Awaited(b) == {x.call : x \in {y \in callbacks : Key(y) = Key(b)}}

\* The callback is told the verdict.
Tell(b, verdict) == told' = [c \in Calls |-> IF c \in Awaited(b) THEN verdict ELSE told[c]]
Notify(b, verdict) == Tell(b, verdict) /\ callbacks' = Remove(callbacks, b)

-----------------------------------------------------------------------------
(* The pipeline.                                                           *)

\* What the loop of FillWritePipeline fetches after pipeline p: the next
\* batches of u by id, until there are no more or the pipeline is full.
Fetches(S, u, p) ==
    LET Later == {b \in Queue(S, u) : p = << >> \/ b.id > p[Len(p)].id} IN
    {s \in UNION {[1 .. k -> Later] : k \in 0 .. MaxPending - Len(p)} :
        /\ \A i, j \in DOMAIN s : i < j => s[i].id < s[j].id
        /\ \A b \in Later :
            \/ \E i \in DOMAIN s : s[i] = b
            \/ /\ Len(p) + Len(s) = MaxPending
               /\ \A i \in DOMAIN s : s[i].id < b.id}

\* Stream::Start, if the stream is not started: after an error, with backoff.
Start(at) == IF at = "Initial" THEN "Starting" ELSE IF at = "Error" THEN "Backoff" ELSE at

\* Only the last stream is written to.
Written(s) == [line EXCEPT ![streams] = @ \o s]

FillKeepsTimer(S, u, p, at) ==  \* mutant: a write does not cancel the idleness timer
    \E s \in Fetches(S, u, p) :
        /\ pipeline' = p \o s
        /\ state' = IF p \o s # << >> THEN Start(at) ELSE at
        /\ line' = IF at = "Open" /\ handshake /\ s # << >> THEN Written(s) ELSE line
        /\ idle' = (at = "Open" /\ (p \o s = << >> \/ idle))

FillBeforeHandshake(S, u, p, at) ==  \* mutant: what is added is sent at once
    \E s \in Fetches(S, u, p) :
        /\ pipeline' = p \o s
        /\ state' = IF p \o s # << >> THEN Start(at) ELSE at
        /\ line' = IF at = "Open" /\ s # << >> THEN Written(s) ELSE line
        /\ idle' = (at = "Open" /\ (p \o s = << >> \/ (idle /\ s = << >>)))

\* FillWritePipeline, with p left in the pipeline of u and the stream at "at".
\* An open stream is sent what is added; one with nothing to send is marked
\* idle; a stream that is needed is started.
Fill(S, u, p, at) ==
    \E s \in Fetches(S, u, p) :
        /\ pipeline' = p \o s
        /\ state' = IF p \o s # << >> THEN Start(at) ELSE at
        /\ line' = IF at = "Open" /\ handshake /\ s # << >> THEN Written(s) ELSE line
        /\ idle' = (at = "Open" /\ (p \o s = << >> \/ (idle /\ (s = << >> \/ ~handshake))))

\* The app writes: SyncEngine::WriteMutations.
Write(c) ==
    /\ \A u \in Users : \A i \in DOMAIN ledger[u] : ledger[u][i] # c
    /\ LET b == [user |-> user, id |-> nextId, call |-> c] IN
        /\ stored' = Put(stored, b)
        /\ callbacks' = Insert(callbacks, b)
    /\ nextId' = nextId + 1
    /\ ledger' = [ledger EXCEPT ![user] = Append(@, c)]
    /\ Fill(stored', user, pipeline, state)
    /\ UNCHANGED <<told, cut, user, handshake, streams, responses, fate, server>>

-----------------------------------------------------------------------------
(* The stream.                                                             *)

\* Bound: a stream is closed only while another one may be opened.
Spare == streams < MaxStreams

\* What Close leaves of the stream, whatever closes it.  What was written may
\* still reach the server, unless the server has ended the stream.
Closed ==
    /\ handshake' = FALSE /\ responses' = 0 /\ fate' = "alive"
    /\ UNCHANGED streams
Unsent == IF fate = "alive" THEN line ELSE [line EXCEPT ![streams] = << >>]

\* The credentials arrive: the call is started and the handshake sent.
TokenArrives ==
    /\ state = "Starting"
    /\ Spare
    /\ state' = "Open"
    /\ streams' = streams + 1
    /\ line' = [line EXCEPT ![streams + 1] = <<Hello>>]
    /\ UNCHANGED <<app, queue, pipeline, handshake, idle, responses, fate, server>>

\* They do not: an error before the handshake only delays the next attempt.
TokenFails ==
    /\ state = "Starting"
    /\ state' = IF pipeline # << >> THEN Start("Error") ELSE "Error"
    /\ Closed /\ idle' = FALSE
    /\ UNCHANGED <<app, queue, pipeline, line, server>>

BackoffElapses ==
    /\ state = "Backoff"
    /\ state' = "Starting"
    /\ UNCHANGED <<app, queue, pipeline, handshake, idle, streams, responses, fate, line, server>>

ReadAhead ==  \* mutant: a read counts as a response before one is there
    /\ state = "Open" /\ fate # "failed"
    /\ responses' = responses - 1
    /\ fate' = IF fate = "failing" THEN "failed" ELSE fate

\* One response is read; the one behind which a write has failed is the last.
Read ==
    /\ state = "Open" /\ responses > 0 /\ fate # "failed"
    /\ responses' = responses - 1
    /\ fate' = IF fate = "failing" THEN "failed" ELSE fate

\* The first response: the whole pipeline is sent.
HandshakeComplete ==
    /\ Read /\ ~handshake
    /\ handshake' = TRUE
    /\ line' = Written(pipeline)
    /\ idle' = (idle /\ pipeline = << >>)
    /\ UNCHANGED <<app, queue, pipeline, state, streams, server>>

MutationResultNoRefill ==  \* mutant: the freed slot is not filled
    /\ Read /\ handshake
    /\ LET b == Head(pipeline) IN
        /\ Notify(b, "ok")
        /\ stored' = Remove(stored, b)
    /\ pipeline' = Tail(pipeline)
    /\ UNCHANGED <<ledger, cut, user, nextId, state, handshake, idle, streams, line, server>>

\* A later response: the front of the pipeline is done.
MutationResult ==
    /\ Read /\ handshake
    /\ LET b == Head(pipeline) IN
        /\ Notify(b, "ok")
        /\ stored' = Remove(stored, b)
    /\ Fill(stored', user, Tail(pipeline), state)
    /\ UNCHANGED <<ledger, cut, user, nextId, handshake, streams, server>>

\* Nothing was to be sent for a minute: a graceful stop.
IdleTimeout ==
    /\ idle
    /\ Spare
    /\ state' = IF pipeline # << >> THEN "Starting" ELSE "Initial"
    /\ Closed /\ idle' = FALSE /\ line' = Unsent
    /\ UNCHANGED <<app, queue, pipeline, server>>

BreakNotRestarted ==  \* mutant: OnWriteStreamClose does not start the stream again
    /\ state = "Open"
    /\ Spare
    /\ state' = "Error"
    /\ Closed /\ idle' = FALSE /\ line' = Unsent
    /\ UNCHANGED <<app, queue, pipeline, server>>

\* The connection is lost, or the server ends the stream with an error that is
\* transient, comes before the handshake or finds the pipeline empty: the
\* batches stay, and the stream starts again, with backoff, if there are any.
Break ==
    /\ state = "Open"
    /\ Spare
    /\ state' = IF pipeline # << >> THEN Start("Error") ELSE "Error"
    /\ Closed /\ idle' = FALSE /\ line' = Unsent
    /\ UNCHANGED <<app, queue, pipeline, server>>

\* After a refusal a write operation may fail too.  The failure takes its turn
\* in the worker queue behind the one response already read off the call; the
\* responses behind it are dropped.
WriteOpFails ==
    /\ state = "Open" /\ fate = "refused" /\ line[streams] # << >>
    /\ fate' = IF responses > 0 THEN "failing" ELSE "failed"
    /\ UNCHANGED <<app, queue, pipeline, state, handshake, idle, streams, responses, line, server>>

\* The refusal reaches the client, by the failed write or after the last
\* response: a permanent error.
Refusal == state = "Open" /\ (fate = "failed" \/ (fate = "refused" /\ responses = 0))

\* The front of the pipeline is given up.
CloseRefused ==
    /\ Refusal /\ Spare
    /\ LET b == Head(pipeline) IN
        /\ Notify(b, "failed")
        /\ stored' = Remove(stored, b)
    /\ \E s \in Fetches(stored', user, Tail(pipeline)) :
        /\ pipeline' = Tail(pipeline) \o s
        /\ state' = IF pipeline' # << >> THEN "Starting" ELSE "Initial"
    /\ Closed /\ idle' = FALSE /\ line' = Unsent
    /\ UNCHANGED <<ledger, cut, user, nextId, server>>

-----------------------------------------------------------------------------
(* Users and processes.                                                    *)

ChangeUserKeepsPipeline(v) ==  \* mutant: the old user's pipeline is kept
    /\ Spare
    /\ user' = v
    /\ nextId' \in IF v # user THEN NextIds(stored) ELSE {nextId}
    /\ state' = IF pipeline = << >> THEN "Initial" ELSE "Starting"
    /\ Closed /\ idle' = FALSE /\ line' = Unsent
    /\ UNCHANGED <<app, stored, callbacks, pipeline, server>>

\* HandleCredentialChange, also for a new token of the same user: the streams
\* are stopped and started for the batches of the user there is now.
ChangeUser(v) ==
    /\ Spare
    /\ user' = v
    /\ nextId' \in IF v # user THEN NextIds(stored) ELSE {nextId}
    /\ \E s \in Fetches(stored, v, << >>) :
        /\ pipeline' = s
        /\ LET at == IF Started THEN "Initial" ELSE state IN
           state' = IF s # << >> THEN Start(at) ELSE at
    /\ Closed /\ idle' = FALSE /\ line' = Unsent
    /\ UNCHANGED <<app, stored, callbacks, server>>

\* The process is killed, leaving what is stored, and started with v signed in.
Reboot(v) ==
    /\ Spare
    /\ user' = v /\ nextId' \in NextIds(stored') /\ callbacks' = {}
    /\ \E s \in Fetches(stored', v, << >>) :
        /\ pipeline' = s
        /\ state' = IF s # << >> THEN "Starting" ELSE "Initial"
    /\ Closed /\ idle' = FALSE /\ line' = Unsent
    /\ UNCHANGED <<ledger, server>>

\* Killed between two operations of the worker queue.
Restart(v) ==
    /\ UNCHANGED <<told, cut, stored>>
    /\ Reboot(v)

\* Killed within an operation of the worker queue; what the server does during
\* it, it might as well do before.  A result is told to the app before its
\* batch is removed from LevelDB ...
RestartAcknowledging(v) ==
    /\ state = "Open" /\ handshake /\ responses > 0 /\ fate # "failed"
    /\ Tell(Head(pipeline), "ok")
    /\ cut' = cut \union Awaited(Head(pipeline))
    /\ UNCHANGED stored
    /\ Reboot(v)

\* ... and a refused batch is removed before the app is told.
RestartRejecting(v) ==
    /\ Refusal
    /\ stored' = Remove(stored, Head(pipeline))
    /\ UNCHANGED <<told, cut>>
    /\ Reboot(v)

-----------------------------------------------------------------------------
(* The server takes up what was written to a stream, in order; what a      *)
(* closed stream has left may still arrive.                                *)

Live(k) == k = streams /\ state = "Open"
Taken(k) == line' = [line EXCEPT ![k] = Tail(@)]
Respond(k) == responses' = IF Live(k) THEN responses + 1 ELSE responses

Greet(k) ==
    /\ line[k] # << >> /\ Head(line[k]) = Hello
    /\ Taken(k) /\ Respond(k)
    /\ UNCHANGED <<app, queue, pipeline, state, handshake, idle, streams, fate, server>>

Apply(k) ==
    /\ line[k] # << >> /\ Head(line[k]) # Hello
    /\ Live(k) => fate = "alive"
    /\ applied' = applied \union {Head(line[k]).call}
    /\ Taken(k) /\ Respond(k)
    /\ UNCHANGED <<app, queue, pipeline, state, handshake, idle, streams, fate, refused>>

\* A refusal ends the stream: nothing behind it is taken up.
Refuse(k) ==
    /\ line[k] # << >> /\ Head(line[k]) # Hello
    /\ refused' = refused \union {Head(line[k]).call}
    /\ IF Live(k)
       THEN fate = "alive" /\ Spare /\ fate' = "refused" /\ Taken(k)
       ELSE line' = [line EXCEPT ![k] = << >>] /\ UNCHANGED fate
    /\ UNCHANGED <<app, queue, pipeline, state, handshake, idle, streams, responses, applied>>

Next ==
    \/ \E c \in Calls : Write(c)
    \/ TokenArrives \/ TokenFails \/ BackoffElapses
    \/ HandshakeComplete \/ MutationResult \/ IdleTimeout
    \/ Break \/ WriteOpFails \/ CloseRefused
    \/ \E v \in Users : \/ ChangeUser(v) \/ Restart(v)
                      \/ RestartAcknowledging(v) \/ RestartRejecting(v)
    \/ \E k \in Streams : Greet(k) \/ Apply(k) \/ Refuse(k)

Spec == Init /\ [][Next]_vars

-----------------------------------------------------------------------------
(* Properties.                                                             *)

\* The pipeline is the oldest part of the current user's queue, all of it
\* unless it is full, and is never left waiting on a stopped stream: no
\* accepted write is forgotten until the next one, or a restart, revives it.
PipelineIsFull ==
    /\ << >> \in Fetches(stored, user, pipeline)
    /\ \A i \in DOMAIN pipeline : pipeline[i] \in Queue(stored, user)
    /\ pipeline # << >> => Started

\* "Write stream was stopped gracefully while still needed": the idle timer
\* is only set while nothing is to be sent.
IdleMeansUnneeded == idle => state = "Open" /\ handshake /\ pipeline = << >>

\* Positions agree: on an open stream the responses not yet read, and behind
\* them the requests not yet taken up, are those of the pipeline, in order, so
\* that no result meets an empty pipeline or counts for another batch.  A
\* refused batch stands between the two.
Expected ==
    LET taken == IF fate = "alive" THEN responses ELSE responses + 1 IN
    state = "Open" /\ handshake =>
        /\ Len(pipeline) = taken + Len(line[streams])
        /\ \A i \in DOMAIN line[streams] : line[streams][i] = pipeline[taken + i]
        /\ \A i \in 1 .. responses : pipeline[i].call \in applied
        /\ fate # "alive" => pipeline[taken].call \in refused

\* A call whose app was told "ok" is applied; one that failed was decided on;
\* no call is told of twice, and none told of is sent again, but one whose "ok"
\* a kill kept from being acknowledged in LevelDB; through changes of user,
\* batch ids given again and callbacks kept by id.
ToldTheTruth ==
    \A c \in Calls :
        /\ told[c] = "ok" => c \in applied
        /\ told[c] = "failed" => c \in applied \union refused
        /\ told[c] # "nothing" =>
            /\ \A b \in callbacks : b.call # c
            /\ \A b \in stored : b.call = c => told[c] = "ok" /\ c \in cut

\* No accepted write is lost: it is stored, or the server has decided on it.
NothingLost ==
    \A u \in Users : \A i \in DOMAIN ledger[u] :
        \/ ledger[u][i] \in applied \union refused
        \/ \E b \in stored : b.user = u /\ b.call = ledger[u][i]

\* "If this was a permanent error, the request itself was the problem": the
\* batch that is given up is one the server has refused.
GivesUpTheRefused == \A c \in Calls : told[c] = "failed" => c \in refused

\* Every stream decides on each user's writes in the order they were made.
D == INSTANCE DurableWrites
ImplementsDurableWrites == D!Spec

\* The worker queue runs every operation, timers go off, the server goes on
\* with an open stream, and credentials that are asked for again and again
\* are given in the end.
Fairness ==
    /\ WF_vars(HandshakeComplete \/ MutationResult \/ CloseRefused
               \/ \E k \in Streams : Live(k) /\ (Greet(k) \/ Apply(k) \/ Refuse(k)))
    /\ WF_vars(BackoffElapses)
    /\ SF_vars(TokenArrives)

FairSpec == Spec /\ Fairness

\* Once streams stop breaking, every write of the user who is signed in is
\* decided on, or someone else signs in.
WritesAreDecided ==
    \A u \in Users, c \in Calls :
        (\E i \in DOMAIN ledger[u] : ledger[u][i] = c)
            ~> (c \in applied \union refused \/ user # u)
=============================================================================
