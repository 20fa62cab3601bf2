---------------------------- MODULE WatchTarget ----------------------------
(***************************************************************************)
(* How the Firestore client keeps a live query: the target it watches, the *)
(* keys and the resume token it stores for it, and the view the app sees.  *)
(* The server answers a watch request, and tells of later changes, by       *)
(* documents that came and went; it may leave out one that went, and then   *)
(* sends the number of documents instead (an existence filter).  A count    *)
(* that does not fit makes the client forget its keys and watch anew.       *)
(*                                                                         *)
(* One device, one query.  The process may be killed; the stream may break. *)
(***************************************************************************)
EXTENDS Naturals, Sequences, FiniteSets

CONSTANTS
    Docs,       \* documents the query may match
    AlwaysCounts, \* whether the server counts every time, or only if it left out a document
    MaxVersion, \* bound: states of the server's data
    MaxListens, \* bound: times the app starts to listen
    MaxBreaks   \* bound: streams broken and processes killed

ASSUME DocsFinite == IsFiniteSet(Docs)
ASSUME CountsIsBoolean == AlwaysCounts \in BOOLEAN
ASSUME BoundsAreNat == MaxVersion \in Nat \ {0} /\ MaxListens \in Nat /\ MaxBreaks \in Nat

\* A resume token stands for the version it was given at; 0 is the empty one.
Versions == 1 .. MaxVersion
Tokens == 0 .. MaxVersion

Request == [token : Tokens] \union [unwatch : {TRUE}]
Watch(t) == [token |-> t]
Unwatch == [unwatch |-> TRUE]

\* What the stream carries to the client.  A global snapshot has no target and
\* brings a token and a version.
Message == [type : {"added", "removed", "current", "reset"}]
           \union [type : {"document"}, doc : Docs, matches : BOOLEAN]
           \union [type : {"filter"}, count : Nat]
           \union [type : {"snapshot"}, version : Versions]
Added == [type |-> "added"]
Removed == [type |-> "removed"]
Current == [type |-> "current"]
Restart == [type |-> "reset"]
Document(d, in) == [type |-> "document", doc |-> d, matches |-> in]
Filter(n) == [type |-> "filter", count |-> n]
Snapshot(v) == [type |-> "snapshot", version |-> v]

\* TargetState: responses the client waits for, current_, document_changes_.
\* Every snapshot brings a token, which replaces resume_token_ and sets
\* has_pending_changes_, so these two are not kept.  A target without a state
\* counts as one with a fresh state.
NoChanges == [d \in Docs |-> "none"]
TargetState == [outstanding : Nat, current : BOOLEAN,
                changes : [Docs -> {"none", "added", "modified", "removed"}]]
Fresh == [outstanding |-> 0, current |-> FALSE, changes |-> NoChanges]

View == [synced : SUBSET Docs, current : BOOLEAN]
NoView == [synced |-> {}, current |-> FALSE]

VARIABLES
    history,    \* server: the documents that match, at each version so far
    told,       \* server: the version the target was told of; 0: not watched
    up, down,   \* the open stream: requests, messages
    cached,     \* LevelDB: the keys of the target
    savedToken, \* LevelDB: its resume token
    lastSnapshot, \* LevelDB: last_remote_snapshot_version_
    listening,  \* client: the query has a view and a target
    localToken, \* LocalStore: target_data_by_target_'s token
    remoteToken, \* RemoteStore: listen_targets_' token
    stream,     \* RemoteStore: the watch stream
    state,      \* WatchChangeAggregator: target_states_
    mismatch,   \* WatchChangeAggregator: pending_target_resets_ has the target
    view,       \* View: synced_documents_ and current_
    listens, breaks \* counts, for the bounds

server == <<history, told>>
disk == <<cached, savedToken, lastSnapshot>>
tokens == <<localToken, remoteToken>>
aggregator == <<state, mismatch>>
bounds == <<listens, breaks>>
vars == <<server, up, down, disk, listening, tokens, stream, aggregator, view, bounds>>

TypeOK ==
    /\ history \in Seq(SUBSET Docs) /\ Len(history) \in Versions
    /\ told \in Tokens
    /\ up \in Seq(Request) /\ down \in Seq(Message)
    /\ cached \subseteq Docs
    /\ savedToken \in Tokens /\ lastSnapshot \in Tokens
    /\ listening \in BOOLEAN
    /\ localToken \in Tokens /\ remoteToken \in Tokens
    /\ stream \in {"stopped", "starting", "open"}
    /\ state \in TargetState /\ mismatch \in BOOLEAN
    /\ view \in View
    /\ listens \in 0 .. MaxListens /\ breaks \in 0 .. MaxBreaks

\* A fresh installation.
Init ==
    /\ history \in {<<S>> : S \in SUBSET Docs} /\ told = 0
    /\ up = << >> /\ down = << >>
    /\ cached = {} /\ savedToken = 0 /\ lastSnapshot = 0
    /\ listening = FALSE /\ localToken = 0 /\ remoteToken = 0
    /\ stream = "stopped" /\ state = Fresh /\ mismatch = FALSE
    /\ view = NoView
    /\ listens = 0 /\ breaks = 0

\* The server watches for the client and waits for its acks: no messages count.
Active == listening /\ state.outstanding = 0

With(s, kind) == {d \in Docs : s.changes[d] = kind}

ClearedNot(s) == s  \* mutant: what was raised is noted still
Cleared(s) == [s EXCEPT !.changes = NoChanges]
AwaitingUncounted(s, n) == s  \* mutant: requests are not counted
Awaiting(s, n) == [s EXCEPT !.outstanding = @ + n]
Answered(s) == [s EXCEPT !.outstanding = @ - 1]

-----------------------------------------------------------------------------
(* The app, and the client's worker queue.                                 *)

\* The app listens: target and keys are taken from LevelDB.
Listen ==
    /\ ~listening /\ listens < MaxListens
    /\ listening' = TRUE /\ listens' = listens + 1
    /\ localToken' = savedToken /\ remoteToken' = savedToken
    /\ view' = [synced |-> cached, current |-> FALSE]
    /\ IF stream = "open"
       THEN /\ up' = Append(up, Watch(savedToken))
            /\ state' = Awaiting(state, 1)
            /\ UNCHANGED stream
       ELSE /\ stream' = "starting"
            /\ UNCHANGED <<up, state>>
    /\ UNCHANGED <<server, down, disk, mismatch, breaks>>

\* The app stops: the target is released, which stores its token.
StopListening ==
    /\ listening
    /\ listening' = FALSE /\ view' = NoView
    /\ savedToken' = localToken /\ localToken' = 0 /\ remoteToken' = 0
    /\ IF stream = "open"
       THEN up' = Append(up, Unwatch) /\ state' = Awaiting(state, 1)
       ELSE UNCHANGED <<up, state>>
    /\ UNCHANGED <<server, down, cached, lastSnapshot, stream, mismatch, bounds>>

OpenForgets ==  \* mutant: the watch is not restored
    /\ stream = "starting" /\ stream' = "open"
    /\ UNCHANGED <<server, up, down, disk, listening, tokens, aggregator, view, bounds>>
\* OnWatchStreamOpen: the target is watched again.
Open ==
    /\ stream = "starting"
    /\ stream' = "open"
    /\ IF listening
       THEN up' = Append(up, Watch(remoteToken)) /\ state' = Awaiting(state, 1)
       ELSE UNCHANGED <<up, state>>
    /\ UNCHANGED <<server, down, disk, listening, tokens, mismatch, view, bounds>>

\* The stream is lost with what it carries.
Hangup == up' = << >> /\ down' = << >> /\ told' = 0

\* OnWatchStreamClose, from the network, from idleness or with a new user; the
\* stream is started again if there is something to watch.
Break ==
    /\ stream # "stopped" /\ breaks < MaxBreaks
    /\ breaks' = breaks + 1
    /\ Hangup
    /\ stream' = IF listening THEN "starting" ELSE "stopped"
    /\ state' = Fresh /\ mismatch' = FALSE
    /\ UNCHANGED <<history, disk, listening, tokens, view, listens>>

\* The stream did not open in time: until it does the view is not current.
Offline ==
    /\ stream = "starting" /\ view.current
    /\ view' = [view EXCEPT !.current = FALSE]
    /\ UNCHANGED <<server, up, down, disk, listening, tokens, stream, aggregator, bounds>>

\* The process is killed, and started again by the next Listen.
Kill ==
    /\ breaks < MaxBreaks /\ breaks' = breaks + 1
    /\ Hangup
    /\ listening' = FALSE /\ localToken' = 0 /\ remoteToken' = 0
    /\ stream' = "stopped" /\ state' = Fresh /\ mismatch' = FALSE
    /\ view' = NoView
    /\ UNCHANGED <<history, disk, listens>>

-----------------------------------------------------------------------------
(* The watch stream's messages: WatchChangeAggregator.                     *)

Receive(type) ==
    /\ down # << >> /\ Head(down).type = type
    /\ down' = Tail(down)

\* A watch request was answered.  With the last answer outstanding what was
\* noted before is dropped.
AddedArrives ==
    /\ Receive("added")
    /\ state' = LET s == Answered(state) IN
                IF s.outstanding = 0 THEN Cleared(s) ELSE s
    /\ UNCHANGED <<server, up, disk, listening, tokens, stream, mismatch, view, bounds>>

\* So was an unwatch request.
RemovedArrives ==
    /\ Receive("removed")
    /\ state' = IF Answered(state).outstanding = 0 THEN Fresh ELSE Answered(state)
    /\ UNCHANGED <<server, up, disk, listening, tokens, stream, mismatch, view, bounds>>

CurrentArrives ==
    /\ Receive("current")
    /\ state' = IF Active THEN [state EXCEPT !.current = TRUE] ELSE state
    /\ UNCHANGED <<server, up, disk, listening, tokens, stream, mismatch, view, bounds>>

\* AddDocumentToTarget and RemoveDocumentFromTarget: what a document's message
\* changes depends on whether the view has its key.
Change(d, in) ==
    IF in THEN (IF d \in view.synced THEN "modified" ELSE "added")
    ELSE (IF d \in view.synced THEN "removed" ELSE "none")

DocumentArrives ==
    /\ Receive("document")
    /\ state' = IF Active
                THEN [state EXCEPT !.changes[Head(down).doc] =
                            Change(Head(down).doc, Head(down).matches)]
                ELSE state
    /\ UNCHANGED <<server, up, disk, listening, tokens, stream, mismatch, view, bounds>>

\* GetCurrentDocumentCountForTarget.
Count == Cardinality(view.synced) + Cardinality(With(state, "added"))
            - Cardinality(With(state, "removed"))

MismatchIgnored(n) == FALSE  \* mutant
Mismatch(n) == n # Count

ResetForgets == Fresh  \* mutant: the keys at hand are not removed
\* ResetTarget: all keys are noted as removed.
Reset == [Fresh EXCEPT !.changes = [d \in Docs |-> Change(d, FALSE)]]

\* The server starts over: it will send all that matches.
ResetArrives ==
    /\ Receive("reset")
    /\ state' = IF Active THEN Reset ELSE state
    /\ UNCHANGED <<server, up, disk, listening, tokens, stream, mismatch, view, bounds>>

\* A count that does not fit resets the target, and the next snapshot will
\* have it watched anew.
FilterArrives ==
    /\ Receive("filter")
    /\ IF Active /\ Mismatch(Head(down).count)
       THEN state' = Reset /\ mismatch' = TRUE
       ELSE UNCHANGED aggregator
    /\ UNCHANGED <<server, up, disk, listening, tokens, stream, view, bounds>>

\* What the noted changes make of a set of keys.
Changed(keys) == (keys \ With(state, "removed")) \union With(state, "added")

\* LocalStore::ApplyRemoteEvent: a token that comes without changes need not be
\* stored at once.
ApplyRemoteEvent(v) ==
    /\ cached' = Changed(cached)
    /\ localToken' = v
    /\ savedToken' \in {v} \union
            (IF localToken = 0 \/ \E d \in Docs : state.changes[d] # "none" THEN {}
             ELSE {savedToken})
    /\ view' = [synced |-> Changed(view.synced), current |-> state.current]

\* RaiseWatchSnapshot: what an active target has noted goes to the LocalStore
\* and the view.  A target found not to fit is unwatched and watched without a
\* token.  The server's versions never go back, so each one counts.
SnapshotArrives ==
    /\ Receive("snapshot")
    /\ LET v == Head(down).version
           s == IF Active THEN Cleared(state) ELSE state IN
        /\ lastSnapshot' = v
        /\ IF Active THEN ApplyRemoteEvent(v)
           ELSE UNCHANGED <<cached, savedToken, localToken, view>>
        /\ IF mismatch /\ listening
           THEN /\ remoteToken' = 0
                /\ up' = up \o <<Unwatch, Watch(0)>>
                /\ state' = Awaiting(s, 2)
           ELSE /\ remoteToken' = IF Active THEN v ELSE remoteToken
                /\ state' = s
                /\ UNCHANGED up
    /\ mismatch' = FALSE
    /\ UNCHANGED <<server, listening, stream, bounds>>

Deliver ==
    \/ AddedArrives \/ RemovedArrives \/ CurrentArrives \/ DocumentArrives
    \/ ResetArrives \/ FilterArrives \/ SnapshotArrives

-----------------------------------------------------------------------------
(* The server.                                                             *)

Now == Len(history)

\* Documents come and go, or change.
ServerChanges ==
    /\ Now < MaxVersion
    /\ \E S \in SUBSET Docs : history' = Append(history, S)
    /\ UNCHANGED <<told, up, down, disk, listening, tokens, stream, aggregator, view, bounds>>

Sequenced(S) == CHOOSE f \in [1 .. Cardinality(S) -> S] :
                    \A x \in S : \E i \in DOMAIN f : f[i] = x

\* To a client that has the documents had, the server sends every one that has
\* come and maybe others that match, and removes those that went; if it leaves
\* one out it sends the number of documents.
Send(first, had, middle) ==
    \E in \in SUBSET history[Now], out \in SUBSET (had \ history[Now]), counts \in BOOLEAN :
        /\ history[Now] \ had \subseteq in
        /\ AlwaysCounts \/ out # had \ history[Now] => counts
        /\ down' = down \o
                (first \o Sequenced({Document(d, TRUE) : d \in in} \union {Document(d, FALSE) : d \in out})
                    \o middle
                    \o (IF counts THEN <<Filter(Cardinality(history[Now]))>> ELSE << >>)
                    \o <<Snapshot(Now)>>)

\* A request is answered: from the version of its token, or from nothing.
AnswersWatch ==
    /\ up # << >> /\ Head(up) # Unwatch
    /\ up' = Tail(up)
    /\ told' = Now
    /\ LET t == Head(up).token IN
        Send(<<Added>>, IF t = 0 THEN {} ELSE history[t], <<Current>>)
    /\ UNCHANGED <<history, disk, listening, tokens, stream, aggregator, view, bounds>>

AnswersUnwatch ==
    /\ up # << >> /\ Head(up) = Unwatch
    /\ up' = Tail(up)
    /\ told' = 0
    /\ down' = Append(down, Removed)
    /\ UNCHANGED <<history, disk, listening, tokens, stream, aggregator, view, bounds>>

\* A watched target has changed.
Tells ==
    /\ told # 0 /\ told # Now
    /\ told' = Now
    /\ Send(<< >>, history[told], << >>)
    /\ UNCHANGED <<history, up, disk, listening, tokens, stream, aggregator, view, bounds>>

\* A watched target has changed, and the server tells its documents anew.
TellsAnew ==
    /\ told # 0 /\ told # Now
    /\ told' = Now
    /\ Send(<<Restart>>, {}, <<Current>>)
    /\ UNCHANGED <<history, up, disk, listening, tokens, stream, aggregator, view, bounds>>

Next ==
    \/ Listen \/ StopListening \/ Open \/ Break \/ Offline \/ Kill
    \/ AddedArrives \/ RemovedArrives \/ CurrentArrives \/ DocumentArrives
    \/ ResetArrives \/ FilterArrives \/ SnapshotArrives
    \/ ServerChanges \/ AnswersWatch \/ AnswersUnwatch \/ Tells \/ TellsAnew

Spec == Init /\ [][Next]_vars

\* A stream that is needed is opened in the end, the server answers, and the
\* worker queue runs.  Nothing makes the app listen or stop.
Fairness == WF_vars(Open) /\ WF_vars(AnswersWatch \/ AnswersUnwatch) /\ WF_vars(Deliver)

FairSpec == Spec /\ Fairness

-----------------------------------------------------------------------------
(* Properties.                                                             *)

\* The view and LevelDB hold the same keys, and what an active target has noted
\* fits them: added keys are new, modified and removed ones are there.  The
\* count that is compared with the server's rests on it, and View's assertion
\* about modified documents.
MappingsAgree ==
    /\ listening => view.synced = cached
    /\ Active => /\ With(state, "added") \intersect view.synced = {}
                 /\ With(state, "modified") \union With(state, "removed") \subseteq view.synced

\* A view that is current shows exactly the documents that matched when the
\* last snapshot was taken.  It needs a server that counts every time.
CurrentMeansMatching == view.current => view.synced = history[lastSnapshot]

\* "Clear the resume token for the query, since we're in a known mismatch state"
\* (RaiseWatchSnapshot): a watch request that resumes from a token is sent only
\* with the keys of that token's version at hand.  False: the LocalStore keeps
\* the token.
ResumesFromItsKeys ==
    listening /\ up # << >> =>
        LET t == up[Len(up)].token IN t # 0 => view.synced = history[t]

\* With nothing on the stream, and the server having told all of its last
\* version, a client that listens has a current view, of what matches now:
\* whatever was lost with a stream or by a mismatch has been asked for again.
QuietMeansServed ==
    listening /\ stream = "open" /\ up = << >> /\ down = << >> /\ told \in {0, Now} =>
        view.current /\ view.synced = history[Now]

\* A query the app listens to becomes current, or the app stops.
ListensSettle == listening /\ ~view.current ~> view.current \/ ~listening
=============================================================================
