# Chatsy: a TLA+ development

Chatsy is a Flutter application: users who have shared their location find each
other by distance, become friends and chat.  Its own code is the eleven Dart
files of `src/lib` (1734 lines).  There is no server code: every screen talks to
Firebase (Auth, Firestore, Storage), the geolocation plugin and the device's
preferences directly, by asynchronous calls it often does not wait for.  What
can go wrong is therefore in the order of calls, answers, taps and kills.

Much of that order is decided below the app, in the Firestore client whose
source the repository carries (`src/ios/Pods/FirebaseFirestore`).  The app relies
on it for three things: a write it has handed over survives kills and is sent
until it is answered; it is sent with the token of the user who made it; and a
query it listens to shows what the server has.  All three are modelled here too,
from the client's C++ and Objective-C sources, so that the first two assumptions
of the app's models are results of the client's, and the third is known to have
an exception (`watch_stale_token`).
`test/widget_test.dart` is the counter test of the Flutter template; it tests
nothing of this program.  Below, paths of the client are relative to
`src/ios/Pods/FirebaseFirestore/Firestore/core/src/firebase/firestore`.

## Inventory

| Component | State | Operations | Talks to |
|---|---|---|---|
| Friend discovery, `discoverscreen.dart` | one query subscription per press of the button, its candidate list `randomUserString`, the calls of `addToFriends` in progress | subscribe, handle results, pick at random, three awaited document adds, open a MainScreen | geoflutterfire query, Firestore |
| Location sharing, `mainscreen.dart:69-81` | a location request per MainScreen | wait for a fix, replace the `location` field | geolocator, Firestore; every change notifies the queries of all devices |
| Friends list, `homescreen.dart` | the last snapshot, `listOfIndicesForbidden` | rebuild on each snapshot, hide repeated names, open a chat | the documents discovery adds |
| Session and navigation, `main`, `welcomescreen`, `loginscreen`, `registrationscreen`, `mainscreen` | preference `isLoggedIn`, Firebase's signed-in account, the Navigator's stack | start, log in, register, sign out, Back, switch tabs | Firebase Auth, Firestore, preferences |
| Chat, `ChatScreen.dart` | the text field, `message`, a live list | type, send, clear when answered, list a room | Firestore: room named by two joined addresses |
| Profile picture, `profilescreen.dart` | preferences `doProfilePicExists` and `StorageImageURL`, global `url`, one stored object per user | upload, read preferences | Firebase Storage, preferences; Registration resets the flag |
| Firestore client, write path: `remote_store.cc`, `stream.cc`, `write_stream.cc`, `grpc_stream.cc`, `leveldb_mutation_queue.cc`, `local_store.cc`, `sync_engine.cc` | LevelDB: each user's batches; `next_batch_id_`, `mutation_callbacks_`, `write_pipeline_`, one stream with its state, timer and gRPC call | accept a write, fill the pipeline, start, break, idle out, take results and refusals, change user, restart | the app's futures, the server, the worker queue |
| Firestore client, credentials: `stream.cc`, `firebase_credentials_provider_apple.mm`, `FIRAuth.m` | Auth's user, `token_counter`, `close_count_`, three queues | post a change, request a token, answer, restart the streams | Auth's work queue, the main queue, the worker queue |
| Firestore client, listens: `remote_store.cc`, `remote_event.cc`, `watch_stream.cc`, `sync_engine.cc`, `local_store.cc`, `view.cc` | a query's target with the answers it waits for and the changes noted for it; its keys and resume token in LevelDB; its view | listen, stop, open and break the stream, take answers, documents, counts and snapshots, forget the keys and watch anew | the app's listeners, LevelDB, the server |
| Server, Storage, geolocation, preferences | | | modelled as external actions, from how the code uses them |
| Plugin registration, platform shells, web and build files | none of the program's own | | not modelled |

What makes it hard:

* **Nothing is cancelled.**  The query listener outlives the screen that made
  it, so a Discover tab left long ago keeps adding friends and opening screens.
* **Half-done adds.**  `addToFriends` makes three writes and awaits each.  A
  kill or a refused write leaves a prefix.  A write the Firestore client has
  accepted survives the kill and is still sent, one it was not given never is.
* **Answers nobody waits for.**  Login opens the MainScreen without its sign-in;
  Register asks for account and profile at once; `uploadImage` does not wait for
  its delete; a chat's Send clears the field whenever the answer comes.
* **Results without names.**  A response of the write stream does not say which
  batch it answers; the client counts.  Refills, refusals, broken streams and
  late requests of a closed one must not make it miscount.
* **Messages without requests.**  The watch stream does not say which watch
  request a document answers either; the client counts answers and drops what
  comes before the last one.  It may learn that its documents are wrong only from
  their number.
* **Three queues.**  A change of user and a token cross each other between
  Firebase Auth, the main queue and the client's worker queue.
* **Two writers of one thing.**  Both friends may add each other at once, two
  subscriptions of one device race, and both sides compute a room's name.

What makes each component correct: discovery never opens a room for two users
who do not list each other, and one-sided friendships have an explanation; the
friends list hides no friend, and shows no name twice that it has visited;
signing out closes what was open and lasts; an account without a profile is
explained; a chat lists a stored message on both sides, and only those messages
that were sent to its room, and sends what it shows; the picture preferences never
name nothing; an accepted write is neither lost nor overtaken, and what the app
is told of it is true; no stream carries another user's token; a query that is
called current shows what the server had at its last snapshot.
`PROJECT.json` lists the hazards one by one, with the line where each bites.

## Modules

| Module | Models |
|---|---|
| `Handshake` | abstract: what adding a friend promises |
| `Discover` | discovery and location sharing on any number of devices, Firestore under them |
| `DiscoverProofs` | theorems about `Discover` |
| `FriendTiles`, `FriendTilesProofs` | `uniqueListTiles` over every snapshot; theorems |
| `Session`, `SessionProofs` | one device's screens, login flag, account; theorems |
| `Rooms` | abstract: what the chat promises |
| `Chat`, `ChatProofs` | the chat screen of any number of devices, Firestore under it; theorems |
| `Profile`, `ProfileProofs` | uploads, preferences and Firebase Storage, one device; theorems |
| `DurableWrites` | abstract: what the Firestore client promises about writes |
| `WritePipeline`, `WritePipelineProofs` | the client's write path, one device, and the server; theorems |
| `Credentials`, `CredentialsProofs` | whose token a stream carries; theorems |
| `WatchTarget`, `WatchTargetProofs` | a live query: target, keys, resume token, view; the server's answers; theorems |
| `MC*` | instances for TLC |

### Discover

`sub[u][s]` is a press of the Discover button: the circle asked for, `seen`
(`randomUserString`), whether results wait for the listener (`fresh`) and whether
its screen is still there (`mounted`).  `calls[u][n]` is a call of `addToFriends`
and the write it awaits.  `pending` holds the writes the Firestore client has
accepted; it survives `Restart`, `calls` and `sub` do not.  `stored` and `db` are
the server's.  `Picks` and `PicksNobody` are the listener
(`discoverscreen.dart:68-92`): the first when `nextInt`'s bound is positive, the
second when it throws after the list was extended.  As in the code the index is
drawn below `length-1` of the *new* results but used on the *accumulated* list:
`Indexes` is the first, `Entry` the second, and past the end there is `Nobody`
to call `addToFriends` with, which `TypeOK` excludes.
`Deliver` is the server's, `Ack` and `Refuse` are the two ways an add's future
ends.  A failure may be told of a document that is stored all the same: that is
what `GivesUpTheRefused` shows of the client.

Simplified: the listener reads the query's results when it runs, not when they
were computed; a location write reaches server and queries in one step (an
unanswered one is a fix that has not arrived); two fixes always differ; an add is
`pending` from the moment the client has stored it, since a kill before that
leaves what a kill before the step leaves; `pending`
is a set, though `WritePipeline` sends a user's writes in order: the set allows
more, and within a call the next write starts only after the last is
acknowledged.  The server's
rules are not in the repository, so any write may be refused.

`Handshake` is the abstract specification: per call, stages own list, peer's
list, room, in this order, never taken back, always naming one other user.
`ImplementsHandshake` maps a call to the documents `db` holds for it.

### FriendTiles

`docs` is a snapshot's names (document ids are random, so a new one is inserted
anywhere), `Visit` is one turn of the outer loop, with the inner loop as the set
`Twins`, `Snapshot` the next snapshot, which starts over with an empty list.  The
module keeps the code's loop condition, which stops at the first index already
forbidden.  The function hides repeated names: `VisitedNamesHaveOneTile` says that
it does so for the names it has visited.  Names behind the stop keep their copies;
nothing is stated of them.

### Session

`stack` is the Navigator's; a MainScreen carries the user it read (once,
`ReadUser`) and whether its Discover tab is open.  `loading` is the time until
`SharedPreferences.getInstance` first answers: `FutureBuilder` shows Welcome and
`setLoginPrefs` waits (`logged`).  A profile write is handed over by `Register`
(`handing`), in the same call as the request for the account, and stored on the
device by the client's worker queue when that gets to it (`Accept`, `storing`).
In between a kill loses it while the account's request is under way or answered:
`cut` records the address.  Both remember which form awaits the write, since the
answer opens Login over whatever is on top.
`Create`, `SignIn`, `Store` and `Refuse` are the server's replies.
`AccountsAreExplained` says that such a kill and a refusal are the only ways to
an account without a profile.  Simplified:
preference writes are durable at once; pressing Register twice on one form for
one address is one request; Sign Out is not chosen before the preferences have
answered.  A pick is `Discover`'s, reduced to the MainScreen it opens.

### Chat

Addresses are sequences of codes, of any form, so `Room` does what
`getDocumentName` does: compare, order and join.  `field` is what the text field
shows, `message` what Send sends: typing sets both, the late `Answer` clears only
the field, and only of the screen that sent.  `Send` is the moment the client has
stored the write; a tap killed before that sends nothing.

`Lists` is what the `StreamBuilder` shows of `snapshots()`: not the server's
documents but the device's view of them (`View`), with its own writes from the
moment they are handed over, and without them once the client has given them up.
Given up is not the same as refused: a write can be applied and its failure
reported all the same (`write_given_up`), or arrive late on a stream that was
closed, so `Deliver` may store a document that was refused before.  A null message
is stored but not listed.  Simplified: the listener has caught up with the server
(how it does is `WatchTarget`'s `QuietMeansServed`); the literal text "null", which is
hidden the same way, and the `time` field are left out.

`Rooms` is the abstract specification.  A message is said once, in its sender's
order, and its sender sees it at once (`Say`).  When it appears to the other it is
there for both, for good (`Appear`); until then, or if it never does, the sender
may see it vanish (`Vanish`).  Chats that have been given the same room show the
same messages.  `ImplementsRooms` maps what was said to the texts that are pending,
stored or refused, and what is listed to what the screens' lists hold.

The concatenation of two addresses does not tell the two apart: ann@x.co with
mbob@x.co and ann@x.com with bob@x.co both chat in "ann@x.combob@x.co", and each
pair reads the other's messages.  The repository nowhere says that this cannot
happen, so it is no finding; `OnlyThePairIsListed` says for all addresses how far it
goes: another pair's message appears only where an address of one pair begins
with an address of the other.  The instance has such a collision.

### Profile

`uploadImage` is `Pick` (delete and upload asked for at once), `Complete`,
`Url` (the server's answer to `getDownloadURL`, of whatever is stored by then)
and `Answer`.  `prefs` is what the process sees, `disk` what a kill leaves,
`unsaved` the sets between them, committed in order by `Save`.  Only the newest
picture's URL works, so a picture, its URL and the press that chose it share a
number.  The report is modelled as shown whenever the URL arrives.

### DurableWrites and WritePipeline

`DurableWrites` is the promise: each user has a ledger of calls; the server
first decides on them in that order, each perhaps more than once; the app is told
once, after a decision, and "ok" only of an applied call.

`WritePipeline` is how it is kept.  `stored` is LevelDB, keyed by user and id;
`callbacks` is `mutation_callbacks_`; `pipeline`, `state`, `handshake` and `idle`
are the RemoteStore's and the stream's fields.  Every action but the server's is
one operation of the serial worker queue, with all it calls: `Write` stores the
batch, keeps its callback and fills the pipeline; `MutationResult` tells the app,
removes the batch and refills; `Break` is `OnWriteStreamClose` with its restart;
`CloseRefused` is the same with a permanent error; `ChangeUser` and `Restart`
load the batches of whoever is there by then.  `Fetches` is the loop of
`FillWritePipeline` as a set of sequences (it has one member).

A kill may also come within such an operation, between two commits to LevelDB or
between a commit and what the app is told.  `HandleSuccessfulWrite` tells the app
before it acknowledges the batch (`sync_engine.cc:347`, `:351`):
`RestartAcknowledging` is the kill between the two, which leaves a batch stored, and
sent again, although the app was told "ok"; `cut` records the call.
`HandleRejectedWrite` removes the batch first: `RestartRejecting` is the kill before the
app is told.  Within the other operations there is nothing to come between: they
commit at most once, and what they change besides dies with the process.  What
the server does meanwhile it might as well do before.  The app's models need no
such kill: what the app did on being told died with the process, as if the answer
had never come.

`line[k]` is what was written to the k-th stream and not yet taken up.  A closed
stream's line lives on, since what gRPC has been given may still arrive;
`responses` counts what was received and not yet read.  `fate` follows a
refusal: `refused` (the server has ended the stream), `failing` (a write
operation has failed; one response was already off the call, and is read first),
`failed` (nothing more is read).  The last one is where responses are dropped:
`GrpcStream::FinishGrpcCall` cancels the completions that are still queued.

Simplified: an operation of the stream's own that does not change which batch is
where (tokens of the stream, metadata, backoff delays) is left out.  Applying a
batch twice is allowed: documents of this app are written whole under ids chosen
once.  The stream's network can always be used; the app never disables it.

### Credentials

`auth` changes on Auth's work queue (`AuthChanges`), which posts the news to the
main queue; the listener there counts it and puts the change on the worker queue
(`Hear`).  A stream asks for a token (`Ask`, with `close_count_` and
`token_counter`); Auth takes the request when it gets to it (`Fetch`), answers
later (`Fetched`, in any order, or fails), the provider compares counters
(`Return`), and the worker queue compares close counts (`Resume`).  An answer
carries whose token it is, which the code cannot see; that is what the property
compares.  The stream modelled is one that is needed all the time.

### WatchTarget

One query on one device.  `state` is the aggregator's `TargetState`: answers
awaited (`outstanding`), `current`, and what the documents that came have changed
(`changes`); `mismatch` is `pending_target_resets_`.  `cached`, `savedToken` and
`lastSnapshot` are LevelDB's, and there are two more copies of the token,
`localToken` in `target_data_by_target_` and `remoteToken` in `listen_targets_`:
which of them a reset reaches is the point of `ResumesFromItsKeys`.  `view` is
`synced_documents_` and `current_`.  `up` and `down` are the open stream.

`Listen`, `StopListening`, `Open`, `Break`, `Offline` and `Kill` are operations
of the worker queue with all they call.  `AddedArrives` to `FilterArrives` are
`HandleTargetChange`, `HandleDocumentChange` and `HandleExistenceFilter`.
`SnapshotArrives` is `RaiseWatchSnapshot`: noted changes go to the `LocalStore`,
which may put off storing a token that comes without changes, and to the view;
then a target whose count did not fit is unwatched and watched without a token.

The server, external, answers a watch from the version its token stands for
(`AnswersWatch`), tells of changes (`Tells`) or starts over (`TellsAnew`).  What it
sends is assumed, from what the client relies on: every global snapshot has a
token, versions never go back, CURRENT comes before the count, and a document that went
is left out only if its count is sent (`Send`).  With `AlwaysCounts` a count is sent
each time.

Simplified: every snapshot brings a token, so a target's own token and its mark of
pending changes are always replaced or implied and are not kept; a target without
a state counts as one with a fresh state; documents are in no order.

## Runs

| Run | Instance | Shows | States |
|---|---|---|---|
| `discover` | 2 users who both seek, 1 add each, 1 place, fair | rooms only between mutual friends, one-sided friendships explained, nobody befriends themselves, picks stay inside the list, finished calls are complete; the documents implement `Handshake`; every call ends | 449k |
| `friend_tiles` | 3 names, lists up to 6 | no friend vanishes; a visited name keeps one tile | 3k |
| `session` | 1 address, 5 screens, 2 sign-outs | MainScreens from before a sign-out stay buried; an account without a profile is explained | 1.4M |
| `session_signed_out` | the same | **violated**: a sign-in answered after Sign Out takes effect | |
| `chat` | 4 users, two pairs with one room, 1 writer, 2 sends, 3 texts, fair | a message under way is listed for its sender, a stored one on both sides, another pair's only where addresses begin alike; Send sends what is shown; sends arrive; the screens implement `Rooms` | 115k |
| `profile_prefs` | 2 users, 2 presses, 1 registration | the flag has a URL, also after a kill; the URL was a stored picture's | 53k |
| `profile_uploaded` | 1 user, 2 presses | **violated**: the late delete removes the picture just reported as uploaded | |
| `write_pipeline` | 2 users, 3 writes, pipeline of 2, 2 streams, fair | results count for their batch, nothing is lost or overtaken, the app is told the truth, writes are decided | 96k |
| `write_given_up` | 1 user, 4 writes, pipeline of 4 | **violated**: an applied batch is given up in place of the refused one | |
| `credentials` | 2 users, 3 changes, 1 failure, fair | no stream opens with another user's token; no wake-up is lost; in the end one is open for the right user | 525k |
| `watch_target` | 2 documents, 2 versions, 2 listens, 2 breaks, a server that always counts, fair | keys in LevelDB and view agree and the noted changes fit them; a current view shows what the server had; with nothing under way it is current; listens become current or end | 242k |
| `watch_stale_token` | the same with 1 break, a server that counts when it must | **violated**: after a count that did not fit, a token is kept without its keys, and the next listen resumes from it | |

Bounds.  Two users are needed for crossing adds, four for a second pair whose
room is the first's; one of the four writes, to each of the others, so that her
messages reach both pairs' room and rooms of their own.  Two sends or presses of one device are the least that
overlap.  `discover` has one add per device and one place: two calls of one device
that overlap, and users who leave the circle, are covered by the theorems alone,
which hold for every `MaxAdds` and every set of places.  `MaxSeen` lets a subscription handle results twice, so that the
accumulated list is longer than the new results.  Six names suffice for the loop
to stop before, at and after a repeated name.  Five screens hold a second session over the
first: Main, Welcome, Login, Main, the home route having become a MainScreen, and
one screen more; or Welcome, Login, Main, Welcome, Main, the last opened by a
pick.  A form's late answer opens Login over any of them.  `MaxFixes` bounds
location requests, `MaxForms` registrations, `Seekers` and `Writers` who acts.
The bounds cut behaviour off, they do not stop anything that has begun, except
that a route is not pushed, and a result not handled, beyond `MaxDepth`,
`MaxSeen` and `MaxAdds`.

`kMaxPendingWrites` is 10 in the code and 2 in `write_pipeline`, so that three
writes overfill it; `write_given_up` needs four: a refused batch, one behind it whose write fails,
and two before it, the first response being read and the second dropped.  `MaxStreams` is 2: a stream and the one that
replaces it, with the first one's requests still under way; a stream is closed
only while another may be opened (`Spare`), so the last one stays open and
liveness is not lost to the bound.  Three changes let news, requests and answers
of different ages be on the queues together, and the first user come back.

Two documents let one come while the other goes, so that their number alone tells
nothing; two versions and two listens let the second listen resume from either;
two breaks interrupt the first answer and the one that follows a mismatch.  The
stale token takes 15 steps: one document replaces another, the server sends the
one that came and the number, the client forgets its keys and stores that
snapshot's token, and the app stops and listens again before the full answer has
come.  After a kill instead of the stop, five more steps make the view current
without the document: `CurrentMeansMatching` is false for a server that counts
only when it must.  One that counts with every answer tells the client again;
this is why the property is checked for `AlwaysCounts`.  The stale token is not the
only way to a wrong view: with `AlwaysCounts` FALSE and `ResumesFromItsKeys` as a
constraint TLC finds another, of 20 states.  A query whose count did not fit is stopped and listened to again
before that count's snapshot; the target is then not active, so its keys stay,
while `RaiseWatchSnapshot` forgets its token; the stream breaks, and the query is
watched without one, as if the client had nothing to remove.  Both are watches
whose token is not that of the keys at hand, and these are all there are
(`OnlyUnknownKeysMislead`).

These configurations do not check deadlock, because their bound really ends the
behaviour: `MCTiles` (a full list gets no further snapshot), `MCWrites` and
`MCGivenUp` (all writes made and decided, the last stream open), `MCCredentials`
(all changes made, the stream open), `MCWatch` and `MCStale` (the app has stopped
listening for the last time, or listens to a server that changes no more).

Fairness.  In the app's models only the Firestore client and the event loop are
fair: the client sends an accepted write until the server stores or refuses it,
and the answer's callback runs.  This takes for granted that the sender stays signed
in on the device: `WritesAreDecided` promises it of the user signed in alone, and
batches of another wait until that user is back.  `Discover` and `Chat` have one
user per device.  Nothing makes a user tap, a fix arrive or a
process live, so liveness says only that calls end (`CallsEnd`: complete or cut
off) and that sends reach a verdict (`SendsArrive`), kills included.

`WritePipeline` justifies that fairness from the client: the worker queue runs
what is put on it and the server goes on with an open stream (one weak fairness
for both), a backoff timer goes off (weak), and a token asked for again and again
is given in the end (strong: `TokenFails` keeps disabling it).  Nothing makes a
stream break, a timer find the stream idle or a user change.  `WritesAreDecided`
then needs every path that closes a stream to start it again.  In `Credentials`
each queue runs what is on it and the backoff elapses; changes and failures are
finitely many, and `SettlesOnTheUser` says where that leaves the stream.  In
`WatchTarget` a stream that is needed opens, the server answers, and the worker
queue takes what comes (each weak); nothing makes the app listen or stop, a stream
break or the server's data change.  `ListensSettle` needs that every listen,
reset and restart ends in a request that is answered with CURRENT and a snapshot;
`QuietMeansServed` is its safety half.

## Proofs

`DiscoverProofs` proves, for every finite set of users, every set of places and
circles, and every bound:

* `TypeCorrect`, `RoomsAreMutual`, `OneSidedIsExplained`, `DoneCallsAreComplete`,
  `NobodyBefriendsThemselves`: the invariants the runs check;
* `AddToFriendsIsAHandshake`: `Discover` implements `Handshake`.

They rest on the assumptions `Discover` makes about its constants and on one
inductive invariant, `IInv`.  None of the properties is inductive alone: that a
room's two friends list each other needs that the room's write was only made
after both documents (`Ordered`), which needs that each write names the friend of
its call (`Named`), that a call awaits a write the client still holds
(`Awaited`, or an acknowledgement could not be told from a stale one), that a
call not yet made has no documents (`Unmade`) and that a finished one has its
room (`Ended`).  `OthersOnly` says the candidates are other users, through every
set of results a subscription has handled; that an index drawn from the new
results stays within the accumulated list is a lemma about cardinalities
(`PicksAnother`), not an observation on small lists.

`FriendTilesProofs` proves types, `FriendsKeepATile` and `VisitedNamesAreUnique`
for lists of any length, from the loop's invariant.

`SessionProofs` proves types, `OldMainsAreBuried` and `ExplainsAccounts` for any
number of addresses, screens and sign-outs.  The first is not inductive: a Back
could uncover an old MainScreen.  The strengthening, `Buried`, says that a Welcome
lies somewhere over every MainScreen older than the last sign-out, and Welcome
is the one screen Back does not remove.  The second needs
the same explanation of every request to create an account: a profile stored or
refused, its write under way, or a kill before that write was stored.  `OnlyLateRepliesSignIn` is the other side of `session_signed_out`: in a
behaviour where the user signs out only when no sign-in is unanswered
(`SignOutsWait`), signing out lasts.  `OnlyLiveFormsResume` says that the form a
profile write was sent from is still on the stack when the answer comes.

`ChatProofs` proves types, `SendsTheShownText`, `BothSidesAreServed`,
`RoomsAreSeparate` and `ChatImplementsRooms`, for addresses of any form.
`RoomIsShared`: `Less` is a total order of different addresses, so both sides join
them alike.  `RoomsAreSeparate`: two sequences that begin two equal ones are equal
or one begins the other, so pairs of addresses none of which begins another are
told apart by their concatenation.  The refinement needs that a user's messages
are numbered below `sent` (`Numbered`), or a second Send could say an old message
again.  It maps `Send` to `Say`, `Deliver` to `Appear`, the `Answer` that a write has
failed, with its document not stored, to `Vanish`, and every other step to a
stutter.

`ProfileProofs` proves types, `FlagsHaveUrls` and `UrlsWereStored`.  The flag is
set after the URL and committed in order, so the invariant is about every prefix
of `unsaved`, not only about `prefs` and `disk`.  `OnlyLateDeletesLose` is the
other side of `profile_uploaded`: where no picture's URL arrives while a delete of
that user's picture is on its way (`DeletesInTime`), what is reported as uploaded
is stored.

`WritePipelineProofs` proves, for any finite sets of users and calls, any length of
the pipeline and any number of streams, the six invariants of the run and
`KeepsItsPromise`, that `WritePipeline` implements `DurableWrites`.  Its invariant
adds to them

* `Kept`: each user's batches are a subsequence of the ledger in the order of
  their ids, below `next_batch_id_`, and no two carry one call;
* `Piped` and `Streaming`: the pipeline holds the user's oldest batches, in
  order, and what state, handshake, timer, fate and responses can be together;
* `LinesInOrder`: on the line of every stream, also of closed ones, each
  batch's earlier calls are decided or ahead of it on the same line.

`ToldTheTruth` is an invariant of each call: told once, it has no callback left, and
it is stored only if a kill came between telling and acknowledging it; `Kept` (no
two batches carry one call) and the agreement of callbacks with stored batches
carry it through ids that are given again.

`LinesInOrder` carries the refinement: a late request of a closed stream decides
on a call only when everything before it in its user's ledger is decided or was
taken up from that line.  `Expected`, the agreement of positions, is what makes
the position a result is counted for the right one.

`NeverRestsWithWorkLeft` is the safety half of `WritesAreDecided`: a client that
waits for nothing (`Quiet`: no token, timer, request or response under way) has
had every write of its user decided.  `OnlyOvertakenAnswersMislead` is the other
side of `write_given_up`: where no response already received is overtaken by the
failure of a write (`AnswersOvertaken`), the batch given up is the refused one.

`CredentialsProofs` proves types, `TokensAreOwn`, `AnswersMeetStarting` and
`NoWakeUpIsLost` for any set of users and any number of changes and failures.  `OwnToken` is not
inductive; the invariant follows the news and the answers through the queues:
`NewsArrives` (the last news under way is of Auth's user, and with none under way
the client's user is Auth's), `AnswersFit` (an answer of the current close count,
with no news ahead of it, is of the client's user or a failure), `Ages` (close
counts never run ahead), `OneAnswer` (of requests and answers of the current
close count there is one while the stream is starting, else none).  The last
theorem adds `Awaited`: for a stream that is starting a request or an answer of
the current close count is on some queue; with the queues empty it is open, and
for the user there is.

`WatchTargetProofs` proves, for any finite set of documents and any number of
versions, listens and breaks, types and `MappingsAreKept`, whatever the server
counts.  `CurrentMeansMatching` is false for a server that counts only what it left
out; it is proved where one of two things holds: the server counts every time
(`CurrentViewsMatch`, which assumes `AlwaysCounts` in its statement), or every watch
request's token is that of the keys at hand (`OnlyUnknownKeysMislead`, which
supposes `ServerKnowsTheKeys`; both behaviours told above break it).
`QuietClientsAreServed` proves `QuietMeansServed` under either: a listened query with
nothing under way is current.

Types and `MappingsAreKept` rest on `Types`, which adds that a stream that
is not open carries nothing and no target state, that no token or snapshot is of
a version to come, and `AcksAreCounted`: the answers a target waits for are the
requests not taken up and the answers on their way.

The others need what is on the stream, `IInv`:

* `Batches`: a document told, and a count, is true of the snapshot it precedes, and
  behind a reset all that snapshot's documents are told;
* `Requests`: the last request watches, with a token that fits the keys;
* `Watched` and `Complete`: when all requests are taken up, the last answer is a
  watch's, and the messages up to each snapshot behind it bring (`Brought`) what
  the keys at hand, or the snapshot before it, lack, and drop what they have too
  much; or a count comes with one set a part of the other;
* `Receiving`: the same of the next snapshot and the keys an active target will
  have with what it has noted; when the count comes equal numbers then mean equal
  sets, which is why a count is enough;
* `MismatchIsNext`, `CurrentAwaitsAck`: a count that did not fit leaves nothing
  noted and its snapshot at the head; a view that stays current over a break gets
  no snapshot before the answer to its new request;
* `TokensFit`: each copy of the token is that of the keys stored, if there are any.

The last theorem adds `Renewal`: behind the last answer, and behind each reset, comes
the word that the target is current; a client whose requests are all answered has
that word, or it is still on the stream, unless a count did not fit, and then the
next snapshot asks anew.

Only model-checked: `CallsEnd`, `SendsArrive`, `WritesAreDecided`,
`SettlesOnTheUser` and `ListensSettle`, since liveness is outside this prover.  The constants'
assumptions, named in each module, are the only ones the proofs use.

## Not modelled

Of the app: the Google sign-in of `loginscreen.dart:30-42`, which nothing calls;
the text of the forms beyond the address; layout, the radius slider beyond the
circle it chooses; display names; the order of messages, which is that of the
senders' clocks; a rebuild of a covered MainScreen, whose `build` would sign out
again; two devices of one account; the security rules of the server.

Of the Firestore client: several targets on one stream and targets the server
refuses; queries for one document; limbo resolution; the documents' contents and
the pending writes a view adds to them, which `Chat` models for its own list and
`Discover` leaves out of its query's results; transactions, `waitForPendingWrites` and switching the
network off, which the app does not use; garbage collection.  The rest of `src/ios/Pods` is third-party code (BoringSSL,
gRPC, leveldb, abseil, protocol tables, root certificates) that has none of this
program's logic.  It is also nearly all of the repository by lines, so the share
of the repository's lines that these modules stand for is small.

## Plan

Done: discovery, friends list, session, chat, profile picture, the client's
write path, credentials and listens, with theorems about each.  Left, in order:

1. `WatchTarget` with several targets on one stream, limbo resolution, and views
   that include the pending writes of `WritePipeline`.
2. An abstract specification of the preferences (a record that is a prefix of
   the sets made) that `Profile` implements.
3. A composition of `Session` and `Discover`: the MainScreens that picks push
   are the ones that ask for locations, and a sign-out leaves subscriptions alive.
4. `Discover` with the location write as a durable write of its own, and with
   snapshots that wait in the listener's queue.
