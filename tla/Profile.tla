------------------------------ MODULE Profile ------------------------------
(***************************************************************************)
(* The profile picture: an object per user in Firebase Storage, two        *)
(* preferences per device that say whether there is a picture and at which *)
(* URL, and the variable url that the profile screen shows.  uploadImage   *)
(* asks for the old picture's delete and for the new one's upload at once. *)
(***************************************************************************)
EXTENDS Naturals, Sequences

CONSTANTS
    Emails,     \* the accounts that sign in on the device, one after another
    Null,       \* a preference that was never set
    Default,    \* the URL of the default picture; also url = ""
    MaxPicks,   \* bound: presses of the camera button
    MaxForms    \* bound: registrations

ASSUME Sentinels == Null \notin BOOLEAN \union Nat \union {Default} /\ Default \notin Nat
ASSUME BoundsAreNat == MaxPicks \in Nat /\ MaxForms \in Nat

Picks == 1 .. MaxPicks      \* a press; also the picture it uploads and its URL
Pref == [flag : BOOLEAN \union {Null}, url : Picks \union {Null}]

VARIABLES
    object,     \* server: the picture of each user, 0 for none
    taken,      \* server: the pictures it has ever stored
    owner,      \* pick: the user who pressed, Null before
    at,         \* pick: where its uploadImage is
    url,        \* pick: what getDownloadURL has returned, 0 before
    deleting,   \* delete requests the server has not handled
    putting,    \* uploads the server has not handled
    prefs,      \* device: SharedPreferences, as the process sees it
    disk,       \* device: SharedPreferences, as stored
    unsaved,    \* device: the sets not yet stored, in order
    shown,      \* device: the global variable url
    reported,   \* user: the pick last reported as uploaded, 0 if none since a press
    forms       \* registrations so far

vars == <<object, taken, owner, at, url, deleting, putting, prefs, disk, unsaved, shown, reported, forms>>
device == <<prefs, disk, unsaved, shown>>

TypeOK ==
    /\ object \in [Emails -> 0 .. MaxPicks] /\ reported \in [Emails -> 0 .. MaxPicks]
    /\ owner \in [Picks -> Emails \union {Null}]
    /\ at \in [Picks -> {"unpressed", "uploading", "asking", "answered", "ended"}]
    /\ url \in [Picks -> 0 .. MaxPicks] /\ taken \subseteq Picks
    /\ deleting \subseteq Picks /\ putting \subseteq Picks
    /\ prefs \in Pref /\ disk \in Pref
    /\ unsaved \in Seq([key : {"flag"}, value : BOOLEAN] \union [key : {"url"}, value : Picks])
    /\ shown \in Picks \union {Null, Default}
    /\ forms \in 0 .. MaxForms

Init ==
    /\ object = [e \in Emails |-> 0] /\ reported = [e \in Emails |-> 0]
    /\ owner = [n \in Picks |-> Null]
    /\ at = [n \in Picks |-> "unpressed"] /\ url = [n \in Picks |-> 0]
    /\ deleting = {} /\ putting = {} /\ taken = {}
    /\ prefs = [flag |-> Null, url |-> Null] /\ disk = prefs
    /\ unsaved = <<>> /\ shown = Default /\ forms = 0

-----------------------------------------------------------------------------
(* Preferences: a set is seen at once and stored later, in order.          *)

Setting(key, value) == [key |-> key, value |-> value]

Save ==
    /\ unsaved # <<>>
    /\ disk' = [disk EXCEPT ![Head(unsaved).key] = Head(unsaved).value]
    /\ unsaved' = Tail(unsaved)
    /\ UNCHANGED <<object, taken, owner, at, url, deleting, putting, prefs, shown, reported, forms>>

\* Register, for whichever address: this device has no picture.
Register ==
    /\ forms < MaxForms /\ forms' = forms + 1
    /\ prefs' = [prefs EXCEPT !.flag = FALSE]
    /\ unsaved' = Append(unsaved, Setting("flag", FALSE))
    /\ UNCHANGED <<object, taken, owner, at, url, deleting, putting, disk, shown, reported>>

\* A ProfileScreen is opened: checkSharedPrefs.  With no flag its condition is
\* null and throws, and url keeps what an earlier screen put there.
Open ==
    /\ prefs.flag # Null
    /\ shown' = IF prefs.flag THEN prefs.url ELSE Default
    /\ UNCHANGED <<object, taken, owner, at, url, deleting, putting, prefs, disk, unsaved, reported, forms>>

\* The process is killed: sets not stored are lost, no upload is waited for,
\* and what was on its way to the server may still get there.
Restart ==
    /\ prefs' = disk /\ unsaved' = <<>> /\ shown' = Default
    /\ at' = [n \in Picks |-> IF at[n] = "unpressed" THEN at[n] ELSE "ended"]
    /\ UNCHANGED <<object, taken, owner, url, deleting, putting, disk, reported, forms>>

-----------------------------------------------------------------------------
(* uploadImage.                                                            *)

\* The n-th press, by e, once the gallery has returned: a picture or null.  The
\* delete is asked for first in either case, and nothing waits for it; without
\* a picture putFile throws.
Pick(n, e) ==
    /\ at[n] = "unpressed" /\ \A k \in 1 .. n - 1 : at[k] # "unpressed"
    /\ owner' = [owner EXCEPT ![n] = e]
    /\ deleting' = deleting \union {n}
    /\ reported' = [reported EXCEPT ![e] = 0]
    /\ \/ at' = [at EXCEPT ![n] = "uploading"] /\ putting' = putting \union {n}
       \/ at' = [at EXCEPT ![n] = "ended"] /\ UNCHANGED putting
    /\ UNCHANGED <<object, taken, url, device, forms>>

\* The upload task is complete, also after a failure; the URL is asked for.
Complete(n) ==
    /\ at[n] = "uploading" /\ n \notin putting
    /\ at' = [at EXCEPT ![n] = "asking"]
    /\ UNCHANGED <<object, taken, owner, url, deleting, putting, device, reported, forms>>

AnswerFlagFirst(n) ==  \* mutant: the flag is set before the URL
    /\ at[n] = "answered"
    /\ at' = [at EXCEPT ![n] = "ended"]
    /\ prefs' = [flag |-> TRUE, url |-> url[n]]
    /\ unsaved' = unsaved \o <<Setting("flag", TRUE), Setting("url", url[n])>>
    /\ reported' = [reported EXCEPT ![owner[n]] = n]
    /\ UNCHANGED <<object, taken, owner, url, deleting, putting, disk, shown, forms>>

\* The URL arrives: it is set, then the flag, and the upload is reported.
Answer(n) ==
    /\ at[n] = "answered"
    /\ at' = [at EXCEPT ![n] = "ended"]
    /\ prefs' = [flag |-> TRUE, url |-> url[n]]
    /\ unsaved' = unsaved \o <<Setting("url", url[n]), Setting("flag", TRUE)>>
    /\ reported' = [reported EXCEPT ![owner[n]] = n]
    /\ UNCHANGED <<object, taken, owner, url, deleting, putting, disk, shown, forms>>

-----------------------------------------------------------------------------
(* Firebase Storage.  A request may be handled, or fail.                   *)

Delete(n) ==
    /\ n \in deleting
    /\ deleting' = deleting \ {n}
    /\ \/ object' = [object EXCEPT ![owner[n]] = 0]
       \/ UNCHANGED object
    /\ UNCHANGED <<taken, owner, at, url, putting, device, reported, forms>>

Put(n) ==
    /\ n \in putting
    /\ putting' = putting \ {n}
    /\ \/ object' = [object EXCEPT ![owner[n]] = n] /\ taken' = taken \union {n}
       \/ UNCHANGED <<object, taken>>
    /\ UNCHANGED <<owner, at, url, deleting, device, reported, forms>>

UrlOfNothing(n) ==  \* mutant: no error where there is no object
    /\ at[n] = "asking"
    /\ url' = [url EXCEPT ![n] = object[owner[n]]]
    /\ at' = [at EXCEPT ![n] = "answered"]
    /\ UNCHANGED <<object, taken, owner, deleting, putting, device, reported, forms>>

UrlOfOwnUpload(n) ==  \* mutant: the URL is made up from the upload's name
    /\ at[n] = "asking"
    /\ url' = [url EXCEPT ![n] = n]
    /\ at' = [at EXCEPT ![n] = "answered"]
    /\ UNCHANGED <<object, taken, owner, deleting, putting, device, reported, forms>>

\* getDownloadURL: of whatever picture the user has by now; with none it throws.
Url(n) ==
    /\ at[n] = "asking"
    /\ url' = [url EXCEPT ![n] = object[owner[n]]]
    /\ at' = [at EXCEPT ![n] = IF object[owner[n]] = 0 THEN "ended" ELSE "answered"]
    /\ UNCHANGED <<object, taken, owner, deleting, putting, device, reported, forms>>

Next ==
    \/ Save \/ Register \/ Open \/ Restart
    \/ \E n \in Picks :
        \/ \E e \in Emails : Pick(n, e)
        \/ Complete(n) \/ Answer(n) \/ Delete(n) \/ Put(n) \/ Url(n)

Spec == Init /\ [][Next]_vars

-----------------------------------------------------------------------------
(* Properties.                                                             *)

\* Whatever the process or a kill leaves, a set doProfilePicExists comes with a
\* URL, so no ProfileScreen is given the null image.
FlagHasUrl ==
    /\ prefs.flag = TRUE => prefs.url # Null
    /\ disk.flag = TRUE => disk.url # Null
    /\ shown # Null

\* A URL the device keeps or shows was one of a stored picture, even when the
\* upload that asked for it had failed or had been overtaken.
UrlWasStored == ({prefs.url, disk.url, shown} \ {Null, Default}) \subseteq taken

\* "Profile picture uploaded": from then on, until the camera is pressed again,
\* the user has a picture.
UploadedMeansStored == \A e \in Emails : reported[e] # 0 => object[e] # 0
=============================================================================
