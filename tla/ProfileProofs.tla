---------------------------- MODULE ProfileProofs ----------------------------
(***************************************************************************)
(* Proofs about Profile, for every set of accounts, any number of presses  *)
(* of the camera button and any number of registrations.                   *)
(***************************************************************************)
EXTENDS Profile, SequenceTheorems, TLAPS

FlagSetting == [key : {"flag"}, value : BOOLEAN]
UrlSetting == [key : {"url"}, value : Picks]

\* What was pressed has an owner, what is answered has a URL of a picture that
\* was stored, and so has every URL set, kept or shown.
Origins ==
    /\ \A n \in Picks : at[n] # "unpressed" => owner[n] \in Emails
    /\ \A n \in deleting \union putting : at[n] # "unpressed"
    /\ \A e \in Emails : object[e] # 0 => object[e] \in taken
    /\ \A n \in Picks : at[n] = "answered" => url[n] \in taken
    /\ prefs.url # Null => prefs.url \in taken
    /\ disk.url # Null => disk.url \in taken
    /\ \A i \in DOMAIN unsaved : unsaved[i].key = "url" => unsaved[i].value \in taken
    /\ shown \notin {Null, Default} => shown \in taken

\* Before a set of the flag is stored, a URL is.
SetsFlag(s) == s.key = "flag" /\ s.value = TRUE
UrlFirst ==
    \A i \in DOMAIN unsaved : SetsFlag(unsaved[i]) =>
        \/ disk.url # Null
        \/ \E j \in DOMAIN unsaved : j < i /\ unsaved[j].key = "url"

IInv == TypeOK /\ Origins /\ UrlFirst /\ FlagHasUrl

-----------------------------------------------------------------------------
(* The data.                                                               *)

LEMMA PickType ==
    \A n \in Picks : n \in Nat /\ n # 0 /\ n # Null /\ n # Default /\ n \in 0 .. MaxPicks
BY Sentinels, BoundsAreNat DEF Picks

LEMMA NullType == Null # Default /\ Null # TRUE /\ Null # FALSE
BY Sentinels

LEMMA PrefFields ==
    ASSUME NEW d \in Pref
    PROVE  /\ \A v \in BOOLEAN : LET e == [d EXCEPT !["flag"] = v] IN
                e \in Pref /\ e.flag = v /\ e.url = d.url
           /\ \A v \in Picks : LET e == [d EXCEPT !["url"] = v] IN
                e \in Pref /\ e.flag = d.flag /\ e.url = v
BY DEF Pref

LEMMA SettingType ==
    /\ \A v \in BOOLEAN : LET s == Setting("flag", v) IN
        s \in FlagSetting \union UrlSetting /\ s.key = "flag" /\ (SetsFlag(s) <=> v)
    /\ \A v \in Picks : LET s == Setting("url", v) IN
        s \in FlagSetting \union UrlSetting /\ s.key = "url" /\ s.value = v /\ ~SetsFlag(s)
BY DEF Setting, FlagSetting, UrlSetting, SetsFlag

LEMMA UnsavedShape ==
    ASSUME TypeOK
    PROVE  /\ unsaved \in Seq(FlagSetting \union UrlSetting) /\ Len(unsaved) \in Nat
           /\ DOMAIN unsaved = 1 .. Len(unsaved)
           /\ \A i \in 1 .. Len(unsaved) :
                \/ unsaved[i].key = "flag" /\ unsaved[i].value \in BOOLEAN
                \/ unsaved[i].key = "url" /\ unsaved[i].value \in Picks
<1>1. unsaved \in Seq(FlagSetting \union UrlSetting)
  BY DEF TypeOK, FlagSetting, UrlSetting
<1>2. \A i \in 1 .. Len(unsaved) : unsaved[i] \in FlagSetting \union UrlSetting
  BY <1>1, ElementOfSeq
<1> QED BY <1>1, <1>2, LenProperties DEF FlagSetting, UrlSetting

LEMMA InitIInv == Init => IInv
<1> SUFFICES ASSUME Init PROVE IInv
  OBVIOUS
<1>1. prefs = [flag |-> Null, url |-> Null] /\ disk = prefs /\ prefs \in Pref
  BY DEF Init, Pref
<1>2. TypeOK
  BY <1>1, BoundsAreNat DEF Init, TypeOK
<1>3. Origins /\ UrlFirst
  BY <1>1 DEF Init, Origins, UrlFirst
<1>4. FlagHasUrl
  <2>1. prefs.flag = Null /\ disk.flag = Null /\ shown = Default
    BY <1>1 DEF Init
  <2> QED BY <2>1, NullType, Zenon DEF FlagHasUrl
<1> QED BY <1>2, <1>3, <1>4 DEF IInv

-----------------------------------------------------------------------------
(* The preferences.                                                        *)

LEMMA SaveStep ==
    ASSUME IInv, Save
    PROVE  IInv'
<1> DEFINE head == Head(unsaved)
<1>1. /\ unsaved \in Seq(FlagSetting \union UrlSetting) /\ Len(unsaved) \in Nat
      /\ DOMAIN unsaved = 1 .. Len(unsaved)
      /\ \A i \in 1 .. Len(unsaved) :
            \/ unsaved[i].key = "flag" /\ unsaved[i].value \in BOOLEAN
            \/ unsaved[i].key = "url" /\ unsaved[i].value \in Picks
  BY UnsavedShape DEF IInv
<1>2. unsaved # << >> /\ Len(unsaved) > 0 /\ head = unsaved[1]
  BY <1>1, EmptySeq DEF Save
<1>3. /\ unsaved' \in Seq(FlagSetting \union UrlSetting) /\ Len(unsaved') = Len(unsaved) - 1
      /\ \A i \in 1 .. Len(unsaved) - 1 : unsaved'[i] = unsaved[i + 1]
  BY <1>1, <1>2, HeadTailProperties DEF Save
<1>4. DOMAIN unsaved' = 1 .. Len(unsaved) - 1
  BY <1>3, LenProperties
<1>5. disk \in Pref
  BY DEF IInv, TypeOK
<1>6. CASE head.key = "flag"
  <2>1. head.value \in BOOLEAN
    BY <1>1, <1>2, <1>6
  <2>2. disk' \in Pref /\ disk'.flag = head.value /\ disk'.url = disk.url
    BY <1>5, <1>6, <2>1, PrefFields DEF Save
  <2>3. head.value = TRUE => disk.url # Null
    <3>1. SetsFlag(head) => disk.url # Null
      BY <1>1, <1>2 DEF IInv, UrlFirst
    <3> QED BY <1>6, <3>1 DEF SetsFlag
  <2>4. TypeOK'
    BY <1>3, <2>2 DEF Save, IInv, TypeOK, FlagSetting, UrlSetting
  <2>5. Origins'
    BY <1>1, <1>3, <1>4, <2>2 DEF Save, IInv, Origins
  <2>6. FlagHasUrl'
    BY <2>2, <2>3 DEF Save, IInv, FlagHasUrl
  <2>7. UrlFirst'
    <3> SUFFICES ASSUME NEW i \in 1 .. Len(unsaved) - 1, SetsFlag(unsaved[i + 1]), disk.url = Null
                 PROVE  \E j \in 1 .. Len(unsaved) - 1 : j < i /\ unsaved[j + 1].key = "url"
      <4>1. ASSUME NEW i \in DOMAIN unsaved', SetsFlag(unsaved'[i]), disk'.url = Null
            PROVE  i \in 1 .. Len(unsaved) - 1 /\ SetsFlag(unsaved[i + 1]) /\ disk.url = Null
        BY <1>3, <1>4, <2>2, <4>1
      <4>2. \A j \in 1 .. Len(unsaved) - 1 :
                j \in DOMAIN unsaved' /\ unsaved'[j].key = unsaved[j + 1].key
        BY <1>3, <1>4
      <4> QED BY <4>1, <4>2 DEF UrlFirst
    <3>1. i + 1 \in DOMAIN unsaved
      BY <1>1
    <3>2. PICK k \in DOMAIN unsaved : k < i + 1 /\ unsaved[k].key = "url"
      BY <3>1 DEF IInv, UrlFirst
    <3>3. k # 1
      BY <1>2, <1>6, <3>2
    <3>4. k - 1 \in 1 .. Len(unsaved) - 1 /\ k - 1 < i /\ (k - 1) + 1 = k
      BY <1>1, <3>2, <3>3
    <3> QED BY <3>2, <3>4
  <2> QED BY <2>4, <2>5, <2>6, <2>7 DEF IInv
<1>7. CASE head.key = "url"
  <2>1. head.value \in Picks /\ head.value \in taken
    BY <1>1, <1>2, <1>7 DEF IInv, Origins
  <2>2. disk' \in Pref /\ disk'.flag = disk.flag /\ disk'.url = head.value /\ disk'.url # Null
    <3>1. disk' = [disk EXCEPT !["url"] = head.value]
      BY <1>7 DEF Save
    <3>2. disk' \in Pref /\ disk'.flag = disk.flag /\ disk'.url = head.value
      <4>1. \A v \in Picks : LET e == [disk EXCEPT !["url"] = v] IN
                e \in Pref /\ e.flag = disk.flag /\ e.url = v
        BY <1>5, PrefFields
      <4> QED BY ONLY <2>1, <3>1, <4>1
    <3> QED BY <2>1, <3>2, PickType
  <2>3. TypeOK'
    BY <1>3, <2>2 DEF Save, IInv, TypeOK, FlagSetting, UrlSetting
  <2>4. Origins'
    BY <1>1, <1>3, <1>4, <2>1, <2>2 DEF Save, IInv, Origins
  <2>5. FlagHasUrl' /\ UrlFirst'
    BY <2>2 DEF Save, IInv, FlagHasUrl, UrlFirst
  <2> QED BY <2>3, <2>4, <2>5 DEF IInv
<1> QED BY <1>1, <1>2, <1>6, <1>7

LEMMA RegisterStep ==
    ASSUME IInv, Register
    PROVE  IInv'
<1> DEFINE s == Setting("flag", FALSE)
<1>1. s \in FlagSetting \union UrlSetting /\ s.key = "flag"
  BY SettingType
<1>2. unsaved \in Seq(FlagSetting \union UrlSetting) /\ Len(unsaved) \in Nat
      /\ DOMAIN unsaved = 1 .. Len(unsaved)
  BY UnsavedShape DEF IInv
<1>3. unsaved' = Append(unsaved, s)
  BY DEF Register
<1> HIDE DEF s
<1>4. /\ unsaved' \in Seq(FlagSetting \union UrlSetting) /\ Len(unsaved') = Len(unsaved) + 1
      /\ \A i \in 1 .. Len(unsaved) : unsaved'[i] = unsaved[i]
      /\ unsaved'[Len(unsaved) + 1] = s
  BY <1>1, <1>2, <1>3, AppendProperties
<1>5. DOMAIN unsaved' = 1 .. Len(unsaved) + 1
  BY <1>4, LenProperties
<1>6. prefs' \in Pref /\ prefs'.flag = FALSE /\ prefs'.url = prefs.url
  BY DEF Register, IInv, TypeOK, Pref
<1>7. TypeOK'
  <2>1. forms' \in 0 .. MaxForms
    BY BoundsAreNat DEF Register, IInv, TypeOK
  <2> QED BY <1>4, <1>6, <2>1 DEF Register, IInv, TypeOK, FlagSetting, UrlSetting
<1>8. Origins'
  <2>1. \A i \in DOMAIN unsaved' : unsaved'[i].key = "url" => unsaved'[i].value \in taken
    BY <1>1, <1>2, <1>4, <1>5 DEF IInv, Origins
  <2>2. prefs'.url # Null => prefs'.url \in taken
    BY <1>6 DEF IInv, Origins
  <2> QED BY <2>1, <2>2 DEF Register, IInv, Origins
<1>9. FlagHasUrl'
  BY <1>6 DEF Register, IInv, FlagHasUrl
<1>10. UrlFirst'
  <2>1. ~SetsFlag(s) /\ disk' = disk
    BY SettingType DEF Register, s
  <2> QED BY <1>2, <1>4, <1>5, <2>1 DEF IInv, UrlFirst
<1> QED BY <1>7, <1>8, <1>9, <1>10 DEF IInv

LEMMA OpenStep ==
    ASSUME IInv, Open
    PROVE  IInv'
<1>1. shown' = Default \/ (prefs.flag = TRUE /\ shown' = prefs.url)
  BY DEF Open, IInv, TypeOK, Pref
<1>2. shown' \in Picks \union {Default} /\ (shown' # Default => shown' \in taken)
  BY <1>1 DEF IInv, TypeOK, Pref, Origins, FlagHasUrl
<1> QED BY <1>2, NullType, PickType DEF Open, IInv, TypeOK, Origins, UrlFirst, FlagHasUrl

LEMMA RestartStep ==
    ASSUME IInv, Restart
    PROVE  IInv'
<1>1. unsaved' = << >> /\ DOMAIN unsaved' = {} /\ prefs' = disk /\ shown' = Default
  BY DEF Restart
<1>2. TypeOK'
  BY <1>1 DEF Restart, IInv, TypeOK
<1>3. Origins'
  BY <1>1 DEF Restart, IInv, TypeOK, Origins
<1>4. UrlFirst' /\ FlagHasUrl'
  BY <1>1, NullType DEF Restart, IInv, UrlFirst, FlagHasUrl
<1> QED BY <1>2, <1>3, <1>4 DEF IInv

-----------------------------------------------------------------------------
(* uploadImage and Firebase Storage.                                       *)

LEMMA AnswerStep ==
    ASSUME IInv, NEW n \in Picks, Answer(n)
    PROVE  IInv'
<1> DEFINE s == Setting("url", url[n])
           t == Setting("flag", TRUE)
<1>1. /\ owner[n] \in Emails /\ url[n] \in taken /\ url[n] \in Picks
  BY DEF Answer, IInv, TypeOK, Origins
<1>2. /\ s \in FlagSetting \union UrlSetting /\ s.key = "url" /\ s.value = url[n]
      /\ t \in FlagSetting \union UrlSetting /\ t.key = "flag" /\ ~SetsFlag(s)
  BY <1>1, SettingType
<1>3. unsaved \in Seq(FlagSetting \union UrlSetting) /\ Len(unsaved) \in Nat
      /\ DOMAIN unsaved = 1 .. Len(unsaved)
  BY UnsavedShape DEF IInv
<1>4. unsaved' = unsaved \o <<s, t>>
  BY DEF Answer
<1> HIDE DEF s, t
<1>5. /\ unsaved' \in Seq(FlagSetting \union UrlSetting) /\ Len(unsaved') = Len(unsaved) + 2
      /\ \A i \in 1 .. Len(unsaved) : unsaved'[i] = unsaved[i]
      /\ unsaved'[Len(unsaved) + 1] = s /\ unsaved'[Len(unsaved) + 2] = t
  BY <1>2, <1>3, <1>4, ConcatProperties
<1>6. DOMAIN unsaved' = 1 .. Len(unsaved) + 2
  BY <1>5, LenProperties
<1>7. prefs' \in Pref /\ prefs'.flag = TRUE /\ prefs'.url = url[n]
  BY <1>1 DEF Answer, Pref
<1>8. TypeOK'
  BY <1>1, <1>5, <1>7, PickType DEF Answer, IInv, TypeOK, FlagSetting, UrlSetting
<1>9. Origins'
  <2>1. \A i \in DOMAIN unsaved' : unsaved'[i].key = "url" => unsaved'[i].value \in taken
    BY <1>1, <1>2, <1>3, <1>5, <1>6 DEF IInv, Origins
  <2> QED BY <1>1, <1>7, <2>1 DEF Answer, IInv, TypeOK, Origins
<1>10. FlagHasUrl'
  BY <1>1, <1>7, PickType DEF Answer, IInv, FlagHasUrl
<1>11. UrlFirst'
  <2>1. disk' = disk
    BY DEF Answer
  <2>2. ASSUME NEW i \in DOMAIN unsaved', SetsFlag(unsaved'[i]), disk.url = Null
        PROVE  \E j \in DOMAIN unsaved' : j < i /\ unsaved'[j].key = "url"
    <3>1. CASE i <= Len(unsaved)
      <4>1. i \in DOMAIN unsaved /\ unsaved'[i] = unsaved[i]
        BY <1>3, <1>5, <1>6, <3>1
      <4>2. PICK j \in DOMAIN unsaved : j < i /\ unsaved[j].key = "url"
        BY <2>2, <4>1 DEF IInv, UrlFirst
      <4> QED BY <1>3, <1>5, <1>6, <4>2
    <3>2. CASE i = Len(unsaved) + 1
      BY <1>2, <1>5, <2>2, <3>2
    <3>3. CASE i = Len(unsaved) + 2
      <4>1. Len(unsaved) + 1 \in DOMAIN unsaved' /\ Len(unsaved) + 1 < i
        BY <1>3, <1>6, <3>3
      <4> QED BY <1>2, <1>5, <4>1
    <3> QED BY <1>3, <1>6, <3>1, <3>2, <3>3
  <2> QED BY <2>1, <2>2 DEF UrlFirst
<1> QED BY <1>8, <1>9, <1>10, <1>11 DEF IInv

\* The steps that leave the device alone.
LEMMA DeviceSame ==
    ASSUME IInv, UNCHANGED device
    PROVE  UrlFirst' /\ FlagHasUrl'
BY DEF device, IInv, UrlFirst, FlagHasUrl

LEMMA PickStep ==
    ASSUME IInv, NEW n \in Picks, NEW e \in Emails, Pick(n, e)
    PROVE  IInv'
<1>1. TypeOK'
  <2>1. deleting' \subseteq Picks /\ putting' \subseteq Picks /\ 0 \in 0 .. MaxPicks
    BY BoundsAreNat DEF Pick, IInv, TypeOK
  <2> QED BY <2>1 DEF Pick, device, IInv, TypeOK
<1>2. Origins'
  BY DEF Pick, device, IInv, TypeOK, Origins
<1> QED BY <1>1, <1>2, DeviceSame DEF Pick, IInv

LEMMA ServerStep ==
    ASSUME IInv, NEW n \in Picks, Complete(n) \/ Delete(n) \/ Put(n) \/ Url(n)
    PROVE  IInv'
<1>1. UNCHANGED device
  BY DEF Complete, Delete, Put, Url
<1>2. CASE Complete(n)
  <2>1. TypeOK' /\ Origins'
    BY <1>2 DEF Complete, device, IInv, TypeOK, Origins
  <2> QED BY <1>1, <2>1, DeviceSame DEF IInv
<1>3. CASE Delete(n)
  <2>1. owner[n] \in Emails
    BY <1>3 DEF Delete, IInv, Origins
  <2>2. TypeOK'
    <3>1. 0 \in 0 .. MaxPicks
      BY BoundsAreNat
    <3>2. object' \in [Emails -> 0 .. MaxPicks]
      BY <1>3, <2>1, <3>1 DEF Delete, IInv, TypeOK
    <3> QED BY <1>3, <3>2 DEF Delete, device, IInv, TypeOK
  <2>3. Origins'
    BY <1>3, <2>1 DEF Delete, device, IInv, TypeOK, Origins
  <2> QED BY <1>1, <2>2, <2>3, DeviceSame DEF IInv
<1>4. CASE Put(n)
  <2>1. owner[n] \in Emails
    BY <1>4 DEF Put, IInv, Origins
  <2>2. TypeOK' /\ Origins'
    BY <1>4, <2>1, PickType DEF Put, device, IInv, TypeOK, Origins
  <2> QED BY <1>1, <2>2, DeviceSame DEF IInv
<1>5. CASE Url(n)
  <2>1. owner[n] \in Emails
    BY <1>5 DEF Url, IInv, Origins
  <2>2. TypeOK' /\ Origins'
    BY <1>5, <2>1 DEF Url, device, IInv, TypeOK, Origins
  <2> QED BY <1>1, <2>2, DeviceSame DEF IInv
<1> QED BY <1>2, <1>3, <1>4, <1>5

LEMMA NextIInv == IInv /\ [Next]_vars => IInv'
<1> SUFFICES ASSUME IInv, [Next]_vars PROVE IInv'
  OBVIOUS
<1>1. CASE UNCHANGED vars
  BY <1>1 DEF vars, IInv, TypeOK, Origins, UrlFirst, FlagHasUrl
<1> QED BY <1>1, SaveStep, RegisterStep, OpenStep, RestartStep, PickStep, AnswerStep,
           ServerStep DEF Next

LEMMA Inductive == Spec => []IInv
BY InitIInv, NextIInv, PTL DEF Spec

-----------------------------------------------------------------------------
(* The properties.                                                         *)

\* Types: an answered getDownloadURL names a picture, never nothing.
THEOREM TypeCorrect == Spec => []TypeOK
<1>1. IInv => TypeOK
  BY DEF IInv
<1> QED BY <1>1, Inductive, PTL

\* A set doProfilePicExists comes with a URL, in the process and after a kill.
THEOREM FlagsHaveUrls == Spec => []FlagHasUrl
<1>1. IInv => FlagHasUrl
  BY DEF IInv
<1> QED BY <1>1, Inductive, PTL

\* A URL kept or shown was one of a stored picture.
THEOREM UrlsWereStored == Spec => []UrlWasStored
<1>1. IInv => UrlWasStored
  BY DEF IInv, Origins, UrlWasStored
<1> QED BY <1>1, Inductive, PTL

-----------------------------------------------------------------------------
(* Late deletes.                                                           *)

\* No URL of a user's picture arrives while a delete of that user's picture is
\* still on its way.
DeletesInTime ==
    \A n \in deleting, k \in Picks : owner[k] = owner[n] => at[k] # "answered"

\* What is reported, or about to be, is stored; no delete is left that could
\* take it away.
Lasting ==
    /\ \A n \in deleting : reported[owner[n]] = 0
    /\ \A k \in Picks : at[k] = "answered" => object[owner[k]] # 0
    /\ UploadedMeansStored

LEMMA NextLasting == IInv /\ DeletesInTime /\ Lasting /\ [Next]_vars => Lasting'
<1> SUFFICES ASSUME IInv, DeletesInTime, Lasting, [Next]_vars PROVE Lasting'
  OBVIOUS
<1>0. /\ object \in [Emails -> 0 .. MaxPicks] /\ reported \in [Emails -> 0 .. MaxPicks]
      /\ owner \in [Picks -> Emails \union {Null}] /\ deleting \subseteq Picks
      /\ at \in [Picks -> {"unpressed", "uploading", "asking", "answered", "ended"}]
      /\ \A n \in Picks : at[n] # "unpressed" => owner[n] \in Emails
      /\ \A n \in deleting : at[n] # "unpressed"
  BY DEF IInv, TypeOK, Origins
<1> USE <1>0
<1>1. CASE Restart
  <2>1. /\ UNCHANGED <<object, owner, deleting, reported>>
        /\ \A k \in Picks : at'[k] # "answered"
    BY <1>1 DEF Restart
  <2> QED BY <2>1 DEF Lasting, UploadedMeansStored
<1>2. ASSUME NEW n \in Picks, NEW e \in Emails, Pick(n, e) PROVE Lasting'
  <2>1. /\ at[n] = "unpressed" /\ n \notin deleting /\ object' = object
        /\ owner' = [owner EXCEPT ![n] = e] /\ deleting' = deleting \union {n}
        /\ reported' = [reported EXCEPT ![e] = 0]
        /\ at'[n] # "answered" /\ \A k \in Picks : k # n => at'[k] = at[k]
    BY <1>2 DEF Pick
  <2>2. \A k \in Picks : k # n => owner'[k] = owner[k]
    BY <2>1
  <2>3. \A m \in deleting' : reported'[owner'[m]] = 0
    <3>1. reported'[owner'[n]] = 0
      BY <2>1
    <3>2. ASSUME NEW m \in deleting PROVE reported'[owner'[m]] = 0
      <4>1. owner'[m] = owner[m] /\ owner[m] \in Emails /\ reported[owner[m]] = 0
        BY <2>1, <2>2 DEF Lasting
      <4> QED BY <2>1, <4>1
    <3> QED BY <2>1, <3>1, <3>2
  <2>4. \A k \in Picks : at'[k] = "answered" => object'[owner'[k]] # 0
    BY <2>1, <2>2 DEF Lasting
  <2>5. UploadedMeansStored'
    BY <2>1 DEF Lasting, UploadedMeansStored
  <2> QED BY <2>3, <2>4, <2>5 DEF Lasting
<1>3. ASSUME NEW n \in Picks, Complete(n) PROVE Lasting'
  BY <1>3 DEF Complete, Lasting, UploadedMeansStored
<1>4. ASSUME NEW n \in Picks, Answer(n) PROVE Lasting'
  <2>1. /\ at[n] = "answered" /\ owner[n] \in Emails /\ object[owner[n]] # 0
        /\ at' = [at EXCEPT ![n] = "ended"] /\ reported' = [reported EXCEPT ![owner[n]] = n]
        /\ UNCHANGED <<object, owner, deleting>>
    BY <1>4 DEF Answer, Lasting
  <2>2. \A m \in deleting : owner[m] # owner[n]
    BY <2>1 DEF DeletesInTime
  <2>3. \A m \in deleting' : reported'[owner'[m]] = 0
    BY <2>1, <2>2 DEF Lasting
  <2>4. \A k \in Picks : at'[k] = "answered" => object'[owner'[k]] # 0
    BY <2>1 DEF Lasting
  <2>5. UploadedMeansStored'
    BY <2>1 DEF Lasting, UploadedMeansStored
  <2> QED BY <2>3, <2>4, <2>5 DEF Lasting
<1>5. ASSUME NEW n \in Picks, Delete(n) PROVE Lasting'
  <2>1. /\ n \in deleting /\ deleting' \subseteq deleting
        /\ object' = object \/ object' = [object EXCEPT ![owner[n]] = 0]
        /\ UNCHANGED <<at, owner, reported>>
    BY <1>5 DEF Delete
  <2>2. /\ reported[owner[n]] = 0
        /\ \A k \in Picks : owner[k] = owner[n] => at[k] # "answered"
    BY <2>1 DEF Lasting, DeletesInTime
  <2>3. \A e \in Emails : e # owner[n] => object'[e] = object[e]
    BY <2>1
  <2>4. \A k \in Picks : at'[k] = "answered" => object'[owner'[k]] # 0
    BY <2>1, <2>2, <2>3 DEF Lasting
  <2>5. UploadedMeansStored'
    BY <2>1, <2>2, <2>3 DEF Lasting, UploadedMeansStored
  <2> QED BY <2>1, <2>4, <2>5 DEF Lasting
<1>6. ASSUME NEW n \in Picks, Put(n) PROVE Lasting'
  <2>1. /\ object' = object \/ object' = [object EXCEPT ![owner[n]] = n]
        /\ n # 0 /\ UNCHANGED <<at, owner, reported, deleting>>
    BY <1>6, PickType DEF Put
  <2>2. \A e \in Emails : object[e] # 0 => object'[e] # 0
    BY <2>1
  <2>3. \A k \in Picks : at[k] = "answered" => owner[k] \in Emails
    OBVIOUS
  <2> QED BY <2>1, <2>2, <2>3 DEF Lasting, UploadedMeansStored
<1>7. ASSUME NEW n \in Picks, Url(n) PROVE Lasting'
  <2>1. /\ at' = [at EXCEPT ![n] = IF object[owner[n]] = 0 THEN "ended" ELSE "answered"]
        /\ UNCHANGED <<object, owner, reported, deleting>>
    BY <1>7 DEF Url
  <2>2. \A k \in Picks : at'[k] = "answered" => object[owner[k]] # 0
    BY <2>1 DEF Lasting
  <2> QED BY <2>1, <2>2 DEF Lasting, UploadedMeansStored
<1>8. CASE UNCHANGED <<object, owner, at, deleting, reported>>
  BY <1>8 DEF Lasting, UploadedMeansStored
<1>9. ASSUME Save \/ Register \/ Open \/ UNCHANGED vars
      PROVE  UNCHANGED <<object, owner, at, deleting, reported>>
  BY <1>9 DEF Save, Register, Open, vars
<1> QED BY <1>1, <1>2, <1>3, <1>4, <1>5, <1>6, <1>7, <1>8, <1>9 DEF Next

\* The picture that is reported as uploaded can be missing only through a
\* delete that was still on its way when its URL came: through failed and
\* overlapping uploads, several accounts and kills.
THEOREM OnlyLateDeletesLose == Spec /\ []DeletesInTime => []UploadedMeansStored
<1>1. Init => Lasting
  BY DEF Init, Lasting, UploadedMeansStored
<1>2. Lasting => UploadedMeansStored
  BY DEF Lasting
<1> QED BY <1>1, <1>2, Inductive, NextLasting, PTL DEF Spec
=============================================================================
