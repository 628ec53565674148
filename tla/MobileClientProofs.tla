-------------------------- MODULE MobileClientProofs -------------------------
(***************************************************************************)
(* The theorems about the mobile client: the recording of voice messages,  *)
(* the cache of the files it has shown, the messages of a conversation     *)
(* that it has loaded, and the row of its list. Its connection and         *)
(* reactions are the web client's (WebClientProofs).                       *)
(***************************************************************************)
EXTENDS MobileVoiceRecording, ResourceCache, MobileMessages, FiniteSetTheorems,
        SequenceTheorems, WellFoundedInduction, TLAPS

(***************************************************************************)
(* Theorems about MobileVoiceRecording, for every number of takes.         *)
(***************************************************************************)

(* statusRef says which of the two asynchronous functions is at work, so   *)
(* they never are at once.                                                 *)
OneAtWork ==
    /\ start # "no" <=> activity = "requesting"
    /\ stop # "no" <=> activity = "processing"

(* The finger and the audio mode: a start nobody has stopped has the       *)
(* finger, and so has a recording, until it is being stopped.              *)
Hands ==
    /\ activity = "requesting" => held \/ stopRequested
    /\ capturing /\ ~refused => stop = "stop" \/ (activity = "recording" /\ held)
    /\ start = "prepare" => recordMode \/ ~present
    /\ capturing /\ ~refused => recordMode \/ ~present

(* The files that stay in the cache directory.                             *)
LeftBehind == orphans \cup unstopped \cup undeleted

(* The file of a recording that is shown or sent is named by the dialog,   *)
(* which shows nothing else; a recorder that could not be stopped has left *)
(* its file.                                                               *)
Dialog ==
    /\ take \in Nat /\ tapes \subseteq 1..take
    /\ recording # 0 => activity = "recorded"
    /\ uploading # 0 => uploading = recording
    /\ stop = "fail" => take \notin tapes \ LeftBehind
    /\ capturing /\ refused => take \in LeftBehind

(* The last conjunct of RecordsOnlyWhileHeld.                              *)
FilesNamed ==
    \A t \in tapes \ LeftBehind :
        \/ t = take /\ (capturing \/ stop # "no")
        \/ t \in {recording, uploading}

MobileVoiceInv == OneAtWork /\ Hands /\ Dialog /\ FilesNamed

-----------------------------------------------------------------------------
\* A deletion that fails is noted.
LEMMA DeleteEither ==
  ASSUME NEW t, SafeDelete(t)
  PROVE  /\ tapes' \subseteq tapes /\ undeleted \subseteq undeleted'
         /\ t \notin tapes' \ undeleted'
         /\ undeleted' \subseteq undeleted \cup tapes
BY DEF SafeDelete

\* The finger goes down, is lifted, or the minute is over.
LEMMA PressInv ==
  ASSUME MobileVoiceInv, PressIn \/ PressOut \/ MinuteOver
  PROVE  MobileVoiceInv'
<1> USE DEF MobileVoiceInv
<1>1. UNCHANGED <<present, capturing, recordMode, take, recording, uploading, tapes,
                  orphans, unstopped, undeleted, refused>>
  BY DEF PressIn, PressOut, MinuteOver
<1>2. CASE PressIn
  <2>1. /\ activity = "idle" /\ activity' = "requesting" /\ start' = "permission"
        /\ held' = TRUE /\ stop' = stop
    BY <1>2 DEF PressIn
  <2>2. OneAtWork' /\ Hands'
    BY <1>1, <2>1 DEF OneAtWork, Hands
  <2>3. Dialog' /\ FilesNamed'
    BY <1>1, <2>1 DEF Dialog, FilesNamed, LeftBehind
  <2> QED BY <2>2, <2>3
<1>3. CASE PressOut \/ MinuteOver
  <2>1. /\ start' = start
        /\ \/ /\ activity = "requesting" /\ stopRequested'
              /\ UNCHANGED <<activity, stop>>
           \/ activity = "recording" /\ activity' = "processing" /\ stop' = "stop"
           \/ /\ activity \notin {"requesting", "recording"}
              /\ UNCHANGED <<activity, stop>>
    BY <1>3 DEF PressOut, MinuteOver, StopRecording
  <2>2. OneAtWork'
    BY <2>1 DEF OneAtWork
  <2>3. Hands'
    BY <1>1, <2>1 DEF OneAtWork, Hands
  <2>4. Dialog' /\ FilesNamed'
    BY <1>1, <2>1 DEF OneAtWork, Hands, Dialog, FilesNamed, LeftBehind
  <2> QED BY <2>2, <2>3, <2>4
<1> QED BY <1>2, <1>3

\* The awaits of startRecording that do not record anything.
LEMMA StartInv ==
  ASSUME MobileVoiceInv, PermissionAnswered \/ RecordModeSet \/ StartGivenUp
  PROVE  MobileVoiceInv'
<1> USE DEF MobileVoiceInv
<1>1. /\ UNCHANGED <<present, held, stopRequested, stop, capturing, take, recording,
                     uploading, tapes, orphans, unstopped, undeleted, refused>>
      /\ start # "no" /\ activity = "requesting" /\ stop = "no" /\ ~(capturing /\ ~refused)
      /\ start' # "no" <=> activity' = "requesting"
      /\ activity' \in {"requesting", "idle"}
      /\ start' = "prepare" => recordMode'
  BY DEF PermissionAnswered, RecordModeSet, StartGivenUp, OneAtWork, Hands
<1>2. OneAtWork' /\ Hands'
  BY <1>1 DEF OneAtWork, Hands
<1>3. Dialog' /\ FilesNamed'
  BY <1>1 DEF Dialog, FilesNamed, LeftBehind
<1> QED BY <1>2, <1>3

\* The recorder starts a new file, unless a stop was asked for.
LEMMA PreparedInv ==
  ASSUME MobileVoiceInv, Prepared
  PROVE  MobileVoiceInv'
<1> USE DEF MobileVoiceInv
<1>1. /\ start = "prepare" /\ activity = "requesting" /\ stop = "no"
      /\ capturing => take \in LeftBehind
      /\ UNCHANGED <<present, held, stopRequested, stop, recordMode, recording,
                     uploading, orphans, unstopped, undeleted>>
      /\ recording = 0 /\ uploading = 0 /\ take \in Nat
  BY DEF Prepared, OneAtWork, Hands, Dialog
<1>2. CASE /\ start' \in {"fail", "release"}
           /\ UNCHANGED <<activity, capturing, take, tapes, refused>>
  BY <1>1, <1>2 DEF OneAtWork, Hands, Dialog, FilesNamed, LeftBehind
<1>3. CASE /\ ~stopRequested /\ start' = "no"
           /\ activity' = "recording" /\ capturing' = TRUE
           /\ take' = take + 1 /\ tapes' = tapes \cup {take + 1} /\ refused' = FALSE
  <2>1. OneAtWork' /\ Hands'
    BY <1>1, <1>3 DEF OneAtWork, Hands
  <2>2. Dialog'
    BY <1>1, <1>3 DEF Dialog
  <2>3. FilesNamed'
    BY <1>1, <1>3 DEF FilesNamed, LeftBehind
  <2> QED BY <2>1, <2>2, <2>3
<1> QED BY <1>2, <1>3 DEF Prepared

\* The awaits of stopRecording: the file is kept and named, deleted, or left.
LEMMA StopInv ==
  ASSUME MobileVoiceInv, RecorderStopped \/ ModeReleased \/ StopFailed
  PROVE  MobileVoiceInv'
<1> USE DEF MobileVoiceInv
<1>1. /\ UNCHANGED <<present, held, stopRequested, start, take, uploading>>
      /\ stop # "no" /\ activity = "processing" /\ start = "no"
      /\ recording = 0 /\ uploading = 0 /\ take \in Nat
  BY DEF RecorderStopped, ModeReleased, StopFailed, OneAtWork, Dialog
<1>2. CASE RecorderStopped
  <2>1. /\ \/ stop' = "release" /\ capturing' = FALSE /\ UNCHANGED <<unstopped, refused>>
           \/ /\ stop' = "fail" /\ refused' = capturing'
              /\ unstopped' = unstopped \cup {take}
        /\ UNCHANGED <<activity, recordMode, recording, tapes, orphans, undeleted>>
    BY <1>2 DEF RecorderStopped
  <2>2. OneAtWork' /\ Hands'
    BY <1>1, <2>1 DEF OneAtWork, Hands
  <2>3. Dialog' /\ FilesNamed'
    BY <1>1, <2>1 DEF Dialog, FilesNamed, LeftBehind
  <2> QED BY <2>2, <2>3
<1>3. CASE ModeReleased
  <2>1. /\ stop = "release" /\ UNCHANGED <<capturing, unstopped, refused>>
        /\ \/ /\ stop' = "no" /\ activity' = "recorded" /\ recording' = take
              /\ orphans \subseteq orphans' /\ UNCHANGED <<tapes, undeleted>>
           \/ /\ stop' = "fail" /\ tapes' \subseteq tapes
              /\ undeleted \subseteq undeleted' /\ take \notin tapes' \ undeleted'
              /\ UNCHANGED <<activity, recording, orphans>>
    BY <1>3, DeleteEither DEF ModeReleased
  <2>2. ~(capturing /\ ~refused)
    BY <1>1, <2>1 DEF Hands
  <2>3. OneAtWork' /\ Hands'
    BY <1>1, <2>1, <2>2 DEF OneAtWork, Hands
  <2>4. LeftBehind \subseteq LeftBehind'
    BY <2>1 DEF LeftBehind
  <2>5. Dialog'
    BY <1>1, <2>1, <2>2, <2>4 DEF Dialog, LeftBehind
  <2>6. FilesNamed'
    <3>1. \A t \in tapes' \ LeftBehind' : t \in tapes \ LeftBehind
      BY <2>1, <2>4
    <3>2. stop' = "no" => recording' = take
      BY <2>1
    <3> QED BY <1>1, <2>1, <3>1, <3>2 DEF FilesNamed
  <2> QED BY <2>3, <2>5, <2>6
<1>4. CASE StopFailed
  <2>1. /\ stop = "fail" /\ stop' = "no" /\ activity' = "idle"
        /\ UNCHANGED <<capturing, recording, tapes, orphans, unstopped, undeleted, refused>>
    BY <1>4 DEF StopFailed
  <2>2. ~(capturing /\ ~refused)
    BY <1>1, <2>1 DEF Hands
  <2>3. OneAtWork' /\ Hands'
    BY <1>1, <2>1, <2>2 DEF OneAtWork, Hands
  <2>4. Dialog' /\ FilesNamed'
    BY <1>1, <2>1, <2>2 DEF Dialog, FilesNamed, LeftBehind
  <2> QED BY <2>3, <2>4
<1> QED BY <1>2, <1>3, <1>4

\* The dialog: what it no longer names, it has deleted, or tried to.
LEMMA DialogInv ==
  ASSUME MobileVoiceInv, Confirm \/ Uploaded \/ Cancel
  PROVE  MobileVoiceInv'
<1> USE DEF MobileVoiceInv
<1>1. /\ UNCHANGED <<present, held, start, stop, capturing, recordMode, take, orphans,
                     unstopped, refused>>
      /\ activity = "recorded" \/ uploading # 0
  BY DEF Confirm, Uploaded, Cancel
<1>2. /\ activity = "recorded" /\ start = "no" /\ stop = "no"
      /\ capturing => refused /\ take \in LeftBehind
  BY <1>1 DEF OneAtWork, Hands, Dialog
<1>3. activity' \in {"recorded", "idle"}
  BY <1>2 DEF Confirm, Uploaded, Cancel, ResetRecording
<1>4. OneAtWork' /\ Hands'
  BY <1>1, <1>2, <1>3 DEF OneAtWork, Hands
<1>5. \/ UNCHANGED <<activity, recording, tapes, undeleted>> /\ uploading' \in {recording, 0}
      \/ /\ SafeDelete(recording) /\ uploading' = 0
         /\ recording' = 0 \/ UNCHANGED <<activity, recording>>
  <2>1. CASE Confirm
    BY <2>1 DEF Confirm
  <2>2. CASE Uploaded
    <3>1. uploading = recording
      BY <2>2 DEF Uploaded, Dialog
    <3> QED BY <2>2, <3>1 DEF Uploaded, ResetRecording
  <2>3. CASE Cancel
    <3>1. uploading' = 0
      BY <2>3 DEF Cancel
    <3> QED BY <2>3, <3>1 DEF Cancel, ResetRecording
  <2> QED BY <2>1, <2>2, <2>3
<1>6. /\ tapes' \subseteq tapes /\ undeleted \subseteq undeleted'
      /\ \/ UNCHANGED <<activity, recording, tapes, undeleted>> /\ uploading' \in {recording, 0}
         \/ /\ recording \notin tapes' \ undeleted' /\ uploading' = 0
            /\ recording' = 0 \/ UNCHANGED <<activity, recording>>
  BY <1>5, DeleteEither
<1>7. LeftBehind \subseteq LeftBehind' /\ undeleted' \subseteq LeftBehind'
  BY <1>1, <1>6 DEF LeftBehind
<1>8. Dialog'
  BY <1>1, <1>2, <1>6, <1>7 DEF Dialog
<1>9. \A t \in tapes \ LeftBehind : t = recording
  BY <1>2 DEF Dialog, FilesNamed
<1>10. FilesNamed'
  <2>1. \A t \in tapes' \ LeftBehind' : t = recording
    BY <1>6, <1>7, <1>9
  <2> QED BY <1>6, <1>7, <2>1 DEF FilesNamed
<1> QED BY <1>4, <1>8, <1>10

\* The screen goes away: the recording that runs becomes an orphan, the one that is
\* shown is deleted unless it is being sent.
LEMMA VanishInv ==
  ASSUME MobileVoiceInv, Vanish
  PROVE  MobileVoiceInv'
<1> USE DEF MobileVoiceInv
<1>1. /\ present' = FALSE /\ stopRequested' = TRUE
      /\ IF activity = "recording"
         THEN refused' = capturing' /\ orphans' = orphans \cup {take}
         ELSE UNCHANGED <<capturing, refused, orphans>>
      /\ UNCHANGED <<activity, start, stop, take, recording, uploading, unstopped>>
  BY DEF Vanish
<1>2. /\ tapes' \subseteq tapes /\ undeleted \subseteq undeleted'
      /\ uploading = 0 => recording \notin tapes' \ undeleted'
  <2>1. CASE uploading = 0
    <3>1. SafeDelete(recording)
      BY <2>1 DEF Vanish
    <3> QED BY <3>1, DeleteEither
  <2>2. CASE uploading # 0
    BY <2>2 DEF Vanish
  <2> QED BY <2>1, <2>2
<1>3. OneAtWork' /\ Hands'
  BY <1>1 DEF OneAtWork, Hands
<1>4. LeftBehind \subseteq LeftBehind' /\ undeleted' \subseteq LeftBehind'
      /\ (activity = "recording" => take \in LeftBehind')
  BY <1>1, <1>2 DEF LeftBehind
<1>5. Dialog'
  BY <1>1, <1>2, <1>4 DEF Dialog, OneAtWork
<1>6. FilesNamed'
  <2> SUFFICES ASSUME NEW t \in tapes' \ LeftBehind'
               PROVE  (t = take /\ stop # "no") \/ t \in {recording, uploading}
    BY <1>1 DEF FilesNamed
  <2>1. t \in tapes \ LeftBehind
    BY <1>2, <1>4
  <2>2. t = take /\ capturing => activity # "recording" /\ ~refused
    BY <1>4, <2>1 DEF Dialog
  <2> QED BY <2>1, <2>2 DEF FilesNamed, Hands
<1> QED BY <1>3, <1>5, <1>6

-----------------------------------------------------------------------------
\* The invariant of a recording.
LEMMA MobileVoiceInvariant == MobileVoiceSpec => []MobileVoiceInv
<1>1. MobileVoiceInit => MobileVoiceInv
  BY DEF MobileVoiceInit, MobileVoiceInv, OneAtWork, Hands, Dialog, FilesNamed, LeftBehind
<1>2. ASSUME MobileVoiceInv, [MobileVoiceNext]_mvVars
      PROVE  MobileVoiceInv'
  <2>1. CASE MobileVoiceNext
    BY <1>2, <2>1, PressInv, StartInv, PreparedInv, StopInv, DialogInv, VanishInv
       DEF MobileVoiceNext
  <2>2. CASE UNCHANGED mvVars
    BY <1>2, <2>2 DEF mvVars, MobileVoiceInv, OneAtWork, Hands, Dialog, FilesNamed, LeftBehind
  <2> QED BY <1>2, <2>1, <2>2
<1> QED BY <1>1, <1>2, PTL DEF MobileVoiceSpec

\* useVoiceMessageRecorder and the composer: a recorder that was not refused its stop
\* runs only under the finger or while it is being stopped, and every file is being
\* made, shown or sent, or was left by a screen that went away while it recorded, a
\* stop that failed or a deletion that failed.
THEOREM NothingRecordedUnheld == MobileVoiceSpec => []RecordsOnlyWhileHeld
<1>1. MobileVoiceInv => RecordsOnlyWhileHeld
  BY DEF MobileVoiceInv, Hands, FilesNamed, RecordsOnlyWhileHeld, LeftBehind
<1> QED BY <1>1, MobileVoiceInvariant, PTL

-----------------------------------------------------------------------------
(* The types: a take is begun only while there is one left, and what is    *)
(* recorded or stopped is a take.                                          *)
TakesInv ==
    /\ MobileVoiceTypeOK
    /\ start # "no" => take < MaxTakes
    /\ activity = "recording" \/ stop # "no" => take \in 1..take

\* Presses and the awaits that record nothing leave the files alone.
LEMMA PressTakes ==
  ASSUME MobileVoiceInv, TakesInv,
         PressIn \/ PressOut \/ MinuteOver \/ PermissionAnswered \/ RecordModeSet \/ StartGivenUp
  PROVE  TakesInv'
<1>1. UNCHANGED <<present, capturing, take, recording, uploading, tapes, orphans, unstopped,
                  undeleted, refused>>
  BY DEF PressIn, PressOut, MinuteOver, PermissionAnswered, RecordModeSet, StartGivenUp
<1>2. /\ activity' \in {"idle", "requesting", "recording", "processing", "recorded"}
      /\ start' \in {"no", "permission", "mode", "prepare", "release", "fail"}
      /\ stop' \in {"no", "stop", "release", "fail"}
      /\ {held', stopRequested', recordMode'} \subseteq BOOLEAN
  <2>1. CASE PressIn \/ PressOut \/ MinuteOver
    BY <2>1 DEF PressIn, PressOut, MinuteOver, StopRecording, TakesInv, MobileVoiceTypeOK
  <2>2. CASE PermissionAnswered \/ RecordModeSet \/ StartGivenUp
    BY <2>2 DEF PermissionAnswered, RecordModeSet, StartGivenUp, ReleaseMode, TakesInv,
                MobileVoiceTypeOK
  <2> QED BY <2>1, <2>2
<1>3. MobileVoiceTypeOK'
  BY <1>1, <1>2 DEF TakesInv, MobileVoiceTypeOK
<1>4. /\ start' # "no" => start # "no" \/ take < MaxTakes
      /\ activity' = "recording" => activity = "recording"
      /\ stop' = stop \/ (stop' = "stop" /\ activity = "recording")
  BY DEF PressIn, PressOut, MinuteOver, StopRecording, PermissionAnswered, RecordModeSet,
         StartGivenUp
<1> QED BY <1>1, <1>3, <1>4 DEF TakesInv

\* A file that is new is a take.
LEMMA PreparedTakes ==
  ASSUME MaxTakes \in Nat, MobileVoiceInv, TakesInv, Prepared
  PROVE  TakesInv'
<1>1. /\ take \in 0..MaxTakes /\ take < MaxTakes /\ tapes \subseteq 1..take
      /\ recording \in 0..take /\ uploading \in 0..take /\ orphans \subseteq 1..take
      /\ unstopped \subseteq 1..take /\ undeleted \subseteq 1..take
  BY DEF Prepared, TakesInv, MobileVoiceTypeOK
<1>2. /\ UNCHANGED <<present, held, stopRequested, stop, recordMode, recording,
                     uploading, orphans, unstopped, undeleted>>
      /\ activity = "requesting" /\ stop = "no"
  BY DEF Prepared, MobileVoiceInv, OneAtWork
<1>3. CASE /\ start' \in {"fail", "release"}
           /\ UNCHANGED <<activity, capturing, take, tapes, refused>>
  BY <1>1, <1>2, <1>3 DEF TakesInv, MobileVoiceTypeOK
<1>4. CASE /\ start' = "no" /\ activity' = "recording" /\ capturing' = TRUE
           /\ take' = take + 1 /\ tapes' = tapes \cup {take + 1} /\ refused' = FALSE
  <2>1. /\ take' \in 0..MaxTakes /\ recording' \in 0..take' /\ uploading' \in 0..take'
        /\ tapes' \subseteq 1..take' /\ orphans' \subseteq 1..take'
        /\ unstopped' \subseteq 1..take' /\ undeleted' \subseteq 1..take'
        /\ take' \in 1..take'
    BY <1>1, <1>2, <1>4
  <2>2. MobileVoiceTypeOK'
    BY <1>2, <1>4, <2>1 DEF TakesInv, MobileVoiceTypeOK
  <2> QED BY <1>2, <1>4, <2>1, <2>2 DEF TakesInv
<1> QED BY <1>3, <1>4 DEF Prepared

\* A file whose recorder was stopped is named, deleted, or left behind.
LEMMA StopTakes ==
  ASSUME MobileVoiceInv, TakesInv, RecorderStopped \/ ModeReleased \/ StopFailed
  PROVE  TakesInv'
<1>1. /\ UNCHANGED <<present, held, stopRequested, start, take, uploading>>
      /\ stop # "no" /\ start = "no" /\ take \in 1..take
      /\ stop' \in {"no", "release", "fail"}
  BY DEF RecorderStopped, ModeReleased, StopFailed, MobileVoiceInv, OneAtWork, TakesInv
<1>2. /\ {capturing', recordMode', refused'} \subseteq BOOLEAN
      /\ activity' \in {activity, "recorded", "idle"} /\ recording' \in {recording, take}
      /\ tapes' \subseteq tapes
      /\ orphans' \subseteq orphans \cup {take} /\ unstopped' \subseteq unstopped \cup {take}
      /\ undeleted' \subseteq undeleted \cup tapes
  <2>1. {capturing, recordMode, refused} \subseteq BOOLEAN
    BY DEF TakesInv, MobileVoiceTypeOK
  <2>2. CASE RecorderStopped
    BY <2>1, <2>2 DEF RecorderStopped
  <2>3. CASE ModeReleased
    BY <2>1, <2>3, DeleteEither DEF ModeReleased, ReleaseMode
  <2>4. CASE StopFailed
    BY <2>1, <2>4 DEF StopFailed, ReleaseMode
  <2> QED BY <2>2, <2>3, <2>4
<1>3. /\ take \in 0..MaxTakes /\ recording' \in 0..take' /\ uploading' \in 0..take'
      /\ tapes' \subseteq 1..take' /\ orphans' \subseteq 1..take'
      /\ unstopped' \subseteq 1..take' /\ undeleted' \subseteq 1..take'
  BY <1>1, <1>2 DEF TakesInv, MobileVoiceTypeOK
<1>4. MobileVoiceTypeOK'
  BY <1>1, <1>2, <1>3 DEF TakesInv, MobileVoiceTypeOK
<1> QED BY <1>1, <1>4 DEF TakesInv

\* The dialog deletes the file it names, if it can.
LEMMA DialogTakes ==
  ASSUME MobileVoiceInv, TakesInv, Confirm \/ Uploaded \/ Cancel
  PROVE  TakesInv'
<1>1. /\ UNCHANGED <<present, held, start, stop, capturing, recordMode, take, orphans,
                     unstopped, refused>>
      /\ activity = "recorded" /\ start = "no" /\ stop = "no"
  BY DEF Confirm, Uploaded, Cancel, MobileVoiceInv, OneAtWork, Dialog
<1>2. /\ activity' \in {"recorded", "idle"} /\ stopRequested' \in BOOLEAN
      /\ recording' \in {recording, 0} /\ uploading' \in {recording, 0}
      /\ tapes' \subseteq tapes /\ undeleted' \subseteq undeleted \cup tapes
  <2>1. stopRequested \in BOOLEAN /\ activity = "recorded"
    BY <1>1 DEF TakesInv, MobileVoiceTypeOK
  <2>2. CASE Confirm
    BY <2>1, <2>2 DEF Confirm
  <2>3. CASE Uploaded
    BY <2>1, <2>3, DeleteEither DEF Uploaded, ResetRecording
  <2>4. CASE Cancel
    BY <2>1, <2>4, DeleteEither DEF Cancel, ResetRecording
  <2> QED BY <2>2, <2>3, <2>4
<1>3. /\ recording' \in 0..take' /\ uploading' \in 0..take'
      /\ tapes' \subseteq 1..take' /\ undeleted' \subseteq 1..take'
  BY <1>1, <1>2 DEF TakesInv, MobileVoiceTypeOK
<1>4. MobileVoiceTypeOK'
  BY <1>1, <1>2, <1>3 DEF TakesInv, MobileVoiceTypeOK
<1> QED BY <1>1, <1>2, <1>4 DEF TakesInv

\* The screen that goes away leaves what it records, and deletes what it shows.
LEMMA VanishTakes ==
  ASSUME MobileVoiceInv, TakesInv, Vanish
  PROVE  TakesInv'
<1>1. /\ present' = FALSE /\ held' = FALSE /\ stopRequested' = TRUE
      /\ UNCHANGED <<activity, start, stop, take, recording, uploading, unstopped>>
  BY DEF Vanish
<1>2. /\ {recordMode', capturing', refused'} \subseteq BOOLEAN
      /\ orphans' = IF activity = "recording" THEN orphans \cup {take} ELSE orphans
  <2>1. {capturing, recordMode, refused} \subseteq BOOLEAN
    BY DEF TakesInv, MobileVoiceTypeOK
  <2> QED BY <2>1 DEF Vanish, ReleaseMode
<1>3. tapes' \subseteq tapes /\ undeleted' \subseteq undeleted \cup tapes
  BY DeleteEither DEF Vanish
<1>4. /\ tapes' \subseteq 1..take' /\ undeleted' \subseteq 1..take' /\ orphans' \subseteq 1..take'
  BY <1>1, <1>2, <1>3 DEF TakesInv, MobileVoiceTypeOK
<1>5. MobileVoiceTypeOK'
  BY <1>1, <1>2, <1>4 DEF TakesInv, MobileVoiceTypeOK
<1> QED BY <1>1, <1>5 DEF TakesInv

\* useVoiceMessageRecorder: every field keeps its type; what was left behind, could not
\* be stopped or could not be deleted is a recording that was begun.
THEOREM MobileVoiceTypeCorrect ==
  ASSUME MaxTakes \in Nat
  PROVE  MobileVoiceSpec => []MobileVoiceTypeOK
<1>1. MobileVoiceInit => TakesInv
  <2> SUFFICES ASSUME MobileVoiceInit PROVE TakesInv
    OBVIOUS
  <2>1. /\ {present, held, stopRequested, capturing, recordMode, refused} \subseteq BOOLEAN
        /\ activity = "idle" /\ start = "no" /\ stop = "no"
        /\ take = 0 /\ recording = 0 /\ uploading = 0 /\ tapes = {} /\ orphans = {}
        /\ unstopped = {} /\ undeleted = {}
    BY DEF MobileVoiceInit
  <2>2. take \in 0..MaxTakes /\ recording \in 0..take /\ uploading \in 0..take
    BY <2>1
  <2> QED BY <2>1, <2>2 DEF TakesInv, MobileVoiceTypeOK
<1>2. ASSUME MobileVoiceInv, TakesInv, [MobileVoiceNext]_mvVars
      PROVE  TakesInv'
  <2>1. CASE MobileVoiceNext
    BY <1>2, <2>1, PressTakes, PreparedTakes, StopTakes, DialogTakes, VanishTakes
       DEF MobileVoiceNext
  <2>2. CASE UNCHANGED mvVars
    BY <1>2, <2>2 DEF mvVars, TakesInv, MobileVoiceTypeOK
  <2> QED BY <1>2, <2>1, <2>2
<1>3. TakesInv => MobileVoiceTypeOK
  BY DEF TakesInv
<1> QED BY <1>1, <1>2, <1>3, MobileVoiceInvariant, PTL DEF MobileVoiceSpec

(***************************************************************************)
(* Theorems about ResourceCache, for every set of resources, their sizes   *)
(* and the limit of the cache.                                             *)
(***************************************************************************)

(* Where a task stands while a job of its own is queued.                   *)
StageOf(op) == CASE op = "remove" -> "removing" [] op = "set" -> "setting"
                 [] op = "prune" -> "pruning"
OfTask(job) == job.op \in {"remove", "set", "prune"}
JobsMatch ==
    /\ \A i \in DOMAIN jobs : OfTask(jobs[i]) =>
          \E r \in Resources : jobs[i].about = {r} /\ task[r] = StageOf(jobs[i].op)
    /\ \A i, j \in DOMAIN jobs :
          i # j /\ OfTask(jobs[i]) /\ OfTask(jobs[j]) => jobs[i].about # jobs[j].about

(* The jobs that have not run yet.                                         *)
Waiting == {i \in DOMAIN jobs : i > 1 \/ ~writing}
Takes(i, r) == jobs[i].op \in {"remove", "look", "server"} /\ r \in jobs[i].about

(* What removes the entry of a file comes before what sets it.             *)
Queued ==
    \A r \in files \ stray : \A i \in Waiting : Takes(i, r) =>
        \E j \in Waiting : i < j /\ jobs[j] = Job("set", {r})
Indexed ==
    \A r \in files \ stray : r \in index \/ \E j \in Waiting : jobs[j] = Job("set", {r})

Pruned == writing /\ jobs[1].op = "prune" => Size(index) <= MaxCacheSize

DiskInv ==
    ResourceTypeOK /\ JobsMatch /\ Queued /\ Indexed /\ Pruned /\ DiskBounded

-----------------------------------------------------------------------------
\* Fewer resources are no larger.
LEMMA FewerAreSmaller ==
    ASSUME NEW T, T \subseteq Resources, NEW S, S \subseteq T
    PROVE  Size(S) <= Size(T) /\ Size(S) \in Nat /\ Size(T) \in Nat
  <1> DEFINE Bytes(r) == {r} \X (1..SizeOf(r))
             F == {Bytes(r) : r \in T}
             g == [r \in T |-> Bytes(r)]
  <1>1. IsFiniteSet(T)
    BY FS_Subset, ResourceAssumption
  <1>2. g \in Surjection(T, F)
    BY DEF Surjection
  <1>3. IsFiniteSet(F)
    <2> HIDE DEF F, g
    <2> QED BY <1>1, <1>2, FS_Surjection
  <1>4. ASSUME NEW X \in F PROVE IsFiniteSet(X)
    <2>1. PICK r \in T : X = Bytes(r)
      OBVIOUS
    <2>2. IsFiniteSet({r})
      BY FS_Singleton
    <2>3. IsFiniteSet(1..SizeOf(r))
      <3>1. 0 \in Int /\ 1 \in Int /\ SizeOf(r) \in Int
        BY <2>1, ResourceAssumption
      <3> QED BY <3>1, FS_Interval
    <2>4. IsFiniteSet({r} \X (1..SizeOf(r)))
      BY <2>2, <2>3, FS_Product
    <2> QED BY <2>1, <2>4
  <1>5. IsFiniteSet(UNION F)
    <2> HIDE DEF F
    <2> QED BY <1>3, <1>4, FS_UNION
  <1>6. UNION {Bytes(r) : r \in S} \subseteq UNION F
    OBVIOUS
  <1> DEFINE few == UNION {Bytes(r) : r \in S}
             many == UNION F
  <1>7. /\ Size(S) = Cardinality(few) /\ Size(T) = Cardinality(many)
        /\ IsFiniteSet(many) /\ few \subseteq many
    BY <1>5, <1>6 DEF Size
  <1> HIDE DEF few, many
  <1>8. /\ Cardinality(few) <= Cardinality(many) /\ Cardinality(few) \in Nat
        /\ Cardinality(many) \in Nat
    BY <1>7, FS_Subset, FS_CardinalityType
  <1> QED BY <1>7, <1>8

\* What counts: the files that are neither left by a fault nor committed.
Counting == files \ (stray \cup Committing)

\* The bound stays while nothing more counts.
LEMMA StillBounded ==
    ASSUME DiskBounded, files \subseteq Resources, Counting' \subseteq Counting
    PROVE  DiskBounded'
  <1> DEFINE S == Counting'
             T == Counting
  <1>1. S \subseteq T /\ T \subseteq Resources
    BY DEF Counting
  <1>2. Size(T) <= MaxCacheSize /\ (DiskBounded' <=> Size(S) <= MaxCacheSize)
    BY DEF DiskBounded, Counting
  <1> HIDE DEF S, T
  <1>3. Size(S) <= Size(T) /\ Size(S) \in Nat /\ Size(T) \in Nat
    BY <1>1, FewerAreSmaller
  <1> QED BY <1>2, <1>3, ResourceAssumption

\* The queue.
LEMMA QueueFacts ==
    ASSUME ResourceTypeOK
    PROVE  /\ jobs \in Seq(Jobs) /\ Len(jobs) \in Nat /\ DOMAIN jobs = 1..Len(jobs)
           /\ \A i \in DOMAIN jobs : jobs[i] \in Jobs
           /\ Waiting = {i \in 1..Len(jobs) : i > 1 \/ ~writing}
  BY DEF ResourceTypeOK, Waiting

\* A job that joins the queue is its last, ...
LEMMA Joined ==
    ASSUME NEW s \in Seq(Jobs), NEW j \in Jobs
    PROVE  /\ Append(s, j) \in Seq(Jobs) /\ Len(Append(s, j)) = Len(s) + 1
           /\ DOMAIN Append(s, j) = 1..(Len(s) + 1)
           /\ \A i \in 1..Len(s) : Append(s, j)[i] = s[i]
           /\ Append(s, j)[Len(s) + 1] = j
  OBVIOUS

\* ... and one that leaves it was its first.
LEMMA Left ==
    ASSUME NEW s \in Seq(Jobs), s # <<>>
    PROVE  /\ Tail(s) \in Seq(Jobs) /\ Len(Tail(s)) = Len(s) - 1 /\ Len(s) > 0
           /\ DOMAIN Tail(s) = 1..(Len(s) - 1) /\ Head(s) = s[1] /\ s[1] \in Jobs
           /\ \A i \in 1..(Len(s) - 1) : Tail(s)[i] = s[i + 1]
  OBVIOUS

\* What a job is about.
LEMMA Ops ==
    ASSUME NEW rs \in SUBSET Resources,
           NEW op \in {"remove", "look", "touch", "set", "prune", "server"}
    PROVE  Job(op, rs) \in Jobs /\ Job(op, rs).op = op /\ Job(op, rs).about = rs
  BY DEF Job, Jobs

\* The queue keeps its jobs: files may go or be left by a fault, and entries
\* stay.
LEMMA QueueKept ==
    ASSUME DiskInv, UNCHANGED <<jobs, writing, index>>,
           files' \ stray' \subseteq files \ stray
    PROVE  Queued' /\ Indexed' /\ Pruned'
  BY DEF DiskInv, Queued, Indexed, Pruned, Waiting, Takes

\* Stages of tasks without a job change.
LEMMA JobsStillMatch ==
    ASSUME DiskInv, jobs' = jobs,
           \A r \in Resources :
              task'[r] = task[r] \/ task[r] \notin {"removing", "setting", "pruning"}
    PROVE  JobsMatch'
  <1>1. \A i \in DOMAIN jobs : OfTask(jobs[i]) =>
           \E r \in Resources : jobs[i].about = {r} /\ task[r] = StageOf(jobs[i].op)
                               /\ task[r] \in {"removing", "setting", "pruning"}
    BY DEF DiskInv, JobsMatch, OfTask, StageOf
  <1>2. \A i \in DOMAIN jobs : OfTask(jobs[i]) =>
           \E r \in Resources : jobs[i].about = {r} /\ task'[r] = StageOf(jobs[i].op)
    BY <1>1
  <1> QED BY <1>2 DEF DiskInv, JobsMatch, OfTask, StageOf

\* Stages at which a task has a job in the queue.
JobStages == {"removing", "setting", "pruning"}
TasksGoOn ==
    \A r \in Resources : task'[r] = task[r] \/ task[r] \notin JobStages

\* What stands in the way of counting does not leave.
LEMMA CountedBefore ==
    ASSUME ResourceTypeOK, files' \subseteq Resources, TasksGoOn,
           files' \ stray' \subseteq files \ stray
    PROVE  Counting' \subseteq Counting
  BY DEF Counting, Committing, TasksGoOn, JobStages

\* A step that leaves the queue alone and brings no file: the invariant stays.
LEMMA FilesGo ==
    ASSUME DiskInv, ResourceTypeOK', UNCHANGED <<jobs, writing, index>>,
           files' \ stray' \subseteq files \ stray, TasksGoOn
    PROVE  DiskInv'
  <1>1. JobsMatch'
    BY JobsStillMatch DEF TasksGoOn, JobStages
  <1>2. Queued' /\ Indexed' /\ Pruned'
    BY QueueKept
  <1>3. DiskBounded'
    BY CountedBefore, StillBounded DEF DiskInv, ResourceTypeOK
  <1> QED BY <1>1, <1>2, <1>3 DEF DiskInv

\* A job joins the queue, about resources without a file that counts.
LEMMA JobJoins ==
    ASSUME DiskInv, ResourceTypeOK', UNCHANGED <<writing, index>>, TasksGoOn,
           NEW rs \in SUBSET Resources, NEW op \in {"touch", "look", "server", "remove"},
           jobs' = Append(jobs, Job(op, rs)),
           files' \ stray' \subseteq files \ stray,
           op # "touch" => rs \cap (files' \ stray') = {},
           op = "remove" => \E r \in Resources : rs = {r} /\ task[r] \notin JobStages
                                                /\ task'[r] = "removing"
    PROVE  DiskInv'
  <1> DEFINE j == Job(op, rs)
             n == Len(jobs) + 1
  <1>1. /\ j \in Jobs /\ j.op = op /\ j.about = rs /\ jobs \in Seq(Jobs) /\ Len(jobs) \in Nat
        /\ DOMAIN jobs = 1..Len(jobs)
    BY Ops, QueueFacts DEF DiskInv
  <1>2. /\ Len(jobs') = n /\ DOMAIN jobs' = 1..n /\ jobs'[n] = j
        /\ \A i \in 1..Len(jobs) : jobs'[i] = jobs[i]
    BY <1>1, Joined
  <1> HIDE DEF j
  <1>3. Waiting' = Waiting \cup (IF n > 1 \/ ~writing THEN {n} ELSE {})
    BY <1>1, <1>2 DEF Waiting
  <1>4. JobsMatch'
    <2>1. \A i \in DOMAIN jobs : OfTask(jobs[i]) =>
             \E r \in Resources : jobs[i].about = {r} /\ task[r] = StageOf(jobs[i].op)
                                 /\ task[r] \in JobStages
      BY DEF DiskInv, JobsMatch, OfTask, StageOf, JobStages
    <2>2. \A i \in DOMAIN jobs : OfTask(jobs[i]) =>
             \E r \in Resources : jobs[i].about = {r} /\ task'[r] = StageOf(jobs[i].op)
                                 /\ task[r] \in JobStages
      BY <2>1 DEF TasksGoOn
    <2>3. OfTask(j) => /\ op = "remove"
                       /\ \E r \in Resources : j.about = {r} /\ task'[r] = StageOf(j.op)
                                               /\ task[r] \notin JobStages
      BY <1>1 DEF OfTask, StageOf
    <2>4. \A i \in DOMAIN jobs' : OfTask(jobs'[i]) =>
             \E r \in Resources : jobs'[i].about = {r} /\ task'[r] = StageOf(jobs'[i].op)
      BY <1>1, <1>2, <2>2, <2>3
    <2>5. ASSUME NEW i \in DOMAIN jobs', NEW k \in DOMAIN jobs', i # k,
                 OfTask(jobs'[i]), OfTask(jobs'[k])
          PROVE  jobs'[i].about # jobs'[k].about
      <3>1. CASE i # n /\ k # n
        BY <1>1, <1>2, <2>5, <3>1 DEF DiskInv, JobsMatch
      <3>2. CASE i = n \/ k = n
        <4>1. ASSUME NEW m \in 1..Len(jobs), OfTask(jobs[m]), OfTask(j)
              PROVE  jobs[m].about # j.about
          <5>1. PICK q \in Resources : jobs[m].about = {q} /\ task[q] \in JobStages
            BY <1>1, <2>1, <4>1
          <5>2. PICK r \in Resources : j.about = {r} /\ task[r] \notin JobStages
            BY <2>3, <4>1
          <5> QED BY <5>1, <5>2
        <4> QED BY <1>1, <1>2, <2>5, <3>2, <4>1
      <3> QED BY <3>1, <3>2
    <2> QED BY <2>4, <2>5 DEF JobsMatch, OfTask, StageOf
  <1>5. ASSUME NEW r \in files' \ stray', NEW i \in Waiting', Takes(i, r)'
        PROVE  i \in Waiting /\ Takes(i, r)
    <2>1. i # n
      BY <1>1, <1>2, <1>5 DEF Takes
    <2> QED BY <1>1, <1>2, <1>3, <1>5, <2>1 DEF Takes, Waiting
  <1>6. \A i \in Waiting : i \in Waiting' /\ jobs'[i] = jobs[i]
    BY <1>1, <1>2, <1>3 DEF Waiting
  <1>7. Queued'
    <2> SUFFICES ASSUME NEW r \in files' \ stray', NEW i \in Waiting', Takes(i, r)'
                 PROVE  \E k \in Waiting' : i < k /\ jobs'[k] = Job("set", {r})
      BY DEF Queued, Job
    <2>1. PICK k \in Waiting : i < k /\ jobs[k] = Job("set", {r})
      BY <1>5 DEF DiskInv, Queued
    <2> QED BY <1>6, <2>1
  <1>8. Indexed'
    <2> SUFFICES ASSUME NEW r \in files' \ stray', r \notin index
                 PROVE  \E k \in Waiting' : jobs'[k] = Job("set", {r})
      BY DEF Indexed, Job
    <2>1. PICK k \in Waiting : jobs[k] = Job("set", {r})
      BY DEF DiskInv, Indexed
    <2> QED BY <1>6, <2>1
  <1>9. Pruned'
    <2>1. writing => jobs'[1] = jobs[1]
      <3>1. writing => Len(jobs) > 0
        BY <1>1 DEF DiskInv, ResourceTypeOK
      <3> QED BY <1>1, <1>2, <3>1
    <2> QED BY <2>1 DEF Pruned, DiskInv
  <1>10. DiskBounded'
    BY CountedBefore, StillBounded DEF DiskInv, ResourceTypeOK
  <1> QED BY <1>4, <1>7, <1>8, <1>9, <1>10 DEF DiskInv

-----------------------------------------------------------------------------
\* Files are deleted, or left by a fault.
LEMMA Deleted ==
    ASSUME ResourceTypeOK, NEW rs \in SUBSET Resources, Delete(rs)
    PROVE  /\ files' \subseteq files /\ stray' \subseteq files' /\ faults' \in 0..MaxFaults
           /\ files' \ stray' \subseteq files \ stray
           /\ rs \cap (files' \ stray') = {}
  <1>1. PICK kept \in SUBSET (rs \cap files) :
           /\ IF kept = {} THEN UNCHANGED faults ELSE Fault
           /\ files' = files \ (rs \ kept) /\ stray' = (stray \ rs) \cup kept
    BY DEF Delete
  <1>2. faults' \in 0..MaxFaults
    BY <1>1, ResourceAssumption DEF Fault, ResourceTypeOK
  <1> QED BY <1>1, <1>2 DEF ResourceTypeOK

\* Looking a resource up, and taking it out by hand.
LEMMA LookupInv ==
    ASSUME DiskInv, NEW r \in Resources, Lookup(r) \/ Invalidate(r)
    PROVE  DiskInv'
  <1>1. PICK op \in {"touch", "look"} :
           /\ jobs' = Append(jobs, Job(op, {r}))
           /\ UNCHANGED <<index, stored, writing, task, removal>>
           /\ files' \subseteq files /\ stray' \subseteq files' /\ faults' \in 0..MaxFaults
           /\ files' \ stray' \subseteq files \ stray
           /\ op # "touch" => {r} \cap (files' \ stray') = {}
    <2>1. CASE Lookup(r) /\ Hit(r) /\ Enqueue(Job("touch", {r}))
      BY <2>1 DEF Lookup, Enqueue, DiskInv, ResourceTypeOK
    <2>2. CASE Lookup(r) /\ Broken(r) /\ Enqueue(Job("look", {r}))
      BY <2>2 DEF Lookup, Enqueue, Broken, DiskInv, ResourceTypeOK
    <2>3. CASE Invalidate(r)
      <3>1. ResourceTypeOK /\ Delete({r})
        BY <2>3 DEF Invalidate, DiskInv
      <3> QED BY <2>3, <3>1, Deleted DEF Invalidate, Enqueue
    <2> QED BY <2>1, <2>2, <2>3 DEF Lookup
  <1> DEFINE rs == {r}
  <1>2. rs \in SUBSET Resources
    OBVIOUS
  <1> HIDE DEF rs
  <1>3. jobs' \in Seq(Jobs) /\ jobs' # <<>>
    <2>1. Job(op, rs) \in Jobs /\ jobs \in Seq(Jobs)
      BY <1>2, Ops DEF DiskInv, ResourceTypeOK
    <2> QED BY <1>1, <2>1, Joined DEF rs
  <1>4. ResourceTypeOK'
    BY <1>1, <1>3 DEF DiskInv, ResourceTypeOK
  <1>5. TasksGoOn
    BY <1>1 DEF TasksGoOn
  <1>6. jobs' = Append(jobs, Job(op, rs)) /\ (op # "touch" => rs \cap (files' \ stray') = {})
        /\ op \in {"touch", "look", "server", "remove"} /\ op # "remove"
    BY <1>1 DEF rs
  <1> QED BY <1>1, <1>2, <1>4, <1>5, <1>6, JobJoins

\* Steps of the downloads that neither use the queue nor add a file.
LEMMA DownloadInv ==
    ASSUME DiskInv,
           \/ \E r \in Resources : Ensure(r) \/ Downloaded(r) \/ DownloadFails(r)
           \/ \E server \in Servers : FlushBatch(server) \/ UrlsArrive(server)
    PROVE  DiskInv'
  <1> USE DEF DiskInv
  <1>1. UNCHANGED <<jobs, writing, index, stored, removal>>
    BY DEF Ensure, Downloaded, DownloadFails, FlushBatch, UrlsArrive
  <1>2. /\ files' \subseteq files /\ stray' \subseteq files'
        /\ files' \ stray' \subseteq files \ stray
    BY DEF Ensure, Downloaded, DownloadFails, FlushBatch, UrlsArrive, ResourceTypeOK
  <1>3. faults' \in 0..MaxFaults
    BY ResourceAssumption
       DEF Ensure, Downloaded, DownloadFails, FlushBatch, UrlsArrive, Fault, ResourceTypeOK
  <1>4. task' \in [Resources -> Stages] /\ TasksGoOn
    <2>1. ASSUME NEW r \in Resources, Ensure(r) \/ Downloaded(r) \/ DownloadFails(r)
          PROVE  task' \in [Resources -> Stages] /\ TasksGoOn
      BY <2>1 DEF Ensure, Downloaded, DownloadFails, Becomes, ResourceTypeOK, Stages,
                  TasksGoOn, JobStages
    <2>2. ASSUME NEW server \in Servers, FlushBatch(server)
          PROVE  task' \in [Resources -> Stages] /\ TasksGoOn
      BY <2>2 DEF FlushBatch, ResourceTypeOK, Stages, TasksGoOn, JobStages
    <2>3. ASSUME NEW server \in Servers, UrlsArrive(server)
          PROVE  task' \in [Resources -> Stages] /\ TasksGoOn
      BY <2>3 DEF UrlsArrive, ResourceTypeOK, Stages, TasksGoOn, JobStages
    <2> QED BY <2>1, <2>2, <2>3
  <1>5. ResourceTypeOK'
    BY <1>1, <1>2, <1>3, <1>4 DEF ResourceTypeOK
  <1> QED BY <1>1, <1>2, <1>4, <1>5, FilesGo

\* The recheck of a task.
LEMMA CheckInv ==
    ASSUME DiskInv, NEW r \in Resources, Check(r)
    PROVE  DiskInv'
  <1> USE DEF DiskInv
  <1>1. /\ UNCHANGED <<files, index, stored, writing, removal, stray, faults>>
        /\ task[r] = "checking" /\ task \in [Resources -> Stages]
    BY DEF Check, ResourceTypeOK
  <1>2. TasksGoOn /\ task' \in [Resources -> Stages]
    BY <1>1 DEF Check, Becomes, TasksGoOn, JobStages, Stages
  <1>3. CASE r \notin index /\ Becomes(r, "asking") /\ UNCHANGED jobs
    <2>1. ResourceTypeOK'
      BY <1>1, <1>2, <1>3 DEF ResourceTypeOK
    <2> QED BY <1>1, <1>2, <1>3, <2>1, FilesGo
  <1>4. ASSUME NEW op \in {"touch", "remove"}, jobs' = Append(jobs, Job(op, {r})),
               op = "remove" => Broken(r) /\ Becomes(r, "removing")
        PROVE  DiskInv'
    <2> DEFINE rs == {r}
    <2>1. rs \in SUBSET Resources
      OBVIOUS
    <2>2. op # "touch" => rs \cap (files' \ stray') = {}
      BY <1>1, <1>4 DEF Broken
    <2>3. op = "remove" => rs = {r} /\ task[r] \notin JobStages /\ task'[r] = "removing"
      BY <1>1, <1>4 DEF Becomes, JobStages
    <2> HIDE DEF rs
    <2>4. jobs' \in Seq(Jobs) /\ jobs' # <<>>
      <3>1. Job(op, rs) \in Jobs /\ jobs \in Seq(Jobs)
        BY <2>1, Ops DEF ResourceTypeOK
      <3> QED BY <1>4, <3>1, Joined DEF rs
    <2>5. ResourceTypeOK'
      BY <1>1, <1>2, <2>4 DEF ResourceTypeOK
    <2>6. jobs' = Append(jobs, Job(op, rs)) /\ op \in {"touch", "look", "server", "remove"}
      BY <1>4 DEF rs
    <2> QED BY <1>1, <1>2, <2>1, <2>2, <2>3, <2>5, <2>6, JobJoins
  <1> QED BY <1>3, <1>4 DEF Check, Enqueue

\* A file is there: what sets its entry joins the queue.
LEMMA MovedInv ==
    ASSUME DiskInv, NEW r \in Resources, Moved(r)
    PROVE  DiskInv'
  <1> USE DEF DiskInv
  <1> DEFINE j == Job("set", {r})
             n == Len(jobs) + 1
  <1>1. /\ j \in Jobs /\ j.op = "set" /\ j.about = {r} /\ jobs \in Seq(Jobs)
        /\ Len(jobs) \in Nat
        /\ DOMAIN jobs = 1..Len(jobs)
    BY Ops, QueueFacts
  <1>2. /\ jobs' = Append(jobs, j)
        /\ UNCHANGED <<index, stored, writing, removal, stray, faults>>
        /\ files' = files \cup {r} /\ task[r] = "moving"
        /\ task' = [task EXCEPT ![r] = "setting"]
    BY DEF Moved, Becomes, Enqueue
  <1>3. /\ Len(jobs') = n /\ DOMAIN jobs' = 1..n /\ jobs'[n] = j
        /\ \A i \in 1..Len(jobs) : jobs'[i] = jobs[i]
        /\ jobs' \in Seq(Jobs) /\ jobs' # <<>>
    BY <1>1, <1>2, Joined
  <1>4. /\ task \in [Resources -> Stages] /\ task'[r] = "setting"
        /\ \A q \in Resources \ {r} : task'[q] = task[q]
    BY <1>2 DEF ResourceTypeOK
  <1>5. ResourceTypeOK'
    BY <1>2, <1>3 DEF ResourceTypeOK, Stages
  <1> HIDE DEF j
  <1>6. Waiting' = Waiting \cup (IF n > 1 \/ ~writing THEN {n} ELSE {})
    BY <1>1, <1>2, <1>3 DEF Waiting
  <1>7. n \in Waiting'
    <2>1. writing => Len(jobs) > 0
      BY <1>1 DEF ResourceTypeOK
    <2> QED BY <1>1, <1>6, <2>1
  <1>8. JobsMatch'
    <2>1. \A i \in DOMAIN jobs : OfTask(jobs[i]) =>
             \E q \in Resources \ {r} : jobs[i].about = {q} /\ task[q] = StageOf(jobs[i].op)
      BY <1>2 DEF JobsMatch, OfTask, StageOf
    <2>2. \A i \in DOMAIN jobs : OfTask(jobs[i]) =>
             \E q \in Resources \ {r} : jobs[i].about = {q} /\ task'[q] = StageOf(jobs[i].op)
      BY <1>4, <2>1
    <2>3. j.about = {r} /\ task'[r] = StageOf(j.op)
      BY <1>1, <1>4 DEF StageOf
    <2>4. \A i \in DOMAIN jobs' : OfTask(jobs'[i]) =>
             \E q \in Resources : jobs'[i].about = {q} /\ task'[q] = StageOf(jobs'[i].op)
      BY <1>1, <1>3, <2>2, <2>3
    <2>5. ASSUME NEW i \in DOMAIN jobs', NEW k \in DOMAIN jobs', i # k,
                 OfTask(jobs'[i]), OfTask(jobs'[k])
          PROVE  jobs'[i].about # jobs'[k].about
      <3>1. CASE i # n /\ k # n
        BY <1>1, <1>3, <2>5, <3>1 DEF JobsMatch
      <3>2. CASE i = n \/ k = n
        <4>1. \A m \in 1..Len(jobs) : OfTask(jobs[m]) => jobs[m].about # j.about
          BY <1>1, <2>1
        <4> QED BY <1>1, <1>3, <2>5, <3>2, <4>1
      <3> QED BY <3>1, <3>2
    <2> QED BY <2>4, <2>5 DEF JobsMatch, OfTask, StageOf
  <1>9. \A i \in Waiting : i \in Waiting' /\ jobs'[i] = jobs[i]
    BY <1>1, <1>3, <1>6 DEF Waiting
  <1>10. ASSUME NEW q, NEW i \in Waiting', Takes(i, q)'
         PROVE  i \in Waiting /\ Takes(i, q) /\ i < n
    <2>1. i # n
      BY <1>1, <1>3, <1>10 DEF Takes
    <2> QED BY <1>1, <1>3, <1>6, <1>10, <2>1 DEF Takes, Waiting
  <1>11. Queued'
    <2> SUFFICES ASSUME NEW q \in files' \ stray', NEW i \in Waiting', Takes(i, q)'
                 PROVE  \E k \in Waiting' : i < k /\ jobs'[k] = Job("set", {q})
      BY DEF Queued, Job
    <2>1. CASE q = r
      BY <1>3, <1>7, <1>10, <2>1 DEF j
    <2>2. CASE q # r
      <3>1. PICK k \in Waiting : i < k /\ jobs[k] = Job("set", {q})
        BY <1>2, <1>10, <2>2 DEF Queued
      <3> QED BY <1>9, <3>1
    <2> QED BY <2>1, <2>2
  <1>12. Indexed'
    <2> SUFFICES ASSUME NEW q \in files' \ stray', q \notin index
                 PROVE  \E k \in Waiting' : jobs'[k] = Job("set", {q})
      BY <1>2 DEF Indexed, Job
    <2>1. CASE q = r
      BY <1>3, <1>7, <2>1 DEF j
    <2>2. CASE q # r
      <3>1. PICK k \in Waiting : jobs[k] = Job("set", {q})
        BY <1>2, <2>2 DEF Indexed
      <3> QED BY <1>9, <3>1
    <2> QED BY <2>1, <2>2
  <1>13. Pruned'
    <2>1. writing => jobs'[1] = jobs[1]
      <3>1. writing => Len(jobs) > 0
        BY <1>1 DEF ResourceTypeOK
      <3> QED BY <1>1, <1>3, <3>1
    <2> QED BY <1>2, <2>1 DEF Pruned
  <1>14. DiskBounded'
    <2>1. Counting' \subseteq Counting
      BY <1>2, <1>4 DEF Counting, Committing
    <2> QED BY <2>1, StillBounded DEF ResourceTypeOK
  <1> QED BY <1>5, <1>8, <1>11, <1>12, <1>13, <1>14

\* A server is removed.
LEMMA RemovalInv ==
    ASSUME DiskInv,
           TaskSettled \/ DeleteDirectory \/ \E server \in Servers : RemoveServer(server)
    PROVE  DiskInv'
  <1> USE DEF DiskInv
  <1>1. CASE TaskSettled \/ \E server \in Servers : RemoveServer(server)
    <2>1. UNCHANGED <<files, index, stored, jobs, writing, task, stray, faults>>
      BY <1>1 DEF TaskSettled, RemoveServer
    <2>2. removal' \in Removals \cup {NoRemoval}
      <3>1. CASE TaskSettled
        <4>1. removal \in [at : {"waiting"}, server : Servers, tasks : SUBSET Resources]
          BY <3>1 DEF TaskSettled, ResourceTypeOK, Removals, NoRemoval
        <4> QED BY <3>1, <4>1 DEF TaskSettled, Removals, Working
      <3>2. ASSUME NEW server \in Servers, RemoveServer(server)
            PROVE  removal' \in Removals
        BY <3>2 DEF RemoveServer, Removals, Working
      <3> QED BY <1>1, <3>1, <3>2
    <2>3. ResourceTypeOK' /\ TasksGoOn
      BY <2>1, <2>2 DEF ResourceTypeOK, TasksGoOn
    <2> QED BY <2>1, <2>3, FilesGo
  <1>2. CASE DeleteDirectory
    <2> DEFINE rs == Of(removal.server)
               op == "server"
    <2>1. removal.server \in Servers /\ rs \in SUBSET Resources
      BY <1>2 DEF DeleteDirectory, ResourceTypeOK, Removals, NoRemoval, Of
    <2>2. removal' \in Removals
      BY <1>2, <2>1 DEF DeleteDirectory, Removals
    <2>3. jobs' = Append(jobs, Job(op, rs)) /\ UNCHANGED <<index, stored, writing>>
      BY <1>2 DEF DeleteDirectory, Enqueue
    <2>4. /\ files' \subseteq files /\ stray' \subseteq files'
          /\ files' \ stray' \subseteq files \ stray
          /\ rs \cap (files' \ stray') = {}
      BY <1>2 DEF DeleteDirectory, ResourceTypeOK
    <2>5. faults' \in 0..MaxFaults
      BY <1>2, ResourceAssumption DEF DeleteDirectory, Fault, ResourceTypeOK
    <2>6. task' \in [Resources -> Stages] /\ TasksGoOn
      BY <1>2 DEF DeleteDirectory, ResourceTypeOK, Stages, TasksGoOn, JobStages
    <2> HIDE DEF rs
    <2>7. jobs' \in Seq(Jobs) /\ jobs' # <<>>
      <3>1. Job(op, rs) \in Jobs /\ jobs \in Seq(Jobs)
        BY <2>1, Ops DEF ResourceTypeOK
      <3> QED BY <2>3, <3>1, Joined
    <2>8. ResourceTypeOK'
      BY <2>2, <2>3, <2>4, <2>5, <2>6, <2>7 DEF ResourceTypeOK
    <2> QED BY <2>1, <2>3, <2>4, <2>6, <2>8, JobJoins
  <1> QED BY <1>1, <1>2

\* A file is reclaimed.
LEMMA ReclaimedInv ==
    ASSUME DiskInv, NEW r \in Resources, Reclaimed(r)
    PROVE  DiskInv'
  <1>1. /\ UNCHANGED <<index, stored, jobs, writing, task, removal>>
        /\ files' = files \ {r} /\ stray' = stray \ {r}
    BY DEF Reclaimed
  <1>2. faults' \in 0..MaxFaults
    BY ResourceAssumption DEF Reclaimed, Fault, DiskInv, ResourceTypeOK
  <1>3. ResourceTypeOK' /\ TasksGoOn
    BY <1>1, <1>2 DEF DiskInv, ResourceTypeOK, TasksGoOn
  <1>4. files' \ stray' \subseteq files \ stray
    BY <1>1
  <1> QED BY <1>1, <1>3, <1>4, FilesGo

\* The process ends and starts again.
LEMMA ProcessRestarts ==
    ASSUME DiskInv, Restart
    PROVE  DiskInv'
  <1>1. /\ index' \in {stored, {}} /\ jobs' = <<>> /\ writing' = FALSE
        /\ task' = [r \in Resources |-> "none"] /\ removal' = NoRemoval
        /\ stray' = (stray \cup Committing \cup (files \ index')) \cap files
        /\ UNCHANGED <<files, stored>>
    BY DEF Restart
  <1>2. faults' \in 0..MaxFaults
    BY ResourceAssumption DEF Restart, Fault, DiskInv, ResourceTypeOK
  <1>3. ResourceTypeOK'
    <2>1. jobs' \in Seq(Jobs)
      BY <1>1
    <2>2. task' \in [Resources -> Stages]
      BY <1>1 DEF Stages
    <2>3. /\ files \subseteq Resources /\ stored \subseteq Resources
          /\ index' \subseteq Resources /\ stray' \subseteq files'
      BY <1>1 DEF DiskInv, ResourceTypeOK
    <2> QED BY <1>1, <1>2, <2>1, <2>2, <2>3 DEF ResourceTypeOK
  <1>4. Waiting' = {} /\ DOMAIN jobs' = {}
    BY <1>1 DEF Waiting
  <1>5. JobsMatch' /\ Queued' /\ Pruned'
    BY <1>1, <1>4 DEF JobsMatch, Queued, Pruned
  <1>6. Indexed'
    BY <1>1 DEF Indexed
  <1>7. DiskBounded'
    <2>1. Counting' \subseteq Counting
      BY <1>1 DEF Counting
    <2> QED BY <2>1, StillBounded DEF DiskInv, ResourceTypeOK
  <1> QED BY <1>3, <1>5, <1>6, <1>7 DEF DiskInv

-----------------------------------------------------------------------------
\* The first job runs.
LEMMA RunJobInv ==
    ASSUME DiskInv, RunJob
    PROVE  DiskInv'
  <1> USE DEF DiskInv
  <1> DEFINE h == jobs[1]
  <1>1. /\ jobs \in Seq(Jobs) /\ Len(jobs) \in Nat /\ Len(jobs) > 0 /\ Head(jobs) = h
        /\ h \in Jobs
        /\ jobs # <<>> /\ ~writing /\ writing' = TRUE
        /\ UNCHANGED <<stored, jobs, task, removal>>
    BY Left DEF RunJob, ResourceTypeOK
  <1>2. /\ h.op \in {"remove", "look", "touch", "set", "prune", "server"}
        /\ h.about \subseteq Resources
    BY <1>1 DEF Jobs
  <1>3. /\ index' \subseteq Resources /\ files' \subseteq files /\ stray' \subseteq files'
        /\ faults' \in 0..MaxFaults /\ files' \ stray' \subseteq files \ stray
        /\ \A r \in files' \ stray' : r \in index /\ r \notin index' => Takes(1, r)
        /\ h.op = "set" => index' = index \cup h.about
        /\ h.op = "prune" => Size(index') <= MaxCacheSize
    <2> HIDE DEF h
    <2>1. CASE h.op = "prune"
      <3>1. Prune
        BY <1>1, <2>1 DEF RunJob
      <3>2. PICK gone \in SUBSET index :
              /\ Size(index \ gone) <= MaxCacheSize /\ index' = index \ gone /\ Delete(gone)
        BY <3>1 DEF Prune
      <3>3. gone \in SUBSET Resources /\ index \subseteq Resources
        BY DEF ResourceTypeOK
      <3>4. /\ files' \subseteq files /\ stray' \subseteq files' /\ faults' \in 0..MaxFaults
            /\ files' \ stray' \subseteq files \ stray /\ gone \cap (files' \ stray') = {}
        BY <3>2, <3>3, Deleted
      <3> QED BY <2>1, <3>2, <3>3, <3>4
    <2>2. CASE h.op = "set"
      <3>1. index' = index \cup h.about /\ UNCHANGED <<files, stray, faults>>
        BY <1>1, <2>2 DEF RunJob
      <3> QED BY <1>2, <2>2, <3>1 DEF ResourceTypeOK
    <2>3. CASE h.op = "touch"
      <3>1. UNCHANGED <<index, files, stray, faults>>
        BY <1>1, <2>3 DEF RunJob
      <3> QED BY <2>3, <3>1 DEF ResourceTypeOK
    <2>4. CASE h.op \in {"remove", "look", "server"}
      <3>1. index' = index \ h.about /\ UNCHANGED <<files, stray, faults>>
        BY <1>1, <2>4 DEF RunJob
      <3> QED BY <2>4, <3>1 DEF ResourceTypeOK, Takes, h
    <2> QED BY <1>2, <2>1, <2>2, <2>3, <2>4
  <1>4. ResourceTypeOK' /\ TasksGoOn
    BY <1>1, <1>3 DEF ResourceTypeOK, TasksGoOn
  <1>5. JobsMatch'
    BY <1>1, JobsStillMatch
  <1>6. Waiting = 1..Len(jobs) /\ Waiting' = {i \in 1..Len(jobs) : i > 1}
    BY <1>1 DEF Waiting
  <1>7. Queued'
    <2> SUFFICES ASSUME NEW r \in files' \ stray', NEW i \in Waiting', Takes(i, r)'
                 PROVE  \E k \in Waiting' : i < k /\ jobs'[k] = Job("set", {r})
      BY DEF Queued, Job
    <2>1. r \in files \ stray /\ i \in Waiting /\ Takes(i, r)
      BY <1>1, <1>3, <1>6 DEF Takes
    <2>2. PICK k \in Waiting : i < k /\ jobs[k] = Job("set", {r})
      BY <2>1 DEF Queued
    <2>3. k \in Waiting'
      BY <1>1, <1>6, <2>2
    <2> QED BY <1>1, <2>2, <2>3
  <1>8. Indexed'
    <2> SUFFICES ASSUME NEW r \in files' \ stray', r \notin index'
                 PROVE  \E k \in Waiting' : jobs'[k] = Job("set", {r})
      BY DEF Indexed, Job
    <2>1. CASE r \in index
      <3>1. Takes(1, r) /\ 1 \in Waiting /\ r \in files \ stray
        BY <1>1, <1>3, <1>6, <2>1
      <3>2. PICK k \in Waiting : 1 < k /\ jobs[k] = Job("set", {r})
        BY <3>1 DEF Queued
      <3> QED BY <1>1, <1>6, <3>2
    <2>2. CASE r \notin index
      <3>1. PICK k \in Waiting : jobs[k] = Job("set", {r})
        BY <1>3, <2>2 DEF Indexed
      <3>2. k # 1
        <4>1. Job("set", {r}).op = "set" /\ Job("set", {r}).about = {r}
          BY DEF Job
        <4> QED BY <1>3, <3>1, <4>1
      <3> QED BY <1>1, <1>6, <3>1, <3>2
    <2> QED BY <2>1, <2>2
  <1>9. Pruned'
    BY <1>1, <1>3 DEF Pruned
  <1>10. DiskBounded'
    BY <1>3, <1>4, CountedBefore, StillBounded DEF ResourceTypeOK
  <1> QED BY <1>4, <1>5, <1>7, <1>8, <1>9, <1>10

\* The first job has ended: it leaves, and its task goes on or has ended.
Over(r) == OfTask(jobs[1]) /\ jobs[1].about = {r}
OthersGoOn == \A r \in Resources : task'[r] = task[r] \/ Over(r)

\* The entry another task sets is not set by the first job.
LEMMA OthersSet ==
    ASSUME DiskInv, writing, OthersGoOn, NEW i \in DOMAIN jobs, i # 1, OfTask(jobs[i])
    PROVE  \E r \in Resources : jobs[i].about = {r} /\ task[r] = StageOf(jobs[i].op)
                               /\ task'[r] = task[r] /\ ~Over(r)
  <1>1. 1 \in DOMAIN jobs
    BY Left DEF DiskInv, ResourceTypeOK
  <1>2. PICK r \in Resources : jobs[i].about = {r} /\ task[r] = StageOf(jobs[i].op)
    BY DEF DiskInv, JobsMatch
  <1>3. ~Over(r)
    BY <1>1, <1>2 DEF DiskInv, JobsMatch, Over
  <1> QED BY <1>2, <1>3 DEF OthersGoOn

\* The first job has ended: what is left of the queue keeps its order.
LEMMA JobLeaves ==
    ASSUME DiskInv, ResourceTypeOK', writing, writing' = FALSE, OthersGoOn,
           UNCHANGED <<files, index>>, stray \subseteq stray', DiskBounded',
           \/ jobs' = Tail(jobs)
           \/ /\ jobs' = Append(Tail(jobs), Job("prune", jobs[1].about))
              /\ jobs[1].op = "set"
              /\ \E r \in Resources : jobs[1].about = {r} /\ task'[r] = "pruning"
    PROVE  DiskInv'
  <1> USE DEF DiskInv
  <1> DEFINE n == Len(jobs)
             added == jobs' # Tail(jobs)
             j == Job("prune", jobs[1].about)
  <1>1. /\ jobs \in Seq(Jobs) /\ n \in Nat /\ n > 0 /\ jobs[1] \in Jobs /\ DOMAIN jobs = 1..n
        /\ Tail(jobs) \in Seq(Jobs) /\ Len(Tail(jobs)) = n - 1
        /\ \A i \in 1..(n - 1) : Tail(jobs)[i] = jobs[i + 1]
    BY Left, QueueFacts DEF ResourceTypeOK
  <1>2. j \in Jobs /\ j.op = "prune" /\ j.about = jobs[1].about
    BY <1>1, Ops DEF Jobs
  <1>3. /\ \A i \in 1..(n - 1) : i \in DOMAIN jobs' /\ jobs'[i] = jobs[i + 1]
        /\ \A i \in DOMAIN jobs' : i \in 1..(n - 1) \/ (added /\ i = n /\ jobs'[i] = j)
    <2>1. CASE jobs' = Tail(jobs)
      BY <1>1, <2>1
    <2>2. CASE jobs' = Append(Tail(jobs), j)
      <3> DEFINE t == Tail(jobs)
      <3>1. /\ t \in Seq(Jobs) /\ Len(t) = n - 1 /\ jobs' = Append(t, j)
            /\ \A i \in 1..(n - 1) : t[i] = jobs[i + 1]
        BY <1>1, <2>2
      <3> HIDE DEF t, j
      <3>2. /\ Len(jobs') = Len(t) + 1 /\ DOMAIN jobs' = 1..(Len(t) + 1)
            /\ jobs'[Len(t) + 1] = j /\ \A i \in 1..Len(t) : jobs'[i] = t[i]
        BY <1>2, <3>1, Joined
      <3>3. n \in Nat /\ n > 0 /\ DOMAIN jobs = 1..n
        BY <1>1
      <3>4. Len(t) = n - 1
        BY <3>1
      <3> HIDE DEF n
      <3>5. Len(t) + 1 = n
        BY <3>3, <3>4
      <3>6. /\ DOMAIN jobs' = 1..n /\ jobs'[n] = j
            /\ \A i \in 1..(n - 1) : jobs'[i] = jobs[i + 1]
        BY <3>1, <3>2, <3>4, <3>5
      <3>7. added
        <4>1. Len(jobs') # Len(t)
          BY <3>2, <3>3, <3>4, <3>5
        <4> QED BY <4>1 DEF t
      <3>8. \A i \in 1..n : i \in 1..(n - 1) \/ i = n
        BY <3>3
      <3>9. \A i \in 1..(n - 1) : i \in 1..n
        BY <3>3
      <3> HIDE DEF added
      <3> QED BY <3>6, <3>7, <3>8, <3>9
    <2> QED BY <2>1, <2>2
  <1>4. added => /\ jobs[1].op = "set"
                 /\ \E r \in Resources : jobs[1].about = {r} /\ task'[r] = "pruning"
    OBVIOUS
  <1> HIDE DEF added, j
  <1>5. Waiting' = DOMAIN jobs' /\ Waiting = 2..n
    <2>1. \A i : i \in Waiting <=> i \in 1..n /\ i > 1
      BY <1>1 DEF Waiting
    <2>2. \A i : i \in 1..n /\ i > 1 <=> i \in 2..n
      BY <1>1
    <2>3. Waiting = 2..n
      BY <2>1, <2>2
    <2>4. Waiting' = DOMAIN jobs'
      BY DEF Waiting
    <2> QED BY <2>3, <2>4
  <1>6. JobsMatch'
    <2>1. \A i \in DOMAIN jobs' : OfTask(jobs'[i]) =>
             \E r \in Resources : jobs'[i].about = {r} /\ task'[r] = StageOf(jobs'[i].op)
      <3> SUFFICES ASSUME NEW i \in DOMAIN jobs', OfTask(jobs'[i])
                   PROVE  \E r \in Resources : jobs'[i].about = {r}
                                              /\ task'[r] = StageOf(jobs'[i].op)
        OBVIOUS
      <3>1. CASE i \in 1..(n - 1)
        <4>1. i + 1 \in DOMAIN jobs /\ i + 1 # 1 /\ jobs'[i] = jobs[i + 1]
          BY <1>1, <1>3, <3>1
        <4>2. \E r \in Resources : jobs[i + 1].about = {r} /\ task[r] = StageOf(jobs[i + 1].op)
                                  /\ task'[r] = task[r]
          BY <4>1, OthersSet
        <4> QED BY <4>1, <4>2
      <3>2. CASE added /\ jobs'[i] = j
        BY <1>2, <1>4, <3>2 DEF StageOf
      <3> QED BY <1>3, <3>1, <3>2
    <2>2. ASSUME NEW i \in DOMAIN jobs', NEW k \in DOMAIN jobs', i # k,
                 OfTask(jobs'[i]), OfTask(jobs'[k])
          PROVE  jobs'[i].about # jobs'[k].about
      <3>1. CASE i \in 1..(n - 1) /\ k \in 1..(n - 1)
        <4>1. /\ i + 1 \in DOMAIN jobs /\ k + 1 \in DOMAIN jobs /\ i + 1 # k + 1
              /\ jobs'[i] = jobs[i + 1] /\ jobs'[k] = jobs[k + 1]
          BY <1>1, <1>3, <2>2, <3>1
        <4> QED BY <2>2, <4>1 DEF JobsMatch
      <3>2. ASSUME NEW m \in 1..(n - 1), OfTask(jobs'[m]), added
            PROVE  jobs'[m].about # j.about
        <4>1. m + 1 \in DOMAIN jobs /\ m + 1 # 1 /\ jobs'[m] = jobs[m + 1] /\ 1 \in DOMAIN jobs
          BY <1>1, <1>3
        <4>2. OfTask(jobs[1])
          BY <1>4, <3>2 DEF OfTask
        <4> QED BY <1>2, <3>2, <4>1, <4>2 DEF JobsMatch
      <3> QED BY <1>3, <2>2, <3>1, <3>2
    <2> QED BY <2>1, <2>2 DEF JobsMatch, OfTask, StageOf
  <1>7. ASSUME NEW k \in Waiting PROVE k - 1 \in Waiting' /\ jobs'[k - 1] = jobs[k]
    BY <1>1, <1>3, <1>5
  <1>8. Queued'
    <2> SUFFICES ASSUME NEW r \in files' \ stray', NEW i \in Waiting', Takes(i, r)'
                 PROVE  \E k \in Waiting' : i < k /\ jobs'[k] = Job("set", {r})
      BY DEF Queued, Job
    <2>1. i \in 1..(n - 1)
      BY <1>2, <1>3, <1>5 DEF Takes
    <2>2. i + 1 \in Waiting /\ Takes(i + 1, r)
      BY <1>1, <1>3, <1>5, <2>1 DEF Takes
    <2>3. PICK k \in Waiting : i + 1 < k /\ jobs[k] = Job("set", {r})
      BY <2>2 DEF Queued
    <2>4. i < k - 1
      BY <1>1, <1>5, <2>1, <2>3
    <2> QED BY <1>7, <2>3, <2>4
  <1>9. Indexed'
    <2> SUFFICES ASSUME NEW r \in files' \ stray', r \notin index'
                 PROVE  \E k \in Waiting' : jobs'[k] = Job("set", {r})
      BY DEF Indexed, Job
    <2>1. PICK k \in Waiting : jobs[k] = Job("set", {r})
      BY DEF Indexed
    <2> QED BY <1>7, <2>1
  <1>10. Pruned'
    BY DEF Pruned
  <1> QED BY <1>6, <1>8, <1>9, <1>10

\* Once pruned, what counts is in the index.
LEMMA PrunedIsBounded ==
    ASSUME DiskInv, writing, OthersGoOn, UNCHANGED <<files, stray>>, jobs[1].op = "prune"
    PROVE  DiskBounded'
  <1> USE DEF DiskInv
  <1>1. index \subseteq Resources /\ Size(index) <= MaxCacheSize
    BY DEF Pruned, ResourceTypeOK
  <1>2. Counting' \subseteq index
    <2> SUFFICES ASSUME NEW r \in Counting', r \notin index PROVE FALSE
      OBVIOUS
    <2>1. r \in files \ stray /\ r \notin Committing'
      BY DEF Counting
    <2>2. PICK k \in Waiting : jobs[k] = Job("set", {r})
      BY <2>1 DEF Indexed
    <2>3. k \in DOMAIN jobs /\ k # 1
      BY DEF Waiting
    <2>4. jobs[k].op = "set" /\ jobs[k].about = {r} /\ OfTask(jobs[k])
      BY <2>2 DEF Job, OfTask
    <2>5. PICK q \in Resources : jobs[k].about = {q} /\ task[q] = StageOf(jobs[k].op)
                               /\ task'[q] = task[q]
      BY <2>3, <2>4, OthersSet
    <2>6. q = r /\ task'[r] = "setting"
      BY <2>4, <2>5 DEF StageOf
    <2> QED BY <2>1, <2>5, <2>6 DEF Committing
  <1> DEFINE S == Counting'
             T == index
  <1>3. S \subseteq T /\ T \subseteq Resources /\ Size(T) <= MaxCacheSize
        /\ (DiskBounded' <=> Size(S) <= MaxCacheSize)
    BY <1>1, <1>2 DEF DiskBounded, Counting
  <1> HIDE DEF S, T
  <1>4. Size(S) <= Size(T) /\ Size(S) \in Nat /\ Size(T) \in Nat
    BY <1>3, FewerAreSmaller
  <1> QED BY <1>3, <1>4, ResourceAssumption

\* The resource of a job of a task.
LEMMA Chosen ==
    ASSUME NEW job, NEW r, job.about = {r}
    PROVE  (CHOOSE q \in job.about : TRUE) = r
  <1> DEFINE c == CHOOSE q \in job.about : TRUE
  <1>1. c \in {r}
    OBVIOUS
  <1> QED BY <1>1

\* The index is written.
LEMMA JobPersistedInv ==
    ASSUME DiskInv, JobPersisted
    PROVE  DiskInv'
  <1> USE DEF DiskInv
  <1> DEFINE h == jobs[1]
  <1>1. /\ jobs \in Seq(Jobs) /\ jobs # <<>> /\ Head(jobs) = h /\ h \in Jobs
        /\ 1 \in DOMAIN jobs
        /\ Tail(jobs) \in Seq(Jobs)
    BY Left DEF JobPersisted, ResourceTypeOK
  <1>2. /\ writing /\ writing' = FALSE /\ stored' = index /\ After(h)
        /\ UNCHANGED <<files, index, stray, faults>>
    BY <1>1 DEF JobPersisted
  <1>3. /\ h.op \in {"remove", "look", "touch", "set", "prune", "server"}
        /\ h.about \in SUBSET Resources
    BY <1>1 DEF Jobs
  <1>4. OfTask(h) => \E r \in Resources : h.about = {r} /\ task[r] = StageOf(h.op)
    BY <1>1 DEF JobsMatch
  <1> DEFINE joined == Append(Tail(jobs), Job("prune", h.about))
  <1>5. joined \in Seq(Jobs)
    <2>1. Job("prune", h.about) \in Jobs
      BY <1>3, Ops
    <2> QED BY <1>1, <2>1, Joined
  <1> HIDE DEF h, joined
  <1>6. ASSUME NEW r \in Resources, NEW stage \in Stages,
               task' = [task EXCEPT ![r] = stage], h.about = {r}, OfTask(h)
        PROVE  /\ task' \in [Resources -> Stages] /\ task'[r] = stage /\ OthersGoOn
               /\ \A q \in Resources \ {r} : task'[q] = task[q]
    BY <1>6 DEF ResourceTypeOK, OthersGoOn, Over, h
  <1>7. task' = task => task' \in [Resources -> Stages] /\ OthersGoOn
    BY DEF ResourceTypeOK, OthersGoOn
  <1>8. CASE h.op = "prune"
    <2>1. PICK r \in Resources : h.about = {r}
      BY <1>4, <1>8 DEF OfTask
    <2>2. /\ task' = [task EXCEPT ![r] = "none"] /\ jobs' = Tail(jobs) /\ removal' = removal
      BY <1>2, <1>8, <2>1, Chosen DEF After
    <2>3. task' \in [Resources -> Stages] /\ OthersGoOn
      BY <1>6, <1>8, <2>1, <2>2 DEF OfTask, Stages
    <2>4. ResourceTypeOK'
      BY <1>1, <1>2, <2>2, <2>3 DEF ResourceTypeOK
    <2>5. DiskBounded'
      BY <1>2, <1>8, <2>3, PrunedIsBounded DEF h
    <2> QED BY <1>2, <2>2, <2>3, <2>4, <2>5, JobLeaves
  <1>9. CASE h.op \in {"set", "remove"}
    <2>1. PICK r \in Resources : h.about = {r} /\ task[r] = StageOf(h.op)
      BY <1>4, <1>9 DEF OfTask
    <2> DEFINE stage == IF h.op = "set" THEN "pruning" ELSE "asking"
    <2>2. /\ task' = [task EXCEPT ![r] = stage] /\ removal' = removal
          /\ jobs' = IF h.op = "set" THEN joined ELSE Tail(jobs)
      BY <1>2, <1>9, <2>1, Chosen DEF After, joined
    <2>3. stage \in Stages
      BY DEF Stages
    <2>4. /\ task' \in [Resources -> Stages] /\ task'[r] = stage /\ OthersGoOn
          /\ \A q \in Resources \ {r} : task'[q] = task[q]
      BY <1>6, <1>9, <2>1, <2>2, <2>3 DEF OfTask
    <2>5. ResourceTypeOK'
      BY <1>1, <1>2, <1>5, <2>2, <2>4 DEF ResourceTypeOK
    <2>6. DiskBounded'
      <3>1. Committing \subseteq Committing'
        BY <1>9, <2>1, <2>4 DEF Committing, StageOf
      <3>2. Counting' \subseteq Counting
        BY <1>2, <3>1 DEF Counting
      <3> QED BY <3>2, StillBounded DEF ResourceTypeOK
    <2>7. \/ jobs' = Tail(jobs)
          \/ /\ jobs' = Append(Tail(jobs), Job("prune", jobs[1].about))
             /\ jobs[1].op = "set"
             /\ \E q \in Resources : jobs[1].about = {q} /\ task'[q] = "pruning"
      BY <2>1, <2>2, <2>4 DEF joined, h
    <2> QED BY <1>2, <2>4, <2>5, <2>6, <2>7, JobLeaves
  <1>10. CASE h.op \in {"server", "touch", "look"}
    <2>1. jobs' = Tail(jobs) /\ task' = task /\ removal' \in {removal, NoRemoval}
      BY <1>2, <1>10 DEF After
    <2>2. ResourceTypeOK' /\ OthersGoOn
      BY <1>1, <1>2, <1>7, <2>1 DEF ResourceTypeOK
    <2>3. DiskBounded'
      <3>1. Counting' \subseteq Counting
        BY <1>2, <2>1 DEF Counting, Committing
      <3> QED BY <3>1, StillBounded DEF ResourceTypeOK
    <2> QED BY <1>2, <2>1, <2>2, <2>3, JobLeaves
  <1> QED BY <1>3, <1>8, <1>9, <1>10

\* It could not be written.
LEMMA JobFailsInv ==
    ASSUME DiskInv, JobFails
    PROVE  DiskInv'
  <1> USE DEF DiskInv
  <1> DEFINE h == jobs[1]
  <1>1. /\ jobs \in Seq(Jobs) /\ jobs # <<>> /\ Head(jobs) = h /\ h \in Jobs
        /\ 1 \in DOMAIN jobs
        /\ Tail(jobs) \in Seq(Jobs)
    BY Left DEF JobFails, ResourceTypeOK
  <1>2. /\ writing /\ writing' = FALSE /\ UNCHANGED <<files, index, stored>>
        /\ jobs' = Tail(jobs)
        /\ task' = IF OfTask(h) THEN [task EXCEPT ![CHOOSE r \in h.about : TRUE] = "none"]
                   ELSE task
        /\ stray' = IF h.op = "set" THEN stray \cup (h.about \cap files) ELSE stray
        /\ removal' \in {removal, NoRemoval}
    BY <1>1 DEF JobFails, OfTask
  <1>3. faults' \in 0..MaxFaults
    BY ResourceAssumption DEF JobFails, Fault, ResourceTypeOK
  <1>4. OfTask(h) => \E r \in Resources : h.about = {r} /\ task[r] = StageOf(h.op)
    BY <1>1 DEF JobsMatch
  <1> HIDE DEF h
  <1>5. ASSUME NEW r \in Resources, h.about = {r}, task[r] = StageOf(h.op), OfTask(h)
        PROVE  /\ task' \in [Resources -> Stages] /\ OthersGoOn
               /\ \A q \in Resources \ {r} : task'[q] = task[q]
    <2>1. task' = [task EXCEPT ![r] = "none"]
      BY <1>2, <1>5, Chosen
    <2> QED BY <1>5, <2>1 DEF ResourceTypeOK, OthersGoOn, Over, Stages, h
  <1>6. ~OfTask(h) => task' \in [Resources -> Stages] /\ OthersGoOn
    BY <1>2 DEF ResourceTypeOK, OthersGoOn
  <1>7. task' \in [Resources -> Stages] /\ OthersGoOn
    BY <1>4, <1>5, <1>6
  <1>8. stray \subseteq stray' /\ stray' \subseteq files
    BY <1>2 DEF ResourceTypeOK
  <1>9. ResourceTypeOK'
    BY <1>1, <1>2, <1>3, <1>7, <1>8 DEF ResourceTypeOK
  <1>10. DiskBounded'
    <2>1. CASE h.op = "prune"
      <3>1. UNCHANGED <<files, stray>>
        BY <1>2, <2>1
      <3> QED BY <1>2, <1>7, <2>1, <3>1, PrunedIsBounded DEF h
    <2>2. CASE h.op # "prune" /\ OfTask(h)
      <3>1. PICK r \in Resources : h.about = {r} /\ task[r] = StageOf(h.op)
        BY <1>4, <2>2
      <3>2. \A q \in Resources \ {r} : task'[q] = task[q]
        BY <1>5, <2>2, <3>1
      <3>3. \/ h.op = "set" /\ r \in stray' \cup (Resources \ files)
            \/ r \notin Committing
        BY <1>2, <2>2, <3>1 DEF OfTask, StageOf, Committing
      <3>4. Counting' \subseteq Counting
        BY <1>2, <1>8, <3>2, <3>3 DEF Counting, Committing, ResourceTypeOK
      <3> QED BY <3>4, StillBounded DEF ResourceTypeOK
    <2>3. CASE ~OfTask(h)
      <3>1. Counting' \subseteq Counting
        BY <1>2, <1>8, <2>3 DEF Counting, Committing
      <3> QED BY <3>1, StillBounded DEF ResourceTypeOK
    <2> QED BY <2>1, <2>2, <2>3
  <1> QED BY <1>2, <1>7, <1>8, <1>9, <1>10, JobLeaves

-----------------------------------------------------------------------------
\* Nothing is cached at first.
LEMMA DiskInitially == ResourceInit => DiskInv
  <1> SUFFICES ASSUME ResourceInit PROVE DiskInv
    OBVIOUS
  <1>1. /\ files = {} /\ index = {} /\ stored = {} /\ jobs = <<>> /\ writing = FALSE
        /\ removal = NoRemoval /\ stray = {} /\ faults = 0
    BY DEF ResourceInit
  <1>2. task \in [Resources -> Stages]
    BY DEF ResourceInit, Stages
  <1>3. jobs \in Seq(Jobs) /\ DOMAIN jobs = {}
    BY <1>1
  <1>4. ResourceTypeOK
    <2>1. /\ files \subseteq Resources /\ stray \subseteq files
          /\ index \subseteq Resources /\ stored \subseteq Resources
          /\ removal \in Removals \cup {NoRemoval}
          /\ writing \in BOOLEAN /\ (writing => jobs # <<>>)
      BY <1>1
    <2>2. faults \in 0..MaxFaults
      BY <1>1, ResourceAssumption
    <2> QED BY <1>2, <1>3, <2>1, <2>2 DEF ResourceTypeOK
  <1>5. JobsMatch /\ Queued /\ Indexed /\ Pruned
    BY <1>1, <1>3 DEF JobsMatch, Queued, Indexed, Pruned
  <1>6. DiskBounded
    <2>1. Size(files \ (stray \cup Committing)) = Cardinality({})
      BY <1>1 DEF Size
    <2>2. Cardinality({}) = 0
      BY FS_EmptySet
    <2> QED BY <2>1, <2>2, ResourceAssumption DEF DiskBounded
  <1> QED BY <1>4, <1>5, <1>6 DEF DiskInv

\* Every step keeps the invariant.
LEMMA DiskStep == DiskInv /\ [ResourceNext]_rcVars => DiskInv'
  <1> SUFFICES ASSUME DiskInv, [ResourceNext]_rcVars PROVE DiskInv'
    OBVIOUS
  <1>1. ASSUME NEW r \in Resources, Lookup(r) \/ Invalidate(r) PROVE DiskInv'
    BY <1>1, LookupInv
  <1>2. CASE \/ \E r \in Resources : Ensure(r) \/ Downloaded(r) \/ DownloadFails(r)
             \/ \E server \in Servers : FlushBatch(server) \/ UrlsArrive(server)
    BY <1>2, DownloadInv
  <1>3. ASSUME NEW r \in Resources, Check(r) \/ Moved(r) \/ Reclaimed(r) PROVE DiskInv'
    BY <1>3, CheckInv, MovedInv, ReclaimedInv
  <1>4. CASE TaskSettled \/ DeleteDirectory \/ \E server \in Servers : RemoveServer(server)
    BY <1>4, RemovalInv
  <1>5. CASE RunJob \/ JobPersisted \/ JobFails \/ Restart
    BY <1>5, RunJobInv, JobPersistedInv, JobFailsInv, ProcessRestarts
  <1>6. CASE UNCHANGED rcVars
    <2>1. ResourceTypeOK' /\ TasksGoOn
      BY <1>6 DEF rcVars, DiskInv, ResourceTypeOK, TasksGoOn
    <2> QED BY <1>6, <2>1, FilesGo DEF rcVars
  <1> QED BY <1>1, <1>2, <1>3, <1>4, <1>5, <1>6 DEF ResourceNext

\* The cache stays within its limit.
THEOREM CacheOnDiskBounded == ResourceSpec => []DiskBounded
  <1>1. DiskInv => DiskBounded
    BY DEF DiskInv
  <1> QED BY <1>1, DiskInitially, DiskStep, PTL DEF ResourceSpec

\* The type of the cache of files: a file that was left behind is on the disk, and
\* while the queue of mutations works there is one in it (resource-cache-store.ts).
THEOREM ResourceTypeCorrect == ResourceSpec => []ResourceTypeOK
  <1>1. DiskInv => ResourceTypeOK
    BY DEF DiskInv
  <1> QED BY <1>1, DiskInitially, DiskStep, PTL DEF ResourceSpec

(***************************************************************************)
(* Theorems about MobileMessages, for every size of a page and of a        *)
(* catch-up: what is written into the query's data, and a fetch of it that *)
(* is under way meanwhile, never leave a message out of reach.             *)
(***************************************************************************)

Held(ps, n) == \E i \in DOMAIN ps : n \in Seqs(ps[i].msgs)

\* A query whose pages say the same of what is before them, and hold what they
\* held, has all that it had in reach.
LEMMA ReachKept ==
  ASSUME NEW ps \in Seq(Page), NEW qs \in Seq(Page), Len(qs) = Len(ps), InReach(ps),
         \A i \in 1..Len(ps) : qs[i].more = ps[i].more /\ qs[i].oldest = ps[i].oldest,
         \A n : Held(ps, n) => Held(qs, n)
  PROVE  InReach(qs)
<1>1. CASE ps = <<>>
  <2>1. qs = <<>>
    BY <1>1
  <2> QED BY <2>1 DEF InReach, Lacks
<1>2. CASE ps # <<>>
  <2>1. qs # <<>> /\ Len(ps) \in 1..Len(ps) /\ 1 \in 1..Len(ps)
    BY <1>2
  <2>2. Top(qs[1]) = Top(ps[1])
    BY <2>1 DEF Top
  <2> SUFFICES ASSUME NEW n \in Lacks(qs)
               PROVE  qs[Len(qs)].more /\ n < qs[Len(qs)].oldest
    BY DEF InReach
  <2>3. n \in 1..Top(qs[1]) /\ ~Held(qs, n)
    BY <2>1 DEF Lacks, Held
  <2>4. n \in Lacks(ps)
    BY <1>2, <2>2, <2>3 DEF Lacks, Held
  <2>5. ps[Len(ps)].more /\ n < ps[Len(ps)].oldest
    BY <2>4 DEF InReach
  <2> QED BY <2>1, <2>5
<1> QED BY <1>1, <1>2

\* A page from which messages are taken, or in which they are replaced.
LEMMA WithoutFacts ==
  ASSUME NEW p \in Page, NEW msgs \in SUBSET Message
  PROVE  /\ Without(p, msgs) \in Page
         /\ Without(p, msgs).more = p.more /\ Without(p, msgs).oldest = p.oldest
         /\ \A n \in Seqs(p.msgs) : n \in Seqs(Without(p, msgs).msgs) \/ n \in Seqs(msgs)
         /\ LET q == [Without(p, msgs) EXCEPT !.msgs = @ \cup msgs]
            IN  /\ q \in Page /\ q.more = p.more /\ q.oldest = p.oldest
                /\ q.msgs = Without(p, msgs).msgs \cup msgs
<1> DEFINE rest == {m \in p.msgs : m.seq \notin Seqs(msgs)}
<1>1. Without(p, msgs) = [p EXCEPT !.msgs = rest]
  BY DEF Without
<1>2. rest \subseteq p.msgs /\ p.msgs \subseteq Message
  BY DEF Page
<1>3. ASSUME NEW n \in Seqs(p.msgs) PROVE n \in Seqs(rest) \/ n \in Seqs(msgs)
  <2>1. PICK m \in p.msgs : m.seq = n
    BY <1>3 DEF Seqs
  <2> QED BY <2>1 DEF Seqs
<1> HIDE DEF rest
<1>4. /\ [p EXCEPT !.msgs = rest] \in Page /\ [p EXCEPT !.msgs = rest].msgs = rest
      /\ [p EXCEPT !.msgs = rest].more = p.more /\ [p EXCEPT !.msgs = rest].oldest = p.oldest
  BY <1>2 DEF Page
<1> DEFINE r == Without(p, msgs)
<1>5. r \in Page /\ r.msgs = rest /\ r.more = p.more /\ r.oldest = p.oldest
  BY <1>1, <1>4
<1> HIDE DEF r
<1>6. LET q == [r EXCEPT !.msgs = @ \cup msgs]
      IN  /\ q \in Page /\ q.more = r.more /\ q.oldest = r.oldest
          /\ q.msgs = r.msgs \cup msgs
  BY <1>5 DEF Page
<1> QED BY <1>3, <1>5, <1>6 DEF r

\* Messages move to the first page, or are added to it.
LEMMA AppendedInReach ==
  ASSUME NEW ps \in Seq(Page), NEW msgs \in SUBSET Message, InReach(ps)
  PROVE  AppendMessages(ps, msgs) \in Seq(Page) /\ InReach(AppendMessages(ps, msgs))
<1>1. CASE ps = <<>> \/ msgs = {}
  BY <1>1 DEF AppendMessages
<1>2. CASE ps # <<>> /\ msgs # {}
  <2> DEFINE first(i) == [Without(ps[i], msgs) EXCEPT !.msgs = @ \cup msgs]
  <2> DEFINE qs == [i \in DOMAIN ps |-> IF i = 1 THEN first(i) ELSE Without(ps[i], msgs)]
  <2>1. AppendMessages(ps, msgs) = qs
    BY <1>2 DEF AppendMessages
  <2>2. DOMAIN ps = 1..Len(ps) /\ Len(ps) \in Nat /\ 1 \in 1..Len(ps)
        /\ \A i \in 1..Len(ps) : ps[i] \in Page
    BY <1>2
  <2>3. \A i \in 1..Len(ps) :
           /\ first(i) \in Page /\ Without(ps[i], msgs) \in Page
           /\ first(i).more = ps[i].more /\ first(i).oldest = ps[i].oldest
           /\ Without(ps[i], msgs).more = ps[i].more
           /\ Without(ps[i], msgs).oldest = ps[i].oldest
           /\ first(i).msgs = Without(ps[i], msgs).msgs \cup msgs
    BY <2>2, WithoutFacts
  <2>4. qs \in Seq(Page) /\ Len(qs) = Len(ps) /\ DOMAIN qs = 1..Len(ps)
    BY <2>2, <2>3
  <2>5. \A i \in 1..Len(ps) : qs[i].more = ps[i].more /\ qs[i].oldest = ps[i].oldest
    BY <2>2, <2>3
  <2>6. ASSUME NEW n, Held(ps, n) PROVE Held(qs, n)
    <3>1. PICK i \in 1..Len(ps) : n \in Seqs(ps[i].msgs)
      BY <2>2, <2>6 DEF Held
    <3>2. n \in Seqs(Without(ps[i], msgs).msgs) \/ n \in Seqs(msgs)
      BY <2>2, <3>1, WithoutFacts
    <3>3. CASE n \in Seqs(msgs)
      <4>1. qs[1].msgs = Without(ps[1], msgs).msgs \cup msgs
        BY <2>2, <2>3
      <4>2. n \in Seqs(qs[1].msgs)
        BY <3>3, <4>1 DEF Seqs
      <4> QED BY <2>2, <2>4, <4>2 DEF Held
    <3>4. CASE n \in Seqs(Without(ps[i], msgs).msgs)
      <4>1. Without(ps[i], msgs).msgs \subseteq qs[i].msgs
        BY <2>2, <2>3
      <4>2. n \in Seqs(qs[i].msgs)
        BY <3>4, <4>1 DEF Seqs
      <4> QED BY <2>4, <4>2 DEF Held
    <3> QED BY <3>2, <3>3, <3>4
  <2> HIDE DEF qs
  <2>7. InReach(qs)
    BY <2>4, <2>5, <2>6, ReachKept
  <2> QED BY <2>1, <2>4, <2>7
<1> QED BY <1>1, <1>2

\* A message is replaced where it is.
LEMMA UpdatedInReach ==
  ASSUME NEW ps \in Seq(Page), NEW msg \in Message, InReach(ps)
  PROVE  UpdateIn(ps, msg) \in Seq(Page) /\ InReach(UpdateIn(ps, msg))
<1> DEFINE new(i) == [Without(ps[i], {msg}) EXCEPT !.msgs = @ \cup {msg}]
<1> DEFINE qs == [i \in DOMAIN ps |-> IF msg.seq \in Seqs(ps[i].msgs) THEN new(i) ELSE ps[i]]
<1>1. UpdateIn(ps, msg) = qs
  BY DEF UpdateIn
<1>2. DOMAIN ps = 1..Len(ps) /\ Len(ps) \in Nat /\ \A i \in 1..Len(ps) : ps[i] \in Page
  OBVIOUS
<1>3. \A i \in 1..Len(ps) :
         /\ new(i) \in Page
         /\ new(i).more = ps[i].more /\ new(i).oldest = ps[i].oldest
         /\ new(i).msgs = Without(ps[i], {msg}).msgs \cup {msg}
  <2> SUFFICES ASSUME NEW i \in 1..Len(ps)
               PROVE  /\ new(i) \in Page
                      /\ new(i).more = ps[i].more /\ new(i).oldest = ps[i].oldest
                      /\ new(i).msgs = Without(ps[i], {msg}).msgs \cup {msg}
    OBVIOUS
  <2>1. ps[i] \in Page /\ {msg} \in SUBSET Message
    BY <1>2
  <2> QED BY <2>1, WithoutFacts
<1>4. qs \in Seq(Page) /\ Len(qs) = Len(ps) /\ DOMAIN qs = 1..Len(ps)
  <2>1. \A i \in 1..Len(ps) : qs[i] \in Page
    BY <1>2, <1>3
  <2> HIDE DEF new
  <2> QED BY <1>2, <2>1
<1>5. \A i \in 1..Len(ps) : qs[i].more = ps[i].more /\ qs[i].oldest = ps[i].oldest
  BY <1>2, <1>3
<1>6. ASSUME NEW n, Held(ps, n) PROVE Held(qs, n)
  <2>1. PICK i \in 1..Len(ps) : n \in Seqs(ps[i].msgs)
    BY <1>2, <1>6 DEF Held
  <2>2. n \in Seqs(Without(ps[i], {msg}).msgs) \/ n \in Seqs({msg})
    <3>1. ps[i] \in Page /\ {msg} \in SUBSET Message
      BY <1>2, <2>1
    <3> QED BY <2>1, <3>1, WithoutFacts
  <2>3. n \in Seqs(new(i).msgs)
    BY <1>3, <2>2 DEF Seqs
  <2>4. n \in Seqs(qs[i].msgs)
    BY <1>2, <2>1, <2>3
  <2> QED BY <1>4, <2>4 DEF Held
<1> HIDE DEF qs
<1>7. InReach(qs)
  BY <1>4, <1>5, <1>6, ReachKept
<1> QED BY <1>1, <1>4, <1>7

LEMMA UpsertedInReach ==
  ASSUME NEW ps \in Seq(Page), NEW msg \in Message, InReach(ps)
  PROVE  Upsert(ps, msg) \in Seq(Page) /\ InReach(Upsert(ps, msg))
BY AppendedInReach, UpdatedInReach DEF Upsert

(* What is known of the log, and that it is within its bound.             *)
LogInv == log \in [last : 0..LastSeq, revoked : SUBSET Nat]

Messages == SUBSET Message

\* A part of the log is messages.
LEMMA WindowFacts ==
  ASSUME LogInv, NEW lo \in Nat \ {0}, NEW hi \in 0..LastSeq
  PROVE  Window(lo, hi) \in Messages /\ \A n \in lo..hi : n \in Seqs(Window(lo, hi))
<1>1. log.last \in 0..LastSeq /\ LastSeq \in Nat
  BY MobileMessagesAssumption DEF LogInv
<1>2. \A n \in lo..hi : Now(n) \in Message /\ Now(n).seq = n
  BY <1>1 DEF Now, Message
<1> QED BY <1>2 DEF Window, Messages, Seqs

\* A page ends where it was asked to, and says whether messages are before it.
LEMMA PageFacts ==
  ASSUME LogInv, NEW hi \in 0..LastSeq
  PROVE  LET page == PageUpTo(hi)
         IN  /\ page \in Page
             /\ \A n \in 1..hi : n \in Seqs(page.msgs) \/ (page.more /\ n < page.oldest)
             /\ Top(page) <= hi
<1> DEFINE lo == Below(hi, PageLimit) + 1
<1>1. log.last \in 0..LastSeq /\ LastSeq \in Nat /\ PageLimit \in Nat \ {0} /\ hi \in 0..LastSeq
  BY MobileMessagesAssumption DEF LogInv
<1>2. /\ lo \in Nat \ {0} /\ (hi > 0 => lo <= hi)
      /\ lo > 1 => lo = hi - PageLimit + 1
  BY <1>1 DEF Below
<1> DEFINE w == Window(lo, hi)
<1>3. w \in SUBSET Message /\ \A n \in lo..hi : n \in Seqs(w)
  BY <1>2, WindowFacts DEF Messages
<1>4. PageUpTo(hi) = [msgs |-> w, more |-> lo > 1, oldest |-> IF hi = 0 THEN 0 ELSE lo]
  BY DEF PageUpTo
<1> HIDE DEF lo, w
<1> DEFINE page == PageUpTo(hi)
<1>5. page \in Page /\ page.msgs = w /\ page.more = (lo > 1)
      /\ page.oldest = IF hi = 0 THEN 0 ELSE lo
  BY <1>1, <1>2, <1>3, <1>4 DEF Page
<1> HIDE DEF page
<1>6. \A n \in 1..hi : n \in Seqs(page.msgs) \/ (page.more /\ n < page.oldest)
  <2> SUFFICES ASSUME NEW n \in 1..hi, n \notin Seqs(page.msgs)
               PROVE  page.more /\ n < page.oldest
    OBVIOUS
  <2>1. ~(n \in lo..hi)
    BY <1>3, <1>5
  <2>2. n < lo /\ lo > 1 /\ hi # 0
    BY <1>1, <1>2, <2>1
  <2> QED BY <1>5, <2>2
<1>7. Top(page) <= hi
  <2>1. CASE page.more
    <3>1. lo > 1
      BY <1>5, <2>1
    <3>2. hi # 0 /\ page.oldest = hi - PageLimit + 1
      BY <1>1, <1>2, <1>5, <3>1
    <3>3. page.oldest + PageLimit - 1 <= hi
      BY <1>1, <3>2
    <3> QED BY <2>1, <3>3 DEF Top
  <2>2. CASE ~page.more
    <3>1. page.oldest <= hi
      BY <1>1, <1>2, <1>5
    <3> QED BY <2>2, <3>1 DEF Top
  <2> QED BY <2>1, <2>2
<1> QED BY <1>5, <1>6, <1>7 DEF page

\* The next page a fetch is served follows the ones it has.
LEMMA FetchedInReach ==
  ASSUME LogInv, NEW got \in Seq(Page), InReach(got),
         NEW page,
         page = PageUpTo(IF Len(got) = 0 THEN log.last
                         ELSE Below(got[Len(got)].oldest, 1))
  PROVE  page \in Page /\ Append(got, page) \in Seq(Page) /\ InReach(Append(got, page))
<1> DEFINE last == got[Len(got)]
<1> DEFINE hi == IF Len(got) = 0 THEN log.last ELSE Below(last.oldest, 1)
<1> DEFINE new == Append(got, page)
<1>1. log.last \in 0..LastSeq /\ LastSeq \in Nat
  BY MobileMessagesAssumption DEF LogInv
<1>2. got # <<>> => Len(got) # 0 /\ last \in Page
  OBVIOUS
<1>3. got # <<>> => last.oldest \in 0..LastSeq
  BY <1>2 DEF Page
<1>4. hi \in 0..LastSeq
  BY <1>1, <1>3 DEF Below
<1>5. /\ page \in Page
      /\ \A n \in 1..hi : n \in Seqs(page.msgs) \/ (page.more /\ n < page.oldest)
      /\ Top(page) <= hi
  BY <1>4, PageFacts
<1>6. /\ new \in Seq(Page) /\ new # <<>> /\ new[Len(new)] = page
      /\ Len(new) = Len(got) + 1 /\ DOMAIN new = 1..Len(new)
      /\ \A i \in 1..Len(got) : new[i] = got[i]
  BY <1>5, AppendProperties
<1>7. ASSUME NEW n \in Lacks(new) PROVE page.more /\ n < page.oldest
  <2>1. n \in 1..Top(new[1]) /\ \A i \in 1..Len(new) : n \notin Seqs(new[i].msgs)
    BY <1>6, <1>7 DEF Lacks
  <2>2. n \notin Seqs(page.msgs)
    BY <1>6, <2>1
  <2>3. n \in 1..hi
    <3>1. CASE got = <<>>
      <4>1. new[1] = page
        BY <1>6, <3>1
      <4>2. Top(page) \in Int
        BY <1>1, <1>5, MobileMessagesAssumption DEF Top, Page
      <4> QED BY <1>1, <1>4, <1>5, <2>1, <4>1, <4>2
    <3>2. CASE got # <<>>
      <4>1. Len(got) # 0 /\ new[1] = got[1] /\ DOMAIN got = 1..Len(got)
        BY <1>6, <3>2
      <4>2. \A i \in DOMAIN got : n \notin Seqs(got[i].msgs)
        BY <1>6, <2>1, <4>1
      <4>3. n \in Lacks(got)
        BY <2>1, <3>2, <4>1, <4>2 DEF Lacks
      <4>4. n < last.oldest
        BY <4>3 DEF InReach
      <4>5. n \in Nat \ {0}
        BY <2>1
      <4>6. hi = last.oldest - 1
        BY <1>1, <1>3, <3>2, <4>1, <4>4, <4>5 DEF Below
      <4> QED BY <1>1, <1>3, <3>2, <4>4, <4>5, <4>6
    <3> QED BY <3>1, <3>2
  <2> QED BY <1>5, <2>2, <2>3
<1>8. InReach(new)
  BY <1>6, <1>7 DEF InReach
<1> QED BY <1>5, <1>6, <1>8

-----------------------------------------------------------------------------
(* The data and the fetch under way have everything in reach, and what the *)
(* client is told are messages.                                            *)
FetchOK ==
    fetch # Idle =>
      /\ fetch \in [at : {"left", "served"}, kind : {"all", "older"}, got : Seq(Page),
                    want : Nat]
      /\ InReach(fetch.got)
CatchUpOK ==
    catchUp # Idle => /\ catchUp.after \in Nat
                      /\ catchUp.at = "served" => catchUp.msgs \in Messages
OwnOK ==
    /\ own.at = "revoke" => own.seq \in 1..LastSeq
    /\ own.at = "served" => /\ own.msgs \in Messages
                            /\ \E m \in own.msgs : ~m.revoked
ToldOK == \A e \in events : e.msg \in Message

QueryInv ==
    /\ LogInv /\ pages \in Seq(Page) /\ OlderInReach
    /\ FetchOK /\ CatchUpOK /\ OwnOK /\ ToldOK

\* A query that is fetched from its first page on has nothing out of reach.
LEMMA EmptyInReach == <<>> \in Seq(Page) /\ InReach(<<>>)
BY DEF InReach, Lacks

\* A nonempty set of naturals has a least element.
LEMMA LeastIn ==
  ASSUME NEW T, T \subseteq Nat, T # {}
  PROVE  \E m \in T : \A j \in T : ~(j < m)
<1>1. PICK m \in T : \A j \in T : <<j, m>> \notin OpToRel(<, Nat)
  BY NatLessThanWellFounded, WFMin, ZenonT(40)
<1> QED BY <1>1 DEF OpToRel

\* The newest message of a query is a number.
LEMMA NewestIsNumber ==
  ASSUME pages \in Seq(Page)
  PROVE  Newest \in Nat /\ (Shown # {} => Newest \in Seqs(Shown))
<1>1. Shown \subseteq Message
  <2>1. \A i \in DOMAIN pages : pages[i] \in Page
    OBVIOUS
  <2>2. \A i \in DOMAIN pages : pages[i].msgs \subseteq Message
    BY <2>1 DEF Page
  <2> QED BY <2>2 DEF Shown
<1> DEFINE S == Seqs(Shown)
<1>2. S \subseteq 1..LastSeq /\ LastSeq \in Nat
  BY <1>1, MobileMessagesAssumption DEF Seqs, Message
<1>3. CASE Shown = {}
  BY <1>3 DEF Newest
<1>4. CASE Shown # {}
  <2>1. S # {}
    BY <1>4 DEF Seqs
  <2> HIDE DEF S
  <2> DEFINE U == {LastSeq - n : n \in S}
  <2>2. U \subseteq Nat /\ U # {}
    <3>1. \A n \in S : LastSeq - n \in Nat
      BY <1>2
    <3>2. PICK n \in S : TRUE
      BY <2>1
    <3>3. LastSeq - n \in U
      BY <3>2
    <3> QED BY <3>1, <3>3
  <2>3. \A m \in U : \E n \in S : m = LastSeq - n
    OBVIOUS
  <2> HIDE DEF U
  <2>4. PICK m \in U : \A j \in U : ~(j < m)
    BY <2>2, LeastIn
  <2>5. PICK n \in S : m = LastSeq - n
    BY <2>3, <2>4
  <2>6. \A k \in S : k <= n
    <3> SUFFICES ASSUME NEW k \in S PROVE k <= n
      OBVIOUS
    <3>1. ~(LastSeq - k < LastSeq - n)
      BY <2>4, <2>5 DEF U
    <3> QED BY <1>2, <3>1
  <2>7. Newest = CHOOSE k \in S : \A j \in S : j <= k
    BY <1>4 DEF Newest, S
  <2>8. Newest \in S
    BY <2>5, <2>6, <2>7
  <2> QED BY <1>2, <2>8 DEF S
<1> QED BY <1>3, <1>4

LEMMA QueryInitially == MobileMessagesInit => QueryInv
<1> SUFFICES ASSUME MobileMessagesInit PROVE QueryInv
  OBVIOUS
<1>1. LogInv
  BY MobileMessagesAssumption DEF MobileMessagesInit, LogInv
<1>2. pages \in Seq(Page) /\ OlderInReach
  BY EmptyInReach DEF MobileMessagesInit, OlderInReach
<1>3. FetchOK /\ CatchUpOK /\ OwnOK /\ ToldOK
  BY DEF MobileMessagesInit, FetchOK, CatchUpOK, OwnOK, ToldOK, Idle
<1> QED BY <1>1, <1>2, <1>3 DEF QueryInv

\* What is published is of messages.
LEMMA Published ==
  ASSUME ToldOK, NEW es, \A e \in es : e.msg \in Message, Publish(es)
  PROVE  ToldOK'
<1>1. events' \subseteq events \cup es
  BY DEF Publish
<1> QED BY <1>1 DEF ToldOK

LEMMA MessageMade ==
  ASSUME NEW n \in 1..LastSeq
  PROVE  /\ Created(n).msg \in Message /\ Updated(n).msg \in Message
         /\ ~Created(n).msg.revoked
BY DEF Created, Updated, Message

\* What the server does.
LEMMA ServerKeepsReach ==
  ASSUME QueryInv, OthersWrite \/ OthersRevoke \/ ServeOwn
  PROVE  QueryInv'
<1>1. /\ log = [last |-> log.last, revoked |-> log.revoked] /\ log.last \in 0..LastSeq
      /\ log.revoked \in SUBSET Nat /\ LastSeq \in Nat
  BY MobileMessagesAssumption DEF QueryInv, LogInv
<1>2. CASE OthersWrite
  <2>1. log.last + 1 \in 1..LastSeq
    BY <1>1, <1>2 DEF OthersWrite, Room
  <2>2. LogInv'
    BY <1>1, <1>2, <2>1 DEF OthersWrite, LogInv
  <2>3. ToldOK'
    <3>1. Publish({Created(log.last + 1)}) /\ ToldOK
      BY <1>2 DEF OthersWrite, QueryInv
    <3>2. \A e \in {Created(log.last + 1)} : e.msg \in Message
      BY <2>1, MessageMade
    <3> QED BY <3>1, <3>2, Published
  <2> QED BY <1>2, <2>2, <2>3 DEF OthersWrite, QueryInv, OlderInReach, FetchOK, CatchUpOK, OwnOK
<1>3. CASE OthersRevoke
  <2>1. PICK n \in (1..log.last) \ log.revoked :
               log' = [log EXCEPT !.revoked = @ \cup {n}] /\ Publish({Updated(n)})
    BY <1>3 DEF OthersRevoke
  <2>2. n \in 1..LastSeq
    BY <1>1
  <2>3. LogInv'
    BY <1>1, <2>1, <2>2 DEF LogInv
  <2>4. ToldOK'
    <3>1. \A e \in {Updated(n)} : e.msg \in Message
      BY <2>2, MessageMade
    <3> QED BY <2>1, <3>1, Published DEF QueryInv
  <2> QED BY <1>3, <2>3, <2>4 DEF OthersRevoke, QueryInv, OlderInReach, FetchOK, CatchUpOK, OwnOK
<1>4. CASE ServeOwn
  <2> DEFINE n == log.last + 1
  <2> DEFINE old == IF own.at = "revoke" THEN {own.seq} ELSE {}
  <2> DEFINE msgs == {Created(n).msg} \cup {Updated(k).msg : k \in old}
  <2>1. /\ log' = [last |-> n, revoked |-> log.revoked \cup old]
        /\ Publish({Created(n)} \cup {Updated(k) : k \in old})
        /\ own' = [at |-> "served", msgs |-> msgs]
    BY <1>4 DEF ServeOwn
  <2>2. n \in 1..LastSeq /\ old \subseteq 1..LastSeq
    BY <1>1, <1>4 DEF ServeOwn, Room, QueryInv, OwnOK
  <2> HIDE DEF n, old
  <2>3. LogInv'
    BY <1>1, <2>1, <2>2 DEF LogInv
  <2>4. ToldOK'
    <3> DEFINE es == {Created(n)} \cup {Updated(k) : k \in old}
    <3>1. \A e \in es : e.msg \in Message
      BY <2>2, MessageMade
    <3> HIDE DEF es
    <3>2. Publish(es)
      BY <2>1 DEF es
    <3> QED BY <3>1, <3>2, Published DEF QueryInv
  <2>5. OwnOK'
    <3>1. msgs \in Messages /\ Created(n).msg \in msgs /\ ~Created(n).msg.revoked
      BY <2>2, MessageMade DEF Messages
    <3> HIDE DEF msgs
    <3>2. own'.at = "served" /\ own'.msgs = msgs
      BY <2>1
    <3> QED BY <3>1, <3>2 DEF OwnOK
  <2> QED BY <1>4, <2>3, <2>4, <2>5 DEF ServeOwn, QueryInv, OlderInReach, FetchOK, CatchUpOK
<1> QED BY <1>2, <1>3, <1>4

\* The query and its fetch.
LEMMA FetchKeepsReach ==
  ASSUME QueryInv,
         \/ OpenScreen \/ CloseScreen \/ DropQuery \/ Poll \/ FetchOlder
         \/ FetchPage \/ FetchEnds \/ FetchFails
  PROVE  QueryInv'
<1>1. pages \in Seq(Page) /\ InReach(pages) /\ Len(pages) \in Nat
  BY DEF QueryInv, OlderInReach
<1>2. CASE UNCHANGED <<log, pages, events, catchUp, own>> /\ (fetch' = fetch \/ fetch' = Idle)
  BY <1>2 DEF QueryInv, LogInv, OlderInReach, FetchOK, CatchUpOK, OwnOK, ToldOK
<1>3. CASE UNCHANGED <<log, pages, events, catchUp, own>> /\ StartAll
  <2>1. FetchOK'
    BY <1>1, <1>3, EmptyInReach DEF StartAll, FetchOK
  <2> QED BY <1>3, <2>1 DEF QueryInv, LogInv, OlderInReach, CatchUpOK, OwnOK, ToldOK
<1>4. CASE DropQuery
  <2>1. pages' \in Seq(Page) /\ OlderInReach' /\ FetchOK'
    BY <1>4, EmptyInReach DEF DropQuery, OlderInReach, FetchOK
  <2> QED BY <1>4, <2>1 DEF DropQuery, QueryInv, LogInv, CatchUpOK, OwnOK, ToldOK
<1>5. CASE FetchOlder
  <2>1. FetchOK'
    BY <1>1, <1>5 DEF FetchOlder, FetchOK
  <2> QED BY <1>5, <2>1 DEF FetchOlder, QueryInv, LogInv, OlderInReach, CatchUpOK, OwnOK, ToldOK
<1>6. CASE FetchPage
  <2> DEFINE got == fetch.got
  <2> DEFINE page == PageUpTo(IF Len(got) = 0 THEN log.last ELSE Below(got[Len(got)].oldest, 1))
  <2>1. /\ fetch \in [at : {"left", "served"}, kind : {"all", "older"}, got : Seq(Page),
                       want : Nat]
        /\ got \in Seq(Page) /\ InReach(got)
    BY <1>6 DEF FetchPage, QueryInv, FetchOK
  <2>2. Append(got, page) \in Seq(Page) /\ InReach(Append(got, page))
    BY <2>1, FetchedInReach DEF QueryInv
  <2>3. \E at \in {"left", "served"} :
           fetch' = [fetch EXCEPT !.got = Append(got, page), !.at = at]
    BY <1>6 DEF FetchPage
  <2> HIDE DEF page
  <2>4. FetchOK'
    BY <2>1, <2>2, <2>3 DEF FetchOK
  <2> QED BY <1>6, <2>4 DEF FetchPage, QueryInv, LogInv, OlderInReach, CatchUpOK, OwnOK, ToldOK
<1>7. CASE FetchEnds
  <2>1. pages' \in Seq(Page) /\ OlderInReach' /\ FetchOK'
    BY <1>7 DEF FetchEnds, QueryInv, OlderInReach, FetchOK
  <2> QED BY <1>7, <2>1 DEF FetchEnds, QueryInv, LogInv, CatchUpOK, OwnOK, ToldOK
<1> QED BY <1>2, <1>3, <1>4, <1>5, <1>6, <1>7
        DEF OpenScreen, CloseScreen, Poll, FetchFails

\* Realtime events and the catch-up after a reconnect.
LEMMA RealtimeKeepsReach ==
  ASSUME QueryInv,
         \/ HandleEvent \/ GoOffline \/ GoOnline
         \/ StartSync \/ ServeCatchUp \/ CatchUpArrives \/ CatchUpFails
  PROVE  QueryInv'
<1>1. pages \in Seq(Page) /\ InReach(pages) /\ Len(pages) \in Nat
  BY DEF QueryInv, OlderInReach
<1>2. CASE HandleEvent
  <2>1. PICK e \in events :
               /\ events' = events \ {e}
               /\ pages' = IF e.name = "created" THEN AppendMessages(pages, {e.msg})
                           ELSE UpdateIn(pages, e.msg)
    BY <1>2 DEF HandleEvent, Write
  <2>2. e.msg \in Message /\ {e.msg} \in SUBSET Message
    BY DEF QueryInv, ToldOK
  <2>3. pages' \in Seq(Page) /\ OlderInReach'
    BY <1>1, <2>1, <2>2, AppendedInReach, UpdatedInReach DEF OlderInReach
  <2>4. ToldOK'
    BY <2>1 DEF QueryInv, ToldOK
  <2> QED BY <1>2, <2>3, <2>4 DEF HandleEvent, QueryInv, LogInv, FetchOK, CatchUpOK, OwnOK
<1>3. CASE GoOffline \/ GoOnline
  BY <1>3 DEF GoOffline, GoOnline, QueryInv, LogInv, OlderInReach, FetchOK, CatchUpOK, OwnOK, ToldOK
<1>4. CASE StartSync
  <2>1. CatchUpOK'
    BY <1>1, <1>4, NewestIsNumber DEF StartSync, CatchUpOK, CatchUpFrom
  <2> QED BY <1>4, <2>1 DEF StartSync, QueryInv, LogInv, OlderInReach, FetchOK, OwnOK, ToldOK
<1>5. CASE ServeCatchUp
  <2> DEFINE after == catchUp.after
  <2> DEFINE hi == Lower(after + PageLimit, log.last)
  <2>1. after \in Nat /\ log.last \in 0..LastSeq /\ LastSeq \in Nat /\ PageLimit \in Nat
    BY <1>5, MobileMessagesAssumption DEF ServeCatchUp, QueryInv, CatchUpOK, LogInv
  <2>2. hi \in 0..LastSeq /\ after + 1 \in Nat \ {0}
    BY <2>1 DEF Lower
  <2>3. Window(after + 1, hi) \in Messages
    BY <2>2, WindowFacts DEF QueryInv
  <2>4. catchUp'.after = after /\ catchUp'.msgs = Window(after + 1, hi)
    BY <1>5 DEF ServeCatchUp
  <2>5. CatchUpOK'
    BY <2>1, <2>3, <2>4 DEF CatchUpOK
  <2> QED BY <1>5, <2>5 DEF ServeCatchUp, QueryInv, LogInv, OlderInReach, FetchOK, OwnOK, ToldOK
<1>6. CASE CatchUpArrives
  <2>1. catchUp.after \in Nat /\ catchUp.msgs \in SUBSET Message /\ PageLimit \in Nat
    BY <1>6, MobileMessagesAssumption DEF CatchUpArrives, QueryInv, CatchUpOK, Messages
  <2>2. pages' = AppendMessages(pages, catchUp.msgs)
    BY <1>6 DEF CatchUpArrives, Write
  <2>3. pages' \in Seq(Page) /\ OlderInReach'
    BY <1>1, <2>1, <2>2, AppendedInReach DEF OlderInReach
  <2>4. fetch' = fetch \/ StartAll
    BY <1>6 DEF CatchUpArrives, InvalidateQuery
  <2>5. FetchOK'
    <3>1. CASE fetch' = fetch
      BY <3>1 DEF QueryInv, FetchOK
    <3>2. CASE StartAll
      BY <1>1, <3>2, EmptyInReach DEF FetchOK, StartAll
    <3> QED BY <2>4, <3>1, <3>2
  <2>6. CatchUpOK'
    BY <1>6, <2>1 DEF CatchUpArrives, CatchUpFrom, CatchUpOK
  <2> QED BY <1>6, <2>3, <2>5, <2>6 DEF CatchUpArrives, QueryInv, LogInv, OwnOK, ToldOK
<1>7. CASE CatchUpFails
  BY <1>7 DEF CatchUpFails, QueryInv, LogInv, OlderInReach, FetchOK, CatchUpOK, OwnOK, ToldOK
<1> QED BY <1>2, <1>3, <1>4, <1>5, <1>6, <1>7

\* The user's own requests.
LEMMA OwnKeepsReach ==
  ASSUME QueryInv, Send \/ Revoke \/ OwnArrives \/ OwnFails
  PROVE  QueryInv'
<1>1. pages \in Seq(Page) /\ InReach(pages)
  BY DEF QueryInv, OlderInReach
<1>2. CASE Send \/ OwnFails
  BY <1>2 DEF Send, OwnFails, Idle, QueryInv, LogInv, OlderInReach, FetchOK, CatchUpOK, OwnOK, ToldOK
<1>3. CASE Revoke
  <2>1. PICK m \in Shown : own' = [at |-> "revoke", seq |-> m.seq]
    BY <1>3 DEF Revoke
  <2>2. m \in Message
    <3>1. PICK i \in DOMAIN pages : m \in pages[i].msgs
      BY DEF Shown
    <3>2. pages[i] \in Page
      BY <1>1
    <3> QED BY <3>1, <3>2 DEF Page
  <2>3. OwnOK'
    BY <2>1, <2>2 DEF OwnOK, Message
  <2> QED BY <1>3, <2>3 DEF Revoke, QueryInv, LogInv, OlderInReach, FetchOK, CatchUpOK, ToldOK
<1>4. CASE OwnArrives
  <2> DEFINE old == {m \in own.msgs : m.revoked}
  <2> DEFINE new == CHOOSE m \in own.msgs : ~m.revoked
  <2> DEFINE some == CHOOSE m \in old : TRUE
  <2> DEFINE updated == IF old = {} THEN pages ELSE Upsert(pages, some)
  <2>1. own.msgs \in SUBSET Message /\ \E m \in own.msgs : ~m.revoked
    BY <1>4 DEF OwnArrives, QueryInv, OwnOK, Messages
  <2>2. new \in Message /\ (old # {} => some \in Message)
    BY <2>1
  <2>3. pages' = Upsert(updated, new)
    BY <1>4 DEF OwnArrives, Write
  <2> HIDE DEF old, new, some
  <2>4. updated \in Seq(Page) /\ InReach(updated)
    BY <1>1, <2>2, UpsertedInReach
  <2> HIDE DEF updated
  <2>5. pages' \in Seq(Page) /\ OlderInReach'
    BY <2>2, <2>3, <2>4, UpsertedInReach DEF OlderInReach
  <2>6. OwnOK'
    BY <1>4 DEF OwnArrives, OwnOK, Idle
  <2> QED BY <1>4, <2>5, <2>6 DEF OwnArrives, QueryInv, LogInv, FetchOK, CatchUpOK, ToldOK
<1> QED BY <1>2, <1>3, <1>4

LEMMA QueryStep == QueryInv /\ [MobileMessagesNext]_mmVars => QueryInv'
<1> SUFFICES ASSUME QueryInv, [MobileMessagesNext]_mmVars PROVE QueryInv'
  OBVIOUS
<1>1. CASE UNCHANGED mmVars
  BY <1>1 DEF mmVars, QueryInv, LogInv, OlderInReach, FetchOK, CatchUpOK, OwnOK, ToldOK
<1>2. CASE MobileMessagesNext
  BY <1>2, ServerKeepsReach, FetchKeepsReach, RealtimeKeepsReach, OwnKeepsReach
  DEF MobileMessagesNext
<1> QED BY <1>1, <1>2

\* No message of a conversation gets out of reach: whatever arrives while older
\* pages are fetched, none is between two pages or below the last one without being
\* fetched again or scrolled to (useConversationMessages).
THEOREM OlderStaysInReach == MobileMessagesSpec => []OlderInReach
<1>1. QueryInv => OlderInReach
  BY DEF QueryInv
<1> QED BY <1>1, QueryInitially, QueryStep, PTL DEF MobileMessagesSpec

-----------------------------------------------------------------------------
(* What the client is told is so: the messages it shows, fetches, catches  *)
(* up on or is answered with are in the log, and the ones it takes for     *)
(* revoked are revoked.                                                    *)
Told(l, m) == m \in Message /\ m.seq <= l.last /\ (m.revoked => m.seq \in l.revoked)
PageTold(l, p) == p.oldest <= l.last /\ \A m \in p.msgs : Told(l, m)
PagesTold(l, ps) == \A i \in DOMAIN ps : PageTold(l, ps[i])

FetchTold(l, f) == f # Idle => PagesTold(l, f.got)
EventsTold(l, es) ==
    \A e \in es : e \in [name : {"created", "updated"}, msg : Message] /\ Told(l, e.msg)
CatchUpTold(l, c) ==
    c # Idle =>
      /\ c.after \in Nat /\ c.after <= l.last /\ c.page \in 1..CatchUpPages
      /\ c.at = "served" => /\ \A m \in c.msgs : Told(l, m)
                            /\ c.more => c.after + PageLimit <= l.last
OwnTold(l, o) ==
    /\ o.at = "revoke" => o.seq \in 1..l.last
    /\ o.at = "served" => \A m \in o.msgs : Told(l, m)

ToldInv ==
    /\ log.revoked \subseteq 1..log.last
    /\ PagesTold(log, pages) /\ FetchTold(log, fetch) /\ EventsTold(log, events)
    /\ CatchUpTold(log, catchUp) /\ OwnTold(log, own)

(* The rest of MobileMessagesTypeOK.                                       *)
CountsInv ==
    /\ online \in BOOLEAN /\ screen \in BOOLEAN /\ stale \in BOOLEAN
    /\ syncs \in Nat /\ visits \in 0..Visits /\ mishaps \in 0..Faults

\* A page whose messages are taken out, or joined by others of the log.
LEMMA WithoutTold ==
  ASSUME NEW l, NEW p \in Page, PageTold(l, p),
         NEW msgs \in SUBSET Message, \A m \in msgs : Told(l, m)
  PROVE  /\ PageTold(l, Without(p, msgs))
         /\ PageTold(l, [Without(p, msgs) EXCEPT !.msgs = @ \cup msgs])
<1> DEFINE r == Without(p, msgs)
           q == [Without(p, msgs) EXCEPT !.msgs = @ \cup msgs]
<1>1. /\ r.oldest = p.oldest
      /\ q.msgs = r.msgs \cup msgs /\ q.oldest = p.oldest
  BY WithoutFacts
<1>3. r.msgs \subseteq p.msgs
  <2>1. r = [p EXCEPT !.msgs = {m \in p.msgs : m.seq \notin Seqs(msgs)}]
    BY DEF Without
  <2> QED BY <2>1 DEF Page
<1> HIDE DEF r, q
<1>2. PageTold(l, r) /\ PageTold(l, q)
  BY <1>1, <1>3 DEF PageTold
<1> QED BY <1>2 DEF r, q

\* What is written into the pages was told before, or is told now.
LEMMA AppendedTold ==
  ASSUME NEW l, NEW ps \in Seq(Page), PagesTold(l, ps),
         NEW msgs \in SUBSET Message, \A m \in msgs : Told(l, m)
  PROVE  PagesTold(l, AppendMessages(ps, msgs))
<1> DEFINE first(i) == [Without(ps[i], msgs) EXCEPT !.msgs = @ \cup msgs]
<1>1. \A i \in DOMAIN ps : PageTold(l, first(i)) /\ PageTold(l, Without(ps[i], msgs))
  <2> SUFFICES ASSUME NEW i \in DOMAIN ps
               PROVE  PageTold(l, first(i)) /\ PageTold(l, Without(ps[i], msgs))
    OBVIOUS
  <2>1. ps[i] \in Page /\ PageTold(l, ps[i])
    BY DEF PagesTold
  <2> QED BY <2>1, WithoutTold
<1> DEFINE qs == [i \in DOMAIN ps |-> IF i = 1 THEN first(i) ELSE Without(ps[i], msgs)]
<1>2. AppendMessages(ps, msgs) \in {ps, qs}
  BY DEF AppendMessages
<1> HIDE DEF first
<1>3. PagesTold(l, qs)
  BY <1>1 DEF PagesTold
<1> QED BY <1>2, <1>3

\* A message of the log that is updated in its page.
LEMMA UpdatedTold ==
  ASSUME NEW l, NEW ps \in Seq(Page), PagesTold(l, ps), NEW msg \in Message, Told(l, msg)
  PROVE  PagesTold(l, UpdateIn(ps, msg))
<1> DEFINE new(i) == [Without(ps[i], {msg}) EXCEPT !.msgs = @ \cup {msg}]
<1>1. \A i \in DOMAIN ps : PageTold(l, new(i))
  <2> SUFFICES ASSUME NEW i \in DOMAIN ps PROVE PageTold(l, new(i))
    OBVIOUS
  <2>1. ps[i] \in Page /\ PageTold(l, ps[i])
    BY DEF PagesTold
  <2>2. {msg} \in SUBSET Message /\ \A m \in {msg} : Told(l, m)
    OBVIOUS
  <2> QED BY <2>1, <2>2, WithoutTold
<1>2. UpdateIn(ps, msg)
        = [i \in DOMAIN ps |-> IF msg.seq \in Seqs(ps[i].msgs) THEN new(i) ELSE ps[i]]
  BY DEF UpdateIn
<1> HIDE DEF new
<1> QED BY <1>1, <1>2 DEF PagesTold

\* A message of the log that is put into the pages.
LEMMA UpsertedTold ==
  ASSUME NEW l, NEW ps \in Seq(Page), PagesTold(l, ps), NEW msg \in Message, Told(l, msg)
  PROVE  PagesTold(l, Upsert(ps, msg))
<1>1. PagesTold(l, UpdateIn(ps, msg))
  BY UpdatedTold
<1>2. {msg} \in SUBSET Message /\ \A m \in {msg} : Told(l, m)
  OBVIOUS
<1>3. PagesTold(l, AppendMessages(ps, {msg}))
  BY <1>2, AppendedTold
<1> QED BY <1>1, <1>3 DEF Upsert

-----------------------------------------------------------------------------
\* The log only grows, so what was told stays true.
LEMMA ToldStays ==
  ASSUME NEW l, NEW k, l.last \in Nat, k.last \in Nat,
         l.last <= k.last, l.revoked \subseteq k.revoked
  PROVE  /\ \A m : Told(l, m) => Told(k, m)
         /\ \A ps \in Seq(Page) : PagesTold(l, ps) => PagesTold(k, ps)
<1>1. ASSUME NEW m, Told(l, m) PROVE Told(k, m)
  <2>1. m.seq \in Nat
    BY <1>1, MobileMessagesAssumption DEF Told, Message
  <2> QED BY <1>1, <2>1 DEF Told
<1>2. ASSUME NEW ps \in Seq(Page), PagesTold(l, ps) PROVE PagesTold(k, ps)
  <2> SUFFICES ASSUME NEW i \in DOMAIN ps PROVE PageTold(k, ps[i])
    BY DEF PagesTold
  <2>1. ps[i] \in Page /\ PageTold(l, ps[i])
    BY <1>2 DEF PagesTold
  <2>2. ps[i].oldest \in Nat
    BY <2>1, MobileMessagesAssumption DEF Page
  <2> QED BY <1>1, <2>1, <2>2 DEF PageTold
<1> QED BY <1>1, <1>2

\* A part of the log is as the log is.
LEMMA WindowTold ==
  ASSUME LogInv, NEW lo \in Nat \ {0}, NEW hi \in Nat, hi <= log.last
  PROVE  \A m \in Window(lo, hi) : Told(log, m)
<1> SUFFICES ASSUME NEW n \in lo..hi PROVE Told(log, Now(n))
  BY DEF Window
<1>1. n \in 1..LastSeq /\ n <= log.last
  BY MobileMessagesAssumption DEF LogInv
<1>2. Now(n) \in Message /\ Now(n).seq = n /\ Now(n).revoked = (n \in log.revoked)
  BY <1>1 DEF Now, Message
<1> QED BY <1>1, <1>2 DEF Told

\* A page the server answers shows its log as it is.
LEMMA PageToldNow ==
  ASSUME LogInv, NEW hi \in Nat, hi <= log.last
  PROVE  PageTold(log, PageUpTo(hi))
<1> DEFINE lo == Below(hi, PageLimit) + 1
<1>1. PageLimit \in Nat \ {0} /\ log.last \in Nat
  BY MobileMessagesAssumption DEF LogInv
<1>2. lo \in Nat \ {0} /\ (hi = 0 \/ lo <= hi)
  BY <1>1 DEF Below
<1> HIDE DEF lo
<1>3. /\ PageUpTo(hi).msgs = Window(lo, hi)
      /\ PageUpTo(hi).oldest = IF hi = 0 THEN 0 ELSE lo
  BY DEF PageUpTo, lo
<1>4. PageUpTo(hi).oldest <= log.last
  BY <1>1, <1>2, <1>3
<1> QED BY <1>2, <1>3, <1>4, WindowTold DEF PageTold

\* What is shown was told, the newest message too.
LEMMA ShownTold ==
  ASSUME pages \in Seq(Page), PagesTold(log, pages)
  PROVE  \A m \in Shown : m.seq \in 1..log.last /\ (m.revoked => m.seq \in log.revoked)
<1> SUFFICES ASSUME NEW i \in DOMAIN pages, NEW m \in pages[i].msgs
             PROVE  m.seq \in 1..log.last /\ (m.revoked => m.seq \in log.revoked)
  BY DEF Shown
<1>1. Told(log, m)
  BY DEF PagesTold, PageTold
<1>2. m.seq \in 1..LastSeq /\ m.seq <= log.last
  BY <1>1 DEF Told, Message
<1> QED BY <1>1, <1>2, MobileMessagesAssumption DEF Told

\* The newest message shown is one of the log.
LEMMA NewestIsTold ==
  ASSUME pages \in Seq(Page), PagesTold(log, pages), log.last \in Nat
  PROVE  Newest \in Nat /\ Newest <= log.last
<1>1. CASE Shown = {}
  BY <1>1 DEF Newest
<1>2. CASE Shown # {}
  <2>1. Newest \in Seqs(Shown)
    BY <1>2, NewestIsNumber
  <2>2. PICK m \in Shown : Newest = m.seq
    BY <2>1 DEF Seqs
  <2> QED BY <2>2, ShownTold
<1> QED BY <1>1, <1>2

-----------------------------------------------------------------------------
\* What the server does: the log grows, and tells of what it has become.
LEMMA GrownLog ==
  ASSUME QueryInv, ToldInv, log'.last \in Nat, log.last <= log'.last,
         log.revoked \subseteq log'.revoked, log'.revoked \subseteq 1..log'.last,
         UNCHANGED <<pages, fetch, catchUp>>,
         NEW es, events' \subseteq events \cup es, EventsTold(log', es),
         own' = own \/ (own'.at = "served" /\ \A m \in own'.msgs : Told(log', m))
  PROVE  ToldInv'
<1>1. log.last \in Nat
  BY MobileMessagesAssumption DEF QueryInv, LogInv
<1>2. /\ \A m : Told(log, m) => Told(log', m)
      /\ \A ps \in Seq(Page) : PagesTold(log, ps) => PagesTold(log', ps)
  BY <1>1, ToldStays
<1>3. PagesTold(log', pages')
  BY <1>2 DEF QueryInv, ToldInv
<1>4. FetchTold(log', fetch')
  BY <1>2 DEF QueryInv, FetchOK, ToldInv, FetchTold
<1>5. EventsTold(log', events')
  BY <1>2 DEF ToldInv, EventsTold
<1>6. CatchUpTold(log', catchUp')
  <2>1. PageLimit \in Nat
    BY MobileMessagesAssumption
  <2>2. catchUp # Idle => catchUp.after \in Nat /\ catchUp.after <= log'.last
    BY <1>1 DEF ToldInv, CatchUpTold
  <2>3. catchUp # Idle /\ catchUp.at = "served" /\ catchUp.more
          => catchUp.after + PageLimit <= log'.last
    BY <1>1, <2>1, <2>2 DEF ToldInv, CatchUpTold
  <2> QED BY <1>2, <2>2, <2>3 DEF ToldInv, CatchUpTold
<1>7. OwnTold(log', own')
  <2>1. CASE own' = own
    <3>1. own.at = "revoke" => own.seq \in 1..log'.last
      BY <1>1 DEF ToldInv, OwnTold
    <3> QED BY <1>2, <2>1, <3>1 DEF ToldInv, OwnTold
  <2>2. CASE own'.at = "served" /\ \A m \in own'.msgs : Told(log', m)
    BY <2>2 DEF OwnTold
  <2> QED BY <2>1, <2>2
<1> QED BY <1>3, <1>4, <1>5, <1>6, <1>7 DEF ToldInv

\* A message of the log is created unrevoked, and an update says what is so.
LEMMA EventTold ==
  ASSUME NEW l, l.last \in 0..LastSeq, NEW n \in 1..l.last
  PROVE  /\ EventsTold(l, {Created(n)}) /\ Told(l, Created(n).msg)
         /\ n \in l.revoked => EventsTold(l, {Updated(n)}) /\ Told(l, Updated(n).msg)
<1>1. n \in 1..LastSeq
  BY MobileMessagesAssumption
<1>2. Told(l, Created(n).msg) /\ (n \in l.revoked => Told(l, Updated(n).msg))
  BY <1>1 DEF Created, Updated, Told, Message
<1>3. /\ Created(n) \in [name : {"created", "updated"}, msg : Message]
      /\ Updated(n) \in [name : {"created", "updated"}, msg : Message]
  BY <1>1 DEF Created, Updated, Message
<1> QED BY <1>2, <1>3 DEF EventsTold

\* The log grows, and events tell of what it has become.
LEMMA ServerTells ==
  ASSUME QueryInv, ToldInv, OthersWrite \/ OthersRevoke \/ ServeOwn
  PROVE  ToldInv'
<1>1. /\ log = [last |-> log.last, revoked |-> log.revoked] /\ log.last \in 0..LastSeq
      /\ LastSeq \in Nat /\ log.revoked \subseteq 1..log.last
  BY MobileMessagesAssumption DEF QueryInv, LogInv, ToldInv
<1>2. CASE OthersWrite
  <2> DEFINE n == log.last + 1
             es == {Created(n)}
  <2>1. /\ log'.last = n /\ log'.revoked = log.revoked
    BY <1>1, <1>2 DEF OthersWrite
  <2>2. log'.last \in 0..LastSeq /\ n \in 1..log'.last /\ log.last <= log'.last
        /\ log'.revoked \subseteq 1..log'.last
    BY <1>1, <1>2, <2>1 DEF OthersWrite, Room
  <2>3. EventsTold(log', es)
    BY <2>2, EventTold
  <2>4. events' \subseteq events \cup es /\ UNCHANGED <<pages, fetch, catchUp, own>>
    BY <1>2 DEF OthersWrite, Publish
  <2> HIDE DEF es, n
  <2>5. log'.last \in Nat
    BY <1>1, <2>2
  <2> QED BY <2>1, <2>2, <2>3, <2>4, <2>5, GrownLog
<1>3. CASE OthersRevoke
  <2>1. PICK n \in (1..log.last) \ log.revoked :
               log' = [log EXCEPT !.revoked = @ \cup {n}] /\ Publish({Updated(n)})
    BY <1>3 DEF OthersRevoke
  <2> DEFINE es == {Updated(n)}
  <2>2. log'.last = log.last /\ log'.revoked = log.revoked \cup {n} /\ n \in 1..log.last
    BY <1>1, <2>1
  <2>3. log'.last \in 0..LastSeq /\ log'.last \in Nat /\ log.last <= log'.last
        /\ log'.revoked \subseteq 1..log'.last
    BY <1>1, <2>2
  <2>4. EventsTold(log', es)
    BY <2>2, <2>3, EventTold
  <2>5. events' \subseteq events \cup es /\ UNCHANGED <<pages, fetch, catchUp, own>>
    BY <1>3, <2>1 DEF OthersRevoke, Publish
  <2> HIDE DEF es
  <2> QED BY <2>2, <2>3, <2>4, <2>5, GrownLog
<1>4. CASE ServeOwn
  <2> DEFINE n == log.last + 1
             old == IF own.at = "revoke" THEN {own.seq} ELSE {}
             es == {Created(n)} \cup {Updated(k) : k \in old}
             msgs == {Created(n).msg} \cup {Updated(k).msg : k \in old}
  <2>1. /\ log' = [last |-> n, revoked |-> log.revoked \cup old] /\ Publish(es)
        /\ own' = [at |-> "served", msgs |-> msgs]
    BY <1>4 DEF ServeOwn
  <2>2. old \subseteq 1..log.last
    BY DEF ToldInv, OwnTold
  <2>3. n \in 1..LastSeq
    BY <1>1, <1>4 DEF ServeOwn, Room
  <2> HIDE DEF old
  <2>4. log'.last = n /\ log'.revoked = log.revoked \cup old
    BY <2>1
  <2>5. /\ log'.last \in 0..LastSeq /\ log'.last \in Nat /\ n \in 1..log'.last
        /\ log.last <= log'.last /\ log'.revoked \subseteq 1..log'.last
        /\ old \subseteq 1..log'.last
    BY <1>1, <2>2, <2>3, <2>4
  <2>6. /\ EventsTold(log', {Created(n)}) /\ Told(log', Created(n).msg)
        /\ \A k \in old : EventsTold(log', {Updated(k)}) /\ Told(log', Updated(k).msg)
    BY <2>4, <2>5, EventTold
  <2> HIDE DEF n
  <2>7. EventsTold(log', es) /\ \A m \in msgs : Told(log', m)
    BY <2>6 DEF EventsTold
  <2> HIDE DEF es, msgs
  <2>8. events' \subseteq events \cup es /\ UNCHANGED <<pages, fetch, catchUp>>
    BY <1>4, <2>1 DEF ServeOwn, Publish
  <2>9. own'.at = "served" /\ \A m \in own'.msgs : Told(log', m)
    BY <2>1, <2>7
  <2> QED BY <2>4, <2>5, <2>7, <2>8, <2>9, GrownLog
<1> QED BY <1>2, <1>3, <1>4

\* The query and its fetch, which takes its pages from the log as it is.
LEMMA FetchTells ==
  ASSUME QueryInv, ToldInv,
         \/ OpenScreen \/ CloseScreen \/ DropQuery \/ Poll \/ FetchOlder
         \/ FetchPage \/ FetchEnds \/ FetchFails
  PROVE  ToldInv'
<1>1. UNCHANGED <<log, events, catchUp, own>>
  BY DEF OpenScreen, CloseScreen, DropQuery, Poll, FetchOlder, FetchPage, FetchEnds, FetchFails
<1>2. PagesTold(log, pages') /\ FetchTold(log, fetch')
  <2>1. PagesTold(log, pages) /\ FetchTold(log, fetch) /\ PagesTold(log, <<>>)
        /\ FetchTold(log, Idle)
    BY DEF ToldInv, PagesTold, FetchTold
  <2>2. CASE pages' = pages /\ (fetch' \in {fetch, Idle} \/ StartAll)
    <3>1. StartAll => fetch'.got = <<>>
      BY DEF StartAll
    <3> QED BY <2>1, <2>2, <3>1 DEF FetchTold
  <2>3. CASE DropQuery \/ FetchEnds
    BY <2>1, <2>3 DEF DropQuery, FetchEnds, FetchTold
  <2>4. CASE FetchOlder
    BY <2>1, <2>4 DEF FetchOlder, FetchTold
  <2>5. CASE FetchPage
    <3> DEFINE got == fetch.got
               hi == IF Len(got) = 0 THEN log.last ELSE Below(got[Len(got)].oldest, 1)
               page == PageUpTo(hi)
    <3>1. /\ got \in Seq(Page) /\ PagesTold(log, got) /\ "got" \in DOMAIN fetch
          /\ pages' = pages
      BY <2>1, <2>5 DEF FetchPage, QueryInv, FetchOK, FetchTold
    <3>2. \E at : fetch' = [fetch EXCEPT !.got = Append(got, page), !.at = at]
      BY <2>5 DEF FetchPage
    <3>3. log.last \in Nat
      BY MobileMessagesAssumption DEF QueryInv, LogInv
    <3>4. hi \in Nat /\ hi <= log.last
      <4>1. CASE Len(got) = 0
        BY <3>3, <4>1
      <4>2. CASE Len(got) # 0
        <5>1. Len(got) \in DOMAIN got /\ got[Len(got)] \in Page
          BY <3>1, <4>2
        <5>2. got[Len(got)].oldest \in Nat /\ got[Len(got)].oldest <= log.last
          BY <3>1, <5>1, MobileMessagesAssumption DEF PagesTold, PageTold, Page
        <5> QED BY <3>3, <4>2, <5>2 DEF Below
      <4> QED BY <4>1, <4>2
    <3> HIDE DEF hi
    <3>5. PageTold(log, page)
      BY <3>4, PageToldNow DEF QueryInv
    <3> HIDE DEF page
    <3>6. PagesTold(log, Append(got, page))
      BY <3>1, <3>5 DEF PagesTold
    <3>7. fetch'.got = Append(got, page)
      BY <3>1, <3>2
    <3> QED BY <2>1, <3>1, <3>6, <3>7 DEF FetchTold
  <2> QED BY <2>2, <2>3, <2>4, <2>5 DEF OpenScreen, CloseScreen, Poll, FetchFails
<1> QED BY <1>1, <1>2 DEF ToldInv

\* Realtime events, and the catch-up, which asks for what follows what it has.
LEMMA RealtimeTells ==
  ASSUME CatchUpPages \in Nat \ {0}, QueryInv, ToldInv,
         \/ HandleEvent \/ GoOffline \/ GoOnline
         \/ StartSync \/ ServeCatchUp \/ CatchUpArrives \/ CatchUpFails
  PROVE  ToldInv'
<1>1. UNCHANGED <<log, own>>
  BY DEF HandleEvent, GoOffline, GoOnline, StartSync, ServeCatchUp, CatchUpArrives, CatchUpFails
<1>2. /\ pages \in Seq(Page) /\ PagesTold(log, pages) /\ FetchTold(log, fetch)
      /\ EventsTold(log, events) /\ CatchUpTold(log, catchUp)
      /\ log.last \in Nat /\ PageLimit \in Nat
  BY MobileMessagesAssumption DEF QueryInv, LogInv, ToldInv
<1>3. CASE HandleEvent
  <2>1. PICK e \in events :
               /\ events' = events \ {e}
               /\ pages' = IF e.name = "created" THEN AppendMessages(pages, {e.msg})
                           ELSE UpdateIn(pages, e.msg)
    BY <1>3 DEF HandleEvent, Write
  <2>2. e.msg \in Message /\ Told(log, e.msg)
    BY <1>2 DEF EventsTold, Told
  <2>3. {e.msg} \in SUBSET Message /\ \A m \in {e.msg} : Told(log, m)
    BY <2>2
  <2>4. /\ PagesTold(log, AppendMessages(pages, {e.msg}))
        /\ PagesTold(log, UpdateIn(pages, e.msg))
    BY <1>2, <2>2, <2>3, AppendedTold, UpdatedTold
  <2>5. PagesTold(log, pages') /\ EventsTold(log, events')
    BY <1>2, <2>1, <2>4 DEF EventsTold
  <2> QED BY <1>1, <1>2, <1>3, <2>5 DEF HandleEvent, ToldInv
<1>4. CASE GoOffline \/ GoOnline
  <2>1. EventsTold(log, events') /\ UNCHANGED <<pages, fetch, catchUp>>
    BY <1>2, <1>4 DEF GoOffline, GoOnline, EventsTold
  <2> QED BY <1>1, <2>1 DEF ToldInv
<1>5. CASE StartSync
  <2>1. catchUp' = IF Newest > 0 THEN CatchUpFrom(Newest, 1) ELSE Idle
    BY <1>5 DEF StartSync
  <2>2. Newest \in Nat /\ Newest <= log.last
    BY <1>2, NewestIsTold
  <2>3. CatchUpTold(log, catchUp')
    BY <2>1, <2>2 DEF CatchUpFrom, CatchUpTold
  <2> QED BY <1>1, <1>2, <1>5, <2>3 DEF StartSync, ToldInv
<1>6. CASE ServeCatchUp
  <2> DEFINE after == catchUp.after
             hi == Lower(after + PageLimit, log.last)
  <2>1. after \in Nat /\ after <= log.last /\ catchUp.page \in 1..CatchUpPages
    BY <1>2, <1>6 DEF ServeCatchUp, CatchUpTold
  <2>2. catchUp' = [at |-> "served", after |-> after, page |-> catchUp.page,
                    msgs |-> Window(after + 1, hi), more |-> hi < log.last]
    BY <1>6 DEF ServeCatchUp
  <2>3. /\ hi \in Nat /\ hi <= log.last /\ after + 1 \in Nat \ {0}
        /\ hi < log.last => after + PageLimit <= log.last
    BY <1>2, <2>1 DEF Lower
  <2> HIDE DEF hi
  <2>4. \A m \in Window(after + 1, hi) : Told(log, m)
    BY <2>3, WindowTold DEF QueryInv
  <2>5. /\ catchUp'.at = "served" /\ catchUp'.after = after
        /\ catchUp'.page = catchUp.page /\ catchUp'.msgs = Window(after + 1, hi)
        /\ catchUp'.more = (hi < log.last)
    BY <2>2
  <2>6. CatchUpTold(log, catchUp')
    BY <2>1, <2>3, <2>4, <2>5 DEF CatchUpTold
  <2> QED BY <1>1, <1>2, <1>6, <2>6 DEF ServeCatchUp, ToldInv
<1>7. CASE CatchUpArrives
  <2>1. /\ catchUp.msgs \in SUBSET Message /\ \A m \in catchUp.msgs : Told(log, m)
        /\ catchUp.after \in Nat /\ catchUp.page \in 1..CatchUpPages
        /\ catchUp.more => catchUp.after + PageLimit <= log.last
    BY <1>2, <1>7 DEF CatchUpArrives, CatchUpTold, Told
  <2>2. pages' = AppendMessages(pages, catchUp.msgs)
    BY <1>7 DEF CatchUpArrives, Write
  <2>3. PagesTold(log, pages')
    BY <1>2, <2>1, <2>2, AppendedTold
  <2>4. FetchTold(log, fetch')
    <3>1. fetch' = fetch \/ fetch'.got = <<>>
      BY <1>7 DEF CatchUpArrives, InvalidateQuery, StartAll
    <3> QED BY <1>2, <3>1 DEF FetchTold, PagesTold
  <2>5. \/ catchUp' = Idle
        \/ /\ catchUp.more /\ catchUp.page < CatchUpPages
           /\ catchUp' = CatchUpFrom(catchUp.after + PageLimit, catchUp.page + 1)
    BY <1>7 DEF CatchUpArrives
  <2>6. CatchUpTold(log, catchUp')
    BY <1>2, <2>1, <2>5 DEF CatchUpFrom, CatchUpTold
  <2> QED BY <1>1, <1>2, <1>7, <2>3, <2>4, <2>6 DEF CatchUpArrives, ToldInv
<1>8. CASE CatchUpFails
  <2>1. CatchUpTold(log, catchUp')
    BY <1>8 DEF CatchUpFails, CatchUpTold
  <2> QED BY <1>1, <1>2, <1>8, <2>1 DEF CatchUpFails, ToldInv
<1> QED BY <1>3, <1>4, <1>5, <1>6, <1>7, <1>8

\* The user's own requests, and their answers.
LEMMA OwnTells ==
  ASSUME QueryInv, ToldInv, Send \/ Revoke \/ OwnArrives \/ OwnFails
  PROVE  ToldInv'
<1>1. UNCHANGED <<log, events, fetch, catchUp>>
  BY DEF Send, Revoke, OwnArrives, OwnFails
<1>2. pages \in Seq(Page) /\ PagesTold(log, pages)
  BY DEF QueryInv, ToldInv
<1>3. CASE Send \/ OwnFails
  <2>1. OwnTold(log, own') /\ pages' = pages
    BY <1>3 DEF Send, OwnFails, Idle, OwnTold
  <2> QED BY <1>1, <2>1 DEF ToldInv
<1>4. CASE Revoke
  <2>1. PICK m \in Shown : own' = [at |-> "revoke", seq |-> m.seq]
    BY <1>4 DEF Revoke
  <2>2. m.seq \in 1..log.last
    BY <1>2, <2>1, ShownTold
  <2>3. OwnTold(log, own') /\ pages' = pages
    BY <1>4, <2>1, <2>2 DEF Revoke, OwnTold
  <2> QED BY <1>1, <2>3 DEF ToldInv
<1>5. CASE OwnArrives
  <2> DEFINE old == {m \in own.msgs : m.revoked}
             new == CHOOSE m \in own.msgs : ~m.revoked
             some == CHOOSE m \in old : TRUE
             updated == IF old = {} THEN pages ELSE Upsert(pages, some)
  <2>1. /\ \A m \in own.msgs : m \in Message /\ Told(log, m)
        /\ \E m \in own.msgs : ~m.revoked
    BY <1>5 DEF OwnArrives, QueryInv, OwnOK, ToldInv, OwnTold, Told
  <2>2. /\ new \in Message /\ Told(log, new)
        /\ old # {} => some \in Message /\ Told(log, some)
    BY <2>1
  <2>3. pages' = Upsert(updated, new)
    BY <1>5 DEF OwnArrives, Write
  <2> HIDE DEF old, new, some
  <2>4. updated \in Seq(Page) /\ PagesTold(log, updated)
    BY <1>2, <2>2, UpsertedTold, UpsertedInReach DEF QueryInv, OlderInReach
  <2> HIDE DEF updated
  <2>5. PagesTold(log, pages')
    BY <2>2, <2>3, <2>4, UpsertedTold
  <2>6. OwnTold(log, own')
    BY <1>5 DEF OwnArrives, OwnTold, Idle
  <2> QED BY <1>1, <2>5, <2>6 DEF ToldInv
<1> QED BY <1>3, <1>4, <1>5

-----------------------------------------------------------------------------
\* At first the messages shown are those of the log.
LEMMA ToldInitially ==
  ASSUME MobileMessagesInit
  PROVE  ToldInv /\ (Visits \in Nat /\ Faults \in Nat => CountsInv)
<1>1. /\ log.revoked = {} /\ pages = <<>> /\ fetch = Idle /\ events = {}
      /\ catchUp = Idle /\ own = Idle
  BY DEF MobileMessagesInit
<1>2. ToldInv
  BY <1>1 DEF ToldInv, PagesTold, FetchTold, EventsTold, CatchUpTold, OwnTold, Idle
<1>3. Visits \in Nat /\ Faults \in Nat => CountsInv
  <2>1. /\ online \in BOOLEAN /\ screen \in BOOLEAN /\ stale \in BOOLEAN
        /\ syncs = 0 /\ visits = 0 /\ mishaps = 0
    BY DEF MobileMessagesInit
  <2> QED BY <2>1 DEF CountsInv
<1> QED BY <1>2, <1>3

\* Every step keeps the messages shown within the log.
LEMMA ToldStep ==
  ASSUME CatchUpPages \in Nat \ {0}, QueryInv, ToldInv, [MobileMessagesNext]_mmVars
  PROVE  ToldInv'
<1>1. CASE MobileMessagesNext
  BY <1>1, ServerTells, FetchTells, RealtimeTells, OwnTells DEF MobileMessagesNext
<1>2. CASE UNCHANGED mmVars
  BY <1>2 DEF mmVars, ToldInv
<1> QED BY <1>1, <1>2

\* Flags stay flags, and what is counted stays within its bound.
LEMMA CountsStep ==
  ASSUME CountsInv, [MobileMessagesNext]_mmVars
  PROVE  CountsInv'
<1>1. online' \in BOOLEAN /\ screen' \in BOOLEAN /\ stale' \in BOOLEAN
  <2>1. CASE OthersWrite \/ OthersRevoke \/ ServeOwn \/ Send \/ Revoke \/ UNCHANGED mmVars
    BY <2>1 DEF OthersWrite, OthersRevoke, ServeOwn, Send, Revoke, mmVars, CountsInv
  <2>2. CASE OpenScreen \/ CloseScreen \/ DropQuery \/ Poll \/ FetchOlder
    BY <2>2 DEF OpenScreen, CloseScreen, DropQuery, Poll, FetchOlder, CountsInv
  <2>3. CASE FetchPage \/ FetchEnds \/ FetchFails
    BY <2>3 DEF FetchPage, FetchEnds, FetchFails, CountsInv
  <2>4. CASE HandleEvent \/ OwnArrives
    BY <2>4 DEF HandleEvent, OwnArrives, Write, CountsInv
  <2>5. CASE GoOffline \/ GoOnline \/ StartSync \/ ServeCatchUp
    BY <2>5 DEF GoOffline, GoOnline, StartSync, ServeCatchUp, CountsInv
  <2>6. CASE CatchUpArrives
    BY <2>6 DEF CatchUpArrives, InvalidateQuery, Write, CountsInv
  <2>7. CASE CatchUpFails \/ OwnFails
    BY <2>7 DEF CatchUpFails, OwnFails, CountsInv
  <2> QED BY <2>1, <2>2, <2>3, <2>4, <2>5, <2>6, <2>7 DEF MobileMessagesNext
<1>2. /\ syncs' = syncs \/ syncs' = syncs + 1 \/ (syncs > 0 /\ syncs' = syncs - 1)
      /\ visits' = visits \/ (visits < Visits /\ visits' = visits + 1)
      /\ mishaps' = mishaps \/ (mishaps < Faults /\ mishaps' = mishaps + 1)
  <2>1. CASE \/ OthersWrite \/ OthersRevoke \/ OpenScreen \/ CloseScreen \/ DropQuery
             \/ Poll \/ FetchOlder \/ UNCHANGED mmVars
    BY <2>1 DEF OthersWrite, OthersRevoke, OpenScreen, CloseScreen, DropQuery, Poll,
                FetchOlder, mmVars
  <2>2. CASE FetchPage \/ FetchEnds \/ FetchFails \/ HandleEvent \/ GoOffline \/ GoOnline
    BY <2>2 DEF FetchPage, FetchEnds, FetchFails, HandleEvent, GoOffline, GoOnline
  <2>3. CASE StartSync \/ ServeCatchUp \/ CatchUpArrives \/ CatchUpFails
    BY <2>3 DEF StartSync, ServeCatchUp, CatchUpArrives, CatchUpFails
  <2>4. CASE Send \/ Revoke \/ ServeOwn \/ OwnArrives \/ OwnFails
    BY <2>4 DEF Send, Revoke, ServeOwn, OwnArrives, OwnFails
  <2> QED BY <2>1, <2>2, <2>3, <2>4 DEF MobileMessagesNext
<1>3. syncs' \in Nat /\ visits' \in 0..Visits /\ mishaps' \in 0..Faults
  <2>1. syncs \in Nat /\ visits \in 0..Visits /\ mishaps \in 0..Faults
    BY DEF CountsInv
  <2> QED BY <1>2, <2>1, MobileMessagesAssumption
<1> QED BY <1>1, <1>3 DEF CountsInv

(* What the pages show is a message of the conversation, shown as revoked  *)
(* only if it is.                                                          *)
NothingInvented ==
    \A m \in Shown : m.seq \in 1..log.last /\ (m.revoked => m.seq \in log.revoked)

\* Whatever is refetched, caught up on, moved between pages and answered meanwhile, the
\* mobile client shows no message that was not written and none as revoked that is not
\* (useConversationMessages, appendMessages, upsertMessages).
THEOREM NothingIsInvented ==
  ASSUME CatchUpPages \in Nat \ {0}
  PROVE  MobileMessagesSpec => []NothingInvented
<1>1. QueryInv /\ ToldInv => NothingInvented
  <2> SUFFICES ASSUME QueryInv, ToldInv, NEW m \in Shown
               PROVE  m.seq \in 1..log.last /\ (m.revoked => m.seq \in log.revoked)
    BY DEF NothingInvented
  <2> QED BY ShownTold DEF QueryInv, ToldInv
<1> QED BY <1>1, QueryInitially, QueryStep, ToldInitially, ToldStep, PTL
        DEF MobileMessagesSpec

\* The messages of the mobile client keep their types; in particular a catch-up never
\* starts beyond the log and ends with its last page.
THEOREM MobileMessagesTypeCorrect ==
  ASSUME CatchUpPages \in Nat \ {0}
  PROVE  MobileMessagesSpec => []MobileMessagesTypeOK
<1>1. MobileMessagesInit => QueryInv /\ ToldInv /\ CountsInv
  BY QueryInitially, ToldInitially, MobileMessagesAssumption
<1>2. QueryInv /\ ToldInv /\ CountsInv => MobileMessagesTypeOK
  <2> SUFFICES ASSUME QueryInv, ToldInv, CountsInv PROVE MobileMessagesTypeOK
    OBVIOUS
  <2>1. /\ log.last \in 0..LastSeq /\ log.revoked \subseteq 1..log.last
        /\ \A i \in DOMAIN pages : pages[i] \in Page
        /\ fetch # Idle => fetch.kind \in {"all", "older"}
    BY DEF QueryInv, LogInv, FetchOK, ToldInv
  <2>2. events \subseteq [name : {"created", "updated"}, msg : Message]
    BY DEF ToldInv, EventsTold
  <2>3. catchUp # Idle => catchUp.after \in 0..LastSeq /\ catchUp.page \in 1..CatchUpPages
    BY <2>1, MobileMessagesAssumption DEF ToldInv, CatchUpTold
  <2> QED BY <2>1, <2>2, <2>3 DEF CountsInv, MobileMessagesTypeOK
<1> QED BY <1>1, <1>2, QueryStep, ToldStep, CountsStep, PTL DEF MobileMessagesSpec

-----------------------------------------------------------------------------
(***************************************************************************)
(* Theorems about MobileConversationList, whose constants and variables    *)
(* have names of their own where the modules above use theirs.             *)
(***************************************************************************)
CONSTANTS ListWrites, ListChanges, ListLosses, ListReads
VARIABLES server, row, focused, seen, requested, confirmed, reads, change,
          changes, losses

ML == INSTANCE MobileConversationList WITH
        MaxWrites <- ListWrites, MaxChanges <- ListChanges,
        MaxLosses <- ListLosses, MaxReads <- ListReads

\* What may be known of a conversation that holds n messages.
FullRow(n) == [last : 0..n, read : 0..n, unread : 0..n, pinned : BOOLEAN]
AnyRow(n) == {ML!Absent} \cup FullRow(n)
ServedFetch(n) == [at : {"served"}, row : AnyRow(n)]
ReportOf(n) == [upTo : 0..n, at : {"left", "served"}, read : 0..n, unread : 0..n]
LeftChange(n) == [at : {"left"}, kind : ML!Changes, previous : AnyRow(n)]
ServedChange(n) ==
    [at : {"served"}, kind : ML!Changes, previous : AnyRow(n), answer : AnyRow(n)]
NewsOf(n) ==
    [name : {"created"}, seq : 0..n] \cup [name : {"pin_updated"}, pinned : BOOLEAN]
    \cup [name : {"removed"}]

\* The server's row; it stays within the bound on the messages written.
AccountOK ==
    /\ server \in [last : Nat, read : Nat, hidden : Nat, pinned : BOOLEAN]
    /\ server.last <= ListWrites + 1
    /\ server.read <= server.last /\ server.hidden <= server.last

\* Everything the client holds or is told is about messages below n.
KnownRow(n) == row \in AnyRow(n) /\ fetch \in {ML!Idle, ML!Left} \cup ServedFetch(n)
KnownScreen(n) ==
    /\ seen \in 0..n /\ requested \in 0..n /\ confirmed \in 0..n
    /\ reads \subseteq ReportOf(n)
KnownChange(n) ==
    /\ change \in {ML!Idle} \cup LeftChange(n) \cup ServedChange(n)
    /\ (change # ML!Idle /\ change.kind \in {"pin", "unpin"}) => change.previous # ML!Absent
KnownNews(n) == events \subseteq NewsOf(n)

ScreenHasRow == focused => row # ML!Absent

MobileRowInv ==
    /\ AccountOK
    /\ KnownRow(server.last) /\ KnownScreen(server.last)
    /\ KnownChange(server.last) /\ KnownNews(server.last)
    /\ focused \in BOOLEAN /\ ScreenHasRow

MobileListCounts ==
    /\ online \in BOOLEAN /\ changes \in 0..ListChanges /\ losses \in 0..ListLosses

MobileRowNeverAhead ==
    /\ row # ML!Absent => /\ row.last <= server.last /\ row.read <= server.last
                       /\ row.unread <= server.last
    /\ seen <= server.last /\ requested <= server.last /\ confirmed <= server.last

\* A row is not the absent one.
LEMMA FullIsNotAbsent ==
  ASSUME NEW n, NEW r \in FullRow(n)
  PROVE  r # ML!Absent
<1>1. "read" \in DOMAIN r
  BY DEF FullRow
<1>2. "read" \notin DOMAIN ML!Absent
  BY DEF ML!Absent
<1> QED BY <1>1, <1>2

\* What is about n messages is about more of them.
LEMMA KnownFurther ==
  ASSUME NEW n \in Nat, NEW m \in Nat, n <= m
  PROVE  /\ 0..n \subseteq 0..m /\ AnyRow(n) \subseteq AnyRow(m)
         /\ ServedFetch(n) \subseteq ServedFetch(m) /\ ReportOf(n) \subseteq ReportOf(m)
         /\ LeftChange(n) \subseteq LeftChange(m) /\ ServedChange(n) \subseteq ServedChange(m)
         /\ NewsOf(n) \subseteq NewsOf(m)
<1>1. 0..n \subseteq 0..m
  OBVIOUS
<1>2. FullRow(n) \subseteq FullRow(m)
  BY <1>1 DEF FullRow
<1>3. AnyRow(n) \subseteq AnyRow(m)
  BY <1>2 DEF AnyRow
<1>4. ServedFetch(n) \subseteq ServedFetch(m) /\ LeftChange(n) \subseteq LeftChange(m)
      /\ ServedChange(n) \subseteq ServedChange(m)
  BY <1>3 DEF ServedFetch, LeftChange, ServedChange
<1>5. ReportOf(n) \subseteq ReportOf(m)
  BY <1>1 DEF ReportOf
<1>6. NewsOf(n) \subseteq NewsOf(m)
  BY <1>1 DEF NewsOf
<1> QED BY <1>1, <1>3, <1>4, <1>5, <1>6

\* The row the server answers is about messages the conversation has.
LEMMA ListedIsKnown ==
  ASSUME NEW s \in [last : Nat, read : Nat, hidden : Nat, pinned : BOOLEAN],
         s.read <= s.last
  PROVE  ML!Listed(s) \in AnyRow(s.last)
<1>1. s.last \in 0..s.last /\ s.read \in 0..s.last /\ s.pinned \in BOOLEAN
  OBVIOUS
<1>2. ML!Below(s.last, s.read) \in 0..s.last
  BY DEF ML!Below
<1>3. [last |-> s.last, read |-> s.read, unread |-> ML!Below(s.last, s.read),
       pinned |-> s.pinned] \in FullRow(s.last)
  BY <1>1, <1>2 DEF FullRow
<1> QED BY <1>3 DEF ML!Listed, AnyRow

\* A row that a message, a pin or a report's answer changes stays a row.
LEMMA RowStaysKnown ==
  ASSUME NEW n \in Nat, NEW r \in AnyRow(n)
  PROVE  /\ \A seq \in 0..n : /\ ML!WithMessageRead(r, seq) \in AnyRow(n)
                              /\ r # ML!Absent => ML!WithMessageRead(r, seq) # ML!Absent
         /\ \A pinned \in BOOLEAN : /\ ML!WithPin(r, pinned) \in AnyRow(n)
                                    /\ r # ML!Absent => ML!WithPin(r, pinned) # ML!Absent
         /\ \A a \in ReportOf(n) : /\ ML!WithReadResult(r, a) \in AnyRow(n)
                                   /\ r # ML!Absent => ML!WithReadResult(r, a) # ML!Absent
         /\ \A seq \in 0..n : r # ML!Absent =>
               /\ [r EXCEPT !.read = ML!Higher(@, seq), !.unread = 0] \in AnyRow(n)
               /\ [r EXCEPT !.read = ML!Higher(@, seq), !.unread = 0] # ML!Absent
<1>1. CASE r = ML!Absent
  BY <1>1 DEF ML!WithMessageRead, ML!WithPin, ML!WithReadResult
<1>2. CASE r \in FullRow(n)
  <2>1. r # ML!Absent /\ r.last \in 0..n /\ r.read \in 0..n /\ r.unread \in 0..n
        /\ r = [last |-> r.last, read |-> r.read, unread |-> r.unread, pinned |-> r.pinned]
        /\ r.pinned \in BOOLEAN /\ 0 \in 0..n
    BY <1>2, FullIsNotAbsent DEF FullRow
  <2>2. \A a, b \in 0..n : ML!Higher(a, b) \in 0..n /\ ML!Lower(a, b) \in 0..n
    BY DEF ML!Higher, ML!Lower
  <2>3. ASSUME NEW seq \in 0..n
        PROVE  /\ ML!WithMessageRead(r, seq) \in FullRow(n)
               /\ [r EXCEPT !.read = ML!Higher(@, seq), !.unread = 0] \in FullRow(n)
    <3>1. ML!Higher(r.last, seq) \in 0..n /\ ML!Higher(r.read, seq) \in 0..n
      BY <2>1, <2>2
    <3>2. [r EXCEPT !.last = ML!Higher(@, seq), !.read = ML!Higher(@, seq), !.unread = 0]
          \in FullRow(n)
      BY <1>2, <2>1, <3>1 DEF FullRow
    <3>3. [r EXCEPT !.read = ML!Higher(@, seq), !.unread = 0] \in FullRow(n)
      BY <1>2, <2>1, <3>1 DEF FullRow
    <3> QED BY <2>1, <3>2, <3>3 DEF ML!WithMessageRead
  <2>4. ASSUME NEW pinned \in BOOLEAN PROVE ML!WithPin(r, pinned) \in FullRow(n)
    BY <1>2, <2>1 DEF ML!WithPin, FullRow
  <2>5. ASSUME NEW a \in ReportOf(n) PROVE ML!WithReadResult(r, a) \in FullRow(n)
    <3>1. a.read \in 0..n /\ a.unread \in 0..n
      BY DEF ReportOf
    <3> DEFINE read == ML!Higher(r.read, a.read)
               unread == IF read >= r.last THEN 0 ELSE ML!Lower(r.unread, a.unread)
    <3>2. read \in 0..n /\ unread \in 0..n
      BY <2>1, <2>2, <3>1
    <3>3. ML!WithReadResult(r, a) = [r EXCEPT !.read = read, !.unread = unread]
      BY <2>1 DEF ML!WithReadResult
    <3> HIDE DEF read, unread
    <3> QED BY <1>2, <3>2, <3>3 DEF FullRow
  <2> QED BY <2>3, <2>4, <2>5, FullIsNotAbsent DEF AnyRow
<1> QED BY <1>1, <1>2 DEF AnyRow

\* What has to be shown of a step that leaves the server's row alone.
LEMMA RowInvAgain ==
  ASSUME AccountOK, UNCHANGED server, KnownRow(server.last)', KnownScreen(server.last)',
         KnownChange(server.last)', KnownNews(server.last)', focused' \in BOOLEAN,
         ScreenHasRow'
  PROVE  MobileRowInv'
BY DEF MobileRowInv, AccountOK

\* The list query.
LEMMA FetchKeepsRow ==
  ASSUME MobileRowInv, ML!Poll \/ ML!ServeFetch \/ ML!FetchEnds \/ ML!FetchFails
  PROVE  MobileRowInv'
<1> DEFINE n == server.last
<1>1. AccountOK /\ n \in Nat /\ focused \in BOOLEAN /\ ScreenHasRow
      /\ row \in AnyRow(n) /\ fetch \in {ML!Idle, ML!Left} \cup ServedFetch(n)
  BY DEF MobileRowInv, AccountOK, KnownRow
<1>2. UNCHANGED <<server, seen, requested, confirmed, reads, change, events>>
  BY DEF ML!Poll, ML!ServeFetch, ML!FetchEnds, ML!FetchFails, ML!screenVars
<1>3. ML!Listed(server) \in AnyRow(n)
  BY <1>1, ListedIsKnown DEF AccountOK
<1>4. row' \in AnyRow(n) /\ fetch' \in {ML!Idle, ML!Left} \cup ServedFetch(n)
      /\ focused' \in BOOLEAN /\ ScreenHasRow'
  <2>1. CASE ML!Poll \/ ML!FetchFails
    BY <1>1, <2>1 DEF ML!Poll, ML!FetchFails, ML!Invalidate, ML!Cancel,
       ML!screenVars, ScreenHasRow
  <2>2. CASE ML!ServeFetch
    <3>1. [at |-> "served", row |-> ML!Listed(server)] \in ServedFetch(n)
      BY <1>3 DEF ServedFetch
    <3> QED BY <1>1, <2>2, <3>1 DEF ML!ServeFetch, ML!screenVars, ScreenHasRow
  <2>3. CASE ML!FetchEnds
    <3>1. fetch.row \in AnyRow(n)
      BY <1>1, <2>3 DEF ML!FetchEnds, ServedFetch
    <3> QED BY <1>1, <2>3, <3>1 DEF ML!FetchEnds, ML!Leaves, ScreenHasRow
  <2> QED BY <2>1, <2>2, <2>3
<1>5. KnownScreen(n)' /\ KnownChange(n)' /\ KnownNews(n)' /\ KnownRow(n)'
  BY <1>2, <1>4 DEF MobileRowInv, KnownScreen, KnownChange, KnownNews, KnownRow
<1> QED BY <1>1, <1>2, <1>4, <1>5, RowInvAgain

\* What has to be shown of a step that changes the server's row.
LEMMA RowInvFurther ==
  ASSUME MobileRowInv, AccountOK', server.last <= server'.last,
         UNCHANGED <<row, fetch, focused, seen, requested, confirmed>>,
         reads' \subseteq ReportOf(server'.last), KnownChange(server.last)',
         events' \subseteq NewsOf(server'.last)
  PROVE  MobileRowInv'
<1> DEFINE n == server.last
           m == server'.last
<1>1. n \in Nat /\ m \in Nat /\ n <= m
  BY DEF MobileRowInv, AccountOK
<1>2. /\ row \in AnyRow(n) /\ fetch \in {ML!Idle, ML!Left} \cup ServedFetch(n)
      /\ seen \in 0..n /\ requested \in 0..n /\ confirmed \in 0..n
      /\ focused \in BOOLEAN /\ ScreenHasRow
  BY DEF MobileRowInv, KnownRow, KnownScreen
<1>3. /\ 0..n \subseteq 0..m /\ AnyRow(n) \subseteq AnyRow(m)
      /\ ServedFetch(n) \subseteq ServedFetch(m)
  BY <1>1, KnownFurther
<1> HIDE DEF n
<1>4. /\ row' \in AnyRow(m) /\ fetch' \in {ML!Idle, ML!Left} \cup ServedFetch(m)
      /\ seen' \in 0..m /\ requested' \in 0..m /\ confirmed' \in 0..m
  BY <1>2, <1>3
<1>5. KnownRow(server.last)' /\ KnownScreen(server.last)' /\ KnownNews(server.last)'
  BY <1>4 DEF KnownRow, KnownScreen, KnownNews
<1> QED BY <1>2, <1>5 DEF MobileRowInv, ScreenHasRow

\* Others write, and events arrive or are lost.
LEMMA NewsKeepsRow ==
  ASSUME ListWrites \in Nat, MobileRowInv,
         ML!OthersWrite \/ ML!HandleEvent \/ ML!GoOffline \/ ML!GoOnline
  PROVE  MobileRowInv'
<1> DEFINE n == server.last
<1>1. AccountOK /\ n \in Nat /\ focused \in BOOLEAN /\ ScreenHasRow
      /\ row \in AnyRow(n) /\ fetch \in {ML!Idle, ML!Left} \cup ServedFetch(n)
      /\ seen \in 0..n /\ events \subseteq NewsOf(n)
  BY DEF MobileRowInv, AccountOK, KnownRow, KnownScreen, KnownNews
<1>2. CASE ML!OthersWrite
  <2> DEFINE news == [name |-> "created", seq |-> n + 1]
  <2>1. /\ server.last <= ListWrites /\ server' = [server EXCEPT !.last = @ + 1]
        /\ events' \subseteq events \cup {news}
        /\ UNCHANGED <<row, fetch, focused, seen, requested, confirmed, reads, change>>
    BY <1>2 DEF ML!OthersWrite, ML!Publish, ML!screenVars
  <2>2. AccountOK' /\ server'.last = n + 1
    BY <1>1, <2>1 DEF AccountOK
  <2>3. /\ ReportOf(n) \subseteq ReportOf(n + 1) /\ LeftChange(n) \subseteq LeftChange(n + 1)
        /\ ServedChange(n) \subseteq ServedChange(n + 1) /\ NewsOf(n) \subseteq NewsOf(n + 1)
    BY <1>1, KnownFurther
  <2>4. news \in NewsOf(n + 1)
    BY <1>1 DEF NewsOf
  <2>5. /\ reads \subseteq ReportOf(n)
        /\ change \in {ML!Idle} \cup LeftChange(n) \cup ServedChange(n)
        /\ (change # ML!Idle /\ change.kind \in {"pin", "unpin"}) => change.previous # ML!Absent
    BY DEF MobileRowInv, KnownScreen, KnownChange
  <2> HIDE DEF news
  <2>6. KnownChange(server.last)'
    BY <2>1, <2>2, <2>3, <2>5 DEF KnownChange
  <2> QED BY <1>1, <2>1, <2>2, <2>3, <2>4, <2>5, <2>6, RowInvFurther
<1>3. ASSUME ML!HandleEvent \/ ML!GoOffline \/ ML!GoOnline
      PROVE  /\ UNCHANGED <<server, requested, confirmed, reads, change>>
             /\ events' \subseteq events
  BY <1>3 DEF ML!HandleEvent, ML!GoOffline, ML!GoOnline, ML!screenVars
<1>4. ASSUME ML!HandleEvent \/ ML!GoOffline \/ ML!GoOnline
      PROVE  /\ row' \in AnyRow(n) /\ fetch' \in {ML!Idle, ML!Left} \cup ServedFetch(n)
             /\ seen' \in 0..n /\ focused' \in BOOLEAN /\ ScreenHasRow'
  <2>1. CASE ML!GoOffline \/ ML!GoOnline
    BY <1>1, <2>1 DEF ML!GoOffline, ML!GoOnline, ML!Invalidate, ML!screenVars, ScreenHasRow
  <2>2. CASE ML!HandleEvent
    <3>1. PICK e \in events :
            /\ CASE e.name = "created" /\ focused ->
                      /\ row' = ML!WithMessageRead(row, e.seq)
                      /\ seen' = ML!Higher(seen, e.seq)
                      /\ IF row = ML!Absent THEN ML!Invalidate ELSE UNCHANGED fetch
                 [] e.name = "created" /\ ~focused ->
                      ML!Invalidate /\ UNCHANGED <<row, seen>>
                 [] e.name = "pin_updated" ->
                      row' = ML!WithPin(row, e.pinned) /\ UNCHANGED <<fetch, seen>>
                 [] e.name = "removed" ->
                      row' = ML!Absent /\ ML!Cancel /\ UNCHANGED seen
            /\ ML!Leaves
      BY <2>2 DEF ML!HandleEvent
    <3>2. e \in NewsOf(n)
      BY <1>1, <3>1
    <3>3. focused' \in BOOLEAN /\ ScreenHasRow'
      BY <3>1 DEF ML!Leaves, ScreenHasRow
    <3>4. CASE e.name = "created"
      <4>1. e.seq \in 0..n
        BY <3>2, <3>4 DEF NewsOf
      <4>2. ML!WithMessageRead(row, e.seq) \in AnyRow(n) /\ ML!Higher(seen, e.seq) \in 0..n
        BY <1>1, <4>1, RowStaysKnown DEF ML!Higher
      <4> QED BY <1>1, <3>1, <3>3, <3>4, <4>2 DEF ML!Invalidate
    <3>5. CASE e.name = "pin_updated"
      <4>1. e.pinned \in BOOLEAN
        BY <3>2, <3>5 DEF NewsOf
      <4>2. ML!WithPin(row, e.pinned) \in AnyRow(n)
        BY <1>1, <4>1, RowStaysKnown
      <4> QED BY <1>1, <3>1, <3>3, <3>5, <4>2
    <3>6. CASE e.name = "removed"
      <4>1. ML!Absent \in AnyRow(n)
        BY DEF AnyRow
      <4> QED BY <1>1, <3>1, <3>3, <3>6, <4>1 DEF ML!Cancel
    <3>7. e.name \in {"created", "pin_updated", "removed"}
      BY <3>2 DEF NewsOf
    <3> QED BY <3>4, <3>5, <3>6, <3>7
  <2> QED BY <1>4, <2>1, <2>2
<1>5. ASSUME ML!HandleEvent \/ ML!GoOffline \/ ML!GoOnline PROVE MobileRowInv'
  <2>1. KnownScreen(n)' /\ KnownChange(n)' /\ KnownNews(n)' /\ KnownRow(n)'
    BY <1>3, <1>4, <1>5 DEF MobileRowInv, KnownScreen, KnownChange, KnownNews, KnownRow
  <2> QED BY <1>1, <1>3, <1>4, <1>5, <2>1, RowInvAgain
<1> QED BY <1>2, <1>5

\* The screen is opened, closed, and shows what its query fetched.
LEMMA ScreenKeepsRow ==
  ASSUME MobileRowInv, ML!OpenScreen \/ ML!CloseScreen \/ ML!SeeMessages
  PROVE  MobileRowInv'
<1> DEFINE n == server.last
<1>1. AccountOK /\ n \in Nat /\ focused \in BOOLEAN /\ ScreenHasRow /\ row \in AnyRow(n)
      /\ seen \in 0..n /\ requested \in 0..n /\ confirmed \in 0..n
  BY DEF MobileRowInv, AccountOK, KnownRow, KnownScreen
<1>2. UNCHANGED <<server, row, fetch, events, reads, change>>
  BY DEF ML!OpenScreen, ML!CloseScreen, ML!SeeMessages
<1>3. row # ML!Absent => row.read \in 0..n
  BY <1>1 DEF AnyRow, FullRow
<1>4. 0 \in 0..n /\ n \in 0..n
  BY <1>1
<1>5. seen' \in 0..n /\ requested' \in 0..n /\ confirmed' \in 0..n
      /\ focused' \in BOOLEAN /\ ScreenHasRow'
  <2>1. CASE ML!OpenScreen
    BY <1>3, <1>4, <2>1 DEF ML!OpenScreen, ScreenHasRow
  <2>2. CASE ML!CloseScreen
    BY <1>1, <2>2 DEF ML!CloseScreen, ScreenHasRow
  <2>3. CASE ML!SeeMessages
    BY <1>1, <1>4, <2>3 DEF ML!SeeMessages, ScreenHasRow
  <2> QED BY <2>1, <2>2, <2>3
<1>6. KnownScreen(n)' /\ KnownChange(n)' /\ KnownNews(n)' /\ KnownRow(n)'
  BY <1>2, <1>5 DEF MobileRowInv, KnownScreen, KnownChange, KnownNews, KnownRow
<1> QED BY <1>1, <1>2, <1>5, <1>6, RowInvAgain

\* A report of what was read leaves, is served, arrives or fails.
LEMMA ReportKeepsRow ==
  ASSUME MobileRowInv, ML!MarkLatestRead \/ ML!ServeRead \/ ML!ReadArrives \/ ML!ReadFails
  PROVE  MobileRowInv'
<1> DEFINE n == server.last
<1>1. AccountOK /\ n \in Nat /\ focused \in BOOLEAN /\ ScreenHasRow
      /\ row \in AnyRow(n) /\ fetch \in {ML!Idle, ML!Left} \cup ServedFetch(n)
      /\ seen \in 0..n /\ requested \in 0..n /\ confirmed \in 0..n
      /\ reads \subseteq ReportOf(n)
  BY DEF MobileRowInv, AccountOK, KnownRow, KnownScreen
<1>2. UNCHANGED <<focused, seen, change, events>>
  BY DEF ML!MarkLatestRead, ML!ServeRead, ML!ReadArrives, ML!ReadFails, ML!screenVars
<1>3. \A a, b \in 0..n : ML!Higher(a, b) \in 0..n /\ ML!Lower(a, b) \in 0..n
  BY <1>1 DEF ML!Higher, ML!Lower
<1>4. CASE ML!ServeRead
  <2>1. PICK r \in reads :
          LET target == ML!Higher(server.read, ML!Lower(r.upTo, server.last))
          IN  /\ server' = [server EXCEPT !.read = target]
              /\ reads' = (reads \ {r}) \cup {[r EXCEPT !.at = "served", !.read = target,
                                                        !.unread = server.last - target]}
    BY <1>4 DEF ML!ServeRead
  <2> DEFINE target == ML!Higher(server.read, ML!Lower(r.upTo, n))
             answer == [r EXCEPT !.at = "served", !.read = target, !.unread = n - target]
  <2>2. r \in ReportOf(n) /\ r.upTo \in 0..n
    BY <1>1, <2>1 DEF ReportOf
  <2>3. server.read \in 0..n /\ n \in 0..n
    BY <1>1 DEF AccountOK
  <2>4. target \in 0..n
    BY <1>3, <2>2, <2>3
  <2>5. server' = [server EXCEPT !.read = target] /\ reads' = (reads \ {r}) \cup {answer}
    BY <2>1
  <2> HIDE DEF target
  <2>6. n - target \in 0..n
    BY <1>1, <2>4
  <2>7. answer \in ReportOf(n)
    BY <2>2, <2>4, <2>6 DEF ReportOf
  <2> HIDE DEF answer
  <2>8. AccountOK' /\ server'.last = n
    BY <1>1, <2>4, <2>5 DEF AccountOK
  <2>9. UNCHANGED <<row, fetch, requested, confirmed>>
    BY <1>4 DEF ML!ServeRead, ML!screenVars
  <2>10. KnownChange(server.last)' /\ events' \subseteq NewsOf(n)
    BY <1>2, <2>8 DEF MobileRowInv, KnownChange, KnownNews
  <2>11. reads' \subseteq ReportOf(n)
    BY <1>1, <2>5, <2>7
  <2> QED BY <1>1, <1>2, <2>8, <2>9, <2>10, <2>11, RowInvFurther
<1>5. ASSUME ML!MarkLatestRead \/ ML!ReadArrives \/ ML!ReadFails PROVE UNCHANGED server
  BY <1>5 DEF ML!MarkLatestRead, ML!ReadArrives, ML!ReadFails
<1>6. ASSUME ML!MarkLatestRead \/ ML!ReadArrives \/ ML!ReadFails
      PROVE  /\ row' \in AnyRow(n) /\ (row # ML!Absent => row' # ML!Absent)
             /\ fetch' \in {ML!Idle, ML!Left} \cup ServedFetch(n)
             /\ requested' \in 0..n /\ confirmed' \in 0..n /\ reads' \subseteq ReportOf(n)
  <2>1. CASE ML!MarkLatestRead
    <3> DEFINE newest == ML!Higher(row.last, seen)
               report == [upTo |-> newest, at |-> "left", read |-> 0, unread |-> 0]
    <3>1. /\ focused /\ requested' = ML!Higher(requested, newest) /\ fetch' = ML!Idle
          /\ reads' = reads \cup {report} /\ UNCHANGED confirmed
          /\ row' = [row EXCEPT !.read = ML!Higher(@, newest), !.unread = 0]
      BY <2>1 DEF ML!MarkLatestRead, ML!Cancel
    <3>2. row # ML!Absent
      BY <1>1, <3>1 DEF ScreenHasRow
    <3>3. row.last \in 0..n
      BY <1>1, <3>2 DEF AnyRow, FullRow
    <3>4. newest \in 0..n
      BY <1>1, <1>3, <3>3
    <3> HIDE DEF newest
    <3>5. report \in ReportOf(n)
      BY <1>1, <3>4 DEF ReportOf
    <3>6. row' \in AnyRow(n) /\ row' # ML!Absent
      BY <1>1, <3>1, <3>2, <3>4, RowStaysKnown
    <3> HIDE DEF report
    <3> QED BY <1>1, <1>3, <3>1, <3>4, <3>5, <3>6
  <2>2. CASE ML!ReadArrives
    <3>1. PICK r \in reads :
            /\ reads' = reads \ {r} /\ row' = ML!WithReadResult(row, r)
            /\ confirmed' = (IF focused THEN ML!Higher(confirmed, r.read) ELSE confirmed)
            /\ UNCHANGED <<fetch, requested>>
      BY <2>2 DEF ML!ReadArrives
    <3>2. r \in ReportOf(n) /\ r.read \in 0..n
      BY <1>1, <3>1 DEF ReportOf
    <3>3. row' \in AnyRow(n) /\ (row # ML!Absent => row' # ML!Absent)
      BY <1>1, <3>1, <3>2, RowStaysKnown
    <3> QED BY <1>1, <1>3, <3>1, <3>2, <3>3
  <2>3. CASE ML!ReadFails
    BY <1>1, <2>3 DEF ML!ReadFails, ML!Restart
  <2> QED BY <1>6, <2>1, <2>2, <2>3
<1>7. ASSUME ML!MarkLatestRead \/ ML!ReadArrives \/ ML!ReadFails PROVE MobileRowInv'
  <2>1. KnownScreen(n)' /\ KnownChange(n)' /\ KnownNews(n)' /\ KnownRow(n)'
    BY <1>1, <1>2, <1>5, <1>6, <1>7
    DEF MobileRowInv, KnownScreen, KnownChange, KnownNews, KnownRow
  <2>2. focused' \in BOOLEAN /\ ScreenHasRow'
    BY <1>1, <1>2, <1>6, <1>7 DEF ScreenHasRow
  <2> QED BY <1>1, <1>5, <1>7, <2>1, <2>2, RowInvAgain
<1> QED BY <1>4, <1>7

\* The user's other mutations: they change the row, and perhaps take it back.
LEMMA ChangeKeepsRow ==
  ASSUME MobileRowInv,
         (\E kind \in ML!Changes : ML!Change(kind)) \/ ML!ChangeArrives \/ ML!ChangeFails
  PROVE  MobileRowInv'
<1> DEFINE n == server.last
<1>1. /\ AccountOK /\ n \in Nat /\ focused \in BOOLEAN /\ ScreenHasRow
      /\ row \in AnyRow(n) /\ fetch \in {ML!Idle, ML!Left} \cup ServedFetch(n)
      /\ change \in {ML!Idle} \cup LeftChange(n) \cup ServedChange(n)
      /\ (change # ML!Idle /\ change.kind \in {"pin", "unpin"}) => change.previous # ML!Absent
  BY DEF MobileRowInv, AccountOK, KnownRow, KnownChange
<1>2. UNCHANGED <<server, seen, requested, confirmed, reads, events>>
  BY DEF ML!Change, ML!ChangeArrives, ML!ChangeFails, ML!screenVars
<1>3. \A pinned \in BOOLEAN : /\ ML!WithPin(row, pinned) \in AnyRow(n)
                              /\ row # ML!Absent => ML!WithPin(row, pinned) # ML!Absent
  BY <1>1, RowStaysKnown
<1>4. ASSUME row' \in AnyRow(n), fetch' \in {ML!Idle, ML!Left} \cup ServedFetch(n),
             change' \in {ML!Idle} \cup LeftChange(n) \cup ServedChange(n),
             (change' # ML!Idle /\ change'.kind \in {"pin", "unpin"})
                => change'.previous # ML!Absent,
             focused' \in BOOLEAN, ScreenHasRow'
      PROVE  MobileRowInv'
  <2>1. KnownScreen(n)' /\ KnownChange(n)' /\ KnownNews(n)' /\ KnownRow(n)'
    BY <1>2, <1>4 DEF MobileRowInv, KnownScreen, KnownChange, KnownNews, KnownRow
  <2> QED BY <1>1, <1>2, <1>4, <2>1, RowInvAgain
<1>5. ASSUME NEW kind \in ML!Changes, ML!Change(kind) PROVE MobileRowInv'
  <2> DEFINE mine == [at |-> "left", kind |-> kind, previous |-> row]
  <2>1. change' = mine /\ UNCHANGED focused
    BY <1>5 DEF ML!Change, ML!screenVars
  <2>2. mine \in LeftChange(n) /\ mine.kind = kind /\ mine.previous = row
    BY <1>1 DEF LeftChange
  <2> HIDE DEF mine
  <2>3. CASE kind \in {"pin", "unpin"}
    <3>1. row' = ML!WithPin(row, kind = "pin") /\ fetch' = ML!Idle
      BY <1>5, <2>3 DEF ML!Change, ML!Cancel
    <3>2. row # ML!Absent
      BY <1>5, <2>3 DEF ML!Change
    <3>3. row' \in AnyRow(n) /\ row' # ML!Absent
      BY <1>3, <3>1, <3>2
    <3>4. ScreenHasRow'
      BY <3>3 DEF ScreenHasRow
    <3> QED BY <1>1, <1>4, <2>1, <2>2, <3>1, <3>2, <3>3, <3>4
  <2>4. CASE kind \notin {"pin", "unpin"}
    <3>1. UNCHANGED <<row, fetch>>
      BY <1>5, <2>4 DEF ML!Change
    <3>2. ScreenHasRow'
      BY <1>1, <2>1, <3>1 DEF ScreenHasRow
    <3> QED BY <1>1, <1>4, <2>1, <2>2, <2>4, <3>1, <3>2
  <2> QED BY <2>3, <2>4
<1>6. CASE ML!ChangeArrives
  <2>1. /\ change.at = "served" /\ change' = ML!Idle /\ ML!Leaves
        /\ row' = CASE change.kind \in {"pin", "unpin"} -> ML!WithPin(row, change.kind = "pin")
                    [] change.kind = "dismiss" -> ML!Absent
                    [] change.kind = "open" -> change.answer
                    [] change.kind = "send" -> row
        /\ fetch' \in {fetch, ML!Left}
    BY <1>6 DEF ML!ChangeArrives, ML!Restart
  <2>2. change \in ServedChange(n)
    BY <1>1, <2>1 DEF ML!Idle, LeftChange, ServedChange
  <2>3. change.answer \in AnyRow(n) /\ change.kind \in ML!Changes /\ ML!Absent \in AnyRow(n)
    BY <2>2 DEF ServedChange, AnyRow
  <2>4. row' \in AnyRow(n)
    BY <1>1, <1>3, <2>1, <2>3 DEF ML!Changes
  <2>5. focused' \in BOOLEAN /\ ScreenHasRow'
    BY <2>1 DEF ML!Leaves, ScreenHasRow
  <2> QED BY <1>1, <1>4, <2>1, <2>4, <2>5
<1>7. CASE ML!ChangeFails
  <2>1. /\ change # ML!Idle /\ change' = ML!Idle /\ UNCHANGED focused
        /\ IF change.kind \in {"pin", "unpin"}
             THEN row' = change.previous /\ fetch' = ML!Left
             ELSE UNCHANGED <<row, fetch>>
    BY <1>7 DEF ML!ChangeFails, ML!screenVars, ML!Restart
  <2>2. change.previous \in AnyRow(n)
    BY <1>1, <2>1 DEF LeftChange, ServedChange
  <2>3. row' \in AnyRow(n) /\ (row # ML!Absent => row' # ML!Absent)
        /\ fetch' \in {ML!Idle, ML!Left} \cup ServedFetch(n)
    BY <1>1, <2>1, <2>2
  <2>4. ScreenHasRow'
    BY <1>1, <2>1, <2>3 DEF ScreenHasRow
  <2> QED BY <1>1, <1>4, <2>1, <2>3, <2>4
<1> QED BY <1>5, <1>6, <1>7

\* The server does what a mutation asks for.
LEMMA ServedChangeKeepsRow ==
  ASSUME ListWrites \in Nat, MobileRowInv, ML!ServeChange
  PROVE  MobileRowInv'
<1> DEFINE n == server.last
           m == server'.last
           answer == ML!Listed(server')
           done == [at |-> "served", kind |-> change.kind, previous |-> change.previous,
                    answer |-> answer]
<1>1. /\ AccountOK /\ n \in Nat
      /\ change \in {ML!Idle} \cup LeftChange(n) \cup ServedChange(n)
      /\ (change # ML!Idle /\ change.kind \in {"pin", "unpin"}) => change.previous # ML!Absent
      /\ reads \subseteq ReportOf(n) /\ events \subseteq NewsOf(n)
  BY DEF MobileRowInv, AccountOK, KnownChange, KnownScreen, KnownNews
<1>2. change.at = "left" /\ change' = done
      /\ UNCHANGED <<row, fetch, focused, seen, requested, confirmed, reads>>
  BY DEF ML!ServeChange, ML!screenVars
<1>3. change \in LeftChange(n) /\ change # ML!Idle /\ change.kind \in ML!Changes
      /\ change.previous \in AnyRow(n)
  BY <1>1, <1>2 DEF ML!Idle, LeftChange, ServedChange
<1>4. /\ server = [last |-> n, read |-> server.read, hidden |-> server.hidden,
                   pinned |-> server.pinned]
      /\ server.read \in 0..n /\ server.hidden \in 0..n /\ server.pinned \in BOOLEAN
      /\ n <= ListWrites + 1
  BY <1>1 DEF AccountOK
<1>5. /\ server' \in [last : Nat, read : Nat, hidden : Nat, pinned : BOOLEAN]
      /\ server'.read <= m /\ server'.hidden <= m /\ n <= m /\ m <= ListWrites + 1
      /\ events' \subseteq NewsOf(m)
  <2>1. CASE change.kind \in {"pin", "unpin"}
    <3> DEFINE pinned == change.kind = "pin"
               news == [name |-> "pin_updated", pinned |-> pinned]
    <3>1. server' = [server EXCEPT !.pinned = pinned] /\ events' \subseteq events \cup {news}
      BY <2>1 DEF ML!ServeChange, ML!Publish
    <3>2. pinned \in BOOLEAN /\ news \in NewsOf(n)
      BY DEF NewsOf
    <3> HIDE DEF pinned, news
    <3>3. m = n /\ server'.read = server.read /\ server'.hidden = server.hidden
          /\ server' \in [last : Nat, read : Nat, hidden : Nat, pinned : BOOLEAN]
      BY <1>1, <1>4, <3>1, <3>2
    <3> QED BY <1>1, <1>4, <3>1, <3>2, <3>3
  <2>2. CASE change.kind = "dismiss"
    <3> DEFINE news == [name |-> "removed"]
    <3>1. server' = [server EXCEPT !.read = server.last, !.hidden = server.last,
                                   !.pinned = FALSE]
          /\ events' \subseteq events \cup {news}
      BY <2>2 DEF ML!ServeChange, ML!Publish
    <3>2. news \in NewsOf(n)
      BY DEF NewsOf
    <3> HIDE DEF news
    <3>3. m = n /\ server'.read = n /\ server'.hidden = n
          /\ server' \in [last : Nat, read : Nat, hidden : Nat, pinned : BOOLEAN]
      BY <1>1, <1>4, <3>1
    <3> QED BY <1>1, <1>4, <3>1, <3>2, <3>3
  <2>3. CASE change.kind = "open"
    <3>1. server' = [server EXCEPT !.hidden = 0] /\ events' = events
      BY <2>3 DEF ML!ServeChange
    <3>2. m = n /\ server'.read = server.read /\ server'.hidden = 0
          /\ server' \in [last : Nat, read : Nat, hidden : Nat, pinned : BOOLEAN]
      BY <1>1, <1>4, <3>1
    <3> QED BY <1>1, <1>4, <3>1, <3>2
  <2>4. CASE change.kind = "send"
    <3> DEFINE news == [name |-> "created", seq |-> n + 1]
    <3>1. /\ server.last <= ListWrites /\ events' \subseteq events \cup {news}
          /\ server' = [server EXCEPT !.last = @ + 1, !.read = server.last + 1]
      BY <2>4 DEF ML!ServeChange, ML!Publish
    <3>2. server' = [last |-> n + 1, read |-> n + 1, hidden |-> server.hidden,
                     pinned |-> server.pinned]
      BY <1>4, <3>1
    <3>3. m = n + 1 /\ server'.read = n + 1 /\ server'.hidden = server.hidden
          /\ server' \in [last : Nat, read : Nat, hidden : Nat, pinned : BOOLEAN]
      BY <1>1, <1>4, <3>2
    <3>4. news \in NewsOf(n + 1)
      BY <1>1 DEF NewsOf
    <3>5. NewsOf(n) \subseteq NewsOf(n + 1)
      BY <1>1, KnownFurther
    <3> HIDE DEF news
    <3> QED BY <1>1, <1>4, <3>1, <3>3, <3>4, <3>5
  <2> QED BY <1>3, <2>1, <2>2, <2>3, <2>4 DEF ML!Changes
<1>6. AccountOK' /\ m \in Nat
  BY <1>5 DEF AccountOK
<1>7. answer \in AnyRow(m)
  BY <1>5, ListedIsKnown
<1>8. AnyRow(n) \subseteq AnyRow(m) /\ ReportOf(n) \subseteq ReportOf(m)
  BY <1>1, <1>5, <1>6, KnownFurther
<1> HIDE DEF answer
<1>9. done \in ServedChange(m) /\ done.kind = change.kind /\ done.previous = change.previous
  BY <1>3, <1>7, <1>8 DEF ServedChange
<1> HIDE DEF done
<1>10. KnownChange(server.last)'
  BY <1>1, <1>2, <1>3, <1>9 DEF KnownChange
<1> QED BY <1>1, <1>2, <1>5, <1>6, <1>8, <1>10, RowInvFurther

\* The row that the list starts with.
LEMMA RowInvInitially ==
  ASSUME ListWrites \in Nat, ML!MobileListInit
  PROVE  MobileRowInv
<1>1. /\ server = [last |-> 1, read |-> 1, hidden |-> 0, pinned |-> TRUE]
      /\ row = ML!Listed(server) /\ fetch = ML!Idle /\ events = {} /\ focused = FALSE
      /\ seen = 0 /\ requested = 0 /\ confirmed = 0 /\ reads = {} /\ change = ML!Idle
  BY DEF ML!MobileListInit
<1>2. /\ server \in [last : Nat, read : Nat, hidden : Nat, pinned : BOOLEAN]
      /\ server.last = 1 /\ server.read = 1 /\ server.hidden = 0
  BY <1>1
<1>3. AccountOK
  BY <1>2 DEF AccountOK
<1>4. row \in AnyRow(server.last)
  <2>1. server.read <= server.last
    BY <1>2
  <2>2. ML!Listed(server) \in AnyRow(server.last)
    BY <1>2, <2>1, ListedIsKnown
  <2> QED BY <1>1, <2>2
<1>5. 0 \in 0..server.last
  BY <1>2
<1> QED BY <1>1, <1>3, <1>4, <1>5
  DEF MobileRowInv, KnownRow, KnownScreen, KnownChange, KnownNews, ScreenHasRow

\* Every step keeps the inductive invariant.
LEMMA RowInvStep ==
  ASSUME ListWrites \in Nat, MobileRowInv, [ML!MobileListNext]_(ML!mlVars)
  PROVE  MobileRowInv'
<1>1. CASE ML!MobileListNext
  BY <1>1, FetchKeepsRow, NewsKeepsRow, ScreenKeepsRow, ReportKeepsRow, ChangeKeepsRow,
     ServedChangeKeepsRow DEF ML!MobileListNext
<1>2. CASE UNCHANGED ML!mlVars
  BY <1>2 DEF ML!mlVars, MobileRowInv, AccountOK, KnownRow, KnownScreen, KnownChange, KnownNews,
     ScreenHasRow
<1> QED BY <1>1, <1>2

\* The mobile list never runs ahead of the server: its row, which pins, reports
\* and failures change before an answer comes, names no message, read position or
\* unread count beyond the messages the conversation has, nor do the positions
\* the screen keeps; and the screen that has the focus has a row.
THEOREM MobileListNeverAhead ==
  ASSUME ListWrites \in Nat
  PROVE  ML!MobileListSpec => [](MobileRowNeverAhead /\ ScreenHasRow)
<1>1. ML!MobileListInit => MobileRowInv
  BY RowInvInitially
<1>2. MobileRowInv /\ [ML!MobileListNext]_(ML!mlVars) => MobileRowInv'
  BY RowInvStep
<1>3. ASSUME MobileRowInv PROVE MobileRowNeverAhead /\ ScreenHasRow
  <2>1. /\ row \in AnyRow(server.last) /\ seen \in 0..server.last
        /\ requested \in 0..server.last /\ confirmed \in 0..server.last /\ ScreenHasRow
    BY <1>3 DEF MobileRowInv, KnownRow, KnownScreen
  <2>2. row # ML!Absent => /\ row.last \in 0..server.last /\ row.read \in 0..server.last
                        /\ row.unread \in 0..server.last
    BY <2>1 DEF AnyRow, FullRow
  <2>3. server.last \in Nat
    BY <1>3 DEF MobileRowInv, AccountOK
  <2> QED BY <2>1, <2>2, <2>3 DEF MobileRowNeverAhead
<1> QED BY <1>1, <1>2, <1>3, PTL DEF ML!MobileListSpec

\* The counters of changes and losses stay within their bounds.
LEMMA MobileCountsKept ==
  ASSUME ListChanges \in Nat, ListLosses \in Nat, MobileListCounts,
         [ML!MobileListNext]_(ML!mlVars)
  PROVE  MobileListCounts'
<1>1. online \in BOOLEAN /\ changes \in 0..ListChanges /\ losses \in 0..ListLosses
  BY DEF MobileListCounts
<1>2. /\ online' \in {online, TRUE, FALSE}
      /\ changes' = changes \/ (changes < ListChanges /\ changes' = changes + 1)
      /\ losses' = losses \/ (losses < ListLosses /\ losses' = losses + 1)
  <2>1. CASE ML!Poll \/ ML!ServeFetch \/ ML!FetchEnds \/ ML!FetchFails
    BY <2>1 DEF ML!Poll, ML!ServeFetch, ML!FetchEnds, ML!FetchFails
  <2>2. CASE ML!OthersWrite \/ ML!HandleEvent \/ ML!GoOffline \/ ML!GoOnline
    BY <2>2 DEF ML!OthersWrite, ML!HandleEvent, ML!GoOffline, ML!GoOnline
  <2>3. CASE ML!OpenScreen \/ ML!CloseScreen \/ ML!SeeMessages
    BY <2>3 DEF ML!OpenScreen, ML!CloseScreen, ML!SeeMessages
  <2>4. CASE ML!MarkLatestRead \/ ML!ServeRead \/ ML!ReadArrives \/ ML!ReadFails
    BY <2>4 DEF ML!MarkLatestRead, ML!ServeRead, ML!ReadArrives, ML!ReadFails
  <2>5. CASE (\E kind \in ML!Changes : ML!Change(kind)) \/ ML!ServeChange
    BY <2>5 DEF ML!Change, ML!ServeChange
  <2>6. CASE ML!ChangeArrives \/ ML!ChangeFails
    BY <2>6 DEF ML!ChangeArrives, ML!ChangeFails
  <2>7. CASE UNCHANGED ML!mlVars
    BY <2>7 DEF ML!mlVars
  <2> QED BY <2>1, <2>2, <2>3, <2>4, <2>5, <2>6, <2>7 DEF ML!MobileListNext
<1>3. changes' \in 0..ListChanges /\ losses' \in 0..ListLosses
  BY <1>1, <1>2
<1> QED BY <1>1, <1>2, <1>3 DEF MobileListCounts

\* The row, the server's row, fetch, reports and mutation keep their types.
THEOREM MobileListTypeCorrect ==
  ASSUME ListWrites \in Nat, ListChanges \in Nat, ListLosses \in Nat
  PROVE  ML!MobileListSpec => []ML!MobileListTypeOK
<1>1. ML!MobileListInit => MobileRowInv
  BY RowInvInitially
<1>2. MobileRowInv /\ [ML!MobileListNext]_(ML!mlVars) => MobileRowInv'
  BY RowInvStep
<1>3. ASSUME ML!MobileListInit PROVE MobileListCounts
  <2>1. online = TRUE /\ changes = 0 /\ losses = 0
    BY <1>3 DEF ML!MobileListInit
  <2>2. changes \in 0..ListChanges /\ losses \in 0..ListLosses
    BY <2>1
  <2> QED BY <2>1, <2>2 DEF MobileListCounts
<1>4. MobileListCounts /\ [ML!MobileListNext]_(ML!mlVars) => MobileListCounts'
  BY MobileCountsKept
<1>5. ASSUME MobileRowInv, MobileListCounts PROVE ML!MobileListTypeOK
  <2> DEFINE n == server.last
             top == ListWrites + 1
  <2>1. n \in Nat /\ top \in Nat /\ n <= top /\ server.read \in 0..n
    BY <1>5 DEF MobileRowInv, AccountOK
  <2>2. ML!Seqs = 0..top
    BY DEF ML!Seqs
  <2> HIDE DEF top
  <2>3. 0..n \subseteq 0..top /\ AnyRow(n) \subseteq AnyRow(top)
        /\ ServedFetch(n) \subseteq ServedFetch(top) /\ ReportOf(n) \subseteq ReportOf(top)
    BY <2>1, KnownFurther
  <2>4. FullRow(top) = ML!Row
    BY <2>2 DEF FullRow, ML!Row
  <2>5. AnyRow(top) = ML!Row \cup {ML!Absent}
    BY <2>4 DEF AnyRow
  <2>6. row \in ML!Row \cup {ML!Absent}
        /\ fetch \in {ML!Idle, ML!Left} \cup [at : {"served"}, row : ML!Row \cup {ML!Absent}]
    BY <1>5, <2>3, <2>5 DEF MobileRowInv, KnownRow, ServedFetch
  <2>7. /\ seen \in ML!Seqs /\ requested \in ML!Seqs /\ confirmed \in ML!Seqs
        /\ reads \subseteq [upTo : ML!Seqs, at : {"left", "served"}, read : ML!Seqs,
                           unread : ML!Seqs]
    BY <1>5, <2>2, <2>3 DEF MobileRowInv, KnownScreen, ReportOf
  <2>8. change # ML!Idle => change.kind \in ML!Changes
    BY <1>5 DEF MobileRowInv, KnownChange, LeftChange, ServedChange
  <2>9. server.last \in ML!Seqs
    BY <2>1, <2>2
  <2> QED BY <1>5, <2>1, <2>6, <2>7, <2>8, <2>9
     DEF ML!MobileListTypeOK, MobileListCounts, MobileRowInv
<1> QED BY <1>1, <1>2, <1>3, <1>4, <1>5, PTL DEF ML!MobileListSpec
=============================================================================
