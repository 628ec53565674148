------------------------- MODULE MobileVoiceRecording -------------------------
(***************************************************************************)
(* Recording a voice message in the mobile client: useVoiceMessageRecorder *)
(* and the gestures and the dialog of the message composer.                *)
(*                                                                         *)
(* The recording runs while a finger is held down.  Starting takes several *)
(* awaits, stopping as well, and the finger is lifted, the minute is over  *)
(* or the screen goes away at any of them.  A recording is a file that has *)
(* to be deleted once it is sent or given up; the deletion may fail, which *)
(* nobody hears of, and so may the recorder's stop and the audio mode's    *)
(* reset.                                                                  *)
(***************************************************************************)
EXTENDS Naturals, FiniteSets

CONSTANT MaxTakes       \* bound: recordings begun

VARIABLES present,        \* mountedRef
          held,           \* the finger is down
          activity,       \* statusRef
          stopRequested,  \* stopRequestedRef
          start,          \* where startRecording waits
          stop,           \* where stopRecording waits
          capturing,      \* the recorder writes a file
          recordMode,     \* the audio mode allows recording
          take,           \* the take it writes or wrote last
          recording,      \* recordingRef: the take whose file it has, 0 for null
          uploading,      \* voiceUploadInFlightRef: the take, 0 for none
          tapes,          \* takes whose file exists
          orphans,        \* ghost: takes the unmounted screen left behind
          unstopped,      \* ghost: takes whose stop failed
          undeleted,      \* ghost: takes whose deletion failed
          refused         \* ghost: the recorder still runs, its stop has failed

mvVars == <<present, held, activity, stopRequested, start, stop, capturing,
            recordMode, take, recording, uploading, tapes, orphans, unstopped,
            undeleted, refused>>

MobileVoiceTypeOK ==
    /\ {present, held, stopRequested, capturing, recordMode, refused} \subseteq BOOLEAN
    /\ activity \in {"idle", "requesting", "recording", "processing", "recorded"}
    /\ start \in {"no", "permission", "mode", "prepare", "release", "fail"}
    /\ stop \in {"no", "stop", "release", "fail"}
    /\ take \in 0..MaxTakes /\ recording \in 0..take /\ uploading \in 0..take
    /\ tapes \subseteq 1..take /\ orphans \subseteq 1..take
    /\ unstopped \subseteq 1..take /\ undeleted \subseteq 1..take

-----------------------------------------------------------------------------
(* safeDeleteFile: best-effort.                                            *)
SafeDelete(t) ==
    \/ tapes' = tapes \ {t} /\ UNCHANGED undeleted
    \/ undeleted' = undeleted \cup ({t} \cap tapes) /\ UNCHANGED tapes

(* releaseRecordingMode: best-effort as well.                              *)
ReleaseMode == recordMode' \in {FALSE, recordMode}

(* stopRecording up to its first await: only notes that it was wanted      *)
(* while the start is still waiting.                                       *)
StopRecording ==
    CASE activity = "requesting" ->
            stopRequested' = TRUE /\ UNCHANGED <<activity, stop>>
      [] activity = "recording" ->
            activity' = "processing" /\ stop' = "stop" /\ UNCHANGED stopRequested
      [] OTHER -> UNCHANGED <<activity, stop, stopRequested>>

(* The finger goes down on the voice button or stays on the input; the     *)
(* dialog with a recording covers both.                                    *)
PressIn ==
    /\ present /\ ~held /\ activity = "idle" /\ take < MaxTakes
    /\ held' = TRUE
    /\ activity' = "requesting" /\ stopRequested' = FALSE
    /\ start' = "permission"
    /\ UNCHANGED <<present, stop, capturing, recordMode, take, recording, uploading,
                   tapes, orphans, unstopped, undeleted, refused>>

PressOut ==
    /\ present /\ held /\ held' = FALSE
    /\ StopRecording
    /\ UNCHANGED <<present, start, capturing, recordMode, take, recording, uploading,
                   tapes, orphans, unstopped, undeleted, refused>>

(* The timeout after a minute.                                             *)
MinuteOver ==
    /\ activity = "recording" /\ present
    /\ StopRecording
    /\ UNCHANGED <<present, held, start, capturing, recordMode, take, recording,
                   uploading, tapes, orphans, unstopped, undeleted, refused>>

-----------------------------------------------------------------------------
(* startRecording after each of its awaits.                                *)

PermissionAnswered ==
    /\ start = "permission"
    /\ \/ start' = "fail" /\ UNCHANGED activity
       \/ IF stopRequested THEN start' = "no" /\ activity' = "idle"
          ELSE start' = "mode" /\ UNCHANGED activity
    /\ UNCHANGED <<present, held, stopRequested, stop, capturing, recordMode, take,
                   recording, uploading, tapes, orphans, unstopped, undeleted,
                   refused>>

RecordModeSet ==
    /\ start = "mode"
    /\ \/ start' = "prepare" /\ recordMode' = TRUE
       \/ start' = "fail" /\ UNCHANGED recordMode
    /\ UNCHANGED <<present, held, activity, stopRequested, stop, capturing, take,
                   recording, uploading, tapes, orphans, unstopped, undeleted,
                   refused>>

(* Mutant: whether a stop was asked for meanwhile is not looked at.        *)
Prepared_StopIgnored ==
    /\ start = "prepare" /\ start' = "no"
    /\ activity' = "recording" /\ capturing' = TRUE
    /\ take' = take + 1 /\ tapes' = tapes \cup {take + 1} /\ refused' = FALSE
    /\ UNCHANGED <<present, held, stopRequested, stop, recordMode, recording,
                   uploading, orphans, unstopped, undeleted>>

Prepared ==
    /\ start = "prepare"
    /\ \/ start' = "fail" /\ UNCHANGED <<activity, capturing, take, tapes, refused>>
       \/ /\ stopRequested /\ start' = "release"
          /\ UNCHANGED <<activity, capturing, take, tapes, refused>>
       \/ /\ ~stopRequested /\ start' = "no"
          /\ activity' = "recording" /\ capturing' = TRUE
          /\ take' = take + 1 /\ tapes' = tapes \cup {take + 1} /\ refused' = FALSE
    /\ UNCHANGED <<present, held, stopRequested, stop, recordMode, recording,
                   uploading, orphans, unstopped, undeleted>>

(* fail, or a start that is no longer wanted, after releaseRecordingMode.  *)
StartGivenUp ==
    /\ start \in {"release", "fail"}
    /\ start' = "no" /\ ReleaseMode /\ activity' = "idle"
    /\ UNCHANGED <<present, held, stopRequested, stop, capturing, take, recording,
                   uploading, tapes, orphans, unstopped, undeleted, refused>>

-----------------------------------------------------------------------------
(* stopRecording after each of its awaits.                                 *)

(* Whether a recorder that fails to stop goes on is not known; nobody asks *)
(* it again, and its file is left where it is.                             *)
RecorderStopped ==
    /\ stop = "stop"
    /\ \/ /\ stop' = "release" /\ capturing' = FALSE
          /\ UNCHANGED <<unstopped, refused>>
       \/ /\ stop' = "fail" /\ capturing' \in {FALSE, capturing}
          /\ unstopped' = unstopped \cup {take} /\ refused' = capturing'
    /\ UNCHANGED <<present, held, activity, stopRequested, start, recordMode, take,
                   recording, uploading, tapes, orphans, undeleted>>

(* The mode is released: the file is kept or, empty, too short or too      *)
(* large, deleted.                                                         *)
ModeReleased ==
    /\ stop = "release" /\ ReleaseMode
    /\ \/ /\ stop' = "no" /\ activity' = "recorded" /\ recording' = take
          /\ orphans' = IF present THEN orphans ELSE orphans \cup {take}
          /\ UNCHANGED <<tapes, undeleted>>
       \/ /\ stop' = "fail" /\ SafeDelete(take)
          /\ UNCHANGED <<activity, recording, orphans>>
    /\ UNCHANGED <<present, held, stopRequested, start, capturing, take, uploading,
                   unstopped, refused>>

StopFailed ==
    /\ stop = "fail" /\ stop' = "no"
    /\ ReleaseMode /\ activity' = "idle"
    /\ UNCHANGED <<present, held, stopRequested, start, capturing, take, recording,
                   uploading, tapes, orphans, unstopped, undeleted, refused>>

-----------------------------------------------------------------------------
(* The dialog.                                                             *)

(* handleVoiceConfirm                                                      *)
Confirm ==
    /\ present /\ activity = "recorded" /\ uploading = 0
    /\ uploading' = recording
    /\ UNCHANGED <<present, held, activity, stopRequested, start, stop, capturing,
                   recordMode, take, recording, tapes, orphans, unstopped, undeleted,
                   refused>>

(* resetRecording, and its cleanup of the file.                            *)
ResetRecording ==
    /\ SafeDelete(recording) /\ recording' = 0
    /\ activity' = "idle" /\ stopRequested' = TRUE

Uploaded ==
    /\ uploading # 0 /\ uploading' = 0
    /\ \/ ResetRecording                                    \* sent
       \/ /\ present                                        \* refused
          /\ UNCHANGED <<tapes, undeleted, recording, activity, stopRequested>>
       \/ /\ ~present /\ SafeDelete(uploading)                  \* refused, nobody there
          /\ UNCHANGED <<recording, activity, stopRequested>>
    /\ UNCHANGED <<present, held, start, stop, capturing, recordMode, take, orphans,
                   unstopped, refused>>

Cancel ==
    /\ present /\ activity = "recorded" /\ uploading = 0
    /\ ResetRecording
    /\ UNCHANGED <<present, held, start, stop, capturing, recordMode, take, uploading,
                   orphans, unstopped, refused>>

(* The screen goes away: a recorder that runs is told to stop and its file *)
(* is forgotten; a recording nobody is sending is deleted.                 *)
Vanish ==
    /\ present /\ present' = FALSE /\ held' = FALSE
    /\ stopRequested' = TRUE
    /\ ReleaseMode
    /\ IF activity = "recording"
       THEN /\ capturing' \in {FALSE, capturing} /\ refused' = capturing'
            /\ orphans' = orphans \cup {take}
       ELSE UNCHANGED <<capturing, refused, orphans>>
    /\ IF uploading = 0 THEN SafeDelete(recording) ELSE UNCHANGED <<tapes, undeleted>>
    /\ UNCHANGED <<activity, start, stop, take, recording, uploading, unstopped>>

MobileVoiceInit ==
    /\ present = TRUE /\ held = FALSE /\ activity = "idle" /\ stopRequested = FALSE
    /\ start = "no" /\ stop = "no" /\ capturing = FALSE /\ recordMode = FALSE
    /\ take = 0 /\ recording = 0 /\ uploading = 0 /\ tapes = {} /\ orphans = {}
    /\ unstopped = {} /\ undeleted = {} /\ refused = FALSE

MobileVoiceNext ==
    \/ PressIn \/ PressOut \/ MinuteOver
    \/ PermissionAnswered \/ RecordModeSet \/ Prepared \/ StartGivenUp
    \/ RecorderStopped \/ ModeReleased \/ StopFailed
    \/ Confirm \/ Uploaded \/ Cancel \/ Vanish

MobileVoiceSpec == MobileVoiceInit /\ [][MobileVoiceNext]_mvVars

-----------------------------------------------------------------------------
(* Nothing is recorded without a finger on the button, except for the      *)
(* moment in which the recorder is being stopped, and never on a screen    *)
(* whose audio mode does not allow it; and a recording's file exists only  *)
(* while it is being made, shown or sent.  Excepted is a recorder whose    *)
(* stop has failed: it may go on until the next recording ("refused").     *)
(* Files stay in the cache directory, where only the operating system      *)
(* reclaims them, if the screen went away while it recorded ("orphans"),   *)
(* if the recorder failed to stop ("unstopped") and if they could not be   *)
(* deleted ("undeleted").                                                  *)
RecordsOnlyWhileHeld ==
    /\ capturing /\ ~refused => held \/ stop = "stop"
    /\ capturing /\ ~refused => recordMode \/ ~present
    /\ \A t \in tapes \ (orphans \cup unstopped \cup undeleted) :
          \/ t = take /\ (capturing \/ stop # "no")
          \/ t \in {recording, uploading}
=============================================================================
