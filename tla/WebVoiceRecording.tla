--------------------------- MODULE WebVoiceRecording ---------------------------
(***************************************************************************)
(* Recording a voice message in the web client: useVoiceRecording, which   *)
(* the voice message and the voice input dialogs use.                      *)
(*                                                                         *)
(* A start waits for the microphone and for the audio context; meanwhile   *)
(* the dialog may be closed, another start may be made and the page may go *)
(* away.  Each start takes a version, and what comes back under an older   *)
(* version has to leave the newer one's recorder and microphone alone and  *)
(* to release its own.  A start can also fail at every step of its way.    *)
(***************************************************************************)
EXTENDS Naturals, FiniteSets

CONSTANT MaxStarts    \* bound: values of requestVersionRef

VARIABLES present,    \* the component is mounted
          activity,   \* status
          version,    \* requestVersionRef
          starts,     \* starts that wait: which version, for what
          live,       \* versions whose microphone tracks run
          stream,     \* streamRef: the version it is of, 0 for null
          recorder,   \* mediaRecorderRef: the version it is of, 0 for null
          tape,       \* what the recorder does
          timer,      \* maxDurationTimeoutRef is armed
          leaked,     \* ghost: microphones granted to a start that failed
                      \* before streamRef named them
          robbed      \* ghost: versions whose recorder an older start discarded

wvVars == <<present, activity, version, starts, live, stream, recorder, tape, timer,
            leaked, robbed>>

Busy == {"requesting", "recording", "processing"}

VoiceTypeOK ==
    /\ present \in BOOLEAN /\ timer \in BOOLEAN
    /\ activity \in Busy \cup {"idle", "recorded"}
    /\ version \in 0..(MaxStarts + 2)
    /\ starts \subseteq [version : 1..MaxStarts, at : {"asking", "resuming"}]
    /\ live \subseteq 1..MaxStarts
    /\ stream \in 0..MaxStarts /\ recorder \in 0..MaxStarts
    /\ tape \in {"inactive", "recording", "stopping"}
    /\ leaked \subseteq 1..MaxStarts /\ robbed \subseteq 1..MaxStarts

(* discardMediaRecorder takes the handlers away: its stop says nothing.    *)
Discard == recorder' = 0 /\ tape' = "inactive"

(* releaseMicrophone stops what streamRef names, and closes the context.   *)
Release == live' = live \ {stream} /\ stream' = 0

Abandon == version' = version + 1 /\ Discard /\ Release /\ timer' = FALSE

(* startRecording up to its first await.                                   *)
StartRecording ==
    /\ present /\ activity \notin Busy /\ version < MaxStarts
    /\ Abandon
    /\ \/ /\ activity' = "requesting"
          /\ starts' = starts \cup {[version |-> version + 1, at |-> "asking"]}
       \/ activity' = "idle" /\ UNCHANGED starts        \* unsupported
    /\ UNCHANGED <<present, leaked, robbed>>

(* recorder.start, the monitor and the timeout; a recorder that has been   *)
(* discarded may start as well, but nobody hears of it.                    *)
Begins(s) ==
    /\ activity' = "recording" /\ timer' = TRUE
    /\ tape' = IF recorder' = s.version THEN "recording" ELSE tape

(* Mutant: the version is not compared after the await.                    *)
MicrophoneGranted_Unchecked(s) ==
    /\ s \in starts /\ s.at = "asking"
    /\ live' = live \cup {s.version}
    /\ stream' = s.version /\ recorder' = s.version
    /\ starts' = starts \ {s} /\ Begins(s)
    /\ UNCHANGED <<present, version, leaked, robbed>>

(* getUserMedia has answered with a stream.                                *)
MicrophoneGranted(s) ==
    /\ s \in starts /\ s.at = "asking"
    /\ IF s.version # version
       THEN /\ starts' = starts \ {s}
            /\ UNCHANGED <<activity, live, stream, recorder, tape, timer>>
       ELSE /\ live' = live \cup {s.version}
            /\ stream' = s.version /\ recorder' = s.version
            /\ \/ starts' = starts \ {s} /\ Begins(s)
               \/ /\ starts' = (starts \ {s}) \cup {[s EXCEPT !.at = "resuming"]}
                  /\ tape' = "inactive" /\ UNCHANGED <<activity, timer>>
    /\ UNCHANGED <<present, version, leaked, robbed>>

(* It has, but no audio context, source or recorder can be made of it: the *)
(* stream is in no ref yet when the catch releases what the refs name.     *)
SetupFails(s) ==
    /\ s \in starts /\ s.at = "asking" /\ s.version = version
    /\ starts' = starts \ {s}
    /\ Discard /\ timer' = FALSE /\ activity' = "idle"
    /\ live' = (live \ {stream}) \cup {s.version} /\ stream' = 0
    /\ leaked' = leaked \cup {s.version}
    /\ UNCHANGED <<present, version, robbed>>

(* audioContext.resume has been answered.  A start that has been superseded *)
(* meanwhile discards and releases what the refs name by now.              *)
ContextResumed(s) ==
    /\ s \in starts /\ s.at = "resuming"
    /\ starts' = starts \ {s}
    /\ IF s.version # version
       THEN /\ Discard /\ Release
            /\ robbed' = robbed \cup ({recorder} \ {0})
            /\ UNCHANGED <<activity, timer>>
       ELSE UNCHANGED <<live, stream, recorder, robbed>> /\ Begins(s)
    /\ UNCHANGED <<present, version, leaked>>

(* Either await throws, or recorder.start: the microphone is refused, the  *)
(* context is closed, the stream has ended.                                *)
StartFails(s) ==
    /\ s \in starts
    /\ starts' = starts \ {s}
    /\ IF s.version # version
       THEN UNCHANGED <<activity, live, stream, recorder, tape, timer>>
       ELSE Discard /\ Release /\ timer' = FALSE /\ activity' = "idle"
    /\ UNCHANGED <<present, version, leaked, robbed>>

(* finishRecording: the button, or the timeout after a minute.             *)
FinishRecording ==
    /\ timer' = FALSE
    /\ IF recorder # 0 /\ tape = "recording"
       THEN activity' = "processing" /\ tape' = "stopping"
       ELSE UNCHANGED <<activity, tape>>
    /\ UNCHANGED <<present, version, starts, live, stream, recorder, leaked, robbed>>

Finish == (timer \/ activity = "recording") /\ FinishRecording

(* The microphone is unplugged: the recorder stops by itself.              *)
TracksEnd ==
    /\ tape = "recording" /\ tape' = "stopping"
    /\ UNCHANGED <<present, activity, version, starts, live, stream, recorder, timer,
                   leaked, robbed>>

(* recorder.onstop: a recording, or one that is empty or too large.        *)
RecorderStops ==
    /\ tape = "stopping"
    /\ Discard /\ Release
    /\ activity' \in {"recorded", "idle"}
    /\ UNCHANGED <<present, version, starts, timer, leaked, robbed>>

(* recorder.onerror                                                        *)
RecorderFails ==
    /\ recorder # 0 /\ recorder = version
    /\ Abandon /\ activity' = "idle"
    /\ UNCHANGED <<present, starts, leaked, robbed>>

(* The dialog is closed, or its recording has been sent.                   *)
ResetRecording ==
    /\ present /\ version < MaxStarts
    /\ Abandon /\ activity' = "idle"
    /\ UNCHANGED <<present, starts, leaked, robbed>>

(* The component unmounts.                                                 *)
Vanish ==
    /\ present /\ present' = FALSE
    /\ Abandon
    /\ UNCHANGED <<activity, starts, leaked, robbed>>

VoiceInit ==
    /\ present = TRUE /\ activity = "idle" /\ version = 0
    /\ starts = {} /\ live = {} /\ stream = 0
    /\ recorder = 0 /\ tape = "inactive" /\ timer = FALSE
    /\ leaked = {} /\ robbed = {}

VoiceNext ==
    \/ StartRecording \/ Finish \/ TracksEnd \/ RecorderStops \/ RecorderFails
    \/ ResetRecording \/ Vanish
    \/ \E s \in starts :
          MicrophoneGranted(s) \/ SetupFails(s) \/ ContextResumed(s) \/ StartFails(s)

VoiceSpec == VoiceInit /\ [][VoiceNext]_wvVars

-----------------------------------------------------------------------------
(* The microphone runs only while the dialog says so: every stream that is *)
(* live is the one that the next release will stop, it belongs to a page   *)
(* that is still there and shows that it listens; and a page that shows a  *)
(* recording has the recorder that its stop button needs.  Excepted is     *)
(* what the code does not account for: a microphone granted to a start     *)
(* that fails before streamRef names it runs on, whatever the dialog says  *)
(* ("leaked"), and a recording goes on without its recorder once an older  *)
(* start, resumed late, has discarded it ("robbed").                       *)
MicrophoneAccounted ==
    LET known == live \ leaked
    IN  /\ known \subseteq {stream}
        /\ known # {} => present /\ activity \in Busy
        /\ present /\ activity \in {"recording", "processing"} =>
               recorder \in known \/ version \in robbed
=============================================================================
