--------------------------- MODULE WebClientProofs --------------------------
(***************************************************************************)
(* The theorems about the web client's connection, the recording of voice  *)
(* messages, reactions, drafts, and the tasks of a project with their      *)
(* dialogs. The mobile client shares the connection and reactions.         *)
(***************************************************************************)
EXTENDS ClientRealtime, WebDrafts, WebVoiceRecording, MessageReactions, ProjectTasks,
        SequenceTheorems, FiniteSetTheorems, TLAPS

(***************************************************************************)
(* Theorems about ClientRealtime, for both clients, every number of        *)
(* sockets and every number of requests.                                   *)
(***************************************************************************)

Phases == {"none", "connecting", "open", "closing", "closed"}

(* The part of RealtimeTypeOK the argument needs.                          *)
Ranges ==
    /\ phase \in [SocketIds -> Phases] /\ socket \in {NoSocket} \cup SocketIds
    /\ timers \in Nat /\ sequence \in Nat
    /\ \A n \in checks : n \in Nat /\ n <= sequence
    /\ calls \in Nat /\ \A p \in pending : p.on \in SocketIds

(* A socket is closed by the client only when the provider unmounts, and   *)
(* then for good.                                                          *)
Ended ==
    /\ \A s \in SocketIds : phase[s] = "closing" => ~mounted
    /\ ~mounted => ~shouldReconnect

(* The session check that will arm the timer finds none armed: sequence    *)
(* tells it from the older ones.                                           *)
CheckArms == sequence \in checks => timers = 0

RealtimeInv == Ranges /\ Ended /\ CheckArms /\ OneConnection /\ ConnectionHonest

-----------------------------------------------------------------------------
\* Initially the first socket is on its way, and nothing else.
LEMMA RealtimeInitInv ==
  ASSUME MaxSockets \in Nat \ {0}, RealtimeInit
  PROVE  RealtimeInv
<1>1. 1 \in SocketIds
  BY DEF SocketIds
<1>2. phase \in [SocketIds -> Phases]
  BY DEF RealtimeInit, Phases
<1>3. \A s \in SocketIds : phase[s] = IF s = 1 THEN "connecting" ELSE "none"
  BY DEF RealtimeInit
<1>4. Ranges
  BY <1>1, <1>2 DEF RealtimeInit, Ranges
<1>5. Ended /\ CheckArms
  BY <1>3 DEF RealtimeInit, Ended, CheckArms
<1>6. OneConnection /\ ConnectionHonest
  BY <1>3 DEF RealtimeInit, OneConnection, ConnectionHonest, Live
<1> QED BY <1>4, <1>5, <1>6 DEF RealtimeInv

\* A client without a socket has no live one, and no request waits.
LEMMA NothingLives ==
  ASSUME RealtimeInv, socket = NoSocket
  PROVE  Live = {} /\ pending = {}
<1>1. NoSocket \notin SocketIds
  BY DEF NoSocket, SocketIds
<1>2. Live = {}
  BY <1>1 DEF RealtimeInv, OneConnection, Live
<1>3. pending = {}
  BY <1>1 DEF RealtimeInv, ConnectionHonest, Ranges
<1> QED BY <1>2, <1>3

\* A socket that is opened when there is none is the only one, and no timer stays armed.
LEMMA OpenSocketInv ==
  ASSUME RealtimeInv, socket = NoSocket, mounted, OpenSocket,
         UNCHANGED <<sequence, checks, pending, mounted, calls>>
  PROVE  RealtimeInv'
<1>1. PICK s \in SocketIds \ Opened :
        /\ socket' = s /\ phase' = [phase EXCEPT ![s] = "connecting"] /\ ~ready'
        /\ timers' = IF timers > 0 THEN timers - 1 ELSE 0
  BY DEF OpenSocket
<1>2. phase \in [SocketIds -> Phases] /\ timers \in Nat /\ timers <= 1
  BY DEF RealtimeInv, Ranges, OneConnection
<1>3. timers' = 0
  BY <1>1, <1>2
<1>4. Live = {} /\ pending = {}
  BY NothingLives
<1>5. /\ phase' \in [SocketIds -> Phases]
      /\ \A t \in SocketIds : phase'[t] = IF t = s THEN "connecting" ELSE phase[t]
  BY <1>1, <1>2 DEF Phases
<1>6. Ranges'
  BY <1>1, <1>3, <1>5 DEF RealtimeInv, Ranges
<1>7. Ended' /\ CheckArms'
  BY <1>3, <1>5 DEF RealtimeInv, Ended, CheckArms
<1>8. OneConnection'
  BY <1>1, <1>3, <1>4, <1>5 DEF OneConnection, Live
<1>9. ConnectionHonest'
  BY <1>1, <1>4 DEF ConnectionHonest
<1> QED BY <1>6, <1>7, <1>8, <1>9 DEF RealtimeInv

\* connect() opens a socket only if there is none.
LEMMA ConnectInv ==
  ASSUME RealtimeInv, Connect
  PROVE  RealtimeInv'
<1>1. mounted /\ UNCHANGED <<sequence, checks, pending, mounted, calls>>
  BY DEF Connect, rest
<1>2. CASE UnderWay
  <2>1. UNCHANGED <<socket, phase, ready, timers>>
    BY <1>2 DEF Connect, conn
  <2> QED BY <1>1, <2>1 DEF RealtimeInv, Ranges, Ended, CheckArms, OneConnection,
       ConnectionHonest, Live
<1>3. CASE ~UnderWay
  <2>1. socket = NoSocket /\ OpenSocket
    BY <1>3 DEF Connect, UnderWay
  <2> QED BY <1>1, <2>1, OpenSocketInv
<1> QED BY <1>2, <1>3

\* The timer that fires was the only one.
LEMMA TimerFiresInv ==
  ASSUME RealtimeInv, TimerFires
  PROVE  RealtimeInv'
<1>1. /\ timers > 0 /\ timers \in Nat
      /\ UNCHANGED <<shouldReconnect, sequence, checks, pending, mounted, calls>>
  BY DEF TimerFires, rest, RealtimeInv, Ranges
<1>2. CASE shouldReconnect
  <2>1. socket = NoSocket
    BY <1>1 DEF RealtimeInv, OneConnection
  <2>2. mounted
    BY <1>2 DEF RealtimeInv, Ended
  <2>3. OpenSocket
    BY <1>2 DEF TimerFires
  <2> QED BY <1>1, <2>1, <2>2, <2>3, OpenSocketInv
<1>3. CASE ~shouldReconnect
  <2>1. timers' = timers - 1 /\ UNCHANGED <<socket, phase, ready>>
    BY <1>3 DEF TimerFires, conn
  <2>2. Ranges' /\ Ended'
    BY <1>1, <2>1 DEF RealtimeInv, Ranges, Ended
  <2>3. CheckArms' /\ OneConnection'
    BY <1>1, <2>1 DEF RealtimeInv, CheckArms, OneConnection, Live
  <2>4. ConnectionHonest'
    BY <1>1, <2>1 DEF RealtimeInv, ConnectionHonest
  <2> QED BY <2>2, <2>3, <2>4 DEF RealtimeInv
<1> QED BY <1>2, <1>3

\* disconnect() closes the one socket and disarms the one timer.
LEMMA UnmountInv ==
  ASSUME RealtimeInv, Unmount
  PROVE  RealtimeInv'
<1>1. /\ mounted' = FALSE /\ shouldReconnect' = FALSE /\ ready' = FALSE
      /\ sequence' = sequence + 1 /\ pending' = {} /\ socket' = NoSocket
      /\ UNCHANGED <<calls, checks>>
      /\ timers' = IF timers > 0 THEN timers - 1 ELSE 0
  BY DEF Unmount
<1>2. /\ phase \in [SocketIds -> Phases] /\ socket \in {NoSocket} \cup SocketIds
      /\ timers \in Nat /\ sequence \in Nat /\ \A n \in checks : n \in Nat /\ n <= sequence
      /\ timers <= 1
  BY DEF RealtimeInv, Ranges, OneConnection
<1>3. timers' = 0
  BY <1>1, <1>2
<1>4. phase' \in [SocketIds -> Phases]
      /\ \A s \in SocketIds : phase'[s] = phase[s] \/ (s = socket /\ phase'[s] = "closing")
  <2>1. CASE socket = NoSocket
    <3>1. phase' = phase
      BY <2>1 DEF Unmount
    <3> QED BY <1>2, <3>1
  <2>2. CASE socket # NoSocket
    <3>1. socket \in SocketIds
      BY <1>2, <2>2
    <3>2. phase' = [phase EXCEPT ![socket] = "closing"]
      BY <2>2 DEF Unmount
    <3> QED BY <1>2, <3>1, <3>2 DEF Phases
  <2> QED BY <2>1, <2>2
<1>5. Live' = {}
  <2>1. \A s \in Live : s = socket
    BY DEF RealtimeInv, OneConnection
  <2>2. socket \in SocketIds => phase'[socket] = "closing"
    BY <1>2 DEF Unmount, NoSocket, SocketIds
  <2> QED BY <1>4, <2>1, <2>2 DEF Live
<1>6. Ranges'
  BY <1>1, <1>2, <1>3, <1>4 DEF RealtimeInv, Ranges
<1>7. Ended' /\ CheckArms'
  BY <1>1, <1>3 DEF Ended, CheckArms
<1>8. OneConnection' /\ ConnectionHonest'
  BY <1>1, <1>3, <1>5 DEF OneConnection, ConnectionHonest
<1> QED BY <1>6, <1>7, <1>8 DEF RealtimeInv

\* A socket that opens, and the server's first message on it, are the current one's.
LEMMA SocketOpensInv ==
  ASSUME RealtimeInv, NEW s \in SocketIds, SocketOpens(s) \/ SystemReady(s)
  PROVE  RealtimeInv'
<1>1. UNCHANGED <<socket, shouldReconnect, timers, sequence, checks, pending, mounted, calls>>
  BY DEF SocketOpens, SystemReady, retry, rest
<1>2. s \in Live /\ s = socket
  BY DEF SocketOpens, SystemReady, Live, RealtimeInv, OneConnection
<1>3. /\ phase' \in [SocketIds -> Phases] /\ phase'[s] = "open"
      /\ \A t \in SocketIds \ {s} : phase'[t] = phase[t]
  BY DEF SocketOpens, SystemReady, RealtimeInv, Ranges, Phases
<1>4. Live' = Live
  BY <1>2, <1>3 DEF Live
<1>5. Ranges' /\ CheckArms' /\ OneConnection'
  BY <1>1, <1>3, <1>4 DEF RealtimeInv, Ranges, CheckArms, OneConnection
<1>6. Ended'
  BY <1>1, <1>3 DEF RealtimeInv, Ended
<1>7. ConnectionHonest'
  <2>1. socket # NoSocket
    BY <1>2 DEF NoSocket, SocketIds
  <2> QED BY <1>1, <1>2, <1>3, <2>1 DEF RealtimeInv, ConnectionHonest
<1> QED BY <1>5, <1>6, <1>7 DEF RealtimeInv

\* A socket that closes is the current one, or nobody's any more.
LEMMA SocketClosesInv ==
  ASSUME RealtimeInv, NEW s \in SocketIds, SocketCloses(s)
  PROVE  RealtimeInv'
<1>1. UNCHANGED <<shouldReconnect, timers, mounted, calls>>
      /\ phase' = [phase EXCEPT ![s] = "closed"]
  BY DEF SocketCloses, rest
<1>2. /\ phase' \in [SocketIds -> Phases] /\ phase'[s] = "closed"
      /\ \A t \in SocketIds \ {s} : phase'[t] = phase[t]
  BY <1>1 DEF RealtimeInv, Ranges, Phases
<1>3. Live' \subseteq Live \ {s}
  BY <1>2 DEF Live
<1>4. shouldReconnect => s = socket
  <2>1. phase[s] = "closing" \/ s \in Live
    BY DEF SocketCloses, MayFail
  <2> QED BY <2>1 DEF RealtimeInv, Ended, OneConnection
<1>5. Ended'
  BY <1>1, <1>2 DEF RealtimeInv, Ended
<1>6. CASE Heeds(s)
  <2>1. /\ socket' = IF socket = s THEN NoSocket ELSE socket
        /\ pending' = {} /\ ready' = FALSE
        /\ \/ /\ shouldReconnect /\ sequence' = sequence + 1
              /\ checks' = checks \cup {sequence + 1}
           \/ UNCHANGED <<sequence, checks>>
    BY <1>6 DEF SocketCloses, Lost
  <2>2. shouldReconnect => timers = 0
    <3>1. s # NoSocket
      BY DEF NoSocket, SocketIds
    <3> QED BY <1>4, <3>1 DEF RealtimeInv, OneConnection
  <2>3. Ranges'
    BY <1>1, <1>2, <2>1 DEF RealtimeInv, Ranges
  <2>4. CheckArms'
    BY <1>1, <2>1, <2>2 DEF RealtimeInv, CheckArms
  <2>5. OneConnection'
    BY <1>1, <1>3, <2>1 DEF RealtimeInv, OneConnection
  <2>6. ConnectionHonest'
    BY <2>1 DEF ConnectionHonest
  <2> QED BY <1>5, <2>3, <2>4, <2>5, <2>6 DEF RealtimeInv
<1>7. CASE ~Heeds(s)
  <2>1. s # socket /\ UNCHANGED <<socket, ready, sequence, checks, pending>>
    BY <1>7 DEF SocketCloses, Heeds
  <2>2. Ranges' /\ CheckArms'
    BY <1>1, <1>2, <2>1 DEF RealtimeInv, Ranges, CheckArms
  <2>3. OneConnection'
    BY <1>1, <1>3, <2>1 DEF RealtimeInv, OneConnection
  <2>4. ConnectionHonest'
    <3>1. socket # NoSocket => phase'[socket] = phase[socket]
      BY <1>2, <2>1 DEF RealtimeInv, Ranges
    <3>2. \A p \in pending : socket # NoSocket
      BY DEF RealtimeInv, ConnectionHonest, Ranges, NoSocket, SocketIds
    <3> QED BY <2>1, <3>1, <3>2 DEF RealtimeInv, ConnectionHonest
  <2> QED BY <1>5, <2>2, <2>3, <2>4 DEF RealtimeInv
<1> QED BY <1>6, <1>7

\* Only the latest session check arms a timer, and only without a socket.
LEMMA CheckDoneInv ==
  ASSUME RealtimeInv, NEW n \in checks, CheckDone(n)
  PROVE  RealtimeInv'
<1>1. /\ checks' = checks \ {n}
      /\ UNCHANGED <<mounted, calls, socket, phase, ready, sequence, pending>>
  BY DEF CheckDone
<1>2. \/ UNCHANGED <<shouldReconnect, timers>>
      \/ /\ n = sequence /\ socket = NoSocket
         /\ timers' = timers + 1 /\ UNCHANGED shouldReconnect
      \/ /\ n = sequence /\ shouldReconnect' = FALSE
         /\ timers' = timers \/ (timers > 0 /\ timers' = timers - 1)
  <2>1. \/ UNCHANGED <<shouldReconnect, timers>>
        \/ ~Superseded(n) /\ (ScheduleReconnect \/ Refused)
    BY DEF CheckDone
  <2>2. ~Superseded(n) => n = sequence /\ socket = NoSocket
    BY DEF Superseded
  <2>3. ScheduleReconnect => timers' = timers + 1 /\ UNCHANGED shouldReconnect
    BY DEF ScheduleReconnect
  <2>4. Refused => /\ shouldReconnect' = FALSE
                   /\ timers' = timers \/ (timers > 0 /\ timers' = timers - 1)
    BY DEF Refused
  <2> QED BY <2>1, <2>2, <2>3, <2>4
<1>3. n = sequence => timers = 0
  BY DEF RealtimeInv, CheckArms
<1>4. timers \in Nat /\ timers' \in Nat /\ timers' <= 1
      /\ (socket # NoSocket => timers' = 0)
  BY <1>2, <1>3 DEF RealtimeInv, Ranges, OneConnection
<1>5. CheckArms'
  BY <1>1, <1>2, <1>3 DEF RealtimeInv, CheckArms
<1>6. Ranges' /\ OneConnection'
  BY <1>1, <1>4 DEF RealtimeInv, Ranges, OneConnection, Live
<1>7. Ended'
  BY <1>1, <1>2 DEF RealtimeInv, Ended
<1>8. ConnectionHonest'
  BY <1>1 DEF RealtimeInv, ConnectionHonest
<1> QED BY <1>5, <1>6, <1>7, <1>8 DEF RealtimeInv

\* A request leaves on the current socket.
LEMMA RequestInv ==
  ASSUME RealtimeInv, SendRequest \/ HandleResponse \/ SessionEnds
  PROVE  RealtimeInv'
<1>1. UNCHANGED <<socket, phase, ready, shouldReconnect, timers, sequence, checks, mounted>>
  BY DEF SendRequest, HandleResponse, SessionEnds, conn, retry, rest
<1>2. \/ pending' \subseteq pending /\ calls' = calls
      \/ /\ socket # NoSocket /\ phase[socket] = "open" /\ calls' = calls + 1
         /\ pending' = pending \cup {[id |-> calls + 1, on |-> socket]}
  BY DEF SendRequest, HandleResponse, SessionEnds, rest
<1>3. Ranges' /\ ConnectionHonest'
  BY <1>1, <1>2 DEF RealtimeInv, Ranges, ConnectionHonest
<1>4. Ended' /\ CheckArms' /\ OneConnection'
  BY <1>1 DEF RealtimeInv, Ended, CheckArms, OneConnection, Live
<1> QED BY <1>3, <1>4 DEF RealtimeInv

-----------------------------------------------------------------------------
\* The invariant of the three activities.
LEMMA RealtimeInvariant ==
  ASSUME MaxSockets \in Nat \ {0}
  PROVE  RealtimeSpec => []RealtimeInv
<1>1. RealtimeInit => RealtimeInv
  BY RealtimeInitInv
<1>2. ASSUME RealtimeInv, [RealtimeNext]_rtVars
      PROVE  RealtimeInv'
  <2>1. CASE RealtimeNext
    BY <1>2, <2>1, ConnectInv, UnmountInv, TimerFiresInv, RequestInv, SocketOpensInv,
       SocketClosesInv, CheckDoneInv DEF RealtimeNext
  <2>2. CASE UNCHANGED rtVars
    BY <1>2, <2>2 DEF rtVars, conn, retry, rest, RealtimeInv, Ranges, Ended, CheckArms,
       OneConnection, ConnectionHonest, Live
  <2> QED BY <1>2, <2>1, <2>2
<1> QED BY <1>1, <1>2, PTL DEF RealtimeSpec

\* RealtimeClient, web and mobile: however closing, session checks, timers and
\* visibility changes interleave, there is at most one connection, in use or in the
\* making.
THEOREM OneConnectionOnly ==
  ASSUME MaxSockets \in Nat \ {0}
  PROVE  RealtimeSpec => []OneConnection
<1>1. RealtimeInv => OneConnection
  BY DEF RealtimeInv
<1> QED BY <1>1, RealtimeInvariant, PTL

\* "ready" is said of an open current socket only, and the requests that wait left
\* on it: the callbacks of older sockets change neither.
THEOREM ReadyIsTrue ==
  ASSUME MaxSockets \in Nat \ {0}
  PROVE  RealtimeSpec => []ConnectionHonest
<1>1. RealtimeInv => ConnectionHonest
  BY DEF RealtimeInv
<1> QED BY <1>1, RealtimeInvariant, PTL

-----------------------------------------------------------------------------
\* What is under way with a socket or a timer keeps the flags and the status in range.
LEMMA FlagsStay ==
  ASSUME RealtimeTypeOK, RealtimeNext
  PROVE  /\ client' \in {"web", "mobile"} /\ mounted' \in BOOLEAN /\ session' \in BOOLEAN
         /\ shouldReconnect' \in BOOLEAN /\ ready' \in BOOLEAN /\ unauthorized' \in BOOLEAN
         /\ status' \in {"connecting", "connected", "reconnecting", "disconnected"}
<1>1. CASE Connect \/ TimerFires
  BY <1>1 DEF Connect, TimerFires, OpenSocket, UnderWay, conn, rest, RealtimeTypeOK
<1>2. CASE Unmount \/ SessionEnds \/ SendRequest \/ HandleResponse
  BY <1>2 DEF Unmount, SessionEnds, SendRequest, HandleResponse, conn, retry, rest,
              RealtimeTypeOK
<1>3. CASE \E s \in SocketIds : SocketOpens(s) \/ SystemReady(s)
  BY <1>3 DEF SocketOpens, SystemReady, Heeds, retry, rest, RealtimeTypeOK
<1>4. CASE \E s \in SocketIds : SocketCloses(s)
  BY <1>4 DEF SocketCloses, Lost, rest, RealtimeTypeOK
<1>5. CASE \E n \in checks : CheckDone(n)
  BY <1>5 DEF CheckDone, ScheduleReconnect, Refused, RealtimeTypeOK
<1> QED BY <1>1, <1>2, <1>3, <1>4, <1>5 DEF RealtimeNext

\* Requests are numbered as they leave, and leave on a socket.
LEMMA RequestsStay ==
  ASSUME MaxCalls \in Nat, RealtimeTypeOK, RealtimeNext
  PROVE  pending' \subseteq Request /\ calls' \in 0..MaxCalls
<1>1. CASE SendRequest
  <2>1. /\ calls < MaxCalls /\ calls' = calls + 1 /\ socket # NoSocket
        /\ pending' = pending \cup {[id |-> calls + 1, on |-> socket]}
    BY <1>1 DEF SendRequest
  <2>2. calls + 1 \in 1..MaxCalls /\ calls' \in 0..MaxCalls /\ socket \in SocketIds
    BY <2>1 DEF RealtimeTypeOK
  <2>3. [id |-> calls + 1, on |-> socket] \in Request
    BY <2>2 DEF Request
  <2> QED BY <2>1, <2>2, <2>3 DEF RealtimeTypeOK
<1>2. CASE ~SendRequest
  <2>1. pending' \subseteq pending /\ calls' = calls
    BY <1>2 DEF RealtimeNext, Connect, Unmount, TimerFires, SessionEnds, HandleResponse,
                SocketOpens, SystemReady, SocketCloses, Lost, CheckDone, rest
  <2> QED BY <2>1 DEF RealtimeTypeOK
<1> QED BY <1>1, <1>2

\* RealtimeClient: every field keeps its type, and a request that waits for its
\* response has a number that was given out and a socket that was opened.
THEOREM RealtimeTypeCorrect ==
  ASSUME MaxSockets \in Nat \ {0}, MaxCalls \in Nat
  PROVE  RealtimeSpec => []RealtimeTypeOK
<1>1. RealtimeInit => RealtimeTypeOK
  <2> SUFFICES ASSUME RealtimeInit PROVE RealtimeTypeOK
    OBVIOUS
  <2>1. /\ phase \in [SocketIds -> Phases] /\ socket \in {NoSocket} \cup SocketIds
        /\ timers \in Nat /\ sequence \in Nat
    BY RealtimeInitInv DEF RealtimeInv, Ranges
  <2>2. checks = {} /\ pending = {} /\ calls \in 0..MaxCalls
    BY DEF RealtimeInit
  <2>3. /\ client \in {"web", "mobile"} /\ mounted \in BOOLEAN /\ session \in BOOLEAN
        /\ shouldReconnect \in BOOLEAN /\ ready \in BOOLEAN /\ unauthorized \in BOOLEAN
        /\ status \in {"connecting", "connected", "reconnecting", "disconnected"}
    BY DEF RealtimeInit
  <2> QED BY <2>1, <2>2, <2>3 DEF Phases, RealtimeTypeOK
<1>2. ASSUME RealtimeTypeOK, RealtimeInv', [RealtimeNext]_rtVars
      PROVE  RealtimeTypeOK'
  <2>1. CASE RealtimeNext
    <3>1. /\ phase' \in [SocketIds -> Phases] /\ socket' \in {NoSocket} \cup SocketIds
          /\ timers' \in Nat /\ sequence' \in Nat /\ checks' \subseteq Nat
      BY <1>2 DEF RealtimeInv, Ranges
    <3> QED BY <1>2, <2>1, <3>1, FlagsStay, RequestsStay DEF RealtimeTypeOK, Phases
  <2>2. CASE UNCHANGED rtVars
    BY <1>2, <2>2 DEF rtVars, conn, retry, rest, RealtimeTypeOK
  <2> QED BY <1>2, <2>1, <2>2
<1>3. RealtimeSpec => []RealtimeInv
  BY RealtimeInvariant
<1> QED BY <1>1, <1>2, <1>3, PTL DEF RealtimeSpec

-----------------------------------------------------------------------------
(***************************************************************************)
(* Theorems about WebVoiceRecording, for every number of starts.           *)
(***************************************************************************)

(* The part of VoiceTypeOK the argument needs.                             *)
VoiceRanges ==
    /\ version \in 0..(MaxStarts + 2)
    /\ starts \subseteq [version : 1..MaxStarts, at : {"asking", "resuming"}]
    /\ live \subseteq 1..MaxStarts
    /\ stream \in 0..MaxStarts /\ recorder \in 0..MaxStarts
    /\ leaked \subseteq 1..MaxStarts /\ robbed \subseteq 1..MaxStarts

(* The microphones that run and are accounted for.                         *)
Known == live \ leaked

(* The current start: while it waits, the page shows that it asks, and no  *)
(* microphone is open, or the one just granted to it, unless an older      *)
(* start has taken that away.                                              *)
CurrentStart(s) ==
    /\ present /\ activity = "requesting" /\ tape = "inactive"
    /\ s.at = "asking" => Known = {} /\ recorder = 0
    /\ s.at = "resuming" =>
          \/ recorder = version /\ Known = {version}
          \/ recorder = 0 /\ Known = {} /\ version \in robbed

(* Versions are not handed out twice: no start that waits is of a version  *)
(* to come, no two are of one version, and only the start of the current   *)
(* version is the current one.                                             *)
StartsInv ==
    /\ \A s \in starts : s.version <= version
    /\ \A s, t \in starts : s.version = t.version => s = t
    /\ \A s \in starts : s.version = version => CurrentStart(s)

(* A recorder that runs, or has yet to say that it stopped, has its page.  *)
TapeInv == tape # "inactive" => present /\ activity \in {"recording", "processing"}

(* The recorder is of the current version.                                 *)
RecorderInv == recorder # 0 => recorder = version

(* A microphone that leaked is of a start that waits no more.              *)
LeakedInv == \A v \in leaked : v <= version /\ \A s \in starts : s.version # v

(* A page that is there has a version left to give up.                     *)
VersionsLeft == present => version <= MaxStarts + 1

VoiceInv ==
    /\ VoiceRanges /\ MicrophoneAccounted
    /\ StartsInv /\ TapeInv /\ RecorderInv /\ LeakedInv /\ VersionsLeft

-----------------------------------------------------------------------------
\* Initially nothing waits, nothing runs.
LEMMA VoiceInitInv ==
  ASSUME MaxStarts \in Nat, VoiceInit
  PROVE  VoiceInv
BY DEF VoiceInit, VoiceInv, VoiceRanges, MicrophoneAccounted, StartsInv, CurrentStart,
   TapeInv, RecorderInv, LeakedInv, VersionsLeft, Busy

\* What is accounted for is what streamRef names, so that nothing of it is left once
\* that is released.
LEMMA MicrophoneReleased ==
  ASSUME VoiceInv, Release, leaked' = leaked
  PROVE  Known' = {}
BY DEF VoiceInv, MicrophoneAccounted, Known, Release

\* What Abandon leaves: no recorder, no microphone that is accounted for, and a version
\* that no start has.
LEMMA Abandoned ==
  ASSUME MaxStarts \in Nat, VoiceInv, Abandon, version <= MaxStarts + 1,
         UNCHANGED <<leaked, robbed>>
  PROVE  /\ version' = version + 1 /\ version' \in 1..(MaxStarts + 2)
         /\ Known' = {} /\ live' \subseteq live
         /\ stream' = 0 /\ recorder' = 0 /\ tape' = "inactive"
         /\ timer' = FALSE
         /\ \A s \in starts : s.version # version' /\ s.version <= version'
         /\ \A v \in leaked : v # version' /\ v <= version'
<1>1. /\ version \in Nat /\ \A s \in starts : s.version \in Nat
      /\ \A v \in leaked : v \in Nat
  BY DEF VoiceInv, VoiceRanges
<1>2. Known' = {}
  BY MicrophoneReleased DEF Abandon
<1> QED BY <1>1, <1>2 DEF Abandon, Release, Discard, VoiceInv, StartsInv, LeakedInv

\* Starting gives up what there was and hands out the next version.
LEMMA StartRecordingInv ==
  ASSUME MaxStarts \in Nat, VoiceInv, StartRecording
  PROVE  VoiceInv'
<1> DEFINE new == [version |-> version + 1, at |-> "asking"]
<1>1. /\ version \in Nat /\ version < MaxStarts /\ present /\ present'
      /\ UNCHANGED <<leaked, robbed>>
  BY DEF StartRecording, VoiceInv, VoiceRanges
<1>2. /\ version' = version + 1 /\ Known' = {} /\ live' \subseteq live
      /\ stream' = 0 /\ recorder' = 0 /\ tape' = "inactive" /\ timer' = FALSE
      /\ \A s \in starts : s.version # version' /\ s.version <= version'
      /\ \A v \in leaked : v # version' /\ v <= version'
  <2>1. Abandon /\ version <= MaxStarts + 1
    BY <1>1 DEF StartRecording
  <2> QED BY <2>1, <1>1, Abandoned
<1>3. starts' \subseteq starts \cup {new}
  BY DEF StartRecording
<1>4. new \in [version : 1..MaxStarts, at : {"asking", "resuming"}]
  BY <1>1
<1>5. VoiceRanges'
  BY <1>1, <1>2, <1>3, <1>4 DEF StartRecording, VoiceInv, VoiceRanges, Busy
<1>6. MicrophoneAccounted' /\ TapeInv' /\ RecorderInv' /\ VersionsLeft'
  BY <1>1, <1>2 DEF StartRecording, MicrophoneAccounted, Known, TapeInv, RecorderInv,
     VersionsLeft
<1>7. activity' = "requesting" \/ starts' = starts
  BY DEF StartRecording
<1>8. StartsInv'
  BY <1>1, <1>2, <1>3, <1>7 DEF StartsInv, CurrentStart, VoiceInv
<1>9. LeakedInv'
  BY <1>1, <1>2, <1>3 DEF LeakedInv, VoiceInv
<1> QED BY <1>5, <1>6, <1>8, <1>9 DEF VoiceInv

\* A microphone that is granted to an older start is not taken.
LEMMA MicrophoneGrantedInv ==
  ASSUME MaxStarts \in Nat, VoiceInv, NEW s \in starts, MicrophoneGranted(s)
  PROVE  VoiceInv'
<1> USE DEF VoiceInv
<1>1. /\ s \in [version : 1..MaxStarts, at : {"asking", "resuming"}]
      /\ version \in Nat /\ UNCHANGED <<present, version, leaked, robbed>>
  BY DEF VoiceRanges, MicrophoneGranted
<1>2. CASE s.version # version
  BY <1>1, <1>2 DEF MicrophoneGranted, VoiceRanges, MicrophoneAccounted, StartsInv,
     CurrentStart, Known, TapeInv, RecorderInv, LeakedInv, VersionsLeft
<1>3. CASE s.version = version
  <2> DEFINE later == [s EXCEPT !.at = "resuming"]
  <2>1. CurrentStart(s) /\ Known = {} /\ version \notin leaked
    BY <1>3 DEF StartsInv, CurrentStart, MicrophoneGranted, LeakedInv
  <2>2. /\ Known' = {version} /\ live' = live \cup {version}
        /\ stream' = version /\ recorder' = version
    BY <1>1, <1>3, <2>1 DEF MicrophoneGranted, Known
  <2>3. \/ starts' = starts \ {s} /\ Begins(s)
        \/ /\ starts' = (starts \ {s}) \cup {later}
           /\ tape' = "inactive" /\ UNCHANGED <<activity, timer>>
    BY <1>3 DEF MicrophoneGranted
  <2>4. /\ later \in [version : 1..MaxStarts, at : {"asking", "resuming"}]
        /\ later.version = version /\ later.at = "resuming"
    BY <1>1, <1>3
  <2>5. \A t \in starts \ {s} : t.version # version /\ t.version <= version
    BY <1>3 DEF StartsInv
  <2>6. VoiceRanges'
    BY <1>1, <1>3, <2>2, <2>3, <2>4 DEF VoiceRanges
  <2>7. /\ activity' \in Busy /\ (tape' # "inactive" => activity' = "recording")
    BY <2>1, <2>3 DEF Begins, CurrentStart, Busy
  <2>8. MicrophoneAccounted' /\ TapeInv' /\ RecorderInv' /\ VersionsLeft'
    BY <1>1, <2>1, <2>2, <2>7
    DEF MicrophoneAccounted, Known, TapeInv, RecorderInv, VersionsLeft, CurrentStart
  <2>9. StartsInv'
    <3>1. CASE starts' = starts \ {s}
      BY <3>1, <1>1, <2>5 DEF StartsInv
    <3>2. CASE /\ starts' = (starts \ {s}) \cup {later}
               /\ tape' = "inactive" /\ UNCHANGED <<activity, timer>>
      BY <3>2, <1>1, <2>1, <2>2, <2>4, <2>5 DEF StartsInv, CurrentStart
    <3> QED BY <2>3, <3>1, <3>2
  <2>10. LeakedInv'
    BY <1>1, <2>1, <2>3, <2>4 DEF LeakedInv
  <2> QED BY <2>6, <2>8, <2>9, <2>10
<1> QED BY <1>2, <1>3

\* A start that fails with the microphone in no ref leaks it, and nothing else.
LEMMA SetupFailsInv ==
  ASSUME MaxStarts \in Nat, VoiceInv, NEW s \in starts, SetupFails(s)
  PROVE  VoiceInv'
<1> USE DEF VoiceInv
<1>1. /\ s \in [version : 1..MaxStarts, at : {"asking", "resuming"}]
      /\ version \in Nat /\ s.version = version /\ starts' = starts \ {s}
      /\ UNCHANGED <<present, version, robbed>>
      /\ stream' = 0 /\ recorder' = 0 /\ tape' = "inactive" /\ activity' = "idle"
      /\ live' = (live \ {stream}) \cup {version} /\ leaked' = leaked \cup {version}
  BY DEF VoiceRanges, SetupFails, Discard
<1>2. Known' = {}
  BY <1>1 DEF MicrophoneAccounted, Known
<1>3. \A t \in starts' : t.version # version /\ t.version <= version
  BY <1>1 DEF StartsInv
<1>4. VoiceRanges'
  BY <1>1 DEF VoiceRanges
<1>5. MicrophoneAccounted' /\ TapeInv' /\ RecorderInv' /\ VersionsLeft'
  BY <1>1, <1>2 DEF MicrophoneAccounted, Known, TapeInv, RecorderInv, VersionsLeft
<1>6. StartsInv' /\ LeakedInv'
  BY <1>1, <1>3 DEF StartsInv, LeakedInv
<1> QED BY <1>4, <1>5, <1>6

\* The audio context of the current start runs; an older start takes the recorder of the
\* current version away, if there is one.
LEMMA ContextResumedInv ==
  ASSUME MaxStarts \in Nat, VoiceInv, NEW s \in starts, ContextResumed(s)
  PROVE  VoiceInv'
<1> USE DEF VoiceInv
<1>1. /\ s \in [version : 1..MaxStarts, at : {"asking", "resuming"}] /\ s.at = "resuming"
      /\ version \in Nat /\ starts' = starts \ {s}
      /\ UNCHANGED <<present, version, leaked>>
  BY DEF VoiceRanges, ContextResumed
<1>2. CASE s.version # version
  <2>1. /\ recorder' = 0 /\ tape' = "inactive" /\ live' = live \ {stream} /\ stream' = 0
        /\ robbed' = robbed \cup ({recorder} \ {0}) /\ activity' = activity
    BY <1>2 DEF ContextResumed, Discard, Release
  <2>2. Known' = {}
    BY <1>1, <2>1 DEF MicrophoneAccounted, Known
  <2>3. VoiceRanges'
    BY <1>1, <2>1 DEF VoiceRanges
  <2>4. recorder # 0 => version \in robbed'
    BY <2>1 DEF RecorderInv
  <2>5. 0 \notin live
    BY DEF VoiceRanges
  <2>6. MicrophoneAccounted' /\ TapeInv' /\ RecorderInv' /\ VersionsLeft' /\ LeakedInv'
    BY <1>1, <2>1, <2>2, <2>4, <2>5
    DEF MicrophoneAccounted, Known, TapeInv, RecorderInv, VersionsLeft, LeakedInv
  <2>7. StartsInv'
    <3>1. ASSUME NEW t \in starts', t.version = version PROVE CurrentStart(t)'
      <4>1. CurrentStart(t) /\ 0 # version
        BY <1>1, <3>1 DEF StartsInv, VoiceRanges
      <4> QED BY <4>1, <1>1, <2>1, <2>2, <2>4 DEF CurrentStart
    <3> QED BY <1>1, <3>1 DEF StartsInv
  <2> QED BY <2>3, <2>6, <2>7
<1>3. CASE s.version = version
  <2>1. /\ activity' = "recording" /\ tape' = (IF recorder = version THEN "recording" ELSE tape)
        /\ UNCHANGED <<live, stream, recorder, robbed>>
    BY <1>3 DEF ContextResumed, Begins
  <2>2. CurrentStart(s)
    BY <1>3 DEF StartsInv
  <2>3. \A t \in starts' : t.version # version /\ t.version <= version
    BY <1>1, <1>3 DEF StartsInv
  <2>4. VoiceRanges' /\ RecorderInv' /\ LeakedInv' /\ VersionsLeft'
    BY <1>1, <2>1 DEF VoiceRanges, RecorderInv, LeakedInv, VersionsLeft
  <2>5. MicrophoneAccounted' /\ TapeInv'
    BY <1>1, <2>1, <2>2 DEF MicrophoneAccounted, TapeInv, CurrentStart, Known, Busy
  <2>6. StartsInv'
    BY <1>1, <2>3 DEF StartsInv
  <2> QED BY <2>4, <2>5, <2>6
<1> QED BY <1>2, <1>3

\* A start that fails gives up the current recorder only if it is the current one.
LEMMA StartFailsInv ==
  ASSUME MaxStarts \in Nat, VoiceInv, NEW s \in starts, StartFails(s)
  PROVE  VoiceInv'
<1> USE DEF VoiceInv
<1>1. /\ starts' = starts \ {s} /\ UNCHANGED <<present, version, leaked, robbed>>
      /\ VersionsLeft' /\ LeakedInv'
  BY DEF StartFails, VersionsLeft, LeakedInv
<1>2. CASE s.version # version
  <2>1. UNCHANGED <<activity, live, stream, recorder, tape>>
    BY <1>2 DEF StartFails
  <2>2. VoiceRanges' /\ MicrophoneAccounted' /\ TapeInv' /\ RecorderInv'
    BY <1>1, <2>1 DEF VoiceRanges, MicrophoneAccounted, TapeInv, RecorderInv
  <2>3. StartsInv'
    BY <1>1, <2>1 DEF StartsInv, CurrentStart, Known
  <2> QED BY <1>1, <2>2, <2>3
<1>3. CASE s.version = version
  <2>1. /\ live' = live \ {stream} /\ stream' = 0 /\ recorder' = 0 /\ tape' = "inactive"
        /\ activity' = "idle" /\ Release
    BY <1>3 DEF StartFails, Discard, Release
  <2>2. \A t \in starts' : t.version # version
    BY <1>1, <1>3 DEF StartsInv
  <2>3. VoiceRanges'
    BY <1>1, <2>1 DEF VoiceRanges
  <2>4. Known' = {}
    BY <1>1, <2>1, MicrophoneReleased
  <2>5. MicrophoneAccounted' /\ TapeInv' /\ RecorderInv'
    BY <2>1, <2>4 DEF MicrophoneAccounted, Known, TapeInv, RecorderInv
  <2>6. StartsInv'
    BY <1>1, <2>2 DEF StartsInv
  <2> QED BY <1>1, <2>3, <2>5, <2>6
<1> QED BY <1>2, <1>3

\* Finishing, by the button, the timeout or the microphone, lets the recorder stop.
LEMMA StoppingInv ==
  ASSUME MaxStarts \in Nat, VoiceInv, Finish \/ TracksEnd \/ RecorderStops
  PROVE  VoiceInv'
<1> USE DEF VoiceInv
<1>1. CASE Finish
  BY <1>1 DEF Finish, FinishRecording, VoiceRanges, MicrophoneAccounted, StartsInv,
     CurrentStart, TapeInv, RecorderInv, LeakedInv, Known, VersionsLeft, Busy
<1>2. CASE TracksEnd
  BY <1>2 DEF TracksEnd, VoiceRanges, MicrophoneAccounted, StartsInv,
     CurrentStart, TapeInv, RecorderInv, LeakedInv, Known, VersionsLeft, Busy
<1>3. CASE RecorderStops
  <2>1. /\ live' = live \ {stream} /\ stream' = 0 /\ recorder' = 0 /\ tape' = "inactive"
        /\ activity' \in {"recorded", "idle"}
        /\ UNCHANGED <<present, version, starts, leaked, robbed>>
    BY <1>3 DEF RecorderStops, Discard, Release
  <2>2. \A s \in starts : s.version # version
    BY <1>3 DEF RecorderStops, TapeInv, StartsInv, CurrentStart
  <2>3. Known' = {}
    BY <1>3, <2>1, MicrophoneReleased DEF RecorderStops
  <2>4. MicrophoneAccounted'
    BY <2>1, <2>3 DEF MicrophoneAccounted, Known
  <2>5. VoiceRanges' /\ TapeInv' /\ RecorderInv' /\ LeakedInv' /\ VersionsLeft'
    BY <2>1 DEF VoiceRanges, TapeInv, RecorderInv, LeakedInv, VersionsLeft
  <2>6. StartsInv'
    BY <2>1, <2>2 DEF StartsInv
  <2> QED BY <2>4, <2>5, <2>6
<1> QED BY <1>1, <1>2, <1>3

\* An error of the recorder, a reset and the end of the page give everything up.
LEMMA AbandonInv ==
  ASSUME MaxStarts \in Nat, VoiceInv, RecorderFails \/ ResetRecording \/ Vanish
  PROVE  VoiceInv'
<1>1. /\ version \in Nat /\ version <= MaxStarts + 1 /\ Abandon
      /\ UNCHANGED <<leaked, robbed>>
  BY DEF VoiceInv, VoiceRanges, VersionsLeft, RecorderFails, ResetRecording, Vanish
<1>2. /\ version' = version + 1 /\ version' \in 1..(MaxStarts + 2)
      /\ Known' = {} /\ live' \subseteq live
      /\ stream' = 0 /\ recorder' = 0 /\ tape' = "inactive"
      /\ timer' = FALSE
      /\ \A s \in starts : s.version # version' /\ s.version <= version'
      /\ \A v \in leaked : v # version' /\ v <= version'
  BY <1>1, Abandoned
<1>3. starts' = starts
  BY DEF RecorderFails, ResetRecording, Vanish
<1>4. VoiceRanges'
  <2>1. VoiceRanges
    BY DEF VoiceInv
  <2>2. 0 \in 0..MaxStarts /\ version' \in 0..(MaxStarts + 2)
    BY <1>2
  <2> QED BY <1>1, <1>2, <1>3, <2>1, <2>2 DEF VoiceRanges
<1>5. VersionsLeft'
  <2>1. recorder <= MaxStarts
    BY DEF VoiceInv, VoiceRanges
  <2>2. ~present' \/ recorder = version \/ version < MaxStarts
    BY DEF RecorderFails, ResetRecording, Vanish
  <2>3. ~present' \/ version <= MaxStarts
    BY <1>1, <2>1, <2>2
  <2> QED BY <1>1, <1>2, <2>3 DEF VersionsLeft
<1>6. MicrophoneAccounted' /\ TapeInv' /\ RecorderInv'
  <2>1. present' => activity' = "idle"
    BY DEF RecorderFails, ResetRecording, Vanish
  <2> QED BY <1>2, <2>1 DEF MicrophoneAccounted, Known, TapeInv, RecorderInv
<1>7. StartsInv' /\ LeakedInv'
  BY <1>1, <1>2, <1>3 DEF VoiceInv, StartsInv, LeakedInv
<1> QED BY <1>4, <1>5, <1>6, <1>7 DEF VoiceInv

-----------------------------------------------------------------------------
\* The invariant of a recording.
LEMMA VoiceInvariant ==
  ASSUME MaxStarts \in Nat
  PROVE  VoiceSpec => []VoiceInv
<1>1. VoiceInit => VoiceInv
  BY VoiceInitInv
<1>2. ASSUME VoiceInv, [VoiceNext]_wvVars
      PROVE  VoiceInv'
  <2>1. CASE VoiceNext
    BY <1>2, <2>1, StartRecordingInv, MicrophoneGrantedInv, SetupFailsInv,
       ContextResumedInv, StartFailsInv, StoppingInv, AbandonInv DEF VoiceNext
  <2>2. CASE UNCHANGED wvVars
    BY <1>2, <2>2 DEF wvVars, VoiceInv, VoiceRanges, MicrophoneAccounted, StartsInv,
       CurrentStart, Known, TapeInv, RecorderInv, LeakedInv, VersionsLeft
  <2> QED BY <1>2, <2>1, <2>2
<1> QED BY <1>1, <1>2, PTL DEF VoiceSpec

\* useVoiceRecording: however starts, failures, closings and unmounting overlap, no
\* microphone stays open that the page does not show, or that its release would not stop,
\* but one that was granted to a start which failed before streamRef named it; and what
\* shows a recording has its recorder, unless an older start resumed and discarded it.
THEOREM MicrophoneSafe ==
  ASSUME MaxStarts \in Nat
  PROVE  VoiceSpec => []MicrophoneAccounted
<1>1. VoiceInv => MicrophoneAccounted
  BY DEF VoiceInv
<1> QED BY <1>1, VoiceInvariant, PTL

\* useVoiceRecording: every field keeps its type; in particular no version is given out
\* after the last one, however often recorders fail and pages go away.
THEOREM VoiceTypeCorrect ==
  ASSUME MaxStarts \in Nat
  PROVE  VoiceSpec => []VoiceTypeOK
<1>1. VoiceInit => VoiceTypeOK
  <2> SUFFICES ASSUME VoiceInit PROVE VoiceTypeOK
    OBVIOUS
  <2>1. VoiceRanges
    BY VoiceInitInv DEF VoiceInv
  <2>2. /\ present \in BOOLEAN /\ timer \in BOOLEAN /\ activity = "idle"
        /\ tape = "inactive"
    BY DEF VoiceInit
  <2> QED BY <2>1, <2>2 DEF VoiceRanges, VoiceTypeOK
<1>2. ASSUME VoiceTypeOK, VoiceInv', [VoiceNext]_wvVars
      PROVE  VoiceTypeOK'
  <2>1. VoiceRanges'
    BY <1>2 DEF VoiceInv
  <2>2. /\ present' \in BOOLEAN /\ timer' \in BOOLEAN
        /\ activity' \in Busy \cup {"idle", "recorded"}
        /\ tape' \in {"inactive", "recording", "stopping"}
    <3>1. CASE StartRecording \/ RecorderFails \/ ResetRecording \/ Vanish
      BY <1>2, <3>1 DEF StartRecording, RecorderFails, ResetRecording, Vanish, Abandon,
                        Discard, Busy, VoiceTypeOK
    <3>2. CASE Finish \/ TracksEnd \/ RecorderStops
      BY <1>2, <3>2 DEF Finish, FinishRecording, TracksEnd, RecorderStops, Discard, Busy,
                        VoiceTypeOK
    <3>3. CASE \E s \in starts : \/ MicrophoneGranted(s) \/ SetupFails(s)
                                 \/ ContextResumed(s) \/ StartFails(s)
      BY <1>2, <3>3 DEF MicrophoneGranted, SetupFails, ContextResumed, StartFails, Begins,
                        Discard, Busy, VoiceTypeOK
    <3>4. CASE UNCHANGED wvVars
      BY <1>2, <3>4 DEF wvVars, VoiceTypeOK
    <3> QED BY <1>2, <3>1, <3>2, <3>3, <3>4 DEF VoiceNext
  <2> QED BY <2>1, <2>2 DEF VoiceRanges, VoiceTypeOK
<1>3. VoiceSpec => []VoiceInv
  BY VoiceInvariant
<1> QED BY <1>1, <1>2, <1>3, PTL DEF VoiceSpec

-----------------------------------------------------------------------------
(***************************************************************************)
(* Theorems about MessageReactions, for every set of users, every reader   *)
(* and every value of the bounds.                                          *)
(***************************************************************************)

(* Versions and their reactions, wherever they are: shown, or in an answer *)
(* on its way, but for what is in doubt.                                   *)
Exact(r) ==
    /\ r.version \in 0..Latest
    /\ "others" \in r.doubt \/ r.users \ {Me} = At(r.version) \ {Me}
    /\ "own" \in r.doubt \/ (Me \in r.users <=> Me \in At(r.version))

(* The reactions of a page whose version has yet to be read.               *)
HalfExact(r) == r.version \in 0..Latest /\ r.users = At(r.version)

(* An event holds the reactions after its change, and says enough to tell  *)
(* whether the reader's own mark changed with it.                          *)
ExactEvent(e) ==
    /\ e.version \in 1..Latest /\ e.users = At(e.version)
    /\ Me \in At(e.version) <=> IF e.actor = Me THEN e.reacted
                                ELSE Me \in At(e.version - 1)

HistoryInv == history \in Seq(SUBSET Users) /\ history # <<>>

ExactInv ==
    /\ HistoryInv /\ Exact(shown)
    /\ \A e \in published : ExactEvent(e)
    /\ \A c \in catching : c.answer # Left => Exact(c.answer)
    /\ page.at = "served" => Exact(page)
    /\ page.at = "half" => HalfExact(page)
    /\ mine \notin {AtRest, Left} => Exact(mine)

-----------------------------------------------------------------------------
(* The history.                                                            *)

\* The latest version is a natural number, and it has reactions.
LEMMA HistoryFacts ==
  ASSUME HistoryInv
  PROVE  Len(history) \in Nat \ {0} /\ Latest \in Nat /\ At(Latest) \subseteq Users
<1>1. Len(history) \in Nat \ {0}
  BY EmptySeq, LenProperties DEF HistoryInv
<1>2. history[Len(history)] \in SUBSET Users
  BY <1>1, ElementOfSeq DEF HistoryInv
<1> QED BY <1>1, <1>2 DEF Latest, At

\* A snapshot is exact when it is served.
LEMMA SnapshotExact ==
  ASSUME HistoryInv
  PROVE  Snapshot # Left /\ Snapshot # AtRest /\ Exact(Snapshot)
<1>1. Snapshot # Left /\ Snapshot # AtRest
  <2>1. DOMAIN Snapshot = {"at", "version", "users", "doubt"} /\ Snapshot.at = "served"
    BY DEF Snapshot
  <2> QED BY <2>1 DEF Left, AtRest
<1> QED BY <1>1, HistoryFacts DEF Snapshot, Exact

\* A commit adds a version and leaves the others as they were.
LEMMA CommitFacts ==
  ASSUME HistoryInv, NEW after \in SUBSET Users, history' = Append(history, after)
  PROVE  /\ HistoryInv' /\ Latest' = Latest + 1 /\ At(Latest)' = after
         /\ \A v \in 0..Latest : At(v)' = At(v)
<1>1. Len(history) \in Nat \ {0}
  BY HistoryFacts
<1>2. /\ history' \in Seq(SUBSET Users) /\ Len(history') = Len(history) + 1
      /\ \A i \in 1..Len(history) : history'[i] = history[i]
      /\ history'[Len(history) + 1] = after
  BY AppendProperties DEF HistoryInv
<1>3. history' # <<>>
  BY <1>1, <1>2, EmptySeq
<1> QED BY <1>1, <1>2, <1>3 DEF HistoryInv, Latest, At

\* What was exact before a commit is exact after it.
LEMMA ExactStays ==
  ASSUME HistoryInv, NEW after \in SUBSET Users, history' = Append(history, after),
         NEW r
  PROVE  /\ Exact(r) =>
              /\ r.version \in 0..Latest'
              /\ "others" \in r.doubt \/ r.users \ {Me} = At(r.version)' \ {Me}
              /\ "own" \in r.doubt \/ (Me \in r.users <=> Me \in At(r.version)')
         /\ HalfExact(r) => r.version \in 0..Latest' /\ r.users = At(r.version)'
         /\ ExactEvent(r) =>
              /\ r.version \in 1..Latest' /\ r.users = At(r.version)'
              /\ Me \in At(r.version)' <=> IF r.actor = Me THEN r.reacted
                                           ELSE Me \in At(r.version - 1)'
<1>1. Latest \in Nat /\ Latest' = Latest + 1 /\ \A v \in 0..Latest : At(v)' = At(v)
  BY HistoryFacts, CommitFacts
<1>2. ASSUME Exact(r)
      PROVE  /\ r.version \in 0..Latest'
             /\ "others" \in r.doubt \/ r.users \ {Me} = At(r.version)' \ {Me}
             /\ "own" \in r.doubt \/ (Me \in r.users <=> Me \in At(r.version)')
  BY <1>1, <1>2 DEF Exact
<1>4. ASSUME HalfExact(r)
      PROVE  r.version \in 0..Latest' /\ r.users = At(r.version)'
  BY <1>1, <1>4 DEF HalfExact
<1>3. ASSUME ExactEvent(r)
      PROVE  /\ r.version \in 1..Latest' /\ r.users = At(r.version)'
             /\ Me \in At(r.version)' <=> IF r.actor = Me THEN r.reacted
                                          ELSE Me \in At(r.version - 1)'
  <2>1. r.version \in 0..Latest /\ r.version - 1 \in 0..Latest
    BY <1>1, <1>3 DEF ExactEvent
  <2>2. At(r.version)' = At(r.version) /\ At(r.version - 1)' = At(r.version - 1)
    BY <1>1, <2>1
  <2> QED BY <1>1, <1>3, <2>2 DEF ExactEvent
<1> QED BY <1>2, <1>3, <1>4

-----------------------------------------------------------------------------
(* The changes.                                                            *)

\* A commit keeps everything exact, and what it publishes is exact too.
LEMMA CommitsInv ==
  ASSUME ExactInv, NEW actor \in Users, Commits(actor)
  PROVE  /\ HistoryInv' /\ Latest' \in Nat
         /\ \A e \in published' : ExactEvent(e)'
         /\ \A r : Exact(r) => Exact(r)'
         /\ \A r : HalfExact(r) => HalfExact(r)'
<1> DEFINE before == At(Latest)
           reacted == actor \notin before
           after == IF reacted THEN before \cup {actor} ELSE before \ {actor}
           new == [version |-> Latest + 1, users |-> after,
                   actor |-> actor, reacted |-> reacted]
<1>1. /\ HistoryInv /\ Latest \in Nat /\ after \in SUBSET Users
      /\ history' = Append(history, after) /\ published' \subseteq published \cup {new}
  BY HistoryFacts DEF ExactInv, Commits
<1>2. /\ HistoryInv' /\ Latest' = Latest + 1 /\ At(Latest)' = after
      /\ \A v \in 0..Latest : At(v)' = At(v)
  BY <1>1, CommitFacts
<1>3. ASSUME NEW e \in published'
      PROVE  ExactEvent(e)'
  <2>1. CASE e \in published
    BY <1>1, <2>1, ExactStays DEF ExactInv, ExactEvent
  <2>2. CASE e = new
    <3>1. /\ e.version = Latest' /\ e.version \in 1..Latest' /\ e.users = after
          /\ e.actor = actor /\ e.reacted = reacted /\ e.version - 1 = Latest
      BY <1>1, <1>2, <2>2
    <3>2. At(e.version)' = after /\ At(e.version - 1)' = before
      BY <1>1, <1>2, <3>1
    <3>3. Me \in after <=> IF actor = Me THEN reacted ELSE Me \in before
      OBVIOUS
    <3> QED BY <3>1, <3>2, <3>3 DEF ExactEvent
  <2> QED BY <1>1, <2>1, <2>2
<1>4. \A r : Exact(r) => Exact(r)'
  BY <1>1, ExactStays DEF Exact
<1>5. \A r : HalfExact(r) => HalfExact(r)'
  BY <1>1, ExactStays DEF HalfExact
<1> QED BY <1>1, <1>2, <1>3, <1>4, <1>5

\* The event of the next version gives exactly what the server holds at it, but for the
\* reader's own mark, if that was in doubt and it is not the reader who acted.
LEMMA WithEventExact ==
  ASSUME HistoryInv, Exact(shown), NEW e, ExactEvent(e), e.version = shown.version + 1
  PROVE  Exact(WithEvent(shown, e))
<1> DEFINE marked == IF e.actor = Me THEN e.reacted ELSE Me \in shown.users
           users == (e.users \ {Me}) \cup (IF marked THEN {Me} ELSE {})
           doubt == IF e.actor = Me THEN {} ELSE shown.doubt \ {"others"}
<1>1. Latest \in Nat /\ shown.version \in 0..Latest /\ e.version - 1 = shown.version
  BY HistoryFacts DEF Exact, ExactEvent
<1>2. "own" \in doubt \/ (marked <=> Me \in At(e.version))
  BY <1>1 DEF Exact, ExactEvent
<1>3. users \ {Me} = At(e.version) \ {Me} /\ (Me \in users <=> marked)
  BY DEF ExactEvent
<1>4. WithEvent(shown, e) = [version |-> e.version, users |-> users, doubt |-> doubt]
  BY DEF WithEvent
<1> HIDE DEF marked, users, doubt
<1> QED BY <1>1, <1>2, <1>3, <1>4 DEF Exact, ExactEvent

\* Snapshots and pages that are exact leave what is shown exact.
LEMMA AnswersExact ==
  ASSUME Exact(shown), NEW answer, Exact(answer)
  PROVE  Exact(WithSnapshot(shown, answer)) /\ Exact(WithPage(shown, answer))
BY DEF Exact, WithSnapshot, WithPage, AsShown

-----------------------------------------------------------------------------
(* The steps.                                                              *)

\* An event is applied to the version before its own, or fetches what is newer.
LEMMA HandleEventInv ==
  ASSUME ExactInv, HandleReactions
  PROVE  ExactInv'
<1>1. PICK e \in published :
        /\ published' = published \ {e} /\ UNCHANGED <<history, page, mine>>
        /\ \/ UNCHANGED <<shown, catching>>
           \/ /\ e.version = shown.version + 1
              /\ shown' = WithEvent(shown, e) /\ UNCHANGED catching
           \/ StartCatchUp(e.version) /\ UNCHANGED shown
  BY DEF HandleReactions
<1>2. \A r : (/\ (Exact(r)' <=> Exact(r))
             /\ (HalfExact(r)' <=> HalfExact(r))
             /\ (ExactEvent(r)' <=> ExactEvent(r)))
  BY <1>1 DEF Exact, HalfExact, ExactEvent, Latest, At
<1>3. Exact(shown')
  BY <1>1, WithEventExact DEF ExactInv
<1>4. catching' \subseteq catching \cup {Loop(1, e.version)}
  BY <1>1 DEF StartCatchUp
<1>5. Loop(1, e.version).answer = Left
  BY DEF Loop
<1>6. \A c \in catching' : c.answer # Left => Exact(c.answer)
  BY <1>4, <1>5 DEF ExactInv
<1> QED BY <1>1, <1>2, <1>3, <1>6 DEF ExactInv, HistoryInv

\* Snapshots are exact when they are served, and still when they arrive.
LEMMA CatchUpInv ==
  ASSUME ExactInv, ServeSnapshot \/ SnapshotArrives \/ SnapshotFails
  PROVE  ExactInv'
<1>1. UNCHANGED <<history, published, mine>>
  BY DEF ServeSnapshot, SnapshotArrives, SnapshotFails
<1>2. \A r : (/\ (Exact(r)' <=> Exact(r))
             /\ (HalfExact(r)' <=> HalfExact(r))
             /\ (ExactEvent(r)' <=> ExactEvent(r)))
  BY <1>1 DEF Exact, HalfExact, ExactEvent, Latest, At
<1>3. HistoryInv' /\ (\A e \in published' : ExactEvent(e)')
      /\ (mine' \notin {AtRest, Left} => Exact(mine'))
  BY <1>1, <1>2 DEF ExactInv, HistoryInv
<1>4. CASE ServeSnapshot
  <2>1. PICK c \in catching :
          catching' = (catching \ {c}) \cup {[c EXCEPT !.answer = Snapshot]}
          /\ c.answer = Left
    BY <1>4 DEF ServeSnapshot
  <2>2. [c EXCEPT !.answer = Snapshot].answer \in {Snapshot, Left}
    BY <2>1
  <2>3. \A d \in catching' : d.answer # Left => Exact(d.answer)
    BY <2>1, <2>2, SnapshotExact DEF ExactInv
  <2>4. UNCHANGED <<shown, page>>
    BY <1>4 DEF ServeSnapshot
  <2> QED BY <1>2, <1>3, <2>3, <2>4 DEF ExactInv
<1>5. CASE SnapshotArrives
  <2>1. PICK c \in catching :
          /\ c.answer # Left /\ shown' = WithSnapshot(shown, c.answer)
          /\ \/ catching' = catching \ {c}
             \/ catching' = (catching \ {c}) \cup {Loop(c.attempt + 1, c.minimum)}
          /\ page' = page \/ page' = Left
    BY <1>5 DEF SnapshotArrives
  <2>2. Exact(shown')
    BY <2>1, AnswersExact DEF ExactInv
  <2>3. Loop(c.attempt + 1, c.minimum).answer = Left
    BY DEF Loop
  <2>4. \A d \in catching' : d.answer # Left => Exact(d.answer)
    BY <2>1, <2>3 DEF ExactInv
  <2>5. (page'.at = "served" => Exact(page')) /\ (page'.at = "half" => HalfExact(page'))
    BY <2>1 DEF ExactInv, Left
  <2> QED BY <1>2, <1>3, <2>2, <2>4, <2>5 DEF ExactInv
<1>6. CASE SnapshotFails
  <2>1. catching' \subseteq catching /\ UNCHANGED <<shown, page>>
    BY <1>6 DEF SnapshotFails
  <2> QED BY <1>2, <1>3, <2>1 DEF ExactInv
<1> QED BY <1>4, <1>5, <1>6

\* So are the answers to the reader's own changes; of a page that was read across a
\* change everything is in doubt.
LEMMA PageInv ==
  ASSUME ExactInv,
         \/ AskPage \/ ReadReactions \/ ReadVersion \/ PageArrives
         \/ SetReaction \/ ReactionArrives
  PROVE  ExactInv'
<1> USE DEF AskPage, ReadReactions, ReadVersion, PageArrives, SetReaction,
            ReactionArrives
<1>1. UNCHANGED <<history, published, catching>>
  OBVIOUS
<1>2. \A r : (/\ (Exact(r)' <=> Exact(r))
             /\ (HalfExact(r)' <=> HalfExact(r))
             /\ (ExactEvent(r)' <=> ExactEvent(r)))
  BY <1>1 DEF Exact, HalfExact, ExactEvent, Latest, At
<1>3. HistoryInv' /\ (\A e \in published' : ExactEvent(e)')
      /\ (\A c \in catching' : c.answer # Left => Exact(c.answer))
  BY <1>1, <1>2 DEF ExactInv, HistoryInv
<1>4. Exact(shown')
  <2>1. \/ shown' = shown
        \/ page.at = "served" /\ shown' = WithPage(shown, page)
        \/ mine \notin {AtRest, Left} /\ shown' = WithSnapshot(shown, mine)
    OBVIOUS
  <2> QED BY <2>1, AnswersExact DEF ExactInv
<1>5. (page'.at = "served" => Exact(page')) /\ (page'.at = "half" => HalfExact(page'))
  <2>1. CASE page' = page
    BY <2>1 DEF ExactInv
  <2>2. CASE page' \in {AtRest, Left}
    BY <2>2 DEF AtRest, Left
  <2>3. CASE page' = [at |-> "half", version |-> Latest, users |-> At(Latest)]
    BY <2>3, HistoryFacts DEF HalfExact, ExactInv
  <2>4. CASE ReadVersion
    <3> DEFINE late == page.version # Latest
    <3>1. /\ page'.at = "served" /\ page'.version = Latest /\ page'.users = page.users
          /\ page'.doubt = IF late THEN Parts ELSE {}
      BY <2>4
    <3>2. HalfExact(page) /\ Latest \in Nat
      BY <2>4, HistoryFacts DEF ExactInv
    <3> QED BY <3>1, <3>2 DEF Exact, HalfExact, Parts
  <2> QED BY <2>1, <2>2, <2>3, <2>4
<1>6. mine' \notin {AtRest, Left} => Exact(mine')
  <2>1. mine' = mine \/ mine' \in {AtRest, Left}
    OBVIOUS
  <2> QED BY <2>1 DEF ExactInv
<1> QED BY <1>2, <1>3, <1>4, <1>5, <1>6 DEF ExactInv

\* A change leaves everything exact at the version it has.
LEMMA ChangeInv ==
  ASSUME Me \in Users, ExactInv, OthersReact \/ ServeReaction
  PROVE  ExactInv'
<1>1. PICK actor \in Users : Commits(actor)
  BY DEF OthersReact, ServeReaction
<1>2. /\ HistoryInv' /\ Latest' \in Nat /\ \A e \in published' : ExactEvent(e)'
      /\ \A r : (Exact(r) => Exact(r)') /\ (HalfExact(r) => HalfExact(r)')
  BY <1>1, CommitsInv
<1>3. UNCHANGED <<shown, catching, page>>
  BY DEF OthersReact, ServeReaction
<1>4. /\ Exact(shown)' /\ \A c \in catching' : c.answer # Left => Exact(c.answer)'
      /\ page'.at = "served" => Exact(page)'
      /\ page'.at = "half" => HalfExact(page)'
  <2>1. Exact(shown) => Exact(shown)'
    BY <1>2, <1>3 DEF Exact
  <2>2. (Exact(page) => Exact(page)') /\ (HalfExact(page) => HalfExact(page)')
    BY <1>2, <1>3 DEF Exact, HalfExact
  <2> QED BY <1>2, <1>3, <2>1, <2>2 DEF ExactInv
<1>5. mine' \notin {AtRest, Left} => Exact(mine)'
  <2>1. CASE OthersReact
    <3>1. mine' = mine
      BY <2>1 DEF OthersReact
    <3> QED BY <1>2, <3>1 DEF ExactInv, Exact
  <2>2. CASE ServeReaction
    <3>1. mine' = Snapshot'
      BY <2>2 DEF ServeReaction
    <3>2. Exact(Snapshot)'
      BY <1>2 DEF Exact, Snapshot
    <3> QED BY <3>1, <3>2 DEF Exact
  <2> QED BY <2>1, <2>2
<1> QED BY <1>2, <1>4, <1>5 DEF ExactInv

\* Losing and regaining the connection loses events, and asks for snapshots.
LEMMA ConnectionInv ==
  ASSUME ExactInv, Disconnect \/ Reconnect
  PROVE  ExactInv'
<1>1. UNCHANGED <<history, shown, page, mine>> /\ published' \subseteq published
  BY DEF Disconnect, Reconnect
<1>2. catching' \subseteq catching \cup {Loop(1, 0)}
  BY DEF Disconnect, Reconnect, StartCatchUp
<1>3. Loop(1, 0).answer = Left
  BY DEF Loop
<1>4. \A r : (/\ (Exact(r)' <=> Exact(r))
             /\ (HalfExact(r)' <=> HalfExact(r))
             /\ (ExactEvent(r)' <=> ExactEvent(r)))
  BY <1>1 DEF Exact, HalfExact, ExactEvent, Latest, At
<1> QED BY <1>1, <1>2, <1>3, <1>4 DEF ExactInv, HistoryInv

-----------------------------------------------------------------------------
\* The invariant of the reactions.
LEMMA ReactionsInvariant ==
  ASSUME Me \in Users
  PROVE  ReactionsSpec => []ExactInv
<1>1. ReactionsInit => ExactInv
  <2>1. ASSUME ReactionsInit PROVE ExactInv
    <3>1. history \in Seq(SUBSET Users) /\ Len(history) = 1 /\ history[1] = {}
          /\ history # <<>>
      BY <2>1 DEF ReactionsInit
    <3>2. Exact(shown)
      BY <2>1, <3>1 DEF ReactionsInit, Exact, Latest, At
    <3> QED BY <2>1, <3>1, <3>2 DEF ReactionsInit, ExactInv, HistoryInv, AtRest
  <2> QED BY <2>1
<1>2. ASSUME ExactInv, [ReactionsNext]_mrVars
      PROVE  ExactInv'
  <2>1. CASE ReactionsNext
    BY <1>2, <2>1, HandleEventInv, CatchUpInv, PageInv, ChangeInv, ConnectionInv
       DEF ReactionsNext
  <2>2. CASE UNCHANGED mrVars
    BY <1>2, <2>2 DEF mrVars, ExactInv, HistoryInv, Exact, HalfExact, ExactEvent, Latest,
       At
  <2> QED BY <1>2, <2>1, <2>2
<1> QED BY <1>1, <1>2, PTL DEF ReactionsSpec

\* Both clients: the reactions shown with a version, the reader's own mark included,
\* are the server's at that version, whatever was lost, overtaken or fetched meanwhile,
\* but for what came with a page that the server read across a change and that neither an
\* event nor an answer read as a whole has replaced since.
THEOREM ReactionsNeverWrong ==
  ASSUME Me \in Users
  PROVE  ReactionsSpec => []ReactionsExact
<1>1. ExactInv => ReactionsExact
  BY HistoryFacts DEF ExactInv, Exact, ReactionsExact
<1> QED BY <1>1, ReactionsInvariant, PTL

-----------------------------------------------------------------------------
(* The types: ReactionsTypeOK, and that a catch-up is a record.            *)
Catching == [attempt : 1..MaxAttempts, minimum : Versions, answer : Served \cup {Left}]

ReactionsRanges == ReactionsTypeOK /\ catching \subseteq Catching

Bounds ==
    /\ Me \in Users /\ MaxVersion \in Nat /\ MaxAttempts \in Nat \ {0}
    /\ MaxLosses \in Nat /\ MaxPagesRead \in Nat

\* What the server answers with is one of its versions.
LEMMA SnapshotServed ==
  ASSUME ReactionsRanges, HistoryInv
  PROVE  Snapshot \in Served
<1>1. Latest \in Versions /\ At(Latest) \in SUBSET Users
  BY HistoryFacts DEF ReactionsRanges, ReactionsTypeOK
<1> QED BY <1>1 DEF Snapshot, Served

\* A loop that starts, and the answer a loop gets.
LEMMA LoopsServed ==
  ASSUME Bounds, NEW a \in 1..MaxAttempts, NEW m \in Versions
  PROVE  Loop(a, m) \in Catching
BY DEF Loop, Catching, Left

\* A commit publishes the version it makes.
LEMMA CommitsRanges ==
  ASSUME Bounds, ReactionsRanges, HistoryInv, NEW actor \in Users, Commits(actor)
  PROVE  /\ history' \in Seq(SUBSET Users) /\ Latest' \in Versions
         /\ published' \subseteq [version : Versions, users : SUBSET Users,
                               actor : Users, reacted : BOOLEAN]
         /\ HistoryInv'
<1> DEFINE before == At(Latest)
           reacted == actor \notin before
           after == IF reacted THEN before \cup {actor} ELSE before \ {actor}
           e == [version |-> Latest + 1, users |-> after, actor |-> actor,
                 reacted |-> reacted]
<1>1. Latest \in Nat /\ before \in SUBSET Users /\ Latest \in Versions
  BY HistoryFacts DEF ReactionsRanges, ReactionsTypeOK
<1>2. after \in SUBSET Users /\ reacted \in BOOLEAN
  BY <1>1
<1>3. /\ Latest < MaxVersion /\ history' = Append(history, after)
      /\ published' \subseteq published \cup {e}
  BY DEF Commits
<1>4. Latest + 1 \in Versions
  BY <1>1, <1>3 DEF Versions, Bounds
<1> HIDE DEF before, reacted, after
<1>5. e \in [version : Versions, users : SUBSET Users, actor : Users, reacted : BOOLEAN]
  BY <1>2, <1>4
<1>6. HistoryInv' /\ Latest' = Latest + 1
  BY <1>2, <1>3, CommitFacts
<1> QED BY <1>3, <1>4, <1>5, <1>6 DEF HistoryInv, ReactionsRanges, ReactionsTypeOK

\* What is merged into what is shown is a version with its reactions.
LEMMA MergedShown ==
  ASSUME NEW s \in ShownSet, NEW answer \in Served
  PROVE  WithSnapshot(s, answer) \in ShownSet /\ WithPage(s, answer) \in ShownSet
BY DEF ShownSet, Served, WithSnapshot, WithPage, AsShown

\* An event leaves a state that can be shown.
LEMMA EventShown ==
  ASSUME Bounds, NEW s \in ShownSet,
         NEW e \in [version : Versions, users : SUBSET Users, actor : Users,
                    reacted : BOOLEAN]
  PROVE  WithEvent(s, e) \in ShownSet
<1> DEFINE marked == IF e.actor = Me THEN e.reacted ELSE Me \in s.users
           users == (e.users \ {Me}) \cup (IF marked THEN {Me} ELSE {})
           doubt == IF e.actor = Me THEN {} ELSE s.doubt \ {"others"}
<1>1. users \in SUBSET Users /\ e.version \in Versions
  BY DEF Bounds
<1>2. doubt \in SUBSET Parts
  BY DEF ShownSet
<1> QED BY <1>1, <1>2 DEF WithEvent, ShownSet

\* Loops that are records have the types of their fields.
LEMMA TypesFromParts ==
  ASSUME NEW C \in SUBSET Catching
  PROVE  \A c \in C : /\ c.attempt \in 1..MaxAttempts /\ c.minimum \in Versions
                       /\ c.answer \in Served \cup {Left}
BY DEF Catching

-----------------------------------------------------------------------------
\* Events, and the loop they may start.
LEMMA HandleEventRanges ==
  ASSUME Bounds, ReactionsRanges, HandleReactions
  PROVE  ReactionsRanges'
<1>1. PICK e \in published :
        /\ published' = published \ {e}
        /\ \/ UNCHANGED <<shown, catching, minimum>>
           \/ shown' = WithEvent(shown, e) /\ UNCHANGED <<catching, minimum>>
           \/ /\ minimum' = IF platform = "web" THEN Higher(minimum, e.version) ELSE 0
              /\ StartCatchUp(e.version) /\ UNCHANGED shown
  BY DEF HandleReactions
<1>2. UNCHANGED <<platform, history, connected, page, mine, losses, pagesRead, excused>>
  BY DEF HandleReactions
<1>3. e.version \in Versions /\ shown' \in ShownSet
  BY <1>1, EventShown DEF ReactionsRanges, ReactionsTypeOK
<1>4. minimum' \in Versions
  BY <1>1, <1>3 DEF Higher, Versions, Bounds, ReactionsRanges, ReactionsTypeOK
<1>5. catching' \subseteq Catching
  <2>1. 1 \in 1..MaxAttempts
    BY DEF Bounds
  <2>2. Loop(1, e.version) \in Catching
    BY <1>3, <2>1, LoopsServed
  <2> QED BY <1>1, <2>2 DEF StartCatchUp, ReactionsRanges
<1>6. Latest' = Latest
  BY <1>2 DEF Latest
<1>7. ReactionsTypeOK'
  <2>1. \A c \in catching' : c.attempt \in 1..MaxAttempts /\ c.minimum \in Versions
                             /\ c.answer \in Served \cup {Left}
    BY <1>5, TypesFromParts
  <2> QED BY <1>1, <1>2, <1>3, <1>4, <1>6, <2>1 DEF ReactionsRanges, ReactionsTypeOK, Versions
<1> QED BY <1>5, <1>7, Zenon DEF ReactionsRanges, Catching, Served, Versions

\* The answers of a loop, and its next attempt.
LEMMA CatchUpRanges ==
  ASSUME Bounds, ReactionsRanges, HistoryInv,
         ServeSnapshot \/ SnapshotArrives \/ SnapshotFails
  PROVE  ReactionsRanges'
<1>1. UNCHANGED <<platform, history, published, connected, mine, pagesRead>> /\ Latest' = Latest
  BY DEF ServeSnapshot, SnapshotArrives, SnapshotFails, Latest
<1>2. CASE ServeSnapshot
  <2>1. PICK c \in catching :
          catching' = (catching \ {c}) \cup {[c EXCEPT !.answer = Snapshot]}
    BY <1>2 DEF ServeSnapshot
  <2>2. [c EXCEPT !.answer = Snapshot] \in Catching
    <3> DEFINE S == Snapshot
    <3>1. c \in Catching /\ S \in Served
      BY SnapshotServed DEF ReactionsRanges
    <3> HIDE DEF S
    <3>2. [c EXCEPT !.answer = S] \in Catching
      BY <3>1 DEF Catching
    <3> QED BY <3>2 DEF S
  <2>3. catching' \subseteq Catching /\ UNCHANGED <<shown, minimum, page, losses, excused>>
    BY <1>2, <2>1, <2>2 DEF ServeSnapshot, ReactionsRanges
  <2> QED BY <1>1, <2>3, TypesFromParts DEF ReactionsRanges, ReactionsTypeOK
<1>3. CASE SnapshotArrives
  <2>1. PICK c \in catching :
          /\ c.answer # Left /\ shown' = WithSnapshot(shown, c.answer)
          /\ \/ catching' = catching \ {c}
             \/ /\ c.attempt < MaxAttempts
                /\ catching' = (catching \ {c}) \cup {Loop(c.attempt + 1, c.minimum)}
          /\ minimum' \in {minimum, 0} /\ page' \in {page, Left}
    BY <1>3 DEF SnapshotArrives
  <2>2. c \in Catching /\ c.answer \in Served
    BY <2>1 DEF ReactionsRanges, Catching
  <2>3. shown' \in ShownSet
    BY <2>1, <2>2, MergedShown DEF ReactionsRanges, ReactionsTypeOK
  <2>4. catching' \subseteq Catching
    <3>1. /\ c.attempt \in 1..MaxAttempts /\ c.minimum \in Versions
          /\ c.attempt < MaxAttempts => c.attempt + 1 \in 1..MaxAttempts
      BY <2>2 DEF Catching, Bounds
    <3>2. c.attempt < MaxAttempts => Loop(c.attempt + 1, c.minimum) \in Catching
      BY <3>1, LoopsServed
    <3> QED BY <2>1, <3>2 DEF ReactionsRanges
  <2>5. 0 \in Versions /\ UNCHANGED losses /\ excused' \in BOOLEAN
    BY <1>3 DEF SnapshotArrives, Versions, Bounds, ReactionsRanges, ReactionsTypeOK
  <2> QED BY <1>1, <2>1, <2>3, <2>4, <2>5, TypesFromParts DEF ReactionsRanges, ReactionsTypeOK
<1>4. CASE SnapshotFails
  <2>1. /\ losses < MaxLosses /\ losses' = losses + 1 /\ catching' \subseteq catching
        /\ minimum' = 0 /\ excused' = TRUE /\ UNCHANGED <<shown, page>>
    BY <1>4 DEF SnapshotFails
  <2>2. losses' \in 0..MaxLosses /\ 0 \in Versions
    BY <2>1 DEF Bounds, Versions, ReactionsRanges, ReactionsTypeOK
  <2> QED BY <1>1, <2>1, <2>2, TypesFromParts DEF ReactionsRanges, ReactionsTypeOK
<1> QED BY <1>2, <1>3, <1>4

\* Pages, and the reader's own change.
LEMMA RequestRanges ==
  ASSUME Bounds, ReactionsRanges, HistoryInv,
         \/ AskPage \/ ReadReactions \/ ReadVersion \/ PageArrives
         \/ SetReaction \/ ReactionArrives
  PROVE  ReactionsRanges'
<1> USE DEF AskPage, ReadReactions, ReadVersion, PageArrives, SetReaction,
            ReactionArrives
<1>1. /\ UNCHANGED <<platform, history, published, connected, catching, minimum, losses>>
      /\ Latest' = Latest
  BY DEF Latest
<1>2. page' \in Served \cup HalfServed \cup {AtRest, Left}
  <2>1. page' = page \/ page' \in {AtRest, Left} \/ ReadReactions \/ ReadVersion
    OBVIOUS
  <2>2. CASE ReadReactions
    <3>1. Latest \in Versions /\ At(Latest) \in SUBSET Users
      BY HistoryFacts DEF ReactionsRanges, ReactionsTypeOK
    <3> QED BY <2>2, <3>1 DEF HalfServed
  <2>3. CASE ReadVersion
    <3>1. page \in HalfServed /\ Latest \in Versions
      BY <2>3 DEF ReactionsRanges, ReactionsTypeOK, Served, AtRest, Left
    <3>2. (IF page.version = Latest THEN {} ELSE Parts) \in SUBSET Parts
      OBVIOUS
    <3> QED BY <2>3, <3>1, <3>2 DEF Served, HalfServed
  <2> QED BY <2>1, <2>2, <2>3 DEF ReactionsRanges, ReactionsTypeOK
<1>3. mine' \in Served \cup {AtRest, Left}
  BY DEF ReactionsRanges, ReactionsTypeOK
<1>4. shown' \in ShownSet
  <2>1. page.at = "served" => page \in Served
    BY DEF ReactionsRanges, ReactionsTypeOK, HalfServed, AtRest, Left
  <2>2. \/ shown' = shown
        \/ page \in Served /\ shown' = WithPage(shown, page)
        \/ mine \in Served /\ shown' = WithSnapshot(shown, mine)
    BY <2>1 DEF ReactionsRanges, ReactionsTypeOK
  <2> QED BY <2>2, MergedShown DEF ReactionsRanges, ReactionsTypeOK
<1>5. excused' \in BOOLEAN
  BY DEF ReactionsRanges, ReactionsTypeOK
<1>6. pagesRead' \in 0..MaxPagesRead
  <2>1. pagesRead' = pagesRead \/ (platform = "web" /\ pagesRead < MaxPagesRead /\ pagesRead' = pagesRead + 1)
    OBVIOUS
  <2> QED BY <2>1 DEF Bounds, ReactionsRanges, ReactionsTypeOK
<1> QED BY <1>1, <1>2, <1>3, <1>4, <1>5, <1>6, TypesFromParts
        DEF ReactionsRanges, ReactionsTypeOK

\* Commits, the reader's own and the others'.
LEMMA ServeRanges ==
  ASSUME Bounds, ReactionsRanges, HistoryInv, OthersReact \/ ServeReaction
  PROVE  ReactionsRanges'
<1>1. PICK actor \in Users : Commits(actor)
  BY DEF OthersReact, ServeReaction, Bounds
<1>2. /\ history' \in Seq(SUBSET Users) /\ Latest' \in Versions
      /\ published' \subseteq [version : Versions, users : SUBSET Users,
                            actor : Users, reacted : BOOLEAN]
      /\ HistoryInv'
  BY <1>1, CommitsRanges
<1>3. UNCHANGED <<platform, shown, connected, catching, minimum, page, losses, pagesRead, excused>>
  BY DEF OthersReact, ServeReaction
<1>4. mine' \in Served \cup {AtRest, Left}
  <2>1. At(Latest)' \in SUBSET Users
    <3>1. Len(history') \in Nat \ {0}
      BY <1>2, EmptySeq, LenProperties DEF HistoryInv
    <3>2. history'[Len(history')] \in SUBSET Users
      BY <1>2, <3>1, ElementOfSeq
    <3> QED BY <3>1, <3>2 DEF Latest, At
  <2>2. Snapshot' \in Served
    BY <1>2, <2>1 DEF Snapshot, Served
  <2> QED BY <2>2 DEF OthersReact, ServeReaction, ReactionsRanges, ReactionsTypeOK
<1> QED BY <1>2, <1>3, <1>4, TypesFromParts DEF ReactionsRanges, ReactionsTypeOK

\* The connection is lost, and made again.
LEMMA ConnectionRanges ==
  ASSUME Bounds, ReactionsRanges, Disconnect \/ Reconnect
  PROVE  ReactionsRanges'
<1>1. UNCHANGED <<platform, history, shown, minimum, page, mine, pagesRead>> /\ Latest' = Latest
  BY DEF Disconnect, Reconnect, Latest
<1>2. catching' \subseteq Catching
  <2>1. 1 \in 1..MaxAttempts /\ 0 \in Versions
    BY DEF Bounds, Versions
  <2>2. Loop(1, 0) \in Catching
    BY <2>1, LoopsServed
  <2> QED BY <2>2 DEF Disconnect, Reconnect, StartCatchUp, ReactionsRanges
<1>3. connected' \in BOOLEAN /\ excused' \in BOOLEAN /\ published' \subseteq published
  BY DEF Disconnect, Reconnect, ReactionsRanges, ReactionsTypeOK
<1>4. losses' \in 0..MaxLosses
  BY DEF Disconnect, Reconnect, Bounds, ReactionsRanges, ReactionsTypeOK
<1> QED BY <1>1, <1>2, <1>3, <1>4, TypesFromParts DEF ReactionsRanges, ReactionsTypeOK

-----------------------------------------------------------------------------
\* Both clients' reactions keep their types: an answer on its way is a version of the
\* server's, and a catch-up ends with its last attempt.
THEOREM ReactionsTypeCorrect ==
  ASSUME Me \in Users, MaxVersion \in Nat, MaxAttempts \in Nat \ {0},
         MaxLosses \in Nat, MaxPagesRead \in Nat
  PROVE  ReactionsSpec => []ReactionsTypeOK
<1> USE DEF Bounds
<1>0. Bounds
  OBVIOUS
<1>1. ReactionsInit => ReactionsRanges
  <2> SUFFICES ASSUME ReactionsInit PROVE ReactionsRanges
    OBVIOUS
  <2>1. history \in Seq(SUBSET Users) /\ Len(history) = 1
    BY DEF ReactionsInit
  <2>2. Latest \in Versions /\ shown \in ShownSet /\ 0 \in Versions
    BY <2>1 DEF ReactionsInit, Latest, Versions, ShownSet
  <2>3. /\ platform \in {"web", "mobile"} /\ connected \in BOOLEAN /\ excused \in BOOLEAN
        /\ published = {} /\ catching = {} /\ minimum = 0 /\ page = AtRest /\ mine = AtRest
    BY DEF ReactionsInit
  <2>4. losses \in 0..MaxLosses /\ pagesRead \in 0..MaxPagesRead
    BY DEF ReactionsInit
  <2> QED BY <2>1, <2>2, <2>3, <2>4 DEF ReactionsRanges, ReactionsTypeOK
<1>2. ASSUME ReactionsRanges, ExactInv, [ReactionsNext]_mrVars
      PROVE  ReactionsRanges'
  <2>1. HistoryInv
    BY <1>2 DEF ExactInv
  <2>2. CASE ReactionsNext
    BY <1>0, <1>2, <2>1, <2>2, HandleEventRanges, CatchUpRanges, RequestRanges,
       ServeRanges, ConnectionRanges DEF ReactionsNext
  <2>3. CASE UNCHANGED mrVars
    BY <1>2, <2>3 DEF mrVars, ReactionsRanges, ReactionsTypeOK, Latest
  <2> QED BY <1>2, <2>2, <2>3
<1>3. ReactionsSpec => []ExactInv
  BY ReactionsInvariant
<1>4. ReactionsRanges => ReactionsTypeOK
  BY DEF ReactionsRanges
<1> QED BY <1>1, <1>2, <1>3, <1>4, PTL DEF ReactionsSpec

(***************************************************************************)
(* Theorems about WebDrafts, for every number of conversations, visits,    *)
(* edits and failures.                                                     *)
(***************************************************************************)

(* A text that was typed belongs to one conversation, in every visit.      *)
TextsOf(c) ==
    {stored[c].text} \cup {drafts[v][c].text : v \in Visits}
    \cup (IF sends[c].kind = "text" THEN {sends[c].value} ELSE {})
TextsApart ==
    /\ \A c \in Conversations : TextsOf(c) \subseteq 0..edits
    /\ \A c, d \in Conversations : c # d => TextsOf(c) \cap TextsOf(d) \subseteq {0}
    /\ sent \subseteq 1..edits

(* What is under way was sent by this visit or an earlier one; a text is   *)
(* one, and while the visit that sent it is the latest, what the user      *)
(* wants is in the draft.                                                  *)
Departed ==
    \A c \in Conversations :
        /\ sends[c] # NotSending => sends[c].visit <= visit
        /\ sends[c].kind = "text" => sends[c].value # 0
        /\ TextUnderWay(c) => drafts[visit][c] = wanted[c]

(* A draft that an answer has cleared is empty until it is edited.         *)
Kept ==
    \A c \in Conversations :
        /\ \/ drafts[visit][c] = wanted[c]
           \/ c \in overtaken /\ drafts[visit][c].text = 0
        /\ drafts[visit][c].text \notin sent

DraftsInv ==
    /\ DraftsTypeOK /\ TextsApart /\ Departed /\ Kept
    /\ CopyIsGood => stored = drafts[visit]

-----------------------------------------------------------------------------
\* A field of a draft that is edited.
LEMMA EditedDraft ==
    ASSUME NEW d \in Draft, NEW field \in {"text", "reply"}, NEW value \in 0..MaxEdits
    PROVE  /\ [d EXCEPT ![field] = value] \in Draft
           /\ [d EXCEPT ![field] = value].text \in {d.text, value}
  <1>1. CASE field = "text"
    BY <1>1 DEF Draft
  <1>2. CASE field = "reply"
    BY <1>2 DEF Draft
  <1> QED BY <1>1, <1>2

\* The empty draft, and the empty drafts.
LEMMA EmptyIsDraft ==
    /\ Empty \in Draft /\ Empty.text = 0
    /\ NoDrafts \in [Conversations -> Draft]
    /\ \A c \in Conversations : NoDrafts[c] = Empty
  <1>1. Empty \in Draft /\ Empty.text = 0
    BY DraftsAssumption DEF Draft, Empty
  <1> QED BY <1>1 DEF NoDrafts

\* A draft whose quotation is taken away.
LEMMA WithoutReplyIsDraft ==
    ASSUME NEW d \in Draft, NEW reply
    PROVE  /\ WithoutReply(d, reply) \in Draft
           /\ WithoutReply(d, reply).text = d.text
  BY DraftsAssumption DEF WithoutReply, Draft

\* What is under way has a kind of its own.
LEMMA KindOfSends ==
    /\ NotSending.kind = "none"
    /\ \A s \in Sending : s.kind \in {"text", "reply"} /\ s.visit \in Visits
                          /\ s.value \in 0..MaxEdits /\ s # NotSending
  <1>1. NotSending.kind = "none"
    BY DEF NotSending
  <1>2. \A s \in Sending : s.kind \in {"text", "reply"} /\ s.visit \in Visits
                           /\ s.value \in 0..MaxEdits
    BY DEF Sending
  <1> QED BY <1>1, <1>2

\* Nothing is typed at first.
LEMMA DraftsInitially == DraftsInit => DraftsInv
  <1> SUFFICES ASSUME DraftsInit PROVE DraftsInv
    OBVIOUS
  <1>1. 1 \in Visits
    BY DraftsAssumption DEF Visits
  <1>2. DraftsTypeOK
    <2>1. /\ drafts \in [Visits -> [Conversations -> Draft]]
          /\ stored \in [Conversations -> Draft] /\ wanted \in [Conversations -> Draft]
      BY EmptyIsDraft DEF DraftsInit
    <2>2. /\ dirty \in [Visits -> BOOLEAN] /\ persist \in [Visits -> BOOLEAN]
          /\ sends \in [Conversations -> Sending \cup {NotSending}]
          /\ deleting \in [Visits -> Deleting \cup {NotDeleting}]
      BY DEF DraftsInit
    <2>3. /\ onChat = FALSE /\ selected = NoConversation /\ edits = 0 /\ mishaps = 0
          /\ overtaken = {} /\ sent = {} /\ overwritten = FALSE /\ visit = 1
      BY DEF DraftsInit
    <2>4. edits \in 0..MaxEdits /\ mishaps \in 0..MaxFaults
      BY <2>3, DraftsAssumption
    <2> QED BY <1>1, <2>1, <2>2, <2>3, <2>4 DEF DraftsTypeOK
  <1>3. \A c \in Conversations : stored[c] = Empty /\ wanted[c] = Empty
                                 /\ sends[c] = NotSending
                                 /\ \A v \in Visits : drafts[v][c] = Empty
    BY EmptyIsDraft DEF DraftsInit
  <1>4. edits = 0 /\ sent = {} /\ stored = drafts[visit] /\ visit = 1
    BY <1>1 DEF DraftsInit
  <1>5. \A c \in Conversations : TextsOf(c) \subseteq {0}
    BY <1>3, EmptyIsDraft, KindOfSends DEF TextsOf
  <1>6. TextsApart
    BY <1>4, <1>5 DEF TextsApart
  <1>7. Departed /\ Kept
    BY <1>1, <1>3, <1>4, EmptyIsDraft, KindOfSends DEF Departed, Kept, TextUnderWay
  <1> QED BY <1>2, <1>4, <1>6, <1>7 DEF DraftsInv

-----------------------------------------------------------------------------
\* What visit v writes to storage, of the drafts ds.
LEMMA Written ==
    ASSUME DraftsTypeOK, NEW v \in Visits, NEW ds \in [Conversations -> Draft],
           NEW isDirty \in BOOLEAN, Write(v, ds, isDirty), visit' = visit
    PROVE  /\ stored' \in [Conversations -> Draft] /\ dirty' \in [Visits -> BOOLEAN]
           /\ overwritten' \in BOOLEAN /\ mishaps' \in 0..MaxFaults
           /\ stored' = stored \/ stored' = ds
           /\ CopyIsGood' => \/ v = visit /\ stored' = ds
                             \/ /\ stored' = stored /\ CopyIsGood
                                /\ v = visit => ~isDirty
  <1> USE DraftsAssumption DEF DraftsTypeOK
  <1>1. CASE /\ isDirty /\ stored' = ds /\ overwritten' = (v # visit)
             /\ dirty' = [dirty EXCEPT ![v] = FALSE] /\ UNCHANGED mishaps
    BY <1>1 DEF CopyIsGood
  <1>2. CASE /\ isDirty /\ Mishap /\ dirty' = [dirty EXCEPT ![v] = TRUE]
             /\ UNCHANGED <<stored, overwritten>>
    <2>1. mishaps' \in 0..MaxFaults
      BY <1>2 DEF Mishap
    <2> QED BY <1>2, <2>1 DEF CopyIsGood
  <1>3. CASE ~isDirty /\ UNCHANGED <<stored, overwritten, dirty, mishaps>>
    BY <1>3 DEF CopyIsGood
  <1> QED BY <1>1, <1>2, <1>3 DEF Write

\* The texts of a conversation stay its own when one of them gets a copy.
LEMMA StillApart ==
    ASSUME DraftsTypeOK, TextsApart, edits' = edits, sent' \subseteq 1..edits,
           \A c \in Conversations : TextsOf(c)' \subseteq TextsOf(c) \cup {0}
    PROVE  TextsApart'
  BY DraftsAssumption DEF TextsApart, DraftsTypeOK

\* What TextsOf has.
LEMMA TextsAre ==
    ASSUME NEW c \in Conversations
    PROVE  /\ stored[c].text \in TextsOf(c)
           /\ \A v \in Visits : drafts[v][c].text \in TextsOf(c)
           /\ sends[c].kind = "text" => sends[c].value \in TextsOf(c)
  BY DEF TextsOf

\* The texts of a conversation get no new one.
LEMMA NoNewTexts ==
    ASSUME NEW c \in Conversations,
           stored'[c].text \in TextsOf(c) \cup {0},
           \A v \in Visits : drafts'[v][c].text \in TextsOf(c) \cup {0},
           sends'[c].kind = "text" => sends'[c].value \in TextsOf(c) \cup {0}
    PROVE  TextsOf(c)' \subseteq TextsOf(c) \cup {0}
  <1> DEFINE T == TextsOf(c)
  <1> SUFFICES ASSUME NEW x \in TextsOf(c)' PROVE x \in T \cup {0}
    OBVIOUS
  <1>1. \/ x = stored'[c].text
        \/ \E v \in Visits : x = drafts'[v][c].text
        \/ sends'[c].kind = "text" /\ x = sends'[c].value
    BY DEF TextsOf
  <1> QED BY <1>1

\* Nothing but storage, the selection and the page change.
LEMMA FlushInv ==
    ASSUME DraftsInv, NEW v \in Visits, Write(v, drafts[v], dirty[v]),
           persist' = [persist EXCEPT ![v] = FALSE], onChat' \in BOOLEAN,
           selected' \in Conversations \cup {NoConversation},
           UNCHANGED <<visit, drafts, sends, deleting, edits, wanted, overtaken, sent>>
    PROVE  DraftsInv'
  <1> USE DEF DraftsInv
  <1>1. drafts[v] \in [Conversations -> Draft] /\ dirty[v] \in BOOLEAN
    BY DEF DraftsTypeOK
  <1>2. /\ stored' \in [Conversations -> Draft] /\ dirty' \in [Visits -> BOOLEAN]
        /\ overwritten' \in BOOLEAN /\ mishaps' \in 0..MaxFaults
        /\ stored' = stored \/ stored' = drafts[v]
        /\ CopyIsGood' => \/ v = visit /\ stored' = drafts[v]
                          \/ stored' = stored /\ CopyIsGood
    BY <1>1, Written
  <1>3. DraftsTypeOK'
    BY <1>2 DEF DraftsTypeOK
  <1>4. TextsApart'
    <2>1. ASSUME NEW c \in Conversations PROVE TextsOf(c)' \subseteq TextsOf(c) \cup {0}
      BY <1>2, TextsAre, NoNewTexts
    <2> QED BY <2>1, StillApart DEF TextsApart
  <1>5. Departed' /\ Kept'
    BY DEF Departed, Kept, TextUnderWay
  <1> QED BY <1>2, <1>3, <1>4, <1>5

\* The tab goes away, with or without the last write of its drafts.
LEMMA EndsInv ==
    ASSUME DraftsInv, TabEnds,
           \/ Write(visit, drafts[visit], onChat /\ dirty[visit])
           \/ Mishap /\ UNCHANGED <<stored, dirty, overwritten>>
    PROVE  DraftsInv'
  <1> USE DEF DraftsInv
  <1>1. /\ onChat' = FALSE /\ selected' = NoConversation
        /\ drafts' = [v \in Visits |-> IF v = visit THEN drafts[v] ELSE NoDrafts]
        /\ persist' = [v \in Visits |-> FALSE]
        /\ sends' = [c \in Conversations |-> NotSending]
        /\ deleting' = [v \in Visits |-> NotDeleting]
        /\ UNCHANGED <<visit, edits, wanted, overtaken, sent>>
    BY DEF TabEnds
  <1>2. visit \in Visits /\ drafts[visit] \in [Conversations -> Draft]
        /\ (onChat /\ dirty[visit]) \in BOOLEAN
    BY DEF DraftsTypeOK
  <1>3. /\ stored' \in [Conversations -> Draft] /\ dirty' \in [Visits -> BOOLEAN]
        /\ overwritten' \in BOOLEAN /\ mishaps' \in 0..MaxFaults
        /\ stored' = stored \/ stored' = drafts[visit]
        /\ CopyIsGood' => stored' = drafts[visit] \/ (stored' = stored /\ CopyIsGood)
    <2>1. CASE Write(visit, drafts[visit], onChat /\ dirty[visit])
      <3> DEFINE isDirty == onChat /\ dirty[visit]
      <3>1. isDirty \in BOOLEAN /\ Write(visit, drafts[visit], isDirty)
        BY <1>2, <2>1
      <3> HIDE DEF isDirty
      <3> QED BY <1>1, <1>2, <3>1, Written
    <2>2. CASE Mishap /\ UNCHANGED <<stored, dirty, overwritten>>
      BY <1>1, <2>2, DraftsAssumption DEF Mishap, DraftsTypeOK, CopyIsGood
    <2> QED BY <2>1, <2>2
  <1>4. \A v \in Visits : drafts'[v] = IF v = visit THEN drafts[v] ELSE NoDrafts
    BY <1>1
  <1>5. DraftsTypeOK'
    <2>1. drafts' \in [Visits -> [Conversations -> Draft]]
      BY <1>1, <1>2, EmptyIsDraft
    <2>2. /\ sends' \in [Conversations -> Sending \cup {NotSending}]
          /\ deleting' \in [Visits -> Deleting \cup {NotDeleting}]
          /\ persist' \in [Visits -> BOOLEAN]
      BY <1>1
    <2> QED BY <1>1, <1>3, <2>1, <2>2 DEF DraftsTypeOK
  <1>6. TextsApart'
    <2>1. ASSUME NEW c \in Conversations PROVE TextsOf(c)' \subseteq TextsOf(c) \cup {0}
      <3>1. stored'[c].text \in TextsOf(c)
        BY <1>2, <1>3, TextsAre
      <3>2. \A v \in Visits : drafts'[v][c].text \in TextsOf(c) \cup {0}
        BY <1>4, TextsAre, EmptyIsDraft
      <3>3. sends'[c].kind # "text"
        BY <1>1, KindOfSends
      <3> QED BY <3>1, <3>2, <3>3, NoNewTexts
    <2> QED BY <1>1, <2>1, StillApart DEF TextsApart
  <1>7. Departed'
    BY <1>1, KindOfSends DEF Departed, TextUnderWay
  <1>8. drafts'[visit'] = drafts[visit]
    BY <1>1, <1>2, <1>4
  <1>9. Kept'
    BY <1>1, <1>8 DEF Kept
  <1> QED BY <1>3, <1>5, <1>6, <1>7, <1>8, <1>9

\* The page opens and reads what is stored: of what a visit before has left, only
\* what is in the copy is still wanted.
LEMMA OpenChatInv ==
    ASSUME DraftsInv, OpenChat
    PROVE  DraftsInv'
  <1> USE DEF DraftsInv
  <1>1. PICK expired \in SUBSET Conversations :
          stored' = [c \in Conversations |-> IF c \in expired THEN Empty ELSE stored[c]]
    BY DEF OpenChat
  <1>2. /\ visit' = (IF Waiting THEN visit + 1 ELSE 1) /\ (Waiting => visit < MaxVisits)
        /\ drafts' = [v \in Visits |-> IF v = visit' THEN stored'
                                       ELSE IF Waiting THEN drafts[v]
                                       ELSE NoDrafts]
        /\ dirty' = [v \in Visits |-> Waiting /\ v # visit' /\ dirty[v]]
        /\ persist' = [v \in Visits |-> v # visit' /\ persist[v]]
        /\ wanted' = [c \in Conversations |->
                         IF CopyIsGood /\ c \notin overtaken /\ stored'[c] = stored[c]
                         THEN wanted[c] ELSE stored'[c]]
        /\ overtaken' = {} /\ overwritten' = FALSE /\ onChat' = TRUE
        /\ sent' = (IF CopyIsGood THEN sent
                    ELSE sent \ {stored[c].text : c \in Conversations})
        /\ UNCHANGED <<selected, sends, deleting, edits, mishaps>>
    BY DEF OpenChat
  <1>3. visit \in Visits /\ visit' \in Visits /\ visit \in Nat
    BY <1>2, DraftsAssumption DEF DraftsTypeOK, Visits
  <1>4. stored' \in [Conversations -> Draft]
    BY <1>1, EmptyIsDraft DEF DraftsTypeOK
  <1>5. /\ drafts'[visit'] = stored'
        /\ \A v \in Visits : drafts'[v] \in {stored', drafts[v], NoDrafts}
    BY <1>2, <1>3
  <1>6. sent' \subseteq sent
    BY <1>2
  <1>7. DraftsTypeOK'
    <2>1. drafts' \in [Visits -> [Conversations -> Draft]]
      BY <1>2, <1>4, EmptyIsDraft DEF DraftsTypeOK
    <2>2. wanted' \in [Conversations -> Draft]
      BY <1>2, <1>4 DEF DraftsTypeOK
    <2>3. dirty' \in [Visits -> BOOLEAN] /\ persist' \in [Visits -> BOOLEAN]
      BY <1>2 DEF DraftsTypeOK
    <2> QED BY <1>2, <1>3, <1>4, <1>6, <2>1, <2>2, <2>3 DEF DraftsTypeOK
  <1>8. \A c \in Conversations : stored'[c] \in {Empty, stored[c]}
    BY <1>1
  <1>9. TextsApart'
    <2>1. ASSUME NEW c \in Conversations PROVE TextsOf(c)' \subseteq TextsOf(c) \cup {0}
      <3>1. stored'[c].text \in TextsOf(c) \cup {0}
        BY <1>8, TextsAre, EmptyIsDraft
      <3>2. \A v \in Visits : drafts'[v][c].text \in TextsOf(c) \cup {0}
        BY <1>5, <3>1, TextsAre, EmptyIsDraft
      <3>3. sends'[c].kind = "text" => sends'[c].value \in TextsOf(c)
        BY <1>2, TextsAre
      <3> QED BY <3>1, <3>2, <3>3, NoNewTexts
    <2> QED BY <1>2, <1>6, <2>1, StillApart DEF TextsApart
  <1>10. Departed'
    <2> SUFFICES ASSUME NEW c \in Conversations
                 PROVE  /\ sends'[c] # NotSending => sends'[c].visit <= visit'
                        /\ sends'[c].kind = "text" => sends'[c].value # 0
                        /\ ~(sends'[c].kind = "text" /\ sends'[c].visit = visit')
      BY DEF Departed, TextUnderWay
    <2>1. sends'[c] = sends[c] /\ sends[c] \in Sending \cup {NotSending}
      BY <1>2 DEF DraftsTypeOK
    <2>2. CASE Waiting
      <3>1. visit' = visit + 1
        BY <1>2, <2>2
      <3>2. sends[c] # NotSending => sends[c].visit <= visit /\ sends[c].visit \in Nat
        BY <2>1, KindOfSends DEF Departed, Visits
      <3> QED BY <1>3, <2>1, <3>1, <3>2, KindOfSends DEF Departed
    <2>3. CASE ~Waiting
      <3>1. sends[c] = NotSending
        BY <2>3 DEF Waiting
      <3> QED BY <2>1, <3>1, KindOfSends
    <2> QED BY <2>2, <2>3
  <1>11. Kept'
    <2> SUFFICES ASSUME NEW c \in Conversations
                 PROVE  stored'[c] = wanted'[c] /\ stored'[c].text \notin sent'
      BY <1>5 DEF Kept
    <2>1. 0 \notin sent
      BY DEF TextsApart
    <2>2. CASE CopyIsGood
      <3>1. stored[c] = drafts[visit][c] /\ sent' = sent
        BY <1>2, <2>2
      <3>2. stored[c].text \notin sent
        BY <3>1 DEF Kept
      <3>3. c \notin overtaken => stored[c] = wanted[c]
        BY <3>1 DEF Kept
      <3> QED BY <1>2, <1>8, <2>1, <3>1, <3>2, <3>3, EmptyIsDraft
    <2>3. CASE ~CopyIsGood
      <3>1. wanted'[c] = stored'[c]
        BY <1>2, <2>3
      <3>2. stored[c].text \notin sent' /\ 0 \notin sent'
        BY <1>2, <2>1, <2>3
      <3> QED BY <1>8, <3>1, <3>2, EmptyIsDraft
    <2> QED BY <2>2, <2>3
  <1> QED BY <1>5, <1>7, <1>9, <1>10, <1>11

\* The user edits the draft of a conversation: a new text belongs to it alone.
LEMMA EditInv ==
    ASSUME DraftsInv, NEW field \in {"text", "reply"}, Edit(field)
    PROVE  DraftsInv'
  <1> USE DEF DraftsInv
  <1> DEFINE c == selected
             draft(value) == [drafts[visit][c] EXCEPT ![field] = value]
  <1>1. /\ onChat /\ c \in Conversations /\ edits < MaxEdits /\ edits' = edits + 1
        /\ visit \in Visits
        /\ UNCHANGED <<onChat, visit, selected, stored, sends, deleting, mishaps, sent,
                       overwritten>>
    BY DEF Edit, DraftsTypeOK
  <1>2. PICK value \in {0, edits + 1} :
          /\ draft(value) # drafts[visit][c]
          /\ Put(visit, c, draft(value))
          /\ wanted' = [wanted EXCEPT ![c] = draft(value)]
    BY DEF Edit
  <1> DEFINE new == draft(value)
  <1>3. /\ drafts' = [drafts EXCEPT ![visit][c] = new]
        /\ wanted' = [wanted EXCEPT ![c] = new]
        /\ dirty' = [dirty EXCEPT ![visit] = TRUE]
        /\ persist' = [persist EXCEPT ![visit] = TRUE]
    BY <1>2 DEF Put
  <1>4. /\ overtaken' \subseteq Conversations
        /\ \A d \in Conversations : d # c => (d \in overtaken' <=> d \in overtaken)
    BY <1>1 DEF Edit, DraftsTypeOK
  <1>5. edits \in 0..MaxEdits /\ edits' \in 0..MaxEdits /\ edits \in Nat
    BY <1>1, DraftsAssumption DEF DraftsTypeOK
  <1>6. new \in Draft /\ new.text \in {drafts[visit][c].text, 0, edits + 1}
    <2>1. drafts[visit][c] \in Draft /\ value \in 0..MaxEdits
      BY <1>1, <1>5, DraftsAssumption DEF DraftsTypeOK
    <2> QED BY <2>1, EditedDraft
  <1> HIDE DEF new, draft
  <1>7. /\ drafts' \in [Visits -> [Conversations -> Draft]]
        /\ drafts'[visit][c] = new
        /\ \A v \in Visits, d \in Conversations :
              v # visit \/ d # c => drafts'[v][d] = drafts[v][d]
    BY <1>1, <1>3, <1>6 DEF DraftsTypeOK
  <1>8. /\ wanted' \in [Conversations -> Draft] /\ wanted'[c] = new
        /\ \A d \in Conversations : d # c => wanted'[d] = wanted[d]
    BY <1>1, <1>3, <1>6 DEF DraftsTypeOK
  <1>9. dirty' \in [Visits -> BOOLEAN] /\ persist' \in [Visits -> BOOLEAN] /\ ~CopyIsGood'
    BY <1>1, <1>3 DEF DraftsTypeOK, CopyIsGood
  <1>10. DraftsTypeOK'
    BY <1>1, <1>4, <1>5, <1>7, <1>8, <1>9 DEF DraftsTypeOK
  <1>11. ASSUME NEW d \in Conversations
         PROVE  TextsOf(d)' \subseteq TextsOf(d) \cup {0}
                                    \cup (IF d = c THEN {edits + 1} ELSE {})
    <2>1. CASE d # c
      <3>1. TextsOf(d)' = TextsOf(d)
        BY <1>1, <1>7, <2>1 DEF TextsOf
      <3> QED BY <3>1
    <2>2. CASE d = c
      <3>1. TextsOf(d)' = {stored[d].text} \cup {drafts'[v][d].text : v \in Visits}
                \cup (IF sends[d].kind = "text" THEN {sends[d].value} ELSE {})
        BY <1>1 DEF TextsOf
      <3>2. \A v \in Visits : drafts'[v][d].text \in TextsOf(d) \cup {0, edits + 1}
        BY <1>1, <1>6, <1>7, <2>2, TextsAre
      <3> QED BY <2>2, <3>1, <3>2, TextsAre
    <2> QED BY <2>1, <2>2
  <1>12. \A d \in Conversations : edits + 1 \notin TextsOf(d)
    BY <1>5 DEF TextsApart
  <1>13. TextsApart'
    <2>1. \A d \in Conversations : TextsOf(d)' \subseteq 0..edits'
      <3>1. \A d \in Conversations : TextsOf(d) \subseteq 0..edits'
        BY <1>1, <1>5 DEF TextsApart
      <3> QED BY <1>1, <1>5, <1>11, <3>1
    <2>2. sent' \subseteq 1..edits'
      BY <1>1, <1>5 DEF TextsApart
    <2>3. ASSUME NEW d \in Conversations, NEW e \in Conversations, d # e
          PROVE  TextsOf(d)' \cap TextsOf(e)' \subseteq {0}
      <3>1. TextsOf(d) \cap TextsOf(e) \subseteq {0}
        BY <2>3 DEF TextsApart
      <3> SUFFICES ASSUME NEW x \in TextsOf(d)' \cap TextsOf(e)', x # 0 PROVE FALSE
        OBVIOUS
      <3>2. x \in TextsOf(d) \/ (d = c /\ x = edits + 1)
        <4>1. x \in TextsOf(d) \cup {0} \cup (IF d = c THEN {edits + 1} ELSE {})
          BY <1>11
        <4> QED BY <4>1
      <3>3. x \in TextsOf(e) \/ (e = c /\ x = edits + 1)
        <4>1. x \in TextsOf(e) \cup {0} \cup (IF e = c THEN {edits + 1} ELSE {})
          BY <1>11
        <4> QED BY <4>1
      <3> QED BY <1>12, <2>3, <3>1, <3>2, <3>3
    <2> QED BY <2>1, <2>2, <2>3 DEF TextsApart
  <1>14. Departed'
    BY <1>1, <1>7, <1>8 DEF Departed, TextUnderWay
  <1>15. Kept'
    <2>1. new.text \notin sent
      <3>1. drafts[visit][c].text \notin sent
        BY <1>1 DEF Kept
      <3>2. 0 \notin sent /\ edits + 1 \notin sent
        BY <1>5 DEF TextsApart
      <3> QED BY <1>6, <3>1, <3>2
    <2> QED BY <1>1, <1>4, <1>7, <1>8, <2>1 DEF Kept
  <1> QED BY <1>9, <1>10, <1>13, <1>14, <1>15

\* A message leaves or fails, or a deletion is asked for or fails: no draft changes.
LEMMA SendsInv ==
    ASSUME DraftsInv, NEW c \in Conversations,
           NEW s \in Sending \cup {NotSending},
           sends' = [sends EXCEPT ![c] = s],
           \/ s \in {NotSending, sends[c]}
           \/ /\ s.visit = visit
              /\ s.kind = "text" => s.value # 0 /\ s.value = drafts[visit][c].text,
           overtaken' = overtaken \/ (overtaken' = overtaken \ {c} /\ TextUnderWay(c)),
           mishaps' \in 0..MaxFaults,
           deleting' \in [Visits -> Deleting \cup {NotDeleting}],
           UNCHANGED <<onChat, visit, selected, drafts, dirty, persist, stored, edits,
                       wanted, sent, overwritten>>
    PROVE  DraftsInv'
  <1> USE DEF DraftsInv
  <1>1. sends' \in [Conversations -> Sending \cup {NotSending}] /\ sends'[c] = s
        /\ \A d \in Conversations \ {c} : sends'[d] = sends[d]
    BY DEF DraftsTypeOK
  <1>2. DraftsTypeOK'
    BY <1>1 DEF DraftsTypeOK
  <1>3. visit \in Visits /\ visit \in Nat
    BY DEF DraftsTypeOK, Visits
  <1>4. TextsApart'
    <2>1. ASSUME NEW d \in Conversations PROVE TextsOf(d)' \subseteq TextsOf(d) \cup {0}
      <3>1. sends'[d].kind = "text" => sends'[d].value \in TextsOf(d)
        BY <1>1, <1>3, TextsAre, KindOfSends
      <3> QED BY <3>1, TextsAre, NoNewTexts
    <2> QED BY <2>1, StillApart DEF TextsApart
  <1>5. Kept'
    BY DEF Kept, Departed
  <1>6. Departed'
    <2>1. ASSUME s # NotSending, s # sends[c], s.kind = "text"
          PROVE  s.visit = visit /\ s.value # 0 /\ drafts[visit][c] = wanted[c]
      BY <2>1 DEF Kept
    <2>2. s # NotSending /\ s # sends[c] => s.visit <= visit
      BY <1>3
    <2> QED BY <1>1, <2>1, <2>2, KindOfSends DEF Departed, TextUnderWay
  <1>7. CopyIsGood' <=> CopyIsGood
    BY DEF CopyIsGood
  <1> QED BY <1>2, <1>4, <1>5, <1>6, <1>7

\* A message leaves: its draft stays until it is answered.
LEMMA SendInv ==
    ASSUME DraftsInv, NEW kind \in {"text", "reply"}, Send(kind)
    PROVE  DraftsInv'
  <1> DEFINE value == drafts[visit][selected][kind]
             s == [kind |-> kind, value |-> value, visit |-> visit]
  <1>1. /\ selected \in Conversations /\ visit \in Visits
        /\ drafts[visit][selected] \in Draft
    BY DEF Send, DraftsInv, DraftsTypeOK
  <1>2. value \in 0..MaxEdits /\ (kind = "text" => value = drafts[visit][selected].text)
    BY <1>1 DEF Draft
  <1>3. s \in Sending /\ s.visit = visit /\ s.kind = kind /\ s.value = value
    BY <1>1, <1>2 DEF Sending
  <1>4. /\ sends' = [sends EXCEPT ![selected] = s]
        /\ kind = "text" => value # 0
        /\ UNCHANGED <<onChat, visit, selected, drafts, dirty, persist, stored, deleting,
                       edits, mishaps, wanted, overtaken, sent, overwritten>>
    BY DEF Send, Sendable
  <1>5. /\ mishaps' \in 0..MaxFaults
        /\ deleting' \in [Visits -> Deleting \cup {NotDeleting}]
    BY <1>4 DEF DraftsInv, DraftsTypeOK
  <1> HIDE DEF s, value
  <1> QED BY <1>1, <1>2, <1>3, <1>4, <1>5, SendsInv

\* A message fails: the draft is as it was.
LEMMA SendFailsInv ==
    ASSUME DraftsInv, NEW c \in Conversations, SendFails(c)
    PROVE  DraftsInv'
  <1> DEFINE s == NotSending
  <1>1. s \in Sending \cup {NotSending} /\ s = NotSending
    OBVIOUS
  <1>2. /\ sends' = [sends EXCEPT ![c] = s] /\ Mishap
        /\ UNCHANGED <<onChat, visit, selected, drafts, dirty, persist, stored, deleting,
                       edits, wanted, sent, overwritten>>
    BY DEF SendFails
  <1>3. /\ mishaps' \in 0..MaxFaults
        /\ deleting' \in [Visits -> Deleting \cup {NotDeleting}]
    BY <1>2, DraftsAssumption DEF Mishap, DraftsInv, DraftsTypeOK
  <1>4. overtaken' = overtaken \/ (overtaken' = overtaken \ {c} /\ TextUnderWay(c))
    BY DEF SendFails
  <1> HIDE DEF s
  <1> QED BY <1>1, <1>2, <1>3, <1>4, SendsInv

\* A deletion is asked for, or fails.
LEMMA AskInv ==
    ASSUME DraftsInv, NEW v \in Visits, NEW d \in Deleting \cup {NotDeleting},
           deleting' = [deleting EXCEPT ![v] = d], mishaps' \in 0..MaxFaults,
           UNCHANGED <<onChat, visit, selected, drafts, dirty, persist, stored, sends,
                       edits, wanted, overtaken, sent, overwritten>>
    PROVE  DraftsInv'
  <1> USE DEF DraftsInv
  <1>1. DraftsTypeOK'
    BY DEF DraftsTypeOK
  <1>2. TextsApart'
    <2>1. \A c \in Conversations : TextsOf(c)' = TextsOf(c)
      BY DEF TextsOf
    <2> QED BY <2>1 DEF TextsApart
  <1>3. Departed' /\ Kept' /\ (CopyIsGood' <=> CopyIsGood)
    BY DEF Departed, Kept, TextUnderWay, CopyIsGood
  <1> QED BY <1>1, <1>2, <1>3

\* The draft of c in visit v becomes one that has no text of its own to lose.
LEMMA DraftChanges ==
    ASSUME DraftsInv, NEW v \in Visits, NEW c \in Conversations,
           NEW draft \in Draft, NEW w \in Draft, NEW x,
           drafts' = [drafts EXCEPT ![v][c] = draft],
           draft.text \in {0, drafts[v][c].text},
           sends' = sends \/ sends' = [sends EXCEPT ![c] = NotSending],
           stored' = stored \/ stored' = drafts'[v],
           CopyIsGood' => stored' = drafts'[visit],
           IF v = visit
           THEN /\ wanted' = [wanted EXCEPT ![c] = w]
                /\ overtaken' \in {overtaken, overtaken \ {c}}
                /\ draft = w \/ (c \in overtaken' /\ draft.text = 0)
                /\ sends' = sends /\ TextUnderWay(c) => draft = w
                /\ sent' \subseteq sent \cup ({x} \ {0})
                /\ x \in TextsOf(c) \cup {0}
                /\ draft.text = x => x = 0 \/ sent' = sent
           ELSE UNCHANGED <<wanted, overtaken, sent>>,
           dirty' \in [Visits -> BOOLEAN], persist' \in [Visits -> BOOLEAN],
           deleting' \in [Visits -> Deleting \cup {NotDeleting}],
           mishaps' \in 0..MaxFaults, overwritten' \in BOOLEAN,
           selected' \in Conversations \cup {NoConversation},
           UNCHANGED <<onChat, visit, edits>>
    PROVE  DraftsInv'
  <1> USE DEF DraftsInv
  <1>1. /\ drafts' \in [Visits -> [Conversations -> Draft]] /\ drafts'[v][c] = draft
        /\ \A u \in Visits, d \in Conversations :
              u # v \/ d # c => drafts'[u][d] = drafts[u][d]
    BY DEF DraftsTypeOK
  <1>2. /\ sends' \in [Conversations -> Sending \cup {NotSending}]
        /\ sends'[c] \in {sends[c], NotSending}
        /\ sends'[c] = sends[c] => sends' = sends
        /\ \A d \in Conversations \ {c} : sends'[d] = sends[d]
    <2>1. sends \in [Conversations -> Sending \cup {NotSending}]
      BY DEF DraftsTypeOK
    <2>2. CASE sends' = sends
      BY <2>1, <2>2
    <2>3. CASE sends' = [sends EXCEPT ![c] = NotSending]
      BY <2>1, <2>3
    <2> QED BY <2>2, <2>3
  <1>3. visit \in Visits /\ visit' = visit
    BY DEF DraftsTypeOK
  <1>4. /\ wanted' \in [Conversations -> Draft] /\ overtaken' \subseteq Conversations
        /\ v = visit => wanted'[c] = w
        /\ \A d \in Conversations \ {c} : /\ wanted'[d] = wanted[d]
                                          /\ d \in overtaken' <=> d \in overtaken
    BY DEF DraftsTypeOK
  <1>5. edits \in 0..MaxEdits /\ edits \in Nat
    BY DraftsAssumption DEF DraftsTypeOK
  <1>6. sent' \subseteq 1..edits
    <2>1. sent \subseteq 1..edits /\ TextsOf(c) \subseteq 0..edits
      BY DEF TextsApart
    <2>2. v = visit => {x} \ {0} \subseteq 1..edits
      BY <1>5, <2>1
    <2> QED BY <2>1, <2>2
  <1>7. DraftsTypeOK'
    <2>1. stored' \in [Conversations -> Draft]
      <3>1. stored \in [Conversations -> Draft]
        BY DEF DraftsTypeOK
      <3>2. CASE stored' = stored
        BY <3>1, <3>2
      <3>3. CASE stored' = drafts'[v]
        BY <1>1, <3>3
      <3> QED BY <3>2, <3>3
    <2>2. sent' \subseteq 1..MaxEdits
      BY <1>5, <1>6, DraftsAssumption
    <2> QED BY <1>1, <1>2, <1>4, <2>1, <2>2 DEF DraftsTypeOK
  <1>8. TextsApart'
    <2>1. ASSUME NEW d \in Conversations PROVE TextsOf(d)' \subseteq TextsOf(d) \cup {0}
      <3>1. \A u \in Visits : drafts'[u][d].text \in TextsOf(d) \cup {0}
        BY <1>1, TextsAre
      <3>2. stored'[d].text \in TextsOf(d) \cup {0}
        BY <3>1, TextsAre
      <3>3. sends'[d].kind = "text" => sends'[d].value \in TextsOf(d)
        BY <1>2, TextsAre, KindOfSends
      <3> QED BY <3>1, <3>2, <3>3, NoNewTexts
    <2> QED BY <1>6, <2>1, StillApart
  <1>9. Departed'
    <2> SUFFICES ASSUME NEW d \in Conversations
                 PROVE  /\ sends'[d] # NotSending => sends'[d].visit <= visit
                        /\ sends'[d].kind = "text" => sends'[d].value # 0
                        /\ sends'[d].kind = "text" /\ sends'[d].visit = visit =>
                              drafts'[visit][d] = wanted'[d]
      BY <1>3 DEF Departed, TextUnderWay
    <2>1. /\ sends[d] # NotSending => sends[d].visit <= visit
          /\ sends[d].kind = "text" => sends[d].value # 0
          /\ sends[d].kind = "text" /\ sends[d].visit = visit =>
                drafts[visit][d] = wanted[d]
      BY DEF Departed, TextUnderWay
    <2>2. CASE d # c
      BY <1>1, <1>2, <1>3, <1>4, <2>1, <2>2
    <2>3. CASE d = c /\ sends'[c] = NotSending
      BY <2>3, KindOfSends
    <2>4. CASE d = c /\ sends'[c] = sends[c] /\ v = visit
      <3>1. sends[c].kind = "text" /\ sends[c].visit = visit => draft = w
        BY <1>2, <2>4 DEF TextUnderWay
      <3> QED BY <1>1, <1>4, <2>1, <2>4, <3>1
    <2>5. CASE d = c /\ sends'[c] = sends[c] /\ v # visit
      BY <1>1, <1>3, <2>1, <2>5
    <2> QED BY <1>2, <2>2, <2>3, <2>4, <2>5
  <1>10. Kept'
    <2> SUFFICES ASSUME NEW d \in Conversations
                 PROVE  /\ \/ drafts'[visit][d] = wanted'[d]
                           \/ d \in overtaken' /\ drafts'[visit][d].text = 0
                        /\ drafts'[visit][d].text \notin sent'
      BY <1>3 DEF Kept
    <2>1. /\ \/ drafts[visit][d] = wanted[d]
             \/ d \in overtaken /\ drafts[visit][d].text = 0
          /\ drafts[visit][d].text \notin sent
      BY DEF Kept
    <2>2. CASE v # visit
      BY <1>1, <1>3, <2>1, <2>2
    <2>3. CASE v = visit /\ d # c
      <3>1. drafts'[visit][d] = drafts[visit][d]
        BY <1>1, <1>3, <2>3
      <3>2. x # 0 => drafts[visit][d].text # x
        <4>1. TextsOf(c) \cap TextsOf(d) \subseteq {0}
          BY <2>3 DEF TextsApart
        <4> QED BY <1>3, <2>3, <4>1, TextsAre
      <3> QED BY <1>4, <2>1, <2>3, <3>1, <3>2
    <2>4. CASE v = visit /\ d = c
      <3>1. draft.text \notin sent /\ 0 \notin sent
        BY <1>3, <2>1, <2>4 DEF TextsApart
      <3>2. draft.text \notin sent'
        BY <2>4, <3>1
      <3> QED BY <1>1, <1>4, <2>4, <3>2
    <2> QED BY <2>2, <2>3, <2>4
  <1> QED BY <1>3, <1>7, <1>8, <1>9, <1>10

\* The answer to a deletion clears the draft of the visit that has asked for it.
LEMMA DeletedInv ==
    ASSUME DraftsInv, NEW v \in Visits, Deleted(v)
    PROVE  DraftsInv'
  <1> USE DEF DraftsInv
  <1> DEFINE c == deleting[v].conversation
             draft == Empty
  <1>1. c \in Conversations
    BY DEF Deleted, DraftsTypeOK, Deleting
  <1>2. /\ deleting' = [deleting EXCEPT ![v] = NotDeleting]
        /\ drafts' = [drafts EXCEPT ![v][c] = draft]
        /\ IF draft = drafts[v][c] THEN UNCHANGED <<dirty, persist>>
           ELSE /\ dirty' = [dirty EXCEPT ![v] = TRUE]
                /\ persist' = [persist EXCEPT ![v] = TRUE]
        /\ wanted' = IF v = visit THEN [wanted EXCEPT ![c] = draft] ELSE wanted
        /\ overtaken' = IF v = visit THEN overtaken \ {c} ELSE overtaken
        /\ selected' \in {selected, NoConversation}
        /\ UNCHANGED <<onChat, visit, stored, sends, edits, mishaps, sent, overwritten>>
    BY DEF Deleted, Put
  <1>3. draft \in Draft /\ draft.text = 0
    BY EmptyIsDraft
  <1> HIDE DEF draft, c
  <1>4. /\ dirty' \in [Visits -> BOOLEAN] /\ persist' \in [Visits -> BOOLEAN]
        /\ deleting' \in [Visits -> Deleting \cup {NotDeleting}]
        /\ mishaps' \in 0..MaxFaults /\ overwritten' \in BOOLEAN
        /\ selected' \in Conversations \cup {NoConversation}
    BY <1>2 DEF DraftsTypeOK
  <1>5. CopyIsGood' => stored' = drafts'[visit]
    <2>1. CASE drafts' = drafts
      <3>1. CopyIsGood' => CopyIsGood
        BY <1>2 DEF CopyIsGood, DraftsTypeOK
      <3> QED BY <1>2, <2>1, <3>1
    <2>2. CASE drafts' # drafts
      <3>1. draft # drafts[v][c]
        BY <1>1, <1>2, <2>2 DEF DraftsTypeOK
      <3>2. v # visit => drafts'[visit] = drafts[visit] /\ dirty'[visit] = dirty[visit]
        BY <1>2, <3>1 DEF DraftsTypeOK
      <3>3. v = visit => dirty'[visit]
        BY <1>2, <3>1 DEF DraftsTypeOK
      <3> QED BY <1>2, <3>2, <3>3 DEF CopyIsGood
    <2> QED BY <2>1, <2>2
  <1> DEFINE x == 0
  <1>6. /\ sent' \subseteq sent \cup ({x} \ {0}) /\ x \in TextsOf(c) \cup {0}
        /\ draft.text = x => x = 0 \/ sent' = sent
    BY <1>2
  <1> HIDE DEF x
  <1> QED BY <1>1, <1>2, <1>3, <1>4, <1>5, <1>6, DraftChanges

\* What a visit writes when one of its drafts has changed is what it then has.
LEMMA AnswerWritten ==
    ASSUME DraftsInv, NEW v \in Visits, NEW c \in Conversations, NEW draft \in Draft,
           drafts' = [drafts EXCEPT ![v][c] = draft],
           NEW isDirty \in BOOLEAN, ~isDirty => ~dirty[v] /\ drafts[v][c] = draft,
           Flush(v, drafts'[v], isDirty), visit' = visit
    PROVE  /\ dirty' \in [Visits -> BOOLEAN] /\ persist' \in [Visits -> BOOLEAN]
           /\ mishaps' \in 0..MaxFaults /\ overwritten' \in BOOLEAN
           /\ stored' = stored \/ stored' = drafts'[v]
           /\ CopyIsGood' => stored' = drafts'[visit]
  <1> USE DEF DraftsInv
  <1> DEFINE ds == drafts'[v]
  <1>1. /\ drafts' \in [Visits -> [Conversations -> Draft]] /\ visit \in Visits
        /\ drafts[v][c] = draft => drafts' = drafts
        /\ \A u \in Visits : u # v => drafts'[u] = drafts[u]
    BY DEF DraftsTypeOK
  <1>2. ds \in [Conversations -> Draft] /\ Write(v, ds, isDirty)
    BY <1>1 DEF Flush
  <1>3. persist' \in [Visits -> BOOLEAN]
    BY DEF Flush, DraftsTypeOK
  <1> HIDE DEF ds
  <1>4. /\ dirty' \in [Visits -> BOOLEAN]
        /\ overwritten' \in BOOLEAN /\ mishaps' \in 0..MaxFaults
        /\ stored' = stored \/ stored' = ds
        /\ CopyIsGood' => \/ v = visit /\ stored' = ds
                          \/ /\ stored' = stored /\ CopyIsGood
                             /\ v = visit => ~isDirty
    BY <1>2, Written
  <1>5. CopyIsGood' => stored' = drafts'[visit]
    <2>1. CASE v = visit /\ stored' = ds
      BY <2>1 DEF ds
    <2>2. CASE stored' = stored /\ CopyIsGood /\ (v = visit => ~isDirty)
      <3>1. drafts'[visit] = drafts[visit]
        BY <1>1, <2>2
      <3> QED BY <2>2, <3>1
    <2> QED BY <1>4, <2>1, <2>2
  <1> QED BY <1>3, <1>4, <1>5 DEF ds

\* The answer of a text clears the draft it came from and nothing else.
LEMMA TextSentInv ==
    ASSUME DraftsInv, NEW c \in Conversations, TextSent(c)
    PROVE  DraftsInv'
  <1> USE DEF DraftsInv
  <1> DEFINE v == sends[c].visit
             x == sends[c].value
             draft == Empty
             w == IF c \in overtaken THEN wanted[c] ELSE Empty
             isDirty == dirty[v] \/ drafts[v][c] # Empty
  <1>1. sends[c] \in Sending /\ v \in Visits
    BY KindOfSends DEF TextSent, DraftsTypeOK
  <1>2. /\ sends[c].kind = "text" /\ sends' = [sends EXCEPT ![c] = NotSending]
        /\ drafts' = [drafts EXCEPT ![v][c] = draft]
        /\ Flush(v, drafts'[v], isDirty)
        /\ sent' = IF v = visit THEN sent \cup {x} ELSE sent
        /\ UNCHANGED <<onChat, visit, selected, deleting, edits, overtaken>>
    BY DEF TextSent
  <1>3. wanted' = IF v = visit THEN [wanted EXCEPT ![c] = w] ELSE wanted
    BY DEF TextSent, DraftsTypeOK
  <1>4. draft \in Draft /\ draft.text = 0 /\ w \in Draft /\ draft.text \in {0, drafts[v][c].text}
    BY EmptyIsDraft DEF DraftsTypeOK
  <1>5. draft = w \/ (c \in overtaken' /\ draft.text = 0)
    BY <1>2, <1>4
  <1>6. isDirty \in BOOLEAN /\ (~isDirty => ~dirty[v] /\ drafts[v][c] = draft)
    BY <1>1 DEF DraftsTypeOK
  <1>7. x # 0 /\ x \in TextsOf(c)
    BY <1>2, TextsAre DEF Departed
  <1>8. sends' # sends
    BY <1>2, KindOfSends DEF DraftsTypeOK
  <1>9. /\ deleting' \in [Visits -> Deleting \cup {NotDeleting}]
        /\ selected' \in Conversations \cup {NoConversation}
    BY <1>2 DEF DraftsTypeOK
  <1> HIDE DEF draft, w, isDirty, x, v
  <1>10. /\ dirty' \in [Visits -> BOOLEAN] /\ persist' \in [Visits -> BOOLEAN]
         /\ mishaps' \in 0..MaxFaults /\ overwritten' \in BOOLEAN
         /\ stored' = stored \/ stored' = drafts'[v]
         /\ CopyIsGood' => stored' = drafts'[visit]
    BY <1>1, <1>2, <1>4, <1>6, AnswerWritten
  <1>11. v = visit => /\ sent' \subseteq sent \cup ({x} \ {0}) /\ x \in TextsOf(c) \cup {0}
                      /\ draft.text = x => x = 0 \/ sent' = sent
    BY <1>2, <1>4, <1>7
  <1> QED BY <1>1, <1>2, <1>3, <1>4, <1>5, <1>8, <1>9, <1>10, <1>11, DraftChanges

\* The answer of files clears the quotation they were sent with, never a text.
LEMMA FileSentInv ==
    ASSUME DraftsInv, NEW c \in Conversations, FileSent(c)
    PROVE  DraftsInv'
  <1> USE DEF DraftsInv
  <1> DEFINE v == sends[c].visit
             reply == sends[c].value
             draft == WithoutReply(drafts[v][c], reply)
             w == WithoutReply(wanted[c], reply)
             s == NotSending
  <1>1. sends[c] \in Sending /\ v \in Visits
    BY KindOfSends DEF FileSent, DraftsTypeOK
  <1>2. /\ sends[c].kind = "reply" /\ sends' = [sends EXCEPT ![c] = s]
        /\ UNCHANGED <<onChat, visit, selected, deleting, edits, overtaken, sent>>
    BY DEF FileSent
  <1>3. /\ deleting' \in [Visits -> Deleting \cup {NotDeleting}]
        /\ selected' \in Conversations \cup {NoConversation}
    BY <1>2 DEF DraftsTypeOK
  <1>4. CASE reply = 0
    <2>1. UNCHANGED <<onChat, visit, selected, drafts, dirty, persist, stored, mishaps,
                      edits, wanted, overtaken, sent, overwritten>>
      BY <1>2, <1>4 DEF FileSent
    <2>2. mishaps' \in 0..MaxFaults
      BY <2>1 DEF DraftsTypeOK
    <2>3. s \in Sending \cup {NotSending} /\ s \in {NotSending, sends[c]}
      OBVIOUS
    <2> HIDE DEF s
    <2> QED BY <1>2, <1>3, <2>1, <2>2, <2>3, SendsInv
  <1>5. CASE reply # 0
    <2> DEFINE isDirty == dirty[v] \/ drafts[v][c] # Empty
    <2>1. /\ drafts' = [drafts EXCEPT ![v][c] = draft]
          /\ Flush(v, drafts'[v], isDirty)
      BY <1>5 DEF FileSent
    <2>2. wanted' = IF v = visit THEN [wanted EXCEPT ![c] = w] ELSE wanted
      <3>1. CASE v = visit /\ wanted[c].reply = reply
        <4>1. wanted' = [wanted EXCEPT ![c].reply = 0]
          BY <1>5, <3>1 DEF FileSent
        <4> QED BY <3>1, <4>1 DEF WithoutReply
      <3>2. CASE v = visit /\ wanted[c].reply # reply
        <4>1. wanted' = wanted /\ w = wanted[c]
          BY <1>5, <3>2 DEF FileSent, WithoutReply
        <4> QED BY <3>2, <4>1 DEF DraftsTypeOK
      <3>3. CASE v # visit
        BY <3>3 DEF FileSent
      <3> QED BY <3>1, <3>2, <3>3
    <2>3. drafts[v][c] \in Draft /\ wanted[c] \in Draft
      BY <1>1 DEF DraftsTypeOK
    <2>4. draft \in Draft /\ w \in Draft /\ draft.text = drafts[v][c].text
      BY <2>3, WithoutReplyIsDraft
    <2>5. v = visit => draft = w \/ (c \in overtaken' /\ draft.text = 0)
      <3>1. v = visit => drafts[v][c] = wanted[c]
                         \/ (c \in overtaken /\ drafts[v][c].text = 0)
        BY DEF Kept
      <3> QED BY <1>2, <2>4, <3>1
    <2>6. isDirty \in BOOLEAN
      BY <1>1 DEF DraftsTypeOK
    <2>7. ~isDirty => ~dirty[v] /\ drafts[v][c] = draft
      <3>1. ~isDirty => drafts[v][c] = Empty
        OBVIOUS
      <3>2. WithoutReply(Empty, reply) = Empty
        BY <1>5 DEF WithoutReply, Empty
      <3> QED BY <3>1, <3>2
    <2>8. sends' # sends
      BY <1>1, <1>2, KindOfSends DEF DraftsTypeOK
    <2> DEFINE x == 0
    <2>9. /\ sent' \subseteq sent \cup ({x} \ {0}) /\ x \in TextsOf(c) \cup {0}
          /\ draft.text = x => x = 0 \/ sent' = sent
      BY <1>2
    <2>10. sends' = [sends EXCEPT ![c] = NotSending]
           /\ draft.text \in {0, drafts[v][c].text}
      BY <1>2, <2>4
    <2> HIDE DEF draft, w, isDirty, x, v, reply, s
    <2>11. /\ dirty' \in [Visits -> BOOLEAN] /\ persist' \in [Visits -> BOOLEAN]
           /\ mishaps' \in 0..MaxFaults /\ overwritten' \in BOOLEAN
           /\ stored' = stored \/ stored' = drafts'[v]
           /\ CopyIsGood' => stored' = drafts'[visit]
      BY <1>1, <1>2, <2>1, <2>4, <2>6, <2>7, AnswerWritten
    <2> QED BY <1>1, <1>2, <1>3, <2>1, <2>2, <2>4, <2>5, <2>8, <2>9, <2>10, <2>11,
               DraftChanges
  <1> QED BY <1>4, <1>5

\* Every step keeps the invariant.
LEMMA DraftsStep == DraftsInv /\ [DraftsNext]_wdVars => DraftsInv'
  <1> SUFFICES ASSUME DraftsInv, [DraftsNext]_wdVars PROVE DraftsInv'
    OBVIOUS
  <1> USE DEF DraftsInv
  <1>1. visit \in Visits /\ selected \in Conversations \cup {NoConversation}
        /\ onChat \in BOOLEAN /\ mishaps \in 0..MaxFaults
    BY DEF DraftsTypeOK
  <1>2. CASE OpenChat
    BY <1>2, OpenChatInv
  <1>3. CASE LeaveChat
    <2>1. /\ onChat' \in BOOLEAN /\ selected' \in Conversations \cup {NoConversation}
          /\ Write(visit, drafts[visit], dirty[visit])
          /\ persist' = [persist EXCEPT ![visit] = FALSE]
          /\ UNCHANGED <<visit, drafts, sends, deleting, edits, wanted, overtaken, sent>>
      BY <1>3 DEF LeaveChat, Flush
    <2> QED BY <1>1, <2>1, FlushInv
  <1>4. CASE CloseTab \/ KillTab
    BY <1>4, EndsInv DEF CloseTab, KillTab
  <1>5. CASE Edit("text") \/ Edit("reply")
    BY <1>5, EditInv
  <1>6. CASE Send("text") \/ Send("reply")
    BY <1>6, SendInv
  <1>7. ASSUME NEW v \in Visits, Persist(v) PROVE DraftsInv'
    <2>1. /\ onChat' \in BOOLEAN /\ selected' \in Conversations \cup {NoConversation}
          /\ Write(v, drafts[v], dirty[v])
          /\ persist' = [persist EXCEPT ![v] = FALSE]
          /\ UNCHANGED <<visit, drafts, sends, deleting, edits, wanted, overtaken, sent>>
      BY <1>1, <1>7 DEF Persist, Flush
    <2> QED BY <2>1, FlushInv
  <1>8. ASSUME NEW v \in Visits, Deleted(v) PROVE DraftsInv'
    BY <1>8, DeletedInv
  <1>9. ASSUME NEW v \in Visits, DeleteFails(v) PROVE DraftsInv'
    <2> DEFINE d == NotDeleting
    <2>1. d \in Deleting \cup {NotDeleting} /\ deleting' = [deleting EXCEPT ![v] = d]
          /\ UNCHANGED <<onChat, visit, selected, drafts, dirty, persist, stored, sends,
                         edits, wanted, overtaken, sent, overwritten>>
      BY <1>9 DEF DeleteFails
    <2>2. mishaps' \in 0..MaxFaults
      BY <1>1, <1>9, DraftsAssumption DEF DeleteFails, Mishap
    <2> HIDE DEF d
    <2> QED BY <2>1, <2>2, AskInv
  <1>10. ASSUME NEW c \in Conversations, Select(c) PROVE DraftsInv'
    <2>1. /\ onChat' \in BOOLEAN /\ selected' \in Conversations \cup {NoConversation}
          /\ Write(visit, drafts[visit], dirty[visit])
          /\ persist' = [persist EXCEPT ![visit] = FALSE]
          /\ UNCHANGED <<visit, drafts, sends, deleting, edits, wanted, overtaken, sent>>
      BY <1>1, <1>10 DEF Select, Flush
    <2> QED BY <1>1, <2>1, FlushInv
  <1>11. ASSUME NEW c \in Conversations, TextSent(c) \/ FileSent(c) \/ SendFails(c)
         PROVE  DraftsInv'
    BY <1>11, TextSentInv, FileSentInv, SendFailsInv
  <1>12. ASSUME NEW c \in Conversations, AskDelete(c) PROVE DraftsInv'
    <2> DEFINE d == [conversation |-> c, active |-> selected = c]
    <2>1. d \in Deleting \cup {NotDeleting}
      BY DEF Deleting
    <2>2. deleting' = [deleting EXCEPT ![visit] = d] /\ mishaps' = mishaps
          /\ UNCHANGED <<onChat, visit, selected, drafts, dirty, persist, stored, sends,
                         edits, wanted, overtaken, sent, overwritten>>
      BY <1>12 DEF AskDelete
    <2> HIDE DEF d
    <2> QED BY <1>1, <2>1, <2>2, AskInv
  <1>13. CASE UNCHANGED wdVars
    <2>1. /\ UNCHANGED <<onChat, visit, selected, drafts, dirty, persist, stored>>
          /\ UNCHANGED <<sends, deleting, edits, mishaps, wanted, overtaken, sent>>
          /\ UNCHANGED overwritten
      BY <1>13 DEF wdVars
    <2>2. DraftsTypeOK'
      BY <2>1 DEF DraftsTypeOK
    <2>3. TextsApart'
      <3>1. \A c \in Conversations : TextsOf(c)' = TextsOf(c)
        BY <2>1 DEF TextsOf
      <3> QED BY <2>1, <3>1 DEF TextsApart
    <2> QED BY <2>1, <2>2, <2>3 DEF Departed, Kept, TextUnderWay, CopyIsGood
  <1> QED BY <1>2, <1>3, <1>4, <1>5, <1>6, <1>7, <1>8, <1>9, <1>10, <1>11, <1>12, <1>13
          DEF DraftsNext

\* What the user has typed is not lost to an answer, another page of the client, a
\* reload, another conversation or a refused write, for any conversations, visits,
\* edits and failures; what is excepted is stated at DraftKept.
THEOREM NothingTypedIsLost == DraftsSpec => []DraftKept
  <1>1. DraftsInv => DraftKept
    BY DEF DraftsInv, DraftKept, Kept
  <1> QED BY <1>1, DraftsInitially, DraftsStep, PTL DEF DraftsSpec

\* The type of the drafts: what is edited, stored and wanted is one draft for each
\* conversation, and no text that was sent is empty (conversation-drafts.ts).
THEOREM DraftsTypeCorrect == DraftsSpec => []DraftsTypeOK
  <1>1. DraftsInv => DraftsTypeOK
    BY DEF DraftsInv
  <1> QED BY <1>1, DraftsInitially, DraftsStep, PTL DEF DraftsSpec

-----------------------------------------------------------------------------
(***************************************************************************)
(* Theorems about ProjectTasks. While the address names the task that was  *)
(* closed last, the closing ref names it too and no address is pending     *)
(* that names it; and a form differs from its baseline only where the user *)
(* has changed it since both were last filled.                             *)
(***************************************************************************)

(* Stored and listed tasks, the dialog, requests for lists, and updates.   *)
Stored == [fields : Contents, updatedAt : Nat]
Listing == [id : Tasks, fields : Contents, updatedAt : Nat]
Rows == {r \in [Tasks -> Listing \cup {Missing}] :
            \A t \in Tasks : r[t] # Missing => r[t].id = t}
Fallbacks == [task : Listing, isRow : BOOLEAN]
Dialogs ==
    [id : Tasks, updatedAt : Nat, form : Contents, baseline : Contents,
     loading : BOOLEAN, load : {"asked", "served", "no"},
     loaded : Contents \cup {<<>>}, busy : {"no", "saving", "deleting"},
     touched : SUBSET Fields]
ListRequests ==
    [by : {"filter", "retry", "save", "delete", "drag", "field"}, filter : Filters,
     seen : BOOLEAN, rows : Rows \cup {Missing}]
Calls ==
    [kind : {"save", "delete", "drag", "field"}, id : Tasks,
     patch : UNION {[S -> Value] : S \in SUBSET Fields}, touched : SUBSET Fields,
     before : Value, filter : Filters, url : Tasks \cup {NoTask}, seen : BOOLEAN,
     answer : {"none", "done", "error"}, fields : Contents \cup {<<>>}]

(* What the argument needs of the types.                                   *)
TasksShape ==
    /\ saved \in [Tasks -> Stored \cup {Missing}]
    /\ url \in Tasks \cup {NoTask} /\ nav \in Tasks \cup {NoTask, Stay}
    /\ filter \in Filters
    /\ rows \in Rows /\ fallback \in Fallbacks \cup {Missing}
    /\ lists \subseteq ListRequests /\ updates \subseteq Calls

(* A form differs from its baseline where the user has changed it.         *)
Meant(d) ==
    /\ d \in Dialogs
    /\ \A f \in Fields : d.form[f] # d.baseline[f] => f \in d.touched
    /\ d.load = "served" => d.loaded \in Contents
DialogMeant == dialog # Missing => Meant(dialog)
CallMeant(c) ==
    /\ c.kind # "delete" => DOMAIN c.patch \subseteq c.touched
    /\ c.kind = "save" /\ c.answer = "done" => c.fields \in Contents
CallsMeant == \A c \in updates : CallMeant(c)

(* While the address still names a task that was closed, the closing ref   *)
(* does, and no address is pending that names it again.                    *)
StaysClosed ==
    /\ link \in {NoTask, url}
    /\ shut # NoTask => /\ nav \in {NoTask, Stay} /\ (url = shut => closing = shut)
    /\ ClosedStaysClosed

TasksInv == TasksShape /\ DialogMeant /\ CallsMeant /\ StaysClosed

-----------------------------------------------------------------------------
\* The task of the dialog is one that was listed or loaded.
LEMMA ActiveIsListed ==
    ASSUME NEW u \in Tasks \cup {NoTask}, NEW r \in Rows,
           NEW fb \in Fallbacks \cup {Missing}
    PROVE  ActiveTask(u, r, fb) = Missing \/ ActiveTask(u, r, fb) \in Listing
  <1>1. CASE u = NoTask
    BY <1>1 DEF ActiveTask
  <1>2. CASE u # NoTask /\ r[u] # Missing
    BY <1>2 DEF ActiveTask, Rows
  <1>3. CASE u # NoTask /\ r[u] = Missing
    <2>1. fb # Missing => fb.task \in Listing
      BY DEF Fallbacks
    <2> QED BY <1>3, <2>1 DEF ActiveTask
  <1> QED BY <1>1, <1>2, <1>3

\* What happens to a dialog changes one or two of its parts.
LEMMA DialogChanges ==
    ASSUME NEW d, Meant(d)
    PROVE  /\ Meant([d EXCEPT !.load = "asked", !.loaded = <<>>])
           /\ Meant([d EXCEPT !.load = "no", !.loaded = <<>>, !.loading = FALSE])
           /\ \A busy \in {"no", "saving", "deleting"} : Meant([d EXCEPT !.busy = busy])
           /\ \A x \in Contents : Meant(Filled(d, x)) /\ Filled(d, x).form = x
                /\ Meant([Filled(d, x) EXCEPT !.loading = TRUE])
                /\ Meant([Filled(d, x) EXCEPT !.load = "no", !.loaded = <<>>,
                                              !.loading = FALSE])
           /\ \A x \in Contents :
                Meant([d EXCEPT !.load = "served", !.loaded = x])
           /\ \A f \in Fields, v \in Value :
                Meant([d EXCEPT !.form[f] = v, !.touched = @ \cup {f}])
  <1> DEFINE A == Contents
             B == {"asked", "served", "no"}
             C == Contents \cup {<<>>}
             D == {"no", "saving", "deleting"}
             E == SUBSET Fields
             R == [id : Tasks, updatedAt : Nat, form : A, baseline : A,
                   loading : BOOLEAN, load : B, loaded : C, busy : D, touched : E]
  <1>1. /\ d \in R /\ (d.load = "served" => d.loaded \in A)
        /\ \A f \in Fields : d.form[f] # d.baseline[f] => f \in d.touched
    BY DEF Meant, Dialogs
  <1>2. /\ \A e : Meant(e) <=> /\ e \in R
                               /\ \A f \in Fields :
                                    e.form[f] # e.baseline[f] => f \in e.touched
                               /\ e.load = "served" => e.loaded \in A
        /\ {"asked", "served", "no"} = B /\ <<>> \in C /\ A \subseteq C
        /\ {"no", "saving", "deleting"} = D /\ {} \in E /\ A = Contents
        /\ \A t \in E, f \in Fields : t \cup {f} \in E
        /\ \A x \in A, f \in Fields, v \in Value : [x EXCEPT ![f] = v] \in A
        /\ \A x \in A, f \in Fields, v \in Value, g \in Fields :
              g # f => [x EXCEPT ![f] = v][g] = x[g]
    BY DEF Meant, Dialogs, Contents
  <1>3. "asked" \in B /\ "served" \in B /\ "no" \in B
    OBVIOUS
  <1> HIDE DEF A, B, C, D, E
  <1>4. Meant([d EXCEPT !.load = "asked", !.loaded = <<>>])
    BY <1>1, <1>2, <1>3
  <1>5. Meant([d EXCEPT !.load = "no", !.loaded = <<>>, !.loading = FALSE])
    BY <1>1, <1>2, <1>3
  <1>6. \A busy \in {"no", "saving", "deleting"} : Meant([d EXCEPT !.busy = busy])
    BY <1>1, <1>2
  <1>7. \A x \in Contents : Meant(Filled(d, x)) /\ Filled(d, x).form = x
                /\ Meant([Filled(d, x) EXCEPT !.loading = TRUE])
                /\ Meant([Filled(d, x) EXCEPT !.load = "no", !.loaded = <<>>,
                                              !.loading = FALSE])
    <2> SUFFICES ASSUME NEW x \in Contents
                 PROVE  /\ Meant(Filled(d, x)) /\ Filled(d, x).form = x
                        /\ Meant([Filled(d, x) EXCEPT !.loading = TRUE])
                        /\ Meant([Filled(d, x) EXCEPT !.load = "no", !.loaded = <<>>,
                                                      !.loading = FALSE])
      OBVIOUS
    <2> DEFINE e == Filled(d, x)
    <2>1. /\ e \in R /\ e.form = x /\ e.baseline = x /\ e.load = d.load
          /\ e.loaded = d.loaded
      BY <1>1, <1>2 DEF Filled
    <2> HIDE DEF e
    <2>2. Meant(e)
      BY <1>1, <1>2, <2>1
    <2>3. Meant([e EXCEPT !.loading = TRUE])
      BY <1>1, <1>2, <2>1
    <2>4. Meant([e EXCEPT !.load = "no", !.loaded = <<>>, !.loading = FALSE])
      BY <1>2, <1>3, <2>1
    <2> QED BY <2>1, <2>2, <2>3, <2>4 DEF e
  <1>8. \A x \in Contents : Meant([d EXCEPT !.load = "served", !.loaded = x])
    BY <1>1, <1>2, <1>3
  <1>9. ASSUME NEW f \in Fields, NEW v \in Value
        PROVE  Meant([d EXCEPT !.form[f] = v, !.touched = @ \cup {f}])
    <2> DEFINE x == [d.form EXCEPT ![f] = v]
               e == [d EXCEPT !.form = x, !.touched = d.touched \cup {f}]
    <2>1. x \in A /\ \A g \in Fields : g # f => x[g] = d.form[g]
      BY <1>1, <1>2
    <2>2. e = [d EXCEPT !.form[f] = v, !.touched = @ \cup {f}]
      OBVIOUS
    <2> HIDE DEF x
    <2>3. /\ e \in R /\ e.form = x /\ e.baseline = d.baseline /\ e.load = d.load
          /\ e.loaded = d.loaded /\ e.touched = d.touched \cup {f}
      BY <1>1, <1>2, <2>1
    <2> HIDE DEF e
    <2>4. Meant(e)
      BY <1>1, <1>2, <2>1, <2>3
    <2> QED BY <2>2, <2>4
  <1> QED BY <1>4, <1>5, <1>6, <1>7, <1>8, <1>9

\* A render shows what was shown, loads it again, or shows a new dialog, whose
\* form is its baseline.
LEMMA ShownIsMeant ==
    ASSUME NEW d, d = Missing \/ Meant(d),
           NEW task, task = Missing \/ task \in Listing, NEW renewed
    PROVE  DialogShown(d, task, renewed) = Missing \/ Meant(DialogShown(d, task, renewed))
  <1>1. CASE task = Missing
    BY <1>1 DEF DialogShown
  <1>2. CASE task # Missing /\ (d = Missing \/ d.id # task.id \/ d.updatedAt # task.updatedAt)
    <2>1. /\ task.id \in Tasks /\ task.updatedAt \in Nat /\ task.fields \in Contents
      BY <1>2 DEF Listing
    <2>2. Meant(NewDialog(task))
      BY <2>1 DEF NewDialog, Meant, Dialogs
    <2> QED BY <1>2, <2>2 DEF DialogShown
  <1>3. CASE task # Missing /\ ~(d = Missing \/ d.id # task.id \/ d.updatedAt # task.updatedAt)
    BY <1>3, DialogChanges DEF DialogShown
  <1> QED BY <1>1, <1>2, <1>3

\* A render keeps the invariant if what it leaves alone does: where the address
\* names the task closed last, the closing ref c that it is left with does so too.
LEMMA RenderInv ==
    ASSUME TasksShape', NEW c, NEW d, NEW renewed, Render(c, d, renewed),
           d = Missing \/ Meant(d),
           shut' # NoTask => /\ nav' \in {NoTask, Stay} /\ (url' = shut' => c = shut')
                             /\ fallback' # Missing => fallback'.task.id # shut'
    PROVE  DialogMeant' /\ StaysClosed'
  <1> DEFINE a == ActiveTask(url', rows', fallback')
  <1>1. a = Missing \/ a \in Listing
    <2>1. /\ url' \in Tasks \cup {NoTask} /\ rows' \in Rows
          /\ fallback' \in Fallbacks \cup {Missing}
      BY DEF TasksShape
    <2> QED BY <2>1, ActiveIsListed
  <1>2. dialog' = DialogShown(d, a, renewed)
    BY DEF Render
  <1> HIDE DEF a
  <1>3. DialogMeant'
    BY <1>1, <1>2, ShownIsMeant DEF DialogMeant
  <1>4. /\ closing' = IF c = url' THEN c ELSE NoTask
        /\ link' \in {NoTask, url'} /\ (link' # NoTask => c # url')
    BY DEF Render
  <1>5. StaysClosed'
    BY <1>4 DEF StaysClosed, ClosedStaysClosed
  <1> QED BY <1>3, <1>5

\* Requests that are forgotten are what they were.
LEMMA ForgottenAreMeant ==
    /\ \A S \in SUBSET Calls :
          (\A c \in S : CallMeant(c)) =>
              Forgotten(S) \subseteq Calls /\ \A c \in Forgotten(S) : CallMeant(c)
    /\ \A S \in SUBSET ListRequests : Forgotten(S) \subseteq ListRequests
  <1>1. ASSUME NEW c \in Calls, CallMeant(c)
        PROVE  [c EXCEPT !.seen = FALSE] \in Calls /\ CallMeant([c EXCEPT !.seen = FALSE])
    BY <1>1 DEF Calls, CallMeant
  <1>2. ASSUME NEW l \in ListRequests
        PROVE  [l EXCEPT !.seen = FALSE] \in ListRequests
    BY DEF ListRequests
  <1> QED BY <1>1, <1>2 DEF Forgotten
\* A row, a fallback and a request that change keep their shape.
LEMMA ShapesKept ==
    /\ \A r \in Rows, t \in Tasks, v \in Value :
          r[t] # Missing => [r EXCEPT ![t].fields["status"] = v] \in Rows
    /\ \A r \in Rows, t \in Tasks : [r EXCEPT ![t] = Missing] \in Rows
    /\ \A fb \in Fallbacks, b \in BOOLEAN :
          [fb EXCEPT !.isRow = b] \in Fallbacks /\ [fb EXCEPT !.isRow = b].task = fb.task
    /\ \A t \in Listing : \A b \in BOOLEAN : [task |-> t, isRow |-> b] \in Fallbacks
  <1>1. ASSUME NEW r \in Rows, NEW t \in Tasks, NEW v \in Value, r[t] # Missing
        PROVE  [r EXCEPT ![t].fields["status"] = v] \in Rows
    <2> DEFINE x == [r[t].fields EXCEPT !["status"] = v]
               e == [r[t] EXCEPT !.fields = x]
    <2>1. r \in [Tasks -> Listing \cup {Missing}] /\ r[t] \in Listing /\ r[t].id = t
      BY <1>1 DEF Rows
    <2>2. r[t].fields \in Contents
      BY <2>1 DEF Listing
    <2>3. x \in Contents
      BY <2>2 DEF Contents, Fields
    <2>4. [r EXCEPT ![t].fields["status"] = v] = [r EXCEPT ![t] = e]
      OBVIOUS
    <2> HIDE DEF x
    <2>5. e \in Listing /\ e.id = t
      BY <2>1, <2>3 DEF Listing
    <2> HIDE DEF e
    <2>6. [r EXCEPT ![t] = e] \in Rows
      BY <2>1, <2>5 DEF Rows
    <2> QED BY <2>4, <2>6
  <1>2. ASSUME NEW r \in Rows, NEW t \in Tasks PROVE [r EXCEPT ![t] = Missing] \in Rows
    BY DEF Rows
  <1>3. ASSUME NEW fb \in Fallbacks, NEW b \in BOOLEAN
        PROVE  [fb EXCEPT !.isRow = b] \in Fallbacks /\ [fb EXCEPT !.isRow = b].task = fb.task
    BY DEF Fallbacks
  <1>4. ASSUME NEW t \in Listing, NEW b \in BOOLEAN
        PROVE  [task |-> t, isRow |-> b] \in Fallbacks
    BY DEF Fallbacks
  <1> QED BY <1>1, <1>2, <1>3, <1>4

\* A step that leaves the address and what it opens alone.
LEMMA AddressKept ==
    ASSUME TasksInv, TasksShape', DialogMeant', CallsMeant',
           UNCHANGED <<url, nav, fallback, closing, link, shut>>
    PROVE  TasksInv'
  BY DEF TasksInv, StaysClosed, ClosedStaysClosed

\* A request for the list.
LEMMA ListRequestShape ==
    ASSUME NEW by \in {"filter", "retry", "save", "delete", "drag", "field"},
           NEW flt \in Filters, NEW seen \in BOOLEAN
    PROVE  ListRequest(by, flt, seen) \in ListRequests
  BY DEF ListRequest, ListRequests

-----------------------------------------------------------------------------
\* The filter changes: what the page waited for is forgotten.
LEMMA ApplyFiltersInv ==
    ASSUME TasksInv, NEW flt \in Filters, ApplyFilters(flt)
    PROVE  TasksInv'
  <1> DEFINE old == {l \in lists : l.by # "filter"}
  <1>1. /\ filter' = flt /\ lists' = Forgotten(old) \cup {ListRequest("filter", flt, TRUE)}
        /\ updates' = Forgotten(updates)
        /\ UNCHANGED <<saved, url, nav, rows, fallback, shut>>
        /\ Render(closing, dialog, FALSE)
    BY DEF ApplyFilters
  <1>2. old \subseteq ListRequests /\ updates \subseteq Calls
        /\ \A c \in updates : CallMeant(c)
    BY DEF TasksInv, TasksShape, CallsMeant
  <1> HIDE DEF old
  <1>3. /\ lists' \subseteq ListRequests /\ updates' \subseteq Calls
        /\ \A c \in updates' : CallMeant(c)
    BY <1>1, <1>2, ForgottenAreMeant, ListRequestShape
  <1>4. TasksShape' /\ CallsMeant'
    BY <1>1, <1>3 DEF TasksInv, TasksShape, CallsMeant
  <1>5. /\ dialog = Missing \/ Meant(dialog)
        /\ shut' # NoTask => /\ nav' \in {NoTask, Stay} /\ (url' = shut' => closing = shut')
                             /\ fallback' # Missing => fallback'.task.id # shut'
    BY <1>1 DEF TasksInv, DialogMeant, StaysClosed, ClosedStaysClosed
  <1>6. DialogMeant' /\ StaysClosed'
    BY <1>1, <1>4, <1>5, RenderInv
  <1> QED BY <1>4, <1>6 DEF TasksInv

\* What is listed are the server's tasks.
LEMMA ListedAreRows ==
    ASSUME TasksShape, NEW flt
    PROVE  Listed(flt) \in Rows
  <1>1. ASSUME NEW t \in Tasks, saved[t] # Missing
        PROVE  Read(t) \in Listing /\ Read(t).id = t
    BY <1>1 DEF TasksShape, Stored, Read, Listing
  <1>2. Listed(flt) \in [Tasks -> Listing \cup {Missing}]
    BY <1>1 DEF Listed
  <1>3. \A t \in Tasks :
          Listed(flt)[t] # Missing => Listed(flt)[t] = Read(t) /\ saved[t] # Missing
    BY DEF Listed
  <1> QED BY <1>1, <1>2, <1>3 DEF Rows

\* A list is read, and a list is asked for again.
LEMMA ListAskedInv ==
    ASSUME TasksInv, Retry \/ \E l \in lists : ServeList(l)
    PROVE  TasksInv'
  <1>1. UNCHANGED <<saved, url, nav, filter, rows, fallback, closing, link, dialog,
                    updates, shut>>
    BY DEF Retry, ServeList
  <1>2. lists' \subseteq ListRequests
    <2>1. lists \subseteq ListRequests /\ filter \in Filters
      BY DEF TasksInv, TasksShape
    <2>2. CASE Retry
      BY <2>1, <2>2, ListRequestShape DEF Retry
    <2>3. ASSUME NEW l \in lists, ServeList(l) PROVE lists' \subseteq ListRequests
      <3>1. Listed(l.filter) \in Rows
        BY ListedAreRows DEF TasksInv
      <3> DEFINE r == Listed(l.filter)
                 S == Rows \cup {Missing}
      <3> HIDE DEF r
      <3>2. lists' = (lists \ {l}) \cup {[l EXCEPT !.rows = r]} /\ r \in S
        BY <2>3, <3>1 DEF ServeList, r
      <3>3. ListRequests = [by : {"filter", "retry", "save", "delete", "drag", "field"},
                            filter : Filters, seen : BOOLEAN, rows : S]
        BY DEF ListRequests
      <3> HIDE DEF S
      <3>4. [l EXCEPT !.rows = r] \in ListRequests
        BY <2>1, <3>2, <3>3
      <3> QED BY <2>1, <3>2, <3>4
    <2> QED BY <2>2, <2>3
  <1>3. TasksShape' /\ DialogMeant' /\ CallsMeant'
    BY <1>1, <1>2 DEF TasksInv, TasksShape, DialogMeant, CallsMeant
  <1> QED BY <1>1, <1>3, AddressKept

\* A list arrives, or does not.
LEMMA ListAnsweredInv ==
    ASSUME TasksInv, NEW l \in lists, ListArrives(l) \/ ListFails(l)
    PROVE  TasksInv'
  <1>1. /\ dialog = Missing \/ Meant(dialog)
        /\ l \in ListRequests /\ lists \subseteq ListRequests /\ updates \subseteq Calls
        /\ \A c \in updates : CallMeant(c)
    BY DEF TasksInv, TasksShape, DialogMeant, CallsMeant
  <1> DEFINE d == Released(dialog, l)
  <1>2. d = Missing \/ Meant(d)
    BY <1>1, DialogChanges DEF Released
  <1> HIDE DEF d
  <1>3. CASE ListArrives(l)
    <2>1. /\ l.rows # Missing /\ lists' = lists \ {l} /\ rows' = l.rows
          /\ fallback' = IF fallback = Missing THEN Missing
                         ELSE [fallback EXCEPT !.isRow = FALSE]
          /\ UNCHANGED <<saved, url, nav, filter, updates, shut>>
      BY <1>3 DEF ListArrives
    <2>2. PICK renewed : Render(closing, d, renewed)
      BY <1>3 DEF ListArrives, d
    <2>3. rows' \in Rows
      BY <1>1, <2>1 DEF ListRequests
    <2>4. fallback' \in Fallbacks \cup {Missing}
          /\ (fallback' # Missing => fallback # Missing /\ fallback'.task = fallback.task)
      BY <2>1, ShapesKept DEF TasksInv, TasksShape
    <2>5. TasksShape' /\ CallsMeant'
      BY <1>1, <2>1, <2>3, <2>4 DEF TasksInv, TasksShape, CallsMeant
    <2>6. shut' # NoTask => /\ nav' \in {NoTask, Stay} /\ (url' = shut' => closing = shut')
                            /\ fallback' # Missing => fallback'.task.id # shut'
      BY <2>1, <2>4 DEF TasksInv, StaysClosed, ClosedStaysClosed
    <2>7. DialogMeant' /\ StaysClosed'
      BY <1>2, <2>2, <2>5, <2>6, RenderInv
    <2> QED BY <2>5, <2>7 DEF TasksInv
  <1>4. CASE ListFails(l)
    <2>1. /\ lists' = Forgotten(lists \ {l}) /\ updates' = Forgotten(updates)
          /\ UNCHANGED <<saved, url, nav, filter, rows, fallback, shut>>
          /\ Render(closing, d, FALSE)
      BY <1>4 DEF ListFails, d
    <2>2. /\ lists' \subseteq ListRequests /\ updates' \subseteq Calls
          /\ \A c \in updates' : CallMeant(c)
      BY <1>1, <2>1, ForgottenAreMeant
    <2>3. TasksShape' /\ CallsMeant'
      BY <2>1, <2>2 DEF TasksInv, TasksShape, CallsMeant
    <2>4. shut' # NoTask => /\ nav' \in {NoTask, Stay} /\ (url' = shut' => closing = shut')
                            /\ fallback' # Missing => fallback'.task.id # shut'
      BY <2>1 DEF TasksInv, StaysClosed, ClosedStaysClosed
    <2>5. DialogMeant' /\ StaysClosed'
      BY <1>2, <2>1, <2>3, <2>4, RenderInv
    <2> QED BY <2>3, <2>5 DEF TasksInv
  <1> QED BY <1>3, <1>4

-----------------------------------------------------------------------------
\* The address changes, and the task it names is loaded.
LEMMA AddressInv ==
    ASSUME TasksInv,
           \/ \E t \in Tasks : OpenTask(t)
           \/ \E u \in Tasks \cup {NoTask} : Navigate(u)
           \/ Navigated \/ LinkArrives \/ LinkFails
    PROVE  TasksInv'
  <1>1. UNCHANGED <<saved, filter, rows, lists, updates>>
    BY DEF OpenTask, Navigate, Navigated, LinkArrives, LinkFails
  <1>2. dialog = Missing \/ Meant(dialog)
    BY DEF TasksInv, DialogMeant
  <1>3. CallsMeant'
    BY <1>1 DEF TasksInv, CallsMeant
  <1>4. \E c : /\ Render(c, dialog, FALSE) /\ TasksShape'
               /\ shut' # NoTask =>
                     /\ nav' \in {NoTask, Stay} /\ (url' = shut' => c = shut')
                     /\ fallback' # Missing => fallback'.task.id # shut'
    <2>1. ASSUME NEW t \in Tasks, OpenTask(t)
          PROVE  Render(NoTask, dialog, FALSE) /\ TasksShape' /\ shut' = NoTask
      <3>1. rows[t] \in Listing
        BY <2>1 DEF OpenTask, TasksInv, TasksShape, Rows
      <3>2. fallback' \in Fallbacks
        BY <2>1, <3>1, ShapesKept DEF OpenTask
      <3> QED BY <1>1, <2>1, <3>2 DEF OpenTask, TasksInv, TasksShape
    <2>2. ASSUME NEW u \in Tasks \cup {NoTask}, Navigate(u)
          PROVE  Render(closing, dialog, FALSE) /\ TasksShape' /\ shut' = NoTask
      BY <1>1, <2>2 DEF Navigate, TasksInv, TasksShape
    <2>3. CASE Navigated
      <3>1. Render(closing, dialog, FALSE) /\ TasksShape'
        BY <1>1, <2>3 DEF Navigated, TasksInv, TasksShape
      <3>2. shut' # NoTask => nav' = Stay /\ url' = NoTask
                              /\ (fallback' # Missing => fallback'.task.id # shut')
        BY <2>3 DEF Navigated, TasksInv, StaysClosed, ClosedStaysClosed
      <3> QED BY <3>1, <3>2
    <2>4. CASE LinkArrives
      <3>1. link \in Tasks /\ link = url
        BY <2>4 DEF LinkArrives, TasksInv, TasksShape, StaysClosed
      <3>2. Read(link) \in Listing /\ Read(link).id = link
        BY <2>4, <3>1 DEF LinkArrives, TasksInv, TasksShape, Stored, Read, Listing
      <3>3. /\ fallback' \in Fallbacks /\ fallback'.task = Read(link)
            /\ UNCHANGED <<url, nav, shut>> /\ Render(closing, dialog, FALSE)
        BY <2>4, <3>2, ShapesKept DEF LinkArrives
      <3>4. TasksShape'
        BY <1>1, <3>3 DEF TasksInv, TasksShape
      <3>5. shut' # NoTask =>
                     /\ nav' \in {NoTask, Stay} /\ (url' = shut' => closing = shut')
                     /\ fallback'.task.id # shut'
        BY <3>2, <3>3 DEF TasksInv, StaysClosed, ClosedStaysClosed
      <3> QED BY <3>3, <3>4, <3>5
    <2>5. CASE LinkFails
      <3>1. /\ fallback' = Missing /\ nav' = NoTask /\ UNCHANGED <<url, shut>>
            /\ Render(link, dialog, FALSE) /\ link = url
        BY <2>5 DEF LinkFails, TasksInv, StaysClosed
      <3>2. TasksShape'
        BY <1>1, <3>1 DEF TasksInv, TasksShape
      <3> QED BY <3>1, <3>2
    <2> QED BY <2>1, <2>2, <2>3, <2>4, <2>5
  <1>5. PICK c : /\ Render(c, dialog, FALSE) /\ TasksShape'
                 /\ shut' # NoTask =>
                       /\ nav' \in {NoTask, Stay} /\ (url' = shut' => c = shut')
                       /\ fallback' # Missing => fallback'.task.id # shut'
    BY <1>4
  <1>6. DialogMeant' /\ StaysClosed'
    BY <1>2, <1>5, RenderInv
  <1> QED BY <1>3, <1>5, <1>6 DEF TasksInv
-----------------------------------------------------------------------------
\* The details arrive, or do not, and the user edits the form.
LEMMA DialogInv ==
    ASSUME TasksInv,
           \/ ServeLoad \/ LoadArrives \/ LoadFails
           \/ \E f \in Fields, v \in Value : UpdateForm(f, v)
    PROVE  TasksInv'
  <1>1. UNCHANGED <<saved, url, nav, filter, rows, fallback, closing, link, lists,
                    updates, shut>>
    BY DEF ServeLoad, LoadArrives, LoadFails, UpdateForm
  <1>2. dialog # Missing /\ Meant(dialog)
    BY DEF TasksInv, DialogMeant, ServeLoad, LoadArrives, LoadFails, UpdateForm,
           DialogUsable
  <1>3. Meant(dialog')
    <2>1. CASE ServeLoad
      <3>1. dialog.id \in Tasks /\ saved[dialog.id] # Missing
        BY <1>2, <2>1 DEF ServeLoad, Meant, Dialogs
      <3>2. saved[dialog.id].fields \in Contents
        BY <3>1 DEF TasksInv, TasksShape, Stored
      <3> QED BY <1>2, <2>1, <3>2, DialogChanges DEF ServeLoad
    <2>2. CASE LoadArrives
      <3>1. dialog.loaded \in Contents
        BY <1>2, <2>2 DEF LoadArrives, Meant
      <3> QED BY <1>2, <2>2, <3>1, DialogChanges DEF LoadArrives
    <2>3. CASE LoadFails
      BY <1>2, <2>3, DialogChanges DEF LoadFails
    <2>4. ASSUME NEW f \in Fields, NEW v \in Value, UpdateForm(f, v)
          PROVE  Meant(dialog')
      BY <1>2, <2>4, DialogChanges DEF UpdateForm
    <2> QED BY <2>1, <2>2, <2>3, <2>4
  <1>4. TasksShape' /\ DialogMeant' /\ CallsMeant'
    BY <1>1, <1>3 DEF TasksInv, TasksShape, DialogMeant, CallsMeant
  <1> QED BY <1>1, <1>4, AddressKept

\* What is sent is what the user meant.
LEMMA CallShape ==
    ASSUME TasksInv, NEW kind \in {"save", "delete", "drag", "field"}, NEW t \in Tasks,
           NEW S \in SUBSET Fields, NEW patch \in [S -> Value],
           NEW touched \in SUBSET Fields, NEW before \in Value,
           kind # "delete" => S \subseteq touched
    PROVE  /\ Call(kind, t, patch, touched, before) \in Calls
           /\ CallMeant(Call(kind, t, patch, touched, before))
  <1> DEFINE c == Call(kind, t, patch, touched, before)
             P == UNION {[T -> Value] : T \in SUBSET Fields}
             F == Contents \cup {<<>>}
             N == Tasks \cup {NoTask}
  <1>1. patch \in P /\ DOMAIN patch = S /\ <<>> \in F
    OBVIOUS
  <1>2. filter \in Filters /\ url \in N
    BY DEF TasksInv, TasksShape
  <1>3. Calls = [kind : {"save", "delete", "drag", "field"}, id : Tasks,
                 patch : P, touched : SUBSET Fields, before : Value, filter : Filters,
                 url : N, seen : BOOLEAN, answer : {"none", "done", "error"}, fields : F]
    BY DEF Calls
  <1> HIDE DEF P, F, N
  <1>4. /\ c \in Calls /\ c.kind = kind /\ c.patch = patch /\ c.touched = touched
        /\ c.answer = "none"
    BY <1>1, <1>2, <1>3 DEF Call
  <1> HIDE DEF c
  <1>5. CallMeant(c)
    BY <1>1, <1>4 DEF CallMeant
  <1> QED BY <1>4, <1>5 DEF c

\* The dialog saves or deletes, or a field of a row is set.
LEMMA SubmitInv ==
    ASSUME TasksInv,
           Submit \/ Delete \/ \E t \in Tasks, f \in Fields : SetField(t, f)
    PROVE  TasksInv'
  <1>1. UNCHANGED <<saved, url, nav, filter, rows, fallback, closing, link, lists, shut>>
    BY DEF Submit, Delete, SetField
  <1>2. DialogMeant'
    <2>1. dialog # Missing => Meant(dialog)
      BY DEF TasksInv, DialogMeant
    <2>2. CASE Submit \/ Delete
      <3>1. Meant(dialog)
        BY <2>1, <2>2 DEF Submit, Delete, DialogUsable
      <3>2. PICK busy \in {"saving", "deleting"} : dialog' = [dialog EXCEPT !.busy = busy]
        BY <2>2 DEF Submit, Delete
      <3>3. Meant(dialog')
        BY <3>1, <3>2, DialogChanges
      <3> QED BY <3>3 DEF DialogMeant
    <2>3. CASE UNCHANGED dialog
      BY <2>1, <2>3 DEF DialogMeant
    <2> QED BY <2>2, <2>3 DEF SetField
  <1>3. \E c \in Calls : CallMeant(c) /\ updates' = updates \cup {c}
    <2>1. CASE Submit
      <3> DEFINE S == {f \in Fields : dialog.form[f] # dialog.baseline[f]}
                 p == Patch(dialog)
      <3>1. Meant(dialog)
        BY <2>1 DEF Submit, DialogUsable, TasksInv, DialogMeant
      <3>2. /\ dialog.id \in Tasks /\ dialog.touched \in SUBSET Fields
            /\ S \subseteq dialog.touched /\ S \in SUBSET Fields
        BY <3>1 DEF Meant, Dialogs
      <3>3. p \in [S -> Value] /\ 0 \in Value
        BY <3>1 DEF Patch, Meant, Dialogs, Contents, Value
      <3>4. updates' = updates \cup {Call("save", dialog.id, p, dialog.touched, 0)}
        BY <2>1 DEF Submit, SendCall
      <3> HIDE DEF S, p
      <3> QED BY <3>2, <3>3, <3>4, CallShape
    <2>2. CASE Delete
      <3> DEFINE p == [f \in {} |-> 0]
                 none == {}
      <3>1. Meant(dialog)
        BY <2>2 DEF Delete, DialogUsable, TasksInv, DialogMeant
      <3>2. dialog.id \in Tasks
        BY <3>1 DEF Meant, Dialogs
      <3>3. p \in [none -> Value] /\ 0 \in Value /\ none \in SUBSET Fields
        BY DEF Value
      <3>4. updates' = updates \cup {Call("delete", dialog.id, p, none, 0)}
        BY <2>2 DEF Delete, SendCall
      <3> HIDE DEF p, none
      <3> QED BY <3>2, <3>3, <3>4, CallShape
    <2>3. ASSUME NEW t \in Tasks, NEW f \in Fields, SetField(t, f)
          PROVE  \E c \in Calls : CallMeant(c) /\ updates' = updates \cup {c}
      <3> DEFINE S == {f}
                 p == [g \in S |-> 1 - rows[t].fields[f]]
      <3>1. rows[t] \in Listing
        BY <2>3 DEF SetField, TasksInv, TasksShape, Rows
      <3>2. rows[t].fields[f] \in Value
        BY <3>1 DEF Listing, Contents
      <3>3. p \in [S -> Value] /\ 0 \in Value /\ S \in SUBSET Fields
        BY <3>2 DEF Value
      <3>4. updates' = updates \cup {Call("field", t, p, S, 0)}
        BY <2>3 DEF SetField, SendCall
      <3> HIDE DEF S, p
      <3> QED BY <3>3, <3>4, CallShape
    <2> QED BY <2>1, <2>2, <2>3
  <1>4. TasksShape' /\ CallsMeant'
    BY <1>1, <1>3 DEF TasksInv, TasksShape, CallsMeant
  <1> QED BY <1>1, <1>2, <1>4, AddressKept

\* A task is dragged: its row shows the new status at once.
LEMMA DragInv ==
    ASSUME TasksInv, NEW t \in Tasks, Drag(t)
    PROVE  TasksInv'
  <1> DEFINE old == rows[t].fields["status"]
             S == {"status"}
             p == [f \in S |-> 1 - old]
             b == fallback.isRow /\ fallback.task.id # t
  <1>1. rows[t] # Missing /\ rows[t] \in Listing
    BY DEF Drag, TasksInv, TasksShape, Rows
  <1>2. old \in Value
    BY <1>1 DEF Listing, Contents, Fields
  <1>3. 1 - old \in Value /\ p \in [S -> Value] /\ S \in SUBSET Fields
    BY <1>2 DEF Value, Fields
  <1>4. /\ updates' = updates \cup {Call("drag", t, p, S, old)}
        /\ rows' = [rows EXCEPT ![t].fields["status"] = 1 - old]
        /\ UNCHANGED <<saved, url, nav, filter, lists, shut>>
        /\ Render(closing, dialog, FALSE)
    BY DEF Drag, SendCall
  <1>5. fallback' \in Fallbacks \cup {Missing}
        /\ (fallback' # Missing => fallback # Missing /\ fallback'.task = fallback.task)
    <2>1. CASE fallback = Missing
      BY <2>1 DEF Drag
    <2>2. CASE fallback # Missing
      <3>1. fallback \in Fallbacks
        BY <2>2 DEF TasksInv, TasksShape
      <3>2. fallback' = [fallback EXCEPT !.isRow = b]
        BY <2>2 DEF Drag
      <3>3. b \in BOOLEAN
        BY Zenon
      <3> HIDE DEF b
      <3> QED BY <2>2, <3>1, <3>2, <3>3, ShapesKept
    <2> QED BY <2>1, <2>2
  <1> HIDE DEF old, S, p, b
  <1>6. rows' \in Rows
    BY <1>1, <1>3, <1>4, ShapesKept DEF TasksInv, TasksShape
  <1>7. updates' \subseteq Calls /\ CallsMeant'
    <2> DEFINE c == Call("drag", t, p, S, old)
    <2>1. c \in Calls /\ CallMeant(c)
      BY <1>2, <1>3, CallShape
    <2>2. updates' = updates \cup {c}
      BY <1>4
    <2> HIDE DEF c
    <2> QED BY <2>1, <2>2 DEF TasksInv, TasksShape, CallsMeant
  <1>8. TasksShape'
    BY <1>4, <1>5, <1>6, <1>7 DEF TasksInv, TasksShape
  <1>9. /\ dialog = Missing \/ Meant(dialog)
        /\ shut' # NoTask => /\ nav' \in {NoTask, Stay} /\ (url' = shut' => closing = shut')
                             /\ fallback' # Missing => fallback'.task.id # shut'
    BY <1>4, <1>5 DEF TasksInv, DialogMeant, StaysClosed, ClosedStaysClosed
  <1>10. DialogMeant' /\ StaysClosed'
    BY <1>4, <1>8, <1>9, RenderInv
  <1> QED BY <1>7, <1>8, <1>10 DEF TasksInv

-----------------------------------------------------------------------------
\* The server handles an update: a field it changes is one the update names.
LEMMA PatchedFields ==
    ASSUME TasksInv, NEW c \in updates, c.kind # "delete", saved[c.id] # Missing
    PROVE  /\ c.id \in Tasks /\ Patched(c.id, c.patch) \in Stored
           /\ \A f \in Fields : Patched(c.id, c.patch).fields[f] # saved[c.id].fields[f] =>
                 f \in c.touched
  <1>1. c \in Calls /\ CallMeant(c)
    BY DEF TasksInv, TasksShape, CallsMeant
  <1>2. c.id \in Tasks /\ saved[c.id] \in Stored
    BY <1>1 DEF Calls, TasksInv, TasksShape
  <1>3. PICK S \in SUBSET Fields : c.patch \in [S -> Value] /\ S \subseteq c.touched
    <2>1. c.patch \in UNION {[S -> Value] : S \in SUBSET Fields}
      BY <1>1 DEF Calls
    <2>2. PICK S \in SUBSET Fields : c.patch \in [S -> Value]
      BY <2>1
    <2> QED BY <1>1, <2>2 DEF CallMeant
  <1> DEFINE new == [f \in Fields |-> IF f \in DOMAIN c.patch THEN c.patch[f]
                                      ELSE saved[c.id].fields[f]]
             more == [fields |-> new, updatedAt |-> saved[c.id].updatedAt + 1]
  <1>4. saved[c.id].fields \in Contents /\ saved[c.id].updatedAt \in Nat
    BY <1>2 DEF Stored
  <1>5. new \in Contents /\ \A f \in Fields : new[f] # saved[c.id].fields[f] => f \in S
    BY <1>3, <1>4 DEF Contents
  <1>6. Patched(c.id, c.patch) \in {saved[c.id], more}
    BY DEF Patched
  <1> HIDE DEF new
  <1>7. more \in Stored /\ more.fields = new
    BY <1>4, <1>5 DEF Stored
  <1> HIDE DEF more
  <1> QED BY <1>2, <1>3, <1>5, <1>6, <1>7

\* An update is handled, and somebody else changes a task.
LEMMA TaskServedInv ==
    ASSUME TasksInv,
           \/ \E c \in updates : ServeCall(c)
           \/ \E t \in Tasks, f \in Fields : OtherUpdate(t, f)
    PROVE  TasksInv'
  <1>1. UNCHANGED <<url, nav, filter, rows, fallback, closing, link, lists, dialog, shut>>
    BY DEF ServeCall, OtherUpdate
  <1>2. saved' \in [Tasks -> Stored \cup {Missing}] /\ updates' \subseteq Calls /\ CallsMeant'
    <2>1. ASSUME NEW c \in updates, ServeCall(c)
          PROVE  /\ saved' \in [Tasks -> Stored \cup {Missing}] /\ updates' \subseteq Calls
                 /\ CallsMeant'
      <3> DEFINE F == Contents \cup {<<>>}
                 done(x) == [c EXCEPT !.answer = "done", !.fields = x]
                 error == [c EXCEPT !.answer = "error"]
      <3>1. c \in Calls /\ CallMeant(c) /\ saved \in [Tasks -> Stored \cup {Missing}]
            /\ updates \subseteq Calls /\ CallsMeant
        BY DEF TasksInv, TasksShape, CallsMeant
      <3>2. error \in Calls /\ CallMeant(error)
        BY <3>1 DEF Calls, CallMeant
      <3>3. ASSUME NEW x \in F, c.kind = "save" => x \in Contents
            PROVE  done(x) \in Calls /\ CallMeant(done(x))
        BY <3>1, <3>3 DEF Calls, CallMeant
      <3>4. c.fields \in F
        BY <3>1 DEF Calls
      <3> HIDE DEF F
      <3>5. CASE saved[c.id] # Missing /\ saved' = [saved EXCEPT ![c.id] =
                          IF c.kind = "delete" THEN Missing
                          ELSE Patched(c.id, c.patch)]
        <4>1. CASE c.kind = "delete"
          <5>1. updates' \in {(updates \ {c}) \cup {done(c.fields)},
                              (updates \ {c}) \cup {error}}
            BY <2>1, <3>5, <4>1 DEF ServeCall
          <5> HIDE DEF done, error
          <5>2. /\ saved' \in [Tasks -> Stored \cup {Missing}]
                /\ done(c.fields) \in Calls /\ CallMeant(done(c.fields))
            BY <3>1, <3>3, <3>4, <3>5, <4>1
          <5> QED BY <3>1, <3>2, <5>1, <5>2 DEF CallsMeant
        <4>2. CASE c.kind # "delete"
          <5> DEFINE x == Patched(c.id, c.patch)
          <5>1. x \in Stored /\ c.id \in Tasks
            BY <3>5, <4>2, PatchedFields
          <5> HIDE DEF x
          <5>2. saved' = [saved EXCEPT ![c.id] = x]
            BY <3>5, <4>2 DEF x
          <5>3. saved' \in [Tasks -> Stored \cup {Missing}] /\ saved'[c.id] = x
            BY <3>1, <5>1, <5>2
          <5>4. x.fields \in Contents
            BY <5>1 DEF Stored
          <5>5. updates' \in {(updates \ {c}) \cup {done(x.fields)},
                              (updates \ {c}) \cup {error}}
            BY <2>1, <3>5, <4>2, <5>3 DEF ServeCall
          <5>6. x.fields \in F
            BY <5>4 DEF F
          <5> HIDE DEF done, error
          <5>7. done(x.fields) \in Calls /\ CallMeant(done(x.fields))
            BY <3>3, <5>4, <5>6
          <5> QED BY <3>1, <3>2, <5>3, <5>5, <5>7 DEF CallsMeant
        <4> QED BY <4>1, <4>2
      <3>6. CASE UNCHANGED saved /\ updates' = (updates \ {c}) \cup {error}
        <4> HIDE DEF error
        <4> QED BY <3>1, <3>2, <3>6 DEF CallsMeant
      <3>7. \/ saved[c.id] # Missing /\ saved' = [saved EXCEPT ![c.id] =
                          IF c.kind = "delete" THEN Missing
                          ELSE Patched(c.id, c.patch)]
            \/ UNCHANGED saved /\ updates' = (updates \ {c}) \cup {error}
        BY <2>1 DEF ServeCall
      <3> QED BY <3>5, <3>6, <3>7
    <2>2. ASSUME NEW t \in Tasks, NEW f \in Fields, OtherUpdate(t, f)
          PROVE  /\ saved' \in [Tasks -> Stored \cup {Missing}] /\ updates' \subseteq Calls
                 /\ CallsMeant'
      <3> DEFINE p == [g \in {f} |-> 1 - saved[t].fields[f]]
                 new == [g \in Fields |-> IF g \in DOMAIN p THEN p[g]
                                          ELSE saved[t].fields[g]]
                 more == [fields |-> new, updatedAt |-> saved[t].updatedAt + 1]
      <3>1. saved[t] \in Stored /\ saved \in [Tasks -> Stored \cup {Missing}]
        BY <2>2 DEF OtherUpdate, TasksInv, TasksShape
      <3>2. saved[t].fields \in Contents /\ saved[t].updatedAt \in Nat
        BY <3>1 DEF Stored
      <3>3. new \in Contents
        BY <3>2 DEF Contents, Value
      <3>4. saved' = [saved EXCEPT ![t] = Patched(t, p)] /\ UNCHANGED updates
        BY <2>2 DEF OtherUpdate
      <3>5. Patched(t, p) \in {saved[t], more}
        BY DEF Patched
      <3> HIDE DEF new
      <3>6. more \in Stored
        BY <3>2, <3>3 DEF Stored
      <3> HIDE DEF more, p
      <3> QED BY <3>1, <3>4, <3>5, <3>6 DEF TasksInv, TasksShape, CallsMeant
    <2> QED BY <2>1, <2>2
  <1>3. TasksShape' /\ DialogMeant'
    BY <1>1, <1>2 DEF TasksInv, TasksShape, DialogMeant
  <1> QED BY <1>1, <1>2, <1>3, AddressKept

-----------------------------------------------------------------------------
\* A dialog closes: its task is the one closed last.
LEMMA CloseTaskInv ==
    ASSUME TasksShape', NEW u, NEW d, CloseTask(u, d), d = Missing \/ Meant(d)
    PROVE  DialogMeant' /\ StaysClosed'
  <1>1. /\ fallback' = Missing /\ nav' = NoTask /\ shut' = u /\ Render(u, d, FALSE)
    BY DEF CloseTask
  <1> QED BY <1>1, RenderInv

\* The user closes the dialog, and what it saved or deleted is answered.
LEMMA CloseInv ==
    ASSUME TasksInv, Close \/ \E c \in updates : SaveAnswered(c) \/ DeleteAnswered(c)
    PROVE  TasksInv'
  <1>1. dialog = Missing \/ Meant(dialog)
    BY DEF TasksInv, DialogMeant
  <1>2. \E u, d : CloseTask(u, d) /\ (d = Missing \/ Meant(d))
    <2>1. CASE Close
      <3>1. dialog # Missing /\ dialog.baseline \in Contents
        BY <1>1, <2>1 DEF Close, DialogUsable, Meant, Dialogs
      <3> DEFINE d == [Filled(dialog, dialog.baseline) EXCEPT !.loading = TRUE]
      <3>2. Meant(d) /\ CloseTask(url, d)
        BY <1>1, <2>1, <3>1, DialogChanges DEF Close
      <3> QED BY <3>2
    <2>2. ASSUME NEW c \in updates, SaveAnswered(c)
          PROVE  \E u, d : CloseTask(u, d) /\ (d = Missing \/ Meant(d))
      <3>1. c.fields \in Contents
        BY <2>2 DEF SaveAnswered, TasksInv, CallsMeant, CallMeant
      <3> DEFINE d == IF Waits(c, "saving") THEN Filled(dialog, c.fields) ELSE dialog
      <3>2. d = Missing \/ Meant(d)
        BY <1>1, <3>1, DialogChanges DEF Waits
      <3>3. CloseTask(c.url, d)
        BY <2>2 DEF SaveAnswered
      <3> QED BY <3>2, <3>3
    <2>3. ASSUME NEW c \in updates, DeleteAnswered(c)
          PROVE  \E u, d : CloseTask(u, d) /\ (d = Missing \/ Meant(d))
      <3> DEFINE d == IF Waits(c, "deleting") THEN [dialog EXCEPT !.busy = "no"] ELSE dialog
      <3>1. d = Missing \/ Meant(d)
        BY <1>1, DialogChanges DEF Waits
      <3>2. CloseTask(c.url, d)
        BY <2>3 DEF DeleteAnswered
      <3> QED BY <3>1, <3>2
    <2> QED BY <2>1, <2>2, <2>3
  <1>3. TasksShape' /\ CallsMeant'
    <2>1. UNCHANGED <<saved, url, filter>> /\ fallback' = Missing /\ nav' = NoTask
      BY DEF Close, SaveAnswered, DeleteAnswered, CloseTask
    <2>2. updates' \subseteq updates
      BY DEF Close, SaveAnswered, DeleteAnswered
    <2>3. rows' \in Rows
      <3>1. CASE UNCHANGED rows
        BY <3>1 DEF TasksInv, TasksShape
      <3>2. ASSUME NEW c \in updates, DeleteAnswered(c) PROVE rows' \in Rows
        <4>1. c.id \in Tasks /\ rows \in Rows
          BY DEF TasksInv, TasksShape, Calls
        <4> QED BY <3>2, <4>1, ShapesKept DEF DeleteAnswered
      <3> QED BY <3>1, <3>2 DEF Close, SaveAnswered
    <2>4. lists' \subseteq ListRequests
      <3>1. lists \subseteq ListRequests /\ updates \subseteq Calls
        BY DEF TasksInv, TasksShape
      <3>2. CASE UNCHANGED lists
        BY <3>1, <3>2
      <3>3. ASSUME NEW c \in updates, SaveAnswered(c) \/ DeleteAnswered(c)
            PROVE  lists' \subseteq ListRequests
        <4>1. c.filter \in Filters /\ c.seen \in BOOLEAN
          BY <3>1 DEF Calls
        <4>2. PICK by \in {"save", "delete"} :
                 lists' = lists \cup {ListRequest(by, c.filter, c.seen)}
          BY <3>3 DEF SaveAnswered, DeleteAnswered, Refresh
        <4> QED BY <3>1, <4>1, <4>2, ListRequestShape
      <3> QED BY <3>2, <3>3 DEF Close
    <2> QED BY <2>1, <2>2, <2>3, <2>4 DEF TasksInv, TasksShape, CallsMeant
  <1>4. DialogMeant' /\ StaysClosed'
    BY <1>2, <1>3, CloseTaskInv
  <1> QED BY <1>3, <1>4 DEF TasksInv

\* Another update is answered, or an update has failed.
LEMMA AnsweredInv ==
    ASSUME TasksInv, NEW c \in updates, UpdateAnswered(c) \/ CallFails(c)
    PROVE  TasksInv'
  <1>1. /\ dialog = Missing \/ Meant(dialog)
        /\ c \in Calls /\ lists \subseteq ListRequests /\ updates \subseteq Calls
        /\ CallsMeant /\ rows \in Rows /\ fallback \in Fallbacks \cup {Missing}
    BY DEF TasksInv, TasksShape, DialogMeant
  <1>2. updates' = updates \ {c}
    BY DEF UpdateAnswered, CallFails
  <1>3. updates' \subseteq Calls /\ CallsMeant'
    BY <1>1, <1>2 DEF CallsMeant
  <1>4. CASE UpdateAnswered(c)
    <2>1. UNCHANGED <<saved, url, nav, filter, rows, fallback, closing, link, dialog, shut>>
      BY <1>4 DEF UpdateAnswered
    <2>2. c.filter \in Filters /\ c.seen \in BOOLEAN
      BY <1>1 DEF Calls
    <2>3. /\ c.kind \in {"drag", "field"}
          /\ lists' = lists \cup {ListRequest(c.kind, c.filter, c.seen)}
      BY <1>4 DEF UpdateAnswered, Refresh
    <2>4. lists' \subseteq ListRequests
      BY <1>1, <2>2, <2>3, ListRequestShape
    <2>5. TasksShape' /\ DialogMeant'
      BY <1>3, <2>1, <2>4 DEF TasksInv, TasksShape, DialogMeant
    <2> QED BY <1>3, <2>1, <2>5, AddressKept
  <1>5. CASE CallFails(c)
    <2> DEFINE d == IF \/ c.kind = "save" /\ Waits(c, "saving")
                       \/ c.kind = "delete" /\ Waits(c, "deleting")
                    THEN [dialog EXCEPT !.busy = "no"] ELSE dialog
               b == fallback.isRow /\ fallback.task.id # c.id
    <2>1. d = Missing \/ Meant(d)
      BY <1>1, DialogChanges DEF Waits
    <2>2. PICK renewed : Render(closing, d, renewed)
      BY <1>5 DEF CallFails
    <2>3. UNCHANGED <<saved, url, nav, filter, lists, shut>>
      BY <1>5 DEF CallFails
    <2>4. rows' \in Rows
      <3>1. c.id \in Tasks /\ c.before \in Value
        BY <1>1 DEF Calls
      <3> QED BY <1>1, <1>5, <3>1, ShapesKept DEF CallFails
    <2>5. fallback' \in Fallbacks \cup {Missing}
          /\ (fallback' # Missing => fallback # Missing /\ fallback'.task = fallback.task)
      <3>1. CASE fallback' = fallback
        BY <1>1, <3>1
      <3>2. CASE fallback # Missing /\ fallback' = [fallback EXCEPT !.isRow = b]
        <4>1. b \in BOOLEAN
          BY Zenon
        <4> HIDE DEF b
        <4> QED BY <1>1, <3>2, <4>1, ShapesKept
      <3>3. \/ fallback' = fallback
            \/ fallback # Missing /\ fallback' = [fallback EXCEPT !.isRow = b]
        BY <1>5 DEF CallFails
      <3> QED BY <3>1, <3>2, <3>3
    <2> HIDE DEF d, b
    <2>6. TasksShape'
      BY <1>1, <1>3, <2>3, <2>4, <2>5 DEF TasksInv, TasksShape
    <2>7. shut' # NoTask => /\ nav' \in {NoTask, Stay} /\ (url' = shut' => closing = shut')
                            /\ fallback' # Missing => fallback'.task.id # shut'
      BY <2>3, <2>5 DEF TasksInv, StaysClosed, ClosedStaysClosed
    <2>8. DialogMeant' /\ StaysClosed'
      BY <2>1, <2>2, <2>6, <2>7, RenderInv
    <2> QED BY <1>3, <2>6, <2>8 DEF TasksInv
  <1> QED BY <1>4, <1>5

-----------------------------------------------------------------------------
\* The page opens: its list is on its way.
LEMMA TasksInitially == TasksInit => TasksInv
  <1> SUFFICES ASSUME TasksInit PROVE TasksInv
    OBVIOUS
  <1>1. /\ url \in Tasks \cup {NoTask} /\ nav = Stay /\ filter = "all"
        /\ rows = [t \in Tasks |-> Missing] /\ fallback = Missing
        /\ link = NoTask /\ lists = {ListRequest("filter", "all", TRUE)}
        /\ dialog = Missing /\ updates = {} /\ shut = NoTask
    BY DEF TasksInit
  <1>2. saved \in [Tasks -> Stored \cup {Missing}]
    <2>1. PICK S \in StoredAtFirst :
             saved = [t \in Tasks |->
                      IF t \notin S THEN Missing
                      ELSE [fields |-> [f \in Fields |-> 0], updatedAt |-> 1]]
      BY DEF TasksInit
    <2>2. [fields |-> [f \in Fields |-> 0], updatedAt |-> 1] \in Stored
      BY DEF Stored, Contents, Value
    <2> QED BY <2>1, <2>2
  <1>3. rows \in Rows
    BY <1>1 DEF Rows
  <1>4. lists \subseteq ListRequests
    BY <1>1, ListRequestShape DEF Filters
  <1>5. TasksShape
    BY <1>1, <1>2, <1>3, <1>4 DEF TasksShape, Filters
  <1>6. DialogMeant /\ CallsMeant /\ StaysClosed
    BY <1>1 DEF DialogMeant, CallsMeant, StaysClosed, ClosedStaysClosed
  <1> QED BY <1>5, <1>6 DEF TasksInv

\* Every step keeps the invariant.
LEMMA TasksStep == TasksInv /\ [TasksNext]_ptVars => TasksInv'
  <1> SUFFICES ASSUME TasksInv, [TasksNext]_ptVars PROVE TasksInv'
    OBVIOUS
  <1>1. CASE ServerStep
    BY <1>1, DialogInv, ListAskedInv, TaskServedInv DEF ServerStep
  <1>2. CASE AnswerStep
    <2>1. CASE LinkArrives \/ LinkFails \/ Navigated
      BY <2>1, AddressInv
    <2>2. CASE LoadArrives \/ LoadFails
      BY <2>2, DialogInv
    <2>3. ASSUME NEW l \in lists, ListArrives(l) \/ ListFails(l) PROVE TasksInv'
      BY <2>3, ListAnsweredInv
    <2>4. ASSUME NEW c \in updates, SaveAnswered(c) \/ DeleteAnswered(c) PROVE TasksInv'
      BY <2>4, CloseInv
    <2>5. ASSUME NEW c \in updates, UpdateAnswered(c) \/ CallFails(c) PROVE TasksInv'
      BY <2>5, AnsweredInv
    <2> QED BY <1>2, <2>1, <2>2, <2>3, <2>4, <2>5 DEF AnswerStep
  <1>3. CASE UserStep
    <2>1. CASE Submit \/ Delete \/ \E t \in Tasks, f \in Fields : SetField(t, f)
      BY <2>1, SubmitInv
    <2>2. CASE Close
      BY <2>2, CloseInv
    <2>3. CASE Retry
      BY <2>3, ListAskedInv
    <2>4. ASSUME NEW flt \in Filters, ApplyFilters(flt) PROVE TasksInv'
      BY <2>4, ApplyFiltersInv
    <2>5. CASE \/ \E t \in Tasks : OpenTask(t)
               \/ \E u \in Tasks \cup {NoTask} : Navigate(u)
      BY <2>5, AddressInv
    <2>6. CASE \E f \in Fields, v \in Value : UpdateForm(f, v)
      BY <2>6, DialogInv
    <2>7. ASSUME NEW t \in Tasks, Drag(t) PROVE TasksInv'
      BY <2>7, DragInv
    <2> QED BY <1>3, <2>1, <2>2, <2>3, <2>4, <2>5, <2>6, <2>7 DEF UserStep
  <1>4. CASE UNCHANGED ptVars
    <2>1. TasksShape' /\ DialogMeant' /\ CallsMeant'
      BY <1>4 DEF ptVars, TasksInv, TasksShape, DialogMeant, CallsMeant
    <2> QED BY <1>4, <2>1, AddressKept DEF ptVars
  <1> QED BY <1>1, <1>2, <1>3, <1>4 DEF TasksNext

\* A task that was closed, saved or deleted stays closed until it is asked for,
\* whatever lists, links, answers and navigations overlap (closingTaskIdRef).
THEOREM ClosedForGood == TasksSpec => []ClosedStaysClosed
  <1>1. TasksInv => ClosedStaysClosed
    BY DEF TasksInv, StaysClosed
  <1> QED BY <1>1, TasksInitially, TasksStep, PTL DEF TasksSpec

\* An update of this client changes only what the user has changed, whatever filled
\* the form and its baseline meanwhile (createTaskEditPatch).
THEOREM OnlyWhatWasMeant == TasksSpec => OthersKept
  <1>1. TasksInv /\ [TasksNext]_ptVars => [KeepsOthers]_ptVars
    <2> SUFFICES ASSUME TasksInv PROVE KeepsOthers
      OBVIOUS
    <2> SUFFICES ASSUME NEW c \in updates, ServeCall(c), c.kind # "delete",
                        NEW f \in Fields, saved'[c.id] # saved[c.id],
                        saved'[c.id].fields[f] # saved[c.id].fields[f]
                 PROVE  f \in c.touched
      BY DEF KeepsOthers
    <2>1. saved[c.id] # Missing /\ saved' = [saved EXCEPT ![c.id] = Patched(c.id, c.patch)]
      BY DEF ServeCall
    <2>2. c.id \in Tasks /\ saved \in [Tasks -> Stored \cup {Missing}]
      BY <2>1, PatchedFields DEF TasksInv, TasksShape
    <2>3. saved'[c.id] = Patched(c.id, c.patch)
      BY <2>1, <2>2
    <2> QED BY <2>1, <2>3, PatchedFields
  <1> QED BY <1>1, TasksInitially, TasksStep, PTL DEF TasksSpec, OthersKept

-----------------------------------------------------------------------------
(* No task is shown in a version that the server has not stored, and there *)
(* are no more versions than the bound allows.                             *)
Dated(sv, t, x) ==
    /\ x.updatedAt \in 1..MaxVersions
    /\ sv[t] # Missing => x.updatedAt <= sv[t].updatedAt
DatedRows(sv, r) == \A t \in Tasks : r[t] # Missing => Dated(sv, t, r[t])
DatedFallback(sv, fb) == fb # Missing => Dated(sv, fb.task.id, fb.task)
DatedLists(sv, ls) == \A l \in ls : l.rows # Missing => DatedRows(sv, l.rows)
DatedStore(sv) == \A t \in Tasks : sv[t] # Missing => sv[t].updatedAt \in 1..MaxVersions

VersionsInv ==
    /\ DatedStore(saved) /\ DatedRows(saved, rows) /\ DatedFallback(saved, fallback)
    /\ DatedLists(saved, lists)

(* A row of the page is of a version which its task on the server has, or  *)
(* has had.                                                                *)
RowsNeverAhead ==
    \A t \in Tasks :
        rows[t] # Missing /\ saved[t] # Missing => rows[t].updatedAt <= saved[t].updatedAt

\* A task has no more versions than all tasks together.
LEMMA VersionsOfOne ==
    ASSUME IsFiniteSet(Tasks), MaxVersions \in Nat, TasksShape, NEW t \in Tasks,
           saved[t] # Missing, saved[t].updatedAt \in 1..MaxVersions
    PROVE  StoredVersions \in Nat /\ saved[t].updatedAt <= StoredVersions
  <1> DEFINE n == saved[t].updatedAt
             All == Tasks \X (1..MaxVersions)
             S == {e \in All : saved[e[1]] # Missing /\ e[2] <= saved[e[1]].updatedAt}
             T == {t} \X (1..n)
  <1>1. n \in Nat \ {0} /\ n <= MaxVersions
    OBVIOUS
  <1>2. \A m \in Nat \ {0} : IsFiniteSet(1..m) /\ Cardinality(1..m) = m
    <2> SUFFICES ASSUME NEW m \in Nat \ {0} PROVE IsFiniteSet(1..m) /\ Cardinality(1..m) = m
      OBVIOUS
    <2>1. 1 \in Int /\ m \in Int /\ ~(1 > m) /\ m - 1 + 1 = m
      OBVIOUS
    <2> QED BY <2>1, FS_Interval
  <1>3. IsFiniteSet(1..MaxVersions) /\ IsFiniteSet(1..n) /\ Cardinality(1..n) = n
    <2>1. MaxVersions \in Nat \ {0}
      BY <1>1
    <2> HIDE DEF n
    <2> QED BY <1>1, <1>2, <2>1
  <1>4. IsFiniteSet(All)
    BY <1>3, FS_Product
  <1>5. IsFiniteSet(S) /\ Cardinality(S) \in Nat
    BY <1>4, FS_Subset, FS_CardinalityType
  <1>6. T \subseteq S
    OBVIOUS
  <1>7. IsFiniteSet({t}) /\ Cardinality({t}) = 1
    BY FS_Singleton
  <1>8. Cardinality(T) = n
    <2> DEFINE I == 1..n
               One == {t}
    <2>1. IsFiniteSet(I) /\ Cardinality(I) = n /\ IsFiniteSet(One) /\ Cardinality(One) = 1
      BY <1>3, <1>7
    <2>2. T = One \X I
      OBVIOUS
    <2> HIDE DEF I, One, n, T
    <2>3. Cardinality(One \X I) = Cardinality(One) * Cardinality(I)
      BY <2>1, FS_Product
    <2> QED BY <1>1, <2>1, <2>2, <2>3
  <1>9. Cardinality(T) <= Cardinality(S)
    BY <1>5, <1>6, FS_Subset
  <1>10. StoredVersions = Cardinality(S)
    BY DEF StoredVersions
  <1> QED BY <1>5, <1>8, <1>9, <1>10

\* What the server stores only becomes newer, or is deleted.
Newer(old, new) ==
    \A t \in Tasks : new[t] # Missing =>
        old[t] # Missing /\ old[t].updatedAt <= new[t].updatedAt

\* What was not ahead of the server is not when the server's tasks become newer.
LEMMA DatedAgain ==
    ASSUME NEW sv, NEW new, Newer(sv, new), sv \in [Tasks -> Stored \cup {Missing}],
           new \in [Tasks -> Stored \cup {Missing}]
    PROVE  /\ \A r : DatedRows(sv, r) => DatedRows(new, r)
           /\ \A fb : fb \in Fallbacks \cup {Missing} /\ DatedFallback(sv, fb)
                         => DatedFallback(new, fb)
           /\ \A ls : DatedLists(sv, ls) => DatedLists(new, ls)
  <1>1. ASSUME NEW t \in Tasks, NEW x, Dated(sv, t, x) PROVE Dated(new, t, x)
    <2>1. x.updatedAt \in 1..MaxVersions
      BY <1>1 DEF Dated
    <2>2. ASSUME new[t] # Missing PROVE x.updatedAt <= new[t].updatedAt
      <3>1. /\ sv[t] # Missing /\ sv[t].updatedAt <= new[t].updatedAt
            /\ x.updatedAt <= sv[t].updatedAt
        BY <1>1, <2>2 DEF Newer, Dated
      <3>2. sv[t].updatedAt \in Nat /\ new[t].updatedAt \in Nat
        BY <2>2, <3>1 DEF Stored
      <3> QED BY <2>1, <3>1, <3>2
    <2> QED BY <2>1, <2>2 DEF Dated
  <1>2. \A r : DatedRows(sv, r) => DatedRows(new, r)
    BY <1>1 DEF DatedRows
  <1>3. ASSUME NEW fb \in Fallbacks \cup {Missing}, DatedFallback(sv, fb)
        PROVE  DatedFallback(new, fb)
    <2>1. fb # Missing => fb.task.id \in Tasks
      BY DEF Fallbacks, Listing
    <2> QED BY <1>1, <1>3, <2>1 DEF DatedFallback
  <1>4. \A ls : DatedLists(sv, ls) => DatedLists(new, ls)
    BY <1>2 DEF DatedLists
  <1> QED BY <1>2, <1>3, <1>4

\* A change of a task is its next version, or none.
LEMMA PatchedVersion ==
    ASSUME NEW t, NEW patch
    PROVE  \/ Patched(t, patch) = saved[t]
           \/ Patched(t, patch).updatedAt = saved[t].updatedAt + 1
  BY DEF Patched

\* The server handles an update, or somebody changes a task.
LEMMA ServeVersions ==
    ASSUME IsFiniteSet(Tasks), MaxVersions \in Nat, TasksInv, TasksInv', VersionsInv,
           \/ \E c \in updates : ServeCall(c)
           \/ \E t \in Tasks, f \in Fields : OtherUpdate(t, f)
    PROVE  VersionsInv'
  <1>1. /\ saved \in [Tasks -> Stored \cup {Missing}]
        /\ saved' \in [Tasks -> Stored \cup {Missing}]
        /\ fallback \in Fallbacks \cup {Missing} /\ updates \subseteq Calls /\ TasksShape
    BY DEF TasksInv, TasksShape
  <1>2. UNCHANGED <<rows, fallback, lists>>
    BY DEF ServeCall, OtherUpdate
  <1>3. \/ UNCHANGED saved
        \/ \E t \in Tasks : saved' = [saved EXCEPT ![t] = Missing]
        \/ /\ StoredVersions < MaxVersions
           /\ \E t \in Tasks : \E p : saved[t] # Missing
                                  /\ saved' = [saved EXCEPT ![t] = Patched(t, p)]
    <2>1. ASSUME NEW c \in updates, ServeCall(c)
          PROVE  \/ UNCHANGED saved
                 \/ \E t \in Tasks : saved' = [saved EXCEPT ![t] = Missing]
                 \/ /\ StoredVersions < MaxVersions
                    /\ \E t \in Tasks : \E p : saved[t] # Missing
                                           /\ saved' = [saved EXCEPT ![t] = Patched(t, p)]
      <3>1. c.id \in Tasks
        BY <1>1 DEF Calls
      <3>2. CASE UNCHANGED saved
        BY <3>2
      <3>3. CASE /\ saved[c.id] # Missing
                 /\ c.kind = "delete" \/ StoredVersions < MaxVersions
                 /\ saved' = [saved EXCEPT ![c.id] = IF c.kind = "delete" THEN Missing
                                                     ELSE Patched(c.id, c.patch)]
        <4>1. CASE c.kind = "delete"
          BY <3>1, <3>3, <4>1
        <4>2. CASE c.kind # "delete"
          <5>1. saved' = [saved EXCEPT ![c.id] = Patched(c.id, c.patch)]
            BY <3>3, <4>2
          <5> QED BY <3>1, <3>3, <4>2, <5>1
        <4> QED BY <4>1, <4>2
      <3> QED BY <2>1, <3>2, <3>3 DEF ServeCall
    <2>2. ASSUME NEW t \in Tasks, NEW f \in Fields, OtherUpdate(t, f)
          PROVE  /\ StoredVersions < MaxVersions
                 /\ \E p : saved[t] # Missing /\ saved' = [saved EXCEPT ![t] = Patched(t, p)]
      BY <2>2 DEF OtherUpdate
    <2> QED BY <2>1, <2>2
  <1>4. DatedStore(saved') /\ Newer(saved, saved')
    <2>1. \A t \in Tasks : saved[t] # Missing =>
             saved[t].updatedAt \in Nat /\ saved[t].updatedAt \in 1..MaxVersions
      BY DEF VersionsInv, DatedStore
    <2>2. CASE UNCHANGED saved \/ \E t \in Tasks : saved' = [saved EXCEPT ![t] = Missing]
      BY <1>1, <2>1, <2>2 DEF DatedStore, Newer
    <2>3. ASSUME StoredVersions < MaxVersions, NEW t \in Tasks, NEW p, saved[t] # Missing,
                 saved' = [saved EXCEPT ![t] = Patched(t, p)]
          PROVE  DatedStore(saved') /\ Newer(saved, saved')
      <3> DEFINE x == Patched(t, p)
      <3>1. StoredVersions \in Nat /\ saved[t].updatedAt <= StoredVersions
        BY <1>1, <2>1, <2>3, VersionsOfOne
      <3>2. x = saved[t] \/ x.updatedAt = saved[t].updatedAt + 1
        BY PatchedVersion
      <3> HIDE DEF x
      <3>3. x.updatedAt \in 1..MaxVersions /\ saved[t].updatedAt <= x.updatedAt
        BY <2>1, <2>3, <3>1, <3>2
      <3>4. saved'[t] = x /\ \A u \in Tasks : u # t => saved'[u] = saved[u]
        BY <1>1, <2>3 DEF x
      <3> QED BY <2>1, <2>3, <3>3, <3>4 DEF DatedStore, Newer
    <2> QED BY <1>3, <2>2, <2>3
  <1> QED BY <1>1, <1>2, <1>4, DatedAgain DEF VersionsInv

\* What the server reads is of the version it stores.
LEMMA ReadIsDated ==
    ASSUME DatedStore(saved), TasksShape
    PROVE  /\ \A t \in Tasks : saved[t] # Missing => Dated(saved, t, Read(t)) /\ Read(t).id = t
           /\ \A flt : DatedRows(saved, Listed(flt))
  <1>1. ASSUME NEW t \in Tasks, saved[t] # Missing
        PROVE  Dated(saved, t, Read(t)) /\ Read(t).id = t
    <2>1. saved[t].updatedAt \in 1..MaxVersions /\ saved[t].updatedAt <= saved[t].updatedAt
      BY <1>1 DEF DatedStore
    <2> QED BY <2>1 DEF Dated, Read
  <1>2. ASSUME NEW flt PROVE DatedRows(saved, Listed(flt))
    <2>1. ASSUME NEW t \in Tasks, Listed(flt)[t] # Missing
          PROVE  Listed(flt)[t] = Read(t) /\ saved[t] # Missing
      BY <2>1 DEF Listed
    <2> QED BY <1>1, <2>1 DEF DatedRows
  <1> QED BY <1>1, <1>2

\* A row that changes keeps its version, a fallback that loses its row too.
LEMMA DatedParts ==
    ASSUME NEW sv
    PROVE  /\ \A r \in Rows, t \in Tasks : \A v : r[t] # Missing /\ DatedRows(sv, r) =>
                 DatedRows(sv, [r EXCEPT ![t].fields["status"] = v])
           /\ \A r \in Rows, t \in Tasks : DatedRows(sv, r) =>
                 DatedRows(sv, [r EXCEPT ![t] = Missing])
           /\ \A fb \in Fallbacks : \A b : fb # Missing /\ DatedFallback(sv, fb) =>
                 DatedFallback(sv, [fb EXCEPT !.isRow = b])
  <1>1. ASSUME NEW r \in Rows, NEW t \in Tasks, NEW v, r[t] # Missing, DatedRows(sv, r)
        PROVE  DatedRows(sv, [r EXCEPT ![t].fields["status"] = v])
    <2> DEFINE x == [r[t].fields EXCEPT !["status"] = v]
               e == [r[t] EXCEPT !.fields = x]
    <2>1. r \in [Tasks -> Listing \cup {Missing}] /\ r[t] \in Listing
      BY <1>1 DEF Rows
    <2>2. [r EXCEPT ![t].fields["status"] = v] = [r EXCEPT ![t] = e]
      OBVIOUS
    <2> HIDE DEF x
    <2>3. e.updatedAt = r[t].updatedAt
      BY <2>1 DEF Listing
    <2> HIDE DEF e
    <2>4. DatedRows(sv, [r EXCEPT ![t] = e])
      BY <1>1, <2>1, <2>3 DEF DatedRows, Dated
    <2> QED BY <2>2, <2>4
  <1>2. ASSUME NEW r \in Rows, NEW t \in Tasks, DatedRows(sv, r)
        PROVE  DatedRows(sv, [r EXCEPT ![t] = Missing])
    BY <1>2 DEF DatedRows, Rows
  <1>3. ASSUME NEW fb \in Fallbacks, NEW b, fb # Missing, DatedFallback(sv, fb)
        PROVE  DatedFallback(sv, [fb EXCEPT !.isRow = b])
    <2>1. [fb EXCEPT !.isRow = b].task = fb.task
      BY DEF Fallbacks
    <2>2. Dated(sv, fb.task.id, fb.task)
      BY <1>3 DEF DatedFallback
    <2> QED BY <2>1, <2>2 DEF DatedFallback
  <1> QED BY <1>1, <1>2, <1>3

\* A request for the list that is new, forgotten or answered stays dated.
LEMMA DatedRequests ==
    ASSUME NEW sv
    PROVE  /\ \A by, flt, seen : ListRequest(by, flt, seen).rows = Missing
           /\ \A S \in SUBSET ListRequests : DatedLists(sv, S) => DatedLists(sv, Forgotten(S))
           /\ \A S, T : DatedLists(sv, S) /\ T \subseteq S => DatedLists(sv, T)
           /\ \A S, x : DatedLists(sv, S) /\ x.rows = Missing => DatedLists(sv, S \cup {x})
           /\ \A S, x : DatedLists(sv, S) /\ DatedRows(sv, x.rows) => DatedLists(sv, S \cup {x})
  <1>1. \A by, flt, seen : ListRequest(by, flt, seen).rows = Missing
    BY DEF ListRequest
  <1>2. ASSUME NEW S \in SUBSET ListRequests, DatedLists(sv, S)
        PROVE  DatedLists(sv, Forgotten(S))
    <2>1. \A l \in S : [l EXCEPT !.seen = FALSE].rows = l.rows
      BY DEF ListRequests
    <2> QED BY <1>2, <2>1 DEF Forgotten, DatedLists
  <1>3. \A S, T : DatedLists(sv, S) /\ T \subseteq S => DatedLists(sv, T)
    BY DEF DatedLists
  <1>4. /\ \A S, x : DatedLists(sv, S) /\ x.rows = Missing => DatedLists(sv, S \cup {x})
        /\ \A S, x : DatedLists(sv, S) /\ DatedRows(sv, x.rows) => DatedLists(sv, S \cup {x})
    BY DEF DatedLists
  <1> QED BY <1>1, <1>2, <1>3, <1>4

\* The list is asked for, read, arrives or fails.
LEMMA ListVersions ==
    ASSUME TasksInv, VersionsInv,
           \/ Retry \/ \E flt \in Filters : ApplyFilters(flt)
           \/ \E l \in lists : ServeList(l) \/ ListArrives(l) \/ ListFails(l)
    PROVE  VersionsInv'
  <1>1. UNCHANGED saved
    BY DEF Retry, ApplyFilters, ServeList, ListArrives, ListFails
  <1>2. /\ DatedStore(saved) /\ DatedRows(saved, rows) /\ DatedFallback(saved, fallback)
        /\ DatedLists(saved, lists) /\ lists \subseteq ListRequests /\ TasksShape
        /\ fallback \in Fallbacks \cup {Missing}
    BY DEF VersionsInv, TasksInv, TasksShape
  <1>3. CASE Retry
    <2>1. UNCHANGED <<rows, fallback>> /\ lists' = lists \cup {ListRequest("retry", filter, TRUE)}
      BY <1>3 DEF Retry
    <2>2. DatedLists(saved, lists')
      BY <1>2, <2>1, DatedRequests
    <2> QED BY <1>1, <1>2, <2>1, <2>2 DEF VersionsInv
  <1>4. ASSUME NEW flt \in Filters, ApplyFilters(flt) PROVE VersionsInv'
    <2> DEFINE S == {l \in lists : l.by # "filter"}
    <2>1. UNCHANGED <<rows, fallback>>
          /\ lists' = Forgotten(S) \cup {ListRequest("filter", flt, TRUE)}
      BY <1>4 DEF ApplyFilters
    <2>2. S \subseteq lists
      OBVIOUS
    <2> HIDE DEF S
    <2>3. DatedLists(saved, Forgotten(S))
      BY <1>2, <2>2, DatedRequests
    <2>4. DatedLists(saved, lists')
      BY <2>1, <2>3, DatedRequests
    <2> QED BY <1>1, <1>2, <2>1, <2>4 DEF VersionsInv
  <1>5. ASSUME NEW l \in lists, ServeList(l) PROVE VersionsInv'
    <2> DEFINE r == Listed(l.filter)
               x == [l EXCEPT !.rows = r]
    <2>1. UNCHANGED <<rows, fallback>> /\ lists' = (lists \ {l}) \cup {x}
      BY <1>5 DEF ServeList
    <2>2. DatedRows(saved, r)
      BY <1>2, ReadIsDated
    <2> HIDE DEF r
    <2>3. x.rows = r
      BY <1>2 DEF ListRequests
    <2> HIDE DEF x
    <2>4. DatedLists(saved, lists \ {l})
      BY <1>2, DatedRequests
    <2>5. DatedLists(saved, lists')
      BY <2>1, <2>2, <2>3, <2>4, DatedRequests
    <2> QED BY <1>1, <1>2, <2>1, <2>5 DEF VersionsInv
  <1>6. ASSUME NEW l \in lists, ListArrives(l) PROVE VersionsInv'
    <2>1. /\ l.rows # Missing /\ lists' = lists \ {l} /\ rows' = l.rows
          /\ fallback' = IF fallback = Missing THEN Missing
                         ELSE [fallback EXCEPT !.isRow = FALSE]
      BY <1>6 DEF ListArrives
    <2>2. DatedRows(saved, rows')
      BY <1>2, <2>1 DEF DatedLists
    <2>3. DatedLists(saved, lists')
      BY <1>2, <2>1, DatedRequests
    <2>4. DatedFallback(saved, fallback')
      <3>1. CASE fallback = Missing
        BY <2>1, <3>1 DEF DatedFallback
      <3>2. CASE fallback # Missing
        BY <1>2, <2>1, <3>2, DatedParts
      <3> QED BY <3>1, <3>2
    <2> QED BY <1>1, <1>2, <2>2, <2>3, <2>4 DEF VersionsInv
  <1>7. ASSUME NEW l \in lists, ListFails(l) PROVE VersionsInv'
    <2>1. UNCHANGED <<rows, fallback>> /\ lists' = Forgotten(lists \ {l})
      BY <1>7 DEF ListFails
    <2>2. DatedLists(saved, lists \ {l})
      BY <1>2, DatedRequests
    <2>3. DatedLists(saved, lists')
      BY <1>2, <2>1, <2>2, DatedRequests
    <2> QED BY <1>1, <1>2, <2>1, <2>3 DEF VersionsInv
  <1> QED BY <1>3, <1>4, <1>5, <1>6, <1>7

\* A task is opened, or one the address names is loaded.
LEMMA OpenedVersions ==
    ASSUME TasksInv, VersionsInv, LinkArrives \/ LinkFails \/ \E t \in Tasks : OpenTask(t)
    PROVE  VersionsInv'
  <1>1. UNCHANGED <<saved, rows, lists>>
    BY DEF LinkArrives, LinkFails, OpenTask
  <1>2. /\ DatedStore(saved) /\ DatedRows(saved, rows) /\ DatedLists(saved, lists)
        /\ TasksShape /\ rows \in Rows /\ link \in {NoTask, url} /\ url \in Tasks \cup {NoTask}
    BY DEF VersionsInv, TasksInv, TasksShape, StaysClosed
  <1>3. DatedFallback(saved, fallback')
    <2>1. CASE LinkArrives
      <3>1. link \in Tasks /\ saved[link] # Missing
            /\ fallback' = [task |-> Read(link), isRow |-> FALSE]
        BY <1>2, <2>1 DEF LinkArrives
      <3>2. Dated(saved, link, Read(link)) /\ Read(link).id = link
        BY <1>2, <3>1, ReadIsDated
      <3> QED BY <3>1, <3>2 DEF DatedFallback
    <2>2. CASE LinkFails
      BY <2>2 DEF LinkFails, DatedFallback
    <2>3. ASSUME NEW t \in Tasks, OpenTask(t) PROVE DatedFallback(saved, fallback')
      <3>1. rows[t] # Missing /\ fallback' = [task |-> rows[t], isRow |-> TRUE]
        BY <2>3 DEF OpenTask
      <3>2. rows[t].id = t /\ Dated(saved, t, rows[t])
        BY <1>2, <3>1 DEF Rows, DatedRows
      <3> QED BY <3>1, <3>2 DEF DatedFallback
    <2> QED BY <2>1, <2>2, <2>3
  <1> QED BY <1>1, <1>2, <1>3 DEF VersionsInv

\* An update is answered, a dialog closes, a task is dragged.
LEMMA AnsweredVersions ==
    ASSUME TasksInv, VersionsInv,
           \/ Close \/ \E t \in Tasks : Drag(t)
           \/ \E c \in updates : SaveAnswered(c) \/ DeleteAnswered(c) \/ UpdateAnswered(c)
                                 \/ CallFails(c)
    PROVE  VersionsInv'
  <1>1. UNCHANGED saved
    BY DEF Close, Drag, SaveAnswered, DeleteAnswered, UpdateAnswered, CallFails
  <1>2. /\ DatedStore(saved) /\ DatedRows(saved, rows) /\ DatedFallback(saved, fallback)
        /\ DatedLists(saved, lists) /\ rows \in Rows /\ updates \subseteq Calls
        /\ fallback \in Fallbacks \cup {Missing}
    BY DEF VersionsInv, TasksInv, TasksShape
  <1>3. DatedFallback(saved, Missing)
    BY DEF DatedFallback
  <1>4. ASSUME NEW c, NEW by, Refresh(c, by) PROVE DatedLists(saved, lists')
    <2>1. lists' = lists \cup {ListRequest(by, c.filter, c.seen)}
      BY <1>4 DEF Refresh
    <2> QED BY <1>2, <2>1, DatedRequests
  <1>5. ASSUME NEW t, fallback' \in {fallback, Missing,
                                     [fallback EXCEPT !.isRow = @ /\ fallback.task.id # t]},
               fallback = Missing => fallback' = Missing
        PROVE  DatedFallback(saved, fallback')
    <2> DEFINE b == fallback.isRow /\ fallback.task.id # t
    <2>1. CASE fallback = Missing
      BY <1>3, <1>5, <2>1
    <2>2. CASE fallback # Missing
      <3>1. fallback' \in {fallback, Missing, [fallback EXCEPT !.isRow = b]}
        BY <1>5
      <3> HIDE DEF b
      <3>2. fallback \in Fallbacks
        BY <1>2, <2>2
      <3>3. DatedFallback(saved, [fallback EXCEPT !.isRow = b])
        BY <1>2, <2>2, <3>2, DatedParts
      <3> DEFINE fb == [fallback EXCEPT !.isRow = b]
      <3> HIDE DEF fb
      <3>4. fallback' \in {fallback, Missing, fb} /\ DatedFallback(saved, fb)
        BY <3>1, <3>3 DEF fb
      <3> QED BY <1>2, <1>3, <3>4
    <2> QED BY <2>1, <2>2
  <1>6. CASE Close
    BY <1>1, <1>2, <1>3, <1>6 DEF Close, CloseTask, VersionsInv
  <1>7. ASSUME NEW c \in updates, SaveAnswered(c) PROVE VersionsInv'
    <2>1. UNCHANGED rows /\ fallback' = Missing /\ Refresh(c, "save")
      BY <1>7 DEF SaveAnswered, CloseTask
    <2> QED BY <1>1, <1>2, <1>3, <1>4, <2>1 DEF VersionsInv
  <1>8. ASSUME NEW c \in updates, DeleteAnswered(c) PROVE VersionsInv'
    <2>1. /\ rows' = [rows EXCEPT ![c.id] = Missing] /\ fallback' = Missing
          /\ Refresh(c, "delete") /\ c.id \in Tasks
      BY <1>2, <1>8 DEF DeleteAnswered, CloseTask, Calls
    <2>2. DatedRows(saved, rows')
      BY <1>2, <2>1, DatedParts
    <2> QED BY <1>1, <1>2, <1>3, <1>4, <2>1, <2>2 DEF VersionsInv
  <1>9. ASSUME NEW c \in updates, UpdateAnswered(c) PROVE VersionsInv'
    <2>1. UNCHANGED <<rows, fallback>> /\ Refresh(c, c.kind)
      BY <1>9 DEF UpdateAnswered
    <2> QED BY <1>1, <1>2, <1>4, <2>1 DEF VersionsInv
  <1>10. ASSUME NEW c \in updates, CallFails(c) PROVE VersionsInv'
    <2>1. /\ UNCHANGED lists /\ c.id \in Tasks
          /\ rows' = IF c.kind = "drag" /\ rows[c.id] # Missing
                     THEN [rows EXCEPT ![c.id].fields["status"] = c.before] ELSE rows
          /\ fallback' = IF c.kind = "drag" /\ fallback # Missing
                         THEN [fallback EXCEPT !.isRow = @ /\ fallback.task.id # c.id]
                         ELSE fallback
      BY <1>2, <1>10 DEF CallFails, Calls
    <2>2. DatedRows(saved, rows')
      BY <1>2, <2>1, DatedParts
    <2>3. DatedFallback(saved, fallback')
      BY <1>5, <2>1
    <2> QED BY <1>1, <1>2, <2>1, <2>2, <2>3 DEF VersionsInv
  <1>11. ASSUME NEW t \in Tasks, Drag(t) PROVE VersionsInv'
    <2> DEFINE v == 1 - rows[t].fields["status"]
    <2>1. /\ UNCHANGED lists /\ rows[t] # Missing
          /\ rows' = [rows EXCEPT ![t].fields["status"] = v]
          /\ fallback' = IF fallback = Missing THEN Missing
                         ELSE [fallback EXCEPT !.isRow = @ /\ fallback.task.id # t]
      BY <1>11 DEF Drag
    <2> HIDE DEF v
    <2>2. DatedRows(saved, rows')
      BY <1>2, <2>1, DatedParts
    <2>3. DatedFallback(saved, fallback')
      BY <1>5, <2>1
    <2> QED BY <1>1, <1>2, <2>1, <2>2, <2>3 DEF VersionsInv
  <1> QED BY <1>6, <1>7, <1>8, <1>9, <1>10, <1>11

\* Every step keeps it.
LEMMA VersionsStep ==
    ASSUME IsFiniteSet(Tasks), MaxVersions \in Nat, TasksInv, TasksInv', VersionsInv,
           [TasksNext]_ptVars
    PROVE  VersionsInv'
  <1>1. CASE UNCHANGED <<saved, rows, fallback, lists>>
    BY <1>1 DEF VersionsInv
  <1>2. CASE ServerStep
    <2>1. CASE ServeLoad
      BY <1>1, <2>1 DEF ServeLoad
    <2> QED BY <1>2, <2>1, ListVersions, ServeVersions DEF ServerStep
  <1>3. CASE AnswerStep
    <2>1. CASE LoadArrives \/ LoadFails \/ Navigated
      BY <1>1, <2>1 DEF LoadArrives, LoadFails, Navigated
    <2> QED BY <1>3, <2>1, ListVersions, OpenedVersions, AnsweredVersions DEF AnswerStep
  <1>4. CASE UserStep
    <2>1. CASE Submit \/ Delete \/ (\E u \in Tasks \cup {NoTask} : Navigate(u))
      BY <1>1, <2>1 DEF Submit, Delete, Navigate
    <2>2. CASE (\E f \in Fields, v \in Value : UpdateForm(f, v))
               \/ \E t \in Tasks, f \in Fields : SetField(t, f)
      BY <1>1, <2>2 DEF UpdateForm, SetField
    <2> QED BY <1>4, <2>1, <2>2, ListVersions, OpenedVersions, AnsweredVersions DEF UserStep
  <1> QED BY <1>1, <1>2, <1>3, <1>4 DEF TasksNext, ptVars

\* At first every task is of its first version, and none is listed.
LEMMA VersionsInitially ==
    ASSUME MaxVersions \in Nat \ {0}, TasksInit
    PROVE  VersionsInv
  <1>1. /\ rows = [t \in Tasks |-> Missing] /\ fallback = Missing
        /\ lists = {ListRequest("filter", "all", TRUE)}
    BY DEF TasksInit
  <1>2. \A t \in Tasks : saved[t] # Missing => saved[t].updatedAt = 1
    <2>1. PICK S \in StoredAtFirst :
             saved = [t \in Tasks |->
                      IF t \notin S THEN Missing
                      ELSE [fields |-> [f \in Fields |-> 0], updatedAt |-> 1]]
      BY DEF TasksInit
    <2> QED BY <2>1
  <1>3. 1 \in 1..MaxVersions
    OBVIOUS
  <1>4. DatedStore(saved)
    BY <1>2, <1>3 DEF DatedStore
  <1>5. DatedLists(saved, lists)
    BY <1>1, DatedRequests DEF DatedLists
  <1> QED BY <1>1, <1>4, <1>5 DEF VersionsInv, DatedRows, DatedFallback

\* The page never lists a task in a version the server has not reached, whatever
\* lists, drags, roll-backs and deletions overlap (StoredVersions, ListArrives).
THEOREM TasksNeverAhead ==
    ASSUME IsFiniteSet(Tasks), MaxVersions \in Nat \ {0}
    PROVE  TasksSpec => []RowsNeverAhead
  <1>1. TasksInit => TasksInv /\ VersionsInv
    BY TasksInitially, VersionsInitially
  <1>2. TasksInv /\ VersionsInv /\ [TasksNext]_ptVars => (TasksInv /\ VersionsInv)'
    BY TasksStep, VersionsStep
  <1>3. VersionsInv => RowsNeverAhead
    BY DEF VersionsInv, DatedRows, Dated, RowsNeverAhead
  <1> QED BY <1>1, <1>2, <1>3, PTL DEF TasksSpec

-----------------------------------------------------------------------------
(* What the type invariant says besides.                                   *)
TasksCounts ==
    /\ loading \in BOOLEAN /\ failed \in BOOLEAN
    /\ closing \in Tasks \cup {NoTask} /\ shut \in Tasks \cup {NoTask}
    /\ IsFiniteSet(updates) /\ Cardinality(updates) <= MaxUpdates

\* Forgetting requests does not make more of them.
LEMMA ForgottenAreAsMany ==
    ASSUME NEW S, IsFiniteSet(S)
    PROVE  IsFiniteSet(Forgotten(S)) /\ Cardinality(Forgotten(S)) <= Cardinality(S)
  <1> DEFINE T == Forgotten(S)
             f == [r \in S |-> [r EXCEPT !.seen = FALSE]]
  <1>1. f \in [S -> T] /\ \A x \in T : \E r \in S : f[r] = x
    BY DEF Forgotten
  <1>2. f \in Surjection(S, T)
    BY <1>1 DEF Surjection
  <1> HIDE DEF T, f
  <1> QED BY <1>2, FS_Surjection DEF T

\* Updates under way: one more where there is room, one handled, one answered.
LEMMA UpdatesCounted ==
    ASSUME MaxUpdates \in Nat, IsFiniteSet(updates), Cardinality(updates) <= MaxUpdates,
           [TasksNext]_ptVars
    PROVE  IsFiniteSet(updates') /\ Cardinality(updates') <= MaxUpdates
  <1>1. Cardinality(updates) \in Nat
    BY FS_CardinalityType
  <1>2. CASE UNCHANGED updates
    BY <1>2
  <1>3. CASE updates' = Forgotten(updates)
    <2>1. IsFiniteSet(updates') /\ Cardinality(updates') <= Cardinality(updates)
          /\ Cardinality(updates') \in Nat
      BY <1>3, ForgottenAreAsMany, FS_CardinalityType
    <2> QED BY <1>1, <2>1
  <1>4. ASSUME NEW c, SendCall(c)
        PROVE  IsFiniteSet(updates') /\ Cardinality(updates') <= MaxUpdates
    <2>1. Cardinality(updates) < MaxUpdates /\ updates' = updates \cup {c}
      BY <1>4 DEF SendCall
    <2> DEFINE U == updates \cup {c}
    <2>2. IsFiniteSet(U) /\ Cardinality(U) = (IF c \in updates THEN Cardinality(updates)
                                             ELSE Cardinality(updates) + 1)
      BY FS_AddElement
    <2> HIDE DEF U
    <2>3. updates' = U
      BY <2>1 DEF U
    <2> QED BY <1>1, <2>1, <2>2, <2>3
  <1>5. ASSUME NEW c \in updates
        PROVE  /\ IsFiniteSet(updates \ {c})
               /\ Cardinality(updates \ {c}) = Cardinality(updates) - 1
    BY FS_RemoveElement
  <1>6. ASSUME NEW c \in updates, updates' = updates \ {c}
        PROVE  IsFiniteSet(updates') /\ Cardinality(updates') <= MaxUpdates
    BY <1>1, <1>5, <1>6
  <1>7. ASSUME NEW c \in updates, NEW x, updates' = (updates \ {c}) \cup {x}
        PROVE  IsFiniteSet(updates') /\ Cardinality(updates') <= MaxUpdates
    <2> DEFINE R == updates \ {c}
    <2>1. IsFiniteSet(R) /\ Cardinality(R) = Cardinality(updates) - 1
      BY <1>5
    <2> HIDE DEF R
    <2>2. IsFiniteSet(R \cup {x}) /\ Cardinality(R \cup {x}) =
             IF x \in R THEN Cardinality(R) ELSE Cardinality(R) + 1
      BY <2>1, FS_AddElement
    <2>3. updates' = R \cup {x}
      BY <1>7 DEF R
    <2> QED BY <1>1, <2>1, <2>2, <2>3
  <1>8. CASE ServerStep
    <2>1. ASSUME NEW c \in updates, ServeCall(c)
          PROVE  \E x : updates' = (updates \ {c}) \cup {x}
      BY <2>1 DEF ServeCall
    <2>2. CASE ServeLoad \/ (\E l \in lists : ServeList(l))
               \/ \E t \in Tasks, f \in Fields : OtherUpdate(t, f)
      BY <1>2, <2>2 DEF ServeLoad, ServeList, OtherUpdate
    <2> QED BY <1>7, <1>8, <2>1, <2>2 DEF ServerStep
  <1>9. CASE AnswerStep
    <2>1. CASE LinkArrives \/ LinkFails \/ LoadArrives \/ LoadFails \/ Navigated
      BY <1>2, <2>1 DEF LinkArrives, LinkFails, LoadArrives, LoadFails, Navigated
    <2>2. ASSUME NEW l \in lists, ListArrives(l) \/ ListFails(l)
          PROVE  UNCHANGED updates \/ updates' = Forgotten(updates)
      BY <2>2 DEF ListArrives, ListFails
    <2>3. ASSUME NEW c \in updates,
                 SaveAnswered(c) \/ DeleteAnswered(c) \/ UpdateAnswered(c) \/ CallFails(c)
          PROVE  updates' = updates \ {c}
      BY <2>3 DEF SaveAnswered, DeleteAnswered, UpdateAnswered, CallFails
    <2> QED BY <1>2, <1>3, <1>6, <1>9, <2>1, <2>2, <2>3 DEF AnswerStep
  <1>10. CASE UserStep
    <2>1. CASE Submit \/ Delete
      <3>1. \E c : SendCall(c)
        BY <2>1 DEF Submit, Delete
      <3> QED BY <1>4, <3>1
    <2>2. ASSUME NEW t \in Tasks, Drag(t) \/ \E f \in Fields : SetField(t, f)
          PROVE  \E c : SendCall(c)
      BY <2>2 DEF Drag, SetField
    <2>3. CASE Close \/ Retry \/ \E u \in Tasks \cup {NoTask} : Navigate(u)
      BY <1>2, <2>3 DEF Close, Retry, Navigate
    <2>4. ASSUME NEW flt \in Filters, ApplyFilters(flt) PROVE updates' = Forgotten(updates)
      BY <2>4 DEF ApplyFilters
    <2>5. CASE (\E f \in Fields, v \in Value : UpdateForm(f, v)) \/ \E t \in Tasks : OpenTask(t)
      BY <1>2, <2>5 DEF UpdateForm, OpenTask
    <2> QED BY <1>3, <1>4, <1>10, <2>1, <2>2, <2>3, <2>4, <2>5 DEF UserStep
  <1>11. CASE UNCHANGED ptVars
    BY <1>2, <1>11 DEF ptVars
  <1> QED BY <1>8, <1>9, <1>10, <1>11 DEF TasksNext

\* The closing ref and the task closed last are taken from the address.
LEMMA ClosingKept ==
    ASSUME TasksInv, TasksInv', [TasksNext]_ptVars,
           closing \in Tasks \cup {NoTask}, shut \in Tasks \cup {NoTask}
    PROVE  closing' \in Tasks \cup {NoTask} /\ shut' \in Tasks \cup {NoTask}
  <1>1. url \in Tasks \cup {NoTask} /\ url' \in Tasks \cup {NoTask} /\ updates \subseteq Calls
    BY DEF TasksInv, TasksShape
  <1>2. \A c \in updates : c.url \in Tasks \cup {NoTask}
    BY <1>1 DEF Calls
  <1>3. ASSUME NEW c, NEW d, NEW renewed, Render(c, d, renewed) PROVE closing' \in {url', NoTask}
    BY <1>3 DEF Render
  <1>4. CASE UNCHANGED <<closing, shut>>
    BY <1>4
  <1>5. CASE ServerStep
    BY <1>4, <1>5 DEF ServerStep, ServeLoad, ServeList, ServeCall, OtherUpdate
  <1>6. CASE AnswerStep
    <2>1. CASE LoadArrives \/ LoadFails \/ \E c \in updates : UpdateAnswered(c)
      BY <1>4, <2>1 DEF LoadArrives, LoadFails, UpdateAnswered
    <2>2. CASE LinkArrives \/ LinkFails \/ Navigated
      BY <1>1, <1>3, <2>2 DEF LinkArrives, LinkFails, Navigated
    <2>3. ASSUME NEW l \in lists, ListArrives(l) \/ ListFails(l)
          PROVE  closing' \in {url', NoTask} /\ UNCHANGED shut
      BY <1>3, <2>3 DEF ListArrives, ListFails
    <2>4. ASSUME NEW c \in updates, CallFails(c)
          PROVE  closing' \in {url', NoTask} /\ UNCHANGED shut
      BY <1>3, <2>4 DEF CallFails
    <2>5. ASSUME NEW c \in updates, SaveAnswered(c) \/ DeleteAnswered(c)
          PROVE  closing' \in {url', NoTask} /\ shut' = c.url
      BY <1>3, <2>5 DEF SaveAnswered, DeleteAnswered, CloseTask
    <2> QED BY <1>1, <1>2, <1>6, <2>1, <2>2, <2>3, <2>4, <2>5 DEF AnswerStep
  <1>7. CASE UserStep
    <2>1. CASE Submit \/ Delete \/ Retry \/ (\E f \in Fields, v \in Value : UpdateForm(f, v))
               \/ \E t \in Tasks, f \in Fields : SetField(t, f)
      BY <1>4, <2>1 DEF Submit, Delete, Retry, UpdateForm, SetField
    <2>2. CASE Close
      BY <1>1, <1>3, <2>2 DEF Close, CloseTask
    <2>3. ASSUME NEW flt \in Filters, ApplyFilters(flt)
          PROVE  closing' \in {url', NoTask} /\ UNCHANGED shut
      BY <1>3, <2>3 DEF ApplyFilters
    <2>4. ASSUME NEW u \in Tasks \cup {NoTask}, Navigate(u)
          PROVE  closing' \in {url', NoTask} /\ shut' = NoTask
      BY <1>3, <2>4 DEF Navigate
    <2>5. ASSUME NEW t \in Tasks, OpenTask(t) \/ Drag(t)
          PROVE  closing' \in {url', NoTask} /\ shut' \in {shut, NoTask}
      BY <1>3, <2>5 DEF OpenTask, Drag
    <2> QED BY <1>1, <1>7, <2>1, <2>2, <2>3, <2>4, <2>5 DEF UserStep
  <1>8. CASE UNCHANGED ptVars
    BY <1>4, <1>8 DEF ptVars
  <1> QED BY <1>5, <1>6, <1>7, <1>8 DEF TasksNext

\* What the page shows in place of the list stays a flag.
LEMMA FlagsKept ==
    ASSUME [TasksNext]_ptVars, loading \in BOOLEAN, failed \in BOOLEAN
    PROVE  loading' \in BOOLEAN /\ failed' \in BOOLEAN
  <1>1. CASE UNCHANGED <<loading, failed>>
    BY <1>1
  <1>2. CASE ServerStep
    BY <1>1, <1>2 DEF ServerStep, ServeLoad, ServeList, ServeCall, OtherUpdate
  <1>3. CASE AnswerStep
    <2>1. CASE LinkArrives \/ LinkFails \/ LoadArrives \/ LoadFails \/ Navigated
      BY <1>1, <2>1 DEF LinkArrives, LinkFails, LoadArrives, LoadFails, Navigated
    <2>2. ASSUME NEW l \in lists, ListArrives(l)
          PROVE  loading' \in BOOLEAN /\ failed' \in BOOLEAN
      <3>1. /\ loading' = (loading /\ l.by # "filter") /\ failed' = (failed /\ l.by = "filter")
        BY <2>2 DEF ListArrives
      <3> QED BY <3>1, Zenon
    <2>3. ASSUME NEW l \in lists, ListFails(l)
          PROVE  loading' \in BOOLEAN /\ failed' \in BOOLEAN
      <3>1. failed' = TRUE /\ loading' = (loading /\ l.by # "filter")
        BY <2>3 DEF ListFails
      <3> QED BY <3>1, Zenon
    <2>4. ASSUME NEW c \in updates,
                 SaveAnswered(c) \/ DeleteAnswered(c) \/ UpdateAnswered(c) \/ CallFails(c)
          PROVE  UNCHANGED <<loading, failed>>
      BY <2>4 DEF SaveAnswered, DeleteAnswered, UpdateAnswered, CallFails
    <2> QED BY <1>1, <1>3, <2>1, <2>2, <2>3, <2>4 DEF AnswerStep
  <1>4. CASE UserStep
    <2>1. CASE Submit \/ Delete \/ Close \/ Retry \/ \E u \in Tasks \cup {NoTask} : Navigate(u)
      BY <1>1, <2>1 DEF Submit, Delete, Close, Retry, Navigate
    <2>2. CASE \E flt \in Filters : ApplyFilters(flt)
      BY <2>2 DEF ApplyFilters
    <2>3. CASE (\E f \in Fields, v \in Value : UpdateForm(f, v))
               \/ \E t \in Tasks : OpenTask(t) \/ Drag(t) \/ \E f \in Fields : SetField(t, f)
      BY <1>1, <2>3 DEF UpdateForm, OpenTask, Drag, SetField
    <2> QED BY <1>4, <2>1, <2>2, <2>3 DEF UserStep
  <1>5. CASE UNCHANGED ptVars
    BY <1>1, <1>5 DEF ptVars
  <1> QED BY <1>2, <1>3, <1>4, <1>5 DEF TasksNext

\* The tasks, the address, the dialog and the requests keep their types.
THEOREM TasksTypeCorrect ==
    ASSUME IsFiniteSet(Tasks), MaxVersions \in Nat \ {0}, MaxUpdates \in Nat
    PROVE  TasksSpec => []TasksTypeOK
  <1>1. TasksInit => TasksInv /\ VersionsInv
    BY TasksInitially, VersionsInitially
  <1>2. ASSUME TasksInit PROVE TasksCounts
    <2>1. loading = TRUE /\ failed = FALSE /\ closing = NoTask /\ shut = NoTask /\ updates = {}
      BY <1>2 DEF TasksInit
    <2>2. IsFiniteSet({}) /\ Cardinality({}) = 0
      BY FS_EmptySet
    <2>3. IsFiniteSet(updates) /\ Cardinality(updates) <= MaxUpdates
      BY <2>1, <2>2
    <2> QED BY <2>1, <2>3 DEF TasksCounts
  <1>3. TasksInv /\ VersionsInv /\ [TasksNext]_ptVars => (TasksInv /\ VersionsInv)'
    BY TasksStep, VersionsStep
  <1>4. ASSUME TasksInv, TasksInv', TasksCounts, [TasksNext]_ptVars PROVE TasksCounts'
    BY <1>4, UpdatesCounted, ClosingKept, FlagsKept DEF TasksCounts
  <1>5. ASSUME TasksInv, VersionsInv, TasksCounts PROVE TasksTypeOK
    <2>1. /\ url \in Tasks \cup {NoTask} /\ nav \in Tasks \cup {NoTask, Stay}
          /\ filter \in Filters /\ rows \in Rows /\ fallback \in Fallbacks \cup {Missing}
          /\ link \in {NoTask, url} /\ (dialog # Missing => Meant(dialog))
      BY <1>5 DEF TasksInv, TasksShape, StaysClosed, DialogMeant
    <2>2. ASSUME NEW x \in Listing, NEW t, Dated(saved, t, x) PROVE x \in Task
      <3>1. x = [id |-> x.id, fields |-> x.fields, updatedAt |-> x.updatedAt]
            /\ x.id \in Tasks /\ x.fields \in Contents /\ x.updatedAt \in 1..MaxVersions
        BY <2>2 DEF Listing, Dated
      <3> QED BY <3>1 DEF Task
    <2>3. ASSUME NEW t \in Tasks, rows[t] # Missing PROVE rows[t] \in Task
      <3>1. rows[t] \in Listing
        BY <2>1, <2>3 DEF Rows
      <3>2. Dated(saved, t, rows[t])
        BY <1>5, <2>3 DEF VersionsInv, DatedRows
      <3> QED BY <2>2, <3>1, <3>2
    <2>4. ASSUME fallback # Missing PROVE fallback \in [task : Task, isRow : BOOLEAN]
      <3>1. fallback = [task |-> fallback.task, isRow |-> fallback.isRow]
            /\ fallback.task \in Listing /\ fallback.isRow \in BOOLEAN
        BY <2>1, <2>4 DEF Fallbacks
      <3>2. Dated(saved, fallback.task.id, fallback.task)
        BY <1>5, <2>4 DEF VersionsInv, DatedFallback
      <3>3. fallback.task \in Task
        BY <2>2, <3>1, <3>2
      <3> QED BY <3>1, <3>3
    <2>5. dialog # Missing => dialog.touched \subseteq Fields
      BY <2>1 DEF Meant, Dialogs
    <2> QED BY <1>5, <2>1, <2>3, <2>4, <2>5 DEF TasksTypeOK, TasksCounts
  <1> QED BY <1>1, <1>2, <1>3, <1>4, <1>5, PTL DEF TasksSpec
=============================================================================
