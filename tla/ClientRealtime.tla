---------------------------- MODULE ClientRealtime ----------------------------
(***************************************************************************)
(* The connection of a signed-in client to the server: RealtimeClient of   *)
(* the web client and of the mobile client, two classes of one design with *)
(* different guards.  "client" says which of the two a behaviour runs.     *)
(*                                                                         *)
(* A WebSocket, the reconnect timer and the session check that precedes a  *)
(* reconnect are three asynchronous activities; the class must keep        *)
(* exactly one of them going while the page is mounted, whatever the order *)
(* in which their callbacks run.  Delays are abstracted: a timer that is   *)
(* armed may fire at any time, so reconnectAttempt, which only chooses the *)
(* delay, has no counterpart.                                              *)
(*                                                                         *)
(* One behaviour is the life of one client object: it ends with unmount,   *)
(* and the page that mounts the provider again makes a new object.         *)
(***************************************************************************)
EXTENDS Naturals, FiniteSets

CONSTANTS MaxSockets,   \* bound: sockets one client object opens
          MaxCalls      \* bound: requests sent over the sockets

VARIABLES client,           \* "web" or "mobile"
          mounted,          \* the provider's effect is in force
          session,          \* the server still accepts the session
          socket,           \* this.socket: an id, 0 for null
          phase,            \* readyState of each socket
          shouldReconnect,
          timers,           \* timeouts that will call openSocket
          sequence,         \* reconnectSequence
          checks,           \* sequences of the session checks under way
          ready, status,
          pending,          \* pendingRequests: [id, on: the socket it left on]
          calls,            \* requests sent so far
          unauthorized      \* onUnauthorized has been called

conn == <<socket, phase, ready, status>>
retry == <<shouldReconnect, timers, sequence, checks>>
rest == <<client, mounted, session, calls, unauthorized>>
rtVars == <<conn, retry, pending, rest>>

SocketIds == 1..MaxSockets
NoSocket == 0

Opened == {s \in SocketIds : phase[s] # "none"}
Live == {s \in SocketIds : phase[s] \in {"connecting", "open"}}

Request == [id : 1..MaxCalls, on : SocketIds]

RealtimeTypeOK ==
    /\ client \in {"web", "mobile"}
    /\ mounted \in BOOLEAN /\ session \in BOOLEAN
    /\ socket \in {NoSocket} \cup SocketIds
    /\ phase \in [SocketIds -> {"none", "connecting", "open", "closing", "closed"}]
    /\ shouldReconnect \in BOOLEAN /\ timers \in Nat
    /\ sequence \in Nat /\ checks \subseteq Nat
    /\ ready \in BOOLEAN
    /\ status \in {"connecting", "connected", "reconnecting", "disconnected"}
    /\ pending \subseteq Request /\ calls \in 0..MaxCalls
    /\ unauthorized \in BOOLEAN

-----------------------------------------------------------------------------
(* openSocket: what is armed is cleared, a fresh socket becomes current.   *)

OpenSocket ==
    \E s \in SocketIds \ Opened :
        /\ s = Cardinality(Opened) + 1
        /\ socket' = s
        /\ phase' = [phase EXCEPT ![s] = "connecting"]
        /\ timers' = IF timers > 0 THEN timers - 1 ELSE 0
        /\ ready' = FALSE
        /\ status' = "connecting"

(* Whether connect() finds something to wait for.  The mobile client also  *)
(* waits for its timer, the web client replaces it.                        *)
UnderWay == socket # NoSocket \/ (client = "mobile" /\ timers > 0)

(* connect(): at mount and whenever the page becomes visible.              *)
Connect ==
    /\ mounted
    /\ IF UnderWay
         THEN /\ shouldReconnect' = (shouldReconnect \/ client = "mobile")
              /\ UNCHANGED <<conn, timers>>
         ELSE /\ shouldReconnect' = TRUE
              /\ OpenSocket
    /\ UNCHANGED <<sequence, checks, pending, rest>>

(* disconnect(): the cleanup of the provider's effect.                     *)
Unmount ==
    /\ mounted
    /\ mounted' = FALSE
    /\ shouldReconnect' = FALSE
    /\ sequence' = sequence + 1
    /\ timers' = IF timers > 0 THEN timers - 1 ELSE 0
    /\ pending' = {}
    /\ ready' = FALSE /\ status' = "disconnected"
    /\ socket' = NoSocket
    /\ phase' = IF socket = NoSocket THEN phase
                ELSE [phase EXCEPT ![socket] = "closing"]
    /\ UNCHANGED <<client, session, calls, unauthorized, checks>>

-----------------------------------------------------------------------------
(* Callbacks of a socket.  The mobile client ignores those of a socket     *)
(* that is no longer current; the web client does not look.                *)

Heeds(s) == client = "web" \/ socket = s

SocketOpens(s) ==
    /\ phase[s] = "connecting" /\ session
    /\ phase' = [phase EXCEPT ![s] = "open"]
    /\ status' = IF Heeds(s) THEN "connected" ELSE status
    /\ UNCHANGED <<socket, ready, retry, pending, rest>>

(* handleEvent, system.ready: the server's first message on a connection.  *)
SystemReady(s) ==
    /\ phase[s] = "open" /\ ~ready
    /\ ready' = Heeds(s)
    /\ UNCHANGED <<socket, phase, status, retry, pending, rest>>

(* The network or the server may end a live socket while a socket is left  *)
(* to replace it (MaxSockets) and must when the session is refused.        *)
MayFail(s) ==
    \/ phase[s] = "closing"
    \/ s \in Live /\ (Cardinality(Opened) < MaxSockets \/ ~session)

(* Mutants of Lost: the closed socket stays current; "ready" is not reset.  *)
Lost_SocketKept(s) ==
    /\ pending' = {} /\ ready' = FALSE /\ socket' = socket
    /\ IF shouldReconnect
         THEN /\ sequence' = sequence + 1
              /\ status' = "reconnecting"
              /\ checks' = checks \cup {sequence + 1}
         ELSE status' = "disconnected" /\ UNCHANGED <<sequence, checks>>

Lost_StillReady(s) ==
    /\ socket' = IF socket = s THEN NoSocket ELSE socket
    /\ pending' = {} /\ ready' = ready
    /\ IF shouldReconnect
         THEN /\ sequence' = sequence + 1
              /\ status' = "reconnecting"
              /\ checks' = checks \cup {sequence + 1}
         ELSE status' = "disconnected" /\ UNCHANGED <<sequence, checks>>

(* handleSocketClose up to its await.                                      *)
Lost(s) ==
    /\ socket' = IF socket = s THEN NoSocket ELSE socket
    /\ pending' = {}
    /\ ready' = FALSE
    /\ IF shouldReconnect
         THEN /\ sequence' = sequence + 1
              /\ status' = "reconnecting"
              /\ checks' = checks \cup {sequence + 1}
         ELSE /\ status' = "disconnected"
              /\ UNCHANGED <<sequence, checks>>

SocketCloses(s) ==
    /\ MayFail(s)
    /\ phase' = [phase EXCEPT ![s] = "closed"]
    /\ IF Heeds(s) THEN Lost(s)
       ELSE UNCHANGED <<socket, ready, status, sequence, checks, pending>>
    /\ UNCHANGED <<shouldReconnect, timers, rest>>

-----------------------------------------------------------------------------
(* After the await of checkReconnectAuthorization.                         *)

(* Mutant: a socket that was opened during the check is not noticed.       *)
Superseded_SocketUnseen(n) == n # sequence \/ ~shouldReconnect

Superseded(n) == n # sequence \/ ~shouldReconnect \/ socket # NoSocket

Refused ==
    /\ shouldReconnect' = FALSE
    /\ timers' = IF client = "web" /\ timers > 0 THEN timers - 1 ELSE timers
    /\ status' = "disconnected"
    /\ unauthorized' = TRUE

ScheduleReconnect ==
    /\ timers' = timers + 1
    /\ UNCHANGED <<shouldReconnect, status, unauthorized>>

(* The check answers no only when the server says so; a check that fails   *)
(* (no network) counts as yes.                                             *)
Answers == {session} \cup (IF Cardinality(Opened) < MaxSockets THEN {TRUE} ELSE {})

CheckDone(n) ==
    /\ n \in checks
    /\ checks' = checks \ {n}
    /\ \E authorized \in Answers :
          IF Superseded(n)
          THEN UNCHANGED <<shouldReconnect, timers, status, unauthorized>>
          ELSE IF authorized THEN ScheduleReconnect ELSE Refused
    /\ UNCHANGED <<client, mounted, session, calls, socket, phase, ready,
                   sequence, pending>>

TimerFires ==
    /\ timers > 0
    /\ IF shouldReconnect THEN OpenSocket
       ELSE timers' = timers - 1 /\ UNCHANGED conn
    /\ UNCHANGED <<shouldReconnect, sequence, checks, pending, rest>>

-----------------------------------------------------------------------------
(* sendRequest and handleResponse (web only).                              *)

SendRequest ==
    /\ client = "web" /\ calls < MaxCalls
    /\ socket # NoSocket /\ phase[socket] = "open"
    /\ calls' = calls + 1
    /\ pending' = pending \cup {[id |-> calls + 1, on |-> socket]}
    /\ UNCHANGED <<conn, retry, client, mounted, session, unauthorized>>

HandleResponse ==
    /\ \E p \in pending : phase[p.on] = "open" /\ pending' = pending \ {p}
    /\ UNCHANGED <<conn, retry, rest>>

(* The account is disabled or the session revoked.                         *)
SessionEnds ==
    /\ session /\ mounted
    /\ session' = FALSE
    /\ UNCHANGED <<conn, retry, pending, client, mounted, calls, unauthorized>>

-----------------------------------------------------------------------------
RealtimeInit ==
    /\ client \in {"web", "mobile"}
    /\ mounted = TRUE /\ session = TRUE
    /\ socket = 1 /\ phase = [s \in SocketIds |-> IF s = 1 THEN "connecting" ELSE "none"]
    /\ shouldReconnect = TRUE /\ timers = 0
    /\ sequence = 0 /\ checks = {}
    /\ ready = FALSE /\ status = "connecting"
    /\ pending = {} /\ calls = 0
    /\ unauthorized = FALSE

RealtimeNext ==
    \/ Connect \/ Unmount \/ TimerFires \/ SessionEnds
    \/ SendRequest \/ HandleResponse
    \/ \E s \in SocketIds : SocketOpens(s) \/ SystemReady(s) \/ SocketCloses(s)
    \/ \E n \in checks : CheckDone(n)

(* Timers fire, requests end, a handshake is answered; after              *)
(* onUnauthorized the login page replaces the provider.                    *)
EndedSocketCloses ==
    \E s \in SocketIds : (phase[s] = "closing" \/ ~session) /\ SocketCloses(s)

RealtimeFairness ==
    /\ WF_rtVars(TimerFires)
    /\ WF_rtVars(unauthorized /\ Unmount)
    /\ WF_rtVars(\E n \in checks : CheckDone(n))
    /\ WF_rtVars(\E s \in SocketIds : SocketOpens(s))
    /\ WF_rtVars(\E s \in SocketIds : SystemReady(s))
    /\ WF_rtVars(EndedSocketCloses)

RealtimeSpec == RealtimeInit /\ [][RealtimeNext]_rtVars /\ RealtimeFairness

-----------------------------------------------------------------------------
(* A client never has two connections, nor a second one in the making: of  *)
(* the live sockets and the armed timers there is at most one, and a live  *)
(* socket is the one this.socket names.  Otherwise every event would be    *)
(* delivered twice, to a connection nobody can close.                      *)
OneConnection ==
    /\ \A s \in Live : s = socket
    /\ socket # NoSocket => timers = 0
    /\ timers <= 1

(* What the client says of its connection is so: "ready", which the pages  *)
(* and the catch-up rely on, is said only of a current socket that is      *)
(* open, and a request that waits for its response left on that socket, so *)
(* no caller waits for an answer that can no longer come.                  *)
ConnectionHonest ==
    /\ ready => socket # NoSocket /\ phase[socket] = "open"
    /\ \A p \in pending : p.on = socket /\ phase[p.on] = "open"

(* While the provider is mounted a client that is not ready gets ready, or *)
(* the session ended and the login page takes over: no order of close,     *)
(* session check, timer and visibility change leaves it idle.              *)
Usable == ready \/ ~mounted

Reconnects == []<>Usable
=============================================================================
