----------------------------- MODULE AppEvents -----------------------------
(***************************************************************************)
(* Reliable delivery of application events by the server.                  *)
(*                                                                         *)
(* A transaction that creates a message, answers a choice or closes a      *)
(* topic inserts one outbox row per receiving application, commits, and    *)
(* then pushes the rows to the application's live WebSocket connections.   *)
(* One in-process mutex, appEventMu, is taken just before the rows are     *)
(* inserted and released after the push; a new connection holds the same   *)
(* mutex while it registers, authenticates a second time and replays the   *)
(* rows above the application's acknowledged cursor.  An ACK of a cursor   *)
(* deletes every row up to it.  Administrative operations change an        *)
(* application's row first and close its connections afterwards.           *)
(*                                                                         *)
(* The application's own process is the environment here: it receives what *)
(* its connections carry and acknowledges cursors it has received.         *)
(***************************************************************************)
EXTENDS Naturals, Sequences, FiniteSets, Functions

CONSTANTS
  Apps,            \* applications (bots) known to the server
  SystemApps,      \* built-in ones: no secret rotation, visibility or deletion
  Writers,         \* transactions that may create outbox rows
  ArchiveWriters,  \* those of them that run ArchiveTopic
  Conns,           \* WebSocket connection objects (reused after they end)
  SendBuffer,      \* capacity of Connection.send (16 in the code)
  PageSize,        \* appEventReplayPageSize (100 in the code)
  MaxBatch,        \* bound: rows one transaction inserts
  MaxId,           \* bound: outbox ids handed out
  MaxFailures,     \* bound: lost connections and server crashes
  MaxAdminOps,     \* bound: administrative operations
  ReloadMayFail,   \* whether the reload before CloseApp may return an error
  ReplayMayFail,   \* whether a query of replayAppEvents may return an error
  Oversize,        \* ids of events whose envelope exceeds maxMessageBytes
  NoHolder         \* appEventMu is free

ASSUME ConstantsAssumption ==
  /\ SystemApps \subseteq Apps
  /\ ArchiveWriters \subseteq Writers
  /\ SendBuffer \in Nat \ {0}
  /\ PageSize \in Nat \ {0}
  /\ MaxBatch \in Nat /\ MaxId \in Nat
  /\ MaxFailures \in Nat /\ MaxAdminOps \in Nat
  /\ ReloadMayFail \in BOOLEAN /\ ReplayMayFail \in BOOLEAN
  /\ NoHolder \notin Writers \cup Conns
  /\ Writers \cap Conns = {}
  /\ \E a \in Apps : TRUE

ASSUME OversizeAssumption == Oversize \subseteq 1..MaxId

VARIABLES
  \* the database
  outbox,     \* outbox[a]: committed app_event_outbox ids of application a
  acked,      \* acked[a]: app_event_acks.last_acked_cursor, 0 without a row
  appState,   \* appState[a]: "enabled", "disabled" or "deleted"
  secret,     \* secret[a]: version of apps.connection_secret
  nextId,     \* last id handed out by the outbox sequence
  \* the server process
  appEventMu, \* holder of Server.appEventMu
  wpc,        \* wpc[w]: progress of a writing transaction
  wrows,      \* wrows[w]: its rows, in insertion order
  cpc,        \* cpc[c]: progress of appWebSocket for a connection
  capp,       \* capp[c]: the application it authenticated as
  csecret,    \* csecret[c]: the secret version it presented
  registered, \* registered[c]: in Manager.connsByApp
  open,       \* open[c]: Connection.done is not closed
  doomed,     \* connections a CloseApp has taken out of the map, to be closed
  sendBuf,    \* sendBuf[c]: Connection.send
  nextCursor, \* nextCursor[c]: replay position
  page,       \* page[c]: ids of the replay page not yet enqueued
  pageFull,   \* pageFull[c]: the page had PageSize rows
  apc,        \* apc[c]: progress of an events.ack handled by readLoop
  acur,       \* acur[c]: the cursor it acknowledges
  closing,    \* applications whose CloseApp call is still to come
  \* the application's side
  recv,       \* recv[c]: ids that arrived on the connection, in order
  got,        \* got[a]: ids the application has ever received
  \* history and budgets
  consumed,   \* consumed[a]: ids an ACK deleted from the outbox
  failures,   \* failures so far
  adminOps    \* administrative operations so far

dbVars     == <<outbox, acked, appState, secret, nextId>>
writerVars == <<wpc, wrows>>
connVars   == <<cpc, capp, csecret, registered, open, doomed, sendBuf>>
replayVars == <<nextCursor, page, pageFull>>
ackVars    == <<apc, acur>>
clientVars == <<recv, got>>
ghostVars  == <<consumed, failures, adminOps>>

vars == <<dbVars, appEventMu, writerVars, connVars, replayVars, ackVars,
          closing, clientVars, ghostVars>>

-----------------------------------------------------------------------------
Rows == [id : 1..MaxId, app : Apps]

\* Phases of appWebSocket in which the connection's read and write loops run.
ServingPhases == {"readAck", "query", "enqueue", "failed", "serving", "draining"}

\* What capp holds for a connection object that is not in use.
AnyApp == CHOOSE a \in Apps : TRUE

TypeOK ==
  /\ outbox \in [Apps -> SUBSET (1..MaxId)]
  /\ acked \in [Apps -> 0..MaxId]
  /\ appState \in [Apps -> {"enabled", "disabled", "deleted"}]
  /\ secret \in [Apps -> Nat]
  /\ nextId \in 0..MaxId
  /\ appEventMu \in Writers \cup Conns \cup {NoHolder}
  /\ wpc \in [Writers -> {"idle", "inserted", "loadItem", "committed"}]
  /\ wrows \in [Writers -> Seq(Rows)]
  /\ cpc \in [Conns -> {"none", "authenticated", "recheck"} \cup ServingPhases]
  /\ capp \in [Conns -> Apps]
  /\ csecret \in [Conns -> Nat]
  /\ registered \in [Conns -> BOOLEAN]
  /\ open \in [Conns -> BOOLEAN]
  /\ doomed \in SUBSET Conns
  /\ sendBuf \in [Conns -> Seq(1..MaxId)]
  /\ nextCursor \in [Conns -> 0..MaxId]
  /\ page \in [Conns -> SUBSET (1..MaxId)]
  /\ pageFull \in [Conns -> BOOLEAN]
  /\ apc \in [Conns -> {"idle", "read", "found"}]
  /\ acur \in [Conns -> 0..MaxId]
  /\ closing \in SUBSET Apps
  /\ recv \in [Conns -> Seq(1..MaxId)]
  /\ got \in [Apps -> SUBSET (1..MaxId)]
  /\ consumed \in [Apps -> SUBSET (1..MaxId)]
  /\ failures \in Nat
  /\ adminOps \in Nat

Init ==
  /\ outbox = [a \in Apps |-> {}]
  /\ acked = [a \in Apps |-> 0]
  /\ appState = [a \in Apps |-> "enabled"]
  /\ secret = [a \in Apps |-> 0]
  /\ nextId = 0
  /\ appEventMu = NoHolder
  /\ wpc = [w \in Writers |-> "idle"]
  /\ wrows = [w \in Writers |-> <<>>]
  /\ cpc = [c \in Conns |-> "none"]
  /\ capp = [c \in Conns |-> AnyApp]
  /\ csecret = [c \in Conns |-> 0]
  /\ registered = [c \in Conns |-> FALSE]
  /\ open = [c \in Conns |-> FALSE]
  /\ doomed = {}
  /\ sendBuf = [c \in Conns |-> <<>>]
  /\ nextCursor = [c \in Conns |-> 0]
  /\ page = [c \in Conns |-> {}]
  /\ pageFull = [c \in Conns |-> FALSE]
  /\ apc = [c \in Conns |-> "idle"]
  /\ acur = [c \in Conns |-> 0]
  /\ closing = {}
  /\ recv = [c \in Conns |-> <<>>]
  /\ got = [a \in Apps |-> {}]
  /\ consumed = [a \in Apps |-> {}]
  /\ failures = 0
  /\ adminOps = 0

-----------------------------------------------------------------------------
(* appEventMu and the SHARE row locks on applications.                     *)

\* Slip: the rows are inserted without waiting for the mutex.
LockAppEvents_NoWait(p) == appEventMu' = p

LockAppEvents(p) == appEventMu = NoHolder /\ appEventMu' = p

UnlockAppEvents(p) == appEventMu = p /\ appEventMu' = NoHolder

\* Slip: applications are selected without a row lock.
ShareLocked_Never(a) == FALSE

\* A transaction holds a SHARE lock on a's row, so no FOR UPDATE is granted.
ShareLocked(a) ==
  \/ \E w \in Writers : wpc[w] = "inserted" /\ \E r \in Range(wrows[w]) : r.app = a
  \/ \E c \in Conns : apc[c] # "idle" /\ capp[c] = a

-----------------------------------------------------------------------------
(* Writers: createUserMessage, createForwardedMessagesForTarget,           *)
(* SubmitChoiceResponse, ArchiveTopic, CloseTopicAsApp.                    *)

\* Slip: the sequence value is read after it was advanced.
RowsFor_Skewed(apps) == [i \in 1..Len(apps) |-> [id |-> nextId + i + 1, app |-> apps[i]]]

\* The rows a transaction inserts for the applications it selected, in order.
RowsFor(apps) == [i \in 1..Len(apps) |-> [id |-> nextId + i, app |-> apps[i]]]

\* Every receiver the transaction selects is locked and still usable.
CreateOutbox(w, apps) ==
  /\ wpc[w] = "idle"
  /\ LockAppEvents(w)
  /\ \A i \in 1..Len(apps) : appState[apps[i]] = "enabled"
  /\ nextId + Len(apps) <= MaxId
  /\ nextId' = nextId + Len(apps)
  /\ wrows' = [wrows EXCEPT ![w] = RowsFor(apps)]
  /\ wpc' = [wpc EXCEPT ![w] = "inserted"]
  /\ UNCHANGED <<outbox, acked, appState, secret, connVars, replayVars, ackVars,
                 closing, clientVars, ghostVars>>

CommitTx(w) ==
  /\ wpc[w] = "inserted"
  /\ outbox' = [a \in Apps |->
       outbox[a] \cup {r.id : r \in {x \in Range(wrows[w]) : x.app = a}}]
  /\ wpc' = [wpc EXCEPT ![w] = IF w \in ArchiveWriters THEN "loadItem" ELSE "committed"]
  /\ UNCHANGED <<acked, appState, secret, nextId, appEventMu, wrows, connVars,
                 replayVars, ackVars, closing, clientVars, ghostVars>>

\* A statement after the insert, or the commit itself, fails.
AbortTx(w) ==
  /\ wpc[w] = "inserted"
  /\ UnlockAppEvents(w)
  /\ wpc' = [wpc EXCEPT ![w] = "idle"]
  /\ wrows' = [wrows EXCEPT ![w] = <<>>]
  /\ UNCHANGED <<dbVars, connVars, replayVars, ackVars, closing, clientVars,
                 ghostVars>>

Accepts(c) == Len(sendBuf[c]) < SendBuffer

\* Slip: the event is dropped and the connection stays.
KeptOpen_Always(c) == TRUE

\* SendToApp closes a connection that did not take the event.
KeptOpen(c) == Accepts(c)

\* SendToApp on the next row: Enqueue never blocks, a full buffer closes the
\* connection.  A closed connection writes nothing more, so what its select
\* would put in the buffer does not matter.
DeliverAppEvent(w) ==
  /\ wpc[w] = "committed"
  /\ wrows[w] # <<>>
  /\ LET row == Head(wrows[w])
         targets == {c \in Conns : registered[c] /\ capp[c] = row.app /\ open[c]}
     IN /\ sendBuf' = [c \in Conns |-> IF c \in targets /\ Accepts(c)
                                         THEN Append(sendBuf[c], row.id) ELSE sendBuf[c]]
        /\ open' = [c \in Conns |-> open[c] /\ (c \in targets => KeptOpen(c))]
  /\ wrows' = [wrows EXCEPT ![w] = Tail(@)]
  /\ UNCHANGED <<dbVars, appEventMu, wpc, cpc, capp, csecret, registered, doomed,
                 replayVars, ackVars, closing, clientVars, ghostVars>>

DeliverDone(w) ==
  /\ wpc[w] = "committed"
  /\ wrows[w] = <<>>
  /\ UnlockAppEvents(w)
  /\ wpc' = [wpc EXCEPT ![w] = "idle"]
  /\ UNCHANGED <<dbVars, wrows, connVars, replayVars, ackVars, closing,
                 clientVars, ghostVars>>

\* ArchiveTopic loads the conversation item again between the commit and the
\* delivery and returns early when that fails, for instance because the
\* request was cancelled: its rows stay in the outbox but are not pushed.
ArchiveLoadItem(w) ==
  /\ wpc[w] = "loadItem"
  /\ \/ wpc' = [wpc EXCEPT ![w] = "committed"] /\ UNCHANGED <<appEventMu, wrows>>
     \/ /\ UnlockAppEvents(w)
        /\ wpc' = [wpc EXCEPT ![w] = "idle"]
        /\ wrows' = [wrows EXCEPT ![w] = <<>>]
  /\ UNCHANGED <<dbVars, connVars, replayVars, ackVars, closing, clientVars,
                 ghostVars>>

-----------------------------------------------------------------------------
(* appWebSocket: authentication, registration, recheck, replay, end.       *)

CredentialsValid(c) ==
  appState[capp[c]] = "enabled" /\ csecret[c] = secret[capp[c]]

\* First authentication and upgrade, before appEventMu is taken.
Authenticate(c, a) ==
  /\ cpc[c] = "none"
  /\ appState[a] = "enabled"
  /\ cpc' = [cpc EXCEPT ![c] = "authenticated"]
  /\ capp' = [capp EXCEPT ![c] = a]
  /\ csecret' = [csecret EXCEPT ![c] = secret[a]]
  /\ UNCHANGED <<dbVars, appEventMu, writerVars, registered, open, doomed, sendBuf,
                 replayVars, ackVars, closing, clientVars, ghostVars>>

Register(c) ==
  /\ cpc[c] = "authenticated"
  /\ LockAppEvents(c)
  /\ registered' = [registered EXCEPT ![c] = TRUE]
  /\ open' = [open EXCEPT ![c] = TRUE]
  /\ sendBuf' = [sendBuf EXCEPT ![c] = <<>>]
  /\ recv' = [recv EXCEPT ![c] = <<>>]
  /\ cpc' = [cpc EXCEPT ![c] = "recheck"]
  /\ UNCHANGED <<dbVars, writerVars, capp, csecret, doomed, replayVars, ackVars,
                 closing, got, ghostVars>>

\* Slip: the credentials of the handshake are trusted after registration.
Recheck_Skipped(c) ==
  /\ cpc[c] = "recheck"
  /\ cpc' = [cpc EXCEPT ![c] = "readAck"]
  /\ UNCHANGED <<dbVars, appEventMu, writerVars, capp, csecret, registered, open, doomed,
                 sendBuf, replayVars, ackVars, closing, clientVars, ghostVars>>

Recheck(c) ==
  /\ cpc[c] = "recheck"
  /\ CredentialsValid(c)
  /\ cpc' = [cpc EXCEPT ![c] = "readAck"]
  /\ UNCHANGED <<dbVars, appEventMu, writerVars, capp, csecret, registered, open, doomed,
                 sendBuf, replayVars, ackVars, closing, clientVars, ghostVars>>

\* The credentials are refused now, or the query fails.
RecheckFails(c) ==
  /\ cpc[c] = "recheck"
  /\ \/ ~CredentialsValid(c) /\ UNCHANGED failures
     \/ failures < MaxFailures /\ failures' = failures + 1
  /\ UnlockAppEvents(c)
  /\ registered' = [registered EXCEPT ![c] = FALSE]
  /\ open' = [open EXCEPT ![c] = FALSE]
  /\ cpc' = [cpc EXCEPT ![c] = "draining"]
  /\ UNCHANGED <<dbVars, writerVars, capp, csecret, doomed, sendBuf, replayVars,
                 ackVars, closing, clientVars, consumed, adminOps>>

\* replayAppEvents reads the acknowledged cursor ...
ReplayReadAck(c) ==
  /\ cpc[c] = "readAck"
  /\ nextCursor' = [nextCursor EXCEPT ![c] = acked[capp[c]]]
  /\ cpc' = [cpc EXCEPT ![c] = "query"]
  /\ UNCHANGED <<dbVars, appEventMu, writerVars, capp, csecret, registered, open,
                 doomed, sendBuf, page, pageFull, ackVars, closing, clientVars,
                 ghostVars>>

\* Rows of application a above the cursor, lowest PageSize of them.
RowsAbove(a, cursor) == {i \in outbox[a] : i > cursor}

FirstPage(S) == {i \in S : Cardinality({j \in S : j < i}) < PageSize}

\* Slip: one page is taken to be all there is.
FullPage_Never(rows) == FALSE

\* A page with fewer rows than were asked for is the last one.
FullPage(rows) == Cardinality(rows) >= PageSize

\* ... then queries one page of rows after another ...
ReplayQuery(c) ==
  /\ cpc[c] = "query"
  /\ LET rows == FirstPage(RowsAbove(capp[c], nextCursor[c]))
     IN /\ page' = [page EXCEPT ![c] = rows]
        /\ pageFull' = [pageFull EXCEPT ![c] = FullPage(rows)]
  /\ cpc' = [cpc EXCEPT ![c] = "enqueue"]
  /\ UNCHANGED <<dbVars, appEventMu, writerVars, capp, csecret, registered, open,
                 doomed, sendBuf, nextCursor, ackVars, closing, clientVars, ghostVars>>

\* ... and enqueues its rows in ascending order, waiting for buffer space.
\* A row put into the buffer of a connection that is already closed is lost.
ReplayEnqueue(c) ==
  /\ cpc[c] = "enqueue"
  /\ Accepts(c)
  /\ \E id \in page[c] :
       /\ \A j \in page[c] : id <= j
       /\ sendBuf' = [sendBuf EXCEPT ![c] = Append(@, id)]
       /\ page' = [page EXCEPT ![c] = @ \ {id}]
       /\ nextCursor' = [nextCursor EXCEPT ![c] = id]
  /\ UNCHANGED <<dbVars, appEventMu, writerVars, cpc, capp, csecret, registered,
                 open, doomed, pageFull, ackVars, closing, clientVars, ghostVars>>

\* A query fails, or EnqueueReliable saw the connection closed: replay ends
\* with an error, and the mutex is released ...
ReplayFails(c) ==
  /\ \/ /\ cpc[c] \in {"readAck", "query"}
        /\ ReplayMayFail
        /\ failures < MaxFailures /\ failures' = failures + 1
     \/ /\ cpc[c] = "enqueue" /\ page[c] # {} /\ ~open[c]
        /\ UNCHANGED failures
  /\ UnlockAppEvents(c)
  /\ page' = [page EXCEPT ![c] = {}]
  /\ cpc' = [cpc EXCEPT ![c] = "failed"]
  /\ UNCHANGED <<dbVars, writerVars, capp, csecret, registered, open, doomed, sendBuf,
                 nextCursor, pageFull, ackVars, closing, clientVars, consumed, adminOps>>

\* ... before the connection is unregistered and closed.
EndFailedReplay(c) ==
  /\ cpc[c] = "failed"
  /\ registered' = [registered EXCEPT ![c] = FALSE]
  /\ open' = [open EXCEPT ![c] = FALSE]
  /\ cpc' = [cpc EXCEPT ![c] = "draining"]
  /\ UNCHANGED <<dbVars, appEventMu, writerVars, capp, csecret, doomed, sendBuf,
                 replayVars, ackVars, closing, clientVars, ghostVars>>

ReplayPageDone(c) ==
  /\ cpc[c] = "enqueue"
  /\ page[c] = {}
  /\ IF pageFull[c]
       THEN cpc' = [cpc EXCEPT ![c] = "query"] /\ UNCHANGED appEventMu
       ELSE cpc' = [cpc EXCEPT ![c] = "serving"] /\ UnlockAppEvents(c)
  /\ UNCHANGED <<dbVars, writerVars, capp, csecret, registered, open, doomed, sendBuf,
                 replayVars, ackVars, closing, clientVars, ghostVars>>

\* Serve has returned (no handler is running on the connection any more).
Unregister(c) ==
  /\ cpc[c] \in {"serving", "draining"}
  /\ ~open[c]
  /\ apc[c] = "idle"
  /\ registered' = [registered EXCEPT ![c] = FALSE]
  /\ doomed' = doomed \ {c}
  /\ sendBuf' = [sendBuf EXCEPT ![c] = <<>>]
  /\ recv' = [recv EXCEPT ![c] = <<>>]
  /\ nextCursor' = [nextCursor EXCEPT ![c] = 0]
  /\ pageFull' = [pageFull EXCEPT ![c] = FALSE]
  /\ cpc' = [cpc EXCEPT ![c] = "none"]
  /\ capp' = [capp EXCEPT ![c] = AnyApp]
  /\ csecret' = [csecret EXCEPT ![c] = 0]
  /\ UNCHANGED <<dbVars, appEventMu, writerVars, open, page, ackVars, closing, got,
                 ghostVars>>

-----------------------------------------------------------------------------
(* Connection loops.                                                       *)

\* writeLoop takes the head of the buffer and writes it; it reaches the
\* application unless its envelope is too large: that is skipped and the loop
\* goes on.  (A write that fails ends the connection: LoseConnection.)
WriteEvent(c) ==
  /\ cpc[c] \in ServingPhases
  /\ open[c]
  /\ sendBuf[c] # <<>>
  /\ sendBuf' = [sendBuf EXCEPT ![c] = Tail(@)]
  /\ IF Head(sendBuf[c]) \in Oversize
       THEN UNCHANGED clientVars
       ELSE /\ recv' = [recv EXCEPT ![c] = Append(@, Head(sendBuf[c]))]
            /\ got' = [got EXCEPT ![capp[c]] = @ \cup {Head(sendBuf[c])}]
  /\ UNCHANGED <<dbVars, appEventMu, writerVars, cpc, capp, csecret, registered,
                 open, doomed, replayVars, ackVars, closing, ghostVars>>

\* A read, write or pong deadline fails, or the peer disconnects.
LoseConnection(c) ==
  /\ open[c]
  /\ cpc[c] \in ServingPhases
  /\ failures < MaxFailures
  /\ failures' = failures + 1
  /\ open' = [open EXCEPT ![c] = FALSE]
  /\ UNCHANGED <<dbVars, appEventMu, writerVars, cpc, capp, csecret, registered,
                 doomed, sendBuf, replayVars, ackVars, closing, clientVars, consumed,
                 adminOps>>

-----------------------------------------------------------------------------
(* events.ack, run by the readLoop of the connection it arrived on.        *)

\* LockUsableApp, then the acknowledged cursor is read.  A cursor that is not
\* above it is answered without further effect.
AckBegin(c, cursor) ==
  /\ cpc[c] \in ServingPhases
  /\ open[c]
  /\ apc[c] = "idle"
  /\ cursor \in got[capp[c]]
  /\ appState[capp[c]] = "enabled"
  /\ cursor > acked[capp[c]]
  /\ apc' = [apc EXCEPT ![c] = "read"]
  /\ acur' = [acur EXCEPT ![c] = cursor]
  /\ UNCHANGED <<dbVars, appEventMu, writerVars, connVars, replayVars, closing,
                 clientVars, ghostVars>>

\* The cursor must exist in the outbox of the application.
AckFindEvent(c) ==
  /\ apc[c] = "read"
  /\ IF acur[c] \in outbox[capp[c]]
       THEN apc' = [apc EXCEPT ![c] = "found"] /\ UNCHANGED acur
       ELSE apc' = [apc EXCEPT ![c] = "idle"] /\ acur' = [acur EXCEPT ![c] = 0]
  /\ UNCHANGED <<dbVars, appEventMu, writerVars, connVars, replayVars, closing,
                 clientVars, ghostVars>>

\* UPDATE ... WHERE last_acked_cursor < cursor
AckedAfter(old, cursor) == IF old < cursor THEN cursor ELSE old

\* That update, DELETE ... WHERE id <= cursor, and the commit.
AckCommit(c) ==
  /\ apc[c] = "found"
  /\ LET a == capp[c]
         covered == {i \in outbox[a] : i <= acur[c]}
     IN /\ acked' = [acked EXCEPT ![a] = AckedAfter(@, acur[c])]
        /\ outbox' = [outbox EXCEPT ![a] = @ \ covered]
        /\ consumed' = [consumed EXCEPT ![a] = @ \cup covered]
  /\ apc' = [apc EXCEPT ![c] = "idle"]
  /\ acur' = [acur EXCEPT ![c] = 0]
  /\ UNCHANGED <<appState, secret, nextId, appEventMu, writerVars, connVars,
                 replayVars, closing, clientVars, failures, adminOps>>

\* A statement or the commit fails: the transaction rolls back.
AckRollback(c) ==
  /\ apc[c] # "idle"
  /\ failures < MaxFailures
  /\ failures' = failures + 1
  /\ apc' = [apc EXCEPT ![c] = "idle"]
  /\ acur' = [acur EXCEPT ![c] = 0]
  /\ UNCHANGED <<dbVars, appEventMu, writerVars, connVars, replayVars, closing,
                 clientVars, consumed, adminOps>>

-----------------------------------------------------------------------------
(* Administration: commit first, CloseApp afterwards.                      *)

\* A FOR UPDATE lock is free and the administrator may act.
AdminMay(a) ==
  /\ adminOps < MaxAdminOps
  /\ appState[a] # "deleted"
  /\ ~ShareLocked(a)
  /\ adminOps' = adminOps + 1

\* CloseApp follows the commit, unless a reload in between returned an error.
ThenCloseApp(a, afterReload) ==
  \/ closing' = closing \cup {a}
  \/ afterReload /\ ReloadMayFail /\ UNCHANGED closing

\* SetEnabled(false) reloads before CloseApp; SetOwnedEnabled(false) and a
\* disabled creator (SetStatus) do not.
DisableApp(a) ==
  /\ AdminMay(a)
  /\ appState[a] = "enabled"
  /\ appState' = [appState EXCEPT ![a] = "disabled"]
  /\ ThenCloseApp(a, TRUE)
  /\ UNCHANGED <<outbox, acked, secret, nextId, appEventMu, writerVars, connVars,
                 replayVars, ackVars, clientVars, consumed, failures>>

EnableApp(a) ==
  /\ AdminMay(a)
  /\ appState[a] = "disabled"
  /\ appState' = [appState EXCEPT ![a] = "enabled"]
  /\ UNCHANGED <<outbox, acked, secret, nextId, appEventMu, writerVars, connVars,
                 replayVars, ackVars, closing, clientVars, consumed, failures>>

RegenerateSecret(a) ==
  /\ a \notin SystemApps
  /\ AdminMay(a)
  /\ secret' = [secret EXCEPT ![a] = @ + 1]
  /\ ThenCloseApp(a, TRUE)
  /\ UNCHANGED <<outbox, acked, appState, nextId, appEventMu, writerVars, connVars,
                 replayVars, ackVars, clientVars, consumed, failures>>

\* A narrower visibility deletes the pending events of users who lost access.
ChangeVisibility(a) ==
  /\ a \notin SystemApps
  /\ AdminMay(a)
  /\ \E revoked \in SUBSET outbox[a] : outbox' = [outbox EXCEPT ![a] = @ \ revoked]
  /\ ThenCloseApp(a, FALSE)
  /\ UNCHANGED <<acked, appState, secret, nextId, appEventMu, writerVars, connVars,
                 replayVars, ackVars, clientVars, consumed, failures>>

\* deleteStoredApp removes the outbox and the acknowledged cursor as well.
DeleteApp(a) ==
  /\ a \notin SystemApps
  /\ AdminMay(a)
  /\ appState' = [appState EXCEPT ![a] = "deleted"]
  /\ outbox' = [outbox EXCEPT ![a] = {}]
  /\ acked' = [acked EXCEPT ![a] = 0]
  /\ ThenCloseApp(a, FALSE)
  /\ UNCHANGED <<secret, nextId, appEventMu, writerVars, connVars, replayVars, ackVars,
                 clientVars, consumed, failures>>

\* Manager.CloseApp takes the connections out of the map under its lock ...
CloseApp(a) ==
  /\ a \in closing
  /\ LET found == {c \in Conns : registered[c] /\ capp[c] = a}
     IN /\ registered' = [c \in Conns |-> registered[c] /\ c \notin found]
        /\ doomed' = doomed \cup found
  /\ closing' = closing \ {a}
  /\ UNCHANGED <<dbVars, appEventMu, writerVars, cpc, capp, csecret, open, sendBuf,
                 replayVars, ackVars, clientVars, ghostVars>>

\* ... and closes them one by one without it.
CloseConnection(c) ==
  /\ c \in doomed
  /\ doomed' = doomed \ {c}
  /\ open' = [open EXCEPT ![c] = FALSE]
  /\ UNCHANGED <<dbVars, appEventMu, writerVars, cpc, capp, csecret, registered,
                 sendBuf, replayVars, ackVars, closing, clientVars, ghostVars>>

-----------------------------------------------------------------------------
(* The server process ends: transactions roll back, connections, mutex and *)
(* pending CloseApp calls vanish; the database stays.                      *)

ServerCrash ==
  /\ failures < MaxFailures
  /\ failures' = failures + 1
  /\ appEventMu' = NoHolder
  /\ wpc' = [w \in Writers |-> "idle"]
  /\ wrows' = [w \in Writers |-> <<>>]
  /\ cpc' = [c \in Conns |-> "none"]
  /\ registered' = [c \in Conns |-> FALSE]
  /\ open' = [c \in Conns |-> FALSE]
  /\ doomed' = {}
  /\ sendBuf' = [c \in Conns |-> <<>>]
  /\ nextCursor' = [c \in Conns |-> 0]
  /\ page' = [c \in Conns |-> {}]
  /\ pageFull' = [c \in Conns |-> FALSE]
  /\ apc' = [c \in Conns |-> "idle"]
  /\ acur' = [c \in Conns |-> 0]
  /\ closing' = {}
  /\ recv' = [c \in Conns |-> <<>>]
  /\ capp' = [c \in Conns |-> AnyApp]
  /\ csecret' = [c \in Conns |-> 0]
  /\ UNCHANGED <<dbVars, got, consumed, adminOps>>

\* Nothing is left to do: every row is acknowledged or its application is not
\* enabled, and nobody holds or waits for anything.
Settled ==
  /\ appEventMu = NoHolder /\ closing = {} /\ doomed = {}
  /\ \A w \in Writers : wpc[w] = "idle"
  /\ \A c \in Conns : apc[c] = "idle" /\ cpc[c] \in {"none", "serving"} /\ sendBuf[c] = <<>>
  /\ \A a \in Apps : appState[a] = "enabled" => outbox[a] = {}

Quiesce == Settled /\ UNCHANGED vars
-----------------------------------------------------------------------------
Batches == UNION {[1..n -> Apps] : n \in 1..MaxBatch}

WriterStep(w) ==
  \/ CommitTx(w) \/ DeliverAppEvent(w) \/ DeliverDone(w) \/ ArchiveLoadItem(w)

HandlerStep(c) ==
  \/ Register(c) \/ Recheck(c) \/ RecheckFails(c) \/ ReplayReadAck(c) \/ ReplayQuery(c)
  \/ ReplayEnqueue(c) \/ ReplayFails(c) \/ EndFailedReplay(c) \/ ReplayPageDone(c)
  \/ Unregister(c)

AckStep(c) == AckFindEvent(c) \/ AckCommit(c)

Next ==
  \/ \E w \in Writers : WriterStep(w) \/ AbortTx(w) \/ \E apps \in Batches : CreateOutbox(w, apps)
  \/ \E c \in Conns :
       \/ HandlerStep(c) \/ WriteEvent(c) \/ LoseConnection(c) \/ CloseConnection(c)
       \/ AckStep(c) \/ AckRollback(c)
       \/ \E a \in Apps : Authenticate(c, a)
       \/ \E cursor \in 1..MaxId : AckBegin(c, cursor)
  \/ \E a \in Apps :
       \/ DisableApp(a) \/ EnableApp(a) \/ RegenerateSecret(a) \/ ChangeVisibility(a)
       \/ DeleteApp(a) \/ CloseApp(a)
  \/ ServerCrash
  \/ Quiesce

Spec == Init /\ [][Next]_vars

(***************************************************************************)
(* Fairness.  Goroutines and database statements that can proceed do, and  *)
(* sync.Mutex hands itself over.  The application reconnects when it has   *)
(* no connection and does not neglect the last event of a connection for   *)
(* ever, even if it keeps repeating other ACKs.  Nothing is assumed of     *)
(* failures, administrators or senders.                                    *)
(***************************************************************************)
Disconnected(a) == \A c \in Conns : cpc[c] = "none" \/ capp[c] # a

Reconnect(a) == Disconnected(a) /\ \E c \in Conns : Authenticate(c, a)

AckLast(c) == recv[c] # <<>> /\ AckBegin(c, recv[c][Len(recv[c])])

Fairness ==
  /\ \A w \in Writers : WF_vars(WriterStep(w))
  /\ \A c \in Conns : /\ WF_vars(HandlerStep(c)) /\ WF_vars(WriteEvent(c))
                      /\ WF_vars(CloseConnection(c)) /\ WF_vars(AckStep(c))
                      /\ SF_vars(AckLast(c))
  /\ \A a \in Apps : WF_vars(CloseApp(a)) /\ WF_vars(Reconnect(a))

FairSpec == Spec /\ Fairness

-----------------------------------------------------------------------------
(* Properties.                                                             *)

\* Every row an ACK removed from the outbox had reached the application:
\* cumulative ACKs never confirm an event that was not delivered.
NoEventLost == \A a \in Apps : consumed[a] \subseteq got[a]

\* Rows arrive on a connection in ascending cursor order, each at most once,
\* although replay and live delivery both feed its buffer, and without holes:
\* a row still in the outbox below one that has arrived on the connection has
\* arrived on it too.
ReceivedWithoutGaps ==
  \A c \in Conns :
    /\ \A i, j \in DOMAIN recv[c] : i < j => recv[c][i] < recv[c][j]
    /\ \A i \in outbox[capp[c]] :
         (\E j \in Range(recv[c]) : i < j) => i \in Range(recv[c])

\* Committed rows lie above the acknowledged cursor, so a replay from that
\* cursor finds all of them (ids are handed out in commit order).
OutboxAboveAck == \A a \in Apps : \A i \in outbox[a] : i > acked[a]

\* An acknowledged cursor never goes back while its application exists.
AckMonotone ==
  [][\A a \in Apps : appState'[a] # "deleted" => acked'[a] >= acked[a]]_vars

\* A connection that serves an application the way a fresh handshake would be
\* refused is about to be closed: the recheck after Register closes the race
\* with disabling, deleting and rotating the secret.
NoStaleConnection ==
  \A c \in Conns :
    (cpc[c] \in ServingPhases /\ open[c]) =>
      CredentialsValid(c) \/ capp[c] \in closing \/ c \in doomed

\* A deleted application keeps nothing behind: no row of a transaction that
\* was under way reappears in its outbox.
DeletedLeavesNothing ==
  \A a \in Apps : appState[a] = "deleted" => outbox[a] = {} /\ acked[a] = 0

\* The outbox, the acknowledged cursors and what the application received
\* behave as the promise made to applications says: every step of the server
\* is an allocation, a publication, an arrival, a confirmation of events that
\* all arrived, a revocation, a removal, or invisible.
Promise == INSTANCE ReliableEvents WITH
  pending <- outbox, confirmed <- acked, arrived <- got, lastCursor <- nextId

KeepsPromise == Promise!Spec

\* Every committed event of an application that stays enabled is eventually
\* acknowledged (or revoked), whatever connections and servers failed before.
EventuallyAcknowledged ==
  \A a \in Apps : \A i \in 1..MaxId :
    (i \in outbox[a]) ~> (i \notin outbox[a] \/ appState[a] # "enabled")
=============================================================================
