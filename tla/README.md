# MyGod: a TLA+ model of its application protocol and its clients

MyGod is a self-hosted chat server (Go), its web, mobile and admin clients
(TypeScript) and an AI assistant (Go) that talks to the server as an ordinary
*application* over a WebSocket. Two parts of it are hard to get right and hard
to test:

- the protocol between the server and its applications: events that must not
  be lost although connections, processes and administrators come and go, and
  requests that must not be executed twice although they are retried;
- the state the web and mobile clients keep of a server they see through
  pages, events and answers that nothing orders, over connections that end,
  and what they do with microphones, drafts, forms and files between two awaits.

Smaller parts share their hazards: login codes that are used while they expire
and are replaced, the worker that sends reminders of tasks while people change
them, and the assistant's runner, which retires sessions while messages arrive.

These modules model all of that, check them on small instances and prove the most
important of their properties for all instances.

All paths below are relative to `src/`; `server/…` stands for
`server/internal/…`, `appclient/…` for `assistant/internal/appclient/…`,
`web/…` for `client-web/src/…` and `mobile/…` for `client-mobile/src/…`.

## 1. Inventory

| Component | State it keeps | Operations | Hard part |
|---|---|---|---|
| Application events (`server/httpserver/app_message_events.go`, `app_websocket_handlers.go`, `events.ack` in `app_request_handlers.go`, `server/application/message/outbox.go`) | tables `app_event_outbox`, `app_event_acks`; the mutex `appEventMu` | insert rows, commit, push, register, recheck, replay page by page, acknowledge | order of commits, cumulative ACKs, races of push and replay, crash |
| Application connections (`server/appconnection/connection.go`, `manager.go`) | `connsByApp`, `send` and `response` channels, `done` | Register, Unregister, SendToApp, CloseApp, read and write loop | full buffers, closing while in use |
| Request cache (`server/appconnection/request_cache.go`) | entries by (app, request id), byte total, LRU clock | `Do` | two callers with one id, eviction of what is in use |
| Application administration (`server/application/app`) | row of the application: enabled, secret, visibility | enable, disable, rotate, update, delete | race with handshakes and open transactions |
| Message creation (`server/application/message`) | messages, sequence numbers, read positions | create, forward, answer a choice, revoke, react | many rows under one conversation lock; event tail |
| Topics and conversations (`server/application/conversation`) | conversations, members, topics | create, archive, join, leave, dissolve | membership against events under way |
| Assistant requester and transport (`appclient/requester.go`, `transport.go`) | pending response channels, current generation | request with retries, dial, serve, clear | late and duplicate responses |
| Assistant inbox (`appclient/client.go`) | event queue, `eventRunning`, `eventVersion`, `lastAckedCursor` | enqueue, drain, acknowledge | lost wakeups, replay by a stale read goroutine |
| Assistant agent runner (`appclient/runner.go`, `topic_router.go`) | one session per conversation, pending batches, watermarks | start, yield, retire, close | retirement against arrival |
| Client realtime pool (`server/realtime`) | users' connections | register, broadcast, close user | no recheck after registration |
| Realtime connection of the clients (`web/lib/realtime-client.ts`, `mobile/realtime/realtime-client.ts`) | socket, timer, session check, pending requests | connect, disconnect, reconnect, request | three asynchronous activities of which one must go on |
| Web: messages of a conversation (`web/components/client-data-provider.tsx`, `web/lib/client-data-state.ts`) | a window of the log, its pages, requests under way | load, scroll back, catch up, compact, send, revoke | answers asked for before and handled after an event |
| Web: conversation list (same files, `web/hooks/use-conversation-actions.ts`) | rows | refresh, read, pin, dismiss, restore | three sources without an order |
| Web: drafts (`web/hooks/use-conversation-drafts.ts`, `web/pages/chat-page.tsx`) | the drafts of each visit to the chat page, a copy in localStorage | edit, select, send, delete, flush, leave | answers to a visit that is over, a tab that closes |
| Web and mobile: reactions (`client-data-provider.tsx`, `mobile/realtime/reaction-sync.ts`) | versioned reactions, catch-up loops | event, snapshot, page, own reaction | versions that were skipped |
| Web and mobile: voice recording (`web/hooks/use-voice-recording.ts`, `mobile/features/conversation/use-voice-message-recorder.ts`) | recorder, microphone, files | start, stop, close, send | an await at every step, and a failure; deletions nobody hears of |
| Mobile: messages and conversation list (`mobile/data`, `mobile/realtime/realtime-cache.ts`) | React Query caches | refetch, event, catch-up, optimistic change | a refetch that replaces what was written meanwhile |
| Mobile: resource cache (`mobile/data/resources`) | files, index, its stored copy, tasks | look up, download, commit, prune, remove a server | four asynchronous steps and an end of the process between any two |
| Web: tasks of a project (`web/components/projects/project-tasks-tab.tsx`, `project-task-details-dialog.tsx`) | list, filter, the task the address names, a form and its baseline | open, edit, save, delete, drag, filter, navigate | a form filled from three sources; an address that follows a render later |
| Web: documents of a project (`project-documents-tab.tsx`) | a tree, open folders, what is dragged | open, drag, search | indices that shift when a node leaves its place |
| Tasks and reminders (`server/application/task`) | tasks; reminders with next trigger, failures, retry time | set, pause, remove; a worker that handles what is due | failures after the commit, changes between a failure and its record, one that fails each time |
| E-mail login (`server/application/emailauth`) | codes, cooldowns, attempts in memory; queues of mails | request, deliver, log in | concurrent use of one code |
| Accounts, files, projects, settings, dashboard, store; admin client and other pages | tables; user interface state | request-scoped reads and writes | validation, SQL, I/O |

How they interact: a writing transaction (message, choice answer, topic) calls
into the event tail, which calls `Manager.SendToApp`. A connection's read loop
calls the request cache, which calls the request handlers; `events.ack` is one
of them. Administration changes rows and then calls `Manager.CloseApp`. The
assistant's transport delivers events to its inbox and responses to its
requester; the inbox's drainer calls handlers, and both use the requester,
which writes to the transport. A client's requests and its realtime connection
reach the server independently of each other: a message that was committed may
be seen first in a page, in the answer of its sender or in its event. When the
connection is ready again, the pages of the client that are mounted catch up.

What makes the components correct:

- *events*: an application gets every event of its outbox, in cursor order and
  without holes on a connection, until it has acknowledged it; nothing is
  deleted unseen; the cursor never goes back; nothing of a deleted application
  survives; revoked credentials end the connection;
- *cache*: one execution per id while it is remembered; every caller gets the
  response to its own content; limits hold and the accounting is exact;
- *requester*: a request returns its own response and nobody else's;
- *inbox*: an event is handled once per process, in order, and acknowledged
  only after that; a queue that holds something is being drained or was tried
  after the last arrival;
- *agent runner*: every message is handled in turn by a session of its
  conversation, under its own sender's authorization, although sessions stop, are
  retired and make room for each other;
- *a client's connection*: one at a time; what it says of itself is true; it
  comes back while the page is there;
- *what a client shows*: once nothing changes any more it is what the server
  holds, and reactions are right at every version shown, unless a page was read
  while they changed; a window can always be
  scrolled back and never loses its newest message;
- *what the user did*: a draft stays until it is sent; nothing is recorded
  that the page does not show; the cache stays within its limit; a save changes
  what the user changed and nothing else; a dialog that was closed stays closed;
  a document lands where the page showed it;
- *login codes*: a code that was mailed lets in once;
- *reminders*: an occurrence is announced to one person, and what is due is
  handled even next to a reminder that fails each time.

`PROJECT.json` lists every component with what is left out, and every hazard
with the properties that cover it, or the reason why none does.

## 2. Modules

| Module | Models | Used by |
|---|---|---|
| `ReliableEvents` | the promise made to applications, without mutexes, buffers or crashes (abstract) | `AppEvents` (`Promise == INSTANCE …`) |
| `AppEvents` | server side of events: writers, connections, replay, ACK transactions, administration, crash | `MCAppEvents`, `AppEventsProofs` |
| `RequestCache` | the idempotency cache with concurrent callers | `MCServer`, `RequestExchange` |
| `RequestExchange` | requester + generations + read loops + the cache of `RequestCache` (EXTENDS it) | `MCRequestExchange`, `RequestExchangeProofs` |
| `LoginCodes` | e-mail login codes of one address | `MCServer`, `ServerProofs` |
| `TaskReminders` | reminders, the users who change them and the worker that sends them | `MCServer`, `ServerProofs` |
| `AssistantInbox` | inbox, drainer, generations; server in short | `MCAssistantInbox`, `AssistantInboxProofs` |
| `AgentRunner` | `conversationAgentRunner`: one session per conversation, batches of other senders that wait, retirement | `MCRequestExchange`, `AgentRunnerProofs` |
| `ClientRealtime` | RealtimeClient, web and mobile (`client` says which) | `MCClients`, `WebClientProofs` |
| `WebMessages` | the web client's window of one conversation | `MCWebClient`, `WebDataProofs` |
| `WebConversationList` | one row of the web client's list | `MCClients`, `WebDataProofs` |
| `WebDrafts` | its drafts over several visits to the chat page | `MCWebClient`, `WebClientProofs` |
| `WebVoiceRecording` | `useVoiceRecording` | `MCWebClient`, `WebClientProofs` |
| `ProjectTasks` | a project's page of tasks with its dialogs | `MCWebClient`, `WebClientProofs` |
| `ProjectDocuments` | a project's tree of documents | `MCWebClient`, `WebDataProofs` |
| `MessageReactions` | reactions of one message, web and mobile (`platform`) | `MCClients`, `WebClientProofs` |
| `MobileMessages`, `MobileConversationList` | the mobile client's query of one conversation, one row of its list | `MCClients`, `MobileClientProofs` |
| `ResourceCache` | the files the mobile client keeps | `MCClients`, `MobileClientProofs` |
| `MobileVoiceRecording` | `useVoiceMessageRecorder` and the composer's gestures | `MCClients`, `MobileClientProofs` |
| `MCAppEvents`, `MCAssistantInbox` | symmetry sets for TLC | the runs |
| `MCRequestExchange` | the assistant's requests and its sessions: one part per behaviour | the run |
| `MCServer` | cache, login codes and reminders: one part per behaviour | the run |
| `MCWebClient`, `MCClients` | the components of the clients, one per behaviour | the runs |
| `…Proofs` | theorems; `ServerProofs`, `WebClientProofs`, `WebDataProofs` and `MobileClientProofs` about several components each | |

Operators whose name carries a suffix and whose comment says *Slip* or
*Mutant* (for example `Recheck_Skipped`) are plausible mistakes beside the definition
they distort. No specification uses them; substituted for the real definition,
each makes the property it is paired with in `PROJECT.json` fail.

### AppEvents and the code

One action is one atomic step of a goroutine: a critical section, a database
statement, or a channel operation.

- *Writers.* `createUserMessage`, `createForwardedMessagesForTarget`,
  `SubmitChoiceResponse`, `ArchiveTopic` and `CloseTopicAsApp` share their
  tail: `CreateOutbox` (SHARE lock on the applications, `appEventMu.Lock`,
  insert), `CommitTx` or `AbortTx`, `DeliverAppEvent` per row, `DeliverDone`
  (the deferred `Unlock`). The lock is taken before the SHARE locks in the code
  and all of it before the insert; the model takes them together. Writers in
  `ArchiveWriters` also pass `ArchiveLoadItem`, which may fail.
- *Connections.* `Authenticate` → `Register` → `Recheck` / `RecheckFails` →
  `ReplayReadAck` → (`ReplayQuery` → `ReplayEnqueue`* → `ReplayPageDone`)* →
  serving → `Unregister`. `ReplayFails` and `EndFailedReplay` are separate
  because the mutex is released between them. `open` is the `done` channel.
  The write loop (`WriteEvent`) may run from the moment the serving goroutine
  starts, i.e. during replay; an envelope in `Oversize` is skipped.
- *ACK.* Three statements of one transaction at READ COMMITTED: read the cursor
  (`AckBegin`), find the row (`AckFindEvent`), update, delete and commit
  (`AckCommit`, one step because no other step can see between them).
- *Administration.* Each operation commits, then its `CloseApp` is pending in
  `closing`; `CloseApp` takes connections out of the map, `CloseConnection`
  closes them one at a time. `ThenCloseApp` is where a failed reload returns
  early. `DisableApp` stands for `SetEnabled`, `SetOwnedEnabled` and the
  disabling of the creator (`usermanagement` `SetStatus`); the set of behaviours
  of the first includes the others'.
- *Crash.* `ServerCrash` forgets everything but the database.
- *Application.* It may acknowledge any cursor it has ever received, over any
  of its connections, in any order and repeatedly.
- *History.* `got` and `recv` record arrivals and `consumed` what ACKs have
  deleted; no guard of the server's steps reads `consumed` or `recv`.

An outbox id is a number from one sequence, handed out at insertion; a rolled
back transaction leaves its ids unused. Payloads, conversation kinds and who
is selected as a receiver are abstracted to "some sequence of usable
applications".

A row may be revoked after it was received and before it is acknowledged; the
code then refuses the ACK (`app_request_handlers.go:599`), which is
`AckFindEvent` finding nothing. The application may acknowledge another cursor;
`EventuallyAcknowledged` counts a revoked row as settled.

### RequestCache, RequestExchange and the code

`Lookup` is the first critical section of `Do`, `Complete` the second; between
them the caller executes. `older` is the order of `lastUsed`, as a relation
between cached executions; an execution is identified with its response. Bytes
are counted as the cardinality of a set of them (`Bytes`), and `Victims` is the
least set that `enforceLimitsLocked` takes, oldest first, both without a loop.
`RequestExchange` reuses the callers of the cache
as read loops, one per generation of the assistant's connection (`ReadRequest`,
`Respond`), plus `Foreign` callers, other connections of the same application
that may use the same ids. The wire is one queue per direction; bytes
written before a close may still be read by the other end, and what is on its
way to an end that is closed is dropped. Delays and timeouts are `AttemptFails`,
possible at any time.

### AssistantInbox and the code

`Read` and `Enqueue` are two steps because `serveGeneration` may return while
its read goroutine still holds a message. `Look` is the critical section at the
top of the drain loop, `Handle`/`HandleFails` the handler, `SendAck`,
`AckAnswered` and `AckFails` the `events.ack` request with all its retries,
`Pop` the last critical section. `eventVersion` is compared with one earlier
value only, so the model keeps the set of drainers that have not seen the
latest arrival (`unseen`). The server replays and pushes in cursor order
without holes, which is what `AppEvents` is checked for. Up to `MaxFailures`
times, something fails: a connection, an ACK, a handler, or the whole process.

`InboxAssumption` asks for a queue longer than one. With a queue of one, an
event whose ACK the server has taken but whose answer was lost would block its
successor, which the next connection brings, for ever; the code's queue has 256
places (`appclient/client.go`), so that the case needs as many unacknowledged
events and is left out.

### AgentRunner and the code

One action is one critical section of `runner.mu`, or one request or answer
between two of them.

- *Start* is `DropSeen`, `GiveToSession`, `CreateSession` or `Reject`, by what the
  first critical section finds. A message that must wait for those of another
  sender goes to `job.waiting` (`job.pending` in the code) and asks the session to
  yield; `RecordSequence` is the watermark, with its eviction.
- *runJob* and `Session.RunCycle` within it: `BeginTurn`, `ModelAnswers`,
  `ModelRefuses` (the context is too long and is compacted), `ToolsReturn`, and
  `AfterCycle`, which takes the next batch (`TakeBatch`) or stops. What the model
  is shown is `heard`, what its current turn brought `news`, and whose
  authorization is in force `scope` (`messagesForRequest`).
- *Timers.* `TimerFires` starts the callback, `TimerRuns` is the callback once it
  has the mutex: `retireIdleJob` and `retryCapacityRetirement`.
- *Retirement.* `RetireJob` is `retireJob` with `conversation.topic.get`,
  `CloseTopic` is `conversation.topic.close`, `Retired` what follows. The
  generation that tells a goroutine that its retirement was cancelled or begun
  again is compared with the current one only: `valid` says whether they are equal.
- *The server* keeps `posted` and `archived`; `CloseSession` is `topic.closed`.

`accepted` is history. A session object is used again once no goroutine, timer or
conversation knows it (`Forgotten`), so that `Sessions` bounds how many are known
at a time, not how many are created. The inbox hands messages over one at a time
and in the order of the server (`AssistantInbox`).

### LoginCodes and the code

`RequestCode` is the request up to its answer: cleanup, cooldown, `Dispatch`.
`TakeJob`, `SendMail`, `StoreCode` and `GiveUp` are the goroutine of one shard,
which sends before it stores, so that a code may be in a mailbox and unknown to
the server for a moment. A login is `Reserve` (`reserveCode`, under the mutex),
`AccountAnswers` (the session, in the database) and `Settle` (`consumeCode` or
`releaseCode`). The map of codes has one entry per e-mail address, and addresses
share only the queue of their shard: the model keeps one address, and a queue
that others may fill. Codes are drawn from a small set, so that the same code is
drawn again while it is being used.

### TaskReminders and the code

The users' actions are transactions of `Service.Update` and `Service.Delete`. The
worker is `Tick` (a batch begins), `ReadClock` (the next attempt), then one
transaction: `Handle`, `HandleFails` or `NothingDue`; `SkipLocked` is what
`SKIP LOCKED` and the second look at the row (`reminder_worker.go:104`) do when a
user's transaction was there first. The record of a failure is a transaction of
its own (`RecordFailure`), by which time the reminder may have moved. `Handle` may
commit and still be taken for a failure. A schedule is a set of instants, one of
them for a single reminder, and `Never` is a `next_trigger_at` that is NULL.

### The clients and the code

A request of a client is three steps: it leaves, the server serves it, its
answer is handled; events wait in the connection in any order, since the
server's handlers publish concurrently, and are lost with it. What the server
does to serve a request (`message/create.go`, `history.go`, `revoke.go`,
`reaction.go`, `conversation/list.go`, `read.go`, `pin.go`, `preferences.go`) is
modelled with each client module, as one transaction, with one exception: a
page's reactions and their versions are read one after the other
(`ReadReactions`, `ReadVersion`). `history.go` and `list.go` run their other queries
without a transaction as well. The list reads conversations before read positions,
so a row between two changes counts less, never more, and the next refresh
brings both; none of the properties tells these reads from one. React effects and
callbacks are one step up to their next await.

- `ClientRealtime`: `Connect` is `connect()`, also called when the page becomes
  visible; `SocketOpens`, `SystemReady`, `SocketCloses` the socket's callbacks;
  `CheckDone` the session check awaited in `handleSocketClose` with everything
  after it (`Superseded`, `Refused`, `ScheduleReconnect`); `TimerFires` the
  reconnect timer; `Unmount` `disconnect()`. The two clients differ in what
  `connect()` waits for (`UnderWay`), in which sockets' callbacks are heeded
  (`Heeds`) and in that only the web client sends requests.
- `WebMessages`: one in-flight request per kind, as the refs and states of
  `ClientConversationMessageState` guarantee. `Merge`, `Compact`, `PageWith` are
  the functions of `client-data-state.ts`, on messages that are a number and
  whether they are revoked; `Deduplicate`, which keeps the last of each number and
  sorts, is defined by the rank of a number among those that occur. The rest are the callbacks of `ClientDataProvider`,
  the senders and the realtime sync.
- `WebConversationList`: `RowAnswered` is what each answer does to the row,
  `Notified` what each event does; `RefreshConversations` is the interval, the
  visibility change and the reconnect, which start the same request.
- `WebDrafts`: `Put` and `Flush` are `updateConversationDraft` and `flushDrafts`;
  `TextSent`, `FileSent` and `SendFails` the continuations of `sendMessage` and
  `sendFileMessage`, `Deleted` that of `deleteConversation`. Each visit to the chat
  page is an instance of the hook with its own `draftsRef`, `dirtyRef` and timer
  (`drafts[v]`, `dirty[v]`, `persist[v]`). `LeaveChat` is the route that unmounts
  `ChatPage`, which flushes; what the visit waits for goes on and is answered in
  *its* drafts, before or after `OpenChat` has begun the next visit. A tab may be
  closed, which flushes what is mounted, or killed, which does not; both end all.
- `WebVoiceRecording`, `MobileVoiceRecording`: one action per await of starting
  and stopping and one per gesture or button. `MicrophoneGranted` and
  `ContextResumed` are the successful awaits, superseded or not; `StartFails` is a
  failing await or `recorder.start`, `SetupFails` a failure between the granted
  microphone and `streamRef`. In the mobile client every await of
  `startRecording` and `stopRecording` may fail; `SafeDelete` and `ReleaseMode` are
  `safeDeleteFile` and `releaseRecordingMode`, which swallow their failures.
- `MessageReactions`: `WithEvent`, `WithSnapshot`, `WithPage` are the merge
  functions, `StartCatchUp`, `SnapshotArrives` and `SnapshotFails` the loop of
  attempts. The web client runs one loop per message, the mobile client one per
  gap. A page is served in two steps, for what `attachMessageReactions` does
  outside of a transaction; `doubt` is a ghost that says which part of what is shown
  was read before the version it is shown at.
- `MobileMessages`, `MobileConversationList`: the queries are external, modelled
  from how the code uses React Query: a fetch of an infinite query takes the
  pages it keeps when it starts and replaces the cache when it ends;
  `invalidateQueries` (`InvalidateQuery`) restarts or marks it; `cancelQueries` drops it.
  `UpdateIn`, `AppendMessages`, `WithReadResult` and others are the functions of
  `realtime-cache.ts` and the hooks; `Change`, `ChangeArrives` and `ChangeFails`
  are the parts of an optimistic mutation.
- `ResourceCache`: the stages of a task are the awaits of `runDownloadOnce` and
  `downloadToCache`; `RunJob`, `JobPersisted` and `JobFails` are the queue of
  `mutateCacheIndex`. `Restart` keeps the disk and the stored index. Sizes are
  added as the cardinality of a set of bytes (`Size`).
- `ProjectTasks`: `Render` is what React does after each step: the effect on the
  address (`closing`, `link`), and the dialog, whose key is the task and its
  version. Setting the address and rendering it are two steps (`nav`,
  `Navigated`). `Call` is an update or a deletion under way; the component that
  sent it may be gone when it is answered (`seen`). `Filled` is the form and its
  baseline, `Patch` their difference (`createTaskEditPatch`). The server's side is
  `Service.Update`, `Service.Delete`, `Service.Get` and `Service.List`.
- `ProjectDocuments`: `Without`, `With` and `Moved` are the functions that cut and
  put back a node, on sequences of children instead of nested nodes; `Lines` and
  `RowPlaces` are the drop targets the page offers.

`MCWebClient` and `MCClients` let a behaviour run one of their components, the one
the variable `part` names, and keep the others idle. `MCWebClient` has the parts of
the web client without temporal properties, `MCClients` the mobile client, what is
one module for both clients, and the web client's list. The components of a client do
not call each other except for "the connection is ready again", which each of them
models as its own step, so their interleavings add nothing but states. `MCServer` does the same with three parts of the server that share
neither state nor locks, and `MCRequestExchange` with the assistant's requester
and its runner. The modules theorems are about are extended, not instantiated, so
that a run checks the very definitions that are proved.

## 3. Runs

Bounds are constants of the modules and limit only the environment: how many
events, failures, administrative operations and executions there are.

| Run | Expect | Question | Instance (distinct states) |
|---|---|---|---|
| `AppEvents_delivery` | pass | Are events delivered without loss, holes or disorder, and does the server implement `ReliableEvents`? | 1 application, 2 writers, 2 connections, buffer 1, page 1, batches of up to 2, 3 ids, 1 failure (603 k) |
| `AppEvents_admin` | pass | Do revoked credentials and deletion take hold? | 2 applications (1 built in), an archiving writer, 2 connections, 2 operations (371 k) |
| `AppEvents_liveness` | pass | Is every event acknowledged in the end? | 1 application, writer, connection, 2 ids, 1 failure, 1 operation, failing replay queries (33 k) |
| `AppEvents_archive_lost` | violation | as `delivery`, with an archiving writer | 2 connections, 2 ids |
| `AppEvents_replay_fails` | violation | as `delivery`, with a failing replay query | 2 connections, 2 ids, 1 failure |
| `AppEvents_oversize` | violation | as `delivery`, with an envelope over the limit | 1 connection, 2 ids |
| `AppEvents_reload_fails` | violation | as `admin`, with a failing reload | 2 connections, 1 operation |
| `Server` | pass | Is the cache within its limits and useful to its callers, does a code let in once, is a reminder sent once and in the end? | three parts, one per behaviour (728 k) |
| `RequestExchange` | pass | Does a request return its own result and run once? Is every message handled in turn, under its own sender's authorization? | two parts, one per behaviour (2.1 M) |
| `AssistantInbox` | pass | Is every event handled once and in order, acknowledged after that, and confirmed in the end? | 2 generations, 2 drainers, queue of 2, 3 events, 2 failures (236 k) |
| `WebClient` | pass | Is what the web client keeps, records and sends right at every step? | five components, one per behaviour (1.2 M) |
| `Clients` | pass | Does what both clients show become the server's, and what the mobile client keeps and records stay within its bounds? | seven components, one per behaviour (658 k) |

Why the bounds suffice. With a page and a buffer of one, three events make
every boundary happen: an exact page, a second page, a full buffer during
replay and during a push. Two connections give a stale one and its successor,
and two concurrent ACKs; two writers give the overtaking of commits the mutex
prevents. A size that fills the cache alone, a size that does not, and a count
limit below the number of ids make both reasons for eviction occur. A queue
shorter than the number of events makes it refuse one. One failure in the
exchange loses any one thing anywhere; two in the inbox combine a lost
connection with a lost ACK, a failed handler or a restart.

The parts of `MCServer`, `MCRequestExchange`, `MCWebClient` and `MCClients`,
from their cfgs:

| Component | Instance | What it makes happen |
|---|---|---|
| `RequestCache` | 3 ids, 2 contents, 2 callers, sizes 1 and 3 of at most 3 bytes, 2 entries, 3 executions, 1 expiry | eviction by count and by size around an execution under way |
| `LoginCodes` | 2 codes, 2 visitors, 1 IP address, a queue of 1, 2 attempts, 3 mails, 1 restart | a reserved code that is replaced by another and by itself, expires and is released |
| `TaskReminders` | 2 tasks of which one cannot be announced, 2 users, schedules over 2 instants, batches of 2, 2 changes, 1 failure | a failure recorded after the reminder moved, a batch that only fails |
| `RequestExchange` | 2 requests, 2 generations, 1 foreign caller, 1 retry, 2 executions, 1 expiry, 1 failure | a retry beside its first attempt, a response of an earlier generation |
| `AgentRunner` | 2 conversations of which 1 is a topic, 2 senders, 2 session objects, 1 session allowed, 1 watermark, 2 goroutines that retire, 2 turns, 3 messages, 1 handed over twice | two senders in one session, a message into a retirement at each of its steps, a session that makes room |
| `ClientRealtime` | 3 sockets, 2 requests, either client | the close, check and timer of one socket overlap those of two others |
| `WebMessages` | 3 messages before, 4 in the end, pages of 1, retention of 2, 1 revocation, 1 failed request | windows that begin and end in the middle of the log, compaction with requests under way |
| `WebConversationList` | 1 message, 1 change, 1 request of each kind under way, 1 loss | a refresh, an answer and an event of one change in every order |
| `WebDrafts` | 2 conversations, 2 visits, 2 edits, 1 message and 1 deletion under way, 1 fault | an answer after the selection, the draft or its reply target changed, or to a visit that was left or replaced |
| `WebVoiceRecording` | 3 starts | two superseded starts come back during a third, or fail |
| `ProjectTasks` | 2 tasks of which one or both exist, 2 fields, 3 versions in all, 2 turns of the user or of failures, 1 update and 1 refresh under way | details, a refresh and a save around another person's change; closing around a list or a link |
| `ProjectDocuments` | 2 folders, 2 documents | a folder dragged to every line and row, within and out of its parent |
| `MessageReactions` | 2 users, 3 versions, 2 attempts, 1 loss, 1 page of the web client, either client | a gap of two versions, a catch-up that is overtaken, a page read across a change |
| `MobileMessages` | 2 messages before, 4 in the end, pages of 1, a catch-up of 1 page, 2 pages, 2 changes, 1 visit, 1 fault | a gap longer than a catch-up, a refetch around it |
| `MobileConversationList` | 1 message, 1 change, 1 loss, 2 reports | an optimistic change around a fetch, an event and its own failure |
| `ResourceCache` | resources of sizes 1 and 2 of one server, limit of 2, queue of 1, 2 faults | eviction, a broken entry, a removal and a restart during a commit |
| `MobileVoiceRecording` | 3 takes | a take whose end overlaps the next press; one that cannot be stopped or deleted before the next |

A change, a loss or a fault more adds repetitions of these cases: each
component's hazards involve one late answer and at most two events.

`CHECK_DEADLOCK FALSE` stands only where a behaviour of the instance may end: in
`AppEvents_admin` and `AppEvents_archive_lost` a row that `ArchiveTopic` did not
push waits for a reconnect that nothing forces; in `AppEvents_replay_fails` and
`AppEvents_oversize` a row may likewise wait for a later event. In
`Server`, `WebClient` and `Clients` a behaviour ends when users, servers and the
network have used up their changes and the page or the process has gone.
Elsewhere `Quiesce`, `Exhausted`, `AllOver`, `AllRetired` and `Idle` stutter in the states in which
nothing is left to do, and every other state without a successor is an error.
Symmetry (`MC*`) is used in runs without fairness only.

### What the violations show

The passing delivery runs exclude three things the code does, each of which
loses an event (`NoEventLost`); a fourth defeats `NoStaleConnection`:

1. `server/application/conversation/topic.go:517`: `ArchiveTopic` returns on a
   failed reload after its commit and never pushes `topic.closed`. The next
   event's cumulative ACK deletes it.
2. `server/httpserver/app_websocket_handlers.go:82`: after a failed replay the
   mutex is released before the connection is unregistered and closed.
3. `server/appconnection/connection.go:163`: an oversize event is skipped and
   later events are still written and acknowledged.
4. `server/application/app/service.go:260` and `:287`: a failed reload
   skips `CloseApp`.

The guide says of events that unacknowledged ones are replayed in order after a
reconnect (`APPLICATION_DEVELOPMENT.md:292`); 4 contradicts the comment at
`app_websocket_handlers.go:66`.

### Fairness

`AppEvents!Fairness`: weak fairness of every goroutine's own steps (the Go
scheduler runs what can run; `sync.Mutex` in starvation mode hands itself to
the waiter) and of `CloseApp`; nothing for failures, administrators, new events
or `AbortTx`. Of the application it is assumed that it reconnects (`Reconnect`;
`webSocketManager.Run` dials for ever) and that it does not neglect the last
event of a connection for ever (`SF(AckLast)`). Strong fairness is needed
because the application may be repeating other ACKs on the same connection,
during which the read loop is busy; the assistant's drainer acknowledges each
event until it is answered.

`AssistantInbox!Fairness`: weak fairness of the drain and read goroutines, of
dialling, of the server's answers and of noticing that the other end is gone;
strong fairness of `SendAck`, because `Send` waits on `stateChange`, which
`install` signals, so a send that is attempted over a series of short-lived
connections gets through to one of them. `EventuallyConfirmed` has an escape,
`Stalled`: after its retries the drainer stops, and if its connection stays up
and brings nothing new, the queue waits. The code accepts that: the next event
or reconnect starts it again.

`TaskReminders`: weak fairness of the worker, whose ticker fires every 15 seconds,
and of the end of a retry delay. The delay doubles with each failure up to
minutes (`time.Second << failures`), and a batch is 50 attempts without a pause,
so that a reminder which fails each time may return within a batch at first, and
after `LongAfter` failures not before its end: `DelayEnds` says so, and
`RemindersHandled` rests on it. Users stop changing reminders (`MaxChanges`);
a schedule that is moved for ever need not remind.

The clients' fairness is in `MCClients` (the components
that are proved about state theirs themselves): intervals and timers fire,
requests are served and answered or fail, answers and events that are there are
handled, a handshake is answered, a connection comes back. Nothing is assumed of
users, of other members, of failures, or of pages being fetched by the web
client, which fetches on scrolling only. `RowConverges`, `MobileRowConverges`,
`WindowConverges` and `ReactionsCatchUp` say what holds once nothing changes any
more; they rest on the interval of 15 seconds (web list) and the refetches of
five seconds (mobile). `ReactionsCatchUp` excuses the web client where it gives
up by design (`excused`): a failed or exhausted catch-up, a reconnect during one,
or an older page that replaced what was shown; and while it shows what a page
read across a change has brought. The mobile client's refetches repair even that:
`ReadReactions` and `ReadVersion` are fair, and once nobody reacts any more they
read the same version. `ReadReported` asks that the
conversation stay on screen.

### Known limits of the clients

Several properties one might expect do not hold and are not claimed. Of the web
client:

- the answer to a message, or to a deletion, that comes after the chat page was
  left and opened again changes the drafts of the visit that is over
  (`use-conversation-drafts.ts:26`, `:89`). The new visit keeps showing the text that
  was sent, and the copy in localStorage is replaced by the earlier visit's, drafts
  typed since then gone from it, until the new visit writes again; a tab that is
  killed before loses them. `DraftKept` claims nothing of the copy from the first
  such write (`overwritten`) to the next of the latest visit, and of a sent text
  only that it does not come back where the visit that sent it is the latest;
- a microphone granted to a start whose audio context, source or recorder
  cannot be made stays live until the page goes, with the dialog idle
  (`use-voice-recording.ts:175-187`, catch at 267). `MicrophoneAccounted` excepts
  these streams (`leaked`);
- a start that was superseded while `audioContext.resume` was awaited discards the
  recorder and the microphone of the start that superseded it (253-257). That one
  then records nothing, or shows "recording" with a stop button that does nothing
  until the dialog is closed. `MicrophoneAccounted` does not ask these versions for
  a recorder (`robbed`);
- a page reads its reactions (`reaction.go:348`) and then their versions (353)
  without a transaction (`history.go:65`; `ListReactionSnapshots` has one, at 295). A
  change in between gives the reactions of version v the number v+1, and the client
  ignores the event of v+1 as one it has (`client-data-provider.tsx:653`), although
  `reaction_test.go:59` and `client-data-provider.test.tsx:129` expect exact
  reactions. They stay wrong until a snapshot or another page; an event puts other
  people's right, but not the reader's own mark. `ReactionsExact` excepts what such
  a page has brought (`doubt`);
- after a reconnect one page is fetched behind the newest message known, and
  none if a catch-up is under way; `hasMoreAfter` is stored and never read, so a
  longer gap stays until the conversation is loaded again
  (`client-data-provider.tsx:1136`);
- the newest arrival wins: an answer served before a revocation and handled
  after its event shows the old text again, which `client-data-state.test.ts:75`
  expects (`client-data-state.ts:239`);
- the answer to a request for what is before message 1 says that nothing is, and
  may be handled after compaction has cut the window that held message 1: the
  window then starts later and says `hasMoreBefore = false`
  (`client-data-provider.tsx:1102`). The request needs a window that holds message 1
  and does not know it is the first, as an event, a late initial page or a
  revocation's answer may leave it. `HistoryReachable` is stated from an initial page
  up to such an answer (`fetched`), and covers everything else;
- old messages put back below a gap (a page asked for before a compaction, the
  answer to a revocation) leave a hole that no page fills: pages are asked for
  before the oldest and behind the newest message only;
- a conversation that is empty when it is opened, and whose first events arrive
  out of order, may start with its second message and know of no other;
  `MessagesAssumption` asks for a message to begin with;
- when the initial load fails, the answer to a send marks the conversation as
  loaded, and its history is not fetched.

The mobile client pages and refetches and is checked for completeness
(`WindowConverges`). Its recordings leave files in the cache directory, which the
code leaves to the operating system (`use-voice-message-recorder.ts:311`): if the
screen goes away while it records, if the recorder fails to stop, and if a deletion
fails. A recorder that fails to stop is not asked again and may go on until the next
recording. `RecordsOnlyWhileHeld` names each of these cases. Its synchronization runs two parts side by side
(`Promise.all`), and when one fails the next may start before the other has
ended; the model runs one catch-up of a conversation at a time.

## 4. Proofs

The theorems hold for every value of the constants, i.e. for any number of
applications, writers, connections, generations, sessions, sockets, messages and
files and any size of a buffer, page, queue, window and cache, under the named
assumptions of the modules (`ConstantsAssumption`, `OversizeAssumption`,
`CacheAssumption`, `ExchangeAssumption`, `InboxAssumption`, `RunnerAssumption`,
`LoginCodesAssumption`, `RemindersAssumption`, `DraftsAssumption`,
`MessagesAssumption`, `ResourceAssumption`, `MobileMessagesAssumption`,
`DocumentsAssumption`) and what the table adds. Most of the assumptions say that a bound is a number; that of
`ProjectDocuments` says that the first tree is finite and has each node in one
place; the ones that exclude something are discussed where the module is (a queue
of one, a conversation without a message).

| Theorem | States | Inductive invariant |
|---|---|---|
| `AppEventsProofs` | | |
| `TypeCorrect` | `[]TypeOK` | `TypeOK` itself, one lemma per group of actions |
| `MutualExclusion` | `[]MutexHeld` | whoever has uncommitted or unpushed rows, or is between `Register` and the end of replay, holds `appEventMu` |
| `PendingAboveAck` | `[]OutboxAboveAck` | `CursorInv`: every id anybody holds was handed out (`IdsHandedOut`), and everything received, buffered or being acknowledged is older than the rows of an open transaction (`FreshRows`) |
| `AcksNeverGoBack` | `AckMonotone` | from `TypeOK` |
| `StaleConnectionsClose` | `[]NoStaleConnection`, if `ReloadMayFail = FALSE` | `StaleInv`: a connection that is open after registration is in the map or about to be closed (`Closable`) |
| `DeletionIsFinal` | `[]DeletedLeavesNothing` | `DeletedInv`: a transaction that holds rows, or an ACK under way, has its application locked (`LocksHeld`) |
| `NothingLost` | `[]NoEventLost`, under `Delivering` | `DeliveryInv`, below |
| `NoGaps` | `[]ReceivedWithoutGaps`, under `Delivering` | the same |
| `PromiseKept` | `KeepsPromise`, i.e. the refinement of `ReliableEvents`, under `Delivering` | the same, with `CursorInv` |
| `RequestExchangeProofs` | | |
| `CacheTypeCorrect` | `[]TypeOK` of the cache: `older` orders exactly what is cached | `CacheInv`, below |
| `WaitersAreServed` | `[]WaitersHaveExecutor` | the same |
| `CacheStaysWithinLimits` | `[]WithinLimits` | the same |
| `FreshIsKept` | `FreshResponseKept` | the same |
| `ResultsAreOwn` | `[]ResultIsOwn` | `ExchangeInv`, below |
| `RetriesExecuteOnce` | `[]AtMostOncePerRequest` | the same |
| `ExchangeTypeCorrect` | `[]XTypeOK` | the same |
| `AssistantInboxProofs` | | |
| `DrainedByOne` | `[]OneDrainer` | `InboxInv`, below |
| `OnceInOrder` | `[]HandledInOrder` | the same |
| `NothingForgottenUnhandled` | `[]ForgottenWasHandled` | the same |
| `InboxTypeCorrect` | `[]TypeOK` of the inbox | the same, with `TypeOK` |
| `AgentRunnerProofs` | | |
| `EveryoneInTurn` | `[]InTurn` | `TurnsInv`, below |
| `RunnerTypeCorrect` | `[]ARTypeOK` | `TurnsInv`, and `RestInv`: the watermarks are bounded, and a goroutine that closes a conversation closes a topic (`ClosersInv`), since the conversation of a session that is being retired does not change |
| `ServerProofs` | | |
| `CodeLetsInOnce` | `[]LoginOnce` | `LoginInv`: the times a code was stored cover those it let in, the logins that hold it, and the entry that still offers it (`Covered`) |
| `CodesTypeCorrect` | `[]CodesTypeOK` | the same |
| `AnnouncedOnce` | `[]RemindedOnce` | `RemindersInv`: whatever was announced has passed and lies before the next occurrence of its row (`MessagesPassed`); the worker's clock is never ahead |
| `RemindersTypeCorrect` | `[]RemindersTypeOK` | the same |
| `WebClientProofs` | | |
| `OneConnectionOnly`, `ReadyIsTrue` | `[]OneConnection`, `[]ConnectionHonest`, if a socket may be opened at all (`MaxSockets > 0`) | `RealtimeInv`: the client closes sockets only for good (`Ended`), and the check that will arm the timer finds none armed (`CheckArms`) |
| `MicrophoneSafe` | `[]MicrophoneAccounted` | `VoiceInv`: versions are handed out once, and a start that waits is either superseded or the one the page shows (`StartsInv`), with its own microphone unless an older start took it (`CurrentStart`); what leaked is of a start that waits no more (`LeakedInv`) |
| `RealtimeTypeCorrect`, `VoiceTypeCorrect` | `[]RealtimeTypeOK`, `[]VoiceTypeOK` | inductive by themselves |
| `ReactionsTypeCorrect` | `[]ReactionsTypeOK` | inductive by itself: whatever is shown, on its way or merged is of a version handed out (`Shown`) |
| `ReactionsNeverWrong` | `[]ReactionsExact`, if the reader is a user | `ExactInv`: what is shown, and every answer on its way, is exact at its version but for what is in doubt; a page half served has the reactions of some version (`HalfExact`); an event says enough to tell the reader's own mark |
| `NothingTypedIsLost` | `[]DraftKept` | `DraftsInv`, below |
| `DraftsTypeCorrect` | `[]DraftsTypeOK` | the same |
| `ClosedForGood` | `[]ClosedStaysClosed` | `TasksInv`, below |
| `OnlyWhatWasMeant` | `OthersKept` | the same |
| `TasksNeverAhead` | `[]RowsNeverAhead`: no task is listed in a version the server has not reached, if `Tasks` is finite and there may be a version at all | `VersionsInv`, below |
| `TasksTypeCorrect` | `[]TasksTypeOK` | `TasksInv`, `VersionsInv`, and the number of updates under way (`TasksCounts`) |
| `WebDataProofs` | | |
| `HistoryStaysOpen` | `[]HistoryReachable` | `MessagesInv`, below |
| `NewestNeverLost` | `NewestStays` | the same |
| `NothingUnwritten` | `[]ShownWasWritten`: every message the window shows is in the log, and is shown revoked only if it is | `LoggedInv`, below |
| `WebMessagesTypeCorrect` | `[]WebMessagesTypeOK` | `MessagesInv` and `LoggedInv` |
| `LandsAsShown` | `LandsWhereShown` | `DocumentsInv`, below |
| `EveryNodeInOnePlace` | `[]DocumentsTypeOK` | the same |
| `NothingCountedTwice` | `[]BadgeCountsOnce`, a part of `WebListTypeOK` | `ListInv`, below |
| `ListNeverAhead` | `[]NeverAhead`: a row names no message, read position or mention beyond those of the server | `BehindInv`, below |
| `WebListTypeCorrect` | `[]WebListTypeOK` | the same two |
| `MobileClientProofs` | | |
| `NothingRecordedUnheld` | `[]RecordsOnlyWhileHeld` | `MobileVoiceInv`: `statusRef` admits one of the two asynchronous functions at a time (`OneAtWork`); a start nobody has stopped has the finger (`Hands`); a file that is not left behind (`LeftBehind`) is being made or named (`FilesNamed`), which after a stop that failed it is not (`Dialog`) |
| `CacheOnDiskBounded` | `[]DiskBounded` | `DiskInv`, below |
| `ResourceTypeCorrect` | `[]ResourceTypeOK` | the same |
| `OlderStaysInReach` | `[]OlderInReach` | `QueryInv`, below |
| `NothingIsInvented` | `[]NothingInvented`: every message the screen shows is in the log, and is shown revoked only if it is | `ToldInv`, below |
| `MobileMessagesTypeCorrect` | `[]MobileMessagesTypeOK` | `QueryInv` and `ToldInv` |
| `MobileVoiceTypeCorrect` | `[]MobileVoiceTypeOK` | `MobileVoiceInv` |
| `MobileListNeverAhead` | `[](MobileRowNeverAhead /\ ScreenHasRow)`: the row and the positions of the screen name nothing beyond the server's last message, and the screen that has the focus has a row | `MobileRowInv`, below |
| `MobileListTypeCorrect` | `[]MobileListTypeOK` | the same |

`OutboxAboveAck` is not inductive by itself: a commit needs to know that no ACK
has passed the new ids, hence `FreshRows`; that in turn needs that no arrival
can involve ids not handed out, hence `IdsHandedOut`. This is where the mutex
matters: while a transaction is open nobody else inserts, commits or registers.
The assumption of `StaleConnectionsClose` is what finding 4 violates.

*Delivery.* `Delivering` excludes exactly the three ways of losing an event that
findings 1 to 3 show: a writer that does not push, a replay query that fails, an
oversize envelope. The passing runs make the same choice. Under it, `DeliveryInv`
says of each connection what is *missing*, the pending rows it neither carried
nor has in its buffer: none lies below anything it has carried; while it replays
none lies below the replay's position, and what is on the page or, if the page
was full, above it, is still to come; once it serves, only rows that their
writer is about to push are missing. Everything carried ascends (`OrderInv`), and
the rows of a transaction lie above all of it until they are pushed, in order
(`RowsInv`). So what an application has received has no hole below any cursor it
can acknowledge (`GotInv`), whence `NoEventLost`. Crashes, lost connections and
all administrative operations are steps of it. `PageIsLowest` is the fact about
the paged query: a page that leaves out a row is full and has the lowest ones.
`PromiseKept` maps `CreateOutbox` to `Allocate`, `CommitTx` to `Publish`,
`WriteEvent` to `Arrive`, `AckCommit` to `Confirm`, `ChangeVisibility` to `Revoke`,
`DeleteApp` to `Remove`, and everything else to a stutter.

*Request cache.* An execution that is under way is the entry of its id and has
exactly one executor (`ExecutorsInv`): expiry and eviction take completed entries
only, so that neither separates it from those who wait for it, and `totalBytes`
is the sum over what is cached. That eviction is defined at all (`Victims` chooses)
needs `older` to be a total order of what is cached, hence the theorem about
types; the executor's own entry was touched last, so that it is the last to go
(`FreshIsKept`).

*Request exchange.* To the cache `ExchangeInv` adds that everything on its way, in
a read loop, on a wire or in a response channel, is an answer to the request
whose id it carries (`ServingInv`, `MessagesInv`, `ResponsesInv`), where a conflict
can only come from a foreign caller's use of the id. `EntriesInv`, that an
execution which is not an entry any more was dropped, gives
`AtMostOncePerRequest`: two executions of an id are two entries of it, one after
the other.

*Inbox.* `HandledInOrder` needs to know that what is on its way has no holes
below it that nobody has handled or queued: `QueueInv`, `LogInv`, `StreamInv` and
`AckInv` say so of the queue, of what was handled, of each generation's stream
and of ACKs under way, the late ones of generations long gone included.
`DrainerInv` ties the drainer's place to the head of the queue and to who has
seen the latest arrival.

*Agent runner.* A goroutine may still run for a session that was dropped, and
several may retire one session at once, of whose retirements all but the last
were cancelled. These disturb nobody: only the current session of a conversation
has messages to handle (`JobsInv`), and each of those goroutines is of one session
(`RetirersInv`). `SessionsInv` is about the current session of a conversation. What
it was given exists and ascends up to `seen` (`AcceptedInv`). What the latest turn
brought (`news`) is of the sender in force, everything queued is of the sender the
session runs for, and those who wait exist (`SendersInv`), so that a turn brings
messages of one sender and activates that one's scope. The session runs, and is not
being retired, exactly as long as its goroutine does, stops only with nothing to
do, and yields only when somebody waits (`BusyInv`).

*Login codes.* A login that holds a code does not prevent that the code is
replaced, even by an equal one, which a second login may then hold as well; and
the first, when it fails, releases the entry of the second. `LoginInv` counts
instead of excluding: what was stored covers opened + holders + offered, where
an entry offers its code unless it is being consumed. A release turns a holder
into an offer at most, and opening a session uses up a holder.

*Drafts.* A text belongs to one conversation, in the drafts of every visit, in the
copy and in what is being sent (`TextsApart`), so that an answer takes away nothing
of another conversation. What is under way was sent by this visit or an earlier one,
and while the visit that sent a text is the latest, the draft is what its user wants
(`Departed`); a draft an answer has cleared stays empty until it is edited (`Kept`).
Both are about the latest visit only: the drafts of an earlier one reach the user
through the copy, which is the latest visit's whenever that has nothing to write and
no earlier visit has written since (`CopyIsGood`, a conjunct of `DraftsInv`).

*Messages of a conversation.* The window is in order, and what its page says is
true of it unless an event came in below: a page without more before it has the
first message or is empty (`Brings`), and compaction, which cuts old messages, says
that there are more. That merging keeps both sides, in order, is `MergeFacts`,
from which `NewestNeverLost` follows; its proof needs that the sequence of ranks
enumerates the numbers (`NthFacts`, `DeduplicateFacts`), by well-founded induction
on the rank. The attempt to prove an earlier form of `HistoryReachable`, which
excused only revocations and held on the run's instance, failed at the answer
described in section 3 (*Known limits*).

Nothing unwritten is shown: `LoggedInv` says of the window, of every answer and
event on its way that its messages are the log's, revoked only where the log is;
since the log only grows and revocations are final, nothing that arrives late can
become wrong. Merging, compaction and the placing of an event draw from what they
are given (`Draws`), so each step is a matter of what it is given.

*Tasks of a project.* While the address names the task whose dialog was closed
last, the closing ref names it too, and no address that is pending brings it
back (`StaysClosed`). A form differs from its baseline only in fields the user has
changed, whatever has filled both (`Meant`), and an update under way carries no
other field (`CallMeant`). `VersionsInv` says of every row, of the task the address
has loaded and of every list on its way that its version is one the stored task
has or has had: what the server stores only becomes newer or is deleted (`Newer`),
and a drag or its roll-back changes a row without its version. That a version is
within the bound needs `VersionsOfOne`, a count of the pairs of tasks and versions.

*Documents of a project.* What a drag leaves of the children of a folder is
`Dropped`, a recursive function whose value for a sequence without repetitions is
characterised by `DroppedFacts`: that the recursion defines a function is shown by
giving it, and that it is the function meant by a least index at which it were not.
`DroppedFromPart` and `Inserted` compare indices: dropping a node from the part
before a line, and inserting it where `IndexAfterRemoval` says, is the same place
(`MovedLands`). `DocumentsInv` adds to the type that a target is a place while a
node is dragged: between nodes that are there, or in a folder.

*Files of the mobile client.* The queue of mutations is first in, first out, so
that what removes the entry of a file stands before what sets it (`Queued`), and a
file that no fault left behind is indexed or will be (`Indexed`); the commit of a file
prunes before it ends (`Pruned`).

*A row of the web client's list.* `ListInv` says that the row shown, and every row an
answer brings, counts at most the messages between what is read and the last one.
An event adds a message only to a row whose last message is older, a pin or a
mention leaves the count alone, and the answer to a read report brings zero with a
position of its own; so neither the order of arrival nor a lost event matters
(`WithMessageOK`). `BehindInv` adds that none of them names anything beyond the
server's row, which never goes back (`BehindStays`): a row may be behind the server,
never ahead of it. That the count is also *right* in the end is `RowConverges`.

*A row of the mobile client's list.* This one changes before the server does:
reading, pinning and own messages are shown at once and rolled back when they
fail. `MobileRowInv` says that all of it, the row, a list on its way, the row a
mutation would put back, the reports and the positions the screen keeps, is still
about messages the conversation has. That the screen reads and raises a row at all
needs `ScreenHasRow`: a removal or a refresh that drops the row also leaves the
screen, and a mutation that puts a row back puts back one that was there
(`KnownChange`). `MobileConversationList` calls several things by the names
`MobileMessages` uses, so the theorems are about an instance, `ML`, with constants of its own.

*Messages of the mobile client.* Writing a message moves it to the first page, and
the pages keep the position from which the next one is asked for (`oldest`), so
that what the query lacks lies before its last page (`OlderInReach`). `QueryInv`
joins to it the same of the pages that a refetch has collected (`FetchOK`), which
replace the query when it ends: a fetched page begins where the one before it
asked, and is full if it says that there are more (`PageFacts`, `FetchedInReach`).
What is above the newest message the first page was served with, or above its
oldest if it had none before it, is left to
the events and the catch-up, and is the matter of `WindowConverges`. `ToldInv` says
that pages, fetched pages, answers and events tell of the log what it was at some
time, hence nothing the log does not have (`NothingIsInvented`).

`PendingAboveAck`, `AcksNeverGoBack`, `MutualExclusion`, `DrainedByOne`,
`NothingUnwritten`, `TasksNeverAhead`, `ListNeverAhead`, `NothingIsInvented` and
`MobileListNeverAhead` state what no run checks by itself, and so do the theorems
about the types of single modules: those of the clients are joined in the runs'
`TypesOK`, as `BadgeCountsOnce` is; those of the server's cache, codes and reminders,
of the exchange, the inbox and the runner are left to the proofs, which cover every
value of the constants.

Only model-checked:

- `TypesOK` of `MCWebClient` and `MCClients` as such, since the runs take one
  component at a time. Each of their conjuncts is a theorem about its component;
- all liveness: `EventuallyAcknowledged`, `EventuallyConfirmed`, `RemindersHandled`,
  `Reconnects`, `ReactionsCatchUp`, `RowConverges`, `MobileRowConverges`,
  `WindowConverges`, `ReadReported`, which is out of the prover's reach.

## 5. Not modelled

- Who receives an event (mentions, participants, membership) and whether
  the revoked rows are the right ones: SQL conditions, not ordering.
- Frames that cannot be written at all, authentication failures of the
  assistant (its process ends), cancelled contexts other than as failures.
- The scheduling of responses against events in `writeLoop`: any order is
  allowed, which covers the 8:1 rule.
- The database connection pool: it is unlimited in the code.
- Events of the assistant without a cursor, and what a handler other than the
  runner does with an event.
- Of the runner: the topic router, answers to choices and the first message of a
  created topic (they differ in the number a message has), failures of creating
  or appending to a session, waiters, `CancelAll`, sinks, and the order of delays. It
  takes a topic's last number from the server, then closes the topic at it: a
  message that the server has and the runner was not handed yet is closed over,
  which no property excludes; and a message that arrives before its session's first
  turn is shown together with the first one.
- Of the web client's messages: the removal of a window with its conversation
  (`removeConversation`, `use-conversation-actions.ts:109-124`, which forgets a send
  under way with it) and of messages a choice snapshot calls deleted
  (`client-data-provider.tsx:699-734`).
- Of the resource cache: files before they are moved into place. They are not
  counted (`files`), and one whose move is refused stays until the next start
  removes it (`resource-cache-store.ts:97-98`, `205-231`).
- Two tabs of one user overwriting each other's drafts, mentions within a
  draft, waveforms and audio formats, the order of eviction in the resource
  cache (any order is allowed), delays of any timer.
- The repetition of a send whose answer was lost: every attempt carries a new
  `clientMessageId` (`use-conversation-senders.ts`), so the server cannot tell;
  `WebDrafts` models the draft that stays.
- Of tasks: creation, access, labels and members that are offered, the pages of a
  list, and the notification of a change (a message in the assignee's
  conversation). The details of a task are read before they arrive (`ServeLoad`);
  the task of a link is read at the moment it arrives. Neither the list after two
  overlapping refreshes (`refreshTasks` keeps the filter of its render) nor input
  that is unsaved when a refresh reloads the dialog is covered by a property: the
  code orders neither.
- Of reminders: calendars and time zones (a schedule is a set of instants), and
  the publication after the commit of the message the transaction stored.
- The test mail of the e-mail settings, and hashing of codes.
- The admin client, the other pages of the clients, accounts, files, projects
  and settings: request-scoped reads and writes over rows, whose correctness is
  validation and SQL rather than order.
- Everything else `PROJECT.json` lists as `not_modelled`.

## 6. What could follow

The core, the assistant's protocol and the clients' shared state are modelled.
Worth adding, in this order:

1. The server's side of the realtime pool with `CloseUser`.
2. The topic router of the runner and its repair after a restart.

## 7. Running

    tlasany M.tla
    tlc -workers 2 -config AppEvents_delivery.cfg MCAppEvents.tla
    tlapm AppEventsProofs.tla

A cfg belongs to the module `PROJECT.json` names with it. Each run of section 3
ends within four minutes on two cores, and each module of proofs is checked from
nothing within six.
