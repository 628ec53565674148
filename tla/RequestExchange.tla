-------------------------- MODULE RequestExchange ---------------------------
(***************************************************************************)
(* A request of the assistant, end to end: the reliable requester, the     *)
(* WebSocket generations it sends on, the server's read loops and the      *)
(* idempotency cache behind them.                                          *)
(*                                                                         *)
(* requestEnvelope sends one envelope under one id up to 1 + MaxRetries    *)
(* times and takes the first response it sees; responses, connections and  *)
(* the server process may be lost at any point in between.  Other          *)
(* connections of the same application may use the same ids.               *)
(*                                                                         *)
(* Callers of the cache are the server's connection objects; the requests  *)
(* of the requester are the ids in Keys, all with the content Own.         *)
(***************************************************************************)
EXTENDS RequestCache

CONSTANTS
  Own,          \* the content of the requester's envelopes
  Foreign,      \* connections of other clients of the application
  MaxRetries,   \* retries of one request (10 in the code)
  MaxFailures,  \* bound: lost connections and server restarts
  NoConn        \* the client has no connection

ASSUME ExchangeAssumption ==
  /\ Own \in Contents /\ Foreign \subseteq Callers /\ NoConn \notin Callers
  /\ MaxRetries \in Nat /\ MaxFailures \in Nat

Conns == Callers \ Foreign   \* generations of the assistant's connection

VARIABLES
  rpc,        \* rpc[r]: "new", "sending", "waiting", "done" or "failed"
  attempt,    \* attempt[r]: retries so far
  respCh,     \* respCh[r]: the response channel, of capacity one
  result,     \* result[r]: what requestEnvelope returned
  current,    \* webSocketManager.current
  cliOpen,    \* cliOpen[c]: the client's end of the connection is open
  srvOpen,    \* srvOpen[c]: the server's end is open
  toServer,   \* toServer[c]: requests on their way
  toClient,   \* toClient[c]: responses on their way
  serving,    \* serving[c]: the id of the request the read loop is in
  failures    \* failures so far

clientVars == <<rpc, attempt, respCh, result>>
linkVars   == <<current, cliOpen, srvOpen, toServer, toClient, serving>>
xvars == <<vars, clientVars, linkVars, failures>>

Responses == 1..MaxRuns \cup {Conflict}

XTypeOK ==
  /\ TypeOK
  /\ rpc \in [Keys -> {"new", "sending", "waiting", "done", "failed"}]
  /\ attempt \in [Keys -> 0..MaxRetries]
  /\ respCh \in [Keys -> Responses \cup {None}]
  /\ result \in [Keys -> Responses \cup {None}]
  /\ current \in Conns \cup {NoConn}
  /\ cliOpen \in [Conns -> BOOLEAN]
  /\ srvOpen \in [Conns -> BOOLEAN]
  /\ toServer \in [Conns -> Seq(Keys)]
  /\ toClient \in [Conns -> Seq(Keys \X Responses)]
  /\ serving \in [Conns -> SUBSET Keys]
  /\ failures \in 0..MaxFailures

XInit ==
  /\ Init
  /\ rpc = [r \in Keys |-> "new"]
  /\ attempt = [r \in Keys |-> 0]
  /\ respCh = [r \in Keys |-> None]
  /\ result = [r \in Keys |-> None]
  /\ current = NoConn
  /\ cliOpen = [c \in Conns |-> FALSE]
  /\ srvOpen = [c \in Conns |-> FALSE]
  /\ toServer = [c \in Conns |-> <<>>]
  /\ toClient = [c \in Conns |-> <<>>]
  /\ serving = [c \in Conns |-> {}]
  /\ failures = 0

-----------------------------------------------------------------------------
(* The requester.                                                          *)

\* requestEnvelope registers the response channel under the id.
StartRequest(r) ==
  /\ rpc[r] = "new"
  /\ rpc' = [rpc EXCEPT ![r] = "sending"]
  /\ UNCHANGED <<vars, attempt, respCh, result, linkVars, failures>>

\* Send waits for a connection and writes the envelope to it; on a socket the
\* server has already closed the write may still succeed, and is lost.
Send(r) ==
  /\ rpc[r] = "sending"
  /\ current # NoConn
  /\ toServer' = IF srvOpen[current] THEN [toServer EXCEPT ![current] = Append(@, r)]
                                     ELSE toServer
  /\ rpc' = [rpc EXCEPT ![r] = "waiting"]
  /\ UNCHANGED <<vars, attempt, respCh, result, current, cliOpen, srvOpen, toClient,
                 serving, failures>>

TakeResponse(r) ==
  /\ rpc[r] = "waiting"
  /\ respCh[r] # None
  /\ result' = [result EXCEPT ![r] = respCh[r]]
  /\ respCh' = [respCh EXCEPT ![r] = None]
  /\ rpc' = [rpc EXCEPT ![r] = "done"]
  /\ UNCHANGED <<vars, attempt, linkVars, failures>>

LastAttempt(r) == attempt[r] = MaxRetries

\* No connection within responseWait, a failed write, a timeout or the end of
\* the generation: the next attempt follows after a delay, or none.
AttemptFails(r) ==
  /\ rpc[r] \in {"sending", "waiting"}
  /\ IF LastAttempt(r)
       THEN /\ rpc' = [rpc EXCEPT ![r] = "failed"]
            /\ respCh' = [respCh EXCEPT ![r] = None]
            /\ UNCHANGED attempt
       ELSE /\ rpc' = [rpc EXCEPT ![r] = "sending"]
            /\ attempt' = [attempt EXCEPT ![r] = @ + 1]
            /\ UNCHANGED respCh
  /\ UNCHANGED <<vars, result, linkVars, failures>>

\* Slip: the response goes to whichever request is waiting.
Addressee_AnyWaiting(message) ==
  CHOOSE r \in Keys : rpc[r] = "waiting" \/ \A x \in Keys : rpc[x] # "waiting"

\* The request a response is for: its reply_to.
Addressee(message) == message[1]

\* HandleResponse: the channel of a pending request takes one response, others
\* are discarded.
ReceiveResponse(c) ==
  /\ cliOpen[c]
  /\ toClient[c] # <<>>
  /\ LET r == Addressee(Head(toClient[c]))
     IN respCh' = IF rpc[r] \in {"sending", "waiting"} /\ respCh[r] = None
                    THEN [respCh EXCEPT ![r] = Head(toClient[c])[2]] ELSE respCh
  /\ toClient' = [toClient EXCEPT ![c] = Tail(@)]
  /\ UNCHANGED <<vars, rpc, attempt, result, current, cliOpen, srvOpen, toServer,
                 serving, failures>>

-----------------------------------------------------------------------------
(* Connections.                                                            *)

\* webSocketManager.Run dials again once the previous generation is cleared.
Connect(c) ==
  /\ current = NoConn
  /\ ~cliOpen[c] /\ ~srvOpen[c] /\ cpc[c] = "idle"
  /\ current' = c
  /\ cliOpen' = [cliOpen EXCEPT ![c] = TRUE]
  /\ srvOpen' = [srvOpen EXCEPT ![c] = TRUE]
  /\ UNCHANGED <<vars, clientVars, toServer, toClient, serving, failures>>

\* A read, write or ping of the client fails, or the server has closed its
\* end: serveGeneration returns, the generation is cleared and closed, and
\* what was on its way to it is lost.
ClientCloses(c) ==
  /\ cliOpen[c]
  /\ IF srvOpen[c] THEN failures < MaxFailures /\ failures' = failures + 1
                   ELSE UNCHANGED failures
  /\ cliOpen' = [cliOpen EXCEPT ![c] = FALSE]
  /\ toClient' = [toClient EXCEPT ![c] = <<>>]
  /\ current' = NoConn
  /\ UNCHANGED <<vars, clientVars, srvOpen, toServer, serving>>

\* The same on the server's side.  What the client wrote before it closed its
\* end may still be read, so this need not happen at once.
ServerCloses(c) ==
  /\ srvOpen[c]
  /\ IF cliOpen[c] THEN failures < MaxFailures /\ failures' = failures + 1
                   ELSE UNCHANGED failures
  /\ srvOpen' = [srvOpen EXCEPT ![c] = FALSE]
  /\ toServer' = [toServer EXCEPT ![c] = <<>>]
  /\ UNCHANGED <<vars, clientVars, current, cliOpen, toClient, serving>>

-----------------------------------------------------------------------------
(* The server's read loops.                                                *)

\* readLoop hands the next request to the cache and stays with it.
ReadRequest(c) ==
  /\ srvOpen[c]
  /\ toServer[c] # <<>>
  /\ Lookup(c, Head(toServer[c]), Own)
  /\ toServer' = [toServer EXCEPT ![c] = Tail(@)]
  /\ serving' = [serving EXCEPT ![c] = {Head(toServer[c])}]
  /\ UNCHANGED <<clientVars, current, cliOpen, srvOpen, toClient, failures>>

\* EnqueueResponse: dropped when the connection has been closed meanwhile, by
\* either side.
Respond(c) ==
  /\ Returned(c)
  /\ toClient' = IF srvOpen[c] /\ cliOpen[c]
                   THEN [toClient EXCEPT ![c] =
                           Append(@, <<CHOOSE r \in serving[c] : TRUE, answer[c]>>)]
                   ELSE toClient
  /\ serving' = [serving EXCEPT ![c] = {}]
  /\ UNCHANGED <<cacheVars, expiries, clientVars, current, cliOpen, srvOpen, toServer,
                 failures>>

\* Another client of the application asks for anything under any id.
ForeignRequest(f, k, x) ==
  Lookup(f, k, x) /\ UNCHANGED <<clientVars, linkVars, failures>>

ForeignAnswered(f) ==
  Returned(f) /\ UNCHANGED <<cacheVars, expiries, clientVars, linkVars, failures>>

\* The server process restarts: the cache is gone, and with it every
\* connection.  Executions under way are cut off.
ServerRestart ==
  /\ failures < MaxFailures
  /\ failures' = failures + 1
  /\ entry' = [k \in Keys |-> None]
  /\ older' = {} /\ totalBytes' = 0 /\ stale' = {}
  /\ dropped' = DOMAIN runs
  /\ cpc' = [c \in Callers |-> "idle"]
  /\ asked' = [c \in Callers |-> NoContent]
  /\ on' = [c \in Callers |-> None]
  /\ answer' = [c \in Callers |-> None]
  /\ srvOpen' = [c \in Conns |-> FALSE]
  /\ serving' = [c \in Conns |-> {}]
  /\ toServer' = [c \in Conns |-> <<>>]
  /\ UNCHANGED <<runs, expiries, clientVars, current, cliOpen, toClient>>

-----------------------------------------------------------------------------
CacheStep(c) ==
  /\ (\E size \in Sizes : Complete(c, size)) \/ Wake(c)
  /\ UNCHANGED <<clientVars, linkVars, failures>>

AllOver ==
  /\ \A r \in Keys : rpc[r] \in {"done", "failed"}
  /\ UNCHANGED xvars

XNext ==
  \/ \E r \in Keys : StartRequest(r) \/ Send(r) \/ TakeResponse(r) \/ AttemptFails(r)
  \/ \E c \in Conns :
       \/ Connect(c) \/ ClientCloses(c) \/ ServerCloses(c)
       \/ ReceiveResponse(c) \/ ReadRequest(c) \/ Respond(c)
  \/ \E f \in Foreign :
       ForeignAnswered(f) \/ \E k \in Keys, x \in Contents : ForeignRequest(f, k, x)
  \/ \E c \in Callers : CacheStep(c)
  \/ \E e \in DOMAIN runs : Expire(e) /\ UNCHANGED <<clientVars, linkVars, failures>>
  \/ ServerRestart
  \/ AllOver

XSpec == XInit /\ [][XNext]_xvars

-----------------------------------------------------------------------------
(* Properties.                                                             *)

\* What a request returns is the response of an execution of that very
\* request, or the conflict a foreign user of the id provoked: late responses,
\* retries and other requests on the connection are never mixed up.
ResultIsOwn ==
  \A r \in Keys :
    result[r] \notin {None, Conflict} =>
      /\ runs[result[r]].key = r
      /\ runs[result[r]].content = Own
      /\ Completed(result[r])

\* A retry, a late copy of an earlier attempt on another connection or a
\* repeated response never executes a request a second time: not while the
\* first execution is under way and not until the cache has forgotten it.
AtMostOncePerRequest ==
  \A i, j \in DOMAIN runs :
    (i < j /\ runs[i].key = runs[j].key) =>
      i \in dropped /\ \A c \in Callers : cpc[c] = "executing" => on[c] # i
=============================================================================
