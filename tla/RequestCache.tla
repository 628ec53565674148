---------------------------- MODULE RequestCache ----------------------------
(***************************************************************************)
(* The server's idempotency cache for application requests.                *)
(*                                                                         *)
(* Every request that arrives on an application connection goes through    *)
(* requestCache.Do: an unknown request id is executed and its response is  *)
(* remembered; a repeated id with the same content gets the remembered     *)
(* response, waiting for it when the first execution is still under way;   *)
(* the same id with other content is a conflict.  Completed entries expire *)
(* and are evicted, least recently used first, when there are too many of  *)
(* them or their responses are too large together.                         *)
(*                                                                         *)
(* A response is identified with the execution that produced it.           *)
(***************************************************************************)
EXTENDS Naturals, Sequences, FiniteSets

CONSTANTS
  Keys,        \* request ids of one application
  Contents,    \* contents (method and payload) a request can have
  Callers,     \* read loops of the connections, one request at a time each
  Sizes,       \* possible sizes of an encoded response
  MaxEntries,  \* completed entries kept (1000 in the code)
  MaxBytes,    \* bytes of responses kept (64 MiB in the code)
  MaxRuns,     \* bound: executions
  MaxExpiries, \* bound: entries whose time to live passes
  Conflict,    \* the answer request_id_conflict
  NoContent    \* what a caller without a request holds

None == 0      \* no execution

ASSUME CacheAssumption ==
  /\ Sizes \subseteq Nat \ {0}
  /\ MaxEntries \in Nat \ {0} /\ MaxBytes \in Nat \ {0}
  /\ MaxRuns \in Nat /\ MaxExpiries \in Nat
  /\ Conflict \notin Nat /\ NoContent \notin Contents

VARIABLES
  entry,       \* entry[k]: the execution cached under k, or None
  runs,        \* the executions so far: [key, content, size], size 0 under way
  older,       \* older: <<d, e>> if d was last used before e, the order of lastUsed
  totalBytes,  \* requestCache.totalBytes
  stale,       \* cached executions whose time to live has passed
  expiries,    \* how many have
  dropped,     \* history: executions the cache has forgotten
  cpc,         \* cpc[c]: "idle", "executing", "waiting" or "answered"
  asked,       \* asked[c]: the content of the request the caller is in
  on,          \* on[c]: the execution it runs, waits for or got
  answer       \* answer[c]: what Do returned

cacheVars  == <<entry, runs, older, totalBytes, stale, dropped>>
callerVars == <<cpc, asked, on, answer>>
vars == <<cacheVars, expiries, callerVars>>

-----------------------------------------------------------------------------
Runs == 1..MaxRuns

Completed(e) == runs[e].size > 0

Cached == {entry[k] : k \in Keys} \ {None}

\* order says of any two executions in S which one was used before the other.
Orders(order, S) ==
  /\ order \subseteq S \X S
  /\ \A d, e \in S : <<d, e>> \in order <=> d # e /\ <<e, d>> \notin order
  /\ \A d, e, f \in S : <<d, e>> \in order /\ <<e, f>> \in order => <<d, f>> \in order

TypeOK ==
  /\ entry \in [Keys -> 0..MaxRuns]
  /\ runs \in Seq([key : Keys, content : Contents, size : Sizes \cup {0}])
  /\ Len(runs) <= MaxRuns
  /\ Orders(older, Cached)
  /\ totalBytes \in Nat
  /\ stale \subseteq Runs /\ dropped \subseteq Runs
  /\ expiries \in 0..MaxExpiries
  /\ cpc \in [Callers -> {"idle", "executing", "waiting", "answered"}]
  /\ asked \in [Callers -> Contents \cup {NoContent}]
  /\ on \in [Callers -> 0..MaxRuns]
  /\ answer \in [Callers -> 0..MaxRuns \cup {Conflict}]

Init ==
  /\ entry = [k \in Keys |-> None]
  /\ runs = <<>> /\ older = {}
  /\ totalBytes = 0
  /\ stale = {} /\ dropped = {} /\ expiries = 0
  /\ cpc = [c \in Callers |-> "idle"]
  /\ asked = [c \in Callers |-> NoContent]
  /\ on = [c \in Callers |-> None]
  /\ answer = [c \in Callers |-> None]

-----------------------------------------------------------------------------
(* Helpers of the cache.                                                   *)

Minus(x, y) == IF x > y THEN x - y ELSE 0

\* Slip: the wrong end of the order is used.
Touched_Front(order, S, e) == {p \in order : p[2] # e} \cup {e} \X (S \ {e})

\* touchLocked: of the executions in S, e becomes the most recently used one.
Touched(order, S, e) == {p \in order : p[1] # e} \cup (S \ {e}) \X {e}

Without(order, S) == {p \in order : p[1] \notin S /\ p[2] \notin S}

Forgetting(S) == [k \in Keys |-> IF entry[k] \in S THEN None ELSE entry[k]]

\* The sum of sizeOf[e] over the executions in S, counted byte by byte.
Bytes(S, sizeOf) == Cardinality(UNION {{e} \X (1..sizeOf[e]) : e \in S})

SizeNow == [e \in DOMAIN runs |-> runs[e].size]

\* Slip: entries expire from the moment they are created.
ExpiredNow_InFlight == {e \in Cached : e \in stale \/ ~Completed(e)}

\* removeExpiredLocked removes the entries that are completed and stale.
ExpiredNow == {e \in Cached : e \in stale /\ Completed(e)}

\* Slip: an expired entry's response is not subtracted.
BytesAfterExpiry_Unchanged == totalBytes

BytesAfterExpiry == Minus(totalBytes, Bytes(ExpiredNow, SizeNow))

\* enforceLimitsLocked: of the completed entries, oldest first, as few as it
\* takes until the others are few and, together, small enough.
Victims(done, order, sizeOf, total) ==
  LET OldestFirst(V) == \A d \in V, e \in done \ V : <<d, e>> \in order
      TooMuch(V) == \/ Cardinality(done \ V) > MaxEntries
                    \/ Minus(total, Bytes(V, sizeOf)) > MaxBytes
      Enough(V) == OldestFirst(V) /\ (V = done \/ ~TooMuch(V))
  IN CHOOSE V \in SUBSET done : Enough(V) /\ \A W \in SUBSET V : Enough(W) => W = V

-----------------------------------------------------------------------------
(* requestCache.Do.                                                        *)

\* The digest of method and payload is that of the cached request.
SameRequest(e, x) == runs[e].content = x

\* The first critical section: expired entries go, then the id is looked up.
Lookup(c, k, x) ==
  /\ cpc[c] = "idle"
  /\ LET known == Forgetting(ExpiredNow)
         left == Cached \ ExpiredNow
         order == Without(older, ExpiredNow)
         e == known[k]
         new == Len(runs) + 1
     IN /\ \/ /\ e = None
              /\ new <= MaxRuns
              /\ runs' = Append(runs, [key |-> k, content |-> x, size |-> 0])
              /\ entry' = [known EXCEPT ![k] = new]
              /\ older' = Touched(order, left, new)
              /\ cpc' = [cpc EXCEPT ![c] = "executing"]
              /\ on' = [on EXCEPT ![c] = new]
              /\ UNCHANGED answer
           \/ /\ e # None
              /\ ~SameRequest(e, x)
              /\ cpc' = [cpc EXCEPT ![c] = "answered"]
              /\ answer' = [answer EXCEPT ![c] = Conflict]
              /\ entry' = known /\ older' = order
              /\ UNCHANGED <<runs, on>>
           \/ /\ e # None
              /\ SameRequest(e, x)
              /\ entry' = known /\ older' = Touched(order, left, e)
              /\ on' = [on EXCEPT ![c] = e]
              /\ IF Completed(e)
                   THEN /\ cpc' = [cpc EXCEPT ![c] = "answered"]
                        /\ answer' = [answer EXCEPT ![c] = e]
                   ELSE cpc' = [cpc EXCEPT ![c] = "waiting"] /\ UNCHANGED answer
              /\ UNCHANGED runs
        /\ totalBytes' = BytesAfterExpiry
        /\ dropped' = dropped \cup ExpiredNow
  /\ stale' = stale \ ExpiredNow
  /\ asked' = [asked EXCEPT ![c] = x]
  /\ UNCHANGED expiries

\* Slip: the executing caller returns without storing its response.
Complete_Unstored(c, size) ==
  /\ cpc[c] = "executing"
  /\ answer' = [answer EXCEPT ![c] = on[c]]
  /\ cpc' = [cpc EXCEPT ![c] = "answered"]
  /\ UNCHANGED <<cacheVars, expiries, asked, on>>

\* execute() has returned: the second critical section stores the response,
\* wakes the waiters and evicts.
Complete(c, size) ==
  /\ cpc[c] = "executing"
  /\ LET e == on[c]
         sizeOf == [SizeNow EXCEPT ![e] = size]
         order == Touched(older, Cached, e)
         done == {x \in Cached : sizeOf[x] > 0}
         victims == Victims(done, order, sizeOf, totalBytes + size)
     IN /\ runs' = [runs EXCEPT ![e].size = size]
        /\ older' = Without(order, victims)
        /\ entry' = Forgetting(victims)
        /\ totalBytes' = Minus(totalBytes + size, Bytes(victims, sizeOf))
        /\ stale' = stale \ victims
        /\ dropped' = dropped \cup victims
        /\ answer' = [answer EXCEPT ![c] = e]
  /\ cpc' = [cpc EXCEPT ![c] = "answered"]
  /\ UNCHANGED <<expiries, asked, on>>

\* <-done: a waiter reads the response of the entry it found, even if that
\* entry has left the map meanwhile.
Wake(c) ==
  /\ cpc[c] = "waiting"
  /\ Completed(on[c])
  /\ answer' = [answer EXCEPT ![c] = on[c]]
  /\ cpc' = [cpc EXCEPT ![c] = "answered"]
  /\ UNCHANGED <<cacheVars, expiries, asked, on>>

\* Do has returned and the caller goes on with its next request.
Returned(c) ==
  /\ cpc[c] = "answered"
  /\ cpc' = [cpc EXCEPT ![c] = "idle"]
  /\ asked' = [asked EXCEPT ![c] = NoContent]
  /\ on' = [on EXCEPT ![c] = None]
  /\ answer' = [answer EXCEPT ![c] = None]

\* The time to live of a completed entry passes.
Expire(e) ==
  /\ expiries < MaxExpiries
  /\ e \in Cached \ stale
  /\ Completed(e)
  /\ stale' = stale \cup {e}
  /\ expiries' = expiries + 1
  /\ UNCHANGED <<entry, runs, older, totalBytes, dropped, callerVars>>

\* The bound on executions is reached and every request has been answered.
Exhausted ==
  /\ Len(runs) = MaxRuns
  /\ \A c \in Callers : cpc[c] = "idle"
  /\ UNCHANGED vars

Next ==
  \/ \E c \in Callers :
       \/ \E k \in Keys, x \in Contents : Lookup(c, k, x)
       \/ \E size \in Sizes : Complete(c, size)
       \/ Wake(c)
       \/ Returned(c) /\ UNCHANGED <<cacheVars, expiries>>
  \/ \E e \in DOMAIN runs : Expire(e)
  \/ Exhausted

Spec == Init /\ [][Next]_vars

-----------------------------------------------------------------------------
(* Properties.                                                             *)

\* Whoever waits for the execution of somebody else will be woken: it has
\* ended, or the connection that runs it is still at it, and its entry has
\* stayed in the map, where a retry finds it and eviction does not.
WaitersHaveExecutor ==
  \A c \in Callers :
    /\ cpc[c] = "executing" => entry[runs[on[c]].key] = on[c]
    /\ cpc[c] = "waiting" =>
         Completed(on[c]) \/ \E d \in Callers : cpc[d] = "executing" /\ on[d] = on[c]

\* Completed entries stay within both limits, and totalBytes, which the limit
\* is applied to, is what they add up to, although they come and go by
\* completion, expiry and eviction.
WithinLimits ==
  /\ totalBytes = Bytes(Cached, SizeNow)
  /\ totalBytes <= MaxBytes
  /\ Cardinality({e \in Cached : Completed(e)}) <= MaxEntries

\* A response that was just computed is not the one that eviction chooses,
\* unless it is too large on its own: a retry that is on its way finds it.
FreshResponseKept ==
  [][\A e \in DOMAIN runs :
       (~Completed(e) /\ Completed(e)' /\ runs'[e].size <= MaxBytes)
         => entry'[runs[e].key] = e]_vars
=============================================================================
