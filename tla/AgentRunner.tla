----------------------------- MODULE AgentRunner ------------------------------
(***************************************************************************)
(* conversationAgentRunner: one session of the agent per conversation.     *)
(*                                                                         *)
(* Start gives a message to the session of its conversation.  While the    *)
(* session runs, a message of the sender it runs for joins the session and *)
(* is seen at the next turn of the model; one of another sender, and every *)
(* one after it, waits in job.pending, and the session is asked to yield.  *)
(* runJob is the goroutine of a session that runs.  A session that is idle *)
(* for long, or in the way of a new one, is retired: its topic is closed   *)
(* on the server by two requests, between and after which messages come.   *)
(*                                                                         *)
(* All messages belong to the conversation they arrive in (eventKey = key) *)
(* and have a number; the first message of a topic the assistant creates   *)
(* and answers to choices differ in that only.                             *)
(***************************************************************************)
EXTENDS Naturals, Sequences, SequencesExt, FiniteSets

CONSTANTS
  Conversations, \* keys of the runner
  Topics,        \* those of them that are topics
  Senders,
  Sessions,      \* bound: conversationAgentJob objects, reused when forgotten
  Retirers,      \* bound: goroutines in retireJob
  MaxSessions,   \* runner.maxSessions (1000 in the code)
  MaxWatermarks, \* maxConversationSequenceWatermarks (10 000 in the code)
  MaxTurns,      \* agent.maxTurns
  MaxPosts,      \* bound: messages posted
  MaxRepeats,    \* bound: messages handed over a second time
  NoSession,
  NoSender

ASSUME RunnerAssumption ==
  /\ Conversations # {}
  /\ Topics \subseteq Conversations /\ NoSession \notin Sessions
  /\ MaxSessions \in Nat \ {0} /\ MaxWatermarks \in Nat \ {0} /\ MaxTurns \in Nat \ {0}
  /\ MaxPosts \in Nat /\ MaxRepeats \in Nat

VARIABLES
  \* the server
  posted,      \* posted[v]: the senders of the messages of v, in order
  archived,    \* topics that are closed
  \* the assistant's inbox
  events,      \* events on their way: [of, seq], seq = 0 for topic.closed
  repeats,     \* messages handed over twice so far
  \* the runner
  jobOf,       \* runner.jobs: the current session of v
  job,         \* job[s]: the fields of conversationAgentJob and its agent.Session
  lastSeenSeq, \* lastSeenSeq[v], 0 where there is none
  seqOrder,    \* lastSeenSeqOrder
  due,         \* due[s]: timer callbacks of s that have been started
  loop,        \* loop[s]: where runJob of s is
  retirer,     \* retirer[r]: where a goroutine of retireJob is
  \* history
  accepted     \* accepted[s]: numbers of the messages given to s, in order

arVars == <<posted, archived, events, repeats, jobOf, job, lastSeenSeq, seqOrder, due,
            loop, retirer, accepted>>
outside == <<posted, archived, repeats>>

-----------------------------------------------------------------------------
\* valid: its generation is job.retirementGeneration.
Free == [session |-> NoSession, valid |-> FALSE, at |-> "none", expected |-> 0]

\* heard: the messages the model was shown, or will be at its first turn;
\* news: those of them that the latest turn brought.
Blank == [key |-> CHOOSE v \in Conversations : TRUE,
          sender |-> NoSender, scope |-> NoSender,
          running |-> FALSE, retiring |-> "no", timer |-> "none", seen |-> 0, waiting |-> <<>>,
          queued |-> <<>>, yield |-> FALSE, turns |-> 0, heard |-> <<>>, news |-> {}, shown |-> FALSE]

Jobs == [key : Conversations, sender : Senders \cup {NoSender},
         scope : Senders \cup {NoSender}, running : BOOLEAN,
         retiring : {"no", "idle", "capacity"}, timer : {"none", "idle", "capacity"},
         seen : Nat, waiting : Seq(Nat), queued : Seq(Nat), yield : BOOLEAN,
         turns : 0..MaxTurns, heard : Seq(Nat), news : SUBSET Nat, shown : BOOLEAN]

ARTypeOK ==
  /\ posted \in [Conversations -> Seq(Senders)] /\ archived \subseteq Topics
  /\ events \in Seq([of : Conversations, seq : Nat]) /\ repeats \in 0..MaxRepeats
  /\ jobOf \in [Conversations -> Sessions \cup {NoSession}]
  /\ job \in [Sessions -> Jobs]
  /\ lastSeenSeq \in [Conversations -> Nat]
  /\ seqOrder \in Seq(Conversations) /\ Len(seqOrder) <= MaxWatermarks
  /\ due \in [Sessions -> {"none", "idle", "capacity"}]
  /\ loop \in [Sessions -> {"none", "turn", "model", "tools", "after"}]
  /\ retirer \in [Retirers ->
       [session : Sessions \cup {NoSession}, valid : BOOLEAN, expected : Nat,
        at : {"none", "get", "close", "closed", "failed"}]]
  /\ accepted \in [Sessions -> Seq(Nat)]

ARInit ==
  /\ posted = [v \in Conversations |-> <<>>] /\ archived = {}
  /\ events = <<>> /\ repeats = 0
  /\ jobOf = [v \in Conversations |-> NoSession]
  /\ job = [s \in Sessions |-> Blank]
  /\ lastSeenSeq = [v \in Conversations |-> 0] /\ seqOrder = <<>>
  /\ due = [s \in Sessions |-> "none"]
  /\ loop = [s \in Sessions |-> "none"]
  /\ retirer = [r \in Retirers |-> Free]
  /\ accepted = [s \in Sessions |-> <<>>]

-----------------------------------------------------------------------------
(* The conversations and what the inbox hands over, in the server's order. *)

Posts == {p \in Conversations \X (1..MaxPosts) : p[2] <= Len(posted[p[1]])}

Post(v, u) ==
  /\ v \notin archived /\ Cardinality(Posts) < MaxPosts
  /\ posted' = [posted EXCEPT ![v] = Append(@, u)]
  /\ events' = Append(events, [of |-> v, seq |-> Len(posted[v]) + 1])
  /\ UNCHANGED <<archived, repeats, jobOf, job, lastSeenSeq, seqOrder, due, loop,
                 retirer, accepted>>

\* A topic is closed by a user or, below, for the assistant.
Archived(v) ==
  /\ archived' = archived \cup {v}
  /\ events' = Append(events, [of |-> v, seq |-> 0])

UserCloses(v) ==
  /\ v \in Topics \ archived
  /\ Archived(v)
  /\ UNCHANGED <<posted, repeats, jobOf, job, lastSeenSeq, seqOrder, due, loop, retirer,
                 accepted>>

\* The runner is called again with the newest message of a conversation, when
\* nothing else is on its way: as in runner_test.go, and as an event without a
\* cursor, which the inbox does not recognise, would have it.
Repeat(v) ==
  /\ repeats < MaxRepeats /\ posted[v] # <<>> /\ events = <<>>
  /\ repeats' = repeats + 1
  /\ events' = Append(events, [of |-> v, seq |-> Len(posted[v])])
  /\ UNCHANGED <<posted, archived, jobOf, job, lastSeenSeq, seqOrder, due, loop, retirer,
                 accepted>>

-----------------------------------------------------------------------------
(* Start.                                                                  *)

Receives(v, n) == events # <<>> /\ Head(events) = [of |-> v, seq |-> n] /\ n > 0

Seen(v, n) == n <= lastSeenSeq[v] \/ (jobOf[v] # NoSession /\ n <= job[jobOf[v]].seen)

\* recordSequenceLocked, for a number that is larger than the one recorded.
RecordSequence(v, n) ==
  LET order == IF lastSeenSeq[v] = 0 THEN Append(seqOrder, v) ELSE seqOrder
      full  == Len(order) > MaxWatermarks
  IN  /\ seqOrder' = IF full THEN Tail(order) ELSE order
      /\ lastSeenSeq' = [w \in Conversations |->
           IF full /\ w = Head(order) THEN 0 ELSE IF w = v THEN n ELSE lastSeenSeq[w]]

\* retirementGeneration++
Superseded(s) ==
  [r \in Retirers |->
     IF retirer[r].session = s THEN [retirer[r] EXCEPT !.valid = FALSE] ELSE retirer[r]]

\* beginRetirementLocked, and go retireJob.
BeginRetirement(j, reason) == [j EXCEPT !.timer = "none", !.retiring = reason]

Idlers == {r \in Retirers : retirer[r] = Free}

Spawn(s) ==
  /\ Idlers # {}
  /\ retirer' = [Superseded(s) EXCEPT ![CHOOSE r \in Idlers : TRUE] =
       [session |-> s, valid |-> TRUE, at |-> "get", expected |-> 0]]

\* cancelRetirementLocked, where there is one, and the timer is stopped.
CancelRetirement(j) == [j EXCEPT !.timer = "none", !.retiring = "no"]

\* A number that was seen before: done.
DropSeen(v, n) ==
  /\ Receives(v, n) /\ Seen(v, n)
  /\ events' = Tail(events)
  /\ UNCHANGED <<outside, jobOf, job, lastSeenSeq, seqOrder, due, loop, retirer, accepted>>

\* Slip: who runs now is not made to wait behind others who do.
MustWait_OthersOnly(j, u) == j.running /\ j.sender # u

\* Only a session that runs makes a message wait: behind others that do, or
\* because it is another sender's.
MustWait(j, u) == j.running /\ (j.waiting # <<>> \/ j.sender # u)

\* The conversation has a session that is not being retired for capacity.
GiveToSession(v, n) ==
  LET s == jobOf[v]
      u == posted[v][n]
      j == CancelRetirement(job[s])
  IN  /\ Receives(v, n) /\ ~Seen(v, n)
      /\ s # NoSession /\ job[s].retiring # "capacity"
      /\ events' = Tail(events)
      /\ IF MustWait(j, u)
           THEN /\ job' = [job EXCEPT ![s] =
                     [j EXCEPT !.waiting = Append(@, n), !.yield = TRUE, !.seen = n]]
                /\ UNCHANGED loop
           ELSE /\ job' = [job EXCEPT ![s] =
                     [j EXCEPT !.queued = Append(@, n), !.sender = u, !.seen = n,
                               !.running = TRUE]]
                /\ loop' = IF j.running THEN loop ELSE [loop EXCEPT ![s] = "turn"]
      /\ accepted' = [accepted EXCEPT ![s] = Append(@, n)]
      /\ retirer' = Superseded(s)
      /\ RecordSequence(v, n)
      /\ UNCHANGED <<outside, jobOf, due>>

Current(s) == \E v \in Conversations : jobOf[v] = s

Active == {s \in Sessions : Current(s) /\ job[s].retiring = "no"}

\* Nothing runs and nothing waits: selectOldestIdleJobLocked takes one of these.
Unused(j) == ~j.running /\ j.queued = <<>> /\ j.waiting = <<>>

\* No goroutine and no timer knows the object any more.
Forgotten(s) ==
  /\ ~Current(s) /\ loop[s] = "none" /\ due[s] = "none"
  /\ \A r \in Retirers : retirer[r].session # s

\* A new session starts with its first message; if there are too many, it
\* takes the place of one that is idle.
CreateSession(v, n) ==
  LET unknown == {t \in Sessions : Forgotten(t)}
      s == CHOOSE t \in unknown : TRUE
      new == [Blank EXCEPT !.key = v, !.sender = posted[v][n], !.scope = posted[v][n],
                           !.running = TRUE, !.seen = n, !.heard = <<n>>, !.news = {n}]
  IN  /\ Receives(v, n) /\ ~Seen(v, n) /\ jobOf[v] = NoSession
      /\ unknown # {}
      /\ \/ /\ Cardinality(Active) < MaxSessions
            /\ job' = [job EXCEPT ![s] = new]
            /\ UNCHANGED retirer
         \/ /\ Cardinality(Active) >= MaxSessions
            /\ \E old \in {t \in Active : Unused(job[t])} :
                 /\ job' = [job EXCEPT ![s] = new, ![old] = BeginRetirement(@, "capacity")]
                 /\ Spawn(old)
      /\ events' = Tail(events)
      /\ jobOf' = [jobOf EXCEPT ![v] = s]
      /\ loop' = [loop EXCEPT ![s] = "turn"]
      /\ accepted' = [accepted EXCEPT ![s] = <<n>>]
      /\ RecordSequence(v, n)
      /\ UNCHANGED <<outside, due>>

\* rejectPreparedRun: the sender is told; if that fails the event stays.
Reject(v, n) ==
  /\ Receives(v, n) /\ ~Seen(v, n)
  /\ IF jobOf[v] # NoSession
       THEN job[jobOf[v]].retiring = "capacity"
       ELSE /\ Cardinality(Active) >= MaxSessions
            /\ \A t \in Active : ~Unused(job[t])
  /\ events' = Tail(events)
  /\ UNCHANGED <<outside, jobOf, job, lastSeenSeq, seqOrder, due, loop, retirer, accepted>>

\* The session of v, if there is one, is dropped and cancelled.  A goroutine
\* may still be at work for it; what it holds shows in nothing any more.
Drop(v) ==
  /\ jobOf' = [jobOf EXCEPT ![v] = NoSession]
  /\ job' = [s \in Sessions |->
       IF jobOf[v] = s THEN [Blank EXCEPT !.key = v] ELSE job[s]]
  /\ accepted' = [s \in Sessions |-> IF jobOf[v] = s THEN <<>> ELSE accepted[s]]

\* CloseConversationSession, for topic.closed.
CloseSession(v) ==
  /\ events # <<>> /\ Head(events) = [of |-> v, seq |-> 0]
  /\ events' = Tail(events)
  /\ Drop(v)
  /\ UNCHANGED <<outside, lastSeenSeq, seqOrder, due, loop, retirer>>

-----------------------------------------------------------------------------
(* runJob, and agent.Session.RunCycle within it.                           *)

runnerRest == <<outside, events, jobOf, lastSeenSeq, seqOrder, due, retirer, accepted>>

\* messagesForRequest takes what is queued and activates the scope of its last.
MessagesForRequest(j) ==
  IF j.queued = <<>> THEN j
  ELSE [j EXCEPT !.queued = <<>>, !.heard = @ \o j.queued, !.news = ToSet(j.queued),
                 !.scope = posted[j.key][Last(j.queued)]]

\* Before its first turn the loop sees whether the session is still the one of
\* its conversation.  Then shouldYieldWithoutPending and the limit of turns end
\* the cycle; else the model is asked.
BeginTurn(s) ==
  LET j == job[s]
      leaves == j.turns = 0 /\ ~(Current(s) /\ j.retiring = "no")
      stops  == j.turns = MaxTurns \/ (j.yield /\ j.queued = <<>>)
  IN  /\ loop[s] = "turn"
      /\ loop' = [loop EXCEPT ![s] =
           IF leaves THEN "none" ELSE IF stops THEN "after" ELSE "model"]
      /\ job' = IF leaves \/ stops THEN job ELSE [job EXCEPT ![s] =
           [MessagesForRequest(j) EXCEPT !.turns = @ + 1, !.shown = TRUE]]
      /\ UNCHANGED runnerRest

\* The model fails or answers with a text, with calls of tools, or neither.
ModelAnswers(s) ==
  /\ loop[s] = "model"
  /\ \E next \in {"after", "tools", "turn"} : loop' = [loop EXCEPT ![s] = next]
  /\ UNCHANGED <<job, runnerRest>>

\* The messages are too many for the model: they are compacted, together with
\* what came meanwhile, and the model is asked again.
ModelRefuses(s) ==
  /\ loop[s] = "model" /\ job[s].queued # <<>>
  /\ job' = [job EXCEPT ![s] = MessagesForRequest(@)]
  /\ UNCHANGED <<loop, runnerRest>>

\* callTools ends early when a message came; else the output may be final.
ToolsReturn(s) ==
  /\ loop[s] = "tools"
  /\ IF job[s].queued # <<>> THEN loop' = [loop EXCEPT ![s] = "turn"]
     ELSE IF job[s].yield THEN loop' = [loop EXCEPT ![s] = "after"]
     ELSE \E next \in {"after", "turn"} : loop' = [loop EXCEPT ![s] = next]
  /\ UNCHANGED <<job, runnerRest>>

\* Up to which place those who wait are of the sender of the first.
BatchEnd(j) ==
  LET same(i) == posted[j.key][j.waiting[i]] = posted[j.key][j.waiting[1]]
  IN  CHOOSE m \in DOMAIN j.waiting :
        (\A i \in 1..m : same(i)) /\ (m = Len(j.waiting) \/ ~same(m + 1))

TakeBatch(j) ==
  LET batch == SubSeq(j.waiting, 1, BatchEnd(j))
      rest  == SubSeq(j.waiting, BatchEnd(j) + 1, Len(j.waiting))
  IN  [j EXCEPT !.waiting = rest, !.queued = @ \o batch, !.yield = rest # <<>>,
                !.sender = posted[j.key][j.waiting[1]]]

\* The cycle is over: go on with what is queued or with the next batch, else
\* stop and start the timer.
AfterCycle(s) ==
  LET j == [job[s] EXCEPT !.turns = 0, !.news = {}]
  IN  /\ loop[s] = "after"
      /\ \/ /\ ~Current(s)
            /\ loop' = [loop EXCEPT ![s] = "none"]
            /\ job' = [job EXCEPT ![s] = j]
         \/ /\ Current(s) /\ j.queued # <<>>
            /\ loop' = [loop EXCEPT ![s] = "turn"]
            /\ job' = [job EXCEPT ![s] = j]
         \/ /\ Current(s) /\ j.queued = <<>> /\ j.waiting # <<>>
            /\ loop' = [loop EXCEPT ![s] = "turn"]
            /\ job' = [job EXCEPT ![s] = TakeBatch(j)]
         \/ /\ Current(s) /\ Unused([j EXCEPT !.running = FALSE])
            /\ loop' = [loop EXCEPT ![s] = "none"]
            /\ job' = [job EXCEPT ![s] = [j EXCEPT !.running = FALSE, !.timer = "idle"]]
      /\ UNCHANGED runnerRest

-----------------------------------------------------------------------------
(* Retirement.                                                             *)

\* A timer of a session starts its callback, which then waits for the mutex.
TimerFires(s) ==
  /\ job[s].timer # "none" /\ due[s] = "none"
  /\ due' = [due EXCEPT ![s] = job[s].timer]
  /\ job' = [job EXCEPT ![s].timer = "none"]
  /\ UNCHANGED <<outside, events, jobOf, lastSeenSeq, seqOrder, loop, retirer, accepted>>

\* The conditions of retireIdleJob and of retryCapacityRetirement.
MayRetire(s) ==
  /\ Current(s)
  /\ IF due[s] = "idle" THEN job[s].retiring = "no" /\ Unused(job[s])
     ELSE job[s].retiring = "capacity"

\* retireIdleJob or retryCapacityRetirement
TimerRuns(s) ==
  /\ due[s] # "none"
  /\ due' = [due EXCEPT ![s] = "none"]
  /\ IF MayRetire(s)
       THEN job' = [job EXCEPT ![s] = BeginRetirement(@, due[s])] /\ Spawn(s)
       ELSE UNCHANGED <<job, retirer>>
  /\ UNCHANGED <<outside, events, jobOf, lastSeenSeq, seqOrder, loop, accepted>>

\* The retirement was not cancelled and not begun again.
Valid(q) ==
  /\ Current(q.session) /\ job[q.session].retiring # "no"
  /\ q.valid

At(r, place) == retirer' = [retirer EXCEPT ![r].at = place, ![r].expected = 0]

retireRest == <<jobOf, job, lastSeenSeq, seqOrder, due, loop, accepted>>

\* The first half of retireJob with conversation.topic.get; a conversation that
\* is no topic needs no request.
RetireJob(r) ==
  LET q == retirer[r]
      v == job[q.session].key
  IN  /\ q.at = "get"
      /\ \/ ~Valid(q) /\ retirer' = [retirer EXCEPT ![r] = Free]
         \/ Valid(q) /\ (v \notin Topics \/ v \in archived) /\ At(r, "closed")
         \/ /\ Valid(q) /\ v \in Topics \ archived
            /\ retirer' = [retirer EXCEPT ![r].at = "close",
                                          ![r].expected = Len(posted[v])]
         \/ Valid(q) /\ v \in Topics /\ At(r, "failed")
      /\ UNCHANGED <<outside, events, retireRest>>

\* conversation.topic.close with expected_last_message_seq; the response may
\* be lost, in time or because the retirement was cancelled.
CloseTopic(r) ==
  LET q == retirer[r]
      v == job[q.session].key
  IN  /\ q.at = "close"
      /\ \/ /\ v \in archived \/ Len(posted[v]) = q.expected
            /\ At(r, "closed") \/ At(r, "failed")
            /\ IF v \in archived THEN UNCHANGED <<archived, events>> ELSE Archived(v)
         \/ /\ At(r, "failed")
            /\ UNCHANGED <<archived, events>>
      /\ UNCHANGED <<posted, repeats, retireRest>>

\* The end of retireJob.
Retired(r) ==
  LET q == retirer[r]
      s == q.session
      j == job[s]
  IN  /\ q.at \in {"closed", "failed"}
      /\ retirer' = [retirer EXCEPT ![r] = Free]
      /\ \/ /\ ~Valid(q)
            /\ UNCHANGED <<jobOf, job, accepted>>
         \/ /\ Valid(q) /\ q.at = "closed"
            /\ Drop(j.key)
         \/ /\ Valid(q) /\ q.at = "failed"
            /\ job' = [job EXCEPT ![s] =
                 IF j.retiring = "idle" THEN [j EXCEPT !.retiring = "no", !.timer = "idle"]
                 ELSE [j EXCEPT !.timer = "capacity"]]
            /\ UNCHANGED <<jobOf, accepted>>
      /\ UNCHANGED <<outside, events, lastSeenSeq, seqOrder, due, loop>>

-----------------------------------------------------------------------------
\* Everything was posted and handled, and every session has been retired.
AllRetired ==
  /\ Cardinality(Posts) = MaxPosts /\ repeats = MaxRepeats /\ Topics \subseteq archived
  /\ events = <<>> /\ \A v \in Conversations : jobOf[v] = NoSession
  /\ \A s \in Sessions : Forgotten(s)
  /\ UNCHANGED arVars

ARNext ==
  \/ \E v \in Conversations :
       \/ \E u \in Senders : Post(v, u)
       \/ UserCloses(v) \/ Repeat(v) \/ CloseSession(v)
       \/ \E n \in 1..MaxPosts :
            DropSeen(v, n) \/ GiveToSession(v, n) \/ CreateSession(v, n) \/ Reject(v, n)
  \/ \E s \in Sessions :
       \/ BeginTurn(s) \/ ModelAnswers(s) \/ ModelRefuses(s) \/ ToolsReturn(s)
       \/ AfterCycle(s)
       \/ TimerFires(s) \/ TimerRuns(s)
  \/ \E r \in Retirers : RetireJob(r) \/ CloseTopic(r) \/ Retired(r)
  \/ AllRetired

ARSpec == ARInit /\ [][ARNext]_arVars

-----------------------------------------------------------------------------
(* What a session was given is, in the order it was given, what the model  *)
(* has seen, then what joins its next turn, then what waits.               *)
NoneMissing(s) ==
  /\ job[s].heard \o job[s].queued \o job[s].waiting = accepted[s]
  /\ \A i, k \in DOMAIN accepted[s] : i < k => accepted[s][i] < accepted[s][k]

(* While the model and its tools work, the authorization in force is that  *)
(* of the sender of every message the turn brought.                        *)
OneSender(s) ==
  loop[s] \in {"model", "tools"} =>
    \A n \in job[s].news : posted[job[s].key][n] = job[s].scope

(* A session with something to do is not being retired, and has a goroutine *)
(* that will do it.                                                        *)
Attended(s) ==
  ~job[s].shown \/ job[s].queued # <<>> \/ job[s].waiting # <<>> =>
    job[s].running /\ job[s].retiring = "no" /\ loop[s] # "none"

(* No message is dropped or overtaken within a session, none is handled    *)
(* under the authorization of somebody else, and none is left behind by a  *)
(* session that stops, is retired or makes room.                           *)
InTurn ==
  \A v \in Conversations :
    LET s == jobOf[v] IN s # NoSession => NoneMissing(s) /\ OneSender(s) /\ Attended(s)
=============================================================================
