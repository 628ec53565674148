-------------------------- MODULE AgentRunnerProofs ---------------------------
(***************************************************************************)
(* InTurn of AgentRunner, for every set of conversations, senders,         *)
(* sessions and goroutines and every value of the bounds.                  *)
(*                                                                         *)
(* Four parts make it inductive.  Events name messages that exist          *)
(* (EventsInv).  Only the current session of a conversation has messages   *)
(* to handle (JobsInv): a goroutine that still runs for one that was       *)
(* dropped shows nothing.  Goroutines that retire a session are of one     *)
(* (RetirersInv).  And of each current session (SessionInv): what it was   *)
(* given ascends up to job.seen; what is queued is of one sender, the one  *)
(* the session runs for, while others wait; and it runs, unretired, as     *)
(* long as its goroutine does, which leaves only with nothing to do.       *)
(***************************************************************************)
EXTENDS AgentRunner, SequenceTheorems, WellFoundedInduction, TLAPS

(* Events on their way name messages that were posted.                     *)
EventsInv ==
  /\ posted \in [Conversations -> Seq(Senders)]
  /\ events \in Seq([of : Conversations, seq : Nat])
  /\ \A i \in DOMAIN events : events[i].seq <= Len(posted[events[i].of])

(* Only the session of a conversation has messages to handle.              *)
JobsInv ==
  /\ jobOf \in [Conversations -> Sessions \cup {NoSession}]
  /\ job \in [Sessions -> Jobs]
  /\ loop \in [Sessions -> {"none", "turn", "model", "tools", "after"}]
  /\ accepted \in [Sessions -> Seq(Nat)]
  /\ \A s \in Sessions : ~Current(s) => job[s].queued = <<>> /\ job[s].waiting = <<>>

Retirements == [session : Sessions \cup {NoSession}, valid : BOOLEAN, expected : Nat,
                at : {"none", "get", "close", "closed", "failed"}]

RetirersInv ==
  /\ retirer \in [Retirers -> Retirements]
  /\ \A r \in Retirers : retirer[r].at # "none" => retirer[r].session \in Sessions
  /\ due \in [Sessions -> {"none", "idle", "capacity"}]

(* The messages of a session were posted, in ascending order.              *)
AcceptedInv(s, v) ==
  /\ NoneMissing(s)
  /\ \A i \in DOMAIN accepted[s] :
       accepted[s][i] \in 1..Len(posted[v]) /\ accepted[s][i] <= job[s].seen

(* What the latest turn brought is of the sender in force, and what the    *)
(* next one brings is of the sender the session runs for.                  *)
SendersInv(s, v) ==
  /\ \A n \in job[s].news : n \in 1..Len(posted[v]) /\ posted[v][n] = job[s].scope
  /\ \A i \in DOMAIN job[s].queued :
       /\ job[s].queued[i] \in 1..Len(posted[v])
       /\ posted[v][job[s].queued[i]] = job[s].sender
  /\ \A i \in DOMAIN job[s].waiting : job[s].waiting[i] \in 1..Len(posted[v])

(* A session runs as long as its goroutine does and is not retired then;   *)
(* it stops with nothing to do, and yields to somebody only.               *)
BusyInv(s) ==
  /\ job[s].running <=> loop[s] # "none"
  /\ job[s].running => job[s].retiring = "no"
  /\ ~job[s].running => job[s].shown /\ job[s].queued = <<>> /\ job[s].waiting = <<>>
  /\ job[s].yield => job[s].waiting # <<>>
  /\ ~job[s].shown => \/ loop[s] = "turn" /\ job[s].turns = 0
                      \/ loop[s] = "after" /\ job[s].waiting # <<>>

SessionInv(s, v) ==
  /\ job[s].key = v
  /\ AcceptedInv(s, v) /\ SendersInv(s, v) /\ BusyInv(s)

SessionsInv ==
  \A v \in Conversations, s \in Sessions : jobOf[v] = s => SessionInv(s, v)

TurnsInv == EventsInv /\ JobsInv /\ RetirersInv /\ SessionsInv

-----------------------------------------------------------------------------
(* Sequences.                                                              *)

(* A message that waits is the last of what the session was given.        *)
LEMMA AppendWaiting ==
  ASSUME NEW h \in Seq(Nat), NEW q \in Seq(Nat), NEW w \in Seq(Nat), NEW n \in Nat
  PROVE  h \o q \o Append(w, n) = Append(h \o q \o w, n)
  OBVIOUS

(* So is one that joins the next turn, when nobody waits.                 *)
LEMMA AppendQueued ==
  ASSUME NEW h \in Seq(Nat), NEW q \in Seq(Nat), NEW n \in Nat
  PROVE  h \o Append(q, n) \o <<>> = Append(h \o q \o <<>>, n)
  OBVIOUS

(* Three sequences join in either order.                                  *)
LEMMA JoinsAssociate ==
  ASSUME NEW a \in Seq(Nat), NEW b \in Seq(Nat), NEW c \in Seq(Nat)
  PROVE  (a \o b) \o c = a \o (b \o c)
  OBVIOUS

(* What is queued stands between what was heard and what waits.           *)
LEMMA QueuedIsHeard ==
  ASSUME NEW h \in Seq(Nat), NEW q \in Seq(Nat), NEW w \in Seq(Nat)
  PROVE  (h \o q) \o <<>> \o w = h \o q \o w
  OBVIOUS

(* A batch of those who wait moves on without a change of order.          *)
LEMMA WaitingIsQueued ==
  ASSUME NEW h \in Seq(Nat), NEW w \in Seq(Nat), NEW m \in DOMAIN w
  PROVE  h \o (<<>> \o SubSeq(w, 1, m)) \o SubSeq(w, m + 1, Len(w)) = h \o <<>> \o w
<1>1. m \in 1..Len(w) /\ Len(w) \in Nat
  OBVIOUS
<1>2. SubSeq(w, 1, m) \in Seq(Nat) /\ SubSeq(w, m + 1, Len(w)) \in Seq(Nat)
  BY <1>1, SubSeqProperties
<1>3. SubSeq(w, 1, m) \o SubSeq(w, m + 1, Len(w)) = w
  <2>1. SubSeq(w, 1, m) \o SubSeq(w, m + 1, Len(w)) = SubSeq(w, 1, Len(w))
    <3>1. 1 \in 1..(Len(w) + 1) /\ m \in (1 - 1)..Len(w) /\ Len(w) \in m..Len(w)
      BY <1>1
    <3> QED BY <3>1, ConcatAdjacentSubSeq
  <2> QED BY <2>1, SubSeqFull
<1>4. ASSUME NEW a \in Seq(Nat), NEW b \in Seq(Nat)
      PROVE  h \o (<<>> \o a) \o b = h \o <<>> \o (a \o b)
  <2>1. <<>> \o a = a /\ h \o <<>> = h
    BY ConcatEmptySeq
  <2>2. (h \o a) \o b = h \o (a \o b)
    BY JoinsAssociate
  <2> QED BY <2>1, <2>2
<1>5. h \o (<<>> \o SubSeq(w, 1, m)) \o SubSeq(w, m + 1, Len(w))
        = h \o <<>> \o (SubSeq(w, 1, m) \o SubSeq(w, m + 1, Len(w)))
  BY <1>2, <1>4
<1> QED BY <1>3, <1>5

(* What Append adds to a sequence of numbers.                             *)
LEMMA Appended ==
  ASSUME NEW q \in Seq(Nat), NEW n \in Nat
  PROVE  /\ Append(q, n) \in Seq(Nat) /\ Append(q, n) # <<>>
         /\ \A i \in DOMAIN Append(q, n) :
              Append(q, n)[i] = n \/ (i \in DOMAIN q /\ Append(q, n)[i] = q[i])
  OBVIOUS

(* A larger number keeps a sequence ascending.                            *)
LEMMA AppendAscends ==
  ASSUME NEW a \in Seq(Nat), NEW n \in Nat, \A i \in DOMAIN a : a[i] < n,
         \A i, k \in DOMAIN a : i < k => a[i] < a[k]
  PROVE  \A i, k \in DOMAIN Append(a, n) : i < k => Append(a, n)[i] < Append(a, n)[k]
  OBVIOUS

-----------------------------------------------------------------------------
(* Steps that leave a session alone.                                       *)

(* Messages that are posted do not change what is true of a session.      *)
LEMMA SessionKept ==
  ASSUME EventsInv, NEW v \in Conversations, NEW s \in Sessions, SessionInv(s, v),
         job'[s] = job[s], loop'[s] = loop[s], accepted'[s] = accepted[s],
         Len(posted'[v]) \in Nat, Len(posted[v]) <= Len(posted'[v]),
         \A n \in 1..Len(posted[v]) : posted'[v][n] = posted[v][n]
  PROVE  SessionInv(s, v)'
<1>0. Len(posted[v]) \in Nat
  BY DEF EventsInv
<1>1. AcceptedInv(s, v)'
  <2>1. 1..Len(posted[v]) \subseteq 1..Len(posted'[v])
    BY <1>0
  <2> QED BY <2>1 DEF SessionInv, AcceptedInv, NoneMissing
<1>2. SendersInv(s, v)'
  <2>1. \A n \in 1..Len(posted[v]) : n \in 1..Len(posted'[v]) /\ posted'[v][n] = posted[v][n]
    BY <1>0
  <2>2. SendersInv(s, v)
    BY DEF SessionInv
  <2> DEFINE k == job[s]
             P == posted[v]
             Q == posted'[v]
  <2>3. /\ \A n \in k.news : n \in 1..Len(P) /\ P[n] = k.scope
        /\ \A i \in DOMAIN k.queued : k.queued[i] \in 1..Len(P) /\ P[k.queued[i]] = k.sender
        /\ \A i \in DOMAIN k.waiting : k.waiting[i] \in 1..Len(P)
    BY <2>2 DEF SendersInv
  <2>4. \A n \in 1..Len(P) : n \in 1..Len(Q) /\ Q[n] = P[n]
    BY <2>1
  <2>5. job'[s] = k
    OBVIOUS
  <2> HIDE DEF k, P, Q
  <2>6. /\ \A n \in k.news : n \in 1..Len(Q) /\ Q[n] = k.scope
        /\ \A i \in DOMAIN k.queued : k.queued[i] \in 1..Len(Q) /\ Q[k.queued[i]] = k.sender
        /\ \A i \in DOMAIN k.waiting : k.waiting[i] \in 1..Len(Q)
    BY <2>3, <2>4, Zenon
  <2> QED BY <2>5, <2>6, Zenon DEF SendersInv, k, Q
<1>3. BusyInv(s)'
  BY DEF SessionInv, BusyInv
<1> QED BY <1>1, <1>2, <1>3 DEF SessionInv

(* A step of one session leaves the others as they are.                   *)
LEMMA OthersKept ==
  ASSUME EventsInv, SessionsInv, NEW t \in Sessions, UNCHANGED <<posted, jobOf>>,
         \A s \in Sessions \ {t} :
            job'[s] = job[s] /\ loop'[s] = loop[s] /\ accepted'[s] = accepted[s],
         \A v \in Conversations : jobOf[v] = t => SessionInv(t, v)'
  PROVE  SessionsInv'
<1> SUFFICES ASSUME NEW v \in Conversations, NEW s \in Sessions, jobOf'[v] = s
             PROVE  SessionInv(s, v)'
  BY DEF SessionsInv
<1>1. CASE s = t
  BY <1>1
<1>2. CASE s # t
  <2>1. SessionInv(s, v)
    BY DEF SessionsInv
  <2>2. Len(posted'[v]) \in Nat /\ Len(posted[v]) <= Len(posted'[v])
        /\ \A n \in 1..Len(posted[v]) : posted'[v][n] = posted[v][n]
    BY DEF EventsInv
  <2> QED BY <1>2, <2>1, <2>2, SessionKept
<1> QED BY <1>1, <1>2

(* A step that touches no session.                                        *)
LEMMA AllKept ==
  ASSUME EventsInv, SessionsInv, UNCHANGED <<posted, jobOf, job, loop, accepted>>
  PROVE  SessionsInv'
<1> SUFFICES ASSUME NEW v \in Conversations, NEW s \in Sessions, jobOf'[v] = s
             PROVE  SessionInv(s, v)'
  BY DEF SessionsInv
<1>1. SessionInv(s, v)
  BY DEF SessionsInv
<1>2. Len(posted'[v]) \in Nat /\ Len(posted[v]) <= Len(posted'[v])
      /\ \A n \in 1..Len(posted[v]) : posted'[v][n] = posted[v][n]
  BY DEF EventsInv
<1> QED BY <1>1, <1>2, SessionKept

(* A session belongs to one conversation.                                  *)
LEMMA OneKey ==
  ASSUME SessionsInv, NEW v \in Conversations, NEW w \in Conversations,
         NEW s \in Sessions, jobOf[v] = s, jobOf[w] = s
  PROVE  v = w
  BY DEF SessionsInv, SessionInv

(* A current session obeys BusyInv, whatever its conversation.            *)
LEMMA CurrentIsBusy ==
  ASSUME SessionsInv, NEW s \in Sessions, Current(s)
  PROVE  BusyInv(s)
<1>1. PICK v \in Conversations : jobOf[v] = s
  BY DEF Current
<1> QED BY <1>1 DEF SessionsInv, SessionInv

-----------------------------------------------------------------------------
(* The server and the inbox.                                               *)

(* An event names a message that was posted.                              *)
LEMMA EventAppended ==
  ASSUME EventsInv, posted' = posted, NEW v \in Conversations, NEW n \in 0..Len(posted[v]),
         events' = Append(events, [of |-> v, seq |-> n])
  PROVE  EventsInv'
<1>1. n \in Nat /\ n <= Len(posted[v])
  BY DEF EventsInv
<1>2. events' \in Seq([of : Conversations, seq : Nat])
  BY <1>1 DEF EventsInv
<1>3. \A i \in DOMAIN events' : events'[i].seq <= Len(posted[events'[i].of])
  BY <1>1 DEF EventsInv
<1> QED BY <1>2, <1>3 DEF EventsInv

(* Taking the first event keeps the others.                               *)
LEMMA EventTaken ==
  ASSUME EventsInv, posted' = posted, events # <<>>, events' = Tail(events)
  PROVE  EventsInv'
<1>1. /\ events' \in Seq([of : Conversations, seq : Nat])
      /\ \A i \in DOMAIN events' : i + 1 \in DOMAIN events /\ events'[i] = events[i + 1]
  BY DEF EventsInv
<1> QED BY <1>1 DEF EventsInv

(* JobsInv depends on the sessions and their jobs only.                   *)
LEMMA JobsKept ==
  ASSUME JobsInv, UNCHANGED <<jobOf, job, loop, accepted>>
  PROVE  JobsInv'
  BY DEF JobsInv, Current

(* Post: the new message is beyond all that were given to a session.      *)
LEMMA PostStep ==
  ASSUME TurnsInv, NEW v \in Conversations, NEW u \in Senders, Post(v, u)
  PROVE  TurnsInv'
<1>1. /\ \A w \in Conversations : posted[w] \in Seq(Senders) /\ Len(posted[w]) \in Nat
      /\ posted' \in [Conversations -> Seq(Senders)]
      /\ \A w \in Conversations : posted'[w] = IF w = v THEN Append(posted[w], u) ELSE posted[w]
  BY DEF TurnsInv, EventsInv, Post
<1>2. ASSUME NEW w \in Conversations
      PROVE  /\ Len(posted'[w]) \in Nat /\ Len(posted[w]) <= Len(posted'[w])
             /\ \A n \in 1..Len(posted[w]) : posted'[w][n] = posted[w][n]
  <2>1. CASE w = v
    <3>1. posted'[w] = Append(posted[w], u)
      BY <1>1, <2>1
    <3>2. /\ Len(posted'[w]) = Len(posted[w]) + 1
          /\ \A n \in 1..Len(posted[w]) : posted'[w][n] = posted[w][n]
      BY <1>1, <3>1, AppendProperties
    <3> QED BY <1>1, <3>2
  <2>2. CASE w # v
    BY <1>1, <2>2
  <2> QED BY <2>1, <2>2
<1>3. EventsInv'
  <2>1. Len(posted[v]) + 1 \in Nat /\ Len(posted'[v]) = Len(posted[v]) + 1
    BY <1>1
  <2> DEFINE e == [of |-> v, seq |-> Len(posted[v]) + 1]
  <2>2. e \in [of : Conversations, seq : Nat] /\ e.of = v /\ e.seq = Len(posted[v]) + 1
    BY <2>1
  <2>3. events' = Append(events, e) /\ events \in Seq([of : Conversations, seq : Nat])
    BY DEF TurnsInv, EventsInv, Post
  <2> HIDE DEF e
  <2>4. events' \in Seq([of : Conversations, seq : Nat])
    BY <2>2, <2>3
  <2>5. ASSUME NEW i \in DOMAIN events' PROVE events'[i].seq <= Len(posted'[events'[i].of])
    <3>1. CASE i \in DOMAIN events
      <4>1. events'[i] = events[i]
        BY <2>2, <2>3, <3>1
      <4>2. /\ events[i].of \in Conversations /\ events[i].seq \in Nat
            /\ events[i].seq <= Len(posted[events[i].of])
        <5>1. events[i] \in [of : Conversations, seq : Nat]
          <6>1. i \in 1..Len(events)
            BY <2>3, <3>1
          <6> QED BY <2>3, <6>1, ElementOfSeq
        <5> QED BY <3>1, <5>1 DEF TurnsInv, EventsInv
      <4> QED BY <1>1, <1>2, <4>1, <4>2
    <3>2. CASE i \notin DOMAIN events
      <4>1. Len(events') = Len(events) + 1 /\ events'[Len(events) + 1] = e
        BY <2>2, <2>3, AppendProperties
      <4>2. DOMAIN events' = 1..Len(events') /\ DOMAIN events = 1..Len(events)
            /\ Len(events) \in Nat
        BY <2>3, <2>4
      <4>3. i = Len(events) + 1
        BY <3>2, <4>1, <4>2
      <4> QED BY <2>1, <2>2, <4>1, <4>3
    <3> QED BY <3>1, <3>2
  <2> QED BY <1>1, <2>4, <2>5 DEF EventsInv
<1>4. JobsInv' /\ RetirersInv'
  BY JobsKept DEF TurnsInv, RetirersInv, Post
<1>5. SessionsInv'
  BY <1>2, SessionKept DEF SessionsInv, TurnsInv, Post
<1> QED BY <1>3, <1>4, <1>5 DEF TurnsInv

(* UserCloses, Repeat, DropSeen, Reject: only events change.              *)
LEMMA EventStep ==
  ASSUME TurnsInv, NEW v \in Conversations,
         \/ UserCloses(v) \/ Repeat(v)
         \/ \E n \in 1..MaxPosts : DropSeen(v, n) \/ Reject(v, n)
  PROVE  TurnsInv'
<1>1. UNCHANGED <<posted, jobOf, job, loop, accepted, retirer, due>>
  BY DEF UserCloses, Repeat, DropSeen, Reject, outside
<1>2. EventsInv'
  <2>1. CASE UserCloses(v)
    <3>1. 0 \in 0..Len(posted[v])
      BY DEF TurnsInv, EventsInv
    <3> QED BY <1>1, <2>1, <3>1, EventAppended DEF TurnsInv, UserCloses, Archived
  <2>2. CASE Repeat(v)
    <3>1. Len(posted[v]) \in 0..Len(posted[v])
      BY DEF TurnsInv, EventsInv
    <3> QED BY <1>1, <2>2, <3>1, EventAppended DEF TurnsInv, Repeat
  <2>3. CASE \E n \in 1..MaxPosts : DropSeen(v, n) \/ Reject(v, n)
    BY <1>1, <2>3, EventTaken DEF TurnsInv, DropSeen, Reject, Receives
  <2> QED BY <2>1, <2>2, <2>3
<1> QED BY <1>1, <1>2, JobsKept, AllKept DEF TurnsInv, RetirersInv

-----------------------------------------------------------------------------
(* A session that is dropped.                                              *)

(* A session that was dropped has nothing to do.                          *)
LEMMA BlankIsJob == Blank \in Jobs /\ Blank.queued = <<>> /\ Blank.waiting = <<>>
<1>1. /\ (CHOOSE v \in Conversations : TRUE) \in Conversations
      /\ MaxTurns \in Nat
  BY RunnerAssumption
<1> QED BY <1>1 DEF Blank, Jobs

(* Drop: the session is of no conversation any more.                      *)
LEMMA DropStep ==
  ASSUME EventsInv, JobsInv, SessionsInv, NEW v \in Conversations, Drop(v),
         UNCHANGED <<posted, loop>>
  PROVE  JobsInv' /\ SessionsInv'
<1>1. /\ jobOf' = [jobOf EXCEPT ![v] = NoSession]
      /\ \A s \in Sessions : job'[s] = IF jobOf[v] = s THEN [Blank EXCEPT !.key = v] ELSE job[s]
      /\ \A s \in Sessions : accepted'[s] = IF jobOf[v] = s THEN <<>> ELSE accepted[s]
  BY DEF Drop
<1>2. [Blank EXCEPT !.key = v] \in Jobs
      /\ [Blank EXCEPT !.key = v].queued = <<>> /\ [Blank EXCEPT !.key = v].waiting = <<>>
  BY BlankIsJob DEF Jobs
<1>3. JobsInv'
  <2>1. job' \in [Sessions -> Jobs] /\ accepted' \in [Sessions -> Seq(Nat)]
    BY <1>2 DEF JobsInv, Drop
  <2>2. ASSUME NEW s \in Sessions, ~Current(s)'
        PROVE  job'[s].queued = <<>> /\ job'[s].waiting = <<>>
    <3>1. CASE jobOf[v] = s
      BY <1>1, <1>2, <3>1
    <3>2. CASE jobOf[v] # s
      <4>1. ~Current(s)
        BY <1>1, <2>2, <3>2 DEF Current, JobsInv
      <4> QED BY <1>1, <3>2, <4>1 DEF JobsInv
    <3> QED BY <3>1, <3>2
  <2> QED BY <1>1, <2>1, <2>2 DEF JobsInv
<1>4. SessionsInv'
  <2> SUFFICES ASSUME NEW w \in Conversations, NEW s \in Sessions, jobOf'[w] = s
               PROVE  SessionInv(s, w)'
    BY DEF SessionsInv
  <2>1. w # v /\ jobOf[w] = s
    BY <1>1, RunnerAssumption DEF JobsInv
  <2>2. jobOf[v] # s
    BY <2>1, OneKey
  <2>3. SessionInv(s, w)
    BY <2>1 DEF SessionsInv
  <2>4. job'[s] = job[s] /\ accepted'[s] = accepted[s] /\ loop'[s] = loop[s]
    BY <1>1, <2>2
  <2>5. Len(posted'[w]) \in Nat /\ Len(posted[w]) <= Len(posted'[w])
        /\ \A n \in 1..Len(posted[w]) : posted'[w][n] = posted[w][n]
    BY DEF EventsInv
  <2> QED BY <2>3, <2>4, <2>5, SessionKept
<1> QED BY <1>3, <1>4

(* CloseSession: topic.closed drops the session.                          *)
LEMMA CloseSessionStep ==
  ASSUME TurnsInv, NEW v \in Conversations, CloseSession(v)
  PROVE  TurnsInv'
<1>1. EventsInv'
  BY EventTaken DEF TurnsInv, CloseSession, outside
<1>2. JobsInv' /\ SessionsInv'
  BY DropStep DEF TurnsInv, CloseSession, outside
<1> QED BY <1>1, <1>2 DEF TurnsInv, RetirersInv, CloseSession

-----------------------------------------------------------------------------
(* Retirement.                                                             *)

(* A goroutine that retires a session goes on to its end.                 *)
LEMMA AtStep ==
  ASSUME RetirersInv, due' = due, NEW r \in Retirers, retirer[r].session \in Sessions,
         At(r, "closed") \/ At(r, "failed")
  PROVE  RetirersInv'
<1>1. PICK place \in {"closed", "failed"} : At(r, place)
  OBVIOUS
<1>2. retirer'[r] = [retirer[r] EXCEPT !.at = place, !.expected = 0]
  BY <1>1 DEF RetirersInv, At
<1>3. retirer'[r].session = retirer[r].session
      /\ retirer'[r] \in Retirements
  <2>1. retirer[r] \in Retirements
    BY DEF RetirersInv
  <2>2. retirer'[r] = [session |-> retirer[r].session, valid |-> retirer[r].valid,
                       expected |-> 0, at |-> place]
    BY <1>2, <2>1 DEF Retirements
  <2> QED BY <2>1, <2>2 DEF Retirements
<1>4. \A q \in Retirers \ {r} : retirer'[q] = retirer[q]
  BY <1>1 DEF RetirersInv, At
<1>5. retirer' \in [Retirers -> Retirements]
  BY <1>1, <1>3, <1>4 DEF RetirersInv, At
<1> QED BY <1>3, <1>4, <1>5 DEF RetirersInv

LEMMA ClosingFields ==
  ASSUME NEW q \in Retirements, NEW l \in Nat
  PROVE  LET p == [q EXCEPT !.at = "close", !.expected = l]
         IN  p \in Retirements /\ p.session = q.session
BY DEF Retirements

(* A goroutine that retires a session has read the last number.            *)
LEMMA ReadStep ==
  ASSUME RetirersInv, due' = due, NEW r \in Retirers, retirer[r].session \in Sessions,
         NEW l \in Nat, retirer' = [retirer EXCEPT ![r].at = "close", ![r].expected = l]
  PROVE  RetirersInv'
<1>1. retirer[r] \in Retirements
  BY DEF RetirersInv
<1>2. retirer'[r] = [retirer[r] EXCEPT !.at = "close", !.expected = l]
  BY DEF RetirersInv
<1>3. retirer'[r].session = retirer[r].session
      /\ retirer'[r] \in Retirements
  BY <1>1, <1>2, ClosingFields
<1>4. \A q \in Retirers \ {r} : retirer'[q] = retirer[q]
  BY DEF RetirersInv
<1>5. retirer' \in [Retirers -> Retirements]
  BY <1>3, <1>4 DEF RetirersInv
<1> QED BY <1>3, <1>4, <1>5 DEF RetirersInv

(* RetireJob: only the goroutine's place changes.                         *)
LEMMA RetireJobStep ==
  ASSUME TurnsInv, NEW r \in Retirers, RetireJob(r)
  PROVE  TurnsInv'
<1>1. UNCHANGED <<posted, events, jobOf, job, loop, accepted, due>>
  BY DEF RetireJob, outside, retireRest
<1>2. retirer[r].session \in Sessions /\ job[retirer[r].session].key \in Conversations
  BY DEF TurnsInv, RetirersInv, JobsInv, RetireJob, Jobs
<1>3. Len(posted[job[retirer[r].session].key]) \in Nat
  BY <1>2 DEF TurnsInv, EventsInv
<1>4. RetirersInv'
  <2> DEFINE q == retirer[r]
             v == job[q.session].key
  <2>1. CASE retirer' = [retirer EXCEPT ![r] = Free]
    BY <1>1, <2>1 DEF TurnsInv, RetirersInv, Retirements, Free
  <2>2. CASE At(r, "closed") \/ At(r, "failed")
    BY <1>1, <1>2, <2>2, AtStep DEF TurnsInv
  <2>3. CASE retirer' = [retirer EXCEPT ![r].at = "close", ![r].expected = Len(posted[v])]
    BY <1>1, <1>2, <1>3, <2>3, ReadStep DEF TurnsInv
  <2> QED BY <2>1, <2>2, <2>3 DEF RetireJob
<1> QED BY <1>1, <1>4, JobsKept, AllKept DEF TurnsInv, EventsInv

(* CloseTopic: the topic is closed and its event is on its way.           *)
LEMMA CloseTopicStep ==
  ASSUME TurnsInv, NEW r \in Retirers, CloseTopic(r)
  PROVE  TurnsInv'
<1>1. UNCHANGED <<posted, jobOf, job, loop, accepted, due>>
  BY DEF CloseTopic, retireRest
<1>2. retirer[r].session \in Sessions /\ job[retirer[r].session].key \in Conversations
  BY DEF TurnsInv, RetirersInv, JobsInv, CloseTopic, Jobs
<1>3. EventsInv'
  <2>1. CASE events' = events
    BY <1>1, <2>1 DEF TurnsInv, EventsInv
  <2>2. CASE Archived(job[retirer[r].session].key)
    <3>1. 0 \in 0..Len(posted[job[retirer[r].session].key])
      BY <1>2 DEF TurnsInv, EventsInv
    <3> QED BY <1>1, <1>2, <2>2, <3>1, EventAppended DEF TurnsInv, Archived
  <2> QED BY <2>1, <2>2 DEF CloseTopic
<1>4. RetirersInv'
  BY <1>1, <1>2, AtStep DEF TurnsInv, CloseTopic
<1> QED BY <1>1, <1>3, <1>4, JobsKept, AllKept DEF TurnsInv

(* A step that changes the job of one session.                            *)
LEMMA JobChanged ==
  ASSUME JobsInv, jobOf' = jobOf, NEW s \in Sessions, NEW j \in Jobs,
         job' = [job EXCEPT ![s] = j],
         loop' \in [Sessions -> {"none", "turn", "model", "tools", "after"}],
         accepted' \in [Sessions -> Seq(Nat)],
         ~Current(s) => j.queued = <<>> /\ j.waiting = <<>>
  PROVE  JobsInv'
  BY DEF JobsInv, Current

(* Only what the retirement needs has changed.                             *)
LEMMA RetirementChanged ==
  ASSUME EventsInv, JobsInv, SessionsInv, NEW s \in Sessions, NEW j \in Jobs,
         UNCHANGED <<posted, jobOf, loop, accepted>>, job' = [job EXCEPT ![s] = j],
         j = [job[s] EXCEPT !.retiring = j.retiring, !.timer = j.timer],
         Current(s) => ~job[s].running \/ j.retiring = "no"
  PROVE  JobsInv' /\ SessionsInv'
<1>1. /\ job[s] \in Jobs /\ job'[s] = j
      /\ \A t \in Sessions \ {s} : job'[t] = job[t]
  BY DEF JobsInv
<1>2. /\ j.key = job[s].key /\ j.sender = job[s].sender /\ j.scope = job[s].scope
      /\ j.running = job[s].running /\ j.seen = job[s].seen /\ j.waiting = job[s].waiting
      /\ j.queued = job[s].queued /\ j.yield = job[s].yield /\ j.turns = job[s].turns
      /\ j.heard = job[s].heard /\ j.news = job[s].news /\ j.shown = job[s].shown
  BY <1>1 DEF Jobs
<1>3. JobsInv'
  BY <1>2, JobChanged DEF JobsInv
<1>4. ASSUME NEW v \in Conversations, jobOf[v] = s PROVE SessionInv(s, v)'
  <2>1. SessionInv(s, v)
    BY <1>4 DEF SessionsInv
  <2>2. Current(s)
    BY <1>4 DEF Current
  <2>3. AcceptedInv(s, v)'
    BY <1>1, <1>2, <2>1 DEF SessionInv, AcceptedInv, NoneMissing
  <2>4. SendersInv(s, v)'
    BY <1>1, <1>2, <2>1 DEF SessionInv, SendersInv
  <2>5. BusyInv(s)'
    BY <1>1, <1>2, <2>1, <2>2 DEF SessionInv, BusyInv
  <2> QED BY <1>1, <1>2, <2>1, <2>3, <2>4, <2>5 DEF SessionInv
<1> QED BY <1>1, <1>3, <1>4, OthersKept

(* Spawn: a free goroutine retires the session, the older ones are invalid. *)
LEMMA SpawnStep ==
  ASSUME RetirersInv, NEW s \in Sessions, Spawn(s),
         due' \in [Sessions -> {"none", "idle", "capacity"}]
  PROVE  RetirersInv'
<1>1. (CHOOSE r \in Idlers : TRUE) \in Retirers
  BY DEF Spawn, Idlers
<1>2. /\ Superseded(s) \in [Retirers -> Retirements]
      /\ \A r \in Retirers :
           Superseded(s)[r].at = retirer[r].at /\ Superseded(s)[r].session = retirer[r].session
  BY DEF RetirersInv, Retirements, Superseded
<1>3. [session |-> s, valid |-> TRUE, at |-> "get", expected |-> 0] \in
        Retirements
  BY DEF Retirements
<1> QED BY <1>1, <1>2, <1>3 DEF RetirersInv, Spawn

(* Retired: a retirement that is still valid is one of an idle session.   *)
LEMMA RetiredStep ==
  ASSUME TurnsInv, NEW r \in Retirers, Retired(r)
  PROVE  TurnsInv'
<1> DEFINE s == retirer[r].session
<1>1. s \in Sessions /\ job[s] \in Jobs /\ job[s].key \in Conversations
  BY DEF TurnsInv, RetirersInv, JobsInv, Retired, Jobs
<1>2. EventsInv' /\ RetirersInv'
  BY DEF TurnsInv, EventsInv, RetirersInv, Retirements, Retired, outside, Free
<1>3. JobsInv' /\ SessionsInv'
  <2>1. CASE UNCHANGED <<jobOf, job, accepted>>
    BY <2>1, JobsKept, AllKept DEF TurnsInv, Retired, outside
  <2>2. CASE Drop(job[s].key)
    BY <1>1, <2>2, DropStep DEF TurnsInv, Retired, outside
  <2>3. CASE /\ UNCHANGED <<jobOf, accepted>> /\ Valid(retirer[r])
             /\ job' = [job EXCEPT ![s] =
                  IF job[s].retiring = "idle"
                    THEN [job[s] EXCEPT !.retiring = "no", !.timer = "idle"]
                    ELSE [job[s] EXCEPT !.timer = "capacity"]]
    <3> DEFINE j == IF job[s].retiring = "idle"
                      THEN [job[s] EXCEPT !.retiring = "no", !.timer = "idle"]
                      ELSE [job[s] EXCEPT !.timer = "capacity"]
    <3>1. j \in Jobs /\ j = [job[s] EXCEPT !.retiring = j.retiring, !.timer = j.timer]
      BY <1>1 DEF Jobs
    <3>2. Current(s) => ~job[s].running
      <4>1. Current(s) => BusyInv(s)
        BY <1>1, CurrentIsBusy DEF TurnsInv
      <4> QED BY <2>3, <4>1 DEF Valid, BusyInv
    <3>3. UNCHANGED <<posted, jobOf, loop, accepted>> /\ job' = [job EXCEPT ![s] = j]
      BY <2>3 DEF Retired, outside
    <3> HIDE DEF j
    <3> QED BY <1>1, <3>1, <3>2, <3>3, RetirementChanged DEF TurnsInv
  <2> QED BY <2>1, <2>2, <2>3 DEF Retired
<1> QED BY <1>2, <1>3 DEF TurnsInv

(* TimerFires, TimerRuns: a session is retired only if it is unused.      *)
LEMMA TimerStep ==
  ASSUME TurnsInv, NEW s \in Sessions, TimerFires(s) \/ TimerRuns(s)
  PROVE  TurnsInv'
<1>1. UNCHANGED <<posted, events, jobOf, loop, accepted>> /\ EventsInv'
  BY DEF TurnsInv, EventsInv, TimerFires, TimerRuns, outside
<1>2. job[s] \in Jobs
  BY DEF TurnsInv, JobsInv
<1>3. CASE TimerFires(s)
  <2> DEFINE j == [job[s] EXCEPT !.timer = "none"]
  <2>1. j \in Jobs /\ j = [job[s] EXCEPT !.retiring = j.retiring, !.timer = j.timer]
        /\ j.retiring = job[s].retiring
    BY <1>2 DEF Jobs
  <2>2. Current(s) => ~job[s].running \/ j.retiring = "no"
    BY <2>1 DEF Current, TurnsInv, SessionsInv, SessionInv, BusyInv
  <2>3. job' = [job EXCEPT ![s] = j] /\ UNCHANGED retirer
    BY <1>3 DEF TimerFires
  <2> HIDE DEF j
  <2>4. JobsInv' /\ SessionsInv'
    BY <1>1, <2>1, <2>2, <2>3, RetirementChanged DEF TurnsInv
  <2>5. RetirersInv'
    BY <1>2, <1>3, <2>3 DEF TurnsInv, RetirersInv, Jobs, TimerFires
  <2> QED BY <1>1, <2>4, <2>5 DEF TurnsInv
<1>4. CASE TimerRuns(s) /\ ~MayRetire(s)
  BY <1>1, <1>4, JobsKept, AllKept DEF TurnsInv, RetirersInv, TimerRuns
<1>5. CASE TimerRuns(s) /\ MayRetire(s)
  <2> DEFINE j == BeginRetirement(job[s], due[s])
  <2>1. due[s] \in {"idle", "capacity"}
    BY <1>5 DEF TurnsInv, RetirersInv, TimerRuns
  <2>2. j \in Jobs /\ j = [job[s] EXCEPT !.retiring = j.retiring, !.timer = j.timer]
    BY <1>2, <2>1 DEF Jobs, BeginRetirement
  <2>3. Current(s) => ~job[s].running
    <3>1. Current(s) => BusyInv(s)
      BY CurrentIsBusy DEF TurnsInv
    <3>2. MayRetire(s)
      BY <1>5
    <3> QED BY <1>5, <3>1 DEF MayRetire, Unused, BusyInv
  <2>4. job' = [job EXCEPT ![s] = j] /\ Spawn(s)
    BY <1>5 DEF TimerRuns
  <2>5. RetirersInv'
    BY <1>5, <2>4, SpawnStep DEF TurnsInv, RetirersInv, TimerRuns
  <2> HIDE DEF j
  <2> QED BY <1>1, <2>2, <2>3, <2>4, <2>5, RetirementChanged DEF TurnsInv
<1> QED BY <1>3, <1>4, <1>5

-----------------------------------------------------------------------------
(* runJob.                                                                 *)

(* A session that goes on, is current and has what it had.                 *)
LEMMA LoopChanged ==
  ASSUME EventsInv, JobsInv, SessionsInv, NEW s \in Sessions,
         NEW place \in {"turn", "model", "tools", "after"}, loop[s] \in {"model", "tools"},
         loop' = [loop EXCEPT ![s] = place], UNCHANGED <<posted, jobOf, job, accepted>>
  PROVE  JobsInv' /\ SessionsInv'
<1>1. JobsInv'
  BY DEF JobsInv, Current
<1>2. ASSUME NEW v \in Conversations, jobOf[v] = s PROVE SessionInv(s, v)'
  <2>1. SessionInv(s, v)
    BY <1>2 DEF SessionsInv
  <2>2. AcceptedInv(s, v)' /\ SendersInv(s, v)' /\ job'[s].key = v
    BY <2>1 DEF SessionInv, AcceptedInv, NoneMissing, SendersInv
  <2>3. BusyInv(s)'
    BY <2>1 DEF SessionInv, BusyInv, JobsInv
  <2> QED BY <2>2, <2>3 DEF SessionInv
<1>3. \A t \in Sessions \ {s} :
        job'[t] = job[t] /\ loop'[t] = loop[t] /\ accepted'[t] = accepted[t]
  BY DEF JobsInv
<1> QED BY <1>1, <1>2, <1>3, OthersKept

(* ModelAnswers, ToolsReturn: the cycle goes on with what it has.         *)
LEMMA AnswerStep ==
  ASSUME TurnsInv, NEW s \in Sessions, ModelAnswers(s) \/ ToolsReturn(s)
  PROVE  TurnsInv'
<1>1. /\ UNCHANGED <<posted, events, jobOf, job, accepted, retirer, due>>
      /\ loop[s] \in {"model", "tools"}
  BY DEF ModelAnswers, ToolsReturn, runnerRest, outside
<1>2. PICK place \in {"turn", "model", "tools", "after"} : loop' = [loop EXCEPT ![s] = place]
  BY DEF ModelAnswers, ToolsReturn
<1>3. JobsInv' /\ SessionsInv'
  BY <1>1, <1>2, LoopChanged DEF TurnsInv
<1> QED BY <1>1, <1>3 DEF TurnsInv, EventsInv, RetirersInv

HeardBy(k, h, N, u) == [k EXCEPT !.queued = <<>>, !.heard = h, !.news = N, !.scope = u]

(* The fields of a session whose queue is taken.                          *)
LEMMA HeardMore ==
  ASSUME NEW k \in Jobs, NEW h \in Seq(Nat), NEW N \in SUBSET Nat, NEW u \in Senders,
         NEW j, j = HeardBy(k, h, N, u)
  PROVE  /\ j \in Jobs /\ j.queued = <<>> /\ j.heard = h /\ j.news = N /\ j.scope = u
         /\ j.key = k.key /\ j.sender = k.sender /\ j.running = k.running
         /\ j.seen = k.seen /\ j.waiting = k.waiting /\ j.yield = k.yield
         /\ j.retiring = k.retiring /\ j.turns = k.turns /\ j.shown = k.shown
<1>1. k = [key |-> k.key, sender |-> k.sender, scope |-> k.scope, running |-> k.running,
           retiring |-> k.retiring, timer |-> k.timer, seen |-> k.seen, waiting |-> k.waiting,
           queued |-> k.queued, yield |-> k.yield, turns |-> k.turns, heard |-> k.heard,
           news |-> k.news, shown |-> k.shown]
  BY DEF Jobs
<1>2. j = [key |-> k.key, sender |-> k.sender, scope |-> u, running |-> k.running,
           retiring |-> k.retiring, timer |-> k.timer, seen |-> k.seen, waiting |-> k.waiting,
           queued |-> <<>>, yield |-> k.yield, turns |-> k.turns, heard |-> h,
           news |-> N, shown |-> k.shown]
  BY <1>1 DEF HeardBy
<1>3. <<>> \in Seq(Nat)
  OBVIOUS
<1>4. j \in Jobs
  BY <1>2, <1>3 DEF Jobs
<1> QED BY <1>2, <1>4

(* What messagesForRequest takes.                                          *)
Taken(j, s, v) ==
  /\ j \in Jobs /\ j.queued = <<>>
  /\ j.heard \o j.queued \o j.waiting = accepted[s]
  /\ \A n \in j.news : n \in 1..Len(posted[v]) /\ posted[v][n] = j.scope
  /\ j.key = job[s].key /\ j.sender = job[s].sender /\ j.running = job[s].running
  /\ j.seen = job[s].seen /\ j.waiting = job[s].waiting /\ j.yield = job[s].yield
  /\ j.retiring = job[s].retiring /\ j.turns = job[s].turns /\ j.shown = job[s].shown

(* messagesForRequest moves the queue of one sender to what was heard.    *)
LEMMA RequestTakes ==
  ASSUME EventsInv, JobsInv, SessionsInv, NEW s \in Sessions,
         NEW v \in Conversations, jobOf[v] = s
  PROVE  Taken(MessagesForRequest(job[s]), s, v)
<1> DEFINE q == job[s].queued
           j == MessagesForRequest(job[s])
<1>1. job[s] \in Jobs /\ SessionInv(s, v)
  BY DEF JobsInv, SessionsInv
<1>2. CASE q = <<>>
  BY <1>1, <1>2 DEF Taken, MessagesForRequest, SessionInv, AcceptedInv, NoneMissing, SendersInv
<1>3. CASE q # <<>>
  <2>1. q \in Seq(Nat) /\ job[s].heard \in Seq(Nat) /\ job[s].waiting \in Seq(Nat)
    BY <1>1 DEF Jobs
  <2>2. j = [job[s] EXCEPT !.queued = <<>>, !.heard = job[s].heard \o q, !.news = ToSet(q),
                           !.scope = posted[job[s].key][Last(q)]]
    BY <1>3 DEF MessagesForRequest
  <2>3. Len(q) \in DOMAIN q /\ Last(q) = q[Len(q)]
    BY <1>3, <2>1 DEF Last
  <2>4. job[s].key = v /\ posted[v][Last(q)] = job[s].sender /\ job[s].sender \in Senders
    <3>1. /\ job[s].key = v /\ posted[v][Last(q)] = job[s].sender
          /\ Last(q) \in 1..Len(posted[v])
      BY <1>1, <2>3 DEF SessionInv, SendersInv
    <3>2. posted[v] \in Seq(Senders)
      BY DEF EventsInv
    <3> QED BY <3>1, <3>2, ElementOfSeq
  <2>5. ToSet(q) \in SUBSET Nat /\ \A n \in ToSet(q) : \E i \in DOMAIN q : n = q[i]
    BY <2>1 DEF ToSet
  <2>6. job[s].heard \o q \in Seq(Nat)
    BY <2>1
  <2>7. /\ j.queued = <<>> /\ j.heard = job[s].heard \o q /\ j.news = ToSet(q)
        /\ j.scope = job[s].sender
        /\ j.key = job[s].key /\ j.sender = job[s].sender /\ j.running = job[s].running
        /\ j.seen = job[s].seen /\ j.waiting = job[s].waiting /\ j.yield = job[s].yield
        /\ j.retiring = job[s].retiring /\ j.turns = job[s].turns /\ j.shown = job[s].shown
        /\ j \in Jobs
    <3> DEFINE h == job[s].heard \o q
               N == ToSet(q)
               u == job[s].sender
               k == job[s]
    <3>1. j = HeardBy(k, h, N, u)
      BY <2>2, <2>4 DEF HeardBy
    <3>2. k \in Jobs /\ h \in Seq(Nat) /\ N \in SUBSET Nat /\ u \in Senders
      BY <1>1, <2>4, <2>5, <2>6
    <3> HIDE DEF h, N, u, k
    <3>3. /\ j.queued = <<>> /\ j.heard = h /\ j.news = N /\ j.scope = u
          /\ j.key = k.key /\ j.sender = k.sender /\ j.running = k.running
          /\ j.seen = k.seen /\ j.waiting = k.waiting /\ j.yield = k.yield
          /\ j.retiring = k.retiring /\ j.turns = k.turns /\ j.shown = k.shown
          /\ j \in Jobs
      BY <3>1, <3>2, HeardMore
    <3> QED BY <3>3 DEF h, N, u, k
  <2>9. j.heard \o j.queued \o j.waiting = accepted[s]
    <3>1. (job[s].heard \o q) \o <<>> \o job[s].waiting = job[s].heard \o q \o job[s].waiting
      BY <2>1, QueuedIsHeard
    <3>2. job[s].heard \o q \o job[s].waiting = accepted[s]
      BY <1>1 DEF SessionInv, AcceptedInv, NoneMissing
    <3> QED BY <2>7, <3>1, <3>2
  <2>10. \A n \in j.news : n \in 1..Len(posted[v]) /\ posted[v][n] = j.scope
    BY <1>1, <2>4, <2>5, <2>7 DEF SessionInv, SendersInv
  <2> HIDE DEF j
  <2> QED BY <2>7, <2>9, <2>10 DEF Taken, j
<1> QED BY <1>2, <1>3

SameTurn(j, k) ==
  /\ j.heard = k.heard /\ j.waiting = k.waiting /\ j.news = k.news /\ j.scope = k.scope
  /\ j.key = k.key /\ j.running = k.running /\ j.retiring = k.retiring
  /\ j.seen = k.seen /\ j.yield = k.yield /\ j.queued = <<>>

(* A turn begins, or is repeated, with what messagesForRequest took.       *)
LEMMA TurnTaken ==
  ASSUME EventsInv, JobsInv, SessionsInv, NEW s \in Sessions, NEW j \in Jobs,
         ~Current(s) => j.waiting = <<>>,
         job' = [job EXCEPT ![s] = j], loop' = [loop EXCEPT ![s] = "model"],
         loop[s] \in {"turn", "model"}, UNCHANGED <<posted, jobOf, accepted>>,
         SameTurn(j, MessagesForRequest(job[s])), Current(s) => j.shown
  PROVE  JobsInv' /\ SessionsInv'
<1> DEFINE k == MessagesForRequest(job[s])
<1>0. SameTurn(j, k)
  OBVIOUS
<1> HIDE DEF k
<1>1. JobsInv'
  <2>1. loop' \in [Sessions -> {"none", "turn", "model", "tools", "after"}]
    BY DEF JobsInv
  <2> QED BY <1>0, <2>1, JobChanged DEF JobsInv, SameTurn
<1>2. ASSUME NEW v \in Conversations, jobOf[v] = s PROVE SessionInv(s, v)'
  <2>1. SessionInv(s, v)
    BY <1>2 DEF SessionsInv
  <2>2. job'[s] = j /\ loop'[s] = "model" /\ accepted'[s] = accepted[s] /\ Current(s)
    BY <1>2 DEF JobsInv, Current
  <2>3. /\ k.queued = <<>> /\ k.heard \o k.queued \o k.waiting = accepted[s]
        /\ \A n \in k.news : n \in 1..Len(posted[v]) /\ posted[v][n] = k.scope
        /\ k.key = job[s].key /\ k.running = job[s].running /\ k.seen = job[s].seen
        /\ k.waiting = job[s].waiting /\ k.yield = job[s].yield /\ k.retiring = job[s].retiring
    BY <1>2, RequestTakes DEF k, Taken
  <2>4. AcceptedInv(s, v)'
    BY <1>0, <2>1, <2>2, <2>3 DEF SameTurn, SessionInv, AcceptedInv, NoneMissing
  <2>5. SendersInv(s, v)'
    BY <1>0, <2>1, <2>2, <2>3 DEF SameTurn, SessionInv, SendersInv
  <2>6. BusyInv(s)'
    <3>1. loop[s] # "none"
      OBVIOUS
    <3> QED BY <1>0, <2>1, <2>2, <2>3, <3>1 DEF SameTurn, SessionInv, BusyInv
  <2> QED BY <1>0, <2>1, <2>2, <2>3, <2>4, <2>5, <2>6 DEF SameTurn, SessionInv
<1>3. \A t \in Sessions \ {s} :
        job'[t] = job[t] /\ loop'[t] = loop[t] /\ accepted'[t] = accepted[t]
  BY DEF JobsInv
<1> QED BY <1>1, <1>2, <1>3, OthersKept

(* A session that is not current has nothing to take.                     *)
LEMMA TakesNothing ==
  ASSUME JobsInv, NEW s \in Sessions, ~Current(s)
  PROVE  MessagesForRequest(job[s]) = job[s] /\ job[s].queued = <<>> /\ job[s].waiting = <<>>
  BY DEF JobsInv, MessagesForRequest

(* ModelRefuses: what came meanwhile is taken as well.                    *)
LEMMA RefusalStep ==
  ASSUME TurnsInv, NEW s \in Sessions, ModelRefuses(s)
  PROVE  TurnsInv'
<1> DEFINE j == MessagesForRequest(job[s])
<1>1. /\ UNCHANGED <<posted, events, jobOf, accepted, retirer, due>> /\ loop[s] = "model"
      /\ job' = [job EXCEPT ![s] = j] /\ loop' = [loop EXCEPT ![s] = "model"]
  BY DEF TurnsInv, JobsInv, ModelRefuses, runnerRest, outside
<1>2. PICK v \in Conversations : jobOf[v] = s
  BY TakesNothing DEF TurnsInv, ModelRefuses, Current
<1>3. j \in Jobs /\ j.queued = <<>> /\ j.shown = job[s].shown
  BY <1>2, RequestTakes DEF TurnsInv, Taken
<1>4. Current(s) /\ job[s].shown
  BY <1>1, <1>2 DEF Current, TurnsInv, SessionsInv, SessionInv, BusyInv
<1> HIDE DEF j
<1>5. SameTurn(j, MessagesForRequest(job[s]))
  BY <1>3 DEF j, SameTurn
<1>6. JobsInv' /\ SessionsInv'
  BY <1>1, <1>3, <1>4, <1>5, TurnTaken DEF TurnsInv
<1> QED BY <1>1, <1>6 DEF TurnsInv, EventsInv, RetirersInv

Turned(k) == [k EXCEPT !.turns = @ + 1, !.shown = TRUE]

(* The fields of a session whose turn begins.                             *)
LEMMA TurnedFields ==
  ASSUME NEW k \in Jobs, k.turns # MaxTurns, NEW j, j = Turned(k)
  PROVE  /\ j \in Jobs /\ j.shown
         /\ k.queued = <<>> => SameTurn(j, k)
<1>1. k = [key |-> k.key, sender |-> k.sender, scope |-> k.scope, running |-> k.running,
           retiring |-> k.retiring, timer |-> k.timer, seen |-> k.seen, waiting |-> k.waiting,
           queued |-> k.queued, yield |-> k.yield, turns |-> k.turns, heard |-> k.heard,
           news |-> k.news, shown |-> k.shown]
  BY DEF Jobs
<1>2. j = [key |-> k.key, sender |-> k.sender, scope |-> k.scope, running |-> k.running,
           retiring |-> k.retiring, timer |-> k.timer, seen |-> k.seen, waiting |-> k.waiting,
           queued |-> k.queued, yield |-> k.yield, turns |-> k.turns + 1, heard |-> k.heard,
           news |-> k.news, shown |-> TRUE]
  BY <1>1 DEF Turned
<1>3. k.turns + 1 \in 0..MaxTurns
  BY RunnerAssumption DEF Jobs
<1>4. j \in Jobs
  BY <1>2, <1>3 DEF Jobs
<1> QED BY <1>2, <1>4 DEF SameTurn

(* BeginTurn: a session that has messages to show shows them.             *)
LEMMA BeginTurnStep ==
  ASSUME TurnsInv, NEW s \in Sessions, BeginTurn(s)
  PROVE  TurnsInv'
<1> DEFINE k == MessagesForRequest(job[s])
           leaves == job[s].turns = 0 /\ ~(Current(s) /\ job[s].retiring = "no")
           stops == job[s].turns = MaxTurns \/ (job[s].yield /\ job[s].queued = <<>>)
<1>1. UNCHANGED <<posted, events, jobOf, accepted, retirer, due>> /\ loop[s] = "turn"
  BY DEF BeginTurn, runnerRest, outside
<1>2. ASSUME NEW v \in Conversations, jobOf[v] = s
      PROVE  SessionInv(s, v) /\ Current(s) /\ ~leaves
  BY <1>1, <1>2 DEF Current, TurnsInv, SessionsInv, SessionInv, BusyInv
<1>3. CASE leaves \/ stops
  <2>1. job' = job /\ loop' = [loop EXCEPT ![s] = IF leaves THEN "none" ELSE "after"]
    BY <1>3 DEF BeginTurn
  <2>2. JobsInv'
    BY <1>1, <2>1 DEF TurnsInv, JobsInv, Current
  <2>3. ASSUME NEW v \in Conversations, jobOf[v] = s PROVE SessionInv(s, v)'
    <3>1. SessionInv(s, v) /\ ~leaves /\ loop'[s] = "after"
      BY <1>2, <2>1, <2>3 DEF TurnsInv, JobsInv
    <3>2. AcceptedInv(s, v)' /\ SendersInv(s, v)' /\ job'[s].key = v
      BY <1>1, <2>1, <3>1 DEF SessionInv, AcceptedInv, NoneMissing, SendersInv
    <3>3. ~job[s].shown => job[s].waiting # <<>>
      BY <1>1, <1>3, <3>1, RunnerAssumption DEF SessionInv, BusyInv
    <3>4. BusyInv(s)'
      BY <1>1, <2>1, <3>1, <3>3 DEF SessionInv, BusyInv
    <3> QED BY <3>2, <3>4 DEF SessionInv
  <2>4. \A t \in Sessions \ {s} :
          job'[t] = job[t] /\ loop'[t] = loop[t] /\ accepted'[t] = accepted[t]
    BY <1>1, <2>1 DEF TurnsInv, JobsInv
  <2>5. SessionsInv'
    BY <1>1, <2>3, <2>4, OthersKept DEF TurnsInv
  <2> QED BY <1>1, <2>2, <2>5 DEF TurnsInv, EventsInv, RetirersInv
<1>4. CASE ~leaves /\ ~stops
  <2>1. /\ job' = [job EXCEPT ![s] = Turned(k)]
        /\ loop' = [loop EXCEPT ![s] = "model"]
    BY <1>4 DEF BeginTurn, Turned
  <2>2. k \in Jobs /\ k.queued = <<>> /\ k.turns # MaxTurns
        /\ (~Current(s) => k.waiting = <<>>)
    <3>1. CASE Current(s)
      <4>1. PICK v \in Conversations : jobOf[v] = s
        BY <3>1 DEF Current
      <4> QED BY <1>4, <3>1, <4>1, RequestTakes DEF TurnsInv, Taken
    <3>2. CASE ~Current(s)
      BY <1>4, <3>2, TakesNothing DEF TurnsInv, JobsInv
    <3> QED BY <3>1, <3>2
  <2> DEFINE j == Turned(k)
  <2>3. j = Turned(k)
    OBVIOUS
  <2> HIDE DEF j, k
  <2>4. j \in Jobs /\ j.shown /\ SameTurn(j, k)
    BY <2>2, <2>3, TurnedFields
  <2>5. (~Current(s) => j.waiting = <<>>) /\ SameTurn(j, MessagesForRequest(job[s]))
    BY <2>2, <2>4 DEF SameTurn, k
  <2>6. JobsInv' /\ SessionsInv'
    BY <1>1, <2>1, <2>3, <2>4, <2>5, TurnTaken DEF TurnsInv
  <2> QED BY <1>1, <2>6 DEF TurnsInv, EventsInv, RetirersInv
<1> QED BY <1>3, <1>4

(* The batch is as long as its sender's messages follow one another.       *)
LEMMA BatchOfOne ==
  ASSUME NEW k \in Jobs, k.waiting # <<>>
  PROVE  /\ BatchEnd(k) \in DOMAIN k.waiting
         /\ \A i \in 1..BatchEnd(k) : posted[k.key][k.waiting[i]] = posted[k.key][k.waiting[1]]
<1> DEFINE w == k.waiting
           same(i) == posted[k.key][w[i]] = posted[k.key][w[1]]
           ends(m) == (\A i \in 1..m : same(i)) /\ (m = Len(w) \/ ~same(m + 1))
           T == {i \in DOMAIN w : ~same(i)}
<1>1. w \in Seq(Nat) /\ DOMAIN w = 1..Len(w) /\ Len(w) \in Nat /\ Len(w) > 0 /\ same(1)
  BY DEF Jobs
<1>2. \E m \in DOMAIN w : ends(m)
  <2>1. CASE T = {}
    <3>1. \A i \in 1..Len(w) : same(i)
      BY <1>1, <2>1
    <3> QED BY <1>1, <3>1
  <2>2. CASE T # {}
    <3>1. T \subseteq Nat
      BY <1>1
    <3>2. PICK l \in T : \A i \in T : <<i, l>> \notin OpToRel(<, Nat)
      <4> HIDE DEF T
      <4> QED BY <2>2, <3>1, NatLessThanWellFounded, WFMin
    <3>3. \A i \in T : ~(i < l)
      BY <3>1, <3>2 DEF OpToRel
    <3>4. l \in 1..Len(w) /\ l # 1 /\ ~same(l)
      BY <1>1
    <3>5. l - 1 \in DOMAIN w /\ (l - 1) + 1 = l /\ l - 1 \in Nat
      BY <1>1, <3>4
    <3>6. \A i \in 1..(l - 1) : same(i)
      <4> SUFFICES ASSUME NEW i \in 1..(l - 1) PROVE same(i)
        OBVIOUS
      <4>1. i \in DOMAIN w /\ i < l
        BY <1>1, <3>4, <3>5
      <4> QED BY <3>3, <4>1
    <3>7. ends(l - 1)
      BY <3>4, <3>5, <3>6
    <3> QED BY <3>5, <3>7
  <2> QED BY <2>1, <2>2
<1>3. BatchEnd(k) = CHOOSE m \in DOMAIN w : ends(m)
  BY DEF BatchEnd
<1> HIDE DEF ends, w
<1>4. BatchEnd(k) \in DOMAIN w /\ ends(BatchEnd(k))
  BY <1>2, <1>3
<1> QED BY <1>4 DEF ends, w

Rested(k) == [k EXCEPT !.turns = 0, !.news = {}]

(* The fields of a session whose cycle is over.                           *)
LEMMA RestedFields ==
  ASSUME NEW k \in Jobs, NEW j, j = Rested(k)
  PROVE  /\ j \in Jobs /\ j.turns = 0 /\ j.news = {} /\ j.heard = k.heard
         /\ j.queued = k.queued /\ j.waiting = k.waiting /\ j.scope = k.scope
         /\ j.sender = k.sender /\ j.key = k.key /\ j.running = k.running
         /\ j.retiring = k.retiring /\ j.seen = k.seen /\ j.yield = k.yield
         /\ j.shown = k.shown
<1>1. k = [key |-> k.key, sender |-> k.sender, scope |-> k.scope, running |-> k.running,
           retiring |-> k.retiring, timer |-> k.timer, seen |-> k.seen, waiting |-> k.waiting,
           queued |-> k.queued, yield |-> k.yield, turns |-> k.turns, heard |-> k.heard,
           news |-> k.news, shown |-> k.shown]
  BY DEF Jobs
<1>2. j = [key |-> k.key, sender |-> k.sender, scope |-> k.scope, running |-> k.running,
           retiring |-> k.retiring, timer |-> k.timer, seen |-> k.seen,
           waiting |-> k.waiting, queued |-> k.queued, yield |-> k.yield, turns |-> 0,
           heard |-> k.heard, news |-> {}, shown |-> k.shown]
  BY <1>1 DEF Rested
<1>3. 0 \in 0..MaxTurns /\ {} \in SUBSET Nat
  BY RunnerAssumption
<1>4. j \in Jobs
  BY <1>2, <1>3 DEF Jobs
<1> QED BY <1>2, <1>4

Stopped(k) == [k EXCEPT !.running = FALSE, !.timer = "idle"]

(* The fields of a session that stops.                                    *)
LEMMA StoppedFields ==
  ASSUME NEW k \in Jobs
  PROVE  /\ Stopped(k) \in Jobs /\ ~Stopped(k).running /\ Stopped(k).news = k.news
         /\ Stopped(k).heard = k.heard /\ Stopped(k).queued = k.queued
         /\ Stopped(k).waiting = k.waiting /\ Stopped(k).scope = k.scope
         /\ Stopped(k).sender = k.sender /\ Stopped(k).key = k.key
         /\ Stopped(k).seen = k.seen /\ Stopped(k).yield = k.yield /\ Stopped(k).shown = k.shown
  BY DEF Stopped, Jobs

Batched(k, w, q, y, u) ==
  [k EXCEPT !.waiting = w, !.queued = q, !.yield = y, !.sender = u]

(* The fields of a session that took a batch.                             *)
LEMMA BatchedFields ==
  ASSUME NEW k \in Jobs, NEW w \in Seq(Nat), NEW q \in Seq(Nat), NEW y \in BOOLEAN,
         NEW u \in Senders, NEW j, j = Batched(k, w, q, y, u)
  PROVE  /\ j \in Jobs /\ j.waiting = w /\ j.queued = q /\ j.yield = y /\ j.sender = u
         /\ j.heard = k.heard /\ j.news = k.news /\ j.scope = k.scope /\ j.key = k.key
         /\ j.running = k.running /\ j.retiring = k.retiring /\ j.seen = k.seen
         /\ j.turns = k.turns /\ j.shown = k.shown
<1>1. k = [key |-> k.key, sender |-> k.sender, scope |-> k.scope, running |-> k.running,
           retiring |-> k.retiring, timer |-> k.timer, seen |-> k.seen, waiting |-> k.waiting,
           queued |-> k.queued, yield |-> k.yield, turns |-> k.turns, heard |-> k.heard,
           news |-> k.news, shown |-> k.shown]
  BY DEF Jobs
<1>2. j = [key |-> k.key, sender |-> u, scope |-> k.scope, running |-> k.running,
           retiring |-> k.retiring, timer |-> k.timer, seen |-> k.seen, waiting |-> w,
           queued |-> q, yield |-> y, turns |-> k.turns, heard |-> k.heard,
           news |-> k.news, shown |-> k.shown]
  BY <1>1 DEF Batched
<1>3. j \in Jobs
  BY <1>2 DEF Jobs
<1> QED BY <1>2, <1>3

(* What the end of a cycle leaves of a session that is current.            *)
CycleKept(j, s, v) ==
  /\ j \in Jobs /\ j.key = v /\ j.news = {} /\ j.seen = job[s].seen
  /\ j.heard \o j.queued \o j.waiting = accepted[s]
  /\ \A i \in DOMAIN j.queued :
       j.queued[i] \in 1..Len(posted[v]) /\ posted[v][j.queued[i]] = j.sender
  /\ \A i \in DOMAIN j.waiting : j.waiting[i] \in 1..Len(posted[v])
  /\ j.yield => j.waiting # <<>>

(* What SubSeq leaves behind a place.                                     *)
LEMMA RestLength ==
  ASSUME NEW l \in Nat, NEW n \in 1..l
  PROVE  /\ l - (n + 1) + 1 = l - n
         /\ (IF n + 1 <= l THEN l - (n + 1) + 1 ELSE 0) = l - n
  OBVIOUS

(* TakeBatch queues messages of one sender, the new sender of the session. *)
LEMMA BatchTaken ==
  ASSUME EventsInv, JobsInv, SessionsInv, NEW s \in Sessions, NEW v \in Conversations,
         jobOf[v] = s, NEW k \in Jobs, k = Rested(job[s]),
         k.queued = <<>>, k.waiting # <<>>
  PROVE  /\ CycleKept(TakeBatch(k), s, v) /\ TakeBatch(k).turns = 0
         /\ TakeBatch(k).running = job[s].running /\ TakeBatch(k).retiring = job[s].retiring
<1> DEFINE w == k.waiting
           m == BatchEnd(k)
           rest == SubSeq(w, m + 1, Len(w))
           batch == SubSeq(w, 1, m)
           u == posted[v][w[1]]
           j == TakeBatch(k)
<1>1. /\ job[s] \in Jobs /\ SessionInv(s, v)
      /\ k.turns = 0 /\ k.news = {} /\ k.heard = job[s].heard /\ k.queued = job[s].queued
      /\ w = job[s].waiting /\ k.key = v /\ k.running = job[s].running
      /\ k.retiring = job[s].retiring /\ k.seen = job[s].seen
  BY RestedFields DEF JobsInv, SessionsInv, SessionInv
<1>2. /\ w \in Seq(Nat) /\ Len(w) \in Nat /\ Len(w) > 0 /\ DOMAIN w = 1..Len(w)
      /\ k.heard \in Seq(Nat)
  BY DEF Jobs
<1>3. m \in 1..Len(w) /\ \A i \in 1..m : posted[v][w[i]] = u
  <2>1. /\ BatchEnd(k) \in DOMAIN k.waiting
        /\ \A i \in 1..BatchEnd(k) : posted[k.key][k.waiting[i]] = posted[k.key][k.waiting[1]]
    BY BatchOfOne
  <2> QED BY <1>1, <1>2, <2>1
<1> HIDE DEF w, m
<1>4. /\ batch \in Seq(Nat) /\ Len(batch) = m /\ \A i \in 1..m : batch[i] = w[i]
  BY <1>2, <1>3, SubSeqProperties
<1>5. /\ rest \in Seq(Nat) /\ Len(rest) = Len(w) - m
      /\ \A i \in 1..(Len(w) - m) : rest[i] = w[m + i]
  <2>1. m + 1 \in Int /\ Len(w) \in Int /\ \A i \in (m + 1)..Len(w) : w[i] \in Nat
    BY <1>2, <1>3
  <2>2. /\ rest \in Seq(Nat) /\ Len(rest) = IF m + 1 <= Len(w) THEN Len(w) - (m + 1) + 1 ELSE 0
        /\ \A i \in 1..(Len(w) - (m + 1) + 1) : rest[i] = w[(m + 1) + i - 1]
    BY <2>1, SubSeqProperties
  <2>3. /\ Len(w) - (m + 1) + 1 = Len(w) - m
        /\ (IF m + 1 <= Len(w) THEN Len(w) - (m + 1) + 1 ELSE 0) = Len(w) - m
    BY <1>2, <1>3, RestLength
  <2>4. \A i \in 1..(Len(w) - m) : (m + 1) + i - 1 = m + i
    BY <1>2, <1>3
  <2> QED BY <2>2, <2>3, <2>4
<1>6. \A i \in DOMAIN w : w[i] \in 1..Len(posted[v])
  BY <1>1 DEF w, SessionInv, SendersInv
<1>7. u \in Senders
  <2>1. w[1] \in 1..Len(posted[v])
    BY <1>2, <1>6
  <2>2. posted[v] \in Seq(Senders)
    BY DEF EventsInv
  <2> QED BY <2>1, <2>2, ElementOfSeq
<1>8. k.queued \o batch = batch
  BY <1>4, ConcatEmptySeq
<1>9. j = Batched(k, rest, batch, rest # <<>>, u)
  BY <1>1, <1>8 DEF TakeBatch, Batched, w, m
<1> HIDE DEF rest, batch, u, j
<1>10. /\ j \in Jobs /\ j.waiting = rest /\ j.queued = batch /\ j.yield = (rest # <<>>)
       /\ j.sender = u /\ j.heard = k.heard /\ j.news = k.news /\ j.key = k.key
       /\ j.running = k.running /\ j.retiring = k.retiring /\ j.seen = k.seen
       /\ j.turns = k.turns
  <2>1. (rest # <<>>) \in BOOLEAN
    OBVIOUS
  <2> DEFINE y == rest # <<>>
  <2> HIDE DEF y
  <2>2. y \in BOOLEAN /\ j = Batched(k, rest, batch, y, u)
    BY <1>9, <2>1 DEF y
  <2>3. /\ j \in Jobs /\ j.waiting = rest /\ j.queued = batch /\ j.yield = y
        /\ j.sender = u /\ j.heard = k.heard /\ j.news = k.news /\ j.key = k.key
        /\ j.running = k.running /\ j.retiring = k.retiring /\ j.seen = k.seen
        /\ j.turns = k.turns
    BY <1>4, <1>5, <1>7, <2>2, BatchedFields
  <2> QED BY <2>3 DEF y
<1>11. j.heard \o j.queued \o j.waiting = accepted[s]
  <2>1. k.heard \o (<<>> \o batch) \o rest = k.heard \o <<>> \o w
    <3>1. w \in Seq(Nat) /\ k.heard \in Seq(Nat) /\ m \in DOMAIN w
      BY <1>2, <1>3
    <3> DEFINE h == k.heard
    <3> HIDE DEF h
    <3>2. h \o (<<>> \o SubSeq(w, 1, m)) \o SubSeq(w, m + 1, Len(w)) = h \o <<>> \o w
      BY <3>1, WaitingIsQueued DEF h
    <3> QED BY <3>2 DEF batch, rest, h
  <2>2. <<>> \o batch = batch
    BY <1>4, ConcatEmptySeq
  <2>3. k.heard \o <<>> \o w = accepted[s]
    BY <1>1 DEF SessionInv, AcceptedInv, NoneMissing
  <2> QED BY <1>10, <2>1, <2>2, <2>3
<1>12. \A i \in DOMAIN j.queued :
         j.queued[i] \in 1..Len(posted[v]) /\ posted[v][j.queued[i]] = j.sender
  <2>1. j.queued = batch /\ j.sender = u
    BY <1>10
  <2> SUFFICES ASSUME NEW i \in DOMAIN batch
               PROVE  batch[i] \in 1..Len(posted[v]) /\ posted[v][batch[i]] = u
    BY <2>1
  <2>2. i \in 1..m /\ i \in DOMAIN w
    BY <1>2, <1>3, <1>4
  <2> QED BY <1>2, <1>3, <1>4, <1>6, <2>2
<1>13. \A i \in DOMAIN j.waiting : j.waiting[i] \in 1..Len(posted[v])
  <2> SUFFICES ASSUME NEW i \in DOMAIN rest PROVE rest[i] \in 1..Len(posted[v])
    BY <1>10
  <2>1. i \in 1..(Len(w) - m)
    BY <1>5
  <2>2. m + i \in DOMAIN w
    BY <1>2, <1>3, <2>1
  <2> QED BY <1>5, <1>6, <2>1, <2>2
<1>14. CycleKept(j, s, v)
  BY <1>1, <1>10, <1>11, <1>12, <1>13 DEF CycleKept
<1> QED BY <1>1, <1>10, <1>14 DEF j

(* The end of a cycle takes nothing from a session.                       *)
LEMMA RestedKept ==
  ASSUME EventsInv, JobsInv, SessionsInv, NEW s \in Sessions, NEW v \in Conversations,
         jobOf[v] = s, NEW k \in Jobs, k = Rested(job[s])
  PROVE  CycleKept(k, s, v)
<1>1. /\ job[s] \in Jobs /\ SessionInv(s, v)
      /\ k.news = {} /\ k.heard = job[s].heard /\ k.queued = job[s].queued
      /\ k.waiting = job[s].waiting /\ k.key = v /\ k.sender = job[s].sender
      /\ k.seen = job[s].seen /\ k.yield = job[s].yield
  BY RestedFields DEF JobsInv, SessionsInv, SessionInv
<1>2. k.heard \o k.queued \o k.waiting = accepted[s]
  BY <1>1 DEF SessionInv, AcceptedInv, NoneMissing
<1>3. SendersInv(s, v) /\ (k.yield => k.waiting # <<>>)
  BY <1>1 DEF SessionInv, BusyInv
<1> QED BY <1>1, <1>2, <1>3 DEF CycleKept, SendersInv

(* A session whose cycle is over goes on, or stops with nothing to do.     *)
CycleOver(j, place) ==
  IF place = "turn" THEN j.running /\ j.retiring = "no" /\ j.turns = 0
  ELSE ~j.running /\ j.shown /\ j.queued = <<>> /\ j.waiting = <<>>

(* What AfterCycle leaves of a session satisfies its invariant.           *)
LEMMA CycleEnds ==
  ASSUME EventsInv, JobsInv, SessionsInv, NEW s \in Sessions, NEW j \in Jobs,
         NEW place \in {"none", "turn"},
         job' = [job EXCEPT ![s] = j], loop' = [loop EXCEPT ![s] = place],
         UNCHANGED <<posted, jobOf, accepted>>,
         ~Current(s) => j.queued = <<>> /\ j.waiting = <<>>,
         \A v \in Conversations : jobOf[v] = s => CycleKept(j, s, v),
         Current(s) => CycleOver(j, place)
  PROVE  JobsInv' /\ SessionsInv'
<1>1. JobsInv'
  <2>1. loop' \in [Sessions -> {"none", "turn", "model", "tools", "after"}]
    BY DEF JobsInv
  <2> QED BY <2>1, JobChanged DEF JobsInv
<1>2. ASSUME NEW v \in Conversations, jobOf[v] = s PROVE SessionInv(s, v)'
  <2>1. SessionInv(s, v) /\ CycleKept(j, s, v)
    BY <1>2 DEF SessionsInv
  <2>2. job'[s] = j /\ loop'[s] = place /\ accepted'[s] = accepted[s] /\ CycleOver(j, place)
    BY <1>2 DEF JobsInv, Current
  <2>3. AcceptedInv(s, v)'
    BY <2>1, <2>2 DEF SessionInv, AcceptedInv, NoneMissing, CycleKept
  <2>4. SendersInv(s, v)'
    BY <2>1, <2>2 DEF SendersInv, CycleKept
  <2>5. BusyInv(s)'
    BY <2>1, <2>2 DEF BusyInv, CycleKept, CycleOver
  <2> QED BY <2>1, <2>2, <2>3, <2>4, <2>5 DEF SessionInv, CycleKept
<1>3. \A t \in Sessions \ {s} :
        job'[t] = job[t] /\ loop'[t] = loop[t] /\ accepted'[t] = accepted[t]
  BY DEF JobsInv
<1> QED BY <1>1, <1>2, <1>3, OthersKept

(* AfterCycle: a session stops only when nothing is left to do.           *)
LEMMA AfterCycleStep ==
  ASSUME TurnsInv, NEW s \in Sessions, AfterCycle(s)
  PROVE  TurnsInv'
<1> DEFINE k == Rested(job[s])
<1>1. UNCHANGED <<posted, events, jobOf, accepted, retirer, due>> /\ loop[s] = "after"
  BY DEF AfterCycle, runnerRest, outside
<1>2. /\ job[s] \in Jobs /\ k \in Jobs /\ k.turns = 0 /\ k.queued = job[s].queued
      /\ k.waiting = job[s].waiting /\ k.running = job[s].running
      /\ k.retiring = job[s].retiring /\ k.shown = job[s].shown
  BY RestedFields DEF TurnsInv, JobsInv
<1>3. Current(s) => /\ job[s].running /\ job[s].retiring = "no"
                    /\ ~job[s].shown => job[s].waiting # <<>>
  BY <1>1, CurrentIsBusy DEF TurnsInv, BusyInv
<1>4. ~Current(s) => job[s].queued = <<>> /\ job[s].waiting = <<>>
  BY DEF TurnsInv, JobsInv
<1>5. \A v \in Conversations : jobOf[v] = s => CycleKept(k, s, v) /\ Current(s)
  BY <1>2, RestedKept DEF TurnsInv, Current
<1>6. \/ /\ ~Current(s)
         /\ loop' = [loop EXCEPT ![s] = "none"] /\ job' = [job EXCEPT ![s] = k]
      \/ /\ Current(s) /\ k.queued # <<>>
         /\ loop' = [loop EXCEPT ![s] = "turn"] /\ job' = [job EXCEPT ![s] = k]
      \/ /\ Current(s) /\ k.queued = <<>> /\ k.waiting # <<>>
         /\ loop' = [loop EXCEPT ![s] = "turn"] /\ job' = [job EXCEPT ![s] = TakeBatch(k)]
      \/ /\ Current(s) /\ Unused([k EXCEPT !.running = FALSE])
         /\ loop' = [loop EXCEPT ![s] = "none"] /\ job' = [job EXCEPT ![s] = Stopped(k)]
  BY DEF AfterCycle, Rested, Stopped
<1>7. k = Rested(job[s])
  OBVIOUS
<1> HIDE DEF k
<1>8. CASE /\ ~Current(s)
           /\ loop' = [loop EXCEPT ![s] = "none"] /\ job' = [job EXCEPT ![s] = k]
  <2>1. JobsInv' /\ SessionsInv'
    BY <1>1, <1>2, <1>4, <1>5, <1>8, CycleEnds DEF TurnsInv
  <2> QED BY <1>1, <2>1 DEF TurnsInv, EventsInv, RetirersInv
<1>9. CASE /\ Current(s) /\ k.queued # <<>>
           /\ loop' = [loop EXCEPT ![s] = "turn"] /\ job' = [job EXCEPT ![s] = k]
  <2>1. CycleOver(k, "turn")
    BY <1>2, <1>3, <1>9 DEF CycleOver
  <2>2. JobsInv' /\ SessionsInv'
    BY <1>1, <1>2, <1>5, <1>9, <2>1, CycleEnds DEF TurnsInv
  <2> QED BY <1>1, <2>2 DEF TurnsInv, EventsInv, RetirersInv
<1>10. CASE /\ Current(s) /\ k.queued = <<>> /\ k.waiting # <<>>
            /\ loop' = [loop EXCEPT ![s] = "turn"] /\ job' = [job EXCEPT ![s] = TakeBatch(k)]
  <2> DEFINE j == TakeBatch(k)
  <2>1. ASSUME NEW v \in Conversations, jobOf[v] = s
        PROVE  CycleKept(j, s, v) /\ CycleOver(j, "turn")
    <3>1. /\ CycleKept(j, s, v) /\ j.turns = 0
          /\ j.running = job[s].running /\ j.retiring = job[s].retiring
      BY <1>2, <1>7, <1>10, <2>1, BatchTaken DEF TurnsInv
    <3> QED BY <1>3, <1>10, <3>1 DEF CycleOver
  <2>2. j \in Jobs /\ CycleOver(j, "turn")
    BY <1>10, <2>1 DEF Current, CycleKept
  <2> HIDE DEF j
  <2>3. JobsInv' /\ SessionsInv'
    BY <1>1, <1>10, <2>1, <2>2, CycleEnds DEF TurnsInv, j
  <2> QED BY <1>1, <2>3 DEF TurnsInv, EventsInv, RetirersInv
<1>11. CASE /\ Current(s) /\ Unused([k EXCEPT !.running = FALSE])
            /\ loop' = [loop EXCEPT ![s] = "none"] /\ job' = [job EXCEPT ![s] = Stopped(k)]
  <2> DEFINE j == Stopped(k)
  <2>1. /\ j \in Jobs /\ ~j.running /\ j.news = k.news /\ j.heard = k.heard
        /\ j.queued = k.queued /\ j.waiting = k.waiting /\ j.sender = k.sender
        /\ j.key = k.key /\ j.seen = k.seen /\ j.yield = k.yield /\ j.shown = k.shown
    BY <1>2, StoppedFields
  <2>2. k.queued = <<>> /\ k.waiting = <<>>
    BY <1>2, <1>11 DEF Unused, Jobs
  <2> HIDE DEF j
  <2>3. CycleOver(j, "none")
    BY <1>2, <1>3, <1>11, <2>1, <2>2 DEF CycleOver
  <2>4. \A v \in Conversations : jobOf[v] = s => CycleKept(j, s, v)
    BY <1>5, <2>1 DEF CycleKept
  <2>5. JobsInv' /\ SessionsInv'
    BY <1>1, <1>11, <2>1, <2>3, <2>4, CycleEnds DEF TurnsInv, j
  <2> QED BY <1>1, <2>5 DEF TurnsInv, EventsInv, RetirersInv
<1> QED BY <1>6, <1>8, <1>9, <1>10, <1>11

-----------------------------------------------------------------------------
(* Start.                                                                  *)

(* A message that is not dropped was posted and is newer than the session's. *)
LEMMA MessageIsNew ==
  ASSUME TurnsInv, NEW v \in Conversations, NEW n \in 1..MaxPosts,
         Receives(v, n), ~Seen(v, n)
  PROVE  /\ n \in Nat /\ n \in 1..Len(posted[v]) /\ posted[v][n] \in Senders
         /\ jobOf[v] \in Sessions => job[jobOf[v]].seen < n
<1>1. n \in Nat /\ n > 0
  BY RunnerAssumption
<1>2. n <= Len(posted[v])
  <2>1. 1 \in DOMAIN events /\ Head(events) = events[1]
    BY DEF TurnsInv, EventsInv, Receives
  <2>2. events[1].of = v /\ events[1].seq = n
    BY <2>1 DEF Receives
  <2> QED BY <2>1, <2>2 DEF TurnsInv, EventsInv
<1>3. posted[v] \in Seq(Senders) /\ Len(posted[v]) \in Nat
  BY DEF TurnsInv, EventsInv
<1>4. n \in 1..Len(posted[v])
  BY <1>1, <1>2, <1>3
<1>5. posted[v][n] \in Senders
  BY <1>3, <1>4, ElementOfSeq
<1>6. ASSUME jobOf[v] \in Sessions PROVE job[jobOf[v]].seen < n
  <2>1. job[jobOf[v]].seen \in Nat
    BY <1>6 DEF TurnsInv, JobsInv, Jobs
  <2>2. ~(n <= job[jobOf[v]].seen)
    BY <1>6, RunnerAssumption DEF Seen
  <2> QED BY <1>1, <2>1, <2>2
<1> QED BY <1>1, <1>4, <1>5, <1>6

(* What Start changes of a session that gets a message.                    *)
Given(j, k, n) ==
  /\ j \in Jobs /\ j.seen = n /\ j.retiring = "no"
  /\ j.heard = k.heard /\ j.news = k.news /\ j.scope = k.scope /\ j.key = k.key
  /\ j.turns = k.turns /\ j.shown = k.shown

Waits(j, k, n) ==
  /\ Given(j, k, n)
  /\ j.waiting = Append(k.waiting, n) /\ j.queued = k.queued /\ j.yield
  /\ j.sender = k.sender /\ j.running = k.running

Joins(j, k, n, u) ==
  /\ Given(j, k, n)
  /\ j.waiting = k.waiting /\ j.queued = Append(k.queued, n) /\ j.yield = k.yield
  /\ j.sender = u /\ j.running

WaitingJob(k, n) ==
  [CancelRetirement(k) EXCEPT !.waiting = Append(@, n), !.yield = TRUE, !.seen = n]

JoiningJob(k, n, u) ==
  [CancelRetirement(k) EXCEPT !.queued = Append(@, n), !.sender = u, !.seen = n,
                              !.running = TRUE]

(* The fields of a session for which a message waits.                     *)
LEMMA WaitingFields ==
  ASSUME NEW k \in Jobs, NEW n \in Nat, NEW j, j = WaitingJob(k, n)
  PROVE  Waits(j, k, n)
<1> DEFINE w == Append(k.waiting, n)
<1>0. w \in Seq(Nat)
  BY Appended DEF Jobs
<1>1. k = [key |-> k.key, sender |-> k.sender, scope |-> k.scope, running |-> k.running,
           retiring |-> k.retiring, timer |-> k.timer, seen |-> k.seen, waiting |-> k.waiting,
           queued |-> k.queued, yield |-> k.yield, turns |-> k.turns, heard |-> k.heard,
           news |-> k.news, shown |-> k.shown]
  BY DEF Jobs
<1>2. j = [key |-> k.key, sender |-> k.sender, scope |-> k.scope, running |-> k.running,
           retiring |-> "no", timer |-> "none", seen |-> n, waiting |-> w,
           queued |-> k.queued, yield |-> TRUE, turns |-> k.turns, heard |-> k.heard,
           news |-> k.news, shown |-> k.shown]
  BY <1>1 DEF WaitingJob, CancelRetirement
<1> HIDE DEF w
<1>3. j \in Jobs
  BY <1>0, <1>2 DEF Jobs
<1> QED BY <1>2, <1>3 DEF Waits, Given, w

(* The fields of a session that a message joins.                          *)
LEMMA JoiningFields ==
  ASSUME NEW k \in Jobs, NEW n \in Nat, NEW u \in Senders, NEW j, j = JoiningJob(k, n, u)
  PROVE  Joins(j, k, n, u)
<1> DEFINE q == Append(k.queued, n)
<1>0. q \in Seq(Nat)
  BY Appended DEF Jobs
<1>1. k = [key |-> k.key, sender |-> k.sender, scope |-> k.scope, running |-> k.running,
           retiring |-> k.retiring, timer |-> k.timer, seen |-> k.seen, waiting |-> k.waiting,
           queued |-> k.queued, yield |-> k.yield, turns |-> k.turns, heard |-> k.heard,
           news |-> k.news, shown |-> k.shown]
  BY DEF Jobs
<1>2. j = [key |-> k.key, sender |-> u, scope |-> k.scope, running |-> TRUE,
           retiring |-> "no", timer |-> "none", seen |-> n, waiting |-> k.waiting,
           queued |-> q, yield |-> k.yield, turns |-> k.turns,
           heard |-> k.heard, news |-> k.news, shown |-> k.shown]
  BY <1>1 DEF JoiningJob, CancelRetirement
<1> HIDE DEF q
<1>3. j \in Jobs /\ j.yield = k.yield
  BY <1>0, <1>2 DEF Jobs
<1> QED BY <1>2, <1>3 DEF Joins, Given, q

(* The message joins those who wait.                                       *)
LEMMA WaitsInTurn ==
  ASSUME EventsInv, JobsInv, NEW v \in Conversations, NEW s \in Sessions,
         SessionInv(s, v), NEW n \in Nat, n \in 1..Len(posted[v]), job[s].seen < n,
         NEW j, Waits(j, job[s], n), job[s].running,
         job'[s] = j, loop'[s] = loop[s], accepted'[s] = Append(accepted[s], n), posted' = posted
  PROVE  SessionInv(s, v)'
<1>1. /\ job[s] \in Jobs /\ job[s].waiting \in Seq(Nat) /\ job[s].queued \in Seq(Nat)
      /\ job[s].heard \in Seq(Nat) /\ job[s].running \in BOOLEAN /\ job[s].seen \in Nat
      /\ job[s].sender \in Senders \cup {NoSender} /\ accepted[s] \in Seq(Nat)
  BY DEF JobsInv, Jobs
<1> DEFINE w == Append(job[s].waiting, n)
           k == job[s]
<1>2. w \in Seq(Nat) /\ w # <<>>
  BY <1>1, Appended
<1> HIDE DEF w
<1>4. /\ j.waiting = w /\ j.queued = k.queued /\ j.yield = TRUE /\ j.sender = k.sender
      /\ j.running = k.running /\ j.seen = n /\ j.retiring = "no"
      /\ j.heard = k.heard /\ j.news = k.news /\ j.scope = k.scope /\ j.key = k.key
      /\ j.turns = k.turns /\ j.shown = k.shown
  BY DEF Waits, Given, w
<1>5. AcceptedInv(s, v)'
  <2>1. j.heard \o j.queued \o j.waiting = Append(accepted[s], n)
    <3>1. k.heard \o k.queued \o k.waiting = accepted[s]
      BY DEF SessionInv, AcceptedInv, NoneMissing
    <3>2. k.heard \o k.queued \o w = Append(k.heard \o k.queued \o k.waiting, n)
      <4> DEFINE h == k.heard
                 q == k.queued
                 y == k.waiting
      <4>1. h \in Seq(Nat) /\ q \in Seq(Nat) /\ y \in Seq(Nat) /\ w = Append(y, n)
        BY <1>1 DEF w
      <4> HIDE DEF h, q, y
      <4>2. h \o q \o Append(y, n) = Append(h \o q \o y, n)
        BY <4>1, AppendWaiting
      <4> QED BY <4>1, <4>2 DEF h, q, y
    <3> QED BY <1>4, <3>1, <3>2
  <2>2. \A i \in DOMAIN accepted[s] : accepted[s][i] < n
    BY <1>1 DEF SessionInv, AcceptedInv
  <2>3. \A i, m \in DOMAIN accepted'[s] : i < m => accepted'[s][i] < accepted'[s][m]
    BY <1>1, <2>2, AppendAscends DEF SessionInv, AcceptedInv, NoneMissing
  <2>4. \A i \in DOMAIN accepted'[s] :
          accepted'[s][i] \in 1..Len(posted[v]) /\ accepted'[s][i] <= n
    BY <1>1, <2>2 DEF SessionInv, AcceptedInv
  <2> QED BY <1>4, <2>1, <2>3, <2>4 DEF AcceptedInv, NoneMissing
<1>6. SendersInv(s, v)'
  <2>1. \A i \in DOMAIN w : w[i] \in 1..Len(posted[v])
    <3>1. \A i \in DOMAIN w : w[i] = n \/ (i \in DOMAIN k.waiting /\ w[i] = k.waiting[i])
      BY <1>1, Appended DEF w
    <3> QED BY <3>1 DEF SessionInv, SendersInv
  <2> QED BY <1>4, <2>1 DEF SessionInv, SendersInv
<1>7. BusyInv(s)'
  BY <1>2, <1>4 DEF SessionInv, BusyInv
<1> QED BY <1>4, <1>5, <1>6, <1>7 DEF SessionInv

(* The message joins the next turn of the session, which runs from now on. *)
LEMMA JoinsInTurn ==
  ASSUME EventsInv, JobsInv, NEW v \in Conversations, NEW s \in Sessions,
         SessionInv(s, v), NEW n \in Nat, n \in 1..Len(posted[v]), job[s].seen < n,
         NEW j, Joins(j, job[s], n, posted[v][n]), ~MustWait(job[s], posted[v][n]),
         job'[s] = j, loop'[s] = IF job[s].running THEN loop[s] ELSE "turn",
         accepted'[s] = Append(accepted[s], n), posted' = posted
  PROVE  SessionInv(s, v)'
<1>1. /\ job[s] \in Jobs /\ job[s].waiting \in Seq(Nat) /\ job[s].queued \in Seq(Nat)
      /\ job[s].heard \in Seq(Nat) /\ job[s].yield \in BOOLEAN /\ job[s].seen \in Nat
      /\ accepted[s] \in Seq(Nat)
  BY DEF JobsInv, Jobs
<1> DEFINE q == Append(job[s].queued, n)
           k == job[s]
           u == posted[v][n]
<1>2. q \in Seq(Nat)
  BY <1>1, Appended
<1>4. k.waiting = <<>> /\ (k.sender = u \/ k.queued = <<>>)
  BY DEF MustWait, SessionInv, BusyInv
<1> HIDE DEF q
<1>5. /\ j.waiting = k.waiting /\ j.queued = q /\ j.yield = k.yield /\ j.sender = u
      /\ j.running = TRUE /\ j.seen = n /\ j.retiring = "no"
      /\ j.heard = k.heard /\ j.news = k.news /\ j.scope = k.scope /\ j.key = k.key
      /\ j.turns = k.turns /\ j.shown = k.shown
  BY DEF Joins, Given, q
<1>6. AcceptedInv(s, v)'
  <2>1. j.heard \o j.queued \o j.waiting = Append(accepted[s], n)
    <3>1. k.heard \o k.queued \o <<>> = accepted[s]
      BY <1>4 DEF SessionInv, AcceptedInv, NoneMissing
    <3>2. k.heard \o q \o <<>> = Append(k.heard \o k.queued \o <<>>, n)
      BY <1>1, AppendQueued DEF q
    <3> QED BY <1>4, <1>5, <3>1, <3>2
  <2>2. \A i \in DOMAIN accepted[s] : accepted[s][i] < n
    BY <1>1 DEF SessionInv, AcceptedInv
  <2>3. \A i, m \in DOMAIN accepted'[s] : i < m => accepted'[s][i] < accepted'[s][m]
    BY <1>1, <2>2, AppendAscends DEF SessionInv, AcceptedInv, NoneMissing
  <2>4. \A i \in DOMAIN accepted'[s] :
          accepted'[s][i] \in 1..Len(posted[v]) /\ accepted'[s][i] <= n
    BY <1>1, <2>2 DEF SessionInv, AcceptedInv
  <2> QED BY <1>5, <2>1, <2>3, <2>4 DEF AcceptedInv, NoneMissing
<1>7. SendersInv(s, v)'
  <2>1. \A i \in DOMAIN q : q[i] \in 1..Len(posted[v]) /\ posted[v][q[i]] = u
    <3>1. \A i \in DOMAIN k.queued :
            k.queued[i] \in 1..Len(posted[v]) /\ posted[v][k.queued[i]] = u
      BY <1>4 DEF SessionInv, SendersInv
    <3>2. \A i \in DOMAIN q : q[i] = n \/ (i \in DOMAIN k.queued /\ q[i] = k.queued[i])
      BY <1>1, Appended DEF q
    <3> QED BY <3>1, <3>2
  <2> QED BY <1>5, <2>1 DEF SessionInv, SendersInv
<1>8. BusyInv(s)'
  BY <1>5 DEF SessionInv, BusyInv
<1> QED BY <1>5, <1>6, <1>7, <1>8 DEF SessionInv

(* Superseded: retirements become invalid and stay where they are.        *)
LEMMA SupersededStep ==
  ASSUME RetirersInv, NEW s \in Sessions, retirer' = Superseded(s), due' = due
  PROVE  RetirersInv'
<1>1. /\ Superseded(s) \in [Retirers -> Retirements]
      /\ \A r \in Retirers :
           Superseded(s)[r].at = retirer[r].at /\ Superseded(s)[r].session = retirer[r].session
  BY DEF RetirersInv, Retirements, Superseded
<1> QED BY <1>1 DEF RetirersInv

(* GiveToSession: a message that is new to the session comes last.        *)
LEMMA GiveStep ==
  ASSUME TurnsInv, NEW v \in Conversations, NEW n \in 1..MaxPosts, GiveToSession(v, n)
  PROVE  TurnsInv'
<1> DEFINE s == jobOf[v]
           u == posted[v][n]
           c == CancelRetirement(job[s])
           jw == WaitingJob(job[s], n)
           jq == JoiningJob(job[s], n, u)
<1>1. /\ UNCHANGED <<posted, jobOf, due>> /\ s # NoSession /\ events' = Tail(events)
      /\ Receives(v, n) /\ ~Seen(v, n) /\ retirer' = Superseded(s)
      /\ accepted' = [accepted EXCEPT ![s] = Append(@, n)]
  BY DEF GiveToSession, outside
<1>2. /\ s \in Sessions /\ SessionInv(s, v) /\ job[s] \in Jobs /\ Current(s)
      /\ accepted[s] \in Seq(Nat)
  BY <1>1 DEF TurnsInv, JobsInv, SessionsInv, Current
<1>3. n \in Nat /\ n \in 1..Len(posted[v]) /\ u \in Senders /\ job[s].seen < n
  BY <1>1, <1>2, MessageIsNew
<1>4. EventsInv' /\ RetirersInv'
  BY <1>1, <1>2, EventTaken, SupersededStep DEF TurnsInv, Receives
<1>5. \/ /\ MustWait(c, u)
         /\ job' = [job EXCEPT ![s] = jw] /\ loop' = loop
      \/ /\ ~MustWait(c, u)
         /\ job' = [job EXCEPT ![s] = jq]
         /\ loop' = IF c.running THEN loop ELSE [loop EXCEPT ![s] = "turn"]
  BY DEF GiveToSession, WaitingJob, JoiningJob
<1>6. (MustWait(c, u) <=> MustWait(job[s], u)) /\ c.running = job[s].running
  BY <1>2 DEF MustWait, CancelRetirement, Jobs
<1>7. Waits(jw, job[s], n)
  BY <1>2, <1>3, WaitingFields
<1>8. Joins(jq, job[s], n, u)
  BY <1>2, <1>3, JoiningFields
<1>9. accepted'[s] = Append(accepted[s], n) /\ accepted' \in [Sessions -> Seq(Nat)]
      /\ \A t \in Sessions \ {s} : accepted'[t] = accepted[t]
  BY <1>1, <1>2, <1>3 DEF TurnsInv, JobsInv
<1> HIDE DEF c, jw, jq
<1>10. CASE /\ MustWait(c, u)
            /\ job' = [job EXCEPT ![s] = jw] /\ loop' = loop
  <2>1. jw \in Jobs /\ (~Current(s) => FALSE)
    BY <1>2, <1>7 DEF Waits, Given
  <2>2. job[s].running
    BY <1>6, <1>10 DEF MustWait
  <2>3. job'[s] = jw /\ loop'[s] = loop[s]
        /\ \A t \in Sessions \ {s} : job'[t] = job[t] /\ loop'[t] = loop[t]
    BY <1>2, <1>10 DEF TurnsInv, JobsInv
  <2>4. SessionInv(s, v)'
    BY <1>1, <1>2, <1>3, <1>7, <1>9, <2>1, <2>2, <2>3, WaitsInTurn DEF TurnsInv
  <2>5. loop' \in [Sessions -> {"none", "turn", "model", "tools", "after"}]
    BY <1>10 DEF TurnsInv, JobsInv
  <2>6. JobsInv'
    BY <1>1, <1>2, <1>9, <1>10, <2>1, <2>5, JobChanged DEF TurnsInv
  <2>7. \A w \in Conversations : jobOf[w] = s => SessionInv(s, w)'
    BY <1>2, <2>4, OneKey DEF TurnsInv
  <2>8. SessionsInv'
    BY <1>1, <1>2, <1>9, <2>3, <2>7, OthersKept DEF TurnsInv
  <2> QED BY <1>4, <2>6, <2>8 DEF TurnsInv
<1>11. CASE /\ ~MustWait(c, u)
            /\ job' = [job EXCEPT ![s] = jq]
            /\ loop' = IF c.running THEN loop ELSE [loop EXCEPT ![s] = "turn"]
  <2>1. jq \in Jobs /\ (~Current(s) => FALSE)
    BY <1>2, <1>8 DEF Joins, Given
  <2>2. ~MustWait(job[s], u)
    BY <1>6, <1>11
  <2>3. /\ loop' \in [Sessions -> {"none", "turn", "model", "tools", "after"}]
        /\ loop'[s] = (IF job[s].running THEN loop[s] ELSE "turn")
        /\ \A t \in Sessions \ {s} : job'[t] = job[t] /\ loop'[t] = loop[t]
        /\ job'[s] = jq
    BY <1>2, <1>6, <1>11 DEF TurnsInv, JobsInv
  <2>4. SessionInv(s, v)'
    BY <1>1, <1>2, <1>3, <1>8, <1>9, <2>1, <2>2, <2>3, JoinsInTurn DEF TurnsInv
  <2>6. JobsInv'
    BY <1>1, <1>2, <1>9, <1>11, <2>1, <2>3, JobChanged DEF TurnsInv
  <2>7. \A w \in Conversations : jobOf[w] = s => SessionInv(s, w)'
    BY <1>2, <2>4, OneKey DEF TurnsInv
  <2>8. SessionsInv'
    BY <1>1, <1>2, <1>9, <2>3, <2>7, OthersKept DEF TurnsInv
  <2> QED BY <1>4, <2>6, <2>8 DEF TurnsInv
<1> QED BY <1>5, <1>10, <1>11

NewJob(v, n) ==
  [Blank EXCEPT !.key = v, !.sender = posted[v][n], !.scope = posted[v][n],
                !.running = TRUE, !.seen = n, !.heard = <<n>>, !.news = {n}]

(* The fields of a new session.                                           *)
LEMMA NewFields ==
  ASSUME NEW v \in Conversations, NEW n \in Nat, posted[v][n] \in Senders,
         NEW j, j = NewJob(v, n)
  PROVE  /\ j \in Jobs /\ j.key = v /\ j.scope = posted[v][n] /\ j.running /\ j.retiring = "no"
         /\ j.seen = n /\ j.waiting = <<>> /\ j.queued = <<>> /\ ~j.yield /\ j.turns = 0
         /\ j.heard = <<n>> /\ j.news = {n} /\ ~j.shown
<1> DEFINE u == posted[v][n]
<1>1. j = [key |-> v, sender |-> u, scope |-> u, running |-> TRUE, retiring |-> "no",
           timer |-> "none", seen |-> n, waiting |-> <<>>, queued |-> <<>>, yield |-> FALSE,
           turns |-> 0, heard |-> <<n>>, news |-> {n}, shown |-> FALSE]
  BY DEF NewJob, Blank
<1>2. <<>> \in Seq(Nat) /\ <<n>> \in Seq(Nat) /\ {n} \in SUBSET Nat /\ u \in Senders
      /\ 0 \in 0..MaxTurns
  BY RunnerAssumption
<1> HIDE DEF u
<1>3. j \in Jobs
  BY <1>1, <1>2 DEF Jobs
<1> QED BY <1>1, <1>3 DEF u

(* A new session was given its first message and will show it.            *)
LEMMA NewSession ==
  ASSUME EventsInv, NEW v \in Conversations, NEW s \in Sessions, NEW n \in Nat,
         n \in 1..Len(posted[v]), posted[v][n] \in Senders, posted' = posted,
         job'[s] = NewJob(v, n), loop'[s] = "turn", accepted'[s] = <<n>>
  PROVE  SessionInv(s, v)'
<1> DEFINE j == NewJob(v, n)
<1>1. /\ j \in Jobs /\ j.key = v /\ j.scope = posted[v][n] /\ j.running /\ j.retiring = "no"
      /\ j.seen = n /\ j.waiting = <<>> /\ j.queued = <<>> /\ ~j.yield /\ j.turns = 0
      /\ j.heard = <<n>> /\ j.news = {n} /\ ~j.shown
  BY NewFields
<1>2. job'[s] = j
  OBVIOUS
<1> HIDE DEF j
<1>3. AcceptedInv(s, v)'
  <2> DEFINE a == <<n>>
  <2>1. a \o <<>> \o <<>> = a /\ DOMAIN a = {1} /\ a[1] = n
    OBVIOUS
  <2> HIDE DEF a
  <2>2. accepted'[s] = a /\ j.heard = a /\ j.queued = <<>> /\ j.waiting = <<>> /\ j.seen = n
    BY <1>1 DEF a
  <2>3. \A i, m \in DOMAIN a : i < m => a[i] < a[m]
    BY <2>1
  <2>4. \A i \in DOMAIN a : a[i] \in 1..Len(posted[v]) /\ a[i] <= n
    BY <2>1
  <2> QED BY <1>2, <2>1, <2>2, <2>3, <2>4 DEF AcceptedInv, NoneMissing
<1>4. SendersInv(s, v)'
  BY <1>1, <1>2 DEF SendersInv
<1>5. BusyInv(s)'
  BY <1>1, <1>2 DEF BusyInv
<1> QED BY <1>1, <1>2, <1>3, <1>4, <1>5 DEF SessionInv

(* A session that makes room was idle.                                     *)
LEMMA RoomMade ==
  ASSUME EventsInv, NEW t \in Sessions, NEW w \in Conversations, SessionInv(t, w),
         job[t] \in Jobs, ~job[t].running, posted' = posted,
         job'[t] = BeginRetirement(job[t], "capacity"),
         loop'[t] = loop[t], accepted'[t] = accepted[t]
  PROVE  SessionInv(t, w)'
<1> DEFINE k == job[t]
           j == job'[t]
<1>1. /\ j.key = k.key /\ j.sender = k.sender /\ j.scope = k.scope
      /\ j.running = k.running /\ j.seen = k.seen /\ j.waiting = k.waiting
      /\ j.queued = k.queued /\ j.yield = k.yield /\ j.turns = k.turns
      /\ j.heard = k.heard /\ j.news = k.news /\ j.shown = k.shown
  BY DEF BeginRetirement, Jobs
<1>2. AcceptedInv(t, w)'
  BY <1>1 DEF SessionInv, AcceptedInv, NoneMissing
<1>3. SendersInv(t, w)'
  BY <1>1 DEF SessionInv, SendersInv
<1>4. BusyInv(t)'
  BY <1>1 DEF SessionInv, BusyInv
<1> QED BY <1>1, <1>2, <1>3, <1>4 DEF SessionInv

(* A session is created; one that was idle may make room for it.           *)
LEMMA SessionCreated ==
  ASSUME EventsInv, JobsInv, SessionsInv, posted' = posted,
         NEW v \in Conversations, jobOf[v] = NoSession, NEW s \in Sessions, ~Current(s),
         NEW n \in Nat, n \in 1..Len(posted[v]), posted[v][n] \in Senders,
         jobOf' = [jobOf EXCEPT ![v] = s], loop' = [loop EXCEPT ![s] = "turn"],
         accepted' = [accepted EXCEPT ![s] = <<n>>],
         job' \in [Sessions -> Jobs], job'[s] = NewJob(v, n),
         \A t \in Sessions \ {s} :
            \/ job'[t] = job[t]
            \/ Current(t) /\ ~job[t].running /\ job'[t] = BeginRetirement(job[t], "capacity")
  PROVE  JobsInv' /\ SessionsInv'
<1>1. /\ jobOf'[v] = s /\ \A w \in Conversations \ {v} : jobOf'[w] = jobOf[w]
      /\ loop'[s] = "turn" /\ accepted'[s] = <<n>>
      /\ \A t \in Sessions \ {s} : loop'[t] = loop[t] /\ accepted'[t] = accepted[t]
  BY DEF JobsInv
<1>2. \A t \in Sessions : Current(t) => Current(t)'
  BY <1>1, RunnerAssumption DEF Current
<1>3. JobsInv'
  <2>1. <<n>> \in Seq(Nat)
    OBVIOUS
  <2>2. /\ jobOf' \in [Conversations -> Sessions \cup {NoSession}]
        /\ loop' \in [Sessions -> {"none", "turn", "model", "tools", "after"}]
        /\ accepted' \in [Sessions -> Seq(Nat)]
    BY <2>1 DEF JobsInv
  <2>3. ASSUME NEW t \in Sessions, ~Current(t)'
        PROVE  job'[t].queued = <<>> /\ job'[t].waiting = <<>>
    <3>1. t # s
      BY <1>1, <2>3 DEF Current
    <3>2. ~Current(t)
      BY <1>2, <2>3
    <3>3. job'[t] = job[t]
      BY <3>1, <3>2
    <3> QED BY <3>2, <3>3 DEF JobsInv
  <2> QED BY <2>2, <2>3 DEF JobsInv
<1>4. SessionsInv'
  <2> SUFFICES ASSUME NEW w \in Conversations, NEW t \in Sessions, jobOf'[w] = t
               PROVE  SessionInv(t, w)'
    BY DEF SessionsInv
  <2>1. CASE w = v
    <3>1. t = s
      BY <1>1, <2>1
    <3> QED BY <1>1, <2>1, <3>1, NewSession
  <2>2. CASE w # v
    <3>1. jobOf[w] = t
      BY <1>1, <2>2
    <3>2. SessionInv(t, w) /\ t # s /\ job[t] \in Jobs
      BY <3>1 DEF SessionsInv, Current, JobsInv
    <3>3. loop'[t] = loop[t] /\ accepted'[t] = accepted[t]
      BY <1>1, <3>2
    <3>4. CASE job'[t] = job[t]
      <4>1. /\ Len(posted'[w]) \in Nat /\ Len(posted[w]) <= Len(posted'[w])
            /\ \A m \in 1..Len(posted[w]) : posted'[w][m] = posted[w][m]
        BY DEF EventsInv
      <4> QED BY <3>2, <3>3, <3>4, <4>1, SessionKept
    <3>5. CASE ~job[t].running /\ job'[t] = BeginRetirement(job[t], "capacity")
      BY <3>2, <3>3, <3>5, RoomMade
    <3> QED BY <3>2, <3>4, <3>5
  <2> QED BY <2>1, <2>2
<1> QED BY <1>3, <1>4

(* CreateSession: the object is unknown to everybody, and only an idle session makes room. *)
LEMMA CreateStep ==
  ASSUME TurnsInv, NEW v \in Conversations, NEW n \in 1..MaxPosts, CreateSession(v, n)
  PROVE  TurnsInv'
<1> DEFINE unknown == {t \in Sessions : Forgotten(t)}
           s == CHOOSE t \in unknown : TRUE
           new == NewJob(v, n)
<1>1. /\ Receives(v, n) /\ ~Seen(v, n) /\ jobOf[v] = NoSession /\ unknown # {}
      /\ events' = Tail(events) /\ jobOf' = [jobOf EXCEPT ![v] = s]
      /\ loop' = [loop EXCEPT ![s] = "turn"] /\ accepted' = [accepted EXCEPT ![s] = <<n>>]
      /\ UNCHANGED <<posted, due>>
  BY DEF CreateSession, outside
<1>2. s \in Sessions /\ Forgotten(s)
  BY <1>1
<1>3. n \in Nat /\ n \in 1..Len(posted[v]) /\ posted[v][n] \in Senders
  BY <1>1, MessageIsNew
<1>4. \/ job' = [job EXCEPT ![s] = new] /\ retirer' = retirer
      \/ \E old \in {t \in Active : Unused(job[t])} :
           /\ job' = [job EXCEPT ![s] = new, ![old] = BeginRetirement(@, "capacity")]
           /\ Spawn(old)
  BY DEF CreateSession, NewJob
<1>5. ~Current(s)
  BY <1>2 DEF Forgotten
<1>6. new \in Jobs /\ job \in [Sessions -> Jobs]
  BY <1>3, NewFields DEF TurnsInv, JobsInv
<1>7. EventsInv'
  BY <1>1, EventTaken DEF TurnsInv, Receives
<1>8. CASE job' = [job EXCEPT ![s] = new] /\ retirer' = retirer
  <2> HIDE DEF s, new
  <2>1. /\ job' \in [Sessions -> Jobs] /\ job'[s] = new
        /\ \A t \in Sessions \ {s} : job'[t] = job[t]
    BY <1>2, <1>6, <1>8
  <2>2. JobsInv' /\ SessionsInv'
    BY <1>1, <1>2, <1>3, <1>5, <2>1, SessionCreated DEF TurnsInv, new
  <2> QED BY <1>1, <1>7, <1>8, <2>2 DEF TurnsInv, RetirersInv
<1>9. ASSUME NEW old \in {t \in Active : Unused(job[t])},
             job' = [job EXCEPT ![s] = new, ![old] = BeginRetirement(@, "capacity")],
             Spawn(old)
      PROVE  TurnsInv'
  <2>1. old \in Sessions /\ Current(old) /\ ~job[old].running /\ old # s
    BY <1>5 DEF Active, Unused
  <2> HIDE DEF s, new
  <2> DEFINE r == BeginRetirement(job[old], "capacity")
  <2>2. r \in Jobs
    BY <1>6, <2>1 DEF BeginRetirement, Jobs
  <2>3. job' = [[job EXCEPT ![s] = new] EXCEPT ![old] = r]
    BY <1>2, <1>6, <1>9, <2>1
  <2> HIDE DEF r
  <2>4. /\ job' \in [Sessions -> Jobs] /\ job'[s] = new /\ job'[old] = r
        /\ \A t \in Sessions \ {s, old} : job'[t] = job[t]
    BY <1>2, <1>6, <2>1, <2>2, <2>3
  <2>5. JobsInv' /\ SessionsInv'
    BY <1>1, <1>2, <1>3, <1>5, <2>1, <2>4, SessionCreated DEF TurnsInv, new, r
  <2>6. RetirersInv'
    BY <1>1, <1>9, <2>1, SpawnStep DEF TurnsInv, RetirersInv
  <2> QED BY <1>7, <2>5, <2>6 DEF TurnsInv
<1> QED BY <1>4, <1>8, <1>9

-----------------------------------------------------------------------------
(* The invariant holds at the start.                                      *)
LEMMA TurnsInitially == ARInit => TurnsInv
<1> SUFFICES ASSUME ARInit PROVE TurnsInv
  OBVIOUS
<1>1. EventsInv
  BY DEF ARInit, EventsInv
<1>2. \A s \in Sessions : ~Current(s)
  BY RunnerAssumption DEF ARInit, Current
<1>3. JobsInv
  BY BlankIsJob DEF ARInit, JobsInv
<1>4. RetirersInv
  BY DEF ARInit, RetirersInv, Retirements, Free
<1>5. SessionsInv
  BY <1>2 DEF SessionsInv, Current
<1> QED BY <1>1, <1>3, <1>4, <1>5 DEF TurnsInv

(* Every step keeps the invariant.                                        *)
LEMMA TurnsStep == TurnsInv /\ [ARNext]_arVars => TurnsInv'
<1> SUFFICES ASSUME TurnsInv, [ARNext]_arVars PROVE TurnsInv'
  OBVIOUS
<1>1. CASE \E v \in Conversations :
             \/ \E u \in Senders : Post(v, u)
             \/ UserCloses(v) \/ Repeat(v) \/ CloseSession(v)
             \/ \E n \in 1..MaxPosts :
                  DropSeen(v, n) \/ GiveToSession(v, n) \/ CreateSession(v, n) \/ Reject(v, n)
  BY <1>1, PostStep, EventStep, CloseSessionStep, GiveStep, CreateStep
<1>2. CASE \E s \in Sessions :
             \/ BeginTurn(s) \/ ModelAnswers(s) \/ ModelRefuses(s) \/ ToolsReturn(s)
             \/ AfterCycle(s)
             \/ TimerFires(s) \/ TimerRuns(s)
  BY <1>2, BeginTurnStep, AnswerStep, RefusalStep, AfterCycleStep, TimerStep
<1>3. CASE \E r \in Retirers : RetireJob(r) \/ CloseTopic(r) \/ Retired(r)
  BY <1>3, RetireJobStep, CloseTopicStep, RetiredStep
<1>4. CASE UNCHANGED arVars
  <2>1. UNCHANGED <<posted, events, jobOf, job, due, loop, retirer, accepted>>
    BY <1>4 DEF arVars
  <2> QED BY <2>1, JobsKept, AllKept DEF TurnsInv, EventsInv, RetirersInv
<1> QED BY <1>1, <1>2, <1>3, <1>4 DEF ARNext, AllRetired

(* conversationAgentRunner (runner.go): in no conversation is a message
   that was given to the current session dropped, overtaken, handled under
   another sender's authorization, or left behind by a session that stops,
   is retired or makes room. *)
THEOREM EveryoneInTurn == ARSpec => []InTurn
<1>1. TurnsInv => InTurn
  <2> SUFFICES ASSUME TurnsInv, NEW v \in Conversations, jobOf[v] # NoSession
               PROVE  NoneMissing(jobOf[v]) /\ OneSender(jobOf[v]) /\ Attended(jobOf[v])
    BY DEF InTurn
  <2> DEFINE s == jobOf[v]
  <2>1. s \in Sessions /\ SessionInv(s, v)
    BY DEF TurnsInv, JobsInv, SessionsInv
  <2>2. NoneMissing(s)
    BY <2>1 DEF SessionInv, AcceptedInv
  <2>3. OneSender(s)
    BY <2>1 DEF SessionInv, SendersInv, OneSender
  <2>4. Attended(s)
    BY <2>1 DEF SessionInv, BusyInv, Attended
  <2> QED BY <2>2, <2>3, <2>4
<1> QED BY <1>1, TurnsInitially, TurnsStep, PTL DEF ARSpec
-----------------------------------------------------------------------------
(* The type of the rest: what the server keeps, and the watermarks. The    *)
(* conversation of a session that is being retired does not change, so     *)
(* that a goroutine that closes it closes a topic.                         *)
ClosersInv ==
  \A r \in Retirers : retirer[r].at = "close" => job[retirer[r].session].key \in Topics

WatermarksInv ==
  /\ lastSeenSeq \in [Conversations -> Nat]
  /\ seqOrder \in Seq(Conversations) /\ Len(seqOrder) <= MaxWatermarks

RestInv ==
  /\ archived \subseteq Topics /\ repeats \in 0..MaxRepeats
  /\ WatermarksInv /\ ClosersInv

\* Of the sessions, only those that nobody retires change their conversation:
\* that of a current one is the conversation it is the session of, before the
\* step and after it.
LEMMA KeysKept ==
  ASSUME TurnsInv, TurnsInv', ARNext, NEW r \in Retirers, retirer[r].at # "none"
  PROVE  job'[retirer[r].session].key = job[retirer[r].session].key
<1> DEFINE s == retirer[r].session
           same == job'[s].key = job[s].key
<1>1. s \in Sessions /\ job \in [Sessions -> Jobs] /\ ~Forgotten(s) /\ job[s] \in Jobs
  BY DEF TurnsInv, RetirersInv, JobsInv, Forgotten
<1> SUFFICES same
  OBVIOUS
<1> HIDE DEF s
<1>2. ASSUME NEW v \in Conversations, jobOf[v] = s, jobOf'[v] = s PROVE same
  BY <1>1, <1>2 DEF TurnsInv, SessionsInv, SessionInv
<1>3. ASSUME NEW v \in Conversations, Drop(v) PROVE same
  <2>1. jobOf[v] = s => job[s].key = v
    BY <1>1 DEF TurnsInv, SessionsInv, SessionInv
  <2> QED BY <1>1, <1>3, <2>1 DEF Drop, Blank
<1>4. CASE jobOf' = jobOf /\ Current(s)
  BY <1>2, <1>4 DEF Current
<1>5. CASE job' = job
  BY <1>5
<1>6. ASSUME NEW t \in Sessions, ~Current(s), BeginTurn(t) PROVE same
  <2>1. \/ job' = job
        \/ job' = [job EXCEPT ![t] = Turned(MessagesForRequest(job[t]))]
           /\ (t = s => job[s].turns # MaxTurns)
    BY <1>6 DEF BeginTurn, Turned
  <2>2. MessagesForRequest(job[s]) = job[s] /\ job[s].queued = <<>>
    BY <1>1, <1>6, TakesNothing DEF TurnsInv
  <2>3. job[s].turns # MaxTurns => Turned(job[s]).key = job[s].key
    BY <1>1, <2>2, TurnedFields DEF SameTurn
  <2> QED BY <1>1, <2>1, <2>2, <2>3
<1>7. ASSUME NEW t \in Sessions, ~Current(s), AfterCycle(t) PROVE same
  <2>1. t = s => job' = [job EXCEPT ![t] = Rested(job[t])]
    BY <1>7 DEF AfterCycle, Rested
  <2>2. t # s => same
    BY <1>1, <1>7 DEF AfterCycle
  <2>3. Rested(job[s]).key = job[s].key
    BY <1>1, RestedFields
  <2> QED BY <1>1, <2>1, <2>2, <2>3
<1>8. ASSUME NEW t \in Sessions, TimerFires(t) PROVE same
  <2>1. job' = [job EXCEPT ![t] = [job[t] EXCEPT !.timer = "none"]]
    BY <1>8 DEF TimerFires
  <2>2. [job[s] EXCEPT !.timer = "none"].key = job[s].key
    BY <1>1 DEF Jobs
  <2> QED BY <1>1, <2>1, <2>2
<1>9. CASE \E v \in Conversations :
             \/ \E u \in Senders : Post(v, u)
             \/ UserCloses(v) \/ Repeat(v) \/ CloseSession(v)
             \/ \E n \in 1..MaxPosts : DropSeen(v, n) \/ Reject(v, n)
  BY <1>3, <1>5, <1>9 DEF Post, UserCloses, Repeat, CloseSession, DropSeen, Reject
<1>10. ASSUME NEW v \in Conversations, NEW n \in 1..MaxPosts, GiveToSession(v, n)
       PROVE  same
  <2>1. jobOf' = jobOf /\ \E j : job' = [job EXCEPT ![jobOf[v]] = j]
    BY <1>10 DEF GiveToSession
  <2>2. ~Current(s) => jobOf[v] # s
    BY DEF Current
  <2> QED BY <1>1, <1>4, <2>1, <2>2
<1>11. ASSUME NEW v \in Conversations, NEW n \in 1..MaxPosts, CreateSession(v, n)
       PROVE  same
  <2> DEFINE unknown == {t \in Sessions : Forgotten(t)}
             new == CHOOSE t \in unknown : TRUE
  <2>1. /\ unknown # {} /\ jobOf[v] = NoSession /\ jobOf' = [jobOf EXCEPT ![v] = new]
        /\ \/ job' = [job EXCEPT ![new] = NewJob(v, n)]
           \/ \E old \in {t \in Active : Unused(job[t])} :
                job' = [job EXCEPT ![new] = NewJob(v, n), ![old] = BeginRetirement(@, "capacity")]
    BY <1>11 DEF CreateSession, NewJob
  <2>2. new \in unknown
    BY <2>1
  <2>3. new # s
    BY <1>1, <2>2
  <2> HIDE DEF new, unknown
  <2>4. CASE Current(s)
    <3>1. PICK w \in Conversations : jobOf[w] = s
      BY <2>4 DEF Current
    <3>2. w # v /\ jobOf'[w] = s
      BY <1>1, <2>1, <3>1, RunnerAssumption DEF TurnsInv, JobsInv
    <3> QED BY <1>2, <3>1, <3>2
  <2>5. CASE ~Current(s)
    <3>1. s \notin Active
      BY <2>5 DEF Active
    <3> QED BY <1>1, <2>1, <2>3, <3>1
  <2> QED BY <2>4, <2>5
<1>12. ASSUME NEW t \in Sessions,
              ModelAnswers(t) \/ ModelRefuses(t) \/ ToolsReturn(t) \/ TimerRuns(t)
       PROVE  same
  <2>1. jobOf' = jobOf
    BY <1>12 DEF ModelAnswers, ModelRefuses, ToolsReturn, TimerRuns, runnerRest
  <2>2. \/ job' = job
        \/ (t = s => Current(s) \/ job[s].queued # <<>>) /\ \E j : job' = [job EXCEPT ![t] = j]
    BY <1>12 DEF ModelAnswers, ModelRefuses, ToolsReturn, TimerRuns, MayRetire
  <2>3. job[s].queued # <<>> => Current(s)
    BY <1>1 DEF TurnsInv, JobsInv
  <2> QED BY <1>1, <1>4, <1>5, <2>1, <2>2, <2>3
<1>13. ASSUME NEW q \in Retirers, RetireJob(q) \/ CloseTopic(q) \/ Retired(q)
       PROVE  same
  <2>1. job[retirer[q].session].key \in Conversations
    BY <1>13 DEF RetireJob, CloseTopic, Retired, TurnsInv, RetirersInv, JobsInv, Jobs
  <2>2. \/ job' = job
        \/ Drop(job[retirer[q].session].key)
        \/ /\ jobOf' = jobOf /\ Current(retirer[q].session)
           /\ \E j : job' = [job EXCEPT ![retirer[q].session] = j]
    BY <1>13 DEF RetireJob, CloseTopic, Retired, retireRest, Valid
  <2> QED BY <1>1, <1>3, <1>4, <1>5, <2>1, <2>2
<1>14. CASE AllRetired
  BY <1>5, <1>14 DEF AllRetired, arVars
<1>15. ASSUME NEW t \in Sessions, BeginTurn(t) \/ AfterCycle(t) PROVE same
  <2>1. jobOf' = jobOf
    BY <1>15 DEF BeginTurn, AfterCycle, runnerRest
  <2> QED BY <1>4, <1>6, <1>7, <1>15, <2>1
<1> HIDE DEF same
<1> QED BY <1>8, <1>9, <1>10, <1>11, <1>12, <1>13, <1>14, <1>15 DEF ARNext

\* A goroutine closes a topic once it has read its last number.
LEMMA ClosersStep ==
  ASSUME TurnsInv, TurnsInv', ClosersInv, ARNext
  PROVE  ClosersInv'
<1> SUFFICES ASSUME NEW r \in Retirers, retirer'[r].at = "close"
             PROVE  job'[retirer'[r].session].key \in Topics
  BY DEF ClosersInv
<1>1. retirer \in [Retirers -> Retirements]
  BY DEF TurnsInv, RetirersInv
<1>2. ASSUME NEW s \in Sessions, retirer' = Superseded(s) \/ Spawn(s)
      PROVE  retirer'[r].at = retirer[r].at /\ retirer'[r].session = retirer[r].session
  <2>1. /\ Superseded(s) \in [Retirers -> Retirements]
        /\ Superseded(s)[r].at = retirer[r].at /\ Superseded(s)[r].session = retirer[r].session
    BY <1>1 DEF Superseded, Retirements
  <2>2. CASE Spawn(s)
    <3>1. PICK n : retirer' = [Superseded(s) EXCEPT ![n] =
                     [session |-> s, valid |-> TRUE, at |-> "get", expected |-> 0]]
      BY <2>2 DEF Spawn
    <3> HIDE DEF Superseded
    <3>2. r # n
      BY <2>1, <3>1
    <3> QED BY <2>1, <3>1, <3>2
  <2> QED BY <1>2, <2>1, <2>2
<1>3. ASSUME NEW q \in Retirers, RetireJob(q) \/ CloseTopic(q) \/ Retired(q), q = r
      PROVE  retirer'[r].session = retirer[r].session /\ retirer[r].at # "none"
             /\ job[retirer[r].session].key \in Topics
  BY <1>1, <1>3 DEF RetireJob, CloseTopic, Retired, At, Free, Retirements
<1>4. ASSUME NEW q \in Retirers, RetireJob(q) \/ CloseTopic(q) \/ Retired(q), q # r
      PROVE  retirer'[r] = retirer[r]
  BY <1>1, <1>4 DEF RetireJob, CloseTopic, Retired, At
<1>5. \/ retirer'[r] = retirer[r]
      \/ \E s \in Sessions : retirer' = Superseded(s) \/ Spawn(s)
      \/ \E q \in Retirers : RetireJob(q) \/ CloseTopic(q) \/ Retired(q)
  <2>1. CASE \E v \in Conversations :
               \/ \E u \in Senders : Post(v, u)
               \/ UserCloses(v) \/ Repeat(v) \/ CloseSession(v)
               \/ \E n \in 1..MaxPosts : DropSeen(v, n) \/ Reject(v, n)
    BY <2>1 DEF Post, UserCloses, Repeat, CloseSession, DropSeen, Reject
  <2>2. CASE \E v \in Conversations, n \in 1..MaxPosts : GiveToSession(v, n)
    BY <2>2 DEF GiveToSession, TurnsInv, JobsInv
  <2>3. CASE \E v \in Conversations, n \in 1..MaxPosts : CreateSession(v, n)
    BY <2>3 DEF CreateSession, Active
  <2>4. CASE \E s \in Sessions :
               \/ BeginTurn(s) \/ ModelAnswers(s) \/ ModelRefuses(s) \/ ToolsReturn(s)
               \/ AfterCycle(s) \/ TimerFires(s)
    BY <2>4 DEF BeginTurn, ModelAnswers, ModelRefuses, ToolsReturn, AfterCycle, TimerFires,
                runnerRest
  <2>5. CASE \E s \in Sessions : TimerRuns(s)
    BY <2>5 DEF TimerRuns
  <2>6. CASE \E q \in Retirers : RetireJob(q) \/ CloseTopic(q) \/ Retired(q)
    BY <2>6
  <2>7. CASE AllRetired
    BY <2>7 DEF AllRetired, arVars
  <2> QED BY <2>1, <2>2, <2>3, <2>4, <2>5, <2>6, <2>7 DEF ARNext
<1>6. /\ retirer'[r].session = retirer[r].session /\ retirer[r].at # "none"
      /\ job[retirer[r].session].key \in Topics
  BY <1>2, <1>3, <1>4, <1>5 DEF ClosersInv
<1> QED BY <1>6, KeysKept

\* The order of the watermarks grows by a conversation or loses its first.
LEMMA SequenceRecorded ==
  ASSUME WatermarksInv, NEW v \in Conversations, NEW n \in Nat, RecordSequence(v, n)
  PROVE  WatermarksInv'
<1> DEFINE order == IF lastSeenSeq[v] = 0 THEN Append(seqOrder, v) ELSE seqOrder
<1>1. /\ order \in Seq(Conversations) /\ Len(order) \in Nat
      /\ Len(order) <= MaxWatermarks + 1 /\ MaxWatermarks \in Nat
  BY RunnerAssumption DEF WatermarksInv
<1>2. seqOrder' = IF Len(order) > MaxWatermarks THEN Tail(order) ELSE order
  BY DEF RecordSequence
<1>3. lastSeenSeq' \in [Conversations -> Nat]
  BY DEF RecordSequence, WatermarksInv
<1> HIDE DEF order
<1>4. seqOrder' \in Seq(Conversations) /\ Len(seqOrder') <= MaxWatermarks
  <2>1. CASE Len(order) > MaxWatermarks
    <3>1. order # <<>>
      BY <1>1, <2>1
    <3> QED BY <1>1, <1>2, <2>1, <3>1
  <2> QED BY <1>1, <1>2, <2>1
<1> QED BY <1>3, <1>4 DEF WatermarksInv

LEMMA RestStep == TurnsInv /\ TurnsInv' /\ RestInv /\ [ARNext]_arVars => RestInv'
<1> SUFFICES ASSUME TurnsInv, TurnsInv', RestInv, [ARNext]_arVars PROVE RestInv'
  OBVIOUS
<1>1. CASE UNCHANGED arVars
  BY <1>1 DEF arVars, RestInv, WatermarksInv, ClosersInv
<1> SUFFICES ASSUME ARNext PROVE RestInv'
  BY <1>1
<1>2. ClosersInv'
  BY ClosersStep DEF RestInv
<1>3. CASE \E v \in Conversations :
             (\E u \in Senders : Post(v, u)) \/ UserCloses(v) \/ Repeat(v) \/ CloseSession(v)
  BY <1>2, <1>3, RunnerAssumption
  DEF Post, UserCloses, Repeat, CloseSession, Archived, RestInv, WatermarksInv, outside
<1>4. CASE \E v \in Conversations, n \in 1..MaxPosts : DropSeen(v, n) \/ Reject(v, n)
  BY <1>2, <1>4 DEF DropSeen, Reject, RestInv, WatermarksInv, outside
<1>5. CASE \E v \in Conversations, n \in 1..MaxPosts :
             GiveToSession(v, n) \/ CreateSession(v, n)
  <2>1. PICK v \in Conversations, n \in 1..MaxPosts :
               RecordSequence(v, n) /\ UNCHANGED <<archived, repeats>>
    BY <1>5 DEF GiveToSession, CreateSession, outside
  <2>2. n \in Nat
    BY RunnerAssumption
  <2> QED BY <1>2, <2>1, <2>2, SequenceRecorded DEF RestInv
<1>6. CASE \E s \in Sessions :
             \/ BeginTurn(s) \/ ModelAnswers(s) \/ ModelRefuses(s) \/ ToolsReturn(s)
             \/ AfterCycle(s) \/ TimerFires(s) \/ TimerRuns(s)
  BY <1>2, <1>6
  DEF BeginTurn, ModelAnswers, ModelRefuses, ToolsReturn, AfterCycle, TimerFires, TimerRuns,
      RestInv, WatermarksInv, runnerRest, outside
<1>7. CASE \E r \in Retirers : RetireJob(r) \/ Retired(r)
  BY <1>2, <1>7 DEF RetireJob, Retired, RestInv, WatermarksInv, outside, retireRest
<1>8. CASE \E r \in Retirers : CloseTopic(r)
  BY <1>2, <1>8 DEF CloseTopic, Archived, ClosersInv, RestInv, WatermarksInv, retireRest
<1> QED BY <1>1, <1>3, <1>4, <1>5, <1>6, <1>7, <1>8 DEF ARNext, AllRetired

(* Every reachable state of the runner is type correct: among others, the  *)
(* watermarks are no more than runner.go allows, and whatever a session    *)
(* that is dropped or retired meanwhile does, only topics are closed.      *)
THEOREM RunnerTypeCorrect == ARSpec => []ARTypeOK
<1>1. ARInit => RestInv
  BY RunnerAssumption DEF ARInit, RestInv, WatermarksInv, ClosersInv, Free
<1>2. TurnsInv /\ RestInv => ARTypeOK
  BY DEF TurnsInv, EventsInv, JobsInv, RetirersInv, Retirements, RestInv, WatermarksInv, ARTypeOK
<1> QED BY <1>1, <1>2, RestStep, TurnsInitially, TurnsStep, PTL DEF ARSpec
=============================================================================
