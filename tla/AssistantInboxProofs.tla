-------------------------- MODULE AssistantInboxProofs ------------------------
(***************************************************************************)
(* Theorems about AssistantInbox, for every number of generations and      *)
(* drainers, every length of the queue and every value of the bounds.      *)
(***************************************************************************)
EXTENDS AssistantInbox, SequenceTheorems, FiniteSetTheorems, TLAPS

Places == {"none", "top", "handle", "ack", "acking", "pop"}
QueuedEvent == [cursor : Nat \ {0}, handled : BOOLEAN]

(* The part of TypeOK the argument needs.                                  *)
Ranges ==
  /\ lastCursor \in Nat /\ pending \subseteq 1..lastCursor
  /\ stream \in [Gens -> Seq(Nat \ {0})] /\ hand \in [Gens -> Nat]
  /\ cliUp \in [Gens -> BOOLEAN] /\ srvUp \in [Gens -> BOOLEAN]
  /\ queue \in Seq(QueuedEvent) /\ log \in Seq(Nat \ {0})
  /\ dpc \in [Drainers -> Places]
  /\ lastAcked \in Nat

(* What some process of the assistant has handled, and what this one has   *)
(* handled or will.                                                        *)
Handled == handledBefore \cup ToSet(log)
Known == Handled \cup Queued

(* A drainer that is past its look has the head of the queue, and has      *)
(* handled it once it acknowledges; a drainer that has not seen the latest *)
(* arrival will look again.                                                *)
DrainerInv ==
  /\ \A d, e \in Drainers : dpc[d] # "none" /\ dpc[e] # "none" => d = e
  /\ running <=> \E d \in Drainers : dpc[d] # "none"
  /\ \A d \in Drainers :
       /\ dpc[d] \in {"handle", "ack", "acking", "pop"} =>
            queue # <<>> /\ (d \in unseen \/ tried)
       /\ dpc[d] = "handle" => ~queue[1].handled
       /\ dpc[d] \in {"ack", "acking", "pop"} => queue[1].handled
  /\ ~running /\ queue # <<>> => tried

(* The queue is a run of events without holes above what is handled: what  *)
(* an event has below it was handled or is queued before it.               *)
QueueInv ==
  /\ \A p \in DOMAIN queue : \A i \in 1..(queue[p].cursor - 1) :
       i \in Handled \/ \E q \in 1..(p - 1) : queue[q].cursor = i
  /\ \A p, q \in DOMAIN queue : queue[p].cursor = queue[q].cursor => p = q
  /\ \A p \in DOMAIN queue : queue[p].handled <=> queue[p].cursor \in ToSet(log)

(* So is what this process has handled: it is queued still or acknowledged. *)
LogInv ==
  /\ \A c \in ToSet(log) : (c <= lastAcked \/ c \in Queued) /\ 1..c \subseteq Handled
  /\ 1..lastAcked \subseteq Handled
  /\ HandledInOrder

(* And so are the events on their way to a client that will read them.     *)
StreamInv ==
  /\ \A g \in Gens : hand[g] # NoMessage => 1..(hand[g] - 1) \subseteq Known
  /\ \A g \in Gens : cliUp[g] /\ g \notin refused =>
       /\ \A p \in DOMAIN stream[g] : \A i \in 1..(stream[g][p] - 1) :
            i \in Known \cup {hand[g]} \/ \E q \in 1..(p - 1) : stream[g][q] = i
       /\ srvUp[g] => 1..lastCursor \subseteq Known \cup {hand[g]} \cup ToSet(stream[g])

(* Everything below an ACK on its way was handled.                         *)
AckInv ==
  /\ \A k \in ackReqs \cup lateAcks : 1..k \subseteq Handled
  /\ 1..lastCursor \subseteq pending \cup Handled

InboxInv == Ranges /\ DrainerInv /\ QueueInv /\ LogInv /\ StreamInv /\ AckInv

-----------------------------------------------------------------------------
(* Sequences.                                                              *)

\* What a sequence holds after an element was appended.
LEMMA ToSetAppend ==
  ASSUME NEW S, NEW s \in Seq(S), NEW e \in S
  PROVE  /\ Append(s, e) \in Seq(S) /\ ToSet(Append(s, e)) = ToSet(s) \cup {e}
         /\ DOMAIN s = 1..Len(s) /\ DOMAIN Append(s, e) = 1..(Len(s) + 1)
         /\ Len(s) \in Nat
         /\ Append(s, e)[Len(s) + 1] = e
         /\ \A p \in 1..Len(s) : Append(s, e)[p] = s[p]
<1>1. /\ Append(s, e) \in Seq(S) /\ Len(Append(s, e)) = Len(s) + 1
      /\ \A p \in 1..Len(s) : Append(s, e)[p] = s[p]
      /\ Append(s, e)[Len(s) + 1] = e
  BY AppendProperties
<1>2. /\ Len(s) \in Nat /\ DOMAIN s = 1..Len(s)
      /\ DOMAIN Append(s, e) = 1..(Len(s) + 1)
  BY <1>1, LenProperties
<1>3. ToSet(Append(s, e)) = ToSet(s) \cup {e}
  BY <1>1, <1>2 DEF ToSet
<1> QED BY <1>1, <1>2, <1>3

\* The head and the tail of a sequence.
LEMMA HeadTail ==
  ASSUME NEW S, NEW s \in Seq(S), s # <<>>
  PROVE  /\ Head(s) = s[1] /\ s[1] \in S /\ Tail(s) \in Seq(S)
         /\ Len(s) \in Nat \ {0} /\ DOMAIN s = 1..Len(s)
         /\ DOMAIN Tail(s) = 1..(Len(s) - 1)
         /\ \A p \in 1..(Len(s) - 1) : Tail(s)[p] = s[p + 1]
         /\ ToSet(s) = {s[1]} \cup ToSet(Tail(s))
<1>1. /\ Head(s) = s[1] /\ Tail(s) \in Seq(S) /\ Len(Tail(s)) = Len(s) - 1
      /\ \A p \in 1..(Len(s) - 1) : Tail(s)[p] = s[p + 1]
  BY HeadTailProperties
<1>2. Len(s) \in Nat \ {0} /\ DOMAIN s = 1..Len(s)
  BY EmptySeq, LenProperties
<1>3. DOMAIN Tail(s) = 1..(Len(s) - 1)
  BY <1>1, LenProperties
<1>4. s[1] \in S
  BY <1>2, ElementOfSeq
<1>5. ToSet(s) = {s[1]} \cup ToSet(Tail(s))
  <2>1. \A p \in 1..Len(s) : p = 1 \/ (p - 1 \in 1..(Len(s) - 1) /\ s[p] = Tail(s)[p - 1])
    BY <1>1, <1>2
  <2>2. \A p \in 1..(Len(s) - 1) : p + 1 \in 1..Len(s)
    BY <1>2
  <2>3. 1 \in 1..Len(s)
    BY <1>2
  <2>4. ASSUME NEW c \in ToSet(s)
        PROVE  c \in {s[1]} \cup ToSet(Tail(s))
    <3>1. PICK p \in 1..Len(s) : c = s[p]
      BY <1>2 DEF ToSet
    <3>2. CASE p # 1
      <4>1. p - 1 \in DOMAIN Tail(s) /\ c = Tail(s)[p - 1]
        BY <1>3, <2>1, <3>1, <3>2
      <4> QED BY <4>1 DEF ToSet
    <3> QED BY <3>1, <3>2
  <2>5. {s[1]} \cup ToSet(Tail(s)) \subseteq ToSet(s)
    BY <1>1, <1>2, <1>3, <2>2, <2>3 DEF ToSet
  <2> QED BY <2>4, <2>5
<1> QED BY <1>1, <1>2, <1>3, <1>4, <1>5

-----------------------------------------------------------------------------
(* What does not change.                                                   *)

\* The invariants of the queue and of the log are about the queue and the log.
LEMMA SameQueue ==
  ASSUME QueueInv, LogInv, UNCHANGED <<queue, lastAcked, logVars>>
  PROVE  QueueInv' /\ LogInv' /\ Handled' = Handled /\ Known' = Known
BY DEF QueueInv, LogInv, HandledInOrder, Handled, Known, Queued, logVars

\* That of the drainers is about the queue and the drainers.
LEMMA SameDrainers ==
  ASSUME DrainerInv, UNCHANGED queueVars
  PROVE  DrainerInv'
BY DEF DrainerInv, queueVars

\* Initially there is nothing.
LEMMA InitInv ==
  ASSUME Init
  PROVE  InboxInv
<1>1. ToSet(log) = {} /\ DOMAIN queue = {} /\ DOMAIN log = {}
  BY EmptySeq DEF Init, ToSet
<1>2. Ranges
  <2>1. /\ queue \in Seq(QueuedEvent) /\ log \in Seq(Nat \ {0})
        /\ stream \in [Gens -> Seq(Nat \ {0})] /\ hand \in [Gens -> Nat]
        /\ lastCursor \in Nat /\ pending \subseteq 1..lastCursor /\ lastAcked \in Nat
    BY EmptySeq DEF Init, NoMessage
  <2>2. cliUp \in [Gens -> BOOLEAN] /\ srvUp \in [Gens -> BOOLEAN]
    BY DEF Init
  <2>3. dpc \in [Drainers -> Places]
    BY DEF Init, Places
  <2> QED BY <2>1, <2>2, <2>3 DEF Ranges
<1>3. DrainerInv
  BY DEF Init, DrainerInv
<1>4. QueueInv /\ LogInv /\ StreamInv /\ AckInv
  BY <1>1 DEF Init, QueueInv, LogInv, StreamInv, AckInv, HandledInOrder, NoMessage
<1> QED BY <1>2, <1>3, <1>4 DEF InboxInv

-----------------------------------------------------------------------------
(* The server and the network.                                             *)

\* A new event is appended to the streams of the live connections.
LEMMA PublishInv ==
  ASSUME InboxInv, Publish
  PROVE  InboxInv'
<1> USE DEF InboxInv
<1>1. /\ lastCursor' = lastCursor + 1 /\ pending' = pending \cup {lastCursor + 1}
      /\ stream' = [g \in Gens |->
           IF srvUp[g] THEN Append(stream[g], lastCursor + 1) ELSE stream[g]]
      /\ UNCHANGED <<srvUp, cliUp, hand, refused, ackVars, queueVars, logVars>>
  BY DEF Publish
<1>2. lastCursor \in Nat /\ lastCursor + 1 \in Nat \ {0}
  BY DEF Ranges
<1>3. ASSUME NEW g \in Gens
      PROVE  /\ stream[g] \in Seq(Nat \ {0}) /\ stream'[g] \in Seq(Nat \ {0})
             /\ Len(stream[g]) \in Nat /\ DOMAIN stream[g] = 1..Len(stream[g])
             /\ srvUp[g] =>
                  /\ DOMAIN stream'[g] = 1..(Len(stream[g]) + 1)
                  /\ \A p \in 1..Len(stream[g]) : stream'[g][p] = stream[g][p]
                  /\ stream'[g][Len(stream[g]) + 1] = lastCursor + 1
                  /\ ToSet(stream'[g]) = ToSet(stream[g]) \cup {lastCursor + 1}
             /\ ~srvUp[g] => stream'[g] = stream[g]
  <2>1. stream[g] \in Seq(Nat \ {0})
    BY DEF Ranges
  <2>2. stream'[g] = IF srvUp[g] THEN Append(stream[g], lastCursor + 1) ELSE stream[g]
    BY <1>1
  <2> QED BY <1>2, <2>1, <2>2, ToSetAppend
<1>4. UNCHANGED <<queue, lastAcked, logVars>>
  BY <1>1 DEF queueVars
<1>5. DrainerInv' /\ QueueInv' /\ LogInv' /\ Handled' = Handled /\ Known' = Known
  BY <1>1, <1>4, SameQueue, SameDrainers
<1>6. Ranges'
  <2>1. stream' \in [Gens -> Seq(Nat \ {0})]
    BY <1>1, <1>3
  <2>2. pending' \subseteq 1..lastCursor'
    BY <1>1, <1>2 DEF Ranges
  <2> QED BY <1>1, <1>2, <2>1, <2>2 DEF Ranges, queueVars, logVars
<1>7. AckInv'
  <2>1. UNCHANGED <<ackReqs, lateAcks>>
    BY <1>1 DEF ackVars
  <2>2. 1..lastCursor' \subseteq pending' \cup Handled'
    BY <1>1, <1>2, <1>5 DEF AckInv
  <2> QED BY <1>5, <2>1, <2>2 DEF AckInv
<1>8. StreamInv'
  <2>1. \A g \in Gens : hand'[g] # NoMessage => 1..(hand'[g] - 1) \subseteq Known'
    BY <1>1, <1>5 DEF StreamInv
  <2>2. ASSUME NEW g \in Gens, cliUp'[g] /\ g \notin refused'
        PROVE  /\ \A p \in DOMAIN stream'[g] : \A i \in 1..(stream'[g][p] - 1) :
                    \/ i \in Known' \cup {hand'[g]}
                    \/ \E q \in 1..(p - 1) : stream'[g][q] = i
               /\ srvUp'[g] =>
                    1..lastCursor' \subseteq Known' \cup {hand'[g]} \cup ToSet(stream'[g])
    <3>1. /\ \A p \in DOMAIN stream[g] : \A i \in 1..(stream[g][p] - 1) :
               \/ i \in Known' \cup {hand'[g]}
               \/ \E q \in 1..(p - 1) : stream[g][q] = i
          /\ srvUp[g] =>
               1..lastCursor \subseteq Known' \cup {hand'[g]} \cup ToSet(stream[g])
      BY <1>1, <1>5, <2>2 DEF StreamInv
    <3>2. CASE ~srvUp[g]
      BY <1>1, <1>3, <3>1, <3>2
    <3>3. CASE srvUp[g]
      <4> DEFINE n == Len(stream[g])
      <4>1. ASSUME NEW p \in 1..n, NEW i \in 1..(stream'[g][p] - 1)
            PROVE  \/ i \in Known' \cup {hand'[g]}
                   \/ \E q \in 1..(p - 1) : stream'[g][q] = i
        <5>1. i \in 1..(stream[g][p] - 1) /\ p \in DOMAIN stream[g]
          BY <1>3, <3>3
        <5>2. \/ i \in Known' \cup {hand'[g]}
              \/ \E q \in 1..(p - 1) : stream[g][q] = i
          BY <3>1, <5>1
        <5>3. \A q \in 1..(p - 1) : stream'[g][q] = stream[g][q]
          BY <1>3, <3>3
        <5> QED BY <5>2, <5>3
      <4>2. ASSUME NEW i \in 1..lastCursor
            PROVE  \/ i \in Known' \cup {hand'[g]}
                   \/ \E q \in 1..n : stream'[g][q] = i
        <5>1. i \in Known' \cup {hand'[g]} \cup ToSet(stream[g])
          BY <3>1, <3>3
        <5>2. CASE i \in ToSet(stream[g])
          <6>1. PICK q \in 1..n : stream[g][q] = i
            BY <1>3, <5>2 DEF ToSet
          <6> QED BY <1>3, <3>3, <6>1
        <5> QED BY <5>1, <5>2
      <4>3. ASSUME NEW p \in DOMAIN stream'[g], NEW i \in 1..(stream'[g][p] - 1)
            PROVE  \/ i \in Known' \cup {hand'[g]}
                   \/ \E q \in 1..(p - 1) : stream'[g][q] = i
        <5>1. p \in 1..n \/ p = n + 1
          <6>1. n \in Nat /\ p \in 1..(n + 1)
            BY <1>3, <3>3
          <6> HIDE DEF n
          <6> QED BY <6>1
        <5>2. CASE p \in 1..n
          BY <4>1, <5>2
        <5>3. CASE p = n + 1
          <6>1. i \in 1..lastCursor /\ p - 1 = n
            BY <1>2, <1>3, <3>3, <5>3
          <6> QED BY <4>2, <6>1
        <5> QED BY <5>1, <5>2, <5>3
      <4>4. 1..lastCursor' \subseteq Known' \cup {hand'[g]} \cup ToSet(stream'[g])
        <5>1. lastCursor' = lastCursor + 1
              /\ ToSet(stream'[g]) = ToSet(stream[g]) \cup {lastCursor + 1}
          BY <1>1, <1>3, <3>3
        <5>2. 1..(lastCursor + 1) \subseteq 1..lastCursor \cup {lastCursor + 1}
          BY <1>2
        <5> QED BY <3>1, <3>3, <5>1, <5>2
      <4> QED BY <4>3, <4>4
    <3> QED BY <3>2, <3>3
  <2> QED BY <2>1, <2>2 DEF StreamInv
<1> QED BY <1>5, <1>6, <1>7, <1>8

\* The invariant of the streams is about the links, and about what is known.
LEMMA SameStreams ==
  ASSUME StreamInv, UNCHANGED <<lastCursor, linkVars>>, Known' = Known
  PROVE  StreamInv'
BY DEF StreamInv, linkVars

\* An ACK that is served, answered or lost: everything it covers was handled.
LEMMA AckServedInv ==
  ASSUME InboxInv, NEW k \in Cursors, ServeAck(k) \/ ServeLateAck(k) \/ LoseAck(k)
  PROVE  InboxInv'
<1> USE DEF InboxInv
<1>1. /\ UNCHANGED <<lastCursor, linkVars, queueVars, logVars>>
      /\ ackReqs' \subseteq ackReqs /\ lateAcks' \subseteq lateAcks
      /\ pending' = pending \/ (k \in ackReqs \cup lateAcks /\ Confirm(k))
  BY DEF ServeAck, ServeLateAck, LoseAck, serverVars
<1>2. UNCHANGED <<queue, lastAcked, logVars>>
  BY <1>1 DEF queueVars
<1>3. DrainerInv' /\ QueueInv' /\ LogInv' /\ Handled' = Handled /\ Known' = Known
  BY <1>1, <1>2, SameQueue, SameDrainers
<1>4. StreamInv'
  BY <1>1, <1>3, SameStreams
<1>5. k \in Nat /\ pending \subseteq 1..lastCursor /\ lastCursor \in Nat
  BY InboxAssumption DEF Cursors, Ranges
<1>6. pending' \subseteq pending
  BY <1>1 DEF Confirm
<1>7. Ranges'
  BY <1>1, <1>5, <1>6 DEF Ranges, linkVars, queueVars, logVars
<1>8. 1..lastCursor \subseteq pending' \cup Handled
  <2>1. CASE pending' = pending
    BY <2>1 DEF AckInv
  <2>2. CASE k \in ackReqs \cup lateAcks /\ Confirm(k)
    <3>1. 1..k \subseteq Handled /\ 1..lastCursor \subseteq pending \cup Handled
      BY <2>2 DEF AckInv
    <3>2. pending' = {i \in pending : i > k}
      BY <2>2 DEF Confirm
    <3>3. \A i \in pending : i > k \/ i \in 1..k
      BY <1>5
    <3> QED BY <3>1, <3>2, <3>3
  <2> QED BY <1>1, <2>1, <2>2
<1>9. AckInv'
  BY <1>1, <1>3, <1>8 DEF AckInv
<1> QED BY <1>3, <1>4, <1>7, <1>9

\* A new connection replays what is pending; the rest was handled.
LEMMA ConnectInv ==
  ASSUME InboxInv, NEW g \in Gens, Connect(g)
  PROVE  InboxInv'
<1> USE DEF InboxInv
<1>1. PICK s \in [1..Cardinality(pending) -> pending] :
        IsReplay(s) /\ stream' = [stream EXCEPT ![g] = s]
  BY DEF Connect
<1>2. /\ UNCHANGED <<serverVars, hand, refused, ackVars, queueVars, logVars>>
      /\ cliUp' = [cliUp EXCEPT ![g] = TRUE] /\ srvUp' = [srvUp EXCEPT ![g] = TRUE]
  BY DEF Connect
<1>3. UNCHANGED <<queue, lastAcked, logVars>>
  BY <1>2 DEF queueVars
<1>4. DrainerInv' /\ QueueInv' /\ LogInv' /\ Handled' = Handled /\ Known' = Known
  BY <1>2, <1>3, SameQueue, SameDrainers
<1>5. Cardinality(pending) \in Nat
  <2>1. IsFiniteSet(1..lastCursor)
    BY FS_Interval DEF Ranges
  <2>2. IsFiniteSet(pending)
    BY <2>1, FS_Subset DEF Ranges
  <2> QED BY <2>2, FS_CardinalityType
<1>6. s \in Seq(Nat \ {0}) /\ DOMAIN s = 1..Cardinality(pending) /\ pending \subseteq Nat \ {0}
  <2>1. pending \subseteq Nat \ {0}
    BY DEF Ranges
  <2>2. s \in [1..Cardinality(pending) -> Nat \ {0}]
    BY <1>1, <2>1
  <2> QED BY <1>1, <1>5, <2>1, <2>2, SeqDef
<1>7. Ranges'
  <2>1. stream' \in [Gens -> Seq(Nat \ {0})]
    BY <1>1, <1>6 DEF Ranges
  <2>2. cliUp' \in [Gens -> BOOLEAN] /\ srvUp' \in [Gens -> BOOLEAN]
    BY <1>2 DEF Ranges
  <2> QED BY <1>2, <2>1, <2>2 DEF Ranges, serverVars, queueVars, logVars
<1>8. AckInv'
  BY <1>2, <1>4 DEF AckInv, serverVars, ackVars
<1>9. StreamInv'
  <2>1. 1..lastCursor \subseteq Known \cup ToSet(s)
    BY <1>1 DEF AckInv, Known, IsReplay
  <2>2. ASSUME NEW p \in DOMAIN s, NEW i \in 1..(s[p] - 1)
        PROVE  i \in Known \/ \E q \in 1..(p - 1) : s[q] = i
    <3>1. s[p] \in 1..lastCursor /\ s[p] \in Nat
      <4>1. s[p] \in pending
        BY <1>1
      <4>2. pending \subseteq 1..lastCursor /\ pending \subseteq Nat \ {0}
        BY DEF Ranges
      <4> QED BY <4>1, <4>2
    <3>2. i \in 1..lastCursor /\ i < s[p]
      BY <3>1 DEF Ranges
    <3>3. CASE i \in ToSet(s)
      <4>1. PICK q \in DOMAIN s : s[q] = i
        BY <3>3 DEF ToSet
      <4>2. ~(p < q) /\ q # p
        BY <1>1, <1>6, <3>1, <3>2, <4>1 DEF IsReplay
      <4>3. q \in 1..(p - 1)
        BY <1>5, <1>6, <4>2
      <4> QED BY <4>1, <4>3
    <3> QED BY <2>1, <3>2, <3>3
  <2>3. ASSUME NEW h \in Gens, cliUp'[h] /\ h \notin refused'
        PROVE  /\ \A p \in DOMAIN stream'[h] : \A i \in 1..(stream'[h][p] - 1) :
                    \/ i \in Known' \cup {hand'[h]}
                    \/ \E q \in 1..(p - 1) : stream'[h][q] = i
               /\ srvUp'[h] =>
                    1..lastCursor' \subseteq Known' \cup {hand'[h]} \cup ToSet(stream'[h])
    <3>1. CASE h = g
      <4>1. stream'[h] = s /\ lastCursor' = lastCursor
        BY <1>1, <1>2, <3>1 DEF Ranges, serverVars
      <4> QED BY <1>4, <2>1, <2>2, <4>1
    <3>2. CASE h # g
      <4>1. /\ stream'[h] = stream[h] /\ cliUp'[h] = cliUp[h] /\ srvUp'[h] = srvUp[h]
            /\ UNCHANGED <<lastCursor, hand, refused>>
        BY <1>1, <1>2, <3>2 DEF Ranges, serverVars
      <4> QED BY <1>4, <2>3, <4>1 DEF StreamInv
    <3> QED BY <3>1, <3>2
  <2>4. \A h \in Gens : hand'[h] # NoMessage => 1..(hand'[h] - 1) \subseteq Known'
    BY <1>2, <1>4 DEF StreamInv
  <2> QED BY <2>3, <2>4 DEF StreamInv
<1> QED BY <1>4, <1>7, <1>8, <1>9

\* A connection that ends loses its stream, at whichever end it is noticed.
LEMMA CloseInv ==
  ASSUME InboxInv, NEW g \in Gens, ClientCloses(g) \/ ServerCloses(g)
  PROVE  InboxInv'
<1> USE DEF InboxInv
<1>1. UNCHANGED <<serverVars, hand, ackVars, queueVars, logVars>>
  BY DEF ClientCloses, ServerCloses
<1>2. UNCHANGED <<queue, lastAcked, logVars>>
  BY <1>1 DEF queueVars
<1>3. DrainerInv' /\ QueueInv' /\ LogInv' /\ Handled' = Handled /\ Known' = Known
  BY <1>1, <1>2, SameQueue, SameDrainers
<1>4. AckInv'
  BY <1>1, <1>3 DEF AckInv, serverVars, ackVars
<1>5. stream' = stream \/ stream' = [stream EXCEPT ![g] = <<>>]
  BY DEF ClientCloses, ServerCloses
<1>6. cliUp' \in [Gens -> BOOLEAN] /\ srvUp' \in [Gens -> BOOLEAN]
  BY DEF ClientCloses, ServerCloses, Ranges
<1>7. Ranges'
  <2>1. stream' \in [Gens -> Seq(Nat \ {0})]
    BY <1>5, EmptySeq DEF Ranges
  <2> QED BY <1>1, <1>6, <2>1 DEF Ranges, serverVars, queueVars, logVars
<1>8. ASSUME NEW h \in Gens, cliUp'[h] /\ h \notin refused'
      PROVE  /\ cliUp[h] /\ h \notin refused /\ stream'[h] = stream[h]
             /\ srvUp'[h] => srvUp[h]
  <2>1. CASE ClientCloses(g)
    BY <1>8, <2>1 DEF ClientCloses, Ranges
  <2>2. CASE ServerCloses(g)
    BY <1>8, <2>2 DEF ServerCloses, Ranges
  <2> QED BY <2>1, <2>2
<1>9. StreamInv'
  BY <1>1, <1>3, <1>8 DEF StreamInv, serverVars
<1> QED BY <1>3, <1>4, <1>7, <1>9

\* The read goroutine takes the first message of its stream.
LEMMA ReadInv ==
  ASSUME InboxInv, NEW g \in Gens, Read(g)
  PROVE  InboxInv'
<1> USE DEF InboxInv
<1>1. /\ UNCHANGED <<serverVars, srvUp, cliUp, refused, ackVars, queueVars, logVars>>
      /\ cliUp[g] /\ g \notin refused /\ hand[g] = NoMessage /\ stream[g] # <<>>
      /\ hand' = [hand EXCEPT ![g] = Head(stream[g])]
      /\ stream' = [stream EXCEPT ![g] = Tail(stream[g])]
  BY DEF Read
<1>2. UNCHANGED <<queue, lastAcked, logVars>>
  BY <1>1 DEF queueVars
<1>3. DrainerInv' /\ QueueInv' /\ LogInv' /\ Handled' = Handled /\ Known' = Known
  BY <1>1, <1>2, SameQueue, SameDrainers
<1>4. AckInv'
  BY <1>1, <1>3 DEF AckInv, serverVars, ackVars
<1>5. stream[g] \in Seq(Nat \ {0})
  BY DEF Ranges
<1>6. /\ Head(stream[g]) = stream[g][1] /\ stream[g][1] \in Nat \ {0}
      /\ Tail(stream[g]) \in Seq(Nat \ {0})
      /\ Len(stream[g]) \in Nat \ {0} /\ DOMAIN stream[g] = 1..Len(stream[g])
      /\ DOMAIN Tail(stream[g]) = 1..(Len(stream[g]) - 1)
      /\ \A p \in 1..(Len(stream[g]) - 1) : Tail(stream[g])[p] = stream[g][p + 1]
      /\ ToSet(stream[g]) = {stream[g][1]} \cup ToSet(Tail(stream[g]))
  BY <1>1, <1>5, HeadTail
<1>7. Ranges'
  <2>1. stream' \in [Gens -> Seq(Nat \ {0})] /\ hand' \in [Gens -> Nat]
    BY <1>1, <1>6 DEF Ranges
  <2> QED BY <1>1, <2>1 DEF Ranges, serverVars, queueVars, logVars
<1>8. /\ hand'[g] = stream[g][1] /\ stream'[g] = Tail(stream[g])
      /\ \A h \in Gens \ {g} : hand'[h] = hand[h] /\ stream'[h] = stream[h]
  BY <1>1, <1>6 DEF Ranges
<1>9. /\ \A p \in DOMAIN stream[g] : \A i \in 1..(stream[g][p] - 1) :
           i \in Known \cup {hand[g]} \/ \E q \in 1..(p - 1) : stream[g][q] = i
      /\ srvUp[g] => 1..lastCursor \subseteq Known \cup {hand[g]} \cup ToSet(stream[g])
  BY <1>1 DEF StreamInv
<1>10. \A i \in Nat \ {0} : i \in Known \cup {hand[g]} => i \in Known
  BY <1>1 DEF NoMessage
<1>11. 1..(hand'[g] - 1) \subseteq Known
  <2>1. ASSUME NEW i \in 1..(stream[g][1] - 1)
        PROVE  i \in Known
    <3>1. 1 \in DOMAIN stream[g] /\ 1..(1 - 1) = {}
      BY <1>6
    <3>2. i \in Known \cup {hand[g]}
      BY <1>9, <3>1
    <3> QED BY <1>10, <3>2
  <2> QED BY <1>8, <2>1
<1>12. ASSUME NEW p \in DOMAIN stream'[g], NEW i \in 1..(stream'[g][p] - 1)
       PROVE  \/ i \in Known \cup {hand'[g]}
              \/ \E q \in 1..(p - 1) : stream'[g][q] = i
  <2>1. /\ p \in 1..(Len(stream[g]) - 1) /\ p + 1 \in DOMAIN stream[g]
        /\ i \in 1..(stream[g][p + 1] - 1) /\ (p + 1) - 1 = p
    BY <1>6, <1>8
  <2>2. i \in Known \cup {hand[g]} \/ \E q \in 1..p : stream[g][q] = i
    BY <1>9, <2>1
  <2>3. CASE i \in Known \cup {hand[g]}
    BY <1>10, <2>3
  <2>4. CASE \E q \in 1..p : stream[g][q] = i
    <3>1. PICK q \in 1..p : stream[g][q] = i
      BY <2>4
    <3>2. q = 1 \/ (q - 1 \in 1..(p - 1) /\ q - 1 \in 1..(Len(stream[g]) - 1)
                    /\ (q - 1) + 1 = q)
      <4>1. Len(stream[g]) \in Nat /\ p \in 1..(Len(stream[g]) - 1)
        BY <1>6, <2>1
      <4>2. p \in Nat /\ p <= Len(stream[g]) - 1 /\ q \in 1..p
        BY <4>1, <3>1
      <4> QED BY <4>1, <4>2
    <3>3. CASE q = 1
      BY <1>8, <3>1, <3>3
    <3>4. CASE q # 1
      <4>1. stream'[g][q - 1] = i
        BY <1>6, <1>8, <3>1, <3>2, <3>4
      <4> QED BY <3>2, <3>4, <4>1
    <3> QED BY <3>3, <3>4
  <2> QED BY <2>2, <2>3, <2>4
<1>13. srvUp[g] => 1..lastCursor \subseteq Known \cup {hand'[g]} \cup ToSet(stream'[g])
  <2>1. \A i \in 1..lastCursor : i \in Nat \ {0}
    OBVIOUS
  <2> QED BY <1>6, <1>8, <1>9, <1>10, <2>1
<1>14. StreamInv'
  <2>1. UNCHANGED <<lastCursor, srvUp, cliUp, refused>>
    BY <1>1 DEF serverVars
  <2>2. \A h \in Gens : hand'[h] # NoMessage => 1..(hand'[h] - 1) \subseteq Known'
    BY <1>3, <1>8, <1>11 DEF StreamInv
  <2>3. ASSUME NEW h \in Gens, cliUp'[h] /\ h \notin refused'
        PROVE  /\ \A p \in DOMAIN stream'[h] : \A i \in 1..(stream'[h][p] - 1) :
                    \/ i \in Known' \cup {hand'[h]}
                    \/ \E q \in 1..(p - 1) : stream'[h][q] = i
               /\ srvUp'[h] =>
                    1..lastCursor' \subseteq Known' \cup {hand'[h]} \cup ToSet(stream'[h])
    <3>1. CASE h = g
      BY <1>3, <1>12, <1>13, <2>1, <3>1
    <3>2. CASE h # g
      BY <1>3, <1>8, <2>1, <2>3, <3>2 DEF StreamInv
    <3> QED BY <3>1, <3>2
  <2> QED BY <2>2, <2>3 DEF StreamInv
<1> QED BY <1>3, <1>4, <1>7, <1>14

-----------------------------------------------------------------------------
(* The drainer.                                                            *)

\* A goroutine that drains is the only one.
LEMMA OnlyDrainer ==
  ASSUME Ranges, DrainerInv, NEW d \in Drainers, dpc[d] # "none"
  PROVE  running /\ \A e \in Drainers \ {d} : dpc[e] = "none"
BY DEF DrainerInv

\* The drainer goes on to place x, or stops if there is nothing it could have missed.
LEMMA DrainerMoves ==
  ASSUME Ranges, DrainerInv, NEW d \in Drainers, dpc[d] # "none", NEW x \in Places,
         dpc' = [dpc EXCEPT ![d] = x], running' <=> (x # "none"),
         x = "none" /\ queue' # <<>> => tried',
         x \in {"handle", "ack", "acking", "pop"} =>
           queue' # <<>> /\ (d \in unseen' \/ tried'),
         x = "handle" => ~queue'[1].handled,
         x \in {"ack", "acking", "pop"} => queue'[1].handled
  PROVE  DrainerInv' /\ dpc' \in [Drainers -> Places]
<1>1. \A e \in Drainers \ {d} : dpc[e] = "none"
  BY OnlyDrainer
<1>2. /\ dpc' \in [Drainers -> Places] /\ dpc'[d] = x
      /\ \A e \in Drainers \ {d} : dpc'[e] = "none"
  BY <1>1 DEF Ranges
<1>3. \A e, f \in Drainers : dpc'[e] # "none" /\ dpc'[f] # "none" => e = f
  BY <1>2
<1>4. running' <=> \E e \in Drainers : dpc'[e] # "none"
  BY <1>2
<1>5. ~running' /\ queue' # <<>> => tried'
  OBVIOUS
<1>6. \A e \in Drainers :
        /\ dpc'[e] \in {"handle", "ack", "acking", "pop"} =>
             queue' # <<>> /\ (e \in unseen' \/ tried')
        /\ dpc'[e] = "handle" => ~queue'[1].handled
        /\ dpc'[e] \in {"ack", "acking", "pop"} => queue'[1].handled
  BY <1>2
<1> QED BY <1>2, <1>3, <1>4, <1>5, <1>6 DEF DrainerInv

\* stopOrRetryAppEvent: a drainer that stops had looked after the last arrival.
LEMMA StopOrRetryInv ==
  ASSUME Ranges, DrainerInv, NEW d \in Drainers,
         dpc[d] \in {"handle", "ack", "acking"}, StopOrRetry(d),
         UNCHANGED <<queue, unseen, tried>>
  PROVE  DrainerInv' /\ dpc' \in [Drainers -> Places]
<1>1. dpc[d] # "none" /\ running /\ (d \in unseen \/ tried)
  BY OnlyDrainer DEF DrainerInv
<1>2. CASE d \in unseen
  <2>1. dpc' = [dpc EXCEPT ![d] = "top"] /\ running' = running
    BY <1>2 DEF StopOrRetry
  <2> QED BY <1>1, <2>1, DrainerMoves DEF Places
<1>3. CASE d \notin unseen
  <2>1. dpc' = [dpc EXCEPT ![d] = "none"] /\ running' = FALSE
    BY <1>3 DEF StopOrRetry
  <2> QED BY <1>1, <1>3, <2>1, DrainerMoves DEF Places
<1> QED BY <1>2, <1>3

\* Looking at the queue, and the ACK of its head until it is answered or given up.
LEMMA DrainInv ==
  ASSUME InboxInv, NEW d \in Drainers,
         \/ Look(d) \/ SendAck(d) \/ AckAnswered(d) \/ HandleFails(d) \/ AckFails(d)
  PROVE  InboxInv'
<1> USE DEF InboxInv
<1>1. UNCHANGED <<serverVars, linkVars, queue, lastAcked, logVars>>
  BY DEF Look, SendAck, AckAnswered, HandleFails, AckFails
<1>2. QueueInv' /\ LogInv' /\ Handled' = Handled /\ Known' = Known
  BY <1>1, SameQueue
<1>3. StreamInv'
  BY <1>1, <1>2, SameStreams DEF serverVars
<1>4. DrainerInv' /\ dpc' \in [Drainers -> Places]
  <2>1. CASE Look(d)
    <3>1. dpc[d] = "top" /\ running
      BY <2>1, OnlyDrainer DEF Look
    <3>2. CASE queue = <<>>
      <4>1. running' = FALSE /\ dpc' = [dpc EXCEPT ![d] = "none"] /\ queue' = <<>>
        BY <1>1, <2>1, <3>2 DEF Look
      <4> QED BY <3>1, <4>1, DrainerMoves DEF Places
    <3>3. CASE queue # <<>> /\ queue[1].handled
      <4>1. dpc' = [dpc EXCEPT ![d] = "ack"] /\ tried' = TRUE /\ running' = running
        BY <2>1, <3>3 DEF Look
      <4> QED BY <1>1, <3>1, <3>3, <4>1, DrainerMoves DEF Places
    <3>4. CASE queue # <<>> /\ ~queue[1].handled
      <4>1. dpc' = [dpc EXCEPT ![d] = "handle"] /\ tried' = TRUE /\ running' = running
        BY <2>1, <3>4 DEF Look
      <4> QED BY <1>1, <3>1, <3>4, <4>1, DrainerMoves DEF Places
    <3> QED BY <3>2, <3>3, <3>4
  <2>2. CASE SendAck(d) \/ AckAnswered(d)
    <3>1. PICK x \in {"acking", "pop"} : dpc' = [dpc EXCEPT ![d] = x]
      BY <2>2 DEF SendAck, AckAnswered
    <3>2. /\ dpc[d] \in {"ack", "acking"} /\ UNCHANGED <<running, unseen, tried>>
          /\ dpc[d] # "none"
      BY <2>2 DEF SendAck, AckAnswered
    <3>3. running /\ queue # <<>> /\ (d \in unseen \/ tried) /\ queue[1].handled
      BY <3>2, OnlyDrainer DEF DrainerInv
    <3> QED BY <1>1, <3>1, <3>2, <3>3, DrainerMoves DEF Places
  <2>3. CASE HandleFails(d) \/ AckFails(d)
    <3>1. /\ dpc[d] \in {"handle", "ack", "acking"} /\ StopOrRetry(d)
          /\ UNCHANGED <<unseen, tried>>
      BY <2>3 DEF HandleFails, AckFails
    <3> QED BY <1>1, <3>1, StopOrRetryInv
  <2> QED BY <2>1, <2>2, <2>3
<1>5. Ranges'
  BY <1>1, <1>4 DEF Ranges, serverVars, linkVars, logVars
<1>6. \A k \in ackReqs' \cup lateAcks' :
        k \in ackReqs \cup lateAcks \/ (SendAck(d) /\ k = queue[1].cursor)
  BY DEF Look, SendAck, AckAnswered, HandleFails, AckFails, ackVars
<1>7. SendAck(d) => 1..queue[1].cursor \subseteq Handled
  <2>1. ASSUME SendAck(d) PROVE 1..queue[1].cursor \subseteq Handled
    <3>1. queue # <<>> /\ queue[1].handled
      BY <2>1 DEF SendAck, DrainerInv
    <3>2. queue \in Seq(QueuedEvent)
      BY DEF Ranges
    <3>3. 1 \in DOMAIN queue
      BY <3>1, <3>2, HeadTail
    <3>4. queue[1].cursor \in ToSet(log)
      BY <3>1, <3>3 DEF QueueInv
    <3> QED BY <3>4 DEF LogInv
  <2> QED BY <2>1
<1>8. AckInv'
  BY <1>1, <1>2, <1>6, <1>7 DEF AckInv, serverVars
<1> QED BY <1>2, <1>3, <1>4, <1>5, <1>8

\* What the drainer that is past its look knows of the head of the queue.
LEMMA HeadFacts ==
  ASSUME InboxInv, NEW d \in Drainers, dpc[d] \in {"handle", "ack", "acking", "pop"}
  PROVE  /\ queue \in Seq(QueuedEvent) /\ queue # <<>> /\ 1 \in DOMAIN queue
         /\ Len(queue) \in Nat \ {0} /\ DOMAIN queue = 1..Len(queue)
         /\ queue[1] \in QueuedEvent /\ queue[1].cursor \in Nat \ {0}
         /\ 1..(queue[1].cursor - 1) \subseteq Handled
         /\ dpc[d] # "none" /\ running /\ (d \in unseen \/ tried)
<1> USE DEF InboxInv
<1>1. queue # <<>> /\ dpc[d] # "none" /\ (d \in unseen \/ tried)
  BY DEF DrainerInv
<1>2. running
  BY <1>1, OnlyDrainer
<1>3. queue \in Seq(QueuedEvent)
  BY DEF Ranges
<1>4. /\ Len(queue) \in Nat \ {0} /\ DOMAIN queue = 1..Len(queue)
      /\ queue[1] \in QueuedEvent /\ 1 \in DOMAIN queue
  BY <1>1, <1>3, HeadTail
<1>5. queue[1].cursor \in Nat \ {0}
  BY <1>4 DEF QueuedEvent
<1>6. 1..(queue[1].cursor - 1) \subseteq Handled
  <2>1. 1..(1 - 1) = {}
    OBVIOUS
  <2> QED BY <1>4, <2>1 DEF QueueInv
<1> QED BY <1>1, <1>2, <1>3, <1>4, <1>5, <1>6

\* The handler of the head returns: everything below the head was handled before.
LEMMA HandleInv ==
  ASSUME InboxInv, NEW d \in Drainers, Handle(d)
  PROVE  InboxInv'
<1> USE DEF InboxInv
<1> DEFINE h == queue[1].cursor
<1>1. /\ dpc[d] = "handle"
      /\ queue' = [queue EXCEPT ![1].handled = TRUE] /\ log' = Append(log, h)
      /\ dpc' = [dpc EXCEPT ![d] = "ack"]
      /\ UNCHANGED <<serverVars, linkVars, ackVars, running, lastAcked, unseen, tried,
                     handledBefore>>
  BY DEF Handle
<1>2. /\ queue \in Seq(QueuedEvent) /\ queue # <<>> /\ 1 \in DOMAIN queue
      /\ Len(queue) \in Nat \ {0} /\ DOMAIN queue = 1..Len(queue)
      /\ queue[1] \in QueuedEvent /\ h \in Nat \ {0} /\ 1..(h - 1) \subseteq Handled
      /\ dpc[d] # "none" /\ running /\ (d \in unseen \/ tried)
  BY <1>1, HeadFacts
<1>3. ~queue[1].handled /\ h \notin ToSet(log)
  BY <1>1, <1>2 DEF DrainerInv, QueueInv
<1>4. /\ queue' \in Seq(QueuedEvent) /\ DOMAIN queue' = DOMAIN queue
      /\ queue' # <<>>
      /\ \A p \in DOMAIN queue : queue'[p].cursor = queue[p].cursor
      /\ queue'[1].handled /\ \A p \in DOMAIN queue \ {1} : queue'[p] = queue[p]
  <2>1. queue' = [queue EXCEPT ![1] = [queue[1] EXCEPT !.handled = TRUE]]
    BY <1>1
  <2>2. /\ [queue[1] EXCEPT !.handled = TRUE] \in QueuedEvent
        /\ [queue[1] EXCEPT !.handled = TRUE].cursor = h
        /\ [queue[1] EXCEPT !.handled = TRUE].handled
    BY <1>2 DEF QueuedEvent
  <2>3. queue' \in Seq(QueuedEvent) /\ Len(queue') = Len(queue)
    BY <1>2, <2>1, <2>2, ExceptSeq
  <2> QED BY <1>2, <2>1, <2>2, <2>3, EmptySeq, LenProperties
<1>5. /\ log \in Seq(Nat \ {0}) /\ log' \in Seq(Nat \ {0}) /\ ToSet(log') = ToSet(log) \cup {h}
      /\ Len(log) \in Nat /\ DOMAIN log = 1..Len(log) /\ DOMAIN log' = 1..(Len(log) + 1)
      /\ log'[Len(log) + 1] = h
      /\ \A p \in 1..Len(log) : log'[p] = log[p]
  <2>1. log \in Seq(Nat \ {0})
    BY DEF Ranges
  <2> QED BY <1>1, <1>2, <2>1, ToSetAppend
<1>6. Handled' = Handled \cup {h} /\ Queued' = Queued
  BY <1>1, <1>4, <1>5 DEF Handled, Queued
<1>7. Handled \subseteq Handled' /\ Known \subseteq Known' /\ 1..h \subseteq Handled'
  <2>1. \A i \in 1..h : i = h \/ i \in 1..(h - 1)
    BY <1>2
  <2> QED BY <1>2, <1>6, <2>1 DEF Known
<1>8. DrainerInv' /\ dpc' \in [Drainers -> Places]
  BY <1>1, <1>2, <1>4, DrainerMoves DEF Places
<1>9. Ranges'
  BY <1>1, <1>4, <1>5, <1>8 DEF Ranges, serverVars, linkVars
<1>10. QueueInv'
  <2>1. \A p \in DOMAIN queue' : \A i \in 1..(queue'[p].cursor - 1) :
          i \in Handled' \/ \E q \in 1..(p - 1) : queue'[q].cursor = i
    <3>1. ASSUME NEW p \in DOMAIN queue', NEW i \in 1..(queue'[p].cursor - 1)
          PROVE  i \in Handled' \/ \E q \in 1..(p - 1) : queue'[q].cursor = i
      <4>1. i \in Handled \/ \E q \in 1..(p - 1) : queue[q].cursor = i
        BY <1>4 DEF QueueInv
      <4>2. \A q \in 1..(p - 1) : q \in DOMAIN queue
        BY <1>2, <1>4
      <4> QED BY <1>4, <1>7, <4>1, <4>2
    <3> QED BY <3>1
  <2>2. \A p, q \in DOMAIN queue' : queue'[p].cursor = queue'[q].cursor => p = q
    BY <1>4 DEF QueueInv
  <2>3. \A p \in DOMAIN queue' : queue'[p].handled <=> queue'[p].cursor \in ToSet(log')
    <3>1. ASSUME NEW p \in DOMAIN queue, p # 1
          PROVE  queue'[p].handled <=> queue'[p].cursor \in ToSet(log')
      <4>1. queue[p].cursor # h
        BY <1>2, <3>1 DEF QueueInv
      <4>2. queue[p].handled <=> queue[p].cursor \in ToSet(log)
        BY <3>1 DEF QueueInv
      <4> QED BY <1>4, <1>5, <3>1, <4>1, <4>2
    <3>2. queue'[1].handled /\ queue'[1].cursor \in ToSet(log')
      BY <1>2, <1>4, <1>5
    <3> QED BY <1>4, <3>1, <3>2
  <2> QED BY <2>1, <2>2, <2>3 DEF QueueInv
<1>11. HandledInOrder'
  <2>1. ASSUME NEW i \in 1..Len(log)
        PROVE  log[i] < h \/ (log[i] > h /\ h \in handledBefore)
    <3>1. log[i] \in ToSet(log) /\ log[i] \in Nat
      BY <1>5, ElementOfSeq DEF ToSet
    <3>2. 1..log[i] \subseteq Handled /\ log[i] # h
      BY <1>3, <3>1 DEF LogInv
    <3>3. CASE log[i] > h
      <4>1. h \in 1..log[i]
        BY <1>2, <3>1, <3>3
      <4>2. h \in handledBefore
        BY <1>3, <3>2, <4>1 DEF Handled
      <4> QED BY <3>3, <4>2
    <3> QED BY <1>2, <3>1, <3>2, <3>3
  <2>2. \A i, j \in 1..Len(log) : i < j =>
          log[i] < log[j] \/ (log[i] > log[j] /\ log[j] \in handledBefore)
    BY <1>5 DEF LogInv, HandledInOrder
  <2>3. \A i, j \in 1..(Len(log) + 1) : i < j =>
          log'[i] < log'[j] \/ (log'[i] > log'[j] /\ log'[j] \in handledBefore)
    <3>1. ASSUME NEW i \in 1..(Len(log) + 1), NEW j \in 1..(Len(log) + 1), i < j
          PROVE  log'[i] < log'[j] \/ (log'[i] > log'[j] /\ log'[j] \in handledBefore)
      <4> DEFINE n == Len(log)
      <4>0. n \in Nat
        BY <1>5
      <4>1. i \in 1..n /\ (j \in 1..n \/ j = n + 1)
        <5> HIDE DEF n
        <5>1. i \in 1..(n + 1) /\ j \in 1..(n + 1) /\ i < j
          BY <3>1 DEF n
        <5> QED BY <4>0, <5>1
      <4>2. CASE j \in 1..Len(log)
        BY <1>5, <2>2, <3>1, <4>1, <4>2
      <4>3. CASE j = Len(log) + 1
        BY <1>5, <2>1, <4>1, <4>3
      <4> QED BY <4>1, <4>2, <4>3
    <3> QED BY <3>1
  <2> QED BY <1>1, <1>5, <2>3 DEF HandledInOrder
<1>12. LogInv'
  <2>1. h \in Queued'
    BY <1>2, <1>6 DEF Queued
  <2>2. \A c \in ToSet(log') : (c <= lastAcked' \/ c \in Queued') /\ 1..c \subseteq Handled'
    BY <1>1, <1>5, <1>6, <1>7, <2>1 DEF LogInv
  <2>3. 1..lastAcked' \subseteq Handled'
    BY <1>1, <1>7 DEF LogInv
  <2> QED BY <1>11, <2>2, <2>3 DEF LogInv
<1>13. StreamInv' /\ AckInv'
  BY <1>1, <1>7 DEF StreamInv, AckInv, serverVars, linkVars, ackVars
<1> QED BY <1>8, <1>9, <1>10, <1>12, <1>13

\* The acknowledged head leaves the queue: everything up to it was handled.
LEMMA PopInv ==
  ASSUME InboxInv, NEW d \in Drainers, Pop(d)
  PROVE  InboxInv'
<1> USE DEF InboxInv
<1> DEFINE h == queue[1].cursor
<1>1. /\ dpc[d] = "pop" /\ queue' = Tail(queue) /\ dpc' = [dpc EXCEPT ![d] = "top"]
      /\ lastAcked' = IF h > lastAcked THEN h ELSE lastAcked
      /\ UNCHANGED <<serverVars, linkVars, ackVars, running, unseen, tried, logVars>>
  BY DEF Pop
<1>2. /\ queue \in Seq(QueuedEvent) /\ queue # <<>> /\ 1 \in DOMAIN queue
      /\ h \in Nat \ {0} /\ dpc[d] # "none" /\ running
  BY <1>1, HeadFacts
<1>3. /\ Tail(queue) \in Seq(QueuedEvent)
      /\ Len(queue) \in Nat \ {0} /\ DOMAIN queue = 1..Len(queue)
      /\ DOMAIN Tail(queue) = 1..(Len(queue) - 1)
      /\ \A p \in 1..(Len(queue) - 1) : Tail(queue)[p] = queue[p + 1]
  BY <1>2, HeadTail
<1> DEFINE n == Len(queue)
<1>4. h \in ToSet(log) /\ 1..h \subseteq Handled /\ h \in Handled
  <2>1. h \in ToSet(log)
    BY <1>1, <1>2 DEF DrainerInv, QueueInv
  <2> QED BY <2>1 DEF LogInv, Handled
<1>5. Handled' = Handled /\ ToSet(log') = ToSet(log)
  BY <1>1 DEF Handled, logVars
<1>6. \A p \in 1..n : p = 1 \/ (p - 1 \in 1..(n - 1) /\ (p - 1) + 1 = p)
  <2>1. n \in Nat
    BY <1>3
  <2> HIDE DEF n
  <2> QED BY <2>1
<1>7. \A p \in 1..(n - 1) : p + 1 \in 1..n /\ (p + 1) - 1 = p
  <2>1. n \in Nat
    BY <1>3
  <2> HIDE DEF n
  <2> QED BY <2>1
<1>8. Queued = Queued' \cup {h}
  <2>1. ASSUME NEW c \in Queued
        PROVE  c \in Queued' \cup {h}
    <3>1. PICK p \in 1..n : c = queue[p].cursor
      BY <1>3 DEF Queued
    <3>2. p # 1 => p - 1 \in DOMAIN queue' /\ queue'[p - 1].cursor = c
      BY <1>1, <1>3, <1>6, <3>1
    <3> QED BY <3>1, <3>2 DEF Queued
  <2>2. ASSUME NEW c \in Queued'
        PROVE  c \in Queued
    <3>1. PICK p \in 1..(n - 1) : c = queue'[p].cursor
      BY <1>1, <1>3 DEF Queued
    <3>2. p + 1 \in DOMAIN queue /\ queue[p + 1].cursor = c
      BY <1>1, <1>3, <1>7, <3>1
    <3> QED BY <3>2 DEF Queued
  <2>3. h \in Queued
    BY <1>2 DEF Queued
  <2> QED BY <2>1, <2>2, <2>3
<1>9. Known' = Known
  BY <1>4, <1>5, <1>8 DEF Known
<1>10. DrainerInv' /\ dpc' \in [Drainers -> Places]
  BY <1>1, <1>2, DrainerMoves DEF Places
<1>11. Ranges'
  <2>1. lastAcked' \in Nat
    BY <1>1, <1>2 DEF Ranges
  <2> QED BY <1>1, <1>3, <1>10, <2>1 DEF Ranges, serverVars, linkVars, logVars
<1>12. StreamInv'
  BY <1>1, <1>9, SameStreams DEF serverVars
<1>13. AckInv'
  BY <1>1, <1>5 DEF AckInv, serverVars, ackVars
<1>14. LogInv'
  <2>1. lastAcked \in Nat /\ h <= lastAcked' /\ lastAcked <= lastAcked'
        /\ (lastAcked' = h \/ lastAcked' = lastAcked)
    BY <1>1, <1>2 DEF Ranges
  <2>2. ASSUME NEW c \in ToSet(log')
        PROVE  (c <= lastAcked' \/ c \in Queued') /\ 1..c \subseteq Handled'
    <3>1. c \in ToSet(log) /\ (c <= lastAcked \/ c \in Queued) /\ 1..c \subseteq Handled
      BY <1>5, <2>2 DEF LogInv
    <3>2. c \in Nat
      BY <3>1, ElementOfSeq DEF Ranges, ToSet
    <3>3. c <= lastAcked \/ c = h => c <= lastAcked'
      BY <2>1, <3>2, <1>2, <1>11 DEF Ranges
    <3> QED BY <1>5, <1>8, <3>1, <3>3
  <2>3. 1..lastAcked' \subseteq Handled'
    BY <1>4, <1>5, <2>1 DEF LogInv
  <2>4. HandledInOrder'
    BY <1>1 DEF LogInv, HandledInOrder, logVars
  <2> QED BY <2>2, <2>3, <2>4 DEF LogInv
<1>15. QueueInv'
  <2>0. DOMAIN queue' = 1..(n - 1)
    BY <1>1, <1>3
  <2>1. ASSUME NEW p \in 1..(n - 1)
        PROVE  queue'[p] = queue[p + 1] /\ p + 1 \in DOMAIN queue
    BY <1>1, <1>3, <1>7
  <2>2. ASSUME NEW p \in DOMAIN queue', NEW i \in 1..(queue'[p].cursor - 1)
        PROVE  i \in Handled' \/ \E q \in 1..(p - 1) : queue'[q].cursor = i
    <3>0. p \in 1..(n - 1) /\ p \in Nat /\ (p + 1) - 1 = p
      BY <2>0, <1>7
    <3>1. i \in Handled \/ \E q \in 1..p : queue[q].cursor = i
      <4>1. i \in 1..(queue[p + 1].cursor - 1) /\ p + 1 \in DOMAIN queue
        BY <2>1, <3>0
      <4> QED BY <3>0, <4>1 DEF QueueInv
    <3>2. CASE \E q \in 1..p : queue[q].cursor = i
      <4>1. PICK q \in 1..p : queue[q].cursor = i
        BY <3>2
      <4>2. CASE q = 1
        BY <1>4, <1>5, <4>1, <4>2
      <4>3. CASE q # 1
        <5>1. q \in 1..n
          <6>1. n \in Nat
            BY <1>3
          <6> HIDE DEF n
          <6> QED BY <3>0, <4>1, <6>1
        <5>2. q - 1 \in 1..(p - 1)
          BY <3>0, <4>1, <4>3
        <5>3. queue'[q - 1] = queue[q]
          BY <1>6, <2>1, <4>3, <5>1
        <5> QED BY <4>1, <5>2, <5>3
      <4> QED BY <4>2, <4>3
    <3> QED BY <1>5, <3>1, <3>2
  <2>3. ASSUME NEW p \in DOMAIN queue', NEW q \in DOMAIN queue',
               queue'[p].cursor = queue'[q].cursor
        PROVE  p = q
    <3>1. p \in 1..(n - 1) /\ q \in 1..(n - 1) /\ p \in Int /\ q \in Int
      BY <2>0
    <3>2. p + 1 = q + 1
      BY <2>1, <2>3, <3>1 DEF QueueInv
    <3> QED BY <3>1, <3>2
  <2>4. \A p \in DOMAIN queue' : queue'[p].handled <=> queue'[p].cursor \in ToSet(log')
    BY <1>5, <2>0, <2>1 DEF QueueInv
  <2> QED BY <2>2, <2>3, <2>4 DEF QueueInv
<1> QED BY <1>10, <1>11, <1>12, <1>13, <1>14, <1>15

-----------------------------------------------------------------------------
(* Arrivals and restarts.                                                  *)

\* Something arrived: a drainer will look at it.
LEMMA ArrivalInv ==
  ASSUME Ranges, DrainerInv, Arrival, tried' = FALSE, queue' # <<>>,
         queue # <<>> => queue'[1] = queue[1]
  PROVE  DrainerInv' /\ dpc' \in [Drainers -> Places]
<1>1. unseen' = Drainers /\ running' = TRUE
  BY DEF Arrival
<1>2. CASE running
  <2>1. dpc' = dpc
    BY <1>2 DEF Arrival
  <2> QED BY <1>1, <1>2, <2>1 DEF DrainerInv, Ranges
<1>3. CASE ~running
  <2>1. PICK d \in Drainers : dpc' = [dpc EXCEPT ![d] = "top"]
    BY <1>3 DEF Arrival
  <2>2. \A e \in Drainers : dpc[e] = "none"
    BY <1>3 DEF DrainerInv
  <2>3. /\ dpc' \in [Drainers -> Places] /\ dpc'[d] = "top"
        /\ \A e \in Drainers \ {d} : dpc'[e] = "none"
    BY <2>1, <2>2 DEF Ranges, Places
  <2> QED BY <1>1, <2>3 DEF DrainerInv
<1> QED BY <1>2, <1>3

\* A message that leaves the hand of a client that goes on reading is known.
LEMMA HandEmptied ==
  ASSUME InboxInv, NEW g \in Gens, hand[g] # NoMessage,
         hand' = [hand EXCEPT ![g] = NoMessage],
         UNCHANGED <<lastCursor, srvUp, stream, cliUp>>, refused \subseteq refused',
         Known \subseteq Known', cliUp[g] /\ g \notin refused' => hand[g] \in Known'
  PROVE  StreamInv' /\ hand' \in [Gens -> Nat]
<1> USE DEF InboxInv
<1>1. /\ hand' \in [Gens -> Nat] /\ hand'[g] = NoMessage
      /\ \A h \in Gens \ {g} : hand'[h] = hand[h]
  BY DEF Ranges, NoMessage
<1>2. \A h \in Gens : hand'[h] # NoMessage => 1..(hand'[h] - 1) \subseteq Known'
  BY <1>1 DEF StreamInv
<1>3. ASSUME NEW h \in Gens, cliUp'[h] /\ h \notin refused'
      PROVE  /\ \A p \in DOMAIN stream'[h] : \A i \in 1..(stream'[h][p] - 1) :
                  i \in Known' \cup {hand'[h]} \/ \E q \in 1..(p - 1) : stream'[h][q] = i
             /\ srvUp'[h] =>
                  1..lastCursor' \subseteq Known' \cup {hand'[h]} \cup ToSet(stream'[h])
  <2>1. Known \cup {hand[h]} \subseteq Known' \cup {hand'[h]}
    BY <1>1, <1>3
  <2>2. /\ \A p \in DOMAIN stream[h] : \A i \in 1..(stream[h][p] - 1) :
             i \in Known \cup {hand[h]} \/ \E q \in 1..(p - 1) : stream[h][q] = i
        /\ srvUp[h] => 1..lastCursor \subseteq Known \cup {hand[h]} \cup ToSet(stream[h])
    BY <1>3 DEF StreamInv
  <2> QED BY <2>1, <2>2
<1> QED BY <1>1, <1>2, <1>3 DEF StreamInv

\* A message is given to enqueueAppEvent: it is known, refused or appended.
LEMMA EnqueueInv ==
  ASSUME InboxInv, NEW g \in Gens, Enqueue(g)
  PROVE  InboxInv'
<1> USE DEF InboxInv
<1> DEFINE k == hand[g]
<1>1. /\ k # NoMessage /\ hand' = [hand EXCEPT ![g] = NoMessage]
      /\ UNCHANGED <<serverVars, srvUp, stream, cliUp, ackVars, logVars, lastAcked>>
  BY DEF Enqueue, queueVars
<1>2. k \in Nat \ {0} /\ 1..(k - 1) \subseteq Known
  BY <1>1 DEF Ranges, StreamInv, NoMessage
<1>3. Handled' = Handled /\ AckInv'
  BY <1>1 DEF Handled, AckInv, logVars, serverVars, ackVars
<1>4. UNCHANGED <<lastCursor, srvUp, stream, cliUp>>
  BY <1>1 DEF serverVars
<1>5. Ranges
  OBVIOUS
<1>6. CASE UNCHANGED queue
  <2>1. QueueInv' /\ LogInv' /\ Known' = Known
    BY <1>1, <1>6, SameQueue
  <2>2. /\ refused \subseteq refused' /\ refused' \subseteq Gens \cup refused
        /\ cliUp[g] /\ g \notin refused' => k \in Known
        /\ \/ UNCHANGED queueVars
           \/ Arrival /\ tried' = FALSE /\ queue # <<>>
    <3>1. CASE AlreadyAcked(k) /\ UNCHANGED <<queueVars, refused>>
      <4>1. k \in 1..lastAcked
        BY <1>2, <3>1 DEF Ranges, AlreadyAcked
      <4> QED BY <3>1, <4>1 DEF LogInv, Known
    <3>2. CASE /\ k \in Queued /\ ArrivalAgain /\ tried' = FALSE
               /\ UNCHANGED <<queue, lastAcked, refused>>
      <4>1. queue # <<>>
        BY <3>2, EmptySeq DEF Queued
      <4> QED BY <3>2, <4>1 DEF Known, ArrivalAgain
    <3>3. CASE /\ refused' = IF cliUp[g] THEN refused \cup {g} ELSE refused
               /\ UNCHANGED queueVars
      BY <3>3
    <3>4. CASE queue' = Append(queue, [cursor |-> k, handled |-> FALSE])
      <4>1. [cursor |-> k, handled |-> FALSE] \in QueuedEvent
        BY <1>2 DEF QueuedEvent
      <4>2. Len(queue') = Len(queue) + 1 /\ Len(queue) \in Nat
        BY <3>4, <4>1, AppendProperties, LenProperties DEF Ranges
      <4> QED BY <1>6, <4>2
    <3> QED BY <3>1, <3>2, <3>3, <3>4 DEF Enqueue
  <2>3. StreamInv' /\ hand' \in [Gens -> Nat]
    BY <1>1, <1>4, <2>1, <2>2, HandEmptied
  <2>4. DrainerInv' /\ dpc' \in [Drainers -> Places]
    <3>1. CASE UNCHANGED queueVars
      BY <3>1, SameDrainers DEF Ranges, queueVars
    <3>2. CASE Arrival /\ tried' = FALSE /\ queue # <<>>
      BY <1>6, <3>2, ArrivalInv
    <3> QED BY <2>2, <3>1, <3>2
  <2>5. Ranges'
    BY <1>1, <1>6, <2>3, <2>4 DEF Ranges, serverVars, logVars
  <2> QED BY <1>3, <2>1, <2>3, <2>4, <2>5
<1>7. CASE queue' # queue
  <2> DEFINE e == [cursor |-> k, handled |-> FALSE]
  <2> DEFINE n == Len(queue)
  <2>1. /\ ~AlreadyAcked(k) /\ k \notin Queued /\ Arrival /\ tried' = FALSE
        /\ queue' = Append(queue, e) /\ refused' = refused
    BY <1>7 DEF Enqueue, queueVars
  <2>2. e \in QueuedEvent /\ e.cursor = k /\ ~e.handled
    BY <1>2 DEF QueuedEvent
  <2>3. /\ queue' \in Seq(QueuedEvent) /\ n \in Nat
        /\ DOMAIN queue = 1..n /\ DOMAIN queue' = 1..(n + 1)
        /\ queue'[n + 1] = e /\ \A p \in 1..n : queue'[p] = queue[p]
    <3> HIDE DEF e
    <3> QED BY <2>1, <2>2, ToSetAppend DEF Ranges
  <2>4. \A p \in 1..(n + 1) : p \in 1..n \/ p = n + 1
    <3>1. n \in Nat
      BY <2>3
    <3> HIDE DEF n
    <3> QED BY <3>1
  <2>5. Queued' = Queued \cup {k} /\ Known' = Known \cup {k}
    <3>1. n + 1 \in 1..(n + 1) /\ \A p \in 1..n : p \in 1..(n + 1)
      BY <2>3
    <3>2. Queued' = Queued \cup {k}
      <4>1. ASSUME NEW c \in Queued'
            PROVE  c \in Queued \cup {k}
        <5>1. PICK p \in 1..(n + 1) : c = queue'[p].cursor
          BY <2>3 DEF Queued
        <5> QED BY <2>2, <2>3, <2>4, <5>1 DEF Queued
      <4>2. ASSUME NEW c \in Queued
            PROVE  c \in Queued'
        <5>1. PICK p \in 1..n : c = queue[p].cursor
          BY <2>3 DEF Queued
        <5> QED BY <2>3, <3>1, <5>1 DEF Queued
      <4>3. k \in Queued'
        BY <2>2, <2>3, <3>1 DEF Queued
      <4> QED BY <4>1, <4>2, <4>3
    <3> QED BY <1>3, <3>2 DEF Known
  <2>6. k \notin ToSet(log)
    BY <2>1 DEF LogInv, AlreadyAcked
  <2>7. StreamInv' /\ hand' \in [Gens -> Nat]
    BY <1>1, <1>4, <2>1, <2>5, HandEmptied
  <2>8. DrainerInv' /\ dpc' \in [Drainers -> Places]
    <3>1. queue' # <<>>
      BY <2>3, EmptySeq
    <3>2. queue # <<>> => queue'[1] = queue[1]
      BY <2>3, EmptySeq DEF Ranges
    <3> QED BY <2>1, <3>1, <3>2, ArrivalInv
  <2>9. Ranges'
    BY <1>1, <2>3, <2>7, <2>8 DEF Ranges, serverVars, logVars
  <2>10. LogInv'
    <3>1. ToSet(log') = ToSet(log) /\ log' = log /\ handledBefore' = handledBefore
      BY <1>1 DEF logVars
    <3> QED BY <1>1, <1>3, <2>5, <3>1 DEF LogInv, HandledInOrder
  <2>11. QueueInv'
    <3>1. ASSUME NEW p \in 1..(n + 1), NEW i \in 1..(queue'[p].cursor - 1)
          PROVE  i \in Handled \/ \E q \in 1..(p - 1) : queue'[q].cursor = i
      <4>1. CASE p \in 1..n
        <5>1. i \in Handled \/ \E q \in 1..(p - 1) : queue[q].cursor = i
          BY <2>3, <4>1 DEF QueueInv
        <5>2. \A q \in 1..(p - 1) : q \in 1..n
          BY <2>3, <4>1
        <5> QED BY <2>3, <5>1, <5>2
      <4>2. CASE p = n + 1
        <5>1. i \in Known
          BY <1>2, <2>2, <2>3, <4>2
        <5>2. CASE i \in Queued
          <6>1. PICK q \in 1..n : queue[q].cursor = i
            BY <2>3, <5>2 DEF Queued
          <6>2. (n + 1) - 1 = n
            BY <2>3
          <6> QED BY <2>3, <4>2, <6>1, <6>2
        <5> QED BY <5>1, <5>2 DEF Known
      <4> QED BY <2>4, <4>1, <4>2
    <3>2. ASSUME NEW p \in 1..(n + 1), NEW q \in 1..(n + 1),
                 queue'[p].cursor = queue'[q].cursor
          PROVE  p = q
      <4>1. \A r \in 1..n : queue'[r].cursor # k /\ queue'[r] = queue[r]
        BY <2>1, <2>3 DEF Queued
      <4>2. queue'[n + 1].cursor = k
        BY <2>2, <2>3
      <4>3. CASE p \in 1..n /\ q \in 1..n
        BY <2>3, <3>2, <4>1, <4>3 DEF QueueInv
      <4> QED BY <2>4, <3>2, <4>1, <4>2, <4>3
    <3>3. \A p \in 1..(n + 1) : queue'[p].handled <=> queue'[p].cursor \in ToSet(log')
      <4>1. log' = log
        BY <1>1 DEF logVars
      <4>2. \A p \in 1..n : queue'[p].handled <=> queue'[p].cursor \in ToSet(log)
        BY <2>3 DEF QueueInv
      <4>3. ~queue'[n + 1].handled /\ queue'[n + 1].cursor \notin ToSet(log)
        BY <2>2, <2>3, <2>6
      <4> QED BY <2>4, <4>1, <4>2, <4>3
    <3> QED BY <1>3, <2>3, <3>1, <3>2, <3>3 DEF QueueInv
  <2> QED BY <1>3, <2>7, <2>8, <2>9, <2>10, <2>11
<1> QED BY <1>6, <1>7

\* A restart empties the process; what it had handled stays handled.
LEMMA RestartInv ==
  ASSUME InboxInv, Restart
  PROVE  InboxInv'
<1> USE DEF InboxInv
<1>1. /\ UNCHANGED serverVars /\ UNCHANGED srvUp
      /\ cliUp' = [g \in Gens |-> FALSE] /\ stream' = [g \in Gens |-> <<>>]
      /\ hand' = [g \in Gens |-> NoMessage]
      /\ queue' = <<>> /\ running' = FALSE /\ lastAcked' = 0
      /\ dpc' = [d \in Drainers |-> "none"] /\ tried' = TRUE
      /\ log' = <<>> /\ handledBefore' = handledBefore \cup ToSet(log)
      /\ ackReqs' = {} /\ lateAcks' = lateAcks \cup ackReqs
  BY DEF Restart
<1>2. DOMAIN queue' = {} /\ DOMAIN log' = {} /\ ToSet(log') = {}
  BY <1>1, EmptySeq DEF ToSet
<1>3. Handled' = Handled
  BY <1>1, <1>2 DEF Handled
<1>4. Ranges'
  <2>1. /\ queue' \in Seq(QueuedEvent) /\ log' \in Seq(Nat \ {0})
        /\ stream' \in [Gens -> Seq(Nat \ {0})] /\ hand' \in [Gens -> Nat]
    BY <1>1, EmptySeq DEF NoMessage
  <2>2. cliUp' \in [Gens -> BOOLEAN] /\ srvUp' \in [Gens -> BOOLEAN]
    BY <1>1 DEF Ranges
  <2>3. dpc' \in [Drainers -> Places]
    BY <1>1 DEF Places
  <2> QED BY <1>1, <2>1, <2>2, <2>3 DEF Ranges, serverVars
<1>5. DrainerInv'
  BY <1>1 DEF DrainerInv
<1>6. QueueInv'
  BY <1>2 DEF QueueInv
<1>7. LogInv'
  BY <1>1, <1>2 DEF LogInv, HandledInOrder
<1>8. StreamInv'
  BY <1>1 DEF StreamInv
<1>9. AckInv'
  BY <1>1, <1>3 DEF AckInv, serverVars
<1> QED BY <1>4, <1>5, <1>6, <1>7, <1>8, <1>9

-----------------------------------------------------------------------------
(* The theorems.                                                           *)

\* The invariant is kept by every step.
LEMMA StepInv ==
  ASSUME InboxInv, [Next]_vars
  PROVE  InboxInv'
<1>1. CASE Publish
  BY <1>1, PublishInv
<1>2. CASE \E k \in Cursors : ServeAck(k) \/ ServeLateAck(k) \/ LoseAck(k)
  BY <1>2, AckServedInv
<1>3. CASE \E g \in Gens : Connect(g) \/ ClientCloses(g) \/ ServerCloses(g) \/ ReadStep(g)
  BY <1>3, ConnectInv, CloseInv, ReadInv, EnqueueInv DEF ReadStep
<1>4. CASE \E d \in Drainers : DrainStep(d) \/ HandleFails(d) \/ AckFails(d)
  BY <1>4, DrainInv, HandleInv, PopInv DEF DrainStep
<1>5. CASE Restart
  BY <1>5, RestartInv
<1>6. CASE Idle \/ UNCHANGED vars
  <2>1. UNCHANGED <<serverVars, linkVars, ackVars, queueVars, logVars>>
    BY <1>6 DEF Idle, vars
  <2>2. UNCHANGED <<queue, lastAcked, logVars>>
    BY <2>1 DEF queueVars
  <2>3. DrainerInv' /\ QueueInv' /\ LogInv' /\ Handled' = Handled /\ Known' = Known
    BY <2>1, <2>2, SameQueue, SameDrainers DEF InboxInv
  <2>4. StreamInv' /\ AckInv'
    BY <2>1, <2>3, SameStreams DEF InboxInv, AckInv, serverVars, ackVars
  <2>5. Ranges'
    BY <2>1 DEF InboxInv, Ranges, serverVars, linkVars, queueVars, logVars
  <2> QED BY <2>3, <2>4, <2>5 DEF InboxInv
<1> QED BY <1>1, <1>2, <1>3, <1>4, <1>5, <1>6 DEF Next

LEMMA InboxInvariant == Spec => []InboxInv
<1> QED BY InitInv, StepInv, PTL DEF Spec

\* enqueueAppEvent, drainAppEvents and stopOrRetryAppEvent: eventRunning is true
\* exactly while one goroutine drains, two never do, and a queue that is left
\* without a drainer was tried after the last arrival.
THEOREM DrainedByOne == Spec => []OneDrainer
<1>1. InboxInv => OneDrainer
  <2>1. ASSUME DrainerInv PROVE OneDrainer
    <3> DEFINE D == {d \in Drainers : dpc[d] # "none"}
    <3>1. CASE running
      <4>1. PICK d \in Drainers : dpc[d] # "none"
        BY <2>1, <3>1 DEF DrainerInv
      <4>2. D = {d}
        BY <2>1, <4>1 DEF DrainerInv
      <4>3. Cardinality({d}) = 1
        BY FS_Singleton
      <4> QED BY <3>1, <4>2, <4>3 DEF OneDrainer
    <3>2. CASE ~running
      <4>1. D = {}
        BY <2>1, <3>2 DEF DrainerInv
      <4>2. Cardinality({}) = 0
        BY FS_EmptySet
      <4>3. queue # <<>> => tried
        BY <2>1, <3>2 DEF DrainerInv
      <4> QED BY <3>2, <4>1, <4>2, <4>3 DEF OneDrainer
    <3> QED BY <3>1, <3>2
  <2> QED BY <2>1 DEF InboxInv
<1> QED BY <1>1, InboxInvariant, PTL

\* drainAppEvents: a process handles each event at most once and in cursor order,
\* whatever generations overlap, whatever fails and however often an event comes.
THEOREM OnceInOrder == Spec => []HandledInOrder
<1>1. InboxInv => HandledInOrder
  BY DEF InboxInv, LogInv
<1> QED BY <1>1, InboxInvariant, PTL

\* The cumulative ACK: what the server has forgotten was handled by a process of
\* the assistant, whatever restarts, ACKs that come late or queues that refuse.
THEOREM NothingForgottenUnhandled == Spec => []ForgottenWasHandled
<1>1. InboxInv => ForgottenWasHandled
  BY DEF InboxInv, AckInv, Handled, ForgottenWasHandled
<1> QED BY <1>1, InboxInvariant, PTL
-----------------------------------------------------------------------------
(* The type of the whole state, in two parts.                              *)
LinkTypes ==
  /\ pending \subseteq Cursors
  /\ confirmed \in 0..MaxCursor /\ lastCursor \in 0..MaxCursor
  /\ srvUp \in [Gens -> BOOLEAN] /\ cliUp \in [Gens -> BOOLEAN]
  /\ stream \in [Gens -> Seq(Cursors)]
  /\ current \in Gens \cup {NoGen}
  /\ hand \in [Gens -> Cursors \cup {NoMessage}]
  /\ refused \subseteq Gens
  /\ ackReqs \subseteq Cursors /\ lateAcks \subseteq Cursors /\ ackDone \subseteq Cursors

DrainTypes ==
  /\ queue \in Seq([cursor : Cursors, handled : BOOLEAN]) /\ Len(queue) <= MaxQueued
  /\ running \in BOOLEAN /\ lastAcked \in 0..MaxCursor
  /\ dpc \in [Drainers -> Places]
  /\ unseen \subseteq Drainers
  /\ log \in Seq(Cursors) /\ handledBefore \subseteq Cursors
  /\ tried \in BOOLEAN

\* What the server and the network do.
LEMMA ServerTypes ==
  ASSUME LinkTypes, \/ Publish
                    \/ \E k \in Cursors : ServeAck(k) \/ ServeLateAck(k) \/ LoseAck(k)
  PROVE  LinkTypes'
<1>1. CASE Publish
  <2>1. lastCursor' \in Cursors
    BY <1>1, InboxAssumption DEF Publish, LinkTypes, Cursors
  <2>2. \A g \in Gens : Append(stream[g], lastCursor') \in Seq(Cursors)
    BY <2>1 DEF LinkTypes
  <2>3. stream' \in [Gens -> Seq(Cursors)]
    BY <1>1, <2>2 DEF Publish, LinkTypes
  <2> QED BY <1>1, <2>1, <2>3 DEF Publish, LinkTypes, Cursors, ackVars
<1>2. ASSUME NEW k \in Cursors, ServeAck(k) \/ ServeLateAck(k) \/ LoseAck(k)
      PROVE  LinkTypes'
  <2>1. UNCHANGED linkVars /\ lastCursor' = lastCursor
    BY <1>2 DEF ServeAck, ServeLateAck, LoseAck, serverVars
  <2>2. pending' \subseteq pending /\ confirmed' \in {confirmed, k}
    BY <1>2 DEF ServeAck, ServeLateAck, LoseAck, Confirm, serverVars
  <2>3. /\ ackReqs' \subseteq ackReqs /\ lateAcks' \subseteq lateAcks
        /\ ackDone' \subseteq ackDone \cup {k}
    BY <1>2 DEF ServeAck, ServeLateAck, LoseAck, serverVars
  <2>4. confirmed' \in 0..MaxCursor
    BY <2>2, InboxAssumption DEF LinkTypes, Cursors
  <2> QED BY <2>1, <2>2, <2>3, <2>4 DEF LinkTypes, linkVars
<1> QED BY <1>1, <1>2

\* Connections begin and end.
LEMMA ConnectionTypes ==
  ASSUME LinkTypes, NEW g \in Gens, Connect(g) \/ ClientCloses(g) \/ ServerCloses(g) \/ Read(g)
  PROVE  LinkTypes'
<1>1. <<>> \in Seq(Cursors)
  OBVIOUS
<1>2. CASE Connect(g)
  <2>1. PICK s \in [1..Cardinality(pending) -> pending] : stream' = [stream EXCEPT ![g] = s]
    BY <1>2 DEF Connect
  <2>2. Cardinality(pending) \in Nat
    <3>1. IsFiniteSet(1..MaxCursor)
      BY FS_Interval, InboxAssumption
    <3> QED BY <3>1, FS_Subset, FS_CardinalityType DEF LinkTypes, Cursors
  <2>3. s \in Seq(Cursors)
    <3>1. s \in [1..Cardinality(pending) -> Cursors]
      BY DEF LinkTypes
    <3> QED BY <2>2, <3>1, SeqDef
  <2> QED BY <1>2, <2>1, <2>3 DEF Connect, LinkTypes, serverVars, ackVars
<1>3. CASE ClientCloses(g)
  BY <1>1, <1>3 DEF ClientCloses, LinkTypes, serverVars, ackVars
<1>4. CASE ServerCloses(g)
  BY <1>1, <1>4 DEF ServerCloses, LinkTypes, serverVars, ackVars
<1>5. CASE Read(g)
  <2>1. Head(stream[g]) \in Cursors /\ Tail(stream[g]) \in Seq(Cursors)
    BY <1>5, HeadTail DEF Read, LinkTypes
  <2> QED BY <1>5, <2>1 DEF Read, LinkTypes, serverVars, ackVars
<1> QED BY <1>2, <1>3, <1>4, <1>5

\* An event is handed to the inbox.
LEMMA EnqueueTypes ==
  ASSUME LinkTypes, DrainTypes, NEW g \in Gens, Enqueue(g)
  PROVE  LinkTypes' /\ DrainTypes'
<1>1. LinkTypes'
  BY DEF Enqueue, LinkTypes, serverVars, ackVars
<1>2. hand[g] \in Cursors
  BY DEF Enqueue, LinkTypes
<1>3. Arrival => /\ dpc' \in [Drainers -> Places] /\ running' \in BOOLEAN
                 /\ unseen' \subseteq Drainers
  BY DEF Arrival, DrainTypes, Places
<1>4. UNCHANGED <<log, handledBefore>>
  BY DEF Enqueue, logVars
<1>5. CASE UNCHANGED queueVars
  BY <1>1, <1>4, <1>5 DEF queueVars, DrainTypes
<1>6. CASE UNCHANGED <<queue, lastAcked>> /\ Arrival /\ tried' = FALSE
  BY <1>1, <1>3, <1>4, <1>6 DEF DrainTypes
<1>7. CASE /\ ~QueueFull /\ Arrival /\ tried' = FALSE /\ lastAcked' = lastAcked
           /\ queue' = Append(queue, [cursor |-> hand[g], handled |-> FALSE])
  <2>1. /\ queue' \in Seq([cursor : Cursors, handled : BOOLEAN])
        /\ Len(queue') = Len(queue) + 1 /\ Len(queue) \in Nat
    BY <1>2, <1>7 DEF DrainTypes
  <2>2. Len(queue') <= MaxQueued
    BY <1>7, <2>1, InboxAssumption DEF QueueFull
  <2> QED BY <1>1, <1>3, <1>4, <1>7, <2>1, <2>2 DEF DrainTypes
<1> QED BY <1>5, <1>6, <1>7 DEF Enqueue, ArrivalAgain

\* A drainer works.
LEMMA DrainerTypes ==
  ASSUME InboxInv, LinkTypes, DrainTypes, NEW d \in Drainers,
         DrainStep(d) \/ HandleFails(d) \/ AckFails(d)
  PROVE  LinkTypes' /\ DrainTypes'
<1>1. UNCHANGED <<serverVars, linkVars>>
  BY DEF DrainStep, Look, Handle, SendAck, AckAnswered, Pop, HandleFails, AckFails
<1>2. dpc[d] \in {"handle", "ack", "acking", "pop"} =>
        /\ queue # <<>> /\ Len(queue) \in Nat \ {0} /\ Len(queue) <= MaxQueued
        /\ queue[1] \in [cursor : Cursors, handled : BOOLEAN]
        /\ Tail(queue) \in Seq([cursor : Cursors, handled : BOOLEAN])
        /\ Len(Tail(queue)) = Len(queue) - 1
  <2> SUFFICES ASSUME dpc[d] \in {"handle", "ack", "acking", "pop"}
               PROVE  /\ queue # <<>> /\ Len(queue) \in Nat \ {0} /\ Len(queue) <= MaxQueued
                      /\ queue[1] \in [cursor : Cursors, handled : BOOLEAN]
                      /\ Tail(queue) \in Seq([cursor : Cursors, handled : BOOLEAN])
                      /\ Len(Tail(queue)) = Len(queue) - 1
    OBVIOUS
  <2> DEFINE S == [cursor : Cursors, handled : BOOLEAN]
  <2>1. queue # <<>> /\ queue \in Seq(S) /\ Len(queue) <= MaxQueued
    BY DEF InboxInv, DrainerInv, DrainTypes
  <2> HIDE DEF S
  <2>2. queue[1] \in S /\ Tail(queue) \in Seq(S) /\ Len(queue) \in Nat \ {0}
    BY <2>1, HeadTail
  <2>3. Len(Tail(queue)) = Len(queue) - 1
    BY <2>1, HeadTailProperties
  <2> QED BY <2>1, <2>2, <2>3 DEF S
<1>3. CASE Look(d)
  BY <1>1, <1>3 DEF Look, LinkTypes, DrainTypes, Places, serverVars, linkVars, ackVars, logVars
<1>4. CASE Handle(d)
  <2>1. log' \in Seq(Cursors)
    BY <1>2, <1>4 DEF Handle, DrainTypes
  <2>2. queue' \in Seq([cursor : Cursors, handled : BOOLEAN]) /\ Len(queue') = Len(queue)
    <3> DEFINE S == [cursor : Cursors, handled : BOOLEAN]
    <3>1. /\ queue \in [1..Len(queue) -> S] /\ Len(queue) \in Nat \ {0}
          /\ DOMAIN queue = 1..Len(queue)
      BY <1>2, <1>4, LenProperties DEF Handle, DrainTypes
    <3>2. queue' = [queue EXCEPT ![1] = [queue[1] EXCEPT !.handled = TRUE]]
      BY <1>4 DEF Handle
    <3>3. [queue[1] EXCEPT !.handled = TRUE] \in S
      BY <1>2, <1>4 DEF Handle
    <3> HIDE DEF S
    <3>4. queue' \in [1..Len(queue) -> S]
      BY <3>1, <3>2, <3>3
    <3>5. queue' \in Seq(S) /\ Len(queue') = Len(queue)
      BY <3>1, <3>4, SeqDef, LenProperties
    <3> QED BY <3>5 DEF S
  <2> QED BY <1>1, <1>4, <2>1, <2>2
       DEF Handle, LinkTypes, DrainTypes, Places, serverVars, linkVars, ackVars
<1>5. CASE SendAck(d) \/ AckAnswered(d)
  BY <1>1, <1>2, <1>5
  DEF SendAck, AckAnswered, LinkTypes, DrainTypes, Places, serverVars, linkVars, logVars
<1>6. CASE Pop(d)
  <2>1. Len(queue') <= MaxQueued /\ queue' \in Seq([cursor : Cursors, handled : BOOLEAN])
    BY <1>2, <1>6, InboxAssumption DEF Pop
  <2>2. lastAcked' \in 0..MaxCursor
    BY <1>2, <1>6 DEF Pop, DrainTypes, Cursors
  <2> QED BY <1>1, <1>6, <2>1, <2>2
       DEF Pop, LinkTypes, DrainTypes, Places, serverVars, linkVars, ackVars, logVars
<1>7. CASE HandleFails(d) \/ AckFails(d)
  BY <1>1, <1>7
  DEF HandleFails, AckFails, StopOrRetry, LinkTypes, DrainTypes, Places, serverVars, linkVars,
      ackVars, logVars
<1> QED BY <1>3, <1>4, <1>5, <1>6, <1>7 DEF DrainStep

LEMMA TypeStep ==
  ASSUME InboxInv, TypeOK, [Next]_vars
  PROVE  TypeOK'
<1>1. LinkTypes /\ DrainTypes
  BY DEF TypeOK, LinkTypes, DrainTypes, Places
<1>2. failures' \in 0..MaxFailures
  <2>1. Fails => failures' \in 0..MaxFailures
    BY InboxAssumption DEF TypeOK, Fails
  <2>2. CASE UNCHANGED failures
    BY <2>2 DEF TypeOK
  <2>3. CASE Publish \/ \E k \in Cursors : ServeAck(k) \/ ServeLateAck(k) \/ LoseAck(k)
    BY <2>1, <2>2, <2>3 DEF Publish, ServeAck, ServeLateAck, LoseAck
  <2>4. CASE \E g \in Gens : Connect(g) \/ ClientCloses(g) \/ ServerCloses(g) \/ ReadStep(g)
    BY <2>1, <2>2, <2>4 DEF Connect, ClientCloses, ServerCloses, ReadStep, Read, Enqueue
  <2>5. CASE \E d \in Drainers : DrainStep(d) \/ HandleFails(d) \/ AckFails(d)
    BY <2>1, <2>2, <2>5
    DEF DrainStep, Look, Handle, SendAck, AckAnswered, Pop, HandleFails, AckFails
  <2>6. CASE Restart
    BY <2>1, <2>6 DEF Restart
  <2>7. CASE Idle \/ UNCHANGED vars
    BY <2>2, <2>7 DEF Idle, vars
  <2> QED BY <2>3, <2>4, <2>5, <2>6, <2>7 DEF Next
<1>3. CASE Publish \/ \E k \in Cursors : ServeAck(k) \/ ServeLateAck(k) \/ LoseAck(k)
  <2>1. UNCHANGED <<queueVars, logVars>>
    BY <1>3 DEF Publish, ServeAck, ServeLateAck, LoseAck
  <2> QED BY <1>1, <1>2, <1>3, <2>1, ServerTypes
       DEF TypeOK, LinkTypes, DrainTypes, Places, queueVars, logVars
<1>4. CASE \E g \in Gens : Connect(g) \/ ClientCloses(g) \/ ServerCloses(g) \/ Read(g)
  <2>1. UNCHANGED <<queueVars, logVars>>
    BY <1>4 DEF Connect, ClientCloses, ServerCloses, Read
  <2> QED BY <1>1, <1>2, <1>4, <2>1, ConnectionTypes
       DEF TypeOK, LinkTypes, DrainTypes, Places, queueVars, logVars
<1>5. CASE \E g \in Gens : Enqueue(g)
  BY <1>1, <1>2, <1>5, EnqueueTypes DEF TypeOK, LinkTypes, DrainTypes, Places
<1>6. CASE \E d \in Drainers : DrainStep(d) \/ HandleFails(d) \/ AckFails(d)
  BY <1>1, <1>2, <1>6, DrainerTypes DEF TypeOK, LinkTypes, DrainTypes, Places
<1>7. CASE Restart
  <2>1. ToSet(log) \subseteq Cursors
    BY <1>1 DEF DrainTypes, ToSet
  <2>2. /\ <<>> \in Seq(Cursors) /\ <<>> \in Seq([cursor : Cursors, handled : BOOLEAN])
        /\ Len(<<>>) <= MaxQueued
    BY InboxAssumption
  <2>3. LinkTypes'
    BY <1>1, <1>7, <2>2 DEF Restart, LinkTypes, serverVars
  <2>4. DrainTypes'
    <3>1. queue' = <<>> /\ log' = <<>> /\ running' = FALSE /\ tried' = TRUE /\ unseen' = {}
      BY <1>7 DEF Restart
    <3>2. dpc' \in [Drainers -> Places]
      BY <1>7 DEF Restart, Places
    <3>3. handledBefore' \subseteq Cursors
      BY <1>1, <1>7, <2>1 DEF Restart, DrainTypes
    <3>4. lastAcked' \in 0..MaxCursor
      BY <1>7, InboxAssumption DEF Restart
    <3> QED BY <2>2, <3>1, <3>2, <3>3, <3>4 DEF DrainTypes
  <2> QED BY <1>2, <2>3, <2>4 DEF TypeOK, LinkTypes, DrainTypes, Places
<1>8. CASE Idle \/ UNCHANGED vars
  BY <1>8 DEF Idle, vars, serverVars, linkVars, ackVars, queueVars, logVars, TypeOK
<1> QED BY <1>3, <1>4, <1>5, <1>6, <1>7, <1>8 DEF Next, ReadStep

\* The type of the inbox and of what is on its way, from the queue's length to the
\* cursors that are being acknowledged.
THEOREM InboxTypeCorrect == Spec => []TypeOK
<1>1. Init => TypeOK
  <2>1. /\ <<>> \in Seq(Cursors) /\ <<>> \in Seq([cursor : Cursors, handled : BOOLEAN])
        /\ Len(<<>>) <= MaxQueued
    BY InboxAssumption
  <2>2. 0 \in 0..MaxCursor /\ 0 \in 0..MaxFailures
    BY InboxAssumption
  <2> QED BY <2>1, <2>2 DEF Init, TypeOK, NoMessage
<1> QED BY <1>1, TypeStep, InboxInvariant, PTL DEF Spec
=============================================================================
