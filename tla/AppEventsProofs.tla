-------------------------- MODULE AppEventsProofs ---------------------------
(***************************************************************************)
(* Theorems about AppEvents, for every set of applications, writers and    *)
(* connections and every value of the bounds: types, appEventMu, cursors,  *)
(* credentials and deletion first, then the delivery of events.            *)
(***************************************************************************)
EXTENDS AppEvents, SequenceTheorems, FiniteSetTheorems, WellFoundedInduction, TLAPS

-----------------------------------------------------------------------------
(* Lemmas about the operators of the model.                                *)

\* A batch is a sequence of applications.
LEMMA BatchIsSeq ==
  ASSUME NEW apps \in Batches
  PROVE  apps \in Seq(Apps)
<1>1. PICK n \in 1..MaxBatch : apps \in [1..n -> Apps]
  BY DEF Batches
<1>2. n \in Nat
  BY ConstantsAssumption
<1> QED BY <1>1, <1>2, SeqDef

\* The rows of a batch form a sequence of rows, with ids above nextId, one
\* more for each of them.
LEMMA RowsForType ==
  ASSUME NEW apps \in Seq(Apps), nextId \in Nat, nextId + Len(apps) <= MaxId
  PROVE  /\ RowsFor(apps) \in Seq(Rows)
         /\ Len(RowsFor(apps)) = Len(apps)
<1> DEFINE n == Len(apps)
<1>1. n \in Nat /\ \A i \in 1..n : apps[i] \in Apps
  BY ElementOfSeq, LenProperties
<1>2. \A i \in 1..n : nextId + i \in 1..MaxId
  BY <1>1, ConstantsAssumption
<1>3. RowsFor(apps) \in [1..n -> Rows]
  BY <1>1, <1>2 DEF RowsFor, Rows
<1> QED BY <1>1, <1>3, SeqDef, LenProperties

\* Every row of a sequence of rows has an id within the bound and an application.
LEMMA RowIdsInRange ==
  ASSUME NEW rows \in Seq(Rows), NEW r \in Range(rows)
  PROVE  r.id \in 1..MaxId /\ r.app \in Apps
<1>1. PICK i \in DOMAIN rows : r = rows[i]
  BY DEF Range
<1>2. i \in 1..Len(rows)
  BY <1>1, LenProperties
<1>3. r \in Rows
  BY <1>1, <1>2, ElementOfSeq
<1> QED BY <1>3 DEF Rows

\* What capp holds for an unused connection object is an application.
LEMMA AnyAppType == AnyApp \in Apps
BY ConstantsAssumption DEF AnyApp

-----------------------------------------------------------------------------
(* Type correctness.                                                       *)

\* The initial state is well typed.
LEMMA InitTypeOK == Init => TypeOK
BY ConstantsAssumption, AnyAppType, EmptySeq DEF Init, TypeOK, ServingPhases

\* A writer's transaction, its abort and its deliveries keep the types.
LEMMA WriterTypeOK ==
  ASSUME TypeOK, NEW w \in Writers,
         \/ WriterStep(w) \/ AbortTx(w)
         \/ \E apps \in Batches : CreateOutbox(w, apps)
  PROVE  TypeOK'
<1>1. CASE CommitTx(w)
  <2>1. wrows[w] \in Seq(Rows)
    BY DEF TypeOK
  <2>2. \A r \in Range(wrows[w]) : r.id \in 1..MaxId
    BY <2>1, RowIdsInRange
  <2>3. outbox' \in [Apps -> SUBSET (1..MaxId)]
    BY <1>1, <2>2 DEF CommitTx, TypeOK
  <2> QED BY <1>1, <2>3
    DEF CommitTx, TypeOK, connVars, replayVars, ackVars, clientVars, ghostVars
<1>2. CASE DeliverAppEvent(w)
  <2>1. wrows[w] \in Seq(Rows) /\ wrows[w] # <<>>
    BY <1>2 DEF TypeOK, DeliverAppEvent
  <2>2. Head(wrows[w]).id \in 1..MaxId /\ Tail(wrows[w]) \in Seq(Rows)
    <3>1. Head(wrows[w]) \in Rows /\ Tail(wrows[w]) \in Seq(Rows)
      BY <2>1, HeadTailProperties
    <3> QED BY <3>1 DEF Rows
  <2>3. sendBuf' \in [Conns -> Seq(1..MaxId)]
    <3>1. \A c \in Conns : Append(sendBuf[c], Head(wrows[w]).id) \in Seq(1..MaxId)
      BY <2>2, AppendProperties DEF TypeOK
    <3> QED BY <1>2, <3>1 DEF DeliverAppEvent, TypeOK
  <2>4. open' \in [Conns -> BOOLEAN] /\ wrows' \in [Writers -> Seq(Rows)]
    BY <1>2, <2>2 DEF DeliverAppEvent, TypeOK
  <2> QED BY <1>2, <2>3, <2>4
    DEF DeliverAppEvent, TypeOK, dbVars, replayVars, ackVars, clientVars, ghostVars
<1>3. CASE DeliverDone(w)
  BY <1>3 DEF DeliverDone, UnlockAppEvents, TypeOK, dbVars, connVars, replayVars,
              ackVars, clientVars, ghostVars
<1>4. CASE ArchiveLoadItem(w)
  <2>1. /\ appEventMu' \in Writers \cup Conns \cup {NoHolder}
        /\ wpc' \in [Writers -> {"idle", "inserted", "loadItem", "committed"}]
        /\ wrows' \in [Writers -> Seq(Rows)]
    <3>1. <<>> \in Seq(Rows)
      BY EmptySeq
    <3>2. CASE wpc' = [wpc EXCEPT ![w] = "committed"] /\ UNCHANGED <<appEventMu, wrows>>
      BY <3>2 DEF TypeOK
    <3>3. CASE /\ UnlockAppEvents(w)
               /\ wpc' = [wpc EXCEPT ![w] = "idle"]
               /\ wrows' = [wrows EXCEPT ![w] = <<>>]
      BY <3>1, <3>3 DEF UnlockAppEvents, TypeOK
    <3> QED BY <1>4, <3>2, <3>3 DEF ArchiveLoadItem
  <2> QED BY <1>4, <2>1 DEF ArchiveLoadItem, TypeOK, dbVars, connVars, replayVars,
              ackVars, clientVars, ghostVars
<1>5. CASE AbortTx(w)
  BY <1>5, EmptySeq DEF AbortTx, UnlockAppEvents, TypeOK, dbVars, connVars,
              replayVars, ackVars, clientVars, ghostVars
<1>6. ASSUME NEW apps \in Batches, CreateOutbox(w, apps)
      PROVE  TypeOK'
  <2>1. apps \in Seq(Apps) /\ Len(apps) \in Nat
    BY BatchIsSeq, LenProperties
  <2>2. nextId \in Nat /\ nextId + Len(apps) <= MaxId
    BY <1>6 DEF CreateOutbox, TypeOK
  <2>3. RowsFor(apps) \in Seq(Rows)
    BY <2>1, <2>2, RowsForType
  <2>4. nextId' \in 0..MaxId /\ wrows' \in [Writers -> Seq(Rows)]
    BY <1>6, <2>1, <2>2, <2>3, ConstantsAssumption DEF CreateOutbox, TypeOK
  <2> QED BY <1>6, <2>4 DEF CreateOutbox, LockAppEvents, TypeOK, connVars, replayVars,
              ackVars, clientVars, ghostVars
<1> QED BY <1>1, <1>2, <1>3, <1>4, <1>5, <1>6 DEF WriterStep

\* What the handler of a connection does.
LEMMA HandlerTypeOK ==
  ASSUME TypeOK, NEW c \in Conns, HandlerStep(c) \/ \E a \in Apps : Authenticate(c, a)
  PROVE  TypeOK'
<1> USE DEF dbVars, writerVars, connVars, replayVars, ackVars, clientVars, ghostVars,
            ServingPhases
<1>1. CASE Register(c)
  BY <1>1, EmptySeq DEF Register, LockAppEvents, TypeOK
<1>2. CASE Recheck(c)
  BY <1>2 DEF Recheck, TypeOK
<1>3. CASE RecheckFails(c)
  <2>1. failures' \in Nat
    BY <1>3 DEF RecheckFails, TypeOK
  <2> QED BY <1>3, <2>1 DEF RecheckFails, UnlockAppEvents, TypeOK
<1>4. CASE ReplayReadAck(c)
  BY <1>4 DEF ReplayReadAck, TypeOK
<1>5. CASE ReplayQuery(c)
  <2>1. FirstPage(RowsAbove(capp[c], nextCursor[c])) \subseteq 1..MaxId
    BY DEF FirstPage, RowsAbove, TypeOK
  <2>2. pageFull' \in [Conns -> BOOLEAN]
    BY <1>5 DEF ReplayQuery, FullPage, TypeOK
  <2>3. page' \in [Conns -> SUBSET (1..MaxId)]
    BY <1>5, <2>1 DEF ReplayQuery, TypeOK
  <2> QED BY <1>5, <2>2, <2>3 DEF ReplayQuery, TypeOK
<1>6. CASE ReplayEnqueue(c)
  <2>1. PICK id \in page[c] :
          /\ sendBuf' = [sendBuf EXCEPT ![c] = Append(@, id)]
          /\ page' = [page EXCEPT ![c] = @ \ {id}]
          /\ nextCursor' = [nextCursor EXCEPT ![c] = id]
    BY <1>6 DEF ReplayEnqueue
  <2>2. id \in 1..MaxId /\ Append(sendBuf[c], id) \in Seq(1..MaxId)
    BY <2>1, AppendProperties DEF TypeOK
  <2>3. /\ sendBuf' \in [Conns -> Seq(1..MaxId)]
        /\ page' \in [Conns -> SUBSET (1..MaxId)]
    BY <2>1, <2>2 DEF TypeOK
  <2>4. nextCursor' \in [Conns -> 0..MaxId]
    BY <2>1, <2>2, ConstantsAssumption DEF TypeOK
  <2> QED BY <1>6, <2>3, <2>4 DEF ReplayEnqueue, TypeOK
<1>7. CASE ReplayFails(c)
  <2>1. failures' \in Nat
    BY <1>7 DEF ReplayFails, TypeOK
  <2> QED BY <1>7, <2>1 DEF ReplayFails, UnlockAppEvents, TypeOK
<1>8. CASE ReplayPageDone(c)
  BY <1>8 DEF ReplayPageDone, UnlockAppEvents, TypeOK
<1>9. CASE Unregister(c)
  <2>1. <<>> \in Seq(1..MaxId) /\ 0 \in 0..MaxId
    BY EmptySeq, ConstantsAssumption
  <2> QED BY <1>9, <2>1, AnyAppType DEF Unregister, TypeOK
<1>10. ASSUME NEW a \in Apps, Authenticate(c, a)
       PROVE  TypeOK'
  BY <1>10 DEF Authenticate, TypeOK
<1>11. CASE EndFailedReplay(c)
  BY <1>11 DEF EndFailedReplay, TypeOK
<1> QED BY <1>1, <1>2, <1>3, <1>4, <1>5, <1>6, <1>7, <1>8, <1>9, <1>10, <1>11
        DEF HandlerStep

\* What its loops do, events.ack included.
LEMMA LoopTypeOK ==
  ASSUME TypeOK, NEW c \in Conns,
         \/ WriteEvent(c) \/ LoseConnection(c) \/ CloseConnection(c)
         \/ AckStep(c) \/ AckRollback(c)
         \/ \E cursor \in 1..MaxId : AckBegin(c, cursor)
  PROVE  TypeOK'
<1> USE DEF dbVars, writerVars, connVars, replayVars, ackVars, clientVars, ghostVars
<1>0. 0 \in 0..MaxId
  BY ConstantsAssumption
<1>1. CASE WriteEvent(c)
  <2>1. sendBuf[c] \in Seq(1..MaxId) /\ sendBuf[c] # <<>> /\ recv[c] \in Seq(1..MaxId)
    BY <1>1 DEF WriteEvent, TypeOK
  <2>2. Head(sendBuf[c]) \in 1..MaxId /\ Tail(sendBuf[c]) \in Seq(1..MaxId)
    BY <2>1, HeadTailProperties
  <2>3. Append(recv[c], Head(sendBuf[c])) \in Seq(1..MaxId)
    BY <2>1, <2>2, AppendProperties
  <2>4. sendBuf' \in [Conns -> Seq(1..MaxId)] /\ recv' \in [Conns -> Seq(1..MaxId)]
    <3>1. sendBuf \in [Conns -> Seq(1..MaxId)] /\ recv \in [Conns -> Seq(1..MaxId)]
      BY DEF TypeOK
    <3> QED BY <1>1, <2>2, <2>3, <3>1 DEF WriteEvent
  <2>5. got' \in [Apps -> SUBSET (1..MaxId)]
    <3>1. got \in [Apps -> SUBSET (1..MaxId)]
      BY DEF TypeOK
    <3> QED BY <1>1, <2>2, <3>1 DEF WriteEvent
  <2> QED BY <1>1, <2>4, <2>5 DEF WriteEvent, TypeOK
<1>2. CASE LoseConnection(c)
  <2>1. failures' \in Nat
    BY <1>2 DEF LoseConnection, TypeOK
  <2> QED BY <1>2, <2>1 DEF LoseConnection, TypeOK
<1>3. CASE CloseConnection(c)
  BY <1>3 DEF CloseConnection, TypeOK
<1>4. CASE AckFindEvent(c)
  <2>1. apc' \in [Conns -> {"idle", "read", "found"}] /\ acur' \in [Conns -> 0..MaxId]
    <3>1. apc \in [Conns -> {"idle", "read", "found"}] /\ acur \in [Conns -> 0..MaxId]
      BY DEF TypeOK
    <3> QED BY <1>4, <1>0, <3>1 DEF AckFindEvent
  <2> QED BY <1>4, <2>1 DEF AckFindEvent, TypeOK
<1>5. CASE AckCommit(c)
  <2>1. AckedAfter(acked[capp[c]], acur[c]) \in 0..MaxId
    BY DEF AckedAfter, TypeOK
  <2>2. acked' \in [Apps -> 0..MaxId]
    BY <1>5, <2>1 DEF AckCommit, TypeOK
  <2>3. /\ outbox' \in [Apps -> SUBSET (1..MaxId)]
        /\ consumed' \in [Apps -> SUBSET (1..MaxId)]
    BY <1>5 DEF AckCommit, TypeOK
  <2> QED BY <1>5, <1>0, <2>2, <2>3 DEF AckCommit, TypeOK
<1>6. CASE AckRollback(c)
  <2>1. failures' \in Nat
    BY <1>6 DEF AckRollback, TypeOK
  <2>2. apc' \in [Conns -> {"idle", "read", "found"}] /\ acur' \in [Conns -> 0..MaxId]
    <3>1. apc \in [Conns -> {"idle", "read", "found"}] /\ acur \in [Conns -> 0..MaxId]
      BY DEF TypeOK
    <3> QED BY <1>6, <1>0, <3>1 DEF AckRollback
  <2> QED BY <1>6, <2>1, <2>2 DEF AckRollback, TypeOK
<1>7. ASSUME NEW cursor \in 1..MaxId, AckBegin(c, cursor)
      PROVE  TypeOK'
  <2>1. apc' \in [Conns -> {"idle", "read", "found"}] /\ acur' \in [Conns -> 0..MaxId]
    <3>1. apc \in [Conns -> {"idle", "read", "found"}] /\ acur \in [Conns -> 0..MaxId]
      BY DEF TypeOK
    <3>2. cursor \in 0..MaxId
      BY ConstantsAssumption
    <3> QED BY <1>7, <3>1, <3>2 DEF AckBegin
  <2> QED BY <1>7, <2>1 DEF AckBegin, TypeOK
<1> QED BY <1>1, <1>2, <1>3, <1>4, <1>5, <1>6, <1>7 DEF AckStep

\* Administrative operations keep the types.
LEMMA AdminTypeOK ==
  ASSUME TypeOK, NEW a \in Apps,
         \/ DisableApp(a) \/ EnableApp(a) \/ RegenerateSecret(a) \/ ChangeVisibility(a)
         \/ DeleteApp(a) \/ CloseApp(a)
  PROVE  TypeOK'
<1> USE DEF connVars, writerVars, dbVars, replayVars, ackVars, clientVars, ghostVars
<1>1. CASE CloseApp(a)
  BY <1>1 DEF CloseApp, TypeOK
<1>2. CASE ~CloseApp(a)
  <2>0. /\ outbox \in [Apps -> SUBSET (1..MaxId)] /\ acked \in [Apps -> 0..MaxId]
        /\ appState \in [Apps -> {"enabled", "disabled", "deleted"}]
        /\ secret \in [Apps -> Nat] /\ closing \in SUBSET Apps /\ adminOps \in Nat
        /\ 0 \in 0..MaxId
    BY ConstantsAssumption DEF TypeOK
  <2>1. adminOps' \in Nat
    <3>1. adminOps' = adminOps + 1
      BY <1>2 DEF DisableApp, EnableApp, RegenerateSecret, ChangeVisibility, DeleteApp, AdminMay
    <3> QED BY <2>0, <3>1
  <2>2. closing' \in SUBSET Apps
    BY <1>2, <2>0 DEF DisableApp, EnableApp, RegenerateSecret, ChangeVisibility, DeleteApp,
                      ThenCloseApp
  <2>3. appState' \in [Apps -> {"enabled", "disabled", "deleted"}]
    BY <1>2, <2>0 DEF DisableApp, EnableApp, RegenerateSecret, ChangeVisibility, DeleteApp
  <2>4. secret' \in [Apps -> Nat]
    <3>1. secret' = secret \/ secret' = [secret EXCEPT ![a] = @ + 1]
      BY <1>2 DEF DisableApp, EnableApp, RegenerateSecret, ChangeVisibility, DeleteApp
    <3> QED BY <2>0, <3>1
  <2>5. outbox' \in [Apps -> SUBSET (1..MaxId)]
    BY <1>2, <2>0 DEF DisableApp, EnableApp, RegenerateSecret, ChangeVisibility, DeleteApp
  <2>6. acked' \in [Apps -> 0..MaxId]
    BY <1>2, <2>0 DEF DisableApp, EnableApp, RegenerateSecret, ChangeVisibility, DeleteApp
  <2>7. UNCHANGED <<nextId, appEventMu, writerVars, connVars, replayVars, ackVars, clientVars,
                    consumed, failures>>
    BY <1>2 DEF DisableApp, EnableApp, RegenerateSecret, ChangeVisibility, DeleteApp
  <2> QED BY <2>1, <2>2, <2>3, <2>4, <2>5, <2>6, <2>7 DEF TypeOK
<1> QED BY <1>1, <1>2

\* What a crash of the server leaves behind is well typed.
LEMMA CrashTypeOK ==
  ASSUME TypeOK, ServerCrash
  PROVE  TypeOK'
<1>1. <<>> \in Seq(Rows) /\ <<>> \in Seq(1..MaxId)
  BY EmptySeq
<1> QED BY <1>1, AnyAppType, ConstantsAssumption DEF ServerCrash, TypeOK, dbVars

\* Every step keeps the types.
LEMMA NextTypeOK == TypeOK /\ [Next]_vars => TypeOK'
<1> SUFFICES ASSUME TypeOK, [Next]_vars
             PROVE  TypeOK'
  OBVIOUS
<1>1. CASE UNCHANGED vars \/ Quiesce
  BY <1>1 DEF Quiesce, TypeOK, vars, dbVars, writerVars, connVars, replayVars, ackVars,
              clientVars, ghostVars
<1> QED BY <1>1, WriterTypeOK, HandlerTypeOK, LoopTypeOK, AdminTypeOK, CrashTypeOK
        DEF Next

\* Every variable keeps its type: batches, buffers, replay pages and cursors
\* stay among the outbox ids that were handed out.
THEOREM TypeCorrect == Spec => []TypeOK
<1>1. Init => TypeOK
  BY InitTypeOK
<1>2. TypeOK /\ [Next]_vars => TypeOK'
  BY NextTypeOK
<1> QED BY <1>1, <1>2, PTL DEF Spec

-----------------------------------------------------------------------------
(* appEventMu is a mutex: whoever is between taking and releasing it holds *)
(* it, so a writer never inserts rows while another pushes or replays.     *)

MutexHeld ==
  /\ \A w \in Writers : wpc[w] # "idle" => appEventMu = w
  /\ \A c \in Conns :
       cpc[c] \in {"recheck", "readAck", "query", "enqueue"} => appEventMu = c

\* Writers hold the mutex from the insertion of their rows to the end.
LEMMA MutexWriter ==
  ASSUME TypeOK, MutexHeld, NEW w \in Writers,
         \/ WriterStep(w) \/ AbortTx(w)
         \/ \E apps \in Batches : CreateOutbox(w, apps)
  PROVE  MutexHeld'
<1> USE ConstantsAssumption DEF TypeOK, MutexHeld, LockAppEvents, UnlockAppEvents, connVars
<1>1. CASE CommitTx(w)
  BY <1>1 DEF CommitTx
<1>2. CASE DeliverAppEvent(w)
  BY <1>2 DEF DeliverAppEvent
<1>3. CASE DeliverDone(w)
  BY <1>3 DEF DeliverDone
<1>4. CASE ArchiveLoadItem(w)
  <2>1. wpc[w] = "loadItem" /\ appEventMu = w /\ cpc' = cpc
    BY <1>4 DEF ArchiveLoadItem
  <2>2. CASE wpc' = [wpc EXCEPT ![w] = "committed"] /\ UNCHANGED appEventMu
    BY <2>1, <2>2
  <2>3. CASE wpc' = [wpc EXCEPT ![w] = "idle"]
    BY <2>1, <2>3
  <2> QED BY <1>4, <2>2, <2>3 DEF ArchiveLoadItem
<1>5. CASE AbortTx(w)
  BY <1>5 DEF AbortTx
<1>6. ASSUME NEW apps \in Batches, CreateOutbox(w, apps)
      PROVE  MutexHeld'
  BY <1>6 DEF CreateOutbox
<1> QED BY <1>1, <1>2, <1>3, <1>4, <1>5, <1>6 DEF WriterStep

\* A handler holds it from Register to the end of its replay.
LEMMA MutexHandler ==
  ASSUME TypeOK, MutexHeld, NEW c \in Conns,
         HandlerStep(c) \/ \E a \in Apps : Authenticate(c, a)
  PROVE  MutexHeld'
<1> USE ConstantsAssumption DEF TypeOK, MutexHeld, LockAppEvents, UnlockAppEvents, writerVars
<1>1. CASE Register(c)
  BY <1>1 DEF Register
<1>2. CASE Recheck(c)
  BY <1>2 DEF Recheck
<1>3. CASE RecheckFails(c)
  BY <1>3 DEF RecheckFails
<1>4. CASE ReplayReadAck(c)
  BY <1>4 DEF ReplayReadAck
<1>5. CASE ReplayQuery(c)
  BY <1>5 DEF ReplayQuery
<1>6. CASE ReplayEnqueue(c)
  BY <1>6 DEF ReplayEnqueue
<1>7. CASE ReplayFails(c)
  BY <1>7 DEF ReplayFails
<1>8. CASE ReplayPageDone(c)
  <2>1. appEventMu = c /\ wpc' = wpc
    BY <1>8 DEF ReplayPageDone
  <2>2. CASE pageFull[c]
    BY <1>8, <2>1, <2>2 DEF ReplayPageDone
  <2>3. CASE ~pageFull[c]
    <3>1. \A w \in Writers : wpc[w] = "idle"
      BY <2>1
    <3>2. \A d \in Conns \ {c} : cpc[d] \notin {"recheck", "readAck", "query", "enqueue"}
      BY <2>1
    <3>3. cpc' = [cpc EXCEPT ![c] = "serving"]
      BY <1>8, <2>3 DEF ReplayPageDone
    <3> QED BY <2>1, <3>1, <3>2, <3>3
  <2> QED BY <2>2, <2>3
<1>9. CASE Unregister(c)
  BY <1>9 DEF Unregister
<1>10. ASSUME NEW a \in Apps, Authenticate(c, a)
       PROVE  MutexHeld'
  BY <1>10 DEF Authenticate
<1>11. CASE EndFailedReplay(c)
  BY <1>11 DEF EndFailedReplay
<1> QED BY <1>1, <1>2, <1>3, <1>4, <1>5, <1>6, <1>7, <1>8, <1>9, <1>10, <1>11
        DEF HandlerStep

\* The steps of the loops, of ACKs and of administration leave the mutex, the
\* writers and the handlers alone.
LEMMA OtherStepsKeepPhases ==
  ASSUME \/ \E c \in Conns :
              \/ WriteEvent(c) \/ LoseConnection(c) \/ CloseConnection(c)
              \/ AckStep(c) \/ AckRollback(c)
              \/ \E cursor \in 1..MaxId : AckBegin(c, cursor)
         \/ \E a \in Apps :
              \/ DisableApp(a) \/ EnableApp(a) \/ RegenerateSecret(a)
              \/ ChangeVisibility(a) \/ DeleteApp(a) \/ CloseApp(a)
         \/ Quiesce \/ UNCHANGED vars
  PROVE  UNCHANGED <<appEventMu, wpc, wrows, nextId, cpc, capp, csecret, page>>
BY DEF WriteEvent, LoseConnection, CloseConnection, AckStep, AckFindEvent, AckCommit,
       AckRollback, AckBegin, DisableApp, EnableApp, RegenerateSecret, ChangeVisibility,
       DeleteApp, CloseApp, Quiesce, vars, dbVars, writerVars, connVars, replayVars

\* Every step keeps the mutex with its holder.
LEMMA MutexNext == TypeOK /\ MutexHeld /\ [Next]_vars => MutexHeld'
<1> SUFFICES ASSUME TypeOK, MutexHeld, [Next]_vars
             PROVE  MutexHeld'
  OBVIOUS
<1>1. CASE ServerCrash
  BY <1>1 DEF ServerCrash, MutexHeld
<1>2. CASE UNCHANGED <<appEventMu, wpc, wrows, nextId, cpc, capp, csecret, page>>
  BY <1>2 DEF MutexHeld
<1> QED BY <1>1, <1>2, MutexWriter, MutexHandler, OtherStepsKeepPhases DEF Next

\* The sections of writers and of replaying connections exclude each other:
\* between the insertion of rows and the end of their delivery no other rows
\* are inserted and no connection registers or replays.
THEOREM MutualExclusion == Spec => []MutexHeld
<1>1. Init => MutexHeld
  BY DEF Init, MutexHeld
<1>2. TypeOK /\ MutexHeld /\ [Next]_vars => MutexHeld'
  BY MutexNext
<1> QED BY <1>1, <1>2, TypeCorrect, PTL DEF Spec

-----------------------------------------------------------------------------
(* No stale connections, provided the reload before CloseApp succeeds.     *)

\* A CloseApp that comes later finds the connection, or an earlier one has.
Closable ==
  \A c \in Conns :
    (cpc[c] \in {"recheck"} \cup ServingPhases /\ open[c]) => registered[c] \/ c \in doomed

StaleInv == Closable /\ NoStaleConnection

\* Writers close connections but open none.
LEMMA StaleWriter ==
  ASSUME TypeOK, StaleInv, NEW w \in Writers,
         \/ WriterStep(w) \/ AbortTx(w)
         \/ \E apps \in Batches : CreateOutbox(w, apps)
  PROVE  StaleInv'
<1>1. /\ UNCHANGED <<cpc, capp, csecret, registered, doomed, closing, appState, secret>>
      /\ \A c \in Conns : open'[c] => open[c]
  BY DEF WriterStep, CommitTx, DeliverAppEvent, DeliverDone, ArchiveLoadItem, AbortTx,
         CreateOutbox, connVars, dbVars, TypeOK
<1> QED BY <1>1 DEF StaleInv, Closable, NoStaleConnection, CredentialsValid

\* Register makes a connection closable, Recheck makes it fresh.
LEMMA StaleHandler ==
  ASSUME TypeOK, StaleInv, NEW c \in Conns,
         HandlerStep(c) \/ \E a \in Apps : Authenticate(c, a)
  PROVE  StaleInv'
<1> USE DEF StaleInv, Closable, NoStaleConnection, CredentialsValid, ServingPhases
<1>0. /\ cpc \in [Conns -> {"none", "authenticated", "recheck"} \cup ServingPhases]
      /\ registered \in [Conns -> BOOLEAN] /\ open \in [Conns -> BOOLEAN]
      /\ capp \in [Conns -> Apps] /\ csecret \in [Conns -> Nat]
  BY DEF TypeOK
<1>1. CASE Register(c)
  <2>1. /\ UNCHANGED <<capp, csecret, doomed, closing, appState, secret>>
        /\ registered'[c] /\ cpc'[c] = "recheck"
    BY <1>0, <1>1 DEF Register, dbVars
  <2>2. \A d \in Conns \ {c} : /\ cpc'[d] = cpc[d] /\ open'[d] = open[d]
                               /\ registered'[d] = registered[d]
    BY <1>0, <1>1 DEF Register
  <2> QED BY <2>1, <2>2
<1>2. CASE Recheck(c)
  <2>1. /\ UNCHANGED <<capp, csecret, registered, open, doomed, closing, appState, secret>>
        /\ cpc[c] = "recheck" /\ CredentialsValid(c)
        /\ \A d \in Conns \ {c} : cpc'[d] = cpc[d]
    BY <1>0, <1>2 DEF Recheck, dbVars
  <2> QED BY <2>1
<1>3. CASE RecheckFails(c) \/ EndFailedReplay(c) \/ Unregister(c)
  <2>1. UNCHANGED <<closing, appState, secret>> /\ ~open'[c]
    BY <1>0, <1>3 DEF RecheckFails, EndFailedReplay, Unregister, dbVars
  <2>2. \A d \in Conns \ {c} : /\ cpc'[d] = cpc[d] /\ open'[d] = open[d]
                               /\ registered'[d] = registered[d]
                               /\ capp'[d] = capp[d] /\ csecret'[d] = csecret[d]
    BY <1>0, <1>3 DEF RecheckFails, EndFailedReplay, Unregister
  <2>3. \A d \in Conns \ {c} : d \in doomed' <=> d \in doomed
    BY <1>3 DEF RecheckFails, EndFailedReplay, Unregister
  <2> QED BY <2>1, <2>2, <2>3
<1>4. CASE \/ ReplayReadAck(c) \/ ReplayQuery(c) \/ ReplayEnqueue(c) \/ ReplayFails(c)
           \/ ReplayPageDone(c)
  <2>1. /\ UNCHANGED <<capp, csecret, registered, open, doomed, closing, appState, secret>>
        /\ cpc[c] \in ServingPhases
    BY <1>4 DEF ReplayReadAck, ReplayQuery, ReplayEnqueue, ReplayFails, ReplayPageDone, dbVars
  <2>2. \A d \in Conns \ {c} : cpc'[d] = cpc[d]
    BY <1>0, <1>4 DEF ReplayReadAck, ReplayQuery, ReplayEnqueue, ReplayFails, ReplayPageDone
  <2> QED BY <2>1, <2>2
<1>5. ASSUME NEW a \in Apps, Authenticate(c, a)
      PROVE  StaleInv'
  <2>1. /\ UNCHANGED <<registered, open, doomed, closing, appState, secret>>
        /\ cpc'[c] = "authenticated"
    BY <1>0, <1>5 DEF Authenticate, dbVars
  <2>2. \A d \in Conns \ {c} : /\ cpc'[d] = cpc[d] /\ capp'[d] = capp[d]
                               /\ csecret'[d] = csecret[d]
    BY <1>0, <1>5 DEF Authenticate
  <2> QED BY <2>1, <2>2
<1> QED BY <1>1, <1>2, <1>3, <1>4, <1>5 DEF HandlerStep

\* The loops of a connection close it or leave it as it is.
LEMMA StaleLoop ==
  ASSUME TypeOK, StaleInv, NEW c \in Conns,
         \/ WriteEvent(c) \/ LoseConnection(c) \/ CloseConnection(c)
         \/ AckStep(c) \/ AckRollback(c)
         \/ \E cursor \in 1..MaxId : AckBegin(c, cursor)
  PROVE  StaleInv'
<1>1. CASE CloseConnection(c)
  BY <1>1 DEF CloseConnection, TypeOK, StaleInv, Closable, NoStaleConnection,
              CredentialsValid, dbVars
<1>2. CASE ~CloseConnection(c)
  <2>1. /\ UNCHANGED <<cpc, capp, csecret, registered, doomed, closing, appState, secret>>
        /\ \A d \in Conns : open'[d] => open[d]
    BY <1>2 DEF WriteEvent, LoseConnection, AckStep, AckFindEvent, AckCommit, AckRollback,
                AckBegin, connVars, dbVars, TypeOK
  <2> QED BY <2>1 DEF StaleInv, Closable, NoStaleConnection, CredentialsValid
<1> QED BY <1>1, <1>2

\* An operation that invalidates credentials leaves a CloseApp to come.
LEMMA StaleAdmin ==
  ASSUME TypeOK, StaleInv, ReloadMayFail = FALSE, NEW a \in Apps,
         \/ DisableApp(a) \/ EnableApp(a) \/ RegenerateSecret(a) \/ ChangeVisibility(a)
         \/ DeleteApp(a) \/ CloseApp(a)
  PROVE  StaleInv'
<1> USE DEF TypeOK, StaleInv, Closable, NoStaleConnection, CredentialsValid, ThenCloseApp,
            connVars, dbVars
<1>1. CASE DisableApp(a)
  BY <1>1 DEF DisableApp
<1>2. CASE EnableApp(a)
  BY <1>2 DEF EnableApp
<1>3. CASE RegenerateSecret(a)
  BY <1>3 DEF RegenerateSecret
<1>4. CASE ChangeVisibility(a)
  BY <1>4 DEF ChangeVisibility
<1>5. CASE DeleteApp(a)
  BY <1>5 DEF DeleteApp
<1>6. CASE CloseApp(a)
  BY <1>6 DEF CloseApp, ServingPhases
<1> QED BY <1>1, <1>2, <1>3, <1>4, <1>5, <1>6

\* When no reload fails, a connection that a fresh handshake would refuse is
\* never served without a CloseApp or a close that is on its way: the second
\* authentication after Register leaves no gap, for any number of connections.
THEOREM StaleConnectionsClose ==
  ASSUME ReloadMayFail = FALSE
  PROVE  Spec => []NoStaleConnection
<1>1. Init => StaleInv
  BY DEF Init, StaleInv, Closable, NoStaleConnection
<1>2. TypeOK /\ StaleInv /\ [Next]_vars => StaleInv'
  <2> SUFFICES ASSUME TypeOK, StaleInv, [Next]_vars
               PROVE  StaleInv'
    OBVIOUS
  <2>1. CASE ServerCrash
    BY <2>1 DEF ServerCrash, StaleInv, Closable, NoStaleConnection, ServingPhases
  <2>2. CASE Quiesce \/ UNCHANGED vars
    BY <2>2 DEF Quiesce, vars, connVars, dbVars, StaleInv, Closable, NoStaleConnection,
                CredentialsValid
  <2> QED BY <2>1, <2>2, StaleWriter, StaleHandler, StaleLoop, StaleAdmin DEF Next
<1>3. StaleInv => NoStaleConnection
  BY DEF StaleInv
<1> QED BY <1>1, <1>2, <1>3, TypeCorrect, PTL DEF Spec

-----------------------------------------------------------------------------
(* Acknowledged cursors and the outbox.                                    *)

\* A cumulative acknowledgement never goes back, however the ACKs of several
\* connections interleave between reading the cursor and updating it.
THEOREM AcksNeverGoBack == Spec => AckMonotone
<1> DEFINE Kept == \A a \in Apps : appState'[a] # "deleted" => acked'[a] >= acked[a]
<1>1. TypeOK /\ [Next]_vars => [Kept]_vars
  <2> SUFFICES ASSUME TypeOK, [Next]_vars
               PROVE  Kept
    OBVIOUS
  <2>0. acked \in [Apps -> 0..MaxId] /\ appState \in [Apps -> {"enabled", "disabled", "deleted"}]
    BY DEF TypeOK
  <2>1. ASSUME NEW c \in Conns, AckCommit(c)
        PROVE  Kept
    BY <2>0, <2>1, ConstantsAssumption DEF AckCommit, AckedAfter, TypeOK
  <2>2. ASSUME NEW a \in Apps, DeleteApp(a)
        PROVE  Kept
    BY <2>0, <2>2, ConstantsAssumption DEF DeleteApp
  <2>3. CASE UNCHANGED acked
    BY <2>0, <2>3, ConstantsAssumption
  <2>4. ASSUME NEW w \in Writers,
               \/ WriterStep(w) \/ AbortTx(w)
               \/ \E apps \in Batches : CreateOutbox(w, apps)
        PROVE  UNCHANGED acked
    BY <2>4 DEF WriterStep, CommitTx, DeliverAppEvent, DeliverDone, ArchiveLoadItem,
                AbortTx, CreateOutbox, dbVars
  <2>5. ASSUME NEW c \in Conns, HandlerStep(c) \/ \E a \in Apps : Authenticate(c, a)
        PROVE  UNCHANGED acked
    BY <2>5 DEF HandlerStep, Register, Recheck, RecheckFails, ReplayReadAck, ReplayQuery,
                ReplayEnqueue, ReplayFails, EndFailedReplay, ReplayPageDone, Unregister,
                Authenticate, dbVars
  <2>6. ASSUME NEW c \in Conns,
               \/ WriteEvent(c) \/ LoseConnection(c) \/ CloseConnection(c)
               \/ AckFindEvent(c) \/ AckRollback(c)
               \/ \E cursor \in 1..MaxId : AckBegin(c, cursor)
        PROVE  UNCHANGED acked
    BY <2>6 DEF WriteEvent, LoseConnection, CloseConnection, AckFindEvent, AckRollback,
                AckBegin, dbVars
  <2>7. ASSUME NEW a \in Apps,
               \/ DisableApp(a) \/ EnableApp(a) \/ RegenerateSecret(a)
               \/ ChangeVisibility(a) \/ CloseApp(a)
        PROVE  UNCHANGED acked
    BY <2>7 DEF DisableApp, EnableApp, RegenerateSecret, ChangeVisibility, CloseApp, dbVars
  <2>8. CASE ServerCrash \/ Quiesce \/ UNCHANGED vars
    BY <2>8, <2>3 DEF ServerCrash, Quiesce, vars, dbVars
  <2> HIDE DEF Kept
  <2> QED BY <2>1, <2>2, <2>3, <2>4, <2>5, <2>6, <2>7, <2>8 DEF Next, AckStep
<1> QED BY <1>1, TypeCorrect, PTL DEF Spec, AckMonotone

-----------------------------------------------------------------------------
(* A deleted application leaves nothing.                                   *)

\* Row locks: an application a transaction has selected, or whose ACK is under
\* way, stays enabled; the connection of that ACK keeps its application.
LocksHeld ==
  /\ \A w \in Writers : wpc[w] = "inserted" =>
       \A r \in Range(wrows[w]) : appState[r.app] = "enabled"
  /\ \A c \in Conns : apc[c] # "idle" =>
       cpc[c] \in ServingPhases /\ appState[capp[c]] = "enabled"

DeletedInv == LocksHeld /\ DeletedLeavesNothing

\* A writer adds rows only to applications that it keeps enabled.
LEMMA DeletedWriter ==
  ASSUME TypeOK, DeletedInv, NEW w \in Writers,
         \/ WriterStep(w) \/ AbortTx(w)
         \/ \E apps \in Batches : CreateOutbox(w, apps)
  PROVE  DeletedInv'
<1> USE DEF DeletedInv, LocksHeld, DeletedLeavesNothing, dbVars, connVars, ackVars
<1>0. /\ wpc \in [Writers -> {"idle", "inserted", "loadItem", "committed"}]
      /\ wrows \in [Writers -> Seq(Rows)]
  BY DEF TypeOK
<1>1. CASE CommitTx(w)
  <2>1. \A a \in Apps : appState[a] = "deleted" =>
          {r.id : r \in {x \in Range(wrows[w]) : x.app = a}} = {}
    BY <1>1 DEF CommitTx
  <2>2. \A a \in Apps : appState[a] = "deleted" => outbox'[a] = {}
    BY <1>1, <2>1 DEF CommitTx
  <2> QED BY <1>0, <1>1, <2>2 DEF CommitTx
<1>2. CASE DeliverAppEvent(w)
  BY <1>0, <1>2 DEF DeliverAppEvent
<1>3. CASE DeliverDone(w)
  BY <1>0, <1>3 DEF DeliverDone
<1>4. CASE ArchiveLoadItem(w)
  BY <1>0, <1>4 DEF ArchiveLoadItem
<1>5. CASE AbortTx(w)
  BY <1>0, <1>5 DEF AbortTx
<1>6. ASSUME NEW apps \in Batches, CreateOutbox(w, apps)
      PROVE  DeletedInv'
  <2>1. apps \in Seq(Apps) /\ Len(apps) \in Nat
    BY BatchIsSeq, LenProperties
  <2>2. \A r \in Range(RowsFor(apps)) : appState[r.app] = "enabled"
    BY <1>6, <2>1 DEF CreateOutbox, Range, RowsFor
  <2> QED BY <1>0, <1>6, <2>2 DEF CreateOutbox
<1> QED BY <1>1, <1>2, <1>3, <1>4, <1>5, <1>6 DEF WriterStep

\* Connecting and replaying touch neither rows nor locks.
LEMMA DeletedHandler ==
  ASSUME TypeOK, DeletedInv, NEW c \in Conns,
         HandlerStep(c) \/ \E a \in Apps : Authenticate(c, a)
  PROVE  DeletedInv'
<1>0. /\ cpc \in [Conns -> {"none", "authenticated", "recheck"} \cup ServingPhases]
      /\ capp \in [Conns -> Apps]
  BY DEF TypeOK
<1>1. UNCHANGED <<outbox, acked, appState, wpc, wrows, apc>>
  BY DEF HandlerStep, Register, Recheck, RecheckFails, ReplayReadAck, ReplayQuery,
         ReplayEnqueue, ReplayFails, EndFailedReplay, ReplayPageDone, Unregister,
         Authenticate, dbVars, writerVars, ackVars
<1>2. \A d \in Conns \ {c} : cpc'[d] = cpc[d] /\ capp'[d] = capp[d]
  BY <1>0 DEF HandlerStep, Register, Recheck, RecheckFails, ReplayReadAck, ReplayQuery,
              ReplayEnqueue, ReplayFails, EndFailedReplay, ReplayPageDone, Unregister,
              Authenticate
<1>3. apc[c] # "idle" => cpc'[c] \in ServingPhases /\ capp'[c] = capp[c]
  <2> SUFFICES ASSUME apc[c] # "idle"
               PROVE  cpc'[c] \in ServingPhases /\ capp'[c] = capp[c]
    OBVIOUS
  <2>1. cpc[c] \in ServingPhases
    BY DEF DeletedInv, LocksHeld
  <2>2. cpc[c] \notin {"none", "authenticated", "recheck"}
    BY <2>1 DEF ServingPhases
  <2> QED BY <1>0, <2>1, <2>2
       DEF HandlerStep, Register, Recheck, RecheckFails, ReplayReadAck, ReplayQuery,
           ReplayEnqueue, ReplayFails, EndFailedReplay, ReplayPageDone, Unregister,
           Authenticate, ServingPhases
<1> QED BY <1>1, <1>2, <1>3 DEF DeletedInv, LocksHeld, DeletedLeavesNothing

\* An ACK under way belongs to an enabled application.
LEMMA DeletedLoop ==
  ASSUME TypeOK, DeletedInv, NEW c \in Conns,
         \/ WriteEvent(c) \/ LoseConnection(c) \/ CloseConnection(c)
         \/ AckStep(c) \/ AckRollback(c)
         \/ \E cursor \in 1..MaxId : AckBegin(c, cursor)
  PROVE  DeletedInv'
<1>0. /\ apc \in [Conns -> {"idle", "read", "found"}] /\ capp \in [Conns -> Apps]
      /\ outbox \in [Apps -> SUBSET (1..MaxId)] /\ acked \in [Apps -> 0..MaxId]
  BY DEF TypeOK
<1>1. UNCHANGED <<appState, wpc, wrows, cpc, capp>>
  BY DEF WriteEvent, LoseConnection, CloseConnection, AckStep, AckFindEvent, AckCommit,
         AckRollback, AckBegin, dbVars, writerVars, connVars
<1>2. \A d \in Conns \ {c} : apc'[d] = apc[d]
  BY <1>0 DEF WriteEvent, LoseConnection, CloseConnection, AckStep, AckFindEvent, AckCommit,
              AckRollback, AckBegin, ackVars
<1>3. apc'[c] # "idle" => \/ apc[c] # "idle"
                          \/ cpc[c] \in ServingPhases /\ appState[capp[c]] = "enabled"
  BY <1>0 DEF WriteEvent, LoseConnection, CloseConnection, AckStep, AckFindEvent, AckCommit,
              AckRollback, AckBegin, ackVars
<1>4. LocksHeld'
  BY <1>1, <1>2, <1>3 DEF DeletedInv, LocksHeld
<1>5. CASE AckCommit(c)
  <2>1. appState[capp[c]] = "enabled"
    BY <1>5 DEF AckCommit, DeletedInv, LocksHeld
  <2>2. \A a \in Apps \ {capp[c]} : outbox'[a] = outbox[a] /\ acked'[a] = acked[a]
    BY <1>0, <1>5 DEF AckCommit
  <2>3. DeletedLeavesNothing'
    BY <1>1, <2>1, <2>2 DEF DeletedInv, DeletedLeavesNothing
  <2> QED BY <1>4, <2>3 DEF DeletedInv
<1>6. CASE ~AckCommit(c)
  <2>1. UNCHANGED <<outbox, acked>>
    BY <1>6 DEF WriteEvent, LoseConnection, CloseConnection, AckStep, AckFindEvent,
                AckRollback, AckBegin, dbVars
  <2> QED BY <1>1, <1>4, <2>1 DEF DeletedInv, DeletedLeavesNothing
<1> QED BY <1>5, <1>6

\* Nothing is deleted or disabled under a row lock.
LEMMA DeletedAdmin ==
  ASSUME TypeOK, DeletedInv, NEW a \in Apps,
         \/ DisableApp(a) \/ EnableApp(a) \/ RegenerateSecret(a) \/ ChangeVisibility(a)
         \/ DeleteApp(a) \/ CloseApp(a)
  PROVE  DeletedInv'
<1> USE DEF TypeOK, DeletedInv, LocksHeld, DeletedLeavesNothing, AdminMay, ShareLocked,
            connVars, writerVars, ackVars, dbVars
<1>1. CASE DisableApp(a)
  BY <1>1 DEF DisableApp
<1>2. CASE EnableApp(a)
  BY <1>2 DEF EnableApp
<1>3. CASE RegenerateSecret(a)
  BY <1>3 DEF RegenerateSecret
<1>4. CASE ChangeVisibility(a)
  BY <1>4 DEF ChangeVisibility
<1>5. CASE DeleteApp(a)
  BY <1>5 DEF DeleteApp
<1>6. CASE CloseApp(a)
  BY <1>6 DEF CloseApp
<1> QED BY <1>1, <1>2, <1>3, <1>4, <1>5, <1>6

\* Deleting an application removes its pending events and its cursor for good:
\* no transaction or ACK that was under way brings any of them back.
THEOREM DeletionIsFinal == Spec => []DeletedLeavesNothing
<1>1. Init => DeletedInv
  BY DEF Init, DeletedInv, LocksHeld, DeletedLeavesNothing
<1>2. TypeOK /\ DeletedInv /\ [Next]_vars => DeletedInv'
  <2> SUFFICES ASSUME TypeOK, DeletedInv, [Next]_vars
               PROVE  DeletedInv'
    OBVIOUS
  <2>1. CASE ServerCrash
    BY <2>1 DEF ServerCrash, DeletedInv, LocksHeld, DeletedLeavesNothing, dbVars
  <2>2. CASE Quiesce \/ UNCHANGED vars
    BY <2>2 DEF Quiesce, vars, connVars, dbVars, ackVars, writerVars, DeletedInv,
                LocksHeld, DeletedLeavesNothing
  <2> QED BY <2>1, <2>2, DeletedWriter, DeletedHandler, DeletedLoop, DeletedAdmin DEF Next
<1>3. DeletedInv => DeletedLeavesNothing
  BY DEF DeletedInv
<1> QED BY <1>1, <1>2, <1>3, TypeCorrect, PTL DEF Spec

-----------------------------------------------------------------------------
(* Rows of a transaction under way lie above every cursor in circulation.  *)

\* Ids come from the sequence nextId.
IdsHandedOut ==
  /\ \A a \in Apps : acked[a] <= nextId /\ outbox[a] \cup got[a] \subseteq 1..nextId
  /\ \A c \in Conns : acur[c] <= nextId /\ page[c] \cup Range(sendBuf[c]) \subseteq 1..nextId
  /\ \A w \in Writers : \A r \in Range(wrows[w]) : r.id <= nextId

\* What anybody has received, or can receive before the commit, is older.
FreshRows ==
  \A w \in Writers : wpc[w] = "inserted" =>
    \A r \in Range(wrows[w]) :
      /\ \A a \in Apps : acked[a] < r.id /\ \A i \in got[a] : i < r.id
      /\ \A c \in Conns : acur[c] < r.id /\ \A i \in Range(sendBuf[c]) : i < r.id

CursorInv == IdsHandedOut /\ FreshRows /\ OutboxAboveAck

\* Appending adds one element ...
LEMMA RangeOfAppend ==
  ASSUME NEW s \in Seq(1..MaxId), NEW e \in 1..MaxId
  PROVE  Range(Append(s, e)) = Range(s) \cup {e}
<1>1. /\ DOMAIN s = 1..Len(s) /\ Len(s) \in Nat
      /\ DOMAIN Append(s, e) = 1..(Len(s) + 1)
      /\ \A i \in 1..Len(s) : Append(s, e)[i] = s[i]
      /\ Append(s, e)[Len(s) + 1] = e
  BY LenProperties, AppendProperties
<1> QED BY <1>1 DEF Range

\* ... and taking the head leaves elements that were there.
LEMMA RangeOfHeadTail ==
  ASSUME NEW S, NEW s \in Seq(S), s # <<>>
  PROVE  Head(s) \in Range(s) /\ Range(Tail(s)) \subseteq Range(s)
<1>1. Len(s) \in Nat /\ Len(s) > 0 /\ DOMAIN s = 1..Len(s)
  BY LenProperties, EmptySeq
<1>2. Head(s) = s[1]
  OBVIOUS
<1>3. /\ DOMAIN Tail(s) = 1..(Len(s) - 1)
      /\ \A i \in 1..(Len(s) - 1) : Tail(s)[i] = s[i + 1]
  BY HeadTailProperties, LenProperties
<1> QED BY <1>1, <1>2, <1>3 DEF Range

\* The empty sequence has no elements.
LEMMA RangeOfEmpty == Range(<<>>) = {}
BY EmptySeq DEF Range

\* New rows get ids above all that circulate, and nobody else inserts meanwhile.
LEMMA CursorWriter ==
  ASSUME TypeOK, MutexHeld, CursorInv, NEW w \in Writers,
         \/ WriterStep(w) \/ AbortTx(w)
         \/ \E apps \in Batches : CreateOutbox(w, apps)
  PROVE  CursorInv'
<1> USE DEF CursorInv, dbVars, connVars, replayVars, ackVars, clientVars
<1>0. /\ nextId \in Nat /\ acked \in [Apps -> Nat]
      /\ wrows \in [Writers -> Seq(Rows)]
      /\ wpc \in [Writers -> {"idle", "inserted", "loadItem", "committed"}]
      /\ \A v \in Writers : \A r \in Range(wrows[v]) : r.id \in Nat \ {0}
  <2>1. wrows \in [Writers -> Seq(Rows)]
    BY DEF TypeOK
  <2>2. \A v \in Writers : \A r \in Range(wrows[v]) : r.id \in Nat \ {0}
    BY <2>1, RowIdsInRange, ConstantsAssumption
  <2>3. nextId \in Nat /\ acked \in [Apps -> Nat]
    BY ConstantsAssumption DEF TypeOK
  <2>4. wpc \in [Writers -> {"idle", "inserted", "loadItem", "committed"}]
    BY DEF TypeOK
  <2> QED BY <2>1, <2>2, <2>3, <2>4
<1>1. CASE CommitTx(w)
  <2>1. /\ wpc[w] = "inserted" /\ wpc'[w] # "inserted"
        /\ \A v \in Writers \ {w} : wpc[v] = "idle" /\ wpc'[v] = wpc[v]
    BY <1>0, <1>1 DEF CommitTx, MutexHeld
  <2>2. \A a \in Apps : \A i \in outbox'[a] :
          i \in outbox[a] \/ \E r \in Range(wrows[w]) : i = r.id
    BY <1>1 DEF CommitTx
  <2>3. \A r \in Range(wrows[w]) :
          r.id \in 1..nextId /\ \A a \in Apps : acked[a] < r.id
    BY <1>0, <2>1 DEF IdsHandedOut, FreshRows
  <2>4. UNCHANGED <<acked, nextId, got, acur, page, sendBuf, wrows>>
    BY <1>1 DEF CommitTx
  <2>5. IdsHandedOut'
    BY <2>2, <2>3, <2>4 DEF IdsHandedOut
  <2>6. FreshRows'
    BY <2>1 DEF FreshRows
  <2>7. OutboxAboveAck'
    BY <2>2, <2>3, <2>4 DEF OutboxAboveAck
  <2> QED BY <2>5, <2>6, <2>7
<1>2. CASE DeliverAppEvent(w)
  <2>1. \A v \in Writers : wpc[v] # "inserted" /\ wpc'[v] = wpc[v]
    BY <1>2 DEF DeliverAppEvent, MutexHeld
  <2>2. wrows[w] \in Seq(Rows) /\ wrows[w] # <<>> /\ wrows' = [wrows EXCEPT ![w] = Tail(@)]
    BY <1>0, <1>2 DEF DeliverAppEvent
  <2>3. /\ Head(wrows[w]).id \in 1..nextId /\ Head(wrows[w]).id \in 1..MaxId
        /\ Range(Tail(wrows[w])) \subseteq Range(wrows[w])
    BY <1>0, <2>2, RangeOfHeadTail, RowIdsInRange DEF IdsHandedOut
  <2>4. \A c \in Conns : Range(sendBuf'[c]) \subseteq Range(sendBuf[c]) \cup {Head(wrows[w]).id}
    <3>1. \A c \in Conns : Range(Append(sendBuf[c], Head(wrows[w]).id))
                             = Range(sendBuf[c]) \cup {Head(wrows[w]).id}
      <4>1. TAKE c \in Conns
      <4>2. sendBuf[c] \in Seq(1..MaxId)
        BY DEF TypeOK
      <4> QED BY <2>3, <4>2, RangeOfAppend
    <3> QED BY <1>2, <3>1 DEF DeliverAppEvent
  <2>5. UNCHANGED <<outbox, acked, nextId, got, acur, page>>
    BY <1>2 DEF DeliverAppEvent
  <2>6. \A v \in Writers : Range(wrows'[v]) \subseteq Range(wrows[v])
    BY <1>0, <2>2, <2>3
  <2>7. IdsHandedOut'
    BY <2>3, <2>4, <2>5, <2>6 DEF IdsHandedOut
  <2>8. FreshRows'
    BY <2>1 DEF FreshRows
  <2>9. OutboxAboveAck'
    BY <2>5 DEF OutboxAboveAck
  <2> QED BY <2>7, <2>8, <2>9
<1>3. CASE DeliverDone(w)
  BY <1>0, <1>3 DEF DeliverDone, IdsHandedOut, FreshRows, OutboxAboveAck
<1>4. CASE ArchiveLoadItem(w) \/ AbortTx(w)
  <2>1. UNCHANGED <<outbox, acked, nextId, got, acur, page, sendBuf>>
    BY <1>4 DEF ArchiveLoadItem, AbortTx
  <2>2. \A v \in Writers : /\ Range(wrows'[v]) \subseteq Range(wrows[v])
                           /\ wpc'[v] = "inserted" => wpc[v] = "inserted"
    BY <1>0, <1>4, RangeOfEmpty DEF ArchiveLoadItem, AbortTx
  <2> QED BY <2>1, <2>2 DEF IdsHandedOut, FreshRows, OutboxAboveAck
<1>5. ASSUME NEW apps \in Batches, CreateOutbox(w, apps)
      PROVE  CursorInv'
  <2>1. apps \in Seq(Apps) /\ Len(apps) \in Nat
    BY BatchIsSeq, LenProperties
  <2>2. nextId' \in Nat /\ nextId' = nextId + Len(apps) /\ nextId <= nextId'
    BY <1>0, <1>5, <2>1 DEF CreateOutbox
  <2>3. \A v \in Writers : wpc[v] = "idle" /\ (v # w => wpc'[v] = "idle" /\ wrows'[v] = wrows[v])
    BY <1>0, <1>5, ConstantsAssumption DEF CreateOutbox, LockAppEvents, MutexHeld
  <2>4. wrows'[w] = RowsFor(apps)
    BY <1>0, <1>5 DEF CreateOutbox
  <2>5. \A r \in Range(RowsFor(apps)) : r.id > nextId /\ r.id <= nextId'
    BY <1>0, <2>1, <2>2 DEF Range, RowsFor
  <2>6. UNCHANGED <<outbox, acked, got, acur, page, sendBuf>>
    BY <1>5 DEF CreateOutbox
  <2>7. IdsHandedOut'
    <3>1. \A a \in Apps : acked[a] <= nextId' /\ outbox[a] \cup got[a] \subseteq 1..nextId'
      BY <1>0, <2>2 DEF IdsHandedOut
    <3>2. \A c \in Conns : /\ acur[c] <= nextId'
                           /\ page[c] \cup Range(sendBuf[c]) \subseteq 1..nextId'
      <4> TAKE c \in Conns
      <4>1. acur[c] \in Nat
        BY ConstantsAssumption DEF TypeOK
      <4>2. 1..nextId \subseteq 1..nextId'
        BY <1>0, <2>2
      <4>3. acur[c] <= nextId /\ page[c] \cup Range(sendBuf[c]) \subseteq 1..nextId
        BY DEF IdsHandedOut
      <4>4. acur[c] <= nextId'
        BY <1>0, <2>2, <4>1, <4>3
      <4> QED BY <4>2, <4>3, <4>4
    <3>3. \A v \in Writers : \A r \in Range(wrows'[v]) : r.id <= nextId'
      BY <1>0, <2>2, <2>3, <2>4, <2>5 DEF IdsHandedOut
    <3> QED BY <2>6, <3>1, <3>2, <3>3 DEF IdsHandedOut
  <2>8. FreshRows'
    <3>1. ASSUME NEW r \in Range(RowsFor(apps))
          PROVE  /\ \A a \in Apps : acked[a] < r.id /\ \A i \in got[a] : i < r.id
                 /\ \A c \in Conns : acur[c] < r.id /\ \A i \in Range(sendBuf[c]) : i < r.id
      <4>1. r.id \in Nat /\ r.id > nextId
        BY <1>0, <2>1, <2>5 DEF Range, RowsFor
      <4>2. \A a \in Apps : acked[a] < r.id /\ \A i \in got[a] : i < r.id
        BY <1>0, <4>1 DEF IdsHandedOut
      <4>3. \A c \in Conns : acur[c] \in Nat
        BY ConstantsAssumption DEF TypeOK
      <4>4. \A c \in Conns : acur[c] < r.id /\ \A i \in Range(sendBuf[c]) : i < r.id
        <5>1. \A c \in Conns : acur[c] < r.id
          BY <1>0, <4>1, <4>3 DEF IdsHandedOut
        <5>2. \A c \in Conns : \A i \in Range(sendBuf[c]) : i \in 1..nextId
          BY DEF IdsHandedOut
        <5>3. \A c \in Conns : \A i \in Range(sendBuf[c]) : i < r.id
          <6>1. nextId \in Nat /\ r.id \in Nat /\ nextId < r.id
            BY <1>0, <4>1
          <6> QED BY <5>2, <6>1
        <5> QED BY <5>1, <5>3
      <4> QED BY <4>2, <4>4
    <3> QED BY <2>3, <2>4, <2>6, <3>1 DEF FreshRows
  <2> QED BY <2>6, <2>7, <2>8 DEF OutboxAboveAck
<1> QED BY <1>1, <1>2, <1>3, <1>4, <1>5 DEF WriterStep

\* A replay copies ids from the outbox, while no writer has uncommitted rows.
LEMMA CursorHandler ==
  ASSUME TypeOK, MutexHeld, CursorInv, NEW c \in Conns,
         HandlerStep(c) \/ \E a \in Apps : Authenticate(c, a)
  PROVE  CursorInv'
<1> USE DEF dbVars, writerVars, connVars, replayVars, ackVars, clientVars
<1>1. CASE ReplayQuery(c)
  <2>1. page' = [page EXCEPT ![c] = FirstPage(RowsAbove(capp[c], nextCursor[c]))]
    BY <1>1 DEF ReplayQuery
  <2>2. FirstPage(RowsAbove(capp[c], nextCursor[c])) \subseteq outbox[capp[c]] /\ capp[c] \in Apps
    BY DEF FirstPage, RowsAbove, TypeOK
  <2>3. \A d \in Conns : page'[d] \subseteq 1..nextId
    <3>1. page \in [Conns -> SUBSET (1..MaxId)]
      BY DEF TypeOK
    <3>2. FirstPage(RowsAbove(capp[c], nextCursor[c])) \subseteq 1..nextId
      BY <2>2 DEF CursorInv, IdsHandedOut
    <3> QED BY <2>1, <3>1, <3>2 DEF CursorInv, IdsHandedOut
  <2>4. UNCHANGED <<outbox, acked, nextId, got, acur, sendBuf, wrows, wpc>>
    BY <1>1 DEF ReplayQuery
  <2>5. IdsHandedOut'
    BY <2>3, <2>4 DEF CursorInv, IdsHandedOut
  <2>6. FreshRows'
    BY <2>4 DEF CursorInv, FreshRows
  <2> QED BY <2>4, <2>5, <2>6 DEF CursorInv, OutboxAboveAck
<1>2. CASE ReplayEnqueue(c)
  <2>1. PICK id \in page[c] :
          /\ sendBuf' = [sendBuf EXCEPT ![c] = Append(@, id)]
          /\ page' = [page EXCEPT ![c] = @ \ {id}]
    BY <1>2 DEF ReplayEnqueue
  <2>2. id \in 1..MaxId /\ id \in 1..nextId
    BY <2>1 DEF TypeOK, CursorInv, IdsHandedOut
  <2>3. Range(Append(sendBuf[c], id)) = Range(sendBuf[c]) \cup {id}
    <3>1. sendBuf[c] \in Seq(1..MaxId)
      BY DEF TypeOK
    <3> QED BY <2>2, <3>1, RangeOfAppend
  <2>4. \A d \in Conns : page'[d] \cup Range(sendBuf'[d]) \subseteq 1..nextId
    <3>1. page \in [Conns -> SUBSET (1..MaxId)] /\ sendBuf \in [Conns -> Seq(1..MaxId)]
      BY DEF TypeOK
    <3>2. page[c] \cup Range(sendBuf[c]) \subseteq 1..nextId
      BY DEF CursorInv, IdsHandedOut
    <3>3. page'[c] \cup Range(sendBuf'[c]) \subseteq 1..nextId
      BY <2>1, <2>2, <2>3, <3>1, <3>2
    <3>4. \A d \in Conns \ {c} : page'[d] = page[d] /\ sendBuf'[d] = sendBuf[d]
      BY <2>1, <3>1
    <3> QED BY <3>3, <3>4 DEF CursorInv, IdsHandedOut
  <2>5. UNCHANGED <<outbox, acked, nextId, got, acur, wrows, wpc>>
    BY <1>2 DEF ReplayEnqueue
  <2>6. \A w \in Writers : wpc[w] = "idle"
    BY <1>2, ConstantsAssumption DEF ReplayEnqueue, MutexHeld
  <2>7. IdsHandedOut'
    BY <2>4, <2>5 DEF CursorInv, IdsHandedOut
  <2>8. FreshRows'
    BY <2>5, <2>6 DEF FreshRows
  <2> QED BY <2>5, <2>7, <2>8 DEF CursorInv, OutboxAboveAck
<1>3. CASE ~ReplayQuery(c) /\ ~ReplayEnqueue(c)
  <2>1. UNCHANGED <<outbox, acked, nextId, got, acur, wrows, wpc>>
    BY <1>3 DEF HandlerStep, Register, Recheck, RecheckFails, ReplayReadAck, ReplayFails,
                EndFailedReplay, ReplayPageDone, Unregister, Authenticate
  <2>2. \A d \in Conns : page'[d] \subseteq page[d]
    BY <1>3 DEF HandlerStep, Register, Recheck, RecheckFails, ReplayReadAck, ReplayFails,
                EndFailedReplay, ReplayPageDone, Unregister, Authenticate, TypeOK
  <2>3. \A d \in Conns : sendBuf'[d] \in {sendBuf[d], <<>>}
    BY <1>3 DEF HandlerStep, Register, Recheck, RecheckFails, ReplayReadAck, ReplayFails,
                EndFailedReplay, ReplayPageDone, Unregister, Authenticate, TypeOK
  <2>4. \A d \in Conns : Range(sendBuf'[d]) \subseteq Range(sendBuf[d])
    BY <2>3, RangeOfEmpty
  <2> QED BY <2>1, <2>2, <2>4 DEF CursorInv, IdsHandedOut, FreshRows, OutboxAboveAck
<1> QED BY <1>1, <1>2, <1>3

\* Arrivals and ACKs only pass on cursors that were handed out before.
LEMMA CursorLoop ==
  ASSUME TypeOK, CursorInv, NEW c \in Conns,
         \/ WriteEvent(c) \/ LoseConnection(c) \/ CloseConnection(c)
         \/ AckStep(c) \/ AckRollback(c)
         \/ \E cursor \in 1..MaxId : AckBegin(c, cursor)
  PROVE  CursorInv'
<1> USE DEF CursorInv, dbVars, writerVars, connVars, replayVars, ackVars, clientVars
<1>0. /\ capp[c] \in Apps /\ nextId \in Nat /\ acur \in [Conns -> Nat]
      /\ acked \in [Apps -> Nat] /\ sendBuf \in [Conns -> Seq(1..MaxId)]
      /\ outbox \in [Apps -> SUBSET Nat] /\ got \in [Apps -> SUBSET Nat]
  <2>1. 1..MaxId \subseteq Nat /\ 0..MaxId \subseteq Nat
    BY ConstantsAssumption
  <2>2. capp[c] \in Apps /\ sendBuf \in [Conns -> Seq(1..MaxId)]
    BY DEF TypeOK
  <2>3. nextId \in Nat /\ acur \in [Conns -> Nat] /\ acked \in [Apps -> Nat]
    BY <2>1, ConstantsAssumption DEF TypeOK
  <2>4. outbox \in [Apps -> SUBSET Nat] /\ got \in [Apps -> SUBSET Nat]
    BY <2>1 DEF TypeOK
  <2> QED BY <2>2, <2>3, <2>4
<1>1. \A w \in Writers : \A r \in Range(wrows[w]) : r.id \in Nat \ {0}
  <2>1. wrows \in [Writers -> Seq(Rows)]
    BY DEF TypeOK
  <2> QED BY <2>1, RowIdsInRange, ConstantsAssumption
<1>2. CASE WriteEvent(c)
  <2>1. /\ Head(sendBuf[c]) \in Range(sendBuf[c])
        /\ Range(Tail(sendBuf[c])) \subseteq Range(sendBuf[c])
    BY <1>0, <1>2, RangeOfHeadTail DEF WriteEvent
  <2>2. \A d \in Conns : Range(sendBuf'[d]) \subseteq Range(sendBuf[d])
    BY <1>0, <1>2, <2>1 DEF WriteEvent
  <2>3. \A a \in Apps : got'[a] \subseteq got[a] \cup Range(sendBuf[c])
    <3>1. \/ got' = got
          \/ got' = [got EXCEPT ![capp[c]] = @ \cup {Head(sendBuf[c])}]
      BY <1>2 DEF WriteEvent
    <3>2. CASE got' = got
      BY <3>2
    <3>3. CASE got' = [got EXCEPT ![capp[c]] = @ \cup {Head(sendBuf[c])}]
      <4>1. \A a \in Apps : got'[a] = got[a] \/ got'[a] = got[a] \cup {Head(sendBuf[c])}
        BY <1>0, <3>3
      <4> QED BY <2>1, <4>1
    <3> QED BY <3>1, <3>2, <3>3
  <2>4. UNCHANGED <<outbox, acked, nextId, acur, page, wrows, wpc>>
    BY <1>2 DEF WriteEvent
  <2>5. IdsHandedOut'
    BY <2>2, <2>3, <2>4 DEF IdsHandedOut
  <2>6. FreshRows'
    BY <2>2, <2>3, <2>4 DEF FreshRows
  <2> QED BY <2>4, <2>5, <2>6 DEF OutboxAboveAck
<1>3. CASE AckCommit(c)
  <2>1. \A a \in Apps : acked'[a] = acked[a] \/ acked'[a] = acur[c]
    BY <1>0, <1>3 DEF AckCommit, AckedAfter
  <2>2. \A a \in Apps : outbox'[a] \subseteq outbox[a] /\ \A i \in outbox'[a] : i > acked'[a]
    BY <1>0, <1>3 DEF AckCommit, AckedAfter, OutboxAboveAck
  <2>3. \A d \in Conns : acur'[d] = acur[d] \/ acur'[d] = 0
    BY <1>0, <1>3 DEF AckCommit
  <2>4. UNCHANGED <<nextId, got, page, sendBuf, wrows, wpc>>
    BY <1>3 DEF AckCommit
  <2>5. IdsHandedOut'
    <3>1. \A a \in Apps : acked'[a] <= nextId /\ outbox'[a] \cup got'[a] \subseteq 1..nextId
      BY <2>1, <2>2, <2>4 DEF IdsHandedOut
    <3>0. 0 <= nextId /\ \A d \in Conns : acur[d] <= nextId
      BY <1>0 DEF IdsHandedOut
    <3>2. \A d \in Conns : acur'[d] <= nextId
      BY <2>3, <3>0
    <3> QED BY <2>4, <3>1, <3>2 DEF IdsHandedOut
  <2>6. FreshRows'
    BY <1>1, <2>1, <2>3, <2>4 DEF FreshRows
  <2> QED BY <2>2, <2>5, <2>6 DEF OutboxAboveAck
<1>4. CASE AckFindEvent(c) \/ AckRollback(c) \/ LoseConnection(c) \/ CloseConnection(c)
  <2>1. \A d \in Conns : acur'[d] = acur[d] \/ acur'[d] = 0
    BY <1>0, <1>4 DEF AckFindEvent, AckRollback, LoseConnection, CloseConnection
  <2>2. UNCHANGED <<outbox, acked, nextId, got, page, sendBuf, wrows, wpc>>
    BY <1>4 DEF AckFindEvent, AckRollback, LoseConnection, CloseConnection
  <2>3. IdsHandedOut'
    <3>0. 0 <= nextId /\ \A d \in Conns : acur[d] <= nextId
      BY <1>0 DEF IdsHandedOut
    <3>1. \A d \in Conns : acur'[d] <= nextId
      BY <2>1, <3>0
    <3> QED BY <2>2, <3>1 DEF IdsHandedOut
  <2>4. FreshRows'
    BY <1>1, <2>1, <2>2 DEF FreshRows
  <2> QED BY <2>2, <2>3, <2>4 DEF OutboxAboveAck
<1>5. ASSUME NEW cursor \in 1..MaxId, AckBegin(c, cursor)
      PROVE  CursorInv'
  <2>1. cursor \in got[capp[c]] /\ \A d \in Conns : acur'[d] = acur[d] \/ acur'[d] = cursor
    BY <1>0, <1>5 DEF AckBegin
  <2>2. UNCHANGED <<outbox, acked, nextId, got, page, sendBuf, wrows, wpc>>
    BY <1>5 DEF AckBegin
  <2>3. IdsHandedOut'
    <3>0. cursor <= nextId /\ \A d \in Conns : acur[d] <= nextId
      BY <1>0, <2>1 DEF IdsHandedOut
    <3>1. \A d \in Conns : acur'[d] <= nextId
      BY <2>1, <3>0
    <3> QED BY <2>2, <3>1 DEF IdsHandedOut
  <2>4. FreshRows'
    BY <1>0, <2>1, <2>2 DEF FreshRows
  <2> QED BY <2>2, <2>3, <2>4 DEF OutboxAboveAck
<1> QED BY <1>2, <1>3, <1>4, <1>5 DEF AckStep

\* Administration removes rows and cursors but brings none.
LEMMA CursorAdmin ==
  ASSUME TypeOK, CursorInv, NEW a \in Apps,
         \/ DisableApp(a) \/ EnableApp(a) \/ RegenerateSecret(a) \/ ChangeVisibility(a)
         \/ DeleteApp(a) \/ CloseApp(a)
  PROVE  CursorInv'
<1>1. UNCHANGED <<nextId, got, acur, page, sendBuf, wrows, wpc>>
  BY DEF DisableApp, EnableApp, RegenerateSecret, ChangeVisibility, DeleteApp, CloseApp,
         dbVars, writerVars, connVars, replayVars, ackVars, clientVars
<1>2. \A b \in Apps : \/ outbox'[b] \subseteq outbox[b] /\ acked'[b] = acked[b]
                      \/ outbox'[b] = {} /\ acked'[b] = 0
  <2>1. CASE ChangeVisibility(a)
    BY <2>1 DEF ChangeVisibility, TypeOK
  <2>2. CASE DeleteApp(a)
    BY <2>2 DEF DeleteApp, TypeOK
  <2>3. CASE ~ChangeVisibility(a) /\ ~DeleteApp(a)
    BY <2>3 DEF DisableApp, EnableApp, RegenerateSecret, CloseApp, dbVars
  <2> QED BY <2>1, <2>2, <2>3
<1>3. nextId \in Nat /\ \A w \in Writers : \A r \in Range(wrows[w]) : r.id \in Nat \ {0}
  <2>1. nextId \in Nat /\ wrows \in [Writers -> Seq(Rows)]
    BY ConstantsAssumption DEF TypeOK
  <2> QED BY <2>1, RowIdsInRange, ConstantsAssumption
<1>4. IdsHandedOut'
  <2>1. \A b \in Apps : acked'[b] <= nextId /\ outbox'[b] \subseteq 1..nextId
    BY <1>2, <1>3 DEF CursorInv, IdsHandedOut
  <2> QED BY <1>1, <2>1 DEF CursorInv, IdsHandedOut
<1>5. FreshRows'
  BY <1>1, <1>2, <1>3 DEF CursorInv, FreshRows
<1> QED BY <1>2, <1>4, <1>5 DEF CursorInv, OutboxAboveAck

\* No step disturbs the order of the ids in circulation.
LEMMA CursorNext == TypeOK /\ MutexHeld /\ CursorInv /\ [Next]_vars => CursorInv'
<1> SUFFICES ASSUME TypeOK, MutexHeld, CursorInv, [Next]_vars
             PROVE  CursorInv'
  OBVIOUS
<1>1. CASE ServerCrash
  <2>1. UNCHANGED <<outbox, acked, nextId, got>>
    BY <1>1 DEF ServerCrash, dbVars
  <2>2. /\ wrows' = [w \in Writers |-> <<>>] /\ wpc' = [w \in Writers |-> "idle"]
        /\ sendBuf' = [c \in Conns |-> <<>>] /\ page' = [c \in Conns |-> {}]
        /\ acur' = [c \in Conns |-> 0]
    BY <1>1 DEF ServerCrash
  <2>3. nextId \in Nat
    BY ConstantsAssumption DEF TypeOK
  <2> QED BY <2>1, <2>2, <2>3, RangeOfEmpty
        DEF CursorInv, IdsHandedOut, FreshRows, OutboxAboveAck
<1>2. CASE Quiesce \/ UNCHANGED vars
  BY <1>2 DEF Quiesce, vars, connVars, dbVars, ackVars, writerVars, replayVars,
              clientVars, CursorInv, IdsHandedOut, FreshRows, OutboxAboveAck
<1> QED BY <1>1, <1>2, CursorWriter, CursorHandler, CursorLoop, CursorAdmin DEF Next

\* The order of the ids in circulation is kept.
LEMMA CursorInvariant == Spec => []CursorInv
<1>1. Init => CursorInv
  BY RangeOfEmpty, ConstantsAssumption
     DEF Init, CursorInv, IdsHandedOut, FreshRows, OutboxAboveAck
<1> QED BY <1>1, CursorNext, TypeCorrect, MutualExclusion, PTL DEF Spec

\* Ids are handed out in the order in which they are committed, so every
\* pending event lies above the acknowledged cursor, where a replay looks for
\* it: the reason for holding the mutex from the insertion to the commit.
THEOREM PendingAboveAck == Spec => []OutboxAboveAck
<1>1. CursorInv => OutboxAboveAck
  BY DEF CursorInv
<1> QED BY <1>1, CursorInvariant, PTL

-----------------------------------------------------------------------------
(***************************************************************************)
(* Nothing is lost between the outbox and an application, and the server   *)
(* implements ReliableEvents, for every set of applications, writers and   *)
(* connections and every size of buffer and page, provided the three ways  *)
(* of losing an event that the violation runs show are left out: a         *)
(* transaction that does not push its rows (ArchiveWriters), a query of    *)
(* the replay that fails (ReplayMayFail) and an envelope that is too large *)
(* (Oversize).                                                             *)
(***************************************************************************)

Delivering ==
  ArchiveWriters = {} /\ ReplayMayFail = FALSE /\ Oversize = {}

\* What a connection has carried or is going to.
Sent(c) == Range(recv[c]) \cup Range(sendBuf[c])

Ascending(s) == \A i, j \in DOMAIN s : i < j => s[i] < s[j]

(* A connection that is open has a handler between Register and the end of *)
(* Serve; before its replay begins it has carried nothing.                 *)
PhaseInv(c) ==
  /\ open[c] => cpc[c] \notin {"none", "authenticated", "failed", "draining"}
  /\ cpc[c] \in {"none", "authenticated", "recheck", "readAck"} =>
       recv[c] = <<>> /\ sendBuf[c] = <<>>
  /\ apc[c] # "idle" =>
       cpc[c] \notin {"none", "authenticated"} /\ acur[c] \in got[capp[c]]
  /\ Range(recv[c]) \subseteq got[capp[c]]

(* What a connection carries ascends, and goes on ascending.               *)
OrderInv(c) ==
  /\ Ascending(recv[c]) /\ Ascending(sendBuf[c])
  /\ \A x \in Range(recv[c]) : \A y \in Range(sendBuf[c]) : x < y
  /\ cpc[c] \in {"query", "enqueue"} => \A x \in Sent(c) : x <= nextCursor[c]
  /\ cpc[c] = "enqueue" => \A p \in page[c] : nextCursor[c] < p

\* Pending rows of a connection's application that it has still to carry.
Missing(c) == outbox[capp[c]] \ Sent(c)

\* Committed rows of an application that are about to be pushed.
Pushed(a) ==
  {i \in 1..MaxId : \E w \in Writers : \E r \in Range(wrows[w]) :
     wpc[w] = "committed" /\ r.app = a /\ r.id = i}

(* Nothing is missing below what a connection has carried, below the       *)
(* position of its replay or, once it serves, at all, except for what is   *)
(* about to be pushed to it.                                               *)
GapInv(c) ==
  /\ \A i \in Missing(c) : \A x \in Sent(c) : x < i
  /\ cpc[c] = "query" => \A i \in Missing(c) : nextCursor[c] < i
  /\ cpc[c] = "enqueue" => \A i \in Missing(c) :
       i \in page[c] \/ (pageFull[c] /\ nextCursor[c] < i /\ \A p \in page[c] : p < i)
  /\ cpc[c] = "serving" /\ open[c] /\ registered[c] => Missing(c) \subseteq Pushed(capp[c])

(* The rows of a transaction come in the order of their ids, above what    *)
(* connections have carried and, until they are committed, above the       *)
(* outbox.                                                                 *)
RowsInv ==
  \A w \in Writers :
    /\ wpc[w] # "loadItem"
    /\ \A i, j \in DOMAIN wrows[w] : i < j => wrows[w][i].id < wrows[w][j].id
    /\ wpc[w] = "idle" => wrows[w] = <<>>
    /\ \A r \in Range(wrows[w]) :
         /\ \A c \in Conns : \A x \in Sent(c) : x < r.id
         /\ wpc[w] = "inserted" => \A a \in Apps : \A i \in outbox[a] : i < r.id

(* So nothing is missing below what an application has received, and       *)
(* nothing was confirmed that it has not received.                         *)
GotInv ==
  /\ \A a \in Apps : \A k \in got[a] : \A i \in outbox[a] : i < k => i \in got[a]
  /\ NoEventLost

ConnInv(c) == PhaseInv(c) /\ OrderInv(c) /\ GapInv(c)

DeliveryInv == (\A c \in Conns : ConnInv(c)) /\ RowsInv /\ GotInv

-----------------------------------------------------------------------------
(* Pages and sequences.                                                    *)

\* A set of natural numbers that is not empty has a least element.
LEMMA LeastElement ==
  ASSUME NEW T, T \subseteq Nat, T # {}
  PROVE  \E m \in T : \A j \in T : m <= j
<1>1. PICK m \in T : \A j \in T : <<j, m>> \notin OpToRel(<, Nat)
  BY NatLessThanWellFounded, WFMin
<1>2. \A j \in T : ~(j < m)
  BY <1>1 DEF OpToRel
<1> QED BY <1>2

\* A page is full if it leaves out a row, and it has the lowest ones.
LEMMA PageIsLowest ==
  ASSUME NEW S \in SUBSET (1..MaxId), NEW i \in S, i \notin FirstPage(S)
  PROVE  FullPage(FirstPage(S)) /\ \A p \in FirstPage(S) : p < i
<1> DEFINE Below(k) == {j \in S : j < k}
<1>1. /\ IsFiniteSet(S) /\ S \subseteq Nat /\ PageSize \in Nat
      /\ \A T \in SUBSET S : IsFiniteSet(T) /\ Cardinality(T) \in Nat
  <2>1. IsFiniteSet(1..MaxId) /\ MaxId \in Nat /\ PageSize \in Nat
    BY FS_Interval, ConstantsAssumption
  <2>2. IsFiniteSet(S)
    BY <2>1, FS_Subset
  <2>3. \A T \in SUBSET S : IsFiniteSet(T)
    BY <2>2, FS_Subset
  <2> QED BY <2>1, <2>2, <2>3, FS_CardinalityType
<1>2. \A k \in S : k \in FirstPage(S) <=> Cardinality(Below(k)) < PageSize
  BY DEF FirstPage
<1>3. ASSUME NEW T \in SUBSET S, NEW U \in SUBSET T
      PROVE  Cardinality(U) <= Cardinality(T)
  <2>1. IsFiniteSet(T)
    BY <1>1
  <2> QED BY <2>1, FS_Subset
<1>4. \A p \in FirstPage(S) : p < i
  <2>1. ASSUME NEW p \in FirstPage(S), i <= p
        PROVE  FALSE
    <3>1. p \in S
      BY DEF FirstPage
    <3>2. Below(i) \in SUBSET Below(p) /\ Below(p) \in SUBSET S
      <4>1. \A j \in S : j \in Nat /\ i \in Nat /\ p \in Nat
        BY <1>1, <3>1
      <4>2. \A j \in S : j < i => j < p
        BY <2>1, <4>1
      <4> QED BY <4>2
    <3>3. Cardinality(Below(i)) <= Cardinality(Below(p))
      BY <1>3, <3>2
    <3>4. Cardinality(Below(i)) \in Nat /\ Cardinality(Below(p)) \in Nat
      BY <1>1, <3>2
    <3>5. ~(Cardinality(Below(i)) < PageSize) /\ Cardinality(Below(p)) < PageSize
      BY <1>2, <2>1, <3>1
    <3> HIDE DEF Below
    <3> QED BY <1>1, <3>3, <3>4, <3>5
  <2>2. \A p \in FirstPage(S) : p \in Nat /\ i \in Nat
    BY <1>1 DEF FirstPage
  <2> QED BY <2>1, <2>2
<1>5. FullPage(FirstPage(S))
  <2>1. PICK m \in S \ FirstPage(S) : \A j \in S \ FirstPage(S) : m <= j
    <3>1. S \ FirstPage(S) \subseteq Nat /\ S \ FirstPage(S) # {}
      BY <1>1
    <3> QED BY <3>1, LeastElement
  <2>2. Below(m) \in SUBSET FirstPage(S) /\ FirstPage(S) \in SUBSET S
    <3>1. FirstPage(S) \in SUBSET S
      BY DEF FirstPage
    <3>2. ASSUME NEW j \in Below(m)
          PROVE  j \in FirstPage(S)
      <4>1. j \in S /\ j < m /\ j \in Nat /\ m \in Nat
        BY <1>1, <2>1, <3>2
      <4>2. ~(m <= j)
        BY <4>1
      <4> QED BY <2>1, <4>1, <4>2
    <3> QED BY <3>1, <3>2
  <2>3. Cardinality(Below(m)) <= Cardinality(FirstPage(S))
    BY <1>3, <2>2
  <2>4. Cardinality(Below(m)) \in Nat /\ Cardinality(FirstPage(S)) \in Nat
    BY <1>1, <2>2
  <2>5. ~(Cardinality(Below(m)) < PageSize)
    BY <1>2, <2>1
  <2> HIDE DEF Below
  <2> QED BY <1>1, <2>3, <2>4, <2>5 DEF FullPage
<1> QED BY <1>4, <1>5

\* A sequence ascends still when something larger is appended ...
LEMMA AppendAscends ==
  ASSUME NEW s \in Seq(1..MaxId), NEW e \in 1..MaxId, Ascending(s),
         \A x \in Range(s) : x < e
  PROVE  Ascending(Append(s, e)) /\ Range(Append(s, e)) = Range(s) \cup {e}
<1>1. /\ DOMAIN s = 1..Len(s) /\ Len(s) \in Nat
      /\ DOMAIN Append(s, e) = 1..(Len(s) + 1)
      /\ \A i \in 1..Len(s) : Append(s, e)[i] = s[i]
      /\ Append(s, e)[Len(s) + 1] = e
  BY LenProperties, AppendProperties
<1> DEFINE n == Len(s)
<1>2. ASSUME NEW i \in 1..(n + 1), NEW j \in 1..(n + 1), i < j
      PROVE  Append(s, e)[i] < Append(s, e)[j]
  <2>1. i \in 1..n /\ (j \in 1..n \/ j = n + 1)
    <3>1. n \in Nat
      BY <1>1
    <3> HIDE DEF n
    <3> QED BY <1>2, <3>1
  <2>2. s[i] \in Range(s)
    BY <1>1, <2>1 DEF Range
  <2> QED BY <1>1, <1>2, <2>1, <2>2 DEF Ascending
<1> QED BY <1>1, <1>2, RangeOfAppend DEF Ascending

\* ... and when its head is taken off, which is the least.
LEMMA TailAscends ==
  ASSUME NEW s \in Seq(1..MaxId), s # <<>>, Ascending(s)
  PROVE  /\ Ascending(Tail(s)) /\ Head(s) \in 1..MaxId
         /\ Range(s) = {Head(s)} \cup Range(Tail(s))
         /\ \A x \in Range(Tail(s)) : Head(s) < x
<1>1. /\ Len(s) \in Nat /\ Len(s) > 0 /\ DOMAIN s = 1..Len(s)
      /\ Head(s) = s[1] /\ 1 \in DOMAIN s
  BY LenProperties, EmptySeq
<1>2. /\ DOMAIN Tail(s) = 1..(Len(s) - 1)
      /\ \A i \in 1..(Len(s) - 1) : Tail(s)[i] = s[i + 1]
  BY HeadTailProperties, LenProperties
<1> DEFINE n == Len(s)
<1>3. /\ \A i \in 1..(n - 1) : i + 1 \in 1..n /\ 1 < i + 1
      /\ \A i \in 1..n : i = 1 \/ (i - 1 \in 1..(n - 1) /\ (i - 1) + 1 = i)
      /\ \A i, j \in 1..(n - 1) : i < j => i + 1 < j + 1
  <2>1. n \in Nat
    BY <1>1
  <2> HIDE DEF n
  <2> QED BY <2>1
<1>4. Ascending(Tail(s))
  BY <1>1, <1>2, <1>3 DEF Ascending
<1>5. ASSUME NEW x \in Range(Tail(s))
      PROVE  Head(s) < x /\ x \in Range(s)
  <2>1. PICK i \in 1..(n - 1) : x = s[i + 1]
    BY <1>2 DEF Range
  <2> QED BY <1>1, <1>3, <2>1 DEF Ascending, Range
<1>6. ASSUME NEW x \in Range(s)
      PROVE  x \in {Head(s)} \cup Range(Tail(s))
  <2>1. PICK i \in 1..n : x = s[i]
    BY <1>1 DEF Range
  <2>2. CASE i # 1
    <3>1. i - 1 \in DOMAIN Tail(s) /\ Tail(s)[i - 1] = x
      BY <1>2, <1>3, <2>1, <2>2
    <3> QED BY <3>1 DEF Range
  <2> QED BY <1>1, <2>1, <2>2
<1>7. Head(s) \in Range(s) /\ Head(s) \in 1..MaxId
  BY <1>1, ElementOfSeq DEF Range
<1> QED BY <1>4, <1>5, <1>6, <1>7

-----------------------------------------------------------------------------
(* Steps that hand nothing on.                                             *)

\* The types of what a connection has.
LEMMA ConnTypes ==
  ASSUME TypeOK, NEW c \in Conns
  PROVE  /\ recv[c] \in Seq(1..MaxId) /\ sendBuf[c] \in Seq(1..MaxId)
         /\ Sent(c) \subseteq 1..MaxId /\ page[c] \subseteq 1..MaxId
         /\ nextCursor[c] \in Nat /\ capp[c] \in Apps
         /\ outbox[capp[c]] \subseteq 1..MaxId /\ got[capp[c]] \subseteq 1..MaxId
         /\ MaxId \in Nat /\ 1..MaxId \subseteq Nat
<1>1. /\ recv[c] \in Seq(1..MaxId) /\ sendBuf[c] \in Seq(1..MaxId)
      /\ capp[c] \in Apps /\ page[c] \subseteq 1..MaxId
  BY DEF TypeOK
<1>2. nextCursor[c] \in Nat /\ MaxId \in Nat /\ 1..MaxId \subseteq Nat
  BY ConstantsAssumption DEF TypeOK
<1>3. outbox[capp[c]] \subseteq 1..MaxId /\ got[capp[c]] \subseteq 1..MaxId
  BY <1>1 DEF TypeOK
<1>4. ASSUME NEW s \in Seq(1..MaxId), NEW x \in Range(s)
      PROVE  x \in 1..MaxId
  <2>1. PICK i \in 1..Len(s) : x = s[i]
    BY LenProperties DEF Range
  <2> QED BY <2>1, ElementOfSeq
<1> QED BY <1>1, <1>2, <1>3, <1>4 DEF Sent

\* What was pending may be confirmed or revoked, connections may end, and an
\* application may receive something on another connection.
LEMMA OtherConn ==
  ASSUME TypeOK, NEW c \in Conns, ConnInv(c),
         UNCHANGED <<recv[c], sendBuf[c], capp[c], cpc[c], nextCursor[c], page[c],
                     pageFull[c], wpc, wrows>>,
         outbox'[capp[c]] \subseteq outbox[capp[c]], got[capp[c]] \subseteq got'[capp[c]],
         open'[c] => open[c], registered'[c] => registered[c],
         apc'[c] # "idle" =>
           cpc[c] \notin {"none", "authenticated"} /\ acur'[c] \in got'[capp[c]]
  PROVE  ConnInv(c)'
<1> USE DEF ConnInv
<1>1. Sent(c)' = Sent(c) /\ Missing(c)' \subseteq Missing(c) /\ Pushed(capp[c])' = Pushed(capp[c])
  BY DEF Sent, Missing, Pushed
<1>2. PhaseInv(c)'
  BY DEF PhaseInv
<1>3. OrderInv(c)'
  BY <1>1 DEF OrderInv, Ascending
<1>4. GapInv(c)'
  BY <1>1 DEF GapInv
<1> QED BY <1>2, <1>3, <1>4

\* The rows of writers stay above what connections have carried.
LEMMA SameRows ==
  ASSUME RowsInv, UNCHANGED <<wpc, wrows>>,
         \A c \in Conns : Sent(c)' \subseteq Sent(c),
         \A a \in Apps : outbox'[a] \subseteq outbox[a]
  PROVE  RowsInv'
BY DEF RowsInv

\* Loops other than the writer's, ACKs and administration: rows only leave the
\* outbox, and an ACK takes those that the application has received.
LEMMA LoopDelivery ==
  ASSUME TypeOK, DeliveryInv, NEW c \in Conns,
         \/ LoseConnection(c) \/ CloseConnection(c) \/ AckStep(c) \/ AckRollback(c)
         \/ \E cursor \in 1..MaxId : AckBegin(c, cursor)
  PROVE  DeliveryInv'
<1> USE DEF DeliveryInv
<1>1. UNCHANGED <<recv, sendBuf, capp, cpc, nextCursor, page, pageFull, wpc, wrows,
                  got, registered>>
  BY DEF LoseConnection, CloseConnection, AckStep, AckFindEvent, AckCommit, AckRollback,
         AckBegin, connVars, replayVars, writerVars, clientVars
<1>2. \A a \in Apps : outbox'[a] \subseteq outbox[a]
  <2>1. CASE AckCommit(c)
    BY <2>1 DEF AckCommit, TypeOK
  <2>2. CASE ~AckCommit(c)
    BY <2>2 DEF LoseConnection, CloseConnection, AckStep, AckFindEvent, AckRollback,
                AckBegin, dbVars
  <2> QED BY <2>1, <2>2
<1>3. \A d \in Conns : open'[d] => open[d]
  BY DEF LoseConnection, CloseConnection, AckStep, AckFindEvent, AckCommit, AckRollback,
         AckBegin, connVars, TypeOK
<1>4. ASSUME NEW d \in Conns, apc'[d] # "idle"
      PROVE  cpc[d] \notin {"none", "authenticated"} /\ acur'[d] \in got'[capp[d]]
  <2>1. CASE apc'[d] = apc[d] /\ acur'[d] = acur[d]
    BY <1>1, <1>4, <2>1 DEF ConnInv, PhaseInv
  <2>2. CASE d = c /\ AckFindEvent(c)
    <3>1. apc[c] # "idle" /\ acur'[c] = acur[c]
      BY <1>4, <2>2 DEF AckFindEvent, TypeOK
    <3> QED BY <1>1, <2>2, <3>1 DEF ConnInv, PhaseInv
  <2>3. CASE d = c /\ \E cursor \in 1..MaxId : AckBegin(c, cursor)
    BY <1>1, <2>3 DEF AckBegin, ServingPhases, TypeOK
  <2>4. CASE d # c
    <3>1. CASE LoseConnection(c) \/ CloseConnection(c)
      BY <2>1, <3>1 DEF LoseConnection, CloseConnection, ackVars
    <3>2. CASE AckFindEvent(c)
      <4>1. apc'[d] = apc[d] /\ acur'[d] = acur[d]
        BY <2>4, <3>2 DEF AckFindEvent, TypeOK
      <4> QED BY <2>1, <4>1
    <3>3. CASE AckCommit(c) \/ AckRollback(c)
      <4>1. apc'[d] = apc[d] /\ acur'[d] = acur[d]
        BY <2>4, <3>3 DEF AckCommit, AckRollback, TypeOK
      <4> QED BY <2>1, <4>1
    <3>4. CASE \E cursor \in 1..MaxId : AckBegin(c, cursor)
      <4>1. apc'[d] = apc[d] /\ acur'[d] = acur[d]
        BY <2>4, <3>4 DEF AckBegin, TypeOK
      <4> QED BY <2>1, <4>1
    <3> QED BY <3>1, <3>2, <3>3, <3>4 DEF AckStep
  <2>5. CASE d = c /\ (LoseConnection(c) \/ CloseConnection(c))
    <3>1. apc'[d] = apc[d] /\ acur'[d] = acur[d]
      BY <2>5 DEF LoseConnection, CloseConnection, ackVars
    <3> QED BY <2>1, <3>1
  <2>6. CASE d = c /\ (AckCommit(c) \/ AckRollback(c))
    <3>1. apc'[d] = "idle"
      BY <2>6 DEF AckCommit, AckRollback, TypeOK
    <3> QED BY <1>4, <3>1
  <2> QED BY <2>2, <2>3, <2>4, <2>5, <2>6 DEF AckStep
<1>5. \A d \in Conns : ConnInv(d)'
  <2> TAKE d \in Conns
  <2>1. capp[d] \in Apps
    BY DEF TypeOK
  <2> QED BY <1>1, <1>2, <1>3, <1>4, <2>1, OtherConn
<1>6. RowsInv'
  BY <1>1, <1>2, SameRows DEF Sent
<1>7. NoEventLost'
  <2>1. CASE AckCommit(c)
    <3> DEFINE a == capp[c]
    <3>1. /\ consumed' = [consumed EXCEPT ![a] = @ \cup {i \in outbox[a] : i <= acur[c]}]
          /\ apc[c] = "found"
      BY <2>1 DEF AckCommit
    <3>2. a \in Apps /\ acur[c] \in got[a] /\ consumed \in [Apps -> SUBSET (1..MaxId)]
      BY <3>1 DEF ConnInv, PhaseInv, TypeOK
    <3>3. ASSUME NEW i \in outbox[a], i <= acur[c]
          PROVE  i \in got[a]
      <4>1. i < acur[c] \/ i = acur[c]
        <5>1. i \in Nat /\ acur[c] \in Nat
          BY <3>2, <3>3, ConnTypes
        <5> QED BY <3>3, <5>1
      <4> QED BY <3>2, <4>1 DEF GotInv
    <3>4. \A b \in Apps : consumed'[b] = consumed[b]
             \/ (b = a /\ consumed'[b] = consumed[b] \cup {i \in outbox[a] : i <= acur[c]})
      BY <3>1, <3>2
    <3> QED BY <1>1, <3>3, <3>4 DEF GotInv, NoEventLost
  <2>2. CASE ~AckCommit(c)
    <3>1. consumed' = consumed
      BY <2>2 DEF LoseConnection, CloseConnection, AckStep, AckFindEvent, AckRollback,
                  AckBegin, ghostVars
    <3> QED BY <1>1, <3>1 DEF GotInv, NoEventLost
  <2> QED BY <2>1, <2>2
<1>8. GotInv'
  BY <1>1, <1>2, <1>7 DEF GotInv
<1> QED BY <1>5, <1>6, <1>8

\* Administration revokes rows and takes connections out of the map.
LEMMA AdminDelivery ==
  ASSUME TypeOK, DeliveryInv, NEW a \in Apps,
         \/ DisableApp(a) \/ EnableApp(a) \/ RegenerateSecret(a) \/ ChangeVisibility(a)
         \/ DeleteApp(a) \/ CloseApp(a)
  PROVE  DeliveryInv'
<1> USE DEF DeliveryInv
<1>1. UNCHANGED <<recv, sendBuf, capp, cpc, nextCursor, page, pageFull, wpc, wrows,
                  got, open, apc, acur, consumed>>
  BY DEF DisableApp, EnableApp, RegenerateSecret, ChangeVisibility, DeleteApp, CloseApp,
         connVars, replayVars, writerVars, clientVars, ackVars, ghostVars
<1>2. \A b \in Apps : outbox'[b] \subseteq outbox[b]
  <2>1. ASSUME NEW b \in Apps, NEW rows, rows \subseteq outbox[a],
               outbox' = [outbox EXCEPT ![a] = rows]
        PROVE  outbox'[b] \subseteq outbox[b]
    BY <2>1 DEF TypeOK
  <2>2. CASE ChangeVisibility(a)
    <3>1. PICK revoked \in SUBSET outbox[a] : outbox' = [outbox EXCEPT ![a] = @ \ revoked]
      BY <2>2 DEF ChangeVisibility
    <3> QED BY <2>1, <3>1
  <2>3. CASE DeleteApp(a)
    BY <2>1, <2>3 DEF DeleteApp
  <2>4. CASE DisableApp(a) \/ EnableApp(a) \/ RegenerateSecret(a) \/ CloseApp(a)
    <3>1. outbox' = outbox
      BY <2>4 DEF DisableApp, EnableApp, RegenerateSecret, CloseApp, dbVars
    <3> QED BY <3>1
  <2> QED BY <2>2, <2>3, <2>4
<1>3. \A d \in Conns : registered'[d] => registered[d]
  BY DEF DisableApp, EnableApp, RegenerateSecret, ChangeVisibility, DeleteApp, CloseApp,
         connVars
<1>4. \A d \in Conns : ConnInv(d)'
  <2> TAKE d \in Conns
  <2>1. capp[d] \in Apps
    BY DEF TypeOK
  <2>2. apc'[d] # "idle" =>
           cpc[d] \notin {"none", "authenticated"} /\ acur'[d] \in got'[capp[d]]
    BY <1>1 DEF ConnInv, PhaseInv
  <2> QED BY <1>1, <1>2, <1>3, <2>1, <2>2, OtherConn
<1>5. RowsInv'
  BY <1>1, <1>2, SameRows DEF Sent
<1>6. GotInv'
  BY <1>1, <1>2 DEF GotInv, NoEventLost
<1> QED BY <1>4, <1>5, <1>6

-----------------------------------------------------------------------------
(* Arrivals.                                                               *)

\* What the write loop takes off the buffer is the next one in order, and what
\* is below it arrived before.
LEMMA WriteDelivery ==
  ASSUME Delivering, TypeOK, DeliveryInv, NEW c \in Conns, WriteEvent(c)
  PROVE  DeliveryInv'
<1> USE DEF DeliveryInv
<1> DEFINE h == Head(sendBuf[c])
<1> DEFINE a == capp[c]
<1>1. /\ sendBuf[c] # <<>> /\ sendBuf' = [sendBuf EXCEPT ![c] = Tail(sendBuf[c])]
      /\ recv' = [recv EXCEPT ![c] = Append(recv[c], h)]
      /\ got' = [got EXCEPT ![a] = got[a] \cup {h}]
      /\ UNCHANGED <<outbox, capp, cpc, nextCursor, page, pageFull, wpc, wrows, open,
                     registered, apc, acur, consumed>>
  BY DEF WriteEvent, Delivering, dbVars, writerVars, replayVars, ackVars, ghostVars
<1>2. /\ recv[c] \in Seq(1..MaxId) /\ sendBuf[c] \in Seq(1..MaxId) /\ a \in Apps
      /\ Sent(c) \subseteq 1..MaxId /\ 1..MaxId \subseteq Nat /\ MaxId \in Nat
      /\ outbox[a] \subseteq 1..MaxId
  BY ConnTypes
<1>3. ConnInv(c)
  OBVIOUS
<1>4. /\ Ascending(Tail(sendBuf[c])) /\ h \in 1..MaxId
      /\ Range(sendBuf[c]) = {h} \cup Range(Tail(sendBuf[c]))
      /\ \A x \in Range(Tail(sendBuf[c])) : h < x
  BY <1>1, <1>2, <1>3, TailAscends DEF ConnInv, OrderInv
<1>5. /\ Ascending(Append(recv[c], h))
      /\ Range(Append(recv[c], h)) = Range(recv[c]) \cup {h}
  BY <1>2, <1>3, <1>4, AppendAscends DEF ConnInv, OrderInv
<1>6. recv'[c] = Append(recv[c], h) /\ sendBuf'[c] = Tail(sendBuf[c])
  BY <1>1 DEF TypeOK
<1>7. Sent(c)' = Sent(c)
  BY <1>4, <1>5, <1>6 DEF Sent
<1>8. /\ got'[a] = got[a] \cup {h} /\ \A b \in Apps : got[b] \subseteq got'[b]
      /\ \A b \in Apps \ {a} : got'[b] = got[b]
  BY <1>1, <1>2 DEF TypeOK
<1>9. ConnInv(c)'
  <2>1. PhaseInv(c)'
    BY <1>1, <1>3, <1>5, <1>6, <1>8 DEF ConnInv, PhaseInv
  <2>2. OrderInv(c)'
    <3>1. \A x \in Range(recv'[c]) : \A y \in Range(sendBuf'[c]) : x < y
      BY <1>3, <1>4, <1>5, <1>6 DEF ConnInv, OrderInv
    <3>2. Ascending(recv'[c]) /\ Ascending(sendBuf'[c])
      BY <1>4, <1>5, <1>6
    <3> QED BY <1>1, <1>3, <1>7, <3>1, <3>2 DEF ConnInv, OrderInv, Ascending
  <2>3. GapInv(c)'
    <3>1. Missing(c)' = Missing(c) /\ Pushed(capp[c])' = Pushed(capp[c])
      BY <1>1, <1>7 DEF Missing, Pushed
    <3> QED BY <1>1, <1>3, <1>7, <3>1 DEF ConnInv, GapInv
  <2> QED BY <2>1, <2>2, <2>3 DEF ConnInv
<1>10. ASSUME NEW d \in Conns, d # c
       PROVE  ConnInv(d)' /\ Sent(d)' = Sent(d)
  <2>1. recv'[d] = recv[d] /\ sendBuf'[d] = sendBuf[d] /\ capp[d] \in Apps
    BY <1>1, <1>10 DEF TypeOK
  <2>2. apc'[d] # "idle" =>
           cpc[d] \notin {"none", "authenticated"} /\ acur'[d] \in got'[capp[d]]
    BY <1>1, <1>8, <2>1 DEF ConnInv, PhaseInv
  <2> QED BY <1>1, <1>8, <2>1, <2>2, OtherConn DEF Sent
<1>11. RowsInv'
  BY <1>1, <1>7, <1>10, SameRows
<1>12. GotInv'
  <2>1. ASSUME NEW i \in outbox[a], i < h
        PROVE  i \in got'[a]
    <3>1. i \in Nat /\ h \in Nat /\ h \in Sent(c)
      BY <1>2, <1>4 DEF Sent
    <3>2. i \in Sent(c)
      <4>1. CASE i \in Missing(c)
        <5>1. h < i
          BY <1>3, <3>1, <4>1 DEF ConnInv, GapInv
        <5> QED BY <2>1, <3>1, <5>1
      <4> QED BY <4>1 DEF Missing
    <3>3. i \notin Range(sendBuf[c])
      <4>1. ~(h < i) /\ i # h
        BY <2>1, <3>1
      <4> QED BY <1>4, <4>1
    <3> QED BY <1>3, <1>8, <3>2, <3>3 DEF Sent, ConnInv, PhaseInv
  <2>2. \A b \in Apps : \A k \in got'[b] : \A i \in outbox[b] : i < k => i \in got'[b]
    BY <1>8, <2>1 DEF GotInv
  <2> QED BY <1>1, <1>8, <2>2 DEF GotInv, NoEventLost
<1> QED BY <1>9, <1>10, <1>11, <1>12

-----------------------------------------------------------------------------
(* Writers.                                                                *)

\* The rows of a transaction, their ids and what is left after the first.
LEMMA RowsHeadTail ==
  ASSUME NEW s \in Seq(Rows), s # <<>>,
         \A i, j \in DOMAIN s : i < j => s[i].id < s[j].id
  PROVE  /\ \A i, j \in DOMAIN Tail(s) : i < j => Tail(s)[i].id < Tail(s)[j].id
         /\ Head(s) \in Range(s) /\ Range(s) = {Head(s)} \cup Range(Tail(s))
         /\ \A r \in Range(Tail(s)) : Head(s).id < r.id
<1>1. /\ Len(s) \in Nat /\ Len(s) > 0 /\ DOMAIN s = 1..Len(s)
      /\ Head(s) = s[1] /\ 1 \in DOMAIN s
  BY LenProperties, EmptySeq
<1>2. /\ DOMAIN Tail(s) = 1..(Len(s) - 1)
      /\ \A i \in 1..(Len(s) - 1) : Tail(s)[i] = s[i + 1]
  BY HeadTailProperties, LenProperties
<1> DEFINE n == Len(s)
<1>3. /\ \A i \in 1..(n - 1) : i + 1 \in 1..n /\ 1 < i + 1
      /\ \A i \in 1..n : i = 1 \/ (i - 1 \in 1..(n - 1) /\ (i - 1) + 1 = i)
      /\ \A i, j \in 1..(n - 1) : i < j => i + 1 < j + 1
  <2>1. n \in Nat
    BY <1>1
  <2> HIDE DEF n
  <2> QED BY <2>1
<1>4. \A i, j \in DOMAIN Tail(s) : i < j => Tail(s)[i].id < Tail(s)[j].id
  BY <1>1, <1>2, <1>3
<1>5. ASSUME NEW r \in Range(Tail(s))
      PROVE  Head(s).id < r.id /\ r \in Range(s)
  <2>1. PICK i \in 1..(n - 1) : r = s[i + 1]
    BY <1>2 DEF Range
  <2> QED BY <1>1, <1>3, <2>1 DEF Range
<1>6. ASSUME NEW r \in Range(s)
      PROVE  r \in {Head(s)} \cup Range(Tail(s))
  <2>1. PICK i \in 1..n : r = s[i]
    BY <1>1 DEF Range
  <2>2. CASE i # 1
    <3>1. i - 1 \in DOMAIN Tail(s) /\ Tail(s)[i - 1] = r
      BY <1>2, <1>3, <2>1, <2>2
    <3> QED BY <3>1 DEF Range
  <2> QED BY <1>1, <2>1, <2>2
<1>7. Head(s) \in Range(s)
  BY <1>1 DEF Range
<1> QED BY <1>4, <1>5, <1>6, <1>7

\* Connections do not mind what writers do as long as nothing they miss leaves
\* the rows to be pushed.
LEMMA WriterConn ==
  ASSUME NEW c \in Conns, ConnInv(c),
         UNCHANGED <<outbox, capp, recv, sendBuf, cpc, nextCursor, page, pageFull, open,
                     registered, apc, acur, got>>,
         Pushed(capp[c]) \subseteq Pushed(capp[c])'
  PROVE  ConnInv(c)' /\ Sent(c)' = Sent(c)
<1>1. Sent(c)' = Sent(c) /\ Missing(c)' = Missing(c)
  BY DEF Sent, Missing
<1>2. PhaseInv(c)' /\ OrderInv(c)'
  BY <1>1 DEF ConnInv, PhaseInv, OrderInv, Ascending
<1>3. GapInv(c)'
  BY <1>1 DEF ConnInv, GapInv
<1> QED BY <1>1, <1>2, <1>3 DEF ConnInv

\* Only the holder of the mutex has rows.
LEMMA OneWriter ==
  ASSUME TypeOK, MutexHeld, RowsInv, NEW w \in Writers, wpc[w] # "idle"
  PROVE  /\ \A v \in Writers \ {w} : wpc[v] = "idle" /\ wrows[v] = <<>> /\ Range(wrows[v]) = {}
         /\ \A c \in Conns : cpc[c] \notin {"recheck", "readAck", "query", "enqueue"}
         /\ wrows[w] \in Seq(Rows)
BY ConstantsAssumption, RangeOfEmpty DEF MutexHeld, RowsInv, TypeOK

\* New rows get ids above everything; nobody but their writer has any.
LEMMA InsertDelivery ==
  ASSUME TypeOK, MutexHeld, CursorInv, DeliveryInv, NEW w \in Writers,
         NEW apps \in Batches, CreateOutbox(w, apps)
  PROVE  DeliveryInv'
<1> USE DEF DeliveryInv
<1>1. /\ apps \in Seq(Apps) /\ Len(apps) \in Nat /\ DOMAIN RowsFor(apps) = 1..Len(apps)
      /\ nextId \in Nat /\ wrows' = [wrows EXCEPT ![w] = RowsFor(apps)]
      /\ wpc' = [wpc EXCEPT ![w] = "inserted"] /\ appEventMu = NoHolder
      /\ UNCHANGED <<outbox, capp, recv, sendBuf, cpc, nextCursor, page, pageFull, open,
                     registered, apc, acur, got, consumed>>
  BY BatchIsSeq, LenProperties
     DEF CreateOutbox, LockAppEvents, TypeOK, connVars, replayVars, ackVars, clientVars,
         ghostVars, RowsFor
<1>2. /\ \A v \in Writers : wpc[v] = "idle" /\ wrows[v] = <<>> /\ Range(wrows[v]) = {}
      /\ wrows'[w] = RowsFor(apps) /\ wpc'[w] = "inserted"
      /\ \A v \in Writers \ {w} : wrows'[v] = wrows[v] /\ wpc'[v] = wpc[v]
  BY <1>1, ConstantsAssumption, RangeOfEmpty DEF MutexHeld, RowsInv, TypeOK
<1>3. \A a \in Apps : Pushed(a) = {}
  BY <1>2 DEF Pushed
<1>4. \A c \in Conns : ConnInv(c)' /\ Sent(c)' = Sent(c)
  <2>1. \A c \in Conns : capp[c] \in Apps
    BY DEF TypeOK
  <2> QED BY <1>1, <1>3, <2>1, WriterConn
<1>5. \A r \in Range(RowsFor(apps)) : r.id \in Nat /\ nextId < r.id
  BY <1>1 DEF RowsFor, Range
<1>6. \A i, j \in DOMAIN RowsFor(apps) : i < j => RowsFor(apps)[i].id < RowsFor(apps)[j].id
  BY <1>1 DEF RowsFor
<1>7. /\ \A c \in Conns : Sent(c) \subseteq 1..nextId
      /\ \A a \in Apps : outbox[a] \subseteq 1..nextId
  <2>1. ASSUME NEW c \in Conns
        PROVE  Sent(c) \subseteq 1..nextId
    <3>1. capp[c] \in Apps /\ Range(recv[c]) \subseteq got[capp[c]]
      BY DEF TypeOK, ConnInv, PhaseInv
    <3> QED BY <3>1 DEF CursorInv, IdsHandedOut, Sent
  <2> QED BY <2>1 DEF CursorInv, IdsHandedOut
<1>8. ASSUME NEW r \in Range(RowsFor(apps))
      PROVE  /\ \A c \in Conns : \A x \in Sent(c) : x < r.id
             /\ \A a \in Apps : \A i \in outbox[a] : i < r.id
  <2>1. \A x \in 1..nextId : x < r.id
    BY <1>1, <1>5
  <2> QED BY <1>7, <2>1
<1>9. RowsInv'
  <2>1. \A v \in Writers \ {w} : wpc'[v] = "idle" /\ wrows'[v] = <<>> /\ DOMAIN wrows'[v] = {}
    BY <1>2, EmptySeq
  <2> QED BY <1>1, <1>2, <1>4, <1>6, <1>8, <2>1 DEF RowsInv
<1>10. GotInv'
  BY <1>1 DEF GotInv, NoEventLost
<1> QED BY <1>4, <1>9, <1>10

\* A commit makes rows pending that are about to be pushed.
LEMMA CommitDelivery ==
  ASSUME Delivering, TypeOK, MutexHeld, CursorInv, DeliveryInv, NEW w \in Writers, CommitTx(w)
  PROVE  DeliveryInv'
<1> USE DEF DeliveryInv
<1>1. /\ wpc[w] = "inserted" /\ wpc' = [wpc EXCEPT ![w] = "committed"]
      /\ outbox' = [a \in Apps |->
           outbox[a] \cup {r.id : r \in {x \in Range(wrows[w]) : x.app = a}}]
      /\ UNCHANGED <<capp, recv, sendBuf, cpc, nextCursor, page, pageFull, open,
                     registered, apc, acur, got, consumed, wrows>>
  BY DEF CommitTx, Delivering, connVars, replayVars, ackVars, clientVars, ghostVars
<1>2. /\ \A v \in Writers \ {w} : wpc[v] = "idle" /\ wrows[v] = <<>> /\ Range(wrows[v]) = {}
      /\ \A c \in Conns : cpc[c] \notin {"recheck", "readAck", "query", "enqueue"}
      /\ wrows[w] \in Seq(Rows)
  BY <1>1, OneWriter
<1>3. /\ wpc'[w] = "committed" /\ \A v \in Writers \ {w} : wpc'[v] = wpc[v]
  BY <1>1 DEF TypeOK
<1>4. \A r \in Range(wrows[w]) : r.id \in 1..MaxId /\ r.app \in Apps
  BY <1>2, RowIdsInRange
<1>5. \A a \in Apps : Pushed(a) \subseteq Pushed(a)'
  BY <1>1, <1>3 DEF Pushed
<1>6. ASSUME NEW a \in Apps, NEW i \in outbox'[a], i \notin outbox[a]
      PROVE  /\ \E r \in Range(wrows[w]) : r.id = i /\ r.app = a
             /\ i \in Pushed(a)'
             /\ \A c \in Conns : \A x \in Sent(c) : x < i
             /\ \A k \in got[a] : k < i
  <2>1. PICK r \in Range(wrows[w]) : r.id = i /\ r.app = a
    BY <1>1, <1>6
  <2>2. i \in Pushed(a)'
    BY <1>1, <1>3, <1>4, <2>1 DEF Pushed
  <2> QED BY <1>1, <2>1, <2>2 DEF RowsInv, CursorInv, FreshRows
<1>7. ASSUME NEW c \in Conns
      PROVE  ConnInv(c)' /\ Sent(c)' = Sent(c)
  <2>1. Sent(c)' = Sent(c) /\ capp[c] \in Apps /\ capp'[c] = capp[c]
    BY <1>1 DEF Sent, TypeOK
  <2>2. PhaseInv(c)' /\ OrderInv(c)'
    BY <1>1, <2>1 DEF ConnInv, PhaseInv, OrderInv, Ascending
  <2>3. \A i \in Missing(c)' : i \in Missing(c) \/ (i \in outbox'[capp[c]] /\ i \notin outbox[capp[c]])
    BY <2>1 DEF Missing
  <2>4. \A i \in Missing(c)' : \A x \in Sent(c)' : x < i
    BY <1>6, <2>1, <2>3 DEF ConnInv, GapInv
  <2>5. cpc[c] = "serving" /\ open[c] /\ registered[c] => Missing(c)' \subseteq Pushed(capp[c])'
    BY <1>5, <1>6, <2>1, <2>3 DEF ConnInv, GapInv
  <2>6. GapInv(c)'
    <3>1. cpc'[c] # "query" /\ cpc'[c] # "enqueue"
      BY <1>1, <1>2
    <3>2. cpc'[c] = cpc[c] /\ open'[c] = open[c] /\ registered'[c] = registered[c]
      BY <1>1
    <3> QED BY <2>4, <2>5, <3>1, <3>2 DEF GapInv
  <2> QED BY <2>1, <2>2, <2>6 DEF ConnInv
<1>8. RowsInv'
  BY <1>1, <1>2, <1>3, <1>7 DEF RowsInv
<1>9. GotInv'
  <2>1. ASSUME NEW a \in Apps, NEW k \in got[a], NEW i \in outbox'[a], i < k
        PROVE  i \in got[a]
    <3>1. CASE i \notin outbox[a]
      <4>1. k < i
        BY <1>6, <3>1
      <4>2. i \in Nat /\ k \in Nat
        BY <1>4, <1>6, <3>1, ConstantsAssumption DEF TypeOK
      <4> QED BY <2>1, <4>1, <4>2
    <3> QED BY <2>1, <3>1 DEF GotInv
  <2> QED BY <1>1, <2>1 DEF GotInv, NoEventLost
<1> QED BY <1>7, <1>8, <1>9

\* An aborted or finished transaction leaves nothing to be pushed.
LEMMA EndDelivery ==
  ASSUME TypeOK, MutexHeld, DeliveryInv, NEW w \in Writers, AbortTx(w) \/ DeliverDone(w)
  PROVE  DeliveryInv'
<1> USE DEF DeliveryInv
<1>1. /\ wpc[w] # "idle" /\ (wpc[w] = "committed" => wrows[w] = <<>>)
      /\ wpc' = [wpc EXCEPT ![w] = "idle"]
      /\ wrows' = [wrows EXCEPT ![w] = <<>>]
      /\ UNCHANGED <<outbox, capp, recv, sendBuf, cpc, nextCursor, page, pageFull, open,
                     registered, apc, acur, got, consumed>>
  BY DEF AbortTx, DeliverDone, dbVars, connVars, replayVars, ackVars, clientVars,
         ghostVars, TypeOK
<1>2. /\ wpc'[w] = "idle" /\ wrows'[w] = <<>> /\ Range(wrows'[w]) = {} /\ DOMAIN wrows'[w] = {}
      /\ \A v \in Writers \ {w} : wpc'[v] = wpc[v] /\ wrows'[v] = wrows[v]
  BY <1>1, RangeOfEmpty, EmptySeq DEF TypeOK
<1>3. \A a \in Apps : Pushed(a) \subseteq Pushed(a)'
  <2>1. wpc[w] = "committed" => Range(wrows[w]) = {}
    BY <1>1, RangeOfEmpty
  <2> QED BY <1>2, <2>1 DEF Pushed
<1>4. \A c \in Conns : ConnInv(c)' /\ Sent(c)' = Sent(c)
  <2>1. \A c \in Conns : capp[c] \in Apps
    BY DEF TypeOK
  <2> QED BY <1>1, <1>3, <2>1, WriterConn
<1>5. RowsInv'
  BY <1>1, <1>2, <1>4 DEF RowsInv
<1>6. GotInv'
  BY <1>1 DEF GotInv, NoEventLost
<1> QED BY <1>4, <1>5, <1>6

\* A row is pushed to every connection that serves its application: it is the
\* lowest they miss.  One that does not take it is closed.
LEMMA PushDelivery ==
  ASSUME TypeOK, MutexHeld, DeliveryInv, NEW w \in Writers, DeliverAppEvent(w)
  PROVE  DeliveryInv'
<1> USE DEF DeliveryInv
<1> DEFINE row == Head(wrows[w])
<1> DEFINE rest == Tail(wrows[w])
<1> DEFINE target(c) == registered[c] /\ capp[c] = row.app /\ open[c]
<1>1. /\ wpc[w] = "committed" /\ wrows[w] # <<>>
      /\ wrows' = [wrows EXCEPT ![w] = rest]
      /\ \A c \in Conns : sendBuf'[c] = IF target(c) /\ Accepts(c)
                                          THEN Append(sendBuf[c], row.id) ELSE sendBuf[c]
      /\ \A c \in Conns : open'[c] => open[c] /\ (target(c) => Accepts(c))
      /\ UNCHANGED <<outbox, wpc, capp, recv, cpc, nextCursor, page, pageFull,
                     registered, apc, acur, got, consumed>>
  BY DEF DeliverAppEvent, KeptOpen, dbVars, replayVars, ackVars, clientVars, ghostVars
<1>2. /\ \A v \in Writers \ {w} : wpc[v] = "idle" /\ wrows[v] = <<>> /\ Range(wrows[v]) = {}
      /\ \A c \in Conns : cpc[c] \notin {"recheck", "readAck", "query", "enqueue"}
      /\ wrows[w] \in Seq(Rows)
  BY <1>1, OneWriter
<1>3. /\ \A i, j \in DOMAIN rest : i < j => rest[i].id < rest[j].id
      /\ row \in Range(wrows[w]) /\ Range(wrows[w]) = {row} \cup Range(rest)
      /\ \A r \in Range(rest) : row.id < r.id
  BY <1>1, <1>2, RowsHeadTail DEF RowsInv
<1>4. row.id \in 1..MaxId /\ row.app \in Apps
  BY <1>2, <1>3, RowIdsInRange
<1>5. wrows'[w] = rest /\ \A v \in Writers \ {w} : wrows'[v] = wrows[v]
  BY <1>1 DEF TypeOK
<1>6. \A a \in Apps : \A i \in Pushed(a) :
        (i \in Pushed(a)' /\ row.id < i) \/ (i = row.id /\ a = row.app)
  <2>1. ASSUME NEW a \in Apps, NEW i \in Pushed(a)
        PROVE  (i \in Pushed(a)' /\ row.id < i) \/ (i = row.id /\ a = row.app)
    <3>0. PICK v \in Writers : \E r \in Range(wrows[v]) :
            wpc[v] = "committed" /\ r.app = a /\ r.id = i
      BY <2>1 DEF Pushed
    <3>1. PICK r \in Range(wrows[v]) : wpc[v] = "committed" /\ r.app = a /\ r.id = i
      BY <3>0
    <3>2. v = w
      BY <1>2, <3>1
    <3>3. CASE r \in Range(rest)
      <4>1. i \in Pushed(a)'
        BY <1>1, <1>5, <2>1, <3>1, <3>2, <3>3 DEF Pushed
      <4> QED BY <1>3, <3>1, <3>3, <4>1
    <3>4. CASE r = row
      BY <3>1, <3>4
    <3> QED BY <1>3, <3>1, <3>2, <3>3, <3>4
  <2> QED BY <2>1
<1>7. ASSUME NEW c \in Conns
      PROVE  /\ recv[c] \in Seq(1..MaxId) /\ sendBuf[c] \in Seq(1..MaxId)
             /\ Sent(c) \subseteq 1..MaxId /\ 1..MaxId \subseteq Nat /\ capp[c] \in Apps
             /\ \A x \in Sent(c) : x < row.id
  BY <1>3, ConnTypes DEF RowsInv
<1>8. ASSUME NEW c \in Conns, target(c), Accepts(c)
      PROVE  ConnInv(c)' /\ Sent(c)' = Sent(c) \cup {row.id}
  <2>1. /\ sendBuf'[c] = Append(sendBuf[c], row.id) /\ recv'[c] = recv[c]
        /\ cpc[c] = "serving" /\ cpc'[c] = cpc[c] /\ capp'[c] = capp[c]
    <3>1. cpc[c] \notin {"none", "authenticated", "failed", "draining"}
      BY <1>8 DEF ConnInv, PhaseInv
    <3>2. cpc[c] = "serving"
      BY <1>2, <3>1 DEF TypeOK, ServingPhases
    <3> QED BY <1>1, <1>8, <3>2
  <2>2. /\ Ascending(Append(sendBuf[c], row.id))
        /\ Range(Append(sendBuf[c], row.id)) = Range(sendBuf[c]) \cup {row.id}
    <3>1. Ascending(sendBuf[c]) /\ \A x \in Range(sendBuf[c]) : x < row.id
      BY <1>7 DEF ConnInv, OrderInv, Sent
    <3> HIDE DEF row
    <3> QED BY <1>4, <1>7, <3>1, AppendAscends
  <2>3. Sent(c)' = Sent(c) \cup {row.id} /\ Missing(c)' = Missing(c) \ {row.id}
    BY <1>1, <2>1, <2>2 DEF Sent, Missing
  <2>4. PhaseInv(c)'
    BY <1>1, <2>1 DEF ConnInv, PhaseInv
  <2>5. OrderInv(c)'
    <3>1. \A x \in Range(recv[c]) : \A y \in Range(sendBuf[c]) \cup {row.id} : x < y
      BY <1>7 DEF ConnInv, OrderInv, Sent
    <3>2. Ascending(recv'[c]) /\ Ascending(sendBuf'[c])
      BY <2>1, <2>2 DEF ConnInv, OrderInv
    <3> QED BY <2>1, <2>2, <3>1, <3>2 DEF OrderInv, Ascending
  <2>6. Missing(c) \subseteq Pushed(capp[c])
    BY <1>8, <2>1 DEF ConnInv, GapInv
  <2>7. \A i \in Missing(c)' : row.id < i /\ i \in Pushed(capp[c])'
    BY <1>6, <1>7, <2>1, <2>3, <2>6
  <2>8. \A i \in Missing(c)' : \A x \in Sent(c)' : x < i
    BY <2>3, <2>7 DEF ConnInv, GapInv
  <2>9. GapInv(c)'
    BY <2>1, <2>7, <2>8 DEF GapInv
  <2> QED BY <2>3, <2>4, <2>5, <2>9 DEF ConnInv
<1>9. ASSUME NEW c \in Conns, ~(target(c) /\ Accepts(c))
      PROVE  ConnInv(c)' /\ Sent(c)' = Sent(c)
  <2>1. sendBuf'[c] = sendBuf[c] /\ recv'[c] = recv[c]
    BY <1>1, <1>9
  <2>2. Sent(c)' = Sent(c) /\ Missing(c)' = Missing(c)
    BY <1>1, <2>1 DEF Sent, Missing
  <2>3. PhaseInv(c)'
    BY <1>1, <2>1 DEF ConnInv, PhaseInv
  <2>4. OrderInv(c)'
    BY <1>1, <2>1, <2>2 DEF ConnInv, OrderInv, Ascending
  <2>5. cpc'[c] = "serving" /\ open'[c] /\ registered'[c] => Missing(c)' \subseteq Pushed(capp[c])'
    <3>1. ASSUME cpc'[c] = "serving", open'[c], registered'[c]
          PROVE  Missing(c)' \subseteq Pushed(capp[c])'
      <4>1. /\ capp[c] # row.app /\ cpc[c] = "serving" /\ open[c] /\ registered[c]
            /\ capp[c] \in Apps /\ capp'[c] = capp[c]
        BY <1>1, <1>7, <1>9, <3>1
      <4>2. Missing(c) \subseteq Pushed(capp[c])
        BY <4>1 DEF ConnInv, GapInv
      <4> QED BY <1>1, <1>6, <2>2, <4>1, <4>2
    <3> QED BY <3>1
  <2>6. GapInv(c)'
    BY <1>1, <2>2, <2>5 DEF ConnInv, GapInv
  <2> QED BY <2>2, <2>3, <2>4, <2>6 DEF ConnInv
<1>10. RowsInv'
  <2>1. \A r \in Range(rest) : \A c \in Conns : \A x \in Sent(c)' : x < r.id
    <3>1. ASSUME NEW r \in Range(rest), NEW c \in Conns, NEW x \in Sent(c)'
          PROVE  x < r.id
      <4>1. x \in Sent(c) \/ x = row.id
        BY <1>8, <1>9, <3>1
      <4>2. r \in Range(wrows[w]) /\ row.id < r.id
        BY <1>3
      <4>3. x \in Sent(c) => x < r.id
        BY <4>2 DEF RowsInv
      <4> QED BY <4>1, <4>2, <4>3
    <3> QED BY <3>1
  <2>2. /\ wpc[w] = "committed" /\ wpc' = wpc
        /\ \A v \in Writers \ {w} : wrows'[v] = <<>> /\ Range(wrows'[v]) = {}
    BY <1>1, <1>2, <1>5
  <2> QED BY <1>2, <1>3, <1>5, <2>1, <2>2 DEF RowsInv
<1>11. GotInv'
  BY <1>1 DEF GotInv, NoEventLost
<1> QED BY <1>8, <1>9, <1>10, <1>11

-----------------------------------------------------------------------------
(* Handlers: registration, replay and end of a connection.                 *)

\* A handler touches nothing but its own connection and the mutex.
LEMMA HandlerFrame ==
  ASSUME TypeOK, DeliveryInv, NEW c \in Conns,
         HandlerStep(c) \/ \E a \in Apps : Authenticate(c, a)
  PROVE  /\ UNCHANGED <<outbox, got, consumed, wpc, wrows, apc, acur>> /\ GotInv'
         /\ \A d \in Conns \ {c} : ConnInv(d)' /\ Sent(d)' = Sent(d)
<1> USE DEF DeliveryInv
<1>1. UNCHANGED <<outbox, got, consumed, wpc, wrows, apc, acur>>
  BY DEF HandlerStep, Register, Recheck, RecheckFails, ReplayReadAck, ReplayQuery,
         ReplayEnqueue, ReplayFails, EndFailedReplay, ReplayPageDone, Unregister,
         Authenticate, dbVars, writerVars, ackVars, clientVars, ghostVars
<1>2. ASSUME NEW d \in Conns, d # c
      PROVE  /\ UNCHANGED <<recv[d], sendBuf[d], capp[d], cpc[d]>>
             /\ UNCHANGED <<nextCursor[d], page[d], pageFull[d]>>
             /\ open'[d] = open[d] /\ registered'[d] = registered[d]
  <2>1. CASE Register(c) \/ Recheck(c) \/ RecheckFails(c) \/ ReplayReadAck(c)
    BY <1>2, <2>1 DEF Register, Recheck, RecheckFails, ReplayReadAck, connVars, replayVars,
                      clientVars, TypeOK
  <2>2. CASE ReplayQuery(c) \/ ReplayEnqueue(c) \/ ReplayPageDone(c)
    BY <1>2, <2>2 DEF ReplayQuery, ReplayEnqueue, ReplayPageDone, connVars, replayVars,
                      clientVars, TypeOK
  <2>3. CASE ReplayFails(c) \/ EndFailedReplay(c) \/ Unregister(c)
    BY <1>2, <2>3 DEF ReplayFails, EndFailedReplay, Unregister, connVars, replayVars,
                      clientVars, TypeOK
  <2>4. CASE \E a \in Apps : Authenticate(c, a)
    BY <1>2, <2>4 DEF Authenticate, connVars, replayVars, clientVars, TypeOK
  <2> QED BY <2>1, <2>2, <2>3, <2>4 DEF HandlerStep
<1>3. ASSUME NEW d \in Conns, d # c
      PROVE  ConnInv(d)' /\ Sent(d)' = Sent(d)
  <2>1. apc'[d] # "idle" =>
           cpc[d] \notin {"none", "authenticated"} /\ acur'[d] \in got'[capp[d]]
    BY <1>1 DEF ConnInv, PhaseInv
  <2> QED BY <1>1, <1>2, <1>3, <2>1, OtherConn DEF Sent
<1>4. GotInv'
  BY <1>1 DEF GotInv, NoEventLost
<1> QED BY <1>1, <1>3, <1>4

\* A connection that carries nothing and does not replay or serve.
LEMMA EmptyConn ==
  ASSUME NEW c \in Conns, recv'[c] = <<>>, sendBuf'[c] = <<>>,
         cpc'[c] \in {"none", "authenticated", "recheck", "readAck", "draining"},
         cpc'[c] \in {"none", "authenticated", "draining"} => ~open'[c],
         apc'[c] # "idle" =>
           cpc'[c] \notin {"none", "authenticated"} /\ acur'[c] \in got'[capp'[c]]
  PROVE  ConnInv(c)' /\ Sent(c)' = {}
<1>1. Sent(c)' = {} /\ Range(recv'[c]) = {} /\ Range(sendBuf'[c]) = {}
  BY RangeOfEmpty DEF Sent
<1>2. PhaseInv(c)'
  BY <1>1 DEF PhaseInv
<1>3. OrderInv(c)'
  BY <1>1, EmptySeq DEF OrderInv, Ascending
<1>4. GapInv(c)'
  BY <1>1 DEF GapInv
<1> QED BY <1>1, <1>2, <1>3, <1>4 DEF ConnInv

\* The end of a connection that was registered.
LEMMA ClosedConn ==
  ASSUME NEW c \in Conns, ConnInv(c), ~open'[c], cpc'[c] \in {"failed", "draining"},
         UNCHANGED <<recv, sendBuf, capp, outbox, got, apc, acur>>
  PROVE  ConnInv(c)' /\ Sent(c)' = Sent(c)
<1>1. Sent(c)' = Sent(c) /\ Missing(c)' = Missing(c)
  BY DEF Sent, Missing
<1>2. PhaseInv(c)'
  BY DEF ConnInv, PhaseInv
<1>3. OrderInv(c)'
  BY <1>1 DEF ConnInv, OrderInv, Ascending
<1>4. GapInv(c)'
  BY <1>1 DEF ConnInv, GapInv
<1> QED BY <1>1, <1>2, <1>3, <1>4 DEF ConnInv

\* The steps of a handler other than those of the replay.
LEMMA HandshakeDelivery ==
  ASSUME Delivering, TypeOK, DeliveryInv, NEW c \in Conns,
         \/ Register(c) \/ Recheck(c) \/ RecheckFails(c) \/ Unregister(c)
         \/ ReplayFails(c) \/ EndFailedReplay(c) \/ \E a \in Apps : Authenticate(c, a)
  PROVE  ConnInv(c)' /\ Sent(c)' \subseteq Sent(c)
<1> USE DEF DeliveryInv
<1>0. UNCHANGED <<outbox, got, apc, acur>>
  BY HandlerFrame DEF HandlerStep
<1>1. ConnInv(c)
  OBVIOUS
<1>2. CASE Register(c)
  <2>1. /\ recv'[c] = <<>> /\ sendBuf'[c] = <<>> /\ cpc'[c] = "recheck"
        /\ cpc[c] = "authenticated"
    BY <1>2 DEF Register, TypeOK
  <2>2. apc'[c] = "idle"
    BY <1>0, <1>1, <2>1 DEF ConnInv, PhaseInv
  <2> QED BY <2>1, <2>2, EmptyConn
<1>3. CASE Recheck(c)
  <2>1. /\ recv'[c] = <<>> /\ sendBuf'[c] = <<>> /\ cpc'[c] = "readAck"
        /\ capp'[c] = capp[c] /\ cpc[c] = "recheck"
    BY <1>1, <1>3 DEF Recheck, TypeOK, ConnInv, PhaseInv, clientVars
  <2>2. apc'[c] # "idle" => acur'[c] \in got'[capp'[c]]
    BY <1>0, <1>1, <2>1 DEF ConnInv, PhaseInv
  <2> QED BY <2>1, <2>2, EmptyConn
<1>4. CASE RecheckFails(c)
  <2>1. /\ recv'[c] = <<>> /\ sendBuf'[c] = <<>> /\ cpc'[c] = "draining" /\ ~open'[c]
        /\ capp'[c] = capp[c] /\ cpc[c] = "recheck"
    BY <1>1, <1>4 DEF RecheckFails, TypeOK, ConnInv, PhaseInv, clientVars
  <2>2. apc'[c] # "idle" => acur'[c] \in got'[capp'[c]]
    BY <1>0, <1>1, <2>1 DEF ConnInv, PhaseInv
  <2> QED BY <2>1, <2>2, EmptyConn
<1>5. CASE Unregister(c)
  <2>1. /\ recv'[c] = <<>> /\ sendBuf'[c] = <<>> /\ cpc'[c] = "none" /\ ~open'[c]
        /\ apc'[c] = "idle"
    BY <1>5 DEF Unregister, TypeOK, ackVars
  <2> QED BY <2>1, EmptyConn
<1>6. CASE ReplayFails(c)
  <2>1. /\ ~open'[c] /\ cpc'[c] = "failed" /\ UNCHANGED <<recv, sendBuf, capp>>
    BY <1>6 DEF ReplayFails, Delivering, TypeOK, clientVars
  <2> QED BY <1>0, <1>1, <2>1, ClosedConn
<1>7. CASE EndFailedReplay(c)
  <2>1. /\ ~open'[c] /\ cpc'[c] = "draining" /\ UNCHANGED <<recv, sendBuf, capp>>
    BY <1>7 DEF EndFailedReplay, TypeOK, clientVars
  <2> QED BY <1>0, <1>1, <2>1, ClosedConn
<1>8. ASSUME NEW a \in Apps, Authenticate(c, a)
      PROVE  ConnInv(c)' /\ Sent(c)' \subseteq Sent(c)
  <2>1. /\ cpc[c] = "none" /\ cpc'[c] = "authenticated"
        /\ UNCHANGED <<open, recv, sendBuf>>
    BY <1>8 DEF Authenticate, TypeOK, clientVars
  <2>2. recv'[c] = <<>> /\ sendBuf'[c] = <<>> /\ ~open'[c] /\ apc'[c] = "idle"
    BY <1>0, <1>1, <2>1 DEF ConnInv, PhaseInv
  <2> QED BY <2>1, <2>2, EmptyConn
<1> QED BY <1>2, <1>3, <1>4, <1>5, <1>6, <1>7, <1>8

\* The replay begins at the acknowledged cursor: all that is pending is above it.
LEMMA ReadAckDelivery ==
  ASSUME TypeOK, CursorInv, DeliveryInv, NEW c \in Conns, ReplayReadAck(c)
  PROVE  ConnInv(c)' /\ Sent(c)' \subseteq Sent(c)
<1> USE DEF DeliveryInv
<1>1. /\ cpc[c] = "readAck" /\ cpc'[c] = "query" /\ nextCursor'[c] = acked[capp[c]]
      /\ UNCHANGED <<outbox, recv, sendBuf, capp, apc, acur, got>>
  BY DEF ReplayReadAck, TypeOK, dbVars, ackVars, clientVars
<1>2. recv[c] = <<>> /\ sendBuf[c] = <<>> /\ capp[c] \in Apps
  BY <1>1 DEF ConnInv, PhaseInv, TypeOK
<1>3. Sent(c)' = {} /\ Sent(c) = {} /\ Missing(c)' \subseteq outbox[capp[c]]
  BY <1>1, <1>2, RangeOfEmpty DEF Sent, Missing
<1>4. PhaseInv(c)'
  BY <1>1 DEF ConnInv, PhaseInv
<1>5. OrderInv(c)'
  BY <1>1, <1>3 DEF ConnInv, OrderInv, Ascending
<1>6. GapInv(c)'
  <2>1. \A i \in Missing(c)' : nextCursor'[c] < i
    <3>1. \A i \in outbox[capp[c]] : i > acked[capp[c]]
      BY <1>2 DEF CursorInv, OutboxAboveAck
    <3>2. \A i \in outbox[capp[c]] : i \in Nat /\ acked[capp[c]] \in Nat
      BY <1>2, ConstantsAssumption DEF TypeOK
    <3> QED BY <1>1, <1>3, <3>1, <3>2
  <2> QED BY <1>1, <1>3, <2>1 DEF GapInv
<1> QED BY <1>3, <1>4, <1>5, <1>6 DEF ConnInv

\* A page holds the lowest rows above the position, and all if it is not full.
LEMMA QueryDelivery ==
  ASSUME TypeOK, DeliveryInv, NEW c \in Conns, ReplayQuery(c)
  PROVE  ConnInv(c)' /\ Sent(c)' \subseteq Sent(c)
<1> USE DEF DeliveryInv
<1> DEFINE rows == RowsAbove(capp[c], nextCursor[c])
<1>1. /\ cpc[c] = "query" /\ cpc'[c] = "enqueue"
      /\ page'[c] = FirstPage(rows) /\ pageFull'[c] = FullPage(FirstPage(rows))
      /\ UNCHANGED <<outbox, recv, sendBuf, capp, nextCursor, apc, acur, got>>
  BY DEF ReplayQuery, TypeOK, dbVars, ackVars, clientVars
<1>2. /\ Sent(c)' = Sent(c) /\ Missing(c)' = Missing(c)
      /\ outbox[capp[c]] \subseteq 1..MaxId /\ 1..MaxId \subseteq Nat /\ nextCursor[c] \in Nat
  BY <1>1, ConnTypes DEF Sent, Missing
<1>3. /\ rows \in SUBSET (1..MaxId) /\ FirstPage(rows) \subseteq rows
      /\ \A i \in rows : nextCursor[c] < i
  BY <1>2 DEF RowsAbove, FirstPage
<1>4. PhaseInv(c)'
  <2>1. cpc'[c] \notin {"none", "authenticated", "failed", "draining", "recheck", "readAck"}
    BY <1>1
  <2> QED BY <1>1, <2>1 DEF ConnInv, PhaseInv
<1>5. OrderInv(c)'
  BY <1>1, <1>2, <1>3 DEF ConnInv, OrderInv, Ascending
<1>6. ASSUME NEW i \in Missing(c), i \notin FirstPage(rows)
      PROVE  pageFull'[c] /\ nextCursor[c] < i /\ \A p \in page'[c] : p < i
  <2>1. nextCursor[c] < i /\ i \in outbox[capp[c]]
    BY <1>1 DEF ConnInv, GapInv, Missing
  <2>2. i \in rows
    BY <1>2, <2>1 DEF RowsAbove
  <2> HIDE DEF rows
  <2>3. FullPage(FirstPage(rows)) /\ \A p \in FirstPage(rows) : p < i
    BY <1>3, <1>6, <2>2, PageIsLowest
  <2> QED BY <1>1, <2>1, <2>3
<1>7. GapInv(c)'
  BY <1>1, <1>2, <1>6 DEF ConnInv, GapInv
<1> QED BY <1>2, <1>4, <1>5, <1>7 DEF ConnInv

\* The lowest row of the page is the lowest of all that are missing.
LEMMA EnqueueDelivery ==
  ASSUME TypeOK, MutexHeld, DeliveryInv, NEW c \in Conns, ReplayEnqueue(c)
  PROVE  ConnInv(c)' /\ \A w \in Writers : wpc[w] = "idle"
<1> USE DEF DeliveryInv
<1>1. PICK id \in page[c] :
        /\ \A j \in page[c] : id <= j
        /\ sendBuf' = [sendBuf EXCEPT ![c] = Append(@, id)]
        /\ page' = [page EXCEPT ![c] = @ \ {id}]
        /\ nextCursor' = [nextCursor EXCEPT ![c] = id]
  BY DEF ReplayEnqueue
<1>2. /\ sendBuf'[c] = Append(sendBuf[c], id) /\ page'[c] = page[c] \ {id}
      /\ nextCursor'[c] = id /\ cpc[c] = "enqueue"
      /\ UNCHANGED <<outbox, recv, capp, cpc, pageFull, open, registered, apc, acur, got,
                     wpc, wrows>>
  BY <1>1 DEF ReplayEnqueue, TypeOK, dbVars, ackVars, clientVars, writerVars
<1>3. /\ recv[c] \in Seq(1..MaxId) /\ sendBuf[c] \in Seq(1..MaxId)
      /\ Sent(c) \subseteq 1..MaxId /\ page[c] \subseteq 1..MaxId
      /\ nextCursor[c] \in Nat /\ outbox[capp[c]] \subseteq 1..MaxId
      /\ MaxId \in Nat /\ 1..MaxId \subseteq Nat
  BY ConnTypes
<1>4. id \in 1..MaxId /\ nextCursor[c] < id /\ \A x \in Sent(c) : x < id
  <2>1. id \in page[c] /\ id \in 1..MaxId /\ id \in Nat
    BY <1>1, <1>3
  <2>2. nextCursor[c] < id
    BY <1>2, <2>1 DEF ConnInv, OrderInv
  <2>3. \A x \in Sent(c) : x <= nextCursor[c] /\ x \in Nat
    BY <1>2, <1>3 DEF ConnInv, OrderInv
  <2>4. \A x \in Sent(c) : x < id
    BY <1>3, <2>1, <2>2, <2>3
  <2> QED BY <2>1, <2>2, <2>4
<1>5. /\ Ascending(sendBuf'[c]) /\ Range(sendBuf'[c]) = Range(sendBuf[c]) \cup {id}
  BY <1>2, <1>3, <1>4, AppendAscends DEF ConnInv, OrderInv, Sent
<1>6. Sent(c)' = Sent(c) \cup {id} /\ Missing(c)' = Missing(c) \ {id}
  BY <1>2, <1>5 DEF Sent, Missing
<1>7. PhaseInv(c)'
  BY <1>2 DEF ConnInv, PhaseInv
<1>8. OrderInv(c)'
  <2>1. \A x \in Range(recv'[c]) : \A y \in Range(sendBuf'[c]) : x < y
    BY <1>2, <1>4, <1>5 DEF ConnInv, OrderInv, Sent
  <2>2. \A x \in Sent(c)' : x <= nextCursor'[c]
    BY <1>2, <1>3, <1>4, <1>6
  <2>3. \A p \in page'[c] : nextCursor'[c] < p
    <3>1. \A p \in page[c] : p \in Nat /\ id \in Nat /\ id <= p
      BY <1>1, <1>3
    <3> QED BY <1>2, <3>1
  <2>4. Ascending(recv'[c])
    BY <1>2 DEF ConnInv, OrderInv
  <2> QED BY <1>5, <2>1, <2>2, <2>3, <2>4 DEF OrderInv
<1>9. ASSUME NEW i \in Missing(c), i # id
      PROVE  id < i /\ (i \in page[c] \ {id} \/ (pageFull[c] /\ \A p \in page[c] : p < i))
  <2>1. i \in page[c] \/ (pageFull[c] /\ \A p \in page[c] : p < i)
    BY <1>2 DEF ConnInv, GapInv
  <2>2. i \in Nat /\ id \in Nat
    BY <1>3, <1>4 DEF Missing
  <2>3. id < i
    BY <1>1, <1>9, <2>1, <2>2
  <2> QED BY <1>9, <2>1, <2>3
<1>10. GapInv(c)'
  <2>1. \A i \in Missing(c)' : \A x \in Sent(c)' : x < i
    BY <1>6, <1>9 DEF ConnInv, GapInv
  <2>2. \A i \in Missing(c)' :
          \/ i \in page'[c]
          \/ pageFull'[c] /\ nextCursor'[c] < i /\ \A p \in page'[c] : p < i
    BY <1>2, <1>6, <1>9
  <2>3. cpc'[c] = "enqueue"
    BY <1>2
  <2> QED BY <2>1, <2>2, <2>3 DEF GapInv
<1>11. \A w \in Writers : wpc[w] = "idle"
  BY <1>2, ConstantsAssumption DEF MutexHeld
<1> QED BY <1>7, <1>8, <1>10, <1>11 DEF ConnInv

\* After a page that was not full nothing is missing.
LEMMA PageDelivery ==
  ASSUME TypeOK, DeliveryInv, NEW c \in Conns, ReplayPageDone(c)
  PROVE  ConnInv(c)' /\ Sent(c)' \subseteq Sent(c)
<1> USE DEF DeliveryInv
<1>1. /\ cpc[c] = "enqueue" /\ page[c] = {}
      /\ cpc'[c] = IF pageFull[c] THEN "query" ELSE "serving"
      /\ UNCHANGED <<outbox, recv, sendBuf, capp, nextCursor, page, pageFull, open,
                     registered, apc, acur, got>>
  BY DEF ReplayPageDone, TypeOK, dbVars, ackVars, clientVars, replayVars
<1>2. Sent(c)' = Sent(c) /\ Missing(c)' = Missing(c)
  BY <1>1 DEF Sent, Missing
<1>3. PhaseInv(c)'
  BY <1>1 DEF ConnInv, PhaseInv
<1>4. OrderInv(c)'
  BY <1>1, <1>2 DEF ConnInv, OrderInv, Ascending
<1>5. \A i \in Missing(c) : pageFull[c] /\ nextCursor[c] < i
  BY <1>1 DEF ConnInv, GapInv
<1>6. GapInv(c)'
  BY <1>1, <1>2, <1>5 DEF ConnInv, GapInv
<1> QED BY <1>2, <1>3, <1>4, <1>6 DEF ConnInv

\* What the handler of a connection does.
LEMMA HandlerDelivery ==
  ASSUME Delivering, TypeOK, MutexHeld, CursorInv, DeliveryInv, NEW c \in Conns,
         HandlerStep(c) \/ \E a \in Apps : Authenticate(c, a)
  PROVE  DeliveryInv'
<1> USE DEF DeliveryInv
<1>1. /\ UNCHANGED <<outbox, wpc, wrows>> /\ GotInv'
      /\ \A d \in Conns \ {c} : ConnInv(d)' /\ Sent(d)' = Sent(d)
  BY HandlerFrame
<1>2. CASE ReplayEnqueue(c)
  <2>1. ConnInv(c)' /\ \A w \in Writers : wpc[w] = "idle"
    BY <1>2, EnqueueDelivery
  <2>2. \A w \in Writers : wrows'[w] = <<>> /\ wpc'[w] = "idle" /\ Range(wrows'[w]) = {}
    BY <1>1, <2>1, RangeOfEmpty DEF RowsInv
  <2>3. RowsInv'
    BY <2>2, EmptySeq DEF RowsInv
  <2> QED BY <1>1, <2>1, <2>3
<1>3. CASE ~ReplayEnqueue(c)
  <2>1. ConnInv(c)' /\ Sent(c)' \subseteq Sent(c)
    BY <1>3, HandshakeDelivery, ReadAckDelivery, QueryDelivery, PageDelivery DEF HandlerStep
  <2>2. RowsInv'
    BY <1>1, <2>1, SameRows
  <2> QED BY <1>1, <2>1, <2>2
<1> QED BY <1>2, <1>3

\* A crash ends all connections and transactions and changes nothing else.
LEMMA CrashDelivery ==
  ASSUME DeliveryInv, ServerCrash
  PROVE  DeliveryInv'
<1> USE DEF DeliveryInv
<1>1. /\ wpc' = [w \in Writers |-> "idle"] /\ wrows' = [w \in Writers |-> <<>>]
      /\ UNCHANGED <<outbox, got, consumed>>
  BY DEF ServerCrash, dbVars
<1>2. ASSUME NEW c \in Conns
      PROVE  /\ recv'[c] = <<>> /\ sendBuf'[c] = <<>> /\ cpc'[c] = "none"
             /\ ~open'[c] /\ apc'[c] = "idle"
  BY DEF ServerCrash
<1>3. \A c \in Conns : ConnInv(c)'
  BY <1>2, EmptyConn
<1>4. RowsInv'
  BY <1>1, EmptySeq, RangeOfEmpty DEF RowsInv
<1>5. GotInv'
  BY <1>1 DEF GotInv, NoEventLost
<1> QED BY <1>3, <1>4, <1>5

\* Nothing is lost at the beginning ...
LEMMA InitDelivery == Init => DeliveryInv
<1> SUFFICES ASSUME Init PROVE DeliveryInv
  OBVIOUS
<1>1. /\ wpc = [w \in Writers |-> "idle"] /\ wrows = [w \in Writers |-> <<>>]
      /\ got = [a \in Apps |-> {}] /\ consumed = [a \in Apps |-> {}]
  BY DEF Init
<1>2. ASSUME NEW c \in Conns
      PROVE  ConnInv(c)
  <2>1. /\ recv[c] = <<>> /\ sendBuf[c] = <<>> /\ cpc[c] = "none"
        /\ open[c] = FALSE /\ apc[c] = "idle"
    BY DEF Init
  <2>2. Sent(c) = {} /\ Range(recv[c]) = {} /\ Range(sendBuf[c]) = {}
    BY <2>1, RangeOfEmpty DEF Sent
  <2>3. PhaseInv(c)
    BY <2>1, <2>2 DEF PhaseInv
  <2>4. OrderInv(c)
    BY <2>1, <2>2, EmptySeq DEF OrderInv, Ascending
  <2>5. GapInv(c)
    BY <2>1, <2>2 DEF GapInv
  <2> QED BY <2>3, <2>4, <2>5 DEF ConnInv
<1>3. RowsInv
  BY <1>1, EmptySeq, RangeOfEmpty DEF RowsInv
<1>4. GotInv
  BY <1>1 DEF GotInv, NoEventLost
<1> QED BY <1>2, <1>3, <1>4 DEF DeliveryInv

\* ... and by no step.
LEMMA NextDelivery ==
  ASSUME Delivering, TypeOK, MutexHeld, CursorInv, DeliveryInv, [Next]_vars
  PROVE  DeliveryInv'
<1>1. ASSUME NEW w \in Writers,
             \/ WriterStep(w) \/ AbortTx(w)
             \/ \E apps \in Batches : CreateOutbox(w, apps)
      PROVE  DeliveryInv'
  <2>1. CASE ArchiveLoadItem(w)
    BY <2>1 DEF ArchiveLoadItem, DeliveryInv, RowsInv
  <2> QED BY <1>1, <2>1, InsertDelivery, CommitDelivery, EndDelivery, PushDelivery
          DEF WriterStep
<1>2. CASE Quiesce \/ UNCHANGED vars
  <2>1. UNCHANGED <<outbox, capp, recv, sendBuf, cpc, nextCursor, page, pageFull, open,
                    registered, apc, acur, got, wpc, wrows, consumed>>
    BY <1>2 DEF Quiesce, vars, dbVars, writerVars, connVars, replayVars, ackVars,
                clientVars, ghostVars
  <2>2. \A a \in Apps : Pushed(a) \subseteq Pushed(a)'
    BY <2>1 DEF Pushed
  <2>3. ASSUME NEW c \in Conns
        PROVE  ConnInv(c)' /\ Sent(c)' = Sent(c)
    <3>1. capp[c] \in Apps /\ capp'[c] = capp[c] /\ ConnInv(c)
      BY <2>1 DEF TypeOK, DeliveryInv
    <3>2. Pushed(capp[c]) \subseteq Pushed(capp[c])'
      BY <2>1 DEF Pushed
    <3> QED BY <2>1, <3>1, <3>2, WriterConn
  <2>4. RowsInv'
    BY <2>1, <2>3, SameRows DEF DeliveryInv
  <2>5. GotInv'
    BY <2>1 DEF DeliveryInv, GotInv, NoEventLost
  <2> QED BY <2>3, <2>4, <2>5 DEF DeliveryInv
<1> QED BY <1>1, <1>2, CrashDelivery, LoopDelivery, WriteDelivery, HandlerDelivery,
           AdminDelivery DEF Next

\* The invariant of the delivery.
LEMMA DeliveryInvariant ==
  ASSUME Delivering
  PROVE  Spec => []DeliveryInv
<1>1. TypeOK /\ MutexHeld /\ CursorInv /\ DeliveryInv /\ [Next]_vars => DeliveryInv'
  BY NextDelivery
<1> QED BY <1>1, InitDelivery, TypeCorrect, MutualExclusion, CursorInvariant, PTL DEF Spec

\* An ACK of a cursor confirms every event up to it, so none of them may have
\* missed the application: replay and push leave no hole, whichever way they
\* interleave with commits, lost connections, crashes and administration.
THEOREM NothingLost ==
  ASSUME Delivering
  PROVE  Spec => []NoEventLost
<1>1. DeliveryInv => NoEventLost
  BY DEF DeliveryInv, GotInv
<1> QED BY <1>1, DeliveryInvariant, PTL

\* What arrives on a connection ascends and leaves nothing out that is still
\* pending: a push never overtakes the replay of its connection.
THEOREM NoGaps ==
  ASSUME Delivering
  PROVE  Spec => []ReceivedWithoutGaps
<1>1. TypeOK /\ DeliveryInv => ReceivedWithoutGaps
  <2> SUFFICES ASSUME TypeOK, DeliveryInv, NEW c \in Conns
               PROVE  /\ Ascending(recv[c])
                      /\ \A i \in outbox[capp[c]] : \A x \in Range(recv[c]) :
                           i < x => i \in Range(recv[c])
    BY DEF ReceivedWithoutGaps, Ascending
  <2>1. ConnInv(c)
    BY DEF DeliveryInv
  <2>2. ASSUME NEW i \in outbox[capp[c]], NEW x \in Range(recv[c]), i < x
        PROVE  i \in Range(recv[c])
    <3>1. x \in Sent(c) /\ x \in Nat /\ i \in Nat
      BY ConnTypes DEF Sent
    <3>2. i \in Sent(c)
      BY <2>1, <2>2, <3>1 DEF ConnInv, GapInv, Missing
    <3>3. i \notin Range(sendBuf[c])
      BY <2>1, <2>2, <3>1 DEF ConnInv, OrderInv
    <3> QED BY <3>2, <3>3 DEF Sent
  <2> QED BY <2>1, <2>2 DEF ConnInv, OrderInv
<1> QED BY <1>1, DeliveryInvariant, TypeCorrect, PTL

-----------------------------------------------------------------------------
(* The server keeps the promise made to applications: every step is one of *)
(* ReliableEvents, or invisible in the outbox, the acknowledged cursors,   *)
(* what applications have received and the sequence of ids.                *)

\* Ids are allocated.
LEMMA CreateAllocates ==
  ASSUME TypeOK, NEW w \in Writers, NEW apps \in Batches, CreateOutbox(w, apps)
  PROVE  Promise!Next \/ UNCHANGED Promise!vars
<1>1. /\ nextId' = nextId + Len(apps) /\ nextId + Len(apps) <= MaxId
      /\ UNCHANGED <<outbox, acked, got>>
  BY DEF CreateOutbox, clientVars
<1>2. Len(apps) \in Nat /\ nextId \in Nat /\ MaxId \in Nat
  BY BatchIsSeq, LenProperties, ConstantsAssumption DEF TypeOK
<1>3. CASE Len(apps) = 0
  BY <1>1, <1>2, <1>3 DEF Promise!vars
<1>4. CASE Len(apps) # 0
  <2>1. nextId' \in 1..MaxId /\ nextId' > nextId
    BY <1>1, <1>2, <1>4
  <2>2. Promise!Allocate
    BY <1>1, <2>1 DEF Promise!Allocate
  <2> QED BY <2>2 DEF Promise!Next
<1> QED BY <1>3, <1>4

\* A commit publishes the rows of its transaction.
LEMMA CommitPublishes ==
  ASSUME TypeOK, CursorInv, DeliveryInv, NEW w \in Writers, CommitTx(w)
  PROVE  Promise!Next
<1> DEFINE new == [a \in Apps |-> {r.id : r \in {x \in Range(wrows[w]) : x.app = a}}]
<1>1. /\ wpc[w] = "inserted" /\ outbox' = [a \in Apps |-> outbox[a] \cup new[a]]
      /\ UNCHANGED <<acked, got, nextId>>
  BY DEF CommitTx, clientVars
<1>2. /\ wrows[w] \in Seq(Rows) /\ nextId \in Nat /\ MaxId \in Nat
      /\ \A a \in Apps : acked[a] \in Nat /\ outbox[a] \subseteq Nat /\ got[a] \subseteq Nat
  BY ConstantsAssumption DEF TypeOK
<1>3. \A r \in Range(wrows[w]) : r.id \in 1..nextId
  <2>1. \A r \in Range(wrows[w]) : r.id \in 1..MaxId
    BY <1>2, RowIdsInRange
  <2>2. \A r \in Range(wrows[w]) : r.id <= nextId
    BY DEF CursorInv, IdsHandedOut
  <2> QED BY <1>2, <2>1, <2>2
<1>4. new \in [Apps -> SUBSET (1..nextId)]
  BY <1>3
<1>5. ASSUME NEW a \in Apps, NEW i \in new[a]
      PROVE  i > acked[a] /\ \A j \in outbox[a] \cup got[a] : i > j
  <2>1. PICK r \in Range(wrows[w]) : r.id = i
    OBVIOUS
  <2>2. i \in Nat
    BY <1>3, <2>1
  <2>3. acked[a] < i /\ \A j \in got[a] : j < i
    BY <1>1, <2>1 DEF CursorInv, FreshRows
  <2>4. \A j \in outbox[a] : j < i
    BY <1>1, <2>1 DEF DeliveryInv, RowsInv
  <2> QED BY <1>2, <2>2, <2>3, <2>4
<1> HIDE DEF new
<1>6. Promise!Publish
  BY <1>1, <1>4, <1>5 DEF Promise!Publish
<1> QED BY <1>6 DEF Promise!Next

\* What is written arrives, after everything pending below it.
LEMMA WriteArrives ==
  ASSUME Delivering, TypeOK, CursorInv, GotInv', NEW c \in Conns, WriteEvent(c)
  PROVE  Promise!Next
<1> DEFINE h == Head(sendBuf[c])
<1> DEFINE a == capp[c]
<1>1. /\ sendBuf[c] # <<>> /\ got' = [got EXCEPT ![a] = got[a] \cup {h}]
      /\ UNCHANGED <<outbox, acked, nextId>>
  BY DEF WriteEvent, Delivering, dbVars
<1>2. a \in Apps /\ sendBuf[c] \in Seq(1..MaxId)
  BY DEF TypeOK
<1>3. h \in 1..nextId
  <2>1. h \in Range(sendBuf[c])
    BY <1>1, <1>2, RangeOfHeadTail
  <2> QED BY <2>1 DEF CursorInv, IdsHandedOut
<1>4. \A i \in outbox[a] : \A j \in got'[a] : i < j => i \in got'[a]
  BY <1>1, <1>2 DEF GotInv
<1> HIDE DEF h
<1>5. Promise!Arrive(a)
  BY <1>1, <1>3, <1>4 DEF Promise!Arrive
<1> QED BY <1>2, <1>5 DEF Promise!Next

\* An ACK confirms what the application has received.
LEMMA AckConfirms ==
  ASSUME TypeOK, DeliveryInv, NEW c \in Conns, AckCommit(c)
  PROVE  Promise!Next
<1> DEFINE a == capp[c]
<1> DEFINE k == acur[c]
<1>1. /\ apc[c] = "found"
      /\ acked' = [acked EXCEPT ![a] = IF acked[a] < k THEN k ELSE acked[a]]
      /\ outbox' = [outbox EXCEPT ![a] = outbox[a] \ {i \in outbox[a] : i <= k}]
      /\ UNCHANGED <<got, nextId>>
  BY DEF AckCommit, AckedAfter, clientVars
<1>2. a \in Apps /\ k \in Nat /\ outbox[a] \subseteq Nat
  BY ConstantsAssumption DEF TypeOK
<1>3. k \in got[a]
  BY <1>1 DEF DeliveryInv, ConnInv, PhaseInv
<1>4. {i \in outbox[a] : i <= k} \subseteq got[a]
  <2>1. \A i \in outbox[a] : i < k => i \in got[a]
    BY <1>2, <1>3 DEF DeliveryInv, GotInv
  <2>2. \A i \in outbox[a] : i <= k => i < k \/ i = k
    BY <1>2
  <2> QED BY <1>3, <2>1, <2>2
<1>5. outbox[a] \ {i \in outbox[a] : i <= k} = {i \in outbox[a] : i > k}
  BY <1>2
<1>6. outbox' = [outbox EXCEPT ![a] = {i \in outbox[a] : i > k}]
  BY <1>1, <1>5
<1> HIDE DEF a, k
<1>7. Promise!Confirm(a)
  BY <1>1, <1>3, <1>4, <1>6 DEF Promise!Confirm
<1> QED BY <1>2, <1>7 DEF Promise!Next

\* Administration revokes events or removes the application.
LEMMA AdminRevokes ==
  ASSUME NEW a \in Apps,
         \/ DisableApp(a) \/ EnableApp(a) \/ RegenerateSecret(a) \/ ChangeVisibility(a)
         \/ DeleteApp(a) \/ CloseApp(a)
  PROVE  Promise!Next \/ UNCHANGED Promise!vars
<1>1. CASE ChangeVisibility(a)
  <2>1. Promise!Revoke(a)
    BY <1>1 DEF ChangeVisibility, clientVars, Promise!Revoke
  <2> QED BY <2>1 DEF Promise!Next
<1>2. CASE DeleteApp(a)
  <2>1. Promise!Remove(a)
    BY <1>2 DEF DeleteApp, clientVars, Promise!Remove
  <2> QED BY <2>1 DEF Promise!Next
<1>3. CASE ~ChangeVisibility(a) /\ ~DeleteApp(a)
  <2>1. UNCHANGED <<outbox, acked, got, nextId>>
    BY <1>3 DEF DisableApp, EnableApp, RegenerateSecret, CloseApp, dbVars, clientVars
  <2> QED BY <2>1 DEF Promise!vars
<1> QED BY <1>1, <1>2, <1>3

\* All other steps are invisible.
LEMMA InvisibleSteps ==
  ASSUME \/ \E w \in Writers :
              DeliverAppEvent(w) \/ DeliverDone(w) \/ ArchiveLoadItem(w) \/ AbortTx(w)
         \/ \E c \in Conns :
              \/ HandlerStep(c) \/ LoseConnection(c) \/ CloseConnection(c)
              \/ AckFindEvent(c) \/ AckRollback(c)
              \/ \E a \in Apps : Authenticate(c, a)
              \/ \E cursor \in 1..MaxId : AckBegin(c, cursor)
         \/ ServerCrash \/ Quiesce \/ UNCHANGED vars
  PROVE  UNCHANGED Promise!vars
<1>1. UNCHANGED <<outbox, acked, got, nextId>>
  <2>1. CASE \E w \in Writers :
               DeliverAppEvent(w) \/ DeliverDone(w) \/ ArchiveLoadItem(w) \/ AbortTx(w)
    BY <2>1 DEF DeliverAppEvent, DeliverDone, ArchiveLoadItem, AbortTx, dbVars, clientVars
  <2>2. CASE \E c \in Conns : HandlerStep(c) \/ \E a \in Apps : Authenticate(c, a)
    BY <2>2 DEF HandlerStep, Register, Recheck, RecheckFails, ReplayReadAck, ReplayQuery,
                ReplayEnqueue, ReplayFails, EndFailedReplay, ReplayPageDone, Unregister,
                Authenticate, dbVars, clientVars
  <2>3. CASE \E c \in Conns :
               \/ LoseConnection(c) \/ CloseConnection(c) \/ AckFindEvent(c) \/ AckRollback(c)
               \/ \E cursor \in 1..MaxId : AckBegin(c, cursor)
    BY <2>3 DEF LoseConnection, CloseConnection, AckFindEvent, AckRollback, AckBegin,
                dbVars, clientVars
  <2>4. CASE ServerCrash \/ Quiesce \/ UNCHANGED vars
    BY <2>4 DEF ServerCrash, Quiesce, vars, dbVars, clientVars
  <2> QED BY <2>1, <2>2, <2>3, <2>4
<1> QED BY <1>1 DEF Promise!vars

\* The server implements ReliableEvents.  In particular a confirmation takes
\* only what has arrived, and nothing is published below a confirmed cursor.
THEOREM PromiseKept ==
  ASSUME Delivering
  PROVE  Spec => KeepsPromise
<1>1. Init => Promise!Init
  BY DEF Init, Promise!Init
<1>2. TypeOK /\ CursorInv /\ DeliveryInv /\ DeliveryInv' /\ [Next]_vars
        => [Promise!Next]_(Promise!vars)
  <2> SUFFICES ASSUME TypeOK, CursorInv, DeliveryInv, DeliveryInv', [Next]_vars
               PROVE  Promise!Next \/ UNCHANGED Promise!vars
    OBVIOUS
  <2>1. GotInv'
    BY DEF DeliveryInv
  <2> QED BY <2>1, CreateAllocates, CommitPublishes, WriteArrives, AckConfirms,
             AdminRevokes, InvisibleSteps DEF Next, WriterStep, AckStep
<1> QED BY <1>1, <1>2, DeliveryInvariant, TypeCorrect, CursorInvariant, PTL
        DEF Spec, KeepsPromise, Promise!Spec
=============================================================================
