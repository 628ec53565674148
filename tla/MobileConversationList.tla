------------------------ MODULE MobileConversationList ------------------------
(***************************************************************************)
(* One row of the mobile client's conversation list against the server's   *)
(* row: last message, read position, unread count and pin.  The list is a  *)
(* query with at most one fetch under way; mutations change the row before *)
(* they are answered, cancel the fetch or start it again, and put the      *)
(* whole list back as it was when they fail.                               *)
(*                                                                         *)
(* The conversation's screen reports what it shows as read, and keeps two  *)
(* positions of its own to report each message once and a failed report    *)
(* again.  (Muting has the shape of pinning; the mention position is as in *)
(* WebConversationList.)                                                   *)
(***************************************************************************)
EXTENDS Naturals, FiniteSets

CONSTANTS MaxWrites,   \* bound: messages written
          MaxChanges,  \* bound: pins, dismissals, openings and own messages
          MaxLosses,   \* bound: lost connections and failed requests
          MaxReads     \* bound: reports under way

VARIABLES server,      \* the row of this user on the server
          row,         \* the cached row, Absent when it is not listed
          fetch,       \* the list's fetch: idle, left, or what was served
          events, online,
          focused,     \* the conversation's screen has the focus
          seen,        \* newest message its message query holds
          requested,   \* requestedReadSeq
          confirmed,   \* confirmedReadSeq
          reads,       \* reports under way
          change,      \* the user's other mutation under way
          changes, losses

mlVars == <<server, row, fetch, events, online, focused, seen, requested,
            confirmed, reads, change, changes, losses>>

Seqs == 0..(MaxWrites + 1)
Row == [last : Seqs, read : Seqs, unread : Seqs, pinned : BOOLEAN]
Absent == [last |-> 0]
Idle == [at |-> "idle"]
Left == [at |-> "left"]
Changes == {"pin", "unpin", "dismiss", "open", "send"}

Below(a, b) == IF a > b THEN a - b ELSE 0
Higher(a, b) == IF a > b THEN a ELSE b
Lower(a, b) == IF a < b THEN a ELSE b

Listed(s) ==
    IF s.hidden # 0 /\ s.last <= s.hidden THEN Absent
    ELSE [last |-> s.last, read |-> s.read, unread |-> Below(s.last, s.read),
          pinned |-> s.pinned]

MobileListTypeOK ==
    /\ row \in Row \cup {Absent}
    /\ server.last \in Seqs /\ server.read \in 0..server.last
    /\ fetch \in {Idle, Left} \cup [at : {"served"}, row : Row \cup {Absent}]
    /\ focused \in BOOLEAN /\ online \in BOOLEAN
    /\ seen \in Seqs /\ requested \in Seqs /\ confirmed \in Seqs
    /\ reads \subseteq [upTo : Seqs, at : {"left", "served"}, read : Seqs, unread : Seqs]
    /\ change # Idle => change.kind \in Changes
    /\ changes \in 0..MaxChanges /\ losses \in 0..MaxLosses

screenVars == <<focused, seen, requested, confirmed>>

-----------------------------------------------------------------------------
(* The list query.                                                         *)

(* invalidateQueries: a fetch under way is kept, or started again.         *)
Invalidate == fetch' = IF fetch = Idle THEN Left ELSE fetch
Restart == fetch' = Left
Cancel == fetch' = Idle

(* refetchInterval, a synchronization after a reconnect, the foreground.   *)
Poll ==
    /\ fetch = Idle /\ Invalidate
    /\ UNCHANGED <<server, row, events, online, screenVars, reads, change, changes,
                   losses>>

ServeFetch ==
    /\ fetch = Left
    /\ fetch' = [at |-> "served", row |-> Listed(server)]
    /\ UNCHANGED <<server, row, events, online, screenVars, reads, change, changes,
                   losses>>

(* A screen whose conversation is no longer listed goes back to the list.  *)
Leaves == focused' = (focused /\ row' # Absent)

(* Mutant: a row that has been read further here is kept.                  *)
FetchEnds_KeepsRead ==
    LET kept == row # Absent /\ fetch.row # Absent /\ row.read > fetch.row.read
    IN  /\ fetch \notin {Idle, Left}
        /\ row' = (IF kept THEN row ELSE fetch.row) /\ Leaves
        /\ fetch' = Idle
        /\ UNCHANGED <<server, events, online, seen, requested, confirmed, reads,
                       change, changes, losses>>

FetchEnds ==
    /\ fetch \notin {Idle, Left}
    /\ row' = fetch.row /\ Leaves
    /\ fetch' = Idle
    /\ UNCHANGED <<server, events, online, seen, requested, confirmed, reads, change,
                   changes, losses>>

FetchFails ==
    /\ fetch # Idle /\ losses < MaxLosses /\ losses' = losses + 1
    /\ Cancel
    /\ UNCHANGED <<server, row, events, online, screenVars, reads, change, changes>>

-----------------------------------------------------------------------------
(* The server and its events.                                              *)

Publish(es) == events' = IF online THEN events \cup es ELSE events

OthersWrite ==
    /\ server.last <= MaxWrites
    /\ server' = [server EXCEPT !.last = @ + 1]
    /\ Publish({[name |-> "created", seq |-> server.last + 1]})
    /\ UNCHANGED <<row, fetch, online, screenVars, reads, change, changes, losses>>

(* markActiveConversationMessageRead                                       *)
WithMessageRead(r, seq) ==
    IF r = Absent THEN r
    ELSE [r EXCEPT !.last = Higher(@, seq), !.read = Higher(@, seq), !.unread = 0]

WithPin(r, pinned) == IF r = Absent THEN r ELSE [r EXCEPT !.pinned = pinned]

(* applyRealtimeEvent: a message of the open conversation is written into  *)
(* the row, any other fetches the list; a removal cancels the fetch.       *)
HandleEvent ==
    \E e \in events :
        /\ events' = events \ {e}
        /\ CASE e.name = "created" /\ focused ->
                  /\ row' = WithMessageRead(row, e.seq)
                  /\ seen' = Higher(seen, e.seq)
                  /\ IF row = Absent THEN Invalidate ELSE UNCHANGED fetch
             [] e.name = "created" /\ ~focused ->
                  Invalidate /\ UNCHANGED <<row, seen>>
             [] e.name = "pin_updated" ->
                  row' = WithPin(row, e.pinned) /\ UNCHANGED <<fetch, seen>>
             [] e.name = "removed" ->
                  row' = Absent /\ Cancel /\ UNCHANGED seen
        /\ Leaves
        /\ UNCHANGED <<server, online, requested, confirmed, reads, change, changes,
                       losses>>

GoOffline ==
    /\ online /\ losses < MaxLosses /\ losses' = losses + 1
    /\ online' = FALSE /\ events' = {}
    /\ UNCHANGED <<server, row, fetch, screenVars, reads, change, changes>>

GoOnline ==
    /\ ~online /\ online' = TRUE
    /\ Invalidate
    /\ UNCHANGED <<server, row, events, screenVars, reads, change, changes, losses>>

-----------------------------------------------------------------------------
(* The conversation's screen.                                              *)

OpenScreen ==
    /\ ~focused /\ row # Absent
    /\ focused' = TRUE
    /\ confirmed' = row.read /\ requested' = row.read
    /\ seen' \in {0, server.last}
    /\ UNCHANGED <<server, row, fetch, events, online, reads, change, changes, losses>>

CloseScreen ==
    /\ focused /\ focused' = FALSE
    /\ UNCHANGED <<server, row, fetch, events, online, seen, requested, confirmed,
                   reads, change, changes, losses>>

(* The message query is refetched.                                         *)
SeeMessages ==
    /\ focused /\ seen < server.last
    /\ seen' = server.last
    /\ UNCHANGED <<server, row, fetch, events, online, focused, requested, confirmed,
                   reads, change, changes, losses>>

(* Mutant: an unread count does not make it report again.                  *)
MarkLatestRead_NewOnly ==
    LET newest == Higher(row.last, seen)
    IN  /\ focused /\ newest > requested
        /\ Cardinality(reads) < MaxReads
        /\ requested' = Higher(requested, newest)
        /\ reads' = reads \cup {[upTo |-> newest, at |-> "left", read |-> 0, unread |-> 0]}
        /\ row' = [row EXCEPT !.read = Higher(@, newest), !.unread = 0]
        /\ Cancel
        /\ UNCHANGED <<server, events, online, focused, seen, confirmed, change,
                       changes, losses>>

(* markLatestRead, when the row or the messages change and every 20        *)
(* seconds, with the optimistic update of useMarkConversationRead.         *)
MarkLatestRead ==
    LET newest == Higher(row.last, seen)
    IN  /\ focused
        /\ row.unread > 0 \/ newest > requested
        /\ Cardinality(reads) < MaxReads
        /\ requested' = Higher(requested, newest)
        /\ reads' = reads \cup {[upTo |-> newest, at |-> "left", read |-> 0, unread |-> 0]}
        /\ row' = [row EXCEPT !.read = Higher(@, newest), !.unread = 0]
        /\ Cancel
        /\ UNCHANGED <<server, events, online, focused, seen, confirmed, change,
                       changes, losses>>

(* POST .../read up to a number, if the conversation has as many messages. *)
ServeRead ==
    \E r \in reads :
        LET target == Higher(server.read, Lower(r.upTo, server.last))
        IN  /\ r.at = "left"
            /\ server' = [server EXCEPT !.read = target]
            /\ reads' = (reads \ {r}) \cup {[r EXCEPT !.at = "served", !.read = target,
                                                      !.unread = server.last - target]}
            /\ UNCHANGED <<row, fetch, events, online, screenVars, change, changes, losses>>

(* mergeConversationReadResult                                             *)
WithReadResult(r, answer) ==
    LET read == Higher(r.read, answer.read)
    IN  IF r = Absent THEN r
        ELSE [r EXCEPT !.read = read,
                       !.unread = IF read >= r.last THEN 0 ELSE Lower(@, answer.unread)]

ReadArrives ==
    \E r \in reads :
        /\ r.at = "served"
        /\ reads' = reads \ {r}
        /\ row' = WithReadResult(row, r)
        /\ confirmed' = IF focused THEN Higher(confirmed, r.read) ELSE confirmed
        /\ UNCHANGED <<server, fetch, events, online, focused, seen, requested, change,
                       changes, losses>>

(* The report fails: it is due again unless a later one has been sent.     *)
ReadFails ==
    /\ losses < MaxLosses /\ losses' = losses + 1
    /\ \E r \in reads :
          /\ reads' = reads \ {r}
          /\ requested' = IF focused /\ requested = r.upTo THEN confirmed ELSE requested
          /\ Restart
    /\ UNCHANGED <<server, row, events, online, focused, seen, confirmed, change,
                   changes>>

-----------------------------------------------------------------------------
(* The other mutations.                                                    *)

(* onMutate: pinning keeps the row as it was for its rollback.             *)
Change(kind) ==
    /\ change = Idle /\ changes < MaxChanges /\ changes' = changes + 1
    /\ CASE kind = "open" -> row = Absent
         [] kind = "send" -> focused /\ server.last <= MaxWrites
         [] kind = "dismiss" -> row # Absent
         [] kind \in {"pin", "unpin"} -> row # Absent /\ row.pinned = (kind = "unpin")
    /\ change' = [at |-> "left", kind |-> kind, previous |-> row]
    /\ IF kind \in {"pin", "unpin"}
         THEN row' = WithPin(row, kind = "pin") /\ Cancel
         ELSE UNCHANGED <<row, fetch>>
    /\ UNCHANGED <<server, events, online, screenVars, reads, losses>>

ServeChange ==
    /\ change.at = "left"
    /\ change.kind = "send" => server.last <= MaxWrites
    /\ CASE change.kind \in {"pin", "unpin"} ->
              /\ server' = [server EXCEPT !.pinned = change.kind = "pin"]
              /\ Publish(IF server.pinned = (change.kind = "pin") THEN {}
                         ELSE {[name |-> "pin_updated", pinned |-> change.kind = "pin"]})
         [] change.kind = "dismiss" ->
              /\ server' = [server EXCEPT !.read = server.last, !.hidden = server.last,
                                          !.pinned = FALSE]
              /\ Publish({[name |-> "removed"]})
         [] change.kind = "open" ->
              server' = [server EXCEPT !.hidden = 0] /\ UNCHANGED events
         [] change.kind = "send" ->
              /\ server' = [server EXCEPT !.last = @ + 1, !.read = server.last + 1]
              /\ Publish({[name |-> "created", seq |-> server.last + 1]})
    /\ change' = [at |-> "served", kind |-> change.kind, previous |-> change.previous,
                  answer |-> Listed(server')]
    /\ UNCHANGED <<row, fetch, online, screenVars, reads, changes, losses>>

(* onSuccess, onSettled: the list is fetched again, except after opening.  *)
ChangeArrives ==
    /\ change.at = "served"
    /\ change' = Idle
    /\ row' = CASE change.kind \in {"pin", "unpin"} -> WithPin(row, change.kind = "pin")
                [] change.kind = "dismiss" -> Absent
                [] change.kind = "open" -> change.answer
                [] change.kind = "send" -> row
    /\ Leaves
    /\ IF change.kind = "open" THEN UNCHANGED fetch ELSE Restart
    /\ UNCHANGED <<server, events, online, seen, requested, confirmed, reads, changes,
                   losses>>

(* onError, also of a change the server made: a failed pin puts the row    *)
(* back, even one that was removed meanwhile.                              *)
ChangeFails ==
    /\ change # Idle /\ losses < MaxLosses /\ losses' = losses + 1
    /\ change' = Idle
    /\ IF change.kind \in {"pin", "unpin"}
         THEN row' = change.previous /\ Restart
         ELSE UNCHANGED <<row, fetch>>
    /\ UNCHANGED <<server, events, online, screenVars, reads, changes>>

-----------------------------------------------------------------------------
MobileListInit ==
    /\ server = [last |-> 1, read |-> 1, hidden |-> 0, pinned |-> TRUE]
    /\ row = Listed(server)
    /\ fetch = Idle /\ events = {} /\ online = TRUE
    /\ focused = FALSE /\ seen = 0 /\ requested = 0 /\ confirmed = 0
    /\ reads = {} /\ change = Idle
    /\ changes = 0 /\ losses = 0

MobileListNext ==
    \/ Poll \/ ServeFetch \/ FetchEnds \/ FetchFails
    \/ OthersWrite \/ HandleEvent \/ GoOffline \/ GoOnline
    \/ OpenScreen \/ CloseScreen \/ SeeMessages
    \/ MarkLatestRead \/ ServeRead \/ ReadArrives \/ ReadFails
    \/ \E kind \in Changes : Change(kind)
    \/ ServeChange \/ ChangeArrives \/ ChangeFails

MobileListFairness ==
    /\ WF_mlVars(Poll) /\ WF_mlVars(ServeFetch) /\ WF_mlVars(FetchEnds)
    /\ WF_mlVars(HandleEvent) /\ WF_mlVars(SeeMessages)
    /\ WF_mlVars(MarkLatestRead) /\ WF_mlVars(ServeRead) /\ WF_mlVars(ReadArrives)
    /\ WF_mlVars(ServeChange) /\ WF_mlVars(ChangeArrives)

MobileListSpec == MobileListInit /\ [][MobileListNext]_mlVars /\ MobileListFairness

-----------------------------------------------------------------------------
(* Once nothing changes any more the row shows what the server holds:      *)
(* optimistic updates, rollbacks, cancelled and repeated fetches settle.   *)
RowRight == row = Listed(server)

MobileRowConverges == <>[]RowRight

(* A conversation that stays on screen is read up to its newest message on *)
(* the server, whatever reports failed or arrived late.                    *)
AllRead == server.read = server.last

ReadReported == <>[]focused => <>[]AllRead
=============================================================================
