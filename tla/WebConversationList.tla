------------------------- MODULE WebConversationList -------------------------
(***************************************************************************)
(* One row of the web client's conversation list against the server's row: *)
(* last message, read position, unread count, pin and mention, changed by  *)
(* whole-list refreshes, by realtime events and by the answers to the      *)
(* user's own requests.  (notificationMuted has the shape of pinned,       *)
(* lastChoiceSeq that of lastMentionedSeq.)                                *)
(*                                                                         *)
(* Nothing orders these three sources: a refresh that was served before an *)
(* event may arrive after it, and two answers may arrive in either order.  *)
(* What brings the row back to the truth is the refresh every 15 seconds.  *)
(***************************************************************************)
EXTENDS Naturals, FiniteSets

CONSTANTS MaxWrites,   \* bound: messages written
          MaxChanges,  \* bound: pins, dismissals and restorations
          MaxInFlight, \* bound: answers of one kind under way when asked again
          MaxLosses    \* bound: lost connections and failed requests

VARIABLES server,      \* the row of this user on the server
          row,         \* the client's row, Absent when it is not listed
          open,        \* the conversation is open and visible
          connected,
          events,      \* published, not handled yet
          asked,       \* requests on their way to the server
          answers,     \* answers on their way back
          changes, losses

wlVars == <<server, row, open, connected, events, asked, answers, changes, losses>>

RowSeqs == 0..(MaxWrites + 1)
Row == [last : RowSeqs, read : RowSeqs, unread : RowSeqs, pinned : BOOLEAN,
        mention : RowSeqs]
Absent == [last |-> 0]
RowRequests == {"list", "read", "pin", "unpin", "dismiss", "restore", "send"}
OtherRequests == RowRequests \ {"list", "read"}

Beyond(a, b) == IF a > b THEN a - b ELSE 0
Higher(a, b) == IF a > b THEN a ELSE b

(* newConversationListItem: dismissed rows are not listed until a message  *)
(* follows; the server computes the unread count.                          *)
ListItem(s) ==
    IF s.hidden # 0 /\ s.last <= s.hidden THEN Absent
    ELSE [last |-> s.last, read |-> s.read, unread |-> Beyond(s.last, s.read),
          pinned |-> s.pinned, mention |-> s.mention]

(* The badge counts no message twice and none that is read, in whatever    *)
(* order a refresh that counted it, its event and the answers of the       *)
(* user's own requests arrive (applyConversationMessageToList).            *)
CountsOnce(r) == r # Absent => r.unread <= Beyond(r.last, r.read)
BadgeCountsOnce == CountsOnce(row)

WebListTypeOK ==
    /\ row \in Row \cup {Absent} /\ BadgeCountsOnce
    /\ server.last \in RowSeqs /\ server.read \in 0..server.last
    /\ server.hidden \in 0..server.last /\ server.mention \in 0..server.last
    /\ open \in BOOLEAN /\ connected \in BOOLEAN
    /\ asked \subseteq RowRequests
    /\ changes \in 0..MaxChanges /\ losses \in 0..MaxLosses

-----------------------------------------------------------------------------
(* What an answer or an event does to the row.                             *)

(* Mutant: a message that the row counts already is counted again.         *)
WithMessage_Again(r, seq, countUnread) ==
    IF r = Absent \/ seq < r.last THEN r
    ELSE [r EXCEPT !.last = seq,
                   !.unread = IF countUnread /\ seq > r.read THEN @ + 1 ELSE @]

(* applyConversationMessageToList: an older message changes nothing, the   *)
(* unread count grows for a message beyond both positions.                 *)
WithMessage(r, seq, countUnread) ==
    IF r = Absent \/ seq < r.last THEN r
    ELSE [r EXCEPT !.last = seq,
                   !.unread = IF countUnread /\ seq > r.last /\ seq > r.read
                              THEN @ + 1 ELSE @]

(* updateConversationLastMentionedSeq                                      *)
WithMention(r, seq) ==
    IF r = Absent THEN r ELSE [r EXCEPT !.mention = Higher(@, seq)]

(* updateConversationPinned                                                *)
WithPin(r, pinned) == IF r = Absent THEN r ELSE [r EXCEPT !.pinned = pinned]

(* markConversationRead: the answer is taken as it is.                     *)
WithRead(r, read, unread) ==
    IF r = Absent THEN r ELSE [r EXCEPT !.read = read, !.unread = unread]

(* Mutant: a refresh updates the rows it names and removes none.           *)
RowAnswered_KeepsMissing(r, a) ==
    CASE a.to \in {"list", "restore"} -> IF a.row = Absent THEN r ELSE a.row
      [] a.to = "read" -> WithRead(r, a.read, a.unread)
      [] a.to \in {"pin", "unpin"} -> WithPin(r, a.to = "pin")
      [] a.to = "dismiss" -> Absent
      [] a.to = "send" -> WithMessage(r, a.seq, FALSE)

(* refreshConversations replaces the list, restoreConversation upserts.    *)
RowAnswered(r, a) ==
    CASE a.to \in {"list", "restore"} -> a.row
      [] a.to = "read" -> WithRead(r, a.read, a.unread)
      [] a.to \in {"pin", "unpin"} -> WithPin(r, a.to = "pin")
      [] a.to = "dismiss" -> Absent
      [] a.to = "send" -> WithMessage(r, a.seq, FALSE)

Notified(r, e) ==
    CASE e.name = "created" -> WithMessage(r, e.seq, ~e.own /\ ~open)
      [] e.name = "mentioned" -> WithMention(r, e.seq)
      [] e.name = "pin_updated" -> WithPin(r, e.pinned)
      [] e.name = "removed" -> Absent
      [] e.name = "restored" -> r

(* Events that make the client fetch the list; a message of a row it does  *)
(* not have is one of them.                                                *)
CallsForRefresh(e) == e.name = "restored" \/ (e.name = "created" /\ row = Absent)

-----------------------------------------------------------------------------
(* The server.                                                             *)

PublishToList(es) == events' = IF connected THEN events \cup es ELSE events

SomebodyWrites ==
    /\ server.last <= MaxWrites
    /\ \E mention \in BOOLEAN :
          /\ server' = [server EXCEPT !.last = @ + 1,
                                      !.mention = IF mention THEN server.last + 1 ELSE @]
          /\ PublishToList(
                 {[name |-> "created", seq |-> server.last + 1, own |-> FALSE]}
                 \cup (IF mention THEN {[name |-> "mentioned", seq |-> server.last + 1]}
                       ELSE {}))
    /\ UNCHANGED <<row, open, connected, asked, answers, changes, losses>>

ServeConversations ==
    /\ UNCHANGED <<server, events>>
    /\ answers' = answers \cup {[to |-> "list", row |-> ListItem(server)]}

ServeRead ==
    /\ server' = [server EXCEPT !.read = server.last]
    /\ answers' = answers \cup {[to |-> "read", read |-> server.last, unread |-> 0]}
    /\ UNCHANGED events

ServePin(request) ==
    /\ server' = [server EXCEPT !.pinned = request = "pin"]
    /\ PublishToList(IF server.pinned = (request = "pin") THEN {}
               ELSE {[name |-> "pin_updated", pinned |-> request = "pin"]})
    /\ answers' = answers \cup {[to |-> request]}

ServeDismiss ==
    /\ server' = [server EXCEPT !.read = server.last, !.hidden = server.last,
                                !.pinned = FALSE]
    /\ PublishToList({[name |-> "removed"]})
    /\ answers' = answers \cup {[to |-> "dismiss"]}

ServeRestore ==
    /\ server' = [server EXCEPT !.hidden = 0]
    /\ PublishToList(IF server.hidden # 0 THEN {[name |-> "restored"]} ELSE {})
    /\ answers' = answers \cup {[to |-> "restore", row |-> ListItem(server')]}

(* A message of the user's own moves the user's read position.             *)
ServeMessage ==
    /\ server.last <= MaxWrites
    /\ server' = [server EXCEPT !.last = @ + 1, !.read = server.last + 1]
    /\ PublishToList({[name |-> "created", seq |-> server.last + 1, own |-> TRUE]})
    /\ answers' = answers \cup {[to |-> "send", seq |-> server.last + 1]}

Serve(request) ==
    /\ request \in asked
    /\ asked' = asked \ {request}
    /\ CASE request = "list" -> ServeConversations
         [] request = "read" -> ServeRead
         [] request \in {"pin", "unpin"} -> ServePin(request)
         [] request = "dismiss" -> ServeDismiss
         [] request = "restore" -> ServeRestore
         [] request = "send" -> ServeMessage
    /\ UNCHANGED <<row, open, connected, changes, losses>>

-----------------------------------------------------------------------------
(* The client.                                                             *)

Ask(request) ==
    /\ request \notin asked
    /\ Cardinality({a \in answers : a.to = request}) < MaxInFlight
    /\ asked' = asked \cup {request}

(* The interval, the visibility change, a reconnect.                       *)
RefreshConversations ==
    /\ Ask("list")
    /\ UNCHANGED <<server, row, open, connected, events, answers, changes, losses>>

(* The open conversation has unread messages or mentions.                  *)
MarkRead ==
    /\ open /\ row # Absent
    /\ row.unread > 0 \/ row.mention > row.read
    /\ Ask("read")
    /\ UNCHANGED <<server, row, open, connected, events, answers, changes, losses>>

Change(request) ==
    /\ changes < MaxChanges
    /\ changes' = changes + 1
    /\ CASE request = "restore" -> row = Absent
         [] request = "send" -> open /\ server.last <= MaxWrites
         [] request = "dismiss" -> row # Absent
         [] request \in {"pin", "unpin"} ->
              row # Absent /\ row.pinned = (request = "unpin")
    /\ Ask(request)
    /\ UNCHANGED <<server, row, open, connected, events, answers, losses>>

OpenOrClose ==
    /\ open' = ~open /\ (open' => row # Absent)
    /\ UNCHANGED <<server, row, connected, events, asked, answers, changes, losses>>

HandleAnswerTo(requests) ==
    \E a \in answers :
        /\ a.to \in requests
        /\ answers' = answers \ {a}
        /\ row' = RowAnswered(row, a)
        /\ UNCHANGED <<server, open, connected, events, asked, changes, losses>>

HandleEvent ==
    \E e \in events :
        /\ events' = events \ {e}
        /\ row' = Notified(row, e)
        /\ asked' = IF CallsForRefresh(e) THEN asked \cup {"list"} ELSE asked
        /\ UNCHANGED <<server, open, connected, answers, changes, losses>>

Disconnect ==
    /\ connected /\ losses < MaxLosses
    /\ connected' = FALSE /\ events' = {}
    /\ losses' = losses + 1
    /\ UNCHANGED <<server, row, open, asked, answers, changes>>

Reconnect ==
    /\ ~connected /\ connected' = TRUE
    /\ asked' = asked \cup {"list"}
    /\ UNCHANGED <<server, row, open, events, answers, changes, losses>>

(* A request, or its answer, is lost.                                      *)
ListRequestFails ==
    /\ losses < MaxLosses /\ losses' = losses + 1
    /\ \/ \E request \in asked : asked' = asked \ {request} /\ UNCHANGED answers
       \/ \E a \in answers : answers' = answers \ {a} /\ UNCHANGED asked
    /\ UNCHANGED <<server, row, open, connected, events, changes>>

-----------------------------------------------------------------------------
WebListInit ==
    /\ server = [last |-> 1, read |-> 1, hidden |-> 0, pinned |-> TRUE, mention |-> 0]
    /\ row = ListItem(server)
    /\ open = FALSE /\ connected = TRUE
    /\ events = {} /\ asked = {} /\ answers = {}
    /\ changes = 0 /\ losses = 0

WebListNext ==
    \/ SomebodyWrites \/ RefreshConversations \/ MarkRead \/ OpenOrClose
    \/ \E request \in RowRequests : Serve(request)
    \/ \E request \in OtherRequests : Change(request)
    \/ HandleAnswerTo(RowRequests) \/ HandleEvent \/ Disconnect \/ Reconnect
    \/ ListRequestFails

(* The interval fires, the server answers, answers and events are handled. *)
(* Nobody has to write, to change anything or to lose a connection.        *)
ServeOther == \E request \in OtherRequests : Serve(request)

WebListFairness ==
    /\ WF_wlVars(RefreshConversations)
    /\ WF_wlVars(Serve("list")) /\ WF_wlVars(Serve("read"))
    /\ WF_wlVars(ServeOther)
    /\ WF_wlVars(HandleAnswerTo({"list"})) /\ WF_wlVars(HandleAnswerTo({"read"}))
    /\ WF_wlVars(HandleAnswerTo(OtherRequests))
    /\ WF_wlVars(HandleEvent)

WebListSpec == WebListInit /\ [][WebListNext]_wlVars /\ WebListFairness

-----------------------------------------------------------------------------
(* Once nothing changes any more the list shows what the server holds: no  *)
(* stale refresh, late answer, reordered or lost event leaves a wrong      *)
(* unread count, a removed row or a missing one behind for good.           *)
RowRight == row = ListItem(server)

RowConverges == <>[]RowRight
=============================================================================
