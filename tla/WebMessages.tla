----------------------------- MODULE WebMessages -----------------------------
(***************************************************************************)
(* The messages of one conversation in the web client: the window that     *)
(* ClientDataProvider keeps of the server's log, filled by pages, realtime *)
(* events and the answers to the user's own requests, and cut by the       *)
(* retention limit.                                                        *)
(*                                                                         *)
(* A request is served by the server at any time after it left and its     *)
(* answer is handled at any time after that; events wait in the connection *)
(* and may be handled in any order, since the server's request handlers    *)
(* publish concurrently.  Refs that mirror React state are taken to be     *)
(* current.  page.hasMoreAfter, which the client writes and never reads,   *)
(* has no counterpart.                                                     *)
(***************************************************************************)
EXTENDS Naturals, Sequences, FiniteSets

CONSTANTS LastSeq,      \* bound: messages the log may hold
          First,        \* messages in the log at the start
          PageLimit,    \* messagePageLimit (20)
          Retained,     \* conversationMessageRetentionLimit (300)
          Revocations,  \* bound: revoked messages
          Faults        \* bound: lost connections and failed requests

ASSUME MessagesAssumption ==
    /\ LastSeq \in Nat /\ First \in 1..LastSeq
    /\ PageLimit \in Nat \ {0} /\ Retained \in Nat \ {0}

VARIABLES log,      \* the server: number of messages, and which are revoked
          online,   \* the realtime connection is ready
          notices,  \* published, not handled yet
          flight,   \* the request of each kind that is under way
          view,     \* a message view is registered (the open conversation)
          st,       \* ClientConversationMessageState
          fetched,  \* ghost: an initial page has arrived, and no answer since
                    \* has said that nothing is before a window cut meanwhile
          faults    \* lost connections and failed requests so far

wmVars == <<log, online, notices, flight, view, st, fetched, faults>>

Message == [seq : 1..LastSeq, revoked : BOOLEAN]
NoPage == [known |-> FALSE, more |-> FALSE, oldest |-> 0]
Kinds == {"initial", "before", "after", "send", "revoke"}
NoRequest == [at |-> "idle"]
Asked(n) == [at |-> "left", arg |-> n]
Answer(ms, more) == [at |-> "served", msgs |-> ms, more |-> more]

Seqs(s) == {s[i].seq : i \in DOMAIN s}
Increasing(s) == \A i, j \in DOMAIN s : i < j => s[i].seq < s[j].seq
Newest(s) == IF s = <<>> THEN 0 ELSE s[Len(s)].seq
Oldest(s) == IF s = <<>> THEN 0 ELSE s[1].seq

WebMessagesTypeOK ==
    /\ log.last \in 0..LastSeq /\ log.revoked \subseteq 1..log.last
    /\ faults \in 0..Faults
    /\ online \in BOOLEAN /\ view \in BOOLEAN /\ fetched \in BOOLEAN
    /\ notices \subseteq [name : {"created", "updated"}, msg : Message]
    /\ DOMAIN flight = Kinds
    /\ \A k \in Kinds : flight[k].at \in {"idle", "left", "served"}
    /\ st.msgs \in Seq(Message) /\ Increasing(st.msgs)
    /\ st.page.oldest \in 0..LastSeq
    /\ {st.loaded, st.loading, st.loadingBefore, st.sending,
        st.page.known, st.page.more} \subseteq BOOLEAN

-----------------------------------------------------------------------------
(* client-data-state.ts                                                    *)

(* The later of the representations of message n in s.                     *)
LatestOf(s, n) ==
    s[CHOOSE i \in DOMAIN s :
        s[i].seq = n /\ \A j \in DOMAIN s : s[j].seq = n => j <= i]

(* The k-th number of a finite set, in increasing order.                   *)
Nth(S, k) == CHOOSE n \in S : Cardinality({m \in S : m <= n}) = k

(* deduplicateAndSortMessages: of two representations the later one stays. *)
Deduplicate(s) ==
    [k \in 1..Cardinality(Seqs(s)) |-> LatestOf(s, Nth(Seqs(s), k))]

(* Mutant: what arrives is put at the end.                                 *)
Merge_Appends(current, next) == current \o next

(* mergeConversationMessages, with its shortcuts for a newer and an older  *)
(* page.                                                                   *)
Merge(current, next) ==
    LET new == Deduplicate(next)
        apart == Increasing(current) /\ Seqs(current) \cap Seqs(new) = {}
    IN  CASE next = <<>> -> current
          [] next # <<>> /\ current = <<>> -> new
          [] next # <<>> /\ current # <<>> ->
               IF apart /\ Newest(current) <= Oldest(new) THEN current \o new
               ELSE IF apart /\ Newest(new) < Oldest(current) THEN new \o current
               ELSE Deduplicate(current \o new)

(* Mutant: compaction does not say that there is more before.              *)
Compact_HistoryForgotten(s) ==
    IF Len(s.msgs) <= Retained THEN s
    ELSE LET kept == SubSeq(s.msgs, Len(s.msgs) - Retained + 1, Len(s.msgs))
         IN  [s EXCEPT !.msgs = kept, !.page.oldest = Oldest(kept)]

(* compactConversationMessageState                                         *)
Compact(s) ==
    IF Len(s.msgs) <= Retained THEN s
    ELSE LET kept == SubSeq(s.msgs, Len(s.msgs) - Retained + 1, Len(s.msgs))
         IN  [s EXCEPT !.msgs = kept,
                       !.page = [known |-> TRUE, more |-> TRUE, oldest |-> Oldest(kept)]]

(* applyConversationMessageRetention: no view, no more than the limit.     *)
Retain(s) == IF view THEN s ELSE Compact(s)

(* updatePageWithMessage                                                   *)
PageWith(page, msgs) ==
    [known |-> TRUE, more |-> page.known /\ page.more, oldest |-> Oldest(msgs)]

(* mergeIncomingConversationMessage                                        *)
MergeOne(s, msg, markLoaded) ==
    LET msgs == Merge(s.msgs, <<msg>>)
    IN  Retain([s EXCEPT !.msgs = msgs, !.loaded = @ \/ markLoaded,
                         !.page = PageWith(@, msgs)])

-----------------------------------------------------------------------------
(* The server.                                                             *)

Now(n) == [seq |-> n, revoked |-> n \in log.revoked]
LogRange(lo, hi) == [i \in 1..(IF hi < lo THEN 0 ELSE hi - lo + 1) |-> Now(lo + i - 1)]
Above(a, b) == IF a > b THEN a - b ELSE 0

Publish(name, msg) ==
    IF online THEN notices \cup {[name |-> name, msg |-> msg]} ELSE notices

(* Somebody else writes.                                                   *)
OthersWrite ==
    /\ log.last < LastSeq
    /\ log' = [log EXCEPT !.last = @ + 1]
    /\ notices' = Publish("created", [seq |-> log.last + 1, revoked |-> FALSE])
    /\ UNCHANGED <<online, flight, view, st, fetched, faults>>

OthersRevoke ==
    /\ Cardinality(log.revoked) < Revocations
    /\ \E n \in (1..log.last) \ log.revoked :
          /\ log' = [log EXCEPT !.revoked = @ \cup {n}]
          /\ notices' = Publish("updated", [seq |-> n, revoked |-> TRUE])
    /\ UNCHANGED <<online, flight, view, st, fetched, faults>>

(* GET .../messages: the newest page, the one before or after a number.    *)
PageAnswer(kind, arg) ==
    LET hi == CASE kind = "initial" -> log.last
                [] kind = "before" -> Above(arg, 1)
                [] kind = "after" -> IF arg + PageLimit < log.last
                                     THEN arg + PageLimit ELSE log.last
        lo == IF kind = "after" THEN arg + 1 ELSE Above(hi, PageLimit) + 1
    IN  Answer(LogRange(lo, hi), lo > 1)

ServeMessages ==
    \E kind \in {"initial", "before", "after"} :
        /\ flight[kind].at = "left"
        /\ flight' = [flight EXCEPT ![kind] = PageAnswer(kind, @.arg)]
        /\ UNCHANGED <<log, online, notices, view, st, fetched, faults>>

(* A message of the user's own, published to the user as well.             *)
ServeSend ==
    /\ flight["send"].at = "left" /\ log.last < LastSeq
    /\ LET msg == [seq |-> log.last + 1, revoked |-> FALSE]
       IN  /\ log' = [log EXCEPT !.last = @ + 1]
           /\ notices' = Publish("created", msg)
           /\ flight' = [flight EXCEPT !["send"] = Answer(<<msg>>, FALSE)]
    /\ UNCHANGED <<online, view, st, fetched, faults>>

(* A revocation answers with the revoked message and a system message.     *)
ServeRevoke ==
    /\ flight["revoke"].at = "left" /\ log.last < LastSeq
    /\ LET old == [seq |-> flight["revoke"].arg, revoked |-> TRUE]
           system == [seq |-> log.last + 1, revoked |-> FALSE]
       IN  /\ log' = [last |-> log.last + 1, revoked |-> log.revoked \cup {old.seq}]
           /\ notices' = IF online
                         THEN notices \cup {[name |-> "updated", msg |-> old],
                                            [name |-> "created", msg |-> system]}
                         ELSE notices
           /\ flight' = [flight EXCEPT !["revoke"] = Answer(<<old, system>>, FALSE)]
    /\ UNCHANGED <<online, view, st, fetched, faults>>

-----------------------------------------------------------------------------
(* Requests of the client.                                                 *)

Leaves(kind, arg) ==
    /\ flight[kind] = NoRequest
    /\ flight' = [flight EXCEPT ![kind] = Asked(arg)]

(* The conversation is opened: its view registers and                      *)
(* ensureConversationMessages asks for the newest page, once.              *)
OpenView ==
    /\ ~view /\ view' = TRUE
    /\ IF st.loaded \/ st.loading \/ flight["initial"] # NoRequest
         THEN UNCHANGED <<flight, st>>
         ELSE /\ Leaves("initial", 0)
              /\ st' = [st EXCEPT !.loading = TRUE]
    /\ UNCHANGED <<log, online, notices, fetched, faults>>

(* It is left: the panel compacts when it unmounts, not when it changes to *)
(* another conversation.                                                   *)
CloseView ==
    /\ view /\ view' = FALSE
    /\ st' \in {st, Compact(st)}
    /\ UNCHANGED <<log, online, notices, flight, fetched, faults>>

(* Near the bottom, history unprotected and no older page under way.       *)
CompactView ==
    /\ view /\ ~st.loadingBefore
    /\ Len(st.msgs) > Retained
    /\ st' = Compact(st)
    /\ UNCHANGED <<log, online, notices, flight, view, fetched, faults>>

(* loadBeforeConversationMessages                                          *)
LoadBefore ==
    /\ view /\ st.page.more /\ st.loaded /\ ~st.loadingBefore
    /\ Leaves("before", st.page.oldest)
    /\ st' = Retain([st EXCEPT !.loadingBefore = TRUE])
    /\ UNCHANGED <<log, online, notices, view, fetched, faults>>

(* sendConversationText and the six other senders.                         *)
SendText ==
    /\ view /\ ~st.sending /\ log.last < LastSeq
    /\ Leaves("send", 0)
    /\ st' = Retain([st EXCEPT !.sending = TRUE])
    /\ UNCHANGED <<log, online, notices, view, fetched, faults>>

(* revokeConversationMessage                                               *)
Revoke ==
    /\ view /\ Cardinality(log.revoked) < Revocations /\ log.last < LastSeq
    /\ \E m \in {st.msgs[i] : i \in DOMAIN st.msgs} :
          ~m.revoked /\ Leaves("revoke", m.seq)
    /\ UNCHANGED <<log, online, notices, view, st, fetched, faults>>

(* syncAfterConversationMessages for this conversation: one page, and not  *)
(* while another is under way.                                             *)
SyncLoaded ==
    IF st.loaded /\ Newest(st.msgs) > 0 /\ flight["after"] = NoRequest
    THEN Leaves("after", Newest(st.msgs))
    ELSE UNCHANGED flight

-----------------------------------------------------------------------------
(* Answers.                                                                *)

Answered(kind) == flight[kind].at = "served"
Ends(kind) == flight' = [flight EXCEPT ![kind] = NoRequest]
Kept == UNCHANGED <<log, online, notices, view, faults>>

(* Mutant: the initial page replaces what events have brought.             *)
InitialArrives_Replaces ==
    /\ Answered("initial") /\ Ends("initial") /\ Kept
    /\ LET a == flight["initial"]
       IN  st' = Retain([st EXCEPT
                    !.loaded = TRUE, !.loading = FALSE, !.msgs = a.msgs,
                    !.page = [known |-> TRUE, more |-> a.more, oldest |-> Oldest(a.msgs)]])
    /\ fetched' = TRUE

InitialArrives ==
    /\ Answered("initial") /\ Ends("initial") /\ Kept
    /\ LET a == flight["initial"]
       IN  st' = Retain([st EXCEPT
                    !.loaded = TRUE, !.loading = FALSE,
                    !.msgs = Merge(@, a.msgs),
                    !.page = [known |-> TRUE, more |-> a.more, oldest |-> Oldest(a.msgs)]])
    /\ fetched' = TRUE

BeforeArrives ==
    /\ Answered("before") /\ Ends("before") /\ Kept
    /\ LET a == flight["before"]
           msgs == Merge(st.msgs, a.msgs)
       IN  /\ st' = Retain([st EXCEPT
                    !.loaded = TRUE, !.loadingBefore = FALSE, !.msgs = msgs,
                    !.page = [known |-> TRUE, more |-> a.more, oldest |-> Oldest(msgs)]])
           /\ fetched' = (fetched /\ (a.msgs = <<>> => Oldest(st.msgs) <= 1))

AfterArrives ==
    /\ Answered("after") /\ Ends("after") /\ Kept
    /\ LET a == flight["after"]
           msgs == Merge(st.msgs, a.msgs)
           more == IF st.page.known THEN st.page.more ELSE a.more
       IN  st' = Retain([st EXCEPT
                    !.msgs = msgs,
                    !.page = [known |-> TRUE, more |-> more, oldest |-> Oldest(msgs)]])
    /\ UNCHANGED fetched

SendArrives ==
    /\ Answered("send") /\ Ends("send") /\ Kept
    /\ st' = [MergeOne(st, flight["send"].msgs[1], TRUE) EXCEPT !.sending = FALSE]
    /\ UNCHANGED fetched

RevokeArrives ==
    /\ Answered("revoke") /\ Ends("revoke") /\ Kept
    /\ st' = LET a == flight["revoke"].msgs
             IN  MergeOne(MergeOne(st, a[1], TRUE), a[2], TRUE)
    /\ UNCHANGED fetched

(* A request fails, before the server acted or after.                      *)
RequestFails(kind) ==
    /\ faults < Faults /\ flight[kind] # NoRequest
    /\ faults' = faults + 1
    /\ Ends(kind)
    /\ st' = CASE kind = "initial" -> Retain([st EXCEPT !.loaded = FALSE, !.loading = FALSE])
               [] kind = "before" -> Retain([st EXCEPT !.loadingBefore = FALSE])
               [] kind = "send" -> Retain([st EXCEPT !.sending = FALSE])
               [] OTHER -> st
    /\ UNCHANGED <<log, online, notices, view, fetched>>

-----------------------------------------------------------------------------
(* Realtime events.                                                        *)

(* handleIncomingConversationMessage: cached if the conversation is open,  *)
(* loaded or loading.                                                      *)
OnCreated(msg) ==
    st' = IF view \/ st.loaded \/ st.loading THEN MergeOne(st, msg, FALSE) ELSE st

(* handleIncomingConversationMessageUpdate: only what is in the window.    *)
OnUpdated(msg) ==
    LET msgs == Merge(st.msgs, <<msg>>)
    IN  st' = IF msg.seq \in Seqs(st.msgs)
              THEN [st EXCEPT !.msgs = msgs, !.page = PageWith(@, msgs)]
              ELSE st

EventArrives ==
    \E e \in notices :
        /\ notices' = notices \ {e}
        /\ IF e.name = "created" THEN OnCreated(e.msg) ELSE OnUpdated(e.msg)
        /\ UNCHANGED <<log, online, flight, view, fetched, faults>>

GoOffline ==
    /\ online /\ faults < Faults
    /\ online' = FALSE /\ notices' = {}
    /\ faults' = faults + 1
    /\ UNCHANGED <<log, flight, view, st, fetched>>

(* system.ready again: syncLoadedConversationMessages.                     *)
GoOnline ==
    /\ ~online /\ online' = TRUE
    /\ SyncLoaded
    /\ UNCHANGED <<log, notices, view, st, fetched, faults>>

-----------------------------------------------------------------------------
WebMessagesInit ==
    /\ log = [last |-> First, revoked |-> {}]
    /\ online = TRUE /\ notices = {}
    /\ flight = [k \in Kinds |-> NoRequest]
    /\ view = FALSE /\ fetched = FALSE
    /\ st = [loaded |-> FALSE, loading |-> FALSE, loadingBefore |-> FALSE,
             sending |-> FALSE, msgs |-> <<>>, page |-> NoPage]
    /\ faults = 0

WebMessagesNext ==
    \/ OthersWrite \/ OthersRevoke \/ ServeMessages \/ ServeSend \/ ServeRevoke
    \/ OpenView \/ CloseView \/ CompactView \/ LoadBefore \/ SendText \/ Revoke
    \/ InitialArrives \/ BeforeArrives \/ AfterArrives \/ SendArrives \/ RevokeArrives
    \/ \E kind \in Kinds : RequestFails(kind)
    \/ EventArrives \/ GoOffline \/ GoOnline

WebMessagesSpec == WebMessagesInit /\ [][WebMessagesNext]_wmVars

-----------------------------------------------------------------------------
(* The newest message the window has shown stays in it: a page that was    *)
(* asked for before the message existed does not remove it, and retention  *)
(* cuts the old end.                                                       *)
NewestKept == Newest(st.msgs) <= Newest(st'.msgs)

NewestStays == [][NewestKept]_wmVars

(* Once an initial page has arrived, a window that does not start with the *)
(* first message can be scrolled further back: compaction and the pages    *)
(* that answers and events compute never close the history.  The exception *)
(* is an answer that nothing is before the first message: it was asked of  *)
(* a window with that message, and compaction may have cut it meanwhile.   *)
HistoryReachable ==
    fetched /\ st.msgs # <<>> => Oldest(st.msgs) = 1 \/ st.page.more
=============================================================================
