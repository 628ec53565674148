---------------------------- MODULE MobileMessages ----------------------------
(***************************************************************************)
(* The messages of one conversation in the mobile client: an infinite      *)
(* query whose pages run from the newest message backwards, refetched      *)
(* every five seconds while its screen is open, and written in between by  *)
(* realtime events, by the catch-up after a reconnect and by the answers   *)
(* to the user's own requests.                                             *)
(*                                                                         *)
(* A fetch of the query takes the pages it will keep when it starts and    *)
(* replaces the cache when it ends, so what was written meanwhile is lost  *)
(* again; a catch-up starts from the newest message it finds, which may    *)
(* lie beyond a gap.  The next refetch has to repair both.                 *)
(***************************************************************************)
EXTENDS Naturals, Sequences, FiniteSets

CONSTANTS LastSeq,       \* bound: messages the conversation may hold
          First,         \* messages in it at the start
          PageLimit,     \* MESSAGE_PAGE_SIZE, CATCH_UP_PAGE_SIZE (20)
          CatchUpPages,  \* MAX_CATCH_UP_PAGES (100)
          MaxPages,      \* bound: pages the user scrolls back
          MaxChanges,    \* bound: messages written and revocations
          Visits,        \* bound: times the screen is opened
          Faults         \* bound: lost connections and failed requests

ASSUME MobileMessagesAssumption ==
    /\ LastSeq \in Nat /\ First \in 0..LastSeq /\ PageLimit \in Nat \ {0}
    /\ MaxPages \in Nat /\ Visits \in Nat /\ Faults \in Nat

VARIABLES log,        \* the server: number of messages, and which are revoked
          online,     \* the realtime connection is ready
          events,     \* published, not handled yet
          screen,     \* the conversation's screen is mounted
          pages,      \* the query's data, newest page first; <<>> for none
          stale,      \* the query is invalidated
          fetch,      \* the query's fetch under way
          syncs,      \* synchronizations waiting in the promise chain
          catchUp,    \* the catch-up loop of the one under way
          own,        \* the user's own request (send or revoke)
          visits,
          mishaps     \* lost connections and failed requests so far

mmVars == <<log, online, events, screen, pages, stale, fetch, syncs, catchUp,
            own, visits, mishaps>>

Message == [seq : 1..LastSeq, revoked : BOOLEAN]
Page == [msgs : SUBSET Message, more : BOOLEAN, oldest : 0..LastSeq]
Idle == [at |-> "idle"]

MobileMessagesTypeOK ==
    /\ log.last \in 0..LastSeq /\ log.revoked \subseteq 1..log.last
    /\ online \in BOOLEAN /\ screen \in BOOLEAN /\ stale \in BOOLEAN
    /\ events \subseteq [name : {"created", "updated"}, msg : Message]
    /\ \A i \in DOMAIN pages : pages[i] \in Page
    /\ fetch # Idle => fetch.kind \in {"all", "older"}
    /\ syncs \in Nat
    /\ catchUp # Idle => catchUp.after \in 0..LastSeq /\ catchUp.page \in 1..CatchUpPages
    /\ visits \in 0..Visits /\ mishaps \in 0..Faults

-----------------------------------------------------------------------------
(* The server.                                                             *)

Now(n) == [seq |-> n, revoked |-> n \in log.revoked]
Window(lo, hi) == {Now(n) : n \in lo..hi}

Lower(a, b) == IF a < b THEN a ELSE b
Below(a, b) == IF a > b THEN a - b ELSE 0

(* GET .../messages without or with before_seq.                            *)
PageUpTo(hi) ==
    LET lo == Below(hi, PageLimit) + 1
    IN  [msgs |-> Window(lo, hi), more |-> lo > 1, oldest |-> IF hi = 0 THEN 0 ELSE lo]

(* The bounds: room for so many messages and changes.                      *)
Room(writes, revocations) ==
    /\ log.last + writes <= LastSeq
    /\ log.last - First + Cardinality(log.revoked) + writes + revocations <= MaxChanges

Publish(es) == events' = IF online THEN events \cup es ELSE events
Created(n) == [name |-> "created", msg |-> [seq |-> n, revoked |-> FALSE]]
Updated(n) == [name |-> "updated", msg |-> [seq |-> n, revoked |-> TRUE]]

OthersWrite ==
    /\ Room(1, 0)
    /\ log' = [log EXCEPT !.last = @ + 1]
    /\ Publish({Created(log.last + 1)})
    /\ UNCHANGED <<online, screen, pages, stale, fetch, syncs, catchUp, own,
                   visits, mishaps>>

OthersRevoke ==
    /\ Room(0, 1)
    /\ \E n \in (1..log.last) \ log.revoked :
          /\ log' = [log EXCEPT !.revoked = @ \cup {n}]
          /\ Publish({Updated(n)})
    /\ UNCHANGED <<online, screen, pages, stale, fetch, syncs, catchUp, own,
                   visits, mishaps>>

-----------------------------------------------------------------------------
(* What is written into the query's data.                                  *)

Shown == UNION {pages[i].msgs : i \in DOMAIN pages}
Seqs(msgs) == {m.seq : m \in msgs}
Without(page, msgs) == [page EXCEPT !.msgs = {m \in @ : m.seq \notin Seqs(msgs)}]

(* setQueryData: data that is written counts as fresh.                     *)
Write(ps) == pages' = ps /\ stale' = (stale /\ ps = <<>>)

(* Mutant: what is older than the first page is not put into it.           *)
AppendMessages_NewerOnly(ps, msgs) ==
    IF ps = <<>> \/ msgs = {} THEN ps
    ELSE [i \in DOMAIN ps |->
            IF i = 1 THEN [Without(ps[i], msgs) EXCEPT
                             !.msgs = @ \cup {m \in msgs : m.seq >= ps[1].oldest}]
            ELSE Without(ps[i], msgs)]

(* appendMessages: into the first page, removed from the others.           *)
AppendMessages(ps, msgs) ==
    IF ps = <<>> \/ msgs = {} THEN ps
    ELSE [i \in DOMAIN ps |->
            IF i = 1 THEN [Without(ps[i], msgs) EXCEPT !.msgs = @ \cup msgs]
            ELSE Without(ps[i], msgs)]

(* updateMessage: only where it is.                                        *)
UpdateIn(ps, msg) ==
    [i \in DOMAIN ps |->
        IF msg.seq \in Seqs(ps[i].msgs)
        THEN [Without(ps[i], {msg}) EXCEPT !.msgs = @ \cup {msg}] ELSE ps[i]]

(* upsertMessages: where it is, otherwise into the first page.             *)
Upsert(ps, msg) ==
    IF \E i \in DOMAIN ps : msg.seq \in Seqs(ps[i].msgs) THEN UpdateIn(ps, msg)
    ELSE AppendMessages(ps, {msg})

-----------------------------------------------------------------------------
(* The query.  A fetch holds the pages it has so far and how many it wants. *)

StartAll ==
    fetch' = [at |-> "left", kind |-> "all", got |-> <<>>,
              want |-> IF pages = <<>> THEN 1 ELSE Len(pages)]

(* invalidateQueries: what is under way is cancelled; without a screen the *)
(* query is only marked.                                                   *)
InvalidateQuery ==
    /\ stale' = TRUE
    /\ IF screen THEN StartAll ELSE UNCHANGED fetch

(* The screen mounts: data that is missing or stale is fetched; data may   *)
(* also have become stale by its age.                                      *)
OpenScreen ==
    /\ ~screen /\ visits < Visits
    /\ screen' = TRUE /\ visits' = visits + 1
    /\ \/ StartAll
       \/ pages # <<>> /\ ~stale /\ UNCHANGED fetch
    /\ UNCHANGED <<log, online, events, pages, stale, syncs, catchUp, own, mishaps>>

(* It unmounts: its fetch is aborted, since queryFn consumed the signal.   *)
CloseScreen ==
    /\ screen /\ screen' = FALSE
    /\ fetch' = Idle
    /\ UNCHANGED <<log, online, events, pages, stale, syncs, catchUp, own, visits,
                   mishaps>>

(* An unused query is collected, or removed with its conversation.         *)
DropQuery ==
    /\ ~screen /\ pages # <<>>
    /\ pages' = <<>> /\ stale' = FALSE /\ fetch' = Idle
    /\ UNCHANGED <<log, online, events, screen, syncs, catchUp, own, visits, mishaps>>

(* refetchInterval.                                                        *)
Poll ==
    /\ screen /\ fetch = Idle /\ StartAll
    /\ UNCHANGED <<log, online, events, screen, pages, stale, syncs, catchUp, own,
                   visits, mishaps>>

(* fetchOlder: the pages of this moment and one more; a refetch under way  *)
(* is cancelled.                                                           *)
FetchOlder ==
    /\ screen /\ pages # <<>> /\ pages[Len(pages)].more
    /\ Len(pages) < MaxPages
    /\ fetch # Idle => fetch.kind = "all"
    /\ fetch' = [at |-> "left", kind |-> "older", got |-> pages, want |-> Len(pages) + 1]
    /\ UNCHANGED <<log, online, events, screen, pages, stale, syncs, catchUp, own,
                   visits, mishaps>>

(* Mutant: the next page is asked for from one message too far back.       *)
FetchPage_SkipsOne ==
    /\ fetch # Idle /\ fetch.at = "left"
    /\ LET n == Len(fetch.got)
           page == PageUpTo(IF n = 0 THEN log.last ELSE Below(fetch.got[n].oldest, 2))
           got == Append(fetch.got, page)
       IN  fetch' = [fetch EXCEPT !.got = got,
                       !.at = IF Len(got) < fetch.want /\ page.more THEN "left" ELSE "served"]
    /\ UNCHANGED <<log, online, events, screen, pages, stale, syncs, catchUp, own,
                   visits, mishaps>>

(* One page is served and received: the first one ends with the newest     *)
(* message, the next one before the oldest of the last.                    *)
FetchPage ==
    /\ fetch # Idle /\ fetch.at = "left"
    /\ LET n == Len(fetch.got)
           page == PageUpTo(IF n = 0 THEN log.last ELSE Below(fetch.got[n].oldest, 1))
           got == Append(fetch.got, page)
       IN  fetch' = [fetch EXCEPT !.got = got,
                       !.at = IF Len(got) < fetch.want /\ page.more THEN "left" ELSE "served"]
    /\ UNCHANGED <<log, online, events, screen, pages, stale, syncs, catchUp, own,
                   visits, mishaps>>

FetchEnds ==
    /\ fetch # Idle /\ fetch.at = "served"
    /\ pages' = fetch.got
    /\ fetch' = Idle /\ stale' = FALSE
    /\ UNCHANGED <<log, online, events, screen, syncs, catchUp, own, visits, mishaps>>

(* Its retry has failed as well: the data stays.                           *)
FetchFails ==
    /\ fetch # Idle /\ mishaps < Faults /\ mishaps' = mishaps + 1
    /\ fetch' = Idle
    /\ UNCHANGED <<log, online, events, screen, pages, stale, syncs, catchUp, own,
                   visits>>

-----------------------------------------------------------------------------
(* Realtime.                                                               *)

HandleEvent ==
    \E e \in events :
        /\ events' = events \ {e}
        /\ Write(IF e.name = "created" THEN AppendMessages(pages, {e.msg})
                 ELSE UpdateIn(pages, e.msg))
        /\ UNCHANGED <<log, online, screen, fetch, syncs, catchUp, own,
                       visits, mishaps>>

GoOffline ==
    /\ online /\ mishaps < Faults /\ mishaps' = mishaps + 1
    /\ online' = FALSE /\ events' = {}
    /\ UNCHANGED <<log, screen, pages, stale, fetch, syncs, catchUp, own, visits>>

(* system.ready, or the application comes to the foreground: the           *)
(* synchronization waits for the ones before it.                           *)
GoOnline ==
    /\ ~online /\ online' = TRUE
    /\ syncs' = syncs + 1
    /\ UNCHANGED <<log, events, screen, pages, stale, fetch, catchUp, own, visits,
                   mishaps>>

CatchUpFrom(after, page) == [at |-> "left", after |-> after, page |-> page]

Newest == IF Shown = {} THEN 0 ELSE CHOOSE n \in Seqs(Shown) : \A k \in Seqs(Shown) : k <= n

(* synchronizeRealtimeData, if the conversation is loaded.                 *)
StartSync ==
    /\ syncs > 0 /\ catchUp = Idle
    /\ syncs' = syncs - 1
    /\ catchUp' = IF Newest > 0 THEN CatchUpFrom(Newest, 1) ELSE Idle
    /\ UNCHANGED <<log, online, events, screen, pages, stale, fetch, own, visits,
                   mishaps>>

ServeCatchUp ==
    /\ catchUp # Idle /\ catchUp.at = "left"
    /\ LET hi == Lower(catchUp.after + PageLimit, log.last)
       IN  catchUp' = [at |-> "served", after |-> catchUp.after, page |-> catchUp.page,
                       msgs |-> Window(catchUp.after + 1, hi), more |-> hi < log.last]
    /\ UNCHANGED <<log, online, events, screen, pages, stale, fetch, syncs, own,
                   visits, mishaps>>

(* Mutant: the limit of pages is noticed one page too late.                *)
CatchUpArrives_OneMore ==
    /\ catchUp # Idle /\ catchUp.at = "served"
    /\ Write(AppendMessages(pages, catchUp.msgs)) /\ UNCHANGED fetch
    /\ catchUp' = IF catchUp.more /\ catchUp.page <= CatchUpPages
                  THEN CatchUpFrom(catchUp.after + PageLimit, catchUp.page + 1)
                  ELSE Idle
    /\ UNCHANGED <<log, online, events, screen, syncs, own, visits, mishaps>>

(* catchUpConversationMessages: page by page; a gap of too many pages      *)
(* invalidates the query instead.                                          *)
CatchUpArrives ==
    /\ catchUp # Idle /\ catchUp.at = "served"
    /\ LET ps == AppendMessages(pages, catchUp.msgs)
           gap == catchUp.more /\ catchUp.page = CatchUpPages
       IN  IF gap THEN pages' = ps /\ InvalidateQuery ELSE Write(ps) /\ UNCHANGED fetch
    /\ catchUp' = IF catchUp.more /\ catchUp.page < CatchUpPages
                  THEN CatchUpFrom(catchUp.after + PageLimit, catchUp.page + 1)
                  ELSE Idle
    /\ UNCHANGED <<log, online, events, screen, syncs, own, visits, mishaps>>

CatchUpFails ==
    /\ catchUp # Idle /\ mishaps < Faults /\ mishaps' = mishaps + 1
    /\ catchUp' = Idle
    /\ UNCHANGED <<log, online, events, screen, pages, stale, fetch, syncs, own,
                   visits>>

-----------------------------------------------------------------------------
(* The user's own requests.                                                *)

Send ==
    /\ screen /\ own = Idle /\ Room(1, 0)
    /\ own' = [at |-> "send"]
    /\ UNCHANGED <<log, online, events, screen, pages, stale, fetch, syncs, catchUp,
                   visits, mishaps>>

Revoke ==
    /\ screen /\ own = Idle
    /\ Room(1, 1)
    /\ \E m \in Shown : ~m.revoked /\ own' = [at |-> "revoke", seq |-> m.seq]
    /\ UNCHANGED <<log, online, events, screen, pages, stale, fetch, syncs, catchUp,
                   visits, mishaps>>

(* A revocation adds a system message.                                     *)
ServeOwn ==
    /\ own.at \in {"send", "revoke"}
    /\ Room(1, IF own.at = "send" THEN 0 ELSE 1)
    /\ LET n == log.last + 1
           old == IF own.at = "revoke" THEN {own.seq} ELSE {}
       IN  /\ log' = [last |-> n, revoked |-> log.revoked \cup old]
           /\ Publish({Created(n)} \cup {Updated(k) : k \in old})
           /\ own' = [at |-> "served", msgs |-> {Created(n).msg} \cup {Updated(k).msg : k \in old}]
    /\ UNCHANGED <<online, screen, pages, stale, fetch, syncs, catchUp, visits, mishaps>>

OwnArrives ==
    /\ own.at = "served"
    /\ own' = Idle
    /\ LET old == {m \in own.msgs : m.revoked}
           new == CHOOSE m \in own.msgs : ~m.revoked
           updated == IF old = {} THEN pages ELSE Upsert(pages, CHOOSE m \in old : TRUE)
       IN  Write(Upsert(updated, new))
    /\ UNCHANGED <<log, online, events, screen, fetch, syncs, catchUp, visits,
                   mishaps>>

OwnFails ==
    /\ own # Idle /\ mishaps < Faults /\ mishaps' = mishaps + 1
    /\ own' = Idle
    /\ UNCHANGED <<log, online, events, screen, pages, stale, fetch, syncs, catchUp,
                   visits>>

-----------------------------------------------------------------------------
MobileMessagesInit ==
    /\ log = [last |-> First, revoked |-> {}]
    /\ online = TRUE /\ events = {}
    /\ screen = FALSE /\ pages = <<>> /\ stale = FALSE
    /\ fetch = Idle /\ syncs = 0 /\ catchUp = Idle /\ own = Idle
    /\ visits = 0 /\ mishaps = 0

MobileMessagesNext ==
    \/ OthersWrite \/ OthersRevoke
    \/ OpenScreen \/ CloseScreen \/ DropQuery \/ Poll \/ FetchOlder
    \/ FetchPage \/ FetchEnds \/ FetchFails
    \/ HandleEvent \/ GoOffline \/ GoOnline
    \/ StartSync \/ ServeCatchUp \/ CatchUpArrives \/ CatchUpFails
    \/ Send \/ Revoke \/ ServeOwn \/ OwnArrives \/ OwnFails

(* The interval fires, the server answers, answers and events are handled. *)
MobileMessagesFairness ==
    /\ WF_mmVars(Poll) /\ WF_mmVars(FetchPage) /\ WF_mmVars(FetchEnds)
    /\ WF_mmVars(HandleEvent)
    /\ WF_mmVars(StartSync) /\ WF_mmVars(ServeCatchUp) /\ WF_mmVars(CatchUpArrives)
    /\ WF_mmVars(ServeOwn) /\ WF_mmVars(OwnArrives)

MobileMessagesSpec == MobileMessagesInit /\ [][MobileMessagesNext]_mmVars
                        /\ MobileMessagesFairness

-----------------------------------------------------------------------------
(* How far up a first page is answerable: a page that has more before it   *)
(* was full, so it is up to the newest message it was served with; of one  *)
(* that has none before it only its oldest message is known.  Up to there  *)
(* a query has every message, or those that it lacks come before its last  *)
(* page and can be scrolled to.                                            *)
Top(page) == IF page.more THEN page.oldest + PageLimit - 1 ELSE page.oldest
Lacks(ps) ==
    IF ps = <<>> THEN {}
    ELSE {n \in 1..Top(ps[1]) : \A i \in DOMAIN ps : n \notin Seqs(ps[i].msgs)}
InReach(ps) ==
    \A n \in Lacks(ps) : ps[Len(ps)].more /\ n < ps[Len(ps)].oldest

(* No message of the conversation gets out of reach between two pages or   *)
(* below them, whatever is written, moved to the first page or refetched   *)
(* while older pages are loaded (useConversationMessages, appendMessages). *)
OlderInReach == InReach(pages)

(* Once nothing changes any more, an open screen shows the conversation up *)
(* to its newest message, each message as it is now, without a hole, and   *)
(* either from the first message on or with older ones to scroll to.       *)
Complete ==
    /\ Shown = Window(log.last + 1 - Cardinality(Shown), log.last)
    /\ pages # <<>>
    /\ Cardinality(Shown) < log.last => pages[Len(pages)].more

WindowRight == screen => Complete

(* An open screen ends up showing the conversation without a hole and each *)
(* message as it is (useConversationMessages).                             *)
WindowConverges == <>[]WindowRight
=============================================================================
