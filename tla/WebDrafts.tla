------------------------------- MODULE WebDrafts -------------------------------
(***************************************************************************)
(* What the user has typed and not sent in the web client: the drafts of   *)
(* useConversationDrafts, one per conversation, with a copy in             *)
(* localStorage that is written a second after the last change and         *)
(* whenever the page is hidden or left; and the senders of the chat page,  *)
(* whose answers clear a draft, or only its reply target, some time later. *)
(*                                                                         *)
(* Every visit to the chat page has drafts of its own, read from the copy. *)
(* Leaving it for the contacts or the projects ends nothing: the answer to *)
(* a message or a deletion still changes the drafts of the visit it was    *)
(* asked in, and writes them, whichever visit is the latest by then.       *)
(*                                                                         *)
(* Texts and reply targets are numbers, new for every edit, 0 for none.    *)
(* The mentions of a draft come and go with its text.  One tab: two tabs   *)
(* of one user overwrite each other's copy.  Signing out is left out.      *)
(***************************************************************************)
EXTENDS Naturals, FiniteSets

CONSTANTS Conversations,
          NoConversation,
          MaxVisits,     \* bound: visits to the chat page, of which one waits
          MaxWaiting,    \* bound: messages that are sent at once, and deletions
          MaxEdits,      \* bound: changes of a draft
          MaxFaults      \* bound: refused writes, killed tabs, failed requests

ASSUME DraftsAssumption ==
    MaxEdits \in Nat /\ MaxFaults \in Nat /\ MaxWaiting \in Nat
    /\ MaxVisits \in Nat \ {0}

VARIABLES onChat,     \* the chat page is mounted
          visit,      \* its latest visit; the variables below are of visits
          selected,   \* activeConversationId
          drafts,     \* draftsRef
          dirty,      \* dirtyRef
          persist,    \* persistTimerRef is armed
          stored,     \* localStorage
          sends,      \* the conversation's message that is being sent
          deleting,   \* the deletion that is waited for
          edits, mishaps,
          wanted,     \* ghost: what the user has last put into each draft
          overtaken,  \* ghost: drafts changed while their text was being sent
          sent,       \* ghost: texts the user has seen being sent
          overwritten \* ghost: the copy was written by an earlier visit

wdVars == <<onChat, visit, selected, drafts, dirty, persist, stored, sends, deleting,
            edits, mishaps, wanted, overtaken, sent, overwritten>>

Visits == 1..MaxVisits
Draft == [text : 0..MaxEdits, reply : 0..MaxEdits]
Empty == [text |-> 0, reply |-> 0]
NoDrafts == [c \in Conversations |-> Empty]
NotSending == [kind |-> "none"]
Sending == [kind : {"text", "reply"}, value : 0..MaxEdits, visit : Visits]
NotDeleting == [conversation |-> NoConversation, active |-> FALSE]
Deleting == [conversation : Conversations, active : BOOLEAN]

(* Every variable has its type; of the texts sent, none is empty.          *)
DraftsTypeOK ==
    /\ onChat \in BOOLEAN /\ visit \in Visits
    /\ selected \in Conversations \cup {NoConversation}
    /\ drafts \in [Visits -> [Conversations -> Draft]]
    /\ dirty \in [Visits -> BOOLEAN] /\ persist \in [Visits -> BOOLEAN]
    /\ stored \in [Conversations -> Draft]
    /\ sends \in [Conversations -> Sending \cup {NotSending}]
    /\ deleting \in [Visits -> Deleting \cup {NotDeleting}]
    /\ edits \in 0..MaxEdits /\ mishaps \in 0..MaxFaults
    /\ wanted \in [Conversations -> Draft]
    /\ overtaken \subseteq Conversations /\ sent \subseteq 1..MaxEdits
    /\ overwritten \in BOOLEAN

Mishap == mishaps < MaxFaults /\ mishaps' = mishaps + 1

-----------------------------------------------------------------------------
(* flushDrafts of visit v, whose drafts are ds: a refused write leaves     *)
(* them dirty, without a timer.                                            *)
Write(v, ds, isDirty) ==
    \/ /\ isDirty /\ stored' = ds /\ overwritten' = (v # visit)
       /\ dirty' = [dirty EXCEPT ![v] = FALSE] /\ UNCHANGED mishaps
    \/ /\ isDirty /\ Mishap
       /\ dirty' = [dirty EXCEPT ![v] = TRUE] /\ UNCHANGED <<stored, overwritten>>
    \/ ~isDirty /\ UNCHANGED <<stored, overwritten, dirty, mishaps>>

Flush(v, ds, isDirty) ==
    Write(v, ds, isDirty) /\ persist' = [persist EXCEPT ![v] = FALSE]

(* updateConversationDraft, clearConversationDraft: a draft that changes is *)
(* scheduled to be written.                                                *)
Put(v, c, draft) ==
    /\ drafts' = [drafts EXCEPT ![v][c] = draft]
    /\ IF draft = drafts[v][c] THEN UNCHANGED <<dirty, persist>>
       ELSE dirty' = [dirty EXCEPT ![v] = TRUE] /\ persist' = [persist EXCEPT ![v] = TRUE]

(* What outlives the chat page: answers, and the timer a deletion has set. *)
Waiting ==
    \/ \E c \in Conversations : sends[c] # NotSending
    \/ \E v \in Visits : deleting[v] # NotDeleting \/ persist[v]

(* The copy has what the latest visit has.                                 *)
CopyIsGood == ~dirty[visit] /\ ~overwritten

-----------------------------------------------------------------------------
(* The chat page mounts, with what readConversationDrafts finds; what is   *)
(* older than a week is left out.  If nothing of an earlier visit goes on, *)
(* this one is counted as the first again.  The user loses what is not in  *)
(* the copy.                                                               *)
OpenChat ==
    /\ ~onChat /\ onChat' = TRUE
    /\ Waiting => visit < MaxVisits
    /\ visit' = IF Waiting THEN visit + 1 ELSE 1
    /\ \E expired \in SUBSET Conversations :
          stored' = [c \in Conversations |-> IF c \in expired THEN Empty ELSE stored[c]]
    /\ drafts' = [v \in Visits |-> IF v = visit' THEN stored'
                                   ELSE IF Waiting THEN drafts[v]
                                   ELSE NoDrafts]
    /\ dirty' = [v \in Visits |-> Waiting /\ v # visit' /\ dirty[v]]
    /\ persist' = [v \in Visits |-> v # visit' /\ persist[v]]
    /\ wanted' = [c \in Conversations |->
                     IF CopyIsGood /\ c \notin overtaken /\ stored'[c] = stored[c]
                     THEN wanted[c] ELSE stored'[c]]
    /\ overtaken' = {} /\ overwritten' = FALSE
    /\ sent' = IF CopyIsGood THEN sent ELSE sent \ {stored[c].text : c \in Conversations}
    /\ UNCHANGED <<selected, sends, deleting, edits, mishaps>>

(* The chat page unmounts for another page of the client.                  *)
LeaveChat ==
    /\ onChat /\ onChat' = FALSE /\ selected' = NoConversation
    /\ Flush(visit, drafts[visit], dirty[visit])
    /\ UNCHANGED <<visit, drafts, sends, deleting, edits, wanted, overtaken, sent>>

(* The tab ends, and with it all that goes on.                             *)
TabEnds ==
    /\ onChat \/ Waiting
    /\ onChat' = FALSE /\ selected' = NoConversation
    /\ drafts' = [v \in Visits |-> IF v = visit THEN drafts[v] ELSE NoDrafts]
    /\ persist' = [v \in Visits |-> FALSE]
    /\ sends' = [c \in Conversations |-> NotSending]
    /\ deleting' = [v \in Visits |-> NotDeleting]
    /\ UNCHANGED <<visit, edits, wanted, overtaken, sent>>

(* pagehide: the mounted page writes its drafts, an earlier visit does not. *)
CloseTab == TabEnds /\ Write(visit, drafts[visit], onChat /\ dirty[visit])

KillTab == TabEnds /\ Mishap /\ UNCHANGED <<stored, dirty, overwritten>>

(* The timer fires, or the page becomes hidden.                            *)
Persist(v) ==
    /\ dirty[v] /\ (persist[v] \/ (onChat /\ v = visit))
    /\ Flush(v, drafts[v], dirty[v])
    /\ UNCHANGED <<onChat, visit, selected, drafts, sends, deleting, edits, wanted,
                   overtaken, sent>>

(* selectConversation                                                      *)
Select(c) ==
    /\ onChat /\ c # selected
    /\ Flush(visit, drafts[visit], dirty[visit])
    /\ selected' = c
    /\ UNCHANGED <<onChat, visit, drafts, sends, deleting, edits, wanted, overtaken,
                   sent>>

-----------------------------------------------------------------------------
TextUnderWay(c) ==
    sends[c].kind = "text" /\ sends[c].visit = visit

(* setDraft, replyToMessage, clearReplyTarget in the open conversation.    *)
Edit(field) ==
    /\ onChat /\ selected # NoConversation /\ edits < MaxEdits
    /\ edits' = edits + 1
    /\ \E value \in {0, edits + 1} :
          LET draft == [drafts[visit][selected] EXCEPT ![field] = value]
          IN  /\ draft # drafts[visit][selected]
              /\ Put(visit, selected, draft)
              /\ wanted' = [wanted EXCEPT ![selected] = draft]
    /\ overtaken' = IF TextUnderWay(selected) THEN overtaken \cup {selected}
                    ELSE overtaken \ {selected}
    /\ UNCHANGED <<onChat, visit, selected, stored, sends, deleting, mishaps, sent,
                   overwritten>>

-----------------------------------------------------------------------------
Sendable(kind, value) == kind = "text" => value # 0

(* sendMessage, and sendFileMessage and its kind, with the senders behind  *)
(* them: one message of a conversation at a time.  Of the draft, the first *)
(* sends the text ("text"), all send the reply target; what the answer     *)
(* clears is the draft, or the reply target that was sent ("reply").       *)
Send(kind) ==
    LET value == drafts[visit][selected][kind]
    IN  /\ onChat /\ selected # NoConversation
        /\ sends[selected] = NotSending
        /\ Cardinality({c \in Conversations : sends[c] # NotSending}) < MaxWaiting
        /\ Sendable(kind, value)
        /\ sends' = [sends EXCEPT ![selected] =
                        [kind |-> kind, value |-> value, visit |-> visit]]
        /\ UNCHANGED <<onChat, visit, selected, drafts, dirty, persist, stored, deleting,
                       edits, mishaps, wanted, overtaken, sent, overwritten>>

(* The draft is cleared in the visit that has sent it, and what that visit *)
(* has is written at once.                                                 *)
TextSent(c) ==
    LET v == sends[c].visit
    IN  /\ sends[c].kind = "text"
        /\ sends' = [sends EXCEPT ![c] = NotSending]
        /\ drafts' = [drafts EXCEPT ![v][c] = Empty]
        /\ Flush(v, drafts'[v], dirty[v] \/ drafts[v][c] # Empty)
        /\ wanted' = IF v = visit /\ c \notin overtaken
                     THEN [wanted EXCEPT ![c] = Empty] ELSE wanted
        /\ sent' = IF v = visit THEN sent \cup {sends[c].value} ELSE sent
        /\ UNCHANGED <<onChat, visit, selected, deleting, edits, overtaken>>

(* Mutant: whatever the draft replies to by now.                           *)
WithoutReply_Any(draft, reply) == [draft EXCEPT !.reply = 0]

(* clearSentReplyTarget: only the reply target that was sent is cleared.   *)
WithoutReply(draft, reply) ==
    IF draft.reply = reply THEN [draft EXCEPT !.reply = 0] ELSE draft

FileSent(c) ==
    LET v == sends[c].visit
        reply == sends[c].value
    IN  /\ sends[c].kind = "reply"
        /\ sends' = [sends EXCEPT ![c] = NotSending]
        /\ IF reply = 0
           THEN UNCHANGED <<drafts, dirty, persist, stored, mishaps, overwritten>>
           ELSE /\ drafts' = [drafts EXCEPT ![v][c] = WithoutReply(drafts[v][c], reply)]
                /\ Flush(v, drafts'[v], dirty[v] \/ drafts[v][c] # Empty)
        /\ wanted' = IF reply # 0 /\ v = visit /\ wanted[c].reply = reply
                     THEN [wanted EXCEPT ![c].reply = 0] ELSE wanted
        /\ UNCHANGED <<onChat, visit, selected, deleting, edits, overtaken, sent>>

(* The request fails or its answer is lost: the draft stays.               *)
SendFails(c) ==
    /\ sends[c] # NotSending /\ Mishap
    /\ sends' = [sends EXCEPT ![c] = NotSending]
    /\ overtaken' = IF TextUnderWay(c) THEN overtaken \ {c} ELSE overtaken
    /\ UNCHANGED <<onChat, visit, selected, drafts, dirty, persist, stored, deleting,
                   edits, wanted, sent, overwritten>>

-----------------------------------------------------------------------------
(* handleDismissConversation, deleteConversation: a visit waits for one    *)
(* deletion, and remembers whether it was of the conversation then open.   *)
AskDelete(c) ==
    /\ onChat /\ deleting[visit] = NotDeleting
    /\ Cardinality({v \in Visits : deleting[v] # NotDeleting}) < MaxWaiting
    /\ deleting' = [deleting EXCEPT ![visit] = [conversation |-> c, active |-> selected = c]]
    /\ UNCHANGED <<onChat, visit, selected, drafts, dirty, persist, stored, sends, edits,
                   mishaps, wanted, overtaken, sent, overwritten>>

(* The draft is cleared in the visit that has asked.  From another page    *)
(* the user is led back to the chat page: OpenChat.                        *)
Deleted(v) ==
    LET c == deleting[v].conversation
    IN  /\ deleting[v] # NotDeleting
        /\ deleting' = [deleting EXCEPT ![v] = NotDeleting]
        /\ Put(v, c, Empty)
        /\ wanted' = IF v = visit THEN [wanted EXCEPT ![c] = Empty] ELSE wanted
        /\ overtaken' = IF v = visit THEN overtaken \ {c} ELSE overtaken
        /\ selected' = IF deleting[v].active THEN NoConversation ELSE selected
        /\ UNCHANGED <<onChat, visit, stored, sends, edits, mishaps, sent, overwritten>>

DeleteFails(v) ==
    /\ deleting[v] # NotDeleting /\ Mishap
    /\ deleting' = [deleting EXCEPT ![v] = NotDeleting]
    /\ UNCHANGED <<onChat, visit, selected, drafts, dirty, persist, stored, sends, edits,
                   wanted, overtaken, sent, overwritten>>

-----------------------------------------------------------------------------
DraftsInit ==
    /\ onChat = FALSE /\ visit = 1 /\ selected = NoConversation
    /\ drafts = [v \in Visits |-> NoDrafts]
    /\ dirty = [v \in Visits |-> FALSE] /\ persist = [v \in Visits |-> FALSE]
    /\ stored = NoDrafts
    /\ sends = [c \in Conversations |-> NotSending]
    /\ deleting = [v \in Visits |-> NotDeleting]
    /\ edits = 0 /\ mishaps = 0
    /\ wanted = NoDrafts
    /\ overtaken = {} /\ sent = {} /\ overwritten = FALSE

DraftsNext ==
    \/ OpenChat \/ LeaveChat \/ CloseTab \/ KillTab
    \/ Edit("text") \/ Edit("reply") \/ Send("text") \/ Send("reply")
    \/ \E v \in Visits : Persist(v) \/ Deleted(v) \/ DeleteFails(v)
    \/ \E c \in Conversations :
          \/ Select(c) \/ TextSent(c) \/ FileSent(c) \/ SendFails(c) \/ AskDelete(c)

DraftsSpec == DraftsInit /\ [][DraftsNext]_wdVars

-----------------------------------------------------------------------------
(* What the user has put into a draft is there until it is sent or deleted: *)
(* on the chat page, and in the copy whenever nothing waits to be written; *)
(* the answer to a message sent elsewhere or earlier takes nothing else    *)
(* away, and a text whose sending the user has seen does not come back.    *)
(* Excepted is a draft changed while its own text was being sent, which    *)
(* the answer clears, and what an answer does that comes to a visit which  *)
(* a later one has replaced: the later one still shows the text that was   *)
(* sent, and the copy is the earlier visit's, newer drafts gone from it,   *)
(* until the later one writes again ("overwritten").                       *)
DraftKept ==
    /\ CopyIsGood => stored = drafts[visit]
    /\ (onChat \/ CopyIsGood) =>
          \A c \in Conversations :
              /\ drafts[visit][c] = wanted[c] \/ c \in overtaken
              /\ drafts[visit][c].text \notin sent
=============================================================================
