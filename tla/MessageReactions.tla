-------------------------- MODULE MessageReactions ---------------------------
(***************************************************************************)
(* The reactions of one message as a client shows them, in the web client  *)
(* and in the mobile client ("platform").                                  *)
(*                                                                         *)
(* An event carries the reactions after one change and who made it, but    *)
(* not whether the reader is among those who reacted: that is carried over *)
(* from what is shown, which is right only if no version was skipped.  A   *)
(* client that sees a gap asks for snapshots instead, at most MaxAttempts  *)
(* times, until one is as recent as the event that revealed the gap.       *)
(*                                                                         *)
(* Snapshots and the answer to a change are read in one transaction.  A    *)
(* page of messages is not: the server reads the reactions and then, in a  *)
(* query of its own, their version, so that a page may bring the reactions *)
(* of one version under the number of a later one.  (The queries for the   *)
(* counts, the reader's own marks and the names are taken as one.)         *)
(*                                                                         *)
(* One reaction text; the conversation stays on screen; a revocation,      *)
(* after which reactions are no longer changed, is left out.               *)
(***************************************************************************)
EXTENDS Naturals, Sequences, FiniteSets

CONSTANTS Me, Users,     \* the reader; everybody who may react
          MaxVersion,    \* bound: changes of the reactions
          MaxAttempts,   \* snapshot attempts of one catch-up (3)
          MaxLosses,     \* bound: lost connections and failed requests
          MaxPagesRead   \* bound: pages the web client fetches

VARIABLES platform,  \* "web" or "mobile"
          history,   \* the server: who has reacted, at each version
          shown,     \* the client: version, who has reacted, and a ghost:
                     \* what of it was read before its version was
          published, \* message.reactions_updated, not handled yet
          connected,
          catching,  \* catch-up loops: attempt, minimum, what was answered
          minimum,   \* reactionSnapshotMinimumVersionsRef (web)
          page,      \* a request whose answer holds the whole message
          mine,      \* the reader's own change under way
          losses, pagesRead,
          excused    \* ghost: the web client was given no chance to catch up

mrVars == <<platform, history, shown, published, connected, catching, minimum,
            page, mine, losses, pagesRead, excused>>

Versions == 0..MaxVersion
Parts == {"others", "own"}  \* other people's reactions, the reader's own mark
ShownSet == [version : Versions, users : SUBSET Users, doubt : SUBSET Parts]
AtRest == [at |-> "idle"]
Left == [at |-> "left"]
Served == [at : {"served"}, version : Versions, users : SUBSET Users,
           doubt : SUBSET Parts]
HalfServed == [at : {"half"}, version : Versions, users : SUBSET Users]

Latest == Len(history) - 1
At(version) == history[version + 1]
Snapshot == [at |-> "served", version |-> Latest, users |-> At(Latest), doubt |-> {}]
Higher(a, b) == IF a > b THEN a ELSE b

ReactionsTypeOK ==
    /\ platform \in {"web", "mobile"} /\ connected \in BOOLEAN /\ excused \in BOOLEAN
    /\ history \in Seq(SUBSET Users) /\ Latest \in Versions
    /\ shown \in ShownSet
    /\ published \subseteq [version : Versions, users : SUBSET Users,
                         actor : Users, reacted : BOOLEAN]
    /\ \A c \in catching : c.attempt \in 1..MaxAttempts /\ c.minimum \in Versions
                           /\ c.answer \in Served \cup {Left}
    /\ minimum \in Versions /\ page \in Served \cup HalfServed \cup {AtRest, Left}
    /\ mine \in Served \cup {AtRest, Left}
    /\ losses \in 0..MaxLosses /\ pagesRead \in 0..MaxPagesRead

-----------------------------------------------------------------------------
(* The server commits a change and publishes it.                           *)

Commits(actor) ==
    LET before == At(Latest)
        reacted == actor \notin before
        after == IF reacted THEN before \cup {actor} ELSE before \ {actor}
    IN  /\ Latest < MaxVersion
        /\ history' = Append(history, after)
        /\ published' = IF connected
                        THEN published \cup {[version |-> Latest + 1, users |-> after,
                                              actor |-> actor, reacted |-> reacted]}
                        ELSE published

OthersReact ==
    /\ \E actor \in Users \ {Me} : Commits(actor)
    /\ UNCHANGED <<platform, shown, connected, catching, minimum, page, mine,
                   losses, pagesRead, excused>>

-----------------------------------------------------------------------------
AsShown(answer) ==
    [version |-> answer.version, users |-> answer.users, doubt |-> answer.doubt]

(* applyMessageReactionSnapshot: not older than what is shown.             *)
WithSnapshot(s, answer) == IF s.version > answer.version THEN s ELSE AsShown(answer)

(* Mutant: whoever acted is taken for the reader.                          *)
WithEvent_AnyActor(s, e) ==
    [version |-> e.version,
     users |-> (e.users \ {Me}) \cup (IF e.reacted THEN {Me} ELSE {}),
     doubt |-> s.doubt \ {"others"}]

(* applyMessageReactionsUpdate, of the next version only: reactedByMe is   *)
(* known to the event if the reader acted, otherwise it stays.             *)
WithEvent(s, e) ==
    LET reactedByMe == IF e.actor = Me THEN e.reacted ELSE Me \in s.users
    IN  [version |-> e.version,
         users |-> (e.users \ {Me}) \cup (IF reactedByMe THEN {Me} ELSE {}),
         doubt |-> IF e.actor = Me THEN {} ELSE s.doubt \ {"others"}]

(* A page or an invalidated query replaces the message; the mobile client  *)
(* keeps newer reactions (preserveNewerMessageReactionState).              *)
WithPage(s, answer) ==
    IF platform = "mobile" /\ s.version > answer.version THEN s ELSE AsShown(answer)

Loop(attempt, min) == [attempt |-> attempt, minimum |-> min, answer |-> Left]

(* refreshMessageReactions: the web client runs one loop per message.      *)
StartCatchUp(min) ==
    catching' = IF platform = "web" /\ catching # {} THEN catching
                ELSE catching \cup {Loop(1, min)}

(* handleIncomingMessageReactionsUpdate, applyRealtimeMessageReactionsEvent *)
HandleReactions ==
    \E e \in published :
        /\ published' = published \ {e}
        /\ IF e.version <= shown.version
           THEN UNCHANGED <<shown, catching, minimum>>
           ELSE IF e.version = shown.version + 1
           THEN /\ shown' = WithEvent(shown, e)
                /\ UNCHANGED <<catching, minimum>>
           ELSE /\ minimum' = IF platform = "web" THEN Higher(minimum, e.version) ELSE 0
                /\ StartCatchUp(e.version)
                /\ UNCHANGED shown
        /\ UNCHANGED <<platform, history, connected, page, mine, losses, pagesRead, excused>>

ServeSnapshot ==
    \E c \in catching :
        /\ c.answer = Left
        /\ catching' = (catching \ {c}) \cup {[c EXCEPT !.answer = Snapshot]}
        /\ UNCHANGED <<platform, history, shown, published, connected, minimum, page,
                       mine, losses, pagesRead, excused>>

(* The answer of one attempt: again while it is too old, unless the        *)
(* attempts are used up.  Then the web client gives up, the mobile client  *)
(* fetches the conversation again.                                         *)
SnapshotArrives ==
    \E c \in catching :
        LET wanted == IF platform = "web" THEN minimum ELSE c.minimum
            tooOld == c.answer.version < wanted
            again == tooOld /\ c.attempt < MaxAttempts
        IN  /\ c.answer # Left
            /\ shown' = WithSnapshot(shown, c.answer)
            /\ catching' = (catching \ {c})
                           \cup (IF again THEN {Loop(c.attempt + 1, c.minimum)} ELSE {})
            /\ minimum' = IF again THEN minimum ELSE 0
            /\ excused' = (excused \/ (tooOld /\ ~again))
            /\ page' = IF tooOld /\ ~again /\ platform = "mobile" /\ page = AtRest
                       THEN Left ELSE page
            /\ UNCHANGED <<platform, history, published, connected, mine, losses, pagesRead>>

(* The request fails: the loop ends and forgets its minimum.               *)
SnapshotFails ==
    /\ losses < MaxLosses /\ losses' = losses + 1
    /\ \E c \in catching : catching' = catching \ {c}
    /\ minimum' = 0 /\ excused' = TRUE
    /\ UNCHANGED <<platform, history, shown, published, connected, page, mine, pagesRead>>

-----------------------------------------------------------------------------
(* Pages: the mobile client refetches every 5 seconds.                     *)

AskPage ==
    /\ page = AtRest
    /\ platform = "web" => pagesRead < MaxPagesRead
    /\ page' = Left
    /\ pagesRead' = IF platform = "web" THEN pagesRead + 1 ELSE pagesRead
    /\ UNCHANGED <<platform, history, shown, published, connected, catching, minimum,
                   mine, losses, excused>>

(* attachMessageReactions outside of a transaction: the reactions ...      *)
ReadReactions ==
    /\ page = Left
    /\ page' = [at |-> "half", version |-> Latest, users |-> At(Latest)]
    /\ UNCHANGED <<platform, history, shown, published, connected, catching, minimum,
                   mine, losses, pagesRead, excused>>

(* ... and what is by now their version.                                   *)
ReadVersion ==
    /\ page.at = "half"
    /\ page' = [at |-> "served", version |-> Latest, users |-> page.users,
                doubt |-> IF page.version = Latest THEN {} ELSE Parts]
    /\ UNCHANGED <<platform, history, shown, published, connected, catching, minimum,
                   mine, losses, pagesRead, excused>>

PageArrives ==
    /\ page.at = "served"
    /\ page' = AtRest
    /\ shown' = WithPage(shown, page)
    /\ excused' = (excused \/ shown'.version < shown.version)
    /\ UNCHANGED <<platform, history, published, connected, catching, minimum, mine,
                   losses, pagesRead>>

-----------------------------------------------------------------------------
(* The reader's own change: setMessageReaction and its answer.             *)

SetReaction ==
    /\ mine = AtRest /\ Latest < MaxVersion
    /\ mine' = Left
    /\ UNCHANGED <<platform, history, shown, published, connected, catching, minimum,
                   page, losses, pagesRead, excused>>

ServeReaction ==
    /\ mine = Left /\ Commits(Me)
    /\ mine' = Snapshot'
    /\ UNCHANGED <<platform, shown, connected, catching, minimum, page, losses,
                   pagesRead, excused>>

ReactionArrives ==
    /\ mine \notin {AtRest, Left}
    /\ mine' = AtRest
    /\ shown' = WithSnapshot(shown, mine)
    /\ UNCHANGED <<platform, history, published, connected, catching, minimum, page,
                   losses, pagesRead, excused>>

-----------------------------------------------------------------------------
Disconnect ==
    /\ connected /\ losses < MaxLosses /\ losses' = losses + 1
    /\ connected' = FALSE /\ published' = {}
    /\ UNCHANGED <<platform, history, shown, catching, minimum, page, mine, pagesRead,
                   excused>>

(* Mutant: nothing is fetched after a reconnect.                           *)
Reconnect_NoCatchUp ==
    /\ ~connected /\ connected' = TRUE
    /\ UNCHANGED <<platform, history, shown, published, catching, minimum, page, mine,
                   losses, pagesRead, excused>>

(* system.ready: snapshots of every loaded message.                        *)
Reconnect ==
    /\ ~connected /\ connected' = TRUE
    /\ StartCatchUp(0)
    /\ excused' = (platform = "web" /\ catching # {})
    /\ UNCHANGED <<platform, history, shown, published, minimum, page, mine, losses, pagesRead>>

-----------------------------------------------------------------------------
ReactionsInit ==
    /\ platform \in {"web", "mobile"}
    /\ history = <<{}>> /\ shown = [version |-> 0, users |-> {}, doubt |-> {}]
    /\ published = {} /\ connected = TRUE
    /\ catching = {} /\ minimum = 0
    /\ page = AtRest /\ mine = AtRest
    /\ losses = 0 /\ pagesRead = 0 /\ excused = FALSE

ReactionsNext ==
    \/ OthersReact \/ HandleReactions \/ ServeSnapshot \/ SnapshotArrives
    \/ SnapshotFails \/ AskPage \/ ReadReactions \/ ReadVersion \/ PageArrives
    \/ SetReaction \/ ServeReaction \/ ReactionArrives
    \/ Disconnect \/ Reconnect

ReactionsFairness ==
    /\ WF_mrVars(HandleReactions) /\ WF_mrVars(ServeSnapshot) /\ WF_mrVars(SnapshotArrives)
    /\ WF_mrVars(platform = "mobile" /\ AskPage)
    /\ WF_mrVars(ReadReactions) /\ WF_mrVars(ReadVersion) /\ WF_mrVars(PageArrives)
    /\ WF_mrVars(Reconnect)

ReactionsSpec == ReactionsInit /\ [][ReactionsNext]_mrVars /\ ReactionsFairness

-----------------------------------------------------------------------------
(* What is shown at a version is what the server held at that version, the *)
(* reader's own mark included, however events, snapshots, pages and the    *)
(* reader's own answers were mixed.  Excepted is what rests on a page that *)
(* was read across a change: it is doubtful until an answer read as a      *)
(* whole replaces it.  The next event sets other people's reactions right, *)
(* but of the reader's own mark it only knows what the reader did.         *)
ReactionsExact ==
    /\ shown.version <= Latest
    /\ "others" \in shown.doubt \/ shown.users \ {Me} = At(shown.version) \ {Me}
    /\ "own" \in shown.doubt \/ (Me \in shown.users <=> Me \in At(shown.version))

(* Once nobody reacts any more the client shows the latest reactions,      *)
(* whatever was lost or reordered, the mobile client also after a page     *)
(* that was read across a change.  The web client is excused after such a  *)
(* page, when a catch-up request failed or its attempts were used up, when *)
(* a reconnect found a catch-up under way, and when a page older than what *)
(* was shown replaced it: then only the next event or reconnect repairs it.*)
CaughtUp ==
    \/ shown.version = Latest /\ shown.users = At(Latest)
    \/ platform = "web" /\ (excused \/ shown.doubt # {})

ReactionsCatchUp == <>[]CaughtUp
=============================================================================
