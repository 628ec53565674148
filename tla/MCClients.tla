------------------------------ MODULE MCClients -------------------------------
(***************************************************************************)
(* On small instances: the components of the mobile client, the two that   *)
(* are one module for both clients, and the web client's list, which has   *)
(* to converge as theirs do.  As in MCWebClient a behaviour is one of the  *)
(* component that "part" names; the properties of the modules that are     *)
(* extended are theirs.  Variables that two modules call by one name are   *)
(* one variable here.                                                      *)
(***************************************************************************)
EXTENDS ClientRealtime, MessageReactions, MobileMessages, ResourceCache,
        MobileVoiceRecording

CONSTANTS a1, a2, here    \* two resources of one server
OnlyServer(r) == here
SmallSize(r) == IF r = a1 THEN 1 ELSE 2

VARIABLES part,
          server, row, changes,                                    \* both lists
          open, asked, answers,                                    \* web
          focused, seen, requested, confirmed, reads, change       \* mobile

WL == INSTANCE WebConversationList WITH
        MaxWrites <- 1, MaxChanges <- 1, MaxInFlight <- 1, MaxLosses <- 1
ML == INSTANCE MobileConversationList WITH
        MaxWrites <- 1, MaxChanges <- 1, MaxLosses <- 1, MaxReads <- 2

(* Without what several components have: events, connected, online, fetch, *)
(* losses and the variables of both lists.                                 *)
webListVars == <<open, asked, answers>>
mobileListVars == <<focused, seen, requested, confirmed, reads, change>>
listVars == <<server, row, changes>>
reactionsVars == <<platform, history, shown, published, catching, minimum, page,
                   mine, pagesRead, excused>>
messagesVars == <<log, screen, pages, stale, syncs, catchUp, own, visits, mishaps>>
resourcesVars == <<files, index, stored, jobs, writing, task, removal, stray,
                   faults>>
queryVars == <<online, fetch>>
mcVars == <<part, events, connected, losses, queryVars, listVars, webListVars,
            mobileListVars, rtVars, reactionsVars, messagesVars, resourcesVars,
            mvVars>>

(* The variables of the components that are not explored.                  *)
realtimeOff ==
    /\ client = "web" /\ mounted = FALSE /\ session = TRUE
    /\ socket = NoSocket /\ phase = [s \in SocketIds |-> "none"]
    /\ shouldReconnect = FALSE /\ timers = 0 /\ sequence = 0 /\ checks = {}
    /\ ready = FALSE /\ status = "disconnected" /\ pending = {} /\ calls = 0
    /\ unauthorized = FALSE
reactionsOff ==
    /\ platform = "web" /\ history = <<{}>>
    /\ shown = [version |-> 0, users |-> {}, doubt |-> {}]
    /\ published = {} /\ catching = {} /\ minimum = 0
    /\ page = AtRest /\ mine = AtRest /\ pagesRead = 0 /\ excused = FALSE
listOff == server = "off" /\ row = "off" /\ changes = "off"
webListOff == open = "off" /\ asked = "off" /\ answers = "off"
mobileListOff ==
    /\ focused = "off" /\ seen = "off" /\ requested = "off"
    /\ confirmed = "off" /\ reads = "off" /\ change = "off"
messagesOff ==
    /\ log = [last |-> First, revoked |-> {}] /\ screen = FALSE /\ pages = <<>>
    /\ stale = FALSE /\ syncs = 0 /\ catchUp = Idle /\ own = Idle
    /\ visits = 0 /\ mishaps = 0
resourcesOff ==
    /\ files = {} /\ index = {} /\ stored = {} /\ jobs = <<>> /\ writing = FALSE
    /\ task = [r \in Resources |-> "none"] /\ removal = NoRemoval /\ stray = {}
    /\ faults = 0
voiceOff == MobileVoiceInit
queryOff == online = TRUE /\ fetch = Idle
connectedOff == connected = TRUE
quiet == events = {} /\ losses = 0

-----------------------------------------------------------------------------
MCInit ==
    \/ /\ part = "realtime" /\ RealtimeInit /\ quiet /\ connectedOff /\ queryOff
       /\ reactionsOff /\ listOff /\ webListOff /\ mobileListOff /\ messagesOff
       /\ resourcesOff /\ voiceOff
    \/ /\ part = "reactions" /\ ReactionsInit /\ events = {} /\ queryOff
       /\ realtimeOff /\ listOff /\ webListOff /\ mobileListOff /\ messagesOff
       /\ resourcesOff /\ voiceOff
    \/ /\ part = "web list" /\ WL!WebListInit /\ queryOff
       /\ realtimeOff /\ reactionsOff /\ mobileListOff /\ messagesOff
       /\ resourcesOff /\ voiceOff
    \/ /\ part = "list" /\ ML!MobileListInit /\ connectedOff
       /\ realtimeOff /\ reactionsOff /\ webListOff /\ messagesOff
       /\ resourcesOff /\ voiceOff
    \/ /\ part = "messages" /\ MobileMessagesInit /\ connectedOff /\ losses = 0
       /\ realtimeOff /\ reactionsOff /\ listOff /\ webListOff /\ mobileListOff
       /\ resourcesOff /\ voiceOff
    \/ /\ part = "resources" /\ ResourceInit /\ quiet /\ connectedOff /\ queryOff
       /\ realtimeOff /\ reactionsOff /\ listOff /\ webListOff /\ mobileListOff
       /\ messagesOff /\ voiceOff
    \/ /\ part = "voice" /\ MobileVoiceInit /\ quiet /\ connectedOff /\ queryOff
       /\ realtimeOff /\ reactionsOff /\ listOff /\ webListOff /\ mobileListOff
       /\ messagesOff /\ resourcesOff

MCNext ==
    \/ /\ part = "realtime" /\ RealtimeNext
       /\ UNCHANGED <<part, events, connected, losses, queryVars, listVars, webListVars,
                      mobileListVars, reactionsVars, messagesVars, resourcesVars, mvVars>>
    \/ /\ part = "reactions" /\ ReactionsNext
       /\ UNCHANGED <<part, events, queryVars, listVars, webListVars, mobileListVars,
                      rtVars, messagesVars, resourcesVars, mvVars>>
    \/ /\ part = "web list" /\ WL!WebListNext
       /\ UNCHANGED <<part, queryVars, mobileListVars, rtVars, reactionsVars,
                      messagesVars, resourcesVars, mvVars>>
    \/ /\ part = "list" /\ ML!MobileListNext
       /\ UNCHANGED <<part, connected, webListVars, rtVars, reactionsVars,
                      messagesVars, resourcesVars, mvVars>>
    \/ /\ part = "messages" /\ MobileMessagesNext
       /\ UNCHANGED <<part, connected, losses, listVars, webListVars, mobileListVars,
                      rtVars, reactionsVars, resourcesVars, mvVars>>
    \/ /\ part = "resources" /\ ResourceNext
       /\ UNCHANGED <<part, events, connected, losses, queryVars, listVars, webListVars,
                      mobileListVars, rtVars, reactionsVars, messagesVars, mvVars>>
    \/ /\ part = "voice" /\ MobileVoiceNext
       /\ UNCHANGED <<part, events, connected, losses, queryVars, listVars, webListVars,
                      mobileListVars, rtVars, reactionsVars, messagesVars, resourcesVars>>

-----------------------------------------------------------------------------
(* The fairness of the component that is explored; no step of RealtimeNext *)
(* is possible in an unmounted client without a socket.                    *)
ReactionsFair ==
    /\ WF_mrVars(part = "reactions" /\ HandleReactions)
    /\ WF_mrVars(part = "reactions" /\ ServeSnapshot)
    /\ WF_mrVars(part = "reactions" /\ SnapshotArrives)
    /\ WF_mrVars(part = "reactions" /\ platform = "mobile" /\ AskPage)
    /\ WF_mrVars(part = "reactions" /\ ReadReactions)
    /\ WF_mrVars(part = "reactions" /\ ReadVersion)
    /\ WF_mrVars(part = "reactions" /\ PageArrives)
    /\ WF_mrVars(part = "reactions" /\ Reconnect)

WebListFair ==
    /\ WF_(WL!wlVars)(part = "web list" /\ WL!RefreshConversations)
    /\ WF_(WL!wlVars)(part = "web list" /\ WL!Serve("list"))
    /\ WF_(WL!wlVars)(part = "web list" /\ WL!Serve("read"))
    /\ WF_(WL!wlVars)(part = "web list" /\ WL!ServeOther)
    /\ WF_(WL!wlVars)(part = "web list" /\ WL!HandleAnswerTo({"list"}))
    /\ WF_(WL!wlVars)(part = "web list" /\ WL!HandleAnswerTo({"read"}))
    /\ WF_(WL!wlVars)(part = "web list" /\ WL!HandleAnswerTo(WL!OtherRequests))
    /\ WF_(WL!wlVars)(part = "web list" /\ WL!HandleEvent)

MobileListFair ==
    /\ WF_(ML!mlVars)(part = "list" /\ ML!Poll)
    /\ WF_(ML!mlVars)(part = "list" /\ ML!ServeFetch)
    /\ WF_(ML!mlVars)(part = "list" /\ ML!FetchEnds)
    /\ WF_(ML!mlVars)(part = "list" /\ ML!HandleEvent)
    /\ WF_(ML!mlVars)(part = "list" /\ ML!SeeMessages)
    /\ WF_(ML!mlVars)(part = "list" /\ ML!MarkLatestRead)
    /\ WF_(ML!mlVars)(part = "list" /\ ML!ServeRead)
    /\ WF_(ML!mlVars)(part = "list" /\ ML!ReadArrives)
    /\ WF_(ML!mlVars)(part = "list" /\ ML!ServeChange)
    /\ WF_(ML!mlVars)(part = "list" /\ ML!ChangeArrives)

MessagesFair ==
    /\ WF_(mmVars)(part = "messages" /\ Poll)
    /\ WF_(mmVars)(part = "messages" /\ FetchPage)
    /\ WF_(mmVars)(part = "messages" /\ FetchEnds)
    /\ WF_(mmVars)(part = "messages" /\ HandleEvent)
    /\ WF_(mmVars)(part = "messages" /\ StartSync)
    /\ WF_(mmVars)(part = "messages" /\ ServeCatchUp)
    /\ WF_(mmVars)(part = "messages" /\ CatchUpArrives)
    /\ WF_(mmVars)(part = "messages" /\ ServeOwn)
    /\ WF_(mmVars)(part = "messages" /\ OwnArrives)

MCSpec ==
    /\ MCInit /\ [][MCNext]_mcVars
    /\ RealtimeFairness /\ ReactionsFair /\ WebListFair /\ MobileListFair /\ MessagesFair

-----------------------------------------------------------------------------
(* The variables of the component that is explored have their types, and   *)
(* the badge of the web list counts no message twice (BadgeCountsOnce).    *)
TypesOK ==
    /\ part = "realtime" => RealtimeTypeOK
    /\ part = "reactions" => ReactionsTypeOK
    /\ part = "web list" => WL!WebListTypeOK
    /\ part = "list" => ML!MobileListTypeOK
    /\ part = "messages" => MobileMessagesTypeOK
    /\ part = "resources" => ResourceTypeOK
    /\ part = "voice" => MobileVoiceTypeOK

(* Once nothing changes, the row of the web client's list is the server's  *)
(* (ClientDataProvider).                                                   *)
RowConverges == <>[](part = "web list" => WL!RowRight)

(* Once nothing changes, the row of the mobile client's list is the        *)
(* server's (conversation-hooks.ts).                                       *)
MobileRowConverges == <>[](part = "list" => ML!RowRight)

(* A conversation that stays on screen is read on the server up to its     *)
(* newest message (ConversationScreen, useMarkConversationRead).           *)
ReadReported ==
    <>[](part = "list" /\ focused) => <>[](part = "list" => ML!AllRead)
=============================================================================
