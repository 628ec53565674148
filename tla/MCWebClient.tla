---------------------------- MODULE MCWebClient -----------------------------
(***************************************************************************)
(* The components of the web client whose properties are about what a     *)
(* step may do, on small instances; those that have to converge are in     *)
(* MCClients.  They run side by side in one client and share nothing, so a *)
(* behaviour is one of a single component, the one "part" names, while     *)
(* nothing happens in the others.                                          *)
(***************************************************************************)
EXTENDS WebMessages, WebDrafts, WebVoiceRecording, ProjectTasks, ProjectDocuments

VARIABLE part

(* A folder in a folder, and documents in both places.                     *)
SmallTree == [root |-> <<"product", "plan">>, product |-> <<"design">>,
              design |-> <<"notes">>]

mcVars == <<part, wmVars, wdVars, wvVars, ptVars, pdVars>>

(* The variables of the components that are not explored.                  *)
messagesOff == WebMessagesInit
draftsOff == DraftsInit
voiceOff == VoiceInit
tasksOff ==
    /\ saved = [t \in Tasks |-> Missing] /\ url = NoTask /\ nav = Stay
    /\ filter = "all" /\ loading = FALSE /\ failed = FALSE
    /\ rows = saved /\ fallback = Missing /\ closing = NoTask /\ link = NoTask
    /\ lists = {} /\ dialog = Missing /\ updates = {} /\ turns = 0 /\ shut = NoTask
documentsOff == DocumentsInit

-----------------------------------------------------------------------------
MCInit ==
    \/ /\ part = "messages" /\ WebMessagesInit
       /\ draftsOff /\ voiceOff /\ tasksOff /\ documentsOff
    \/ /\ part = "drafts" /\ DraftsInit
       /\ messagesOff /\ voiceOff /\ tasksOff /\ documentsOff
    \/ /\ part = "voice" /\ VoiceInit
       /\ messagesOff /\ draftsOff /\ tasksOff /\ documentsOff
    \/ /\ part = "tasks" /\ TasksInit
       /\ messagesOff /\ draftsOff /\ voiceOff /\ documentsOff
    \/ /\ part = "documents" /\ DocumentsInit
       /\ messagesOff /\ draftsOff /\ voiceOff /\ tasksOff

MCNext ==
    \/ /\ part = "messages" /\ WebMessagesNext
       /\ UNCHANGED <<part, wdVars, wvVars, ptVars, pdVars>>
    \/ /\ part = "drafts" /\ DraftsNext
       /\ UNCHANGED <<part, wmVars, wvVars, ptVars, pdVars>>
    \/ /\ part = "voice" /\ VoiceNext
       /\ UNCHANGED <<part, wmVars, wdVars, ptVars, pdVars>>
    \/ /\ part = "tasks" /\ TasksNext
       /\ UNCHANGED <<part, wmVars, wdVars, wvVars, pdVars>>
    \/ /\ part = "documents" /\ DocumentsNext
       /\ UNCHANGED <<part, wmVars, wdVars, wvVars, ptVars>>

MCSpec == MCInit /\ [][MCNext]_mcVars

-----------------------------------------------------------------------------
(* The properties of the modules that are extended are theirs: they hold   *)
(* of a component that is idle.                                            *)

(* The variables of the component that is explored have their types; of a  *)
(* window of messages that includes its order (deduplicateMessages).       *)
TypesOK ==
    /\ part = "messages" => WebMessagesTypeOK
    /\ part = "drafts" => DraftsTypeOK
    /\ part = "voice" => VoiceTypeOK
    /\ part = "tasks" => TasksTypeOK
    /\ part = "documents" => DocumentsTypeOK
=============================================================================
