-------------------------- MODULE MCAssistantInbox --------------------------
(* A finite instance of AssistantInbox.  Its constants are given by the     *)
(* configuration; generations and drainers are not declared symmetric,      *)
(* because the same run checks liveness.                                    *)
EXTENDS AssistantInbox
=============================================================================
