------------------------------ MODULE MCServer -------------------------------
(***************************************************************************)
(* Parts of the server that share no state, on small instances: the cache  *)
(* of application requests, e-mail login codes and task reminders.  A      *)
(* behaviour is one of a single part, the one "part" names.                *)
(***************************************************************************)
EXTENDS RequestCache, LoginCodes, TaskReminders

VARIABLE part

serverVars == <<part, vars, lcVars, trVars>>

(* The variables of the parts that are not explored.                       *)
remindersOff ==
    /\ clock = 0 /\ worker = Asleep /\ reminded = {} /\ repeated = FALSE
    /\ task = [t \in Tasks |-> [present |-> FALSE, open |-> FALSE,
                                assignee |-> NoUser]]
    /\ reminder = [t \in Tasks |-> NoReminder] /\ changes = 0 /\ failures = 0

MCInit ==
    \/ part = "cache" /\ Init /\ CodesInit /\ remindersOff
    \/ part = "codes" /\ CodesInit /\ Init /\ remindersOff
    \/ part = "reminders" /\ RemindersInit /\ Init /\ CodesInit

MCNext ==
    \/ part = "cache" /\ Next /\ UNCHANGED <<part, lcVars, trVars>>
    \/ part = "codes" /\ CodesNext /\ UNCHANGED <<part, vars, trVars>>
    \/ part = "reminders" /\ RemindersNext /\ UNCHANGED <<part, vars, lcVars>>

(* Only the reminders have a property that needs fairness.                 *)
MCFairness ==
    /\ WF_trVars(part = "reminders" /\ WorkerStep)
    /\ \A t \in Tasks : WF_trVars(part = "reminders" /\ DelayEnds(t))

MCSpec == MCInit /\ [][MCNext]_serverVars /\ MCFairness
=============================================================================
