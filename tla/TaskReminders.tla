---------------------------- MODULE TaskReminders ----------------------------
(***************************************************************************)
(* Reminders of tasks (task.Service): users set, change, pause and remove  *)
(* them, and one worker sends what is due, in batches.                     *)
(*                                                                         *)
(* A schedule is the set of instants at which it reminds, one for a single *)
(* reminder.  The worker reads the clock, handles one reminder in a        *)
(* transaction that locks the task, and publishes after the commit; a      *)
(* failure is recorded outside of it, and the reminder waits for a delay.  *)
(* Messages have an id made of task, occurrence and recipient.             *)
(***************************************************************************)
EXTENDS Naturals, FiniteSets

CONSTANTS Tasks, Users, NoUser,
          Broken,     \* tasks whose message cannot be built
          Schedules,  \* sets of instants
          Limit,      \* reminders attempted in one batch (50 in the code)
          LongAfter,  \* from so many failures on a delay outlasts a batch
          MaxTime, MaxChanges, MaxFailures  \* bounds

ASSUME RemindersAssumption ==
    /\ NoUser \notin Users /\ Broken \subseteq Tasks /\ Limit \in Nat \ {0}
    /\ MaxTime \in Nat /\ Schedules \subseteq SUBSET (1..MaxTime)
    /\ Users # {} /\ LongAfter \in Nat /\ MaxChanges \in Nat /\ MaxFailures \in Nat

Never == MaxTime + 1  \* next_trigger_at IS NULL: never due
NoTask == "none"

VARIABLES clock,
          task,      \* the row: open, or in a terminal status; assignee
          reminder,  \* its schedule, next_trigger_at, if retry_at is ahead, and
             \* consecutive_failures
          worker,    \* where ProcessDueReminders is
          reminded,  \* reminder messages: task, occurrence, recipient
          repeated,  \* a task and occurrence were given a second message
          changes, failures

trVars == <<clock, task, reminder, worker, reminded, repeated, changes, failures>>

Asleep ==
    [stage |-> "asleep", attempted |-> 0, now |-> 0, id |-> NoTask, due |-> Never]
NoReminder == [schedule |-> {}, next |-> Never, waits |-> FALSE, fails |-> 0]

-----------------------------------------------------------------------------
(* Mutant: an occurrence follows upon itself.                              *)
NextOccurrence_Same(schedule, at) ==
    LET later == {o \in schedule : o >= at}
    IN  IF later = {} THEN Never ELSE CHOOSE o \in later : \A p \in later : o <= p

(* nextReminderOccurrence: the first one after an instant, and             *)
(* latestReminderOccurrence: the last one up to it.                        *)
NextOccurrence(schedule, at) ==
    LET later == {o \in schedule : o > at}
    IN  IF later = {} THEN Never ELSE CHOOSE o \in later : \A p \in later : o <= p
LatestOccurrence(schedule, at, due) ==
    LET earlier == {o \in schedule : due <= o /\ o <= at}
    IN  IF earlier = {} THEN due
        ELSE CHOOSE o \in earlier : \A p \in earlier : p <= o

Due(t, now) == reminder[t].next <= now /\ ~reminder[t].waits

-----------------------------------------------------------------------------
(* Users; each is one transaction that locks the task.                     *)
Change == changes < MaxChanges /\ changes' = changes + 1

(* Update with a reminder: an equal one is kept as it is, another starts   *)
(* from now (applyReminderMutation, normalizeReminder).                    *)
SetReminder(t, schedule) ==
    /\ Change /\ task[t].present
    /\ schedule # reminder[t].schedule
    /\ NextOccurrence(schedule, clock) # Never
    /\ reminder' = [reminder EXCEPT ![t] =
           [schedule |-> schedule, waits |-> FALSE, fails |-> 0,
            next |-> IF task[t].open THEN NextOccurrence(schedule, clock)
                     ELSE Never]]
    /\ UNCHANGED <<clock, task, worker, reminded, repeated, failures>>

RemoveReminder(t) ==
    /\ Change /\ reminder[t] # NoReminder
    /\ reminder' = [reminder EXCEPT ![t] = NoReminder]
    /\ UNCHANGED <<clock, task, worker, reminded, repeated, failures>>

(* applyReminderStatusTransition: a closed task has no next occurrence, a  *)
(* task that is opened again the next one from now.                        *)
SetStatus(t) ==
    /\ Change /\ task[t].present
    /\ task' = [task EXCEPT ![t].open = ~@]
    /\ LET next == IF task[t].open THEN Never
                   ELSE NextOccurrence(reminder[t].schedule, clock)
       IN  reminder' = IF reminder[t].next = next THEN reminder
                       ELSE [reminder EXCEPT ![t].next = next, ![t].waits = FALSE,
                                             ![t].fails = 0]
    /\ UNCHANGED <<clock, worker, reminded, repeated, failures>>

Assign(t, u) ==
    /\ Change /\ task[t].present /\ task[t].assignee # u
    /\ task' = [task EXCEPT ![t].assignee = u]
    /\ UNCHANGED <<clock, reminder, worker, reminded, repeated, failures>>

DeleteTask(t) ==
    /\ Change /\ task[t].present
    /\ task' = [task EXCEPT ![t].present = FALSE]
    /\ reminder' = [reminder EXCEPT ![t] = NoReminder]
    /\ UNCHANGED <<clock, worker, reminded, repeated, failures>>

(* A user's transaction has locked what is due, or has moved it since the  *)
(* query found it: the batch ends.  (Next to another one that is due, it   *)
(* would be handled later.)                                                *)
SkipLocked ==
    /\ worker.stage = "look" /\ Change
    /\ worker' = Asleep
    /\ UNCHANGED <<clock, task, reminder, reminded, repeated, failures>>

-----------------------------------------------------------------------------
(* RunReminderWorker: the ticker starts a batch.                           *)
Tick ==
    /\ worker = Asleep /\ worker' = [Asleep EXCEPT !.stage = "batch"]
    /\ UNCHANGED <<clock, task, reminder, reminded, repeated, changes, failures>>

(* processNextDueReminder reads the clock before its transaction.          *)
ReadClock ==
    /\ worker.stage = "batch"
    /\ worker' = IF worker.attempted = Limit THEN Asleep
                 ELSE [worker EXCEPT !.stage = "look", !.attempted = @ + 1,
                                     !.now = clock]
    /\ UNCHANGED <<clock, task, reminder, reminded, repeated, changes, failures>>

(* The earliest reminder that is due; without one the batch ends.          *)
Earliest(t) ==
    /\ Due(t, worker.now)
    /\ \A s \in Tasks : Due(s, worker.now) => reminder[t].next <= reminder[s].next
NothingDue ==
    /\ worker.stage = "look" /\ \A t \in Tasks : ~Due(t, worker.now)
    /\ worker' = Asleep
    /\ UNCHANGED <<clock, task, reminder, reminded, repeated, changes, failures>>

(* PrepareTaskReminderNotification: one message per recipient and          *)
(* occurrence.                                                             *)
Message(t) ==
    {[id |-> t, to |-> task[t].assignee,
      at |-> LatestOccurrence(reminder[t].schedule, worker.now, reminder[t].next)]}
Remind(t) ==
    IF task[t].open /\ task[t].assignee # NoUser
    THEN /\ reminded' = reminded \cup Message(t)
         /\ repeated' = (repeated \/ \E m \in reminded, n \in Message(t) :
                                       m # n /\ m.id = n.id /\ m.at = n.at)
    ELSE UNCHANGED <<reminded, repeated>>

(* The transaction: the message and the next occurrence.  The answer to    *)
(* the commit may be lost.                                                 *)
Handle(t) ==
    /\ worker.stage = "look" /\ Earliest(t)
    /\ t \in Broken => ~task[t].open \/ task[t].assignee = NoUser
    /\ Remind(t)
    /\ reminder' = [reminder EXCEPT
           ![t].next = IF task[t].open
                       THEN NextOccurrence(reminder[t].schedule, worker.now)
                       ELSE Never,
           ![t].waits = FALSE, ![t].fails = 0]
    /\ \/ worker' = [worker EXCEPT !.stage = "batch"] /\ UNCHANGED failures
       \/ /\ failures < MaxFailures /\ failures' = failures + 1
          /\ worker' = [worker EXCEPT !.stage = "failed", !.id = t,
                                       !.due = reminder[t].next]
    /\ UNCHANGED <<clock, task, changes>>

HandleFails(t) ==
    /\ worker.stage = "look" /\ Earliest(t)
    /\ \/ /\ t \in Broken /\ task[t].open /\ task[t].assignee # NoUser
          /\ UNCHANGED failures
       \/ failures < MaxFailures /\ failures' = failures + 1
    /\ worker' = [worker EXCEPT !.stage = "failed", !.id = t,
                                 !.due = reminder[t].next]
    /\ UNCHANGED <<clock, task, reminder, reminded, repeated, changes>>

(* Mutant: the failure leaves the reminder due.                            *)
RecordFailure_NoDelay ==
    /\ worker.stage = "failed"
    /\ worker' = [worker EXCEPT !.stage = "batch", !.id = NoTask, !.due = Never]
    /\ UNCHANGED <<clock, task, reminder, reminded, repeated, changes, failures>>

(* recordReminderFailure, unless the reminder has moved meanwhile.         *)
RecordFailure ==
    /\ worker.stage = "failed"
    /\ worker' = [worker EXCEPT !.stage = "batch", !.id = NoTask, !.due = Never]
    /\ reminder' = IF reminder[worker.id].next # worker.due THEN reminder
                   ELSE [reminder EXCEPT ![worker.id].waits = TRUE,
                            ![worker.id].fails = IF @ = LongAfter THEN @ ELSE @ + 1]
    /\ UNCHANGED <<clock, task, reminded, repeated, changes, failures>>

(* The failure cannot be recorded, or the process ends and another starts. *)
WorkerFails ==
    /\ failures < MaxFailures /\ failures' = failures + 1
    /\ \/ /\ worker.stage = "failed"
          /\ worker' = [worker EXCEPT !.stage = "batch", !.id = NoTask, !.due = Never]
       \/ worker # Asleep /\ worker' = Asleep
    /\ UNCHANGED <<clock, task, reminder, reminded, repeated, changes>>

(* Time passes; retry_at is reached, a second after a first failure and    *)
(* up to minutes later after many (time.Second << failures).               *)
TimePasses ==
    /\ clock < MaxTime /\ clock' = clock + 1
    /\ UNCHANGED <<task, reminder, worker, reminded, repeated, changes, failures>>
DelayEnds(t) ==
    /\ reminder[t].waits
    /\ reminder[t].fails = LongAfter => worker = Asleep
    /\ reminder' = [reminder EXCEPT ![t].waits = FALSE]
    /\ UNCHANGED <<clock, task, worker, reminded, repeated, changes, failures>>

-----------------------------------------------------------------------------
RemindersInit ==
    /\ clock = 0
    /\ task = [t \in Tasks |-> [present |-> TRUE, open |-> TRUE,
                                assignee |-> CHOOSE u \in Users : TRUE]]
    /\ reminder \in [Tasks -> {[schedule |-> s, next |-> NextOccurrence(s, 0),
                                waits |-> FALSE, fails |-> 0] : s \in Schedules}]
    /\ worker = Asleep /\ reminded = {} /\ repeated = FALSE
    /\ changes = 0 /\ failures = 0

UserStep ==
    \/ SkipLocked
    \/ \E t \in Tasks :
        \/ RemoveReminder(t) \/ SetStatus(t) \/ DeleteTask(t)
        \/ \E s \in Schedules : SetReminder(t, s)
        \/ \E u \in Users \cup {NoUser} : Assign(t, u)

WorkerStep ==
    \/ Tick \/ ReadClock \/ NothingDue \/ RecordFailure
    \/ \E t \in Tasks : Handle(t) \/ HandleFails(t)

RemindersNext ==
    \/ UserStep \/ WorkerStep \/ WorkerFails \/ TimePasses
    \/ \E t \in Tasks : DelayEnds(t)

RemindersSpec ==
    /\ RemindersInit /\ [][RemindersNext]_trVars /\ WF_trVars(WorkerStep)
    /\ \A t \in Tasks : WF_trVars(DelayEnds(t))

-----------------------------------------------------------------------------
(* The variables have their types.                                         *)
RemindersTypeOK ==
    /\ clock \in 0..MaxTime
    /\ task \in [Tasks -> [present : BOOLEAN, open : BOOLEAN,
                           assignee : Users \cup {NoUser}]]
    /\ reminder \in [Tasks -> [schedule : Schedules \cup {{}}, next : 1..Never,
                               waits : BOOLEAN, fails : 0..LongAfter]]
    /\ worker \in [stage : {"asleep", "batch", "look", "failed"}, attempted : 0..Limit,
                   now : 0..MaxTime, id : Tasks \cup {NoTask}, due : 1..Never]
    /\ reminded \subseteq [id : Tasks, at : 1..MaxTime, to : Users]
    /\ repeated \in BOOLEAN
    /\ changes \in 0..MaxChanges /\ failures \in 0..MaxFailures

(* An occurrence is announced to one person, although schedules, status    *)
(* and assignee change, commits are taken for failures and the worker is   *)
(* restarted; and never early.                                             *)
RemindedOnce == ~repeated /\ \A m \in reminded : m.at <= clock

(* What is due is handled, even next to a reminder that fails each time.   *)
NoReminderStuck(t) == [](reminder[t].next <= clock => <>(reminder[t].next > clock))
RemindersHandled == \A t \in Tasks \ Broken : NoReminderStuck(t)
=============================================================================
