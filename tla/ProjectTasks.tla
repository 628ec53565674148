----------------------------- MODULE ProjectTasks -----------------------------
(***************************************************************************)
(* The tasks of a project in the web client (ProjectTasksTab): the list    *)
(* with its filter, the board on which a task is dragged to another        *)
(* status, the small dialogs that change one field, and the dialog with    *)
(* all fields, which the address of the page opens and closes.             *)
(*                                                                         *)
(* A form and its baseline are filled from several sources, requests       *)
(* overtake each other, the address follows a render later, and other      *)
(* people change the same tasks.  A task is reduced to two fields; of the  *)
(* filters only one on the status is kept.                                 *)
(***************************************************************************)
EXTENDS Naturals, FiniteSets

CONSTANTS Tasks, NoTask,
          Missing,       \* no row, no dialog, no answer
          StoredAtFirst, \* sets of tasks, one of which exists at first
          MaxVersions,   \* bound: versions of all stored tasks together
          MaxTurns,      \* bound: updates and deletions the user sends, navigations,
                         \* changes of the filter, and requests that fail
          MaxUpdates,    \* bound: updates and deletions under way at once
          MaxLists       \* bound: requests for the list under way at once

Fields == {"status", "title"}
Value == {0, 1}
Filters == {"all", "open"}

VARIABLES
    saved,     \* the tasks of the server: fields and updated_at
    url,       \* the task named by the address
    nav,       \* the address that was set and is not rendered yet
    filter,    \* appliedFilters
    loading,   \* the list of a new filter is awaited
    failed,    \* an error is shown in place of the list
    rows,      \* tasks, by id
    fallback,  \* fallbackActiveTask; isRow: it is the object in tasks
    closing,   \* closingTaskIdRef
    link,      \* a task of the address that is not listed is loaded
    lists,     \* requests for the list
    dialog,    \* ProjectTaskDetailsDialog
    updates,   \* updates and deletions under way
    turns,     \* how many of them there were
    shut       \* the task closed last, until the user opens a task or navigates

ptVars == <<saved, url, nav, filter, loading, failed, rows, fallback, closing,
            link, lists, dialog, updates, turns, shut>>

Contents == [Fields -> Value]
Task == [id : Tasks, fields : Contents, updatedAt : 1..MaxVersions]
Stay == "stay"        \* no pending address

Turn == turns < MaxTurns /\ turns' = turns + 1

-----------------------------------------------------------------------------
(* The server (Service.Update, Service.Get, Service.List).                 *)
StoredVersions ==
    Cardinality({e \in Tasks \X (1..MaxVersions) :
                    saved[e[1]] # Missing /\ e[2] <= saved[e[1]].updatedAt})
Read(t) == [id |-> t, fields |-> saved[t].fields, updatedAt |-> saved[t].updatedAt]
Patched(t, patch) ==
    LET new == [f \in Fields |-> IF f \in DOMAIN patch THEN patch[f]
                                 ELSE saved[t].fields[f]]
    IN  IF new = saved[t].fields THEN saved[t]
        ELSE [fields |-> new, updatedAt |-> saved[t].updatedAt + 1]
Listed(flt) ==
    [t \in Tasks |-> IF saved[t] # Missing
                        /\ (flt = "open" => saved[t].fields["status"] = 0)
                     THEN Read(t) ELSE Missing]

-----------------------------------------------------------------------------
(* The task of the dialog, activeTask: the row, else the fallback.         *)
ActiveTask(u, r, fb) ==
    IF u = NoTask THEN Missing
    ELSE IF r[u] # Missing THEN r[u]
    ELSE IF fb # Missing /\ fb.task.id = u THEN fb.task ELSE Missing

(* Mutant: what was loaded is shown, but not what it is compared with.     *)
Filled_KeepBaseline(d, contents) ==
    [d EXCEPT !.form = contents, !.touched = {}]

(* createTaskEditForm and its normalized copy, the baseline.  touched are  *)
(* the fields the user has changed since.                                  *)
Filled(d, contents) ==
    [d EXCEPT !.form = contents, !.baseline = contents, !.touched = {}]

NewDialog(task) ==
    [id |-> task.id, updatedAt |-> task.updatedAt, form |-> task.fields,
     baseline |-> task.fields, loading |-> TRUE, load |-> "asked",
     loaded |-> <<>>, busy |-> "no", touched |-> {}]

(* The dialog after a render: another task or version is another instance  *)
(* (its key), and another object of the same version is loaded again.      *)
DialogShown(d, task, renewed) ==
    IF task = Missing THEN Missing
    ELSE IF d = Missing \/ d.id # task.id \/ d.updatedAt # task.updatedAt
    THEN NewDialog(task)
    ELSE IF renewed THEN [d EXCEPT !.load = "asked", !.loaded = <<>>] ELSE d

(* The effect of the address: a task that is neither listed nor known is   *)
(* loaded, unless its dialog is being closed.                              *)
Unlisted(u, r, ld, fb) ==
    u # NoTask /\ ~ld /\ ActiveTask(u, r, fb) = Missing

(* What a render does after the steps below, which leave the closing ref   *)
(* c and the dialog d.                                                     *)
Render(c, d, renewed) ==
    /\ closing' = IF c = url' THEN c ELSE NoTask
    /\ link' = IF c # url' /\ Unlisted(url', rows', loading', fallback')
               THEN url' ELSE NoTask
    /\ dialog' = DialogShown(d, ActiveTask(url', rows', fallback'), renewed)

(* The view with the tasks is gone: its board and its dialogs forget what  *)
(* they wait for.                                                          *)
Forgotten(requests) == {[r EXCEPT !.seen = FALSE] : r \in requests}

NoModal ==
    /\ dialog = Missing
    /\ \A c \in updates : c.kind = "field" /\ c.seen => rows[c.id] = Missing
ViewShown == ~loading /\ ~failed

ListRequest(by, flt, seen) ==
    [by |-> by, filter |-> flt, seen |-> seen, rows |-> Missing]

-----------------------------------------------------------------------------
(* applyFilters and the effect that lists the tasks of the filter.         *)
ApplyFilters(flt) ==
    /\ NoModal /\ Turn
    /\ filter' = flt /\ loading' = TRUE /\ failed' = FALSE
    /\ lists' = Forgotten({l \in lists : l.by # "filter"})
                \cup {ListRequest("filter", flt, TRUE)}
    /\ updates' = Forgotten(updates)
    /\ UNCHANGED <<saved, url, nav, rows, fallback, shut>>
    /\ Render(closing, dialog, FALSE)

(* The pages of the list are read; they arrive later.                      *)
ServeList(l) ==
    /\ l.rows = Missing
    /\ lists' = (lists \ {l}) \cup {[l EXCEPT !.rows = Listed(l.filter)]}
    /\ UNCHANGED <<saved, url, nav, filter, loading, failed, rows, fallback,
                   closing, link, dialog, updates, turns, shut>>

(* The dialog that saved waits for the list before it can be used again.   *)
Released(d, l) ==
    IF l.by = "save" /\ d # Missing /\ d.busy = "saving"
    THEN [d EXCEPT !.busy = "no"] ELSE d

ListArrives(l) ==
    /\ l.rows # Missing
    /\ lists' = lists \ {l} /\ rows' = l.rows
    /\ loading' = (loading /\ l.by # "filter")
    /\ failed' = (failed /\ l.by = "filter")
    /\ fallback' = IF fallback = Missing THEN Missing
                   ELSE [fallback EXCEPT !.isRow = FALSE]
    /\ UNCHANGED <<saved, url, nav, filter, updates, turns, shut>>
    /\ Render(closing, Released(dialog, l),
              url # NoTask /\ (l.rows[url] # Missing \/
                                 (rows[url] # Missing /\ fallback # Missing
                                    /\ ~fallback.isRow)))

ListFails(l) ==
    /\ Turn
    /\ failed' = TRUE /\ loading' = (loading /\ l.by # "filter")
    /\ lists' = Forgotten(lists \ {l}) /\ updates' = Forgotten(updates)
    /\ UNCHANGED <<saved, url, nav, filter, rows, fallback, shut>>
    /\ Render(closing, Released(dialog, l), FALSE)

(* The button under the error, and what follows an update (refreshTasks):  *)
(* the filter is that of the render which started it.                      *)
Retry ==
    /\ failed /\ ~loading /\ NoModal
    /\ Cardinality(lists) < MaxLists
    /\ lists' = lists \cup {ListRequest("retry", filter, TRUE)}
    /\ UNCHANGED <<saved, url, nav, filter, loading, failed, rows, fallback,
                   closing, link, dialog, updates, turns, shut>>

-----------------------------------------------------------------------------
(* handleOpenTask.                                                         *)
OpenTask(t) ==
    /\ ViewShown /\ NoModal /\ rows[t] # Missing
    /\ fallback' = [task |-> rows[t], isRow |-> TRUE] /\ nav' = t
    /\ shut' = NoTask
    /\ UNCHANGED <<saved, url, filter, loading, failed, rows, lists, updates,
                   turns>>
    /\ Render(NoTask, dialog, FALSE)

(* The address that was set is rendered.                                   *)
Navigated ==
    /\ nav # Stay
    /\ url' = nav /\ nav' = Stay
    /\ UNCHANGED <<saved, filter, loading, failed, rows, fallback, lists,
                   updates, turns, shut>>
    /\ Render(closing, dialog, FALSE)

(* The user goes back or forward, or follows a link to a task.             *)
Navigate(u) ==
    /\ Turn
    /\ url' = u /\ nav' = Stay
    /\ shut' = NoTask
    /\ UNCHANGED <<saved, filter, loading, failed, rows, fallback, lists,
                   updates>>
    /\ Render(closing, dialog, FALSE)

LinkArrives ==
    /\ link # NoTask /\ saved[link] # Missing
    /\ fallback' = [task |-> Read(link), isRow |-> FALSE]
    /\ UNCHANGED <<saved, url, nav, filter, loading, failed, rows, lists,
                   updates, turns, shut>>
    /\ Render(closing, dialog, FALSE)

LinkFails ==
    /\ link # NoTask
    /\ \/ saved[link] = Missing /\ UNCHANGED turns
       \/ Turn
    /\ fallback' = Missing /\ nav' = NoTask
    /\ UNCHANGED <<saved, url, filter, loading, failed, rows, lists, updates,
                   shut>>
    /\ Render(link, dialog, FALSE)

(* Mutant: the dialog that closes is not remembered.                       *)
CloseTask_Forget(u, d) ==
    /\ fallback' = Missing /\ nav' = NoTask /\ shut' = u
    /\ Render(closing, d, FALSE)

(* handleCloseTask, in the render whose address was u.                     *)
CloseTask(u, d) ==
    /\ fallback' = Missing /\ nav' = NoTask /\ shut' = u
    /\ Render(u, d, FALSE)

-----------------------------------------------------------------------------
(* The details of the task are read, and arrive, or do not.                *)
ServeLoad ==
    /\ dialog # Missing /\ dialog.load = "asked" /\ saved[dialog.id] # Missing
    /\ dialog' = [dialog EXCEPT !.load = "served",
                                 !.loaded = saved[dialog.id].fields]
    /\ UNCHANGED <<saved, url, nav, filter, loading, failed, rows, fallback,
                   closing, link, lists, updates, turns, shut>>

LoadArrives ==
    /\ dialog # Missing /\ dialog.load = "served"
    /\ dialog' = [Filled(dialog, dialog.loaded)
                    EXCEPT !.load = "no", !.loaded = <<>>, !.loading = FALSE]
    /\ UNCHANGED <<saved, url, nav, filter, loading, failed, rows, fallback,
                   closing, link, lists, updates, turns, shut>>

LoadFails ==
    /\ dialog # Missing /\ dialog.load # "no"
    /\ \/ dialog.load = "asked" /\ saved[dialog.id] = Missing /\ UNCHANGED turns
       \/ Turn
    /\ dialog' = [dialog EXCEPT !.load = "no", !.loaded = <<>>, !.loading = FALSE]
    /\ UNCHANGED <<saved, url, nav, filter, loading, failed, rows, fallback,
                   closing, link, lists, updates, shut>>

DialogUsable == dialog # Missing /\ dialog.busy = "no"

(* updateForm; a field is edited once after the form was filled.           *)
UpdateForm(f, v) ==
    /\ DialogUsable /\ ~dialog.loading /\ f \notin dialog.touched /\ dialog.form[f] # v
    /\ dialog' = [dialog EXCEPT !.form[f] = v, !.touched = @ \cup {f}]
    /\ UNCHANGED <<saved, url, nav, filter, loading, failed, rows, fallback,
                   closing, link, lists, updates, turns, shut>>

(* createTaskEditPatch.                                                    *)
Patch(d) == [f \in {f \in Fields : d.form[f] # d.baseline[f]} |-> d.form[f]]

(* An update or a deletion is sent.  touched is what the user meant to     *)
(* change, seen whether the component that sent it is still there.         *)
Call(kind, t, patch, touched, before) ==
    [kind |-> kind, id |-> t, patch |-> patch, touched |-> touched,
     before |-> before, filter |-> filter, url |-> url, seen |-> TRUE,
     answer |-> "none", fields |-> <<>>]
SendCall(c) == Turn /\ Cardinality(updates) < MaxUpdates /\ updates' = updates \cup {c}

Submit ==
    /\ DialogUsable /\ ~dialog.loading /\ dialog.form # dialog.baseline
    /\ SendCall(Call("save", dialog.id, Patch(dialog), dialog.touched, 0))
    /\ dialog' = [dialog EXCEPT !.busy = "saving"]
    /\ UNCHANGED <<saved, url, nav, filter, loading, failed, rows, fallback,
                   closing, link, lists, shut>>

Delete ==
    /\ DialogUsable /\ ~dialog.loading
    /\ SendCall(Call("delete", dialog.id, [f \in {} |-> 0], {}, 0))
    /\ dialog' = [dialog EXCEPT !.busy = "deleting"]
    /\ UNCHANGED <<saved, url, nav, filter, loading, failed, rows, fallback,
                   closing, link, lists, shut>>

(* handleOpenChange(false): what was not saved is forgotten.               *)
Close ==
    /\ DialogUsable
    /\ UNCHANGED <<saved, url, filter, loading, failed, rows, lists, updates,
                   turns>>
    /\ CloseTask(url, [Filled(dialog, dialog.baseline) EXCEPT !.loading = TRUE])

(* handleDragEnd: the row shows the new status at once; one task at a time *)
(* is dragged on a board.                                                  *)
Drag(t) ==
    /\ ViewShown /\ NoModal /\ rows[t] # Missing
    /\ \A c \in updates : ~(c.kind = "drag" /\ c.seen)
    /\ \A l \in lists : ~(l.by = "drag" /\ l.seen)
    /\ LET old == rows[t].fields["status"]
       IN  /\ SendCall(Call("drag", t, [f \in {"status"} |-> 1 - old], {"status"}, old))
           /\ rows' = [rows EXCEPT ![t].fields["status"] = 1 - old]
    /\ fallback' = IF fallback = Missing THEN Missing
                   ELSE [fallback EXCEPT !.isRow = @ /\ fallback.task.id # t]
    /\ UNCHANGED <<saved, url, nav, filter, loading, failed, lists, shut>>
    /\ Render(closing, dialog, FALSE)

(* The dialogs for the status, priority, assignee and dates of a row.      *)
SetField(t, f) ==
    /\ ViewShown /\ NoModal /\ rows[t] # Missing
    /\ SendCall(Call("field", t, [g \in {f} |-> 1 - rows[t].fields[f]], {f}, 0))
    /\ UNCHANGED <<saved, url, nav, filter, loading, failed, rows, fallback,
                   closing, link, lists, dialog, shut>>

-----------------------------------------------------------------------------
(* The server handles an update or a deletion; the answer arrives later.   *)
ServeCall(c) ==
    /\ c.answer = "none"
    /\ \/ /\ saved[c.id] # Missing
          /\ c.kind = "delete" \/ StoredVersions < MaxVersions
          /\ saved' = [saved EXCEPT ![c.id] =
                          IF c.kind = "delete" THEN Missing
                          ELSE Patched(c.id, c.patch)]
          /\ \/ /\ updates' = (updates \ {c}) \cup
                      {[c EXCEPT !.answer = "done",
                                 !.fields = IF c.kind = "delete" THEN @
                                            ELSE saved'[c.id].fields]}
                /\ UNCHANGED turns
             \/ /\ Turn
                /\ updates' = (updates \ {c}) \cup {[c EXCEPT !.answer = "error"]}
       \/ /\ saved[c.id] = Missing /\ UNCHANGED <<saved, turns>>
          /\ updates' = (updates \ {c}) \cup {[c EXCEPT !.answer = "error"]}
       \/ /\ Turn /\ UNCHANGED saved
          /\ updates' = (updates \ {c}) \cup {[c EXCEPT !.answer = "error"]}
    /\ UNCHANGED <<url, nav, filter, loading, failed, rows, fallback, closing,
                   link, lists, dialog, shut>>

Waits(c, busy) == dialog # Missing /\ dialog.id = c.id /\ dialog.busy = busy
Refresh(c, by) ==
    /\ Cardinality(lists) < MaxLists
    /\ lists' = lists \cup {ListRequest(by, c.filter, c.seen)}

(* handleSubmit, after the await; the dialog may be another instance.      *)
SaveAnswered(c) ==
    /\ c.kind = "save" /\ c.answer = "done"
    /\ updates' = updates \ {c} /\ Refresh(c, "save")
    /\ UNCHANGED <<saved, url, filter, loading, failed, rows, turns>>
    /\ CloseTask(c.url, IF Waits(c, "saving") THEN Filled(dialog, c.fields)
                        ELSE dialog)

(* handleDelete and handleTaskDeleted.                                     *)
DeleteAnswered(c) ==
    /\ c.kind = "delete" /\ c.answer = "done"
    /\ updates' = updates \ {c} /\ Refresh(c, "delete")
    /\ rows' = [rows EXCEPT ![c.id] = Missing]
    /\ UNCHANGED <<saved, url, filter, loading, failed, turns>>
    /\ CloseTask(c.url, IF Waits(c, "deleting") THEN [dialog EXCEPT !.busy = "no"]
                        ELSE dialog)

UpdateAnswered(c) ==
    /\ c.kind \in {"drag", "field"} /\ c.answer = "done"
    /\ updates' = updates \ {c} /\ Refresh(c, c.kind)
    /\ UNCHANGED <<saved, url, nav, filter, loading, failed, rows, fallback,
                   closing, link, dialog, turns, shut>>

(* Failed: the dialog can be used again, the row of a drag gets its old    *)
(* status back.                                                            *)
CallFails(c) ==
    /\ c.answer = "error" /\ updates' = updates \ {c}
    /\ rows' = IF c.kind = "drag" /\ rows[c.id] # Missing
               THEN [rows EXCEPT ![c.id].fields["status"] = c.before] ELSE rows
    /\ fallback' = IF c.kind = "drag" /\ fallback # Missing
                   THEN [fallback EXCEPT !.isRow = @ /\ fallback.task.id # c.id]
                   ELSE fallback
    /\ UNCHANGED <<saved, url, nav, filter, loading, failed, lists, turns, shut>>
    /\ Render(closing,
              IF \/ c.kind = "save" /\ Waits(c, "saving")
                 \/ c.kind = "delete" /\ Waits(c, "deleting")
              THEN [dialog EXCEPT !.busy = "no"] ELSE dialog,
              c.kind = "drag" /\ url = c.id /\ rows[c.id] # Missing)

(* Somebody else changes a task.                                           *)
OtherUpdate(t, f) ==
    /\ saved[t] # Missing /\ StoredVersions < MaxVersions
    /\ saved' = [saved EXCEPT ![t] =
                    Patched(t, [g \in {f} |-> 1 - saved[t].fields[f]])]
    /\ UNCHANGED <<url, nav, filter, loading, failed, rows, fallback, closing,
                   link, lists, dialog, updates, turns, shut>>

-----------------------------------------------------------------------------
TasksInit ==
    /\ \E S \in StoredAtFirst :
          saved = [t \in Tasks |->
                      IF t \notin S THEN Missing
                      ELSE [fields |-> [f \in Fields |-> 0], updatedAt |-> 1]]
    /\ url \in Tasks \cup {NoTask} /\ nav = Stay
    /\ filter = "all" /\ loading = TRUE /\ failed = FALSE
    /\ rows = [t \in Tasks |-> Missing] /\ fallback = Missing
    /\ closing = NoTask /\ link = NoTask
    /\ lists = {ListRequest("filter", "all", TRUE)}
    /\ dialog = Missing /\ updates = {}
    /\ turns = 0 /\ shut = NoTask

ServerStep ==
    \/ ServeLoad
    \/ \E l \in lists : ServeList(l)
    \/ \E c \in updates : ServeCall(c)
    \/ \E t \in Tasks, f \in Fields : OtherUpdate(t, f)

AnswerStep ==
    \/ LinkArrives \/ LinkFails \/ LoadArrives \/ LoadFails \/ Navigated
    \/ \E l \in lists : ListArrives(l) \/ ListFails(l)
    \/ \E c \in updates : SaveAnswered(c) \/ DeleteAnswered(c) \/ UpdateAnswered(c)
                          \/ CallFails(c)

UserStep ==
    \/ Submit \/ Delete \/ Close \/ Retry
    \/ \E flt \in Filters : ApplyFilters(flt)
    \/ \E u \in Tasks \cup {NoTask} : Navigate(u)
    \/ \E f \in Fields, v \in Value : UpdateForm(f, v)
    \/ \E t \in Tasks : OpenTask(t) \/ Drag(t) \/ \E f \in Fields : SetField(t, f)

TasksNext == ServerStep \/ AnswerStep \/ UserStep

TasksSpec == TasksInit /\ [][TasksNext]_ptVars

-----------------------------------------------------------------------------
(* The variables have their types.                                         *)
TasksTypeOK ==
    /\ url \in Tasks \cup {NoTask} /\ nav \in Tasks \cup {NoTask, Stay}
    /\ filter \in Filters /\ loading \in BOOLEAN /\ failed \in BOOLEAN
    /\ \A t \in Tasks : rows[t] = Missing \/ rows[t] \in Task
    /\ fallback = Missing \/ fallback \in [task : Task, isRow : BOOLEAN]
    /\ closing \in Tasks \cup {NoTask} /\ link \in Tasks \cup {NoTask}
    /\ dialog # Missing => dialog.touched \subseteq Fields
    /\ Cardinality(updates) <= MaxUpdates /\ shut \in Tasks \cup {NoTask}

(* What a step may change of a stored task.                                *)
KeepsOthers ==
    \A c \in updates : ServeCall(c) /\ c.kind # "delete" =>
        \A f \in Fields : saved'[c.id] # saved[c.id]
           /\ saved'[c.id].fields[f] # saved[c.id].fields[f]
           => f \in c.touched

(* Saving a task does not undo what somebody else has changed: of a task   *)
(* that is stored, an update of this client changes only fields which the  *)
(* user changed after the form was last filled (createTaskEditPatch and    *)
(* whatever fills form and baseline).                                      *)
OthersKept == [][KeepsOthers]_ptVars

(* A task whose dialog the user closed, saved or deleted is not loaded     *)
(* again for the address that still names it, and what was loaded for that *)
(* address is not kept (closingTaskIdRef).                                 *)
ClosedStaysClosed ==
    shut # NoTask =>
        /\ link # shut
        /\ fallback # Missing => fallback.task.id # shut
=============================================================================
