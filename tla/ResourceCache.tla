----------------------------- MODULE ResourceCache -----------------------------
(***************************************************************************)
(* The files the mobile client keeps of avatars and attachments: a task    *)
(* per resource that downloads it once, whoever wants it; an index in      *)
(* memory with a copy in AsyncStorage; a queue of index mutations, each of *)
(* which ends when the copy is written; eviction beyond a total size; and  *)
(* the removal of a server with all it has.                                *)
(*                                                                         *)
(* The index says what is cached, the disk has what is cached: they are    *)
(* changed one after the other, with awaits in between and a process that  *)
(* may end at each of them.  The order of lastAccessedAt is abstracted: an *)
(* eviction may take any entries it needs.                                 *)
(***************************************************************************)
EXTENDS Naturals, Sequences, FiniteSets

CONSTANTS Resources,     \* attachments and avatars
          Servers, ServerOf(_),
          SizeOf(_),
          MaxCacheSize,  \* MAX_CACHE_SIZE_BYTES
          MaxQueue,      \* bound: mutations waiting when a resource is asked for
          MaxFaults      \* bound: restarts and failures

ASSUME ResourceAssumption ==
    /\ IsFiniteSet(Resources) /\ \A r \in Resources : SizeOf(r) \in Nat
    /\ MaxCacheSize \in Nat /\ MaxQueue \in Nat /\ MaxFaults \in Nat

VARIABLES files,     \* resources whose file is on disk
          index,     \* the cache index in memory
          stored,    \* the index as AsyncStorage has it
          jobs,      \* mutationQueue
          writing,   \* the first job has run, its persistCacheIndex is under way
          task,      \* downloadTasks: where each stands
          removal,   \* removeServerResourceCache under way
          stray,     \* ghost: files a fault has left without a bound
          faults

rcVars == <<files, index, stored, jobs, writing, task, removal, stray,
            faults>>

Of(server) == {r \in Resources : ServerOf(r) = server}

(* The sum of the sizes of rs, counted byte by byte.                       *)
Size(rs) == Cardinality(UNION {{r} \X (1..SizeOf(r)) : r \in rs})

Stages == {"none", "checking", "removing", "asking", "asked", "downloading",
           "moving", "setting", "pruning"}
Working == {r \in Resources : task[r] # "none"}
Committing == {r \in Resources : task[r] \in {"setting", "pruning"}}

NoRemoval == [at |-> "none"]
Removals == [at : {"waiting"}, server : Servers, tasks : SUBSET Resources]
            \cup [at : {"deleted"}, server : Servers]
Job(op, rs) == [op |-> op, about |-> rs]
Jobs == [op : {"remove", "look", "touch", "set", "prune", "server"},
         about : SUBSET Resources]

ResourceTypeOK ==
    /\ files \subseteq Resources /\ stray \subseteq files
    /\ index \subseteq Resources /\ stored \subseteq Resources
    /\ jobs \in Seq(Jobs) /\ writing \in BOOLEAN /\ (writing => jobs # <<>>)
    /\ task \in [Resources -> Stages]
    /\ removal \in Removals \cup {NoRemoval}
    /\ faults \in 0..MaxFaults

Becomes(r, stage) == task' = [task EXCEPT ![r] = stage]
Enqueue(job) == jobs' = Append(jobs, job)
Fault == faults < MaxFaults /\ faults' = faults + 1

-----------------------------------------------------------------------------
(* Deleting files may fail, which is ignored.                              *)
Delete(rs) ==
    \E kept \in SUBSET (rs \cap files) :
        /\ IF kept = {} THEN UNCHANGED faults ELSE Fault
        /\ files' = files \ (rs \ kept)
        /\ stray' = (stray \ rs) \cup kept

(* getCachedResource, from its check on: a hit is touched, an entry whose  *)
(* file is gone is removed.                                                *)

Hit(r) == r \in index /\ r \in files
Broken(r) == r \in index /\ r \notin files

(* A message or an avatar is shown: useMessageResources, useCachedAvatar.  *)
Lookup(r) ==
    /\ Len(jobs) < MaxQueue
    /\ \/ Hit(r) /\ Enqueue(Job("touch", {r}))
       \/ Broken(r) /\ Enqueue(Job("look", {r}))
    /\ UNCHANGED <<files, index, stored, writing, task, removal, stray,
                   faults>>

(* reload: removeCachedResource deletes the file, then the entry.          *)
Invalidate(r) ==
    /\ Len(jobs) < MaxQueue /\ r \in index
    /\ Delete({r})
    /\ Enqueue(Job("look", {r}))
    /\ UNCHANGED <<index, stored, writing, task, removal>>

-----------------------------------------------------------------------------
(* runDownloadOnce                                                         *)

Ensure(r) ==
    /\ task[r] = "none" /\ Len(jobs) < MaxQueue
    /\ Becomes(r, "checking")
    /\ UNCHANGED <<files, index, stored, jobs, writing, removal, stray,
                   faults>>

(* The recheck of a task.                                                  *)
Check(r) ==
    /\ task[r] = "checking"
    /\ \/ Hit(r) /\ Becomes(r, "none") /\ Enqueue(Job("touch", {r}))
       \/ Broken(r) /\ Becomes(r, "removing") /\ Enqueue(Job("remove", {r}))
       \/ r \notin index /\ Becomes(r, "asking") /\ UNCHANGED jobs
    /\ UNCHANGED <<files, index, stored, writing, removal, stray, faults>>

(* requestResourceReadUrl and flushBatch: what has been asked for leaves   *)
(* in one request per server.                                              *)
FlushBatch(server) ==
    /\ \E r \in Of(server) : task[r] = "asking"
    /\ task' = [r \in Resources |->
                  IF r \in Of(server) /\ task[r] = "asking" THEN "asked" ELSE task[r]]
    /\ UNCHANGED <<files, index, stored, jobs, writing, removal, stray,
                   faults>>

(* The answer names some of them, the others are rejected.                 *)
UrlsArrive(server) ==
    LET asked == {r \in Of(server) : task[r] = "asked"}
    IN  /\ asked # {}
        /\ \E got \in SUBSET asked :
              /\ IF got = asked THEN UNCHANGED faults ELSE Fault
              /\ task' = [r \in Resources |-> IF r \in got THEN "downloading"
                                              ELSE IF r \in asked THEN "none" ELSE task[r]]
        /\ UNCHANGED <<files, index, stored, jobs, writing, removal, stray>>

(* downloadResource into the temporary file; commitResourceCacheTarget     *)
(* deletes what is in the way.                                             *)
Downloaded(r) ==
    /\ task[r] = "downloading" /\ Becomes(r, "moving")
    /\ files' = files \ {r} /\ stray' = stray \ {r}
    /\ UNCHANGED <<index, stored, jobs, writing, removal, faults>>

Moved(r) ==
    /\ task[r] = "moving" /\ Becomes(r, "setting")
    /\ files' = files \cup {r}
    /\ Enqueue(Job("set", {r}))
    /\ UNCHANGED <<index, stored, writing, removal, stray, faults>>

DownloadFails(r) ==
    /\ task[r] \in {"downloading", "moving"} /\ Becomes(r, "none")
    /\ Fault
    /\ UNCHANGED <<files, index, stored, jobs, writing, removal, stray>>

-----------------------------------------------------------------------------
(* mutateCacheIndex: one job at a time, from loadCacheIndex to the end of  *)
(* persistCacheIndex.                                                      *)

(* pruneResourceCache: no more than needed; deleting a file may fail, its  *)
(* entry goes all the same.                                                *)
Prune ==
    \E gone \in SUBSET index :
        /\ Size(index \ gone) <= MaxCacheSize
        /\ gone # {} => \E r \in gone : Size((index \ gone) \cup {r}) > MaxCacheSize
        /\ index' = index \ gone
        /\ Delete(gone)

RunJob ==
    /\ jobs # <<>> /\ ~writing
    /\ writing' = TRUE
    /\ LET job == Head(jobs)
       IN  CASE job.op = "prune" -> Prune
             [] job.op = "set" ->
                  index' = index \cup job.about /\ UNCHANGED <<files, stray, faults>>
             [] job.op = "touch" -> UNCHANGED <<index, files, stray, faults>>
             [] job.op \in {"remove", "look", "server"} ->
                  index' = index \ job.about /\ UNCHANGED <<files, stray, faults>>
    /\ UNCHANGED <<stored, jobs, task, removal>>

(* Mutant: a commit does not prune.                                        *)
After_Unpruned(job) ==
    CASE job.op \in {"set", "prune"} ->
            /\ task' = [task EXCEPT ![CHOOSE r \in job.about : TRUE] = "none"]
            /\ jobs' = Tail(jobs) /\ UNCHANGED removal
      [] job.op = "remove" ->
            /\ task' = [task EXCEPT ![CHOOSE r \in job.about : TRUE] = "asking"]
            /\ jobs' = Tail(jobs) /\ UNCHANGED removal
      [] job.op = "server" ->
            removal' = NoRemoval /\ jobs' = Tail(jobs) /\ UNCHANGED task
      [] job.op \in {"touch", "look"} ->
            jobs' = Tail(jobs) /\ UNCHANGED <<task, removal>>

(* Who waits for the job goes on.                                          *)
After(job) ==
    CASE job.op = "remove" ->
            /\ task' = [task EXCEPT ![CHOOSE r \in job.about : TRUE] = "asking"]
            /\ jobs' = Tail(jobs) /\ UNCHANGED removal
      [] job.op = "set" ->
            /\ task' = [task EXCEPT ![CHOOSE r \in job.about : TRUE] = "pruning"]
            /\ jobs' = Append(Tail(jobs), Job("prune", job.about)) /\ UNCHANGED removal
      [] job.op = "prune" ->
            /\ task' = [task EXCEPT ![CHOOSE r \in job.about : TRUE] = "none"]
            /\ jobs' = Tail(jobs) /\ UNCHANGED removal
      [] job.op = "server" ->
            removal' = NoRemoval /\ jobs' = Tail(jobs) /\ UNCHANGED task
      [] job.op \in {"touch", "look"} ->
            jobs' = Tail(jobs) /\ UNCHANGED <<task, removal>>

JobPersisted ==
    /\ writing /\ writing' = FALSE
    /\ stored' = index
    /\ After(Head(jobs))
    /\ UNCHANGED <<files, index, stray, faults>>

(* AsyncStorage refuses: the index has changed, who waits is rejected.  A  *)
(* rejected commit does not prune.                                         *)
JobFails ==
    /\ writing /\ writing' = FALSE /\ Fault
    /\ LET job == Head(jobs)
       IN  /\ jobs' = Tail(jobs)
           /\ task' = IF job.op \in {"remove", "set", "prune"}
                      THEN [task EXCEPT ![CHOOSE r \in job.about : TRUE] = "none"]
                      ELSE task
           /\ stray' = IF job.op = "set" THEN stray \cup (job.about \cap files) ELSE stray
           /\ removal' = IF job.op = "server" THEN NoRemoval ELSE removal
    /\ UNCHANGED <<files, index, stored>>

-----------------------------------------------------------------------------
(* removeServerResourceCache                                               *)

RemoveServer(server) ==
    /\ removal = NoRemoval
    /\ removal' = [at |-> "waiting", server |-> server, tasks |-> Of(server) \cap Working]
    /\ UNCHANGED <<files, index, stored, jobs, writing, task, stray, faults>>

(* A task it waits for has settled.                                        *)
TaskSettled ==
    /\ removal.at = "waiting" /\ removal.tasks \ Working # {}
    /\ removal' = [removal EXCEPT !.tasks = @ \cap Working]
    /\ UNCHANGED <<files, index, stored, jobs, writing, task, stray, faults>>

(* The directory goes with the temporary files of tasks that have started  *)
(* since, which fail; it may refuse to go, its entries go all the same.    *)
DeleteDirectory ==
    LET mine == Of(removal.server)
    IN  /\ removal.at = "waiting" /\ removal.tasks = {}
        /\ removal' = [at |-> "deleted", server |-> removal.server]
        /\ Enqueue(Job("server", mine))
        /\ \/ /\ files' = files \ mine /\ stray' = stray \ mine
              /\ task' = [r \in Resources |->
                            IF r \in mine /\ task[r] \in {"downloading", "moving"}
                            THEN "none" ELSE task[r]]
              /\ UNCHANGED faults
           \/ /\ files \cap mine # {} /\ Fault
              /\ stray' = stray \cup (files \cap mine)
              /\ UNCHANGED <<files, task>>
        /\ UNCHANGED <<index, stored, writing>>

-----------------------------------------------------------------------------
(* The operating system reclaims a file of the cache directory.            *)
Reclaimed(r) ==
    /\ r \in files /\ Fault
    /\ files' = files \ {r} /\ stray' = stray \ {r}
    /\ UNCHANGED <<index, stored, jobs, writing, task, removal>>

(* The process ends and starts again.  An index that cannot be read counts *)
(* as empty; nothing is pruned.                                            *)
Restart ==
    /\ Fault
    /\ index' \in {stored, {}}
    /\ jobs' = <<>> /\ writing' = FALSE
    /\ task' = [r \in Resources |-> "none"] /\ removal' = NoRemoval
    /\ stray' = (stray \cup Committing \cup (files \ index')) \cap files
    /\ UNCHANGED <<files, stored>>

-----------------------------------------------------------------------------
ResourceInit ==
    /\ files = {} /\ index = {} /\ stored = {}
    /\ jobs = <<>> /\ writing = FALSE
    /\ task = [r \in Resources |-> "none"] /\ removal = NoRemoval
    /\ stray = {} /\ faults = 0

ResourceNext ==
    \/ \E r \in Resources :
          \/ Lookup(r) \/ Invalidate(r) \/ Ensure(r) \/ Check(r)
          \/ Downloaded(r) \/ Moved(r) \/ DownloadFails(r) \/ Reclaimed(r)
    \/ \E server \in Servers : FlushBatch(server) \/ UrlsArrive(server) \/ RemoveServer(server)
    \/ RunJob \/ JobPersisted \/ JobFails
    \/ TaskSettled \/ DeleteDirectory \/ Restart

ResourceSpec == ResourceInit /\ [][ResourceNext]_rcVars

-----------------------------------------------------------------------------
(* What is on disk stays within the limit, but for what is being committed *)
(* and for files that a restart, a refused write or a refused deletion has *)
(* left behind: no order of downloads, evictions, reloads and removals     *)
(* leaves a file that the index does not count.                            *)
DiskBounded == Size(files \ (stray \cup Committing)) <= MaxCacheSize
=============================================================================
