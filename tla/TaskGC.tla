------------------------------- MODULE TaskGC -------------------------------
(***************************************************************************)
(* The task records of the storage and the garbage collector of the        *)
(* daemon.  A task belongs to one of three kinds (task, persistent task,   *)
(* persistent cache task), whose code is three copies of the same logic.   *)
(* Every record operation reads the record, changes the copy and puts it   *)
(* back with no lock in between; a delete removes the record first and the *)
(* pieces and the content afterwards; the collector decides from snapshots *)
(* it took earlier.  Calls, uploads and the collector interleave freely.   *)
(*                                                                         *)
(* Dropping the page cache and telling the scheduler of a deletion change  *)
(* nothing on this node and are left out.                                  *)
(***************************************************************************)
EXTENDS Integers, FiniteSets

CONSTANTS
    Tasks,              \* task ids
    KindChoices,        \* the kinds the tasks may have: a set of functions
    Length,             \* the content length of each task
    Calls,              \* callers of the storage
    MaxCalls,           \* bound: operations and uploads started
    MaxUploads,         \* bound: uploads of one task that run at once
    MaxTime,            \* bound: the last tick of the clock
    TaskTtl,            \* gc.policy.task_ttl
    PersistentTtl,      \* the ttl a persistent task is created with
    DownloadTimeout,    \* DEFAULT_DOWNLOAD_TASK_TIMEOUT
    DiskThreshold,      \* gc.policy.disk_threshold
    HighPercent,        \* gc.policy.disk_high_threshold_percent
    LowPercent          \* gc.policy.disk_low_threshold_percent

Kinds == {"task", "persistent", "persistent_cache"}

ASSUME TasksAssumption == Tasks # {} /\ IsFiniteSet(Tasks) /\ Length \in [Tasks -> Nat]
ASSUME KindsAssumption == KindChoices \subseteq [Tasks -> Kinds]
ASSUME BoundsAssumption == MaxCalls \in Nat /\ MaxUploads \in Nat /\ MaxTime \in Nat
ASSUME DiskAssumption == DiskThreshold \in Nat \ {0} /\ LowPercent \in Nat

VARIABLES
    KindOf,     \* the kind of each task, fixed for good
    db,         \* task id -> record, NoTask when there is none
    files,      \* the tasks whose content file exists
    orphaned,   \* those whose file was made by a call that failed after its record was deleted
    stats,      \* task id -> uploading_count of the in-memory statistics
    uploads,    \* task id -> uploads really running
    call,       \* caller -> what it is doing
    started,    \* number of operations started
    gc,         \* the collector's position
    now         \* the clock

vars == <<KindOf, db, files, orphaned, stats, uploads, call, started, gc, now>>

Unknown == -1

NoTask == [length |-> Unknown, created |-> -1, updated |-> -1, ttl |-> 0,
           persistent |-> FALSE, failed |-> FALSE, finished |-> FALSE]

Records == [length : {Unknown} \cup {Length[t] : t \in Tasks},
            created : -1..MaxTime, updated : -1..MaxTime,
            ttl : {0, TaskTtl, PersistentTtl},
            persistent : BOOLEAN, failed : BOOLEAN, finished : BOOLEAN]

NoCall == [pc |-> "idle", task |-> CHOOSE t \in Tasks : TRUE, copy |-> NoTask, next |-> "idle"]
NoGc == [at |-> 0, queue |-> {}, need |-> 0, evicted |-> 0,
         del |-> "none", id |-> CHOOSE t \in Tasks : TRUE]

Init ==
    /\ KindOf \in KindChoices
    /\ db = [t \in Tasks |-> NoTask]
    /\ files = {} /\ orphaned = {}
    /\ stats = [t \in Tasks |-> 0]
    /\ uploads = [t \in Tasks |-> 0]
    /\ call = [c \in Calls |-> NoCall]
    /\ started = 0
    /\ gc = NoGc
    /\ now = 0

-----------------------------------------------------------------------------
(* What a record says of its task.                                         *)

task_is_expired(r) == r.updated + TaskTtl < now
persistent_task_is_expired(r) == r.created + r.ttl < now
persistent_cache_task_is_expired(r) == r.created + r.ttl < now

is_expired(k, r) ==
    CASE k = "task" -> task_is_expired(r)
      [] k = "persistent" -> persistent_task_is_expired(r)
      [] k = "persistent_cache" -> persistent_cache_task_is_expired(r)

Ended(r) == r.finished \/ r.failed \/ r.created + DownloadTimeout < now
task_need_evict(r) == Ended(r)
persistent_task_need_evict(r) == ~r.persistent /\ Ended(r)
persistent_cache_task_need_evict(r) == ~r.persistent /\ Ended(r)

\* Only a failed task may be evicted without a content length.
TaskSpaceKnown(r) == r.length # Unknown \/ r.failed
TaskSpace(r) == IF r.length = Unknown THEN 0 ELSE r.length

need_evict(k, r) ==
    CASE k = "task" -> TaskSpaceKnown(r) /\ task_need_evict(r)
      [] k = "persistent" -> persistent_task_need_evict(r)
      [] k = "persistent_cache" -> persistent_cache_task_need_evict(r)

-----------------------------------------------------------------------------
(* The changes the operations make to a record they found, or to NoTask.   *)

\* Mutant: the time of the change is rounded up.
TouchedAhead(r) == [r EXCEPT !.updated = now + 1]
Touched(r) == [r EXCEPT !.updated = now]

prepare_download_task(r) ==
    IF r = NoTask THEN [NoTask EXCEPT !.created = now, !.updated = now]
    ELSE [Touched(r) EXCEPT !.failed = FALSE]

download_task_started(r, len) ==
    [prepare_download_task(r) EXCEPT !.length = len]

\* The creation time is the one the scheduler keeps for the task.
Redownloaded(r, len, persistent, created) ==
    IF r = NoTask
    THEN [NoTask EXCEPT !.persistent = persistent, !.ttl = PersistentTtl, !.length = len,
                        !.created = created, !.updated = now]
    ELSE [Touched(r) EXCEPT !.failed = FALSE, !.persistent = persistent, !.ttl = PersistentTtl]

download_persistent_task_started(r, len, p, at) == Redownloaded(r, len, p, at)
download_persistent_cache_task_started(r, len, p, at) == Redownloaded(r, len, p, at)

Created(len) ==
    [NoTask EXCEPT !.persistent = TRUE, !.ttl = PersistentTtl, !.length = len,
                   !.created = now, !.updated = now]
create_persistent_task_started(len) == Created(len)
create_persistent_cache_task_started(len) == Created(len)

Finished(r) == [Touched(r) EXCEPT !.failed = FALSE, !.finished = TRUE]
download_task_finished(r) == Finished(r)
download_persistent_task_finished(r) == Finished(r)
download_persistent_cache_task_finished(r) == Finished(r)

Failed(r) == [Touched(r) EXCEPT !.failed = TRUE]
download_task_failed(r) == Failed(r)
download_persistent_task_failed(r) == Failed(r)
download_persistent_cache_task_failed(r) == Failed(r)

persist_persistent_task(r) == [Touched(r) EXCEPT !.persistent = TRUE]
persist_persistent_cache_task(r) == [Touched(r) EXCEPT !.persistent = TRUE]

-----------------------------------------------------------------------------
(* The disk.                                                               *)

\* The bytes of the contents S, each named by its task and its place.
BytesOf(S) == UNION {{t} \X (1..Length[t]) : t \in S}
usage_space(S) == Cardinality(BytesOf(S))

available_space(S) ==
    IF usage_space(S) >= DiskThreshold THEN 0 ELSE DiskThreshold - usage_space(S)
has_enough_space(len) == available_space(files) >= len
usage_percent(S) == 100 - (available_space(S) * 100) \div DiskThreshold
need_evict_space ==
    (DiskThreshold * ((usage_percent(files) - LowPercent) % 256)) \div 100

\* The contents of the disk at which a disk pass begins to evict.
HighUsage == {S \in SUBSET Tasks : usage_percent(S) >= HighPercent}

-----------------------------------------------------------------------------
(* The callers.  A caller that changes a record takes two steps: it reads  *)
(* the record and computes the copy, and it puts the copy back.            *)

Begin(c, t, pc) ==
    /\ call[c].pc = "idle" /\ started < MaxCalls
    /\ started' = started + 1
    /\ call' = [call EXCEPT ![c].pc = pc, ![c].task = t]

\* Caller c read the record of its task and will put r back.
WillPut(c, t, r, next) ==
    call' = [call EXCEPT ![c] = [pc |-> "put", task |-> t, copy |-> r, next |-> next]]

To(c, pc) == call' = [call EXCEPT ![c] = IF pc = "idle" THEN NoCall ELSE [@ EXCEPT !.pc = pc]]

Put(c) ==
    /\ call[c].pc = "put"
    /\ db' = [db EXCEPT ![call[c].task] = call[c].copy]
    /\ call' = [call EXCEPT ![c] =
                   IF call[c].next = "idle" THEN NoCall
                   ELSE IF call[c].next = "prepared" THEN [call[c] EXCEPT !.pc = "prepared"]
                   ELSE [call[c] EXCEPT !.pc = call[c].next, !.copy = NoTask]]
    /\ orphaned' = orphaned \ {call[c].task}
    /\ UNCHANGED <<KindOf, files, stats, uploads, started, gc, now>>

\* prepare_download_task: a known task that did not fail is reused as it is.
Prepare(c, t) ==
    /\ KindOf[t] = "task"
    /\ call[c].pc = "idle" /\ started < MaxCalls
    /\ started' = started + 1
    /\ IF db[t] # NoTask /\ db[t].length # Unknown /\ ~db[t].failed
       THEN call' = [call EXCEPT ![c].pc = "running", ![c].task = t]
       ELSE WillPut(c, t, prepare_download_task(db[t]), "prepared")
    /\ UNCHANGED <<KindOf, db, files, orphaned, stats, uploads, gc, now>>

\* Mutant: the record is put at once and the content is created afterwards.
StartTaskRecordFirst(c) ==
    LET t == call[c].task IN
    /\ call[c].pc = "prepared"
    /\ IF call[c].copy.updated # Unknown
       THEN /\ db' = [db EXCEPT ![t] = download_task_started(db[t], Length[t])]
            /\ call' = [call EXCEPT ![c].copy = NoTask]
            /\ UNCHANGED files
       ELSE /\ files' = files \cup {t}
            /\ To(c, "running")
            /\ UNCHANGED db
    /\ UNCHANGED <<KindOf, orphaned, stats, uploads, started, gc, now>>

\* The origin answered and there is room: the content is created, then the
\* record is updated.
StartTask(c) ==
    LET t == call[c].task IN
    /\ call[c].pc = "prepared"
    /\ call[c].copy.finished \/ has_enough_space(Length[t])
    /\ files' = files \cup {t}
    /\ WillPut(c, t, download_task_started(db[t], Length[t]), "running")
    /\ UNCHANGED <<KindOf, db, orphaned, stats, uploads, started, gc, now>>

\* The origin named no length, there is no room or the file cannot be made: the
\* call returns an error that no handler answers with download_failed, so the
\* record stays as it was prepared.
StartRefused(c) ==
    /\ call[c].pc = "prepared"
    /\ To(c, "idle")
    /\ UNCHANGED <<KindOf, db, files, orphaned, stats, uploads, started, gc, now>>

\* create_task made the file at its full length and could not allocate it.
AllocateFailed(c) ==
    LET t == call[c].task IN
    /\ call[c].pc = "prepared" /\ t \notin files
    /\ call[c].copy.finished \/ has_enough_space(Length[t])
    /\ files' = files \cup {t}
    /\ orphaned' = IF db[t] = NoTask THEN orphaned \cup {t} ELSE orphaned
    /\ To(c, "idle")
    /\ UNCHANGED <<KindOf, db, stats, uploads, started, gc, now>>

\* The caller insists on a hard link to its output, and there is none to be had.
NotLinked(c) ==
    /\ call[c].pc = "running"
    /\ To(c, "idle")
    /\ UNCHANGED <<KindOf, db, files, orphaned, stats, uploads, started, gc, now>>

\* A persistent record is put first and its content created afterwards; only a
\* task without a record has to fit.
StartPersistent(c, t, r) ==
    /\ call[c].pc = "idle" /\ started < MaxCalls
    /\ db[t] = NoTask => has_enough_space(Length[t])
    /\ started' = started + 1
    /\ WillPut(c, t, r, "content")
    /\ UNCHANGED <<KindOf, db, files, orphaned, stats, uploads, gc, now>>

StartPersistentTask(c, t) ==
    /\ KindOf[t] = "persistent"
    /\ \E p \in BOOLEAN, at \in {0, now} :
          StartPersistent(c, t, download_persistent_task_started(db[t], Length[t], p, at))

StartPersistentCacheTask(c, t) ==
    /\ KindOf[t] = "persistent_cache"
    /\ \E p \in BOOLEAN, at \in {0, now} :
          StartPersistent(c, t, download_persistent_cache_task_started(db[t], Length[t], p, at))

\* create_*_task_started overwrites whatever record there was.
CreatePersistent(c, t, r) ==
    /\ has_enough_space(Length[t])
    /\ Begin(c, t, "create_content")
    /\ db' = [db EXCEPT ![t] = r]
    /\ UNCHANGED <<KindOf, files, orphaned, stats, uploads, gc, now>>

CreatePersistentTask(c, t) ==
    /\ KindOf[t] = "persistent"
    /\ CreatePersistent(c, t, create_persistent_task_started(Length[t]))

CreatePersistentCacheTask(c, t) ==
    /\ KindOf[t] = "persistent_cache"
    /\ CreatePersistent(c, t, create_persistent_cache_task_started(Length[t]))

ContentCreated(c, k) ==
    /\ call[c].pc \in {"content", "create_content"} /\ KindOf[call[c].task] = k
    /\ files' = files \cup {call[c].task}
    /\ To(c, IF call[c].pc = "content" THEN "running" ELSE "creating")
    /\ UNCHANGED <<KindOf, db, orphaned, stats, uploads, started, gc, now>>

\* The content cannot be made, or not all of it: a download leaves its record
\* as it is, an import goes on to delete what it created.
ContentFailed(c) ==
    /\ call[c].pc \in {"content", "create_content"} /\ KindOf[call[c].task] # "task"
    /\ files' \in {files, files \cup {call[c].task}}
    /\ To(c, IF call[c].pc = "content" THEN "idle" ELSE "delete_record")
    /\ UNCHANGED <<KindOf, db, orphaned, stats, uploads, started, gc, now>>

create_persistent_task(c) == ContentCreated(c, "persistent")
create_persistent_cache_task(c) == ContentCreated(c, "persistent_cache")

Persist(c, t) ==
    /\ KindOf[t] # "task" /\ db[t] # NoTask
    /\ call[c].pc = "idle" /\ started < MaxCalls
    /\ started' = started + 1
    /\ WillPut(c, t, IF KindOf[t] = "persistent" THEN persist_persistent_task(db[t])
                     ELSE persist_persistent_cache_task(db[t]), "idle")
    /\ UNCHANGED <<KindOf, db, files, orphaned, stats, uploads, gc, now>>

\* The download ended well; a record deleted meanwhile is an error.
Finish(c) ==
    LET t == call[c].task IN
    /\ call[c].pc \in {"running", "creating"}
    /\ IF db[t] = NoTask THEN To(c, "idle")
       ELSE WillPut(c, t, IF KindOf[t] = "task" THEN download_task_finished(db[t])
                          ELSE IF KindOf[t] = "persistent" THEN download_persistent_task_finished(db[t])
                          ELSE download_persistent_cache_task_finished(db[t]),
                    "idle")
    /\ UNCHANGED <<KindOf, db, files, orphaned, stats, uploads, started, gc, now>>

Fail(c) ==
    LET t == call[c].task IN
    /\ call[c].pc \in {"prepared", "running"}
    /\ IF db[t] = NoTask THEN To(c, "idle")
       ELSE WillPut(c, t, IF KindOf[t] = "task" THEN download_task_failed(db[t])
                          ELSE IF KindOf[t] = "persistent" THEN download_persistent_task_failed(db[t])
                          ELSE download_persistent_cache_task_failed(db[t]),
                    "idle")
    /\ UNCHANGED <<KindOf, db, files, orphaned, stats, uploads, started, gc, now>>

\* A failed creation deletes what it created.
CreateFailed(c) ==
    /\ call[c].pc = "creating"
    /\ To(c, "delete_record")
    /\ UNCHANGED <<KindOf, db, files, orphaned, stats, uploads, started, gc, now>>

Delete(c, t) ==
    /\ db[t] # NoTask
    /\ Begin(c, t, "delete_record")
    /\ UNCHANGED <<KindOf, db, files, orphaned, stats, uploads, gc, now>>

\* delete_*_task, first half: the record goes, and its upload statistics.
delete_record(t) ==
    /\ db' = [db EXCEPT ![t] = NoTask]
    /\ stats' = [stats EXCEPT ![t] = 0]

\* delete_*_task, second half: the pieces, the content and the cached task.
delete_content(t) == files' = files \ {t} /\ orphaned' = orphaned \ {t}

DeleteRecord(c) ==
    /\ call[c].pc = "delete_record"
    /\ delete_record(call[c].task)
    /\ To(c, "delete_content")
    /\ UNCHANGED <<KindOf, files, orphaned, uploads, started, gc, now>>

DeleteContent(c) ==
    /\ call[c].pc = "delete_content"
    /\ delete_content(call[c].task)
    /\ To(c, "idle")
    /\ UNCHANGED <<KindOf, db, stats, uploads, started, gc, now>>

-----------------------------------------------------------------------------
(* Uploads only touch the statistics in memory.                            *)

upload_started(t) ==
    /\ db[t] # NoTask /\ uploads[t] < MaxUploads /\ started < MaxCalls
    /\ started' = started + 1
    /\ uploads' = [uploads EXCEPT ![t] = @ + 1]
    /\ stats' = [stats EXCEPT ![t] = @ + 1]
    /\ UNCHANGED <<KindOf, db, files, orphaned, call, gc, now>>

\* Mutant: a failed upload stays counted.
upload_ended_uncounted(t) ==
    /\ uploads[t] > 0
    /\ uploads' = [uploads EXCEPT ![t] = @ - 1]
    /\ UNCHANGED <<KindOf, stats, db, files, orphaned, call, started, gc, now>>

upload_ended(t) ==
    /\ uploads[t] > 0
    /\ uploads' = [uploads EXCEPT ![t] = @ - 1]
    /\ stats' = [stats EXCEPT ![t] = @ - 1]
    /\ UNCHANGED <<KindOf, db, files, orphaned, call, started, gc, now>>

-----------------------------------------------------------------------------
(* The collector: for each kind a pass by ttl and a pass by disk usage.    *)

Order == <<"task", "persistent_cache", "persistent">>
PassKind == Order[(gc.at + 1) \div 2]
InTtlPass == gc.at > 0 /\ gc.at % 2 = 1
InDiskPass == gc.at > 0 /\ gc.at % 2 = 0

Snapshot(k) ==
    {[id |-> t, rec |-> db[t]] : t \in {u \in Tasks : KindOf[u] = k /\ db[u] # NoTask}}

NextKind(at) ==
    IF at >= 6 THEN NoGc
    ELSE [NoGc EXCEPT !.at = at + 1, !.queue = Snapshot(Order[(at + 2) \div 2])]

Evict(e) == [gc EXCEPT !.queue = @ \ {e}, !.del = "record", !.id = e.id]
Skip(e) == [gc EXCEPT !.queue = @ \ {e}]

Tick ==
    /\ gc.at = 0
    /\ gc' = NextKind(0)
    /\ UNCHANGED <<KindOf, db, files, orphaned, stats, uploads, call, started, now>>

\* Mutant: only finished tasks are evicted by ttl.
EvictFinishedByTtl(k) ==
    /\ InTtlPass /\ PassKind = k /\ gc.del = "none"
    /\ \E e \in gc.queue :
          gc' = IF is_expired(k, e.rec) /\ e.rec.finished THEN Evict(e) ELSE Skip(e)
    /\ UNCHANGED <<KindOf, db, files, orphaned, stats, uploads, call, started, now>>

EvictByTtl(k) ==
    /\ InTtlPass /\ PassKind = k /\ gc.del = "none"
    /\ \E e \in gc.queue : gc' = IF is_expired(k, e.rec) THEN Evict(e) ELSE Skip(e)
    /\ UNCHANGED <<KindOf, db, files, orphaned, stats, uploads, call, started, now>>

evict_task_by_ttl == EvictByTtl("task")
evict_persistent_task_by_ttl == EvictByTtl("persistent")
evict_persistent_cache_task_by_ttl == EvictByTtl("persistent_cache")

EvictByDiskUsage(k) ==
    /\ InTtlPass /\ PassKind = k /\ gc.del = "none" /\ gc.queue = {}
    /\ gc' = IF files \in HighUsage
             THEN [NoGc EXCEPT !.at = gc.at + 1, !.queue = Snapshot(k), !.need = need_evict_space]
             ELSE NextKind(gc.at + 1)
    /\ UNCHANGED <<KindOf, db, files, orphaned, stats, uploads, call, started, now>>

evict_task_by_disk_usage == EvictByDiskUsage("task")
evict_persistent_task_by_disk_usage == EvictByDiskUsage("persistent")
evict_persistent_cache_task_by_disk_usage == EvictByDiskUsage("persistent_cache")

\* Mutant: the pass ends at the first task that may not be evicted.
EvictSpaceUntilSkip(k) ==
    /\ InDiskPass /\ PassKind = k /\ gc.del = "none"
    /\ IF gc.evicted >= gc.need \/ gc.queue = {}
       THEN gc' = NextKind(gc.at)
       ELSE \E e \in gc.queue :
              /\ \A f \in gc.queue : e.rec.updated <= f.rec.updated
              /\ gc' = IF need_evict(k, e.rec)
                       THEN [Evict(e) EXCEPT !.evicted = @ + TaskSpace(e.rec)]
                       ELSE NextKind(gc.at)
    /\ UNCHANGED <<KindOf, db, files, orphaned, stats, uploads, call, started, now>>

EvictSpace(k) ==
    /\ InDiskPass /\ PassKind = k /\ gc.del = "none"
    /\ IF gc.evicted >= gc.need \/ gc.queue = {}
       THEN gc' = NextKind(gc.at)
       ELSE \E e \in gc.queue :
              /\ \A f \in gc.queue : e.rec.updated <= f.rec.updated
              /\ gc' = IF need_evict(k, e.rec)
                       THEN [Evict(e) EXCEPT !.evicted = @ + TaskSpace(e.rec)]
                       ELSE Skip(e)
    /\ UNCHANGED <<KindOf, db, files, orphaned, stats, uploads, call, started, now>>

evict_task_space == EvictSpace("task")
evict_persistent_task_space == EvictSpace("persistent")
evict_persistent_cache_task_space == EvictSpace("persistent_cache")

GcDeleteRecord ==
    /\ gc.del = "record"
    /\ delete_record(gc.id)
    /\ gc' = [gc EXCEPT !.del = "content"]
    /\ UNCHANGED <<KindOf, files, orphaned, uploads, call, started, now>>

GcDeleteContent ==
    /\ gc.del = "content"
    /\ delete_content(gc.id)
    /\ gc' = [gc EXCEPT !.del = "none"]
    /\ UNCHANGED <<KindOf, db, stats, uploads, call, started, now>>

Clock ==
    /\ now < MaxTime
    /\ now' = now + 1
    /\ UNCHANGED <<KindOf, db, files, orphaned, stats, uploads, call, started, gc>>

Collect ==
    \/ Tick
    \/ evict_task_by_ttl \/ evict_persistent_task_by_ttl \/ evict_persistent_cache_task_by_ttl
    \/ evict_task_by_disk_usage \/ evict_persistent_task_by_disk_usage
    \/ evict_persistent_cache_task_by_disk_usage
    \/ evict_task_space \/ evict_persistent_task_space \/ evict_persistent_cache_task_space
    \/ GcDeleteRecord \/ GcDeleteContent

Next ==
    \/ \E c \in Calls :
          \/ Put(c) \/ StartTask(c) \/ StartRefused(c) \/ AllocateFailed(c) \/ NotLinked(c)
          \/ create_persistent_task(c) \/ create_persistent_cache_task(c) \/ ContentFailed(c)
          \/ Finish(c) \/ Fail(c)
          \/ CreateFailed(c) \/ DeleteRecord(c) \/ DeleteContent(c)
          \/ \E t \in Tasks :
                \/ Prepare(c, t) \/ StartPersistentTask(c, t) \/ StartPersistentCacheTask(c, t)
                \/ CreatePersistentTask(c, t) \/ CreatePersistentCacheTask(c, t)
                \/ Persist(c, t) \/ Delete(c, t)
    \/ \E t \in Tasks : upload_started(t) \/ upload_ended(t)
    \/ Collect
    \/ Clock

Spec == Init /\ [][Next]_vars

(* The collector's interval keeps ticking while the daemon runs.           *)
FairSpec == Spec /\ WF_vars(Collect)

-----------------------------------------------------------------------------
CallPcs == {"idle", "put", "prepared", "running", "content", "create_content", "creating",
            "delete_record", "delete_content"}

(* Every variable keeps its type.                                          *)
TypeOK ==
    /\ KindOf \in [Tasks -> Kinds]
    /\ db \in [Tasks -> Records]
    /\ files \subseteq Tasks /\ orphaned \subseteq Tasks
    /\ stats \in [Tasks -> Int] /\ uploads \in [Tasks -> 0..MaxUploads]
    /\ call \in [Calls -> [pc : CallPcs, task : Tasks, copy : Records, next : CallPcs]]
    /\ started \in 0..MaxCalls /\ now \in 0..MaxTime
    /\ gc \in [at : 0..6, queue : SUBSET [id : Tasks, rec : Records], need : Nat,
                evicted : Nat, del : {"none", "record", "content"}, id : Tasks]

\* Somebody is between two steps of an operation on t.
Busy(t) ==
    \/ gc.del # "none" /\ gc.id = t
    \/ \E c \in Calls : call[c].pc \in {"put", "delete_record", "delete_content"} /\ call[c].task = t

(* The content file of a task that nobody works on is reachable through    *)
(* its record, whatever deletions and downloads met: download_task_started *)
(* creates the file before it puts the record and delete_task removes the  *)
(* record before the file, so the collector can always find the space.     *)
(* The one way to lose a file: its record is deleted while its download    *)
(* asks the origin, and the allocation of the new file fails.              *)
ContentReachable ==
    \A t \in files : KindOf[t] = "task" /\ ~Busy(t) /\ t \notin orphaned => db[t] # NoTask

(* The upload count of a task never claims more uploads than are running,  *)
(* however deletions of the statistics meet uploads that end later.        *)
UploadsNotOvercounted == \A t \in Tasks : stats[t] <= uploads[t]

(* Records, files and statistics stay as they should, whatever meets what. *)
RecordsSafe == TypeOK /\ ContentReachable /\ UploadsNotOvercounted

(* A record past its ttl is deleted or refreshed in the end: a snapshot    *)
(* taken too early is made up for by the next tick.                        *)
ExpiredIsCollected ==
    \A t \in Tasks : (db[t] # NoTask /\ is_expired(KindOf[t], db[t]))
                      ~> (db[t] = NoTask \/ ~is_expired(KindOf[t], db[t]))

Evictable == {t \in Tasks : db[t] # NoTask /\ need_evict(KindOf[t], db[t])}

(* Disk usage above the high threshold is brought below it, or nothing     *)
(* that may be evicted is left, once callers stop adding content.          *)
PressureIsRelieved ==
    (files \in HighUsage) ~> (files \notin HighUsage \/ Evictable = {})

(* The collector gives back what it promises: expired tasks and the disk.  *)
SpaceIsReclaimed == ExpiredIsCollected /\ PressureIsRelieved

=============================================================================
