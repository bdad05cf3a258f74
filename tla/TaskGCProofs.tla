---------------------------- MODULE TaskGCProofs ----------------------------
(***************************************************************************)
(* Proofs about TaskGC for every set of tasks, kinds and lengths, every    *)
(* number of callers, uploads and ticks, and every policy of the collector.*)
(***************************************************************************)
EXTENDS TaskGC, FiniteSetTheorems, FunctionTheorems, TLAPS

\* What a caller is about to put back is a record, and it puts it back once.
PutsRecord(c) ==
    /\ call[c].pc = "put" => call[c].copy.updated # Unknown
    /\ call[c].next # "put"

\* Between two ticks the collector deletes nothing.
GcIdle == gc.at = 0 => gc.del = "none"

IInv == RecordsSafe /\ GcIdle /\ \A c \in Calls : PutsRecord(c)

CallRecs == [pc : CallPcs, task : Tasks, copy : Records, next : CallPcs]
BusyPcs == {"put", "delete_record", "delete_content"}

-----------------------------------------------------------------------------
(* The operators of the model.                                             *)

(* The empty record is a record; there is a task for an idle caller to name. *)
LEMMA EmptyRecords ==
  /\ NoTask \in Records
  /\ NoCall \in CallRecs
  /\ NoGc \in [at : 0..6, queue : SUBSET [id : Tasks, rec : Records], need : Nat,
               evicted : Nat, del : {"none", "record", "content"}, id : Tasks]
  <1>1. NoTask \in Records
    BY BoundsAssumption DEF NoTask, Records
  <1>2. (CHOOSE t \in Tasks : TRUE) \in Tasks
    BY TasksAssumption
  <1> QED BY <1>1, <1>2 DEF NoCall, CallRecs, CallPcs, NoGc

(* A change of a record keeps it a record, dated now. *)
LEMMA TouchedType ==
  ASSUME NEW r \in Records, now \in 0..MaxTime
  PROVE  /\ Touched(r) \in Records /\ Touched(r).updated # Unknown
         /\ Finished(r) \in Records /\ Finished(r).updated # Unknown
         /\ Failed(r) \in Records /\ Failed(r).updated # Unknown
         /\ persist_persistent_task(r) \in Records /\ persist_persistent_task(r).updated # Unknown
  <1>1. now \in -1..MaxTime /\ now # Unknown
    BY BoundsAssumption DEF Unknown
  <1>2. Touched(r) \in Records /\ Touched(r).updated = now
    BY <1>1 DEF Touched, Records
  <1>3. Finished(r) \in Records /\ Finished(r).updated = now
    BY <1>2 DEF Finished, Records
  <1>4. Failed(r) \in Records /\ Failed(r).updated = now
    BY <1>2 DEF Failed, Records
  <1>5. persist_persistent_task(r) \in Records /\ persist_persistent_task(r).updated = now
    BY <1>2 DEF persist_persistent_task, Records
  <1> QED BY <1>1, <1>2, <1>3, <1>4, <1>5

(* So does the record a download or a creation starts with. *)
LEMMA StartedType ==
  ASSUME NEW r \in Records, now \in 0..MaxTime, NEW t \in Tasks,
         NEW p \in BOOLEAN, NEW at \in {0, now}
  PROVE  /\ prepare_download_task(r) \in Records
         /\ prepare_download_task(r).updated # Unknown
         /\ download_task_started(r, Length[t]) \in Records
         /\ download_task_started(r, Length[t]).updated # Unknown
         /\ Redownloaded(r, Length[t], p, at) \in Records
         /\ Redownloaded(r, Length[t], p, at).updated # Unknown
         /\ Created(Length[t]) \in Records
         /\ Created(Length[t]).updated # Unknown
  <1>1. /\ now \in -1..MaxTime /\ at \in -1..MaxTime /\ now # Unknown
        /\ Touched(r) \in Records /\ Touched(r).updated = now
    BY TouchedType, BoundsAssumption DEF Unknown, Touched, Records
  <1>2. NoTask \in Records
    BY EmptyRecords
  <1>3. [NoTask EXCEPT !.created = now, !.updated = now] \in Records
    BY <1>1, <1>2 DEF Records
  <1>4. prepare_download_task(r) \in Records /\ prepare_download_task(r).updated = now
    <2>1. CASE r = NoTask
      BY <1>3, <2>1 DEF prepare_download_task, NoTask
    <2>2. CASE r # NoTask
      BY <1>1, <2>2 DEF prepare_download_task, Records
    <2> QED BY <2>1, <2>2
  <1>5. /\ download_task_started(r, Length[t]) \in Records
        /\ download_task_started(r, Length[t]).updated = now
    BY <1>4 DEF download_task_started, Records
  <1>6. /\ Redownloaded(r, Length[t], p, at) \in Records
        /\ Redownloaded(r, Length[t], p, at).updated = now
    <2>1. CASE r = NoTask
      BY <1>1, <1>2, <2>1 DEF Redownloaded, Records
    <2>2. CASE r # NoTask
      BY <1>1, <2>2 DEF Redownloaded, Records
    <2> QED BY <2>1, <2>2
  <1>7. Created(Length[t]) \in Records /\ Created(Length[t]).updated = now
    BY <1>1, <1>2 DEF Created, Records
  <1> QED BY <1>1, <1>4, <1>5, <1>6, <1>7

(* The contents of a set of tasks take a finite number of bytes. *)
LEMMA UsageType ==
  ASSUME NEW S \in SUBSET Tasks
  PROVE  usage_space(S) \in Nat
  <1> DEFINE B(t) == {t} \X (1..Length[t])
             T == {B(t) : t \in S}
             f == [t \in S |-> B(t)]
  <1>1. \A t \in S : IsFiniteSet(B(t))
    <2> SUFFICES ASSUME NEW t \in S PROVE IsFiniteSet(B(t))
      OBVIOUS
    <2>1. Length[t] \in Nat
      BY TasksAssumption
    <2>2. IsFiniteSet(1..Length[t])
      BY <2>1, 1 \in Int, Length[t] \in Int, FS_Interval
    <2>3. IsFiniteSet({t})
      BY FS_Singleton
    <2> QED BY <2>2, <2>3, FS_Product
  <1>2. IsFiniteSet(S)
    BY TasksAssumption, FS_Subset
  <1>3. f \in Surjection(S, T)
    BY DEF Surjection
  <1>4. IsFiniteSet(T)
    BY <1>2, <1>3, FS_Surjection
  <1>5. \A X \in T : IsFiniteSet(X)
    BY <1>1
  <1>6. IsFiniteSet(UNION T)
    BY <1>4, <1>5, FS_UNION
  <1> QED BY <1>6, FS_CardinalityType DEF usage_space, BytesOf

(* So the space a disk pass has to free is a number. *)
LEMMA NeedType ==
  ASSUME files \subseteq Tasks
  PROVE  need_evict_space \in Nat
  <1>1. available_space(files) \in Nat
    BY UsageType, DiskAssumption DEF available_space
  <1>2. usage_percent(files) \in Int
    BY <1>1, DiskAssumption DEF usage_percent
  <1>3. (usage_percent(files) - LowPercent) % 256 \in 0..255
    BY <1>2, DiskAssumption
  <1> QED BY <1>3, DiskAssumption DEF need_evict_space

-----------------------------------------------------------------------------
(* The steps.                                                              *)

(* The content of a task stays reachable when its caller did not work on     *)
(* anything, or goes on working on the same task.                            *)
LEMMA ReachableFrame ==
  ASSUME TypeOK, ContentReachable, NEW c \in Calls, NEW r, call' = [call EXCEPT ![c] = r],
         call[c].pc \in BusyPcs => r.pc \in BusyPcs /\ r.task = call[c].task,
         UNCHANGED <<KindOf, db, gc>>, orphaned \subseteq orphaned',
         \A t \in files' \ files : \/ KindOf[t] # "task" \/ (r.pc \in BusyPcs /\ r.task = t)
                                   \/ db[t] # NoTask \/ t \in orphaned'
  PROVE  ContentReachable'
  <1> SUFFICES ASSUME NEW t \in files', KindOf[t] = "task", ~Busy(t)', t \notin orphaned',
                      db[t] = NoTask
               PROVE  FALSE
    BY DEF ContentReachable
  <1>1. call'[c] = r /\ \A d \in Calls \ {c} : call'[d] = call[d]
    BY DEF TypeOK
  <1>2. ~(r.pc \in BusyPcs /\ r.task = t)
    BY <1>1 DEF Busy, BusyPcs
  <1>3. t \in files
    BY <1>2
  <1>4. ~Busy(t)
    BY <1>1, <1>2 DEF Busy, BusyPcs
  <1> QED BY <1>3, <1>4 DEF ContentReachable

(* A step that only moves one caller. *)
LEMMA CallFrame ==
  ASSUME IInv, NEW c \in Calls, NEW r \in CallRecs, call' = [call EXCEPT ![c] = r],
         r.pc = "put" => r.copy.updated # Unknown, r.next # "put",
         call[c].pc \in BusyPcs => r.pc \in BusyPcs /\ r.task = call[c].task,
         started' \in 0..MaxCalls,
         UNCHANGED <<KindOf, db, files, orphaned, stats, uploads, gc, now>>
  PROVE  IInv'
  <1> USE DEF IInv, RecordsSafe, GcIdle
  <1>1. call' \in [Calls -> CallRecs]
    BY DEF TypeOK, CallRecs
  <1>2. TypeOK'
    BY <1>1 DEF TypeOK, CallRecs
  <1>3. ContentReachable'
    BY ReachableFrame
  <1>4. UploadsNotOvercounted'
    BY DEF UploadsNotOvercounted
  <1>5. \A d \in Calls : PutsRecord(d)'
    BY DEF PutsRecord, TypeOK
  <1> QED BY <1>2, <1>3, <1>4, <1>5

(* A caller starts an operation that reads a record. *)
LEMMA StartKeeps ==
  ASSUME IInv, NEW c \in Calls, NEW t \in Tasks,
         \/ Prepare(c, t) \/ StartPersistentTask(c, t) \/ StartPersistentCacheTask(c, t)
         \/ Persist(c, t) \/ Delete(c, t)
  PROVE  IInv'
  <1> USE DEF IInv, RecordsSafe, GcIdle
  <1>1. /\ now \in 0..MaxTime /\ db[t] \in Records /\ call[c] \in CallRecs
        /\ call[c].next # "put"
    BY DEF TypeOK, CallRecs, PutsRecord
  <1>2. call[c].pc = "idle" /\ started' \in 0..MaxCalls
    BY BoundsAssumption DEF Prepare, StartPersistentTask, StartPersistentCacheTask, StartPersistent,
                            Persist, Delete, Begin, TypeOK
  <1>3. UNCHANGED <<KindOf, db, files, orphaned, stats, uploads, gc, now>>
    BY DEF Prepare, StartPersistentTask, StartPersistentCacheTask, StartPersistent, Persist, Delete
  <1>4. ASSUME NEW r \in Records, NEW next \in CallPcs, WillPut(c, t, r, next),
               r.updated # Unknown, next # "put"
        PROVE  IInv'
    <2> DEFINE rec == [pc |-> "put", task |-> t, copy |-> r, next |-> next]
    <2>1. rec \in CallRecs
      BY <1>4 DEF CallRecs, CallPcs
    <2>2. call' = [call EXCEPT ![c] = rec]
      BY <1>4 DEF WillPut
    <2> QED BY <1>2, <1>3, <1>4, <2>1, <2>2, CallFrame DEF BusyPcs
  <1>5. ASSUME NEW pc \in CallPcs, pc # "put", call' = [call EXCEPT ![c].pc = pc, ![c].task = t]
        PROVE  IInv'
    <2> DEFINE rec == [call[c] EXCEPT !.pc = pc, !.task = t]
    <2>1. rec \in CallRecs /\ rec.pc = pc /\ rec.next # "put"
      BY <1>1, <1>5 DEF CallRecs
    <2>2. call' = [call EXCEPT ![c] = rec]
      BY <1>5
    <2> QED BY <1>2, <1>3, <1>5, <2>1, <2>2, CallFrame DEF BusyPcs
  <1>6. CASE Prepare(c, t)
    <2>1. /\ prepare_download_task(db[t]) \in Records
          /\ prepare_download_task(db[t]).updated # Unknown
      BY <1>1, StartedType
    <2>2. "prepared" \in CallPcs /\ "running" \in CallPcs
      BY DEF CallPcs
    <2> QED BY <1>4, <1>5, <1>6, <2>1, <2>2 DEF Prepare
  <1>7. CASE StartPersistentTask(c, t) \/ StartPersistentCacheTask(c, t)
    <2>1. PICK p \in BOOLEAN, at \in {0, now} :
             WillPut(c, t, Redownloaded(db[t], Length[t], p, at), "content")
      BY <1>7 DEF StartPersistentTask, StartPersistentCacheTask, StartPersistent,
         download_persistent_task_started, download_persistent_cache_task_started
    <2>2. /\ Redownloaded(db[t], Length[t], p, at) \in Records
          /\ Redownloaded(db[t], Length[t], p, at).updated # Unknown
      BY <1>1, StartedType
    <2>3. "content" \in CallPcs
      BY DEF CallPcs
    <2> QED BY <1>4, <2>1, <2>2, <2>3
  <1>8. CASE Persist(c, t)
    <2>1. WillPut(c, t, persist_persistent_task(db[t]), "idle")
      BY <1>8 DEF Persist, persist_persistent_task, persist_persistent_cache_task
    <2>2. /\ persist_persistent_task(db[t]) \in Records
          /\ persist_persistent_task(db[t]).updated # Unknown
      BY <1>1, TouchedType
    <2>3. "idle" \in CallPcs
      BY DEF CallPcs
    <2> QED BY <1>4, <2>1, <2>2, <2>3
  <1>9. CASE Delete(c, t)
    <2>1. "delete_record" \in CallPcs
      BY DEF CallPcs
    <2> QED BY <1>5, <1>9, <2>1 DEF Delete, Begin
  <1> QED BY <1>6, <1>7, <1>8, <1>9

(* A caller goes to another place in its operation, or ends it. *)
LEMMA ToType ==
  ASSUME TypeOK, NEW c \in Calls, PutsRecord(c), NEW pc \in CallPcs, To(c, pc)
  PROVE  \E r \in CallRecs : /\ call' = [call EXCEPT ![c] = r]
                             /\ r.pc = pc /\ r.next # "put"
                             /\ pc # "idle" => r.task = call[c].task
  <1>1. call[c] \in CallRecs /\ call[c].next # "put"
    BY DEF TypeOK, CallRecs, PutsRecord
  <1>2. CASE pc = "idle"
    <2>1. NoCall \in CallRecs /\ NoCall.pc = "idle" /\ NoCall.next = "idle"
      BY EmptyRecords DEF NoCall
    <2> QED BY <1>2, <2>1 DEF To
  <1>3. CASE pc # "idle"
    <2> DEFINE r == [call[c] EXCEPT !.pc = pc]
    <2>1. r \in CallRecs /\ r.pc = pc /\ r.task = call[c].task /\ r.next # "put"
      BY <1>1 DEF CallRecs
    <2>2. call' = [call EXCEPT ![c] = r]
      BY <1>3 DEF To
    <2> QED BY <2>1, <2>2
  <1> QED BY <1>2, <1>3

(* A download or a creation ends, well or not. *)
LEMMA EndKeeps ==
  ASSUME IInv, NEW c \in Calls, Finish(c) \/ Fail(c) \/ CreateFailed(c)
  PROVE  IInv'
  <1> USE DEF IInv, RecordsSafe, GcIdle
  <1>1. PICK t \in Tasks : t = call[c].task
    BY DEF TypeOK, CallRecs
  <1>2. now \in 0..MaxTime /\ db[t] \in Records /\ started' \in 0..MaxCalls
    BY DEF TypeOK, Finish, Fail, CreateFailed
  <1>3. call[c].pc \notin BusyPcs
    BY DEF Finish, Fail, CreateFailed, BusyPcs
  <1>4. UNCHANGED <<KindOf, db, files, orphaned, stats, uploads, gc, now>>
    BY DEF Finish, Fail, CreateFailed
  <1>5. ASSUME NEW pc \in CallPcs, pc # "put", To(c, pc) PROVE IInv'
    <2>1. PICK r \in CallRecs : call' = [call EXCEPT ![c] = r] /\ r.pc = pc /\ r.next # "put"
      BY <1>5, ToType
    <2> QED BY <1>2, <1>3, <1>4, <1>5, <2>1, CallFrame
  <1>6. ASSUME NEW r \in Records, r.updated # Unknown, WillPut(c, t, r, "idle") PROVE IInv'
    <2> DEFINE rec == [pc |-> "put", task |-> t, copy |-> r, next |-> "idle"]
    <2>1. rec \in CallRecs
      BY DEF CallRecs, CallPcs
    <2>2. call' = [call EXCEPT ![c] = rec]
      BY <1>6 DEF WillPut
    <2> QED BY <1>2, <1>3, <1>4, <1>6, <2>1, <2>2, CallFrame
  <1>7. "idle" \in CallPcs /\ "delete_record" \in CallPcs
    BY DEF CallPcs
  <1>8. CASE Finish(c)
    <2>1. To(c, "idle") \/ WillPut(c, t, Finished(db[t]), "idle")
      BY <1>1, <1>8 DEF Finish, download_task_finished, download_persistent_task_finished,
                        download_persistent_cache_task_finished
    <2> QED BY <1>2, <1>5, <1>6, <1>7, <2>1, TouchedType
  <1>9. CASE Fail(c)
    <2>1. To(c, "idle") \/ WillPut(c, t, Failed(db[t]), "idle")
      BY <1>1, <1>9 DEF Fail, download_task_failed, download_persistent_task_failed,
                        download_persistent_cache_task_failed
    <2> QED BY <1>2, <1>5, <1>6, <1>7, <2>1, TouchedType
  <1>10. CASE CreateFailed(c)
    BY <1>5, <1>7, <1>10 DEF CreateFailed
  <1> QED BY <1>8, <1>9, <1>10

(* The copy is put: a record that was in use is there afterwards. *)
LEMMA PutKeeps ==
  ASSUME IInv, NEW c \in Calls, Put(c)
  PROVE  IInv'
  <1> USE DEF IInv, RecordsSafe, GcIdle, Put
  <1>1. PICK t \in Tasks : t = call[c].task
    BY DEF TypeOK
  <1>2. /\ call[c] \in CallRecs /\ call[c].copy \in Records
        /\ call[c].copy.updated # Unknown /\ call[c].next # "put"
    BY DEF TypeOK, CallRecs, PutsRecord
  <1>3. call[c].copy # NoTask
    BY <1>2 DEF NoTask, Unknown
  <1>4. PICK r \in CallRecs : call' = [call EXCEPT ![c] = r]
    <2>1. CASE call[c].next = "idle"
      BY <2>1, EmptyRecords
    <2>2. CASE call[c].next = "prepared"
      <3>1. [call[c] EXCEPT !.pc = "prepared"] \in CallRecs
        BY <1>2 DEF CallRecs, CallPcs
      <3> QED BY <2>2, <3>1
    <2>3. CASE call[c].next \notin {"idle", "prepared"}
      <3>1. [call[c] EXCEPT !.pc = call[c].next, !.copy = NoTask] \in CallRecs
        BY <1>2, EmptyRecords DEF CallRecs
      <3> QED BY <2>3, <3>1
    <2> QED BY <2>1, <2>2, <2>3
  <1>5. /\ call'[c].pc = call[c].next /\ call'[c].next = call[c].next
        /\ \A d \in Calls \ {c} : call'[d] = call[d]
    <2>1. NoCall.pc = "idle" /\ NoCall.next = "idle"
      BY DEF NoCall
    <2> QED BY <1>2, <2>1 DEF TypeOK, CallRecs
  <1>6. /\ db' = [db EXCEPT ![t] = call[c].copy] /\ db'[t] # NoTask
        /\ \A u \in Tasks \ {t} : db'[u] = db[u]
    BY <1>1, <1>3 DEF TypeOK
  <1>7. TypeOK'
    <2>1. call' \in [Calls -> CallRecs]
      BY <1>4 DEF TypeOK, CallRecs
    <2>2. db' \in [Tasks -> Records]
      BY <1>2, <1>6 DEF TypeOK
    <2> QED BY <2>1, <2>2 DEF TypeOK, CallRecs
  <1>8. ContentReachable'
    <2> SUFFICES ASSUME NEW u \in files, KindOf[u] = "task", ~Busy(u)', u # t, u \notin orphaned
                 PROVE  db[u] # NoTask
      BY <1>1, <1>6 DEF ContentReachable, TypeOK
    <2>1. ~Busy(u)
      BY <1>1, <1>5 DEF Busy
    <2> QED BY <2>1 DEF ContentReachable
  <1>9. UploadsNotOvercounted'
    BY DEF UploadsNotOvercounted
  <1>10. \A d \in Calls : PutsRecord(d)'
    BY <1>2, <1>5 DEF PutsRecord
  <1> QED BY <1>7, <1>8, <1>9, <1>10

(* A file is created while its record is on its way, or for a kind whose     *)
(* record comes first.                                                       *)
LEMMA ContentKeeps ==
  ASSUME IInv, NEW c \in Calls,
         \/ StartTask(c) \/ StartRefused(c) \/ AllocateFailed(c) \/ NotLinked(c)
         \/ create_persistent_task(c) \/ create_persistent_cache_task(c) \/ ContentFailed(c)
  PROVE  IInv'
  <1> USE DEF IInv, RecordsSafe, GcIdle
  <1>1. PICK t \in Tasks : t = call[c].task
    BY DEF TypeOK
  <1>2. /\ UNCHANGED <<KindOf, db, stats, uploads, started, gc, now>>
        /\ call[c].pc \in {"prepared", "running", "content", "create_content"}
        /\ orphaned \subseteq orphaned' /\ orphaned' \subseteq Tasks
    BY <1>1 DEF StartTask, StartRefused, AllocateFailed, NotLinked, ContentFailed,
                create_persistent_task, create_persistent_cache_task, ContentCreated, TypeOK
  <1>3. \E r \in CallRecs :
           /\ call' = [call EXCEPT ![c] = r]
           /\ r.pc = "put" => r.copy.updated # Unknown
           /\ r.next # "put"
           /\ \/ files' = files
              \/ files' = files \cup {t} /\ KindOf[t] # "task"
              \/ files' = files \cup {t} /\ r.pc = "put" /\ r.task = t
              \/ files' = files \cup {t} /\ (db[t] # NoTask \/ t \in orphaned')
    <2>1. CASE StartTask(c)
      <3> DEFINE new == download_task_started(db[t], Length[t])
                 rec == [pc |-> "put", task |-> t, copy |-> new, next |-> "running"]
      <3>1. new \in Records /\ new.updated # Unknown
        BY StartedType DEF TypeOK
      <3>2. rec \in CallRecs
        BY <3>1 DEF CallRecs, CallPcs
      <3>3. call' = [call EXCEPT ![c] = rec] /\ files' = files \cup {t}
        BY <1>1, <2>1 DEF StartTask, WillPut
      <3> QED BY <3>1, <3>2, <3>3
    <2>2. CASE create_persistent_task(c) \/ create_persistent_cache_task(c)
      <3>1. files' = files \cup {t} /\ KindOf[t] # "task"
        BY <1>1, <2>2 DEF create_persistent_task, create_persistent_cache_task, ContentCreated
      <3>2. PICK pc \in {"running", "creating"} : To(c, pc)
        BY <2>2 DEF create_persistent_task, create_persistent_cache_task, ContentCreated
      <3>3. pc \in CallPcs
        BY DEF CallPcs
      <3>4. PICK r \in CallRecs : call' = [call EXCEPT ![c] = r] /\ r.pc = pc /\ r.next # "put"
        BY <3>2, <3>3, ToType
      <3> QED BY <3>1, <3>4
    <2>3. CASE \/ StartRefused(c) \/ AllocateFailed(c) \/ NotLinked(c) \/ ContentFailed(c)
      <3>1. PICK pc \in {"idle", "delete_record"} : To(c, pc)
        BY <2>3 DEF StartRefused, AllocateFailed, NotLinked, ContentFailed
      <3>2. pc \in CallPcs
        BY DEF CallPcs
      <3>3. PICK r \in CallRecs : call' = [call EXCEPT ![c] = r] /\ r.pc = pc /\ r.next # "put"
        BY <3>1, <3>2, ToType
      <3>4. \/ files' = files
            \/ files' = files \cup {t} /\ KindOf[t] # "task"
            \/ files' = files \cup {t} /\ (db[t] # NoTask \/ t \in orphaned')
        <4>1. CASE StartRefused(c) \/ NotLinked(c)
          BY <4>1 DEF StartRefused, NotLinked
        <4>2. CASE AllocateFailed(c)
          BY <1>1, <4>2 DEF AllocateFailed
        <4>3. CASE ContentFailed(c)
          BY <1>1, <4>3 DEF ContentFailed
        <4> QED BY <2>3, <4>1, <4>2, <4>3
      <3> QED BY <3>3, <3>4
    <2> QED BY <2>1, <2>2, <2>3
  <1>4. PICK r \in CallRecs :
           /\ call' = [call EXCEPT ![c] = r]
           /\ r.pc = "put" => r.copy.updated # Unknown
           /\ r.next # "put"
           /\ \/ files' = files
              \/ files' = files \cup {t} /\ KindOf[t] # "task"
              \/ files' = files \cup {t} /\ r.pc = "put" /\ r.task = t
              \/ files' = files \cup {t} /\ (db[t] # NoTask \/ t \in orphaned')
    BY <1>3
  <1>5. TypeOK'
    <2>1. call' \in [Calls -> CallRecs] /\ files' \subseteq Tasks
      BY <1>4 DEF TypeOK, CallRecs
    <2> QED BY <1>2, <2>1 DEF TypeOK, CallRecs
  <1>6. ContentReachable'
    BY <1>2, <1>4, ReachableFrame DEF BusyPcs
  <1>7. UploadsNotOvercounted'
    BY <1>2 DEF UploadsNotOvercounted
  <1>8. \A d \in Calls : PutsRecord(d)'
    BY <1>4 DEF PutsRecord, TypeOK
  <1> QED BY <1>2, <1>5, <1>6, <1>7, <1>8

(* A creation overwrites the record. *)
LEMMA CreateKeeps ==
  ASSUME IInv, NEW c \in Calls, NEW t \in Tasks,
         CreatePersistentTask(c, t) \/ CreatePersistentCacheTask(c, t)
  PROVE  IInv'
  <1> USE DEF IInv, RecordsSafe, GcIdle
  <1>1. /\ Begin(c, t, "create_content") /\ db' = [db EXCEPT ![t] = Created(Length[t])]
        /\ UNCHANGED <<KindOf, files, orphaned, stats, uploads, gc, now>>
    BY DEF CreatePersistentTask, CreatePersistentCacheTask, CreatePersistent,
           create_persistent_task_started, create_persistent_cache_task_started
  <1>2. NoTask \in Records /\ TRUE \in BOOLEAN /\ now \in {0, now} /\ now \in 0..MaxTime
    BY EmptyRecords DEF TypeOK
  <1>3. Created(Length[t]) \in Records /\ Created(Length[t]).updated # Unknown
    BY <1>2, StartedType
  <1>4. Created(Length[t]) # NoTask
    BY <1>3 DEF NoTask, Unknown
  <1>5. \A d \in Calls : /\ call'[d].pc = IF d = c THEN "create_content" ELSE call[d].pc
                         /\ call'[d].copy = call[d].copy /\ call'[d].next = call[d].next
                         /\ d # c => call'[d] = call[d]
    BY <1>1 DEF Begin, TypeOK
  <1>6. TypeOK'
    <2>1. call[c] \in CallRecs
      BY DEF TypeOK, CallRecs
    <2>2. [call[c] EXCEPT !.pc = "create_content", !.task = t] \in CallRecs
      BY <2>1 DEF CallRecs, CallPcs
    <2>3. call' = [call EXCEPT ![c] = [call[c] EXCEPT !.pc = "create_content", !.task = t]]
      BY <1>1 DEF Begin
    <2>4. call' \in [Calls -> CallRecs]
      BY <2>2, <2>3 DEF TypeOK, CallRecs
    <2>5. started' \in 0..MaxCalls /\ db' \in [Tasks -> Records]
      BY <1>1, <1>3, BoundsAssumption DEF Begin, TypeOK
    <2> QED BY <1>1, <2>4, <2>5 DEF TypeOK, CallRecs
  <1>7. ContentReachable'
    <2> SUFFICES ASSUME NEW u \in files, KindOf[u] = "task", ~Busy(u)', u # t, u \notin orphaned
                 PROVE  db[u] # NoTask
      BY <1>1, <1>4 DEF ContentReachable, TypeOK
    <2>1. ~Busy(u)
      BY <1>1, <1>5 DEF Busy, Begin
    <2> QED BY <2>1 DEF ContentReachable
  <1>8. UploadsNotOvercounted'
    BY <1>1 DEF UploadsNotOvercounted
  <1>9. \A d \in Calls : PutsRecord(d)'
    BY <1>5 DEF PutsRecord
  <1> QED BY <1>1, <1>6, <1>7, <1>8, <1>9

(* Deleting a record resets its upload count and leaves the others alone. *)
LEMMA DeleteRecordType ==
  ASSUME IInv, NEW t \in Tasks, delete_record(t), uploads' = uploads
  PROVE  /\ db' \in [Tasks -> Records] /\ stats' \in [Tasks -> Int]
         /\ \A u \in Tasks \ {t} : db'[u] = db[u]
         /\ UploadsNotOvercounted'
  <1> USE DEF IInv, RecordsSafe, GcIdle, delete_record
  <1>1. db' \in [Tasks -> Records] /\ \A u \in Tasks \ {t} : db'[u] = db[u]
    BY EmptyRecords DEF TypeOK
  <1>2. stats' \in [Tasks -> Int]
    BY DEF TypeOK
  <1>3. UploadsNotOvercounted'
    BY BoundsAssumption DEF UploadsNotOvercounted, TypeOK
  <1> QED BY <1>1, <1>2, <1>3

(* A caller deletes: first the record, the content while it is still busy. *)
LEMMA DeleteKeeps ==
  ASSUME IInv, NEW c \in Calls, DeleteRecord(c) \/ DeleteContent(c)
  PROVE  IInv'
  <1> USE DEF IInv, RecordsSafe, GcIdle
  <1>1. PICK t \in Tasks : t = call[c].task
    BY DEF TypeOK
  <1>2. PICK r \in CallRecs :
           /\ call' = [call EXCEPT ![c] = r] /\ r.pc \in {"delete_content", "idle"} /\ r.next # "put"
           /\ DeleteRecord(c) => r.pc = "delete_content" /\ r.task = t
    <2>1. "idle" \in CallPcs /\ "delete_content" \in CallPcs
      BY DEF CallPcs
    <2>2. CASE DeleteRecord(c)
      BY <1>1, <2>1, <2>2, ToType DEF DeleteRecord
    <2>3. CASE DeleteContent(c)
      <3>1. ~DeleteRecord(c)
        BY <2>3 DEF DeleteRecord, DeleteContent
      <3> QED BY <2>1, <2>3, <3>1, ToType DEF DeleteContent
    <2> QED BY <2>2, <2>3
  <1>3. call'[c] = r /\ \A d \in Calls \ {c} : call'[d] = call[d]
    BY <1>2 DEF TypeOK
  <1>4. /\ UNCHANGED <<KindOf, uploads, started, gc, now>> /\ files' \subseteq files
        /\ orphaned' \subseteq orphaned /\ orphaned \ {t} \subseteq orphaned'
    BY <1>1 DEF DeleteRecord, DeleteContent, delete_content
  <1>5. /\ db' \in [Tasks -> Records] /\ stats' \in [Tasks -> Int]
        /\ \A u \in Tasks \ {t} : db'[u] = db[u]
        /\ UploadsNotOvercounted'
    <2>1. CASE DeleteRecord(c)
      BY <1>1, <1>4, <2>1, DeleteRecordType DEF DeleteRecord
    <2>2. CASE DeleteContent(c)
      BY <2>2 DEF DeleteContent, TypeOK, UploadsNotOvercounted
    <2> QED BY <2>1, <2>2
  <1>6. TypeOK'
    <2>1. call' \in [Calls -> CallRecs]
      BY <1>2 DEF TypeOK, CallRecs
    <2> QED BY <1>4, <1>5, <2>1 DEF TypeOK, CallRecs
  <1>7. ContentReachable'
    <2> SUFFICES ASSUME NEW u \in files', KindOf[u] = "task", ~Busy(u)', u \notin orphaned'
                 PROVE  u # t /\ db[u] # NoTask
      BY <1>4, <1>5 DEF ContentReachable, TypeOK
    <2>1. u # t
      <3>1. CASE DeleteRecord(c)
        BY <1>2, <1>3, <3>1 DEF Busy
      <3>2. CASE DeleteContent(c)
        BY <1>1, <3>2 DEF DeleteContent, delete_content
      <3> QED BY <3>1, <3>2
    <2>2. ~Busy(u)
      BY <1>1, <1>3, <1>4, <2>1 DEF Busy
    <2> QED BY <1>4, <2>1, <2>2 DEF ContentReachable
  <1>8. \A d \in Calls : PutsRecord(d)'
    BY <1>2, <1>3 DEF PutsRecord
  <1> QED BY <1>4, <1>5, <1>6, <1>7, <1>8

(* Uploads begin and end counted. *)
LEMMA UploadKeeps ==
  ASSUME IInv, NEW t \in Tasks, upload_started(t) \/ upload_ended(t)
  PROVE  IInv'
  <1> USE DEF IInv, RecordsSafe, GcIdle
  <1>1. UNCHANGED <<KindOf, db, files, orphaned, call, gc, now>>
    BY DEF upload_started, upload_ended
  <1>2. /\ uploads' \in [Tasks -> 0..MaxUploads] /\ stats' \in [Tasks -> Int]
        /\ started' \in 0..MaxCalls
    BY BoundsAssumption DEF upload_started, upload_ended, TypeOK
  <1>3. TypeOK'
    BY <1>1, <1>2 DEF TypeOK
  <1>4. UploadsNotOvercounted'
    BY BoundsAssumption DEF UploadsNotOvercounted, upload_started, upload_ended, TypeOK
  <1>5. ContentReachable'
    BY <1>1 DEF ContentReachable, Busy
  <1>6. \A d \in Calls : PutsRecord(d)'
    BY <1>1 DEF PutsRecord
  <1> QED BY <1>1, <1>3, <1>4, <1>5, <1>6

GcRecs == [at : 0..6, queue : SUBSET [id : Tasks, rec : Records], need : Nat,
           evicted : Nat, del : {"none", "record", "content"}, id : Tasks]

(* The next pass starts from the records there are. *)
LEMMA NextKindType ==
  ASSUME TypeOK, NEW at \in 0..6
  PROVE  NextKind(at) \in GcRecs /\ NextKind(at).del = "none"
  <1>1. NoGc \in GcRecs /\ NoGc.del = "none"
    BY EmptyRecords DEF GcRecs, NoGc
  <1>2. CASE at >= 6
    BY <1>1, <1>2 DEF NextKind
  <1>3. CASE ~(at >= 6)
    <2>1. at + 1 \in 0..6
      BY <1>3
    <2>2. Snapshot(Order[(at + 2) \div 2]) \subseteq [id : Tasks, rec : Records]
      BY DEF Snapshot, TypeOK
    <2> QED BY <1>1, <1>3, <2>1, <2>2 DEF NextKind, GcRecs
  <1> QED BY <1>2, <1>3

(* A pass of the collector decides on a task and changes nothing else yet. *)
LEMMA PassKeeps ==
  ASSUME IInv, NEW k \in Kinds, Tick \/ EvictByTtl(k) \/ EvictByDiskUsage(k) \/ EvictSpace(k)
  PROVE  IInv'
  <1> USE DEF IInv, RecordsSafe, GcIdle
  <1>1. UNCHANGED <<KindOf, db, files, orphaned, stats, uploads, call, started, now>>
    BY DEF Tick, EvictByTtl, EvictByDiskUsage, EvictSpace
  <1>2. gc \in GcRecs
    BY DEF TypeOK, GcRecs
  <1>3. ASSUME NEW e \in gc.queue
        PROVE  /\ Evict(e) \in GcRecs /\ Skip(e) \in GcRecs
               /\ Skip(e).del = gc.del /\ Skip(e).at = gc.at /\ Evict(e).at = gc.at
               /\ [Evict(e) EXCEPT !.evicted = @ + TaskSpace(e.rec)].at = gc.at
               /\ [Evict(e) EXCEPT !.evicted = @ + TaskSpace(e.rec)] \in GcRecs
    <2>1. e \in [id : Tasks, rec : Records]
      BY <1>2 DEF GcRecs
    <2>2. Evict(e) \in GcRecs /\ Evict(e).at = gc.at
      BY <1>2, <2>1 DEF Evict, GcRecs
    <2>3. Skip(e) \in GcRecs /\ Skip(e).del = gc.del /\ Skip(e).at = gc.at
      BY <1>2 DEF Skip, GcRecs
    <2>4. e.rec.length = Unknown \/ e.rec.length \in Nat
      BY <2>1, TasksAssumption DEF Records
    <2>5. TaskSpace(e.rec) \in Nat
      BY <2>4 DEF TaskSpace
    <2>6. Evict(e).evicted + TaskSpace(e.rec) \in Nat
      BY <2>2, <2>5 DEF GcRecs
    <2> QED BY <2>2, <2>3, <2>6 DEF GcRecs
  <1>4. /\ gc' \in GcRecs /\ gc.del = "none"
        /\ gc'.at = 0 => gc'.del = "none"
    <2>1. CASE Tick
      <3>1. gc' = NextKind(0) /\ 0 \in 0..6 /\ gc.at = 0
        BY <2>1 DEF Tick
      <3> QED BY <3>1, NextKindType
    <2>2. CASE EvictByTtl(k)
      <3>1. PICK e \in gc.queue : gc' \in {Evict(e), Skip(e)} /\ gc.del = "none" /\ gc.at # 0
        BY <1>2, <2>2 DEF EvictByTtl, InTtlPass, GcRecs
      <3> QED BY <1>3, <3>1
    <2>3. CASE EvictByDiskUsage(k)
      <3>1. gc.del = "none" /\ gc.at + 1 \in 0..6
        BY <1>2, <2>3 DEF EvictByDiskUsage, InTtlPass, GcRecs
      <3>2. CASE files \in HighUsage
        <4>1. gc' = [NoGc EXCEPT !.at = gc.at + 1, !.queue = Snapshot(k), !.need = need_evict_space]
          BY <2>3, <3>2 DEF EvictByDiskUsage
        <4>2. Snapshot(k) \subseteq [id : Tasks, rec : Records]
          BY DEF Snapshot, TypeOK
        <4>3. need_evict_space \in Nat /\ NoGc \in GcRecs
          BY NeedType, EmptyRecords DEF TypeOK, GcRecs
        <4>4. gc' \in GcRecs /\ gc'.del = "none"
          BY <3>1, <4>1, <4>2, <4>3 DEF GcRecs, NoGc
        <4> QED BY <3>1, <4>4
      <3>3. CASE files \notin HighUsage
        BY <2>3, <3>1, <3>3, NextKindType DEF EvictByDiskUsage
      <3> QED BY <3>2, <3>3
    <2>4. CASE EvictSpace(k)
      <3>1. gc.del = "none" /\ gc.at \in 0..6 /\ gc.at # 0
        BY <1>2, <2>4 DEF EvictSpace, GcRecs, InDiskPass
      <3>2. CASE gc.evicted >= gc.need \/ gc.queue = {}
        BY <2>4, <3>1, <3>2, NextKindType DEF EvictSpace
      <3>3. CASE ~(gc.evicted >= gc.need \/ gc.queue = {})
        <4>1. PICK e \in gc.queue :
                 gc' \in {[Evict(e) EXCEPT !.evicted = @ + TaskSpace(e.rec)], Skip(e)}
          BY <2>4, <3>3 DEF EvictSpace
        <4> QED BY <1>3, <3>1, <4>1
      <3> QED BY <3>2, <3>3
    <2> QED BY <2>1, <2>2, <2>3, <2>4
  <1>5. TypeOK'
    BY <1>1, <1>4 DEF TypeOK, GcRecs
  <1>6. ContentReachable'
    <2> SUFFICES ASSUME NEW u \in files, KindOf[u] = "task", ~Busy(u)', u \notin orphaned
                 PROVE  db[u] # NoTask
      BY <1>1 DEF ContentReachable
    <2>1. ~Busy(u)
      BY <1>1, <1>4 DEF Busy
    <2> QED BY <2>1 DEF ContentReachable
  <1>7. UploadsNotOvercounted' /\ \A d \in Calls : PutsRecord(d)'
    BY <1>1 DEF UploadsNotOvercounted, PutsRecord
  <1> QED BY <1>4, <1>5, <1>6, <1>7

(* The collector deletes: first the record, the content while it is busy. *)
LEMMA GcDeleteKeeps ==
  ASSUME IInv, GcDeleteRecord \/ GcDeleteContent
  PROVE  IInv'
  <1> USE DEF IInv, RecordsSafe, GcIdle
  <1>1. PICK t \in Tasks : t = gc.id
    BY DEF TypeOK
  <1>2. /\ UNCHANGED <<KindOf, uploads, call, started, now>> /\ files' \subseteq files
        /\ orphaned' \subseteq orphaned /\ orphaned \ {t} \subseteq orphaned'
        /\ gc' \in GcRecs /\ gc'.id = t
        /\ gc'.at = gc.at /\ gc.del # "none"
        /\ \/ gc'.del = "content" /\ files' = files
           \/ gc'.del = "none" /\ t \notin files'
    BY <1>1 DEF GcDeleteRecord, GcDeleteContent, delete_content, TypeOK, GcRecs
  <1>3. /\ db' \in [Tasks -> Records] /\ stats' \in [Tasks -> Int]
        /\ \A u \in Tasks \ {t} : db'[u] = db[u]
        /\ UploadsNotOvercounted'
    <2>1. CASE GcDeleteRecord
      BY <1>1, <1>2, <2>1, DeleteRecordType DEF GcDeleteRecord
    <2>2. CASE GcDeleteContent
      BY <2>2 DEF GcDeleteContent, TypeOK, UploadsNotOvercounted
    <2> QED BY <2>1, <2>2
  <1>4. TypeOK'
    BY <1>2, <1>3 DEF TypeOK, GcRecs
  <1>5. ContentReachable'
    <2> SUFFICES ASSUME NEW u \in files', KindOf[u] = "task", ~Busy(u)', u \notin orphaned'
                 PROVE  u # t /\ db[u] # NoTask
      BY <1>2, <1>3 DEF ContentReachable, TypeOK
    <2>1. u # t
      BY <1>2 DEF Busy
    <2>2. ~Busy(u)
      BY <1>1, <1>2, <2>1 DEF Busy
    <2> QED BY <1>2, <2>1, <2>2 DEF ContentReachable
  <1>6. \A d \in Calls : PutsRecord(d)'
    BY <1>2 DEF PutsRecord
  <1> QED BY <1>2, <1>3, <1>4, <1>5, <1>6

-----------------------------------------------------------------------------
(* The invariant.                                                          *)

(* The invariant holds at the start. *)
LEMMA InitInv == Init => IInv
  <1> SUFFICES ASSUME Init PROVE IInv
    OBVIOUS
  <1> USE DEF Init
  <1>1. NoCall.next = "idle" /\ NoCall.pc = "idle"
    BY DEF NoCall
  <1>2. TypeOK
    BY EmptyRecords, KindsAssumption, BoundsAssumption DEF TypeOK, CallRecs
  <1>3. ContentReachable /\ UploadsNotOvercounted /\ GcIdle
    BY DEF ContentReachable, UploadsNotOvercounted, GcIdle, NoGc
  <1>4. \A c \in Calls : PutsRecord(c)
    BY <1>1 DEF PutsRecord
  <1> QED BY <1>2, <1>3, <1>4 DEF IInv, RecordsSafe

(* Every step keeps it. *)
LEMMA NextInv == IInv /\ [Next]_vars => IInv'
  <1> SUFFICES ASSUME IInv, [Next]_vars PROVE IInv'
    OBVIOUS
  <1>1. ASSUME NEW c \in Calls,
               \/ Put(c) \/ StartTask(c) \/ StartRefused(c) \/ AllocateFailed(c) \/ NotLinked(c)
               \/ create_persistent_task(c) \/ create_persistent_cache_task(c) \/ ContentFailed(c)
               \/ Finish(c) \/ Fail(c)
               \/ CreateFailed(c) \/ DeleteRecord(c) \/ DeleteContent(c)
        PROVE  IInv'
    BY <1>1, PutKeeps, ContentKeeps, EndKeeps, DeleteKeeps
  <1>2. ASSUME NEW c \in Calls, NEW t \in Tasks,
               \/ Prepare(c, t) \/ StartPersistentTask(c, t) \/ StartPersistentCacheTask(c, t)
               \/ CreatePersistentTask(c, t) \/ CreatePersistentCacheTask(c, t)
               \/ Persist(c, t) \/ Delete(c, t)
        PROVE  IInv'
    BY <1>2, StartKeeps, CreateKeeps
  <1>3. ASSUME NEW t \in Tasks, upload_started(t) \/ upload_ended(t) PROVE IInv'
    BY <1>3, UploadKeeps
  <1>4. CASE Collect
    <2>1. "task" \in Kinds /\ "persistent" \in Kinds /\ "persistent_cache" \in Kinds
      BY DEF Kinds
    <2>2. GcDeleteRecord \/ GcDeleteContent
          \/ \E k \in Kinds : Tick \/ EvictByTtl(k) \/ EvictByDiskUsage(k) \/ EvictSpace(k)
      BY <1>4, <2>1 DEF Collect, evict_task_by_ttl, evict_persistent_task_by_ttl,
         evict_persistent_cache_task_by_ttl, evict_task_by_disk_usage,
         evict_persistent_task_by_disk_usage, evict_persistent_cache_task_by_disk_usage,
         evict_task_space, evict_persistent_task_space, evict_persistent_cache_task_space
    <2> QED BY <2>2, PassKeeps, GcDeleteKeeps
  <1>5. CASE Clock \/ UNCHANGED vars
    <2> USE DEF IInv, RecordsSafe, GcIdle
    <2>1. UNCHANGED <<KindOf, db, files, orphaned, stats, uploads, call, started, gc>>
      BY <1>5 DEF Clock, vars
    <2>2. now' \in 0..MaxTime
      BY <1>5, BoundsAssumption DEF Clock, vars, TypeOK
    <2>3. TypeOK'
      BY <2>1, <2>2 DEF TypeOK
    <2>4. ContentReachable' /\ UploadsNotOvercounted' /\ \A c \in Calls : PutsRecord(c)'
      BY <2>1 DEF ContentReachable, Busy, UploadsNotOvercounted, PutsRecord
    <2> QED BY <2>1, <2>3, <2>4
  <1> QED BY <1>1, <1>2, <1>3, <1>4, <1>5 DEF Next

(* Records, files and upload counts stay as they should, however callers,    *)
(* uploads and the collector interleave (metadata.rs, lib.rs, gc/mod.rs).    *)
THEOREM RecordsAlwaysSafe == Spec => []RecordsSafe
  <1>1. IInv => RecordsSafe
    BY DEF IInv
  <1> QED BY <1>1, InitInv, NextInv, PTL DEF Spec
=============================================================================
