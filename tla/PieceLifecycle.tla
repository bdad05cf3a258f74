--------------------------- MODULE PieceLifecycle ---------------------------
(***************************************************************************)
(* The life of ONE piece of a task in the storage of a dfdaemon: its       *)
(* record in RocksDB, its byte range in the task file, the in-memory       *)
(* notifier that makes a download single-flight, the downloads and uploads *)
(* that race for it, the task deletion of the garbage collector, and       *)
(* process restarts.  All maps of the program are keyed by the piece id,   *)
(* so pieces do not interact except through the deletion of their task.    *)
(*                                                                         *)
(* Every step is one access to shared state: one RocksDB call, one access  *)
(* to the notifier map, one positional write.  Between two of them any     *)
(* other task of the runtime may run.                                      *)
(***************************************************************************)
EXTENDS Naturals, FiniteSets

CONSTANTS
    Downloaders,   \* concurrent calls of Piece::download_from_{parent,source}
    Uploaders,     \* concurrent calls of Storage::upload_piece
    Payloads,      \* the byte strings a source or a parent may deliver
    Transports,    \* how a piece may arrive: from a parent by "urma" or a TCP/QUIC
                   \* "stream", or from the origin, "source"
    Blocks,        \* a piece is written as blocks 1..Blocks, in order
    MaxCalls,      \* bound: calls made by one thread
    MaxTimeouts,   \* bound: waits that outlast piece_timeout + write_piece_timeout
    MaxCrashes,    \* bound: process restarts
    MaxDeletes     \* bound: task deletions by the garbage collector

Threads == Downloaders \cup Uploaders
NoPayload == "none"
Hole == "hole"

ASSUME ThreadsAssumption == Downloaders \cap Uploaders = {}
ASSUME PayloadsAssumption == NoPayload \notin Payloads /\ Hole \notin Payloads
ASSUME TransportsAssumption == Transports \subseteq {"urma", "stream", "source"} /\ Transports # {}
ASSUME BlocksAssumption == Blocks \in Nat \ {0}
ASSUME BoundsAssumption ==
    /\ MaxCalls \in Nat
    /\ MaxTimeouts \in Nat
    /\ MaxCrashes \in Nat
    /\ MaxDeletes \in Nat

VARIABLES
    piece,     \* state of the piece record in RocksDB
    digest,    \* digest stored in a finished record
    notifier,  \* is there an entry for the piece in PieceNotifier?
    file,      \* does the task file exist?
    content,   \* what each block of the byte range holds
    late,      \* writes left on the blocking pool by a dropped download
    pc,        \* where each thread is
    handle,    \* the Notify a thread waits on: "live", "woken", "orphan" or "none"
    via,       \* transport of the running attempt of a download
    payload,   \* what the running attempt receives; for an upload, the digest it serves
    block,     \* next block the attempt writes
    fd,        \* descriptor: "path" is the file at the task path, "removed" an older one
    calls,     \* calls made so far
    timeouts, crashes, deletes,
    gc         \* where Storage::delete_task is

db       == <<piece, digest>>
disk     == <<file, content, late>>
attempt  == <<via, payload, block, fd>>
bounds   == <<timeouts, crashes, deletes>>
vars     == <<piece, digest, notifier, file, content, late, pc, handle,
              via, payload, block, fd, calls, timeouts, crashes, deletes, gc>>

-----------------------------------------------------------------------------
(* The program counters, by function.                                      *)

\* wait_for_piece_finished: get, notifier.get, notified(), re-get, select!, the
\* timeout branch, and the branch without a notifier.
WaitLabels == {"lookup", "watch", "arm", "recheck", "wait",
               "expire_get", "expire_delete", "expire_notify",
               "alone_get1", "alone_check1", "alone_get2", "alone_check2",
               "stale_get", "stale_delete"}

\* download_piece_started after a failed wait.
ClaimLabels == {"claim", "claim_arm", "claim_wait"}

\* The thread owns the piece but has not yet recorded that its download started.
EntryLabels == {"own_get", "own_put", "own_release"}

\* The thread is the downloader of the piece.
DownloadLabels == {"download", "write", "verify", "finish_get", "finish_put",
                   "finish_notify", "fail_get", "fail_delete", "fail_notify"}

\* The attempt may still fail.
AttemptLabels == {"download", "write", "verify", "finish_get", "finish_put"}

OwnerLabels == EntryLabels \cup DownloadLabels
UploadLabels == {"open", "read"}
Labels == {"idle"} \cup WaitLabels \cup ClaimLabels \cup OwnerLabels \cup UploadLabels

ExpireLabels == {"expire_get", "expire_delete", "expire_notify"}

TypeOK ==
    /\ piece \in {"absent", "started", "finished"}
    /\ digest \in Payloads \cup {NoPayload}
    /\ notifier \in BOOLEAN
    /\ file \in BOOLEAN
    /\ content \in [1..Blocks -> Payloads \cup {Hole}]
    /\ late \subseteq (1..Blocks) \X Payloads
    /\ pc \in [Threads -> Labels]
    /\ handle \in [Threads -> {"none", "live", "woken", "orphan"}]
    /\ via \in [Threads -> Transports \cup {"none"}]
    /\ payload \in [Threads -> Payloads \cup {NoPayload}]
    /\ block \in [Threads -> 1..(Blocks + 1)]
    /\ fd \in [Threads -> {"none", "path", "removed"}]
    /\ calls \in [Threads -> 0..MaxCalls]
    /\ timeouts \in 0..MaxTimeouts
    /\ crashes \in 0..MaxCrashes
    /\ deletes \in 0..MaxDeletes
    /\ gc \in {"idle", "list", "batch", "content"}

Init ==
    /\ piece = "absent" /\ digest = NoPayload
    /\ notifier = FALSE
    /\ file = FALSE /\ content = [b \in 1..Blocks |-> Hole] /\ late = {}
    /\ pc = [t \in Threads |-> "idle"]
    /\ handle = [t \in Threads |-> "none"]
    /\ via = [t \in Threads |-> "none"]
    /\ payload = [t \in Threads |-> NoPayload]
    /\ block = [t \in Threads |-> 1]
    /\ fd = [t \in Threads |-> "none"]
    /\ calls = [t \in Threads |-> 0]
    /\ timeouts = 0 /\ crashes = 0 /\ deletes = 0
    /\ gc = "idle"

-----------------------------------------------------------------------------
(* Helpers.                                                                *)

Goto(t, from, to) == pc[t] = from /\ pc' = [pc EXCEPT ![t] = to]

\* PieceNotifier::get and claim hand out the Arc<Notify> of the entry.
Grab(t) == handle' = [handle EXCEPT ![t] = "live"]
Drop(t) == handle' = [handle EXCEPT ![t] = "none"]

\* PieceNotifier::remove_and_notify.  notify_waiters wakes the futures that exist;
\* a thread that holds the Notify but has not yet called notified() is never woken.
remove_and_notify ==
    /\ notifier' = FALSE
    /\ handle' = [t \in Threads |->
                    IF ~notifier \/ handle[t] # "live" THEN handle[t]
                    ELSE IF pc[t] \in {"arm", "claim_arm"} THEN "orphan" ELSE "woken"]

\* The call returns: its stream, descriptor and hasher are dropped.
Return(t) ==
    /\ via' = [via EXCEPT ![t] = "none"]
    /\ payload' = [payload EXCEPT ![t] = NoPayload]
    /\ block' = [block EXCEPT ![t] = 1]
    /\ fd' = [fd EXCEPT ![t] = "none"]

PutStarted == piece' = "started" /\ digest' = NoPayload
PutFinished(d) == piece' = "finished" /\ digest' = d
DeletePiece == piece' = "absent" /\ digest' = NoPayload

\* Where a call continues when wait_for_piece_finished returns Err, and Ok(piece).
AfterErr(t) == IF t \in Downloaders THEN "claim" ELSE "idle"
AfterOk(t) == IF t \in Downloaders THEN "idle" ELSE "open"

\* Mutant: a record is taken for a finished one as soon as it exists.
GetPieceUnfinished(t, from, next) ==
    /\ \/ piece = "absent" /\ Goto(t, from, AfterErr(t))
       \/ piece # "absent" /\ Goto(t, from, AfterOk(t))
    /\ Drop(t)
    /\ UNCHANGED <<db, notifier, disk, attempt, calls, bounds, gc>>

\* A read of the record by wait_for_piece_finished: None (or a RocksDB error) and a
\* finished piece end the wait, any other record continues at next.  An upload keeps
\* the digest.
GetPiece(t, from, next) ==
    /\ \/ Goto(t, from, AfterErr(t))
       \/ piece = "started" /\ Goto(t, from, next)
       \/ piece = "finished" /\ Goto(t, from, AfterOk(t))
    /\ payload' = IF pc'[t] = "open" THEN [payload EXCEPT ![t] = digest] ELSE payload
    /\ IF pc'[t] = "wait" THEN UNCHANGED handle ELSE Drop(t)
    /\ UNCHANGED <<db, notifier, disk, via, block, fd, calls, bounds, gc>>

-----------------------------------------------------------------------------
(* Calls.                                                                  *)

\* A download is part of a task whose content Storage::download_task_started has
\* created (an existing file is kept); an upload request just arrives.
Begin(t) ==
    /\ Goto(t, "idle", "lookup")
    /\ calls[t] < MaxCalls
    /\ calls' = [calls EXCEPT ![t] = @ + 1]
    /\ IF t \in Downloaders /\ ~file
         THEN file' = TRUE /\ content' = [b \in 1..Blocks |-> Hole]
         ELSE UNCHANGED <<file, content>>
    /\ UNCHANGED <<db, notifier, late, handle, attempt, bounds, gc>>

-----------------------------------------------------------------------------
(* wait_for_piece_finished.                                                *)

Lookup(t) == GetPiece(t, "lookup", "watch")

Watch(t) ==
    /\ Goto(t, "watch", IF notifier THEN "arm" ELSE "alone_get1")
    /\ IF notifier THEN Grab(t) ELSE UNCHANGED handle
    /\ UNCHANGED <<db, notifier, disk, attempt, calls, bounds, gc>>

Arm(t) ==
    /\ Goto(t, "arm", "recheck")
    /\ UNCHANGED <<db, notifier, disk, handle, attempt, calls, bounds, gc>>

Recheck(t) == GetPiece(t, "recheck", "wait")

\* select!: the notification ...
Notified(t) ==
    /\ handle[t] = "woken"
    /\ Goto(t, "wait", "watch")
    /\ Drop(t)
    /\ UNCHANGED <<db, notifier, disk, attempt, calls, bounds, gc>>

\* Mutant: no fallback interval, only the notification ends the sleep.
FallbackNever(t) == FALSE

\* ... or the fallback interval ...
Fallback(t) ==
    /\ Goto(t, "wait", "watch")
    /\ Drop(t)
    /\ UNCHANGED <<db, notifier, disk, attempt, calls, bounds, gc>>

\* ... or the end of the whole wait.
WaitTimeout(t) ==
    /\ timeouts < MaxTimeouts
    /\ timeouts' = timeouts + 1
    /\ Goto(t, "wait", "expire_get")
    /\ Drop(t)
    /\ UNCHANGED <<db, notifier, disk, attempt, calls, crashes, deletes, gc>>

\* Metadata::{wait_for_piece_finished,download_piece}_failed reads the record ...
FailedGet(t, from, kept, delete) ==
    /\ \/ Goto(t, from, kept)
       \/ piece # "finished" /\ Goto(t, from, delete)
    /\ UNCHANGED <<db, notifier, disk, handle, attempt, calls, bounds, gc>>

\* ... and deletes an unfinished one in a second call.  An error of either call
\* leaves the record and is only logged.
FailedDelete(t, from, next) ==
    /\ Goto(t, from, next)
    /\ DeletePiece \/ UNCHANGED db
    /\ UNCHANGED <<notifier, disk, handle, attempt, calls, bounds, gc>>

ExpireGet(t) == FailedGet(t, "expire_get", "expire_notify", "expire_delete")
ExpireDelete(t) == FailedDelete(t, "expire_delete", "expire_notify")

ExpireNotify(t) ==
    /\ Goto(t, "expire_notify", AfterErr(t))
    /\ remove_and_notify
    /\ UNCHANGED <<db, disk, attempt, calls, bounds, gc>>

\* No notifier: nobody in this process downloads the piece, unless a download
\* claimed it in between, hence the record and the map are read twice.
AloneGet1(t) == GetPiece(t, "alone_get1", "alone_check1")
AloneGet2(t) == GetPiece(t, "alone_get2", "alone_check2")

AloneCheck(t) ==
    /\ \/ Goto(t, "alone_check1", IF notifier THEN "watch" ELSE "alone_get2")
       \/ Goto(t, "alone_check2", IF notifier THEN "watch" ELSE "stale_get")
    /\ UNCHANGED <<db, notifier, disk, handle, attempt, calls, bounds, gc>>

StaleGet(t) == FailedGet(t, "stale_get", AfterErr(t), "stale_delete")

\* Mutant: the waiter that found a stale record also drops the notifier.
StaleDeleteNotifies(t) ==
    /\ Goto(t, "stale_delete", AfterErr(t))
    /\ DeletePiece
    /\ remove_and_notify
    /\ UNCHANGED <<disk, attempt, calls, bounds, gc>>

StaleDelete(t) == FailedDelete(t, "stale_delete", AfterErr(t))

-----------------------------------------------------------------------------
(* download_piece_started: claim the piece or wait for its owner.          *)

Claim(t) ==
    /\ Goto(t, "claim", IF notifier THEN "claim_arm" ELSE "own_get")
    /\ notifier' = TRUE
    /\ IF notifier THEN Grab(t) ELSE UNCHANGED handle
    /\ UNCHANGED <<db, disk, attempt, calls, bounds, gc>>

\* The InFlight branch: no second look at the record once notified() exists, the
\* fallback interval makes up for a notification sent before.
ClaimArm(t) ==
    /\ Goto(t, "claim_arm", "claim_wait")
    /\ UNCHANGED <<db, notifier, disk, handle, attempt, calls, bounds, gc>>

ClaimWait(t) ==
    /\ Goto(t, "claim_wait", "lookup")
    /\ Drop(t)
    /\ UNCHANGED <<db, notifier, disk, attempt, calls, bounds, gc>>

\* Mutant: the new owner does not look at the record again.
OwnGetBlind(t) ==
    /\ Goto(t, "own_get", "own_put")
    /\ UNCHANGED <<db, notifier, disk, handle, attempt, calls, bounds, gc>>

OwnGet(t) ==
    /\ Goto(t, "own_get", IF piece = "finished" THEN "own_release" ELSE "own_put")
    /\ UNCHANGED <<db, notifier, disk, handle, attempt, calls, bounds, gc>>

OwnRelease(t) ==
    /\ Goto(t, "own_release", "idle")
    /\ remove_and_notify
    /\ UNCHANGED <<db, disk, attempt, calls, bounds, gc>>

\* A parent is tried over URMA first where URMA is configured.
FirstTransports == IF "urma" \in Transports THEN Transports \ {"stream"} ELSE Transports

\* Metadata::download_piece_started overwrites whatever is there.
OwnPut(t) ==
    /\ Goto(t, "own_put", "download")
    /\ PutStarted
    /\ \E v \in FirstTransports : via' = [via EXCEPT ![t] = v]
    /\ UNCHANGED <<notifier, disk, handle, payload, block, fd, calls, bounds, gc>>

\* A RocksDB error of either call gives the claim back.
OwnError(t) ==
    /\ Goto(t, "own_get", "idle") \/ Goto(t, "own_put", "idle")
    /\ remove_and_notify
    /\ UNCHANGED <<db, disk, attempt, calls, bounds, gc>>

-----------------------------------------------------------------------------
(* The download itself.                                                    *)

\* The stream is open and the task file too (open_write does not create it).
ReceiveFrom(t, origins) ==
    /\ Goto(t, "download", "write")
    /\ via[t] \in origins \cap Transports
    /\ file
    /\ \E p \in Payloads : payload' = [payload EXCEPT ![t] = p]
    /\ block' = [block EXCEPT ![t] = 1]
    /\ fd' = [fd EXCEPT ![t] = "path"]
    /\ UNCHANGED <<db, notifier, disk, handle, via, calls, bounds, gc>>

DownloadFromParent(t) == ReceiveFrom(t, {"urma", "stream"})
DownloadFromSource(t) == ReceiveFrom(t, {"source"})
OpenWrite(t) == DownloadFromParent(t) \/ DownloadFromSource(t)

\* Mutants: the writer runs past the piece; the writer accepts a short stream.
WriteBlockOverrun(t) ==
    /\ Goto(t, "write", IF block[t] > Blocks THEN "verify" ELSE "write")
    /\ block' = [block EXCEPT ![t] = @ + 1]
    /\ content' = IF fd[t] = "path" THEN [content EXCEPT ![block[t]] = payload[t]] ELSE content
    /\ UNCHANGED <<db, notifier, file, late, handle, via, payload, fd, calls, bounds, gc>>

WriteBlockShort(t) ==
    /\ \E l \in {"write", "verify"} : Goto(t, "write", l)
    /\ block[t] < Blocks \/ pc'[t] = "verify"
    /\ block' = [block EXCEPT ![t] = @ + 1]
    /\ content' = IF fd[t] = "path" THEN [content EXCEPT ![block[t]] = payload[t]] ELSE content
    /\ UNCHANGED <<db, notifier, file, late, handle, via, payload, fd, calls, bounds, gc>>

WriteBlock(t) ==
    /\ Goto(t, "write", IF block[t] = Blocks THEN "verify" ELSE "write")
    /\ block' = [block EXCEPT ![t] = @ + 1]
    /\ content' = IF fd[t] = "path" THEN [content EXCEPT ![block[t]] = payload[t]] ELSE content
    /\ UNCHANGED <<db, notifier, file, late, handle, via, payload, fd, calls, bounds, gc>>

\* The attempt ends without a finished piece: the parent failed, the digest does not
\* match, the record is gone, RocksDB failed, or the select! of
\* download_piece_*_finished timed out and dropped the writer.
\* A writer that is dropped leaves the write it has submitted to the blocking pool
\* running.  The URMA writer joins its writes before it returns an error, so that a
\* fall back to TCP finds none of them, but a dropped download leaves one behind.
LateWrites(t) ==
    IF fd[t] = "path" /\ pc[t] = "write"
      THEN {{}, {<<block[t], payload[t]>>}} ELSE {{}}

Abort(t) ==
    /\ \/ via[t] = "urma" /\ "stream" \in Transports     \* fall back to TCP
          /\ \E l \in AttemptLabels : Goto(t, l, "download")
          /\ via' = [via EXCEPT ![t] = "stream"]
          /\ UNCHANGED late
       \/ \E l \in AttemptLabels : Goto(t, l, "fail_get")    \* run the scope guard
          /\ UNCHANGED via
          /\ \E w \in LateWrites(t) : late' = late \cup w
    /\ UNCHANGED <<db, notifier, file, content, handle, payload, block, fd, calls, bounds, gc>>

\* A write of a dropped download reaches the file.
LateWrite ==
    /\ \E w \in late :
         /\ content' = [content EXCEPT ![w[1]] = w[2]]
         /\ late' = late \ {w}
    /\ UNCHANGED <<db, notifier, file, pc, handle, attempt, calls, bounds, gc>>

\* finish_parent_piece accepts the digest (a mismatch is Abort at "verify").
Verify(t) ==
    /\ Goto(t, "verify", "finish_get")
    /\ UNCHANGED <<db, notifier, disk, handle, attempt, calls, bounds, gc>>

\* Metadata::download_piece_finished reads the record, which must still be there ...
FinishGet(t) ==
    /\ piece # "absent"
    /\ Goto(t, "finish_get", "finish_put")
    /\ UNCHANGED <<db, notifier, disk, handle, attempt, calls, bounds, gc>>

\* ... and writes it back, finished, in a second call.
FinishPut(t) ==
    /\ Goto(t, "finish_put", "finish_notify")
    /\ PutFinished(payload[t])
    /\ UNCHANGED <<notifier, disk, handle, attempt, calls, bounds, gc>>

FinishNotify(t) ==
    /\ Goto(t, "finish_notify", "idle")
    /\ remove_and_notify
    /\ Return(t)
    /\ UNCHANGED <<db, disk, calls, bounds, gc>>

\* The scope guard: Metadata::download_piece_failed, then remove_and_notify.
FailGet(t) == FailedGet(t, "fail_get", "fail_notify", "fail_delete")
FailDelete(t) == FailedDelete(t, "fail_delete", "fail_notify")

\* Mutant: a failed download keeps its notifier.
FailNotifyForgotten(t) ==
    /\ Goto(t, "fail_notify", "idle")
    /\ Return(t)
    /\ UNCHANGED <<db, notifier, disk, handle, calls, bounds, gc>>

FailNotify(t) ==
    /\ Goto(t, "fail_notify", "idle")
    /\ remove_and_notify
    /\ Return(t)
    /\ UNCHANGED <<db, disk, calls, bounds, gc>>

-----------------------------------------------------------------------------
(* upload_piece: open the content of the finished piece and stream it.     *)

OpenRead(t) ==
    /\ Goto(t, "open", IF file THEN "read" ELSE "idle")
    /\ IF file THEN fd' = [fd EXCEPT ![t] = "path"] /\ UNCHANGED <<via, payload, block>>
               ELSE Return(t)
    /\ UNCHANGED <<db, notifier, disk, handle, calls, bounds, gc>>

ReadDone(t) ==
    /\ Goto(t, "read", "idle")
    /\ Return(t)
    /\ UNCHANGED <<db, notifier, disk, handle, calls, bounds, gc>>

-----------------------------------------------------------------------------
(* Storage::delete_task, called by the garbage collector: piece records,   *)
(* then the file.  Open descriptors keep the removed file.                 *)

DeleteTask ==
    /\ gc = "idle" /\ deletes < MaxDeletes
    /\ gc' = "list" /\ deletes' = deletes + 1
    /\ UNCHANGED <<db, notifier, disk, pc, handle, attempt, calls, timeouts, crashes>>

\* Metadata::delete_pieces lists the keys and deletes those it found in one batch.
ListPieces ==
    /\ gc = "list"
    /\ gc' = IF piece = "absent" THEN "content" ELSE "batch"
    /\ UNCHANGED <<db, notifier, disk, pc, handle, attempt, calls, bounds>>

DeletePieces ==
    /\ gc = "batch" /\ gc' = "content"
    /\ DeletePiece
    /\ UNCHANGED <<notifier, disk, pc, handle, attempt, calls, bounds>>

DeleteContent ==
    /\ gc = "content" /\ gc' = "idle"
    /\ file' = FALSE /\ late' = {}
    /\ content' = [b \in 1..Blocks |-> Hole]
    /\ fd' = [t \in Threads |-> IF fd[t] = "path" THEN "removed" ELSE fd[t]]
    /\ UNCHANGED <<db, notifier, pc, handle, via, payload, block, calls, bounds>>

-----------------------------------------------------------------------------
\* The process dies and starts again with storage.keep: RocksDB and the task
\* files survive, the notifiers and the running calls do not.
Restart ==
    /\ crashes < MaxCrashes
    /\ crashes' = crashes + 1
    /\ notifier' = FALSE /\ late' = {}
    /\ pc' = [t \in Threads |-> "idle"]
    /\ handle' = [t \in Threads |-> "none"]
    /\ via' = [t \in Threads |-> "none"]
    /\ payload' = [t \in Threads |-> NoPayload]
    /\ block' = [t \in Threads |-> 1]
    /\ fd' = [t \in Threads |-> "none"]
    /\ gc' = "idle"
    /\ UNCHANGED <<db, file, content, calls, timeouts, deletes>>

\* The steps a call takes once it runs.  WaitTimeout is not among them: it is a
\* choice of the environment (how long the owner takes).
Step(t) ==
    \/ Lookup(t) \/ Watch(t) \/ Arm(t) \/ Recheck(t) \/ Notified(t) \/ Fallback(t)
    \/ ExpireGet(t) \/ ExpireDelete(t) \/ ExpireNotify(t)
    \/ AloneGet1(t) \/ AloneGet2(t) \/ AloneCheck(t) \/ StaleGet(t) \/ StaleDelete(t)
    \/ Claim(t) \/ ClaimArm(t) \/ ClaimWait(t)
    \/ OwnGet(t) \/ OwnRelease(t) \/ OwnPut(t) \/ OwnError(t)
    \/ OpenWrite(t) \/ WriteBlock(t) \/ Abort(t) \/ Verify(t)
    \/ FinishGet(t) \/ FinishPut(t) \/ FinishNotify(t)
    \/ FailGet(t) \/ FailDelete(t) \/ FailNotify(t)
    \/ OpenRead(t) \/ ReadDone(t)

Next ==
    \/ \E t \in Threads : Begin(t) \/ Step(t) \/ WaitTimeout(t)
    \/ LateWrite
    \/ DeleteTask \/ ListPieces \/ DeletePieces \/ DeleteContent
    \/ Restart

Spec == Init /\ [][Next]_vars

-----------------------------------------------------------------------------
\* A call that runs keeps being polled: its timers fire, its transports answer or
\* time out, its RocksDB calls return.
Fairness ==
    /\ \A t \in Threads : WF_vars(Step(t))
    /\ WF_vars(LateWrite)
    /\ WF_vars(ListPieces \/ DeletePieces \/ DeleteContent)

FairSpec == Spec /\ Fairness

(* Properties.                                                             *)

Owners == {t \in Threads : pc[t] \in OwnerLabels}

\* Two downloads never hold the piece at the same time: PieceNotifier::claim makes
\* one of the concurrent claimers the owner and the others wait, whatever the
\* order of failures, restarts, stale records and deletions.
OneOwner == \A t, u \in Owners : t = u

\* No claim is leaked: the notifier entry always belongs to a call that will remove
\* it, even after a waiter that timed out has removed the entry of a running
\* download and a second one has claimed the piece.
NoOrphanClaim == notifier => Owners # {}

\* A finished record describes the bytes on disk: the file exists and every block
\* holds what the recorded digest was computed from.
FinishedIntact ==
    piece = "finished" => file /\ \A b \in 1..Blocks : content[b] = digest

\* An upload streams the bytes of the record that upload_piece returned, for as
\* long as the descriptor it opened is the file at the task path.
UploadIntact ==
    \A t \in Uploaders :
      pc[t] = "read" /\ fd[t] = "path" => \A b \in 1..Blocks : content[b] = payload[t]

\* Neither a failed download nor a waiter that gives up erases a finished record:
\* only the deletion of the task does.
NeverEraseFinished ==
    [][piece = "finished" /\ piece' # "finished" => gc = "batch" /\ gc' = "content"]_vars

\* Every call returns: a waiter that missed its notification, whose owner failed, or
\* whose record is stale is not stuck.
CallsReturn == \A t \in Threads : pc[t] # "idle" ~> pc[t] = "idle"

-----------------------------------------------------------------------------
(* Refinement: the download that recorded "started" owns the piece until   *)
(* its last remove_and_notify.                                             *)

NoOwner == "nobody"
ASSUME NoOwnerAssumption == NoOwner \notin Downloaders

storeOwner ==
    IF \E t \in Downloaders : pc[t] \in DownloadLabels
      THEN CHOOSE t \in Downloaders : pc[t] \in DownloadLabels ELSE NoOwner

Store == INSTANCE PieceStore WITH
    Clients <- Downloaders, owner <- storeOwner, stored <- digest

\* The races of the piece's record, file and notifier implement a store in which a
\* piece is downloaded by one call at a time and never changes once stored.
ImplementsStore == Store!Spec
=============================================================================
