# Dragonfly client: models, checks and proofs

This directory holds TLA+ models of the Dragonfly peer (`dragonfly-client-*`), the
TLC configurations that check them and TLAPS proofs about them. It is meant to be
read beside the source: `PROJECT.json` maps every definition to the lines it models.

- [1 The system](#1-the-system)
- [2 The modules](#2-the-modules)
- [3 What the runs check](#3-what-the-runs-check)
- [4 Fairness](#4-fairness)
- [5 What is proved](#5-what-is-proved)
- [6 Where the code and its comments disagree, and what else is known](#6-where-the-code-and-its-comments-disagree-and-what-else-is-known)
- [7 What is not modelled](#7-what-is-not-modelled)
- [8 Plan](#8-plan)

## 1 The system

A Dragonfly peer (the daemon `dfdaemon`) downloads files for clients (`dfget`, the
proxy) and shares what it has with other peers. A file is a *task*; a task is cut
into *pieces*; a piece is fetched from another peer (a *parent*, chosen by the
scheduler) over TCP, QUIC or URMA (RDMA-like registered memory), or from the origin.
One process runs many downloads at once on the tokio runtime, and one thread per
URMA fabric. `Daemon` is that process; `AdaptiveLimiter` stands before its gRPC servers.

### 1.1 Inventory

Each entry names the state a part keeps, its operations, whom it interacts with,
what is hard about it and what makes it correct. **Modelled** parts name their module.

**Storage: pieces** (`dragonfly-client-storage/src/{lib,metadata,content,io,piece_notifier}.rs`),
**modelled** by `PieceLifecycle`, promise stated in `PieceStore`.
State: one RocksDB record per piece (absent, started, finished with its digest), the
task file, the in-process `PieceNotifier` table whose entry is the claim to download
a piece. Operations: `download_piece_started`, `download_piece_from_*_finished`,
`download_piece_failed`, `wait_for_piece_finished`, `upload_piece`, `delete_task`.
Used by every download job and every upload. Hard: several calls want the same piece;
records are read and written in separate calls; waits end by notification, by a
poll, or by a timeout; writes run on the blocking pool and outlive a dropped future;
a restart loses the notifiers and keeps the records. Correct when a piece is
downloaded by one call at a time, a finished record always describes the bytes of the
file, no claim outlives its owner, and every call returns.

**Storage: task records** (`metadata.rs`, `storage_engine/`), **modelled** by `TaskGC`;
`TaskDownload` and `PersistentTask` see a record as a set of marks. State: one record
per task (times, lengths, failed/finished/prefetched marks) and in-memory upload
counters. Hard: records are read, changed and put back without a lock, and deleted
while calls still work with them. Correct when no content is left that no record names,
a mark is not lost for good, and an upload count is never too high.

**Task download** (`dragonfly-client/src/resource/task.rs`, handler in
`grpc/dfdaemon_download.rs`), **modelled** by `TaskDownload`.
State of a call: the pieces it is still interested in, the pieces obtained, the
JoinSet of piece jobs with a semaphore, the announce stream to the scheduler, the
response stream to the client. Operations: prepare and start, local lookup, wait for
pieces in flight, register, handle each scheduler response, fetch from parents, fetch
from the origin, finish or fail, prefetch. Interacts with the storage, the scheduler,
the piece collector, the parents, the origin and the client. Hard: pieces come from
four sources over several rounds while other calls fetch the same ones; jobs are
aborted at any await; sends to the scheduler and the client fail in the middle.
Correct when success means the client got its whole range, a peer that announced
itself finished holds what it announced, nothing is left claimed, and every call ends.

**URMA registered buffer pool** (`urma/buffer.rs`), **modelled** by `UrmaBufferPool`.
State: slots with a state and a 16-bit generation, free lists, a lease book, the
registered segment. Operations: take slots, post, complete, lease, recycle, close.
Hard: a slot is named by tokens held by other threads and by the hardware; a lease is
recycled long after it was dropped. Correct when a slot has one owner at a time.

**URMA fabric owner** (`urma/{runtime,fabric,lane,completion}.rs`), **modelled** by
`UrmaFabric`. State: lanes with a state machine, send credits, the completion
router's table of outstanding work requests, TX admission permits, the owner thread's
phase. Operations: one per command of the owner channel, the poll of the completion
queues, the reap of drained lanes, poisoning, shutdown. Callers are the piece
transfers of client and server; the provider is external hardware. Hard: completions
in any order, partial posts, failures of the provider, leases in the hands of other
threads across shutdown. Correct when memory the hardware may touch is neither reused
nor unregistered, permits are backed by free slots, and shutdown ends.

**URMA session and rendezvous** (`urma/{session,control,protocol,rendezvous}.rs`,
`client/urma.rs`, `server/urma.rs`), **modelled** by `UrmaSession`. State: a lane and its
control connection, the routes of the running transfers, the windows each side has
posted or sent, permits of the client's lane, the server's lane and its process.
Operations: dial, request, accept or reject, post receives and tell (`RecvPosted`), send,
confirm, cancel, idle end, abort. Hard: control frames and data race on two channels, a
reader may leave in the middle, one fault ends the lane under every transfer. Correct
when no send meets a lane without a receive, both sides agree that a piece is complete,
and only a fault, a reader that left or idleness costs the lane.

**URMA downloader** (`resource/piece_downloader.rs`, `mod urma`), **modelled** by
`UrmaParents`. State: the shared fabric, per parent a cached client with its generation,
the gate under which it is built, its advertisement and its penalty. Hard: calls fail on
a client that another call has already replaced, and fabrics fail under clients. Correct
when one call at a time builds a client, the requests that fail on one client cost its
parent one penalty, and a late failure leaves a younger client alone.

**TCP and QUIC transfers** (`resource/piece_downloader.rs`, `util/pool`, `storage/client`,
`storage/server`), **modelled** by `PieceTransfer`. State: a pool of clients with their
request counts, a shared QUIC connection, the upload counters of the serving peer. Hard:
a pooled client closes under its users; every path of an upload must count it once.
Correct when uploads are counted once, closed clients are replaced, every request ends.

**Garbage collector** (`gc/mod.rs`), **modelled** by `TaskGC`; the deletion of a task
is also an action of `PieceLifecycle`, `TaskDownload` and `PersistentTask`. Hard: it
decides from a snapshot of the records while downloads and uploads use them. Correct when
what it deletes is gone in all its parts and it reclaims what is expired or too much.

**Persistent and persistent-cache tasks** (`resource/persistent*_task.rs`, their handlers
in `grpc/`), **modelled** by `PersistentTask`. State of a call as for a task; the record
also says whether the task is kept for good. Operations: download, replicate, upload
(import of a file beside its upload to the origin), delete. Hard: two calls share the
record, the pieces and the claims; the first failure drops everything else at an await.
Correct when a finished record or peer holds every piece, success towards a client is
honest and nothing stays claimed.

**Piece collector and `sync_pieces`** (`resource/piece_collector.rs`,
`grpc/dfdaemon_upload.rs`), **modelled** by `PieceExchange`. State: at the parent a
snapshot of the task, subscriptions to pieces in flight and an interval; at the peer which
parents hold which piece, one timer per piece, one channel to the downloader. Correct
when no offered piece is lost and only a silent stream holds up the end.

**Parent selector and `sync_host`** (`resource/parent_selector.rs`), **modelled** by
`ParentSelector`. State: one reference-counted stream per host, its weight. Hard: the count
is read, changed and acted on in separate steps.

**Proxy** (`proxy/`), **modelled** by `Proxy`: routing, tunnels and credentials, the
download behind a request, pieces put in order into one body, errors before and after the
head, a client that leaves. Correct when a body that ends without an error is whole.

**Command-line programs** (`bin/{dfget,dfcache,dfstore}`), their downloads **modelled** by
`ExportClients`. State: the output file with its buffer, which pieces are missing, the
JoinSet of a directory. Correct when a file reported as done is whole, a failed one is
gone, and a directory is done when all of it is.

**Piece cache in memory** (`storage/src/cache`, the cache tasks of `lib.rs`), **modelled** by
`PieceCache`: an LRU of tasks with a byte capacity under records that outlive an eviction.

**Dynamic configuration, scheduler client, announcer** (`dynconfig/`, `grpc/scheduler.rs`,
`announcer/`), **modelled** by `Schedulers`: a list, a hash ring and channels replaced under
three locks, while calls use them and the announcer tells every scheduler.

**Process** (`bin/dfdaemon/main.rs`, `util/shutdown`), **modelled** by `Daemon`: start-up, the
barrier of the two gRPC servers, the shutdown broadcast and the wait for its receivers.

**Adaptive limiter** (`util/ratelimiter/bbr.rs`, `grpc/middleware.rs`), **modelled** by
`AdaptiveLimiter`. **Piece calculations** (`resource/piece.rs`), **modelled** by `PieceNumbers`.

**Backends, imports and dfctl, manager client, container-runtime set-up, configuration,
metrics, foreign-function layer**: not modelled, see section 7.

### 1.2 How the parts meet

```
 dfget, dfcache, dfstore          HTTP client
     ExportClients                   Proxy
          └──── download stream ──────┘
                     │
   TaskDownload, PersistentTask ── announce_peer ──▶ scheduler (external)
     │    │     ▲                                     ▲ chosen by Schedulers
     │    │     └─ pieces, parents ─ PieceExchange, ParentSelector ◀─ parents
     │    └─ PieceNumbers                             (their upload servers)
     ▼ jobs
   PieceStore (promise of the storage)
     ▲ implemented by
   PieceLifecycle ◀── uploads, restart      TaskGC: records, collector
     ▲ a piece arrives through
   PieceTransfer (TCP, QUIC)   UrmaParents ─ UrmaSession ─ UrmaFabric ─ UrmaBufferPool
```

`PieceStore` is the hinge. `ImplementsStore` says that the records, the notifier and
the scope guard of `PieceLifecycle` implement it; `TaskDownload` uses only it, and
`PiecesAreStored` says that each of its pieces behaves as `PieceStore` allows. Both are
model-checked and proved.

## 2 The modules

| Module | What it is |
|---|---|
| `PieceStore` | abstract specification: one piece, one owner at a time, stored once, forgotten by deletion |
| `PieceLifecycle` | one piece of one task in the storage, with concurrent downloads and uploads |
| `PieceLifecycleProofs` | TLAPS proofs about it, and that it implements `PieceStore` |
| `UrmaBufferPool` | the registered buffer pool: state and operators, no `Next` of its own |
| `UrmaFabric` | the fabric owner, its lanes and its completion router, over `UrmaBufferPool` |
| `UrmaFabricProofs` | TLAPS proofs about both |
| `TaskDownload` | concurrent downloads of one task, over pieces as `PieceStore` promises them |
| `TaskDownloadProofs` | TLAPS proofs about it |
| `TaskGC` | task records with the gaps between read and put, upload counts, the collector |
| `TaskGCProofs` | TLAPS proofs about it |
| `PersistentTask` | uploads, downloads, replications and deletions of a persistent or persistent cache task |
| `PersistentTaskProofs` | TLAPS proofs about it |
| `PieceExchange` | the `sync_pieces` stream of each parent and the collector that merges them |
| `ParentSelector` | counted `sync_host` streams shared by the calls that download |
| `PieceTransfer` | a piece over TCP or QUIC: client pool, client, upload server |
| `UrmaParents` | the URMA downloader: fabric, cached client, construction gate, penalty |
| `UrmaSession` | a lane between two peers with its control connection and its transfers |
| `Proxy` | one HTTP request through the proxy to the end of its response |
| `ExportClients` | dfget, dfcache export and dfstore export |
| `PieceCache` | cache tasks: LRU map, byte capacity, records above it |
| `Schedulers` | dynamic configuration, scheduler client, announcer |
| `Daemon` | start-up, services and shutdown of the process |
| `AdaptiveLimiter` | counters and window of the adaptive limiter |
| `PieceNumbers` | piece length, pieces of a range, rounds; against reference definitions |
| `MCPieceLifecycle` `MCUrmaFabric` `MCTaskDownload` `MCTaskGC` `MCPersistentTask` | symmetries and inputs of the runs |
| `MCTransport` | `PieceTransfer`, `UrmaParents` and `UrmaSession` side by side in one run |
| `TransportProofs` | TLAPS proofs about the three, as `MCTransport` runs them |
| `MCServices` | the nine parts from `PieceExchange` and `ParentSelector` to `PieceNumbers` and `ExportClients` side by side in one run |
| `ServicesProofs` | TLAPS proofs about `Proxy`, `ExportClients`, `PieceCache`, `Schedulers`, `Daemon` and `AdaptiveLimiter`, as `MCServices` runs them |
| `PieceServicesProofs` | TLAPS proofs about `PieceExchange`, `ParentSelector` and `PieceNumbers`, likewise |

In `MCTransport` and `MCServices` a variable `part` chooses the part a behaviour is about
and the others stay as they start: the state space is the sum of the parts, not their
product, and each part is checked exactly as it would be alone.

Definitions whose comment begins with *Mutant:* are plausible bugs. No specification
uses them; each is put in place of the definition it follows to see that a property
notices (`PROJECT.json`, "mutants").

### 2.1 PieceLifecycle

One RocksDB call is one step; two calls are two steps, so every gap between a read of
the record and the write that depends on it is there. `piece` and `digest` are the
record, `notifier` the entry of `PieceNotifier` (a Boolean: one piece), `file` and
`content` the byte range of the piece as blocks, `late` the writes that a dropped
download left on the blocking pool. `handle` is the `Notify` a thread waits on:
`live` while its entry exists, `woken` once notified, `orphan` when the entry was
replaced, so that a lost wake-up is visible. Every writer runs its writes on the blocking
pool, the URMA one too (`content_linux.rs:637-652`): a download that is dropped leaves one
behind. An URMA attempt that *returns* an error has joined its writes, so the fall-back to
TCP starts without.

A download goes through the labels of the code: look the record up and wait
(`wait_for_piece_finished`: `lookup watch arm recheck wait`, with the poll fallback
and the expiry or stale paths), claim, record `started`, receive and write block by
block, verify, record `finished`, notify; or the failure path, which the scope guard of
`Piece::download_from_*` runs at any await. An upload waits for the piece, opens the file
and reads it. `DeleteTask ListPieces DeletePieces DeleteContent` are the steps of
`delete_task`; `Restart` is a process restart that keeps the storage.

Abstractions. One piece: pieces share no state but the task file, whose byte ranges
are disjoint. A payload stands for the bytes and their digest; a download that
receives a wrong payload and notices is a failure. The four piece kinds (normal,
persistent, persistent cache, cache) repeat the same functions; the normal one is
mapped here, the others by `PersistentTask` and `PieceCache`.

### 2.2 UrmaBufferPool and UrmaFabric

A command of the owner channel is one step (the owner thread runs it to its end);
the poll of the completion queues is one step per record, because a record may fail
and the ones after it still have to be routed; `fail_pending`, the reap of lanes and
the drain of shutdown are steps of their own. Other threads act by dropping leases
(`DropLease`), which queues a recycle. `hw` is what the provider holds: a slot is
`posted` until the provider completes it, in any order, with success or error.
`Faults` chooses what may go wrong: a post list accepted only in part, a failed
status, an unknown identity, a completion of a foreign Jetty, a failed control call.

Abstractions. Free lists are multisets (a slot freed twice shows as 2). Lease
identifiers are reused when free; in the code they count up for ever, which only makes
confusion rarer. `GenMax = 1` makes every generation equal: the harshest wrap-around of
the 16-bit counter, under which only the state checks protect a slot. Offsets, lengths
and the encoding of descriptors are left out.

### 2.3 TaskDownload

`pc[c]` follows the handler and `Task::download`; `job[c][p]` follows the spawned job
of one piece: `run` (about to claim), `own` (fetching), `notify` (stored, claim not yet
given back), `got`, `sent`, then `ok` or an error. A request is the set of pieces of
its range and a set of options. The task record is the set of its marks.

Environment: the scheduler answers a registration with any response it may send, ends
the stream at any time, and any message to it may be lost; the collector names any
piece still wanted and any number of parents up to `Parents`; transfers and reads of
the origin succeed or fail; the client leaves at any time; the task is deleted at any
time (at once here; the steps of the deletion are those of `PieceLifecycle`).

Abstractions. A read-modify-write of the task record is one step (the races of those
are in `TaskGC`). `in_stream_tx.closed().await` is trusted to end. Hard links, the
output path, its digest and the back-pressure of the client are left out. The
scheduler is told of an empty task by the same finished message as of any other;
`finished_empty` marks it because there is nothing to hold. The `SendTimeout` branches of
the three loops are not reachable: a failed delivery is an
`MpscSend` error. A crash is left to `PieceLifecycle`.

### 2.4 TaskGC

`db` holds the records, `files` the tasks with content, `stats` the in-memory upload
counts and `uploads` the uploads that really run. An operation of a caller reads a
record into `call[c].copy` and puts it back in a later step; a delete is two steps. `gc`
is the pass the collector is in (three kinds, ttl then disk), the snapshot it still has
to walk and the deletion it is doing. The three kinds differ in who creates the record
when, when it is expired and when it may be evicted. Free space is asked for every download
of a task that is not finished, and for a persistent one only while it has no record. A
download that is refused (no length, no room, no file, no hard link) returns without a mark
on its record, as its handlers do. An allocation that fails leaves the file it was made for
(`AllocateFailed`); `orphaned` are those whose record a deletion had taken meanwhile. Space
is `Length` per file; the clock counts to `MaxTime`.

### 2.5 PersistentTask

`call[c]` follows the handler and the copies of `download`, `upload`, `replicate` and
`delete`; `job[c][p]` follows the transfer of one piece. `record` is the set of marks of
the record, `pieces` and `claim` are the piece records and the notifier as `PieceStore`
has them, `told` what the scheduler was told, `sent` what the client got, `source`
whether the origin has the object. `tainted` remembers that a deletion or an import met
a running download: what the code leaves open then is excepted by that name. Reports
of single pieces, the copy to the output path and waiter timeouts are left out.

### 2.6 The exchange of pieces: PieceExchange, ParentSelector

`PieceExchange` has both ends. At the parent: the task snapshot, the subscription to
pieces in flight and the fallback interval. At the peer: `by` says who reported a piece,
`pending` what is still in the map, `timer` the wait for a better parent, `hold` what a
sync task has taken out, `chan` the channel with its `Buffered` places, `lost` what an
aborted sync task had in its hands. Streams fail, stall and time out.
In `ParentSelector` a connection is named after the call, the host and the place in the
call's list that made it: parents may share a host. It keeps the decrement, the check and
the two removals of `unregister` apart.
The weighted draw itself is left out.

### 2.7 The transports: PieceTransfer, UrmaParents, UrmaSession

`PieceTransfer`: a request finds, makes or replaces a pooled client, is guarded until
the head of the response is in, reads the content; the server's handler counts what it
starts and ends. A QUIC client may close under all its requests. Left out is an error of
`finish()` on a QUIC stream whose content was written (`server/quic.rs:290-298`, `382-390`,
`482-490`), which would count the upload as failed and then as finished: quinn reports one
only for a stream that is already finished or reset, and the handler does neither before.
`UrmaParents`: one step per lock or await of the downloader; `generation` and `on` say
which client runs on which fabric, `blamed` and `reported` count the penalties that failed
requests on a client and lookups of it have brought its parent.
`UrmaSession`: a frame is one step; `native` are receives posted and not yet consumed; a
fault may break either side at any time. A window of the server is the least of what is
configured, what is registered and what the device takes. Two restrictions: a new lane is dialled only
after the server's old one has ended, and the idle timeouts of the two sides are ordered
as the constants of `urma/mod.rs:26-33` have them. The fabric below is `UrmaFabric`.

### 2.8 The services: Proxy, ExportClients, PieceCache, Schedulers, Daemon, AdaptiveLimiter, PieceNumbers

`Proxy`: stages of the handler, the download as a source of messages in any order, the
pump that orders pieces into the body, the client. Headers, certificates and URL
rewriting are their outcome. `ExportClients`: the message loop that dfget, dfcache and
dfstore have in three copies, with the buffered file, and around it the directory
download with its semaphore and JoinSet. `PieceCache`: the list pointers of the LRU map
are modelled as pointers. `put_task` evicts one entry per step while it holds the write
lock, and whoever needs the map waits for it. `recent` is not in the code: it relates
every two entries by which was used last, and is what the list is compared with. The
daemon has no caller of cache tasks at this commit, so a call stands for what the storage
offers. `Schedulers`: list, addresses and ring are
replaced in three steps, and a call whose handler is cancelled ends between any two; health
and the manager are the environment. The lists are sets:
the code keeps the order of an answer but asks only which schedulers are in it. `Daemon`: one step
per await of `main`, per service its start, its subscription to the shutdown and its
end. `AdaptiveLimiter`: one step per atomic; overload is a flag. `PieceNumbers`: exact
integers where the code divides in floating point (they agree below 2^53); the pieces that remain are a set,
for the code asks only which they are and whether there is one. A round asks for what
remains, so `merge_finished_pieces` never meets a number it has; its branch for that case is
translated and not reached.

## 3 What the runs check

`gc` and `persistent` check deadlock as well. The others use `CHECK_DEADLOCK FALSE`: the numbers of
calls, crashes and lanes are bounded, so a finished instance really stops; hangs are
looked for with the liveness properties.

| Run | Instance | Properties | States |
|---|---|---|---|
| `piece_races` | 3 downloads over URMA, 2 payloads, 1 restart, 1 deletion | `TypeOK` `OneOwner` `ImplementsStore` | 549k |
| `piece_hazards` | 2 downloads, 1 upload, all transports, 1 timed-out wait, 1 restart, symmetry | `NoOrphanClaim` `FinishedIntact` `UploadIntact` | 319k |
| `piece_liveness` | 2 downloads, 1 upload, streams, 1 timed-out wait | `CallsReturn` | 63k |
| `urma_windows` | 2 TX slots, 1 RX slot, 3 leases, 1 lane, every fault, symmetry | `TypeOK` `SlotOwnership` `LeasesKept` `PermitsBacked` `LifetimesNest` | 1.05M |
| `urma_progress` | 1 TX slot, 1 RX slot, 1 lane, all faults but the corrupt completion | `WrsRetire` `ShutdownEnds` | 32k |
| `task_download` | a client of the whole task or of a piece, and a second call for one piece; 1 parent, 1 permit, 2 scheduling rounds, 1 deletion | `TypeOK` `OwnersAreJobs` `OkMeansDelivered` `FinishedPeerHoldsRange` `FinishedIsLocalHit` `TerminalIsLast` `PiecesAreStored` | 885k |
| `task_prefetch` | a range download, the prefetch it starts, 1 scheduling round | `CallsEnd` | 380k |
| `gc` | 2 tasks (two tasks, or a task and a persistent or persistent cache one), 3 operations or uploads, 1 tick, watermarks 80 and 40 of 10 | `RecordsSafe` `SpaceIsReclaimed` | 425k |
| `persistent` | 2 calls in five combinations, both kinds, 2 pieces, 1 parent, 1 permit, 1 scheduling round, symmetry | `TypeOK` `FinishedIsHeld` `SuccessIsHonest` `NothingLeftClaimed` | 1.19M |
| `transport` | 2 requests on up to 4 clients; 3 calls or 2 with 2 failing fabrics; 2 transfers of 3 chunks in windows of 2, 3 settings of the limits | `ClientsSafe` `SessionSafe` `HealthyClientKept` `TransfersEnd` | 631k |
| `services` | see below | `SourcesSafe` `ResponseSafe` `CacheSafe` `SchedulersSafe` `ProcessSafe` `LimiterExact` `PiecesExact` `ServicesEnd` | 509k |
| `piece_stale_erase` | 2 downloads, 2 calls each, 1 restart | `NeverEraseFinished`: violated, see section 6 | |

Why the bounds are enough to be interesting:

- *Pieces.* Three downloads are needed for a waiter, a stale-detecting waiter and an
  owner at once; two blocks for a partly written piece; one restart for stale records;
  one deletion in the middle of a download. Two payloads tell an old from a new
  content in the refinement. `piece_hazards` has one payload: what a parent or the
  origin delivers for a piece is fixed, and a duplicate download after a timed-out wait
  rewrites the same bytes. It has no deletion: `delete_task` lists the records before
  and removes the file after a download may have finished in between, so neither a
  finished record nor a running upload is protected across it. No comment claims that.
- *URMA.* Two TX slots make a window whose completions arrive apart or in the wrong
  order and a post list accepted in part; the third lease is for the receive slot.
  One lane is enough for its whole state machine; two lanes interact only through the
  pool and `fail_pending`.
- *Task.* Two pieces make a round that obtains only a part; two rounds merge parts; one
  permit forces jobs to wait for each other; the second call claims the piece the first
  wants. In `task_download` the whole task is asked for with back-to-source disabled
  and one piece with it enabled; the whole task with rounds *and* fallback is the
  prefetch of `task_prefetch`.
- *Records.* A caller with three operations can start, finish and delete a task, or
  upload across a deletion, while the collector walks a snapshot; ttls of 0 make every
  tick an expiry; two contents of 5 and 4 cross the high watermark together only.
- *Persistent tasks.* Two calls are what the races need (a claim and a waiter, a deletion
  under a download, two imports); two pieces make a partial round.
- *Transports.* Two requests share and lose one QUIC connection; a third URMA call finds
  the gate its predecessors leave. A piece of length 5 with chunks of 2 has a short last
  chunk and a short last window; two registered windows for two transfers that want two
  each is the case that could deadlock.
- *Services.* Two parents of which one is ahead, for each copy of the code, with a channel of
  one place, so that senders wait and are aborted while they do; three calls
  that share one host, and one with two parents on it; cache jobs that fill, evict, do not
  fit, and meet a deletion;
  two schedulers of two clusters and two changes; services in sets that depend on each
  other; a window of two buckets that is overwritten; every content length up to 28 with
  ranges at and beside all borders; a directory with more files than allowed, in a
  subdirectory, with one permit; each program with a file that it writes itself and with one
  that the daemon writes. dfcache meets early ends, dfstore repeated pieces, and both at
  once, when its count of bytes can be wrong (section 6).

What the properties say, in the terms of the code, stands above each of them in its
module. The ones that carry most:

- `ImplementsStore`: the records, notifier and file races are indistinguishable from an
  atomic store in which one call at a time owns the piece, as long as no wait times out.
- `FinishedIntact`, `UploadIntact`: neither a restart, a duplicate download nor a
  detached write lets a finished record describe bytes that are not there, as long as all
  sources give the same bytes.
- `SlotOwnership`, `LeasesKept`, `LifetimesNest`: registered memory is never in two hands,
  no lease is lost while the fabric is healthy, and Jetty, memory and process guard outlive
  their users, whatever the provider does wrong.
- `OkMeansDelivered`, `FinishedPeerHoldsRange`: success towards the client and towards
  the scheduler is honest, over every mixture of sources and failures; `SuccessIsHonest` and
  `FinishedIsHeld` say so of persistent tasks.
- `PiecesAreStored`: what the task layer does to a piece is what the storage promises.
- `RecordsSafe`, `SpaceIsReclaimed`: whatever deletions, puts and snapshots meet, content
  stays reachable through a record (but for `orphaned`) and expired or excess content goes in
  the end.
- `SessionSafe`: a busy answer, a full lane or a late frame never costs the lane that all
  transfers share, and a completed piece is complete on both sides.
- `SourcesSafe`, `ServicesEnd`: a piece that some parent offers reaches the downloader however
  another one stalls, unless an abort of the collector takes it along.
- `ResponseSafe`: neither a proxy response nor an exported file ends well unless it is whole
  (or its bytes were miscounted, `CountFooled`).

## 4 Fairness

- `PieceLifecycle`: weak fairness for the next step of each call, for a write on the
  blocking pool and for the steps of a deletion. A tokio task that can run is run, and
  every transfer has a timeout (part of the step). `WaitTimeout` has none: that
  a wait times out is never needed for progress.
- `UrmaFabric`: the owner serves at most 16 commands per tick before it polls, so
  the poll gets its turn however many commands come (strong fairness of `PollBegin`); a
  poll that recurs reads every queued record (strong fairness of routing each); the
  provider completes what was posted, or flushes it once the Jetty is in error; the
  drain of shutdown ends by its one-second deadline (strong fairness of `DrainEnd`).
- `TaskDownload`: one weak fairness condition on all steps of calls, prefetches and jobs
  together: the runtime does not idle while something can run. That is less than tokio
  gives; it suffices because no call can go round for ever (rounds are limited, and
  each re-subscription follows a notification). The scheduler is trusted to drop a stream whose
  peer has said its last word; nothing in the code bounds that wait.
- `TaskGC`: the collector goes on (its interval ticks while the daemon runs). Callers need
  not.
- `MCTransport`: each request, call and transfer, and the lane, take the steps they
  can take, timeouts included. Of a TCP or QUIC parent nothing is assumed.
- `MCServices`: one weak fairness condition per part (the runtime does not idle while a
  task of the daemon can run); in the exchange and the cache one per task, because tasks
  poll there and wait for each other. The client of the proxy, if it stays, reads.
  `delete_host` has strong fairness: `select!` picks among ready branches at random, so
  the announcer cannot overlook the shutdown for ever. In `ExportClients` the daemon's
  streams end. Of hosts, the manager and clients that come and go nothing is assumed.

## 5 What is proved

TLAPS checks every step of the eight proof modules. The theorems hold for every value
of the constants: any number of downloads, uploads, payloads, blocks, calls, restarts and
deletions; any set of requests, pieces, parents, permits and scheduling rounds; any number
of slots, lanes, credits, leases and faults; any tasks, disk sizes and watermarks; any number
of clients, connections, failing fabrics and transfers of a session; any hosts, schedulers,
files, buffers, buckets and
cache sizes. They use only the named assumptions of the
modules on their constants and the hypotheses in the table. The assumptions are: kinds of
threads and slots do not overlap, and `None`, `NoCall`, `NoLane`, `Hole` and their like are
none of the things they stand beside; bounds, lengths and thresholds are natural numbers;
sets whose members are counted (calls, tasks, requests, slots, transfers) are finite; pieces, chunks
and windows of a session are not empty, as `TransferShape::negotiate` has it
(`session.rs:143-150`); leases and clients
are numbered, as the counters of the code number them; setups have the fields the model reads
and name kinds, transports and operations that exist. The window that the two sides of a
session negotiate fits what the server can send (`negotiate_transfer`, `server/urma.rs:180-191`).
The channel of the collector has any number of places above none, parents may share hosts, and
any program may leave the file to the daemon and meet repeated pieces and early ends; only dfget
lists a directory. The shortest piece has at least as many bytes as a task should have
pieces, less one (4 MiB and 500): without that the quotient that is cut off could cost more than one
piece above the limit. TLC evaluates all of them in the runs.

| Theorem | States | Hypotheses |
|---|---|---|
| `PieceLifecycleProofs!TypeCorrect` | `Spec => []TypeOK` | none |
| `NoClaimIsLeaked` | `Spec => []NoOrphanClaim` | none: it survives timed-out waits |
| `SingleFlight` | `Spec => []OneOwner` | `MaxTimeouts = 0` |
| `FinishedPiecesAreIntact` | `Spec /\ [][~LateWrite]_vars => []FinishedIntact` | no timed-out wait, no deletion; no late write, over any transport |
| `SharedContentIsIntact` | `Spec => [](FinishedIntact /\ UploadIntact)` | one payload, no deletion |
| `StoreIsImplemented` | `Spec => ImplementsStore` | `MaxTimeouts = 0` |
| `TaskDownloadProofs!TypeCorrect` | `Spec => []TypeOK` | none |
| `OwnersAreJobsAlways` | `Spec => []OwnersAreJobs` | none |
| `SuccessMeansDelivered` | `Spec => []OkMeansDelivered` | none |
| `FinishedPeersHoldTheirRange` | `Spec => []FinishedPeerHoldsRange` | none |
| `AFinishedTaskIsALocalHit` | `Spec => []FinishedIsLocalHit` | none (the property is about calls for one range) |
| `TheLastMessageIsLast` | `Spec => TerminalIsLast` | none |
| `PiecesAreStoredAlways` | `Spec => PiecesAreStored` | none |
| `UrmaFabricProofs!TypeCorrect` | `Spec => []TypeOK` | none |
| `OwnershipUnique` | `Spec => []SlotOwnership` | none |
| `LeasesKeptAlways` | `Spec => []LeasesKept` | none |
| `PermitsAlwaysBacked` | `Spec => []PermitsBacked` | none |
| `LifetimesAlwaysNest` | `Spec => []LifetimesNest` | none |
| `TaskGCProofs!RecordsAlwaysSafe` | `Spec => []RecordsSafe` | none |
| `PersistentTaskProofs!TypeCorrect` | `Spec => []TypeOK` | none |
| `FinishedIsAlwaysHeld` | `Spec => []FinishedIsHeld` | none |
| `SuccessIsAlwaysHonest` | `Spec => []SuccessIsHonest` | none |
| `NothingStaysClaimed` | `Spec => []NothingLeftClaimed` | none |
| `TransportProofs!ClientsAlwaysSafe` | `MCSpec => []ClientsSafe` | none |
| `HealthyClientsAreKept` | `MCSpec => HealthyClientKept` | none |
| `SessionsAlwaysSafe` | `MCSpec => []SessionSafe` | none |
| `ServicesProofs!ResponseAlwaysSafe` | `MCSpec => []ResponseSafe` | none |
| `CacheAlwaysSafe` | `MCSpec => []CacheSafe` | none |
| `SchedulersAlwaysSafe` | `MCSpec => []SchedulersSafe` | none |
| `ProcessAlwaysSafe` | `MCSpec => []ProcessSafe` | none |
| `LimiterAlwaysExact` | `MCSpec => []LimiterExact` | none |
| `PieceServicesProofs!SourcesAlwaysSafe` | `MCSpec => []SourcesSafe` | none |
| `PiecesAlwaysExact` | `MCSpec => []PiecesExact` | none |

The pieces:

- *TypeInv* is `TypeOK` and "a writer is inside the piece and has a payload": without it a
  block write could leave the type.
- *Claims.* Every step of a call does one of four things to the claim: it keeps it,
  takes it where there was none, gives back its own, or expires somebody else's
  (lemma `ClaimStep`). `NoOrphanClaim` follows from that. With no timed-out waits the
  fourth does not occur, and *ClaimInv* (one owner, an owner has an entry, nobody
  is expiring) is inductive. The hypothesis is needed: with a timed-out wait two
  downloads of one piece run at once (section 6).
- *Content.* *ContentInv* adds to `FinishedIntact` what a download has written so far: the
  blocks before its next one while it writes, all of them afterwards, and that the
  record is not finished until it says so. Together with one owner and no deletion (*Quiet*)
  it is preserved by every step but a write that a dropped download left behind. That
  hypothesis is needed when sources disagree: such a write may land in a piece that the
  next download has finished with other bytes, over TCP, QUIC and URMA alike.
- *Shared content.* `FinishedPiecesAreIntact` buys different payloads with a quiet
  system; `SharedContentIsIntact` is the other half and needs neither one owner nor the absence
  of late writes. When all sources give the same bytes, a block that holds the payload never becomes
  a hole again (*FilledInv*): second owners, late writes and restarts only write it again.
  A record is finished only after its owner has filled every block, and an upload opens the
  file after it saw the record. A deletion removes the file, hence the second hypothesis.
- *The store.* *RecordInv* says that a record has a digest exactly when it is finished,
  that only downloads own, that an owner that is past its look at the record finds it
  unfinished until it writes it itself, and that what it is about to record is a payload.
  It needs *ClaimInv*: the one owner is the only call that can finish the record. Every
  step of a call is then hidden, begins, stores, ends or forgets (lemma `StoreStep`),
  and with one owner there is nothing to choose in the refinement mapping.

The tasks:

- *TypeInv* is `TypeOK` and *Shape*: outside the three loops a call has no job, a piece
  that is still to be spawned has none, a job that fetches from parents has a parent
  left to try, and a call that has not begun has obtained nothing and has no peer. Each
  action proves its own effect on one call; a frame lemma (*Same*) covers the others.
- *ClaimInv*: a piece is owned by the call whose job is fetching it, and by no other. An
  action keeps, takes or drops claims; an abort drops those of all jobs at once, which is
  the case a per-job argument would miss.
- *Covered* carries the pieces a call is accountable for: each piece of its range is
  still of interest or good, and so is whatever it counts as obtained or a job has
  sent. It is used twice, with good read as *delivered to the client* and as *stored*;
  a call succeeds only when nothing is of interest any more, so its range is delivered,
  or stored. The second reading needs that a stored piece is forgotten only with the
  whole task.
- *PeerShape*: after its last message to the scheduler a call is on its way out, or
  fetches from the origin on its own; nothing on those paths sends for the peer.
- `PiecesAreStored` follows from *ClaimInv*: each step takes, stores, drops or forgets a
  piece as the abstract store allows.
- *HitInv*, for `FinishedIsLocalHit`: as long as the record is marked finished, or some call was
  told so (*Remembered*), there is a call whose range is stored and not empty (*Holds*). The mark
  is set only by a call that succeeded, whose range is stored by the second reading of
  *Covered*; an empty range would make the next hit a false one. When all calls ask for one
  range, that range is the one of the call that got the hit.

The registered memory (*IInv* of `UrmaFabricProofs`):

- `SlotOwnership` alone is not inductive: a completion or a recycle names a slot by a token that
  may be old. *SlotInv* says what each state of a slot means to the free list, the router's table,
  the provider and the lease book. *LeaseInv* says that the slots of a lease keep the
  generation under which it was made and are leased, wait with its window, or were left behind
  by a failed poll; two leases share no slot. So a recycle that passes the generation check
  is one of the owner, even if generations wrap around at once (`GenMax = 1`).
- *Broken* (a poll has failed, the fabric is poisoned or goes down) is the state in which what a
  failed poll left behind is allowed. The proof shows that no slot is handed out from then on,
  which carries permits and leases through the fault paths.
- *LaneInv*: a lane that has failed, closed or gone has no work request, and a healthy fabric has
  let every lane go that could. *OwnerInv* ties the phases of the owner thread together;
  *EndInv*: the segment is unregistered only by a stopped owner, and closed only without work
  requests and leases; the guard of the process is given back only after that, without lanes.

The records (*IInv* of `TaskGCProofs`): `RecordsSafe` is nearly inductive. It needs that what a
caller is about to put back is a record (*PutsRecord*), or the put after a deletion could leave
content without one (the file of a failed allocation is the one that no put follows), and
that the collector has no deletion under way between two ticks
(*GcIdle*).

Persistent tasks (*IInv* of `PersistentTaskProofs`): *Covered* again, with good read as *sent to the
client* (*SentInv*) and as *stored* (*StoredInv*). A download of a piece advances its call
(*Advances*) and at some step comes to count (*Gained*), which must be after the piece is sent and
stored; a JoinSet that is shut down gives the claims of all its downloads back and removes what
they had only started (*Dropped*). *ToldInv*: after "finished" a call only closes its stream.
*UploadInv* follows the two halves of an upload, which run side by side: each piece is still to
be imported or stored, and the object is at the origin before the upload is reported. *ClaimInv*:
a piece is claimed by the call whose download holds it. `tainted` excepts what a deletion or a
second import does to a running call.

The transports (*Inv* and *SessionInv* of `TransportProofs`):

- URMA clients. *GateInv*: there is one gate however often it is made and dropped, and the call
  that has it locked is the one inside. *CountInv*: every call makes at most one client, so
  generations never run out. *FabricInv*: a fabric is started only when all before it failed.
  *BlameInv*: a client has one call that retires it, which is the one that took it out of the
  cache; nobody else may blame the parent for it. *ReportInv*: a client that a lookup reports is
  broken and no longer cached, so no second lookup finds it; with *BlameInv* that makes two
  penalties at most, and two do occur (section 6). *HealthInv*: what a call is about to retire is
  broken or not cached any more; `HealthyClientKept` follows from it step by step.
- TCP and QUIC. *InflightInv*: a client's request count is the number of guards on it.
  *PoolInv*: a client that some request found closed and unused has left the pool for good,
  because clients are numbered and never come back. *UploadInv*: started uploads are those
  finished, failed or still with a handler.
- URMA session. *Row* is what one transfer looks like from both ends at once: consumed, published,
  delivered, sent and posted chunks in this order, the stage of the call and the stage of the task
  that go together, and what can be on the wire between them (*Stages*). While the task sends,
  the frames under way are a *Chain*: the windows from the one that the server expects next up
  to the last one posted, without a gap, so the check of `send_next_registered_window` never fails
  and the length that the server fills is the length that the client expects (lemma `LeaseFits`,
  for every length of a piece, chunk size and window). *LaneRow*: a transfer that was
  asked for has a lane, and a task that failed took the lane with it; so no window is announced to
  a task that is gone, and `ServerRoutes` is never enabled: the server has no late frame to
  drop. *SlotInv*: one call dials, and then no transfer is at the server. *SessionCounts*: the
  receives outstanding are the chunks between sent and posted, of all transfers. Sums over
  transfers are cardinalities of sets of pairs of a transfer and a number (`Between`), which a step
  of one transfer changes by its own part (lemma `BetweenMoves`); sums of a recursive function
  would be induction over data. `ReceivesPosted` is then an inclusion of sets. The lemmas about
  a step are stated for one row and lifted to all by `TransferStep`.

The services (`ServicesProofs`, `PieceServicesProofs`; a step is one of a part or leaves it
alone, so every part has an
invariant of its own):

- Proxy. *BodyInv*: what the client has read and what the body holds are the pieces whose turn has
  come, in order; a body whose pump has ended is complete or ends in an error. *StageInv*: until the
  credentials are verified there is no download, and its first message is taken by the handler,
  so the pump sees only pieces.
- Programs. *FileOK* relates one file to what the daemon has delivered: written and buffered
  together are the pieces given, and the two ways to see the end of a stream, the pieces that
  remain and the bytes that came, agree with that, the second one where no piece is repeated or
  no stream cut. *WalkInv* says which entries of a directory
  may have been asked for; a download that is shut down stops where it is.
- Collector. `OffersKept` is inductive beside the types, for any capacity of the channel: an
  abort, which comes only when the map is empty, moves what a task holds to `lost`.
- Selector. *LiveInv*: a stream that nobody has told to stop is the one in the map. *LockInv*: a call that
  checks a count holds the map entry. The counts of a connection are not exact (section 6) and
  nothing is said about them.
- Cache. *OrderInv*: the order of use is total on the entries, and the list has it, forwards and
  backwards. Detaching and attaching are proved on any list that has an order (lemmas
  `DetachLinked`, `AttachLinked`); a use is the one after the other. *SizeInv*: the bytes of the
  entries are at most the size that the cache believes in, because a replaced entry is counted
  twice and taken off once; so eviction makes room enough. *KeptInv*: what is about to be recorded
  is kept, or went with its entry. *ComparedInv*: bad content is still to be compared by a call that
  brought it, or is known to be bad.
- Schedulers. *UpdateInv*: those who replace the lists at the same time have read the same one
  unless `mixed` says otherwise, and what one has replaced stays so. *AgreeInv*: until the first
  of them replaces the list, list, addresses and ring agree; so a call that is dropped before
  that leaves them so, and one that is dropped later sets `mixed`. *LeavingInv*: the announcer
  that leaves has on its list every scheduler that knows the host.
- Process. *BarrierInv*: who has arrived at the barrier has its address, and nobody passes
  before all have arrived.
- Limiter. *BucketInv* and *HistoryInv* beside the property: the calls of the ring are counted as
  pairs of a bucket and a number, so that a sample that goes or comes changes the count by its own.
- Pieces. *PassedInv*: every piece that the loop has passed starts within the content and before the
  end of the range. *CutInv*: the list is the pieces from the one of the first wanted byte up to the
  loop, at full length while it runs and cut at the end of the content after it; so the reference,
  the pieces that share a byte with the range, is an interval (lemma `ListedWanted`) and its i-th
  member is known. *MergedInv*: there is one entry for each number brought, and what remains are the
  others; counting is a bijection (lemma `OneEach`). For the piece length, powers of two are the
  numbers without an odd divisor other than one: halves and doubles of them are again such numbers,
  and a least one above every number exists because sets of natural numbers have a least member
  (lemma `SmallestMember`, from the well-founded order of finite sets: the library's induction
  over numbers takes an operator).

Only model-checked:

- every liveness property (`CallsReturn`, `WrsRetire`, `ShutdownEnds`, `CallsEnd`,
  `SpaceIsReclaimed`, `TransfersEnd`, `ServicesEnd`): fairness and `ENABLED` are outside the
  prover's reach;
- `NeverEraseFinished` (violated, section 6).

## 6 Where the code and its comments disagree, and what else is known

`piece_stale_erase`: `wait_for_piece_finished_failed` reads the record and deletes it in a
second call. After a restart a waiter that found a stale record erases the record that
another download finished in between. `metadata.rs:1563` says that must never happen. It is quoted in
`PROJECT.json`, "findings".

These behaviours of the code were met while modelling. They are in the models; the
properties name and except them, so that everything else stays checked.

Storage and tasks:

- A waiter whose wait times out removes the notifier of the running download, and the next
  caller downloads the piece beside it (`lib.rs:1747`). `OneOwner` is checked and proved
  without timed-out waits.
- A finished range download marks the whole task finished; the next range is announced as a
  local hit although nothing of it is stored (`dfdaemon_download.rs:551`), and `sync_pieces`
  ends its stream early (`dfdaemon_upload.rs:1108`). `FinishedIsLocalHit` is about one range.
- `in_stream_tx.closed().await` has no timeout (`task.rs:773`).
- A write of a dropped download may land after the next download has finished the piece
  (`io.rs:455`, `content_linux.rs:637`); when the two sources disagree the record no longer
  describes the file.
- `create_task` leaves the file when its allocation fails; if the record was deleted while the
  download asked the origin, nothing names the file (`content_linux.rs:234`). A download that
  is refused leaves its record neither failed nor finished (`task.rs:269`).
- Of two calls that finish, fail or prefetch a task at once one mark is lost (`metadata.rs:693`).
- `delete_task` removes record, piece records and content in three steps; a stop of the
  process in between leaves content that no record names and no pass looks for
  (`storage/src/lib.rs:217`).
- The collector's ttl pass deletes an expired task although it uploads, against the comment
  at its guard (`gc/mod.rs:153`); a low watermark above the high one underflows
  (`gc/mod.rs:204`). A deletion resets upload counts, which then go negative
  (`metadata.rs:784`) and are reported as about 2^64 (`task.rs:2443`).
- The local lookup of a persistent cache task takes a started piece for a finished one
  (`persistent_cache_task.rs:1496`): `FinishedIsHeld` claims completeness for persistent
  tasks only.
- A piece length fixed to 0 would keep the loop of `piece.rs:263` from ending; nothing in
  the daemon refuses it. `PieceNumbers` is about lengths above 0.

URMA and transports:

- A poisoned fabric keeps a lane whose receive was never finished, and loses the lease of a
  window that was partly completed when the poll failed (`completion.rs:732`); `LeasesKept`
  and `LifetimesNest` claim otherwise only while the fabric is healthy.
- The content of a persistent or persistent cache piece is read without a timeout
  (`lib.rs:1385`). A reader that leaves costs the lane in the end (`client/urma.rs:806`).
- `retire_failed_fabric` may clear a client of the next fabric (`piece_downloader.rs:294`).
- A lookup that finds the cached client broken penalises the parent whether or not it was the
  one to remove the client (`piece_downloader.rs:431-437`); a request that failed on the client
  in between penalises it too. `PenaltiesPerClient` allows these two and no more.
- The owner of a fabric blocks on its commands although the flush sentinel of a retiring lane
  without work requests is pending (`fabric.rs:899`): the lane goes with the next command.

Services:

- When the map of the collector is empty its sync tasks are aborted, and with them a piece
  that one has taken out and not yet sent (`piece_collector.rs:393`); a later round or the
  origin has to bring it. `OffersKept` excepts that piece.
- A call that registers while another unregisters may lose the stream it counted itself into
  (`parent_selector.rs:310`); a host that could not be connected is counted down all the
  same and may wrap around (`:233`).
- A handler of `sync_pieces` notices a peer that has gone only when it sends again
  (`dfdaemon_upload.rs:1134`).
- A failed prefetch stays marked and is not tried again (`proxy/task.rs:398`).
- The size of the cache only drifts upwards when tasks are replaced (`cache/mod.rs:232`); a
  refused piece stays in the cache (`lib.rs:2107`).
- Two updates of the scheduler client at once may leave the list of one and the ring of the
  other, and a call that is cancelled between the locks a new list and an old ring, which the
  next call takes for up to date (`grpc/scheduler.rs:711-728`).
- A service that subscribes to the shutdown after its trigger keeps `main` waiting
  (`bin/dfdaemon/main.rs:613`).
- The limiter may refuse a call although it is the only one (`bbr.rs:254`).
- dfcache and dfstore compare the bytes received with the content length. When the
  scheduler fails after some rounds, a persistent download starts again from the source and
  sends pieces twice (`persistent_task.rs:1442-1466`); dfstore then reports "download
  incomplete" although everything arrived (`dfstore/export.rs:518`). A repeated piece *and* an
  early end can cancel out: the export is then reported as done and lacks a piece
  (`CountFooled`, excepted by `OutputIsWhole` for the two programs).
- A directory download of dfget that is aborted leaves the partly written files of the
  transfers it stopped, and `--max-concurrent-requests 0` never starts one
  (`bin/dfget/main.rs:718`).

## 7 What is not modelled

- *Backends* (HTTP, object storage, HDFS, Hugging Face, ModelScope, OpenCSG): requests and
  I/O against remote services; to the models their results are choices.
- *Imports, stat and dfctl*: one request and its answer each. What an import does in the
  daemon is the upload of `PersistentTask`.
- *Manager client*: one call each; its answers are the environment of `Schedulers`.
- *Container-runtime set-up*: one sequential rewrite of configuration files.
- *Configuration, metrics, tracing, health, statistics, system information*: no state another
  part depends on. The start and stop of their servers are in `Daemon`.
- *The foreign-function layer* and the native library behind it: external; `UrmaFabric`
  models the provider by what the code has to expect of it. The start-up of a fabric with
  its rollback is left out.
- *RocksDB, tokio, the scheduler, the manager*: external. One RocksDB call is atomic.
- *Bandwidth limits* (token buckets): a library.
- *Encodings* (Vortex messages, control frames, descriptors, headers): a message is its kind
  and the fields a decision depends on.
- *The weighted draw* of a parent, and the output path of a task (hard link, copy, digest).

## 8 Plan

What is left is proof and composition:

1. `PieceExchange` in place of the environment of `TaskDownload`, and `UrmaSession` over the
   lane of `UrmaFabric` through an abstract lane: each needs an abstract specification of the
   lower part, as `PieceStore` is for the storage.
