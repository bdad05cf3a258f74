---------------------------- MODULE PieceExchange ----------------------------
(* How a peer learns which parent holds which piece: the sync_pieces stream  *)
(* of each parent (grpc/dfdaemon_upload.rs) and the collector of the peer    *)
(* that merges them for its downloader (resource/piece_collector.rs). The    *)
(* code has three copies of both, for tasks, persistent tasks and persistent *)
(* cache tasks.                                                              *)
EXTENDS Integers, Sequences, FiniteSets, SequencesExt

CONSTANTS
    Parents,      \* the parents the scheduler named
    Pieces,       \* the numbers of the pieces the peer is interested in
    Rounds,       \* the copy that runs and what each parent has at the start
    Capacity      \* of the channel to the downloader

VARIABLES
    kind,         \* which of the three copies runs
    task,         \* parent -> its task record
    record,       \* parent -> piece -> its piece record
    inflight,     \* parent -> pieces with an entry in its notifier
    srv,          \* parent -> where its sync_pieces stream stands
    finished,     \* parent -> the task was finished when the stream began
    want,         \* parent -> pieces the stream still has to report
    subs,         \* parent -> notifiers the stream is subscribed to
    woken,        \* parent -> those of them that were notified
    unread,       \* parent -> pieces this pass has still to read
    net,          \* parent -> messages on their way to the peer
    live,         \* parents of the collector that have not ended
    pending,      \* pieces in collected_pieces
    by,           \* piece -> parents that reported it
    timer,        \* pieces whose wait for all parents runs
    sync,         \* parent -> where its sync task stands
    hold,         \* parent -> the piece its sync task is about to send
    late,         \* pieces taken by their timer and not sent yet
    coord,        \* where collect_from_parents stands
    chan,         \* pieces in the channel to the downloader
    got,          \* pieces the downloader received
    down,         \* the downloader: receiving, ended or gone
    lost,         \* pieces in the hands of sync tasks that were aborted
    faulty        \* parents whose stream met a failure

serverVars == <<task, record, inflight, srv, finished, want, subs, woken, unread>>
parentVars == <<task, record, inflight>>
streamVars == <<srv, finished, want, subs, woken, unread>>
collectVars == <<live, pending, by, timer, sync, hold, late, coord>>
outVars == <<chan, got, down, lost>>
vars == <<kind, serverVars, net, collectVars, outVars, faulty>>

Kinds == {"task", "persistent", "persistent_cache"}

\* What is no piece number: no piece, the end of a stream, an error status.
NoPiece == -1
End == -2
Failed == -3

TypeOK ==
    /\ kind \in Kinds
    /\ task \in [Parents -> {"none", "running", "failed", "finished"}]
    /\ record \in [Parents -> [Pieces -> {"none", "started", "finished"}]]
    /\ inflight \in [Parents -> SUBSET Pieces]
    /\ srv \in [Parents -> {"closed", "open", "subscribe", "read", "decide", "wait", "done"}]
    /\ finished \in [Parents -> BOOLEAN]
    /\ want \in [Parents -> SUBSET Pieces]
    /\ subs \in [Parents -> SUBSET Pieces]
    /\ woken \in [Parents -> SUBSET Pieces]
    /\ unread \in [Parents -> SUBSET Pieces]
    /\ \A h \in Parents : \A i \in DOMAIN net[h] : net[h][i] \in Pieces \cup {End, Failed}
    /\ live \subseteq Parents
    /\ pending \subseteq Pieces
    /\ by \in [Pieces -> SUBSET Parents]
    /\ timer \subseteq Pieces
    /\ sync \in [Parents -> {"connect", "stream", "take", "send", "ended", "joined"}]
    /\ hold \in [Parents -> Pieces \cup {NoPiece}]
    /\ \A h \in Parents : hold[h] # NoPiece <=> sync[h] \in {"take", "send"}
    /\ late \subseteq Pieces
    /\ coord \in {"join", "flush", "check", "shutdown", "done"}
    /\ chan \subseteq Pieces
    /\ got \subseteq Pieces
    /\ down \in {"receiving", "ended", "gone"}
    /\ lost \subseteq Pieces
    /\ faulty \subseteq Parents

\* PieceCollector::new enters every interested piece without a parent, and run
\* spawns one task per parent. A parent may hold, be fetching or lack a piece.
PieceCollectorNew ==
    /\ live = Parents
    /\ pending = Pieces
    /\ by = [n \in Pieces |-> {}]
    /\ timer = {}
    /\ late = {}

PieceCollectorRun ==
    /\ sync = [h \in Parents |-> "connect"]
    /\ hold = [h \in Parents |-> NoPiece]
    /\ coord = "join"
    /\ chan = {}
    /\ got = {}
    /\ down = "receiving"
    /\ lost = {}

\* A piece whose record is started is in flight.
Init ==
    /\ \E r \in Rounds :
        /\ kind = r.kind
        /\ task = r.task
        /\ record = r.record
    /\ inflight = [h \in Parents |-> {n \in Pieces : record[h][n] = "started"}]
    /\ srv = [h \in Parents |-> "closed"]
    /\ finished = [h \in Parents |-> FALSE]
    /\ want = [h \in Parents |-> {}]
    /\ subs = [h \in Parents |-> {}]
    /\ woken = [h \in Parents |-> {}]
    /\ unread = [h \in Parents |-> {}]
    /\ net = [h \in Parents |-> <<>>]
    /\ PieceCollectorNew
    /\ PieceCollectorRun
    /\ faulty = {}

-----------------------------------------------------------------------------
(* The parent goes on downloading (PieceLifecycle has the details).          *)

\* Another download of the parent starts a piece.
ParentStarts(h, n) ==
    /\ srv[h] # "done"
    /\ task[h] = "running"
    /\ record[h][n] = "none"
    /\ record' = [record EXCEPT ![h][n] = "started"]
    /\ inflight' = [inflight EXCEPT ![h] = @ \cup {n}]
    /\ UNCHANGED <<kind, task, streamVars, net, collectVars, outVars, faulty>>

\* It records the piece as finished, or removes the record of a failed one.
ParentRecords(h, n) ==
    /\ srv[h] # "done"
    /\ record[h][n] = "started"
    /\ \E r \in {"finished", "none"} : record' = [record EXCEPT ![h][n] = r]
    /\ UNCHANGED <<kind, task, inflight, streamVars, net, collectVars, outVars, faulty>>

\* Then it gives the claim back and wakes those that wait on it.
ParentNotifies(h, n) ==
    /\ srv[h] # "done"
    /\ n \in inflight[h]
    /\ record[h][n] # "started"
    /\ inflight' = [inflight EXCEPT ![h] = @ \ {n}]
    /\ woken' = [woken EXCEPT ![h] = @ \cup ({n} \cap subs[h])]
    /\ UNCHANGED <<kind, task, record, srv, finished, want, subs, unread, net, collectVars, outVars, faulty>>

-----------------------------------------------------------------------------
(* The sync_pieces handler of parent h.                                      *)

Tell(h, m) == net' = [net EXCEPT ![h] = Append(@, m)]

\* The stream ends. What the parent does after that is left out.
Close(h) ==
    /\ srv' = [srv EXCEPT ![h] = "done"]
    /\ finished' = [finished EXCEPT ![h] = FALSE]
    /\ want' = [want EXCEPT ![h] = {}]
    /\ subs' = [subs EXCEPT ![h] = {}]
    /\ woken' = [woken EXCEPT ![h] = {}]
    /\ unread' = [unread EXCEPT ![h] = {}]

\* The peer drops the stream: the handler stops at its next report.
Drop(h) ==
    /\ Close(h)
    /\ net' = [net EXCEPT ![h] = <<>>]

\* It looks the task up once; a failed or unknown one ends the stream.
SyncOpen(h) ==
    /\ srv[h] = "open"
    /\ IF task[h] \in {"none", "failed"}
       THEN /\ Tell(h, Failed)
            /\ faulty' = faulty \cup {h}
            /\ Close(h)
       ELSE /\ finished' = [finished EXCEPT ![h] = task[h] = "finished"]
            /\ want' = [want EXCEPT ![h] = Pieces]
            /\ srv' = [srv EXCEPT ![h] = "subscribe"]
            /\ UNCHANGED <<subs, woken, unread, net, faulty>>
    /\ UNCHANGED <<kind, parentVars, collectVars, outVars>>

\* It subscribes to the pieces in flight before it reads any record.
SyncSubscribe(h) ==
    /\ srv[h] = "subscribe"
    /\ subs' = [subs EXCEPT ![h] = want[h] \cap inflight[h]]
    /\ woken' = [woken EXCEPT ![h] = {}]
    /\ unread' = [unread EXCEPT ![h] = want[h]]
    /\ srv' = [srv EXCEPT ![h] = "read"]
    /\ UNCHANGED <<kind, parentVars, finished, want, net, collectVars, outVars, faulty>>

\* In the order of the request it reports each finished piece and forgets it.
SyncRead(h, n) ==
    /\ srv[h] = "read"
    /\ n \in unread[h]
    /\ \A i \in unread[h] : n <= i
    /\ unread' = [unread EXCEPT ![h] = @ \ {n}]
    /\ IF record[h][n] = "finished"
       THEN Tell(h, n) /\ want' = [want EXCEPT ![h] = @ \ {n}]
       ELSE UNCHANGED <<net, want>>
    /\ UNCHANGED <<kind, parentVars, srv, finished, subs, woken, collectVars, outVars, faulty>>

\* A failing read of the record ends the stream.
SyncReadFails(h) ==
    /\ srv[h] = "read"
    /\ unread[h] # {}
    /\ Close(h)
    /\ Tell(h, Failed)
    /\ faulty' = faulty \cup {h}
    /\ UNCHANGED <<kind, parentVars, collectVars, outVars>>

\* After a pass: a task that was finished at the start has no more to come,
\* nor has one whose pieces are all reported.
SyncDecide(h) ==
    /\ srv[h] = "read"
    /\ unread[h] = {}
    /\ IF finished[h] \/ want[h] = {}
       THEN Close(h) /\ Tell(h, End)
       ELSE /\ srv' = [srv EXCEPT ![h] = "wait"]
            /\ subs' = [subs EXCEPT ![h] = @ \cap want[h]]
            /\ UNCHANGED <<finished, want, woken, unread, net>>
    /\ UNCHANGED <<kind, parentVars, collectVars, outVars, faulty>>

\* It waits for a notification of a piece still wanted, or sleeps when none is
\* in flight; a longer fallback sleep ends the wait in any case.
SyncWake(h) ==
    /\ srv[h] = "wait"
    /\ \/ subs[h] = {}
       \/ subs[h] \cap woken[h] # {}
    /\ srv' = [srv EXCEPT ![h] = "subscribe"]
    /\ UNCHANGED <<kind, parentVars, finished, want, subs, woken, unread, net, collectVars, outVars, faulty>>

SyncFallback(h) ==
    /\ srv[h] = "wait"
    /\ subs[h] # {}
    /\ srv' = [srv EXCEPT ![h] = "subscribe"]
    /\ UNCHANGED <<kind, parentVars, finished, want, subs, woken, unread, net, collectVars, outVars, faulty>>

SyncLoop(h) ==
    \/ SyncSubscribe(h)
    \/ \E n \in Pieces : SyncRead(h, n)
    \/ SyncReadFails(h)
    \/ SyncDecide(h)
    \/ SyncWake(h)
    \/ SyncFallback(h)

\* The three handlers.
sync_pieces_open(h) == kind = "task" /\ SyncOpen(h)
sync_pieces(h) == kind = "task" /\ SyncLoop(h)
sync_persistent_pieces_open(h) == kind = "persistent" /\ SyncOpen(h)
sync_persistent_pieces(h) == kind = "persistent" /\ SyncLoop(h)
sync_persistent_cache_pieces_open(h) == kind = "persistent_cache" /\ SyncOpen(h)
sync_persistent_cache_pieces(h) == kind = "persistent_cache" /\ SyncLoop(h)

Handler(h) ==
    \/ sync_pieces_open(h)
    \/ sync_pieces(h)
    \/ sync_persistent_pieces_open(h)
    \/ sync_persistent_pieces(h)
    \/ sync_persistent_cache_pieces_open(h)
    \/ sync_persistent_cache_pieces(h)

-----------------------------------------------------------------------------
(* The sync task of the collector for parent h.                              *)

\* It connects and asks for the interested pieces, or gives up: no host, no
\* connection, a refused call.
Connect(h) ==
    /\ sync[h] = "connect"
    /\ sync' = [sync EXCEPT ![h] = "stream"]
    /\ srv' = [srv EXCEPT ![h] = "open"]
    /\ UNCHANGED <<kind, parentVars, finished, want, subs, woken, unread, net,
                   live, pending, by, timer, hold, late, coord, outVars, faulty>>

ConnectFails(h) ==
    /\ sync[h] = "connect"
    /\ sync' = [sync EXCEPT ![h] = "ended"]
    /\ faulty' = faulty \cup {h}
    /\ Drop(h)
    /\ UNCHANGED <<kind, parentVars, live, pending, by, timer, hold, late, coord, outVars>>

\* Mutant: a piece waits for all parents without a timer.
ReportNoTimer(h) ==
    /\ sync[h] = "stream"
    /\ net[h] # <<>>
    /\ LET n == Head(net[h])
           all == Cardinality(by[n] \cup {h}) >= Cardinality(live)
       IN  /\ n \in Pieces
           /\ by' = [by EXCEPT ![n] = @ \cup {h}]
           /\ IF n \in pending /\ all
              THEN /\ sync' = [sync EXCEPT ![h] = "take"]
                   /\ hold' = [hold EXCEPT ![h] = n]
              ELSE UNCHANGED <<sync, hold>>
    /\ net' = [net EXCEPT ![h] = Tail(@)]
    /\ UNCHANGED <<kind, serverVars, live, pending, timer, late, coord, outVars, faulty>>

\* A report of a piece that was sent on already is dropped. Otherwise the parent
\* joins the piece: the first of several parents starts the timer, the last one
\* makes the piece ready.
Report(h) ==
    /\ sync[h] = "stream"
    /\ net[h] # <<>>
    /\ LET n == Head(net[h])
           all == Cardinality(by[n] \cup {h}) >= Cardinality(live)
       IN  /\ n \in Pieces
           /\ IF n \notin pending
              THEN UNCHANGED <<by, timer, sync, hold>>
              ELSE /\ by' = [by EXCEPT ![n] = @ \cup {h}]
                   /\ timer' = IF ~all /\ by[n] = {} THEN timer \cup {n} ELSE timer
                   /\ IF all
                      THEN /\ sync' = [sync EXCEPT ![h] = "take"]
                           /\ hold' = [hold EXCEPT ![h] = n]
                      ELSE UNCHANGED <<sync, hold>>
    /\ net' = [net EXCEPT ![h] = Tail(@)]
    /\ UNCHANGED <<kind, serverVars, live, pending, late, coord, outVars, faulty>>

\* It takes the ready piece out of the map, unless somebody else did.
Take(h) ==
    /\ sync[h] = "take"
    /\ IF hold[h] \in pending
       THEN /\ pending' = pending \ {hold[h]}
            /\ sync' = [sync EXCEPT ![h] = "send"]
            /\ UNCHANGED hold
       ELSE /\ sync' = [sync EXCEPT ![h] = "stream"]
            /\ hold' = [hold EXCEPT ![h] = NoPiece]
            /\ UNCHANGED pending
    /\ UNCHANGED <<kind, serverVars, net, live, by, timer, late, coord, outVars, faulty>>

Room == Cardinality(chan) < Capacity

\* Mutant: a sync task that finds the downloader gone keeps the piece.
SendKeeps(h) ==
    /\ sync[h] = "send"
    /\ \/ /\ down = "receiving"
          /\ Room
          /\ chan' = chan \cup {hold[h]}
          /\ sync' = [sync EXCEPT ![h] = "stream"]
          /\ hold' = [hold EXCEPT ![h] = NoPiece]
          /\ UNCHANGED <<streamVars, net>>
       \/ /\ down = "gone"
          /\ sync' = [sync EXCEPT ![h] = "ended"]
          /\ Drop(h)
          /\ UNCHANGED <<chan, hold>>
    /\ UNCHANGED <<kind, parentVars, live, pending, by, timer, late, coord, got, down, lost, faulty>>

\* And sends it; a downloader that is gone ends the stream.
Send(h) ==
    /\ sync[h] = "send"
    /\ \/ /\ down = "receiving"
          /\ Room
          /\ chan' = chan \cup {hold[h]}
          /\ sync' = [sync EXCEPT ![h] = "stream"]
          /\ UNCHANGED <<streamVars, net>>
       \/ /\ down = "gone"
          /\ sync' = [sync EXCEPT ![h] = "ended"]
          /\ Drop(h)
          /\ UNCHANGED chan
    /\ hold' = [hold EXCEPT ![h] = NoPiece]
    /\ UNCHANGED <<kind, parentVars, live, pending, by, timer, late, coord, got, down, lost, faulty>>

\* The stream ends, carries an error, breaks, or is silent for too long.
StreamEnds(h) ==
    /\ sync[h] = "stream"
    /\ net[h] # <<>>
    /\ Head(net[h]) \notin Pieces
    /\ sync' = [sync EXCEPT ![h] = "ended"]
    /\ Drop(h)
    /\ UNCHANGED <<kind, parentVars, live, pending, by, timer, hold, late, coord, outVars, faulty>>

StreamTimesOut(h) ==
    /\ sync[h] = "stream"
    /\ net[h] = <<>>
    /\ sync' = [sync EXCEPT ![h] = "ended"]
    /\ faulty' = faulty \cup {h}
    /\ Drop(h)
    /\ UNCHANGED <<kind, parentVars, live, pending, by, timer, hold, late, coord, outVars>>

SyncTask(h) ==
    \/ Connect(h)
    \/ ConnectFails(h)
    \/ Report(h)
    \/ Take(h)
    \/ Send(h)
    \/ StreamEnds(h)
    \/ StreamTimesOut(h)

\* Mutant: the timer gives up a piece that not every parent has reported.
TimerDrops(n) ==
    /\ n \in timer
    /\ timer' = timer \ {n}
    /\ pending' = pending \ {n}
    /\ late' = late \cup ({n} \cap {i \in pending : by[i] = live})
    /\ UNCHANGED <<kind, serverVars, net, live, by, sync, hold, coord, outVars, faulty>>

\* send_piece_after_timeout: whoever still finds the piece in the map sends it.
TimerFires(n) ==
    /\ n \in timer
    /\ timer' = timer \ {n}
    /\ pending' = pending \ {n}
    /\ late' = late \cup ({n} \cap pending)
    /\ UNCHANGED <<kind, serverVars, net, live, by, sync, hold, coord, outVars, faulty>>

TimerSends(n) ==
    /\ n \in late
    /\ \/ down = "receiving" /\ Room /\ chan' = chan \cup {n}
       \/ down = "gone" /\ UNCHANGED chan
    /\ late' = late \ {n}
    /\ UNCHANGED <<kind, serverVars, net, live, pending, by, timer, sync, hold, coord, got, down, lost, faulty>>

send_piece_after_timeout(n) == TimerFires(n) \/ TimerSends(n)

-----------------------------------------------------------------------------
(* collect_from_parents.                                                     *)

\* A sync task that has ended is joined and its parent forgotten.
Join(h) ==
    /\ coord = "join"
    /\ sync[h] = "ended"
    /\ sync' = [sync EXCEPT ![h] = "joined"]
    /\ live' = live \ {h}
    /\ coord' = IF live = {h} THEN "flush" ELSE "check"
    /\ UNCHANGED <<kind, serverVars, net, pending, by, timer, hold, late, outVars, faulty>>

\* With the last parent gone, the pieces that still wait for their timer go out.
Flush ==
    /\ coord = "flush"
    /\ LET rest == {n \in pending : by[n] # {}}
       IN  IF rest = {}
           THEN coord' = "check" /\ UNCHANGED <<pending, chan>>
           ELSE \E n \in rest :
                \/ /\ down = "receiving"
                   /\ Room
                   /\ chan' = chan \cup {n}
                   /\ pending' = pending \ {n}
                   /\ UNCHANGED coord
                \/ /\ down = "gone"
                   /\ pending' = pending \ {n}
                   /\ coord' = "shutdown"
                   /\ UNCHANGED chan
    /\ UNCHANGED <<kind, serverVars, net, live, by, timer, sync, hold, late, got, down, lost, faulty>>

\* Once no piece is left in the map the remaining sync tasks are aborted.
Check ==
    /\ coord = "check"
    /\ coord' = IF pending = {} THEN "shutdown" ELSE "join"
    /\ UNCHANGED <<kind, serverVars, net, live, pending, by, timer, sync, hold, late, outVars, faulty>>

\* An abort ends a task where it awaits: for a connection, a message, or its turn to
\* send (room in a full channel, or the runtime), and then the piece in its hands,
\* which nobody finds in the map any more, is lost to this collection.
Abort(h) ==
    /\ coord = "shutdown"
    /\ sync[h] \in {"connect", "stream", "send", "ended"}
    /\ sync' = [sync EXCEPT ![h] = "joined"]
    /\ hold' = [hold EXCEPT ![h] = NoPiece]
    /\ lost' = lost \cup ({hold[h]} \ {NoPiece})
    /\ Drop(h)
    /\ UNCHANGED <<kind, parentVars, live, pending, by, timer, late, coord, chan, got, down, faulty>>

\* With every task joined it returns.
Return ==
    /\ coord \in {"join", "shutdown"}
    /\ \A h \in Parents : sync[h] = "joined"
    /\ coord' = "done"
    /\ UNCHANGED <<kind, serverVars, net, live, pending, by, timer, sync, hold, late, outVars, faulty>>

Collect ==
    \/ \E h \in Parents : Join(h) \/ Abort(h)
    \/ Flush
    \/ Check
    \/ Return

\* The three collectors: each has its own sync tasks, and all share the timer.
CollectorStep ==
    \/ Collect
    \/ \E n \in Pieces : send_piece_after_timeout(n)

PieceCollector == kind = "task" /\ CollectorStep
PersistentPieceCollector == kind = "persistent" /\ CollectorStep
PersistentCachePieceCollector == kind = "persistent_cache" /\ CollectorStep

Syncs == \E h \in Parents : SyncTask(h)

SyncPiecesTask == kind = "task" /\ Syncs
SyncPersistentPiecesTask == kind = "persistent" /\ Syncs
SyncPersistentCachePiecesTask == kind = "persistent_cache" /\ Syncs

-----------------------------------------------------------------------------
(* The downloader.                                                           *)

Receive(n) ==
    /\ down = "receiving"
    /\ n \in chan
    /\ chan' = chan \ {n}
    /\ got' = got \cup {n}
    /\ UNCHANGED <<kind, serverVars, net, collectVars, down, lost, faulty>>

\* The channel is closed when every sender is gone.
Closed ==
    /\ coord = "done"
    /\ timer = {}
    /\ late = {}

ReceiveEnds ==
    /\ down = "receiving"
    /\ chan = {}
    /\ Closed
    /\ down' = "ended"
    /\ UNCHANGED <<kind, serverVars, net, collectVars, chan, got, lost, faulty>>

\* A round that is interrupted drops the receiver.
Leave ==
    /\ down = "receiving"
    /\ got # {}
    /\ down' = "gone"
    /\ chan' = {}
    /\ UNCHANGED <<kind, serverVars, net, collectVars, got, lost, faulty>>

Downloader == (\E n \in Pieces : Receive(n)) \/ ReceiveEnds

Next ==
    \/ \E h \in Parents, n \in Pieces :
        ParentStarts(h, n) \/ ParentRecords(h, n) \/ ParentNotifies(h, n)
    \/ \E h \in Parents : Handler(h)
    \/ PieceCollector
    \/ PersistentPieceCollector
    \/ PersistentCachePieceCollector
    \/ SyncPiecesTask
    \/ SyncPersistentPiecesTask
    \/ SyncPersistentCachePiecesTask
    \/ Downloader
    \/ Leave

Spec == Init /\ [][Next]_vars

\* What a sync task does without its timeout.
Streaming(h) == Connect(h) \/ ConnectFails(h) \/ Report(h) \/ Take(h) \/ Send(h) \/ StreamEnds(h)

-----------------------------------------------------------------------------

\* A piece that a parent reported is never lost between the map, the timers, the
\* sync tasks and the channel, whoever takes it out first and however full the channel
\* is, while the downloader receives. Excepted is the piece that a sync task was about
\* to send when the collector aborted it because the map had become empty.
OffersKept ==
    \A n \in Pieces : by[n] # {} =>
        \/ n \in pending \cup late \cup chan \cup got
        \/ \E h \in Parents : hold[h] = n /\ sync[h] = "send"
        \/ n \in lost /\ coord \in {"shutdown", "done"}
        \/ down = "gone"

\* The parent holds the piece and its stream has still to report it, or did. For a
\* task that was marked finished only the pieces recorded before its one pass count.
Due(h, n) ==
    \/ /\ record[h][n] = "finished"
       /\ n \in want[h]
       /\ finished[h] => n \in unread[h]
    \/ n \in ToSet(net[h])
    \/ h \in by[n]

\* A piece that a parent holds while its stream runs must reach the downloader, even
\* when another parent neither reports it nor ends (a slow parent does not block
\* the piece), unless this stream fails, the downloader leaves or an abort takes the
\* piece with it. The handler may
\* need its fallback sleep: a piece started after it subscribed wakes it not. And
\* the collection must end: only a silent stream that has not timed out holds it up.
CollectionSettled ==
    /\ \A h \in Parents, n \in Pieces : Due(h, n) => n \in got \cup lost \/ h \in faulty \/ down = "gone"
    /\ down = "receiving" => \E h \in Parents : sync[h] = "stream" /\ net[h] = <<>>

=============================================================================
