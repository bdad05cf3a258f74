------------------------- MODULE PieceServicesProofs -------------------------
(* Proofs about the parts of MCServices that say which pieces a task has and   *)
(* where they come from, for any number of hosts, pieces and calls, any        *)
(* lengths and any ranges: the collection of pieces from parents               *)
(* (PieceExchange), the selector of parents (ParentSelector) and the division  *)
(* of a task into pieces (PieceNumbers), each with an invariant of its own.    *)
EXTENDS MCServices, FiniteSetTheorems, WellFoundedInduction, TLAPS

-----------------------------------------------------------------------------
(* PieceExchange: the inductive invariant.                                   *)

Reports == Pieces \cup {Exchange!End, Exchange!Failed}

\* The parents and their streams.
HandlersInv ==
    /\ kind \in {"task", "persistent", "persistent_cache"}
    /\ task \in [Hosts -> {"none", "running", "failed", "finished"}]
    /\ record \in [Hosts -> [Pieces -> {"none", "started", "finished"}]]
    /\ inflight \in [Hosts -> SUBSET Pieces]
    /\ srv \in [Hosts -> {"closed", "open", "subscribe", "read", "decide", "wait", "done"}]
    /\ marked \in [Hosts -> BOOLEAN]
    /\ want \in [Hosts -> SUBSET Pieces]
    /\ subs \in [Hosts -> SUBSET Pieces]
    /\ woken \in [Hosts -> SUBSET Pieces]
    /\ unread \in [Hosts -> SUBSET Pieces]
    /\ net \in [Hosts -> Seq(Reports)]
    /\ faulty \subseteq Hosts

\* The collector and the channel.
CollectorInv ==
    /\ live \subseteq Hosts
    /\ pending \subseteq Pieces
    /\ by \in [Pieces -> SUBSET Hosts]
    /\ timer \subseteq Pieces
    /\ sync \in [Hosts -> {"connect", "stream", "take", "send", "ended", "joined"}]
    /\ hold \in [Hosts -> Pieces \cup {Exchange!NoPiece}]
    /\ \A h \in Hosts : hold[h] # Exchange!NoPiece <=> sync[h] \in {"take", "send"}
    /\ overdue \subseteq Pieces
    /\ coord \in {"join", "flush", "check", "shutdown", "done"}
    /\ chan \subseteq Pieces
    /\ got \subseteq Pieces
    /\ receiver \in {"receiving", "ended", "gone"}
    /\ lost \subseteq Pieces
    /\ Exchange!OffersKept

ExchangeInv == HandlersInv /\ CollectorInv

-----------------------------------------------------------------------------
(* PieceExchange: every step keeps the invariant.                            *)

LEMMA NoPieceIsNone == Exchange!NoPiece \notin Pieces
  BY ExchangeAssumption DEF Exchange!NoPiece

LEMMA ExchangeInit == Exchange!Init => ExchangeInv
  <1> SUFFICES ASSUME Exchange!Init PROVE ExchangeInv
    OBVIOUS
  <1>1. PICK r \in Rounds : kind = r.kind /\ task = r.task /\ record = r.record
    BY DEF Exchange!Init
  <1>2. HandlersInv
    BY <1>1, ExchangeAssumption DEF Exchange!Init, HandlersInv
  <1>3. CollectorInv
    BY DEF Exchange!Init, Exchange!PieceCollectorNew, Exchange!PieceCollectorRun, CollectorInv, Exchange!OffersKept
  <1> QED BY <1>2, <1>3 DEF ExchangeInv

CollectorVars == <<live, pending, by, timer, sync, hold, overdue, coord, chan, got, receiver, lost>>
HandlersVars == <<kind, task, record, inflight, srv, marked, want, subs, woken, unread, net, faulty>>

LEMMA CollectorStutter == ASSUME CollectorInv, UNCHANGED CollectorVars PROVE CollectorInv'
  BY DEF CollectorInv, CollectorVars, Exchange!OffersKept

LEMMA HandlersStutter == ASSUME HandlersInv, UNCHANGED HandlersVars PROVE HandlersInv'
  BY DEF HandlersInv, HandlersVars

LEMMA ExchangeStutter == ExchangeInv /\ UNCHANGED exchangeVars => ExchangeInv'
  BY CollectorStutter, HandlersStutter DEF ExchangeInv, exchangeVars, CollectorVars, HandlersVars

\* A stream that is dropped.
LEMMA DropStep ==
  ASSUME HandlersInv, NEW h \in Hosts, Exchange!Drop(h), UNCHANGED <<kind, task, record, inflight>>,
         faulty' \subseteq Hosts
  PROVE  HandlersInv'
  BY DEF HandlersInv, Exchange!Drop, Exchange!Close

LEMMA TellStep ==
  ASSUME HandlersInv, NEW h \in Hosts, NEW m \in Reports, Exchange!Tell(h, m)
  PROVE  net' \in [Hosts -> Seq(Reports)]
  <1>1. net[h] \in Seq(Reports)
    BY DEF HandlersInv
  <1>2. Append(net[h], m) \in Seq(Reports)
    BY <1>1
  <1> QED BY <1>2 DEF HandlersInv, Exchange!Tell

\* A step of a parent or of its handler.
LEMMA SyncPiecesStep ==
  ASSUME HandlersInv,
         \/ \E h \in Hosts, n \in Pieces :
                Exchange!ParentStarts(h, n) \/ Exchange!ParentRecords(h, n) \/ Exchange!ParentNotifies(h, n)
         \/ \E h \in Hosts : Exchange!Handler(h)
  PROVE  HandlersInv' /\ UNCHANGED CollectorVars
  <1>1. ASSUME NEW h \in Hosts, NEW n \in Pieces,
               Exchange!ParentStarts(h, n) \/ Exchange!ParentRecords(h, n) \/ Exchange!ParentNotifies(h, n)
        PROVE  HandlersInv' /\ UNCHANGED CollectorVars
    <2>1. CASE Exchange!ParentStarts(h, n)
      BY <2>1 DEF HandlersInv, CollectorVars, Exchange!ParentStarts, Exchange!streamVars, Exchange!collectVars,
          Exchange!outVars
    <2>2. CASE Exchange!ParentRecords(h, n)
      BY <2>2 DEF HandlersInv, CollectorVars, Exchange!ParentRecords, Exchange!streamVars, Exchange!collectVars,
          Exchange!outVars
    <2>3. CASE Exchange!ParentNotifies(h, n)
      BY <2>3 DEF HandlersInv, CollectorVars, Exchange!ParentNotifies, Exchange!streamVars,
          Exchange!collectVars, Exchange!outVars
    <2> QED BY <1>1, <2>1, <2>2, <2>3
  <1>2. ASSUME NEW h \in Hosts, Exchange!SyncOpen(h)
        PROVE  HandlersInv' /\ UNCHANGED CollectorVars
    <2>1. UNCHANGED CollectorVars /\ UNCHANGED <<kind, task, record, inflight>>
      BY <1>2 DEF Exchange!SyncOpen, CollectorVars, Exchange!parentVars, Exchange!collectVars, Exchange!outVars
    <2>2. CASE Exchange!Tell(h, Exchange!Failed) /\ faulty' = faulty \cup {h} /\ Exchange!Close(h)
      <3>1. net' \in [Hosts -> Seq(Reports)]
        BY <2>2, TellStep DEF Reports
      <3> QED BY <2>1, <2>2, <3>1 DEF HandlersInv, Exchange!Close
    <2>3. CASE /\ marked' = [marked EXCEPT ![h] = task[h] = "finished"]
               /\ want' = [want EXCEPT ![h] = Pieces] /\ srv' = [srv EXCEPT ![h] = "subscribe"]
               /\ UNCHANGED <<subs, woken, unread, net, faulty>>
      <3>1. marked' \in [Hosts -> BOOLEAN]
        BY <2>3, Zenon DEF HandlersInv
      <3>2. /\ want' \in [Hosts -> SUBSET Pieces]
            /\ srv' \in [Hosts -> {"closed", "open", "subscribe", "read", "decide", "wait", "done"}]
        BY <2>3 DEF HandlersInv
      <3> QED BY <2>1, <2>3, <3>1, <3>2 DEF HandlersInv
    <2> QED BY <1>2, <2>2, <2>3 DEF Exchange!SyncOpen
  <1>3. ASSUME NEW h \in Hosts, Exchange!SyncLoop(h)
        PROVE  HandlersInv' /\ UNCHANGED CollectorVars
    <2>1. CASE Exchange!SyncSubscribe(h)
      BY <2>1 DEF HandlersInv, CollectorVars, Exchange!SyncSubscribe, Exchange!parentVars, Exchange!collectVars,
          Exchange!outVars
    <2>2. ASSUME NEW n \in Pieces, Exchange!SyncRead(h, n)
          PROVE  HandlersInv' /\ UNCHANGED CollectorVars
      <3>1. UNCHANGED CollectorVars /\ UNCHANGED <<kind, task, record, inflight, srv, marked, subs, woken, faulty>>
        BY <2>2 DEF Exchange!SyncRead, CollectorVars, Exchange!parentVars, Exchange!collectVars, Exchange!outVars
      <3>2. net' \in [Hosts -> Seq(Reports)]
        <4>1. n \in Reports
          BY DEF Reports
        <4>2. Exchange!Tell(h, n) \/ net' = net
          BY <2>2 DEF Exchange!SyncRead
        <4> QED BY <4>1, <4>2, TellStep DEF HandlersInv
      <3>3. want' \in [Hosts -> SUBSET Pieces] /\ unread' \in [Hosts -> SUBSET Pieces]
        <4>1. want' \in {want, [want EXCEPT ![h] = @ \ {n}]} /\ unread' = [unread EXCEPT ![h] = @ \ {n}]
          BY <2>2 DEF Exchange!SyncRead
        <4> QED BY ZenonT(60), <4>1 DEF HandlersInv
      <3> QED BY <3>1, <3>2, <3>3 DEF HandlersInv
    <2>3. CASE Exchange!SyncReadFails(h)
      <3>1. net' \in [Hosts -> Seq(Reports)]
        BY <2>3, TellStep DEF Reports, Exchange!SyncReadFails
      <3> QED BY <2>3, <3>1 DEF HandlersInv, CollectorVars, Exchange!SyncReadFails, Exchange!Close,
          Exchange!parentVars,
                               Exchange!collectVars, Exchange!outVars
    <2>4. CASE Exchange!SyncDecide(h)
      <3>1. UNCHANGED CollectorVars /\ UNCHANGED <<kind, task, record, inflight, faulty>>
        BY <2>4 DEF Exchange!SyncDecide, CollectorVars, Exchange!parentVars, Exchange!collectVars, Exchange!outVars
      <3>2. CASE Exchange!Close(h) /\ Exchange!Tell(h, Exchange!End)
        <4>1. net' \in [Hosts -> Seq(Reports)]
          BY <3>2, TellStep DEF Reports
        <4> QED BY <3>1, <3>2, <4>1 DEF HandlersInv, Exchange!Close
      <3>3. CASE /\ srv' = [srv EXCEPT ![h] = "wait"] /\ subs' = [subs EXCEPT ![h] = @ \cap want[h]]
                 /\ UNCHANGED <<marked, want, woken, unread, net>>
        BY <3>1, <3>3 DEF HandlersInv
      <3> QED BY <2>4, <3>2, <3>3 DEF Exchange!SyncDecide
    <2>5. CASE Exchange!SyncWake(h) \/ Exchange!SyncFallback(h)
      BY <2>5 DEF HandlersInv, CollectorVars, Exchange!SyncWake, Exchange!SyncFallback, Exchange!parentVars,
                  Exchange!collectVars, Exchange!outVars
    <2> QED BY <1>3, <2>1, <2>2, <2>3, <2>4, <2>5 DEF Exchange!SyncLoop
  <1>4. ASSUME NEW h \in Hosts, Exchange!Handler(h)
        PROVE  Exchange!SyncOpen(h) \/ Exchange!SyncLoop(h)
    BY <1>4 DEF Exchange!Handler, Exchange!sync_pieces_open, Exchange!sync_pieces,
        Exchange!sync_persistent_pieces_open,
                Exchange!sync_persistent_pieces, Exchange!sync_persistent_cache_pieces_open,
                Exchange!sync_persistent_cache_pieces
  <1> QED BY <1>1, <1>2, <1>3, <1>4

LEMMA SyncStep ==
  ASSUME ExchangeInv, NEW h \in Hosts, Exchange!SyncTask(h)
  PROVE  ExchangeInv'
  <1> USE DEF ExchangeInv
  <1>1. CASE Exchange!Connect(h)
    BY <1>1 DEF HandlersInv, CollectorInv, Exchange!OffersKept, Exchange!Connect, Exchange!parentVars,
        Exchange!outVars
  <1>2. CASE Exchange!ConnectFails(h)
    <2>1. UNCHANGED <<kind, task, record, inflight>> /\ faulty' \subseteq Hosts
      BY <1>2 DEF HandlersInv, Exchange!ConnectFails, Exchange!parentVars
    <2>2. HandlersInv'
      BY <1>2, <2>1, DropStep DEF Exchange!ConnectFails
    <2>3. CollectorInv'
      BY <1>2 DEF CollectorInv, Exchange!OffersKept, Exchange!ConnectFails, Exchange!outVars
    <2> QED BY <2>2, <2>3
  <1>3. CASE Exchange!Report(h)
    <2> DEFINE n == Head(net[h])
    <2>1. n \in Pieces /\ sync[h] = "stream" /\ net[h] # <<>>
      BY <1>3 DEF Exchange!Report
    <2>2. UNCHANGED <<kind, task, record, inflight, srv, marked, want, subs, woken, unread, faulty>>
      BY <1>3 DEF Exchange!Report, Exchange!serverVars
    <2>3. HandlersInv'
      <3>1. net[h] \in Seq(Reports) /\ net' = [net EXCEPT ![h] = Tail(net[h])]
        BY <1>3 DEF Exchange!Report, HandlersInv
      <3>2. Tail(net[h]) \in Seq(Reports)
        BY <2>1, <3>1
      <3> QED BY <2>2, <3>1, <3>2 DEF HandlersInv
    <2>4. UNCHANGED <<live, pending, overdue, coord, chan, got, receiver, lost>>
      BY <1>3 DEF Exchange!Report, Exchange!outVars
    <2>5. CASE n \notin pending
      BY <1>3, <2>3, <2>4, <2>5, CollectorStutter DEF Exchange!Report, CollectorVars
    <2>6. CASE n \in pending
      <3>1. by' = [by EXCEPT ![n] = by[n] \cup {h}] /\ timer' \in {timer, timer \cup {n}}
        BY <1>3, <2>6 DEF Exchange!Report
      <3>2. \/ UNCHANGED <<sync, hold>>
            \/ sync' = [sync EXCEPT ![h] = "take"] /\ hold' = [hold EXCEPT ![h] = n]
        BY <1>3, <2>6 DEF Exchange!Report
      <3> HIDE DEF n
      <3>3. /\ by' \in [Pieces -> SUBSET Hosts] /\ timer' \subseteq Pieces
            /\ sync' \in [Hosts -> {"connect", "stream", "take", "send", "ended", "joined"}]
            /\ hold' \in [Hosts -> Pieces \cup {Exchange!NoPiece}]
        BY <2>1, <3>1, <3>2 DEF CollectorInv
      <3>4. \A g \in Hosts : hold'[g] # Exchange!NoPiece <=> sync'[g] \in {"take", "send"}
        BY <2>1, <3>2, NoPieceIsNone DEF CollectorInv
      <3>5. \A g \in Hosts : sync[g] = "send" => sync'[g] = "send" /\ hold'[g] = hold[g]
        BY <2>1, <3>2 DEF CollectorInv
      <3>6. Exchange!OffersKept'
        <4> SUFFICES ASSUME NEW i \in Pieces, by'[i] # {}
                     PROVE  \/ i \in pending' \cup overdue' \cup chan' \cup got'
                            \/ \E g \in Hosts : hold'[g] = i /\ sync'[g] = "send"
                            \/ i \in lost' /\ coord' \in {"shutdown", "done"}
                            \/ receiver' = "gone"
          BY DEF Exchange!OffersKept
        <4>1. CASE i = n
          BY <2>4, <2>6, <4>1
        <4>2. CASE i # n
          <5>1. by[i] # {}
            BY <3>1, <4>2 DEF CollectorInv
          <5>2. CASE \/ i \in pending \cup overdue \cup chan \cup got \/ receiver = "gone"
                     \/ i \in lost /\ coord \in {"shutdown", "done"}
            BY <2>4, <5>2
          <5>3. CASE \E g \in Hosts : hold[g] = i /\ sync[g] = "send"
            BY <3>5, <5>3
          <5> QED BY <5>1, <5>2, <5>3 DEF CollectorInv, Exchange!OffersKept
        <4> QED BY <4>1, <4>2
      <3> QED BY <2>3, <2>4, <3>3, <3>4, <3>6 DEF CollectorInv
    <2> QED BY <2>5, <2>6
  <1>4. CASE Exchange!Take(h)
    <2>1. HandlersInv'
      BY <1>4, HandlersStutter DEF Exchange!Take, Exchange!serverVars, HandlersVars
    <2>2. /\ sync[h] = "take" /\ hold[h] \in Pieces
          /\ UNCHANGED <<live, by, timer, overdue, coord, chan, got, receiver, lost>>
      BY <1>4 DEF Exchange!Take, CollectorInv, Exchange!outVars
    <2>3. CASE pending' = pending \ {hold[h]} /\ sync' = [sync EXCEPT ![h] = "send"] /\ hold' = hold
      <3>1. Exchange!OffersKept'
        BY <2>2, <2>3 DEF CollectorInv, Exchange!OffersKept
      <3> QED BY <2>1, <2>2, <2>3, <3>1 DEF CollectorInv
    <2>4. CASE sync' = [sync EXCEPT ![h] = "stream"] /\ hold' = [hold EXCEPT ![h] = Exchange!NoPiece] /\ pending' = pending
      <3>1. Exchange!OffersKept'
        BY <2>2, <2>4 DEF CollectorInv, Exchange!OffersKept
      <3> QED BY <2>1, <2>2, <2>4, <3>1 DEF CollectorInv
    <2> QED BY <1>4, <2>3, <2>4 DEF Exchange!Take
  <1>5. CASE Exchange!Send(h)
    <2>1. /\ sync[h] = "send" /\ hold[h] \in Pieces /\ hold' = [hold EXCEPT ![h] = Exchange!NoPiece]
          /\ UNCHANGED <<live, pending, by, timer, overdue, coord, got, receiver, lost>>
          /\ UNCHANGED <<kind, task, record, inflight, faulty>>
      BY <1>5 DEF Exchange!Send, CollectorInv, Exchange!parentVars
    <2>2. CASE chan' = chan \cup {hold[h]} /\ sync' = [sync EXCEPT ![h] = "stream"] /\ UNCHANGED <<Exchange!streamVars, net>>
      <3>1. Exchange!OffersKept'
        BY <2>1, <2>2 DEF CollectorInv, Exchange!OffersKept
      <3>2. CollectorInv'
        BY <2>1, <2>2, <3>1 DEF CollectorInv
      <3> QED BY <2>1, <2>2, <3>2, HandlersStutter DEF Exchange!streamVars, HandlersVars
    <2>3. CASE receiver = "gone" /\ sync' = [sync EXCEPT ![h] = "ended"] /\ Exchange!Drop(h) /\ chan' = chan
      <3>1. HandlersInv'
        BY <2>1, <2>3, DropStep DEF HandlersInv
      <3> QED BY <2>1, <2>3, <3>1 DEF CollectorInv, Exchange!OffersKept
    <2> QED BY <1>5, <2>2, <2>3 DEF Exchange!Send
  <1>6. CASE Exchange!StreamEnds(h) \/ Exchange!StreamTimesOut(h)
    <2>1. /\ UNCHANGED <<kind, task, record, inflight>> /\ faulty' \subseteq Hosts /\ Exchange!Drop(h)
          /\ sync[h] = "stream" /\ sync' = [sync EXCEPT ![h] = "ended"]
          /\ UNCHANGED <<live, pending, by, timer, hold, overdue, coord, chan, got, receiver, lost>>
      BY <1>6 DEF HandlersInv, Exchange!StreamEnds, Exchange!StreamTimesOut, Exchange!parentVars, Exchange!outVars
    <2>2. HandlersInv'
      BY <2>1, DropStep
    <2> QED BY <2>1, <2>2 DEF CollectorInv, Exchange!OffersKept
  <1> QED BY <1>1, <1>2, <1>3, <1>4, <1>5, <1>6 DEF Exchange!SyncTask

LEMMA CollectorStep ==
  ASSUME ExchangeInv, Exchange!CollectorStep
  PROVE  ExchangeInv'
  <1> USE DEF ExchangeInv
  <1>1. ASSUME NEW h \in Hosts, Exchange!Join(h)
        PROVE  ExchangeInv'
    <2>1. HandlersInv'
      BY <1>1, HandlersStutter DEF Exchange!Join, Exchange!serverVars, HandlersVars
    <2> QED BY <1>1, <2>1 DEF Exchange!Join, CollectorInv, Exchange!OffersKept, Exchange!outVars
  <1>2. ASSUME NEW h \in Hosts, Exchange!Abort(h)
        PROVE  ExchangeInv'
    <2>1. /\ UNCHANGED <<kind, task, record, inflight, faulty>> /\ Exchange!Drop(h) /\ coord = "shutdown"
          /\ sync' = [sync EXCEPT ![h] = "joined"] /\ hold' = [hold EXCEPT ![h] = Exchange!NoPiece]
          /\ lost' = lost \cup ({hold[h]} \ {Exchange!NoPiece})
          /\ UNCHANGED <<live, pending, by, timer, overdue, coord, chan, got, receiver>>
      BY <1>2 DEF Exchange!Abort, Exchange!parentVars
    <2>2. HandlersInv'
      BY <2>1, DropStep DEF HandlersInv
    <2>3. lost' \subseteq Pieces
      BY <2>1 DEF CollectorInv
    <2>4. Exchange!OffersKept'
      BY <2>1, NoPieceIsNone DEF CollectorInv, Exchange!OffersKept
    <2> QED BY <2>1, <2>2, <2>3, <2>4 DEF CollectorInv
  <1>3. CASE Exchange!Flush
    <2>1. HandlersInv'
      BY <1>3, HandlersStutter DEF Exchange!Flush, Exchange!serverVars, HandlersVars
    <2>2. UNCHANGED <<live, by, timer, sync, hold, overdue, got, receiver, lost>> /\ coord = "flush"
      BY <1>3 DEF Exchange!Flush
    <2>3. CASE coord' = "check" /\ UNCHANGED <<pending, chan>>
      BY <2>1, <2>2, <2>3 DEF CollectorInv, Exchange!OffersKept
    <2>4. ASSUME NEW n \in pending, chan' = chan \cup {n}, pending' = pending \ {n}, coord' = coord
          PROVE  ExchangeInv'
      <3>1. Exchange!OffersKept'
        BY <2>2, <2>4 DEF CollectorInv, Exchange!OffersKept
      <3> QED BY <2>1, <2>2, <2>4, <3>1 DEF CollectorInv
    <2>5. ASSUME NEW n \in pending, receiver = "gone", pending' = pending \ {n}, coord' = "shutdown", chan' = chan
          PROVE  ExchangeInv'
      BY <2>1, <2>2, <2>5 DEF CollectorInv, Exchange!OffersKept
    <2> QED BY <1>3, <2>3, <2>4, <2>5 DEF Exchange!Flush
  <1>4. CASE Exchange!Check \/ Exchange!Return
    <2>1. /\ coord' \in {"shutdown", "join", "done"} /\ (coord = "shutdown" => coord' = "done") /\ coord # "done"
          /\ UNCHANGED <<live, pending, by, timer, sync, hold, overdue, chan, got, receiver, lost>>
      BY <1>4 DEF Exchange!Check, Exchange!Return, Exchange!outVars
    <2>2. HandlersInv'
      BY <1>4, HandlersStutter DEF Exchange!Check, Exchange!Return, Exchange!serverVars, HandlersVars
    <2> QED BY <2>1, <2>2 DEF CollectorInv, Exchange!OffersKept
  <1>5. ASSUME NEW n \in Pieces, Exchange!send_piece_after_timeout(n)
        PROVE  ExchangeInv'
    <2>1. HandlersInv'
      BY <1>5, HandlersStutter DEF Exchange!send_piece_after_timeout, Exchange!TimerFires, Exchange!TimerSends,
                                   Exchange!serverVars, HandlersVars
    <2>2. CASE Exchange!TimerFires(n)
      <3>1. Exchange!OffersKept'
        BY <2>2 DEF CollectorInv, Exchange!OffersKept, Exchange!TimerFires, Exchange!outVars
      <3> QED BY <2>1, <2>2, <3>1 DEF CollectorInv, Exchange!TimerFires, Exchange!outVars
    <2>3. CASE Exchange!TimerSends(n)
      <3>1. Exchange!OffersKept'
        BY <2>3 DEF CollectorInv, Exchange!OffersKept, Exchange!TimerSends
      <3> QED BY <2>1, <2>3, <3>1 DEF CollectorInv, Exchange!TimerSends
    <2> QED BY <1>5, <2>2, <2>3 DEF Exchange!send_piece_after_timeout
  <1> QED BY <1>1, <1>2, <1>3, <1>4, <1>5 DEF Exchange!CollectorStep, Exchange!Collect

LEMMA ExchangeNext == ASSUME ExchangeInv, Exchange!Next PROVE ExchangeInv'
  <1>1. CASE \/ \E h \in Hosts, n \in Pieces :
                    Exchange!ParentStarts(h, n) \/ Exchange!ParentRecords(h, n) \/ Exchange!ParentNotifies(h, n)
             \/ \E h \in Hosts : Exchange!Handler(h)
    BY <1>1, SyncPiecesStep, CollectorStutter DEF ExchangeInv
  <1>2. CASE Exchange!PieceCollector \/ Exchange!PersistentPieceCollector \/ Exchange!PersistentCachePieceCollector
    BY <1>2, CollectorStep DEF Exchange!PieceCollector, Exchange!PersistentPieceCollector,
        Exchange!PersistentCachePieceCollector
  <1>3. CASE Exchange!SyncPiecesTask \/ Exchange!SyncPersistentPiecesTask \/ Exchange!SyncPersistentCachePiecesTask
    <2>1. \E h \in Hosts : Exchange!SyncTask(h)
      BY <1>3 DEF Exchange!SyncPiecesTask, Exchange!SyncPersistentPiecesTask, Exchange!SyncPersistentCachePiecesTask,
                  Exchange!Syncs
    <2> QED BY <2>1, SyncStep
  <1>4. CASE Exchange!Downloader \/ Exchange!Leave
    <2>1. UNCHANGED <<HandlersVars, live, pending, by, timer, sync, hold, overdue, coord, lost>>
      BY <1>4 DEF Exchange!Downloader, Exchange!Receive, Exchange!ReceiveEnds, Exchange!Leave, Exchange!serverVars,
                  Exchange!collectVars, HandlersVars
    <2>2. HandlersInv'
      BY <2>1, HandlersStutter DEF ExchangeInv
    <2>3. \/ \E n \in chan : chan' = chan \ {n} /\ got' = got \cup {n} /\ receiver' = receiver
          \/ receiver' = "ended" /\ receiver = "receiving" /\ UNCHANGED <<chan, got>>
          \/ receiver' = "gone" /\ chan' = {} /\ got' = got
      BY <1>4 DEF Exchange!Downloader, Exchange!Receive, Exchange!ReceiveEnds, Exchange!Leave
    <2>4. Exchange!OffersKept'
      BY <2>1, <2>3 DEF ExchangeInv, CollectorInv, Exchange!OffersKept
    <2>5. chan' \subseteq Pieces /\ got' \subseteq Pieces /\ receiver' \in {"receiving", "ended", "gone"}
      BY <2>3 DEF ExchangeInv, CollectorInv
    <2> QED BY <2>1, <2>2, <2>4, <2>5 DEF ExchangeInv, CollectorInv
  <1> QED BY <1>1, <1>2, <1>3, <1>4 DEF Exchange!Next

LEMMA ExchangeGood == ExchangeInv => Exchange!TypeOK /\ Exchange!OffersKept
  <1> SUFFICES ASSUME ExchangeInv PROVE Exchange!TypeOK /\ Exchange!OffersKept
    OBVIOUS
  <1>1. \A h \in Hosts : \A i \in DOMAIN net[h] : net[h][i] \in Pieces \cup {Exchange!End, Exchange!Failed}
    <2> TAKE h \in Hosts
    <2>1. net[h] \in Seq(Reports)
      BY DEF ExchangeInv, HandlersInv
    <2> QED BY <2>1 DEF Reports
  <1> QED BY <1>1 DEF ExchangeInv, HandlersInv, CollectorInv, Exchange!TypeOK, Exchange!Kinds

-----------------------------------------------------------------------------
(* ParentSelector: the inductive invariant.                                  *)

Links == Calls \X Hosts \X (1 .. MaxParents)
Registering == {"register", "connect", "weight", "entry"}
Leaving == {"unregister", "check", "unweigh", "remove"}
Places == Registering \cup Leaving \cup {"using", "done"}

SelectorTypes ==
    /\ selector \in {"task", "persistent", "persistent_cache"}
    /\ parents \in [Calls -> Seq(Hosts)]
    /\ \A c \in Calls : Len(parents[c]) <= MaxParents
    /\ lock \in [Calls -> Links \cup {None}]
    /\ connections \in [Hosts -> Links \cup {None}]
    /\ \A h \in Hosts : connections[h] # None => connections[h] \in Links /\ connections[h][2] = h
    /\ active \in [Links -> Int]
    /\ signalled \subseteq Links
    /\ stream \in [Links -> {"none", "running", "ended"}]
    /\ weights \subseteq Hosts
    /\ down \in BOOLEAN
    /\ deaf \subseteq Links
    /\ counted \in [Calls -> SUBSET Links]
    /\ orphans \subseteq Links
    /\ missed \subseteq Hosts

\* Where the calls are.
PlaceInv ==
    /\ place \in [Calls -> Places]
    /\ index \in [Calls -> Nat]
    /\ \A c \in Calls : index[c] = 1 \/ index[c] \in DOMAIN parents[c]
    /\ \A c \in Calls : place[c] # "done" => index[c] \in DOMAIN parents[c]

LockInv == \A c \in Calls : place[c] = "check" => lock[c] \in Links

\* A stream that nobody has told to stop is the one in the map.
LiveInv == \A k \in Links : stream[k] = "running" /\ k \notin signalled \cup orphans => connections[k[2]] = k

SelectorInv == SelectorTypes /\ PlaceInv /\ LockInv /\ LiveInv

-----------------------------------------------------------------------------
(* ParentSelector: every step keeps the invariant.                           *)

LEMMA NoLink == \A k \in Links : k # None
  BY SelectorAssumption DEF Links

LEMMA SelectorInit == Selectors!Init => SelectorInv
  <1> SUFFICES ASSUME Selectors!Init PROVE SelectorInv
    OBVIOUS
  <1>1. PICK u \in Selections : selector = u.selector /\ parents = u.parents
    BY DEF Selectors!Init
  <1>2. SelectorTypes
    <2>1. /\ selector \in {"task", "persistent", "persistent_cache"} /\ parents \in [Calls -> Seq(Hosts)]
          /\ \A c \in Calls : Len(parents[c]) <= MaxParents
      BY <1>1, SelectorAssumption
    <2>2. down \in BOOLEAN /\ connections = [h \in Hosts |-> None]
      BY DEF Selectors!Init
    <2>3. active \in [Links -> Int] /\ stream \in [Links -> {"none", "running", "ended"}]
      BY DEF Selectors!Init, Selectors!Connections, Links
    <2>4. /\ lock \in [Calls -> Links \cup {None}] /\ counted \in [Calls -> SUBSET Links]
          /\ signalled = {} /\ weights = {} /\ deaf = {} /\ orphans = {} /\ missed = {}
      BY DEF Selectors!Init
    <2> QED BY <2>1, <2>2, <2>3, <2>4 DEF SelectorTypes
  <1>3. PlaceInv
    <2>1. \A c \in Calls : parents[c] \in Seq(Hosts) /\ (parents[c] # <<>> => 1 \in DOMAIN parents[c])
      BY <1>2 DEF SelectorTypes
    <2> QED BY <2>1 DEF Selectors!Init, PlaceInv, Places, Registering
  <1>4. LockInv /\ LiveInv
    BY DEF Selectors!Init, Selectors!Connections, LockInv, LiveInv, Links
  <1> QED BY <1>2, <1>3, <1>4 DEF SelectorInv

LEMMA SelectorStutter == SelectorInv /\ UNCHANGED selectorVars => SelectorInv'
  BY DEF SelectorInv, SelectorTypes, PlaceInv, LockInv, LiveInv, selectorVars

\* A call moves on.
LEMMA CallMoves ==
  ASSUME SelectorTypes, PlaceInv, NEW c \in Calls, place[c] # "done", NEW P \in Places, NEW I \in Nat,
         place' = [place EXCEPT ![c] = P], index' = [index EXCEPT ![c] = I], parents' = parents,
         I = index[c] \/ (I = index[c] + 1 /\ index[c] < Len(parents[c])) \/ I = 1
  PROVE  PlaceInv'
  <1>1. parents[c] \in Seq(Hosts) /\ index[c] \in DOMAIN parents[c]
    BY DEF SelectorTypes, PlaceInv
  <1>2. I \in DOMAIN parents[c]
    BY <1>1
  <1> QED BY <1>2 DEF PlaceInv

\* A call that only moves on.
LEMMA OnlyMoves ==
  ASSUME SelectorInv, NEW c \in Calls, place'[c] # "check", lock' = lock,
         \A d \in Calls : d # c => place'[d] = place[d] /\ index'[d] = index[d]
  PROVE  LockInv'
  BY DEF SelectorInv, LockInv

\* Goto and Advance as moves.
LEMMA GotoMoves ==
  ASSUME SelectorInv, NEW c \in Calls, NEW P, Selectors!Goto(c, P)
  PROVE  place' = [place EXCEPT ![c] = P] /\ index' = [index EXCEPT ![c] = index[c]] /\ index[c] \in Nat
  BY DEF SelectorInv, PlaceInv, Selectors!Goto

LEMMA AdvanceMoves ==
  ASSUME SelectorInv, NEW c \in Calls, NEW P, NEW A, Selectors!Advance(c, P, A)
  PROVE  \/ /\ index[c] < Len(parents[c]) /\ index[c] + 1 \in Nat
            /\ place' = [place EXCEPT ![c] = P] /\ index' = [index EXCEPT ![c] = index[c] + 1]
         \/ place' = [place EXCEPT ![c] = A] /\ index' = [index EXCEPT ![c] = 1]
  BY DEF SelectorInv, PlaceInv, Selectors!Advance

\* What register and unregister do to the place of a call.
LEMMA RegisterAdvances ==
  ASSUME SelectorInv, NEW c \in Calls, place[c] \in Registering, Selectors!Advance(c, "register", "using"),
         parents' = parents
  PROVE  /\ PlaceInv'
         /\ \A d \in Calls : d # c => place'[d] = place[d] /\ index'[d] = index[d]
         /\ place'[c] \in {"register", "using"} /\ (place'[c] = "register" => index'[c] = index[c] + 1)
  <1>1. "register" \in Places /\ "using" \in Places /\ place[c] # "done" /\ "register" \in Registering /\ 1 \in Nat
    BY DEF Places, Registering
  <1>2. CASE /\ index[c] < Len(parents[c]) /\ index[c] + 1 \in Nat
             /\ place' = [place EXCEPT ![c] = "register"] /\ index' = [index EXCEPT ![c] = index[c] + 1]
    <2>1. PlaceInv'
      BY <1>1, <1>2, CallMoves DEF SelectorInv
    <2> QED BY <1>2, <2>1 DEF SelectorInv, PlaceInv
  <1>3. CASE place' = [place EXCEPT ![c] = "using"] /\ index' = [index EXCEPT ![c] = 1]
    <2>1. PlaceInv'
      BY <1>1, <1>3, CallMoves DEF SelectorInv
    <2> QED BY <1>3, <2>1 DEF SelectorInv, PlaceInv
  <1> QED BY <1>2, <1>3, AdvanceMoves

LEMMA UnregisterAdvances ==
  ASSUME SelectorInv, NEW c \in Calls, place[c] \in Leaving, Selectors!Advance(c, "unregister", "done"),
         parents' = parents
  PROVE  /\ PlaceInv'
         /\ \A d \in Calls : d # c => place'[d] = place[d] /\ index'[d] = index[d]
         /\ place'[c] \in {"unregister", "done"} /\ place'[c] \notin Registering
  <1>1. "unregister" \in Places /\ "done" \in Places /\ place[c] # "done" /\ 1 \in Nat
        /\ "unregister" \notin Registering /\ "done" \notin Registering
    BY DEF Places, Registering, Leaving
  <1>2. CASE /\ index[c] < Len(parents[c]) /\ index[c] + 1 \in Nat
             /\ place' = [place EXCEPT ![c] = "unregister"] /\ index' = [index EXCEPT ![c] = index[c] + 1]
    <2>1. PlaceInv'
      BY <1>1, <1>2, CallMoves DEF SelectorInv
    <2> QED BY <1>1, <1>2, <2>1 DEF SelectorInv, PlaceInv
  <1>3. CASE place' = [place EXCEPT ![c] = "done"] /\ index' = [index EXCEPT ![c] = 1]
    <2>1. PlaceInv'
      BY <1>1, <1>3, CallMoves DEF SelectorInv
    <2> QED BY <1>1, <1>3, <2>1 DEF SelectorInv, PlaceInv
  <1> QED BY <1>2, <1>3, AdvanceMoves

LEMMA Goes ==
  ASSUME SelectorInv, NEW c \in Calls, NEW P \in Places, Selectors!Goto(c, P), parents' = parents,
         \/ place[c] \in Registering /\ P \in Registering \cup {"done"}
         \/ place[c] = "using" /\ P = "unregister"
         \/ place[c] \in Leaving /\ P \in {"check", "unweigh", "remove"}
  PROVE  /\ PlaceInv'
         /\ \A d \in Calls : d # c => place'[d] = place[d] /\ index'[d] = index[d]
         /\ place'[c] = P /\ index'[c] = index[c] /\ index[c] \in Nat
  <1>1. place' = [place EXCEPT ![c] = P] /\ index' = [index EXCEPT ![c] = index[c]] /\ index[c] \in Nat
    BY GotoMoves
  <1>2. place[c] # "done"
    BY DEF Registering, Leaving
  <1>3. PlaceInv'
    BY <1>1, <1>2, CallMoves DEF SelectorInv
  <1> QED BY <1>1, <1>3 DEF SelectorInv, PlaceInv

\* register counts the connection of the parent it is at.
LEMMA CountsUp ==
  ASSUME SelectorInv, NEW c \in Calls, place[c] \in Registering, NEW k \in Links, k[2] = Selectors!At(c),
         Selectors!Increment(c, k), Selectors!Advance(c, "register", "using"), parents' = parents, lock' = lock
  PROVE  /\ PlaceInv' /\ LockInv'
         /\ active' \in [Links -> Int] /\ counted' \in [Calls -> SUBSET Links]
  <1>1. /\ PlaceInv'
        /\ \A d \in Calls : d # c => place'[d] = place[d] /\ index'[d] = index[d]
        /\ place'[c] \in {"register", "using"} /\ (place'[c] = "register" => index'[c] = index[c] + 1)
    BY RegisterAdvances
  <1>2. /\ active' = [active EXCEPT ![k] = @ + 1] /\ counted' = [counted EXCEPT ![c] = @ \cup {k}]
        /\ active \in [Links -> Int] /\ counted \in [Calls -> SUBSET Links]
    BY DEF SelectorInv, SelectorTypes, Selectors!Increment
  <1>3. active' \in [Links -> Int] /\ counted' \in [Calls -> SUBSET Links]
    BY <1>2
  <1>4. LockInv'
    BY <1>1 DEF SelectorInv, LockInv
  <1> QED BY <1>1, <1>3, <1>4

LEMMA HostAt == ASSUME SelectorInv, NEW c \in Calls, place[c] # "done" PROVE Selectors!At(c) \in Hosts
  <1>1. parents[c] \in Seq(Hosts) /\ index[c] \in DOMAIN parents[c]
    BY DEF SelectorInv, SelectorTypes, PlaceInv
  <1> QED BY <1>1 DEF Selectors!At

LEMMA RegisterStep == ASSUME SelectorInv, NEW c \in Calls, Selectors!register(c) PROVE SelectorInv'
  <1>0. SelectorTypes /\ LiveInv
    BY DEF SelectorInv
  <1>1. CASE Selectors!Lookup(c)
    <2>1. /\ place[c] = "register" /\ place[c] \in Registering
          /\ UNCHANGED <<selector, parents, lock, connections, signalled, stream, weights, down, deaf, orphans, missed>>
      BY <1>1 DEF Selectors!Lookup, Registering
    <2>2. LiveInv'
      BY <1>0, <2>1 DEF LiveInv
    <2>3. CASE connections[Selectors!At(c)] # None
      <3>1. /\ Selectors!Increment(c, connections[Selectors!At(c)]) /\ Selectors!Advance(c, "register", "using")
        BY <1>1, <2>3 DEF Selectors!Lookup
      <3>2. Selectors!At(c) \in Hosts
        BY <2>1, HostAt
      <3>3. connections[Selectors!At(c)] \in Links /\ connections[Selectors!At(c)][2] = Selectors!At(c)
        BY <1>0, <2>3, <3>2 DEF SelectorTypes
      <3>4. /\ PlaceInv' /\ LockInv'
            /\ active' \in [Links -> Int] /\ counted' \in [Calls -> SUBSET Links]
        BY <2>1, <3>1, <3>3, CountsUp
      <3>5. SelectorTypes'
        BY <1>0, <2>1, <3>4 DEF SelectorTypes
      <3> QED BY <2>2, <3>4, <3>5 DEF SelectorInv
    <2>4. CASE connections[Selectors!At(c)] = None
      <3>1. Selectors!Goto(c, "connect") /\ UNCHANGED <<active, counted>>
        BY <1>1, <2>4 DEF Selectors!Lookup
      <3>2. /\ PlaceInv'
            /\ \A d \in Calls : d # c => place'[d] = place[d] /\ index'[d] = index[d]
            /\ place'[c] = "connect" /\ index'[c] = index[c] /\ index[c] \in Nat
        BY <2>1, <3>1, Goes DEF Registering, Places
      <3>3. LockInv'
        BY <2>1, <3>1, <3>2, OnlyMoves
      <3>4. SelectorTypes'
        BY <1>0, <2>1, <3>1 DEF SelectorTypes
      <3> QED BY <2>2, <3>2, <3>3, <3>4 DEF SelectorInv
    <2> QED BY <2>3, <2>4
  <1>2. CASE Selectors!ConnectHost(c)
    <2>1. /\ place[c] = "connect" /\ place[c] \in Registering
          /\ UNCHANGED <<selector, parents, lock, connections, active, signalled, stream, weights, down, deaf, counted,
                         orphans>>
      BY <1>2 DEF Selectors!ConnectHost, Registering
    <2>2. LiveInv'
      BY <1>0, <2>1 DEF LiveInv
    <2>3. SelectorTypes'
      <3>1. Selectors!At(c) \in Hosts
        BY <2>1, HostAt
      <3>2. missed' \subseteq Hosts
        BY <1>0, <1>2, <3>1 DEF SelectorTypes, Selectors!ConnectHost
      <3> QED BY <1>0, <2>1, <3>2 DEF SelectorTypes
    <2>4. CASE Selectors!Goto(c, "weight")
      <3>2. /\ PlaceInv'
            /\ \A d \in Calls : d # c => place'[d] = place[d] /\ index'[d] = index[d]
            /\ place'[c] = "weight" /\ index'[c] = index[c] /\ index[c] \in Nat
        BY <2>1, <2>4, Goes DEF Registering, Places
      <3>3. LockInv'
        BY <2>1, <3>2, OnlyMoves
      <3> QED BY <2>2, <2>3, <3>2, <3>3 DEF SelectorInv
    <2>5. CASE Selectors!Advance(c, "register", "using")
      <3>1. /\ PlaceInv'
            /\ \A d \in Calls : d # c => place'[d] = place[d] /\ index'[d] = index[d]
            /\ place'[c] \in {"register", "using"} /\ (place'[c] = "register" => index'[c] = index[c] + 1)
        BY <2>1, <2>5, RegisterAdvances
      <3>2. place'[c] \in Registering => index[c] <= index'[c]
        BY <3>1 DEF Registering, SelectorInv, PlaceInv
      <3>3. LockInv'
        BY <2>1, <3>1, <3>2, OnlyMoves
      <3> QED BY <2>2, <2>3, <3>1, <3>3 DEF SelectorInv
    <2> QED BY <1>2, <2>4, <2>5 DEF Selectors!ConnectHost
  <1>3. CASE Selectors!BadAddress(c)
    <2>1. /\ place[c] = "connect" /\ place[c] \in Registering /\ Selectors!Goto(c, "done")
          /\ stream' = [k \in Links |-> IF k[1] = c /\ stream[k] = "running" THEN "ended" ELSE stream[k]]
          /\ orphans' = orphans \cup counted[c]
          /\ UNCHANGED <<selector, parents, lock, connections, active, signalled, weights, down, deaf, counted, missed>>
      BY <1>3 DEF Selectors!BadAddress, Registering, Selectors!Connections, Links
    <2>2. LiveInv'
      BY <1>0, <2>1 DEF LiveInv
    <2>3. SelectorTypes'
      <3>1. stream' \in [Links -> {"none", "running", "ended"}] /\ orphans' \subseteq Links
        BY <1>0, <2>1 DEF SelectorTypes
      <3> QED BY <1>0, <2>1, <3>1 DEF SelectorTypes
    <2>4. /\ PlaceInv'
          /\ \A d \in Calls : d # c => place'[d] = place[d] /\ index'[d] = index[d]
          /\ place'[c] = "done" /\ index'[c] = index[c] /\ index[c] \in Nat
      BY <2>1, Goes DEF Places
    <2>5. LockInv'
      BY <2>1, <2>4, OnlyMoves
    <2> QED BY <2>2, <2>3, <2>4, <2>5 DEF SelectorInv
  <1>4. CASE Selectors!InsertWeight(c)
    <2>1. /\ place[c] = "weight" /\ place[c] \in Registering /\ Selectors!Goto(c, "entry")
          /\ weights' = weights \cup {Selectors!At(c)}
          /\ UNCHANGED <<selector, parents, lock, connections, active, signalled, stream, down, deaf, counted, orphans, missed>>
      BY <1>4 DEF Selectors!InsertWeight, Registering
    <2>2. LiveInv'
      BY <1>0, <2>1 DEF LiveInv
    <2>3. SelectorTypes'
      <3>1. Selectors!At(c) \in Hosts
        BY <2>1, HostAt
      <3> QED BY <1>0, <2>1, <3>1 DEF SelectorTypes
    <2>4. /\ PlaceInv'
          /\ \A d \in Calls : d # c => place'[d] = place[d] /\ index'[d] = index[d]
          /\ place'[c] = "entry" /\ index'[c] = index[c] /\ index[c] \in Nat
      BY <2>1, Goes DEF Places, Registering
    <2>5. LockInv'
      BY <2>1, <2>4, OnlyMoves
    <2> QED BY <2>2, <2>3, <2>4, <2>5 DEF SelectorInv
  <1>5. CASE Selectors!Entry(c)
    <2>1. /\ place[c] = "entry" /\ place[c] \in Registering /\ Selectors!Advance(c, "register", "using")
          /\ UNCHANGED <<selector, parents, lock, signalled, weights, down, orphans, missed>>
      BY <1>5 DEF Selectors!Entry, Registering
    <2>2. Selectors!At(c) \in Hosts
      BY <2>1, HostAt
    <2>3. CASE connections[Selectors!At(c)] # None
      <3>1. Selectors!Increment(c, connections[Selectors!At(c)]) /\ UNCHANGED <<connections, stream, deaf>>
        BY <1>5, <2>3 DEF Selectors!Entry
      <3>2. connections[Selectors!At(c)] \in Links /\ connections[Selectors!At(c)][2] = Selectors!At(c)
        BY <1>0, <2>2, <2>3 DEF SelectorTypes
      <3>3. /\ PlaceInv' /\ LockInv'
            /\ active' \in [Links -> Int] /\ counted' \in [Calls -> SUBSET Links]
        BY <2>1, <3>1, <3>2, CountsUp
      <3>4. SelectorTypes'
        BY <1>0, <2>1, <3>1, <3>3 DEF SelectorTypes
      <3>5. LiveInv'
        BY <1>0, <2>1, <3>1 DEF LiveInv
      <3> QED BY <3>3, <3>4, <3>5 DEF SelectorInv
    <2>4. CASE connections[Selectors!At(c)] = None
      <3> DEFINE h == Selectors!At(c)
                 k == <<c, h, index[c]>>
      <3>1. /\ Selectors!Increment(c, k) /\ connections' = [connections EXCEPT ![h] = k]
            /\ stream' = [stream EXCEPT ![k] = "running"] /\ deaf' \in {deaf, deaf \cup {k}}
        BY <1>5, <2>4 DEF Selectors!Entry
      <3>2. k \in Links /\ k[2] = h /\ h \in Hosts
        <4>1. parents[c] \in Seq(Hosts) /\ index[c] \in DOMAIN parents[c] /\ Len(parents[c]) <= MaxParents
          BY <1>0, <2>1 DEF SelectorInv, SelectorTypes, PlaceInv
        <4>2. index[c] \in 1 .. MaxParents
          BY <4>1, SelectorAssumption
        <4> QED BY <2>2, <4>2 DEF Links
      <3> HIDE DEF k
      <3>3. /\ PlaceInv' /\ LockInv'
            /\ active' \in [Links -> Int] /\ counted' \in [Calls -> SUBSET Links]
        BY <2>1, <3>1, <3>2, CountsUp
      <3> HIDE DEF h
      <3>4. SelectorTypes'
        <4>1. /\ connections' \in [Hosts -> Links \cup {None}]
              /\ \A g \in Hosts : connections'[g] # None => connections'[g] \in Links /\ connections'[g][2] = g
          BY <1>0, <3>1, <3>2 DEF SelectorTypes
        <4>2. stream' \in [Links -> {"none", "running", "ended"}] /\ deaf' \subseteq Links
          BY <1>0, <3>1, <3>2 DEF SelectorTypes
        <4> QED BY <1>0, <2>1, <3>3, <4>1, <4>2 DEF SelectorTypes
      <3>5. LiveInv'
        <4> SUFFICES ASSUME NEW l \in Links, stream'[l] = "running", l \notin signalled \cup orphans
                     PROVE  connections'[l[2]] = l
          BY <2>1 DEF LiveInv
        <4>1. CASE l = k
          BY <1>0, <3>1, <3>2, <4>1 DEF SelectorTypes
        <4>2. CASE l # k
          <5>1. stream[l] = "running"
            BY <1>0, <3>1, <4>2 DEF SelectorTypes
          <5>2. connections[l[2]] = l
            BY <1>0, <5>1 DEF LiveInv
          <5>3. l[2] \in Hosts
            BY DEF Links
          <5>4. l # None
            \* The map entry of the host is empty, and it is in no stream's name.
            BY <2>4, NoLink
          <5>5. l[2] # h
            BY <2>4, <5>2, <5>4 DEF h
          <5> QED BY <1>0, <3>1, <5>2, <5>3, <5>5 DEF SelectorTypes
        <4> QED BY <4>1, <4>2
      <3> QED BY <3>3, <3>4, <3>5 DEF SelectorInv
    <2> QED BY <2>3, <2>4
  <1> QED BY <1>1, <1>2, <1>3, <1>4, <1>5 DEF Selectors!register

LEMMA UnregisterStep == ASSUME SelectorInv, NEW c \in Calls, Selectors!unregister(c) PROVE SelectorInv'
  <1>0. SelectorTypes /\ LiveInv
    BY DEF SelectorInv
  <1>1. CASE Selectors!Decrement(c)
    <2>1. /\ place[c] = "unregister" /\ place[c] \in Leaving
          /\ UNCHANGED <<selector, parents, connections, signalled, stream, weights, down,
                           deaf, counted, orphans, missed>>
      BY <1>1 DEF Selectors!Decrement, Leaving
    <2>2. LiveInv'
      BY <1>0, <2>1 DEF LiveInv
    <2>3. CASE connections[Selectors!At(c)] = None
      <3>1. Selectors!Advance(c, "unregister", "done") /\ UNCHANGED <<lock, active>>
        BY <1>1, <2>3 DEF Selectors!Decrement
      <3>2. /\ PlaceInv'
            /\ \A d \in Calls : d # c => place'[d] = place[d] /\ index'[d] = index[d]
            /\ place'[c] \in {"unregister", "done"} /\ place'[c] \notin Registering
        BY <2>1, <3>1, UnregisterAdvances
      <3>3. LockInv'
        BY <2>1, <3>1, <3>2, OnlyMoves
      <3>4. SelectorTypes'
        BY <1>0, <2>1, <3>1 DEF SelectorTypes
      <3> QED BY <2>2, <3>2, <3>3, <3>4 DEF SelectorInv
    <2>4. CASE connections[Selectors!At(c)] # None
      <3>2. PICK h \in Hosts : h = Selectors!At(c)
        BY <2>1, HostAt
      <3>3. PICK k \in Links : k = connections[h] /\ k[2] = h
        BY <1>0, <2>4, <3>2 DEF SelectorTypes
      <3>1. /\ active' = [active EXCEPT ![k] = @ - 1] /\ lock' = [lock EXCEPT ![c] = k] /\ Selectors!Goto(c, "check")
        BY <1>1, <2>4, <3>2, <3>3 DEF Selectors!Decrement
      <3>4. /\ PlaceInv'
            /\ \A d \in Calls : d # c => place'[d] = place[d] /\ index'[d] = index[d]
            /\ place'[c] = "check" /\ index'[c] = index[c] /\ index[c] \in Nat
        BY <2>1, <3>1, Goes DEF Places, Leaving
      <3>5. active' \in [Links -> Int] /\ lock' \in [Calls -> Links \cup {None}]
        BY <1>0, <3>1, <3>3 DEF SelectorTypes
      <3>6. SelectorTypes'
        BY <1>0, <2>1, <3>5 DEF SelectorTypes
      <3>7. LockInv'
        BY <1>0, <3>1, <3>3, <3>4 DEF SelectorInv, SelectorTypes, LockInv
      <3> QED BY <2>2, <3>4, <3>6, <3>7 DEF SelectorInv
    <2> QED BY <2>3, <2>4
  <1>2. CASE Selectors!Check(c)
    <2>1. /\ place[c] = "check" /\ place[c] \in Leaving /\ lock' = [lock EXCEPT ![c] = None]
          /\ signalled' \in {signalled, signalled \cup {lock[c]}}
          /\ Selectors!Goto(c, "unweigh") \/ Selectors!Advance(c, "unregister", "done")
          /\ UNCHANGED <<selector, parents, connections, active, stream, weights, down,
                           deaf, counted, orphans, missed>>
      BY <1>2 DEF Selectors!Check, Leaving
    <2>2. lock[c] \in Links
      BY <2>1 DEF SelectorInv, LockInv
    <2>3. SelectorTypes'
      <3>1. lock' \in [Calls -> Links \cup {None}] /\ signalled' \subseteq Links
        BY <1>0, <2>1, <2>2 DEF SelectorTypes
      <3> QED BY <1>0, <2>1, <3>1 DEF SelectorTypes
    <2>4. LiveInv'
      BY <1>0, <2>1 DEF LiveInv
    <2>5. /\ PlaceInv'
          /\ \A d \in Calls : d # c => place'[d] = place[d] /\ index'[d] = index[d]
          /\ place'[c] \in {"unweigh", "unregister", "done"}
      <3>1. CASE Selectors!Goto(c, "unweigh")
        BY <2>1, <3>1, Goes DEF Places, Leaving
      <3>2. CASE Selectors!Advance(c, "unregister", "done")
        BY <2>1, <3>2, UnregisterAdvances
      <3> QED BY <2>1, <3>1, <3>2
    <2>6. LockInv'
      BY <1>0, <2>1, <2>5 DEF SelectorInv, SelectorTypes, LockInv
    <2> QED BY <2>3, <2>4, <2>5, <2>6 DEF SelectorInv
  <1>3. CASE Selectors!RemoveWeight(c)
    <2>1. /\ place[c] = "unweigh" /\ place[c] \in Leaving /\ Selectors!Goto(c, "remove") /\ weights' \subseteq weights
          /\ UNCHANGED <<selector, parents, lock, connections, active, signalled, stream, down, deaf, counted, orphans, missed>>
      BY <1>3 DEF Selectors!RemoveWeight, Leaving
    <2>2. LiveInv' /\ SelectorTypes'
      BY <1>0, <2>1 DEF LiveInv, SelectorTypes
    <2>3. /\ PlaceInv'
          /\ \A d \in Calls : d # c => place'[d] = place[d] /\ index'[d] = index[d]
          /\ place'[c] = "remove" /\ place'[c] \notin Registering
      BY <2>1, Goes DEF Places, Leaving, Registering
    <2>4. LockInv'
      BY <2>1, <2>3, OnlyMoves
    <2> QED BY <2>2, <2>3, <2>4 DEF SelectorInv
  <1>4. CASE Selectors!RemoveConnection(c)
    <2> DEFINE h == Selectors!At(c)
    <2>1. /\ place[c] = "remove" /\ place[c] \in Leaving /\ Selectors!Advance(c, "unregister", "done")
          /\ connections' = [connections EXCEPT ![h] = None]
          /\ orphans' = orphans \cup ({connections[h]} \ (signalled \cup {None}))
          /\ missed' \subseteq missed \cup {h}
          /\ UNCHANGED <<selector, parents, lock, active, signalled, stream, weights, down, deaf, counted>>
      BY <1>4 DEF Selectors!RemoveConnection, Leaving
    <2>2. h \in Hosts
      BY <2>1, HostAt
    <2> HIDE DEF h
    <2>3. SelectorTypes'
      <3>1. /\ connections' \in [Hosts -> Links \cup {None}]
            /\ \A g \in Hosts : connections'[g] # None => connections'[g] \in Links /\ connections'[g][2] = g
        BY <1>0, <2>1, <2>2 DEF SelectorTypes
      <3>2. orphans' \subseteq Links /\ missed' \subseteq Hosts
        BY <1>0, <2>1, <2>2 DEF SelectorTypes
      <3> QED BY <1>0, <2>1, <3>1, <3>2 DEF SelectorTypes
    <2>4. LiveInv'
      <3> SUFFICES ASSUME NEW l \in Links, stream[l] = "running", l \notin signalled \cup orphans'
                   PROVE  connections'[l[2]] = l
        BY <2>1 DEF LiveInv
      <3>1. connections[l[2]] = l /\ l[2] \in Hosts
        BY <1>0, <2>1 DEF LiveInv, Links
      <3>2. l # None
        BY NoLink
      <3>3. l[2] # h
        BY <2>1, <3>1, <3>2
      <3> QED BY <1>0, <2>1, <3>1, <3>3 DEF SelectorTypes
    <2>5. /\ PlaceInv'
          /\ \A d \in Calls : d # c => place'[d] = place[d] /\ index'[d] = index[d]
          /\ place'[c] \in {"unregister", "done"} /\ place'[c] \notin Registering
      BY <2>1, UnregisterAdvances
    <2>6. LockInv'
      BY <2>1, <2>5, OnlyMoves
    <2> QED BY <2>3, <2>4, <2>5, <2>6 DEF SelectorInv
  <1> QED BY <1>1, <1>2, <1>3, <1>4 DEF Selectors!unregister

\* A stream reports or ends; a shutdown is triggered; a round ends.
LEMMA StreamStep ==
  ASSUME SelectorInv,
         UNCHANGED <<selector, parents, place, index, lock, connections, active, signalled, deaf, counted, orphans, missed>>,
         stream' \in [Links -> {"none", "running", "ended"}], \A k \in Links : stream'[k] = "running" => stream[k] = "running",
         weights' \subseteq Hosts, down' \in BOOLEAN
  PROVE  SelectorInv'
  <1>1. SelectorTypes'
    BY DEF SelectorInv, SelectorTypes
  <1>2. PlaceInv' /\ LockInv' /\ LiveInv'
    BY DEF SelectorInv, PlaceInv, LockInv, LiveInv
  <1> QED BY <1>1, <1>2 DEF SelectorInv

LEMMA SelectorNext == ASSUME SelectorInv, Selectors!Next PROVE SelectorInv'
  <1>0. SelectorTypes /\ LiveInv
    BY DEF SelectorInv
  <1>1. ASSUME NEW c \in Calls, Selectors!Caller(c)
        PROVE  SelectorInv'
    <2>1. CASE Selectors!RoundEnds(c)
      <3>1. /\ place[c] = "using" /\ Selectors!Goto(c, "unregister")
            /\ UNCHANGED <<selector, parents, lock, connections, active, signalled, stream, weights, down,
                           deaf, counted, orphans, missed>>
        BY <2>1 DEF Selectors!RoundEnds
      <3>2. LiveInv' /\ SelectorTypes'
        BY <1>0, <3>1 DEF LiveInv, SelectorTypes
      <3>3. /\ PlaceInv'
            /\ \A d \in Calls : d # c => place'[d] = place[d] /\ index'[d] = index[d]
            /\ place'[c] = "unregister" /\ place'[c] \notin Registering
        BY <3>1, Goes DEF Places, Leaving, Registering
      <3>4. LockInv'
        BY <3>1, <3>3, OnlyMoves
      <3> QED BY <3>2, <3>3, <3>4 DEF SelectorInv
    <2> QED BY <1>1, <2>1, RegisterStep, UnregisterStep DEF Selectors!Caller
  <1>2. ASSUME NEW k \in Links, Selectors!sync_host(k)
        PROVE  SelectorInv'
    <2>1. CASE Selectors!HostReports(k)
      <3>1. weights' \subseteq Hosts
        BY <1>0, <2>1 DEF Selectors!HostReports, SelectorTypes, Links
      <3> QED BY <1>0, <2>1, <3>1, StreamStep DEF Selectors!HostReports, SelectorTypes
    <2>2. CASE Selectors!HostLeaves(k) \/ Selectors!StreamStops(k)
      <3>1. /\ stream' = [stream EXCEPT ![k] = "ended"]
            /\ UNCHANGED <<selector, parents, place, index, lock, connections, active, signalled, weights, down,
                           deaf, counted, orphans, missed>>
        BY <2>2 DEF Selectors!HostLeaves, Selectors!StreamStops, Selectors!End, Selectors!callVars
      <3>2. /\ stream' \in [Links -> {"none", "running", "ended"}]
            /\ \A l \in Links : stream'[l] = "running" => stream[l] = "running"
        BY <1>0, <3>1 DEF SelectorTypes
      <3> QED BY <1>0, <3>1, <3>2, StreamStep DEF SelectorTypes
    <2> QED BY <1>2, <2>1, <2>2 DEF Selectors!sync_host
  <1>3. CASE Selectors!ShutDown
    <2>1. /\ down' = TRUE
          /\ UNCHANGED <<selector, parents, place, index, lock, connections, active, signalled, stream, weights,
                         deaf, counted, orphans, missed>>
      BY <1>3 DEF Selectors!ShutDown, Selectors!callVars
    <2> QED BY <1>0, <2>1, StreamStep DEF SelectorTypes
  <1> QED BY <1>1, <1>2, <1>3 DEF Selectors!Next, Selectors!ParentSelectorStep, Selectors!PersistentRegister,
        Selectors!PersistentSyncHost, Selectors!PersistentCacheRegister, Selectors!PersistentCacheSyncHost,
        Selectors!Register, Selectors!SyncHost, Selectors!Connections, Links

LEMMA SelectorGood == SelectorInv => Selectors!TypeOK /\ Selectors!OneLiveStream
  <1> SUFFICES ASSUME SelectorInv PROVE Selectors!TypeOK /\ Selectors!OneLiveStream
    OBVIOUS
  <1>1. \A S : Selectors!Cardinality(S) = Cardinality(S)
    BY Zenon DEF Selectors!Cardinality, Cardinality
  <1>3. \A c \in Calls : \A i \in DOMAIN parents[c] : parents[c][i] \in Hosts
    <2> TAKE c \in Calls
    <2>1. parents[c] \in Seq(Hosts)
      BY DEF SelectorInv, SelectorTypes
    <2> QED BY <2>1
  <1>4. Selectors!TypeOK
    BY <1>3 DEF SelectorInv, SelectorTypes, PlaceInv, Places, Registering, Leaving, Links,
                Selectors!TypeOK, Selectors!Connections
  <1>5. Selectors!OneLiveStream
    <2> SUFFICES ASSUME NEW h \in Hosts
                 PROVE  Selectors!Cardinality({k \in Selectors!Connections : /\ k[2] = h /\ Selectors!Running(k)
                                                                             /\ k \notin signalled \cup orphans}) <= 1
      BY DEF Selectors!OneLiveStream
    <2> DEFINE S == {k \in Selectors!Connections : k[2] = h /\ Selectors!Running(k) /\ k \notin signalled \cup orphans}
    <2>1. S \subseteq {connections[h]}
      BY DEF SelectorInv, LiveInv, Links, Selectors!Connections, Selectors!Running
    <2>2. IsFiniteSet({connections[h]}) /\ Cardinality({connections[h]}) = 1
      BY FS_Singleton
    <2>3. Cardinality(S) <= 1
      BY <2>1, <2>2, FS_Subset
    <2>4. Selectors!Cardinality(S) = Cardinality(S)
      BY <1>1
    <2> QED BY <2>3, <2>4
  <1> QED BY <1>4, <1>5

-----------------------------------------------------------------------------
(* PieceNumbers: the inductive invariant.                                     *)

\* The number of the first piece that is wanted, and how many are listed before the
\* piece at which the loop is.
FirstWanted == IF Numbers!Ranged THEN cut.range.start \div pieceLength ELSE 0
ListedCount == IF number > FirstWanted THEN number - FirstWanted ELSE 0

\* The bytes of the content in piece n.
PieceBytes(n) == IF (n + 1) * pieceLength <= cut.content THEN pieceLength ELSE cut.content - n * pieceLength

\* Every piece that the loop has passed starts within the content and before the end of
\* the range.
PassedInv ==
    /\ offset = number * pieceLength
    /\ number > 0 =>
        /\ (number - 1) * pieceLength < cut.content
        /\ Numbers!Ranged => (number - 1) * pieceLength < Numbers!RangeEnd

\* The pieces from the first that is wanted are listed, at full length while the loop
\* runs, and with their own bytes after it. A range is refused that is empty or behind
\* the last piece.
CutInv ==
    /\ phase = "loop" =>
        /\ cut.content > 0
        /\ Numbers!Ranged => cut.range.length > 0
        /\ pieces = [i \in 1 .. ListedCount |->
                        [number |-> FirstWanted + i - 1, offset |-> (FirstWanted + i - 1) * pieceLength,
                         length |-> pieceLength]]
    /\ phase = "listed" =>
        /\ pieces = [i \in 1 .. ListedCount |->
                        [number |-> FirstWanted + i - 1, offset |-> (FirstWanted + i - 1) * pieceLength,
                         length |-> PieceBytes(FirstWanted + i - 1)]]
        /\ \/ cut.content = 0 /\ number = 0
           \/ /\ cut.content > 0 /\ number > FirstWanted /\ (Numbers!Ranged => cut.range.length > 0)
              /\ offset >= cut.content \/ (Numbers!Ranged /\ offset >= Numbers!RangeEnd)
    /\ phase = "error" =>
        /\ Numbers!Ranged /\ cut.content > 0 /\ pieces = <<>>
        /\ cut.range.length = 0 \/ (offset >= cut.content /\ number <= FirstWanted)

\* A number that was brought is that of a listed piece, and there is one entry for it.
MergedInv ==
    /\ \A f, g \in merged : f.number = g.number => f = g
    /\ brought = {f.number : f \in merged}
    /\ phase # "listed" => merged = {} /\ remaining = {}
    /\ phase = "listed" =>
        /\ brought \subseteq {p.number : p \in Numbers!ToSet(pieces)}
        /\ remaining = {p \in Numbers!ToSet(pieces) : p.number \notin brought}

NumbersInv ==
    /\ cut \in Downloads
    /\ phase \in {"length", "loop", "listed", "error"}
    /\ phase = "length" => number = 0 /\ offset = 0 /\ pieces = <<>>
    /\ phase # "length" => pieceLength \in Nat \ {0} /\ PassedInv
    /\ number \in Nat
    /\ pieceLength \in Nat
    /\ round \in 0 .. MaxRounds
    /\ \A f \in merged : f.number \in Nat /\ f.round \in 0 .. MaxRounds
    /\ Numbers!PieceCountFits
    /\ CutInv
    /\ MergedInv

-----------------------------------------------------------------------------
(* PieceNumbers: the arithmetic of the piece length.                           *)

\* A set of natural numbers that is not empty has a least member.
LEMMA SmallestMember ==
  ASSUME NEW T \in SUBSET Nat, T # {}
  PROVE  \E m \in T : \A k \in T : m <= k
  <1> DEFINE R == StrictSubsetOrdering(Nat)
             S == FiniteSubsetsOf(Nat)
             U == {0 .. m - 1 : m \in T}
  <1>1. IsWellFoundedOn(R, S)
    BY FS_StrictSubsetOrderingWellFounded
  <1>2. U \subseteq S /\ U # {}
    <2>1. ASSUME NEW m \in Nat PROVE 0 .. m - 1 \in S
      <3>1. IsFiniteSet(0 .. m - 1)
        BY FS_Interval
      <3> QED BY <3>1 DEF FiniteSubsetsOf
    <2> HIDE DEF S
    <2> QED BY <2>1
  <1>3. PICK u \in U : \A v \in U : ~(<<v, u>> \in R)
    <2> HIDE DEF R, S, U
    <2> QED BY <1>1, <1>2, WFMin
  <1>4. PICK m \in T : u = 0 .. m - 1
    BY <1>3
  <1>5. ASSUME NEW k \in T, k < m PROVE FALSE
    <2>1. 0 .. k - 1 \in U /\ k \in Nat /\ m \in Nat
      OBVIOUS
    <2>2. 0 .. k - 1 \in SUBSET (0 .. m - 1) /\ k \in 0 .. m - 1 /\ k \notin 0 .. k - 1
      BY <1>5, <2>1
    <2>3. 0 .. k - 1 \subseteq Nat /\ 0 .. m - 1 \subseteq Nat
      OBVIOUS
    <2>4. <<0 .. k - 1, 0 .. m - 1>> \in R
      BY <2>2, <2>3, Zenon DEF StrictSubsetOrdering
    <2> QED BY <1>3, <1>4, <2>1, <2>4
  <1> QED BY <1>5

\* The half and the double of a power of two are powers of two, so one lies at or
\* above every number.
LEMMA PowerHalf ==
  ASSUME NEW m \in Nat, Numbers!IsPowerOfTwo(m), m > 1
  PROVE  m = 2 * (m \div 2) /\ Numbers!IsPowerOfTwo(m \div 2) /\ m \div 2 \in Nat
  <1>1. m % m = 0 /\ m \in 2 .. m
    OBVIOUS
  <1>2. m % 2 = 0
    BY <1>1 DEF Numbers!IsPowerOfTwo
  <1>3. m = 2 * (m \div 2) /\ m \div 2 \in Nat /\ m \div 2 > 0
    BY <1>2
  <1> DEFINE h == m \div 2
  <1> HIDE DEF h
  <1>4. ASSUME NEW d \in 2 .. h, h % d = 0 PROVE d % 2 = 0
    <2>1. h = d * (h \div d) /\ h \div d \in Int
      BY <1>3, <1>4 DEF h
    <2>2. PICK q \in Int : h = d * q
      BY ONLY <2>1, Zenon
    <2>3. m = d * (2 * q)
      BY <1>3, <2>2 DEF h
    <2>4. m % d = 0
      BY <2>3
    <2> QED BY <1>3, <2>4 DEF Numbers!IsPowerOfTwo, h
  <1> QED BY <1>3, <1>4 DEF Numbers!IsPowerOfTwo, h

LEMMA PowerTwice ==
  ASSUME NEW m \in Nat, Numbers!IsPowerOfTwo(m)
  PROVE  Numbers!IsPowerOfTwo(2 * m)
  <1>1. ASSUME NEW d \in 2 .. 2 * m, (2 * m) % d = 0, d % 2 # 0 PROVE FALSE
    <2>1. 2 * m = d * ((2 * m) \div d)
      BY <1>1
    <2>2. PICK q \in Int : 2 * m = d * q
      BY <2>1
    <2>3. PICK e \in Int : d = 2 * e + 1
      BY <1>1
    <2>4. PICK r \in Int : q = 2 * r
      <3>1. 2 * m = 2 * (e * q) + q
        BY <2>2, <2>3
      <3>2. q = 2 * (m - e * q)
        BY <3>1
      <3>3. m - e * q \in Int
        OBVIOUS
      <3> QED BY <3>2, <3>3
    <2>5. 2 * m = 2 * (d * r)
      BY <2>2, <2>4
    <2>6. m = d * r
      BY <2>5
    <2>7. m % d = 0
      BY <2>6
    <2>8. d <= m
      <3>1. m > 0 /\ d > 0
        BY DEF Numbers!IsPowerOfTwo
      <3>2. r >= 1
        BY <2>6, <3>1
      <3> QED BY <2>6, <3>1, <3>2
    <2> QED BY <1>1, <2>7, <2>8 DEF Numbers!IsPowerOfTwo
  <1> QED BY <1>1 DEF Numbers!IsPowerOfTwo

LEMMA PowerAbove ==
  ASSUME NEW n \in Nat
  PROVE  \E m \in Nat : Numbers!IsPowerOfTwo(m) /\ m >= n
  <1> DEFINE T == {k \in Nat : ~\E m \in Nat : Numbers!IsPowerOfTwo(m) /\ m >= k}
  <1>1. ASSUME T # {} PROVE FALSE
    <2>1. PICK k \in T : \A j \in T : k <= j
      BY <1>1, SmallestMember
    <2>2. CASE k = 0
      <3>1. Numbers!IsPowerOfTwo(1)
        BY DEF Numbers!IsPowerOfTwo
      <3> QED BY <2>1, <2>2, <3>1
    <2>3. CASE k # 0
      <3>1. k - 1 \in Nat /\ k - 1 \notin T
        BY <2>1, <2>3
      <3>2. PICK m \in Nat : Numbers!IsPowerOfTwo(m) /\ m >= k - 1
        BY <3>1
      <3>3. Numbers!IsPowerOfTwo(2 * m)
        BY <3>2, PowerTwice
      <3>4. m > 0
        BY <3>2 DEF Numbers!IsPowerOfTwo
      <3>5. 2 * m >= k /\ 2 * m \in Nat
        BY <3>1, <3>2, <3>4
      <3> QED BY <2>1, <3>3, <3>5
    <2> QED BY <2>2, <2>3
  <1> QED BY <1>1

\* next_power_of_two reaches n, and its half does not.
LEMMA NextPower ==
  ASSUME NEW n \in Nat
  PROVE  LET p == Numbers!next_power_of_two(n)
         IN  p \in Nat /\ p >= 1 /\ p >= n /\ (p > 1 => p \div 2 < n)
  <1> DEFINE T == {m \in n .. 2 * n + 1 : Numbers!IsPowerOfTwo(m)}
             p == Numbers!next_power_of_two(n)
  <1>1. T # {}
    <2> DEFINE A == {m \in Nat : Numbers!IsPowerOfTwo(m) /\ m >= n}
    <2>1. PICK m \in A : \A k \in A : m <= k
      <3>1. A # {} /\ A \in SUBSET Nat
        BY PowerAbove
      <3> QED BY <3>1, SmallestMember
    <2>2. m <= 2 * n + 1
      <3> SUFFICES ASSUME m > 2 * n + 1 PROVE FALSE
        BY <2>1
      <3>1. m > 1 /\ m \in Nat /\ Numbers!IsPowerOfTwo(m)
        BY <2>1
      <3>2. m = 2 * (m \div 2) /\ Numbers!IsPowerOfTwo(m \div 2) /\ m \div 2 \in Nat
        BY <3>1, PowerHalf
      <3>3. m \div 2 >= n /\ m \div 2 < m
        BY <3>1, <3>2
      <3>4. m \div 2 \in A
        BY <3>2, <3>3
      <3> QED BY <2>1, <3>1, <3>2, <3>3, <3>4
    <2> QED BY <2>1, <2>2
  <1>2. p = CHOOSE x \in T : \A y \in T : x <= y
    BY DEF Numbers!next_power_of_two, Numbers!Min
  <1>3. p \in T /\ \A y \in T : p <= y
    <2>1. \E x \in T : \A y \in T : x <= y
      <3>1. T \in SUBSET Nat
        OBVIOUS
      <3> HIDE DEF T
      <3> QED BY <1>1, <3>1, SmallestMember
    <2> HIDE DEF T, p
    <2> QED BY <1>2, <2>1, Zenon
  <1> HIDE DEF p
  <1>4. p \in Nat /\ p >= n /\ p >= 1 /\ Numbers!IsPowerOfTwo(p) /\ p <= 2 * n + 1
    BY <1>3 DEF Numbers!IsPowerOfTwo
  <1>5. ASSUME p > 1, p \div 2 >= n PROVE FALSE
    <2>1. p = 2 * (p \div 2) /\ Numbers!IsPowerOfTwo(p \div 2) /\ p \div 2 \in Nat
      BY <1>4, <1>5, PowerHalf
    <2>2. p \div 2 \in n .. 2 * n + 1 /\ p \div 2 < p
      BY <1>4, <1>5, <2>1
    <2>3. p \div 2 \in T
      BY <2>1, <2>2
    <2> QED BY <1>3, <1>4, <2>1, <2>2, <2>3
  <1>6. p > 1 => p \div 2 < n
    BY <1>4, <1>5
  <1> QED BY <1>4, <1>6 DEF p

\* Products of natural numbers grow with their factors.
LEMMA TimesGrows ==
  ASSUME NEW a \in Nat, NEW b \in Nat, NEW l \in Nat, a <= b
  PROVE  a * l <= b * l
  <1>1. b * l = a * l + (b - a) * l /\ (b - a) * l >= 0
    OBVIOUS
  <1> QED BY <1>1

LEMMA TimesOrder ==
  ASSUME NEW a \in Nat, NEW b \in Nat, NEW l \in Nat \ {0}, a * l < b * l
  PROVE  a < b
  <1>1. ASSUME b <= a PROVE FALSE
    BY <1>1, TimesGrows
  <1> QED BY <1>1

LEMMA Quotient ==
  ASSUME NEW s \in Nat, NEW l \in Nat \ {0}
  PROVE  s \div l \in Nat /\ (s \div l) * l <= s /\ s < (s \div l + 1) * l
  OBVIOUS

\* Piece n starts before byte c exactly if it is one of the pieces up to c, and ends
\* behind byte s exactly if it is not before the one of s.
LEMMA StartsBefore ==
  ASSUME NEW c \in Nat, NEW l \in Nat \ {0}, NEW n \in Nat
  PROVE  n * l < c <=> n <= Numbers!calculate_piece_count(l, c) - 1
  <1> DEFINE k == (c + l - 1) \div l
  <1>1. k \in Nat /\ k * l <= c + l - 1 /\ c + l - 1 < (k + 1) * l
    BY Quotient
  <1> HIDE DEF k
  <1>2. (k + 1) * l = k * l + l /\ n * l \in Nat /\ k * l \in Nat
    BY <1>1
  <1>3. ASSUME n <= k - 1 PROVE n * l < c
    <2>1. (n + 1) * l <= k * l /\ (n + 1) * l = n * l + l
      BY <1>1, <1>3, TimesGrows
    <2> QED BY ONLY <1>1, <1>2, <2>1, n \in Nat, l \in Nat, c \in Nat
  <1>4. ASSUME k <= n PROVE c <= n * l
    <2>1. k * l <= n * l
      BY <1>1, <1>4, TimesGrows
    <2> QED BY ONLY <1>1, <1>2, <2>1, n \in Nat, l \in Nat \ {0}, c \in Nat
  <1> QED BY <1>1, <1>2, <1>3, <1>4 DEF Numbers!calculate_piece_count, k

LEMMA EndsBehind ==
  ASSUME NEW s \in Nat, NEW l \in Nat \ {0}, NEW n \in Nat
  PROVE  n * l + l > s <=> n >= s \div l
  <1> DEFINE k == s \div l
  <1>1. k \in Nat /\ k * l <= s /\ s < (k + 1) * l
    BY Quotient
  <1> HIDE DEF k
  <1>2. (k + 1) * l = k * l + l /\ n * l \in Nat /\ k * l \in Nat
    BY <1>1
  <1>3. ASSUME n >= k PROVE n * l + l > s
    <2>1. k * l <= n * l
      BY <1>1, <1>3, TimesGrows
    <2> QED BY ONLY <1>1, <1>2, <2>1, n \in Nat, l \in Nat, s \in Nat
  <1>4. ASSUME n < k PROVE n * l + l <= s
    <2>1. (n + 1) * l <= k * l /\ (n + 1) * l = n * l + l
      BY <1>1, <1>4, TimesGrows
    <2> QED BY ONLY <1>1, <1>2, <2>1, n \in Nat, l \in Nat \ {0}, s \in Nat
  <1> QED BY <1>1, <1>2, <1>3, <1>4 DEF k

\* The piece length keeps the number of pieces within its limit, and is not more than
\* twice what that takes.
LEMMA LengthFits ==
  ASSUME NEW fixed \in Nat, NEW content \in Nat
  PROVE  LET l == Numbers!calculate_piece_length(fixed, content)
         IN  /\ l \in Nat \ {0}
             /\ fixed = 0 =>
                /\ l \in MinPieceLength .. MaxPieceLength
                /\ l < MaxPieceLength => Numbers!calculate_piece_count(l, content) <= MaxPieceCount + 1
                /\ l > MinPieceLength => (l \div 2) * MaxPieceCount < content
  <1> DEFINE l == Numbers!calculate_piece_length(fixed, content)
             q == content \div MaxPieceCount
             p == Numbers!next_power_of_two(q)
  <1>1. CASE fixed # 0
    BY <1>1 DEF Numbers!calculate_piece_length
  <1>2. CASE fixed = 0
    <2>1. MinPieceLength \in Nat \ {0} /\ MaxPieceLength \in Nat /\ MinPieceLength <= MaxPieceLength /\ MaxPieceCount \in Nat \ {0}
          /\ MaxPieceCount <= MinPieceLength + 1
      BY NumbersAssumption
    <2>2. q \in Nat /\ q * MaxPieceCount <= content /\ content < (q + 1) * MaxPieceCount
      BY <2>1, Quotient
    <2>3. p \in Nat /\ p >= 1 /\ p >= q /\ (p > 1 => p \div 2 < q)
      <3> HIDE DEF q
      <3> QED BY <2>2, NextPower
    <2>4. l = IF p >= MaxPieceLength THEN MaxPieceLength ELSE IF p > MinPieceLength THEN p ELSE MinPieceLength
      BY <1>2 DEF Numbers!calculate_piece_length
    <2> HIDE DEF l, p, q
    <2>5. l \in MinPieceLength .. MaxPieceLength /\ l \in Nat \ {0}
      BY ONLY <2>1, <2>3, <2>4
    <2>6. ASSUME l < MaxPieceLength PROVE Numbers!calculate_piece_count(l, content) <= MaxPieceCount + 1
      <3>1. l >= q
        BY ONLY <2>1, <2>2, <2>3, <2>4, <2>6
      <3>2. q * MaxPieceCount <= l * MaxPieceCount /\ (q + 1) * MaxPieceCount = q * MaxPieceCount + MaxPieceCount
        BY <2>1, <2>2, <2>5, <3>1, TimesGrows
      <3>3. (MaxPieceCount + 1) * l = l * MaxPieceCount + l /\ l * MaxPieceCount \in Nat /\ q * MaxPieceCount \in Nat
        BY <2>1, <2>2, <2>5
      <3>4. content <= (MaxPieceCount + 1) * l
        BY ONLY <2>1, <2>2, <2>5, <3>2, <3>3, content \in Nat
      <3>5. MaxPieceCount + 1 \in Nat
        BY <2>1
      <3>6. ~((MaxPieceCount + 1) * l < content)
        BY <2>1, <2>5, <3>4
      <3>7. ~(MaxPieceCount + 1 <= Numbers!calculate_piece_count(l, content) - 1)
        BY <2>5, <3>5, <3>6, StartsBefore
      <3>8. Numbers!calculate_piece_count(l, content) \in Nat
        BY <2>5, Quotient DEF Numbers!calculate_piece_count
      <3> QED BY <3>5, <3>7, <3>8
    <2>7. ASSUME l > MinPieceLength PROVE (l \div 2) * MaxPieceCount < content
      <3>1. p >= l /\ p > 1
        BY ONLY <2>1, <2>3, <2>4, <2>7
      <3>2. l \div 2 \in Nat /\ l \div 2 + 1 <= q
        BY ONLY <2>2, <2>3, <2>5, <3>1
      <3>3. (l \div 2 + 1) * MaxPieceCount <= q * MaxPieceCount
        BY <2>1, <2>2, <3>2, TimesGrows
      <3>4. (l \div 2 + 1) * MaxPieceCount = (l \div 2) * MaxPieceCount + MaxPieceCount /\ (l \div 2) * MaxPieceCount \in Nat
            /\ q * MaxPieceCount \in Nat
        BY <2>1, <2>2, <3>2
      <3> QED BY ONLY <2>1, <2>2, <3>3, <3>4, content \in Nat
    <2> QED BY <1>2, <2>5, <2>6, <2>7 DEF l
  <1> QED BY <1>1, <1>2

-----------------------------------------------------------------------------
(* PieceNumbers: the invariant gives what is promised.                        *)

LEMMA NumbersCardinality ==
  \A S : Numbers!Cardinality(S) = Cardinality(S)
  BY Zenon DEF Numbers!Cardinality, Cardinality

\* Two intervals of which the first is not empty share a member.
LEMMA IntervalsMeet ==
  ASSUME NEW a \in Int, NEW b \in Int, NEW s \in Int, NEW e \in Int, a < b
  PROVE  (a .. b - 1) \cap (s .. e - 1) # {} <=> a < e /\ s < b /\ s < e
  <1>1. ASSUME a < e, s < b, s < e PROVE (a .. b - 1) \cap (s .. e - 1) # {}
    <2>1. CASE a >= s
      <3>1. a \in (a .. b - 1) \cap (s .. e - 1)
        BY <1>1, <2>1
      <3> QED BY <3>1
    <2>2. CASE a < s
      <3>1. s \in (a .. b - 1) \cap (s .. e - 1)
        BY <1>1, <2>2
      <3> QED BY <3>1
    <2> QED BY <2>1, <2>2
  <1> QED BY <1>1

\* The member of N that has i - 1 others below it.
NthOf(N, i) == CHOOSE n \in N : Cardinality({j \in N : j < n}) = i - 1

\* Of an interval, the i-th member is its first plus i - 1.
LEMMA IntervalListing ==
  ASSUME NEW a \in Nat, NEW k \in Nat, NEW N, N = a .. a + k - 1
  PROVE  /\ Cardinality(N) = k
         /\ \A i \in 1 .. k : NthOf(N, i) = a + i - 1
  <1>1. Cardinality(N) = k
    <2>1. Cardinality(a .. a + k - 1) = IF a > a + k - 1 THEN 0 ELSE a + k - 1 - a + 1
      <3>1. a + k - 1 \in Int
        OBVIOUS
      <3> QED BY <3>1, FS_Interval
    <2> QED BY <2>1
  <1>2. ASSUME NEW n \in N PROVE Cardinality({j \in N : j < n}) = n - a
    <2>1. {j \in N : j < n} = a .. n - 1 /\ n \in Int /\ n >= a
      OBVIOUS
    <2>2. Cardinality(a .. n - 1) = IF a > n - 1 THEN 0 ELSE n - 1 - a + 1
      <3>1. n - 1 \in Int
        BY <2>1
      <3> QED BY <3>1, FS_Interval
    <2>3. Cardinality(a .. n - 1) = n - a
      BY ONLY <2>1, <2>2, a \in Nat
    <2> QED BY ONLY <2>1, <2>3, Zenon
  <1>3. ASSUME NEW i \in 1 .. k PROVE NthOf(N, i) = a + i - 1
    <2>1. a + i - 1 \in N
      OBVIOUS
    <2>2. \A n \in N : Cardinality({j \in N : j < n}) = i - 1 <=> n = a + i - 1
      BY <1>2
    <2> DEFINE P(n) == Cardinality({j \in N : j < n}) = i - 1
               x == a + i - 1
    <2>3. x \in N /\ \A n \in N : P(n) <=> n = x
      BY <2>1, <2>2
    <2> HIDE DEF P, x
    <2>4. (CHOOSE n \in N : P(n)) = x
      BY <2>3
    <2> QED BY <2>4 DEF P, x, NthOf
  <1> QED BY <1>1, <1>3

\* The constants of the cut, as the lemmas about them take them.
LEMMA CutTypes ==
  ASSUME cut \in Downloads
  PROVE  /\ cut.content \in Nat /\ cut.fixed \in Nat
         /\ Numbers!Ranged => cut.range.start \in Nat /\ cut.range.length \in Nat /\ Numbers!RangeEnd \in Nat
  BY NumbersAssumption DEF Numbers!Ranged, Numbers!RangeEnd

LEMMA FirstWantedType ==
  ASSUME cut \in Downloads, pieceLength \in Nat \ {0}, number \in Nat
  PROVE  FirstWanted \in Nat /\ ListedCount \in Nat
  <1>1. FirstWanted \in Nat
    <2>1. CASE Numbers!Ranged
      BY <2>1, CutTypes, Quotient DEF FirstWanted
    <2> QED BY <2>1 DEF FirstWanted
  <1> QED BY <1>1 DEF ListedCount

\* The pieces of the content that share a byte with what is wanted.
WantedPieces ==
    LET last == Numbers!calculate_piece_count(pieceLength, cut.content) - 1
        Extent(n) == n * pieceLength .. (n + 1) * pieceLength - 1
        Wanted == IF Numbers!Ranged THEN cut.range.start .. Numbers!RangeEnd - 1 ELSE 0 .. cut.content - 1
    IN  {n \in 0 .. last : Extent(n) \cap Wanted # {}}

LEMMA WantedMember ==
  ASSUME cut \in Downloads, pieceLength \in Nat \ {0}, NEW n \in Nat
  PROVE  n \in WantedPieces <=>
            /\ n * pieceLength < cut.content
            /\ n >= FirstWanted
            /\ Numbers!Ranged => n * pieceLength < Numbers!RangeEnd /\ cut.range.length > 0
  <1> DEFINE last == Numbers!calculate_piece_count(pieceLength, cut.content) - 1
             a == n * pieceLength
             b == (n + 1) * pieceLength
             s == IF Numbers!Ranged THEN cut.range.start ELSE 0
             e == IF Numbers!Ranged THEN Numbers!RangeEnd ELSE cut.content
  <1>1. n \in WantedPieces <=> n \in 0 .. last /\ (a .. b - 1) \cap (s .. e - 1) # {}
    BY DEF WantedPieces
  <1>2. s \in Nat /\ e \in Nat
    BY CutTypes
  <1>3. a \in Nat /\ b \in Nat /\ b = a + pieceLength
    OBVIOUS
  <1>4. n \in 0 .. last <=> a < cut.content
    <2>1. cut.content \in Nat
      BY CutTypes
    <2>2. last \in Int
      <3>1. Numbers!calculate_piece_count(pieceLength, cut.content) \in Nat
        BY <2>1, Quotient DEF Numbers!calculate_piece_count
      <3> QED BY <3>1
    <2>3. n * pieceLength < cut.content <=> n <= last
      BY <2>1, StartsBefore
    <2> QED BY <2>2, <2>3
  <1>5. b > s <=> n >= FirstWanted
    <2>1. CASE Numbers!Ranged
      <3>1. a + pieceLength > s <=> n >= s \div pieceLength
        BY <1>2, EndsBehind
      <3> QED BY <1>3, <2>1, <3>1 DEF FirstWanted
    <2>2. CASE ~Numbers!Ranged
      <3>1. FirstWanted = 0 /\ s = 0
        BY <2>2 DEF FirstWanted
      <3> QED BY <1>3, <3>1
    <2> QED BY <2>1, <2>2
  <1> HIDE DEF a, b, last, s, e
  <1>6. (a .. b - 1) \cap (s .. e - 1) # {} <=> a < e /\ s < b /\ s < e
    <2>1. a \in Int /\ b \in Int /\ s \in Int /\ e \in Int /\ a < b
      BY ONLY <1>2, <1>3, pieceLength \in Nat \ {0}
    <2> QED BY ONLY <2>1, IntervalsMeet
  <1>7. CASE Numbers!Ranged
    <2>1. s < e <=> cut.range.length > 0
      BY <1>7, CutTypes DEF s, e, Numbers!RangeEnd
    <2>2. e = Numbers!RangeEnd
      BY <1>7 DEF e
    <2> QED BY <1>1, <1>2, <1>3, <1>4, <1>5, <1>6, <1>7, <2>1, <2>2 DEF a
  <1>8. CASE ~Numbers!Ranged
    <2>1. e = cut.content /\ s = 0
      BY <1>8 DEF e, s
    <2> QED BY <1>1, <1>2, <1>3, <1>4, <1>5, <1>6, <1>8, <2>1 DEF a
  <1> QED BY <1>7, <1>8

\* Piece n of the listing.
PieceAt(n, l) == [number |-> n, offset |-> n * pieceLength, length |-> l]

\* When the list is complete, what is wanted are the pieces from the first on.
LEMMA ListedWanted ==
  ASSUME NumbersInv, phase = "listed"
  PROVE  WantedPieces = FirstWanted .. FirstWanted + ListedCount - 1
  <1> DEFINE F == FirstWanted
  <1>1. cut \in Downloads /\ pieceLength \in Nat \ {0} /\ number \in Nat /\ PassedInv
    BY DEF NumbersInv
  <1>2. F \in Nat /\ ListedCount \in Nat /\ ListedCount = (IF number > F THEN number - F ELSE 0)
    BY <1>1, FirstWantedType DEF ListedCount
  <1>3. WantedPieces \subseteq Nat
    BY DEF WantedPieces
  <1>4. cut.content \in Nat /\ (Numbers!Ranged => Numbers!RangeEnd \in Nat)
    BY <1>1, CutTypes
  <1>5. CASE cut.content = 0 /\ number = 0
    <2>1. ASSUME NEW n \in Nat PROVE n \notin WantedPieces
      <3>1. n * pieceLength >= 0
        BY <1>1
      <3> QED BY <1>1, <1>5, <3>1, WantedMember
    <2>2. F .. F + ListedCount - 1 = {}
      BY <1>2, <1>5
    <2> QED BY <1>3, <2>1, <2>2
  <1>6. CASE /\ cut.content > 0 /\ number > F /\ (Numbers!Ranged => cut.range.length > 0)
             /\ offset >= cut.content \/ (Numbers!Ranged /\ offset >= Numbers!RangeEnd)
    <2>1. ListedCount = number - F
      BY <1>2, <1>6
    <2> HIDE DEF F
    <2>2. ASSUME NEW n \in Nat PROVE n \in WantedPieces <=> n >= F /\ n <= number - 1
      <3> DEFINE a == n * pieceLength
                 b == number * pieceLength
                 c == (number - 1) * pieceLength
      <3>1. a \in Nat /\ b \in Nat /\ c \in Int
        BY <1>1, <2>2
      <3>2. offset = b /\ c < cut.content /\ (Numbers!Ranged => c < Numbers!RangeEnd)
        BY <1>1, <1>2, <1>6 DEF PassedInv, F
      <3>3. n <= number - 1 => a <= c
        <4>1. number - 1 \in Nat
          BY <1>1, <1>2, <1>6
        <4> QED BY <1>1, <4>1, TimesGrows
      <3>4. number <= n => b <= a
        BY <1>1, TimesGrows
      <3>5. n \in WantedPieces <=>
              a < cut.content /\ n >= F /\ (Numbers!Ranged => a < Numbers!RangeEnd /\ cut.range.length > 0)
        BY <1>1, WantedMember DEF F
      <3> HIDE DEF a, b, c
      <3> QED BY ONLY <1>1, <1>2, <1>4, <1>6, <3>1, <3>2, <3>3, <3>4, <3>5, n \in Nat
    <2>3. F .. number - 1 \subseteq Nat
      BY <1>1, <1>2
    <2>4. F + ListedCount - 1 = number - 1
      BY <1>1, <1>2, <2>1
    <2>5. WantedPieces = F .. number - 1
      <3>1. \A n \in Nat : n \in WantedPieces <=> n \in F .. number - 1
        BY ONLY <1>1, <1>2, <2>2
      <3> QED BY ONLY <1>3, <2>3, <3>1
    <2> QED BY <2>4, <2>5 DEF F
  <1> QED BY <1>5, <1>6 DEF NumbersInv, CutInv

\* The bytes of the content within a piece that starts in it.
LEMMA BytesCounted ==
  ASSUME NumbersInv, phase = "listed", NEW n \in WantedPieces
  PROVE  /\ n \in Nat
         /\ PieceBytes(n) \in Nat \ {0}
         /\ Numbers!Cardinality((n * pieceLength .. (n + 1) * pieceLength - 1) \cap (0 .. cut.content - 1)) = PieceBytes(n)
  <1> DEFINE a == n * pieceLength
             b == (n + 1) * pieceLength
             c == cut.content
             e == IF b <= c THEN b ELSE c
  <1>1. cut \in Downloads /\ pieceLength \in Nat \ {0} /\ number \in Nat
    BY DEF NumbersInv
  <1>2. n \in Nat /\ c \in Nat
    BY <1>1, CutTypes DEF WantedPieces
  <1>3. a \in Nat /\ b \in Nat /\ b = a + pieceLength /\ a < c
    BY <1>1, <1>2, WantedMember
  <1>4. PieceBytes(n) = IF b <= c THEN pieceLength ELSE c - a
    BY DEF PieceBytes
  <1> HIDE DEF a, b, c
  <1>5. (a .. b - 1) \cap (0 .. c - 1) = a .. e - 1 /\ e \in Nat /\ a < e
    BY ONLY <1>1, <1>2, <1>3
  <1>6. PieceBytes(n) = e - a
    BY ONLY <1>1, <1>2, <1>3, <1>4
  <1> HIDE DEF e
  <1>7. Cardinality(a .. e - 1) = IF a > e - 1 THEN 0 ELSE e - 1 - a + 1
    <2>1. a \in Int /\ e - 1 \in Int
      BY ONLY <1>3, <1>5
    <2> QED BY ONLY <2>1, FS_Interval
  <1>8. Cardinality(a .. e - 1) = e - a
    BY ONLY <1>3, <1>5, <1>7
  <1>9. Numbers!Cardinality((a .. b - 1) \cap (0 .. c - 1)) = PieceBytes(n)
    BY ONLY <1>5, <1>6, <1>8, NumbersCardinality, Zenon
  <1>10. PieceBytes(n) \in Nat \ {0}
    BY ONLY <1>3, <1>5, <1>6
  <1> QED BY <1>2, <1>9, <1>10 DEF a, b, c

LEMMA ListedExactly ==
  ASSUME NumbersInv
  PROVE  Numbers!ListedIsRange
  <1> DEFINE Extent(n) == n * pieceLength .. (n + 1) * pieceLength - 1
             N == WantedPieces
             Nth(i) == CHOOSE n \in N : Numbers!Cardinality({k \in N : k < n}) = i - 1
  <1>1. cut \in Downloads /\ (phase # "length" => pieceLength \in Nat \ {0} /\ PassedInv) /\ number \in Nat /\ CutInv
    BY DEF NumbersInv
  <1>2. ASSUME phase = "listed"
        PROVE  pieces = [i \in 1 .. Numbers!Cardinality(N) |->
                            [number |-> Nth(i), offset |-> Nth(i) * pieceLength,
                             length |-> Numbers!Cardinality(Extent(Nth(i)) \cap 0 .. cut.content - 1)]]
    <2> DEFINE F == FirstWanted
               C == ListedCount
    <2>1. F \in Nat /\ C \in Nat
      BY <1>1, <1>2, FirstWantedType
    <2>2. N = F .. F + C - 1
      BY <1>2, ListedWanted
    <2>3. pieces = [i \in 1 .. C |-> [number |-> F + i - 1, offset |-> (F + i - 1) * pieceLength,
                                      length |-> PieceBytes(F + i - 1)]]
      BY <1>1, <1>2 DEF CutInv
    <2> HIDE DEF F, C, N
    <2>4. /\ Cardinality(N) = C
          /\ \A i \in 1 .. C : NthOf(N, i) = F + i - 1
      BY ONLY <2>1, <2>2, IntervalListing
    <2>5. Numbers!Cardinality(N) = C /\ \A i \in 1 .. C : Nth(i) = F + i - 1
      <3>1. ASSUME NEW i PROVE Nth(i) = NthOf(N, i)
        BY ONLY NumbersCardinality, Zenon DEF NthOf
      <3> HIDE DEF Nth
      <3> QED BY ONLY <2>4, <3>1, NumbersCardinality
    <2>6. ASSUME NEW i \in 1 .. C
          PROVE  Numbers!Cardinality(Extent(Nth(i)) \cap 0 .. cut.content - 1) = PieceBytes(F + i - 1)
      <3>1. F + i - 1 \in WantedPieces
        BY ONLY <2>1, <2>2, i \in 1 .. C DEF N
      <3>2. Numbers!Cardinality(Extent(F + i - 1) \cap 0 .. cut.content - 1) = PieceBytes(F + i - 1)
        BY <1>2, <3>1, BytesCounted
      <3> HIDE DEF Nth, Extent
      <3> QED BY ONLY <2>5, <3>2, i \in 1 .. C
    <2> HIDE DEF Nth, Extent
    <2> QED BY ONLY <2>3, <2>5, <2>6
  <1>3. ASSUME phase = "error" PROVE N = {}
    <2> SUFFICES ASSUME NEW n \in N PROVE FALSE
      OBVIOUS
    <2>1. n \in Nat
      BY DEF WantedPieces
    <2>2. pieceLength \in Nat \ {0} /\ PassedInv /\ cut.content \in Nat
      BY <1>1, <1>3, CutTypes
    <2>3. n * pieceLength < cut.content /\ n >= FirstWanted /\ cut.range.length > 0 /\ offset >= cut.content /\ number <= FirstWanted
      <3>1. Numbers!Ranged /\ (cut.range.length = 0 \/ (offset >= cut.content /\ number <= FirstWanted))
        BY <1>1, <1>3 DEF CutInv
      <3> QED BY <1>1, <2>1, <2>2, <3>1, WantedMember
    <2>4. number <= n
      <3>1. FirstWanted \in Nat
        BY <1>1, <2>2, FirstWantedType
      <3> QED BY <1>1, <2>1, <2>3, <3>1
    <2>5. number * pieceLength <= n * pieceLength
      BY <1>1, <2>1, <2>2, <2>4, TimesGrows
    <2>6. n * pieceLength \in Nat /\ number * pieceLength \in Nat /\ offset = number * pieceLength
      BY <1>1, <2>1, <2>2 DEF PassedInv
    <2> QED BY ONLY <2>2, <2>3, <2>5, <2>6
  <1> HIDE DEF Nth
  <1> QED BY <1>2, <1>3, Zenon DEF Numbers!ListedIsRange, WantedPieces, Nth

\* The numbers of the pieces that are listed.
ListedNumbers == {p.number : p \in Numbers!ToSet(pieces)}

LEMMA ListedFacts ==
  ASSUME NumbersInv, phase = "listed"
  PROVE  /\ Len(pieces) = ListedCount
         /\ ListedNumbers = FirstWanted .. FirstWanted + ListedCount - 1
         /\ \A p, q \in Numbers!ToSet(pieces) : p.number = q.number => p = q
         /\ \A p \in Numbers!ToSet(pieces) : p.number \in Nat /\ p.offset \in Nat /\ p.length \in Nat \ {0}
  <1> DEFINE F == FirstWanted
             C == ListedCount
             B(n) == PieceBytes(n)
  <1>1. F \in Nat /\ C \in Nat /\ pieceLength \in Nat
    BY FirstWantedType DEF NumbersInv
  <1>2. pieces = [i \in 1 .. C |-> [number |-> F + i - 1, offset |-> (F + i - 1) * pieceLength,
                                    length |-> B(F + i - 1)]]
    BY DEF NumbersInv, CutInv
  <1>3. \A i \in 1 .. C : B(F + i - 1) \in Nat \ {0}
    <2>1. ASSUME NEW i \in 1 .. C PROVE F + i - 1 \in WantedPieces
      BY <1>1, ListedWanted
    <2> QED BY <2>1, BytesCounted
  <1> HIDE DEF F, C, B
  <1>4. Len(pieces) = C /\ DOMAIN pieces = 1 .. C
    BY ONLY <1>1, <1>2
  <1>5. ASSUME NEW i \in 1 .. C
        PROVE  /\ pieces[i].number = F + i - 1 /\ pieces[i].offset = (F + i - 1) * pieceLength
               /\ pieces[i].length = B(F + i - 1)
    BY ONLY <1>2, i \in 1 .. C
  <1>6. Numbers!ToSet(pieces) = {pieces[i] : i \in 1 .. C}
    BY ONLY <1>4 DEF Numbers!ToSet
  <1>7. ListedNumbers = F .. F + C - 1
    <2>1. ListedNumbers = {F + i - 1 : i \in 1 .. C}
      BY <1>5, <1>6 DEF ListedNumbers
    <2>2. ASSUME NEW n \in F .. F + C - 1 PROVE n \in {F + i - 1 : i \in 1 .. C}
      <3>1. n = F + (n - F + 1) - 1 /\ n - F + 1 \in 1 .. C
        BY ONLY <1>1, n \in F .. F + C - 1
      <3> QED BY ONLY <3>1
    <2>3. ASSUME NEW i \in 1 .. C PROVE F + i - 1 \in F .. F + C - 1
      BY ONLY <1>1, i \in 1 .. C
    <2> QED BY <2>1, <2>2, <2>3
  <1>8. \A p, q \in Numbers!ToSet(pieces) : p.number = q.number => p = q
    <2> SUFFICES ASSUME NEW i \in 1 .. C, NEW j \in 1 .. C, pieces[i].number = pieces[j].number
                 PROVE  i = j
      BY <1>6
    <2>1. F + i - 1 = F + j - 1
      BY <1>5
    <2> QED BY ONLY <1>1, <2>1, i \in 1 .. C, j \in 1 .. C
  <1>9. \A p \in Numbers!ToSet(pieces) : p.number \in Nat /\ p.offset \in Nat /\ p.length \in Nat \ {0}
    <2> SUFFICES ASSUME NEW i \in 1 .. C
                 PROVE  pieces[i].number \in Nat /\ pieces[i].offset \in Nat /\ pieces[i].length \in Nat \ {0}
      BY <1>6
    <2>1. F + i - 1 \in Nat
      BY ONLY <1>1, i \in 1 .. C
    <2>2. (F + i - 1) * pieceLength \in Nat
      BY ONLY <1>1, <2>1
    <2> QED BY <1>3, <1>5, <2>1, <2>2
  <1> QED BY <1>4, <1>7, <1>8, <1>9 DEF F, C

\* One entry for every number that was brought.
LEMMA OneEach ==
  ASSUME NEW E, NEW B, IsFiniteSet(B), B = {f.number : f \in E},
         \A f, g \in E : f.number = g.number => f = g
  PROVE  Cardinality(E) = Cardinality(B)
  <1> DEFINE h == [b \in B |-> CHOOSE f \in E : f.number = b]
  <1>1. ASSUME NEW b \in B PROVE h[b] \in E /\ h[b].number = b
    <2>1. PICK f \in E : f.number = b
      OBVIOUS
    <2> QED BY <2>1
  <1>2. ASSUME NEW f \in E PROVE \E b \in B : h[b] = f
    <2>1. f.number \in B
      OBVIOUS
    <2>2. h[f.number] \in E /\ h[f.number].number = f.number
      BY <1>1, <2>1
    <2> HIDE DEF h
    <2>3. h[f.number] = f
      BY <2>2
    <2> QED BY <2>1, <2>3
  <1>3. h \in [B -> E]
    BY <1>1
  <1>4. h \in Bijection(B, E)
    <2> HIDE DEF h
    <2> QED BY <1>1, <1>2, <1>3 DEF Bijection, Injection, Surjection, IsInjective
  <1>5. ExistsBijection(B, E)
    BY <1>4 DEF ExistsBijection
  <1> QED BY <1>5, FS_Bijection

\* The finished pieces are as many as the listed ones exactly when none remains.
LEMMA CountDecidesAlways ==
  ASSUME NumbersInv
  PROVE  Numbers!CountDecides
  <1> SUFFICES ASSUME phase = "listed"
               PROVE  /\ Numbers!Cardinality(merged) = Len(pieces) <=> brought = ListedNumbers
                      /\ Numbers!Cardinality(merged) = Len(pieces) <=> remaining = {}
    BY DEF Numbers!CountDecides, ListedNumbers
  <1> DEFINE F == FirstWanted
             C == ListedCount
  <1>1. F \in Nat /\ C \in Nat
    BY FirstWantedType DEF NumbersInv
  <1>2. Len(pieces) = C /\ ListedNumbers = F .. F + C - 1
    BY ListedFacts
  <1>3. /\ brought \subseteq ListedNumbers
        /\ remaining = {p \in Numbers!ToSet(pieces) : p.number \notin brought}
        /\ brought = {f.number : f \in merged}
        /\ \A f, g \in merged : f.number = g.number => f = g
    BY DEF NumbersInv, MergedInv, ListedNumbers
  <1> HIDE DEF F, C
  <1>4. IsFiniteSet(ListedNumbers) /\ Cardinality(ListedNumbers) = C
    <2> DEFINE e == F + C - 1
    <2>1. e \in Int /\ F \in Int /\ e = F + C - 1
      BY ONLY <1>1
    <2> HIDE DEF e
    <2>2. IsFiniteSet(F .. e) /\ Cardinality(F .. e) = IF F > e THEN 0 ELSE e - F + 1
      BY ONLY <2>1, FS_Interval
    <2>3. Cardinality(F .. e) = C
      BY ONLY <1>1, <2>1, <2>2
    <2> QED BY ONLY <1>2, <2>1, <2>2, <2>3, Zenon
  <1>5. IsFiniteSet(brought) /\ (Cardinality(ListedNumbers) = Cardinality(brought) => ListedNumbers = brought)
    BY ONLY <1>3, <1>4, FS_Subset
  <1>6. Cardinality(merged) = Cardinality(brought)
    BY ONLY <1>3, <1>5, OneEach, Zenon
  <1>7. Numbers!Cardinality(merged) = Len(pieces) <=> brought = ListedNumbers
    BY ONLY <1>2, <1>4, <1>5, <1>6, NumbersCardinality, Zenon
  <1>8. brought = ListedNumbers <=> remaining = {}
    BY ONLY <1>3 DEF ListedNumbers
  <1> QED BY <1>7, <1>8

LEMMA NumbersGood ==
  ASSUME NumbersInv
  PROVE  Numbers!TypeOK /\ Numbers!ListedIsRange /\ Numbers!PieceCountFits /\ Numbers!CountDecides
  <1>1. \A p \in Numbers!ToSet(pieces) : p.number \in Nat /\ p.offset \in Nat /\ p.length \in Nat \ {0}
    <2>1. CASE phase = "listed"
      BY <2>1, ListedFacts
    <2>2. CASE phase = "loop"
      <3> DEFINE F == FirstWanted
                 C == ListedCount
      <3>1. F \in Nat /\ C \in Nat /\ pieceLength \in Nat \ {0}
        BY <2>2, FirstWantedType DEF NumbersInv
      <3>2. pieces = [i \in 1 .. C |-> [number |-> F + i - 1, offset |-> (F + i - 1) * pieceLength,
                                        length |-> pieceLength]]
        BY <2>2 DEF NumbersInv, CutInv
      <3> HIDE DEF F, C
      <3> SUFFICES ASSUME NEW i \in 1 .. C
                   PROVE  pieces[i].number \in Nat /\ pieces[i].offset \in Nat /\ pieces[i].length \in Nat \ {0}
        <4>1. DOMAIN pieces = 1 .. C
          BY ONLY <3>2
        <4> QED BY <4>1 DEF Numbers!ToSet
      <3>3. F + i - 1 \in Nat
        BY ONLY <3>1, i \in 1 .. C
      <3>4. (F + i - 1) * pieceLength \in Nat
        BY ONLY <3>1, <3>3
      <3> QED BY ONLY <3>1, <3>2, <3>3, <3>4, i \in 1 .. C
    <2>3. CASE phase \in {"length", "error"}
      <3>1. pieces = <<>>
        BY <2>3 DEF NumbersInv, CutInv
      <3> QED BY <3>1 DEF Numbers!ToSet
    <2> QED BY <2>1, <2>2, <2>3 DEF NumbersInv
  <1>2. offset \in Nat
    <2>1. CASE phase = "length"
      BY <2>1 DEF NumbersInv
    <2>2. CASE phase # "length"
      <3>1. number \in Nat /\ pieceLength \in Nat /\ offset = number * pieceLength
        BY <2>2 DEF NumbersInv, PassedInv
      <3> QED BY <3>1
    <2> QED BY <2>1, <2>2
  <1>3. Numbers!TypeOK
    BY <1>1, <1>2 DEF NumbersInv, Numbers!TypeOK
  <1> QED BY <1>3, ListedExactly, CountDecidesAlways DEF NumbersInv

-----------------------------------------------------------------------------
(* PieceNumbers: every step keeps the invariant.                              *)

LEMMA NumbersInit ==
  ASSUME Numbers!Init
  PROVE  NumbersInv
  BY NumbersAssumption DEF Numbers!Init, NumbersInv, CutInv, MergedInv, Numbers!PieceCountFits

LEMMA NumbersStutter ==
  ASSUME NumbersInv, UNCHANGED numberVars
  PROVE  NumbersInv'
  <1> USE DEF numberVars
  <1>1. PassedInv <=> PassedInv'
    BY DEF PassedInv, Numbers!Ranged, Numbers!RangeEnd
  <1>2. CutInv <=> CutInv'
    BY DEF CutInv, FirstWanted, ListedCount, PieceBytes, Numbers!Ranged, Numbers!RangeEnd
  <1>3. MergedInv <=> MergedInv'
    BY DEF MergedInv
  <1>4. Numbers!PieceCountFits <=> Numbers!PieceCountFits'
    BY DEF Numbers!PieceCountFits
  <1> QED BY <1>1, <1>2, <1>3, <1>4 DEF NumbersInv

\* The length is calculated and nothing is listed.
LEMMA StartStep ==
  ASSUME NumbersInv, Numbers!download_started
  PROVE  NumbersInv'
  <1>1. /\ phase = "length" /\ pieceLength' = Numbers!calculate_piece_length(cut.fixed, cut.content)
        /\ phase' = (IF cut.content = 0 THEN "listed"
                     ELSE IF Numbers!Ranged /\ cut.range.length = 0 THEN "error" ELSE "loop")
        /\ UNCHANGED <<cut, number, offset, pieces, round, merged, remaining, brought>>
    BY DEF Numbers!download_started, Numbers!loopVars, Numbers!roundVars
  <1>2. /\ cut \in Downloads /\ number = 0 /\ offset = 0 /\ pieces = <<>> /\ merged = {} /\ brought = {}
        /\ round \in 0 .. MaxRounds
    BY <1>1 DEF NumbersInv, MergedInv
  <1>3. cut.content \in Nat /\ cut.fixed \in Nat /\ (Numbers!Ranged => cut.range.length \in Nat)
    BY <1>2, CutTypes
  <1>4. /\ pieceLength' \in Nat \ {0}
        /\ cut.fixed = 0 =>
            /\ pieceLength' \in MinPieceLength .. MaxPieceLength
            /\ pieceLength' < MaxPieceLength =>
                  Numbers!calculate_piece_count(pieceLength', cut.content) <= MaxPieceCount + 1
            /\ pieceLength' > MinPieceLength => (pieceLength' \div 2) * MaxPieceCount < cut.content
    BY <1>1, <1>3, LengthFits
  <1>5. Numbers!PieceCountFits'
    BY <1>1, <1>4 DEF Numbers!PieceCountFits, Numbers!calculate_piece_count
  <1>6. FirstWanted' \in Nat /\ ListedCount' = 0
    <2>1. FirstWanted' \in Nat
      <3>1. CASE Numbers!Ranged
        <4>1. cut.range.start \in Nat
          BY <1>2, <3>1, CutTypes
        <4>2. cut.range.start \div pieceLength' \in Nat
          BY <1>4, <4>1, Quotient
        <4> QED BY <1>1, <3>1, <4>2 DEF FirstWanted, Numbers!Ranged
      <3> QED BY <1>1, <3>1 DEF FirstWanted, Numbers!Ranged
    <2>2. ListedCount' = (IF 0 > FirstWanted' THEN 0 - FirstWanted' ELSE 0)
      BY <1>1, <1>2 DEF ListedCount
    <2>3. ~(0 > FirstWanted')
      BY ONLY <2>1
    <2> QED BY ONLY <2>1, <2>2, <2>3
  <1>7. PassedInv'
    BY <1>1, <1>2, <1>4 DEF PassedInv
  <1>8. CutInv'
    <2>1. 1 .. ListedCount' = {}
      BY <1>6
    <2>2. ASSUME NEW G(_) PROVE pieces' = [i \in 1 .. ListedCount' |-> G(i)]
      BY <1>1, <1>2, <2>1
    <2>3. Numbers!Ranged' <=> Numbers!Ranged
      BY <1>1 DEF Numbers!Ranged
    <2>4. CASE cut.content = 0
      BY <1>1, <1>2, <2>1, <2>4 DEF CutInv
    <2>5. CASE cut.content # 0 /\ Numbers!Ranged /\ cut.range.length = 0
      BY <1>1, <1>2, <1>3, <2>3, <2>5 DEF CutInv
    <2>6. CASE cut.content # 0 /\ ~(Numbers!Ranged /\ cut.range.length = 0)
      BY <1>1, <1>2, <1>3, <2>1, <2>3, <2>6 DEF CutInv
    <2> QED BY <2>4, <2>5, <2>6
  <1>9. MergedInv'
    <2>1. remaining = {}
      BY <1>1 DEF NumbersInv, MergedInv
    <2> QED BY <1>1, <1>2, <2>1 DEF MergedInv, Numbers!ToSet
  <1> QED BY <1>1, <1>2, <1>4, <1>5, <1>7, <1>8, <1>9 DEF NumbersInv

\* What a step of the loop leaves alone.
LEMMA LoopKeeps ==
  ASSUME NumbersInv, phase = "loop", UNCHANGED <<cut, pieceLength, round, merged, brought>>
  PROVE  /\ cut' \in Downloads /\ pieceLength' \in Nat \ {0} /\ round' \in 0 .. MaxRounds
         /\ merged' = {} /\ brought' = {}
         /\ phase' \in {"loop", "listed", "error"} => Numbers!PieceCountFits'
         /\ FirstWanted' = FirstWanted /\ FirstWanted \in Nat
         /\ Numbers!Ranged' = Numbers!Ranged /\ (Numbers!Ranged => Numbers!RangeEnd' = Numbers!RangeEnd)
  <1>1. FirstWanted \in Nat
    BY FirstWantedType DEF NumbersInv
  <1>2. merged = {} /\ brought = {}
    BY DEF NumbersInv, MergedInv
  <1>3. phase' \in {"loop", "listed", "error"} => Numbers!PieceCountFits'
    BY DEF NumbersInv, Numbers!PieceCountFits
  <1> QED BY <1>1, <1>2, <1>3 DEF NumbersInv, FirstWanted, Numbers!Ranged, Numbers!RangeEnd

\* The loop is within the content and before the end of the range: the piece is listed
\* unless it is before the first that is wanted.
LEMMA ListPieceStep ==
  ASSUME NumbersInv, Numbers!ListPiece
  PROVE  NumbersInv'
  <1> DEFINE F == FirstWanted
             l == pieceLength
             C == ListedCount
  <1>1. /\ phase = "loop" /\ offset < cut.content
        /\ Numbers!Ranged => offset < Numbers!RangeEnd
        /\ pieces' = (IF ~Numbers!Ranged \/ offset + l > cut.range.start
                      THEN Append(pieces, [number |-> number, offset |-> offset, length |-> l]) ELSE pieces)
        /\ offset' = (number + 1) * l /\ number' = number + 1
        /\ UNCHANGED <<cut, phase, pieceLength, round, merged, remaining, brought>>
    BY DEF Numbers!ListPiece, Numbers!roundVars
  <1>2. /\ cut' \in Downloads /\ pieceLength' \in Nat \ {0} /\ round' \in 0 .. MaxRounds
        /\ merged' = {} /\ brought' = {} /\ Numbers!PieceCountFits'
        /\ FirstWanted' = F /\ F \in Nat
        /\ Numbers!Ranged' = Numbers!Ranged /\ (Numbers!Ranged => Numbers!RangeEnd' = Numbers!RangeEnd)
    BY <1>1, LoopKeeps
  <1>3. /\ cut \in Downloads /\ number \in Nat /\ l \in Nat \ {0} /\ offset = number * l /\ remaining = {}
        /\ cut.content > 0 /\ (Numbers!Ranged => cut.range.length > 0)
        /\ pieces = [i \in 1 .. C |-> [number |-> F + i - 1, offset |-> (F + i - 1) * l, length |-> l]]
    BY <1>1 DEF NumbersInv, PassedInv, CutInv, MergedInv
  <1>4. /\ C = (IF number > F THEN number - F ELSE 0)
        /\ ListedCount' = (IF number' > F THEN number' - F ELSE 0)
    BY <1>2 DEF ListedCount
  <1>5. (~Numbers!Ranged \/ offset + l > cut.range.start) <=> number >= F
    <2>1. CASE Numbers!Ranged
      <3>1. cut.range.start \in Nat
        BY <1>3, <2>1, CutTypes
      <3>2. number * l + l > cut.range.start <=> number >= cut.range.start \div l
        BY <1>3, <3>1, EndsBehind
      <3> QED BY <1>3, <2>1, <3>2 DEF FirstWanted
    <2>2. CASE ~Numbers!Ranged
      BY <1>3, <2>2 DEF FirstWanted
    <2> QED BY <2>1, <2>2
  <1> HIDE DEF F, C
  <1>6. pieces' = [i \in 1 .. ListedCount' |-> [number |-> F + i - 1, offset |-> (F + i - 1) * l, length |-> l]]
    <2>1. CASE number >= F
      <3>1. C = number - F /\ ListedCount' = C + 1 /\ C \in Nat /\ number = F + (C + 1) - 1
        BY ONLY <1>1, <1>2, <1>3, <1>4, <2>1
      <3>2. Len(pieces) = C
        BY ONLY <1>3, <3>1
      <3>3. pieces' = Append(pieces, [number |-> number, offset |-> number * l, length |-> l])
        BY <1>1, <1>3, <1>5, <2>1
      <3>4. pieces' = [i \in 1 .. C + 1 |->
                         IF i = C + 1 THEN [number |-> number, offset |-> number * l, length |-> l] ELSE pieces[i]]
        <4> DEFINE R == [number : Nat, offset : Nat, length : Nat]
                   r == [number |-> number, offset |-> number * l, length |-> l]
        <4>1. pieces \in Seq(R)
          <5>1. ASSUME NEW i \in 1 .. C
                PROVE  [number |-> F + i - 1, offset |-> (F + i - 1) * l, length |-> l] \in R
            <6>1. F + i - 1 \in Nat
              BY ONLY <1>2, <3>1, i \in 1 .. C
            <6> QED BY ONLY <1>3, <6>1
          <5> HIDE DEF R
          <5>2. pieces \in [1 .. C -> R]
            BY ONLY <1>3, <5>1
          <5> QED BY ONLY <3>1, <5>2
        <4>2. r \in R
          BY ONLY <1>3
        <4> HIDE DEF R, r
        <4>3. Append(pieces, r) = [i \in 1 .. C + 1 |-> IF i = C + 1 THEN r ELSE pieces[i]]
          <5> DEFINE t == Append(pieces, r)
          <5>1. t \in Seq(R) /\ Len(t) = C + 1
            BY ONLY <3>1, <3>2, <4>1, <4>2
          <5>2. ASSUME NEW i \in 1 .. C + 1 PROVE t[i] = IF i = C + 1 THEN r ELSE pieces[i]
            BY ONLY <3>1, <3>2, <4>1, <4>2, i \in 1 .. C + 1
          <5> HIDE DEF t
          <5>3. t = [i \in 1 .. C + 1 |-> t[i]]
            BY ONLY <5>1
          <5> QED BY ONLY <5>2, <5>3 DEF t
        <4> QED BY <3>3, <4>3 DEF r
      <3>5. \A i \in 1 .. C : pieces[i] = [number |-> F + i - 1, offset |-> (F + i - 1) * l, length |-> l]
        BY ONLY <1>3
      <3>6. \A i \in 1 .. C + 1 : i # C + 1 => i \in 1 .. C
        BY ONLY <3>1
      <3>7. ASSUME NEW i \in 1 .. C + 1
            PROVE  (IF i = C + 1 THEN [number |-> number, offset |-> number * l, length |-> l] ELSE pieces[i])
                   = [number |-> F + i - 1, offset |-> (F + i - 1) * l, length |-> l]
        BY ONLY <3>1, <3>5, <3>6, i \in 1 .. C + 1
      <3> QED BY ONLY <3>1, <3>4, <3>7
    <2>2. CASE number < F
      <3>1. ListedCount' = C
        BY ONLY <1>1, <1>2, <1>3, <1>4, <2>2
      <3>2. pieces' = pieces
        BY ONLY <1>1, <1>2, <1>3, <1>5, <2>2
      <3> QED BY ONLY <1>3, <3>1, <3>2
    <2> QED BY ONLY <1>2, <1>3, <2>1, <2>2
  <1>7. PassedInv'
    <2>1. number' - 1 = number /\ offset' = number' * pieceLength' /\ (number' - 1) * pieceLength' = offset
      BY <1>1, <1>3
    <2> QED BY <1>1, <1>2, <2>1 DEF PassedInv
  <1>8. CutInv'
    BY <1>1, <1>2, <1>3, <1>6 DEF CutInv
  <1>9. MergedInv'
    BY <1>1, <1>2, <1>3 DEF MergedInv
  <1> QED BY <1>1, <1>2, <1>3, <1>7, <1>8, <1>9 DEF NumbersInv

\* The list is complete: it holds the pieces up to the one at which the loop is, the
\* last of them with its own bytes.
LEMMA ListingEnds ==
  ASSUME NumbersInv, phase = "loop", phase' = "listed", remaining' = Numbers!ToSet(pieces'),
         UNCHANGED <<cut, pieceLength, number, offset, round, merged, brought>>,
         number > FirstWanted,
         offset >= cut.content \/ (Numbers!Ranged /\ offset >= Numbers!RangeEnd),
         pieces' = [i \in 1 .. ListedCount |->
                      [number |-> FirstWanted + i - 1, offset |-> (FirstWanted + i - 1) * pieceLength,
                       length |-> PieceBytes(FirstWanted + i - 1)]]
  PROVE  NumbersInv'
  <1>1. /\ cut' \in Downloads /\ pieceLength' \in Nat \ {0} /\ round' \in 0 .. MaxRounds
        /\ merged' = {} /\ brought' = {} /\ Numbers!PieceCountFits'
        /\ FirstWanted' = FirstWanted /\ FirstWanted \in Nat
        /\ Numbers!Ranged' = Numbers!Ranged /\ (Numbers!Ranged => Numbers!RangeEnd' = Numbers!RangeEnd)
    BY LoopKeeps
  <1>2. PassedInv'
    BY <1>1 DEF NumbersInv, PassedInv
  <1>3. ListedCount' = ListedCount /\ \A n : PieceBytes(n)' = PieceBytes(n)
    BY <1>1 DEF ListedCount, PieceBytes
  <1>4. cut.content > 0 /\ (Numbers!Ranged => cut.range.length > 0)
    BY DEF NumbersInv, CutInv
  <1>5. CutInv'
    BY <1>1, <1>3, <1>4 DEF CutInv, PieceBytes
  <1>6. MergedInv'
    BY <1>1 DEF MergedInv
  <1> QED BY <1>1, <1>2, <1>5, <1>6 DEF NumbersInv

\* The loop is behind the range and still within the content, so every piece is full.
LEMMA RangeEndsStep ==
  ASSUME NumbersInv, Numbers!RangeEnds
  PROVE  NumbersInv'
  <1> DEFINE F == FirstWanted
             l == pieceLength
             C == ListedCount
  <1>1. /\ phase = "loop" /\ offset < cut.content /\ Numbers!Ranged /\ offset >= Numbers!RangeEnd
        /\ phase' = "listed" /\ remaining' = Numbers!ToSet(pieces)
        /\ UNCHANGED <<cut, pieceLength, number, offset, pieces, round, merged, brought>>
    BY DEF Numbers!RangeEnds, Numbers!loopVars
  <1>2. /\ cut \in Downloads /\ number \in Nat /\ l \in Nat \ {0} /\ offset = number * l
        /\ cut.range.length > 0
        /\ pieces = [i \in 1 .. C |-> [number |-> F + i - 1, offset |-> (F + i - 1) * l, length |-> l]]
    BY <1>1 DEF NumbersInv, PassedInv, CutInv
  <1>3. cut.content \in Nat /\ cut.range.start \in Nat /\ cut.range.length \in Nat
    BY <1>1, <1>2, CutTypes
  <1>4. F \in Nat /\ C = (IF number > F THEN number - F ELSE 0) /\ F * l <= cut.range.start
    <2>1. F = cut.range.start \div l
      BY <1>1 DEF FirstWanted
    <2> QED BY <1>2, <1>3, <2>1, Quotient DEF ListedCount
  <1> HIDE DEF F, C
  <1>5. number > F
    <2>1. ASSUME number <= F PROVE FALSE
      <3>1. number * l <= F * l
        BY <1>2, <1>4, <2>1, TimesGrows
      <3>2. number * l \in Nat /\ F * l \in Nat
        BY <1>2, <1>4
      <3> QED BY <1>1, <1>2, <1>3, <1>4, <3>1, <3>2 DEF Numbers!RangeEnd
    <2> QED BY ONLY <1>2, <1>4, <2>1
  <1>6. ASSUME NEW i \in 1 .. C PROVE PieceBytes(F + i - 1) = l
    <2>1. F + i - 1 + 1 \in Nat /\ F + i - 1 + 1 <= number
      BY ONLY <1>2, <1>4, <1>5, i \in 1 .. C
    <2>2. (F + i - 1 + 1) * l <= number * l
      BY <1>2, <2>1, TimesGrows
    <2>3. (F + i - 1 + 1) * l \in Nat /\ number * l \in Nat
      BY ONLY <1>2, <2>1
    <2>4. (F + i - 1 + 1) * l <= cut.content
      BY ONLY <1>1, <1>2, <1>3, <2>2, <2>3
    <2> QED BY ONLY <2>4 DEF PieceBytes
  <1>7. pieces' = [i \in 1 .. C |-> [number |-> F + i - 1, offset |-> (F + i - 1) * l, length |-> PieceBytes(F + i - 1)]]
    BY ONLY <1>1, <1>2, <1>6
  <1> QED BY <1>1, <1>5, <1>7, ListingEnds DEF F, C

\* The loop is behind the content: the last piece is cut, or there is none.
LEMMA ContentEndsStep ==
  ASSUME NumbersInv, Numbers!ContentEnds
  PROVE  NumbersInv'
  <1> DEFINE F == FirstWanted
             l == pieceLength
             C == ListedCount
             c == cut.content
  <1>1. /\ phase = "loop" /\ offset >= c
        /\ UNCHANGED <<cut, pieceLength, number, offset, round, merged, brought>>
        /\ IF pieces = <<>>
           THEN phase' = "error" /\ UNCHANGED <<pieces, remaining>>
           ELSE /\ phase' = "listed"
                /\ pieces' = [pieces EXCEPT ![Len(pieces)].length = l + c - offset]
                /\ remaining' = Numbers!ToSet(pieces')
    BY DEF Numbers!ContentEnds
  <1>2. /\ cut \in Downloads /\ number \in Nat /\ l \in Nat \ {0} /\ offset = number * l /\ c > 0
        /\ number > 0 => (number - 1) * l < c
        /\ pieces = [i \in 1 .. C |-> [number |-> F + i - 1, offset |-> (F + i - 1) * l, length |-> l]]
        /\ PassedInv /\ remaining = {}
    BY <1>1 DEF NumbersInv, PassedInv, CutInv, MergedInv
  <1>3. /\ cut' \in Downloads /\ pieceLength' \in Nat \ {0} /\ round' \in 0 .. MaxRounds
        /\ merged' = {} /\ brought' = {} /\ (phase' \in {"loop", "listed", "error"} => Numbers!PieceCountFits')
        /\ FirstWanted' = F /\ F \in Nat
        /\ Numbers!Ranged' = Numbers!Ranged /\ (Numbers!Ranged => Numbers!RangeEnd' = Numbers!RangeEnd)
    BY <1>1, LoopKeeps
  <1>4. c \in Nat /\ C = (IF number > F THEN number - F ELSE 0)
    BY <1>2, CutTypes DEF ListedCount
  <1>5. ~Numbers!Ranged => F = 0
    BY DEF FirstWanted
  <1> HIDE DEF F, C, c
  <1>6. CASE pieces = <<>>
    <2>1. C = 0
      <3>1. C \in Nat
        BY ONLY <1>2, <1>3, <1>4
      <3>2. Len(pieces) = C
        BY ONLY <1>2, <3>1
      <3> QED BY ONLY <1>6, <3>2
    <2>2. number <= F
      BY ONLY <1>2, <1>3, <1>4, <2>1
    <2>3. Numbers!Ranged
      <3> SUFFICES ASSUME ~Numbers!Ranged PROVE FALSE
        OBVIOUS
      <3>1. number = 0
        BY ONLY <1>2, <1>5, <2>2, ~Numbers!Ranged
      <3> QED BY ONLY <1>1, <1>2, <1>4, <3>1
    <2>4. phase' = "error" /\ pieces' = <<>> /\ remaining' = {}
      BY <1>1, <1>2, <1>6
    <2>5. CutInv'
      BY <1>1, <1>2, <1>3, <2>2, <2>3, <2>4 DEF CutInv, c
    <2>6. PassedInv'
      BY <1>1, <1>2, <1>3 DEF PassedInv
    <2>7. MergedInv'
      BY <1>3, <2>4 DEF MergedInv
    <2> QED BY <1>1, <1>2, <1>3, <2>4, <2>5, <2>6, <2>7 DEF NumbersInv
  <1>7. CASE pieces # <<>>
    <2>1. C > 0 /\ C \in Nat
      <3>1. C \in Nat
        BY ONLY <1>2, <1>3, <1>4
      <3>2. C # 0
        BY ONLY <1>2, <1>7
      <3> QED BY ONLY <3>1, <3>2
    <2>2. number > F /\ C = number - F /\ number = F + C
      BY ONLY <1>2, <1>3, <1>4, <2>1
    <2>3. Len(pieces) = C
      BY ONLY <1>2, <2>1
    <2>4. ASSUME NEW i \in 1 .. C, i # C PROVE PieceBytes(F + i - 1) = l
      <3>1. F + i - 1 + 1 \in Nat /\ F + i - 1 + 1 <= number - 1 /\ number - 1 \in Nat /\ number > 0
        BY ONLY <1>2, <1>3, <2>2, i \in 1 .. C, i # C
      <3>2. (F + i - 1 + 1) * l <= (number - 1) * l
        BY <1>2, <3>1, TimesGrows
      <3>3. (F + i - 1 + 1) * l \in Nat /\ (number - 1) * l \in Nat
        BY ONLY <1>2, <3>1
      <3>4. (F + i - 1 + 1) * l <= c
        BY ONLY <1>2, <1>4, <3>1, <3>2, <3>3
      <3> QED BY ONLY <3>4 DEF PieceBytes, c
    <2>5. PieceBytes(F + C - 1) = l + c - offset
      <3>1. F + C - 1 + 1 = number /\ F + C - 1 = number - 1
        BY ONLY <1>2, <1>3, <2>1, <2>2
      <3>2. (number - 1) * l = number * l - l /\ number * l \in Nat
        BY ONLY <1>2
      <3>3. PieceBytes(F + C - 1) = IF number * l <= c THEN l ELSE c - (number - 1) * l
        BY ONLY <3>1 DEF PieceBytes, c
      <3> QED BY ONLY <1>1, <1>2, <1>4, <3>2, <3>3
    <2>6. pieces' = [i \in 1 .. C |-> [number |-> F + i - 1, offset |-> (F + i - 1) * l, length |-> PieceBytes(F + i - 1)]]
      <3>1. pieces' = [pieces EXCEPT ![C].length = PieceBytes(F + C - 1)]
        BY <1>1, <1>7, <2>3, <2>5
      <3>2. C \in 1 .. C
        BY ONLY <2>1
      <3>3. ASSUME NEW i \in 1 .. C
            PROVE  pieces'[i] = [number |-> F + i - 1, offset |-> (F + i - 1) * l, length |-> PieceBytes(F + i - 1)]
        <4>1. CASE i = C
          BY ONLY <1>2, <3>1, <3>2, <4>1
        <4>2. CASE i # C
          BY ONLY <1>2, <2>4, <3>1, <4>2, i \in 1 .. C
        <4> QED BY ONLY <4>1, <4>2
      <3>4. pieces' = [i \in 1 .. C |-> pieces'[i]]
        BY ONLY <1>2, <3>1
      <3> QED BY ONLY <3>3, <3>4
    <2>7. phase' = "listed" /\ remaining' = Numbers!ToSet(pieces')
      BY <1>1, <1>7
    <2> QED BY <1>1, <2>2, <2>6, <2>7, ListingEnds DEF F, C, c
  <1> QED BY <1>6, <1>7

\* A round adds one entry for each of the pieces that it brought, which were among
\* those that remained.
LEMMA RoundStep ==
  ASSUME NumbersInv, Numbers!RoundEnds
  PROVE  NumbersInv'
  <1> DEFINE All == Numbers!ToSet(pieces)
  <1>1. PICK N \in SUBSET {p.number : p \in remaining} :
          /\ merged' = Numbers!merge_finished_pieces(merged, [number : N, round : {round'}])
          /\ brought' = brought \cup N
    BY DEF Numbers!RoundEnds
  <1>2. /\ phase = "listed" /\ round < MaxRounds /\ round' = round + 1
        /\ remaining' = Numbers!remove_finished_from_interested(merged', All)
        /\ UNCHANGED <<cut, phase, pieceLength, number, offset, pieces>>
    BY DEF Numbers!RoundEnds, Numbers!loopVars
  <1>3. round' \in 0 .. MaxRounds
    BY <1>2, NumbersAssumption DEF NumbersInv
  <1>4. /\ \A f, g \in merged : f.number = g.number => f = g
        /\ brought = {f.number : f \in merged}
        /\ brought \subseteq {p.number : p \in All}
        /\ remaining = {p \in All : p.number \notin brought}
        /\ \A f \in merged : f.number \in Nat /\ f.round \in 0 .. MaxRounds
    BY <1>2 DEF NumbersInv, MergedInv
  <1>5. \A p \in All : p.number \in Nat
    BY <1>2, ListedFacts
  <1> DEFINE more == [number : N, round : {round'}]
  <1>6. N \cap brought = {} /\ N \subseteq {p.number : p \in All} /\ N \subseteq Nat
    <2> HIDE DEF All
    <2> QED BY <1>4, <1>5
  <1>7. merged' = merged \cup more
    <2>1. \A f \in more : f.number \in N
      OBVIOUS
    <2>2. \A f \in more : \A g \in merged : g.number # f.number
      BY <1>4, <1>6, <2>1
    <2> QED BY <1>1, <2>2 DEF Numbers!merge_finished_pieces
  <1>8. \A f, g \in merged' : f.number = g.number => f = g
    <2>1. \A f, g \in more : f.number = g.number => f = g
      OBVIOUS
    <2>2. \A f \in more : f.number \in N
      OBVIOUS
    <2> HIDE DEF more
    <2> QED BY <1>4, <1>6, <1>7, <2>1, <2>2
  <1>9. brought' = {f.number : f \in merged'}
    <2>1. N = {f.number : f \in more}
      <3>1. ASSUME NEW n \in N PROVE n \in {f.number : f \in more}
        <4>1. [number |-> n, round |-> round'] \in more
          OBVIOUS
        <4> QED BY <4>1
      <3> QED BY <3>1
    <2> HIDE DEF more
    <2> QED BY <1>1, <1>4, <1>7, <2>1
  <1>10. \A f \in merged' : f.number \in Nat /\ f.round \in 0 .. MaxRounds
    <2>1. \A f \in more : f.number \in Nat /\ f.round \in 0 .. MaxRounds
      BY <1>3, <1>6
    <2> HIDE DEF more
    <2> QED BY <1>4, <1>7, <2>1
  <1>11. brought' \subseteq {p.number : p \in All}
    BY <1>1, <1>4, <1>6
  <1>12. remaining' = {p \in All : p.number \notin brought'}
    <2> HIDE DEF All
    <2> QED BY <1>2, <1>9 DEF Numbers!remove_finished_from_interested
  <1>13. MergedInv'
    BY <1>2, <1>8, <1>9, <1>11, <1>12 DEF MergedInv
  <1>14. CutInv' /\ PassedInv' /\ Numbers!PieceCountFits'
    BY <1>2 DEF NumbersInv, CutInv, PassedInv, FirstWanted, ListedCount, PieceBytes, Numbers!PieceCountFits,
       Numbers!Ranged, Numbers!RangeEnd
  <1> QED BY <1>2, <1>3, <1>10, <1>13, <1>14 DEF NumbersInv

LEMMA NumbersNext ==
  ASSUME NumbersInv, Numbers!Next
  PROVE  NumbersInv'
  BY StartStep, ListPieceStep, RangeEndsStep, ContentEndsStep, RoundStep DEF Numbers!Next,
     Numbers!calculate_interested

-----------------------------------------------------------------------------
(* The theorems.                                                              *)

\* A step is one of a part, or leaves it alone.
LEMMA PartSteps ==
  ASSUME [MCNext]_allVars
  PROVE  /\ Exchange!Next \/ UNCHANGED exchangeVars
         /\ Selectors!Next \/ UNCHANGED selectorVars
         /\ Numbers!Next \/ UNCHANGED numberVars
  BY Zenon DEF MCNext, allVars

LEMMA ExchangeAlways == MCSpec => []ExchangeInv
  <1>1. MCInit => ExchangeInv
    BY ExchangeInit DEF MCInit
  <1>2. ExchangeInv /\ [MCNext]_allVars => ExchangeInv'
    BY ExchangeNext, ExchangeStutter, PartSteps
  <1> QED BY <1>1, <1>2, PTL DEF MCSpec

LEMMA SelectorAlways == MCSpec => []SelectorInv
  <1>1. MCInit => SelectorInv
    BY SelectorInit DEF MCInit
  <1>2. SelectorInv /\ [MCNext]_allVars => SelectorInv'
    BY SelectorNext, SelectorStutter, PartSteps
  <1> QED BY <1>1, <1>2, PTL DEF MCSpec

\* PieceExchange, ParentSelector: for any parents and pieces, a piece that a parent
\* reported is not lost between the timers, the sync tasks and the channel while the
\* downloader receives, and for any calls that share hosts, a host has at most one
\* stream that nobody has told to stop.
THEOREM SourcesAlwaysSafe == MCSpec => []SourcesSafe
  <1>1. ExchangeInv /\ SelectorInv => SourcesSafe
    BY ExchangeGood, SelectorGood DEF SourcesSafe
  <1> QED BY <1>1, ExchangeAlways, SelectorAlways, PTL

\* PieceNumbers: for any lengths, limits and ranges, the pieces that are listed are
\* those that share a byte with the range, each with its own bytes of the content; the
\* piece length that is calculated keeps their number to the limit or one above it,
\* unless it is the longest, and half of it would be too short; and over any rounds the
\* number of finished pieces is that of the listed ones exactly when each was brought
\* and none remains.
THEOREM PiecesAlwaysExact == MCSpec => []PiecesExact
  <1>1. MCInit => NumbersInv
    BY NumbersInit DEF MCInit
  <1>2. NumbersInv /\ [MCNext]_allVars => NumbersInv'
    BY NumbersNext, NumbersStutter, PartSteps
  <1>3. NumbersInv => PiecesExact
    BY NumbersGood DEF PiecesExact
  <1> QED BY <1>1, <1>2, <1>3, PTL DEF MCSpec
=============================================================================
