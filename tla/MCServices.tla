------------------------------ MODULE MCServices ------------------------------
(* The services around the download of a task, side by side: a behaviour is    *)
(* one of a request to the proxy (Proxy), of a collection of pieces from       *)
(* parents (PieceExchange), of the calls that share the parent selector        *)
(* (ParentSelector), of the cache tasks (PieceCache), of the list of           *)
(* schedulers and the announcer (Schedulers), of the process (Daemon), of the  *)
(* limiter of the gRPC servers (AdaptiveLimiter), of the division of a task    *)
(* into pieces (PieceNumbers) or of a program that exports files               *)
(* (ExportClients); the parts that it is not about stay as they start.         *)
EXTENDS Proxy, TLC

CONSTANTS
    Hosts, Pieces, Rounds, Buffered,                             \* PieceExchange
    Calls, Selections, MaxParents,                               \* ParentSelector
    Tasks, Jobs, CacheCapacity,                                  \* PieceCache
    Listing, Cluster, Callers, Announcer, MaxRefreshes,          \* Schedulers
    Processes, MaxClients,                                       \* Daemon
    Limited, MaxCalls, BucketCount, Scale, Times,                \* AdaptiveLimiter
    MinPieceLength, MaxPieceLength, MaxPieceCount, Downloads,    \* PieceNumbers
    MaxRounds, MaxMerged,
    Files, Dirs, ParentOf, Exports, MaxConcurrent, MaxFiles, MaxMessages, \* ExportClients
    None,
    c1, c2, c3, h1, h2, t1, t2, t3, s1, s2, f1, f2, f3, dir      \* what the values below are made of

ASSUME ProxyAssumption == Lengths \subseteq Nat /\ OutSize \in Nat /\ BodySize \in Nat
ASSUME ExchangeAssumption ==
    /\ Pieces \subseteq Nat /\ Buffered \in Nat \ {0}
    /\ \A r \in Rounds :
        /\ r.kind \in {"task", "persistent", "persistent_cache"}
        /\ r.task \in [Hosts -> {"none", "running", "failed", "finished"}]
        /\ r.record \in [Hosts -> [Pieces -> {"none", "started", "finished"}]]

\* No call has more parents than MaxParents; several may be on one host.
ASSUME SelectorAssumption ==
    /\ MaxParents \in Nat /\ None \notin Calls \X Hosts \X (1 .. MaxParents)
    /\ \A u \in Selections :
        /\ u.selector \in {"task", "persistent", "persistent_cache"}
        /\ u.parents \in [Calls -> Seq(Hosts)]
        /\ \A c \in Calls : Len(u.parents[c]) <= MaxParents

ASSUME CacheAssumption ==
    /\ IsFiniteSet(Calls) /\ CacheCapacity \in Nat /\ None \notin Tasks
    /\ \A n \in 1 .. CacheCapacity, x \in {"none", "good", "bad"} : [length |-> n, content |-> x] # None
    /\ Jobs \subseteq [Calls -> [kind : {"download", "upload", "delete"}, task : Tasks, length : Nat,
                              from : {"source", "parent", "undigested"}]]

ASSUME ProcessesAssumption ==
    UNION Processes = {"health", "stats", "metrics", "dynconfig", "gc", "tcp", "quic", "urma", "upload", "download",
                       "proxy", "announcer"}
ASSUME MaxClientsAssumption == MaxClients \in Nat

ASSUME LimiterAssumption ==
    IsFiniteSet(Limited) /\ MaxCalls \in Nat /\ BucketCount \in Nat \ {0} /\ Times \subseteq Nat

\* The shortest piece has more bytes than a task should have pieces: 4 MiB and 500.
ASSUME NumbersAssumption ==
    /\ MinPieceLength \in Nat \ {0} /\ MaxPieceLength \in Nat /\ MinPieceLength <= MaxPieceLength
    /\ MaxPieceCount \in Nat \ {0} /\ MaxPieceCount <= MinPieceLength + 1
    /\ MaxRounds \in Nat
    /\ \A d \in Downloads :
        /\ d.content \in Nat /\ d.fixed \in Nat
        /\ d.range # None => d.range.start \in Nat /\ d.range.length \in Nat

ASSUME AnnouncerAssumption == Announcer \notin Callers /\ MaxRefreshes \in Nat

\* Only dfget lists a directory.
ASSUME ExportAssumption ==
    /\ IsFiniteSet(Pieces) /\ MaxMessages \in Nat
    /\ Files \cap Dirs = {} /\ ParentOf \in [Files -> Dirs \cup {None}]
    /\ Exports \subseteq [program : {"dfget", "dfcache", "dfstore"}, directory : BOOLEAN, transfer : BOOLEAN,
                         repeats : BOOLEAN, cuts : BOOLEAN]
    /\ \A e \in Exports : e.program # "dfget" => ~e.directory

VARIABLES
    part,
    kind, task, record, inflight, srv, marked, want, subs, woken, unread, net, live, pending, by, timer, sync,
    hold, overdue, coord, chan, got, receiver, lost, faulty,
    selector, parents, place, index, lock, connections, active, signalled, stream, weights, down, deaf,
    counted, orphans, missed,
    job, list, held, size, records, piece, owner, at, recent, arrived, dropped, spoiled,
    backend, refreshes, data, schedulers, addrs, ring, channels, copy, target, updating, mixed, knows, leaving,
    calls, stopping, left, untold,
    running, process, service, exiting, late, gate, clients, announced, undeleted,
    limited, begun, in_flight, is_overloaded, cooling, window, current, elapsed, passed, overwritten,
    cut, phase, pieceLength, number, offset, pieces, round, merged, remaining, brought,
    command, main, entries, listed, dirs, fetch, given, output

\* A request of every kind: with and without a tunnel, the credentials, a rule,
\* the header of the request, and the prefetch of a range.
Request(connect, mirror, auth, get, rule, p2p, https, prefetched) ==
    [connect |-> connect, mirror |-> mirror, auth |-> auth, get |-> get, rule |-> rule, p2p |-> p2p,
     https |-> https, prefetch |-> prefetched]

ProxyRequests ==
    {Request(FALSE, FALSE, "ok", TRUE, TRUE, FALSE, FALSE, TRUE),
     Request(TRUE, FALSE, "ok", TRUE, FALSE, TRUE, TRUE, FALSE),
     Request(FALSE, TRUE, "wrong", TRUE, TRUE, FALSE, FALSE, FALSE),
     Request(TRUE, FALSE, "wrong", TRUE, FALSE, FALSE, TRUE, FALSE),
     Request(TRUE, TRUE, "malformed", TRUE, TRUE, TRUE, TRUE, FALSE),
     Request(TRUE, TRUE, "ok", FALSE, TRUE, TRUE, TRUE, FALSE),
     Request(FALSE, TRUE, "ok", TRUE, FALSE, FALSE, FALSE, FALSE)}

\* Two parents of which one is ahead, for each of the three copies of the code.
Round(k, r1, p1, r2, p2) ==
    [kind |-> k, task |-> (h1 :> r1) @@ (h2 :> r2), record |-> (h1 :> p1) @@ (h2 :> p2)]

ExchangeRounds ==
    {Round("task", "running", <<"finished", "started">>, "finished", <<"finished", "none">>),
     Round("persistent", "running", <<"started", "none">>, "failed", <<"finished", "none">>),
     Round("persistent_cache", "finished", <<"finished", "finished">>, "finished", <<"none", "started">>)}

PerCall(x, y, z) == (c1 :> x) @@ (c2 :> y) @@ (c3 :> z)

\* Three calls that share one parent; calls with two parents, on one host or on two,
\* and with one.
SelectorSetups ==
    {[selector |-> "task", parents |-> PerCall(<<h1>>, <<h1>>, <<h1>>)],
     [selector |-> "persistent", parents |-> PerCall(<<h1, h2>>, <<h1>>, <<>>)],
     [selector |-> "persistent_cache", parents |-> PerCall(<<h1, h1>>, <<h1>>, <<>>)]}

\* Downloads that fill the cache, evict, and do not fit; a download, an upload and
\* a deletion; downloads of one piece from parents next to a deletion.
Job(k, t, n, f) == [kind |-> k, task |-> t, length |-> n, from |-> f]
CacheJobs ==
    {PerCall(Job("download", t1, 1, "source"), Job("download", t2, 1, "source"), Job("download", t3, 3, "source")),
     PerCall(Job("download", t1, 1, "source"), Job("upload", t1, 1, "source"), Job("delete", t1, 1, "source")),
     PerCall(Job("download", t1, 2, "parent"), Job("download", t1, 2, "undigested"), Job("delete", t1, 2, "source")),
     PerCall(Job("download", t1, 0, "source"), Job("download", t2, 4, "source"), Job("upload", t1, 0, "source"))}

\* Services that need each other, each with the process around it.
DaemonSetups ==
    {{"announcer", "upload", "download", "proxy"},
     {"health", "dynconfig", "gc", "urma"},
     {"stats", "metrics", "tcp", "quic"}}

\* Contents below, at and above the lengths where the piece length changes; ranges
\* that start and end inside, at the borders of and behind pieces.
CutDownloads ==
    [content : 0 .. 28, fixed : {0, 3},
     range : [start : {0, 3, 4, 5, 17}, length : {0, 1, 4, 9}] \cup {None}]

\* The three programs, each with a file that the daemon writes and with one that the
\* program writes, dfget with a directory. The daemon repeats pieces for the ones whose
\* download may fall back on a source.
Export(program, directory, writes, repeats, cuts) ==
    [program |-> program, directory |-> directory, transfer |-> writes, repeats |-> repeats, cuts |-> cuts]
ExportSetups ==
    {Export("dfget", TRUE, TRUE, TRUE, TRUE), Export("dfget", FALSE, FALSE, TRUE, TRUE),
     Export("dfcache", FALSE, TRUE, FALSE, TRUE), Export("dfcache", FALSE, FALSE, FALSE, TRUE),
     Export("dfstore", FALSE, TRUE, TRUE, FALSE), Export("dfstore", FALSE, FALSE, TRUE, FALSE),
     Export("dfstore", FALSE, TRUE, TRUE, TRUE)}

ScheduledListing == <<s1, s2>>
ScheduledClusters == (s1 :> 1) @@ (s2 :> 2)
ExportParents == (f1 :> None) @@ (f2 :> dir) @@ (f3 :> dir)

Exchange == INSTANCE PieceExchange
    WITH Parents <- Hosts, Capacity <- Buffered, finished <- marked, late <- overdue, down <- receiver
Selectors == INSTANCE ParentSelector WITH Callers <- Calls, Setups <- Selections
Cache == INSTANCE PieceCache WITH Capacity <- CacheCapacity, Nil <- None
Sched == INSTANCE Schedulers
    WITH Nobody <- None, at <- calls, down <- stopping, todo <- left, missed <- untold
Process == INSTANCE Daemon
    WITH Setups <- Processes, place <- service, down <- exiting, deaf <- late, arrived <- gate
Limiter == INSTANCE AdaptiveLimiter
    WITH Requests <- Limited, request <- limited, calls <- begun, ring <- window
Numbers == INSTANCE PieceNumbers
    WITH NoRange <- None, download <- cut, length <- pieceLength, finished <- merged
Exporter == INSTANCE ExportClients WITH Base <- None, Setups <- Exports

exchangeVars == <<kind, task, record, inflight, srv, marked, want, subs, woken, unread, net, live, pending, by,
                  timer, sync, hold, overdue, coord, chan, got, receiver, lost, faulty>>
selectorVars == <<selector, parents, place, index, lock, connections, active, signalled, stream, weights, down,
                  deaf, counted, orphans, missed>>
cacheVars == <<job, list, held, size, records, piece, owner, at, recent, arrived, dropped, spoiled>>
schedVars == <<backend, refreshes, data, schedulers, addrs, ring, channels, calls, copy, target, updating,
               mixed, stopping, left, knows, leaving, untold>>
processVars == <<running, process, service, exiting, late, gate, clients, announced, undeleted>>
limiterVars == <<limited, begun, in_flight, is_overloaded, cooling, window, current, elapsed, passed, overwritten>>
numberVars == <<cut, phase, pieceLength, number, offset, pieces, round, merged, remaining, brought>>
exportVars == <<command, main, entries, listed, dirs, fetch, given, output>>
allVars == <<part, vars, exchangeVars, selectorVars, cacheVars, schedVars, processVars, limiterVars, numberVars,
             exportVars>>

MCInit ==
    /\ part \in {"proxy", "exchange", "selector", "cache", "schedulers", "process", "limiter", "pieces", "export"}
    /\ Init /\ (part # "proxy" => length = 0 /\ request.prefetch)
    /\ Exchange!Init /\ (part # "exchange" => kind = "task")
    /\ Selectors!Init /\ (part # "selector" => selector = "task")
    /\ Cache!Init /\ (part # "cache" => \E c \in Calls : job[c].length = 0)
    /\ Sched!Init /\ (part # "schedulers" => backend = "local")
    /\ Process!Init /\ (part # "process" => "stats" \in running)
    /\ Limiter!Init /\ (part # "limiter" => ~is_overloaded)
    /\ Numbers!Init /\ (part # "pieces" => cut = [content |-> 0, fixed |-> 0, range |-> None])
    /\ Exporter!Init /\ (part # "export" => command.program = "dfcache" /\ command.transfer)

MCNext ==
    \/ /\ part = "proxy" /\ Next
       /\ UNCHANGED <<part, exchangeVars, selectorVars, cacheVars, schedVars, processVars, limiterVars, numberVars, exportVars>>
    \/ /\ part = "exchange" /\ Exchange!Next
       /\ UNCHANGED <<part, vars, selectorVars, cacheVars, schedVars, processVars, limiterVars, numberVars, exportVars>>
    \/ /\ part = "selector" /\ Selectors!Next
       /\ UNCHANGED <<part, vars, exchangeVars, cacheVars, schedVars, processVars, limiterVars, numberVars, exportVars>>
    \/ /\ part = "cache" /\ Cache!Next
       /\ UNCHANGED <<part, vars, exchangeVars, selectorVars, schedVars, processVars, limiterVars, numberVars, exportVars>>
    \/ /\ part = "schedulers" /\ Sched!Next
       /\ UNCHANGED <<part, vars, exchangeVars, selectorVars, cacheVars, processVars, limiterVars, numberVars, exportVars>>
    \/ /\ part = "process" /\ Process!Next
       /\ UNCHANGED <<part, vars, exchangeVars, selectorVars, cacheVars, schedVars, limiterVars, numberVars, exportVars>>
    \/ /\ part = "limiter" /\ Limiter!Next
       /\ UNCHANGED <<part, vars, exchangeVars, selectorVars, cacheVars, schedVars, processVars, numberVars, exportVars>>
    \/ /\ part = "pieces" /\ Numbers!Next
       /\ UNCHANGED <<part, vars, exchangeVars, selectorVars, cacheVars, schedVars, processVars, limiterVars, exportVars>>
    \/ /\ part = "export" /\ Exporter!Next
       /\ UNCHANGED <<part, vars, exchangeVars, selectorVars, cacheVars, schedVars, processVars, limiterVars,
                      numberVars>>

\* The runtime does not idle while a task of it can run; in a collection of pieces and
\* in the cache, where tasks poll and wait for each other, every task that can run
\* does. A client of the proxy that stays reads. select! picks its branch at random, so
\* the announcer cannot overlook the shutdown for ever. Of hosts, clients that come
\* and go, and the manager nothing is assumed.
Fairness ==
    /\ WF_vars(part = "proxy" /\ (Handler \/ Download \/ Pump \/ ClientReads))
    /\ \A h \in Hosts :
        /\ WF_exchangeVars(part = "exchange" /\ Exchange!Handler(h))
        /\ WF_exchangeVars(part = "exchange" /\ Exchange!Streaming(h))
    /\ \A n \in Pieces : WF_exchangeVars(part = "exchange" /\ Exchange!send_piece_after_timeout(n))
    /\ WF_exchangeVars(part = "exchange" /\ Exchange!Collect)
    /\ WF_exchangeVars(part = "exchange" /\ Exchange!Downloader)
    /\ WF_selectorVars(/\ part = "selector"
                       /\ \E c \in Calls :
                            Selectors!Caller(c) \/ \E k \in Selectors!Connections : Selectors!StreamStops(k))
    /\ \A c \in Calls : WF_cacheVars(part = "cache" /\ Cache!Call(c))
    /\ WF_schedVars(part = "schedulers" /\ Sched!Announce)
    /\ SF_schedVars(part = "schedulers" /\ Sched!delete_host)
    /\ WF_processVars(part = "process" /\ (Process!Main \/ (Process!Alive /\ Process!Run)))
    /\ WF_limiterVars(part = "limiter" /\ \E c \in Limited : Limiter!Request(c))
    /\ WF_numberVars(part = "pieces" /\ Numbers!Next)
    /\ WF_exportVars(part = "export" /\ Exporter!Next)

MCSpec == MCInit /\ [][MCNext]_allVars /\ Fairness

-----------------------------------------------------------------------------

\* Proxy, ExportClients: a response that ends without an error is whole and in order,
\* whatever the download does, and nobody without credentials reaches a download or a
\* server; a file or a directory that is reported as exported is whole.
ResponseSafe ==
    /\ part = "proxy" => TypeOK /\ BodyIsWhole /\ VerifiedBeforeUse
    /\ part = "export" => Exporter!TypeOK /\ Exporter!OutputIsWhole /\ Exporter!DirectoryIsWhole

\* PieceExchange, ParentSelector: a piece that a parent reported is not lost on its way
\* to the downloader, and a host has one stream that nobody has told to stop.
SourcesSafe ==
    /\ part = "exchange" => Exchange!TypeOK /\ Exchange!OffersKept
    /\ part = "selector" => Selectors!TypeOK /\ Selectors!OneLiveStream

\* PieceCache: the list is in the order of use and what is kept fits; a finished piece
\* was kept, and what is kept of it is what its digest says.
CacheSafe ==
    part = "cache" =>
        /\ Cache!TypeOK
        /\ Cache!UseOrder
        /\ Cache!HeldFits
        /\ Cache!FinishedWasCached
        /\ Cache!FinishedIsGood

\* Schedulers: ring and list agree and stay within one cluster, and the schedulers
\* that could be told forget a host that leaves.
SchedulersSafe ==
    part = "schedulers" => Sched!TypeOK /\ Sched!RingFollows /\ Sched!OneCluster /\ Sched!HostLeft

\* Daemon: nothing is served before both gRPC servers have bound their addresses, and a
\* process that has shut down in order has told the schedulers so, or could not.
ProcessSafe == part = "process" => Process!TypeOK /\ Process!ServingTogether /\ Process!OrderlyExit

\* AdaptiveLimiter: the calls in flight are counted exactly, and the window counts
\* every call that ended once.
LimiterExact == part = "limiter" => Limiter!TypeOK /\ Limiter!InFlightExact /\ Limiter!WindowCountsOnce

\* PieceNumbers: the pieces of a range are those that share a byte with it, their
\* number stays within its limit, and over all rounds it decides what is complete.
PiecesExact ==
    part = "pieces" =>
        Numbers!TypeOK /\ Numbers!ListedIsRange /\ Numbers!PieceCountFits /\ Numbers!CountDecides

\* The client of the proxy is answered, and what its request started ends; what a
\* parent holds reaches the downloader, and nothing but a silent stream holds up the
\* end of a collection; the streams of the parent selector end; every call of the
\* cache ends; the announcer ends after the shutdown, and so does the process; the
\* limiter answers every call, the pieces of every range are listed, and a program that
\* exports ends once its streams do.
ServicesEnd ==
    <>[](/\ part = "proxy" => RequestEnded
         /\ part = "exchange" => Exchange!CollectionSettled
         /\ part = "selector" => Selectors!StreamsEnded
         /\ part = "cache" => Cache!CallsEnded
         /\ part = "schedulers" => Sched!AnnouncerEnded
         /\ part = "process" => Process!ShutdownCompletes
         /\ part = "limiter" => Limiter!CallsAnswered
         /\ part = "pieces" => Numbers!Listed
         /\ part = "export" => Exporter!ProgramEnded)
=============================================================================
