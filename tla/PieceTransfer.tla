---------------------------- MODULE PieceTransfer ----------------------------
(* One piece from a parent over TCP or QUIC: the downloaders and their pool   *)
(* of clients (resource/piece_downloader.rs, util/pool), the clients          *)
(* (storage/client) and the handlers of the upload servers (storage/server).  *)
(* A TCP client connects anew for every request; a QUIC client is one         *)
(* connection, shared by its requests, which can close under all of them. The *)
(* code has three copies of every operation, for tasks, persistent tasks and  *)
(* persistent cache tasks.                                                    *)
EXTENDS Integers, FiniteSets

CONSTANTS
    Requests,     \* pieces asked of one parent at the same time
    Clients,      \* clients made for the parent, in the order they are made
    PieceLength,  \* of a piece, in chunks
    Setups,       \* a protocol, a kind of pieces and the requests that are made
    Closings,     \* bound on the connections that close
    None          \* no client

VARIABLES
    proto,        \* the protocol
    pieces,       \* the kind of the pieces
    pool,         \* the client in the pool, or None
    made,         \* clients made so far
    inflight,     \* client -> active_requests
    closed,       \* clients whose connection is closed
    at,           \* request -> where its download stands
    using,        \* request -> its client
    stale,        \* request -> the client it found closed and unused, or None
    handler,      \* request -> the server's handler of it
    answer,       \* request -> the head of the response on the wire
    sent,         \* request -> chunks on the wire
    eof,          \* requests whose response has ended
    got,          \* request -> chunks received
    counts        \* the upload metrics of the server

clientVars == <<at, using, stale, got>>
poolVars == <<pool, made, inflight, closed>>
serverVars == <<handler, answer, sent, eof, counts>>
vars == <<proto, pieces, poolVars, clientVars, serverVars>>

Ended == {"ok", "failed"}
Guarded == {"send", "header", "drop"}
Serving == {"metadata", "error", "respond", "content"}

TypeOK ==
    /\ proto \in {"tcp", "quic"}
    /\ pieces \in {"task", "persistent", "persistent_cache"}
    /\ pool \in Clients \cup {None}
    /\ made \in 0 .. Cardinality(Clients)
    /\ closed \subseteq Clients
    /\ at \in [Requests -> {"entry", "make", "check", "again", "remake", "guard", "body", "remove"}
                             \cup Guarded \cup Ended]
    /\ using \in [Requests -> Clients \cup {None}]
    /\ inflight = [k \in Clients |-> Cardinality({r \in Requests : using[r] = k /\ at[r] \in Guarded})]
    /\ stale \in [Requests -> Clients \cup {None}]
    /\ handler \in [Requests -> {"none", "header", "ended"} \cup Serving]
    /\ answer \in [Requests -> {"none", "content", "error"}]
    /\ sent \in [Requests -> 0 .. PieceLength]
    /\ eof \subseteq Requests
    /\ got \in [Requests -> 0 .. PieceLength]
    /\ counts \in [{"started", "finished", "failure"} -> 0 .. 2 * Cardinality(Requests)]

\* The pool of the chosen protocol is empty.
DownloaderFactory ==
    /\ pool = None
    /\ made = 0
    /\ inflight = [k \in Clients |-> 0]
    /\ closed = {}

Init ==
    /\ DownloaderFactory
    /\ \E u \in Setups :
        /\ proto = u.proto
        /\ pieces = u.pieces
        /\ at = [r \in Requests |-> IF r \in u.requests THEN "entry" ELSE "failed"]
    /\ using = [r \in Requests |-> None]
    /\ stale = [r \in Requests |-> None]
    /\ got = [r \in Requests |-> 0]
    /\ handler = [r \in Requests |-> "none"]
    /\ answer = [r \in Requests |-> "none"]
    /\ sent = [r \in Requests |-> 0]
    /\ eof = {}
    /\ counts = [c \in {"started", "finished", "failure"} |-> 0]

Goto(r, p) == at' = [at EXCEPT ![r] = p]

Use(r, k) == using' = [using EXCEPT ![r] = k]

Count(c) == counts' = [counts EXCEPT ![c] = @ + 1]

-----------------------------------------------------------------------------
(* The pool.                                                                  *)

Unused(k) == k # None /\ inflight[k] = 0

\* A new entry first sweeps the pool: the client goes if nobody uses it and it
\* was idle for too long or the pool is over its capacity. Then the client is
\* found, or made.
PoolEntry(r, found, missing) ==
    /\ \/ UNCHANGED pool
       \/ pool # None /\ Unused(pool) /\ pool' = None
    /\ IF pool' # None
       THEN Use(r, pool') /\ Goto(r, found)
       ELSE Use(r, None) /\ Goto(r, missing)

\* Of two calls that made a client the first one enters it, for both.
PoolInsert(r, found) ==
    /\ made < Cardinality(Clients)
    /\ made' = made + 1
    /\ pool' = IF pool = None THEN made + 1 ELSE pool
    /\ Use(r, pool')
    /\ Goto(r, found)

remove_entry == pool' = IF Unused(pool) THEN None ELSE pool

-----------------------------------------------------------------------------
(* The downloaders.                                                           *)

\* Whether the client is closed is only looked at over QUIC.
Found == IF proto = "quic" THEN "check" ELSE "guard"

entry(r) ==
    /\ \/ at[r] = "entry" /\ PoolEntry(r, Found, "make")
       \/ at[r] = "again" /\ PoolEntry(r, "guard", "remake")
    /\ UNCHANGED <<proto, pieces, made, inflight, closed, stale, got, serverVars>>

\* A QUIC client connects, or fails to; a TCP client is only an address.
make_client(r) ==
    /\ \/ at[r] = "make" /\ PoolInsert(r, Found)
       \/ at[r] = "remake" /\ PoolInsert(r, "guard")
    /\ UNCHANGED <<proto, pieces, inflight, closed, stale, got, serverVars>>

ConnectFails(r) ==
    /\ at[r] \in {"make", "remake"}
    /\ proto = "quic"
    /\ Goto(r, "failed")
    /\ UNCHANGED <<proto, pieces, poolVars, using, stale, got, serverVars>>

\* Mutant: a closed client is used like any other.
CheckNothing(r) ==
    /\ at[r] = "check"
    /\ Goto(r, "guard")
    /\ stale' = [stale EXCEPT ![r] = IF using[r] \in closed /\ Unused(using[r]) THEN using[r] ELSE @]
    /\ UNCHANGED <<proto, pieces, made, inflight, closed, using, got, serverVars, pool>>

\* A closed client is removed, unless others still use it, and asked for again.
CheckClosed(r) ==
    /\ at[r] = "check"
    /\ IF using[r] \in closed
       THEN /\ remove_entry
            /\ Goto(r, "again")
            /\ stale' = [stale EXCEPT ![r] = IF Unused(using[r]) THEN using[r] ELSE @]
       ELSE Goto(r, "guard") /\ UNCHANGED <<pool, stale>>
    /\ UNCHANGED <<proto, pieces, made, inflight, closed, using, got, serverVars>>

get_client_entry(r) == entry(r) \/ make_client(r) \/ ConnectFails(r) \/ CheckClosed(r)

request_guard(r) ==
    /\ at[r] = "guard"
    /\ inflight' = [inflight EXCEPT ![using[r]] = @ + 1]
    /\ Goto(r, "send")
    /\ UNCHANGED <<proto, pieces, pool, made, closed, using, stale, got, serverVars>>

Release(r) == inflight' = [inflight EXCEPT ![using[r]] = @ - 1]

\* A failed request gives its guard back before it removes the client.
DropGuard(r) ==
    /\ at[r] = "drop"
    /\ Release(r)
    /\ Goto(r, "remove")
    /\ UNCHANGED <<proto, pieces, pool, made, closed, using, stale, got, serverVars>>

remove_client_entry(r) ==
    /\ at[r] = "remove"
    /\ remove_entry
    /\ Goto(r, "failed")
    /\ UNCHANGED <<proto, pieces, made, inflight, closed, using, stale, got, serverVars>>

TCPDownloader(r) ==
    /\ proto = "tcp"
    /\ get_client_entry(r) \/ request_guard(r) \/ DropGuard(r) \/ remove_client_entry(r)

QUICDownloader(r) ==
    /\ proto = "quic"
    /\ get_client_entry(r) \/ request_guard(r) \/ DropGuard(r) \/ remove_client_entry(r)

-----------------------------------------------------------------------------
(* The clients.                                                               *)

Broken(r) == using[r] \in closed

\* The servers accept the connection, or the stream of it, and spawn a handler.
Accept(r) == handler' = [handler EXCEPT ![r] = "header"]

\* The request goes out on a connection or stream of its own.
send_request(r) ==
    /\ at[r] = "send"
    /\ ~Broken(r)
    /\ Goto(r, "header")
    /\ Accept(r)
    /\ UNCHANGED <<proto, pieces, poolVars, using, stale, got, answer, sent, eof, counts>>

\* Until the head of the response is in, everything is under one timeout.
RequestFails(r) ==
    /\ at[r] \in {"send", "header"}
    /\ Goto(r, "drop")
    /\ UNCHANGED <<proto, pieces, poolVars, using, stale, got, serverVars>>

\* Mutant: the guard of a request whose head is in is forgotten.
RecvKeepsGuard(r) ==
    /\ at[r] = "header"
    /\ ~Broken(r)
    /\ answer[r] = "content"
    /\ Goto(r, "body")
    /\ UNCHANGED <<proto, pieces, poolVars, using, stale, got, serverVars>>

\* The content is read from here on without the guard.
recv_piece_content(r) ==
    /\ at[r] = "header"
    /\ ~Broken(r)
    /\ answer[r] = "content"
    /\ Release(r)
    /\ Goto(r, "body")
    /\ UNCHANGED <<proto, pieces, pool, made, closed, using, stale, got, serverVars>>

recv_error(r) ==
    /\ at[r] = "header"
    /\ ~Broken(r)
    /\ answer[r] = "error"
    /\ Goto(r, "drop")
    /\ UNCHANGED <<proto, pieces, poolVars, using, stale, got, serverVars>>

\* The caller writes what arrives. A response that ends early looks like one that
\* ends: the length decides.
content_stream(r) ==
    /\ at[r] = "body"
    /\ ~Broken(r)
    /\ \/ /\ got[r] < sent[r]
          /\ got' = [got EXCEPT ![r] = @ + 1]
          /\ UNCHANGED at
       \/ /\ got[r] = sent[r]
          /\ r \in eof
          /\ Goto(r, IF got[r] = PieceLength THEN "ok" ELSE "failed")
          /\ UNCHANGED got
    /\ UNCHANGED <<proto, pieces, poolVars, using, stale, serverVars>>

StreamBreaks(r) ==
    /\ at[r] = "body"
    /\ Broken(r)
    /\ Goto(r, "failed")
    /\ UNCHANGED <<proto, pieces, poolVars, using, stale, got, serverVars>>

\* Only the pieces of tasks are written under a timeout.
BodyTimesOut(r) ==
    /\ at[r] = "body"
    /\ pieces = "task"
    /\ Goto(r, "failed")
    /\ UNCHANGED <<proto, pieces, poolVars, using, stale, got, serverVars>>

Receives(r) ==
    \/ recv_piece_content(r)
    \/ recv_error(r)
    \/ content_stream(r)
    \/ StreamBreaks(r)
    \/ BodyTimesOut(r)

Asks(r) == send_request(r) \/ RequestFails(r)

\* The operations of the two clients.
tcp_download_piece(r) == proto = "tcp" /\ pieces = "task" /\ (Asks(r) \/ Receives(r))
tcp_download_persistent_piece(r) == proto = "tcp" /\ pieces = "persistent" /\ (Asks(r) \/ Receives(r))
tcp_download_persistent_cache_piece(r) ==
    proto = "tcp" /\ pieces = "persistent_cache" /\ (Asks(r) \/ Receives(r))
quic_download_piece(r) == proto = "quic" /\ pieces = "task" /\ (Asks(r) \/ Receives(r))
quic_download_persistent_piece(r) == proto = "quic" /\ pieces = "persistent" /\ (Asks(r) \/ Receives(r))
quic_download_persistent_cache_piece(r) ==
    proto = "quic" /\ pieces = "persistent_cache" /\ (Asks(r) \/ Receives(r))

Client(r) ==
    \/ tcp_download_piece(r)
    \/ tcp_download_persistent_piece(r)
    \/ tcp_download_persistent_cache_piece(r)
    \/ quic_download_piece(r)
    \/ quic_download_persistent_piece(r)
    \/ quic_download_persistent_cache_piece(r)

-----------------------------------------------------------------------------
(* The handler of request r at the server. The peer is gone when its request  *)
(* has ended or their connection is closed; then a write fails.               *)

Gone(r) == at[r] \in Ended \cup {"drop", "remove"} \/ Broken(r)

At(r, p) == handler' = [handler EXCEPT ![r] = p]

Answer(r, a) == answer' = [answer EXCEPT ![r] = a]

Close(r) == eof' = eof \cup {r}

\* A request is counted once its head was read. One that breaks before is not.
read_download_piece(r) ==
    /\ handler[r] = "header"
    /\ \/ At(r, "metadata") /\ Count("started") /\ UNCHANGED eof
       \/ Gone(r) /\ At(r, "ended") /\ Close(r) /\ UNCHANGED counts
    /\ UNCHANGED <<proto, pieces, poolVars, clientVars, answer, sent>>

\* The piece is looked up, waits for its share of the bandwidth, and its content
\* is opened. Each of them may fail.
HandlePiece(r) ==
    /\ handler[r] = "metadata"
    /\ \/ At(r, "respond") /\ UNCHANGED counts
       \/ At(r, "error") /\ Count("failure")
    /\ UNCHANGED <<proto, pieces, poolVars, clientVars, answer, sent, eof>>

write_error(r) ==
    /\ handler[r] = "error"
    /\ At(r, "ended")
    /\ Close(r)
    /\ IF Gone(r) THEN UNCHANGED answer ELSE Answer(r, "error")
    /\ UNCHANGED <<proto, pieces, poolVars, clientVars, sent, counts>>

\* Mutant: a head that could not be written is counted and the content tried.
WriteResponseGoesOn(r) ==
    /\ handler[r] = "respond"
    /\ At(r, "content")
    /\ IF Gone(r)
       THEN Count("failure") /\ UNCHANGED answer
       ELSE Answer(r, "content") /\ UNCHANGED counts
    /\ UNCHANGED <<proto, pieces, poolVars, clientVars, sent, eof>>

write_response(r) ==
    /\ handler[r] = "respond"
    /\ IF Gone(r)
       THEN At(r, "ended") /\ Close(r) /\ Count("failure") /\ UNCHANGED answer
       ELSE At(r, "content") /\ Answer(r, "content") /\ UNCHANGED <<eof, counts>>
    /\ UNCHANGED <<proto, pieces, poolVars, clientVars, sent>>

\* The content is sent from the file. A file that is too short ends it early, and
\* the upload counts as finished all the same. The finish() of a QUIC stream that was
\* written to its end and not closed before succeeds; if it did not, the server would
\* count the upload as failed and as finished.
write_stream(r) ==
    /\ handler[r] = "content"
    /\ \/ /\ ~Gone(r)
          /\ sent[r] < PieceLength
          /\ sent' = [sent EXCEPT ![r] = @ + 1]
          /\ UNCHANGED <<handler, eof, counts>>
       \/ /\ ~Gone(r)
          /\ At(r, "ended") /\ Close(r) /\ Count("finished") /\ UNCHANGED sent
       \/ /\ At(r, "ended") /\ Close(r) /\ Count("failure") /\ UNCHANGED sent
    /\ UNCHANGED <<proto, pieces, poolVars, clientVars, answer>>

\* What a handler does around the lookup of the piece.
Respond(r) == write_error(r) \/ write_response(r) \/ write_stream(r)

Tcp(kind) == proto = "tcp" /\ pieces = kind
Quic(kind) == proto = "quic" /\ pieces = kind

\* The TCP server: handle with its branch for each kind of pieces, and what the
\* branch asks of the storage.
tcp_handle(r) == proto = "tcp" /\ read_download_piece(r)
tcp_respond_piece(r) == Tcp("task") /\ Respond(r)
tcp_respond_persistent_piece(r) == Tcp("persistent") /\ Respond(r)
tcp_respond_persistent_cache_piece(r) == Tcp("persistent_cache") /\ Respond(r)
tcp_handle_piece(r) == Tcp("task") /\ HandlePiece(r)
tcp_handle_persistent_piece(r) == Tcp("persistent") /\ HandlePiece(r)
tcp_handle_persistent_cache_piece(r) == Tcp("persistent_cache") /\ HandlePiece(r)

\* The QUIC server, the same for every stream.
quic_handle(r) == proto = "quic" /\ read_download_piece(r)
quic_respond_piece(r) == Quic("task") /\ Respond(r)
quic_respond_persistent_piece(r) == Quic("persistent") /\ Respond(r)
quic_respond_persistent_cache_piece(r) == Quic("persistent_cache") /\ Respond(r)
quic_handle_piece(r) == Quic("task") /\ HandlePiece(r)
quic_handle_persistent_piece(r) == Quic("persistent") /\ HandlePiece(r)
quic_handle_persistent_cache_piece(r) == Quic("persistent_cache") /\ HandlePiece(r)

TcpServer(r) ==
    \/ tcp_handle(r)
    \/ tcp_respond_piece(r) \/ tcp_handle_piece(r)
    \/ tcp_respond_persistent_piece(r) \/ tcp_handle_persistent_piece(r)
    \/ tcp_respond_persistent_cache_piece(r) \/ tcp_handle_persistent_cache_piece(r)

QuicServer(r) ==
    \/ quic_handle(r)
    \/ quic_respond_piece(r) \/ quic_handle_piece(r)
    \/ quic_respond_persistent_piece(r) \/ quic_handle_persistent_piece(r)
    \/ quic_respond_persistent_cache_piece(r) \/ quic_handle_persistent_cache_piece(r)

Server(r) == TcpServer(r) \/ QuicServer(r)

\* A QUIC connection breaks, idles out or is closed by the parent.
ConnectionCloses(k) ==
    /\ proto = "quic"
    /\ k <= made
    /\ k \notin closed
    /\ Cardinality(closed) < Closings
    /\ closed' = closed \cup {k}
    /\ UNCHANGED <<proto, pieces, pool, made, inflight, clientVars, serverVars>>

\* The steps of the downloading peer, its timers among them.
Peer(r) == TCPDownloader(r) \/ QUICDownloader(r) \/ Client(r)

Next ==
    \/ \E r \in Requests : Peer(r) \/ Server(r)
    \/ \E k \in Clients : ConnectionCloses(k)

Spec == Init /\ [][Next]_vars

-----------------------------------------------------------------------------

\* The server's metrics tell one end for each upload that was started, whichever
\* of the writes, the storage or the peer fails; finish() of a written stream does not.
UploadsCountedOnce ==
    counts["started"] = counts["finished"] + counts["failure"]
                        + Cardinality({r \in Requests : handler[r] \in Serving \ {"error"}})

\* A request that finds the pooled connection closed and unused does not go out
\* on it, although other requests find, remove and make clients meanwhile.
ClosedClientReplaced ==
    \A r \in Requests : at[r] \in Guarded /\ stale[r] # None => using[r] # stale[r]

\* Every request must end, however the parent stalls. Excepted is the content of a
\* persistent or persistent cache piece, which is read without a timeout.
RequestsEnded ==
    \A r \in Requests : at[r] \in Ended \/ (at[r] = "body" /\ pieces # "task")

=============================================================================
