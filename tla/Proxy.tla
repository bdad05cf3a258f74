-------------------------------- MODULE Proxy --------------------------------
(* One request to the HTTP proxy of the daemon (proxy/mod.rs, proxy/task.rs): *)
(* its way through the handlers, and the response that is put together from   *)
(* the pieces of a download in the order they are needed while they finish in *)
(* any order. The download is Task::download (TaskDownload); here it reports  *)
(* pieces, ends or fails as it likes.                                         *)
EXTENDS Integers, Sequences, FiniteSets

CONSTANTS
    Requests,     \* the requests that are made
    Lengths,      \* numbers of pieces that a response may have
    OutSize,      \* capacity of the channel of the download
    BodySize      \* capacity of the channel of the body

VARIABLES
    request,      \* one of Requests
    length,       \* one of Lengths
    stage,        \* where the handler stands
    response,     \* what it answered
    transfer,     \* the download: "none", "running" or "ended"
    todo,         \* pieces that it has not reported
    out,          \* its messages
    pump,         \* the task that fills the body
    initialized,  \* it has let the response go
    verdict,      \* what it told the handler
    finished,     \* pieces that wait for their turn
    need,         \* the piece whose turn it is
    body,         \* the channel of the body
    client,       \* the client of the proxy
    received,     \* pieces that it has read
    prefetching   \* the download of the whole task that a range starts

handlerVars == <<request, length, stage, response, prefetching>>
pumpVars == <<pump, initialized, verdict, finished, need>>
clientVars == <<client, received>>
vars == <<handlerVars, transfer, todo, out, pumpVars, body, clientVars>>

\* A message of the download, and an item of the body, is the number of a piece or
\* one of these.
Started == 0
DownloadError == -1
BackendError == -2
Errors == {DownloadError, BackendError}

Statuses == {"401", "400", "403", "429", "500", "backend"}
Ended == {"answered", "whole", "broken", "gone"}

TypeOK ==
    /\ request \in Requests
    /\ length \in Lengths
    /\ stage \in {"accept", "mirror", "http", "tunnel", "inner", "via", "first", "prefetch", "head", "wait", "done"}
    /\ response \in Statuses \cup {"none", "closed", "http", "https", "stream"}
    /\ transfer \in {"none", "starting", "running", "ended"}
    /\ todo \subseteq 1 .. length
    /\ Len(out) <= OutSize
    /\ pump \in {"none", "recv", "send", "fail", "ended"}
    /\ initialized \in BOOLEAN
    /\ verdict \in {"none", "go", "500", "backend"}
    /\ finished \subseteq 1 .. length
    /\ need \in 1 .. length + 1
    /\ pump = "recv" => need \notin finished
    /\ Len(body) <= BodySize
    /\ client \in {"waiting", "reading"} \cup Ended
    /\ Len(received) <= length
    /\ prefetching \in {"none", "running", "failed"}

Init ==
    /\ request \in Requests
    /\ length \in Lengths
    /\ stage = "accept"
    /\ response = "none"
    /\ transfer = "none"
    /\ todo = 1 .. length
    /\ out = <<>>
    /\ pump = "none"
    /\ initialized = FALSE
    /\ verdict = "none"
    /\ finished = {}
    /\ need = 1
    /\ body = <<>>
    /\ client = "waiting"
    /\ received = <<>>
    /\ prefetching = "none"

Goto(s) == stage' = s /\ UNCHANGED <<request, length, response, prefetching>>

make_error_response(code) ==
    /\ stage' = "done"
    /\ response' = code
    /\ UNCHANGED <<request, length, prefetching>>

-----------------------------------------------------------------------------
(* The handlers.                                                              *)

\* The limiter admits the request or not. One without a host is for the registry.
handler ==
    /\ stage = "accept"
    /\ \/ make_error_response("429")
       \/ Goto(IF request.mirror THEN "mirror" ELSE IF request.connect THEN "tunnel" ELSE "http")
    /\ UNCHANGED <<transfer, todo, out, pumpVars, body, clientVars>>

\* The registry's address takes the place of the missing one, if it is valid.
registry_mirror_http_handler ==
    /\ stage = "mirror"
    /\ ~request.connect
    /\ Goto("http") \/ make_error_response("closed")
    /\ UNCHANGED <<transfer, todo, out, pumpVars, body, clientVars>>

registry_mirror_https_handler ==
    /\ stage = "mirror"
    /\ request.connect
    /\ Goto("tunnel") \/ make_error_response("closed")
    /\ UNCHANGED <<transfer, todo, out, pumpVars, body, clientVars>>

ThroughDfdaemon == request.get /\ (request.rule \/ request.p2p)

proxy_via_http == ~request.https /\ (make_error_response("http") \/ make_error_response("400") \/ make_error_response("closed"))
proxy_via_https == request.https /\ (make_error_response("https") \/ make_error_response("closed"))

\* What the two handlers of a request share: its credentials are verified, and it
\* goes through the daemon, or to the remote server.
Route ==
    \/ request.auth = "wrong" /\ make_error_response("401")
    \/ request.auth = "malformed" /\ make_error_response("400")
    \/ request.auth = "ok" /\ ThroughDfdaemon /\ Goto("via")
    \/ request.auth = "ok" /\ ~ThroughDfdaemon /\ (proxy_via_http \/ proxy_via_https)

http_handler ==
    /\ stage = "http"
    /\ Route
    /\ UNCHANGED <<transfer, todo, out, pumpVars, body, clientVars>>

\* A tunnel is set up: its certificates, the upgrade and the handshake may fail.
https_handler ==
    /\ stage = "tunnel"
    /\ Goto("inner") \/ make_error_response("closed")
    /\ UNCHANGED <<transfer, todo, out, pumpVars, body, clientVars>>

\* Mutant: the request in a tunnel is taken for a request that was verified.
TunnelTrusted ==
    /\ stage = "inner"
    /\ \/ make_error_response("429")
       \/ ThroughDfdaemon /\ Goto("via")
       \/ ~ThroughDfdaemon /\ (proxy_via_http \/ proxy_via_https)
    /\ UNCHANGED <<transfer, todo, out, pumpVars, body, clientVars>>

\* The request in the tunnel is admitted and verified like any other.
upgraded_handler ==
    /\ stage = "inner"
    /\ make_error_response("429") \/ Route
    /\ UNCHANGED <<transfer, todo, out, pumpVars, body, clientVars>>

-----------------------------------------------------------------------------
(* proxy_via_dfdaemon.                                                        *)

\* task::download: the request is turned into a download, which may be blocked,
\* fail at the backend or have no such range; or it runs from here on.
download ==
    /\ stage = "via"
    /\ \/ /\ \E code \in {"403", "backend", "500"} : make_error_response(code)
          /\ UNCHANGED transfer
       \/ Goto("first") /\ transfer' = "starting"
    /\ UNCHANGED <<todo, out, pumpVars, body, clientVars>>

\* The first message says which pieces there are. Otherwise the messages are dropped.
ReceiveStarted ==
    /\ stage = "first"
    /\ \/ /\ out # <<>> /\ Head(out) = Started
          /\ out' = Tail(out)
          /\ Goto(IF request.prefetch THEN "prefetch" ELSE "head")
       \/ /\ \/ out # <<>> /\ Head(out) \in Errors
             \/ out = <<>> /\ transfer = "ended"
          /\ out' = <<>>
          /\ make_error_response("500")
    /\ UNCHANGED <<transfer, todo, pumpVars, body, clientVars>>

\* The first range of a task starts a prefetch of all of it; a task that has been
\* prefetched, or whose record cannot be written, is left alone.
prefetch ==
    /\ stage = "prefetch"
    /\ stage' = "head"
    /\ prefetching' \in {"none", "running"}
    /\ UNCHANGED <<request, length, response, transfer, todo, out, pumpVars, body, clientVars>>

\* The prefetch reads its own download until it ends. It says that it failed only
\* if the download could not be started.
prefetch_task_failed ==
    /\ prefetching = "running"
    /\ prefetching' \in {"none", "failed"}
    /\ UNCHANGED <<request, length, stage, response, transfer, todo, out, pumpVars, body, clientVars>>

make_response_headers ==
    /\ stage = "head"
    /\ \/ Goto("wait") /\ pump' = "recv"
       \/ make_error_response("closed") /\ pump' = "ended"
    /\ UNCHANGED <<transfer, todo, out, initialized, verdict, finished, need, body, clientVars>>

\* The response goes out when the pump has seen the first piece or an error.
ReceiveVerdict ==
    /\ stage = "wait"
    /\ \/ verdict = "go" /\ make_error_response("stream")
       \/ verdict \in {"500", "backend"} /\ make_error_response(verdict)
       \/ verdict = "none" /\ pump = "ended" /\ make_error_response("500")
    /\ UNCHANGED <<transfer, todo, out, pumpVars, body, clientVars>>

proxy_via_dfdaemon ==
    \/ download \/ ReceiveStarted \/ prefetch
    \/ make_response_headers \/ ReceiveVerdict

Handler ==
    \/ handler
    \/ registry_mirror_http_handler \/ registry_mirror_https_handler
    \/ http_handler \/ https_handler \/ upgraded_handler
    \/ proxy_via_dfdaemon

-----------------------------------------------------------------------------
(* The download. Nobody receives its messages when the handler has answered   *)
(* without a pump, or when the pump has ended.                                *)

Deserted == pump = "ended" \/ (stage = "done" /\ pump = "none")

Report(message) ==
    IF Deserted
    THEN out' = <<>>
    ELSE Len(out) < OutSize /\ out' = Append(out, message)

DownloadStarts ==
    /\ transfer = "starting"
    /\ Report(Started)
    /\ transfer' = "running"
    /\ UNCHANGED <<handlerVars, todo, pumpVars, body, clientVars>>

\* A piece is reported; if nobody receives it, the download comes to its end.
DownloadPiece(p) ==
    /\ transfer = "running"
    /\ p \in todo
    /\ Report(p)
    /\ todo' = todo \ {p}
    /\ transfer' = IF Deserted THEN "ended" ELSE transfer
    /\ UNCHANGED <<handlerVars, pumpVars, body, clientVars>>

\* The channel is closed at the end, with or without an error before it; of the
\* end alone the pump cannot tell whether all pieces were reported.
DownloadEnds ==
    /\ transfer = "running"
    /\ transfer' = "ended"
    /\ UNCHANGED <<handlerVars, todo, out, pumpVars, body, clientVars>>

handle_error ==
    /\ transfer \in {"starting", "running"}
    /\ \E e \in Errors : Report(e)
    /\ transfer' = "ended"
    /\ UNCHANGED <<handlerVars, todo, pumpVars, body, clientVars>>

Download == DownloadStarts \/ (\E p \in 1 .. length : DownloadPiece(p)) \/ DownloadEnds \/ handle_error

-----------------------------------------------------------------------------
(* The pump.                                                                  *)

\* Its end drops the channels of the download and of the body.
PumpEnds == pump' = "ended" /\ out' = <<>>

\* An empty response has no pieces: it goes out as it is.
PumpEmpty ==
    /\ pump = "recv"
    /\ length = 0
    /\ verdict' = "go"
    /\ PumpEnds
    /\ UNCHANGED <<handlerVars, transfer, todo, initialized, finished, need, body, clientVars>>

\* The first piece lets the response go. A piece is kept until its turn comes.
PumpPiece ==
    /\ pump = "recv"
    /\ length > 0
    /\ out # <<>> /\ Head(out) \notin Errors
    /\ out' = Tail(out)
    /\ initialized' = TRUE
    /\ verdict' = "go"
    /\ finished' = finished \cup {Head(out)}
    /\ pump' = IF need \in finished' THEN "send" ELSE "recv"
    /\ UNCHANGED <<handlerVars, transfer, todo, need, body, clientVars>>

\* The content of the needed piece is read and sent, then that of the next one if
\* it is there already. The read may fail, and the client may be gone.
PumpSend ==
    /\ pump = "send"
    /\ \/ client = "gone" /\ PumpEnds /\ UNCHANGED <<finished, need, body>>
       \/ pump' = "fail" /\ UNCHANGED <<out, finished, need, body>>
       \/ /\ client # "gone"
          /\ Len(body) < BodySize
          /\ body' = Append(body, need)
          /\ need' = need + 1
          /\ finished' = finished \ {need}
          /\ pump' = IF need' \in finished' THEN "send" ELSE "recv"
          /\ UNCHANGED out
    /\ UNCHANGED <<handlerVars, transfer, todo, initialized, verdict, clientVars>>

\* Mutant: the end of the download is taken for the end of the content.
PumpClosedQuietly ==
    /\ pump = "recv"
    /\ length > 0
    /\ out = <<>> /\ transfer = "ended"
    /\ PumpEnds
    /\ UNCHANGED <<handlerVars, transfer, todo, initialized, verdict, finished, need, body, clientVars>>

\* The download is over. A body that is not complete is ended by an error.
PumpClosed ==
    /\ pump = "recv"
    /\ length > 0
    /\ out = <<>> /\ transfer = "ended"
    /\ IF need <= length THEN pump' = "fail" /\ UNCHANGED out ELSE PumpEnds
    /\ UNCHANGED <<handlerVars, transfer, todo, initialized, verdict, finished, need, body, clientVars>>

\* An error before the first piece becomes the response, a later one ends the body.
PumpError ==
    /\ pump = "recv"
    /\ length > 0
    /\ out # <<>> /\ Head(out) \in Errors
    /\ IF initialized
       THEN pump' = "fail" /\ UNCHANGED <<verdict, out>>
       ELSE verdict' = (IF Head(out) = DownloadError THEN "500" ELSE "backend") /\ PumpEnds
    /\ UNCHANGED <<handlerVars, transfer, todo, initialized, finished, need, body, clientVars>>

\* The error is sent to the body, and the pump returns.
PumpFail ==
    /\ pump = "fail"
    /\ \/ client = "gone" /\ UNCHANGED body
       \/ client # "gone" /\ Len(body) < BodySize /\ body' = Append(body, DownloadError)
    /\ PumpEnds
    /\ UNCHANGED <<handlerVars, transfer, todo, initialized, verdict, finished, need, clientVars>>

Pump == PumpEmpty \/ PumpPiece \/ PumpSend \/ PumpClosed \/ PumpError \/ PumpFail

-----------------------------------------------------------------------------
(* The client.                                                                *)

ClientReads ==
    /\ \/ /\ client = "waiting"
          /\ response # "none"
          /\ client' = IF response = "stream" THEN "reading" ELSE "answered"
          /\ UNCHANGED <<body, received>>
       \/ /\ client = "reading"
          /\ body # <<>>
          /\ body' = Tail(body)
          /\ IF Head(body) \in Errors
             THEN client' = "broken" /\ UNCHANGED received
             ELSE received' = Append(received, Head(body)) /\ UNCHANGED client
       \/ /\ client = "reading"
          /\ body = <<>> /\ pump = "ended"
          /\ client' = "whole"
          /\ UNCHANGED <<body, received>>
    /\ UNCHANGED <<handlerVars, transfer, todo, out, pumpVars>>

\* The connection of the client breaks while the response is read.
ClientLeaves ==
    /\ client = "reading"
    /\ client' = "gone"
    /\ body' = <<>>
    /\ UNCHANGED <<handlerVars, transfer, todo, out, pumpVars, received>>

Next ==
    \/ Handler \/ Download \/ Pump
    \/ prefetch_task_failed
    \/ ClientReads \/ ClientLeaves

Spec == Init /\ [][Next]_vars

-----------------------------------------------------------------------------

\* A response that ends without an error has all of its pieces, in their order, also
\* when the download fails, ends early or reports pieces in any order; and what was
\* read before is a prefix of it.
BodyIsWhole ==
    /\ \A i \in 1 .. Len(received) : received[i] = i
    /\ client = "whole" => Len(received) = length

\* A request with wrong credentials reaches neither a download nor a remote server,
\* whether it comes plain, in a tunnel or for the registry.
VerifiedBeforeUse == request.auth # "ok" => transfer = "none" /\ response \notin {"http", "https", "stream"}

\* The client must be answered, and everything that its request has started must end.
RequestEnded ==
    /\ client \in Ended
    /\ stage = "done"
    /\ transfer \in {"none", "ended"}
    /\ pump \in {"none", "ended"}

=============================================================================
