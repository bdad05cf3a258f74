----------------------------- MODULE UrmaSession -----------------------------
(* The URMA session of two peers (storage/urma/session.rs, urma/control.rs,   *)
(* client/urma.rs, server/urma.rs): one lane, its control connection, and the *)
(* pieces that are transferred on it at the same time. The client posts       *)
(* receives, tells the server with RecvPosted, and the server answers each    *)
(* posted window by one send. A frame is one step; the two directions of a    *)
(* transfer are queues that hold what is on the wire and in its inbox.        *)
EXTENDS Integers, Sequences, FiniteSets

CONSTANTS
    Transfers,       \* pieces the client asks for
    Leavers,         \* those whose reader may leave
    Length,          \* of a piece
    ChunkSize,       \* of the negotiated transfer
    Inflight,        \* chunks of a window
    RecvDepth,       \* chunks of receives that the client's lane admits
    ConfiguredChunks, \* chunks of a window by the server's configuration,
    RegisteredChunks, \* and by its registered memory
    NativeDepth,     \* sends that the server's device admits
    PipelineDepth,   \* windows of a piece that are posted or in the reader's hands
    Limits,          \* choices of the transfers that the client's lane and the
                     \* server's lane admit and that other lanes leave to this one
    TxWindows,       \* registered windows of the server
    None             \* nobody

ASSUME TransfersAssumption == IsFiniteSet(Transfers) /\ None \notin Transfers
\* TransferShape::negotiate refuses a piece, a chunk size or a window of zero.
ASSUME ShapeAssumption ==
    /\ Length \in Nat \ {0}
    /\ ChunkSize \in Nat \ {0}
    /\ Inflight \in Nat \ {0}
ASSUME DepthAssumption == PipelineDepth \in Nat /\ TxWindows \in Nat
ASSUME LimitsAssumption == Limits \subseteq [client : Nat, lane : Nat, process : Nat]

VARIABLES
    limits,          \* one of Limits: [client, lane, process]
    clientLane,      \* "none", "dialing", "up", "broken" or "failed"
    serverLane,      \* "none", "up", "broken", "failed" or "closed"
    sessionSlot,     \* the call that holds the session slot, or None
    sticky,          \* TransferOutcomes::failed
    handling,        \* the server's loop over requests
    call,            \* transfer -> the client's call and, after it, its pump
    reader,          \* transfers whose reader is there
    posted,          \* transfer -> chunks whose receives were posted
    delivered,       \* transfer -> chunks of completed windows
    published,       \* transfer -> chunks handed to the reader
    consumed,        \* transfer -> chunks the reader is done with
    serving,         \* transfer -> the server's task
    nextChunk,       \* transfer -> chunks sent
    leases,          \* transfer -> registered windows that the task holds
    permits,         \* transfers with a process permit
    toServer,        \* transfer -> frames of the client
    toClient,        \* transfer -> frames of the server
    native,          \* receives posted and not consumed
    fault            \* a fault or a timeout that no reader caused has occurred

laneVars == <<limits, clientLane, serverLane, sessionSlot, sticky>>
pumpVars == <<reader, posted, delivered, published, consumed>>
taskVars == <<nextChunk, leases, permits>>
wireVars == <<toServer, toClient>>
vars == <<laneVars, handling, call, pumpVars, serving, taskVars, wireVars, native, fault>>

-----------------------------------------------------------------------------
(* The shape of a transfer: windows of chunks.                                *)

Smaller(a, b) == IF a < b THEN a ELSE b
Larger(a, b) == IF a < b THEN b ELSE a
DivCeil(a, b) == (a + b - 1) \div b

Chunks == DivCeil(Length, ChunkSize)

\* TransferShape::window, and the length of its chunks. Lengths are numbers of bytes,
\* each with its place in the piece.
Window(start) == [start |-> start, count |-> Smaller(Chunks - start, Inflight)]
ChunkLength(k) == Smaller(ChunkSize, Length - k * ChunkSize)
Bytes(k, n) == k * ChunkSize + 1 .. k * ChunkSize + n
LengthOf(start, count) ==
    Cardinality(UNION {Bytes(k, ChunkLength(k)) : k \in start .. start + count - 1})

\* Of some transfers, everything after the number lo of a transfer and up to hi.
Between(S, lo, hi) == UNION {{t} \X (lo[t] + 1 .. hi[t]) : t \in S}

\* send_depths: the window fits the registered memory and the device, and the sends
\* of all transfers fit the device. negotiate_transfer keeps Inflight within it.
WindowChunks ==
    Smaller(Smaller(Larger(ConfiguredChunks, 1), Larger(RegisteredChunks, 1)), Larger(NativeDepth, 1))
ASSUME NegotiatedAssumption == Inflight <= WindowChunks

SendDepth == Larger(Smaller(WindowChunks * Larger(limits.lane, 1), Larger(NativeDepth, 1)), WindowChunks)

\* Mutant: the last window of a piece is rounded up to full chunks.
FullChunks(offset) ==
    LET count == Smaller(DivCeil(Length - offset, ChunkSize), Inflight)
    IN  [count |-> count, length |-> count * ChunkSize]

\* The registered window that the server fills from an offset of the piece.
tx_window_chunk_lengths(offset) ==
    LET remaining == Length - offset
        count == Smaller(DivCeil(remaining, ChunkSize), Inflight)
        Part(i) == Smaller(ChunkSize, remaining - i * ChunkSize)
    IN  [count |-> count, length |-> Cardinality(UNION {Bytes(i, Part(i)) : i \in 0 .. count - 1})]

Posted(w) == [type |-> "posted", window |-> w]
Frame(type) == [type |-> type]

-----------------------------------------------------------------------------

Pumping == {"fill", "wait", "finish"}
CallEnds == {"done", "busy", "failed", "cancelled"}
Working == {"admission", "tx", "spare", "credit", "permit", "sending",
            "finish"}
TaskEnds == {"none", "done", "busy", "refused", "failed", "aborted"}

\* Chunks in windows that are posted and not completed.
Pending == Cardinality(Between({t \in Transfers : call[t] \in Pumping}, delivered, posted))
PendingWindows(t) == DivCeil(posted[t] - delivered[t], Inflight)
WindowsInUse(t) == DivCeil(posted[t] - consumed[t], Inflight)
SendCount(t) == Window(nextChunk[t]).count
Sending == {t \in Transfers : serving[t] = "sending"}
SendsUnderWay == Cardinality(Between(Sending, nextChunk, [t \in Transfers |-> nextChunk[t] + SendCount(t)]))
FreeWindows == TxWindows - Cardinality(Between(Transfers, [t \in Transfers |-> 0], leases))
Waiters == {t \in Transfers : serving[t] = "tx"}

TypeOK ==
    /\ limits \in Limits
    /\ clientLane \in {"none", "dialing", "up", "broken", "failed"}
    /\ serverLane \in {"none", "up", "broken", "failed", "closed"}
    /\ sessionSlot \in Transfers \cup {None}
    /\ sticky \in BOOLEAN
    /\ handling \in {"none", "accepting", "joining", "ended"}
    /\ call \in [Transfers -> {"new", "dial", "request", "awaiting"} \cup Pumping \cup CallEnds]
    /\ reader \subseteq Transfers
    /\ posted \in [Transfers -> 0 .. Chunks]
    /\ \A t \in Transfers : /\ delivered[t] \in 0 .. posted[t]
                            /\ published[t] \in 0 .. delivered[t]
                            /\ consumed[t] \in 0 .. published[t]
                            /\ WindowsInUse(t) <= PipelineDepth
    /\ serving \in [Transfers -> Working \cup TaskEnds \cup {"incoming"}]
    /\ nextChunk \in [Transfers -> 0 .. Chunks]
    /\ leases \in [Transfers -> 0 .. 2]
    /\ FreeWindows >= 0
    /\ permits \subseteq Transfers
    /\ Cardinality(permits) <= limits.process
    /\ \A t \in Transfers : Len(toServer[t]) <= PipelineDepth + 1 /\ Len(toClient[t]) <= 2
    /\ native \in 0 .. Chunks * Cardinality(Transfers)
    /\ fault \in BOOLEAN

Init ==
    /\ limits \in Limits
    /\ clientLane = "none"
    /\ serverLane = "none"
    /\ sessionSlot = None
    /\ sticky = FALSE
    /\ handling = "none"
    /\ call = [t \in Transfers |-> "new"]
    /\ reader = Transfers
    /\ posted = [t \in Transfers |-> 0]
    /\ delivered = [t \in Transfers |-> 0]
    /\ published = [t \in Transfers |-> 0]
    /\ consumed = [t \in Transfers |-> 0]
    /\ serving = [t \in Transfers |-> "none"]
    /\ nextChunk = [t \in Transfers |-> 0]
    /\ leases = [t \in Transfers |-> 0]
    /\ permits = {}
    /\ toServer = [t \in Transfers |-> <<>>]
    /\ toClient = [t \in Transfers |-> <<>>]
    /\ native = 0
    /\ fault = FALSE

Goto(t, s) == call' = [call EXCEPT ![t] = s]
Serve(t, s) == serving' = [serving EXCEPT ![t] = s]
SendServer(t, f) == toServer' = [toServer EXCEPT ![t] = Append(@, f)]
SendClient(t, f) == toClient' = [toClient EXCEPT ![t] = Append(@, f)]
TakeServer(t) == toServer' = [toServer EXCEPT ![t] = Tail(@)]
TakeClient(t) == toClient' = [toClient EXCEPT ![t] = Tail(@)]
ClientHas(t, type) == toClient[t] # <<>> /\ Head(toClient[t]).type = type
ServerHas(t, type) == toServer[t] # <<>> /\ Head(toServer[t]).type = type

Faults == fault' = TRUE

-----------------------------------------------------------------------------
(* The client's call: handle_download and request_piece.                      *)

\* abort_lane and abort: the transfer fails and the lane with it. A pump makes
\* the failure known to the calls that follow.
AbortClient(t) ==
    /\ Goto(t, "failed")
    /\ clientLane' = "failed"
    /\ sticky' = (sticky \/ call[t] \in Pumping)

\* The call takes the session, or the slot to make one.
handle_download(t) ==
    /\ call[t] = "new"
    /\ sessionSlot = None
    /\ IF sticky
       THEN Goto(t, "failed") /\ UNCHANGED <<sessionSlot, clientLane>>
       ELSE IF clientLane # "none"
       THEN Goto(t, "request") /\ UNCHANGED <<sessionSlot, clientLane>>
       ELSE /\ serverLane \notin {"up", "broken"}
            /\ Goto(t, "dial")
            /\ sessionSlot' = t
            /\ clientLane' = "dialing"
    /\ UNCHANGED <<limits, serverLane, sticky, handling, pumpVars, serving, taskVars, wireVars, native, fault>>

\* The lane is made and bound, Connected is on the wire.
accept == serverLane' = "up"

\* The server's loop over connections admits one more session and spawns it.
run ==
    /\ clientLane = "dialing"
    /\ serverLane \in {"none", "failed"}
    /\ handling # "accepting"
    /\ accept
    /\ handling' = "accepting"
    /\ UNCHANGED <<limits, clientLane, sessionSlot, sticky, call, pumpVars, serving, taskVars, wireVars, native, fault>>

\* connect: the session is in the slot, or the call fails and the slot is empty:
\* the server is full or not there, the capabilities differ, or it does not answer.
connect(t) ==
    /\ call[t] = "dial"
    /\ sessionSlot' = None
    /\ \/ /\ serverLane = "up"
          /\ clientLane' = "up"
          /\ Goto(t, "request")
          /\ UNCHANGED <<serverLane, fault>>
       \/ /\ clientLane' = "none"
          /\ serverLane' = IF serverLane = "up" THEN "broken" ELSE serverLane
          /\ Goto(t, "failed")
          /\ Faults
    /\ UNCHANGED <<limits, sticky, handling, pumpVars, serving, taskVars, wireVars, native>>

\* A transfer is registered with its lane while the lane admits one more.
register_transfer(active, limit) == Cardinality(active) < limit

\* The request goes out, unless the lane admits no more transfers.
request_piece(t) ==
    /\ call[t] = "request"
    /\ IF clientLane = "failed"
       THEN Goto(t, "failed") /\ UNCHANGED <<laneVars, toServer>>
       ELSE IF ~register_transfer({u \in Transfers : call[u] \in Pumping \cup {"awaiting"}}, limits.client)
       THEN Goto(t, "busy") /\ UNCHANGED <<laneVars, toServer>>
       ELSE IF clientLane = "up"
       THEN /\ Goto(t, "awaiting")
            /\ SendServer(t, Frame("request"))
            /\ UNCHANGED laneVars
       ELSE AbortClient(t) /\ UNCHANGED <<limits, serverLane, sessionSlot, toServer>>
    /\ UNCHANGED <<handling, pumpVars, serving, taskVars, toClient, native, fault>>

\* A piece that is ready is pumped; a busy peer costs the lane nothing.
ReceiveReady(t) ==
    /\ call[t] = "awaiting"
    /\ toClient[t] # <<>>
    /\ TakeClient(t)
    /\ \/ /\ ClientHas(t, "ready")
          /\ Goto(t, "fill")
          /\ UNCHANGED laneVars
       \/ /\ ClientHas(t, "busy")
          /\ Goto(t, "busy")
          /\ UNCHANGED laneVars
       \/ /\ ClientHas(t, "error")
          /\ AbortClient(t)
          /\ UNCHANGED <<limits, serverLane, sessionSlot>>
    /\ UNCHANGED <<handling, pumpVars, serving, taskVars, toServer, native, fault>>

-----------------------------------------------------------------------------
(* The client's pump.                                                         *)

\* Mutant: the server hears of a window before its receives are posted.
AnnounceFirst(t) ==
    LET w == Window(posted[t])
    IN  /\ call[t] = "fill"
        /\ posted[t] < Chunks
        /\ PendingWindows(t) < PipelineDepth
        /\ WindowsInUse(t) < PipelineDepth
        /\ clientLane = "up"
        /\ posted' = [posted EXCEPT ![t] = @ + w.count]
        /\ native' = native + (IF PendingWindows(t) = 0 THEN w.count ELSE 0)
        /\ SendServer(t, Posted(w))
        /\ UNCHANGED <<laneVars, handling, call, reader, delivered, published, consumed, serving, taskVars, toClient, fault>>

\* fill_receive_pipeline: receives of the next window, if the pipeline of the
\* piece and the lane have room.
PostWindow(t) ==
    LET w == Window(posted[t])
    IN  /\ call[t] = "fill"
        /\ posted[t] < Chunks
        /\ PendingWindows(t) < PipelineDepth
        /\ WindowsInUse(t) < PipelineDepth
        /\ Pending + w.count <= RecvDepth
        /\ clientLane = "up"
        /\ posted' = [posted EXCEPT ![t] = @ + w.count]
        /\ native' = native + w.count
        /\ SendServer(t, Posted(w))
        /\ UNCHANGED <<laneVars, handling, call, reader, delivered, published, consumed, serving, taskVars, toClient, fault>>

\* Only the first window is waited for; a further one may find no buffers.
FillEnds(t) ==
    /\ call[t] = "fill"
    /\ PendingWindows(t) > 0
    /\ Goto(t, "wait")
    /\ UNCHANGED <<laneVars, handling, pumpVars, serving, taskVars, wireVars, native, fault>>

\* receive_next_window_registered: the first window is complete. The last one is
\* not handed on before Done.
CompleteWindow(t) ==
    LET w == Window(delivered[t])
    IN  /\ call[t] = "wait"
        /\ nextChunk[t] >= delivered[t] + w.count
        /\ delivered' = [delivered EXCEPT ![t] = @ + w.count]
        /\ IF delivered[t] + w.count = Chunks
           THEN Goto(t, "finish") /\ UNCHANGED published
           ELSE IF t \in reader
           THEN Goto(t, "fill") /\ published' = [published EXCEPT ![t] = @ + w.count]
           ELSE Goto(t, "cancelled") /\ UNCHANGED published
    /\ UNCHANGED <<laneVars, handling, reader, posted, consumed, serving, taskVars, wireVars, native, fault>>

\* Mutant: the piece is complete with its last window.
FinishEarly(t) ==
    /\ call[t] = "finish"
    /\ published' = [published EXCEPT ![t] = Chunks]
    /\ Goto(t, "done")
    /\ UNCHANGED <<laneVars, handling, reader, posted, delivered, consumed, serving, taskVars, wireVars, native, fault>>

finish_piece(t) ==
    /\ call[t] = "finish"
    /\ toClient[t] # <<>>
    /\ TakeClient(t)
    /\ IF ClientHas(t, "done")
       THEN /\ published' = [published EXCEPT ![t] = Chunks]
            /\ Goto(t, "done")
            /\ UNCHANGED laneVars
       ELSE AbortClient(t) /\ UNCHANGED <<published, limits, serverLane, sessionSlot>>
    /\ UNCHANGED <<handling, reader, posted, delivered, consumed, serving, taskVars, toServer, native, fault>>

\* A wait of the client times out, or its fabric fails.
ClientTimesOut(t) ==
    /\ call[t] \in Pumping \cup {"awaiting"}
    /\ AbortClient(t)
    /\ Faults
    /\ UNCHANGED <<limits, serverLane, sessionSlot, handling, pumpVars, serving, taskVars, wireVars, native>>

\* A transfer learns that its lane is gone.
ClientClosed(t) ==
    /\ call[t] \in Pumping \cup {"awaiting"}
    /\ clientLane \in {"broken", "failed"}
    /\ AbortClient(t)
    /\ UNCHANGED <<limits, serverLane, sessionSlot, handling, pumpVars, serving, taskVars, wireVars, native, fault>>

ReaderReads(t) ==
    /\ t \in reader
    /\ consumed[t] < published[t]
    /\ consumed' = [consumed EXCEPT ![t] = published[t]]
    /\ UNCHANGED <<laneVars, handling, call, reader, posted, delivered, published, serving, taskVars, wireVars, native, fault>>

\* The leases in the reader's channel go with it, and its permits.
ReaderLeaves(t) ==
    /\ t \in reader \cap Leavers
    /\ call[t] \in Pumping
    /\ reader' = reader \ {t}
    /\ consumed' = [consumed EXCEPT ![t] = published[t]]
    /\ UNCHANGED <<laneVars, handling, call, posted, delivered, published, serving, taskVars, wireVars, native, fault>>

Client(t) ==
    \/ handle_download(t) \/ connect(t) \/ request_piece(t) \/ ReceiveReady(t)
    \/ PostWindow(t) \/ FillEnds(t) \/ CompleteWindow(t) \/ finish_piece(t)
    \/ ClientTimesOut(t) \/ ClientClosed(t) \/ ReaderReads(t)

-----------------------------------------------------------------------------
(* The server's control reader and its loop over requests.                    *)

\* A request is admitted to the lane or answered with busy.
ReadRequest(t) ==
    /\ serverLane = "up"
    /\ ServerHas(t, "request")
    /\ TakeServer(t)
    /\ IF ~register_transfer({u \in Transfers : serving[u] \in Working \cup {"incoming"}}, limits.lane)
       THEN Serve(t, "refused") /\ SendClient(t, Frame("busy"))
       ELSE Serve(t, "incoming") /\ UNCHANGED toClient
    /\ UNCHANGED <<laneVars, handling, call, pumpVars, taskVars, native, fault>>

receive_request(t) ==
    /\ handling = "accepting"
    /\ serverLane # "failed"
    /\ serving[t] = "incoming"
    /\ Serve(t, "admission")
    /\ UNCHANGED <<laneVars, handling, call, pumpVars, taskVars, wireVars, native, fault>>

\* The loop ends with its lane; its transfers are aborted where they are, and
\* give back what they hold.
HandleEnds ==
    /\ handling = "accepting"
    /\ \/ serverLane = "failed"
       \/ serverLane = "broken" /\ \A t \in Transfers : serving[t] # "incoming"
    /\ handling' = "ended"
    /\ serverLane' = "failed"
    /\ serving' = [t \in Transfers |->
                    IF serving[t] \in Working \cup {"incoming"} THEN "aborted" ELSE serving[t]]
    /\ leases' = [t \in Transfers |-> 0]
    /\ permits' = {}
    /\ UNCHANGED <<limits, clientLane, sessionSlot, sticky, call, pumpVars, nextChunk, wireVars, native, fault>>

\* No request for longer than the client keeps an idle session: with transfers
\* the loop waits for all of them, without it closes the lane.
HandleIdle ==
    /\ handling = "accepting"
    /\ serverLane = "up"
    /\ \A t \in Transfers : /\ call[t] \notin {"new", "dial", "request", "awaiting"}
                            /\ serving[t] # "incoming" /\ ~ServerHas(t, "request")
    /\ IF \E t \in Transfers : serving[t] \in Working
       THEN handling' = "joining" /\ UNCHANGED serverLane
       ELSE handling' = "ended" /\ serverLane' = "closed"
    /\ UNCHANGED <<limits, clientLane, sessionSlot, sticky, call, pumpVars, serving, taskVars, wireVars, native, fault>>

HandleJoins ==
    /\ handling = "joining"
    /\ \A t \in Transfers : serving[t] \notin Working
    /\ handling' = "accepting"
    /\ UNCHANGED <<laneVars, call, pumpVars, serving, taskVars, wireVars, native, fault>>

-----------------------------------------------------------------------------
(* The server's task of one transfer.                                         *)

GiveBack(t) ==
    /\ leases' = [leases EXCEPT ![t] = 0]
    /\ permits' = permits \ {t}

\* reject_piece, abort and abort_peer: an error frame may go out before the lane
\* is closed; the task ends and drops what it holds.
AbortServer(t) ==
    /\ Serve(t, "failed")
    /\ serverLane' = "failed"
    /\ GiveBack(t)
    /\ SendClient(t, Frame("error")) \/ UNCHANGED toClient
    /\ UNCHANGED nextChunk

\* The peer is told that this is busy and may be tried again; the lane stays.
reject_piece_transient(t) ==
    /\ Serve(t, "busy")
    /\ SendClient(t, Frame("busy"))

acquire_process_transfer(t) ==
    /\ serving[t] = "admission"
    /\ IF Cardinality(permits) < limits.process
       THEN /\ permits' = permits \cup {t}
            /\ Serve(t, "tx")
            /\ UNCHANGED toClient
       ELSE reject_piece_transient(t) /\ UNCHANGED permits
    /\ UNCHANGED <<laneVars, handling, call, pumpVars, nextChunk, leases, toServer, native, fault>>

\* The first window is waited for; without one the peer is told busy.
acquire_tx_window(t) ==
    /\ serving[t] = "tx"
    /\ IF FreeWindows > 0
       THEN /\ leases' = [leases EXCEPT ![t] = 1]
            /\ Serve(t, "spare")
            /\ UNCHANGED <<permits, toClient>>
       ELSE GiveBack(t) /\ reject_piece_transient(t)
    /\ UNCHANGED <<laneVars, handling, call, pumpVars, nextChunk, toServer, native, fault>>

\* The second window goes back when somebody waits for a first one.
ReleaseSpare(n) == IF Waiters # {} THEN Smaller(n, 1) ELSE n

\* A second window is taken if nobody waits for a first one.
TakeSpare(t) ==
    leases' = IF Chunks > Inflight /\ Waiters = {} /\ FreeWindows > 0
              THEN [leases EXCEPT ![t] = 2]
              ELSE leases

ready(t) ==
    /\ serving[t] = "spare"
    /\ serverLane = "up"
    /\ TakeSpare(t)
    /\ SendClient(t, Frame("ready"))
    /\ Serve(t, "credit")
    /\ UNCHANGED <<laneVars, handling, call, pumpVars, nextChunk, permits, toServer, native, fault>>

\* send_next_registered_window: the client's window must be the expected one and
\* the filled window must fit it.
ReceivePosted(t) ==
    LET lease == tx_window_chunk_lengths(LengthOf(0, nextChunk[t]))
        expected == Window(nextChunk[t])
    IN  /\ serving[t] = "credit"
        /\ toServer[t] # <<>>
        /\ TakeServer(t)
        /\ IF /\ Head(toServer[t]) = Posted(expected)
              /\ lease.count = expected.count
              /\ lease.length = LengthOf(expected.start, expected.count)
           THEN Serve(t, "permit") /\ UNCHANGED <<serverLane, toClient, taskVars>>
           ELSE AbortServer(t)
        /\ UNCHANGED <<limits, clientLane, sessionSlot, sticky, handling, call, pumpVars, native, fault>>

SendWindow(t) ==
    /\ serving[t] = "permit"
    /\ serverLane = "up"
    /\ SendsUnderWay + SendCount(t) <= SendDepth
    /\ Serve(t, "sending")
    /\ UNCHANGED <<laneVars, handling, call, pumpVars, taskVars, wireVars, native, fault>>

\* The send completes on both sides. After the last one the windows and the permit
\* go back, before Done.
WindowSent(t) ==
    /\ serving[t] = "sending"
    /\ native >= SendCount(t)
    /\ native' = native - SendCount(t)
    /\ nextChunk' = [nextChunk EXCEPT ![t] = @ + SendCount(t)]
    /\ IF nextChunk[t] + SendCount(t) = Chunks
       THEN Serve(t, "finish") /\ GiveBack(t)
       ELSE /\ Serve(t, "credit")
            /\ leases' = [leases EXCEPT ![t] = ReleaseSpare(@)]
            /\ UNCHANGED permits
    /\ UNCHANGED <<laneVars, handling, call, pumpVars, wireVars, fault>>

SendDone(t) ==
    /\ serving[t] = "finish"
    /\ serverLane = "up"
    /\ SendClient(t, Frame("done"))
    /\ Serve(t, "done")
    /\ UNCHANGED <<laneVars, handling, call, pumpVars, taskVars, toServer, native, fault>>

\* Mutant: the server waits for receives without a timeout.
PatientServer(t) ==
    /\ serving[t] \in Working \ {"admission", "credit"}
    /\ AbortServer(t)
    /\ Faults
    /\ UNCHANGED <<limits, clientLane, sessionSlot, sticky, handling, call, pumpVars, toServer, native>>

\* A wait of the task times out, the piece is not there, or its content or the
\* fabric fails. Receives that a cancelled client never posts are no fault.
ServerFails(t) ==
    /\ serving[t] \in Working \ {"admission"}
    /\ AbortServer(t)
    /\ fault' = (fault \/ ~(serving[t] = "credit" /\ call[t] = "cancelled"))
    /\ UNCHANGED <<limits, clientLane, sessionSlot, sticky, handling, call, pumpVars, toServer, native>>

ServerClosed(t) ==
    /\ serving[t] \in Working \ {"admission"}
    /\ serverLane \in {"broken", "failed"}
    /\ AbortServer(t)
    /\ UNCHANGED <<limits, clientLane, sessionSlot, sticky, handling, call, pumpVars, toServer, native, fault>>

serve_transfer(t) ==
    \/ acquire_process_transfer(t) \/ acquire_tx_window(t) \/ ready(t)
    \/ ReceivePosted(t) \/ SendWindow(t) \/ WindowSent(t)
    \/ SendDone(t) \/ ServerFails(t) \/ ServerClosed(t)

Server(t) == ReadRequest(t) \/ receive_request(t) \/ serve_transfer(t)

-----------------------------------------------------------------------------
(* The control connection.                                                    *)

\* Identities of transfers that were dropped and not finished.
RetiredAtClient(t) == call[t] \in {"failed", "cancelled"}
RetiredAtServer(t) == serving[t] \in {"failed", "aborted"}

\* A frame of a retired transfer is dropped; one of an unknown transfer closes
\* the lane.
ClientRoutes(t) ==
    /\ clientLane = "up"
    /\ call[t] \in CallEnds
    /\ toClient[t] # <<>>
    /\ TakeClient(t)
    /\ clientLane' = IF RetiredAtClient(t) THEN clientLane ELSE "broken"
    /\ UNCHANGED <<limits, serverLane, sessionSlot, sticky, handling, call, pumpVars, serving, taskVars, toServer, native, fault>>

ServerRoutes(t) ==
    /\ serverLane = "up"
    /\ serving[t] \in TaskEnds
    /\ ServerHas(t, "posted")
    /\ TakeServer(t)
    /\ serverLane' = IF RetiredAtServer(t) THEN serverLane ELSE "broken"
    /\ UNCHANGED <<limits, clientLane, sessionSlot, sticky, handling, call, pumpVars, serving, taskVars, toClient, native, fault>>

\* A side that is closed closes the connection; the other reads its end.
ReadEnds ==
    /\ \/ /\ clientLane = "up"
          /\ serverLane \in {"broken", "failed", "closed"}
          /\ clientLane' = "broken"
          /\ UNCHANGED serverLane
       \/ /\ serverLane = "up"
          /\ clientLane \in {"broken", "failed"}
          /\ serverLane' = "broken"
          /\ UNCHANGED clientLane
    /\ UNCHANGED <<limits, sessionSlot, sticky, handling, call, pumpVars, serving, taskVars, wireVars, native, fault>>

\* The connection breaks, or the server is shut down.
LinkBreaks ==
    /\ clientLane = "up"
    /\ serverLane = "up"
    /\ \/ clientLane' = "broken" /\ UNCHANGED serverLane
       \/ serverLane' = "broken" /\ UNCHANGED clientLane
    /\ Faults
    /\ UNCHANGED <<limits, sessionSlot, sticky, handling, call, pumpVars, serving, taskVars, wireVars, native>>

Routes(t) == ClientRoutes(t) \/ ServerRoutes(t)
Lane == run \/ HandleEnds \/ HandleJoins \/ ReadEnds

Next ==
    \/ \E t \in Transfers : Client(t) \/ ReaderLeaves(t) \/ Server(t) \/ Routes(t)
    \/ Lane
    \/ HandleIdle
    \/ LinkBreaks

Spec == Init /\ [][Next]_vars

-----------------------------------------------------------------------------

\* A send never meets a lane without a receive for it: the receives that are posted
\* and unconsumed cover the sends under way, also after readers have left.
ReceivesPosted ==
    clientLane = "up" => SendsUnderWay <= native

\* A piece that the client completes was sent as a whole, in order, and the server
\* has finished it too; its last window reaches the reader only then.
CompleteIsConfirmed ==
    \A t \in Transfers :
        /\ call[t] = "done" => serving[t] = "done" /\ delivered[t] = Chunks
        /\ published[t] = Chunks => call[t] = "done"

\* Busy answers, full lanes, late frames and the sizes of the windows never cost the
\* lane, which all transfers share: it goes down for a fault, a reader that left, or
\* because it is idle.
LaneKept ==
    (~fault /\ reader = Transfers /\ serverLane # "closed")
        => clientLane \in {"none", "dialing", "up"} /\ serverLane \in {"none", "up"}

\* Every transfer must end on both sides, and the windows and permits of the server
\* be free again.
TransfersEnded ==
    /\ \A t \in Transfers : call[t] \in CallEnds /\ serving[t] \in TaskEnds
    /\ permits = {}
    /\ FreeWindows = TxWindows

=============================================================================
