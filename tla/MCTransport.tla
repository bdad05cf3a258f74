----------------------------- MODULE MCTransport -----------------------------
(* The transports of a piece, side by side: a behaviour is one of a TCP or    *)
(* QUIC download (PieceTransfer), of the URMA clients of a parent             *)
(* (UrmaParents) or of an URMA session (UrmaSession); the parts that it is    *)
(* not about stay as they start.                                              *)
EXTENDS UrmaSession

CONSTANTS
    Requests, Clients, PieceLength, Setups, Closings,
    Calls, Streaming, Bounds, d1, d2, d3

ASSUME RequestsAssumption == IsFiniteSet(Requests)
ASSUME ClientsAssumption ==
    IsFiniteSet(Clients) /\ Clients = 1 .. Cardinality(Clients) /\ None \notin Clients
ASSUME PieceLengthAssumption == PieceLength \in Nat
ASSUME SetupsAssumption ==
    Setups \subseteq [proto : {"tcp", "quic"}, pieces : {"task", "persistent", "persistent_cache"},
                      requests : SUBSET Requests]
ASSUME CallsAssumption ==
    IsFiniteSet(Calls) /\ None \notin Calls /\ None \notin 1 .. Cardinality(Calls)
ASSUME BoundsAssumption == Bounds \subseteq [calls : SUBSET Calls, failures : Nat]

VARIABLES
    part,
    proto, pieces, pool, made, inflight, closed, at, using, stale, handler, answer, sent, eof, got, counts,
    bound, fabricState, fabric, failed, penalty, capable, cached, generation, on, broken, succeeded, step, gate,
    locked, handle, doomed, retired, blamed, reported, faulted

Transfer == INSTANCE PieceTransfer
Parents == INSTANCE UrmaParents

\* Two requests at once for both protocols; one for each other kind of pieces.
TransferSetups ==
    {[proto |-> p, pieces |-> "task", requests |-> {1, 2}] : p \in {"tcp", "quic"}}
    \cup {[proto |-> p, pieces |-> k, requests |-> {1}] :
            p \in {"tcp", "quic"}, k \in {"persistent", "persistent_cache"}}

\* Three calls on one fabric; two while fabrics fail.
ParentsBounds == {[calls |-> {d1, d2, d3}, failures |-> 0], [calls |-> {d1, d2}, failures |-> 2]}

\* Both transfers at once, or one at a time for the server, or for the client.
SessionLimits ==
    {[client |-> 2, lane |-> 2, process |-> 2],
     [client |-> 2, lane |-> 1, process |-> 1],
     [client |-> 1, lane |-> 2, process |-> 2]}

transferVars == <<proto, pieces, pool, made, inflight, closed, at, using, stale, handler, answer, sent,
                  eof, got, counts>>
parentsVars == <<bound, fabricState, fabric, failed, penalty, capable, cached, generation, on, broken, succeeded,
                 step, gate, locked, handle, doomed, retired, blamed, reported, faulted>>
allVars == <<part, transferVars, parentsVars, vars>>

MCInit ==
    /\ part \in {"transfer", "parents", "session"}
    /\ Transfer!Init
    /\ Parents!Init
    /\ Init
    /\ part # "transfer" => proto = "tcp" /\ pieces = "task"
    /\ part # "parents" => bound.failures = 0
    /\ part # "session" => limits.lane = 1

MCNext ==
    \/ part = "transfer" /\ Transfer!Next /\ UNCHANGED <<part, parentsVars, vars>>
    \/ part = "parents" /\ Parents!Next /\ UNCHANGED <<part, transferVars, vars>>
    \/ part = "session" /\ Next /\ UNCHANGED <<part, transferVars, parentsVars>>

\* The downloading peer runs and its timers fire; of the parent nothing is assumed.
\* Every task of a session runs and its waits time out; its readers read.
Fairness ==
    /\ \A r \in Requests : WF_transferVars(part = "transfer" /\ Transfer!Peer(r))
    /\ \A c \in Calls : WF_parentsVars(part = "parents" /\ Parents!Call(c))
    /\ \A t \in Transfers : /\ WF_vars(part = "session" /\ Client(t))
                             /\ WF_vars(part = "session" /\ Server(t))
    /\ WF_vars(part = "session" /\ Lane)

MCSpec == MCInit /\ [][MCNext]_allVars /\ Fairness

-----------------------------------------------------------------------------

\* PieceTransfer, UrmaParents: every upload is counted once and no request goes out on a
\* client that it found closed and unused; one call at a time builds the client of a
\* parent, and one client costs its parent one penalty for its requests and one for
\* its failed transfers.
ClientsSafe ==
    /\ part = "transfer" => Transfer!TypeOK /\ Transfer!UploadsCountedOnce /\ Transfer!ClosedClientReplaced
    /\ part = "parents" => Parents!TypeOK /\ Parents!OneConstruction /\ Parents!PenaltiesPerClient

\* UrmaSession: no send meets a lane without a receive, a completed piece is complete
\* on both sides, and only a fault, a reader that left or idleness costs the lane.
SessionSafe == part = "session" => TypeOK /\ ReceivesPosted /\ CompleteIsConfirmed /\ LaneKept

\* UrmaParents: a call that failed on an older client leaves a healthy one alone.
HealthyClientKept == [][Parents!HealthyStep]_allVars

\* Every request over TCP or QUIC, every call of the URMA downloader and every URMA
\* transfer ends for good.
TransfersEnd ==
    <>[](/\ part = "transfer" => Transfer!RequestsEnded
         /\ part = "parents" => Parents!CallsEnded
         /\ part = "session" => TransfersEnded)
=============================================================================
