---------------------------- MODULE PersistentTask ----------------------------
(***************************************************************************)
(* Uploads, downloads and replications of one persistent task or one       *)
(* persistent cache task on one node.  The two kinds are copies of one     *)
(* another: a persistent task has an object in a source as well and may    *)
(* fall back on it, a persistent cache task lives on the peers only.       *)
(*                                                                         *)
(* Several calls work on the task at once and meet in the task record, the *)
(* piece records and the claims of the piece notifier.  Each call talks to *)
(* the scheduler on a stream of its own, which may end or fail anywhere;   *)
(* the reports of single pieces on that stream are left out.               *)
(* A piece is claimed, transferred and recorded as PieceLifecycle has it;  *)
(* the timeouts of its waiters are left to that module.                    *)
(***************************************************************************)
EXTENDS Naturals, FiniteSets

CONSTANTS
    Pieces,         \* piece numbers
    Calls,          \* calls that work on the task
    KindChoices,    \* the kinds the task may have
    OpChoices,      \* what the calls may be asked for: functions from Calls to an
                    \* operation, whether the client needs the content and whether
                    \* the client may leave
    MaxSchedules,   \* scheduler.max_schedule_count
    Parents,        \* parents that offer one piece
    Permits,        \* download.concurrent_piece_count
    None

Kinds == {"persistent", "persistent_cache"}
Ops == {"download", "replicate", "upload", "delete"}

ASSUME PiecesAssumption == Pieces \subseteq Nat
ASSUME CallsAssumption == None \notin Calls
ASSUME KindsAssumption == KindChoices \subseteq Kinds
ASSUME OpsAssumption ==
    OpChoices \subseteq [Calls -> [op : Ops, content : BOOLEAN, leaves : BOOLEAN]]
ASSUME ParametersAssumption ==
    MaxSchedules \in Nat /\ Parents \in Nat \ {0} /\ Permits \in Nat \ {0}

VARIABLES
    kind,       \* the kind of the task, fixed for good
    source,     \* TRUE when the source holds the object
    record,     \* marks of the task record, {} when there is none
    pieces,     \* piece -> state of its record
    claim,      \* piece -> call that holds its claim in the notifier
    call,       \* call -> where it is
    job,        \* call -> piece -> the spawned download of the piece
    told,       \* call -> what it has told the scheduler of itself
    sent,       \* call -> pieces sent to its client
    tainted     \* TRUE once a deletion or an overlapping import hit the task

vars == <<kind, source, record, pieces, claim, call, job, told, sent, tainted>>

Marks == {"here", "finished", "failed"}
JobStates == {"none", "queued", "run", "claimed", "own", "have", "sent", "done",
              "failed", "broken", "joined"}

NoJob == [at |-> "none", left |-> 0]
NoJobs == [p \in Pieces |-> NoJob]

NewCall(r) ==
    [op |-> r.op, pc |-> "idle", content |-> r.content, leaves |-> r.leaves,
     listening |-> TRUE, fetch |-> "none",
     todo |-> {}, want |-> {}, got |-> {}, part |-> {}, count |-> 0,
     interrupt |-> FALSE, empty |-> FALSE, put |-> "none", res |-> "none"]

Init ==
    /\ kind \in KindChoices
    /\ source \in (IF kind = "persistent" THEN BOOLEAN ELSE {FALSE})
    /\ record = {}
    /\ pieces = [p \in Pieces |-> "none"]
    /\ claim = [p \in Pieces |-> None]
    /\ \E op \in OpChoices : call = [c \in Calls |-> NewCall(op[c])]
    /\ job = [c \in Calls |-> NoJobs]
    /\ told = [c \in Calls |-> {}]
    /\ sent = [c \in Calls |-> {}]
    /\ tainted = FALSE

store == <<record, pieces, claim>>
Least(S) == CHOOSE p \in S : \A q \in S : p <= q
At(c, pc) == call[c].pc = pc
Tell(c, m) == told' = [told EXCEPT ![c] = @ \cup {m}]
Becomes(c, r) == call' = [call EXCEPT ![c] = r]
Go(c, pc) == Becomes(c, [call[c] EXCEPT !.pc = pc])
Return(c, res) ==
    Becomes(c, [NewCall(call[c]) EXCEPT !.pc = "done", !.res = res, !.empty = call[c].empty,
                                           !.listening = call[c].listening])
Settle(c, res) == [call[c] EXCEPT !.pc = "settle", !.res = res]

\* Three copies of the download code: for clients, for replication, and the
\* one both servers use for persistent cache tasks.
Path(c) ==
    IF kind = "persistent_cache" THEN "cache" ELSE call[c].op

-----------------------------------------------------------------------------
(* Accepting a call and starting the task record.                          *)

AcceptAs(c, path) ==
    /\ At(c, "idle")
    /\ call[c].op \in {"download", "replicate"}
    /\ Path(c) = path
    /\ Go(c, "stat")
    /\ UNCHANGED <<kind, source, store, job, told, sent, tainted>>

\* A client's download asks the source for the content length first.
Accept(c) == source /\ AcceptAs(c, "download")
AcceptReplication(c) == AcceptAs(c, "replicate")
AcceptCache(c) == call[c].op = "download" /\ AcceptAs(c, "cache")
AcceptCacheReplication(c) == call[c].op = "replicate" /\ AcceptAs(c, "cache")

\* Blocked, not in the source, not known to the scheduler, or no space left.
Refuse(c) ==
    /\ At(c, "idle") \/ At(c, "stat")
    /\ call[c].op \in {"download", "replicate"}
    /\ Return(c, "err")
    /\ UNCHANGED <<kind, source, store, job, told, sent, tainted>>

\* The record is put before the hard link to the output path is tried; a link
\* that fails and was required leaves the record as it is.
StartAs(c, path) ==
    /\ At(c, "stat")
    /\ Path(c) = path
    /\ record' = (record \ {"failed"}) \cup {"here"}
    /\ Go(c, "begin") \/ Return(c, "err")
    /\ UNCHANGED <<kind, source, pieces, claim, job, told, sent, tainted>>

download_started(c) == StartAs(c, "download")
download_started_for_replication(c) == StartAs(c, "replicate")
download_cache_started(c) == StartAs(c, "cache")

BeginAs(c, path) ==
    /\ At(c, "begin")
    /\ Path(c) = path
    /\ Becomes(c, IF call[c].listening
                  THEN [call[c] EXCEPT !.pc = "local", !.todo = Pieces, !.want = Pieces]
                  ELSE Settle(c, "err"))
    /\ UNCHANGED <<kind, source, store, job, told, sent, tainted>>

Begin(c) == BeginAs(c, "download")
BeginReplication(c) == BeginAs(c, "replicate")
BeginCache(c) == BeginAs(c, "cache")

-----------------------------------------------------------------------------
(* The pieces this node already has.                                       *)

\* Mutant: the check that the record is finished is forgotten.
FoundAnyRecord(p) == pieces[p] # "none"
FoundLocally(p) == pieces[p] = "stored"
\* The copy for persistent cache tasks takes any record for a finished one.
FoundInCache(p) == pieces[p] # "none"

Skip(c, p) ==
    /\ Becomes(c, [call[c] EXCEPT !.todo = @ \ {p}])
    /\ UNCHANGED <<job, told, sent>>

\* Mutant: the pieces found here are not sent.
KeepSilently(c, p) ==
    /\ Becomes(c, [call[c] EXCEPT !.pc = "local", !.todo = @ \ {p}, !.got = @ \cup {p}])
    /\ UNCHANGED <<job, told, sent>>
\* A send that fails loses the content the client asked for and ends the
\* call; without content it is only logged.
Keep(c, p) ==
    /\ Becomes(c, IF call[c].content /\ ~call[c].listening
                  THEN Settle(c, "err")
                  ELSE [call[c] EXCEPT !.pc = "local", !.todo = @ \ {p}, !.got = @ \cup {p}])
    /\ sent' = IF call[c].listening THEN [sent EXCEPT ![c] = @ \cup {p}] ELSE sent
    /\ UNCHANGED <<job, told>>

\* The loop looks at the pieces in order; found is the set taken as present.
LocalPiece(c, found) ==
    /\ At(c, "local")
    /\ call[c].todo # {}
    /\ LET p == Least(call[c].todo)
       IN  IF p \notin found THEN Skip(c, p)
           ELSE IF call[c].content
           THEN Go(c, "read") /\ UNCHANGED <<job, told, sent>>
           ELSE Keep(c, p)
    /\ UNCHANGED <<kind, source, store, tainted>>

LocalPersistent(c) == kind = "persistent" /\ LocalPiece(c, {p \in Pieces : FoundLocally(p)})
LocalCache(c) == kind = "persistent_cache" /\ LocalPiece(c, {p \in Pieces : FoundInCache(p)})

\* Reading waits until the piece is finished, and fails when it is gone.
LocalRead(c) ==
    /\ At(c, "read")
    /\ LET p == Least(call[c].todo)
       IN  \/ pieces[p] = "stored" /\ Keep(c, p)
           \/ /\ pieces[p] = "none"
              /\ Becomes(c, Settle(c, "err"))
              /\ UNCHANGED <<job, told, sent>>
    /\ UNCHANGED <<kind, source, store, tainted>>

LocalDone(c) ==
    /\ At(c, "local")
    /\ call[c].todo = {}
    /\ LET rest == call[c].want \ call[c].got
       IN  Becomes(c, IF rest = {} THEN Settle(c, "ok")
                      ELSE [call[c] EXCEPT !.pc = "register", !.want = rest, !.got = {}])
    /\ UNCHANGED <<kind, source, store, job, told, sent, tainted>>

-----------------------------------------------------------------------------
(* The conversation with the scheduler.                                    *)

RegisterAs(c, path) ==
    /\ At(c, "register")
    /\ Path(c) = path
    /\ Go(c, "await")
    /\ UNCHANGED <<kind, source, store, job, told, sent, tainted>>

Register(c) == RegisterAs(c, "download")
RegisterForReplication(c) == RegisterAs(c, "replicate")
RegisterCache(c) == RegisterAs(c, "cache")

Fetch(c, fetch, rest) ==
    [call[c] EXCEPT !.pc = "loop", !.fetch = fetch, !.todo = rest, !.part = {},
                    !.interrupt = FALSE]

\* The stream fails: only a client's download of a persistent task goes on,
\* with every piece the scheduler was asked for.
SchedulerFails(c) ==
    /\ At(c, "register") \/ At(c, "await") \/ At(c, "empty")
    /\ Becomes(c, IF Path(c) = "download"
                  THEN Fetch(c, "source", call[c].want)
                  ELSE Settle(c, "err"))
    /\ UNCHANGED <<kind, source, store, job, told, sent, tainted>>

StreamEnds(c) ==
    /\ At(c, "await")
    /\ Go(c, "back")
    /\ UNCHANGED <<kind, source, store, job, told, sent, tainted>>

\* Mutant: the count is compared before it is raised.
MayScheduleAgain(c) == call[c].count <= MaxSchedules
MaySchedule(c) == call[c].count < MaxSchedules

TooManyAs(c, path) ==
    /\ At(c, "await")
    /\ Path(c) = path
    /\ ~MaySchedule(c)
    /\ Go(c, "closing")
    /\ Tell(c, "failed")
    /\ UNCHANGED <<kind, source, store, job, sent, tainted>>

TooManySchedules(c) == TooManyAs(c, "download")
TooManyReplicationSchedules(c) == TooManyAs(c, "replicate")
TooManyCacheSchedules(c) == TooManyAs(c, "cache")

\* Two messages answer the news that the task is empty, in the order the
\* copy sends them.
EmptyAs(c, path, first) ==
    /\ At(c, "await")
    /\ Path(c) = path
    /\ MaySchedule(c)
    /\ Becomes(c, [call[c] EXCEPT !.pc = "empty", !.empty = TRUE, !.count = @ + 1])
    /\ Tell(c, first)
    /\ UNCHANGED <<kind, source, store, job, sent, tainted>>

EmptyTask(c) == EmptyAs(c, "download", "finished")
EmptyReplicationTask(c) == EmptyAs(c, "replicate", "finished")
EmptyCacheTask(c) == EmptyAs(c, "cache", "started")

EmptyToldBoth(c) ==
    /\ At(c, "empty")
    /\ Becomes(c, [call[c] EXCEPT !.pc = "closing", !.got = {}])
    /\ Tell(c, IF Path(c) = "cache" THEN "finished" ELSE "started")
    /\ UNCHANGED <<kind, source, store, job, sent, tainted>>

\* The parents of a round offer what is still missing.  The scheduler may
\* have closed the stream before the start could be told.
NormalAs(c, path) ==
    /\ At(c, "await")
    /\ Path(c) = path
    /\ MaySchedule(c)
    /\ \/ /\ Becomes(c, [Fetch(c, "parents", call[c].want \ call[c].got) EXCEPT !.count = @ + 1])
          /\ Tell(c, "started")
       \/ Go(c, "back") /\ UNCHANGED told
    /\ UNCHANGED <<kind, source, store, job, sent, tainted>>

NormalTask(c) == NormalAs(c, "download")
NormalReplicationTask(c) == NormalAs(c, "replicate")
NormalCacheTask(c) == NormalAs(c, "cache")

NeedBackToSource(c) ==
    /\ At(c, "await")
    /\ Path(c) = "download"
    /\ MaySchedule(c)
    /\ \/ /\ Becomes(c, Fetch(c, "b2s", call[c].want \ call[c].got))
          /\ Tell(c, "b2s_started")
       \/ Go(c, "back") /\ UNCHANGED told
    /\ UNCHANGED <<kind, source, store, job, sent, tainted>>

\* A replica is never made from the source.
RefuseBackToSource(c) ==
    /\ At(c, "await")
    /\ Path(c) = "replicate"
    /\ MaySchedule(c)
    /\ Go(c, "closing")
    /\ Tell(c, "b2s_failed")
    /\ UNCHANGED <<kind, source, store, job, sent, tainted>>

\* in_stream_tx.closed(): the scheduler ends the stream.
Closed(c) ==
    /\ At(c, "closing")
    /\ Go(c, "back")
    /\ UNCHANGED <<kind, source, store, job, told, sent, tainted>>

-----------------------------------------------------------------------------
(* The downloads of single pieces, spawned by a loop that waits for a      *)
(* permit before each.                                                     *)

Busy == {"run", "claimed", "own", "have", "sent"}
JobAt(c, p, at) == job[c][p].at = at
JobGoes(c, p, at) == job' = [job EXCEPT ![c][p].at = at]
Queue(c, p) ==
    /\ \A q \in Pieces : ~JobAt(c, q, "queued")
    /\ job' = [job EXCEPT ![c][p] =
                   [at |-> "queued", left |-> IF call[c].fetch = "parents" THEN Parents ELSE 1]]
    /\ Becomes(c, [call[c] EXCEPT !.todo = @ \ {p}])
    /\ UNCHANGED <<kind, source, store, told, sent, tainted>>

\* The collector names a piece and the parents that have it.
CollectAs(c, p, k) ==
    /\ kind = k
    /\ At(c, "loop") /\ call[c].fetch = "parents"
    /\ p \in call[c].todo
    /\ ~call[c].interrupt
    /\ Queue(c, p)

Collect(c, p) == CollectAs(c, p, "persistent")
CollectCache(c, p) == CollectAs(c, p, "persistent_cache")

\* No more pieces come, or the call was interrupted.
CollectEnds(c) ==
    /\ At(c, "loop") /\ call[c].fetch = "parents"
    /\ \A q \in Pieces : ~JobAt(c, q, "queued")
    /\ Go(c, "join")
    /\ UNCHANGED <<kind, source, store, job, told, sent, tainted>>

EachInterested(c) ==
    /\ At(c, "loop") /\ call[c].fetch \in {"b2s", "source"}
    /\ IF call[c].todo # {} THEN Queue(c, Least(call[c].todo))
       ELSE /\ \A q \in Pieces : ~JobAt(c, q, "queued")
            /\ Go(c, "join")
            /\ UNCHANGED <<kind, source, store, job, told, sent, tainted>>

Permit(c, p) ==
    /\ JobAt(c, p, "queued")
    /\ Cardinality({q \in Pieces : job[c][q].at \in Busy}) < Permits
    /\ JobGoes(c, p, "run")
    /\ UNCHANGED <<kind, source, store, call, told, sent, tainted>>

\* A finished piece is taken as it is; of those who want an unfinished one,
\* the first to claim it downloads it and the others wait.
Claim(c, p) ==
    /\ JobAt(c, p, "run")
    /\ IF pieces[p] = "stored"
       THEN JobGoes(c, p, "have") /\ UNCHANGED claim
       ELSE /\ claim[p] = None
            /\ claim' = [claim EXCEPT ![p] = c]
            /\ JobGoes(c, p, "claimed")
    /\ UNCHANGED <<kind, source, record, pieces, call, told, sent, tainted>>

PutStarted(c, p) ==
    /\ JobAt(c, p, "claimed")
    /\ pieces' = [pieces EXCEPT ![p] = "started"]
    /\ JobGoes(c, p, "own")
    /\ UNCHANGED <<kind, source, record, claim, call, told, sent, tainted>>

claim_piece(c, p) == Claim(c, p) \/ PutStarted(c, p)
download_persistent_piece_started(c, p) == kind = "persistent" /\ claim_piece(c, p)
download_persistent_cache_piece_started(c, p) == kind = "persistent_cache" /\ claim_piece(c, p)

StoreAs(c, p, fetches, k) ==
    /\ JobAt(c, p, "own")
    /\ call[c].fetch \in fetches /\ kind = k
    /\ pieces[p] # "none"
    /\ pieces' = [pieces EXCEPT ![p] = "stored"]
    /\ claim' = [claim EXCEPT ![p] = None]
    /\ JobGoes(c, p, "have")
    /\ UNCHANGED <<kind, source, record, call, told, sent, tainted>>

from_parent_finished(c, p) == StoreAs(c, p, {"parents"}, "persistent")
from_source_finished(c, p) == source /\ StoreAs(c, p, {"b2s", "source"}, "persistent")
cache_from_parent_finished(c, p) == StoreAs(c, p, {"parents"}, "persistent_cache")

Unfinished(S) == [p \in Pieces |-> IF p \in S /\ pieces[p] = "started" THEN "none" ELSE pieces[p]]
\* Mutant: an abandoned download keeps its claim.
AbandonKeepsClaim(S) == pieces' = Unfinished(S) /\ UNCHANGED claim
\* The guard of a download that fails or is dropped: the record goes unless
\* it says finished, and the claim is given back.
Abandon(S) ==
    /\ pieces' = Unfinished(S)
    /\ claim' = [p \in Pieces |-> IF p \in S THEN None ELSE claim[p]]

TransferFails(c, p) ==
    /\ JobAt(c, p, "own")
    /\ Abandon({p})
    /\ job' = [job EXCEPT ![c][p] = [at |-> IF @.left > 1 THEN "run" ELSE "failed",
                                     left |-> @.left - 1]]
    /\ UNCHANGED <<kind, source, record, call, told, sent, tainted>>

\* The job started by the scheduler's order to go back to the source reads
\* the content through the reader of ordinary tasks, which never finds it.
Readable(c, p) == pieces[p] = "stored" /\ call[c].fetch # "b2s"

\* The content is read and the piece sent to the client.  Only a job that
\* works for a parents' round interrupts it when that fails.
DeliverAs(c, p, k) ==
    /\ kind = k
    /\ JobAt(c, p, "have")
    /\ ~(call[c].content /\ pieces[p] = "started")
    /\ LET lost == call[c].content /\ (~Readable(c, p) \/ ~call[c].listening)
       IN  /\ JobGoes(c, p, IF lost THEN "broken" ELSE "sent")
           /\ Becomes(c, [call[c] EXCEPT !.interrupt = @ \/ lost \/ ~call[c].listening])
           /\ sent' = IF ~lost /\ call[c].listening
                      THEN [sent EXCEPT ![c] = @ \cup {p}] ELSE sent
    /\ UNCHANGED <<kind, source, store, told, tainted>>

Deliver(c, p) == DeliverAs(c, p, "persistent")
DeliverCache(c, p) == DeliverAs(c, p, "persistent_cache")

\* The piece is reported; a parents' round counts it at once.
ReportAs(c, p, k) ==
    /\ kind = k
    /\ JobAt(c, p, "sent")
    /\ JobGoes(c, p, "done")
    /\ Becomes(c, IF call[c].fetch = "parents"
                  THEN [call[c] EXCEPT !.part = @ \cup {p}] ELSE call[c])
    /\ UNCHANGED <<kind, source, store, told, sent, tainted>>

Report(c, p) == ReportAs(c, p, "persistent")
ReportCache(c, p) == ReportAs(c, p, "persistent_cache")

-----------------------------------------------------------------------------
(* Joining the spawned downloads.                                          *)

Settled == {"none", "joined"}
AllJoined(c) == At(c, "join") /\ \A p \in Pieces : job[c][p].at \in Settled

\* The downloads still running are aborted: their guards run.
Shutdown(c) ==
    /\ Abandon({p \in Pieces : job[c][p].at \in {"claimed", "own"}})
    /\ job' = [job EXCEPT ![c] = NoJobs]

\* The round of a persistent task goes on without a piece that failed.
JoinParent(c, p) ==
    /\ kind = "persistent"
    /\ At(c, "join") /\ call[c].fetch = "parents"
    /\ job[c][p].at \in {"done", "failed", "broken"}
    /\ JobGoes(c, p, "joined")
    /\ UNCHANGED <<kind, source, store, call, told, sent, tainted>>

\* That of a persistent cache task ends with the first that fails, and
\* forgets the pieces it finished.
JoinCacheParent(c, p) ==
    /\ kind = "persistent_cache"
    /\ At(c, "join") /\ call[c].fetch = "parents"
    /\ \/ /\ JobAt(c, p, "done")
          /\ JobGoes(c, p, "joined")
          /\ UNCHANGED <<pieces, claim, call>>
       \/ /\ job[c][p].at \in {"failed", "broken"}
          /\ Shutdown(c)
          /\ Becomes(c, [call[c] EXCEPT !.part = {}])
    /\ UNCHANGED <<kind, source, record, told, sent, tainted>>

JoinDone(c, p) ==
    /\ JobAt(c, p, "done")
    /\ JobGoes(c, p, "joined")
    /\ Becomes(c, [call[c] EXCEPT !.part = @ \cup {p}])
    /\ UNCHANGED <<pieces, claim, told>>

\* A piece the source does not give ends the call to it.
JoinBackToSource(c, p) ==
    /\ At(c, "join") /\ call[c].fetch = "b2s"
    /\ \/ JoinDone(c, p)
       \/ /\ job[c][p].at \in {"failed", "broken"}
          /\ Shutdown(c)
          /\ Tell(c, "b2s_failed")
          /\ Go(c, "closing")
    /\ UNCHANGED <<kind, source, record, sent, tainted>>

JoinSource(c, p) ==
    /\ At(c, "join") /\ call[c].fetch = "source"
    /\ \/ JoinDone(c, p)
       \/ /\ job[c][p].at \in {"failed", "broken"}
          /\ Shutdown(c)
          /\ Becomes(c, Settle(c, "err"))
          /\ UNCHANGED told
    /\ UNCHANGED <<kind, source, record, sent, tainted>>

\* Mutant: a round that ends early counts as the last one.
EnoughWhenAny(c, got) == got # {}
Enough(c, got) == got = call[c].want

\* After a round the scheduler hears either that the peer has finished or
\* that it needs other parents, if it still listens.
RoundDoneAs(c, path) ==
    /\ AllJoined(c)
    /\ Path(c) = path
    /\ call[c].fetch = "parents"
    /\ LET got == call[c].got \cup call[c].part
           next == [call[c] EXCEPT !.got = got, !.part = {}]
       IN  IF Enough(c, got)
           THEN Becomes(c, [next EXCEPT !.pc = "closing"]) /\ Tell(c, "finished")
           ELSE /\ \E pc \in {"await", "back"} : Becomes(c, [next EXCEPT !.pc = pc])
                /\ UNCHANGED told
    /\ job' = [job EXCEPT ![c] = NoJobs]
    /\ UNCHANGED <<kind, source, store, sent, tainted>>

RoundDone(c) == RoundDoneAs(c, "download")
ReplicationRoundDone(c) == RoundDoneAs(c, "replicate")
CacheRoundDone(c) == RoundDoneAs(c, "cache")

BackToSourceDone(c) ==
    /\ AllJoined(c)
    /\ call[c].fetch = "b2s"
    /\ Becomes(c, [call[c] EXCEPT !.got = @ \cup call[c].part, !.pc = "closing"])
    /\ Tell(c, "b2s_finished")
    /\ job' = [job EXCEPT ![c] = NoJobs]
    /\ UNCHANGED <<kind, source, store, sent, tainted>>

SourceDone(c) ==
    /\ AllJoined(c)
    /\ call[c].fetch = "source"
    /\ Becomes(c, Settle(c, "ok"))
    /\ job' = [job EXCEPT ![c] = NoJobs]
    /\ UNCHANGED <<kind, source, store, told, sent, tainted>>

-----------------------------------------------------------------------------
(* The end of a download.                                                  *)

BackAs(c, path, fallback) ==
    /\ At(c, "back")
    /\ Path(c) = path
    /\ LET rest == call[c].want \ call[c].got
       IN  Becomes(c, IF rest = {} THEN Settle(c, "ok")
                      ELSE IF fallback THEN Fetch(c, "source", rest)
                      ELSE Settle(c, "err"))
    /\ UNCHANGED <<kind, source, store, job, told, sent, tainted>>

Back(c) == BackAs(c, "download", TRUE)
BackToReplication(c) == BackAs(c, "replicate", FALSE)
BackToCache(c) == BackAs(c, "cache", FALSE)

\* The record is marked; then the content is copied to the output path and
\* its digest verified, which may fail and marks nothing.
SettleAs(c, path) ==
    /\ At(c, "settle")
    /\ Path(c) = path
    /\ IF record = {} THEN UNCHANGED record /\ Return(c, "err")
       ELSE IF call[c].res = "ok"
       THEN /\ record' = {"here", "finished"}
            /\ \E res \in {"ok", "err"} : Return(c, res)
       ELSE record' = record \cup {"failed"} /\ Return(c, "err")
    /\ UNCHANGED <<kind, source, pieces, claim, job, told, sent, tainted>>

Finish(c) == SettleAs(c, "download")
FinishReplication(c) == SettleAs(c, "replicate")
FinishCache(c) == call[c].op = "download" /\ SettleAs(c, "cache")
FinishCacheReplication(c) == call[c].op = "replicate" /\ SettleAs(c, "cache")

\* The client of a stream may leave at any time; the call goes on.
ClientLeaves(c) ==
    /\ call[c].leaves
    /\ call[c].op \in {"download", "replicate"}
    /\ ~At(c, "idle") /\ ~At(c, "done")
    /\ call[c].listening
    /\ Becomes(c, [call[c] EXCEPT !.listening = FALSE])
    /\ UNCHANGED <<kind, source, store, job, told, sent, tainted>>

-----------------------------------------------------------------------------
(* Uploads: the content is imported here and, for a persistent task, put   *)
(* to the source at the same time.                                         *)

AcceptUploadAs(c, k) ==
    /\ At(c, "idle") /\ call[c].op = "upload"
    /\ kind = k
    /\ Go(c, "u_start") \/ Return(c, "err")
    /\ UNCHANGED <<kind, source, store, job, told, sent, tainted>>

\* An object that exists in the source is not uploaded again.
AcceptUpload(c) == ~source /\ AcceptUploadAs(c, "persistent")
RefuseUpload(c) ==
    /\ At(c, "idle") /\ call[c].op = "upload"
    /\ source
    /\ Return(c, "err")
    /\ UNCHANGED <<kind, source, store, job, told, sent, tainted>>
AcceptCacheUpload(c) == AcceptUploadAs(c, "persistent_cache")

\* The scheduler hears of the upload before the space is checked, and does
\* not hear of it again when there is none or the directory cannot be made.
UploadStartedAs(c, k) ==
    /\ At(c, "u_start")
    /\ kind = k
    /\ \/ Return(c, "err") /\ UNCHANGED <<told, record>>
       \/ Return(c, "err") /\ Tell(c, "upload_started") /\ record' \in {record, {"here"}}
       \/ /\ Becomes(c, [call[c] EXCEPT !.pc = "u_content", !.todo = Pieces,
                                        !.put = IF k = "persistent" THEN "run" ELSE "ok"])
          /\ Tell(c, "upload_started")
          /\ record' = {"here"}
    /\ UNCHANGED <<kind, source, pieces, claim, job, sent, tainted>>

UploadStarted(c) == UploadStartedAs(c, "persistent")
CacheUploadStarted(c) == UploadStartedAs(c, "persistent_cache")

\* A piece is recorded as finished without a claim, be it linked or copied.
ImportAs(c, p, k) ==
    /\ At(c, "u_content")
    /\ kind = k
    /\ p \in call[c].todo
    /\ pieces' = [pieces EXCEPT ![p] = "stored"]
    /\ tainted' = (tainted \/ claim[p] # None)
    /\ Becomes(c, [call[c] EXCEPT !.todo = @ \ {p}])
    /\ UNCHANGED <<kind, source, record, claim, job, told, sent>>

upload_content_to_local(c, p) == ImportAs(c, p, "persistent")
upload_cache_content(c, p) == ImportAs(c, p, "persistent_cache")

upload_content_to_source(c) ==
    /\ At(c, "u_content")
    /\ call[c].put = "run"
    /\ source' = TRUE
    /\ Becomes(c, [call[c] EXCEPT !.put = "ok"])
    /\ UNCHANGED <<kind, store, job, told, sent, tainted>>

\* Either side fails and the other is dropped, the request to the source
\* perhaps after it took effect.
UploadContentFails(c) ==
    /\ At(c, "u_content")
    /\ call[c].todo # {} \/ call[c].put = "run"
    /\ source' \in (IF call[c].put = "run" THEN {source, TRUE} ELSE {source})
    /\ Go(c, "u_failed")
    /\ UNCHANGED <<kind, store, job, told, sent, tainted>>

\* Mutant: the import does not wait for the request to the source.
ImportedOnly(c) == call[c].todo = {}
Imported(c) == call[c].todo = {} /\ call[c].put = "ok"

UploadContentDone(c) ==
    /\ At(c, "u_content")
    /\ Imported(c)
    /\ IF record = {} THEN Go(c, "u_failed") /\ UNCHANGED record
       ELSE Go(c, "u_report") /\ record' = {"here", "finished"}
    /\ UNCHANGED <<kind, source, pieces, claim, job, told, sent, tainted>>

UploadFinishedAs(c, k) ==
    /\ At(c, "u_report")
    /\ kind = k
    /\ \/ Return(c, "ok") /\ Tell(c, "upload_finished")
       \/ Go(c, "u_failed") /\ UNCHANGED told
    /\ UNCHANGED <<kind, source, store, job, sent, tainted>>

UploadFinished(c) == UploadFinishedAs(c, "persistent")
CacheUploadFinished(c) == UploadFinishedAs(c, "persistent_cache")

\* A deletion removes the task record first and the piece records after it.
DeleteRecordAs(c, k) ==
    /\ At(c, "u_failed") \/ (At(c, "idle") /\ call[c].op = "delete")
    /\ kind = k
    /\ record' = {}
    /\ tainted' = TRUE
    /\ Go(c, "deleting")
    /\ UNCHANGED <<kind, source, pieces, claim, job, told, sent>>

delete_persistent_task(c) == DeleteRecordAs(c, "persistent")
delete_persistent_cache_task(c) == DeleteRecordAs(c, "persistent_cache")

delete_pieces(c) ==
    /\ At(c, "deleting")
    /\ pieces' = [p \in Pieces |-> "none"]
    /\ IF call[c].op = "upload"
       THEN Return(c, "err") /\ Tell(c, "upload_failed")
       ELSE Return(c, "ok") /\ UNCHANGED told
    /\ UNCHANGED <<kind, source, record, claim, job, sent, tainted>>

-----------------------------------------------------------------------------

Terminated ==
    /\ \A c \in Calls : At(c, "done")
    /\ UNCHANGED vars

Next ==
    \/ \E c \in Calls :
        \/ Accept(c) \/ AcceptReplication(c) \/ AcceptCache(c) \/ AcceptCacheReplication(c)
        \/ Refuse(c)
        \/ download_started(c) \/ download_started_for_replication(c) \/ download_cache_started(c)
        \/ Begin(c) \/ BeginReplication(c) \/ BeginCache(c)
        \/ LocalPersistent(c) \/ LocalCache(c) \/ LocalRead(c) \/ LocalDone(c)
        \/ Register(c) \/ RegisterForReplication(c) \/ RegisterCache(c)
        \/ SchedulerFails(c) \/ StreamEnds(c)
        \/ TooManySchedules(c) \/ TooManyReplicationSchedules(c) \/ TooManyCacheSchedules(c)
        \/ EmptyTask(c) \/ EmptyReplicationTask(c) \/ EmptyCacheTask(c) \/ EmptyToldBoth(c)
        \/ NormalTask(c) \/ NormalReplicationTask(c) \/ NormalCacheTask(c)
        \/ NeedBackToSource(c) \/ RefuseBackToSource(c) \/ Closed(c)
        \/ CollectEnds(c) \/ EachInterested(c)
        \/ RoundDone(c) \/ ReplicationRoundDone(c) \/ CacheRoundDone(c)
        \/ BackToSourceDone(c) \/ SourceDone(c)
        \/ Back(c) \/ BackToReplication(c) \/ BackToCache(c)
        \/ Finish(c) \/ FinishReplication(c) \/ FinishCache(c) \/ FinishCacheReplication(c)
        \/ ClientLeaves(c)
        \/ AcceptUpload(c) \/ RefuseUpload(c) \/ AcceptCacheUpload(c)
        \/ UploadStarted(c) \/ CacheUploadStarted(c)
        \/ upload_content_to_source(c) \/ UploadContentFails(c) \/ UploadContentDone(c)
        \/ UploadFinished(c) \/ CacheUploadFinished(c)
        \/ delete_persistent_task(c) \/ delete_persistent_cache_task(c) \/ delete_pieces(c)
    \/ \E c \in Calls, p \in Pieces :
        \/ Collect(c, p) \/ CollectCache(c, p) \/ Permit(c, p)
        \/ download_persistent_piece_started(c, p)
        \/ download_persistent_cache_piece_started(c, p)
        \/ from_parent_finished(c, p) \/ from_source_finished(c, p)
        \/ cache_from_parent_finished(c, p) \/ TransferFails(c, p)
        \/ Deliver(c, p) \/ DeliverCache(c, p) \/ Report(c, p) \/ ReportCache(c, p)
        \/ JoinParent(c, p) \/ JoinCacheParent(c, p)
        \/ JoinBackToSource(c, p) \/ JoinSource(c, p)
        \/ upload_content_to_local(c, p) \/ upload_cache_content(c, p)
    \/ Terminated

Spec == Init /\ [][Next]_vars

-----------------------------------------------------------------------------
(* Properties.                                                             *)

\* Type: the shape of the records, the claims and the calls.
TypeOK ==
    /\ kind \in Kinds /\ source \in BOOLEAN /\ tainted \in BOOLEAN
    /\ record \subseteq Marks /\ (record # {} => "here" \in record)
    /\ pieces \in [Pieces -> {"none", "started", "stored"}]
    /\ claim \in [Pieces -> Calls \cup {None}]
    /\ \A c \in Calls :
        /\ call[c].op \in Ops /\ call[c].res \in {"none", "ok", "err"}
        /\ call[c].got \subseteq Pieces /\ call[c].count \in 0..MaxSchedules
        /\ job[c] \in [Pieces -> [at : JobStates, left : 0..(Parents + 1)]]

\* download_persistent_task_finished and create_persistent_task_finished: a
\* record that says finished stands for a complete content, whatever calls
\* worked on the task at once (deletions and imports over a running download
\* apart). It is not so of a persistent cache task: its download_partial_from_local
\* takes a piece that another call has only started for one that is here.
FinishedIsComplete ==
    kind = "persistent" /\ ~tainted /\ "finished" \in record
        => \A p \in Pieces : pieces[p] = "stored"

\* DownloadPersistentPeerFinishedRequest: the scheduler hears that the peer
\* has finished only when it holds every piece it was asked for and has told
\* the client of each, unless the scheduler called the task empty itself.
ToldFinishedIsHeld ==
    \A c \in Calls :
        "finished" \in told[c] /\ ~call[c].empty =>
            /\ call[c].got = call[c].want
            /\ kind = "persistent" /\ ~tainted => \A p \in Pieces : pieces[p] = "stored"

\* download(): a call that succeeds has sent every piece to a client that
\* listened to the end, whichever of this node, parents and source gave it.
DeliveredWhole ==
    \A c \in Calls :
        At(c, "done") /\ call[c].res = "ok" /\ call[c].op \in {"download", "replicate"}
            /\ call[c].listening => sent[c] = Pieces

\* upload(): an upload that succeeds has its object in the source, a record
\* and every piece here, and the scheduler knows; a second upload of the task
\* may have started the record afresh.
UploadedIsServed ==
    \A c \in Calls :
        At(c, "done") /\ call[c].res = "ok" /\ call[c].op = "upload" =>
            /\ kind = "persistent" => source
            /\ "upload_finished" \in told[c]
            /\ ~tainted => record # {} /\ \A p \in Pieces : pieces[p] = "stored"

\* What a record or the scheduler calls finished is held.
FinishedIsHeld == FinishedIsComplete /\ ToldFinishedIsHeld

\* A call that succeeds has done what it was asked for.
SuccessIsHonest == DeliveredWhole /\ UploadedIsServed

\* The guards of the piece downloads: when all calls are over no claim is
\* held and no record is left unfinished, however they were cut off.
NothingLeftClaimed ==
    (\A c \in Calls : At(c, "done")) =>
        \A p \in Pieces : claim[p] = None /\ pieces[p] # "started"
=============================================================================
