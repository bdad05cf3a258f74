---------------------------- MODULE TaskDownload ----------------------------
(***************************************************************************)
(* Downloads of ONE task by concurrent download_task calls: the gRPC       *)
(* handler, the task record it keeps in the storage, and Task::download,   *)
(* which takes pieces from the local storage, waits for the ones another   *)
(* call is fetching, asks the scheduler for parents and falls back to the  *)
(* origin.  Every piece is fetched by a job of a JoinSet, under a          *)
(* semaphore, delivered to the client and reported to the scheduler.       *)
(*                                                                         *)
(* A piece is here what PieceStore promises of it: an owner while one call *)
(* fetches it, and whether it is stored.  PieceLifecycle shows that the    *)
(* storage keeps that promise; PiecesAreStored shows that this module asks *)
(* no more of it.  The scheduler, the parents, the origin and the client   *)
(* are the environment: they answer as the code has to expect of them.     *)
(***************************************************************************)
EXTENDS Naturals, FiniteSets

CONSTANTS
    Calls,            \* concurrent calls of the download_task handler
    Pieces,           \* the pieces of the task
    Requests,         \* Requests[c]: the requests call c may serve, see RequestsAssumption
    Parents,          \* how many candidate parents the scheduler may offer
    ConcurrentPieces, \* config.download.concurrent_piece_count
    MaxScheduleCount, \* config.scheduler.max_schedule_count
    MaxDeletes        \* bound: deletions of the task

NoCall == "nobody"

\* A request names the pieces its range covers and its options: the client wants
\* piece "content"; back-to-source is disabled ("no_source"); the range is no
\* longer than MIN_PIECE_LENGTH ("small"); the scheduling policy is "always"; the
\* full task is to be prefetched ("prefetch"); it is itself such a prefetch.
Options == {"content", "no_source", "small", "always", "prefetch", "is_prefetch"}

ASSUME CallsAssumption == NoCall \notin Calls /\ IsFiniteSet(Calls)
ASSUME PiecesAssumption == Pieces # {} /\ IsFiniteSet(Pieces)
ASSUME RequestsAssumption ==
    \A c \in Calls : Requests[c] \subseteq
        [range : (SUBSET Pieces) \ {{}}, opts : SUBSET (Options \ {"is_prefetch"})]
ASSUME ParametersAssumption ==
    /\ Parents \in Nat \ {0}
    /\ ConcurrentPieces \in Nat \ {0}
    /\ MaxScheduleCount \in Nat
    /\ MaxDeletes \in Nat

VARIABLES
    task,       \* the task record: the set of its marks; {} when there is none
    stored,     \* pieces with a finished record and their content
    owner,      \* owner[p]: the call whose job is fetching p, or NoCall
    pc,         \* where each call is
    req,        \* its request
    interested, \* pieces it still has to obtain
    finished,   \* pieces download_partial_with_scheduler has obtained
    mode,       \* who called the local lookup, or what its jobs fetch from
    todo,       \* pieces its running loop has yet to visit
    partial,    \* pieces the running loop has obtained
    job,        \* job[c][p]: where the job of call c for piece p is
    left,       \* left[c][p]: parents that job may still try
    watch,      \* watch[c][p]: "armed" or "fired" subscription of wait_for_in_flight_pieces
    interrupt,  \* calls whose interrupt flag is set
    round,      \* schedule_count
    peer,       \* last peer message the scheduler got from it
    gone,       \* calls whose client has dropped the response stream
    delivered,  \* pieces whose content was handed to its client
    hit,        \* calls whose task snapshot is finished, until they tell their client so
    prefetch,   \* its prefetch: "none", "due", "call", the call started, or "done"
    deletes

record == <<task, hit, prefetch>>
store  == <<stored, owner, watch>>
client == <<gone, delivered>>
plan   == <<interested, finished, round>>
loop   == <<mode, todo, partial, interrupt>>
jobs   == <<job, left>>
vars == <<task, stored, owner, pc, req, interested, finished, mode, todo, partial, job, left,
          watch, interrupt, round, peer, gone, delivered, hit, prefetch, deletes>>

Labels == {"idle", "stat", "begin", "subscribe", "lookup", "local", "in_flight", "route",
           "register", "receive", "collect", "permit", "spawn", "join", "closing",
           "settle", "fallback", "ok", "err", "done", "failed", "refused"}

Running == {"run", "own", "notify", "got", "sent"}
JobLabels == {"none", "ready", "ok", "lost", "backend_error", "exhausted"} \cup Running

NoRequest == [range |-> {}, opts |-> {}]

TypeOK ==
    /\ task \subseteq {"known", "sized", "finished", "failed", "prefetched"}
    /\ stored \subseteq Pieces
    /\ owner \in [Pieces -> Calls \cup {NoCall}]
    /\ pc \in [Calls -> Labels]
    /\ req \in [Calls -> [range : SUBSET Pieces, opts : SUBSET Options]]
    /\ interested \in [Calls -> SUBSET Pieces]
    /\ finished \in [Calls -> SUBSET Pieces]
    /\ mode \in [Calls -> {"local", "in_flight", "parent", "sched_source", "source"}]
    /\ todo \in [Calls -> SUBSET Pieces]
    /\ partial \in [Calls -> SUBSET Pieces]
    /\ job \in [Calls -> [Pieces -> JobLabels]]
    /\ left \in [Calls -> [Pieces -> 0..Parents]]
    /\ watch \in [Calls -> [Pieces -> {"none", "armed", "fired"}]]
    /\ interrupt \subseteq Calls
    /\ round \in [Calls -> 0..(MaxScheduleCount + 1)]
    /\ peer \in [Calls -> {"none", "registered", "running", "rescheduled", "back_to_source",
                           "finished_empty", "finished", "failed"}]
    /\ gone \subseteq Calls
    /\ delivered \in [Calls -> SUBSET Pieces]
    /\ hit \subseteq Calls
    /\ prefetch \in [Calls -> {"none", "due", "call", "done"} \cup Calls]
    /\ deletes \in 0..MaxDeletes

Init ==
    /\ task = {} /\ stored = {} /\ hit = {} /\ gone = {} /\ interrupt = {}
    /\ owner = [p \in Pieces |-> NoCall]
    /\ pc = [c \in Calls |-> "idle"]
    /\ req = [c \in Calls |-> NoRequest]
    /\ interested = [c \in Calls |-> {}]
    /\ finished = [c \in Calls |-> {}]
    /\ mode = [c \in Calls |-> "local"]
    /\ todo = [c \in Calls |-> {}]
    /\ partial = [c \in Calls |-> {}]
    /\ job = [c \in Calls |-> [p \in Pieces |-> "none"]]
    /\ left = [c \in Calls |-> [p \in Pieces |-> 0]]
    /\ watch = [c \in Calls |-> [p \in Pieces |-> "none"]]
    /\ round = [c \in Calls |-> 0]
    /\ peer = [c \in Calls |-> "none"]
    /\ delivered = [c \in Calls |-> {}]
    /\ prefetch = [c \in Calls |-> "none"]
    /\ deletes = 0

Goto(c, label) == pc' = [pc EXCEPT ![c] = label]
Has(c, option) == option \in req[c].opts

-----------------------------------------------------------------------------
(* The gRPC handler up to the spawn of the download: the task record.      *)

\* prepare_download_task: a sized record that has not failed is reused, and the
\* request works with the snapshot of it; otherwise the origin is asked again.
Prepare(c, r) ==
    /\ pc[c] = "idle"
    /\ req' = [req EXCEPT ![c] = r]
    /\ \/ /\ {"known", "sized"} \subseteq task /\ "failed" \notin task
          /\ hit' = IF "finished" \in task THEN hit \cup {c} ELSE hit
          /\ Goto(c, "begin")
          /\ UNCHANGED task
       \/ /\ ~({"known", "sized"} \subseteq task /\ "failed" \notin task)
          /\ task' = (task \ {"failed"}) \cup {"known"}
          /\ Goto(c, "stat")
          /\ UNCHANGED hit
    /\ UNCHANGED <<store, client, peer, plan, loop, jobs, deletes>>

Accept(c) == \E r \in Requests[c] : Prepare(c, r) /\ UNCHANGED prefetch

download_task_failed == task' = IF "known" \in task THEN task \cup {"failed"} ELSE task

\* Task::download_started after the stat of the origin.  A backend error marks the
\* task failed; any other error (no content length, no space) does not.
Stat(c) ==
    /\ pc[c] = "stat"
    /\ \/ /\ task' = (task \ {"failed"}) \cup {"known", "sized"}
          /\ hit' = IF "finished" \in task THEN hit \cup {c} ELSE hit
          /\ Goto(c, "begin")
       \/ download_task_failed /\ Goto(c, "refused") /\ UNCHANGED hit
       \/ Goto(c, "refused") /\ UNCHANGED <<task, hit>>
    /\ UNCHANGED <<prefetch, store, req, client, peer, plan, loop, jobs, deletes>>

\* The request is refused before the download is spawned: the output path cannot be
\* linked although force_hard_link is set, or the range header does not parse.
Refuse(c) ==
    /\ pc[c] = "begin"
    /\ UNCHANGED task \/ download_task_failed
    /\ Goto(c, "refused")
    /\ hit' = hit \ {c}
    /\ UNCHANGED <<prefetch, store, req, client, peer, plan, loop, jobs, deletes>>

\* The download is spawned and sends its started response; the handler goes on to
\* the prefetch.
Begin(c) ==
    /\ pc[c] = "begin"
    /\ prefetch' = IF Has(c, "prefetch") THEN [prefetch EXCEPT ![c] = "due"] ELSE prefetch
    /\ interested' = [interested EXCEPT ![c] = req[c].range]
    /\ mode' = [mode EXCEPT ![c] = "local"]
    /\ Goto(c, IF c \in gone THEN "err" ELSE "lookup")
    /\ hit' = hit \ {c}
    /\ UNCHANGED <<task, store, req, client, peer, finished, round, todo, partial,
                   interrupt, jobs, deletes>>

-----------------------------------------------------------------------------
(* Prefetch of the full task, by a call of its own.                        *)

PrefetchStarted(c) ==
    /\ prefetch[c] = "due"
    /\ \/ /\ "known" \in task /\ "prefetched" \notin task
          /\ task' = (task \ {"failed"}) \cup {"prefetched"}
          /\ prefetch' = [prefetch EXCEPT ![c] = "call"]
       \/ /\ "known" \notin task \/ "prefetched" \in task
          /\ prefetch' = [prefetch EXCEPT ![c] = "done"]
          /\ UNCHANGED task
    /\ UNCHANGED <<pc, hit, store, req, client, peer, plan, loop, jobs, deletes>>

\* prefetch_task drops the range and the prefetch flag of the request it copies.
PrefetchRequest(r) ==
    [range |-> Pieces, opts |-> (r.opts \ {"prefetch", "small"}) \cup {"is_prefetch"}]

PrefetchCall(c, d) ==
    /\ prefetch[c] = "call"
    /\ prefetch' = [prefetch EXCEPT ![c] = d]
    /\ Prepare(d, PrefetchRequest(req[c]))

prefetch_task_failed ==
    task' = IF "known" \in task THEN (task \ {"prefetched"}) \cup {"failed"} ELSE task

\* The call of prefetch_task fails (to connect, or refused), or is accepted.
PrefetchReturns(c) ==
    /\ \/ prefetch[c] = "call" /\ prefetch_task_failed
       \/ \E d \in Calls :
            /\ prefetch[c] = d
            /\ \/ pc[d] = "refused" /\ prefetch_task_failed
               \/ pc[d] \notin {"stat", "begin", "refused"} /\ UNCHANGED task
    /\ prefetch' = [prefetch EXCEPT ![c] = "done"]
    /\ UNCHANGED <<pc, hit, store, req, client, peer, plan, loop, jobs, deletes>>

-----------------------------------------------------------------------------
(* Pieces from the local storage, and the wait for the ones in flight.     *)

\* download_partial_from_local reads the piece records in one batch ...
Lookup(c) ==
    /\ pc[c] = "lookup"
    /\ todo' = [todo EXCEPT ![c] = interested[c] \cap stored]
    /\ partial' = [partial EXCEPT ![c] = {}]
    /\ Goto(c, "local")
    /\ UNCHANGED <<record, store, req, client, peer, plan, mode, interrupt, jobs, deletes>>

\* Hands p to the client of c.  Content that cannot be read (the task was deleted)
\* or sent fails; without content a failed send is only logged.
Delivers(c, p) == Has(c, "content") => p \in stored /\ c \notin gone
Deliver(c, p) ==
    delivered' = IF Has(c, "content") THEN [delivered EXCEPT ![c] = @ \cup {p}] ELSE delivered

\* ... and then delivers the finished ones.
LocalPiece(c, p) ==
    /\ pc[c] = "local" /\ p \in todo[c]
    /\ \/ /\ Delivers(c, p)
          /\ Deliver(c, p)
          /\ partial' = [partial EXCEPT ![c] = @ \cup {p}]
          /\ todo' = [todo EXCEPT ![c] = @ \ {p}]
          /\ UNCHANGED pc
       \/ ~Delivers(c, p) /\ Goto(c, "err") /\ UNCHANGED <<delivered, partial, todo>>
    /\ UNCHANGED <<record, store, req, gone, peer, plan, mode, interrupt, jobs, deletes>>

LocalDone(c) ==
    LET remaining == interested[c] \ partial[c]
        watched   == {p \in remaining : watch[c][p] # "none"}
    IN
    /\ pc[c] = "local" /\ todo[c] = {}
    /\ interested' = [interested EXCEPT ![c] = remaining]
    /\ partial' = [partial EXCEPT ![c] = {}]
    /\ Goto(c, IF remaining = {} THEN "ok"
               ELSE IF mode[c] = "local"
                    THEN IF ~Has(c, "is_prefetch") /\ "prefetched" \in task
                         THEN "subscribe" ELSE "route"
                    ELSE IF watched # {} THEN "in_flight" ELSE "route")
    /\ UNCHANGED <<record, store, req, client, peer, finished, round, mode, todo, interrupt,
                   jobs, deletes>>

\* wait_for_in_flight_pieces: subscribe first, look into the storage afterwards.
Subscribe(c) ==
    /\ pc[c] = "subscribe"
    /\ watch' = [watch EXCEPT ![c] = [p \in Pieces |->
           IF p \in interested[c] /\ owner[p] # NoCall THEN "armed" ELSE "none"]]
    /\ mode' = [mode EXCEPT ![c] = "in_flight"]
    /\ Goto(c, "lookup")
    /\ UNCHANGED <<record, stored, owner, req, client, peer, plan, todo, partial, interrupt,
                   jobs, deletes>>

\* One of the subscriptions fires, or the second is over.
InFlight(c) ==
    /\ pc[c] = "in_flight"
    /\ \/ (\E p \in interested[c] : watch[c][p] = "fired") /\ Goto(c, "subscribe")
       \/ Goto(c, "route")
    /\ UNCHANGED <<record, store, req, client, peer, plan, loop, jobs, deletes>>

-----------------------------------------------------------------------------
(* The announce_peer stream to the scheduler.                              *)

\* A message about the peer reaches the scheduler, or is lost: the scheduler has
\* closed the stream, or the send times out.
Tell(c, message) == peer' = [peer EXCEPT ![c] = message]
Lose(c) == UNCHANGED peer

\* Jobs for S are about to be made, fetching from m.
StartLoop(c, m, S) ==
    /\ mode' = [mode EXCEPT ![c] = m]
    /\ todo' = [todo EXCEPT ![c] = S]
    /\ partial' = [partial EXCEPT ![c] = {}]
    /\ interrupt' = interrupt \ {c}

\* The loop has returned what it obtained, and its locals are gone.
EndLoop(c) == StartLoop(c, "local", {})

should_bypass_scheduler(c) == Has(c, "small") /\ ~Has(c, "always") /\ ~Has(c, "no_source")

Route(c) ==
    /\ pc[c] = "route"
    /\ \/ /\ should_bypass_scheduler(c)
          /\ StartLoop(c, "source", interested[c])
          /\ Goto(c, "spawn")
       \/ ~should_bypass_scheduler(c) /\ Goto(c, "register") /\ UNCHANGED loop
    /\ UNCHANGED <<record, store, req, client, peer, plan, jobs, deletes>>

Register(c) ==
    /\ pc[c] = "register"
    /\ \/ Tell(c, "registered") /\ Goto(c, "receive")
       \/ Goto(c, "fallback") /\ UNCHANGED peer
    /\ UNCHANGED <<record, store, req, client, plan, loop, jobs, deletes>>

\* A response arrives and is counted.
Response(c) ==
    /\ pc[c] = "receive"
    /\ round' = [round EXCEPT ![c] = @ + 1]
    /\ UNCHANGED <<record, store, req, client, interested, jobs, deletes>>

TooManySchedules(c) ==
    /\ Response(c) /\ round[c] = MaxScheduleCount
    /\ Tell(c, "failed") \/ Lose(c)
    /\ Goto(c, "closing")
    /\ UNCHANGED <<finished, loop>>

\* The scheduler says that the task is empty: the peer sends started and the same
\* finished request as any other, but has no pieces to hold; told apart for that.
EmptyTask(c) ==
    /\ Response(c) /\ round[c] < MaxScheduleCount
    /\ \/ /\ Tell(c, "finished_empty")
          /\ finished' = [finished EXCEPT ![c] = {}]
          /\ Goto(c, "closing")
       \/ Lose(c) /\ Goto(c, "fallback") /\ UNCHANGED finished
    /\ UNCHANGED loop

\* Mutant: schedules are counted but not limited.
NormalTaskUnlimited(c) ==
    /\ Response(c)
    /\ \/ /\ Tell(c, "running")
          /\ StartLoop(c, "parent", interested[c] \ finished[c])
          /\ Goto(c, "collect") \/ Goto(c, "join")
       \/ Lose(c) /\ Goto(c, "settle") /\ UNCHANGED loop
    /\ UNCHANGED finished

\* Candidate parents: their pieces are collected, unless they cannot be registered
\* with the parent selector.
NormalTask(c) ==
    /\ Response(c) /\ round[c] < MaxScheduleCount
    /\ \/ /\ Tell(c, "running")
          /\ StartLoop(c, "parent", interested[c] \ finished[c])
          /\ Goto(c, "collect") \/ Goto(c, "join")
       \/ Lose(c) /\ Goto(c, "settle") /\ UNCHANGED loop
    /\ UNCHANGED finished

NeedBackToSource(c) ==
    /\ Response(c) /\ round[c] < MaxScheduleCount
    /\ \/ /\ Tell(c, "back_to_source")
          /\ StartLoop(c, "sched_source", interested[c] \ finished[c])
          /\ Goto(c, "spawn")
       \/ Lose(c) /\ Goto(c, "settle") /\ UNCHANGED loop
    /\ UNCHANGED finished

\* The stream ends, fails, times out or brings a response that is not expected.
StreamEnds(c) ==
    /\ pc[c] = "receive"
    /\ Goto(c, "settle") \/ Goto(c, "fallback")
    /\ UNCHANGED <<record, store, req, client, peer, plan, loop, jobs, deletes>>

\* in_stream_tx.closed().await: the scheduler drops the stream.
Closed(c) ==
    /\ pc[c] = "closing"
    /\ Goto(c, "settle")
    /\ UNCHANGED <<record, store, req, client, peer, plan, loop, jobs, deletes>>

-----------------------------------------------------------------------------
(* The JoinSet: jobs are made under the semaphore, then joined.            *)

FreePermit(c) == Cardinality({p \in Pieces : job[c][p] \in Running}) < ConcurrentPieces

\* The piece collector names a piece and n parents that have it.
Collect(c, p, n) ==
    /\ pc[c] = "collect" /\ c \notin interrupt /\ p \in todo[c]
    /\ job' = [job EXCEPT ![c][p] = "ready"]
    /\ left' = [left EXCEPT ![c][p] = n]
    /\ todo' = [todo EXCEPT ![c] = @ \ {p}]
    /\ Goto(c, "permit")
    /\ UNCHANGED <<record, store, req, client, peer, plan, mode, partial, interrupt, deletes>>

\* The collector has no more, or the interrupt is seen when it names a piece.
CollectEnds(c) ==
    /\ pc[c] = "collect"
    /\ todo' = [todo EXCEPT ![c] = {}]
    /\ Goto(c, "join")
    /\ UNCHANGED <<record, store, req, client, peer, plan, mode, partial, interrupt, jobs, deletes>>

Permit(c, p) ==
    /\ pc[c] = "permit" /\ job[c][p] = "ready" /\ FreePermit(c)
    /\ job' = [job EXCEPT ![c][p] = "run"]
    /\ Goto(c, "collect")
    /\ UNCHANGED <<record, store, req, client, peer, plan, loop, left, deletes>>

\* A fetch from the origin makes a job for every piece before it joins any.
Spawn(c) ==
    /\ pc[c] = "spawn"
    /\ \/ \E p \in todo[c] :
            /\ FreePermit(c)
            /\ job' = [job EXCEPT ![c][p] = "run"]
            /\ todo' = [todo EXCEPT ![c] = @ \ {p}]
            /\ UNCHANGED pc
       \/ todo[c] = {} /\ Goto(c, "join") /\ UNCHANGED <<job, todo>>
    /\ UNCHANGED <<record, store, req, client, peer, plan, mode, partial, interrupt, left, deletes>>

\* Pieces S are no longer fetched: their owners and notifiers go, waiters wake up.
Release(S) ==
    /\ owner' = [p \in Pieces |-> IF p \in S THEN NoCall ELSE owner[p]]
    /\ watch' = [c \in Calls |-> [p \in Pieces |->
           IF p \in S /\ watch[c][p] = "armed" THEN "fired" ELSE watch[c][p]]]

\* Mutant: a piece that another call has stored meanwhile is fetched again.
JobStartAgain(c, p) ==
    /\ job[c][p] = "run"
    /\ \/ p \in stored /\ job' = [job EXCEPT ![c][p] = "got"] /\ UNCHANGED owner
       \/ /\ owner[p] = NoCall
          /\ owner' = [owner EXCEPT ![p] = c]
          /\ job' = [job EXCEPT ![c][p] = "own"]
    /\ UNCHANGED <<record, stored, watch, pc, req, client, peer, plan, loop, left, deletes>>

\* Piece::download_from_parent or download_from_source: a stored piece is taken as
\* it is, a piece another call fetches is waited for.
JobStart(c, p) ==
    /\ job[c][p] = "run"
    /\ \/ p \in stored /\ job' = [job EXCEPT ![c][p] = "got"] /\ UNCHANGED owner
       \/ /\ p \notin stored /\ owner[p] = NoCall
          /\ owner' = [owner EXCEPT ![p] = c]
          /\ job' = [job EXCEPT ![c][p] = "own"]
    /\ UNCHANGED <<record, stored, watch, pc, req, client, peer, plan, loop, left, deletes>>

JobStore(c, p) ==
    /\ job[c][p] = "own"
    /\ stored' = stored \cup {p}
    /\ job' = [job EXCEPT ![c][p] = "notify"]
    /\ UNCHANGED <<record, owner, watch, pc, req, client, peer, plan, loop, left, deletes>>

JobNotify(c, p) ==
    /\ job[c][p] = "notify"
    /\ Release({p})
    /\ job' = [job EXCEPT ![c][p] = "got"]
    /\ UNCHANGED <<record, stored, pc, req, client, peer, plan, loop, left, deletes>>

\* Mutant: a failed transfer keeps its claim.
JobFailClaimed(c, p) ==
    /\ job[c][p] = "own"
    /\ \/ /\ mode[c] = "parent"
          /\ left' = [left EXCEPT ![c][p] = @ - 1]
          /\ job' = [job EXCEPT ![c][p] = IF left[c][p] > 1 THEN "run" ELSE "exhausted"]
       \/ /\ mode[c] # "parent"
          /\ \E error \in {"backend_error", "lost"} : job' = [job EXCEPT ![c][p] = error]
          /\ UNCHANGED left
    /\ UNCHANGED <<record, store, pc, req, client, peer, plan, loop, deletes>>

\* The transfer fails.  A job that fetches from parents tries the next one.
JobFail(c, p) ==
    /\ job[c][p] = "own"
    /\ Release({p})
    /\ \/ /\ mode[c] = "parent"
          /\ left' = [left EXCEPT ![c][p] = @ - 1]
          /\ job' = [job EXCEPT ![c][p] = IF left[c][p] > 1 THEN "run" ELSE "exhausted"]
       \/ /\ mode[c] # "parent"
          /\ \E error \in {"backend_error", "lost"} : job' = [job EXCEPT ![c][p] = error]
          /\ UNCHANGED left
    /\ UNCHANGED <<record, stored, pc, req, client, peer, plan, loop, deletes>>

\* Mutant: a failed delivery of content is only logged.
JobDeliverLogged(c, p) ==
    /\ job[c][p] = "got"
    /\ \/ Delivers(c, p) /\ Deliver(c, p)
       \/ ~Delivers(c, p) /\ UNCHANGED delivered
    /\ job' = [job EXCEPT ![c][p] = IF mode[c] = "source" THEN "ok" ELSE "sent"]
    /\ interrupt' = IF mode[c] = "parent" /\ (c \in gone \/ ~Delivers(c, p))
                    THEN interrupt \cup {c} ELSE interrupt
    /\ UNCHANGED <<record, store, pc, req, gone, peer, plan, mode, todo, partial, left, deletes>>

\* The piece goes to the client.  A job that fetches from a parent interrupts the
\* collector when that fails.
JobDeliver(c, p) ==
    /\ job[c][p] = "got"
    /\ \/ /\ Delivers(c, p)
          /\ Deliver(c, p)
          /\ job' = [job EXCEPT ![c][p] = IF mode[c] = "source" THEN "ok" ELSE "sent"]
       \/ ~Delivers(c, p) /\ job' = [job EXCEPT ![c][p] = "lost"] /\ UNCHANGED delivered
    /\ interrupt' = IF mode[c] = "parent" /\ (c \in gone \/ ~Delivers(c, p))
                    THEN interrupt \cup {c} ELSE interrupt
    /\ UNCHANGED <<record, store, pc, req, gone, peer, plan, mode, todo, partial, left, deletes>>

\* The finished piece is reported to the scheduler.  A job that fetches from a parent
\* counts its piece itself, and interrupts the collector when the report is lost.
JobReport(c, p) ==
    /\ job[c][p] = "sent"
    /\ job' = [job EXCEPT ![c][p] = "ok"]
    /\ \/ UNCHANGED interrupt
       \/ mode[c] = "parent" /\ interrupt' = interrupt \cup {c}
    /\ partial' = IF mode[c] = "parent" THEN [partial EXCEPT ![c] = @ \cup {p}] ELSE partial
    /\ UNCHANGED <<record, store, pc, req, client, peer, plan, mode, todo, left, deletes>>

\* join_next: a result is taken.  The failures of jobs that fetch from parents are
\* ignored.  (A failed delivery is an MpscSend error, so the SendTimeout branches of
\* the three loops are not taken.)
Join(c, p) ==
    /\ pc[c] = "join"
    /\ \/ job[c][p] = "ok"
       \/ mode[c] = "parent" /\ job[c][p] \in {"lost", "exhausted"}
    /\ job' = [job EXCEPT ![c][p] = "none"]
    /\ left' = [left EXCEPT ![c][p] = 0]
    /\ partial' = IF mode[c] = "parent" THEN partial ELSE [partial EXCEPT ![c] = @ \cup {p}]
    /\ UNCHANGED <<record, store, pc, req, client, peer, plan, mode, todo, interrupt, deletes>>

\* Mutant: the aborted jobs leave their pieces claimed.
ShutdownClaimed(c) ==
    /\ job' = [job EXCEPT ![c] = [p \in Pieces |-> "none"]]
    /\ UNCHANGED <<owner, watch>>

\* join_set.shutdown().await: every job of the call is aborted where it is.
Shutdown(c) ==
    /\ job' = [job EXCEPT ![c] = [p \in Pieces |-> "none"]]
    /\ Release({p \in Pieces : owner[p] = c})

\* A failed fetch from the origin ends the loop.  Under the scheduler the peer has
\* failed and the pieces it obtained are not counted.
JoinError(c) ==
    /\ pc[c] = "join" /\ mode[c] # "parent"
    /\ \E p \in Pieces : job[c][p] \in {"lost", "backend_error"}
    /\ Shutdown(c)
    /\ \/ mode[c] = "sched_source" /\ (Tell(c, "failed") \/ Lose(c)) /\ Goto(c, "closing")
       \/ mode[c] = "source" /\ Goto(c, "err") /\ UNCHANGED peer
    /\ EndLoop(c)
    /\ left' = [left EXCEPT ![c] = [p \in Pieces |-> 0]]
    /\ UNCHANGED <<record, stored, req, client, plan, deletes>>

Joined(c) == pc[c] = "join" /\ \A p \in Pieces : job[c][p] = "none"

\* Mutant: a round counts as complete when the collector has named every piece.
ParentsDoneUncounted(c) ==
    /\ Joined(c) /\ mode[c] = "parent"
    /\ finished' = [finished EXCEPT ![c] = @ \cup partial[c]]
    /\ \/ todo[c] = {} /\ (Tell(c, "finished") \/ Lose(c)) /\ Goto(c, "closing")
       \/ todo[c] # {} /\ Tell(c, "rescheduled") /\ Goto(c, "receive")
       \/ todo[c] # {} /\ Lose(c) /\ Goto(c, "settle")
    /\ EndLoop(c)
    /\ UNCHANGED <<record, store, req, client, interested, round, jobs, deletes>>

\* All jobs of a round with parents are joined: done, or ask for other parents.
ParentsDone(c) ==
    LET obtained == finished[c] \cup partial[c] IN
    /\ Joined(c) /\ mode[c] = "parent"
    /\ finished' = [finished EXCEPT ![c] = obtained]
    /\ \/ obtained = interested[c] /\ (Tell(c, "finished") \/ Lose(c)) /\ Goto(c, "closing")
       \/ obtained # interested[c] /\ Tell(c, "rescheduled") /\ Goto(c, "receive")
       \/ obtained # interested[c] /\ Lose(c) /\ Goto(c, "settle")
    /\ EndLoop(c)
    /\ UNCHANGED <<record, store, req, client, interested, round, jobs, deletes>>

\* Mutant: the loop goes on after the last message of the peer.
BackToSourceDoneContinues(c) ==
    /\ Joined(c) /\ mode[c] = "sched_source"
    /\ finished' = [finished EXCEPT ![c] = @ \cup partial[c]]
    /\ \/ Tell(c, IF partial[c] = interested[c] \ finished[c] THEN "finished" ELSE "failed")
       \/ Lose(c)
    /\ Goto(c, "receive")
    /\ EndLoop(c)
    /\ UNCHANGED <<record, store, req, client, interested, round, jobs, deletes>>

\* All jobs from the origin are joined, under the scheduler ...
BackToSourceDone(c) ==
    /\ Joined(c) /\ mode[c] = "sched_source"
    /\ finished' = [finished EXCEPT ![c] = @ \cup partial[c]]
    /\ \/ Tell(c, IF partial[c] = interested[c] \ finished[c] THEN "finished" ELSE "failed")
       \/ Lose(c)
    /\ Goto(c, "closing")
    /\ EndLoop(c)
    /\ UNCHANGED <<record, store, req, client, interested, round, jobs, deletes>>

\* ... or without it.
SourceDone(c) ==
    /\ Joined(c) /\ mode[c] = "source"
    /\ Goto(c, IF partial[c] = interested[c] THEN "ok" ELSE "err")
    /\ EndLoop(c)
    /\ UNCHANGED <<record, store, req, client, peer, plan, jobs, deletes>>

\* The scheduler has done what it could: the rest comes from the origin, if allowed.
\* An error of the stream discards what was obtained through the scheduler.
FromSource(c) ==
    /\ StartLoop(c, "source", interested'[c])
    /\ Goto(c, "spawn")

Settle(c) ==
    LET remaining == interested[c] \ finished[c] IN
    /\ pc[c] = "settle"
    /\ interested' = [interested EXCEPT ![c] = remaining]
    /\ \/ remaining = {} /\ Goto(c, "ok") /\ UNCHANGED loop
       \/ remaining # {} /\ Has(c, "no_source") /\ Goto(c, "err") /\ UNCHANGED loop
       \/ remaining # {} /\ ~Has(c, "no_source") /\ FromSource(c)
    /\ UNCHANGED <<record, store, req, client, peer, finished, round, jobs, deletes>>

Fallback(c) ==
    /\ pc[c] = "fallback"
    /\ UNCHANGED interested
    /\ \/ Has(c, "no_source") /\ Goto(c, "err") /\ UNCHANGED loop
       \/ ~Has(c, "no_source") /\ FromSource(c)
    /\ UNCHANGED <<record, store, req, client, peer, finished, round, jobs, deletes>>

-----------------------------------------------------------------------------
(* The end of the spawned download, and the environment.                   *)

\* The locals of the download go out of scope.
Return(c) ==
    /\ interested' = [interested EXCEPT ![c] = {}]
    /\ finished' = [finished EXCEPT ![c] = {}]
    /\ round' = [round EXCEPT ![c] = 0]
    /\ EndLoop(c)
    /\ watch' = [watch EXCEPT ![c] = [p \in Pieces |-> "none"]]
    /\ UNCHANGED <<hit, prefetch, stored, owner, req, client, peer, jobs, deletes>>

\* download_task_finished; the record may have been deleted meanwhile.
FinishOk(c) ==
    /\ pc[c] = "ok"
    /\ \/ "known" \in task /\ task' = (task \ {"failed"}) \cup {"finished"} /\ Goto(c, "done")
       \/ "known" \notin task /\ Goto(c, "failed") /\ UNCHANGED task
    /\ Return(c)

\* Mutant: the record is marked finished however the download ended.
FinishErrFinishes(c) ==
    /\ pc[c] = "err"
    /\ task' = IF "known" \in task THEN (task \ {"failed"}) \cup {"finished"} ELSE task
    /\ Goto(c, "failed")
    /\ Return(c)

FinishErr(c) ==
    /\ pc[c] = "err"
    /\ download_task_failed
    /\ Goto(c, "failed")
    /\ Return(c)

Ended == {"done", "failed", "refused"}

ClientLeaves(c) ==
    /\ pc[c] \notin Ended \cup {"idle"} /\ c \notin gone /\ ~Has(c, "is_prefetch")
    /\ gone' = gone \cup {c}
    /\ UNCHANGED <<record, store, pc, req, delivered, peer, plan, loop, jobs, deletes>>

\* Task::delete or delete_local, or the garbage collector.
Delete ==
    /\ task # {} /\ deletes < MaxDeletes
    /\ deletes' = deletes + 1
    /\ task' = {} /\ stored' = {}
    /\ UNCHANGED <<hit, prefetch, owner, watch, pc, req, client, peer, plan, loop, jobs>>

JobStep(c, p) ==
    JobStart(c, p) \/ JobStore(c, p) \/ JobNotify(c, p) \/ JobFail(c, p)
    \/ JobDeliver(c, p) \/ JobReport(c, p)

CallStep(c) ==
    \/ Stat(c) \/ Begin(c) \/ Lookup(c) \/ LocalDone(c) \/ Subscribe(c) \/ InFlight(c)
    \/ Route(c) \/ Register(c)
    \/ TooManySchedules(c) \/ EmptyTask(c) \/ NormalTask(c) \/ NeedBackToSource(c)
    \/ StreamEnds(c) \/ Closed(c) \/ CollectEnds(c) \/ Spawn(c)
    \/ JoinError(c) \/ ParentsDone(c) \/ BackToSourceDone(c) \/ SourceDone(c)
    \/ Settle(c) \/ Fallback(c) \/ FinishOk(c) \/ FinishErr(c)
    \/ \E p \in Pieces : LocalPiece(c, p) \/ Permit(c, p) \/ Join(c, p)
    \/ \E p \in Pieces, n \in 1..Parents : Collect(c, p, n)

PrefetchStep(c) ==
    PrefetchStarted(c) \/ PrefetchReturns(c) \/ \E d \in Calls : PrefetchCall(c, d)

Next ==
    \/ \E c \in Calls :
         \/ Accept(c) \/ Refuse(c) \/ CallStep(c) \/ PrefetchStep(c)
         \/ ClientLeaves(c)
         \/ \E p \in Pieces : JobStep(c, p)
    \/ Delete

Spec == Init /\ [][Next]_vars

\* The runtime never idles while a task or a job can run.  That a transfer, the piece
\* collector and a stream to the scheduler end is part of their steps: they have
\* timeouts, but for the stream that is waited for in Closed, which the scheduler
\* is trusted to drop.  Fairness among calls is not needed: no call runs for ever.
Fairness ==
    WF_vars(\E c \in Calls : CallStep(c) \/ PrefetchStep(c) \/ \E p \in Pieces : JobStep(c, p))

FairSpec == Spec /\ Fairness

-----------------------------------------------------------------------------
(* Properties                                                              *)

\* A piece has an owner exactly while one job fetches it, and a call that has ended
\* has no job left: no abort of a JoinSet leaves a piece claimed, or a job that goes
\* on behind the back of its call.
OwnersAreJobs ==
    /\ \A p \in Pieces, c \in Calls : owner[p] = c <=> job[c][p] \in {"own", "notify"}
    /\ \A c \in Calls : pc[c] \in Ended => \A p \in Pieces : job[c][p] = "none"

\* A client that asked for content and saw its response stream end without an error
\* got every piece of its range, whatever mixture of local pieces, parents, aborted
\* rounds and fallbacks obtained them ("Piece content must be delivered to dfget").
OkMeansDelivered ==
    \A c \in Calls : pc[c] = "done" /\ Has(c, "content") => req[c].range \subseteq delivered[c]

\* A peer that announced itself finished to the scheduler has every piece of its
\* range (until the task is deleted): the scheduler will offer it as a parent. One
\* that the scheduler itself told that the task is empty has nothing to hold.
FinishedPeerHoldsRange ==
    deletes = 0 => \A c \in Calls : peer[c] = "finished" => req[c].range \subseteq stored

\* The last message about a peer is the last: it changes no more, and no job is left
\* that would report a piece under it.
TerminalIsLast ==
    [][\A c \in Calls : peer[c] \in {"finished", "failed", "finished_empty"} =>
           /\ peer'[c] = peer[c]
           /\ \A p \in Pieces : job[c][p] \in Running => mode[c] = "source"]_vars

\* Every call of the handler ends, also when it waits for a piece that another call
\* fetches, fails to fetch or is aborted over, and when the semaphore is exhausted.
CallsEnd == \A c \in Calls : pc[c] = "begin" ~> pc[c] \in Ended

\* Each piece behaves as PieceStore promises.
Piece(p) == INSTANCE PieceStore WITH
    Clients <- Calls, Payloads <- {"content"}, NoPayload <- "none", NoOwner <- NoCall,
    owner <- owner[p], stored <- IF p \in stored THEN "content" ELSE "none"

PiecesAreStored ==
    /\ \A p \in Pieces : Piece(p)!Init
    /\ [][\A p \in Pieces : Piece(p)!Next \/ UNCHANGED <<owner[p], p \in stored>>]_vars

\* "When the task download is finished, the response will include this header with
\* the value "true", indicating that the download hit the local cache": as long as
\* everybody asks for the same range, a started response that says is_finished is for
\* a range that is in the local storage.  A range download finishes the whole record,
\* so it is not true when they ask for different ones.
FinishedIsLocalHit ==
    /\ deletes = 0
    /\ \A c, d \in Calls : req[c].range \in {{}, req[d].range} \/ req[d].range = {}
    => \A c \in hit : req[c].range \subseteq stored
=============================================================================
