------------------------ MODULE PersistentTaskProofs ------------------------
(***************************************************************************)
(* Proofs about PersistentTask for every number of calls, pieces, parents, *)
(* rounds and permits, and whatever the calls are asked for.               *)
(***************************************************************************)
EXTENDS PersistentTask, WellFoundedInduction, TLAPS

-----------------------------------------------------------------------------
(* The inductive invariant.                                                *)

Labels == {"idle", "stat", "begin", "local", "read", "register", "await", "empty", "loop",
           "join", "closing", "back", "settle", "done", "u_start", "u_content", "u_report",
           "u_failed", "deleting"}

CallRecords ==
    [op : Ops, pc : Labels, content : BOOLEAN, leaves : BOOLEAN, listening : BOOLEAN,
     fetch : {"none", "parents", "b2s", "source"},
     todo : SUBSET Pieces, want : SUBSET Pieces, got : SUBSET Pieces, part : SUBSET Pieces,
     count : 0..MaxSchedules, interrupt : BOOLEAN, empty : BOOLEAN,
     put : {"none", "run", "ok"}, res : {"none", "ok", "err"}]

JobRecords == [at : JobStates, left : 0..(Parents + 1)]
Messages == {"started", "finished", "failed", "b2s_started", "b2s_finished", "b2s_failed",
             "upload_started", "upload_finished", "upload_failed"}

(* The variables that TypeOK leaves open are typed as well.                *)
Typed ==
    /\ kind \in Kinds /\ source \in BOOLEAN /\ tainted \in BOOLEAN
    /\ record \subseteq Marks /\ (record # {} => "here" \in record)
    /\ pieces \in [Pieces -> {"none", "started", "stored"}]
    /\ claim \in [Pieces -> Calls \cup {None}]
    /\ call \in [Calls -> CallRecords]
    /\ job \in [Calls -> [Pieces -> JobRecords]]
    /\ told \in [Calls -> SUBSET Messages]
    /\ sent \in [Calls -> SUBSET Pieces]

Serving == {"stat", "begin", "local", "read", "register", "await", "empty", "loop", "join",
            "closing", "back", "settle"}
Uploading == {"u_start", "u_content", "u_report", "u_failed"}
Looping == {"loop", "join"}
Begun == {"local", "read", "register", "await", "empty", "closing", "back"} \cup Looping

(* A call has spawned downloads only in its loops, at most one for a piece *)
(* and none for a piece it has yet to visit; what a call does is what it   *)
(* was asked for.                                                          *)
ShapeOf(k, j) ==
    /\ k.pc \notin Looping => \A p \in Pieces : j[p].at = "none"
    /\ k.pc = "loop" => \A p \in k.todo : j[p].at = "none"
    /\ k.pc = "join" /\ k.fetch # "parents" => k.todo = {}
    /\ k.pc \in Looping => k.fetch # "none"
    /\ k.pc = "read" => k.todo # {}
    /\ k.pc = "empty" => k.empty
    /\ k.pc \in Serving => k.op \in {"download", "replicate"}
    /\ k.pc \in Uploading => k.op = "upload"
    /\ \A p \in Pieces : j[p].at \in {"queued"} \cup Busy => j[p].left > 0

Shape(c) ==
    /\ ShapeOf(call[c], job[c])
    /\ call[c].pc = "deleting" => call[c].op \in {"upload", "delete"} /\ tainted

(* The claim of a piece is the claim of the one download that holds it, a  *)
(* started record has such a download behind it, and unless an import came *)
(* over it the record of a claimed piece is not finished.                  *)
Held == {"claimed", "own"}
ClaimInv ==
    /\ \A p \in Pieces, c \in Calls : claim[p] = c <=> job[c][p].at \in Held
    /\ \A p \in Pieces : pieces[p] = "started" => claim[p] # None
    /\ ~tainted => \A p \in Pieces : claim[p] # None => pieces[p] # "stored"

(* What a call has obtained.  G stands for the pieces its client was sent, *)
(* and for the pieces with a finished record.                              *)
CoveredBy(k, j, G) ==
    /\ \A p \in Pieces : p \in k.got \cup k.part => p \in G
    /\ k.pc \in Begun => \A p \in Pieces : p \in k.want \/ p \in G
    /\ \A p \in Pieces : j[p].at \in {"sent", "done"} => p \in G
    /\ k.pc \in Looping /\ k.fetch = "source" =>
         \A p \in Pieces :
           /\ p \in k.todo \/ j[p].at # "none" \/ p \in G
           /\ j[p].at = "joined" => p \in G
    /\ k.pc \in {"settle", "done"} /\ k.res = "ok"
         /\ k.op \in {"download", "replicate"} => \A p \in Pieces : p \in G

Covered(c, G) == CoveredBy(call[c], job[c], G)

Stored == {p \in Pieces : pieces[p] = "stored"}
Sound == kind = "persistent" /\ ~tainted

SentInv(c) == call[c].listening => Covered(c, sent[c])

StoredInv(c) ==
    Sound => Covered(c, Stored) /\ \A p \in Pieces : job[c][p].at = "have" => p \in Stored

(* The finished message is the last but for the end of the stream.         *)
ToldInv(c) ==
    "finished" \in told[c] /\ ~call[c].empty =>
        /\ call[c].pc \in {"closing", "back", "settle", "done"}
        /\ call[c].got = call[c].want
        /\ Sound => Pieces \subseteq Stored

(* An upload knows what it has imported and put.                           *)
Uploaded(c) == call[c].pc = "done" /\ call[c].res = "ok" /\ call[c].op = "upload"

PutDone(c) ==
    call[c].pc = "u_report" \/ Uploaded(c) \/ (call[c].pc = "u_content" /\ call[c].put = "ok")

UploadInv(c) ==
    /\ kind = "persistent" /\ PutDone(c) => source
    /\ Uploaded(c) => "upload_finished" \in told[c]
    /\ ~tainted =>
         /\ call[c].pc \in {"u_content", "u_report"} \/ Uploaded(c) => record # {}
         /\ call[c].pc = "u_content" => \A p \in Pieces : p \in call[c].todo \cup Stored
         /\ call[c].pc = "u_report" \/ Uploaded(c) => Pieces \subseteq Stored

CallInv(c) == Shape(c) /\ SentInv(c) /\ StoredInv(c) /\ ToldInv(c) /\ UploadInv(c)

IInv == Typed /\ ClaimInv /\ FinishedIsComplete /\ \A c \in Calls : CallInv(c)

-----------------------------------------------------------------------------
(* The loops visit the pieces in order; there is a least one to visit.     *)
LEMMA LeastIsMember ==
  ASSUME NEW S, S \subseteq Pieces, S # {}
  PROVE  Least(S) \in S
  <1> DEFINE R == OpToRel(<, Nat)
  <1>1. S \subseteq Nat
    BY PiecesAssumption
  <1>2. PICK x \in S : \A y \in S : ~(<<y, x>> \in R)
    <2> HIDE DEF R
    <2>1. IsWellFoundedOn(R, Nat)
      BY NatLessThanWellFounded DEF R
    <2> QED BY <1>1, <2>1, WFMin, Zenon
  <1>3. \A y \in S : x <= y
    <2> SUFFICES ASSUME NEW y \in S PROVE x <= y
      OBVIOUS
    <2>1. ~(y < x)
      BY <1>1, <1>2 DEF OpToRel
    <2> QED BY <1>1, <2>1
  <1> QED BY <1>3 DEF Least

(* The actions of the model by what they do: the copies for the three kinds of download *)
(* are taken together.                                                     *)
CallStep(c) ==
    \/ \E path : AcceptAs(c, path) \/ StartAs(c, path) \/ BeginAs(c, path) \/ RegisterAs(c, path)
    \/ Refuse(c)
    \/ \E found \in SUBSET Pieces : (kind = "persistent" => found \subseteq Stored) /\ LocalPiece(c, found)
    \/ LocalRead(c) \/ LocalDone(c)
    \/ SchedulerFails(c) \/ StreamEnds(c)
    \/ \E path : TooManyAs(c, path) \/ NormalAs(c, path)
    \/ \E path : \E first \in {"started", "finished"} : EmptyAs(c, path, first)
    \/ EmptyToldBoth(c) \/ NeedBackToSource(c) \/ RefuseBackToSource(c) \/ Closed(c)
    \/ CollectEnds(c) \/ EachInterested(c)
    \/ \E path : RoundDoneAs(c, path)
    \/ BackToSourceDone(c) \/ SourceDone(c)
    \/ \E path : \E fallback \in BOOLEAN : BackAs(c, path, fallback)
    \/ \E path : SettleAs(c, path)
    \/ ClientLeaves(c)
    \/ RefuseUpload(c)
    \/ \E k \in Kinds : AcceptUploadAs(c, k) \/ UploadStartedAs(c, k) \/ UploadFinishedAs(c, k)
    \/ upload_content_to_source(c) \/ UploadContentFails(c) \/ UploadContentDone(c)
    \/ \E k \in Kinds : DeleteRecordAs(c, k)
    \/ delete_pieces(c)

PieceStep(c, p) ==
    \/ \E k \in Kinds : CollectAs(c, p, k)
    \/ Permit(c, p) \/ Claim(c, p) \/ PutStarted(c, p)
    \/ \E fetches : \E k \in Kinds : StoreAs(c, p, fetches, k)
    \/ TransferFails(c, p)
    \/ \E k \in Kinds : DeliverAs(c, p, k) \/ ReportAs(c, p, k)
    \/ JoinParent(c, p) \/ JoinCacheParent(c, p) \/ JoinBackToSource(c, p) \/ JoinSource(c, p)
    \/ \E k \in Kinds : ImportAs(c, p, k)

LEMMA Steps ==
  ASSUME [Next]_vars
  PROVE  \/ \E c \in Calls : CallStep(c)
         \/ \E c \in Calls, p \in Pieces : PieceStep(c, p)
         \/ UNCHANGED vars
  <1> USE DEF Kinds
  <1>1. ASSUME NEW c \in Calls,
               \/ Accept(c) \/ AcceptReplication(c) \/ AcceptCache(c) \/ AcceptCacheReplication(c)
               \/ Refuse(c)
               \/ download_started(c) \/ download_started_for_replication(c) \/ download_cache_started(c)
               \/ Begin(c) \/ BeginReplication(c) \/ BeginCache(c)
        PROVE  CallStep(c)
    BY <1>1, Zenon DEF CallStep, Accept, AcceptReplication, AcceptCache,
        AcceptCacheReplication,
        download_started, download_started_for_replication, download_cache_started, Begin,
        BeginReplication, BeginCache
  <1>2. ASSUME NEW c \in Calls, LocalPersistent(c) \/ LocalCache(c) PROVE CallStep(c)
    <2>1. PICK found \in SUBSET Pieces : (kind = "persistent" => found \subseteq Stored) /\ LocalPiece(c, found)
      <3>1. CASE LocalPersistent(c)
        <4>1. {p \in Pieces : FoundLocally(p)} = Stored /\ Stored \subseteq Pieces
          BY DEF FoundLocally, Stored
        <4> QED BY <3>1, <4>1, Zenon DEF LocalPersistent
      <3>2. CASE LocalCache(c)
        <4>1. {p \in Pieces : FoundInCache(p)} \subseteq Pieces /\ kind # "persistent"
          BY <3>2 DEF LocalCache
        <4> QED BY <3>2, <4>1, Zenon DEF LocalCache
      <3> QED BY <1>2, <3>1, <3>2
    <2> QED BY <2>1, Zenon DEF CallStep
  <1>3. ASSUME NEW c \in Calls,
               \/ LocalRead(c) \/ LocalDone(c)
               \/ Register(c) \/ RegisterForReplication(c) \/ RegisterCache(c)
               \/ SchedulerFails(c) \/ StreamEnds(c)
               \/ TooManySchedules(c) \/ TooManyReplicationSchedules(c) \/ TooManyCacheSchedules(c)
               \/ EmptyTask(c) \/ EmptyReplicationTask(c) \/ EmptyCacheTask(c) \/ EmptyToldBoth(c)
        PROVE  CallStep(c)
    BY <1>3, Zenon DEF CallStep, Register, RegisterForReplication, RegisterCache,
        TooManySchedules,
        TooManyReplicationSchedules, TooManyCacheSchedules, EmptyTask, EmptyReplicationTask,
        EmptyCacheTask
  <1>4. ASSUME NEW c \in Calls,
               \/ NormalTask(c) \/ NormalReplicationTask(c) \/ NormalCacheTask(c)
               \/ NeedBackToSource(c) \/ RefuseBackToSource(c) \/ Closed(c)
               \/ CollectEnds(c) \/ EachInterested(c)
               \/ RoundDone(c) \/ ReplicationRoundDone(c) \/ CacheRoundDone(c)
               \/ BackToSourceDone(c) \/ SourceDone(c)
               \/ Back(c) \/ BackToReplication(c) \/ BackToCache(c)
        PROVE  CallStep(c)
    BY <1>4, Zenon DEF CallStep, NormalTask, NormalReplicationTask, NormalCacheTask,
        RoundDone,
        ReplicationRoundDone, CacheRoundDone, Back, BackToReplication, BackToCache
  <1>5. ASSUME NEW c \in Calls,
               \/ Finish(c) \/ FinishReplication(c) \/ FinishCache(c) \/ FinishCacheReplication(c)
               \/ ClientLeaves(c)
               \/ AcceptUpload(c) \/ RefuseUpload(c) \/ AcceptCacheUpload(c)
               \/ UploadStarted(c) \/ CacheUploadStarted(c)
               \/ upload_content_to_source(c) \/ UploadContentFails(c) \/ UploadContentDone(c)
               \/ UploadFinished(c) \/ CacheUploadFinished(c)
               \/ delete_persistent_task(c) \/ delete_persistent_cache_task(c) \/ delete_pieces(c)
        PROVE  CallStep(c)
    BY <1>5, Zenon DEF CallStep, Finish, FinishReplication, FinishCache,
        FinishCacheReplication,
        AcceptUpload, AcceptCacheUpload, UploadStarted, CacheUploadStarted, UploadFinished,
        CacheUploadFinished, delete_persistent_task, delete_persistent_cache_task
  <1>6. ASSUME NEW c \in Calls, NEW p \in Pieces,
               \/ Collect(c, p) \/ CollectCache(c, p) \/ Permit(c, p)
               \/ download_persistent_piece_started(c, p)
               \/ download_persistent_cache_piece_started(c, p)
               \/ from_parent_finished(c, p) \/ from_source_finished(c, p)
               \/ cache_from_parent_finished(c, p) \/ TransferFails(c, p)
               \/ Deliver(c, p) \/ DeliverCache(c, p) \/ Report(c, p) \/ ReportCache(c, p)
               \/ JoinParent(c, p) \/ JoinCacheParent(c, p)
               \/ JoinBackToSource(c, p) \/ JoinSource(c, p)
               \/ upload_content_to_local(c, p) \/ upload_cache_content(c, p)
        PROVE  PieceStep(c, p)
    BY <1>6, Zenon DEF PieceStep, Collect, CollectCache, download_persistent_piece_started,
        download_persistent_cache_piece_started, claim_piece, from_parent_finished,
        from_source_finished, cache_from_parent_finished, Deliver, DeliverCache, Report, ReportCache,
        upload_content_to_local, upload_cache_content
  <1> QED BY <1>1, <1>2, <1>3, <1>4, <1>5, <1>6, Zenon DEF Next, Terminated

-----------------------------------------------------------------------------
(* What a step does to the record of its call.                             *)

SameClient(r, k) == r.op = k.op /\ r.listening = k.listening /\ r.empty = k.empty
SamePlan(r, k) == r.want = k.want /\ r.got = k.got /\ r.part = k.part
SameLoop(r, k) == r.fetch = k.fetch /\ r.todo = k.todo
SameEnd(r, k) == r.put = k.put /\ r.res = k.res
OnlyPc(r, k) == SameClient(r, k) /\ SamePlan(r, k) /\ SameLoop(r, k) /\ SameEnd(r, k)

Settles(r, k, res) ==
    r.pc = "settle" /\ r.res = res /\ SameClient(r, k) /\ SamePlan(r, k)
Returns(r, k, res) ==
    /\ r.pc = "done" /\ r.res = res /\ SameClient(r, k)
    /\ r.want = {} /\ r.got = {} /\ r.part = {}
Fetches(r, k, fetch, S) ==
    /\ r.pc = "loop" /\ r.fetch = fetch /\ r.todo = S
    /\ r.want = k.want /\ r.got = k.got /\ r.part = {} /\ SameClient(r, k)

(* A piece found here: sent to the client, if it still listens. *)
KeptPiece(c, p, r) ==
    \/ /\ call[c].content /\ ~call[c].listening /\ Settles(r, call[c], "err")
        /\ sent' = sent
     \/ /\ r.pc = "local" /\ r.todo = call[c].todo \ {p} /\ r.got = call[c].got \cup {p}
        /\ r.want = call[c].want /\ r.part = call[c].part
        /\ SameClient(r, call[c]) /\ SameEnd(r, call[c])
        /\ sent' = IF call[c].listening THEN [sent EXCEPT ![c] = @ \cup {p}] ELSE sent

LEMMA RecordGo ==
  ASSUME NEW k \in CallRecords, NEW pc \in Labels
  PROVE  LET r == [k EXCEPT !.pc = pc] IN r \in CallRecords /\ r.pc = pc /\ OnlyPc(r, k)
  BY DEF CallRecords, OnlyPc, SameClient, SamePlan, SameLoop, SameEnd

LEMMA RecordSettle ==
  ASSUME NEW c \in Calls, call[c] \in CallRecords, NEW res \in {"ok", "err"}
  PROVE  Settle(c, res) \in CallRecords /\ Settles(Settle(c, res), call[c], res)
  BY DEF CallRecords, Labels, Settle, Settles, SameClient, SamePlan

LEMMA RecordFetch ==
  ASSUME NEW c \in Calls, call[c] \in CallRecords, NEW fetch \in {"parents", "b2s", "source"},
         NEW S \in SUBSET Pieces
  PROVE  Fetch(c, fetch, S) \in CallRecords /\ Fetches(Fetch(c, fetch, S), call[c], fetch, S)
  BY ZenonT(60) DEF CallRecords, Labels, Fetch, Fetches, SameClient

LEMMA RecordReturn ==
  ASSUME NEW c \in Calls, call \in [Calls -> CallRecords], NEW res \in {"ok", "err"}, Return(c, res)
  PROVE  /\ call' \in [Calls -> CallRecords] /\ \A d \in Calls \ {c} : call'[d] = call[d]
         /\ Returns(call'[c], call[c], res)
  <1>1. call[c] \in CallRecords
    OBVIOUS
  <1>2. call[c].op \in Ops /\ call[c].content \in BOOLEAN /\ call[c].leaves \in BOOLEAN
    BY <1>1 DEF CallRecords
  <1>3. 0 \in 0..MaxSchedules
    BY ParametersAssumption
  <1> DEFINE k == NewCall(call[c])
  <1>4. k \in CallRecords
    BY <1>2, <1>3 DEF NewCall, CallRecords, Labels
  <1>5. k.op = call[c].op /\ k.want = {} /\ k.got = {} /\ k.part = {}
    BY DEF NewCall
  <1>6. call[c].empty \in BOOLEAN /\ call[c].listening \in BOOLEAN
    BY <1>1 DEF CallRecords
  <1> DEFINE r == [k EXCEPT !.pc = "done", !.res = res, !.empty = call[c].empty,
                            !.listening = call[c].listening]
  <1>7. call' = [call EXCEPT ![c] = r]
    BY DEF Return, Becomes
  <1> HIDE DEF k
  <1>8. r \in CallRecords
    BY <1>4, <1>6 DEF CallRecords, Labels
  <1>9. /\ r.pc = "done" /\ r.res = res /\ r.op = k.op
        /\ r.empty = call[c].empty /\ r.listening = call[c].listening
        /\ r.want = k.want /\ r.got = k.got /\ r.part = k.part
    BY <1>4 DEF CallRecords
  <1> HIDE DEF r
  <1> QED BY <1>5, <1>7, <1>8, <1>9 DEF Returns, SameClient

(* The record of call c, and of no other, is replaced. *)
Moved(c) == call' \in [Calls -> CallRecords] /\ \A d \in Calls \ {c} : call'[d] = call[d]

LEMMA BecomesEffect ==
  ASSUME call \in [Calls -> CallRecords], NEW c \in Calls, NEW r \in CallRecords, Becomes(c, r)
  PROVE  Moved(c) /\ call'[c] = r
  BY DEF Becomes, Moved

LEMMA GoEffect ==
  ASSUME call \in [Calls -> CallRecords], NEW c \in Calls, NEW pc \in Labels, Go(c, pc)
  PROVE  Moved(c) /\ call'[c].pc = pc /\ OnlyPc(call'[c], call[c])
  <1>1. call[c] \in CallRecords
    OBVIOUS
  <1> DEFINE r == [call[c] EXCEPT !.pc = pc]
  <1>2. Becomes(c, r)
    BY DEF Go
  <1>3. r \in CallRecords /\ r.pc = pc /\ OnlyPc(r, call[c])
    BY <1>1, RecordGo
  <1> HIDE DEF r
  <1> QED BY <1>2, <1>3, BecomesEffect

LEMMA SettleEffect ==
  ASSUME call \in [Calls -> CallRecords], NEW c \in Calls, NEW res \in {"ok", "err"},
         Becomes(c, Settle(c, res))
  PROVE  Moved(c) /\ Settles(call'[c], call[c], res)
  BY RecordSettle, BecomesEffect

LEMMA FetchEffect ==
  ASSUME call \in [Calls -> CallRecords], NEW c \in Calls, NEW fetch \in {"parents", "b2s", "source"},
         NEW S \in SUBSET Pieces, Becomes(c, Fetch(c, fetch, S))
  PROVE  Moved(c) /\ Fetches(call'[c], call[c], fetch, S)
  BY RecordFetch, BecomesEffect

LEMMA ReturnEffect ==
  ASSUME call \in [Calls -> CallRecords], NEW c \in Calls, NEW res \in {"ok", "err"}, Return(c, res)
  PROVE  Moved(c) /\ Returns(call'[c], call[c], res)
  BY RecordReturn DEF Moved

LEMMA KeepEffect ==
  ASSUME call \in [Calls -> CallRecords], NEW c \in Calls, NEW p \in Pieces, Keep(c, p)
  PROVE  Moved(c) /\ KeptPiece(c, p, call'[c])
  <1>1. call[c] \in CallRecords
    OBVIOUS
  <1> DEFINE r == [call[c] EXCEPT !.pc = "local", !.todo = call[c].todo \ {p}, !.got = call[c].got \cup {p}]
  <1>2. r \in CallRecords
    BY <1>1 DEF CallRecords, Labels
  <1>3. /\ r.pc = "local" /\ r.todo = call[c].todo \ {p} /\ r.got = call[c].got \cup {p}
        /\ r.want = call[c].want /\ r.part = call[c].part
        /\ SameClient(r, call[c]) /\ SameEnd(r, call[c])
    BY <1>1 DEF CallRecords, SameClient, SameEnd
  <1>4. \/ call[c].content /\ ~call[c].listening /\ Becomes(c, Settle(c, "err"))
        \/ Becomes(c, r)
    BY DEF Keep
  <1>5. sent' = IF call[c].listening THEN [sent EXCEPT ![c] = @ \cup {p}] ELSE sent
    BY DEF Keep
  <1> HIDE DEF r
  <1> QED BY <1>2, <1>3, <1>4, <1>5, BecomesEffect, SettleEffect DEF KeptPiece

LEMMA SkipEffect ==
  ASSUME call \in [Calls -> CallRecords], NEW c \in Calls, NEW p \in Pieces,
         Becomes(c, [call[c] EXCEPT !.todo = call[c].todo \ {p}])
  PROVE  /\ Moved(c) /\ call'[c].pc = call[c].pc /\ call'[c].todo = call[c].todo \ {p}
         /\ call'[c].fetch = call[c].fetch
         /\ SamePlan(call'[c], call[c]) /\ SameClient(call'[c], call[c])
         /\ SameEnd(call'[c], call[c])
  <1>1. call[c] \in CallRecords
    OBVIOUS
  <1> DEFINE r == [call[c] EXCEPT !.todo = call[c].todo \ {p}]
  <1>2. r \in CallRecords
    BY <1>1 DEF CallRecords
  <1>3. /\ r.pc = call[c].pc /\ r.todo = call[c].todo \ {p} /\ r.fetch = call[c].fetch
        /\ SamePlan(r, call[c]) /\ SameClient(r, call[c]) /\ SameEnd(r, call[c])
    BY <1>1 DEF CallRecords, SamePlan, SameClient, SameEnd
  <1> HIDE DEF r
  <1>4. Moved(c) /\ call'[c] = r
    BY <1>2, BecomesEffect DEF r
  <1> QED BY <1>3, <1>4

LEMMA CountType ==
  ASSUME NEW c \in Calls, call[c] \in CallRecords, MaySchedule(c)
  PROVE  call[c].count + 1 \in 0..MaxSchedules
  <1>1. call[c].count \in 0..MaxSchedules
    BY DEF CallRecords
  <1> QED BY <1>1, ParametersAssumption DEF MaySchedule

-----------------------------------------------------------------------------
(* The steps of a call, and what they mean for the call itself.            *)

Own(c) == Moved(c) /\ CallInv(c)'

LEMMA OwnCall ==
  ASSUME Typed, NEW c \in Calls, CallInv(c), CallStep(c), ~EachInterested(c)
  PROVE  Own(c)
  <1>0. call \in [Calls -> CallRecords] /\ call[c] \in CallRecords
    BY DEF Typed
  <1>00. /\ job \in [Calls -> [Pieces -> JobRecords]] /\ sent \in [Calls -> SUBSET Pieces]
         /\ told \in [Calls -> SUBSET Messages]
    BY DEF Typed
  <1>01. /\ call[c].todo \subseteq Pieces /\ call[c].want \subseteq Pieces
         /\ call[c].got \subseteq Pieces /\ call[c].part \subseteq Pieces
    BY <1>0 DEF CallRecords
  <1>1. Shape(c) /\ SentInv(c) /\ StoredInv(c) /\ ToldInv(c) /\ UploadInv(c)
    BY DEF CallInv
  <1>2. ASSUME NEW path, AcceptAs(c, path) PROVE Own(c)
    <2>1. /\ Moved(c) /\ UNCHANGED <<kind, source, record, pieces, claim, job, told, sent, tainted>>
          /\ call[c].pc = "idle" /\ call[c].op \in {"download", "replicate"}
          /\ call'[c].pc = "stat" /\ OnlyPc(call'[c], call[c])
      BY <1>2, <1>0, GoEffect DEF AcceptAs, At, Labels, store
    <2>2. Shape(c)'
      BY <1>1, <1>00, <1>01, <2>1 DEF Shape, ShapeOf, Looping, Serving, Uploading, Busy,
          OnlyPc, Settles, Returns, Fetches, SameClient, SamePlan, SameLoop, SameEnd,
          KeptPiece
    <2>3. SentInv(c)'
      BY <1>1, <1>00, <1>01, <2>1 DEF SentInv, Covered, CoveredBy, Begun, Looping, OnlyPc,
          Settles, Returns, Fetches, SameClient, SamePlan, SameLoop, SameEnd, KeptPiece
    <2>4. StoredInv(c)'
      BY <1>1, <1>00, <1>01, <2>1 DEF StoredInv, Covered, CoveredBy, Begun, Looping,
          Sound, Stored, OnlyPc, Settles, Returns, Fetches, SameClient, SamePlan,
          SameLoop, SameEnd, KeptPiece
    <2>5. ToldInv(c)'
      BY <1>1, <1>00, <1>01, <2>1 DEF ToldInv, Sound, Stored, Covered, CoveredBy,
          StoredInv, Begun, Looping, OnlyPc, Settles, Returns, Fetches, SameClient,
          SamePlan, SameLoop, SameEnd, KeptPiece
    <2>6. UploadInv(c)'
      BY <1>1, <1>00, <1>01, <2>1 DEF UploadInv, PutDone, Uploaded, Stored, OnlyPc,
          Settles, Returns, Fetches, SameClient, SamePlan, SameLoop, SameEnd, KeptPiece
    <2> QED BY <2>1, <2>2, <2>3, <2>4, <2>5, <2>6 DEF Own, CallInv
  <1>3. ASSUME NEW path, StartAs(c, path) PROVE Own(c)
    <2>1. /\ Moved(c) /\ UNCHANGED <<kind, source, pieces, claim, job, told, sent, tainted>>
          /\ call[c].pc = "stat" /\ record' # {}
          /\ (call'[c].pc = "begin" /\ OnlyPc(call'[c], call[c])) \/ Returns(call'[c], call[c], "err")
      BY <1>3, <1>0, GoEffect, ReturnEffect DEF StartAs, At, Labels
    <2>2. Shape(c)'
      BY <1>1, <1>00, <1>01, <2>1 DEF Shape, ShapeOf, Looping, Serving, Uploading, Busy,
          OnlyPc, Settles, Returns, Fetches, SameClient, SamePlan, SameLoop, SameEnd,
          KeptPiece
    <2>3. SentInv(c)'
      BY <1>1, <1>00, <1>01, <2>1 DEF SentInv, Covered, CoveredBy, Begun, Looping, OnlyPc,
          Settles, Returns, Fetches, SameClient, SamePlan, SameLoop, SameEnd, KeptPiece
    <2>4. StoredInv(c)'
      BY <1>1, <1>00, <1>01, <2>1 DEF StoredInv, Covered, CoveredBy, Begun, Looping,
          Sound, Stored, OnlyPc, Settles, Returns, Fetches, SameClient, SamePlan,
          SameLoop, SameEnd, KeptPiece
    <2>5. ToldInv(c)'
      BY <1>1, <1>00, <1>01, <2>1 DEF ToldInv, Sound, Stored, Covered, CoveredBy,
          StoredInv, Begun, Looping, OnlyPc, Settles, Returns, Fetches, SameClient,
          SamePlan, SameLoop, SameEnd, KeptPiece
    <2>6. UploadInv(c)'
      BY <1>1, <1>00, <1>01, <2>1 DEF UploadInv, PutDone, Uploaded, Stored, OnlyPc,
          Settles, Returns, Fetches, SameClient, SamePlan, SameLoop, SameEnd, KeptPiece
    <2> QED BY <2>1, <2>2, <2>3, <2>4, <2>5, <2>6 DEF Own, CallInv
  <1>4. ASSUME NEW path, BeginAs(c, path) PROVE Own(c)
    <2>1. /\ Moved(c) /\ UNCHANGED <<kind, source, record, pieces, claim, job, told, sent, tainted>>
          /\ call[c].pc = "begin"
          /\ \/ /\ call'[c].pc = "local" /\ call'[c].todo = Pieces /\ call'[c].want = Pieces
                /\ call'[c].got = call[c].got /\ call'[c].part = call[c].part
                /\ SameClient(call'[c], call[c]) /\ SameEnd(call'[c], call[c])
             \/ Settles(call'[c], call[c], "err")
      <3> DEFINE r == [call[c] EXCEPT !.pc = "local", !.todo = Pieces, !.want = Pieces]
      <3>1. r \in CallRecords
        BY <1>0 DEF CallRecords, Labels
      <3>2. /\ r.pc = "local" /\ r.todo = Pieces /\ r.want = Pieces
            /\ r.got = call[c].got /\ r.part = call[c].part
            /\ SameClient(r, call[c]) /\ SameEnd(r, call[c])
        BY <1>0 DEF CallRecords, SameClient, SameEnd
      <3>3. Becomes(c, r) \/ Becomes(c, Settle(c, "err"))
        BY <1>4 DEF BeginAs
      <3> HIDE DEF r
      <3> QED BY <1>4, <1>0, <3>1, <3>2, <3>3, BecomesEffect, SettleEffect DEF BeginAs,
          At, store
    <2>2. Shape(c)'
      BY <1>1, <1>00, <1>01, <2>1 DEF Shape, ShapeOf, Looping, Serving, Uploading, Busy,
          OnlyPc, Settles, Returns, Fetches, SameClient, SamePlan, SameLoop, SameEnd,
          KeptPiece
    <2>3. SentInv(c)'
      BY <1>1, <1>00, <1>01, <2>1 DEF SentInv, Covered, CoveredBy, Begun, Looping, OnlyPc,
          Settles, Returns, Fetches, SameClient, SamePlan, SameLoop, SameEnd, KeptPiece
    <2>4. StoredInv(c)'
      BY <1>1, <1>00, <1>01, <2>1 DEF StoredInv, Covered, CoveredBy, Begun, Looping,
          Sound, Stored, OnlyPc, Settles, Returns, Fetches, SameClient, SamePlan,
          SameLoop, SameEnd, KeptPiece
    <2>5. ToldInv(c)'
      BY <1>1, <1>00, <1>01, <2>1 DEF ToldInv, Sound, Stored, Covered, CoveredBy,
          StoredInv, Begun, Looping, OnlyPc, Settles, Returns, Fetches, SameClient,
          SamePlan, SameLoop, SameEnd, KeptPiece
    <2>6. UploadInv(c)'
      BY <1>1, <1>00, <1>01, <2>1 DEF UploadInv, PutDone, Uploaded, Stored, OnlyPc,
          Settles, Returns, Fetches, SameClient, SamePlan, SameLoop, SameEnd, KeptPiece
    <2> QED BY <2>1, <2>2, <2>3, <2>4, <2>5, <2>6 DEF Own, CallInv
  <1>5. ASSUME NEW path, RegisterAs(c, path) PROVE Own(c)
    <2>1. /\ Moved(c) /\ UNCHANGED <<kind, source, record, pieces, claim, job, told, sent, tainted>>
          /\ call[c].pc = "register"
          /\ call'[c].pc = "await" /\ OnlyPc(call'[c], call[c])
      BY <1>5, <1>0, GoEffect DEF RegisterAs, At, Labels, store
    <2>2. Shape(c)'
      BY <1>1, <1>00, <1>01, <2>1 DEF Shape, ShapeOf, Looping, Serving, Uploading, Busy,
          OnlyPc, Settles, Returns, Fetches, SameClient, SamePlan, SameLoop, SameEnd,
          KeptPiece
    <2>3. SentInv(c)'
      BY <1>1, <1>00, <1>01, <2>1 DEF SentInv, Covered, CoveredBy, Begun, Looping, OnlyPc,
          Settles, Returns, Fetches, SameClient, SamePlan, SameLoop, SameEnd, KeptPiece
    <2>4. StoredInv(c)'
      BY <1>1, <1>00, <1>01, <2>1 DEF StoredInv, Covered, CoveredBy, Begun, Looping,
          Sound, Stored, OnlyPc, Settles, Returns, Fetches, SameClient, SamePlan,
          SameLoop, SameEnd, KeptPiece
    <2>5. ToldInv(c)'
      BY <1>1, <1>00, <1>01, <2>1 DEF ToldInv, Sound, Stored, Covered, CoveredBy,
          StoredInv, Begun, Looping, OnlyPc, Settles, Returns, Fetches, SameClient,
          SamePlan, SameLoop, SameEnd, KeptPiece
    <2>6. UploadInv(c)'
      BY <1>1, <1>00, <1>01, <2>1 DEF UploadInv, PutDone, Uploaded, Stored, OnlyPc,
          Settles, Returns, Fetches, SameClient, SamePlan, SameLoop, SameEnd, KeptPiece
    <2> QED BY <2>1, <2>2, <2>3, <2>4, <2>5, <2>6 DEF Own, CallInv
  <1>6. ASSUME Refuse(c) PROVE Own(c)
    <2>1. /\ Moved(c) /\ UNCHANGED <<kind, source, record, pieces, claim, job, told, sent, tainted>>
          /\ call[c].pc \in {"idle", "stat"}
          /\ Returns(call'[c], call[c], "err")
      BY <1>6, <1>0, ReturnEffect DEF Refuse, At, store
    <2>2. Shape(c)'
      BY <1>1, <1>00, <1>01, <2>1 DEF Shape, ShapeOf, Looping, Serving, Uploading, Busy,
          OnlyPc, Settles, Returns, Fetches, SameClient, SamePlan, SameLoop, SameEnd,
          KeptPiece
    <2>3. SentInv(c)'
      BY <1>1, <1>00, <1>01, <2>1 DEF SentInv, Covered, CoveredBy, Begun, Looping, OnlyPc,
          Settles, Returns, Fetches, SameClient, SamePlan, SameLoop, SameEnd, KeptPiece
    <2>4. StoredInv(c)'
      BY <1>1, <1>00, <1>01, <2>1 DEF StoredInv, Covered, CoveredBy, Begun, Looping,
          Sound, Stored, OnlyPc, Settles, Returns, Fetches, SameClient, SamePlan,
          SameLoop, SameEnd, KeptPiece
    <2>5. ToldInv(c)'
      BY <1>1, <1>00, <1>01, <2>1 DEF ToldInv, Sound, Stored, Covered, CoveredBy,
          StoredInv, Begun, Looping, OnlyPc, Settles, Returns, Fetches, SameClient,
          SamePlan, SameLoop, SameEnd, KeptPiece
    <2>6. UploadInv(c)'
      BY <1>1, <1>00, <1>01, <2>1 DEF UploadInv, PutDone, Uploaded, Stored, OnlyPc,
          Settles, Returns, Fetches, SameClient, SamePlan, SameLoop, SameEnd, KeptPiece
    <2> QED BY <2>1, <2>2, <2>3, <2>4, <2>5, <2>6 DEF Own, CallInv
  <1>7. ASSUME NEW found \in SUBSET Pieces, kind = "persistent" => found \subseteq Stored, LocalPiece(c, found) PROVE Own(c)
    <2> DEFINE p == Least(call[c].todo)
    <2>p. p \in call[c].todo /\ p \in Pieces
      <3>1. call[c].todo \subseteq Pieces /\ call[c].todo # {}
        BY <1>7, <1>0, <1>1 DEF LocalPiece, CallRecords
      <3> QED BY <3>1, LeastIsMember
    <2>1. /\ Moved(c) /\ UNCHANGED <<kind, source, record, pieces, claim, job, told, tainted>>
          /\ call[c].pc = "local"
          /\ \/ /\ call'[c].pc = "local" /\ call'[c].todo = call[c].todo \ {p} /\ sent' = sent
                /\ SamePlan(call'[c], call[c]) /\ SameClient(call'[c], call[c])
                /\ SameEnd(call'[c], call[c])
             \/ call'[c].pc = "read" /\ OnlyPc(call'[c], call[c]) /\ sent' = sent
             \/ p \in found /\ KeptPiece(c, p, call'[c])
      <3>0. call[c].pc = "local" /\ UNCHANGED <<kind, source, record, pieces, claim, job, told, tainted>>
        BY <1>7 DEF LocalPiece, Skip, Keep, At, store
      <3>1. CASE Becomes(c, [call[c] EXCEPT !.todo = call[c].todo \ {p}]) /\ sent' = sent
        BY <1>0, <2>p, <3>0, <3>1, SkipEffect
      <3>2. CASE Go(c, "read") /\ sent' = sent
        BY <1>0, <3>0, <3>2, GoEffect DEF Labels
      <3>3. CASE p \in found /\ Keep(c, p)
        BY <1>0, <2>p, <3>0, <3>3, KeepEffect
      <3> QED BY <1>7, <3>1, <3>2, <3>3 DEF LocalPiece, Skip
    <2> HIDE DEF p
    <2>2. Shape(c)'
      BY <1>1, <1>00, <1>01, <2>1, <2>p, <1>7 DEF Shape, ShapeOf, Looping, Serving,
          Uploading, Busy, OnlyPc, Settles, Returns, Fetches, SameClient, SamePlan,
          SameLoop, SameEnd, KeptPiece
    <2>3. SentInv(c)'
      BY ZenonT(60), <1>1, <1>00, <1>01, <2>1, <2>p, <1>7 DEF SentInv, Covered, CoveredBy, Begun,
          Looping, OnlyPc, Settles, Returns, Fetches, SameClient, SamePlan, SameLoop,
          SameEnd, KeptPiece
    <2>4. StoredInv(c)'
      BY <1>1, <1>00, <1>01, <2>1, <2>p, <1>7 DEF StoredInv, Covered, CoveredBy, Begun,
          Looping, Sound, Stored, OnlyPc, Settles, Returns, Fetches, SameClient, SamePlan,
          SameLoop, SameEnd, KeptPiece
    <2>5. ToldInv(c)'
      BY <1>1, <1>00, <1>01, <2>1, <2>p, <1>7 DEF ToldInv, Sound, Stored, Covered,
          CoveredBy, StoredInv, Begun, Looping, OnlyPc, Settles, Returns, Fetches,
          SameClient, SamePlan, SameLoop, SameEnd, KeptPiece
    <2>6. UploadInv(c)'
      BY <1>1, <1>00, <1>01, <2>1, <2>p, <1>7 DEF UploadInv, PutDone, Uploaded, Stored,
          OnlyPc, Settles, Returns, Fetches, SameClient, SamePlan, SameLoop, SameEnd,
          KeptPiece
    <2> QED BY <2>1, <2>2, <2>3, <2>4, <2>5, <2>6 DEF Own, CallInv
  <1>8. ASSUME LocalRead(c) PROVE Own(c)
    <2> DEFINE p == Least(call[c].todo)
    <2>p. p \in call[c].todo /\ p \in Pieces
      <3>1. call[c].todo \subseteq Pieces /\ call[c].todo # {}
        BY <1>8, <1>0, <1>1 DEF LocalRead, CallRecords, Shape, ShapeOf, At
      <3> QED BY <3>1, LeastIsMember
    <2>1. /\ Moved(c) /\ UNCHANGED <<kind, source, record, pieces, claim, job, told, tainted>>
          /\ call[c].pc = "read"
          /\ \/ pieces[p] = "stored" /\ KeptPiece(c, p, call'[c])
             \/ sent' = sent /\ Settles(call'[c], call[c], "err")
      <3>0. call[c].pc = "read" /\ UNCHANGED <<kind, source, record, pieces, claim, job, told, tainted>>
        BY <1>8 DEF LocalRead, Keep, At, store
      <3>1. CASE pieces[p] = "stored" /\ Keep(c, p)
        BY <1>0, <2>p, <3>0, <3>1, KeepEffect
      <3>2. CASE Becomes(c, Settle(c, "err")) /\ sent' = sent
        BY <1>0, <3>0, <3>2, SettleEffect
      <3> QED BY <1>8, <3>1, <3>2 DEF LocalRead
    <2> HIDE DEF p
    <2>2. Shape(c)'
      BY <1>1, <1>00, <1>01, <2>1, <2>p DEF Shape, ShapeOf, Looping, Serving, Uploading,
          Busy, OnlyPc, Settles, Returns, Fetches, SameClient, SamePlan, SameLoop,
          SameEnd, KeptPiece
    <2>3. SentInv(c)'
      BY ZenonT(60), <1>1, <1>00, <1>01, <2>1, <2>p DEF SentInv, Covered, CoveredBy, Begun, Looping,
          OnlyPc, Settles, Returns, Fetches, SameClient, SamePlan, SameLoop, SameEnd,
          KeptPiece
    <2>4. StoredInv(c)'
      BY <1>1, <1>00, <1>01, <2>1, <2>p DEF StoredInv, Covered, CoveredBy, Begun, Looping,
          Sound, Stored, OnlyPc, Settles, Returns, Fetches, SameClient, SamePlan,
          SameLoop, SameEnd, KeptPiece
    <2>5. ToldInv(c)'
      BY <1>1, <1>00, <1>01, <2>1, <2>p DEF ToldInv, Sound, Stored, Covered, CoveredBy,
          StoredInv, Begun, Looping, OnlyPc, Settles, Returns, Fetches, SameClient,
          SamePlan, SameLoop, SameEnd, KeptPiece
    <2>6. UploadInv(c)'
      BY <1>1, <1>00, <1>01, <2>1, <2>p DEF UploadInv, PutDone, Uploaded, Stored, OnlyPc,
          Settles, Returns, Fetches, SameClient, SamePlan, SameLoop, SameEnd, KeptPiece
    <2> QED BY <2>1, <2>2, <2>3, <2>4, <2>5, <2>6 DEF Own, CallInv
  <1>9. ASSUME LocalDone(c) PROVE Own(c)
    <2>1. /\ Moved(c) /\ UNCHANGED <<kind, source, record, pieces, claim, job, told, sent, tainted>>
          /\ call[c].pc = "local"
          /\ \/ call[c].want \ call[c].got = {} /\ Settles(call'[c], call[c], "ok")
             \/ /\ call'[c].pc = "register" /\ call'[c].want = call[c].want \ call[c].got /\ call'[c].got = {}
                /\ call'[c].part = call[c].part /\ SameClient(call'[c], call[c])
                /\ SameEnd(call'[c], call[c])
      <3> DEFINE rest == call[c].want \ call[c].got
                 r == [call[c] EXCEPT !.pc = "register", !.want = rest, !.got = {}]
      <3>1. r \in CallRecords
        BY <1>0 DEF CallRecords, Labels
      <3>2. /\ r.pc = "register" /\ r.want = rest /\ r.got = {} /\ r.part = call[c].part
            /\ SameClient(r, call[c]) /\ SameEnd(r, call[c])
        BY <1>0 DEF CallRecords, SameClient, SameEnd
      <3>3. Becomes(c, r) \/ (rest = {} /\ Becomes(c, Settle(c, "ok")))
        BY <1>9 DEF LocalDone
      <3> HIDE DEF r
      <3> QED BY <1>9, <1>0, <3>1, <3>2, <3>3, BecomesEffect, SettleEffect DEF LocalDone,
          At, store
    <2>2. Shape(c)'
      BY <1>1, <1>00, <1>01, <2>1 DEF Shape, ShapeOf, Looping, Serving, Uploading, Busy,
          OnlyPc, Settles, Returns, Fetches, SameClient, SamePlan, SameLoop, SameEnd,
          KeptPiece
    <2>3. SentInv(c)'
      BY <1>1, <1>00, <1>01, <2>1 DEF SentInv, Covered, CoveredBy, Begun, Looping, OnlyPc,
          Settles, Returns, Fetches, SameClient, SamePlan, SameLoop, SameEnd, KeptPiece
    <2>4. StoredInv(c)'
      BY <1>1, <1>00, <1>01, <2>1 DEF StoredInv, Covered, CoveredBy, Begun, Looping,
          Sound, Stored, OnlyPc, Settles, Returns, Fetches, SameClient, SamePlan,
          SameLoop, SameEnd, KeptPiece
    <2>5. ToldInv(c)'
      BY <1>1, <1>00, <1>01, <2>1 DEF ToldInv, Sound, Stored, Covered, CoveredBy,
          StoredInv, Begun, Looping, OnlyPc, Settles, Returns, Fetches, SameClient,
          SamePlan, SameLoop, SameEnd, KeptPiece
    <2>6. UploadInv(c)'
      BY <1>1, <1>00, <1>01, <2>1 DEF UploadInv, PutDone, Uploaded, Stored, OnlyPc,
          Settles, Returns, Fetches, SameClient, SamePlan, SameLoop, SameEnd, KeptPiece
    <2> QED BY <2>1, <2>2, <2>3, <2>4, <2>5, <2>6 DEF Own, CallInv
  <1>10. ASSUME SchedulerFails(c) PROVE Own(c)
    <2>1. /\ Moved(c) /\ UNCHANGED <<kind, source, record, pieces, claim, job, told, sent, tainted>>
          /\ call[c].pc \in {"register", "await", "empty"}
          /\ Fetches(call'[c], call[c], "source", call[c].want) \/ Settles(call'[c], call[c], "err")
      <3>1. call[c].want \in SUBSET Pieces
        BY <1>0 DEF CallRecords
      <3> QED BY <1>10, <1>0, <3>1, FetchEffect, SettleEffect DEF SchedulerFails, At, store
    <2>2. Shape(c)'
      BY <1>1, <1>00, <1>01, <2>1 DEF Shape, ShapeOf, Looping, Serving, Uploading, Busy,
          OnlyPc, Settles, Returns, Fetches, SameClient, SamePlan, SameLoop, SameEnd,
          KeptPiece
    <2>3. SentInv(c)'
      BY <1>1, <1>00, <1>01, <2>1 DEF SentInv, Covered, CoveredBy, Begun, Looping, Shape,
          ShapeOf, Serving, Uploading, OnlyPc, Settles, Returns, Fetches, SameClient,
          SamePlan, SameLoop, SameEnd, KeptPiece
    <2>4. StoredInv(c)'
      BY <1>1, <1>00, <1>01, <2>1 DEF StoredInv, Covered, CoveredBy, Begun, Looping,
          Sound, Stored, Shape, ShapeOf, Serving, Uploading, OnlyPc, Settles, Returns,
          Fetches, SameClient, SamePlan, SameLoop, SameEnd, KeptPiece
    <2>5. ToldInv(c)'
      BY <1>1, <1>00, <1>01, <2>1 DEF ToldInv, Sound, Stored, Covered, CoveredBy,
          StoredInv, Begun, Looping, Shape, ShapeOf, Serving, Uploading, OnlyPc, Settles,
          Returns, Fetches, SameClient, SamePlan, SameLoop, SameEnd, KeptPiece
    <2>6. UploadInv(c)'
      BY <1>1, <1>00, <1>01, <2>1 DEF UploadInv, PutDone, Uploaded, Stored, Shape,
          ShapeOf, Serving, Uploading, Looping, OnlyPc, Settles, Returns, Fetches,
          SameClient, SamePlan, SameLoop, SameEnd, KeptPiece
    <2> QED BY <2>1, <2>2, <2>3, <2>4, <2>5, <2>6 DEF Own, CallInv
  <1>11. ASSUME StreamEnds(c) PROVE Own(c)
    <2>1. /\ Moved(c) /\ UNCHANGED <<kind, source, record, pieces, claim, job, told, sent, tainted>>
          /\ call[c].pc = "await"
          /\ call'[c].pc = "back" /\ OnlyPc(call'[c], call[c])
      BY <1>11, <1>0, GoEffect DEF StreamEnds, At, Labels, store
    <2>2. Shape(c)'
      BY <1>1, <1>00, <1>01, <2>1 DEF Shape, ShapeOf, Looping, Serving, Uploading, Busy,
          OnlyPc, Settles, Returns, Fetches, SameClient, SamePlan, SameLoop, SameEnd,
          KeptPiece
    <2>3. SentInv(c)'
      BY <1>1, <1>00, <1>01, <2>1 DEF SentInv, Covered, CoveredBy, Begun, Looping, OnlyPc,
          Settles, Returns, Fetches, SameClient, SamePlan, SameLoop, SameEnd, KeptPiece
    <2>4. StoredInv(c)'
      BY <1>1, <1>00, <1>01, <2>1 DEF StoredInv, Covered, CoveredBy, Begun, Looping,
          Sound, Stored, OnlyPc, Settles, Returns, Fetches, SameClient, SamePlan,
          SameLoop, SameEnd, KeptPiece
    <2>5. ToldInv(c)'
      BY <1>1, <1>00, <1>01, <2>1 DEF ToldInv, Sound, Stored, Covered, CoveredBy,
          StoredInv, Begun, Looping, OnlyPc, Settles, Returns, Fetches, SameClient,
          SamePlan, SameLoop, SameEnd, KeptPiece
    <2>6. UploadInv(c)'
      BY <1>1, <1>00, <1>01, <2>1 DEF UploadInv, PutDone, Uploaded, Stored, OnlyPc,
          Settles, Returns, Fetches, SameClient, SamePlan, SameLoop, SameEnd, KeptPiece
    <2> QED BY <2>1, <2>2, <2>3, <2>4, <2>5, <2>6 DEF Own, CallInv
  <1>12. ASSUME NEW path, TooManyAs(c, path) PROVE Own(c)
    <2>1. /\ Moved(c) /\ UNCHANGED <<kind, source, record, pieces, claim, job, sent, tainted>>
          /\ call[c].pc = "await" /\ told' = [told EXCEPT ![c] = @ \cup {"failed"}]
          /\ call'[c].pc = "closing" /\ OnlyPc(call'[c], call[c])
      BY <1>12, <1>0, GoEffect DEF TooManyAs, At, Labels, Tell, store
    <2>2. Shape(c)'
      BY <1>1, <1>00, <1>01, <2>1 DEF Shape, ShapeOf, Looping, Serving, Uploading, Busy,
          OnlyPc, Settles, Returns, Fetches, SameClient, SamePlan, SameLoop, SameEnd,
          KeptPiece
    <2>3. SentInv(c)'
      BY <1>1, <1>00, <1>01, <2>1 DEF SentInv, Covered, CoveredBy, Begun, Looping, OnlyPc,
          Settles, Returns, Fetches, SameClient, SamePlan, SameLoop, SameEnd, KeptPiece
    <2>4. StoredInv(c)'
      BY <1>1, <1>00, <1>01, <2>1 DEF StoredInv, Covered, CoveredBy, Begun, Looping,
          Sound, Stored, OnlyPc, Settles, Returns, Fetches, SameClient, SamePlan,
          SameLoop, SameEnd, KeptPiece
    <2>5. ToldInv(c)'
      BY <1>1, <1>00, <1>01, <2>1 DEF ToldInv, Sound, Stored, Covered, CoveredBy,
          StoredInv, Begun, Looping, OnlyPc, Settles, Returns, Fetches, SameClient,
          SamePlan, SameLoop, SameEnd, KeptPiece
    <2>6. UploadInv(c)'
      BY <1>1, <1>00, <1>01, <2>1 DEF UploadInv, PutDone, Uploaded, Stored, OnlyPc,
          Settles, Returns, Fetches, SameClient, SamePlan, SameLoop, SameEnd, KeptPiece
    <2> QED BY <2>1, <2>2, <2>3, <2>4, <2>5, <2>6 DEF Own, CallInv
  <1>13. ASSUME NEW path, NormalAs(c, path) PROVE Own(c)
    <2>1. /\ Moved(c) /\ UNCHANGED <<kind, source, record, pieces, claim, job, sent, tainted>>
          /\ call[c].pc = "await"
          /\ \/ /\ Fetches(call'[c], call[c], "parents", call[c].want \ call[c].got)
                /\ told' = [told EXCEPT ![c] = @ \cup {"started"}]
             \/ call'[c].pc = "back" /\ OnlyPc(call'[c], call[c]) /\ told' = told
      <3> DEFINE rest == call[c].want \ call[c].got
                 k == Fetch(c, "parents", rest)
      <3>0. PICK n \in 0..MaxSchedules : n = call[c].count + 1
        BY <1>13, <1>0, CountType DEF NormalAs
      <3>1. rest \in SUBSET Pieces
        BY <1>0 DEF CallRecords
      <3>2. k \in CallRecords /\ Fetches(k, call[c], "parents", rest)
        BY <1>0, <3>1, RecordFetch
      <3>3. k.count = call[c].count
        BY <1>0 DEF Fetch, CallRecords
      <3> HIDE DEF k
      <3> DEFINE r == [k EXCEPT !.count = n]
      <3>4. r \in CallRecords
        BY <3>2 DEF CallRecords
      <3>5. Fetches(r, call[c], "parents", rest)
        BY <3>2 DEF CallRecords, Fetches, SameClient
      <3>6. (Becomes(c, r) /\ Tell(c, "started")) \/ (Go(c, "back") /\ told' = told)
        BY <1>13, <3>0, <3>3 DEF NormalAs, k
      <3> HIDE DEF r
      <3> QED BY <1>13, <1>0, <3>4, <3>5, <3>6, BecomesEffect, GoEffect DEF NormalAs, At,
          Labels, Tell, store
    <2>2. Shape(c)'
      BY <1>1, <1>00, <1>01, <2>1 DEF Shape, ShapeOf, Looping, Serving, Uploading, Busy,
          OnlyPc, Settles, Returns, Fetches, SameClient, SamePlan, SameLoop, SameEnd,
          KeptPiece
    <2>3. SentInv(c)'
      BY <1>1, <1>00, <1>01, <2>1 DEF SentInv, Covered, CoveredBy, Begun, Looping, OnlyPc,
          Settles, Returns, Fetches, SameClient, SamePlan, SameLoop, SameEnd, KeptPiece
    <2>4. StoredInv(c)'
      BY <1>1, <1>00, <1>01, <2>1 DEF StoredInv, Covered, CoveredBy, Begun, Looping,
          Sound, Stored, OnlyPc, Settles, Returns, Fetches, SameClient, SamePlan,
          SameLoop, SameEnd, KeptPiece
    <2>5. ToldInv(c)'
      BY <1>1, <1>00, <1>01, <2>1 DEF ToldInv, Sound, Stored, Covered, CoveredBy,
          StoredInv, Begun, Looping, OnlyPc, Settles, Returns, Fetches, SameClient,
          SamePlan, SameLoop, SameEnd, KeptPiece
    <2>6. UploadInv(c)'
      BY <1>1, <1>00, <1>01, <2>1 DEF UploadInv, PutDone, Uploaded, Stored, OnlyPc,
          Settles, Returns, Fetches, SameClient, SamePlan, SameLoop, SameEnd, KeptPiece
    <2> QED BY <2>1, <2>2, <2>3, <2>4, <2>5, <2>6 DEF Own, CallInv
  <1>14. ASSUME NEW path, NEW first \in {"started", "finished"}, EmptyAs(c, path, first) PROVE Own(c)
    <2>1. /\ Moved(c) /\ UNCHANGED <<kind, source, record, pieces, claim, job, sent, tainted>>
          /\ call[c].pc = "await" /\ told' = [told EXCEPT ![c] = @ \cup {first}]
          /\ call'[c].pc = "empty" /\ call'[c].empty /\ call'[c].op = call[c].op
          /\ call'[c].listening = call[c].listening
          /\ SamePlan(call'[c], call[c]) /\ SameLoop(call'[c], call[c])
          /\ SameEnd(call'[c], call[c])
      <3>0. PICK n \in 0..MaxSchedules : n = call[c].count + 1
        BY <1>14, <1>0, CountType DEF EmptyAs
      <3> DEFINE r == [call[c] EXCEPT !.pc = "empty", !.empty = TRUE, !.count = n]
      <3>1. r \in CallRecords
        BY <1>0 DEF CallRecords, Labels
      <3>2. /\ r.pc = "empty" /\ r.empty /\ r.op = call[c].op /\ r.listening = call[c].listening
            /\ SamePlan(r, call[c]) /\ SameLoop(r, call[c]) /\ SameEnd(r, call[c])
        BY <1>0 DEF CallRecords, SameClient, SamePlan, SameLoop, SameEnd
      <3>3. Becomes(c, r)
        BY <1>14, <3>0 DEF EmptyAs, Tell
      <3> HIDE DEF r
      <3>4. Moved(c) /\ call'[c] = r
        BY <1>0, <3>1, <3>3, BecomesEffect
      <3> QED BY <1>14, <3>2, <3>4 DEF EmptyAs, Tell, At, store
    <2>2. Shape(c)'
      BY <1>1, <1>00, <1>01, <2>1 DEF Shape, ShapeOf, Looping, Serving, Uploading, Busy,
          OnlyPc, Settles, Returns, Fetches, SameClient, SamePlan, SameLoop, SameEnd,
          KeptPiece
    <2>3. SentInv(c)'
      BY <1>1, <1>00, <1>01, <2>1 DEF SentInv, Covered, CoveredBy, Begun, Looping, OnlyPc,
          Settles, Returns, Fetches, SameClient, SamePlan, SameLoop, SameEnd, KeptPiece
    <2>4. StoredInv(c)'
      BY <1>1, <1>00, <1>01, <2>1 DEF StoredInv, Covered, CoveredBy, Begun, Looping,
          Sound, Stored, OnlyPc, Settles, Returns, Fetches, SameClient, SamePlan,
          SameLoop, SameEnd, KeptPiece
    <2>5. ToldInv(c)'
      BY <1>1, <1>00, <1>01, <2>1 DEF ToldInv, Sound, Stored, Covered, CoveredBy,
          StoredInv, Begun, Looping, OnlyPc, Settles, Returns, Fetches, SameClient,
          SamePlan, SameLoop, SameEnd, KeptPiece
    <2>6. UploadInv(c)'
      BY <1>1, <1>00, <1>01, <2>1 DEF UploadInv, PutDone, Uploaded, Stored, OnlyPc,
          Settles, Returns, Fetches, SameClient, SamePlan, SameLoop, SameEnd, KeptPiece
    <2> QED BY <2>1, <2>2, <2>3, <2>4, <2>5, <2>6 DEF Own, CallInv
  <1>15. ASSUME EmptyToldBoth(c) PROVE Own(c)
    <2>1. /\ Moved(c) /\ UNCHANGED <<kind, source, record, pieces, claim, job, sent, tainted>>
          /\ call[c].pc = "empty" /\ \E m \in {"started", "finished"} : told' = [told EXCEPT ![c] = @ \cup {m}]
          /\ call'[c].pc = "closing" /\ call'[c].got = {} /\ call'[c].want = call[c].want
          /\ call'[c].part = call[c].part
          /\ SameClient(call'[c], call[c]) /\ SameLoop(call'[c], call[c])
          /\ SameEnd(call'[c], call[c])
      <3> DEFINE r == [call[c] EXCEPT !.pc = "closing", !.got = {}]
      <3>1. r \in CallRecords
        BY <1>0 DEF CallRecords, Labels
      <3>2. /\ r.pc = "closing" /\ r.got = {} /\ r.want = call[c].want /\ r.part = call[c].part
            /\ SameClient(r, call[c]) /\ SameLoop(r, call[c]) /\ SameEnd(r, call[c])
        BY <1>0 DEF CallRecords, SameClient, SamePlan, SameLoop, SameEnd
      <3>3. Becomes(c, r)
        BY <1>15 DEF EmptyToldBoth, Tell
      <3> HIDE DEF r
      <3>4. Moved(c) /\ call'[c] = r
        BY <1>0, <3>1, <3>3, BecomesEffect
      <3> QED BY <1>15, <3>2, <3>4 DEF EmptyToldBoth, Tell, At, store
    <2>2. Shape(c)'
      BY <1>1, <1>00, <1>01, <2>1 DEF Shape, ShapeOf, Looping, Serving, Uploading, Busy,
          OnlyPc, Settles, Returns, Fetches, SameClient, SamePlan, SameLoop, SameEnd,
          KeptPiece
    <2>3. SentInv(c)'
      BY <1>1, <1>00, <1>01, <2>1 DEF SentInv, Covered, CoveredBy, Begun, Looping, Shape,
          ShapeOf, Serving, Uploading, OnlyPc, Settles, Returns, Fetches, SameClient,
          SamePlan, SameLoop, SameEnd, KeptPiece
    <2>4. StoredInv(c)'
      BY <1>1, <1>00, <1>01, <2>1 DEF StoredInv, Covered, CoveredBy, Begun, Looping,
          Sound, Stored, Shape, ShapeOf, Serving, Uploading, OnlyPc, Settles, Returns,
          Fetches, SameClient, SamePlan, SameLoop, SameEnd, KeptPiece
    <2>5. ToldInv(c)'
      BY <1>1, <1>00, <1>01, <2>1 DEF ToldInv, Sound, Stored, Covered, CoveredBy,
          StoredInv, Begun, Looping, Shape, ShapeOf, Serving, Uploading, OnlyPc, Settles,
          Returns, Fetches, SameClient, SamePlan, SameLoop, SameEnd, KeptPiece
    <2>6. UploadInv(c)'
      BY <1>1, <1>00, <1>01, <2>1 DEF UploadInv, PutDone, Uploaded, Stored, Shape,
          ShapeOf, Serving, Uploading, Looping, OnlyPc, Settles, Returns, Fetches,
          SameClient, SamePlan, SameLoop, SameEnd, KeptPiece
    <2> QED BY <2>1, <2>2, <2>3, <2>4, <2>5, <2>6 DEF Own, CallInv
  <1>16. ASSUME NeedBackToSource(c) PROVE Own(c)
    <2>1. /\ Moved(c) /\ UNCHANGED <<kind, source, record, pieces, claim, job, sent, tainted>>
          /\ call[c].pc = "await"
          /\ \/ /\ Fetches(call'[c], call[c], "b2s", call[c].want \ call[c].got)
                /\ told' = [told EXCEPT ![c] = @ \cup {"b2s_started"}]
             \/ call'[c].pc = "back" /\ OnlyPc(call'[c], call[c]) /\ told' = told
      <3>1. call[c].want \ call[c].got \in SUBSET Pieces
        BY <1>0 DEF CallRecords
      <3> QED BY <1>16, <1>0, <3>1, FetchEffect, GoEffect DEF NeedBackToSource, At,
          Labels, Tell, store
    <2>2. Shape(c)'
      BY <1>1, <1>00, <1>01, <2>1 DEF Shape, ShapeOf, Looping, Serving, Uploading, Busy,
          OnlyPc, Settles, Returns, Fetches, SameClient, SamePlan, SameLoop, SameEnd,
          KeptPiece
    <2>3. SentInv(c)'
      BY <1>1, <1>00, <1>01, <2>1 DEF SentInv, Covered, CoveredBy, Begun, Looping, OnlyPc,
          Settles, Returns, Fetches, SameClient, SamePlan, SameLoop, SameEnd, KeptPiece
    <2>4. StoredInv(c)'
      BY <1>1, <1>00, <1>01, <2>1 DEF StoredInv, Covered, CoveredBy, Begun, Looping,
          Sound, Stored, OnlyPc, Settles, Returns, Fetches, SameClient, SamePlan,
          SameLoop, SameEnd, KeptPiece
    <2>5. ToldInv(c)'
      BY <1>1, <1>00, <1>01, <2>1 DEF ToldInv, Sound, Stored, Covered, CoveredBy,
          StoredInv, Begun, Looping, OnlyPc, Settles, Returns, Fetches, SameClient,
          SamePlan, SameLoop, SameEnd, KeptPiece
    <2>6. UploadInv(c)'
      BY <1>1, <1>00, <1>01, <2>1 DEF UploadInv, PutDone, Uploaded, Stored, OnlyPc,
          Settles, Returns, Fetches, SameClient, SamePlan, SameLoop, SameEnd, KeptPiece
    <2> QED BY <2>1, <2>2, <2>3, <2>4, <2>5, <2>6 DEF Own, CallInv
  <1>17. ASSUME RefuseBackToSource(c) PROVE Own(c)
    <2>1. /\ Moved(c) /\ UNCHANGED <<kind, source, record, pieces, claim, job, sent, tainted>>
          /\ call[c].pc = "await" /\ told' = [told EXCEPT ![c] = @ \cup {"b2s_failed"}]
          /\ call'[c].pc = "closing" /\ OnlyPc(call'[c], call[c])
      BY <1>17, <1>0, GoEffect DEF RefuseBackToSource, At, Labels, Tell, store
    <2>2. Shape(c)'
      BY <1>1, <1>00, <1>01, <2>1 DEF Shape, ShapeOf, Looping, Serving, Uploading, Busy,
          OnlyPc, Settles, Returns, Fetches, SameClient, SamePlan, SameLoop, SameEnd,
          KeptPiece
    <2>3. SentInv(c)'
      BY <1>1, <1>00, <1>01, <2>1 DEF SentInv, Covered, CoveredBy, Begun, Looping, OnlyPc,
          Settles, Returns, Fetches, SameClient, SamePlan, SameLoop, SameEnd, KeptPiece
    <2>4. StoredInv(c)'
      BY <1>1, <1>00, <1>01, <2>1 DEF StoredInv, Covered, CoveredBy, Begun, Looping,
          Sound, Stored, OnlyPc, Settles, Returns, Fetches, SameClient, SamePlan,
          SameLoop, SameEnd, KeptPiece
    <2>5. ToldInv(c)'
      BY <1>1, <1>00, <1>01, <2>1 DEF ToldInv, Sound, Stored, Covered, CoveredBy,
          StoredInv, Begun, Looping, OnlyPc, Settles, Returns, Fetches, SameClient,
          SamePlan, SameLoop, SameEnd, KeptPiece
    <2>6. UploadInv(c)'
      BY <1>1, <1>00, <1>01, <2>1 DEF UploadInv, PutDone, Uploaded, Stored, OnlyPc,
          Settles, Returns, Fetches, SameClient, SamePlan, SameLoop, SameEnd, KeptPiece
    <2> QED BY <2>1, <2>2, <2>3, <2>4, <2>5, <2>6 DEF Own, CallInv
  <1>18. ASSUME Closed(c) PROVE Own(c)
    <2>1. /\ Moved(c) /\ UNCHANGED <<kind, source, record, pieces, claim, job, told, sent, tainted>>
          /\ call[c].pc = "closing"
          /\ call'[c].pc = "back" /\ OnlyPc(call'[c], call[c])
      BY <1>18, <1>0, GoEffect DEF Closed, At, Labels, store
    <2>2. Shape(c)'
      BY <1>1, <1>00, <1>01, <2>1 DEF Shape, ShapeOf, Looping, Serving, Uploading, Busy,
          OnlyPc, Settles, Returns, Fetches, SameClient, SamePlan, SameLoop, SameEnd,
          KeptPiece
    <2>3. SentInv(c)'
      BY <1>1, <1>00, <1>01, <2>1 DEF SentInv, Covered, CoveredBy, Begun, Looping, OnlyPc,
          Settles, Returns, Fetches, SameClient, SamePlan, SameLoop, SameEnd, KeptPiece
    <2>4. StoredInv(c)'
      BY <1>1, <1>00, <1>01, <2>1 DEF StoredInv, Covered, CoveredBy, Begun, Looping,
          Sound, Stored, OnlyPc, Settles, Returns, Fetches, SameClient, SamePlan,
          SameLoop, SameEnd, KeptPiece
    <2>5. ToldInv(c)'
      BY <1>1, <1>00, <1>01, <2>1 DEF ToldInv, Sound, Stored, Covered, CoveredBy,
          StoredInv, Begun, Looping, OnlyPc, Settles, Returns, Fetches, SameClient,
          SamePlan, SameLoop, SameEnd, KeptPiece
    <2>6. UploadInv(c)'
      BY <1>1, <1>00, <1>01, <2>1 DEF UploadInv, PutDone, Uploaded, Stored, OnlyPc,
          Settles, Returns, Fetches, SameClient, SamePlan, SameLoop, SameEnd, KeptPiece
    <2> QED BY <2>1, <2>2, <2>3, <2>4, <2>5, <2>6 DEF Own, CallInv
  <1>19. ASSUME CollectEnds(c) PROVE Own(c)
    <2>1. /\ Moved(c) /\ UNCHANGED <<kind, source, record, pieces, claim, job, told, sent, tainted>>
          /\ call[c].pc = "loop" /\ call[c].fetch = "parents"
          /\ call'[c].pc = "join" /\ OnlyPc(call'[c], call[c])
      BY <1>19, <1>0, GoEffect DEF CollectEnds, At, Labels, store
    <2>2. Shape(c)'
      BY <1>1, <1>00, <1>01, <2>1 DEF Shape, ShapeOf, Looping, Serving, Uploading, Busy,
          OnlyPc, Settles, Returns, Fetches, SameClient, SamePlan, SameLoop, SameEnd,
          KeptPiece
    <2>3. SentInv(c)'
      BY <1>1, <1>00, <1>01, <2>1 DEF SentInv, Covered, CoveredBy, Begun, Looping, OnlyPc,
          Settles, Returns, Fetches, SameClient, SamePlan, SameLoop, SameEnd, KeptPiece
    <2>4. StoredInv(c)'
      BY <1>1, <1>00, <1>01, <2>1 DEF StoredInv, Covered, CoveredBy, Begun, Looping,
          Sound, Stored, OnlyPc, Settles, Returns, Fetches, SameClient, SamePlan,
          SameLoop, SameEnd, KeptPiece
    <2>5. ToldInv(c)'
      BY <1>1, <1>00, <1>01, <2>1 DEF ToldInv, Sound, Stored, Covered, CoveredBy,
          StoredInv, Begun, Looping, OnlyPc, Settles, Returns, Fetches, SameClient,
          SamePlan, SameLoop, SameEnd, KeptPiece
    <2>6. UploadInv(c)'
      BY <1>1, <1>00, <1>01, <2>1 DEF UploadInv, PutDone, Uploaded, Stored, OnlyPc,
          Settles, Returns, Fetches, SameClient, SamePlan, SameLoop, SameEnd, KeptPiece
    <2> QED BY <2>1, <2>2, <2>3, <2>4, <2>5, <2>6 DEF Own, CallInv
  <1>20. ASSUME NEW path, RoundDoneAs(c, path) PROVE Own(c)
    <2>1. /\ Moved(c) /\ UNCHANGED <<kind, source, record, pieces, claim, sent, tainted>>
          /\ call[c].pc = "join" /\ \A q \in Pieces : job[c][q].at \in {"none", "joined"}
          /\ \A q \in Pieces : job'[c][q].at = "none" /\ job'[c][q].left = 0
          /\ call'[c].got = call[c].got \cup call[c].part /\ call'[c].part = {}
          /\ call'[c].want = call[c].want
          /\ SameClient(call'[c], call[c]) /\ SameLoop(call'[c], call[c])
          /\ SameEnd(call'[c], call[c])
          /\ \/ /\ call'[c].got = call'[c].want /\ call'[c].pc = "closing"
                /\ told' = [told EXCEPT ![c] = @ \cup {"finished"}]
             \/ call'[c].pc \in {"await", "back"} /\ told' = told
      <3> DEFINE got == call[c].got \cup call[c].part
                 next == [call[c] EXCEPT !.got = got, !.part = {}]
      <3>1. next \in CallRecords
        BY <1>0 DEF CallRecords
      <3>2. /\ next.got = got /\ next.part = {} /\ next.want = call[c].want
            /\ SameClient(next, call[c]) /\ SameLoop(next, call[c]) /\ SameEnd(next, call[c])
        BY <1>0 DEF CallRecords, SameClient, SameLoop, SameEnd
      <3>3. PICK pc \in {"closing", "await", "back"} :
              /\ Becomes(c, [next EXCEPT !.pc = pc])
              /\ \/ pc = "closing" /\ got = call[c].want /\ Tell(c, "finished")
                 \/ pc # "closing" /\ told' = told
        BY <1>20 DEF RoundDoneAs, Enough
      <3> HIDE DEF next
      <3> DEFINE r == [next EXCEPT !.pc = pc]
      <3>4. r \in CallRecords /\ r.pc = pc /\ OnlyPc(r, next)
        <4>1. pc \in Labels
          BY <3>3 DEF Labels
        <4> QED BY <3>1, <4>1, RecordGo
      <3> HIDE DEF r
      <3>5. Moved(c) /\ call'[c] = r
        BY <1>0, <3>3, <3>4, BecomesEffect DEF r
      <3>6. /\ r.got = got /\ r.part = {} /\ r.want = call[c].want
            /\ SameClient(r, call[c]) /\ SameLoop(r, call[c]) /\ SameEnd(r, call[c])
        BY <3>2, <3>4 DEF OnlyPc, SameClient, SamePlan, SameLoop, SameEnd
      <3>7. job' = [job EXCEPT ![c] = NoJobs]
        BY <1>20 DEF RoundDoneAs
      <3>8. \A q \in Pieces : job'[c][q].at = "none" /\ job'[c][q].left = 0
        BY <1>00, <3>7 DEF NoJobs, NoJob
      <3> QED BY <1>20, <3>3, <3>4, <3>5, <3>6, <3>8 DEF RoundDoneAs, AllJoined, Settled,
          Tell, At, store
    <2>2. Shape(c)'
      BY <1>1, <1>00, <1>01, <2>1 DEF Shape, ShapeOf, Looping, Serving, Uploading, Busy,
          OnlyPc, Settles, Returns, Fetches, SameClient, SamePlan, SameLoop, SameEnd,
          KeptPiece
    <2>3. SentInv(c)'
      BY <1>1, <1>00, <1>01, <2>1 DEF SentInv, Covered, CoveredBy, Begun, Looping, OnlyPc,
          Settles, Returns, Fetches, SameClient, SamePlan, SameLoop, SameEnd, KeptPiece
    <2>4. StoredInv(c)'
      BY <1>1, <1>00, <1>01, <2>1 DEF StoredInv, Covered, CoveredBy, Begun, Looping,
          Sound, Stored, OnlyPc, Settles, Returns, Fetches, SameClient, SamePlan,
          SameLoop, SameEnd, KeptPiece
    <2>5. ToldInv(c)'
      BY <1>1, <1>00, <1>01, <2>1 DEF ToldInv, Sound, Stored, Covered, CoveredBy,
          StoredInv, Begun, Looping, OnlyPc, Settles, Returns, Fetches, SameClient,
          SamePlan, SameLoop, SameEnd, KeptPiece
    <2>6. UploadInv(c)'
      BY <1>1, <1>00, <1>01, <2>1 DEF UploadInv, PutDone, Uploaded, Stored, OnlyPc,
          Settles, Returns, Fetches, SameClient, SamePlan, SameLoop, SameEnd, KeptPiece
    <2> QED BY <2>1, <2>2, <2>3, <2>4, <2>5, <2>6 DEF Own, CallInv
  <1>21. ASSUME BackToSourceDone(c) PROVE Own(c)
    <2>1. /\ Moved(c) /\ UNCHANGED <<kind, source, record, pieces, claim, sent, tainted>>
          /\ call[c].pc = "join" /\ \A q \in Pieces : job[c][q].at \in {"none", "joined"}
          /\ \A q \in Pieces : job'[c][q].at = "none" /\ job'[c][q].left = 0
          /\ told' = [told EXCEPT ![c] = @ \cup {"b2s_finished"}]
          /\ call'[c].pc = "closing" /\ call'[c].got = call[c].got \cup call[c].part
          /\ call'[c].want = call[c].want /\ call'[c].part = call[c].part
          /\ SameClient(call'[c], call[c]) /\ SameLoop(call'[c], call[c])
          /\ SameEnd(call'[c], call[c])
      <3> DEFINE r == [call[c] EXCEPT !.got = call[c].got \cup call[c].part, !.pc = "closing"]
      <3>1. r \in CallRecords
        BY <1>0 DEF CallRecords, Labels
      <3>2. /\ r.pc = "closing" /\ r.got = call[c].got \cup call[c].part
            /\ r.want = call[c].want /\ r.part = call[c].part
            /\ SameClient(r, call[c]) /\ SameLoop(r, call[c]) /\ SameEnd(r, call[c])
        BY <1>0 DEF CallRecords, SameClient, SamePlan, SameLoop, SameEnd
      <3>3. Becomes(c, r)
        BY <1>21 DEF BackToSourceDone, AllJoined, Settled, Tell, NoJobs, NoJob
      <3> HIDE DEF r
      <3>4. Moved(c) /\ call'[c] = r
        BY <1>0, <3>1, <3>3, BecomesEffect
      <3> QED BY <1>21, <3>2, <3>4, <1>00 DEF BackToSourceDone, AllJoined, Settled, Tell,
          NoJobs, NoJob, At, store
    <2>2. Shape(c)'
      BY <1>1, <1>00, <1>01, <2>1 DEF Shape, ShapeOf, Looping, Serving, Uploading, Busy,
          OnlyPc, Settles, Returns, Fetches, SameClient, SamePlan, SameLoop, SameEnd,
          KeptPiece
    <2>3. SentInv(c)'
      BY <1>1, <1>00, <1>01, <2>1 DEF SentInv, Covered, CoveredBy, Begun, Looping, OnlyPc,
          Settles, Returns, Fetches, SameClient, SamePlan, SameLoop, SameEnd, KeptPiece
    <2>4. StoredInv(c)'
      BY <1>1, <1>00, <1>01, <2>1 DEF StoredInv, Covered, CoveredBy, Begun, Looping,
          Sound, Stored, OnlyPc, Settles, Returns, Fetches, SameClient, SamePlan,
          SameLoop, SameEnd, KeptPiece
    <2>5. ToldInv(c)'
      BY <1>1, <1>00, <1>01, <2>1 DEF ToldInv, Sound, Stored, Covered, CoveredBy,
          StoredInv, Begun, Looping, OnlyPc, Settles, Returns, Fetches, SameClient,
          SamePlan, SameLoop, SameEnd, KeptPiece
    <2>6. UploadInv(c)'
      BY <1>1, <1>00, <1>01, <2>1 DEF UploadInv, PutDone, Uploaded, Stored, OnlyPc,
          Settles, Returns, Fetches, SameClient, SamePlan, SameLoop, SameEnd, KeptPiece
    <2> QED BY <2>1, <2>2, <2>3, <2>4, <2>5, <2>6 DEF Own, CallInv
  <1>22. ASSUME SourceDone(c) PROVE Own(c)
    <2>1. /\ Moved(c) /\ UNCHANGED <<kind, source, record, pieces, claim, told, sent, tainted>>
          /\ call[c].pc = "join" /\ \A q \in Pieces : job[c][q].at \in {"none", "joined"}
          /\ \A q \in Pieces : job'[c][q].at = "none" /\ job'[c][q].left = 0
          /\ call[c].fetch = "source"
          /\ Settles(call'[c], call[c], "ok")
      <3>1. job' = [job EXCEPT ![c] = NoJobs]
        BY <1>22 DEF SourceDone
      <3> QED BY <1>22, <1>0, <1>00, <3>1, SettleEffect DEF SourceDone, AllJoined,
          Settled, At, NoJobs, NoJob, store
    <2>2. Shape(c)'
      BY <1>1, <1>00, <1>01, <2>1 DEF Shape, ShapeOf, Looping, Serving, Uploading, Busy,
          OnlyPc, Settles, Returns, Fetches, SameClient, SamePlan, SameLoop, SameEnd,
          KeptPiece
    <2>3. SentInv(c)'
      BY <1>1, <1>00, <1>01, <2>1 DEF SentInv, Covered, CoveredBy, Begun, Looping, Shape,
          ShapeOf, Serving, Uploading, OnlyPc, Settles, Returns, Fetches, SameClient,
          SamePlan, SameLoop, SameEnd, KeptPiece
    <2>4. StoredInv(c)'
      BY SMTT(40), <1>1, <1>00, <1>01, <2>1 DEF StoredInv, Covered, CoveredBy, Begun, Looping,
          Sound, Stored, Shape, ShapeOf, Serving, Uploading, OnlyPc, Settles, Returns,
          Fetches, SameClient, SamePlan, SameLoop, SameEnd, KeptPiece
    <2>5. ToldInv(c)'
      BY <1>1, <1>00, <1>01, <2>1 DEF ToldInv, Sound, Stored, Covered, CoveredBy,
          StoredInv, Begun, Looping, Shape, ShapeOf, Serving, Uploading, OnlyPc, Settles,
          Returns, Fetches, SameClient, SamePlan, SameLoop, SameEnd, KeptPiece
    <2>6. UploadInv(c)'
      BY <1>1, <1>00, <1>01, <2>1 DEF UploadInv, PutDone, Uploaded, Stored, Shape,
          ShapeOf, Serving, Uploading, Looping, OnlyPc, Settles, Returns, Fetches,
          SameClient, SamePlan, SameLoop, SameEnd, KeptPiece
    <2> QED BY <2>1, <2>2, <2>3, <2>4, <2>5, <2>6 DEF Own, CallInv
  <1>23. ASSUME NEW path, NEW fallback \in BOOLEAN, BackAs(c, path, fallback) PROVE Own(c)
    <2>1. /\ Moved(c) /\ UNCHANGED <<kind, source, record, pieces, claim, job, told, sent, tainted>>
          /\ call[c].pc = "back"
          /\ \/ call[c].want \ call[c].got = {} /\ Settles(call'[c], call[c], "ok")
             \/ /\ call[c].want \ call[c].got # {}
                /\ \/ Fetches(call'[c], call[c], "source", call[c].want \ call[c].got)
                   \/ Settles(call'[c], call[c], "err")
      <3>1. call[c].want \ call[c].got \in SUBSET Pieces
        BY <1>0 DEF CallRecords
      <3> QED BY <1>23, <1>0, <3>1, FetchEffect, SettleEffect DEF BackAs, At, store
    <2>2. Shape(c)'
      BY <1>1, <1>00, <1>01, <2>1 DEF Shape, ShapeOf, Looping, Serving, Uploading, Busy,
          OnlyPc, Settles, Returns, Fetches, SameClient, SamePlan, SameLoop, SameEnd,
          KeptPiece
    <2>3. SentInv(c)'
      BY <1>1, <1>00, <1>01, <2>1 DEF SentInv, Covered, CoveredBy, Begun, Looping, Shape,
          ShapeOf, Serving, Uploading, OnlyPc, Settles, Returns, Fetches, SameClient,
          SamePlan, SameLoop, SameEnd, KeptPiece
    <2>4. StoredInv(c)'
      BY <1>1, <1>00, <1>01, <2>1 DEF StoredInv, Covered, CoveredBy, Begun, Looping,
          Sound, Stored, Shape, ShapeOf, Serving, Uploading, OnlyPc, Settles, Returns,
          Fetches, SameClient, SamePlan, SameLoop, SameEnd, KeptPiece
    <2>5. ToldInv(c)'
      BY <1>1, <1>00, <1>01, <2>1 DEF ToldInv, Sound, Stored, Covered, CoveredBy,
          StoredInv, Begun, Looping, Shape, ShapeOf, Serving, Uploading, OnlyPc, Settles,
          Returns, Fetches, SameClient, SamePlan, SameLoop, SameEnd, KeptPiece
    <2>6. UploadInv(c)'
      BY <1>1, <1>00, <1>01, <2>1 DEF UploadInv, PutDone, Uploaded, Stored, Shape,
          ShapeOf, Serving, Uploading, Looping, OnlyPc, Settles, Returns, Fetches,
          SameClient, SamePlan, SameLoop, SameEnd, KeptPiece
    <2> QED BY <2>1, <2>2, <2>3, <2>4, <2>5, <2>6 DEF Own, CallInv
  <1>24. ASSUME NEW path, SettleAs(c, path) PROVE Own(c)
    <2>1. /\ Moved(c) /\ UNCHANGED <<kind, source, pieces, claim, job, told, sent, tainted>>
          /\ call[c].pc = "settle" /\ (record # {} => record' # {})
          /\ \/ Returns(call'[c], call[c], "err")
             \/ call[c].res = "ok" /\ Returns(call'[c], call[c], "ok")
      BY <1>24, <1>0, ReturnEffect DEF SettleAs, At
    <2>2. Shape(c)'
      BY <1>1, <1>00, <1>01, <2>1 DEF Shape, ShapeOf, Looping, Serving, Uploading, Busy,
          OnlyPc, Settles, Returns, Fetches, SameClient, SamePlan, SameLoop, SameEnd,
          KeptPiece
    <2>3. SentInv(c)'
      BY <1>1, <1>00, <1>01, <2>1 DEF SentInv, Covered, CoveredBy, Begun, Looping, Shape,
          ShapeOf, Serving, Uploading, OnlyPc, Settles, Returns, Fetches, SameClient,
          SamePlan, SameLoop, SameEnd, KeptPiece
    <2>4. StoredInv(c)'
      BY <1>1, <1>00, <1>01, <2>1 DEF StoredInv, Covered, CoveredBy, Begun, Looping,
          Sound, Stored, Shape, ShapeOf, Serving, Uploading, OnlyPc, Settles, Returns,
          Fetches, SameClient, SamePlan, SameLoop, SameEnd, KeptPiece
    <2>5. ToldInv(c)'
      BY <1>1, <1>00, <1>01, <2>1 DEF ToldInv, Sound, Stored, Covered, CoveredBy,
          StoredInv, Begun, Looping, Shape, ShapeOf, Serving, Uploading, OnlyPc, Settles,
          Returns, Fetches, SameClient, SamePlan, SameLoop, SameEnd, KeptPiece
    <2>6. UploadInv(c)'
      BY <1>1, <1>00, <1>01, <2>1 DEF UploadInv, PutDone, Uploaded, Stored, Shape,
          ShapeOf, Serving, Uploading, Looping, OnlyPc, Settles, Returns, Fetches,
          SameClient, SamePlan, SameLoop, SameEnd, KeptPiece
    <2> QED BY <2>1, <2>2, <2>3, <2>4, <2>5, <2>6 DEF Own, CallInv
  <1>25. ASSUME ClientLeaves(c) PROVE Own(c)
    <2>1. /\ Moved(c) /\ UNCHANGED <<kind, source, record, pieces, claim, job, told, sent, tainted>>
          /\ ~call'[c].listening /\ call'[c].pc = call[c].pc /\ call'[c].op = call[c].op
          /\ call'[c].empty = call[c].empty
          /\ SamePlan(call'[c], call[c]) /\ SameLoop(call'[c], call[c])
          /\ SameEnd(call'[c], call[c])
      <3> DEFINE r == [call[c] EXCEPT !.listening = FALSE]
      <3>1. r \in CallRecords
        BY <1>0 DEF CallRecords, Labels
      <3>2. /\ ~r.listening /\ r.pc = call[c].pc /\ r.op = call[c].op /\ r.empty = call[c].empty
            /\ SamePlan(r, call[c]) /\ SameLoop(r, call[c]) /\ SameEnd(r, call[c])
        BY <1>0 DEF CallRecords, SameClient, SamePlan, SameLoop, SameEnd
      <3>3. Becomes(c, r)
        BY <1>25 DEF ClientLeaves
      <3> HIDE DEF r
      <3>4. Moved(c) /\ call'[c] = r
        BY <1>0, <3>1, <3>3, BecomesEffect
      <3> QED BY <1>25, <3>2, <3>4 DEF ClientLeaves, At, store
    <2>2. Shape(c)'
      BY <1>1, <1>00, <1>01, <2>1 DEF Shape, ShapeOf, Looping, Serving, Uploading, Busy,
          OnlyPc, Settles, Returns, Fetches, SameClient, SamePlan, SameLoop, SameEnd,
          KeptPiece
    <2>3. SentInv(c)'
      BY <1>1, <1>00, <1>01, <2>1 DEF SentInv, Covered, CoveredBy, Begun, Looping, OnlyPc,
          Settles, Returns, Fetches, SameClient, SamePlan, SameLoop, SameEnd, KeptPiece
    <2>4. StoredInv(c)'
      BY <1>1, <1>00, <1>01, <2>1 DEF StoredInv, Covered, CoveredBy, Begun, Looping,
          Sound, Stored, OnlyPc, Settles, Returns, Fetches, SameClient, SamePlan,
          SameLoop, SameEnd, KeptPiece
    <2>5. ToldInv(c)'
      BY <1>1, <1>00, <1>01, <2>1 DEF ToldInv, Sound, Stored, Covered, CoveredBy,
          StoredInv, Begun, Looping, OnlyPc, Settles, Returns, Fetches, SameClient,
          SamePlan, SameLoop, SameEnd, KeptPiece
    <2>6. UploadInv(c)'
      BY <1>1, <1>00, <1>01, <2>1 DEF UploadInv, PutDone, Uploaded, Stored, OnlyPc,
          Settles, Returns, Fetches, SameClient, SamePlan, SameLoop, SameEnd, KeptPiece
    <2> QED BY <2>1, <2>2, <2>3, <2>4, <2>5, <2>6 DEF Own, CallInv
  <1>26. ASSUME RefuseUpload(c) PROVE Own(c)
    <2>1. /\ Moved(c) /\ UNCHANGED <<kind, source, record, pieces, claim, job, told, sent, tainted>>
          /\ call[c].pc = "idle"
          /\ Returns(call'[c], call[c], "err")
      BY <1>26, <1>0, ReturnEffect DEF RefuseUpload, At, store
    <2>2. Shape(c)'
      BY <1>1, <1>00, <1>01, <2>1 DEF Shape, ShapeOf, Looping, Serving, Uploading, Busy,
          OnlyPc, Settles, Returns, Fetches, SameClient, SamePlan, SameLoop, SameEnd,
          KeptPiece
    <2>3. SentInv(c)'
      BY <1>1, <1>00, <1>01, <2>1 DEF SentInv, Covered, CoveredBy, Begun, Looping, OnlyPc,
          Settles, Returns, Fetches, SameClient, SamePlan, SameLoop, SameEnd, KeptPiece
    <2>4. StoredInv(c)'
      BY <1>1, <1>00, <1>01, <2>1 DEF StoredInv, Covered, CoveredBy, Begun, Looping,
          Sound, Stored, OnlyPc, Settles, Returns, Fetches, SameClient, SamePlan,
          SameLoop, SameEnd, KeptPiece
    <2>5. ToldInv(c)'
      BY <1>1, <1>00, <1>01, <2>1 DEF ToldInv, Sound, Stored, Covered, CoveredBy,
          StoredInv, Begun, Looping, OnlyPc, Settles, Returns, Fetches, SameClient,
          SamePlan, SameLoop, SameEnd, KeptPiece
    <2>6. UploadInv(c)'
      BY <1>1, <1>00, <1>01, <2>1 DEF UploadInv, PutDone, Uploaded, Stored, OnlyPc,
          Settles, Returns, Fetches, SameClient, SamePlan, SameLoop, SameEnd, KeptPiece
    <2> QED BY <2>1, <2>2, <2>3, <2>4, <2>5, <2>6 DEF Own, CallInv
  <1>27. ASSUME NEW k \in Kinds, AcceptUploadAs(c, k) PROVE Own(c)
    <2>1. /\ Moved(c) /\ UNCHANGED <<kind, source, record, pieces, claim, job, told, sent, tainted>>
          /\ call[c].pc = "idle" /\ call[c].op = "upload"
          /\ (call'[c].pc = "u_start" /\ OnlyPc(call'[c], call[c])) \/ Returns(call'[c], call[c], "err")
      BY <1>27, <1>0, GoEffect, ReturnEffect DEF AcceptUploadAs, At, Labels, store
    <2>2. Shape(c)'
      BY <1>1, <1>00, <1>01, <2>1 DEF Shape, ShapeOf, Looping, Serving, Uploading, Busy,
          OnlyPc, Settles, Returns, Fetches, SameClient, SamePlan, SameLoop, SameEnd,
          KeptPiece
    <2>3. SentInv(c)'
      BY <1>1, <1>00, <1>01, <2>1 DEF SentInv, Covered, CoveredBy, Begun, Looping, OnlyPc,
          Settles, Returns, Fetches, SameClient, SamePlan, SameLoop, SameEnd, KeptPiece
    <2>4. StoredInv(c)'
      BY <1>1, <1>00, <1>01, <2>1 DEF StoredInv, Covered, CoveredBy, Begun, Looping,
          Sound, Stored, OnlyPc, Settles, Returns, Fetches, SameClient, SamePlan,
          SameLoop, SameEnd, KeptPiece
    <2>5. ToldInv(c)'
      BY <1>1, <1>00, <1>01, <2>1 DEF ToldInv, Sound, Stored, Covered, CoveredBy,
          StoredInv, Begun, Looping, OnlyPc, Settles, Returns, Fetches, SameClient,
          SamePlan, SameLoop, SameEnd, KeptPiece
    <2>6. UploadInv(c)'
      BY <1>1, <1>00, <1>01, <2>1 DEF UploadInv, PutDone, Uploaded, Stored, OnlyPc,
          Settles, Returns, Fetches, SameClient, SamePlan, SameLoop, SameEnd, KeptPiece
    <2> QED BY <2>1, <2>2, <2>3, <2>4, <2>5, <2>6 DEF Own, CallInv
  <1>28. ASSUME NEW k \in Kinds, UploadStartedAs(c, k) PROVE Own(c)
    <2>1. /\ Moved(c) /\ UNCHANGED <<kind, source, pieces, claim, job, sent, tainted>>
          /\ call[c].pc = "u_start" /\ (record # {} => record' # {})
          /\ (told' = told \/ told' = [told EXCEPT ![c] = @ \cup {"upload_started"}])
          /\ \/ Returns(call'[c], call[c], "err")
             \/ /\ call'[c].pc = "u_content" /\ call'[c].todo = Pieces /\ record' # {}
                /\ kind = "persistent" => call'[c].put = "run"
                /\ SamePlan(call'[c], call[c]) /\ SameClient(call'[c], call[c])
      <3> DEFINE r == [call[c] EXCEPT !.pc = "u_content", !.todo = Pieces,
                                       !.put = IF k = "persistent" THEN "run" ELSE "ok"]
      <3>1. r \in CallRecords
        BY <1>0 DEF CallRecords, Labels
      <3>2. /\ r.pc = "u_content" /\ r.todo = Pieces /\ (k = "persistent" => r.put = "run")
            /\ SamePlan(r, call[c]) /\ SameClient(r, call[c])
        BY <1>0 DEF CallRecords, SamePlan, SameClient
      <3>3. \/ Return(c, "err") /\ UNCHANGED <<told, record>>
            \/ Return(c, "err") /\ Tell(c, "upload_started") /\ record' \in {record, {"here"}}
            \/ Becomes(c, r) /\ Tell(c, "upload_started") /\ record' = {"here"}
        BY <1>28 DEF UploadStartedAs
      <3> HIDE DEF r
      <3> QED BY <1>28, <1>0, <3>1, <3>2, <3>3, BecomesEffect, ReturnEffect DEF
          UploadStartedAs, Tell, At
    <2>2. Shape(c)'
      BY <1>1, <1>00, <1>01, <2>1 DEF Shape, ShapeOf, Looping, Serving, Uploading, Busy,
          OnlyPc, Settles, Returns, Fetches, SameClient, SamePlan, SameLoop, SameEnd,
          KeptPiece
    <2>3. SentInv(c)'
      BY <1>1, <1>00, <1>01, <2>1 DEF SentInv, Covered, CoveredBy, Begun, Looping, OnlyPc,
          Settles, Returns, Fetches, SameClient, SamePlan, SameLoop, SameEnd, KeptPiece
    <2>4. StoredInv(c)'
      BY <1>1, <1>00, <1>01, <2>1 DEF StoredInv, Covered, CoveredBy, Begun, Looping,
          Sound, Stored, OnlyPc, Settles, Returns, Fetches, SameClient, SamePlan,
          SameLoop, SameEnd, KeptPiece
    <2>5. ToldInv(c)'
      BY <1>1, <1>00, <1>01, <2>1 DEF ToldInv, Sound, Stored, Covered, CoveredBy,
          StoredInv, Begun, Looping, OnlyPc, Settles, Returns, Fetches, SameClient,
          SamePlan, SameLoop, SameEnd, KeptPiece
    <2>6. UploadInv(c)'
      BY <1>1, <1>00, <1>01, <2>1 DEF UploadInv, PutDone, Uploaded, Stored, OnlyPc,
          Settles, Returns, Fetches, SameClient, SamePlan, SameLoop, SameEnd, KeptPiece
    <2> QED BY <2>1, <2>2, <2>3, <2>4, <2>5, <2>6 DEF Own, CallInv
  <1>29. ASSUME NEW k \in Kinds, UploadFinishedAs(c, k) PROVE Own(c)
    <2>1. /\ Moved(c) /\ UNCHANGED <<kind, source, record, pieces, claim, job, sent, tainted>>
          /\ call[c].pc = "u_report"
          /\ \/ /\ Returns(call'[c], call[c], "ok")
                /\ told' = [told EXCEPT ![c] = @ \cup {"upload_finished"}]
             \/ call'[c].pc = "u_failed" /\ OnlyPc(call'[c], call[c]) /\ told' = told
      BY <1>29, <1>0, GoEffect, ReturnEffect DEF UploadFinishedAs, At, Labels, Tell, store
    <2>2. Shape(c)'
      BY <1>1, <1>00, <1>01, <2>1 DEF Shape, ShapeOf, Looping, Serving, Uploading, Busy,
          OnlyPc, Settles, Returns, Fetches, SameClient, SamePlan, SameLoop, SameEnd,
          KeptPiece
    <2>3. SentInv(c)'
      BY <1>1, <1>00, <1>01, <2>1 DEF SentInv, Covered, CoveredBy, Begun, Looping, Shape,
          ShapeOf, Serving, Uploading, OnlyPc, Settles, Returns, Fetches, SameClient,
          SamePlan, SameLoop, SameEnd, KeptPiece
    <2>4. StoredInv(c)'
      BY <1>1, <1>00, <1>01, <2>1 DEF StoredInv, Covered, CoveredBy, Begun, Looping,
          Sound, Stored, Shape, ShapeOf, Serving, Uploading, OnlyPc, Settles, Returns,
          Fetches, SameClient, SamePlan, SameLoop, SameEnd, KeptPiece
    <2>5. ToldInv(c)'
      BY <1>1, <1>00, <1>01, <2>1 DEF ToldInv, Sound, Stored, Covered, CoveredBy,
          StoredInv, Begun, Looping, Shape, ShapeOf, Serving, Uploading, OnlyPc, Settles,
          Returns, Fetches, SameClient, SamePlan, SameLoop, SameEnd, KeptPiece
    <2>6. UploadInv(c)'
      BY <1>1, <1>00, <1>01, <2>1 DEF UploadInv, PutDone, Uploaded, Stored, Shape,
          ShapeOf, Serving, Uploading, Looping, OnlyPc, Settles, Returns, Fetches,
          SameClient, SamePlan, SameLoop, SameEnd, KeptPiece
    <2> QED BY <2>1, <2>2, <2>3, <2>4, <2>5, <2>6 DEF Own, CallInv
  <1>30. ASSUME upload_content_to_source(c) PROVE Own(c)
    <2>1. /\ Moved(c) /\ UNCHANGED <<kind, record, pieces, claim, job, told, sent, tainted>>
          /\ call[c].pc = "u_content" /\ source' = TRUE
          /\ call'[c].pc = "u_content" /\ call'[c].todo = call[c].todo
          /\ SamePlan(call'[c], call[c]) /\ SameClient(call'[c], call[c])
      <3> DEFINE r == [call[c] EXCEPT !.put = "ok"]
      <3>1. r \in CallRecords
        BY <1>0 DEF CallRecords, Labels
      <3>2. /\ r.pc = call[c].pc /\ r.todo = call[c].todo /\ SamePlan(r, call[c])
            /\ SameClient(r, call[c])
        BY <1>0 DEF CallRecords, SameClient, SamePlan, SameLoop, SameEnd
      <3>3. Becomes(c, r)
        BY <1>30 DEF upload_content_to_source
      <3> HIDE DEF r
      <3>4. Moved(c) /\ call'[c] = r
        BY <1>0, <3>1, <3>3, BecomesEffect
      <3> QED BY <1>30, <3>2, <3>4 DEF upload_content_to_source, At, store
    <2>2. Shape(c)'
      BY <1>1, <1>00, <1>01, <2>1 DEF Shape, ShapeOf, Looping, Serving, Uploading, Busy,
          OnlyPc, Settles, Returns, Fetches, SameClient, SamePlan, SameLoop, SameEnd,
          KeptPiece
    <2>3. SentInv(c)'
      BY <1>1, <1>00, <1>01, <2>1 DEF SentInv, Covered, CoveredBy, Begun, Looping, OnlyPc,
          Settles, Returns, Fetches, SameClient, SamePlan, SameLoop, SameEnd, KeptPiece
    <2>4. StoredInv(c)'
      BY <1>1, <1>00, <1>01, <2>1 DEF StoredInv, Covered, CoveredBy, Begun, Looping,
          Sound, Stored, OnlyPc, Settles, Returns, Fetches, SameClient, SamePlan,
          SameLoop, SameEnd, KeptPiece
    <2>5. ToldInv(c)'
      BY <1>1, <1>00, <1>01, <2>1 DEF ToldInv, Sound, Stored, Covered, CoveredBy,
          StoredInv, Begun, Looping, OnlyPc, Settles, Returns, Fetches, SameClient,
          SamePlan, SameLoop, SameEnd, KeptPiece
    <2>6. UploadInv(c)'
      BY <1>1, <1>00, <1>01, <2>1 DEF UploadInv, PutDone, Uploaded, Stored, OnlyPc,
          Settles, Returns, Fetches, SameClient, SamePlan, SameLoop, SameEnd, KeptPiece
    <2> QED BY <2>1, <2>2, <2>3, <2>4, <2>5, <2>6 DEF Own, CallInv
  <1>31. ASSUME UploadContentFails(c) PROVE Own(c)
    <2>1. /\ Moved(c) /\ UNCHANGED <<kind, record, pieces, claim, job, told, sent, tainted>>
          /\ call[c].pc = "u_content"
          /\ call'[c].pc = "u_failed" /\ OnlyPc(call'[c], call[c])
      BY <1>31, <1>0, GoEffect DEF UploadContentFails, At, Labels, store
    <2>2. Shape(c)'
      BY <1>1, <1>00, <1>01, <2>1 DEF Shape, ShapeOf, Looping, Serving, Uploading, Busy,
          OnlyPc, Settles, Returns, Fetches, SameClient, SamePlan, SameLoop, SameEnd,
          KeptPiece
    <2>3. SentInv(c)'
      BY <1>1, <1>00, <1>01, <2>1 DEF SentInv, Covered, CoveredBy, Begun, Looping, OnlyPc,
          Settles, Returns, Fetches, SameClient, SamePlan, SameLoop, SameEnd, KeptPiece
    <2>4. StoredInv(c)'
      BY <1>1, <1>00, <1>01, <2>1 DEF StoredInv, Covered, CoveredBy, Begun, Looping,
          Sound, Stored, OnlyPc, Settles, Returns, Fetches, SameClient, SamePlan,
          SameLoop, SameEnd, KeptPiece
    <2>5. ToldInv(c)'
      BY <1>1, <1>00, <1>01, <2>1 DEF ToldInv, Sound, Stored, Covered, CoveredBy,
          StoredInv, Begun, Looping, OnlyPc, Settles, Returns, Fetches, SameClient,
          SamePlan, SameLoop, SameEnd, KeptPiece
    <2>6. UploadInv(c)'
      BY <1>1, <1>00, <1>01, <2>1 DEF UploadInv, PutDone, Uploaded, Stored, OnlyPc,
          Settles, Returns, Fetches, SameClient, SamePlan, SameLoop, SameEnd, KeptPiece
    <2> QED BY <2>1, <2>2, <2>3, <2>4, <2>5, <2>6 DEF Own, CallInv
  <1>32. ASSUME UploadContentDone(c) PROVE Own(c)
    <2>1. /\ Moved(c) /\ UNCHANGED <<kind, source, pieces, claim, job, told, sent, tainted>>
          /\ call[c].pc = "u_content" /\ (record # {} => record' # {})
          /\ OnlyPc(call'[c], call[c]) /\ call[c].todo = {} /\ call[c].put = "ok"
          /\ call'[c].pc = "u_failed" \/ (call'[c].pc = "u_report" /\ record # {})
      BY <1>32, <1>0, GoEffect DEF UploadContentDone, Imported, At, Labels
    <2>2. Shape(c)'
      BY <1>1, <1>00, <1>01, <2>1 DEF Shape, ShapeOf, Looping, Serving, Uploading, Busy,
          OnlyPc, Settles, Returns, Fetches, SameClient, SamePlan, SameLoop, SameEnd,
          KeptPiece
    <2>3. SentInv(c)'
      BY <1>1, <1>00, <1>01, <2>1 DEF SentInv, Covered, CoveredBy, Begun, Looping, OnlyPc,
          Settles, Returns, Fetches, SameClient, SamePlan, SameLoop, SameEnd, KeptPiece
    <2>4. StoredInv(c)'
      BY <1>1, <1>00, <1>01, <2>1 DEF StoredInv, Covered, CoveredBy, Begun, Looping,
          Sound, Stored, OnlyPc, Settles, Returns, Fetches, SameClient, SamePlan,
          SameLoop, SameEnd, KeptPiece
    <2>5. ToldInv(c)'
      BY <1>1, <1>00, <1>01, <2>1 DEF ToldInv, Sound, Stored, Covered, CoveredBy,
          StoredInv, Begun, Looping, OnlyPc, Settles, Returns, Fetches, SameClient,
          SamePlan, SameLoop, SameEnd, KeptPiece
    <2>6. UploadInv(c)'
      BY <1>1, <1>00, <1>01, <2>1 DEF UploadInv, PutDone, Uploaded, Stored, OnlyPc,
          Settles, Returns, Fetches, SameClient, SamePlan, SameLoop, SameEnd, KeptPiece
    <2> QED BY <2>1, <2>2, <2>3, <2>4, <2>5, <2>6 DEF Own, CallInv
  <1>33. ASSUME NEW k \in Kinds, DeleteRecordAs(c, k) PROVE Own(c)
    <2>1. /\ Moved(c) /\ UNCHANGED <<kind, source, pieces, claim, job, told, sent>>
          /\ tainted' = TRUE /\ (call[c].pc = "u_failed" \/ (call[c].pc = "idle" /\ call[c].op = "delete"))
          /\ call'[c].pc = "deleting" /\ OnlyPc(call'[c], call[c])
      BY <1>33, <1>0, GoEffect DEF DeleteRecordAs, At, Labels
    <2>2. Shape(c)'
      BY <1>1, <1>00, <1>01, <2>1 DEF Shape, ShapeOf, Looping, Serving, Uploading, Busy,
          OnlyPc, Settles, Returns, Fetches, SameClient, SamePlan, SameLoop, SameEnd,
          KeptPiece
    <2>3. SentInv(c)'
      BY <1>1, <1>00, <1>01, <2>1 DEF SentInv, Covered, CoveredBy, Begun, Looping, OnlyPc,
          Settles, Returns, Fetches, SameClient, SamePlan, SameLoop, SameEnd, KeptPiece
    <2>4. StoredInv(c)'
      BY <1>1, <1>00, <1>01, <2>1 DEF StoredInv, Covered, CoveredBy, Begun, Looping,
          Sound, Stored, OnlyPc, Settles, Returns, Fetches, SameClient, SamePlan,
          SameLoop, SameEnd, KeptPiece
    <2>5. ToldInv(c)'
      BY <1>1, <1>00, <1>01, <2>1 DEF ToldInv, Sound, Stored, Covered, CoveredBy,
          StoredInv, Begun, Looping, OnlyPc, Settles, Returns, Fetches, SameClient,
          SamePlan, SameLoop, SameEnd, KeptPiece
    <2>6. UploadInv(c)'
      BY <1>1, <1>00, <1>01, <2>1 DEF UploadInv, PutDone, Uploaded, Stored, OnlyPc,
          Settles, Returns, Fetches, SameClient, SamePlan, SameLoop, SameEnd, KeptPiece
    <2> QED BY <2>1, <2>2, <2>3, <2>4, <2>5, <2>6 DEF Own, CallInv
  <1>34. ASSUME delete_pieces(c) PROVE Own(c)
    <2>1. /\ Moved(c) /\ UNCHANGED <<kind, source, record, claim, job, sent, tainted>>
          /\ call[c].pc = "deleting"
          /\ (told' = told \/ told' = [told EXCEPT ![c] = @ \cup {"upload_failed"}])
          /\ \/ Returns(call'[c], call[c], "err")
             \/ call[c].op # "upload" /\ Returns(call'[c], call[c], "ok")
      BY <1>34, <1>0, ReturnEffect DEF delete_pieces, At, Tell
    <2>2. Shape(c)'
      BY <1>1, <1>00, <1>01, <2>1 DEF Shape, ShapeOf, Looping, Serving, Uploading, Busy,
          OnlyPc, Settles, Returns, Fetches, SameClient, SamePlan, SameLoop, SameEnd,
          KeptPiece
    <2>3. SentInv(c)'
      BY <1>1, <1>00, <1>01, <2>1 DEF SentInv, Covered, CoveredBy, Begun, Looping, Shape,
          ShapeOf, Serving, Uploading, OnlyPc, Settles, Returns, Fetches, SameClient,
          SamePlan, SameLoop, SameEnd, KeptPiece
    <2>4. StoredInv(c)'
      BY <1>1, <1>00, <1>01, <2>1 DEF StoredInv, Covered, CoveredBy, Begun, Looping,
          Sound, Stored, Shape, ShapeOf, Serving, Uploading, OnlyPc, Settles, Returns,
          Fetches, SameClient, SamePlan, SameLoop, SameEnd, KeptPiece
    <2>5. ToldInv(c)'
      BY <1>1, <1>00, <1>01, <2>1 DEF ToldInv, Sound, Stored, Covered, CoveredBy,
          StoredInv, Begun, Looping, Shape, ShapeOf, Serving, Uploading, OnlyPc, Settles,
          Returns, Fetches, SameClient, SamePlan, SameLoop, SameEnd, KeptPiece
    <2>6. UploadInv(c)'
      BY <1>1, <1>00, <1>01, <2>1 DEF UploadInv, PutDone, Uploaded, Stored, Shape,
          ShapeOf, Serving, Uploading, Looping, OnlyPc, Settles, Returns, Fetches,
          SameClient, SamePlan, SameLoop, SameEnd, KeptPiece
    <2> QED BY <2>1, <2>2, <2>3, <2>4, <2>5, <2>6 DEF Own, CallInv
  <1> QED BY <1>2, <1>3, <1>4, <1>5, <1>6, <1>7, <1>8, <1>9, <1>10, <1>11, <1>12, <1>13,
      <1>14, <1>15, <1>16, <1>17, <1>18, <1>19, <1>20, <1>21, <1>22, <1>23, <1>24,
      <1>25, <1>26, <1>27, <1>28, <1>29, <1>30, <1>31, <1>32, <1>33, <1>34 DEF CallStep

-----------------------------------------------------------------------------
(* The downloads of single pieces.                                         *)

(* The downloads of call c, and of no other, change; of them that of p alone. *)
JobMoved(c) ==
    job' \in [Calls -> [Pieces -> JobRecords]] /\ \A d \in Calls \ {c} : job'[d] = job[d]
OnlyJob(c, p) == JobMoved(c) /\ \A q \in Pieces \ {p} : job'[c][q] = job[c][q]
NoJobLeft(c) == \A q \in Pieces : job'[c][q].at = "none" /\ job'[c][q].left = 0

LEMMA GoesEffect ==
  ASSUME job \in [Calls -> [Pieces -> JobRecords]], NEW c \in Calls, NEW p \in Pieces,
         NEW at \in JobStates, JobGoes(c, p, at)
  PROVE  OnlyJob(c, p) /\ job'[c][p].at = at /\ job'[c][p].left = job[c][p].left
  <1>1. job[c] \in [Pieces -> JobRecords] /\ job[c][p] \in JobRecords
    OBVIOUS
  <1> DEFINE r == [job[c][p] EXCEPT !.at = at]
  <1>2. r \in JobRecords /\ r.at = at /\ r.left = job[c][p].left
    BY <1>1 DEF JobRecords
  <1>3. job' = [job EXCEPT ![c] = [job[c] EXCEPT ![p] = r]]
    BY <1>1 DEF JobGoes
  <1> HIDE DEF r
  <1> QED BY <1>1, <1>2, <1>3 DEF OnlyJob, JobMoved

LEMMA ReplacedJob ==
  ASSUME job \in [Calls -> [Pieces -> JobRecords]], NEW c \in Calls, NEW p \in Pieces,
         NEW r \in JobRecords, job' = [job EXCEPT ![c][p] = r]
  PROVE  OnlyJob(c, p) /\ job'[c][p] = r
  <1>1. job[c] \in [Pieces -> JobRecords]
    OBVIOUS
  <1>2. job' = [job EXCEPT ![c] = [job[c] EXCEPT ![p] = r]]
    OBVIOUS
  <1> QED BY <1>1, <1>2 DEF OnlyJob, JobMoved

LEMMA NoJobsEffect ==
  ASSUME job \in [Calls -> [Pieces -> JobRecords]], NEW c \in Calls,
         job' = [job EXCEPT ![c] = NoJobs]
  PROVE  JobMoved(c) /\ NoJobLeft(c)
  <1>1. NoJob \in JobRecords /\ NoJob.at = "none" /\ NoJob.left = 0
    BY ParametersAssumption DEF NoJob, JobRecords, JobStates
  <1>2. NoJobs \in [Pieces -> JobRecords] /\ \A q \in Pieces : NoJobs[q] = NoJob
    BY <1>1 DEF NoJobs
  <1> QED BY <1>1, <1>2 DEF JobMoved, NoJobLeft

LEMMA QueueEffect ==
  ASSUME call \in [Calls -> CallRecords], job \in [Calls -> [Pieces -> JobRecords]],
         NEW c \in Calls, NEW p \in Pieces, Queue(c, p)
  PROVE  /\ OnlyJob(c, p) /\ job'[c][p].at = "queued" /\ job'[c][p].left > 0
         /\ Moved(c) /\ call'[c].pc = call[c].pc /\ call'[c].todo = call[c].todo \ {p}
         /\ call'[c].fetch = call[c].fetch
         /\ SamePlan(call'[c], call[c]) /\ SameClient(call'[c], call[c])
         /\ SameEnd(call'[c], call[c])
  <1>1. PICK n \in 1..(Parents + 1) : n = IF call[c].fetch = "parents" THEN Parents ELSE 1
    BY ParametersAssumption
  <1> DEFINE r == [at |-> "queued", left |-> n]
  <1>2. r \in JobRecords /\ r.at = "queued" /\ r.left > 0
    BY <1>1, ParametersAssumption DEF JobRecords, JobStates
  <1>3. job' = [job EXCEPT ![c][p] = r]
    BY <1>1 DEF Queue
  <1> HIDE DEF r
  <1>4. OnlyJob(c, p) /\ job'[c][p] = r
    BY <1>2, <1>3, ReplacedJob
  <1>5. Becomes(c, [call[c] EXCEPT !.todo = call[c].todo \ {p}])
    BY DEF Queue
  <1> QED BY <1>2, <1>4, <1>5, SkipEffect

LEMMA PartEffect ==
  ASSUME call \in [Calls -> CallRecords], NEW c \in Calls, NEW S \in SUBSET Pieces,
         Becomes(c, [call[c] EXCEPT !.part = S])
  PROVE  /\ Moved(c) /\ call'[c].pc = call[c].pc /\ call'[c].part = S
         /\ call'[c].want = call[c].want /\ call'[c].got = call[c].got
         /\ SameLoop(call'[c], call[c]) /\ SameClient(call'[c], call[c])
         /\ SameEnd(call'[c], call[c])
  <1>1. call[c] \in CallRecords
    OBVIOUS
  <1> DEFINE r == [call[c] EXCEPT !.part = S]
  <1>2. r \in CallRecords
    BY <1>1 DEF CallRecords
  <1>3. /\ r.pc = call[c].pc /\ r.part = S /\ r.want = call[c].want /\ r.got = call[c].got
        /\ SameLoop(r, call[c]) /\ SameClient(r, call[c]) /\ SameEnd(r, call[c])
    BY <1>1 DEF CallRecords, SameLoop, SameClient, SameEnd
  <1> HIDE DEF r
  <1>4. Moved(c) /\ call'[c] = r
    BY <1>2, BecomesEffect DEF r
  <1> QED BY <1>3, <1>4

LEMMA InterruptEffect ==
  ASSUME call \in [Calls -> CallRecords], NEW c \in Calls, NEW b \in BOOLEAN,
         Becomes(c, [call[c] EXCEPT !.interrupt = b])
  PROVE  Moved(c) /\ call'[c].pc = call[c].pc /\ OnlyPc(call'[c], call[c])
  <1>1. call[c] \in CallRecords
    OBVIOUS
  <1> DEFINE r == [call[c] EXCEPT !.interrupt = b]
  <1>2. r \in CallRecords
    BY <1>1 DEF CallRecords
  <1>3. r.pc = call[c].pc /\ OnlyPc(r, call[c])
    BY <1>1 DEF CallRecords, OnlyPc, SamePlan, SameLoop, SameClient, SameEnd
  <1> HIDE DEF r
  <1>4. Moved(c) /\ call'[c] = r
    BY <1>2, BecomesEffect DEF r
  <1> QED BY <1>3, <1>4

(* What the other calls see of a step of c. *)
OthersKept(c) ==
    /\ \A d \in Calls \ {c} :
         job'[d] = job[d] /\ told'[d] = told[d] /\ sent'[d] = sent[d]
    /\ kind' = kind /\ (source => source') /\ (tainted => tainted')
    /\ ~tainted' => Stored \subseteq Stored' /\ (record # {} => record' # {})

(* The type of what is not in the records of the calls. *)
Rest ==
    /\ kind \in Kinds /\ source \in BOOLEAN /\ tainted \in BOOLEAN
    /\ record \subseteq Marks /\ (record # {} => "here" \in record)
    /\ pieces \in [Pieces -> {"none", "started", "stored"}]
    /\ claim \in [Pieces -> Calls \cup {None}]
    /\ job \in [Calls -> [Pieces -> JobRecords]]
    /\ told \in [Calls -> SUBSET Messages]
    /\ sent \in [Calls -> SUBSET Pieces]

Kept(c) == Own(c) /\ OthersKept(c) /\ Rest' /\ ClaimInv' /\ FinishedIsComplete'

(* A JoinSet that is shut down drops the downloads of the call: their guards give *)
(* the claims back and remove the records that were only started.          *)
Dropped(c) ==
    /\ JobMoved(c) /\ NoJobLeft(c)
    /\ pieces' = Unfinished({p \in Pieces : job[c][p].at \in Held})
    /\ claim' = [p \in Pieces |-> IF p \in {q \in Pieces : job[c][q].at \in Held}
                                  THEN None ELSE claim[p]]

LEMMA FinishedKept ==
  ASSUME NEW c \in Calls, FinishedIsComplete, OthersKept(c), record' = record
  PROVE  FinishedIsComplete'
  BY DEF FinishedIsComplete, OthersKept, Stored

LEMMA ShapeAdvances ==
  ASSUME NEW k, NEW l, NEW j, NEW i, NEW p \in Pieces, ShapeOf(k, j), k.pc \in Looping,
         l.pc = k.pc, l.fetch = k.fetch, l.op = k.op, l.todo \subseteq k.todo,
         k.pc = "loop" => p \notin l.todo, k.todo \subseteq Pieces,
         \A q \in Pieces \ {p} : i[q] = j[q],
         i[p].at \in {"queued"} \cup Busy => i[p].left > 0
  PROVE  ShapeOf(l, i)
  BY DEF ShapeOf, Looping, Serving, Uploading

LEMMA CoveredAdvances ==
  ASSUME NEW k, NEW l, NEW j, NEW i, NEW p \in Pieces, NEW G, NEW H,
         CoveredBy(k, j, G), G \subseteq H,
         l.pc = k.pc, l.fetch = k.fetch, l.op = k.op, l.res = k.res,
         k.todo \subseteq l.todo \cup {p}, l.want = k.want, l.got = k.got,
         l.part \subseteq k.part \cup {p}, p \in l.part \ k.part => p \in H,
         \A q \in Pieces \ {p} : i[q] = j[q], i[p].at # "none",
         i[p].at \in {"sent", "done"} => p \in H,
         k.fetch = "source" /\ i[p].at = "joined" => p \in H
  PROVE  CoveredBy(l, i, H)
  BY DEF CoveredBy

(* The download of p goes on while its call waits for it. *)
Advances(c, p) ==
    /\ Moved(c) /\ OnlyJob(c, p)
    /\ UNCHANGED <<kind, source, tainted, record, told>>
    /\ call[c].pc \in Looping /\ call'[c].pc = call[c].pc /\ call'[c].fetch = call[c].fetch
    /\ call'[c].todo \subseteq call[c].todo /\ call[c].todo \subseteq call'[c].todo \cup {p}
    /\ call[c].pc = "loop" => p \notin call'[c].todo
    /\ SameClient(call'[c], call[c]) /\ SameEnd(call'[c], call[c])
    /\ call'[c].want = call[c].want /\ call'[c].got = call[c].got
    /\ call'[c].part \subseteq call[c].part \cup {p}
    /\ job'[c][p].at # "none"
    /\ job'[c][p].at \in {"queued"} \cup Busy => job'[c][p].left > 0

(* It comes to count as obtained, sent or joined. *)
Gained(c, p) ==
    \/ p \in call'[c].part \ call[c].part
    \/ job'[c][p].at \in {"sent", "done"}
    \/ call[c].fetch = "source" /\ job'[c][p].at = "joined"

LEMMA AdvanceKeeps ==
  ASSUME NEW c \in Calls, NEW p \in Pieces, CallInv(c), Advances(c, p), call[c].todo \subseteq Pieces,
         sent[c] \subseteq sent'[c], call[c].listening /\ Gained(c, p) => p \in sent'[c],
         Sound => \A q \in Pieces : pieces[q] = "stored" => pieces'[q] = "stored",
         Sound /\ (Gained(c, p) \/ job'[c][p].at = "have") => pieces'[p] = "stored"
  PROVE  Own(c)
  <1>0. PICK k, l, j, i : k = call[c] /\ l = call'[c] /\ j = job[c] /\ i = job'[c]
    OBVIOUS
  <1>1. /\ k.pc \in Looping /\ l.pc = k.pc /\ l.fetch = k.fetch /\ l.op = k.op /\ l.res = k.res
        /\ l.todo \subseteq k.todo /\ k.todo \subseteq l.todo \cup {p} /\ k.todo \subseteq Pieces
        /\ l.listening = k.listening
    BY <1>0 DEF Advances, SameClient, SameEnd
  <1>2. /\ k.pc = "loop" => p \notin l.todo
        /\ l.want = k.want /\ l.got = k.got /\ l.part \subseteq k.part \cup {p}
        /\ \A q \in Pieces \ {p} : i[q] = j[q]
        /\ i[p].at # "none"
        /\ i[p].at \in {"queued"} \cup Busy => i[p].left > 0
    BY <1>0 DEF Advances, OnlyJob
  <1>3. ASSUME NEW H, Gained(c, p) => p \in H
        PROVE  /\ p \in l.part \ k.part => p \in H
               /\ i[p].at \in {"sent", "done"} => p \in H
               /\ k.fetch = "source" /\ i[p].at = "joined" => p \in H
    BY <1>0, <1>3 DEF Gained
  <1>4. Shape(c)'
    <2>1. ShapeOf(k, j)
      BY <1>0 DEF CallInv, Shape
    <2>2. ShapeOf(l, i)
      BY <1>1, <1>2, <2>1, ShapeAdvances
    <2> QED BY <1>0, <1>1, <2>2 DEF Shape, Looping
  <1>5. SentInv(c)'
    <2>0. PICK G, H : G = sent[c] /\ H = sent'[c]
      OBVIOUS
    <2>1. SUFFICES ASSUME l.listening PROVE CoveredBy(l, i, H)
      BY <1>0, <2>0 DEF SentInv, Covered
    <2>2. k.listening
      BY <1>1, <2>1
    <2>3. CoveredBy(k, j, G)
      BY <1>0, <2>0, <2>2 DEF CallInv, SentInv, Covered
    <2>4. G \subseteq H /\ (Gained(c, p) => p \in H)
      BY <1>0, <2>0, <2>2
    <2> QED BY <1>1, <1>2, <1>3, <2>3, <2>4, CoveredAdvances
  <1>6. StoredInv(c)'
    <2>0. PICK G, H : /\ G = {q \in Pieces : pieces[q] = "stored"}
                      /\ H = {q \in Pieces : pieces'[q] = "stored"}
      OBVIOUS
    <2>1. SUFFICES ASSUME Sound'
                   PROVE  CoveredBy(l, i, H) /\ \A q \in Pieces : i[q].at = "have" => q \in H
      BY <1>0, <2>0 DEF StoredInv, Covered, Stored
    <2>2. Sound
      BY <2>1 DEF Advances, Sound
    <2>3. CoveredBy(k, j, G) /\ \A q \in Pieces : j[q].at = "have" => q \in G
      BY <1>0, <2>0, <2>2 DEF CallInv, StoredInv, Covered, Stored
    <2>4. G \subseteq H /\ (Gained(c, p) => p \in H) /\ (i[p].at = "have" => p \in H)
      BY <1>0, <2>0, <2>2
    <2>5. CoveredBy(l, i, H)
      BY <1>1, <1>2, <1>3, <2>3, <2>4, CoveredAdvances
    <2> QED BY <1>2, <2>3, <2>4, <2>5
  <1>7. ToldInv(c)'
    BY DEF CallInv, ToldInv, Advances, SameClient, Looping
  <1>8. UploadInv(c)'
    BY DEF UploadInv, PutDone, Uploaded, Advances, Looping
  <1> QED BY <1>4, <1>5, <1>6, <1>7, <1>8 DEF Own, CallInv, Advances

LEMMA ClaimsKept ==
  ASSUME NEW c \in Calls, NEW p \in Pieces, OnlyJob(c, p), claim' = claim,
         \A q \in Pieces, d \in Calls : claim[q] = d <=> job[d][q].at \in Held,
         job'[c][p].at \in Held <=> job[c][p].at \in Held
  PROVE  \A q \in Pieces, d \in Calls : claim'[q] = d <=> job'[d][q].at \in Held
  <1> SUFFICES ASSUME NEW q \in Pieces, NEW d \in Calls
               PROVE  job'[d][q].at \in Held <=> job[d][q].at \in Held
    OBVIOUS
  <1>1. CASE d = c /\ q = p
    BY <1>1
  <1>2. CASE d = c /\ q # p
    BY <1>2 DEF OnlyJob
  <1>3. CASE d # c
    BY <1>3 DEF OnlyJob, JobMoved
  <1> QED BY <1>1, <1>2, <1>3

LEMMA KeepsQueue ==
  ASSUME Typed, ClaimInv, FinishedIsComplete, NEW c \in Calls, CallInv(c), NEW p \in Pieces,
         call[c].pc = "loop", p \in call[c].todo, Queue(c, p)
  PROVE  Kept(c)
  <1>0. call \in [Calls -> CallRecords] /\ call[c] \in CallRecords
    BY DEF Typed
  <1>00. /\ job \in [Calls -> [Pieces -> JobRecords]] /\ sent \in [Calls -> SUBSET Pieces]
         /\ told \in [Calls -> SUBSET Messages]
    BY DEF Typed
  <1>01. /\ call[c].todo \subseteq Pieces /\ call[c].want \subseteq Pieces
         /\ call[c].got \subseteq Pieces /\ call[c].part \subseteq Pieces
    BY <1>0 DEF CallRecords
  <1>02. /\ pieces \in [Pieces -> {"none", "started", "stored"}]
         /\ claim \in [Pieces -> Calls \cup {None}]
    BY DEF Typed
  <1>03. /\ kind \in Kinds /\ source \in BOOLEAN /\ tainted \in BOOLEAN
         /\ record \subseteq Marks /\ (record # {} => "here" \in record)
    BY DEF Typed
  <1>1. Shape(c) /\ SentInv(c) /\ StoredInv(c) /\ ToldInv(c) /\ UploadInv(c)
    BY DEF CallInv
  <1>2. /\ \A q \in Pieces, d \in Calls : claim[q] = d <=> job[d][q].at \in Held
        /\ \A q \in Pieces : pieces[q] = "started" => claim[q] # None
        /\ ~tainted => \A q \in Pieces : claim[q] # None => pieces[q] # "stored"
    BY DEF ClaimInv
  <1>3. /\ call[c].listening /\ job[c][p].at \in {"sent", "done"} => p \in sent[c]
        /\ Sound /\ job[c][p].at \in {"have", "sent", "done"} => p \in Stored
    BY <1>1 DEF SentInv, StoredInv, Covered, CoveredBy
  <1>4. Kept(c)
    <2>1. /\ UNCHANGED <<kind, source, record, pieces, claim, told, sent, tainted>>
          /\ call[c].pc = "loop" /\ p \in call[c].todo
          /\ OnlyJob(c, p) /\ job'[c][p].at = "queued" /\ job'[c][p].left > 0
          /\ Moved(c) /\ call'[c].pc = call[c].pc /\ call'[c].todo = call[c].todo \ {p}
          /\ call'[c].fetch = call[c].fetch
          /\ SamePlan(call'[c], call[c]) /\ SameClient(call'[c], call[c])
          /\ SameEnd(call'[c], call[c])
      BY <1>0, <1>00, QueueEffect DEF Queue, store
    <2>2. Advances(c, p)
      BY <1>1, <1>01, <2>1 DEF Advances, Looping, SamePlan, Busy
    <2>3. sent[c] \subseteq sent'[c] /\ (call[c].listening /\ Gained(c, p) => p \in sent'[c])
      BY <1>00, <1>3, <2>1 DEF Gained, OnlyPc, SamePlan, SameClient
    <2>4. /\ Sound => \A q \in Pieces : pieces[q] = "stored" => pieces'[q] = "stored"
          /\ Sound /\ (Gained(c, p) \/ job'[c][p].at = "have") => pieces'[p] = "stored"
      BY <1>02, <1>2, <1>3, <2>1, CallsAssumption DEF Gained, Stored, Sound, Unfinished,
          Held, OnlyPc, SamePlan
    <2>5. Own(c)
      BY <1>01, <2>2, <2>3, <2>4, AdvanceKeeps DEF Own
    <2>7. OthersKept(c)
      BY <1>00, <1>02, <1>03, <1>2, <2>1, CallsAssumption DEF OthersKept, Stored, OnlyJob,
          JobMoved, Dropped, Unfinished, Held
    <2>8. Rest'
      BY <1>00, <1>02, <1>03, <2>1 DEF Rest, OnlyJob, JobMoved, Dropped, Unfinished,
          Messages
    <2>9. ClaimInv'
      <3>1. \A q \in Pieces, d \in Calls : claim'[q] = d <=> job'[d][q].at \in Held
        <4>1. job[c][p].at = "none"
          BY <1>1, <2>1 DEF Shape, ShapeOf
        <4> QED BY <1>2, <2>1, <4>1, ClaimsKept DEF Held
      <3>2. \A q \in Pieces : pieces'[q] = "started" => claim'[q] # None
        BY <1>00, <1>02, <1>03, <1>2, <2>1, CallsAssumption DEF Dropped, Unfinished, Held
      <3>3. ~tainted' => \A q \in Pieces : claim'[q] # None => pieces'[q] # "stored"
        BY <1>00, <1>02, <1>03, <1>2, <2>1, CallsAssumption DEF Dropped, Unfinished, Held
      <3> QED BY <3>1, <3>2, <3>3 DEF ClaimInv
    <2>10. FinishedIsComplete'
      BY <2>1, <2>7, FinishedKept
    <2> QED BY <2>5, <2>7, <2>8, <2>9, <2>10 DEF Kept
  <1> QED BY <1>4

LEMMA KeepsPiece ==
  ASSUME Typed, ClaimInv, FinishedIsComplete, NEW c \in Calls, CallInv(c), NEW p \in Pieces, PieceStep(c, p)
  PROVE  Kept(c)
  <1>0. call \in [Calls -> CallRecords] /\ call[c] \in CallRecords
    BY DEF Typed
  <1>00. /\ job \in [Calls -> [Pieces -> JobRecords]] /\ sent \in [Calls -> SUBSET Pieces]
         /\ told \in [Calls -> SUBSET Messages]
    BY DEF Typed
  <1>01. /\ call[c].todo \subseteq Pieces /\ call[c].want \subseteq Pieces
         /\ call[c].got \subseteq Pieces /\ call[c].part \subseteq Pieces
    BY <1>0 DEF CallRecords
  <1>02. /\ pieces \in [Pieces -> {"none", "started", "stored"}]
         /\ claim \in [Pieces -> Calls \cup {None}]
    BY DEF Typed
  <1>03. /\ kind \in Kinds /\ source \in BOOLEAN /\ tainted \in BOOLEAN
         /\ record \subseteq Marks /\ (record # {} => "here" \in record)
    BY DEF Typed
  <1>1. Shape(c) /\ SentInv(c) /\ StoredInv(c) /\ ToldInv(c) /\ UploadInv(c)
    BY DEF CallInv
  <1>2. /\ \A q \in Pieces, d \in Calls : claim[q] = d <=> job[d][q].at \in Held
        /\ \A q \in Pieces : pieces[q] = "started" => claim[q] # None
        /\ ~tainted => \A q \in Pieces : claim[q] # None => pieces[q] # "stored"
    BY DEF ClaimInv
  <1>3. /\ call[c].listening /\ job[c][p].at \in {"sent", "done"} => p \in sent[c]
        /\ Sound /\ job[c][p].at \in {"have", "sent", "done"} => p \in Stored
    BY <1>1 DEF SentInv, StoredInv, Covered, CoveredBy
  <1>4. ASSUME NEW k \in Kinds, CollectAs(c, p, k) PROVE Kept(c)
    BY <1>4, KeepsQueue DEF CollectAs, At, Kept, Own
  <1>5. ASSUME Permit(c, p) PROVE Kept(c)
    <2>1. /\ UNCHANGED <<kind, source, record, pieces, claim, told, sent, tainted>>
          /\ OnlyJob(c, p) /\ job[c][p].at = "queued" /\ job'[c][p].at = "run"
          /\ job'[c][p].left = job[c][p].left
          /\ Moved(c) /\ call'[c] = call[c]
      <3>1. Moved(c) /\ call'[c] = call[c]
        BY <1>5, <1>0 DEF Permit, Moved
      <3> QED BY <1>5, <1>00, <3>1, GoesEffect DEF Permit, JobAt, JobStates, store, At
    <2>2. Advances(c, p)
      <3>1. job[c][p].at # "none"
        BY <2>1
      <3>2. call[c].pc \in Looping /\ (call[c].pc = "loop" => p \notin call[c].todo)
        BY <1>1, <1>01, <3>1 DEF Shape, ShapeOf
      <3>3. job'[c][p].at \in {"queued"} \cup Busy => job'[c][p].left > 0
        BY <1>1, <2>1 DEF Shape, ShapeOf, Busy
      <3> QED BY <2>1, <3>2, <3>3 DEF Advances, OnlyPc, SameLoop, SameClient, SameEnd,
          SamePlan
    <2>3. sent[c] \subseteq sent'[c] /\ (call[c].listening /\ Gained(c, p) => p \in sent'[c])
      BY <1>00, <1>3, <2>1 DEF Gained, OnlyPc, SamePlan, SameClient
    <2>4. /\ Sound => \A q \in Pieces : pieces[q] = "stored" => pieces'[q] = "stored"
          /\ Sound /\ (Gained(c, p) \/ job'[c][p].at = "have") => pieces'[p] = "stored"
      BY <1>02, <1>2, <1>3, <2>1, CallsAssumption DEF Gained, Stored, Sound, Unfinished,
          Held, OnlyPc, SamePlan
    <2>5. Own(c)
      BY <1>01, <2>2, <2>3, <2>4, AdvanceKeeps DEF Own
    <2>7. OthersKept(c)
      BY <1>00, <1>02, <1>03, <1>2, <2>1, CallsAssumption DEF OthersKept, Stored, OnlyJob,
          JobMoved, Dropped, Unfinished, Held
    <2>8. Rest'
      BY <1>00, <1>02, <1>03, <2>1 DEF Rest, OnlyJob, JobMoved, Dropped, Unfinished,
          Messages
    <2>9. ClaimInv'
      <3>1. \A q \in Pieces, d \in Calls : claim'[q] = d <=> job'[d][q].at \in Held
        BY <1>2, <2>1, ClaimsKept DEF Held
      <3>2. \A q \in Pieces : pieces'[q] = "started" => claim'[q] # None
        BY <1>00, <1>02, <1>03, <1>2, <2>1, CallsAssumption DEF Dropped, Unfinished, Held
      <3>3. ~tainted' => \A q \in Pieces : claim'[q] # None => pieces'[q] # "stored"
        BY <1>00, <1>02, <1>03, <1>2, <2>1, CallsAssumption DEF Dropped, Unfinished, Held
      <3> QED BY <3>1, <3>2, <3>3 DEF ClaimInv
    <2>10. FinishedIsComplete'
      BY <2>1, <2>7, FinishedKept
    <2> QED BY <2>5, <2>7, <2>8, <2>9, <2>10 DEF Kept
  <1>6. ASSUME Claim(c, p) PROVE Kept(c)
    <2>1. /\ UNCHANGED <<kind, source, record, pieces, told, sent, tainted>>
          /\ OnlyJob(c, p) /\ job[c][p].at = "run"
          /\ job'[c][p].left = job[c][p].left
          /\ Moved(c) /\ call'[c] = call[c]
          /\ \/ pieces[p] = "stored" /\ claim' = claim /\ job'[c][p].at = "have"
             \/ /\ pieces[p] # "stored" /\ claim[p] = None /\ claim' = [claim EXCEPT ![p] = c]
                /\ job'[c][p].at = "claimed"
      <3>1. Moved(c) /\ call'[c] = call[c]
        BY <1>6, <1>0 DEF Claim, Moved
      <3> QED BY <1>6, <1>00, <3>1, GoesEffect DEF Claim, JobAt, JobStates, store, At
    <2>2. Advances(c, p)
      <3>1. job[c][p].at # "none"
        BY <2>1
      <3>2. call[c].pc \in Looping /\ (call[c].pc = "loop" => p \notin call[c].todo)
        BY <1>1, <1>01, <3>1 DEF Shape, ShapeOf
      <3>3. job'[c][p].at \in {"queued"} \cup Busy => job'[c][p].left > 0
        BY <1>1, <2>1 DEF Shape, ShapeOf, Busy
      <3> QED BY <2>1, <3>2, <3>3 DEF Advances, OnlyPc, SameLoop, SameClient, SameEnd,
          SamePlan
    <2>3. sent[c] \subseteq sent'[c] /\ (call[c].listening /\ Gained(c, p) => p \in sent'[c])
      BY <1>00, <1>3, <2>1 DEF Gained, OnlyPc, SamePlan, SameClient
    <2>4. /\ Sound => \A q \in Pieces : pieces[q] = "stored" => pieces'[q] = "stored"
          /\ Sound /\ (Gained(c, p) \/ job'[c][p].at = "have") => pieces'[p] = "stored"
      BY <1>02, <1>2, <1>3, <2>1, CallsAssumption DEF Gained, Stored, Sound, Unfinished,
          Held, OnlyPc, SamePlan
    <2>5. Own(c)
      BY <1>01, <2>2, <2>3, <2>4, AdvanceKeeps DEF Own
    <2>7. OthersKept(c)
      BY <1>00, <1>02, <1>03, <1>2, <2>1, CallsAssumption DEF OthersKept, Stored, OnlyJob,
          JobMoved, Dropped, Unfinished, Held
    <2>8. Rest'
      BY <1>00, <1>02, <1>03, <2>1 DEF Rest, OnlyJob, JobMoved, Dropped, Unfinished,
          Messages
    <2>9. ClaimInv'
      <3>1. \A q \in Pieces, d \in Calls : claim'[q] = d <=> job'[d][q].at \in Held
        <4>1. CASE claim' = claim /\ job'[c][p].at = "have"
          BY <1>2, <2>1, <4>1, ClaimsKept DEF Held
        <4>2. CASE claim[p] = None /\ claim' = [claim EXCEPT ![p] = c] /\ job'[c][p].at = "claimed"
          <5> SUFFICES ASSUME NEW q \in Pieces, NEW d \in Calls
                       PROVE  claim'[q] = d <=> job'[d][q].at \in Held
            OBVIOUS
          <5>1. CASE q # p
            BY <1>02, <1>2, <2>1, <4>2, <5>1 DEF OnlyJob, JobMoved
          <5>2. CASE q = p /\ d # c
            BY <1>02, <1>2, <2>1, <4>2, <5>2, CallsAssumption DEF OnlyJob, JobMoved
          <5>3. CASE q = p /\ d = c
            BY <1>02, <4>2, <5>3 DEF Held
          <5> QED BY <5>1, <5>2, <5>3
        <4> QED BY <2>1, <4>1, <4>2
      <3>2. \A q \in Pieces : pieces'[q] = "started" => claim'[q] # None
        BY <1>00, <1>02, <1>03, <1>2, <2>1, CallsAssumption DEF Dropped, Unfinished, Held
      <3>3. ~tainted' => \A q \in Pieces : claim'[q] # None => pieces'[q] # "stored"
        BY <1>00, <1>02, <1>03, <1>2, <2>1, CallsAssumption DEF Dropped, Unfinished, Held
      <3> QED BY <3>1, <3>2, <3>3 DEF ClaimInv
    <2>10. FinishedIsComplete'
      BY <2>1, <2>7, FinishedKept
    <2> QED BY <2>5, <2>7, <2>8, <2>9, <2>10 DEF Kept
  <1>7. ASSUME PutStarted(c, p) PROVE Kept(c)
    <2>1. /\ UNCHANGED <<kind, source, record, claim, told, sent, tainted>>
          /\ pieces' = [pieces EXCEPT ![p] = "started"]
          /\ OnlyJob(c, p) /\ job[c][p].at = "claimed" /\ job'[c][p].at = "own"
          /\ job'[c][p].left = job[c][p].left
          /\ Moved(c) /\ call'[c] = call[c]
      <3>1. Moved(c) /\ call'[c] = call[c]
        BY <1>7, <1>0 DEF PutStarted, Moved
      <3> QED BY <1>7, <1>00, <3>1, GoesEffect DEF PutStarted, JobAt, JobStates, store, At
    <2>2. Advances(c, p)
      <3>1. job[c][p].at # "none"
        BY <2>1
      <3>2. call[c].pc \in Looping /\ (call[c].pc = "loop" => p \notin call[c].todo)
        BY <1>1, <1>01, <3>1 DEF Shape, ShapeOf
      <3>3. job'[c][p].at \in {"queued"} \cup Busy => job'[c][p].left > 0
        BY <1>1, <2>1 DEF Shape, ShapeOf, Busy
      <3> QED BY <2>1, <3>2, <3>3 DEF Advances, OnlyPc, SameLoop, SameClient, SameEnd,
          SamePlan
    <2>3. sent[c] \subseteq sent'[c] /\ (call[c].listening /\ Gained(c, p) => p \in sent'[c])
      BY <1>00, <1>3, <2>1 DEF Gained, OnlyPc, SamePlan, SameClient
    <2>4. /\ Sound => \A q \in Pieces : pieces[q] = "stored" => pieces'[q] = "stored"
          /\ Sound /\ (Gained(c, p) \/ job'[c][p].at = "have") => pieces'[p] = "stored"
      BY <1>02, <1>2, <1>3, <2>1, CallsAssumption DEF Gained, Stored, Sound, Unfinished,
          Held, OnlyPc, SamePlan
    <2>5. Own(c)
      BY <1>01, <2>2, <2>3, <2>4, AdvanceKeeps DEF Own
    <2>7. OthersKept(c)
      BY <1>00, <1>02, <1>03, <1>2, <2>1, CallsAssumption DEF OthersKept, Stored, OnlyJob,
          JobMoved, Dropped, Unfinished, Held
    <2>8. Rest'
      BY <1>00, <1>02, <1>03, <2>1 DEF Rest, OnlyJob, JobMoved, Dropped, Unfinished,
          Messages
    <2>9. ClaimInv'
      <3>1. \A q \in Pieces, d \in Calls : claim'[q] = d <=> job'[d][q].at \in Held
        BY <1>2, <2>1, ClaimsKept DEF Held
      <3>2. \A q \in Pieces : pieces'[q] = "started" => claim'[q] # None
        BY <1>00, <1>02, <1>03, <1>2, <2>1, CallsAssumption DEF Dropped, Unfinished, Held
      <3>3. ~tainted' => \A q \in Pieces : claim'[q] # None => pieces'[q] # "stored"
        BY <1>00, <1>02, <1>03, <1>2, <2>1, CallsAssumption DEF Dropped, Unfinished, Held
      <3> QED BY <3>1, <3>2, <3>3 DEF ClaimInv
    <2>10. FinishedIsComplete'
      BY <2>1, <2>7, FinishedKept
    <2> QED BY <2>5, <2>7, <2>8, <2>9, <2>10 DEF Kept
  <1>8. ASSUME NEW fetches, NEW k \in Kinds, StoreAs(c, p, fetches, k) PROVE Kept(c)
    <2>1. /\ UNCHANGED <<kind, source, record, told, sent, tainted>>
          /\ pieces' = [pieces EXCEPT ![p] = "stored"] /\ claim' = [claim EXCEPT ![p] = None]
          /\ OnlyJob(c, p) /\ job[c][p].at = "own" /\ job'[c][p].at = "have"
          /\ job'[c][p].left = job[c][p].left
          /\ Moved(c) /\ call'[c] = call[c]
      <3>1. Moved(c) /\ call'[c] = call[c]
        BY <1>8, <1>0 DEF StoreAs, Moved
      <3> QED BY <1>8, <1>00, <3>1, GoesEffect DEF StoreAs, JobAt, JobStates, store, At
    <2>2. Advances(c, p)
      <3>1. job[c][p].at # "none"
        BY <2>1
      <3>2. call[c].pc \in Looping /\ (call[c].pc = "loop" => p \notin call[c].todo)
        BY <1>1, <1>01, <3>1 DEF Shape, ShapeOf
      <3>3. job'[c][p].at \in {"queued"} \cup Busy => job'[c][p].left > 0
        BY <1>1, <2>1 DEF Shape, ShapeOf, Busy
      <3> QED BY <2>1, <3>2, <3>3 DEF Advances, OnlyPc, SameLoop, SameClient, SameEnd,
          SamePlan
    <2>3. sent[c] \subseteq sent'[c] /\ (call[c].listening /\ Gained(c, p) => p \in sent'[c])
      BY <1>00, <1>3, <2>1 DEF Gained, OnlyPc, SamePlan, SameClient
    <2>4. /\ Sound => \A q \in Pieces : pieces[q] = "stored" => pieces'[q] = "stored"
          /\ Sound /\ (Gained(c, p) \/ job'[c][p].at = "have") => pieces'[p] = "stored"
      BY <1>02, <1>2, <1>3, <2>1, CallsAssumption DEF Gained, Stored, Sound, Unfinished,
          Held, OnlyPc, SamePlan
    <2>5. Own(c)
      BY <1>01, <2>2, <2>3, <2>4, AdvanceKeeps DEF Own
    <2>7. OthersKept(c)
      BY <1>00, <1>02, <1>03, <1>2, <2>1, CallsAssumption DEF OthersKept, Stored, OnlyJob,
          JobMoved, Dropped, Unfinished, Held
    <2>8. Rest'
      BY <1>00, <1>02, <1>03, <2>1 DEF Rest, OnlyJob, JobMoved, Dropped, Unfinished,
          Messages
    <2>9. ClaimInv'
      <3>1. \A q \in Pieces, d \in Calls : claim'[q] = d <=> job'[d][q].at \in Held
        BY <1>00, <1>02, <1>03, <1>2, <2>1, CallsAssumption DEF OnlyJob, JobMoved,
            NoJobLeft, Dropped, Held
      <3>2. \A q \in Pieces : pieces'[q] = "started" => claim'[q] # None
        BY <1>00, <1>02, <1>03, <1>2, <2>1, CallsAssumption DEF Dropped, Unfinished, Held
      <3>3. ~tainted' => \A q \in Pieces : claim'[q] # None => pieces'[q] # "stored"
        BY <1>00, <1>02, <1>03, <1>2, <2>1, CallsAssumption DEF Dropped, Unfinished, Held
      <3> QED BY <3>1, <3>2, <3>3 DEF ClaimInv
    <2>10. FinishedIsComplete'
      BY <2>1, <2>7, FinishedKept
    <2> QED BY <2>5, <2>7, <2>8, <2>9, <2>10 DEF Kept
  <1>9. ASSUME TransferFails(c, p) PROVE Kept(c)
    <2>1. /\ UNCHANGED <<kind, source, record, told, sent, tainted>>
          /\ pieces' = Unfinished({p}) /\ claim' = [q \in Pieces |-> IF q \in {p} THEN None ELSE claim[q]]
          /\ OnlyJob(c, p) /\ job[c][p].at = "own"
          /\ (job'[c][p].at = "run" /\ job'[c][p].left > 0) \/ job'[c][p].at = "failed"
          /\ Moved(c) /\ call'[c] = call[c]
      <3>1. Moved(c) /\ call'[c] = call[c]
        BY <1>9, <1>0 DEF TransferFails, Moved
      <3>2. job[c][p] \in JobRecords /\ job[c][p].at = "own"
        BY <1>9, <1>00 DEF TransferFails, JobAt
      <3>3. job[c][p].left \in 0..(Parents + 1) /\ job[c][p].left > 0
        BY <1>1, <3>2 DEF JobRecords, Shape, ShapeOf, Busy
      <3> DEFINE r == [at |-> IF job[c][p].left > 1 THEN "run" ELSE "failed",
                       left |-> job[c][p].left - 1]
      <3>4. r \in JobRecords
        BY <3>3, ParametersAssumption DEF JobRecords, JobStates
      <3>5. (r.at = "run" /\ r.left > 0) \/ r.at = "failed"
        BY <3>3, ParametersAssumption
      <3>6. job' = [job EXCEPT ![c][p] = r]
        BY <1>9 DEF TransferFails
      <3> HIDE DEF r
      <3>7. OnlyJob(c, p) /\ job'[c][p] = r
        BY <1>00, <3>4, <3>6, ReplacedJob
      <3> QED BY <1>9, <3>1, <3>2, <3>5, <3>7 DEF TransferFails, Abandon
    <2>2. Advances(c, p)
      <3>1. job[c][p].at # "none"
        BY <2>1
      <3>2. call[c].pc \in Looping /\ (call[c].pc = "loop" => p \notin call[c].todo)
        BY <1>1, <1>01, <3>1 DEF Shape, ShapeOf
      <3>3. job'[c][p].at \in {"queued"} \cup Busy => job'[c][p].left > 0
        BY <1>1, <2>1 DEF Shape, ShapeOf, Busy
      <3> QED BY <2>1, <3>2, <3>3 DEF Advances, OnlyPc, SameLoop, SameClient, SameEnd,
          SamePlan
    <2>3. sent[c] \subseteq sent'[c] /\ (call[c].listening /\ Gained(c, p) => p \in sent'[c])
      BY <1>00, <1>3, <2>1 DEF Gained, OnlyPc, SamePlan, SameClient
    <2>4. /\ Sound => \A q \in Pieces : pieces[q] = "stored" => pieces'[q] = "stored"
          /\ Sound /\ (Gained(c, p) \/ job'[c][p].at = "have") => pieces'[p] = "stored"
      BY <1>02, <1>2, <1>3, <2>1, CallsAssumption DEF Gained, Stored, Sound, Unfinished,
          Held, OnlyPc, SamePlan
    <2>5. Own(c)
      BY <1>01, <2>2, <2>3, <2>4, AdvanceKeeps DEF Own
    <2>7. OthersKept(c)
      BY <1>00, <1>02, <1>03, <1>2, <2>1, CallsAssumption DEF OthersKept, Stored, OnlyJob,
          JobMoved, Dropped, Unfinished, Held
    <2>8. Rest'
      BY <1>00, <1>02, <1>03, <2>1 DEF Rest, OnlyJob, JobMoved, Dropped, Unfinished,
          Messages
    <2>9. ClaimInv'
      <3>1. \A q \in Pieces, d \in Calls : claim'[q] = d <=> job'[d][q].at \in Held
        BY SMTT(40), <1>00, <1>02, <1>03, <1>2, <2>1, CallsAssumption DEF OnlyJob, JobMoved,
            NoJobLeft, Dropped, Held
      <3>2. \A q \in Pieces : pieces'[q] = "started" => claim'[q] # None
        BY <1>00, <1>02, <1>03, <1>2, <2>1, CallsAssumption DEF Dropped, Unfinished, Held
      <3>3. ~tainted' => \A q \in Pieces : claim'[q] # None => pieces'[q] # "stored"
        BY <1>00, <1>02, <1>03, <1>2, <2>1, CallsAssumption DEF Dropped, Unfinished, Held
      <3> QED BY <3>1, <3>2, <3>3 DEF ClaimInv
    <2>10. FinishedIsComplete'
      BY <2>1, <2>7, FinishedKept
    <2> QED BY <2>5, <2>7, <2>8, <2>9, <2>10 DEF Kept
  <1>10. ASSUME NEW k \in Kinds, DeliverAs(c, p, k) PROVE Kept(c)
    <2>1. /\ UNCHANGED <<kind, source, record, pieces, claim, told, tainted>>
          /\ OnlyJob(c, p) /\ job[c][p].at = "have"
          /\ job'[c][p].left = job[c][p].left
          /\ Moved(c) /\ call'[c].pc = call[c].pc /\ OnlyPc(call'[c], call[c])
          /\ \/ job'[c][p].at = "broken" /\ sent' = sent
             \/ /\ job'[c][p].at = "sent"
                /\ sent' = IF call[c].listening THEN [sent EXCEPT ![c] = @ \cup {p}] ELSE sent
      <3> DEFINE lost == call[c].content /\ (~Readable(c, p) \/ ~call[c].listening)
                 b == call[c].interrupt \/ lost \/ ~call[c].listening
      <3>1. b \in BOOLEAN
        OBVIOUS
      <3>2. Becomes(c, [call[c] EXCEPT !.interrupt = b])
        BY <1>10 DEF DeliverAs
      <3>3. /\ job[c][p].at = "have" /\ JobGoes(c, p, IF lost THEN "broken" ELSE "sent")
            /\ sent' = IF ~lost /\ call[c].listening THEN [sent EXCEPT ![c] = @ \cup {p}] ELSE sent
            /\ UNCHANGED <<kind, source, record, pieces, claim, told, tainted>>
        BY <1>10 DEF DeliverAs, JobAt, store
      <3> HIDE DEF lost, b
      <3>4. Moved(c) /\ call'[c].pc = call[c].pc /\ OnlyPc(call'[c], call[c])
        BY <1>0, <3>1, <3>2, InterruptEffect
      <3> QED BY <1>00, <3>3, <3>4, GoesEffect DEF JobStates
    <2>2. Advances(c, p)
      <3>1. job[c][p].at # "none"
        BY <2>1
      <3>2. call[c].pc \in Looping /\ (call[c].pc = "loop" => p \notin call[c].todo)
        BY <1>1, <1>01, <3>1 DEF Shape, ShapeOf
      <3>3. job'[c][p].at \in {"queued"} \cup Busy => job'[c][p].left > 0
        BY <1>1, <2>1 DEF Shape, ShapeOf, Busy
      <3> QED BY <2>1, <3>2, <3>3 DEF Advances, OnlyPc, SameLoop, SameClient, SameEnd,
          SamePlan
    <2>3. sent[c] \subseteq sent'[c] /\ (call[c].listening /\ Gained(c, p) => p \in sent'[c])
      BY <1>00, <1>3, <2>1 DEF Gained, OnlyPc, SamePlan, SameClient
    <2>4. /\ Sound => \A q \in Pieces : pieces[q] = "stored" => pieces'[q] = "stored"
          /\ Sound /\ (Gained(c, p) \/ job'[c][p].at = "have") => pieces'[p] = "stored"
      BY <1>02, <1>2, <1>3, <2>1, CallsAssumption DEF Gained, Stored, Sound, Unfinished,
          Held, OnlyPc, SamePlan
    <2>5. Own(c)
      BY <1>01, <2>2, <2>3, <2>4, AdvanceKeeps DEF Own
    <2>7. OthersKept(c)
      BY <1>00, <1>02, <1>03, <1>2, <2>1, CallsAssumption DEF OthersKept, Stored, OnlyJob,
          JobMoved, Dropped, Unfinished, Held
    <2>8. Rest'
      BY <1>00, <1>02, <1>03, <2>1 DEF Rest, OnlyJob, JobMoved, Dropped, Unfinished,
          Messages
    <2>9. ClaimInv'
      <3>1. \A q \in Pieces, d \in Calls : claim'[q] = d <=> job'[d][q].at \in Held
        BY <1>2, <2>1, ClaimsKept DEF Held
      <3>2. \A q \in Pieces : pieces'[q] = "started" => claim'[q] # None
        BY <1>00, <1>02, <1>03, <1>2, <2>1, CallsAssumption DEF Dropped, Unfinished, Held
      <3>3. ~tainted' => \A q \in Pieces : claim'[q] # None => pieces'[q] # "stored"
        BY <1>00, <1>02, <1>03, <1>2, <2>1, CallsAssumption DEF Dropped, Unfinished, Held
      <3> QED BY <3>1, <3>2, <3>3 DEF ClaimInv
    <2>10. FinishedIsComplete'
      BY <2>1, <2>7, FinishedKept
    <2> QED BY <2>5, <2>7, <2>8, <2>9, <2>10 DEF Kept
  <1>11. ASSUME NEW k \in Kinds, ReportAs(c, p, k) PROVE Kept(c)
    <2>1. CASE call[c].fetch = "parents"
      <3>1. /\ UNCHANGED <<kind, source, record, pieces, claim, told, sent, tainted>>
            /\ OnlyJob(c, p) /\ job[c][p].at = "sent" /\ job'[c][p].at = "done"
            /\ job'[c][p].left = job[c][p].left
            /\ Moved(c) /\ call'[c].pc = call[c].pc /\ call'[c].part = call[c].part \cup {p}
            /\ call'[c].want = call[c].want /\ call'[c].got = call[c].got
            /\ SameLoop(call'[c], call[c]) /\ SameClient(call'[c], call[c])
            /\ SameEnd(call'[c], call[c])
        <4>1. call[c].part \cup {p} \in SUBSET Pieces
          BY <1>01
        <4>2. Becomes(c, [call[c] EXCEPT !.part = call[c].part \cup {p}])
          BY <1>11, <2>1 DEF ReportAs
        <4>3. /\ Moved(c) /\ call'[c].pc = call[c].pc /\ call'[c].part = call[c].part \cup {p}
              /\ call'[c].want = call[c].want /\ call'[c].got = call[c].got
              /\ SameLoop(call'[c], call[c]) /\ SameClient(call'[c], call[c])
              /\ SameEnd(call'[c], call[c])
          BY <1>0, <4>1, <4>2, PartEffect
        <4>4. OnlyJob(c, p) /\ job'[c][p].at = "done" /\ job'[c][p].left = job[c][p].left
          BY <1>11, <2>1, <1>00, GoesEffect DEF ReportAs, JobStates
        <4> QED BY <1>11, <2>1, <4>3, <4>4 DEF ReportAs, JobAt, store
      <3>2. Advances(c, p)
        <4>1. job[c][p].at # "none"
          BY <3>1
        <4>2. call[c].pc \in Looping /\ (call[c].pc = "loop" => p \notin call[c].todo)
          BY <1>1, <1>01, <4>1 DEF Shape, ShapeOf
        <4>3. job'[c][p].at \in {"queued"} \cup Busy => job'[c][p].left > 0
          BY <1>1, <3>1 DEF Shape, ShapeOf, Busy
        <4> QED BY <3>1, <4>2, <4>3 DEF Advances, OnlyPc, SameLoop, SameClient, SameEnd,
            SamePlan
      <3>3. sent[c] \subseteq sent'[c] /\ (call[c].listening /\ Gained(c, p) => p \in sent'[c])
        BY <1>00, <1>3, <3>1 DEF Gained, OnlyPc, SamePlan, SameClient
      <3>4. /\ Sound => \A q \in Pieces : pieces[q] = "stored" => pieces'[q] = "stored"
            /\ Sound /\ (Gained(c, p) \/ job'[c][p].at = "have") => pieces'[p] = "stored"
        BY <1>02, <1>2, <1>3, <3>1, CallsAssumption DEF Gained, Stored, Sound, Unfinished,
            Held, OnlyPc, SamePlan
      <3>5. Own(c)
        BY <1>01, <3>2, <3>3, <3>4, AdvanceKeeps DEF Own
      <3>7. OthersKept(c)
        BY <1>00, <1>02, <1>03, <1>2, <3>1, CallsAssumption DEF OthersKept, Stored, OnlyJob,
            JobMoved, Dropped, Unfinished, Held
      <3>8. Rest'
        BY <1>00, <1>02, <1>03, <3>1 DEF Rest, OnlyJob, JobMoved, Dropped, Unfinished,
            Messages
      <3>9. ClaimInv'
        <4>1. \A q \in Pieces, d \in Calls : claim'[q] = d <=> job'[d][q].at \in Held
          BY <1>2, <3>1, ClaimsKept DEF Held
        <4>2. \A q \in Pieces : pieces'[q] = "started" => claim'[q] # None
          BY <1>00, <1>02, <1>03, <1>2, <3>1, CallsAssumption DEF Dropped, Unfinished, Held
        <4>3. ~tainted' => \A q \in Pieces : claim'[q] # None => pieces'[q] # "stored"
          BY <1>00, <1>02, <1>03, <1>2, <3>1, CallsAssumption DEF Dropped, Unfinished, Held
        <4> QED BY <4>1, <4>2, <4>3 DEF ClaimInv
      <3>10. FinishedIsComplete'
        BY <3>1, <3>7, FinishedKept
      <3> QED BY <3>5, <3>7, <3>8, <3>9, <3>10 DEF Kept
    <2>2. CASE call[c].fetch # "parents"
      <3>1. /\ UNCHANGED <<kind, source, record, pieces, claim, told, sent, tainted>>
            /\ OnlyJob(c, p) /\ job[c][p].at = "sent" /\ job'[c][p].at = "done"
            /\ job'[c][p].left = job[c][p].left
            /\ Moved(c) /\ call'[c] = call[c]
        <4>1. Becomes(c, call[c]) \/ call' = call
          BY <1>11, <2>2 DEF ReportAs
        <4>2. Moved(c) /\ call'[c] = call[c]
          BY <1>0, <4>1, BecomesEffect DEF Moved
        <4> QED BY <1>11, <2>2, <1>00, <4>2, GoesEffect DEF ReportAs, JobAt, JobStates,
            store
      <3>2. Advances(c, p)
        <4>1. job[c][p].at # "none"
          BY <3>1
        <4>2. call[c].pc \in Looping /\ (call[c].pc = "loop" => p \notin call[c].todo)
          BY <1>1, <1>01, <4>1 DEF Shape, ShapeOf
        <4>3. job'[c][p].at \in {"queued"} \cup Busy => job'[c][p].left > 0
          BY <1>1, <3>1 DEF Shape, ShapeOf, Busy
        <4> QED BY <3>1, <4>2, <4>3 DEF Advances, OnlyPc, SameLoop, SameClient, SameEnd,
            SamePlan
      <3>3. sent[c] \subseteq sent'[c] /\ (call[c].listening /\ Gained(c, p) => p \in sent'[c])
        BY <1>00, <1>3, <3>1 DEF Gained, OnlyPc, SamePlan, SameClient
      <3>4. /\ Sound => \A q \in Pieces : pieces[q] = "stored" => pieces'[q] = "stored"
            /\ Sound /\ (Gained(c, p) \/ job'[c][p].at = "have") => pieces'[p] = "stored"
        BY <1>02, <1>2, <1>3, <3>1, CallsAssumption DEF Gained, Stored, Sound, Unfinished,
            Held, OnlyPc, SamePlan
      <3>5. Own(c)
        BY <1>01, <3>2, <3>3, <3>4, AdvanceKeeps DEF Own
      <3>7. OthersKept(c)
        BY <1>00, <1>02, <1>03, <1>2, <3>1, CallsAssumption DEF OthersKept, Stored, OnlyJob,
            JobMoved, Dropped, Unfinished, Held
      <3>8. Rest'
        BY <1>00, <1>02, <1>03, <3>1 DEF Rest, OnlyJob, JobMoved, Dropped, Unfinished,
            Messages
      <3>9. ClaimInv'
        <4>1. \A q \in Pieces, d \in Calls : claim'[q] = d <=> job'[d][q].at \in Held
          BY <1>2, <3>1, ClaimsKept DEF Held
        <4>2. \A q \in Pieces : pieces'[q] = "started" => claim'[q] # None
          BY <1>00, <1>02, <1>03, <1>2, <3>1, CallsAssumption DEF Dropped, Unfinished, Held
        <4>3. ~tainted' => \A q \in Pieces : claim'[q] # None => pieces'[q] # "stored"
          BY <1>00, <1>02, <1>03, <1>2, <3>1, CallsAssumption DEF Dropped, Unfinished, Held
        <4> QED BY <4>1, <4>2, <4>3 DEF ClaimInv
      <3>10. FinishedIsComplete'
        BY <3>1, <3>7, FinishedKept
      <3> QED BY <3>5, <3>7, <3>8, <3>9, <3>10 DEF Kept
    <2> QED BY <1>11, <2>1, <2>2 DEF ReportAs
  <1>12. ASSUME JoinParent(c, p) PROVE Kept(c)
    <2>1. /\ UNCHANGED <<kind, source, record, pieces, claim, told, sent, tainted>>
          /\ call[c].pc = "join" /\ call[c].fetch = "parents"
          /\ OnlyJob(c, p) /\ job[c][p].at \in {"done", "failed", "broken"}
          /\ job'[c][p].at = "joined"
          /\ job'[c][p].left = job[c][p].left
          /\ Moved(c) /\ call'[c] = call[c]
      <3>1. Moved(c) /\ call'[c] = call[c]
        BY <1>12, <1>0 DEF JoinParent, Moved
      <3> QED BY <1>12, <1>00, <3>1, GoesEffect DEF JoinParent, JobAt, JobStates, store, At
    <2>2. Advances(c, p)
      <3>1. job[c][p].at # "none"
        BY <2>1
      <3>2. call[c].pc \in Looping /\ (call[c].pc = "loop" => p \notin call[c].todo)
        BY <1>1, <1>01, <3>1 DEF Shape, ShapeOf
      <3>3. job'[c][p].at \in {"queued"} \cup Busy => job'[c][p].left > 0
        BY <1>1, <2>1 DEF Shape, ShapeOf, Busy
      <3> QED BY <2>1, <3>2, <3>3 DEF Advances, OnlyPc, SameLoop, SameClient, SameEnd,
          SamePlan
    <2>3. sent[c] \subseteq sent'[c] /\ (call[c].listening /\ Gained(c, p) => p \in sent'[c])
      BY <1>00, <1>3, <2>1 DEF Gained, OnlyPc, SamePlan, SameClient
    <2>4. /\ Sound => \A q \in Pieces : pieces[q] = "stored" => pieces'[q] = "stored"
          /\ Sound /\ (Gained(c, p) \/ job'[c][p].at = "have") => pieces'[p] = "stored"
      BY <1>02, <1>2, <1>3, <2>1, CallsAssumption DEF Gained, Stored, Sound, Unfinished,
          Held, OnlyPc, SamePlan
    <2>5. Own(c)
      BY <1>01, <2>2, <2>3, <2>4, AdvanceKeeps DEF Own
    <2>7. OthersKept(c)
      BY <1>00, <1>02, <1>03, <1>2, <2>1, CallsAssumption DEF OthersKept, Stored, OnlyJob,
          JobMoved, Dropped, Unfinished, Held
    <2>8. Rest'
      BY <1>00, <1>02, <1>03, <2>1 DEF Rest, OnlyJob, JobMoved, Dropped, Unfinished,
          Messages
    <2>9. ClaimInv'
      <3>1. \A q \in Pieces, d \in Calls : claim'[q] = d <=> job'[d][q].at \in Held
        BY <1>2, <2>1, ClaimsKept DEF Held
      <3>2. \A q \in Pieces : pieces'[q] = "started" => claim'[q] # None
        BY <1>00, <1>02, <1>03, <1>2, <2>1, CallsAssumption DEF Dropped, Unfinished, Held
      <3>3. ~tainted' => \A q \in Pieces : claim'[q] # None => pieces'[q] # "stored"
        BY <1>00, <1>02, <1>03, <1>2, <2>1, CallsAssumption DEF Dropped, Unfinished, Held
      <3> QED BY <3>1, <3>2, <3>3 DEF ClaimInv
    <2>10. FinishedIsComplete'
      BY <2>1, <2>7, FinishedKept
    <2> QED BY <2>5, <2>7, <2>8, <2>9, <2>10 DEF Kept
  <1>13. ASSUME JoinCacheParent(c, p) PROVE Kept(c)
    <2>1. CASE JobAt(c, p, "done") /\ JobGoes(c, p, "joined") /\ UNCHANGED <<pieces, claim, call>>
      <3>1. /\ UNCHANGED <<kind, source, record, pieces, claim, told, sent, tainted>>
            /\ call[c].pc = "join" /\ call[c].fetch = "parents"
            /\ OnlyJob(c, p) /\ job[c][p].at = "done" /\ job'[c][p].at = "joined"
            /\ job'[c][p].left = job[c][p].left
            /\ Moved(c) /\ call'[c] = call[c]
        <4>1. Moved(c) /\ call'[c] = call[c]
          BY <1>13, <2>1, <1>0 DEF JoinCacheParent, Moved
        <4> QED BY <1>13, <2>1, <1>00, <4>1, GoesEffect DEF JoinCacheParent, JobAt,
            JobStates, store, At
      <3>2. Advances(c, p)
        <4>1. job[c][p].at # "none"
          BY <3>1
        <4>2. call[c].pc \in Looping /\ (call[c].pc = "loop" => p \notin call[c].todo)
          BY <1>1, <1>01, <4>1 DEF Shape, ShapeOf
        <4>3. job'[c][p].at \in {"queued"} \cup Busy => job'[c][p].left > 0
          BY <1>1, <3>1 DEF Shape, ShapeOf, Busy
        <4> QED BY <3>1, <4>2, <4>3 DEF Advances, OnlyPc, SameLoop, SameClient, SameEnd,
            SamePlan
      <3>3. sent[c] \subseteq sent'[c] /\ (call[c].listening /\ Gained(c, p) => p \in sent'[c])
        BY <1>00, <1>3, <3>1 DEF Gained, OnlyPc, SamePlan, SameClient
      <3>4. /\ Sound => \A q \in Pieces : pieces[q] = "stored" => pieces'[q] = "stored"
            /\ Sound /\ (Gained(c, p) \/ job'[c][p].at = "have") => pieces'[p] = "stored"
        BY <1>02, <1>2, <1>3, <3>1, CallsAssumption DEF Gained, Stored, Sound, Unfinished,
            Held, OnlyPc, SamePlan
      <3>5. Own(c)
        BY <1>01, <3>2, <3>3, <3>4, AdvanceKeeps DEF Own
      <3>7. OthersKept(c)
        BY <1>00, <1>02, <1>03, <1>2, <3>1, CallsAssumption DEF OthersKept, Stored, OnlyJob,
            JobMoved, Dropped, Unfinished, Held
      <3>8. Rest'
        BY <1>00, <1>02, <1>03, <3>1 DEF Rest, OnlyJob, JobMoved, Dropped, Unfinished,
            Messages
      <3>9. ClaimInv'
        <4>1. \A q \in Pieces, d \in Calls : claim'[q] = d <=> job'[d][q].at \in Held
          BY <1>2, <3>1, ClaimsKept DEF Held
        <4>2. \A q \in Pieces : pieces'[q] = "started" => claim'[q] # None
          BY <1>00, <1>02, <1>03, <1>2, <3>1, CallsAssumption DEF Dropped, Unfinished, Held
        <4>3. ~tainted' => \A q \in Pieces : claim'[q] # None => pieces'[q] # "stored"
          BY <1>00, <1>02, <1>03, <1>2, <3>1, CallsAssumption DEF Dropped, Unfinished, Held
        <4> QED BY <4>1, <4>2, <4>3 DEF ClaimInv
      <3>10. FinishedIsComplete'
        BY <3>1, <3>7, FinishedKept
      <3> QED BY <3>5, <3>7, <3>8, <3>9, <3>10 DEF Kept
    <2>2. CASE Shutdown(c) /\ Becomes(c, [call[c] EXCEPT !.part = {}])
      <3>1. /\ UNCHANGED <<kind, source, record, told, sent, tainted>>
            /\ call[c].pc = "join" /\ call[c].fetch = "parents"
            /\ Dropped(c)
            /\ Moved(c) /\ call'[c].pc = call[c].pc /\ call'[c].part = {}
            /\ call'[c].want = call[c].want /\ call'[c].got = call[c].got
            /\ SameLoop(call'[c], call[c]) /\ SameClient(call'[c], call[c])
            /\ SameEnd(call'[c], call[c])
        <4>1. Dropped(c)
          BY <1>13, <2>2, <1>00, NoJobsEffect DEF Shutdown, Abandon, Dropped, Held
        <4>2. /\ Moved(c) /\ call'[c].pc = call[c].pc /\ call'[c].part = {}
              /\ call'[c].want = call[c].want /\ call'[c].got = call[c].got
              /\ SameLoop(call'[c], call[c]) /\ SameClient(call'[c], call[c])
              /\ SameEnd(call'[c], call[c])
          BY <1>13, <2>2, <1>0, PartEffect, {} \in SUBSET Pieces DEF Labels
        <4> QED BY <1>13, <2>2, <4>1, <4>2 DEF JoinCacheParent, At, Tell, JobAt
      <3>2. Shape(c)'
        BY <1>1, <1>00, <1>01, <3>1, <1>02 DEF Shape, ShapeOf, Looping, Serving, Uploading,
            Busy, OnlyPc, Settles, SameClient, SamePlan, SameLoop, SameEnd, OnlyJob,
            JobMoved, NoJobLeft, Dropped
      <3>3. SentInv(c)'
        BY <1>1, <1>00, <1>01, <3>1, <1>02 DEF SentInv, Covered, CoveredBy, Begun, Looping,
            Shape, OnlyPc, Settles, SameClient, SamePlan, SameLoop, SameEnd, OnlyJob,
            JobMoved, NoJobLeft, Dropped
      <3>4. StoredInv(c)'
        BY <1>1, <1>00, <1>01, <3>1, <1>02 DEF StoredInv, Covered, CoveredBy, Begun,
            Looping, Sound, Stored, Shape, Unfinished, OnlyPc, Settles, SameClient,
            SamePlan, SameLoop, SameEnd, OnlyJob, JobMoved, NoJobLeft, Dropped
      <3>5. ToldInv(c)'
        BY <1>1, <1>00, <1>01, <3>1, <1>02 DEF ToldInv, Sound, Stored, Shape, Looping,
            Unfinished, OnlyPc, Settles, SameClient, SamePlan, SameLoop, SameEnd, OnlyJob,
            JobMoved, NoJobLeft, Dropped
      <3>6. UploadInv(c)'
        BY <1>1, <1>00, <1>01, <3>1, <1>02 DEF UploadInv, PutDone, Uploaded, Stored, Shape,
            Looping, Unfinished, OnlyPc, Settles, SameClient, SamePlan, SameLoop, SameEnd,
            OnlyJob, JobMoved, NoJobLeft, Dropped
      <3>7. OthersKept(c)
        BY <1>00, <1>02, <1>03, <1>2, <3>1, CallsAssumption DEF OthersKept, Stored, OnlyJob,
            JobMoved, Dropped, Unfinished, Held
      <3>8. Rest'
        BY <1>00, <1>02, <1>03, <3>1 DEF Rest, OnlyJob, JobMoved, Dropped, Unfinished,
            Messages
      <3>9. ClaimInv'
        <4>1. \A q \in Pieces, d \in Calls : claim'[q] = d <=> job'[d][q].at \in Held
          BY <1>00, <1>02, <1>03, <1>2, <3>1, CallsAssumption DEF OnlyJob, JobMoved,
              NoJobLeft, Dropped, Held
        <4>2. \A q \in Pieces : pieces'[q] = "started" => claim'[q] # None
          BY <1>00, <1>02, <1>03, <1>2, <3>1, CallsAssumption DEF Dropped, Unfinished, Held
        <4>3. ~tainted' => \A q \in Pieces : claim'[q] # None => pieces'[q] # "stored"
          BY <1>00, <1>02, <1>03, <1>2, <3>1, CallsAssumption DEF Dropped, Unfinished, Held
        <4> QED BY <4>1, <4>2, <4>3 DEF ClaimInv
      <3>10. FinishedIsComplete'
        BY <3>1, <3>7, FinishedKept
      <3> QED BY <3>1, <3>2, <3>3, <3>4, <3>5, <3>6, <3>7, <3>8, <3>9, <3>10 DEF Kept, Own,
          CallInv
    <2> QED BY <1>13, <2>1, <2>2 DEF JoinCacheParent
  <1>14. ASSUME JoinBackToSource(c, p) PROVE Kept(c)
    <2>1. CASE JoinDone(c, p)
      <3>1. /\ UNCHANGED <<kind, source, record, pieces, claim, told, sent, tainted>>
            /\ call[c].pc = "join"
            /\ OnlyJob(c, p) /\ job[c][p].at = "done" /\ job'[c][p].at = "joined"
            /\ job'[c][p].left = job[c][p].left
            /\ Moved(c) /\ call'[c].pc = call[c].pc /\ call'[c].part = call[c].part \cup {p}
            /\ call'[c].want = call[c].want /\ call'[c].got = call[c].got
            /\ SameLoop(call'[c], call[c]) /\ SameClient(call'[c], call[c])
            /\ SameEnd(call'[c], call[c])
            /\ call[c].fetch = "b2s"
        <4>1. call[c].part \cup {p} \in SUBSET Pieces
          BY <1>01
        <4>2. Becomes(c, [call[c] EXCEPT !.part = call[c].part \cup {p}])
          BY <1>14, <2>1 DEF JoinDone
        <4>3. Moved(c) /\ call'[c].pc = call[c].pc /\ call'[c].part = call[c].part \cup {p}
              /\ call'[c].want = call[c].want /\ call'[c].got = call[c].got
              /\ SameLoop(call'[c], call[c]) /\ SameClient(call'[c], call[c])
              /\ SameEnd(call'[c], call[c])
          BY <1>0, <4>1, <4>2, PartEffect
        <4>4. OnlyJob(c, p) /\ job'[c][p].at = "joined" /\ job'[c][p].left = job[c][p].left
          BY <1>14, <2>1, <1>00, GoesEffect DEF JoinDone, JobStates
        <4> QED BY <1>14, <2>1, <4>3, <4>4 DEF JoinBackToSource, JoinDone, JobAt, At
      <3>2. Advances(c, p)
        <4>1. job[c][p].at # "none"
          BY <3>1
        <4>2. call[c].pc \in Looping /\ (call[c].pc = "loop" => p \notin call[c].todo)
          BY <1>1, <1>01, <4>1 DEF Shape, ShapeOf
        <4>3. job'[c][p].at \in {"queued"} \cup Busy => job'[c][p].left > 0
          BY <1>1, <3>1 DEF Shape, ShapeOf, Busy
        <4> QED BY <3>1, <4>2, <4>3 DEF Advances, OnlyPc, SameLoop, SameClient, SameEnd,
            SamePlan
      <3>3. sent[c] \subseteq sent'[c] /\ (call[c].listening /\ Gained(c, p) => p \in sent'[c])
        BY <1>00, <1>3, <3>1 DEF Gained, OnlyPc, SamePlan, SameClient
      <3>4. /\ Sound => \A q \in Pieces : pieces[q] = "stored" => pieces'[q] = "stored"
            /\ Sound /\ (Gained(c, p) \/ job'[c][p].at = "have") => pieces'[p] = "stored"
        BY <1>02, <1>2, <1>3, <3>1, CallsAssumption DEF Gained, Stored, Sound, Unfinished,
            Held, OnlyPc, SamePlan
      <3>5. Own(c)
        BY <1>01, <3>2, <3>3, <3>4, AdvanceKeeps DEF Own
      <3>7. OthersKept(c)
        BY <1>00, <1>02, <1>03, <1>2, <3>1, CallsAssumption DEF OthersKept, Stored, OnlyJob,
            JobMoved, Dropped, Unfinished, Held
      <3>8. Rest'
        BY <1>00, <1>02, <1>03, <3>1 DEF Rest, OnlyJob, JobMoved, Dropped, Unfinished,
            Messages
      <3>9. ClaimInv'
        <4>1. \A q \in Pieces, d \in Calls : claim'[q] = d <=> job'[d][q].at \in Held
          BY <1>2, <3>1, ClaimsKept DEF Held
        <4>2. \A q \in Pieces : pieces'[q] = "started" => claim'[q] # None
          BY <1>00, <1>02, <1>03, <1>2, <3>1, CallsAssumption DEF Dropped, Unfinished, Held
        <4>3. ~tainted' => \A q \in Pieces : claim'[q] # None => pieces'[q] # "stored"
          BY <1>00, <1>02, <1>03, <1>2, <3>1, CallsAssumption DEF Dropped, Unfinished, Held
        <4> QED BY <4>1, <4>2, <4>3 DEF ClaimInv
      <3>10. FinishedIsComplete'
        BY <3>1, <3>7, FinishedKept
      <3> QED BY <3>5, <3>7, <3>8, <3>9, <3>10 DEF Kept
    <2>2. CASE Shutdown(c) /\ Tell(c, "b2s_failed") /\ Go(c, "closing")
      <3>1. /\ UNCHANGED <<kind, source, record, sent, tainted>>
            /\ call[c].pc = "join" /\ Dropped(c)
            /\ told' = [told EXCEPT ![c] = @ \cup {"b2s_failed"}]
            /\ Moved(c) /\ call'[c].pc = "closing" /\ OnlyPc(call'[c], call[c])
        <4>1. Dropped(c)
          BY <1>14, <2>2, <1>00, NoJobsEffect DEF Shutdown, Abandon, Dropped, Held
        <4>2. Moved(c) /\ call'[c].pc = "closing" /\ OnlyPc(call'[c], call[c])
          BY <1>14, <2>2, <1>0, GoEffect, {} \in SUBSET Pieces DEF Labels
        <4> QED BY <1>14, <2>2, <4>1, <4>2 DEF JoinBackToSource, At, Tell, JobAt
      <3>2. Shape(c)'
        BY <1>1, <1>00, <1>01, <3>1, <1>02 DEF Shape, ShapeOf, Looping, Serving, Uploading,
            Busy, OnlyPc, Settles, SameClient, SamePlan, SameLoop, SameEnd, OnlyJob,
            JobMoved, NoJobLeft, Dropped
      <3>3. SentInv(c)'
        BY <1>1, <1>00, <1>01, <3>1, <1>02 DEF SentInv, Covered, CoveredBy, Begun, Looping,
            Shape, OnlyPc, Settles, SameClient, SamePlan, SameLoop, SameEnd, OnlyJob,
            JobMoved, NoJobLeft, Dropped
      <3>4. StoredInv(c)'
        BY <1>1, <1>00, <1>01, <3>1, <1>02 DEF StoredInv, Covered, CoveredBy, Begun,
            Looping, Sound, Stored, Shape, Unfinished, OnlyPc, Settles, SameClient,
            SamePlan, SameLoop, SameEnd, OnlyJob, JobMoved, NoJobLeft, Dropped
      <3>5. ToldInv(c)'
        BY <1>1, <1>00, <1>01, <3>1, <1>02 DEF ToldInv, Sound, Stored, Shape, Looping,
            Unfinished, OnlyPc, Settles, SameClient, SamePlan, SameLoop, SameEnd, OnlyJob,
            JobMoved, NoJobLeft, Dropped
      <3>6. UploadInv(c)'
        BY <1>1, <1>00, <1>01, <3>1, <1>02 DEF UploadInv, PutDone, Uploaded, Stored, Shape,
            Looping, Unfinished, OnlyPc, Settles, SameClient, SamePlan, SameLoop, SameEnd,
            OnlyJob, JobMoved, NoJobLeft, Dropped
      <3>7. OthersKept(c)
        BY <1>00, <1>02, <1>03, <1>2, <3>1, CallsAssumption DEF OthersKept, Stored, OnlyJob,
            JobMoved, Dropped, Unfinished, Held
      <3>8. Rest'
        BY <1>00, <1>02, <1>03, <3>1 DEF Rest, OnlyJob, JobMoved, Dropped, Unfinished,
            Messages
      <3>9. ClaimInv'
        <4>1. \A q \in Pieces, d \in Calls : claim'[q] = d <=> job'[d][q].at \in Held
          BY <1>00, <1>02, <1>03, <1>2, <3>1, CallsAssumption DEF OnlyJob, JobMoved,
              NoJobLeft, Dropped, Held
        <4>2. \A q \in Pieces : pieces'[q] = "started" => claim'[q] # None
          BY <1>00, <1>02, <1>03, <1>2, <3>1, CallsAssumption DEF Dropped, Unfinished, Held
        <4>3. ~tainted' => \A q \in Pieces : claim'[q] # None => pieces'[q] # "stored"
          BY <1>00, <1>02, <1>03, <1>2, <3>1, CallsAssumption DEF Dropped, Unfinished, Held
        <4> QED BY <4>1, <4>2, <4>3 DEF ClaimInv
      <3>10. FinishedIsComplete'
        BY <3>1, <3>7, FinishedKept
      <3> QED BY <3>1, <3>2, <3>3, <3>4, <3>5, <3>6, <3>7, <3>8, <3>9, <3>10 DEF Kept, Own,
          CallInv
    <2> QED BY <1>14, <2>1, <2>2 DEF JoinBackToSource
  <1>15. ASSUME JoinSource(c, p) PROVE Kept(c)
    <2>1. CASE JoinDone(c, p)
      <3>1. /\ UNCHANGED <<kind, source, record, pieces, claim, told, sent, tainted>>
            /\ call[c].pc = "join"
            /\ OnlyJob(c, p) /\ job[c][p].at = "done" /\ job'[c][p].at = "joined"
            /\ job'[c][p].left = job[c][p].left
            /\ Moved(c) /\ call'[c].pc = call[c].pc /\ call'[c].part = call[c].part \cup {p}
            /\ call'[c].want = call[c].want /\ call'[c].got = call[c].got
            /\ SameLoop(call'[c], call[c]) /\ SameClient(call'[c], call[c])
            /\ SameEnd(call'[c], call[c])
            /\ call[c].fetch = "source"
        <4>1. call[c].part \cup {p} \in SUBSET Pieces
          BY <1>01
        <4>2. Becomes(c, [call[c] EXCEPT !.part = call[c].part \cup {p}])
          BY <1>15, <2>1 DEF JoinDone
        <4>3. Moved(c) /\ call'[c].pc = call[c].pc /\ call'[c].part = call[c].part \cup {p}
              /\ call'[c].want = call[c].want /\ call'[c].got = call[c].got
              /\ SameLoop(call'[c], call[c]) /\ SameClient(call'[c], call[c])
              /\ SameEnd(call'[c], call[c])
          BY <1>0, <4>1, <4>2, PartEffect
        <4>4. OnlyJob(c, p) /\ job'[c][p].at = "joined" /\ job'[c][p].left = job[c][p].left
          BY <1>15, <2>1, <1>00, GoesEffect DEF JoinDone, JobStates
        <4> QED BY <1>15, <2>1, <4>3, <4>4 DEF JoinSource, JoinDone, JobAt, At
      <3>2. Advances(c, p)
        <4>1. job[c][p].at # "none"
          BY <3>1
        <4>2. call[c].pc \in Looping /\ (call[c].pc = "loop" => p \notin call[c].todo)
          BY <1>1, <1>01, <4>1 DEF Shape, ShapeOf
        <4>3. job'[c][p].at \in {"queued"} \cup Busy => job'[c][p].left > 0
          BY <1>1, <3>1 DEF Shape, ShapeOf, Busy
        <4> QED BY <3>1, <4>2, <4>3 DEF Advances, OnlyPc, SameLoop, SameClient, SameEnd,
            SamePlan
      <3>3. sent[c] \subseteq sent'[c] /\ (call[c].listening /\ Gained(c, p) => p \in sent'[c])
        BY <1>00, <1>3, <3>1 DEF Gained, OnlyPc, SamePlan, SameClient
      <3>4. /\ Sound => \A q \in Pieces : pieces[q] = "stored" => pieces'[q] = "stored"
            /\ Sound /\ (Gained(c, p) \/ job'[c][p].at = "have") => pieces'[p] = "stored"
        BY <1>02, <1>2, <1>3, <3>1, CallsAssumption DEF Gained, Stored, Sound, Unfinished,
            Held, OnlyPc, SamePlan
      <3>5. Own(c)
        BY <1>01, <3>2, <3>3, <3>4, AdvanceKeeps DEF Own
      <3>7. OthersKept(c)
        BY <1>00, <1>02, <1>03, <1>2, <3>1, CallsAssumption DEF OthersKept, Stored, OnlyJob,
            JobMoved, Dropped, Unfinished, Held
      <3>8. Rest'
        BY <1>00, <1>02, <1>03, <3>1 DEF Rest, OnlyJob, JobMoved, Dropped, Unfinished,
            Messages
      <3>9. ClaimInv'
        <4>1. \A q \in Pieces, d \in Calls : claim'[q] = d <=> job'[d][q].at \in Held
          BY <1>2, <3>1, ClaimsKept DEF Held
        <4>2. \A q \in Pieces : pieces'[q] = "started" => claim'[q] # None
          BY <1>00, <1>02, <1>03, <1>2, <3>1, CallsAssumption DEF Dropped, Unfinished, Held
        <4>3. ~tainted' => \A q \in Pieces : claim'[q] # None => pieces'[q] # "stored"
          BY <1>00, <1>02, <1>03, <1>2, <3>1, CallsAssumption DEF Dropped, Unfinished, Held
        <4> QED BY <4>1, <4>2, <4>3 DEF ClaimInv
      <3>10. FinishedIsComplete'
        BY <3>1, <3>7, FinishedKept
      <3> QED BY <3>5, <3>7, <3>8, <3>9, <3>10 DEF Kept
    <2>2. CASE Shutdown(c) /\ Becomes(c, Settle(c, "err")) /\ UNCHANGED told
      <3>1. /\ UNCHANGED <<kind, source, record, told, sent, tainted>>
            /\ call[c].pc = "join" /\ Dropped(c)
            /\ Moved(c) /\ Settles(call'[c], call[c], "err")
        <4>1. Dropped(c)
          BY <1>15, <2>2, <1>00, NoJobsEffect DEF Shutdown, Abandon, Dropped, Held
        <4>2. Moved(c) /\ Settles(call'[c], call[c], "err")
          BY <1>15, <2>2, <1>0, SettleEffect, {} \in SUBSET Pieces DEF Labels
        <4> QED BY <1>15, <2>2, <4>1, <4>2 DEF JoinSource, At, Tell, JobAt
      <3>2. Shape(c)'
        BY <1>1, <1>00, <1>01, <3>1, <1>02 DEF Shape, ShapeOf, Looping, Serving, Uploading,
            Busy, OnlyPc, Settles, SameClient, SamePlan, SameLoop, SameEnd, OnlyJob,
            JobMoved, NoJobLeft, Dropped
      <3>3. SentInv(c)'
        BY <1>1, <1>00, <1>01, <3>1, <1>02 DEF SentInv, Covered, CoveredBy, Begun, Looping,
            Shape, OnlyPc, Settles, SameClient, SamePlan, SameLoop, SameEnd, OnlyJob,
            JobMoved, NoJobLeft, Dropped
      <3>4. StoredInv(c)'
        BY <1>1, <1>00, <1>01, <3>1, <1>02 DEF StoredInv, Covered, CoveredBy, Begun,
            Looping, Sound, Stored, Shape, Unfinished, OnlyPc, Settles, SameClient,
            SamePlan, SameLoop, SameEnd, OnlyJob, JobMoved, NoJobLeft, Dropped
      <3>5. ToldInv(c)'
        BY <1>1, <1>00, <1>01, <3>1, <1>02 DEF ToldInv, Sound, Stored, Shape, Looping,
            Unfinished, OnlyPc, Settles, SameClient, SamePlan, SameLoop, SameEnd, OnlyJob,
            JobMoved, NoJobLeft, Dropped
      <3>6. UploadInv(c)'
        BY <1>1, <1>00, <1>01, <3>1, <1>02 DEF UploadInv, PutDone, Uploaded, Stored, Shape,
            Looping, Unfinished, OnlyPc, Settles, SameClient, SamePlan, SameLoop, SameEnd,
            OnlyJob, JobMoved, NoJobLeft, Dropped
      <3>7. OthersKept(c)
        BY <1>00, <1>02, <1>03, <1>2, <3>1, CallsAssumption DEF OthersKept, Stored, OnlyJob,
            JobMoved, Dropped, Unfinished, Held
      <3>8. Rest'
        BY <1>00, <1>02, <1>03, <3>1 DEF Rest, OnlyJob, JobMoved, Dropped, Unfinished,
            Messages
      <3>9. ClaimInv'
        <4>1. \A q \in Pieces, d \in Calls : claim'[q] = d <=> job'[d][q].at \in Held
          BY <1>00, <1>02, <1>03, <1>2, <3>1, CallsAssumption DEF OnlyJob, JobMoved,
              NoJobLeft, Dropped, Held
        <4>2. \A q \in Pieces : pieces'[q] = "started" => claim'[q] # None
          BY <1>00, <1>02, <1>03, <1>2, <3>1, CallsAssumption DEF Dropped, Unfinished, Held
        <4>3. ~tainted' => \A q \in Pieces : claim'[q] # None => pieces'[q] # "stored"
          BY <1>00, <1>02, <1>03, <1>2, <3>1, CallsAssumption DEF Dropped, Unfinished, Held
        <4> QED BY <4>1, <4>2, <4>3 DEF ClaimInv
      <3>10. FinishedIsComplete'
        BY <3>1, <3>7, FinishedKept
      <3> QED BY <3>1, <3>2, <3>3, <3>4, <3>5, <3>6, <3>7, <3>8, <3>9, <3>10 DEF Kept, Own,
          CallInv
    <2> QED BY <1>15, <2>1, <2>2 DEF JoinSource
  <1>16. ASSUME NEW k \in Kinds, ImportAs(c, p, k) PROVE Kept(c)
    <2>1. /\ UNCHANGED <<kind, source, record, claim, told, sent>>
          /\ call[c].pc = "u_content" /\ p \in call[c].todo
          /\ pieces' = [pieces EXCEPT ![p] = "stored"] /\ tainted' = (tainted \/ claim[p] # None)
          /\ job' = job
          /\ Moved(c) /\ call'[c].pc = call[c].pc /\ call'[c].todo = call[c].todo \ {p}
          /\ call'[c].fetch = call[c].fetch
          /\ SamePlan(call'[c], call[c]) /\ SameClient(call'[c], call[c])
          /\ SameEnd(call'[c], call[c])
      <3>1. Becomes(c, [call[c] EXCEPT !.todo = call[c].todo \ {p}])
        BY <1>16 DEF ImportAs
      <3> QED BY <1>16, <1>0, <3>1, SkipEffect DEF ImportAs, At
    <2>2. Shape(c)'
      BY <1>1, <1>00, <1>01, <2>1, <1>02 DEF Shape, ShapeOf, Looping, Serving, Uploading,
          Busy, OnlyPc, Settles, SameClient, SamePlan, SameLoop, SameEnd, OnlyJob, JobMoved,
          NoJobLeft, Dropped
    <2>3. SentInv(c)'
      BY <1>1, <1>00, <1>01, <2>1, <1>02 DEF SentInv, Covered, CoveredBy, Begun, Looping,
          Shape, OnlyPc, Settles, SameClient, SamePlan, SameLoop, SameEnd, OnlyJob,
          JobMoved, NoJobLeft, Dropped
    <2>4. StoredInv(c)'
      BY <1>1, <1>00, <1>01, <2>1, <1>02 DEF StoredInv, Covered, CoveredBy, Begun, Looping,
          Sound, Stored, Shape, Unfinished, OnlyPc, Settles, SameClient, SamePlan, SameLoop,
          SameEnd, OnlyJob, JobMoved, NoJobLeft, Dropped
    <2>5. ToldInv(c)'
      BY <1>1, <1>00, <1>01, <2>1, <1>02 DEF ToldInv, Sound, Stored, Shape, Looping,
          Unfinished, OnlyPc, Settles, SameClient, SamePlan, SameLoop, SameEnd, OnlyJob,
          JobMoved, NoJobLeft, Dropped
    <2>6. UploadInv(c)'
      BY <1>1, <1>00, <1>01, <2>1, <1>02 DEF UploadInv, PutDone, Uploaded, Stored, Shape,
          Looping, Unfinished, OnlyPc, Settles, SameClient, SamePlan, SameLoop, SameEnd,
          OnlyJob, JobMoved, NoJobLeft, Dropped
    <2>7. OthersKept(c)
      BY <1>00, <1>02, <1>03, <1>2, <2>1, CallsAssumption DEF OthersKept, Stored, OnlyJob,
          JobMoved, Dropped, Unfinished, Held
    <2>8. Rest'
      BY <1>00, <1>02, <1>03, <2>1 DEF Rest, OnlyJob, JobMoved, Dropped, Unfinished,
          Messages
    <2>9. ClaimInv'
      <3>1. \A q \in Pieces, d \in Calls : claim'[q] = d <=> job'[d][q].at \in Held
        BY <1>00, <1>02, <1>03, <1>2, <2>1, CallsAssumption DEF OnlyJob, JobMoved,
            NoJobLeft, Dropped, Held
      <3>2. \A q \in Pieces : pieces'[q] = "started" => claim'[q] # None
        BY <1>00, <1>02, <1>03, <1>2, <2>1, CallsAssumption DEF Dropped, Unfinished, Held
      <3>3. ~tainted' => \A q \in Pieces : claim'[q] # None => pieces'[q] # "stored"
        BY <1>00, <1>02, <1>03, <1>2, <2>1, CallsAssumption DEF Dropped, Unfinished, Held
      <3> QED BY <3>1, <3>2, <3>3 DEF ClaimInv
    <2>10. FinishedIsComplete'
      BY <2>1, <2>7, FinishedKept
    <2> QED BY <2>1, <2>2, <2>3, <2>4, <2>5, <2>6, <2>7, <2>8, <2>9, <2>10 DEF Kept, Own,
        CallInv
  <1> QED BY <1>4, <1>5, <1>6, <1>7, <1>8, <1>9, <1>10, <1>11, <1>12, <1>13, <1>14, <1>15,
      <1>16 DEF PieceStep

-----------------------------------------------------------------------------
(* The steps of a call, and what they mean for the rest.                   *)

(* Most steps of a call change nothing that another call could see. *)
Private(c) ==
    /\ UNCHANGED <<kind, source, record, pieces, claim, tainted>> /\ JobMoved(c)
    /\ told' \in [Calls -> SUBSET Messages] /\ sent' \in [Calls -> SUBSET Pieces]
    /\ \A d \in Calls \ {c} : told'[d] = told[d] /\ sent'[d] = sent[d]
    /\ \A q \in Pieces : job'[c][q].at \in Held <=> job[c][q].at \in Held

LEMMA PrivateKeeps ==
  ASSUME Typed, ClaimInv, FinishedIsComplete, NEW c \in Calls, Private(c)
  PROVE  OthersKept(c) /\ Rest' /\ ClaimInv' /\ FinishedIsComplete'
  <1>00. /\ job \in [Calls -> [Pieces -> JobRecords]] /\ sent \in [Calls -> SUBSET Pieces]
         /\ told \in [Calls -> SUBSET Messages]
    BY DEF Typed
  <1>02. /\ pieces \in [Pieces -> {"none", "started", "stored"}]
         /\ claim \in [Pieces -> Calls \cup {None}]
    BY DEF Typed
  <1>03. /\ kind \in Kinds /\ source \in BOOLEAN /\ tainted \in BOOLEAN
         /\ record \subseteq Marks /\ (record # {} => "here" \in record)
    BY DEF Typed
  <1>1. OthersKept(c)
    BY <1>02, <1>03 DEF Private, OthersKept, JobMoved, Stored
  <1>2. Rest'
    BY <1>02, <1>03 DEF Private, Rest, JobMoved
  <1>3. ClaimInv'
    <2>1. \A q \in Pieces, d \in Calls : job'[d][q].at \in Held <=> job[d][q].at \in Held
      BY DEF Private, JobMoved
    <2> QED BY <2>1 DEF Private, ClaimInv
  <1>4. FinishedIsComplete'
    BY DEF Private, FinishedIsComplete
  <1> QED BY <1>1, <1>2, <1>3, <1>4

LEMMA TellEffect ==
  ASSUME told \in [Calls -> SUBSET Messages], NEW c \in Calls, NEW m \in Messages, Tell(c, m)
  PROVE  told' \in [Calls -> SUBSET Messages] /\ \A d \in Calls \ {c} : told'[d] = told[d]
  BY DEF Tell

LEMMA PrivateSteps ==
  ASSUME Typed, NEW c \in Calls, Shape(c),
         \/ \E path : AcceptAs(c, path) \/ BeginAs(c, path) \/ RegisterAs(c, path)
         \/ Refuse(c) \/ LocalDone(c) \/ SchedulerFails(c) \/ StreamEnds(c)
         \/ \E found \in SUBSET Pieces : LocalPiece(c, found)
         \/ LocalRead(c)
         \/ \E path : TooManyAs(c, path) \/ NormalAs(c, path)
         \/ \E path : \E first \in {"started", "finished"} : EmptyAs(c, path, first)
         \/ EmptyToldBoth(c) \/ NeedBackToSource(c) \/ RefuseBackToSource(c) \/ Closed(c)
         \/ CollectEnds(c)
         \/ \E path : RoundDoneAs(c, path)
         \/ BackToSourceDone(c) \/ SourceDone(c)
         \/ \E path : \E fallback \in BOOLEAN : BackAs(c, path, fallback)
         \/ ClientLeaves(c) \/ RefuseUpload(c)
         \/ \E k \in Kinds : AcceptUploadAs(c, k) \/ UploadFinishedAs(c, k)
  PROVE  Private(c)
  <1>1. /\ job \in [Calls -> [Pieces -> JobRecords]] /\ sent \in [Calls -> SUBSET Pieces]
        /\ told \in [Calls -> SUBSET Messages] /\ call[c] \in CallRecords
    BY DEF Typed
  <1>2. ASSUME UNCHANGED <<kind, source, store, job, told, sent, tainted>> PROVE Private(c)
    BY <1>1, <1>2 DEF Private, JobMoved, store
  <1>3. ASSUME UNCHANGED <<kind, source, store, job, sent, tainted>>,
               UNCHANGED told \/ \E m \in Messages : Tell(c, m)
        PROVE  Private(c)
    <2>1. told' \in [Calls -> SUBSET Messages] /\ \A d \in Calls \ {c} : told'[d] = told[d]
      BY <1>1, <1>3, TellEffect
    <2> QED BY <1>1, <1>3, <2>1 DEF Private, JobMoved, store
  <1>4. ASSUME UNCHANGED <<kind, source, store, job, told, tainted>>, NEW p \in Pieces,
               sent' \in {sent, [sent EXCEPT ![c] = @ \cup {p}]}
        PROVE  Private(c)
    <2>1. sent' \in [Calls -> SUBSET Pieces] /\ \A d \in Calls \ {c} : sent'[d] = sent[d]
      BY <1>1, <1>4
    <2> QED BY <1>1, <1>4, <2>1 DEF Private, JobMoved, store
  <1>5. ASSUME UNCHANGED <<kind, source, store, sent, tainted>>,
               UNCHANGED told \/ \E m \in Messages : Tell(c, m),
               AllJoined(c), job' = [job EXCEPT ![c] = NoJobs]
        PROVE  Private(c)
    <2>1. told' \in [Calls -> SUBSET Messages] /\ \A d \in Calls \ {c} : told'[d] = told[d]
      BY <1>1, <1>5, TellEffect
    <2>2. JobMoved(c) /\ NoJobLeft(c)
      BY <1>1, <1>5, NoJobsEffect
    <2>3. \A q \in Pieces : job'[c][q].at \in Held <=> job[c][q].at \in Held
      BY <1>5, <2>2 DEF AllJoined, Settled, NoJobLeft, Held
    <2> QED BY <1>1, <1>5, <2>1, <2>2, <2>3 DEF Private, store
  <1>6. ASSUME NEW path, AcceptAs(c, path) \/ BeginAs(c, path) \/ RegisterAs(c, path) PROVE Private(c)
    BY <1>2, <1>6 DEF AcceptAs, BeginAs, RegisterAs
  <1>7. ASSUME Refuse(c) \/ LocalDone(c) \/ SchedulerFails(c) \/ StreamEnds(c) \/ Closed(c)
                 \/ CollectEnds(c) \/ ClientLeaves(c) \/ RefuseUpload(c)
        PROVE  Private(c)
    BY <1>2, <1>7 DEF Refuse, LocalDone, SchedulerFails, StreamEnds, Closed, CollectEnds,
        ClientLeaves, RefuseUpload
  <1>8. ASSUME NEW path, NEW fallback, BackAs(c, path, fallback) PROVE Private(c)
    BY <1>2, <1>8 DEF BackAs
  <1>9. ASSUME NEW k, AcceptUploadAs(c, k) PROVE Private(c)
    BY <1>2, <1>9 DEF AcceptUploadAs
  <1>10. ASSUME NEW path, TooManyAs(c, path) \/ NormalAs(c, path) PROVE Private(c)
    BY <1>3, <1>10 DEF TooManyAs, NormalAs, Messages
  <1>11. ASSUME NEW path, NEW first \in {"started", "finished"}, EmptyAs(c, path, first) PROVE Private(c)
    BY <1>3, <1>11 DEF EmptyAs, Messages
  <1>12. ASSUME EmptyToldBoth(c) \/ NeedBackToSource(c) \/ RefuseBackToSource(c) PROVE Private(c)
    BY <1>3, <1>12 DEF EmptyToldBoth, NeedBackToSource, RefuseBackToSource, Messages
  <1>13. ASSUME NEW k, UploadFinishedAs(c, k) PROVE Private(c)
    BY <1>3, <1>13 DEF UploadFinishedAs, Messages
  <1>14. ASSUME NEW found, LocalPiece(c, found) \/ LocalRead(c) PROVE Private(c)
    <2>1. call[c].todo \subseteq Pieces /\ call[c].todo # {}
      BY <1>1, <1>14 DEF LocalPiece, LocalRead, At, Shape, ShapeOf, CallRecords
    <2>2. PICK p \in Pieces : p = Least(call[c].todo)
      BY <2>1, LeastIsMember
    <2>3. UNCHANGED <<kind, source, store, job, told, tainted>>
      BY <1>14 DEF LocalPiece, LocalRead, Skip, Keep
    <2>4. sent' \in {sent, [sent EXCEPT ![c] = @ \cup {p}]}
      BY <1>14, <2>2 DEF LocalPiece, LocalRead, Skip, Keep
    <2> QED BY <1>4, <2>3, <2>4
  <1>15. ASSUME NEW path, RoundDoneAs(c, path) PROVE Private(c)
    BY <1>5, <1>15 DEF RoundDoneAs, Messages
  <1>16. ASSUME BackToSourceDone(c) \/ SourceDone(c) PROVE Private(c)
    BY <1>5, <1>16 DEF BackToSourceDone, SourceDone, Messages
  <1> QED BY <1>6, <1>7, <1>8, <1>9, <1>10, <1>11, <1>12, <1>13, <1>14, <1>15, <1>16

(* The others change the record, the source or the pieces. *)
LEMMA PublicSteps ==
  ASSUME Typed, ClaimInv, FinishedIsComplete, NEW c \in Calls, CallInv(c),
         \/ \E path : StartAs(c, path) \/ SettleAs(c, path)
         \/ \E k \in Kinds : UploadStartedAs(c, k) \/ DeleteRecordAs(c, k)
         \/ upload_content_to_source(c) \/ UploadContentFails(c) \/ UploadContentDone(c)
         \/ delete_pieces(c)
  PROVE  OthersKept(c) /\ Rest' /\ ClaimInv' /\ FinishedIsComplete'
  <1>00. /\ job \in [Calls -> [Pieces -> JobRecords]] /\ sent \in [Calls -> SUBSET Pieces]
         /\ told \in [Calls -> SUBSET Messages]
    BY DEF Typed
  <1>02. /\ pieces \in [Pieces -> {"none", "started", "stored"}]
         /\ claim \in [Pieces -> Calls \cup {None}]
    BY DEF Typed
  <1>03. /\ kind \in Kinds /\ source \in BOOLEAN /\ tainted \in BOOLEAN
         /\ record \subseteq Marks /\ (record # {} => "here" \in record)
    BY DEF Typed
  <1> DEFINE Goal == OthersKept(c) /\ Rest' /\ ClaimInv' /\ FinishedIsComplete'
  <1>1. ASSUME UNCHANGED <<kind, source, pieces, claim, job, sent, tainted>>,
               UNCHANGED told \/ \E m \in Messages : Tell(c, m),
               record' \subseteq Marks, record' # {} => "here" \in record',
               record # {} => record' # {},
               Sound /\ "finished" \in record' => "finished" \in record \/ Pieces \subseteq Stored
        PROVE  Goal
    <2>1. told' \in [Calls -> SUBSET Messages] /\ \A d \in Calls \ {c} : told'[d] = told[d]
      BY <1>00, <1>1, TellEffect
    <2>2. OthersKept(c)
      BY <1>1, <2>1 DEF OthersKept, Stored
    <2>3. Rest'
      BY <1>00, <1>02, <1>03, <1>1, <2>1 DEF Rest
    <2>4. ClaimInv'
      BY <1>1 DEF ClaimInv
    <2>5. FinishedIsComplete'
      BY <1>1 DEF FinishedIsComplete, Sound, Stored
    <2> QED BY <2>2, <2>3, <2>4, <2>5
  <1>2. ASSUME UNCHANGED <<kind, record, pieces, claim, job, told, sent, tainted>>,
               source' \in BOOLEAN, source => source'
        PROVE  Goal
    <2>1. OthersKept(c) /\ Rest'
      BY <1>00, <1>02, <1>03, <1>2 DEF OthersKept, Stored, Rest
    <2>2. ClaimInv' /\ FinishedIsComplete'
      BY <1>2 DEF ClaimInv, FinishedIsComplete
    <2> QED BY <2>1, <2>2
  <1>3. ASSUME NEW path, StartAs(c, path) PROVE Goal
    <2>1. /\ UNCHANGED <<kind, source, pieces, claim, job, told, sent, tainted>>
          /\ record' = (record \ {"failed"}) \cup {"here"}
      BY <1>3 DEF StartAs
    <2> QED BY <1>1, <1>03, <2>1 DEF Marks
  <1>4. ASSUME NEW path, SettleAs(c, path) PROVE Goal
    <2>1. UNCHANGED <<kind, source, pieces, claim, job, told, sent, tainted>> /\ call[c].pc = "settle"
      BY <1>4 DEF SettleAs, At
    <2>2. \/ record' = record
          \/ call[c].res = "ok" /\ record' = {"here", "finished"}
          \/ record # {} /\ record' = record \cup {"failed"}
      BY <1>4 DEF SettleAs
    <2>3. Sound /\ call[c].res = "ok" => Pieces \subseteq Stored
      BY <2>1 DEF CallInv, Shape, ShapeOf, Serving, StoredInv, Covered, CoveredBy
    <2> QED BY <1>1, <1>03, <2>1, <2>2, <2>3 DEF Marks
  <1>5. ASSUME NEW k \in Kinds, UploadStartedAs(c, k) PROVE Goal
    <2>1. UNCHANGED <<kind, source, pieces, claim, job, sent, tainted>>
      BY <1>5 DEF UploadStartedAs
    <2>2. record' \in {record, {"here"}} /\ (UNCHANGED told \/ \E m \in Messages : Tell(c, m))
      BY <1>5 DEF UploadStartedAs, Messages
    <2> QED BY <1>1, <1>03, <2>1, <2>2 DEF Marks
  <1>6. ASSUME UploadContentDone(c) PROVE Goal
    <2>1. /\ UNCHANGED <<kind, source, pieces, claim, job, told, sent, tainted>>
          /\ call[c].pc = "u_content" /\ call[c].todo = {}
          /\ record' \in {record, {"here", "finished"}}
      BY <1>6 DEF UploadContentDone, Imported, At
    <2>2. Sound => Pieces \subseteq Stored
      BY <2>1 DEF CallInv, UploadInv, Sound
    <2>3. record = {} => record' = record
      BY <1>6 DEF UploadContentDone
    <2> QED BY <1>1, <1>03, <2>1, <2>2 DEF Marks
  <1>7. ASSUME upload_content_to_source(c) \/ UploadContentFails(c) PROVE Goal
    <2>1. UNCHANGED <<kind, record, pieces, claim, job, told, sent, tainted>>
      BY <1>7 DEF upload_content_to_source, UploadContentFails, store
    <2>2. source' = TRUE \/ source' = source
      BY <1>7 DEF upload_content_to_source, UploadContentFails
    <2> QED BY <1>2, <1>03, <2>1, <2>2
  <1>8. ASSUME NEW k \in Kinds, DeleteRecordAs(c, k) PROVE Goal
    <2>1. UNCHANGED <<kind, source, pieces, claim, job, told, sent>> /\ record' = {} /\ tainted' = TRUE
      BY <1>8 DEF DeleteRecordAs
    <2>2. OthersKept(c)
      BY <2>1 DEF OthersKept
    <2>3. Rest'
      BY <1>00, <1>02, <1>03, <2>1 DEF Rest
    <2>4. ClaimInv' /\ FinishedIsComplete'
      BY <2>1 DEF ClaimInv, FinishedIsComplete
    <2> QED BY <2>2, <2>3, <2>4
  <1>9. ASSUME delete_pieces(c) PROVE Goal
    <2>1. /\ UNCHANGED <<kind, source, record, claim, job, sent, tainted>>
          /\ pieces' = [p \in Pieces |-> "none"] /\ call[c].pc = "deleting"
          /\ UNCHANGED told \/ \E m \in Messages : Tell(c, m)
      BY <1>9 DEF delete_pieces, At, Messages
    <2>2. tainted
      BY <2>1 DEF CallInv, Shape
    <2>3. told' \in [Calls -> SUBSET Messages] /\ \A d \in Calls \ {c} : told'[d] = told[d]
      BY <1>00, <2>1, TellEffect
    <2>4. OthersKept(c)
      BY <2>1, <2>2, <2>3 DEF OthersKept
    <2>5. Rest'
      BY <1>00, <1>02, <1>03, <2>1, <2>3 DEF Rest
    <2>6. ClaimInv' /\ FinishedIsComplete'
      BY <2>1, <2>2 DEF ClaimInv, FinishedIsComplete
    <2> QED BY <2>4, <2>5, <2>6
  <1> QED BY <1>3, <1>4, <1>5, <1>6, <1>7, <1>8, <1>9

LEMMA KeepsInterested ==
  ASSUME Typed, ClaimInv, FinishedIsComplete, NEW c \in Calls, CallInv(c), EachInterested(c)
  PROVE  Kept(c)
  <1>0. call \in [Calls -> CallRecords] /\ call[c] \in CallRecords
    BY DEF Typed
  <1>1. CASE call[c].todo # {}
    <2>1. call[c].todo \subseteq Pieces
      BY <1>0 DEF CallRecords
    <2>2. PICK p \in Pieces : p = Least(call[c].todo) /\ p \in call[c].todo
      BY <1>1, <2>1, LeastIsMember
    <2>3. call[c].pc = "loop" /\ Queue(c, p)
      BY <1>1, <2>2 DEF EachInterested, At
    <2> QED BY <2>2, <2>3, KeepsQueue DEF Kept, Own
  <1>2. CASE call[c].todo = {}
    <2>1. /\ Go(c, "join") /\ call[c].pc = "loop"
          /\ UNCHANGED <<kind, source, record, pieces, claim, job, told, sent, tainted>>
      BY <1>2 DEF EachInterested, At, store
    <2>2. Moved(c) /\ call'[c].pc = "join" /\ OnlyPc(call'[c], call[c])
      BY <1>0, <2>1, GoEffect DEF Labels
    <2>3. Shape(c)'
      BY <1>2, <2>1, <2>2 DEF CallInv, Shape, ShapeOf, Looping, Serving, Uploading, OnlyPc,
          SameClient, SamePlan, SameLoop, SameEnd
    <2>4. SentInv(c)'
      BY <1>2, <2>1, <2>2 DEF CallInv, SentInv, Covered, CoveredBy, Begun, Looping, OnlyPc,
          SameClient, SamePlan, SameLoop, SameEnd
    <2>5. StoredInv(c)'
      BY <1>2, <2>1, <2>2 DEF CallInv, StoredInv, Covered, CoveredBy, Begun, Looping,
          Sound, Stored,
          OnlyPc, SameClient, SamePlan, SameLoop, SameEnd
    <2>6. ToldInv(c)'
      BY <2>1, <2>2 DEF CallInv, ToldInv, OnlyPc, SameClient
    <2>7. UploadInv(c)'
      BY <2>1, <2>2 DEF UploadInv, PutDone, Uploaded
    <2>8. Private(c)
      BY <2>1 DEF Private, JobMoved, Typed
    <2> QED BY <2>2, <2>3, <2>4, <2>5, <2>6, <2>7, <2>8, PrivateKeeps DEF Kept, Own, CallInv
  <1> QED BY <1>1, <1>2

LEMMA KeepsCall ==
  ASSUME Typed, ClaimInv, FinishedIsComplete, NEW c \in Calls, CallInv(c), CallStep(c)
  PROVE  Kept(c)
  <1>1. CASE EachInterested(c)
    BY <1>1, KeepsInterested DEF Kept, Own
  <1>2. CASE ~EachInterested(c)
    <2>1. Own(c)
      BY <1>2, OwnCall DEF Own
    <2>2. Shape(c)
      BY DEF CallInv
    <2>3. \/ Private(c)
          \/ OthersKept(c) /\ Rest' /\ ClaimInv' /\ FinishedIsComplete'
      BY <1>2, <2>2, PrivateSteps, PublicSteps DEF CallStep
    <2> QED BY <2>1, <2>3, PrivateKeeps DEF Kept
  <1> QED BY <1>1, <1>2

-----------------------------------------------------------------------------
(* The other calls keep what they know: finished records and marks only go *)
(* with a deletion.                                                        *)
LEMMA OtherCalls ==
  ASSUME NEW c \in Calls, NEW d \in Calls \ {c}, CallInv(d), Moved(c), OthersKept(c),
         kind \in Kinds, source \in BOOLEAN, tainted \in BOOLEAN, tainted' \in BOOLEAN,
         source' \in BOOLEAN
  PROVE  CallInv(d)'
  <1>1. call'[d] = call[d] /\ job'[d] = job[d] /\ told'[d] = told[d] /\ sent'[d] = sent[d]
    BY DEF Moved, OthersKept
  <1>2. /\ kind' = kind /\ (source => source') /\ (tainted => tainted')
        /\ ~tainted' => Stored \subseteq Stored' /\ (record # {} => record' # {})
    BY DEF OthersKept
  <1>3. Shape(d)'
    BY <1>1, <1>2 DEF CallInv, Shape
  <1>4. SentInv(d)'
    BY <1>1 DEF CallInv, SentInv, Covered
  <1>5. StoredInv(d)'
    <2>1. SUFFICES ASSUME Sound'
                   PROVE  Covered(d, Stored)' /\ \A p \in Pieces : job'[d][p].at = "have" => p \in Stored'
      BY DEF StoredInv
    <2>2. Sound /\ Stored \subseteq Stored'
      BY <1>2, <2>1 DEF Sound
    <2>3. CoveredBy(call[d], job[d], Stored) /\ \A p \in Pieces : job[d][p].at = "have" => p \in Stored
      BY <2>2 DEF CallInv, StoredInv, Covered
    <2>4. CoveredBy(call[d], job[d], Stored')
      BY <2>2, <2>3 DEF CoveredBy
    <2> QED BY <1>1, <2>2, <2>3, <2>4 DEF Covered
  <1>6. ToldInv(d)'
    BY <1>1, <1>2 DEF CallInv, ToldInv, Sound
  <1>7. UploadInv(d)'
    BY <1>1, <1>2 DEF CallInv, UploadInv, PutDone, Uploaded
  <1> QED BY <1>3, <1>4, <1>5, <1>6, <1>7 DEF CallInv

LEMMA KeptIsEnough ==
  ASSUME IInv, NEW c \in Calls, Kept(c)
  PROVE  IInv'
  <1>1. Typed'
    BY DEF Kept, Own, Moved, Rest, Typed
  <1>2. \A d \in Calls : CallInv(d)'
    <2> SUFFICES ASSUME NEW d \in Calls PROVE CallInv(d)'
      OBVIOUS
    <2>1. CASE d = c
      BY <2>1 DEF Kept, Own
    <2>2. CASE d # c
      <3>1. /\ kind \in Kinds /\ source \in BOOLEAN /\ tainted \in BOOLEAN
            /\ tainted' \in BOOLEAN /\ source' \in BOOLEAN
        BY DEF IInv, Typed, Kept, Rest
      <3>2. CallInv(d) /\ Moved(c) /\ OthersKept(c)
        BY DEF IInv, Kept, Own
      <3> QED BY <2>2, <3>1, <3>2, OtherCalls
    <2> QED BY <2>1, <2>2
  <1> QED BY <1>1, <1>2 DEF Kept, IInv

LEMMA InitIInv ==
  ASSUME Init
  PROVE  IInv
  <1>1. PICK op \in OpChoices : call = [c \in Calls |-> NewCall(op[c])]
    BY DEF Init
  <1>2. ASSUME NEW c \in Calls
        PROVE  /\ call[c] \in CallRecords /\ call[c].pc = "idle" /\ call[c].res = "none"
               /\ call[c].got = {} /\ call[c].part = {}
    <2>1. call[c] = NewCall(op[c]) /\ op[c] \in [op : Ops, content : BOOLEAN, leaves : BOOLEAN]
      BY <1>1, OpsAssumption
    <2>2. 0 \in 0..MaxSchedules
      BY ParametersAssumption
    <2> QED BY <2>1, <2>2 DEF NewCall, CallRecords, Labels
  <1>3. ASSUME NEW c \in Calls
        PROVE  job[c] \in [Pieces -> JobRecords] /\ \A p \in Pieces : job[c][p].at = "none"
    BY ParametersAssumption DEF Init, NoJobs, NoJob, JobRecords, JobStates
  <1>4. Typed
    <2>1. call \in [Calls -> CallRecords]
      BY <1>1, <1>2
    <2>2. job \in [Calls -> [Pieces -> JobRecords]]
      BY <1>3 DEF Init
    <2>3. told \in [Calls -> SUBSET Messages] /\ sent \in [Calls -> SUBSET Pieces]
      BY DEF Init
    <2>4. kind \in Kinds /\ source \in BOOLEAN /\ tainted \in BOOLEAN
      BY KindsAssumption DEF Init
    <2>5. /\ pieces \in [Pieces -> {"none", "started", "stored"}]
          /\ claim \in [Pieces -> Calls \cup {None}] /\ record = {}
      BY DEF Init
    <2> QED BY <2>1, <2>2, <2>3, <2>4, <2>5 DEF Typed
  <1>5. ClaimInv
    BY <1>3, CallsAssumption DEF Init, ClaimInv, Held
  <1>6. FinishedIsComplete
    BY DEF Init, FinishedIsComplete
  <1>7. ASSUME NEW c \in Calls PROVE CallInv(c)
    <2>1. told[c] = {}
      BY DEF Init
    <2>2. Shape(c)
      BY <1>2, <1>3 DEF Shape, ShapeOf, Looping, Serving, Uploading, Busy
    <2>3. SentInv(c) /\ StoredInv(c)
      BY <1>2, <1>3 DEF SentInv, StoredInv, Covered, CoveredBy, Begun, Looping
    <2>4. ToldInv(c) /\ UploadInv(c)
      BY <1>2, <2>1 DEF ToldInv, UploadInv, PutDone, Uploaded
    <2> QED BY <2>2, <2>3, <2>4 DEF CallInv
  <1> QED BY <1>4, <1>5, <1>6, <1>7 DEF IInv

LEMMA NextIInv ==
  ASSUME IInv, [Next]_vars
  PROVE  IInv'
  <1>1. Typed /\ ClaimInv /\ FinishedIsComplete /\ \A c \in Calls : CallInv(c)
    BY DEF IInv
  <1>2. ASSUME NEW c \in Calls, CallStep(c) PROVE IInv'
    <2>1. Kept(c)
      BY <1>1, <1>2, KeepsCall DEF Kept, Own
    <2> QED BY <2>1, KeptIsEnough DEF Kept, Own
  <1>3. ASSUME NEW c \in Calls, NEW p \in Pieces, PieceStep(c, p) PROVE IInv'
    <2>1. Kept(c)
      BY <1>1, <1>3, KeepsPiece DEF Kept, Own
    <2> QED BY <2>1, KeptIsEnough DEF Kept, Own
  <1>4. CASE UNCHANGED vars
    <2>1. Typed' /\ ClaimInv' /\ FinishedIsComplete'
      BY <1>1, <1>4 DEF vars, Typed, ClaimInv, FinishedIsComplete
    <2>2. \A c \in Calls : CallInv(c)'
      BY <1>1, <1>4 DEF vars, CallInv, Shape, SentInv, StoredInv, ToldInv, UploadInv,
          Covered,
          PutDone, Uploaded, Sound, Stored
    <2> QED BY <2>1, <2>2 DEF IInv
  <1> QED BY <1>2, <1>3, <1>4, Steps

LEMMA Inductive == Spec => []IInv
  BY InitIInv, NextIInv, PTL DEF Spec

-----------------------------------------------------------------------------
(* The theorems.                                                           *)

(* The records, claims and calls keep their shape: no round beyond the     *)
(* limit of scheduling, and no download of a piece without a parent left   *)
(* to ask.                                                                 *)
THEOREM TypeCorrect == Spec => []TypeOK
  <1>1. ASSUME IInv PROVE TypeOK
    <2>1. Typed
      BY <1>1 DEF IInv
    <2>2. ASSUME NEW c \in Calls
          PROVE  /\ call[c].op \in Ops /\ call[c].res \in {"none", "ok", "err"}
                 /\ call[c].got \subseteq Pieces /\ call[c].count \in 0..MaxSchedules
                 /\ job[c] \in [Pieces -> [at : JobStates, left : 0..(Parents + 1)]]
      <3>1. call[c] \in CallRecords /\ job[c] \in [Pieces -> JobRecords]
        BY <2>1 DEF Typed
      <3> QED BY <3>1 DEF CallRecords, JobRecords
    <2> QED BY <2>1, <2>2 DEF Typed, TypeOK
  <1> QED BY <1>1, Inductive, PTL

(* download_persistent_task_finished, create_persistent_task_finished and  *)
(* the finished message of a peer: what a record or the scheduler calls    *)
(* finished is held, until a deletion or an import over a running download *)
(* hits the task.                                                          *)
THEOREM FinishedIsAlwaysHeld == Spec => []FinishedIsHeld
  <1>1. ASSUME IInv PROVE FinishedIsHeld
    <2>1. FinishedIsComplete /\ \A c \in Calls : ToldInv(c)
      BY <1>1 DEF IInv, CallInv
    <2> QED BY <2>1 DEF FinishedIsHeld, ToldFinishedIsHeld, ToldInv, Sound, Stored
  <1> QED BY <1>1, Inductive, PTL

(* download() and upload(): a download that succeeds has sent every piece  *)
(* to a client that listened to the end, and an upload that succeeds has   *)
(* its object in the source, its record and its pieces here, and the       *)
(* scheduler knows.                                                        *)
THEOREM SuccessIsAlwaysHonest == Spec => []SuccessIsHonest
  <1>1. ASSUME IInv PROVE SuccessIsHonest
    <2>1. DeliveredWhole
      <3> SUFFICES ASSUME NEW c \in Calls, At(c, "done"), call[c].res = "ok",
                          call[c].op \in {"download", "replicate"}, call[c].listening
                   PROVE  sent[c] = Pieces
        BY DEF DeliveredWhole
      <3>1. SentInv(c) /\ sent[c] \subseteq Pieces
        BY <1>1 DEF IInv, CallInv, Typed
      <3> QED BY <3>1 DEF SentInv, Covered, CoveredBy, At
    <2>2. UploadedIsServed
      <3>1. \A c \in Calls : UploadInv(c)
        BY <1>1 DEF IInv, CallInv
      <3> QED BY <3>1 DEF UploadedIsServed, UploadInv, PutDone, Uploaded, At, Stored
    <2> QED BY <2>1, <2>2 DEF SuccessIsHonest
  <1> QED BY <1>1, Inductive, PTL

(* The guards of the piece downloads: however the calls were cut off, when *)
(* all are over no claim is held and no record is left unfinished.         *)
THEOREM NothingStaysClaimed == Spec => []NothingLeftClaimed
  <1>1. ASSUME IInv PROVE NothingLeftClaimed
    <2> SUFFICES ASSUME \A c \in Calls : At(c, "done"), NEW p \in Pieces
                 PROVE  claim[p] = None /\ pieces[p] # "started"
      BY DEF NothingLeftClaimed
    <2>1. \A c \in Calls : job[c][p].at = "none"
      BY <1>1 DEF IInv, CallInv, Shape, ShapeOf, Looping, At
    <2>2. claim[p] \in Calls \cup {None}
      BY <1>1 DEF IInv, Typed
    <2> QED BY <1>1, <2>1, <2>2 DEF IInv, ClaimInv, Held
  <1> QED BY <1>1, Inductive, PTL
=============================================================================
