------------------------- MODULE TaskDownloadProofs -------------------------
(***************************************************************************)
(* Proofs about TaskDownload for every number of calls, pieces, parents,   *)
(* permits and scheduling rounds, and every set of requests.               *)
(***************************************************************************)
EXTENDS TaskDownload, TLAPS

-----------------------------------------------------------------------------
(* The shape of a call.  Jobs exist only while a loop runs; a loop has not *)
(* made a job for a piece it has yet to visit; a job that fetches from     *)
(* parents has one left; a call that has not begun has obtained nothing    *)
(* and said nothing.                                                       *)

Early == {"idle", "stat", "begin", "refused"}
Looping == {"collect", "permit", "spawn", "join"}

JobsShape(c) ==
    /\ pc[c] \in Looping \/ \A p \in Pieces : job[c][p] = "none"
    /\ pc[c] \in Looping \ {"join"} => \A p \in todo[c] : job[c][p] = "none"
    /\ pc[c] \in {"collect", "permit"} => mode[c] = "parent"
    /\ pc[c] = "spawn" => mode[c] # "parent"
    /\ mode[c] = "parent" => \A p \in Pieces : job[c][p] \in {"ready"} \cup Running => left[c][p] > 0

EarlyShape(c) ==
    pc[c] \in Early => finished[c] = {} /\ partial[c] = {} /\ peer[c] = "none"

Shape(c) == JobsShape(c) /\ EarlyShape(c)

TypeInv == TypeOK /\ \A c \in Calls : Shape(c)

LEMMA TypeInvInit == Init => TypeInv
  <1> SUFFICES ASSUME Init PROVE TypeInv
    OBVIOUS
  <1> USE ParametersAssumption DEF Init
  <1>1. TypeOK
    BY DEF TypeOK, NoRequest, Labels, JobLabels
  <1>2. \A c \in Calls : Shape(c)
    BY DEF Shape, JobsShape, EarlyShape, Looping
  <1> QED BY <1>1, <1>2 DEF TypeInv

Modes == {"local", "in_flight", "parent", "sched_source", "source"}

LEMMA LoopTypes ==
  ASSUME TypeOK, NEW c \in Calls, NEW m \in Modes, NEW S \in SUBSET Pieces, StartLoop(c, m, S)
  PROVE  /\ mode' \in [Calls -> Modes]
         /\ todo' \in [Calls -> SUBSET Pieces]
         /\ partial' \in [Calls -> SUBSET Pieces]
         /\ interrupt' \subseteq Calls
  BY DEF TypeOK, StartLoop, Modes

LEMMA ReleaseTypes ==
  ASSUME TypeOK, NEW S, Release(S)
  PROVE  /\ owner' \in [Pieces -> Calls \cup {NoCall}]
         /\ watch' \in [Calls -> [Pieces -> {"none", "armed", "fired"}]]
  BY DEF TypeOK, Release

Peers == {"none", "registered", "running", "rescheduled", "back_to_source", "finished_empty",
          "finished", "failed"}

LEMMA TypeCall ==
  ASSUME TypeOK, NEW c \in Calls, CallStep(c)
  PROVE  TypeOK'
  <1> USE RequestsAssumption, ParametersAssumption DEF TypeOK, record, store, client, plan,
      loop, jobs, Goto, Tell, Lose, Labels, JobLabels, Running
  <1>1. CASE Stat(c)
    BY <1>1 DEF Stat, download_task_failed
  <1>2. CASE Begin(c)
    BY <1>2 DEF Begin
  <1>3. CASE Lookup(c)
    BY <1>3 DEF Lookup
  <1>4. CASE LocalDone(c)
    BY <1>4 DEF LocalDone
  <1>5. CASE Subscribe(c)
    BY <1>5 DEF Subscribe
  <1>6. CASE InFlight(c)
    BY <1>6 DEF InFlight
  <1>7. CASE Route(c)
    <2>1. CASE StartLoop(c, "source", interested[c])
      BY ZenonT(60), <1>7, <2>1, LoopTypes DEF Route, Modes
    <2>2. CASE UNCHANGED loop
      BY <1>7, <2>2 DEF Route
    <2> QED BY <1>7, <2>1, <2>2 DEF Route
  <1>8. CASE Register(c)
    BY <1>8 DEF Register
  <1>9. CASE TooManySchedules(c)
    BY <1>9 DEF TooManySchedules, Response
  <1>10. CASE EmptyTask(c)
    <2>1. pc' \in [Calls -> Labels]
      BY <1>10 DEF EmptyTask
    <2>2. peer' \in [Calls -> Peers]
      BY <1>10 DEF EmptyTask, Peers
    <2>3. finished' \in [Calls -> SUBSET Pieces]
      BY <1>10 DEF EmptyTask
    <2>4. round' \in [Calls -> 0..(MaxScheduleCount + 1)]
      BY <1>10 DEF EmptyTask, Response
    <2>5. UNCHANGED <<task, stored, owner, req, interested, mode, todo, partial, job, left,
           watch, interrupt, gone, delivered, hit, prefetch, deletes>>
      BY <1>10 DEF EmptyTask, Response
    <2> QED BY <2>1, <2>2, <2>3, <2>4, <2>5 DEF Modes, Peers
  <1>11. CASE NormalTask(c)
    <2>1. pc' \in [Calls -> Labels]
      BY <1>11 DEF NormalTask
    <2>2. peer' \in [Calls -> Peers]
      BY <1>11 DEF NormalTask, Peers
    <2>3. /\ mode' \in [Calls -> Modes]
         /\ todo' \in [Calls -> SUBSET Pieces]
         /\ partial' \in [Calls -> SUBSET Pieces]
         /\ interrupt' \subseteq Calls
      BY <1>11, LoopTypes DEF NormalTask, Modes
    <2>4. round' \in [Calls -> 0..(MaxScheduleCount + 1)]
      BY <1>11 DEF NormalTask, Response
    <2>5. UNCHANGED <<task, stored, owner, req, interested, finished, job, left, watch,
           gone, delivered, hit, prefetch, deletes>>
      BY <1>11 DEF NormalTask, Response
    <2> QED BY <2>1, <2>2, <2>3, <2>4, <2>5 DEF Modes, Peers
  <1>12. CASE NeedBackToSource(c)
    <2>1. pc' \in [Calls -> Labels]
      BY <1>12 DEF NeedBackToSource
    <2>2. peer' \in [Calls -> Peers]
      BY <1>12 DEF NeedBackToSource, Peers
    <2>3. /\ mode' \in [Calls -> Modes]
         /\ todo' \in [Calls -> SUBSET Pieces]
         /\ partial' \in [Calls -> SUBSET Pieces]
         /\ interrupt' \subseteq Calls
      BY <1>12, LoopTypes DEF NeedBackToSource, Modes
    <2>4. round' \in [Calls -> 0..(MaxScheduleCount + 1)]
      BY <1>12 DEF NeedBackToSource, Response
    <2>5. UNCHANGED <<task, stored, owner, req, interested, finished, job, left, watch,
           gone, delivered, hit, prefetch, deletes>>
      BY <1>12 DEF NeedBackToSource, Response
    <2> QED BY <2>1, <2>2, <2>3, <2>4, <2>5 DEF Modes, Peers
  <1>13. CASE StreamEnds(c)
    BY <1>13 DEF StreamEnds
  <1>14. CASE Closed(c)
    BY <1>14 DEF Closed
  <1>15. CASE CollectEnds(c)
    BY <1>15 DEF CollectEnds
  <1>16. CASE Spawn(c)
    <2>1. ASSUME NEW p \in todo[c], job' = [job EXCEPT ![c][p] = "run"],
                 todo' = [todo EXCEPT ![c] = @ \ {p}], UNCHANGED pc
          PROVE  TypeOK'
      BY <1>16, <2>1 DEF Spawn
    <2>2. CASE Goto(c, "join") /\ UNCHANGED <<job, todo>>
      BY <1>16, <2>2 DEF Spawn
    <2> QED BY <1>16, <2>1, <2>2 DEF Spawn
  <1>17. CASE JoinError(c)
    <2>1. pc' \in [Calls -> Labels]
      <3>1. CASE pc' = [pc EXCEPT ![c] = "closing"]
        BY <3>1
      <3>2. CASE pc' = [pc EXCEPT ![c] = "err"]
        BY <3>2
      <3> QED BY <1>17, <3>1, <3>2 DEF JoinError
    <2>2. peer' \in [Calls -> Peers]
      BY <1>17 DEF JoinError, Peers
    <2>3. /\ mode' \in [Calls -> Modes]
         /\ todo' \in [Calls -> SUBSET Pieces]
         /\ partial' \in [Calls -> SUBSET Pieces]
         /\ interrupt' \subseteq Calls
      BY <1>17, LoopTypes DEF JoinError, EndLoop, Modes
    <2>4. /\ owner' \in [Pieces -> Calls \cup {NoCall}]
         /\ watch' \in [Calls -> [Pieces -> {"none", "armed", "fired"}]]
      BY <1>17, ReleaseTypes DEF JoinError, Shutdown
    <2>5. /\ job' \in [Calls -> [Pieces -> JobLabels]]
         /\ left' \in [Calls -> [Pieces -> 0..Parents]]
      BY <1>17 DEF JoinError, Shutdown
    <2>6. UNCHANGED <<task, stored, req, interested, finished, round, gone, delivered, hit,
           prefetch, deletes>>
      BY <1>17 DEF JoinError
    <2> QED BY <2>1, <2>2, <2>3, <2>4, <2>5, <2>6 DEF Modes, Peers
  <1>18. CASE ParentsDone(c)
    <2>1. pc' \in [Calls -> Labels]
      BY <1>18 DEF ParentsDone
    <2>2. peer' \in [Calls -> Peers]
      BY <1>18 DEF ParentsDone, Peers
    <2>3. /\ mode' \in [Calls -> Modes]
         /\ todo' \in [Calls -> SUBSET Pieces]
         /\ partial' \in [Calls -> SUBSET Pieces]
         /\ interrupt' \subseteq Calls
      BY <1>18, LoopTypes DEF ParentsDone, EndLoop, Modes
    <2>4. finished' \in [Calls -> SUBSET Pieces]
      BY <1>18 DEF ParentsDone
    <2>5. UNCHANGED <<task, stored, owner, req, interested, job, left, watch, round, gone,
           delivered, hit, prefetch, deletes>>
      BY <1>18 DEF ParentsDone
    <2> QED BY <2>1, <2>2, <2>3, <2>4, <2>5 DEF Modes, Peers
  <1>19. CASE BackToSourceDone(c)
    BY <1>19 DEF BackToSourceDone, Joined, EndLoop, StartLoop
  <1>20. CASE SourceDone(c)
    BY <1>20 DEF SourceDone, Joined, EndLoop, StartLoop
  <1>21. CASE Settle(c)
    <2>1. pc' \in [Calls -> Labels]
      <3>1. CASE pc' = [pc EXCEPT ![c] = "ok"]
        BY <3>1
      <3>2. CASE pc' = [pc EXCEPT ![c] = "err"]
        BY <3>2
      <3>3. CASE pc' = [pc EXCEPT ![c] = "spawn"]
        BY <3>3
      <3> QED BY <1>21, <3>1, <3>2, <3>3 DEF Settle, FromSource
    <2>2. interested' \in [Calls -> SUBSET Pieces]
      BY <1>21 DEF Settle
    <2>3. /\ mode' \in [Calls -> Modes]
         /\ todo' \in [Calls -> SUBSET Pieces]
         /\ partial' \in [Calls -> SUBSET Pieces]
         /\ interrupt' \subseteq Calls
      <3>1. CASE UNCHANGED loop
        BY <3>1 DEF Modes
      <3>2. CASE FromSource(c)
        <4>1. "source" \in Modes /\ interested'[c] \in SUBSET Pieces
          BY <2>2 DEF Modes
        <4>2. StartLoop(c, "source", interested'[c])
          BY <3>2 DEF FromSource
        <4> QED BY <4>1, <4>2, LoopTypes
      <3> QED BY <1>21, <3>1, <3>2 DEF Settle
    <2>4. UNCHANGED <<task, stored, owner, req, finished, job, left, watch, round, peer,
           gone, delivered, hit, prefetch, deletes>>
      BY <1>21 DEF Settle
    <2> QED BY <2>1, <2>2, <2>3, <2>4 DEF Modes, Peers
  <1>22. CASE Fallback(c)
    <2>1. pc' \in [Calls -> Labels]
      <3>1. CASE pc' = [pc EXCEPT ![c] = "err"]
        BY <3>1
      <3>2. CASE pc' = [pc EXCEPT ![c] = "spawn"]
        BY <3>2
      <3> QED BY <1>22, <3>1, <3>2 DEF Fallback, FromSource
    <2>2. interested' \in [Calls -> SUBSET Pieces]
      BY <1>22 DEF Fallback
    <2>3. /\ mode' \in [Calls -> Modes]
         /\ todo' \in [Calls -> SUBSET Pieces]
         /\ partial' \in [Calls -> SUBSET Pieces]
         /\ interrupt' \subseteq Calls
      BY <1>22, <2>2, LoopTypes DEF Fallback, FromSource, Modes
    <2>4. UNCHANGED <<task, stored, owner, req, finished, job, left, watch, round, peer,
           gone, delivered, hit, prefetch, deletes>>
      BY <1>22 DEF Fallback
    <2> QED BY <2>1, <2>2, <2>3, <2>4 DEF Modes, Peers
  <1>23. CASE FinishOk(c)
    <2>1. pc' \in [Calls -> Labels]
      <3>1. CASE pc' = [pc EXCEPT ![c] = "done"]
        BY <3>1
      <3>2. CASE pc' = [pc EXCEPT ![c] = "failed"]
        BY <3>2
      <3> QED BY <1>23, <3>1, <3>2 DEF FinishOk
    <2>2. task' \subseteq {"known", "sized", "finished", "failed", "prefetched"}
      BY <1>23 DEF FinishOk, download_task_failed
    <2>3. interested' \in [Calls -> SUBSET Pieces]
      BY <1>23 DEF FinishOk, Return
    <2>4. finished' \in [Calls -> SUBSET Pieces]
      BY <1>23 DEF FinishOk, Return
    <2>5. round' \in [Calls -> 0..(MaxScheduleCount + 1)]
      BY <1>23 DEF FinishOk, Return
    <2>6. /\ mode' \in [Calls -> Modes]
         /\ todo' \in [Calls -> SUBSET Pieces]
         /\ partial' \in [Calls -> SUBSET Pieces]
         /\ interrupt' \subseteq Calls
      BY <1>23, LoopTypes DEF FinishOk, Return, EndLoop, Modes
    <2>7. watch' \in [Calls -> [Pieces -> {"none", "armed", "fired"}]]
      BY <1>23 DEF FinishOk, Return
    <2>8. UNCHANGED <<stored, owner, req, job, left, peer, gone, delivered, hit, prefetch,
           deletes>>
      BY <1>23 DEF FinishOk, Return
    <2> QED BY <2>1, <2>2, <2>3, <2>4, <2>5, <2>6, <2>7, <2>8 DEF Modes, Peers
  <1>24. CASE FinishErr(c)
    <2>1. pc' \in [Calls -> Labels]
      BY <1>24 DEF FinishErr
    <2>2. task' \subseteq {"known", "sized", "finished", "failed", "prefetched"}
      BY <1>24 DEF FinishErr, download_task_failed
    <2>3. interested' \in [Calls -> SUBSET Pieces]
      BY <1>24 DEF FinishErr, Return
    <2>4. finished' \in [Calls -> SUBSET Pieces]
      BY <1>24 DEF FinishErr, Return
    <2>5. round' \in [Calls -> 0..(MaxScheduleCount + 1)]
      BY <1>24 DEF FinishErr, Return
    <2>6. /\ mode' \in [Calls -> Modes]
         /\ todo' \in [Calls -> SUBSET Pieces]
         /\ partial' \in [Calls -> SUBSET Pieces]
         /\ interrupt' \subseteq Calls
      BY <1>24, LoopTypes DEF FinishErr, Return, EndLoop, Modes
    <2>7. watch' \in [Calls -> [Pieces -> {"none", "armed", "fired"}]]
      BY <1>24 DEF FinishErr, Return
    <2>8. UNCHANGED <<stored, owner, req, job, left, peer, gone, delivered, hit, prefetch,
           deletes>>
      BY <1>24 DEF FinishErr, Return
    <2> QED BY <2>1, <2>2, <2>3, <2>4, <2>5, <2>6, <2>7, <2>8 DEF Modes, Peers
  <1>25. ASSUME NEW p \in Pieces, LocalPiece(c, p) PROVE TypeOK'
    <2>1. pc' \in [Calls -> Labels]
      <3>1. CASE UNCHANGED pc
        BY <3>1
      <3>2. CASE pc' = [pc EXCEPT ![c] = "err"]
        BY <3>2
      <3> QED BY <1>25, <3>1, <3>2 DEF LocalPiece
    <2>2. delivered' \in [Calls -> SUBSET Pieces]
      <3>1. CASE UNCHANGED delivered
        BY <3>1
      <3>2. CASE delivered' = [delivered EXCEPT ![c] = @ \cup {p}]
        BY <3>2
      <3> QED BY <1>25, <3>1, <3>2 DEF LocalPiece, Deliver
    <2>3. partial' \in [Calls -> SUBSET Pieces]
      <3>1. CASE UNCHANGED partial
        BY <3>1
      <3>2. CASE partial' = [partial EXCEPT ![c] = @ \cup {p}]
        BY <3>2
      <3> QED BY <1>25, <3>1, <3>2 DEF LocalPiece
    <2>4. todo' \in [Calls -> SUBSET Pieces]
      <3>1. CASE UNCHANGED todo
        BY <3>1
      <3>2. CASE todo' = [todo EXCEPT ![c] = @ \ {p}]
        BY <3>2
      <3> QED BY <1>25, <3>1, <3>2 DEF LocalPiece
    <2>5. UNCHANGED <<task, stored, owner, req, interested, finished, mode, job, left,
           watch, interrupt, round, peer, gone, hit, prefetch, deletes>>
      BY <1>25 DEF LocalPiece
    <2> QED BY <2>1, <2>2, <2>3, <2>4, <2>5 DEF Modes, Peers
  <1>26. ASSUME NEW p \in Pieces, Permit(c, p) PROVE TypeOK'
    BY <1>26 DEF Permit
  <1>27. ASSUME NEW p \in Pieces, Join(c, p) PROVE TypeOK'
    BY <1>27 DEF Join
  <1>28. ASSUME NEW p \in Pieces, NEW n \in 1..Parents, Collect(c, p, n) PROVE TypeOK'
    BY <1>28 DEF Collect
  <1> QED BY <1>1, <1>2, <1>3, <1>4, <1>5, <1>6, <1>7, <1>8, <1>9, <1>10, <1>11, <1>12,
      <1>13, <1>14, <1>15, <1>16, <1>17, <1>18, <1>19, <1>20, <1>21, <1>22, <1>23, <1>24,
      <1>25, <1>26, <1>27, <1>28 DEF CallStep

LEMMA TypeJob ==
  ASSUME TypeOK, NEW c \in Calls, NEW p \in Pieces, JobsShape(c), JobStep(c, p)
  PROVE  TypeOK'
  <1> USE ParametersAssumption DEF TypeOK, record, store, client, plan, loop, jobs, Goto,
      Labels, JobLabels, Running
  <1>1. CASE JobStart(c, p)
    <2>1. owner' \in [Pieces -> Calls \cup {NoCall}]
      BY ZenonT(60), <1>1 DEF JobStart
    <2>2. job' \in [Calls -> [Pieces -> JobLabels]]
      <3>1. CASE job' = [job EXCEPT ![c][p] = "got"]
        BY <3>1
      <3>2. CASE job' = [job EXCEPT ![c][p] = "own"]
        BY <3>2
      <3> QED BY <1>1, <3>1, <3>2 DEF JobStart
    <2>3. UNCHANGED <<task, stored, pc, req, interested, finished, mode, todo, partial,
           left, watch, interrupt, round, peer, gone, delivered, hit, prefetch, deletes>>
      BY <1>1 DEF JobStart
    <2> QED BY <2>1, <2>2, <2>3 DEF Modes, Peers
  <1>2. CASE JobStore(c, p)
    BY <1>2 DEF JobStore
  <1>3. CASE JobNotify(c, p)
    BY <1>3 DEF JobNotify, Release
  <1>4. CASE JobFail(c, p)
    <2>1. /\ owner' \in [Pieces -> Calls \cup {NoCall}]
         /\ watch' \in [Calls -> [Pieces -> {"none", "armed", "fired"}]]
      BY <1>4, ReleaseTypes DEF JobFail
    <2>2. left' \in [Calls -> [Pieces -> 0..Parents]]
      <3>1. CASE UNCHANGED left
        BY <3>1, <1>4 DEF JobFail, JobsShape
      <3>2. CASE mode[c] = "parent" /\ left' = [left EXCEPT ![c][p] = @ - 1]
        BY <3>2, <1>4 DEF JobFail, JobsShape
      <3> QED BY <1>4, <3>1, <3>2 DEF JobFail
    <2>3. job' \in [Calls -> [Pieces -> JobLabels]]
      <3>1. CASE job' = [job EXCEPT ![c][p] = "run"]
        BY <3>1
      <3>2. CASE job' = [job EXCEPT ![c][p] = "exhausted"]
        BY <3>2
      <3>3. CASE job' = [job EXCEPT ![c][p] = "backend_error"]
        BY <3>3
      <3>4. CASE job' = [job EXCEPT ![c][p] = "lost"]
        BY <3>4
      <3> QED BY <1>4, <3>1, <3>2, <3>3, <3>4 DEF JobFail
    <2>4. UNCHANGED <<task, stored, pc, req, interested, finished, mode, todo, partial,
           interrupt, round, peer, gone, delivered, hit, prefetch, deletes>>
      BY <1>4 DEF JobFail
    <2> QED BY <2>1, <2>2, <2>3, <2>4 DEF Modes, Peers
  <1>5. CASE JobDeliver(c, p)
    <2>1. delivered' \in [Calls -> SUBSET Pieces]
      <3>1. CASE UNCHANGED delivered
        BY <3>1
      <3>2. CASE delivered' = [delivered EXCEPT ![c] = @ \cup {p}]
        BY <3>2
      <3> QED BY <1>5, <3>1, <3>2 DEF JobDeliver, Deliver
    <2>2. job' \in [Calls -> [Pieces -> JobLabels]]
      <3>1. CASE job' = [job EXCEPT ![c][p] = "ok"]
        BY <3>1
      <3>2. CASE job' = [job EXCEPT ![c][p] = "sent"]
        BY <3>2
      <3>3. CASE job' = [job EXCEPT ![c][p] = "lost"]
        BY <3>3
      <3> QED BY <1>5, <3>1, <3>2, <3>3 DEF JobDeliver
    <2>3. interrupt' \subseteq Calls
      BY <1>5 DEF JobDeliver
    <2>4. UNCHANGED <<task, stored, owner, pc, req, interested, finished, mode, todo,
           partial, left, watch, round, peer, gone, hit, prefetch, deletes>>
      BY <1>5 DEF JobDeliver
    <2> QED BY <2>1, <2>2, <2>3, <2>4 DEF Modes, Peers
  <1>6. CASE JobReport(c, p)
    BY <1>6 DEF JobReport
  <1> QED BY <1>1, <1>2, <1>3, <1>4, <1>5, <1>6 DEF JobStep

LEMMA TypePrepare ==
  ASSUME TypeOK, NEW c \in Calls, NEW r \in [range : SUBSET Pieces, opts : SUBSET Options],
         Prepare(c, r), prefetch' \in [Calls -> {"none", "due", "call", "done"} \cup Calls]
  PROVE  TypeOK'
  BY ZenonT(60) DEF Prepare, TypeOK, store, client, plan, loop, jobs, Goto, Labels

LEMMA TypeNext == TypeInv /\ [Next]_vars => TypeOK'
  <1> SUFFICES ASSUME TypeInv, [Next]_vars PROVE TypeOK'
    OBVIOUS
  <1> USE DEF TypeInv
  <1>1. ASSUME NEW c \in Calls, Accept(c) PROVE TypeOK'
    BY <1>1, TypePrepare, RequestsAssumption DEF Accept, TypeOK
  <1>2. ASSUME NEW c \in Calls, PrefetchStep(c) PROVE TypeOK'
    <2>1. ASSUME NEW d \in Calls, PrefetchCall(c, d) PROVE TypeOK'
      <3>1. PrefetchRequest(req[c]) \in [range : SUBSET Pieces, opts : SUBSET Options]
        BY DEF TypeOK, PrefetchRequest, Options
      <3>2. prefetch' \in [Calls -> {"none", "due", "call", "done"} \cup Calls]
        BY <2>1 DEF PrefetchCall, TypeOK
      <3> QED BY <2>1, <3>1, <3>2, TypePrepare DEF PrefetchCall
    <2>2. CASE PrefetchStarted(c)
      BY <2>2 DEF PrefetchStarted, TypeOK, store, client, plan, loop, jobs
    <2>3. CASE PrefetchReturns(c)
      <3>1. task' \subseteq {"known", "sized", "finished", "failed", "prefetched"}
        BY <2>3 DEF PrefetchReturns, prefetch_task_failed, TypeOK
      <3> QED BY <2>3, <3>1 DEF PrefetchReturns, TypeOK, store, client, plan, loop, jobs
    <2> QED BY <1>2, <2>1, <2>2, <2>3 DEF PrefetchStep
  <1>3. ASSUME NEW c \in Calls, Refuse(c) PROVE TypeOK'
    BY <1>3 DEF Refuse, download_task_failed, TypeOK, store, client, plan, loop, jobs, Goto, Labels
  <1>4. ASSUME NEW c \in Calls, ClientLeaves(c) PROVE TypeOK'
    BY <1>4 DEF ClientLeaves, TypeOK, record, store, plan, loop, jobs
  <1>5. CASE Delete
    BY <1>5, ParametersAssumption DEF Delete, TypeOK, client, plan, loop, jobs
  <1>6. CASE UNCHANGED vars
    BY <1>6 DEF vars, TypeOK
  <1> QED BY <1>1, <1>2, <1>3, <1>4, <1>5, <1>6, TypeCall, TypeJob DEF Next, Shape

-----------------------------------------------------------------------------
(* A step of one call leaves the others' own state alone.                  *)

Same(d) ==
    /\ pc'[d] = pc[d] /\ req'[d] = req[d] /\ peer'[d] = peer[d]
    /\ interested'[d] = interested[d] /\ finished'[d] = finished[d]
    /\ mode'[d] = mode[d] /\ todo'[d] = todo[d] /\ partial'[d] = partial[d]
    /\ job'[d] = job[d] /\ left'[d] = left[d] /\ delivered'[d] = delivered[d]

LEMMA OthersCall ==
  ASSUME TypeOK, NEW c \in Calls, CallStep(c), NEW d \in Calls, d # c
  PROVE  Same(d)
  <1> USE DEF TypeOK, Same, record, store, client, plan, loop, jobs, Goto, Tell, Lose
  <1>1. CASE Stat(c)
    BY <1>1 DEF Stat, download_task_failed
  <1>2. CASE Begin(c)
    BY <1>2 DEF Begin
  <1>3. CASE Lookup(c)
    BY <1>3 DEF Lookup
  <1>4. CASE LocalDone(c)
    BY <1>4 DEF LocalDone
  <1>5. CASE Subscribe(c)
    BY <1>5 DEF Subscribe
  <1>6. CASE InFlight(c)
    BY <1>6 DEF InFlight
  <1>7. CASE Route(c)
    BY <1>7 DEF Route, StartLoop
  <1>8. CASE Register(c)
    BY <1>8 DEF Register
  <1>9. CASE TooManySchedules(c)
    BY <1>9 DEF TooManySchedules, Response
  <1>10. CASE EmptyTask(c)
    BY <1>10 DEF EmptyTask, Response
  <1>11. CASE NormalTask(c)
    BY <1>11 DEF NormalTask, Response, StartLoop
  <1>12. CASE NeedBackToSource(c)
    BY <1>12 DEF NeedBackToSource, Response, StartLoop
  <1>13. CASE StreamEnds(c)
    BY <1>13 DEF StreamEnds
  <1>14. CASE Closed(c)
    BY <1>14 DEF Closed
  <1>15. CASE CollectEnds(c)
    BY <1>15 DEF CollectEnds
  <1>16. CASE Spawn(c)
    BY <1>16 DEF Spawn
  <1>17. CASE JoinError(c)
    BY <1>17 DEF JoinError, Shutdown, Release, EndLoop, StartLoop
  <1>18. CASE ParentsDone(c)
    BY <1>18 DEF ParentsDone, Joined, EndLoop, StartLoop
  <1>19. CASE BackToSourceDone(c)
    BY <1>19 DEF BackToSourceDone, Joined, EndLoop, StartLoop
  <1>20. CASE SourceDone(c)
    BY <1>20 DEF SourceDone, Joined, EndLoop, StartLoop
  <1>21. CASE Settle(c)
    BY <1>21 DEF Settle, FromSource, StartLoop
  <1>22. CASE Fallback(c)
    BY <1>22 DEF Fallback, FromSource, StartLoop
  <1>23. CASE FinishOk(c)
    BY <1>23 DEF FinishOk, Return, EndLoop, StartLoop
  <1>24. CASE FinishErr(c)
    BY <1>24 DEF FinishErr, Return, EndLoop, StartLoop, download_task_failed
  <1>25. ASSUME NEW p \in Pieces, LocalPiece(c, p) PROVE Same(d)
    BY <1>25 DEF LocalPiece, Deliver
  <1>26. ASSUME NEW p \in Pieces, Permit(c, p) PROVE Same(d)
    BY <1>26 DEF Permit
  <1>27. ASSUME NEW p \in Pieces, Join(c, p) PROVE Same(d)
    BY <1>27 DEF Join
  <1>28. ASSUME NEW p \in Pieces, NEW n \in 1..Parents, Collect(c, p, n) PROVE Same(d)
    BY <1>28 DEF Collect
  <1> QED BY <1>1, <1>2, <1>3, <1>4, <1>5, <1>6, <1>7, <1>8, <1>9, <1>10, <1>11, <1>12,
      <1>13, <1>14, <1>15, <1>16, <1>17, <1>18, <1>19, <1>20, <1>21, <1>22, <1>23, <1>24,
      <1>25, <1>26, <1>27, <1>28 DEF CallStep

LEMMA OthersJob ==
  ASSUME TypeOK, NEW c \in Calls, NEW p \in Pieces, JobStep(c, p), NEW d \in Calls, d # c
  PROVE  Same(d)
  <1> USE DEF TypeOK, Same, record, store, client, plan, loop, jobs
  <1>1. CASE JobStart(c, p)
    BY <1>1 DEF JobStart
  <1>2. CASE JobStore(c, p)
    BY <1>2 DEF JobStore
  <1>3. CASE JobNotify(c, p)
    BY <1>3 DEF JobNotify, Release
  <1>4. CASE JobFail(c, p)
    BY <1>4 DEF JobFail, Release
  <1>5. CASE JobDeliver(c, p)
    BY <1>5 DEF JobDeliver, Deliver
  <1>6. CASE JobReport(c, p)
    BY <1>6 DEF JobReport
  <1> QED BY <1>1, <1>2, <1>3, <1>4, <1>5, <1>6 DEF JobStep

LEMMA ShapeCall ==
  ASSUME TypeOK, NEW c \in Calls, Shape(c), CallStep(c)
  PROVE  Shape(c)'
  <1> USE DEF TypeOK, Shape, JobsShape, EarlyShape, Early, Looping, Running, record, store, client,
      plan, loop, jobs, Goto, Tell, Lose
  <1>1. CASE Stat(c)
    BY <1>1 DEF Stat, download_task_failed
  <1>2. CASE Begin(c)
    BY <1>2 DEF Begin
  <1>3. CASE Lookup(c)
    BY <1>3 DEF Lookup
  <1>4. CASE LocalDone(c)
    BY <1>4 DEF LocalDone
  <1>5. CASE Subscribe(c)
    BY <1>5 DEF Subscribe
  <1>6. CASE InFlight(c)
    BY <1>6 DEF InFlight
  <1>7. CASE Route(c)
    BY <1>7 DEF Route, StartLoop
  <1>8. CASE Register(c)
    BY <1>8 DEF Register
  <1>9. CASE TooManySchedules(c)
    BY <1>9 DEF TooManySchedules, Response
  <1>10. CASE EmptyTask(c)
    BY <1>10 DEF EmptyTask, Response
  <1>11. CASE NormalTask(c)
    BY <1>11 DEF NormalTask, Response, StartLoop
  <1>12. CASE NeedBackToSource(c)
    BY <1>12 DEF NeedBackToSource, Response, StartLoop
  <1>13. CASE StreamEnds(c)
    BY <1>13 DEF StreamEnds
  <1>14. CASE Closed(c)
    BY <1>14 DEF Closed
  <1>15. CASE CollectEnds(c)
    BY <1>15 DEF CollectEnds
  <1>16. CASE Spawn(c)
    BY <1>16 DEF Spawn
  <1>17. CASE JoinError(c)
    BY <1>17 DEF JoinError, Shutdown, Release, EndLoop, StartLoop
  <1>18. CASE ParentsDone(c)
    BY <1>18 DEF ParentsDone, Joined, EndLoop, StartLoop
  <1>19. CASE BackToSourceDone(c)
    BY <1>19 DEF BackToSourceDone, Joined, EndLoop, StartLoop
  <1>20. CASE SourceDone(c)
    BY <1>20 DEF SourceDone, Joined, EndLoop, StartLoop
  <1>21. CASE Settle(c)
    BY <1>21 DEF Settle, FromSource, StartLoop
  <1>22. CASE Fallback(c)
    BY <1>22 DEF Fallback, FromSource, StartLoop
  <1>23. CASE FinishOk(c)
    BY <1>23 DEF FinishOk, Return, EndLoop, StartLoop
  <1>24. CASE FinishErr(c)
    BY <1>24 DEF FinishErr, Return, EndLoop, StartLoop, download_task_failed
  <1>25. ASSUME NEW p \in Pieces, LocalPiece(c, p) PROVE Shape(c)'
    BY <1>25 DEF LocalPiece, Deliver
  <1>26. ASSUME NEW p \in Pieces, Permit(c, p) PROVE Shape(c)'
    BY <1>26 DEF Permit
  <1>27. ASSUME NEW p \in Pieces, Join(c, p) PROVE Shape(c)'
    BY <1>27 DEF Join
  <1>28. ASSUME NEW p \in Pieces, NEW n \in 1..Parents, Collect(c, p, n) PROVE Shape(c)'
    BY <1>28 DEF Collect
  <1> QED BY <1>1, <1>2, <1>3, <1>4, <1>5, <1>6, <1>7, <1>8, <1>9, <1>10, <1>11, <1>12,
      <1>13, <1>14, <1>15, <1>16, <1>17, <1>18, <1>19, <1>20, <1>21, <1>22, <1>23, <1>24,
      <1>25, <1>26, <1>27, <1>28 DEF CallStep

LEMMA ShapeJob ==
  ASSUME TypeOK, NEW c \in Calls, NEW p \in Pieces, Shape(c), JobStep(c, p)
  PROVE  Shape(c)'
  <1> USE ParametersAssumption DEF TypeOK, Shape, JobsShape, EarlyShape, Early, Looping, Running,
      record, store, client, plan, loop, jobs
  <1>1. CASE JobStart(c, p)
    BY <1>1 DEF JobStart
  <1>2. CASE JobStore(c, p)
    BY <1>2 DEF JobStore
  <1>3. CASE JobNotify(c, p)
    BY <1>3 DEF JobNotify, Release
  <1>4. CASE JobFail(c, p)
    <2>1. /\ job' = [job EXCEPT ![c][p] = job'[c][p]]
          /\ pc[c] \in Looping /\ UNCHANGED <<pc, peer, finished, mode, todo, partial>>
      BY <1>4 DEF JobFail
    <2>2. CASE mode[c] = "parent"
      <3>1. /\ left' = [left EXCEPT ![c][p] = left[c][p] - 1]
            /\ job'[c][p] = IF left[c][p] > 1 THEN "run" ELSE "exhausted"
        BY <1>4, <2>2 DEF JobFail
      <3> QED BY <1>4, <2>1, <2>2, <3>1 DEF JobFail
    <2>3. CASE mode[c] # "parent"
      BY <1>4, <2>1, <2>3 DEF JobFail
    <2> QED BY <2>2, <2>3
  <1>5. CASE JobDeliver(c, p)
    BY <1>5 DEF JobDeliver, Deliver
  <1>6. CASE JobReport(c, p)
    BY <1>6 DEF JobReport
  <1> QED BY <1>1, <1>2, <1>3, <1>4, <1>5, <1>6 DEF JobStep

LEMMA TypeInvNext == TypeInv /\ [Next]_vars => TypeInv'
  <1> SUFFICES ASSUME TypeInv, [Next]_vars PROVE TypeInv'
    OBVIOUS
  <1>1. ASSUME NEW d \in Calls, Same(d) PROVE Shape(d)'
    BY <1>1 DEF TypeInv, TypeOK, Same, Shape, JobsShape, EarlyShape
  <1>2. ASSUME NEW c \in Calls, NEW r, Prepare(c, r) PROVE \A d \in Calls : Shape(d)'
    <2>1. pc[c] = "idle" /\ pc' \in {[pc EXCEPT ![c] = "begin"], [pc EXCEPT ![c] = "stat"]}
      BY <1>2 DEF Prepare, Goto
    <2>2. UNCHANGED <<peer, finished, mode, todo, partial, job, left>>
      BY <1>2 DEF Prepare, plan, loop, jobs
    <2> QED BY <2>1, <2>2 DEF TypeInv, TypeOK, Shape, JobsShape, EarlyShape, Early, Looping
  <1>3. ASSUME NEW c \in Calls, Accept(c) PROVE \A d \in Calls : Shape(d)'
    BY <1>2, <1>3 DEF Accept
  <1>4. ASSUME NEW c \in Calls, PrefetchStep(c) PROVE \A d \in Calls : Shape(d)'
    <2>1. CASE PrefetchStarted(c) \/ PrefetchReturns(c)
      BY <1>1, <2>1 DEF Same, PrefetchStarted, PrefetchReturns, client, plan, loop, jobs
    <2>2. ASSUME NEW d \in Calls, PrefetchCall(c, d) PROVE \A e \in Calls : Shape(e)'
      BY <1>2, <2>2 DEF PrefetchCall
    <2> QED BY <1>4, <2>1, <2>2 DEF PrefetchStep
  <1>5. ASSUME NEW c \in Calls, Refuse(c) PROVE \A d \in Calls : Shape(d)'
    BY <1>5 DEF Refuse, TypeInv, TypeOK, Shape, JobsShape, EarlyShape, Early, Looping,
       store, client, plan, loop, jobs, Goto
  <1>6. ASSUME NEW c \in Calls, CallStep(c) PROVE \A d \in Calls : Shape(d)'
    BY <1>1, <1>6, ShapeCall, OthersCall DEF TypeInv
  <1>7. ASSUME NEW c \in Calls, NEW p \in Pieces, JobStep(c, p)
        PROVE  \A d \in Calls : Shape(d)'
    BY <1>1, <1>7, ShapeJob, OthersJob DEF TypeInv
  <1>8. ASSUME NEW c \in Calls, ClientLeaves(c) PROVE \A d \in Calls : Shape(d)'
    BY <1>1, <1>8 DEF ClientLeaves, Same, plan, loop, jobs
  <1>9. ASSUME Delete \/ UNCHANGED vars PROVE \A d \in Calls : Shape(d)'
    <2>1. \A d \in Calls : Same(d)
      BY <1>9 DEF Delete, vars, Same, client, plan, loop, jobs
    <2> QED BY <1>1, <2>1
  <1>10. \A d \in Calls : Shape(d)'
    BY <1>3, <1>4, <1>5, <1>6, <1>7, <1>8, <1>9 DEF Next
  <1> QED BY <1>10, TypeNext DEF TypeInv

\* Every variable of the calls, the record and the scheduler's view keeps its type; in
\* particular the count of scheduling rounds stays within its limit, and a job never
\* tries more parents than it was given.
THEOREM TypeCorrect == Spec => []TypeOK
  <1>1. TypeInv => TypeOK
    BY DEF TypeInv
  <1> QED BY TypeInvInit, TypeInvNext, <1>1, PTL DEF Spec

-----------------------------------------------------------------------------
(* Owners.  A step of a call keeps its claims, or drops all of them; a     *)
(* step of a job keeps its claim, takes it, or gives it back.              *)

Held == {"own", "notify"}

KeepsClaims(c) ==
    /\ owner' = owner
    /\ \A p \in Pieces : job'[c][p] \in Held <=> job[c][p] \in Held
    /\ \A p \in Pieces : job'[c][p] = "own" => job[c][p] = "own"
DropsClaims(c) ==
    /\ owner' = [p \in Pieces |-> IF owner[p] = c THEN NoCall ELSE owner[p]]
    /\ \A p \in Pieces : job'[c][p] = "none"
TakesClaim(c, p) ==
    /\ job[c][p] = "run" /\ p \notin stored /\ owner[p] = NoCall
    /\ owner' = [owner EXCEPT ![p] = c]
    /\ job' = [job EXCEPT ![c][p] = "own"]
GivesClaim(c, p) ==
    /\ job[c][p] \in Held
    /\ owner' = [owner EXCEPT ![p] = NoCall]
    /\ job'[c][p] \notin Held
    /\ \A q \in Pieces \ {p} : job'[c][q] = job[c][q]

LEMMA ClaimsCall ==
  ASSUME TypeOK, NEW c \in Calls, Shape(c), CallStep(c)
  PROVE  UNCHANGED stored /\ (KeepsClaims(c) \/ DropsClaims(c))
  <1> USE DEF TypeOK, Shape, JobsShape, Looping, KeepsClaims, Held, record, store, client,
      plan, loop, jobs
  <1>1. CASE Stat(c)
    BY <1>1 DEF Stat, download_task_failed
  <1>2. CASE Begin(c)
    BY <1>2 DEF Begin
  <1>3. CASE Lookup(c)
    BY <1>3 DEF Lookup
  <1>4. CASE LocalDone(c)
    BY <1>4 DEF LocalDone
  <1>5. CASE Subscribe(c)
    BY <1>5 DEF Subscribe
  <1>6. CASE InFlight(c)
    BY <1>6 DEF InFlight
  <1>7. CASE Route(c)
    BY <1>7 DEF Route, StartLoop
  <1>8. CASE Register(c)
    BY <1>8 DEF Register
  <1>9. CASE TooManySchedules(c)
    BY <1>9 DEF TooManySchedules, Response
  <1>10. CASE EmptyTask(c)
    BY <1>10 DEF EmptyTask, Response
  <1>11. CASE NormalTask(c)
    BY <1>11 DEF NormalTask, Response, StartLoop
  <1>12. CASE NeedBackToSource(c)
    BY <1>12 DEF NeedBackToSource, Response, StartLoop
  <1>13. CASE StreamEnds(c)
    BY <1>13 DEF StreamEnds
  <1>14. CASE Closed(c)
    BY <1>14 DEF Closed
  <1>15. CASE CollectEnds(c)
    BY <1>15 DEF CollectEnds
  <1>16. CASE Spawn(c)
    BY <1>16 DEF Spawn
  <1>17. CASE JoinError(c)
    BY <1>17 DEF JoinError, Shutdown, Release, DropsClaims
  <1>18. CASE ParentsDone(c)
    BY <1>18 DEF ParentsDone, Joined, EndLoop, StartLoop
  <1>19. CASE BackToSourceDone(c)
    BY <1>19 DEF BackToSourceDone, Joined, EndLoop, StartLoop
  <1>20. CASE SourceDone(c)
    BY <1>20 DEF SourceDone, Joined, EndLoop, StartLoop
  <1>21. CASE Settle(c)
    BY <1>21 DEF Settle, FromSource, StartLoop
  <1>22. CASE Fallback(c)
    BY <1>22 DEF Fallback, FromSource, StartLoop
  <1>23. CASE FinishOk(c)
    BY <1>23 DEF FinishOk, Return, EndLoop, StartLoop
  <1>24. CASE FinishErr(c)
    BY <1>24 DEF FinishErr, Return, EndLoop, StartLoop, download_task_failed
  <1>25. ASSUME NEW p \in Pieces, LocalPiece(c, p) PROVE UNCHANGED stored /\ (KeepsClaims(c) \/ DropsClaims(c))
    BY <1>25 DEF LocalPiece, Deliver
  <1>26. ASSUME NEW p \in Pieces, Permit(c, p) PROVE UNCHANGED stored /\ (KeepsClaims(c) \/ DropsClaims(c))
    BY <1>26 DEF Permit
  <1>27. ASSUME NEW p \in Pieces, Join(c, p) PROVE UNCHANGED stored /\ (KeepsClaims(c) \/ DropsClaims(c))
    BY <1>27 DEF Join
  <1>28. ASSUME NEW p \in Pieces, NEW n \in 1..Parents, Collect(c, p, n) PROVE UNCHANGED stored /\ (KeepsClaims(c) \/ DropsClaims(c))
    BY <1>28 DEF Collect
  <1> QED BY <1>1, <1>2, <1>3, <1>4, <1>5, <1>6, <1>7, <1>8, <1>9, <1>10, <1>11, <1>12,
      <1>13, <1>14, <1>15, <1>16, <1>17, <1>18, <1>19, <1>20, <1>21, <1>22, <1>23, <1>24,
      <1>25, <1>26, <1>27, <1>28 DEF CallStep

LEMMA ClaimsJob ==
  ASSUME TypeOK, NEW c \in Calls, NEW p \in Pieces, JobStep(c, p)
  PROVE  \/ KeepsClaims(c) /\ stored' = stored
         \/ KeepsClaims(c) /\ job[c][p] = "own" /\ job'[c][p] = "notify" /\ stored' = stored \cup {p}
         \/ TakesClaim(c, p) /\ stored' = stored
         \/ GivesClaim(c, p) /\ stored' = stored
  <1> USE DEF TypeOK, KeepsClaims, TakesClaim, GivesClaim, Held, record, store, client, plan,
      loop, jobs
  <1>1. CASE JobStart(c, p)
    BY <1>1 DEF JobStart
  <1>2. CASE JobStore(c, p)
    BY <1>2 DEF JobStore
  <1>3. CASE JobNotify(c, p)
    BY <1>3 DEF JobNotify, Release
  <1>4. CASE JobFail(c, p)
    <2>1. owner' = [owner EXCEPT ![p] = NoCall] /\ stored' = stored /\ job[c][p] = "own"
      BY <1>4 DEF JobFail, Release
    <2>2. \E l \in {"run", "exhausted", "backend_error", "lost"} : job' = [job EXCEPT ![c][p] = l]
      <3>1. CASE mode[c] = "parent"
        BY <1>4, <3>1 DEF JobFail
      <3>2. CASE mode[c] # "parent"
        BY <1>4, <3>2 DEF JobFail
      <3> QED BY <3>1, <3>2
    <2> QED BY <2>1, <2>2
  <1>5. CASE JobDeliver(c, p)
    BY <1>5 DEF JobDeliver, Deliver
  <1>6. CASE JobReport(c, p)
    BY <1>6 DEF JobReport
  <1> QED BY <1>1, <1>2, <1>3, <1>4, <1>5, <1>6 DEF JobStep

ClaimInv ==
    \A p \in Pieces, c \in Calls :
        /\ owner[p] = c <=> job[c][p] \in Held
        /\ job[c][p] = "own" => p \notin stored

LEMMA ClaimInvNext == TypeInv /\ ClaimInv /\ [Next]_vars => ClaimInv'
  <1> SUFFICES ASSUME TypeInv, ClaimInv, [Next]_vars PROVE ClaimInv'
    OBVIOUS
  <1> USE CallsAssumption DEF TypeInv
  <1>1. ASSUME NEW c \in Calls, CallStep(c) PROVE ClaimInv'
    <2>1. \A d \in Calls : d # c => job'[d] = job[d]
      BY <1>1, OthersCall DEF Same
    <2>2. stored' = stored /\ (KeepsClaims(c) \/ DropsClaims(c))
      BY <1>1, ClaimsCall
    <2> USE DEF ClaimInv, Held
    <2>3. CASE KeepsClaims(c)
      <3>1. ASSUME NEW p \in Pieces, NEW d \in Calls
            PROVE  (owner'[p] = d <=> job'[d][p] \in Held) /\ (job'[d][p] = "own" => p \notin stored)
        <4>1. CASE d = c
          BY <2>3, <4>1 DEF KeepsClaims
        <4>2. CASE d # c
          BY <2>1, <2>3, <4>2 DEF KeepsClaims
        <4> QED BY <4>1, <4>2
      <3> QED BY <2>2, <3>1
    <2>4. CASE DropsClaims(c)
      BY <2>1, <2>2, <2>4 DEF DropsClaims, TypeOK
    <2> QED BY <2>2, <2>3, <2>4
  <1>2. ASSUME NEW c \in Calls, NEW p \in Pieces, JobStep(c, p) PROVE ClaimInv'
    <2>1. \A d \in Calls : d # c => job'[d] = job[d]
      BY <1>2, OthersJob DEF Same
    <2> USE DEF ClaimInv, TypeOK, Held
    <2>2. CASE KeepsClaims(c) /\ stored' = stored
      <3>1. \A q \in Pieces : owner'[q] = c <=> job'[c][q] \in Held
        BY <2>2 DEF KeepsClaims
      <3>2. \A q \in Pieces : job'[c][q] = "own" => q \notin stored
        BY <2>2 DEF KeepsClaims
      <3>3. ASSUME NEW q \in Pieces, NEW d \in Calls, d # c
            PROVE  (owner'[q] = d <=> job'[d][q] \in Held) /\ (job'[d][q] = "own" => q \notin stored)
        BY <2>1, <2>2, <3>3 DEF KeepsClaims
      <3> QED BY <2>2, <3>1, <3>2, <3>3
    <2>3. CASE /\ KeepsClaims(c) /\ stored' = stored \cup {p}
               /\ job[c][p] = "own" /\ job'[c][p] = "notify"
      <3>1. \A q \in Pieces : owner'[q] = c <=> job'[c][q] \in Held
        BY <2>3 DEF KeepsClaims
      <3>2. \A q \in Pieces : job'[c][q] = "own" => q \notin stored'
        BY <2>3 DEF KeepsClaims
      <3>3. \A d \in Calls : d # c => job[d][p] # "own"
        BY <2>3
      <3>4. ASSUME NEW q \in Pieces, NEW d \in Calls, d # c
            PROVE  (owner'[q] = d <=> job'[d][q] \in Held) /\ (job'[d][q] = "own" => q \notin stored')
        BY <2>1, <2>3, <3>3, <3>4 DEF KeepsClaims
      <3> QED BY <3>1, <3>2, <3>4
    <2>4. CASE TakesClaim(c, p) /\ stored' = stored
      BY <2>1, <2>4 DEF TakesClaim
    <2>5. CASE GivesClaim(c, p) /\ stored' = stored
      BY <2>1, <2>5 DEF GivesClaim
    <2> QED BY <1>2, <2>2, <2>3, <2>4, <2>5, ClaimsJob
  <1>3. CASE UNCHANGED <<owner, job>> /\ stored' \subseteq stored
    BY <1>3 DEF ClaimInv
  <1>4. ASSUME NEW c \in Calls, PrefetchStep(c) PROVE UNCHANGED <<owner, job, stored>>
    BY <1>4 DEF PrefetchStep, PrefetchStarted, PrefetchReturns, PrefetchCall, Prepare, store, jobs
  <1> QED BY <1>1, <1>2, <1>3, <1>4 DEF Next, Accept, Prepare, Refuse, ClientLeaves, Delete,
      store, jobs, vars

LEMMA ClaimInvInit == Init => ClaimInv
  BY CallsAssumption DEF Init, ClaimInv, Held

LEMMA ClaimInvAlways == Spec => [](TypeInv /\ ClaimInv)
  BY TypeInvInit, TypeInvNext, ClaimInvInit, ClaimInvNext, PTL DEF Spec

\* Whatever fails and wherever a JoinSet is aborted, a piece has an owner exactly while
\* one job of that call fetches it, and a call that has ended has no job left.
THEOREM OwnersAreJobsAlways == Spec => []OwnersAreJobs
  <1>1. TypeInv /\ ClaimInv => OwnersAreJobs
    BY DEF TypeInv, Shape, JobsShape, Looping, ClaimInv, Held, OwnersAreJobs, Ended
  <1> QED BY <1>1, ClaimInvAlways, PTL

-----------------------------------------------------------------------------
(* What a call has obtained.  G stands for the pieces that were delivered  *)
(* to its client, and for the pieces that are stored: in both readings the *)
(* pieces of the range a call no longer asks for, the ones it counts, and  *)
(* the ones its jobs are done with, are in G.                              *)

Begun == {"subscribe", "lookup", "local", "in_flight", "route", "register", "receive",
          "closing", "settle", "fallback"} \cup Looping

Covered(c, G) ==
    /\ pc[c] \in Begun => \A p \in req[c].range : p \in interested[c] \/ p \in G
    /\ \A p \in Pieces : p \in finished[c] \cup partial[c] => p \in G
    /\ \A p \in Pieces : job[c][p] \in {"sent", "ok"} => p \in G
    /\ pc[c] \in {"ok", "done"} => \A p \in req[c].range : p \in G

CoveredNext(c, G) ==
    /\ pc'[c] \in Begun => \A p \in req'[c].range : p \in interested'[c] \/ p \in G
    /\ \A p \in Pieces : p \in finished'[c] \cup partial'[c] => p \in G
    /\ \A p \in Pieces : job'[c][p] \in {"sent", "ok"} => p \in G
    /\ pc'[c] \in {"ok", "done"} => \A p \in req'[c].range : p \in G

LEMMA CoveredCall ==
  ASSUME TypeOK, NEW c \in Calls, Shape(c), CallStep(c), NEW G, NEW H, Covered(c, G),
         \A p \in Pieces : p \in G => p \in H,
         \A p \in Pieces : pc[c] = "local" /\ p \in partial'[c] => p \in H
  PROVE  CoveredNext(c, H)
  <1> USE DEF TypeOK, Shape, JobsShape, EarlyShape, Early, Looping, Begun, Covered,
      CoveredNext, record, store, client, plan, loop, jobs, Goto
  <1>1. CASE Stat(c)
    BY <1>1 DEF Stat, download_task_failed
  <1>2. CASE Begin(c)
    BY <1>2 DEF Begin
  <1>3. CASE Lookup(c)
    BY <1>3 DEF Lookup
  <1>4. CASE LocalDone(c)
    BY <1>4 DEF LocalDone
  <1>5. CASE Subscribe(c)
    BY <1>5 DEF Subscribe
  <1>6. CASE InFlight(c)
    BY <1>6 DEF InFlight
  <1>7. CASE Route(c)
    BY <1>7 DEF Route, StartLoop
  <1>8. CASE Register(c)
    BY <1>8 DEF Register
  <1>9. CASE TooManySchedules(c)
    BY <1>9 DEF TooManySchedules, Response
  <1>10. CASE EmptyTask(c)
    BY <1>10 DEF EmptyTask, Response
  <1>11. CASE NormalTask(c)
    BY <1>11 DEF NormalTask, Response, StartLoop
  <1>12. CASE NeedBackToSource(c)
    BY <1>12 DEF NeedBackToSource, Response, StartLoop
  <1>13. CASE StreamEnds(c)
    BY <1>13 DEF StreamEnds
  <1>14. CASE Closed(c)
    BY <1>14 DEF Closed
  <1>15. CASE CollectEnds(c)
    BY <1>15 DEF CollectEnds
  <1>16. CASE Spawn(c)
    BY <1>16 DEF Spawn
  <1>17. CASE JoinError(c)
    BY <1>17 DEF JoinError, Shutdown, Release, EndLoop, StartLoop
  <1>18. CASE ParentsDone(c)
    BY <1>18 DEF ParentsDone, Joined, EndLoop, StartLoop
  <1>19. CASE BackToSourceDone(c)
    BY <1>19 DEF BackToSourceDone, Joined, EndLoop, StartLoop
  <1>20. CASE SourceDone(c)
    BY <1>20 DEF SourceDone, Joined, EndLoop, StartLoop
  <1>21. CASE Settle(c)
    BY <1>21 DEF Settle, FromSource, StartLoop
  <1>22. CASE Fallback(c)
    BY <1>22 DEF Fallback, FromSource, StartLoop
  <1>23. CASE FinishOk(c)
    BY <1>23 DEF FinishOk, Return, EndLoop, StartLoop
  <1>24. CASE FinishErr(c)
    BY <1>24 DEF FinishErr, Return, EndLoop, StartLoop, download_task_failed
  <1>25. ASSUME NEW p \in Pieces, LocalPiece(c, p) PROVE CoveredNext(c, H)
    BY <1>25 DEF LocalPiece, Deliver
  <1>26. ASSUME NEW p \in Pieces, Permit(c, p) PROVE CoveredNext(c, H)
    BY <1>26 DEF Permit
  <1>27. ASSUME NEW p \in Pieces, Join(c, p) PROVE CoveredNext(c, H)
    BY <1>27 DEF Join
  <1>28. ASSUME NEW p \in Pieces, NEW n \in 1..Parents, Collect(c, p, n) PROVE CoveredNext(c, H)
    BY <1>28 DEF Collect
  <1> QED BY <1>1, <1>2, <1>3, <1>4, <1>5, <1>6, <1>7, <1>8, <1>9, <1>10, <1>11, <1>12,
      <1>13, <1>14, <1>15, <1>16, <1>17, <1>18, <1>19, <1>20, <1>21, <1>22, <1>23, <1>24,
      <1>25, <1>26, <1>27, <1>28 DEF CallStep

LEMMA CoveredJob ==
  ASSUME TypeOK, NEW c \in Calls, NEW p \in Pieces, Shape(c), JobStep(c, p), NEW G, NEW H,
         Covered(c, G), \A q \in Pieces : q \in G => q \in H,
         job[c][p] = "got" /\ job'[c][p] \in {"sent", "ok"} => p \in H
  PROVE  CoveredNext(c, H)
  <1> USE DEF TypeOK, Covered, CoveredNext, record, store, client, plan, loop, jobs
  <1>1. CASE JobStart(c, p)
    BY <1>1 DEF JobStart
  <1>2. CASE JobStore(c, p)
    BY <1>2 DEF JobStore
  <1>3. CASE JobNotify(c, p)
    BY <1>3 DEF JobNotify, Release
  <1>4. CASE JobFail(c, p)
    BY <1>4 DEF JobFail, Release
  <1>5. CASE JobDeliver(c, p)
    BY <1>5 DEF JobDeliver, Deliver
  <1>6. CASE JobReport(c, p)
    BY <1>6 DEF JobReport
  <1> QED BY <1>1, <1>2, <1>3, <1>4, <1>5, <1>6 DEF JobStep

(* Steps that are neither of a call nor of a job, for one call d.          *)
LEMMA OtherSteps ==
  ASSUME TypeInv, [Next]_vars, NEW d \in Calls,
         ~\E c \in Calls : CallStep(c) \/ \E p \in Pieces : JobStep(c, p)
  PROVE  /\ Same(d) \/ /\ pc[d] \in Early /\ pc'[d] \in Early /\ peer'[d] = peer[d]
                       /\ finished'[d] = finished[d] /\ partial'[d] = partial[d]
                       /\ job'[d] = job[d]
         /\ delivered' = delivered
         /\ (stored' = stored /\ deletes' = deletes) \/ deletes' = deletes + 1
  <1> USE DEF TypeInv, TypeOK, Same, Early, Goto, record, store, client, plan, loop, jobs
  <1> DEFINE P == /\ Same(d) \/ /\ pc[d] \in Early /\ pc'[d] \in Early /\ peer'[d] = peer[d]
                                /\ finished'[d] = finished[d] /\ partial'[d] = partial[d]
                                /\ job'[d] = job[d]
                  /\ delivered' = delivered
                  /\ (stored' = stored /\ deletes' = deletes) \/ deletes' = deletes + 1
  <1>1. ASSUME NEW c \in Calls, NEW r, Prepare(c, r) PROVE P
    BY <1>1 DEF Prepare
  <1>2. ASSUME NEW c \in Calls, Refuse(c) PROVE P
    BY <1>2 DEF Refuse
  <1>3. ASSUME NEW c \in Calls, PrefetchStarted(c) \/ PrefetchReturns(c) PROVE P
    BY <1>3 DEF PrefetchStarted, PrefetchReturns
  <1>4. ASSUME NEW c \in Calls, ClientLeaves(c) PROVE P
    BY <1>4 DEF ClientLeaves
  <1>5. ASSUME Delete PROVE P
    BY <1>5 DEF Delete
  <1>6. ASSUME UNCHANGED vars PROVE P
    BY <1>6 DEF vars
  <1> HIDE DEF P
  <1>7. P
    BY <1>1, <1>2, <1>3, <1>4, <1>5, <1>6 DEF Next, Accept, PrefetchStep, PrefetchCall
  <1> QED BY <1>7 DEF P

LEMMA RequestKept ==
  ASSUME NEW c \in Calls, CallStep(c) \/ \E p \in Pieces : JobStep(c, p)
  PROVE  UNCHANGED <<req, deletes>>
  <1> USE DEF record, store, client, plan, loop, jobs
  <1>1. ASSUME CallStep(c) PROVE UNCHANGED <<req, deletes>>
    BY <1>1 DEF CallStep, Stat, Begin, Lookup, LocalDone, Subscribe, InFlight, Route, Register, TooManySchedules, EmptyTask, NormalTask, NeedBackToSource, StreamEnds, Closed, CollectEnds, Spawn, JoinError, ParentsDone, BackToSourceDone, SourceDone, Settle, Fallback, FinishOk, FinishErr, LocalPiece, Permit, Join, Collect, Return, Response
  <1>2. ASSUME NEW p \in Pieces, JobStep(c, p) PROVE UNCHANGED <<req, deletes>>
    BY <1>2 DEF JobStep, JobStart, JobStore, JobNotify, JobFail, JobDeliver, JobReport
  <1> QED BY SMTT(40), <1>1, <1>2

DeliveredInv == \A c \in Calls : Has(c, "content") => Covered(c, delivered[c])

(* Content counts as delivered only after it was handed over.              *)
Delivering(c) ==
    /\ delivered[c] \subseteq delivered'[c]
    /\ pc[c] = "local" => partial'[c] \subseteq partial[c] \cup delivered'[c]

LEMMA DeliveredCall ==
  ASSUME TypeOK, NEW c \in Calls, Has(c, "content"), CallStep(c)
  PROVE  Delivering(c)
  <1> USE DEF TypeOK, Delivering, record, store, client, plan, loop, jobs, Goto
  <1>1. CASE Stat(c)
    BY <1>1 DEF Stat, download_task_failed
  <1>2. CASE Begin(c)
    BY <1>2 DEF Begin
  <1>3. CASE Lookup(c)
    BY <1>3 DEF Lookup
  <1>4. CASE LocalDone(c)
    BY <1>4 DEF LocalDone
  <1>5. CASE Subscribe(c)
    BY <1>5 DEF Subscribe
  <1>6. CASE InFlight(c)
    BY <1>6 DEF InFlight
  <1>7. CASE Route(c)
    BY <1>7 DEF Route, StartLoop
  <1>8. CASE Register(c)
    BY <1>8 DEF Register
  <1>9. CASE TooManySchedules(c)
    BY <1>9 DEF TooManySchedules, Response
  <1>10. CASE EmptyTask(c)
    BY <1>10 DEF EmptyTask, Response
  <1>11. CASE NormalTask(c)
    BY <1>11 DEF NormalTask, Response, StartLoop
  <1>12. CASE NeedBackToSource(c)
    BY <1>12 DEF NeedBackToSource, Response, StartLoop
  <1>13. CASE StreamEnds(c)
    BY <1>13 DEF StreamEnds
  <1>14. CASE Closed(c)
    BY <1>14 DEF Closed
  <1>15. CASE CollectEnds(c)
    BY <1>15 DEF CollectEnds
  <1>16. CASE Spawn(c)
    BY <1>16 DEF Spawn
  <1>17. CASE JoinError(c)
    BY <1>17 DEF JoinError, Shutdown, Release, EndLoop, StartLoop
  <1>18. CASE ParentsDone(c)
    BY <1>18 DEF ParentsDone, Joined, EndLoop, StartLoop
  <1>19. CASE BackToSourceDone(c)
    BY <1>19 DEF BackToSourceDone, Joined, EndLoop, StartLoop
  <1>20. CASE SourceDone(c)
    BY <1>20 DEF SourceDone, Joined, EndLoop, StartLoop
  <1>21. CASE Settle(c)
    BY <1>21 DEF Settle, FromSource, StartLoop
  <1>22. CASE Fallback(c)
    BY <1>22 DEF Fallback, FromSource, StartLoop
  <1>23. CASE FinishOk(c)
    BY <1>23 DEF FinishOk, Return, EndLoop, StartLoop
  <1>24. CASE FinishErr(c)
    BY <1>24 DEF FinishErr, Return, EndLoop, StartLoop, download_task_failed
  <1>25. ASSUME NEW p \in Pieces, LocalPiece(c, p) PROVE Delivering(c)
    BY <1>25 DEF LocalPiece, Deliver
  <1>26. ASSUME NEW p \in Pieces, Permit(c, p) PROVE Delivering(c)
    BY <1>26 DEF Permit
  <1>27. ASSUME NEW p \in Pieces, Join(c, p) PROVE Delivering(c)
    BY <1>27 DEF Join
  <1>28. ASSUME NEW p \in Pieces, NEW n \in 1..Parents, Collect(c, p, n) PROVE Delivering(c)
    BY <1>28 DEF Collect
  <1> QED BY <1>1, <1>2, <1>3, <1>4, <1>5, <1>6, <1>7, <1>8, <1>9, <1>10, <1>11, <1>12,
      <1>13, <1>14, <1>15, <1>16, <1>17, <1>18, <1>19, <1>20, <1>21, <1>22, <1>23, <1>24,
      <1>25, <1>26, <1>27, <1>28 DEF CallStep

LEMMA DeliveredJob ==
  ASSUME TypeOK, NEW c \in Calls, NEW p \in Pieces, Has(c, "content"), JobStep(c, p)
  PROVE  /\ delivered[c] \subseteq delivered'[c]
         /\ job[c][p] = "got" /\ job'[c][p] \in {"sent", "ok"} => p \in delivered'[c]
  <1> USE DEF TypeOK, record, store, client, plan, loop, jobs
  <1>1. CASE JobStart(c, p)
    BY <1>1 DEF JobStart
  <1>2. CASE JobStore(c, p)
    BY <1>2 DEF JobStore
  <1>3. CASE JobNotify(c, p)
    BY <1>3 DEF JobNotify, Release
  <1>4. CASE JobFail(c, p)
    BY <1>4 DEF JobFail, Release
  <1>5. CASE JobDeliver(c, p)
    BY <1>5 DEF JobDeliver, Deliver
  <1>6. CASE JobReport(c, p)
    BY <1>6 DEF JobReport
  <1> QED BY <1>1, <1>2, <1>3, <1>4, <1>5, <1>6 DEF JobStep

LEMMA DeliveredInvNext == TypeInv /\ DeliveredInv /\ [Next]_vars => DeliveredInv'
  <1> SUFFICES ASSUME TypeInv, DeliveredInv, [Next]_vars, NEW d \in Calls, Has(d, "content")'
               PROVE  Covered(d, delivered[d])'
    BY DEF DeliveredInv
  <1> USE DEF TypeInv
  <1>1. ASSUME Same(d) PROVE Covered(d, delivered[d])'
    BY <1>1 DEF DeliveredInv, Covered, Same, Has
  <1>2. ASSUME NEW c \in Calls, CallStep(c) PROVE Covered(d, delivered[d])'
    <2>1. CASE d = c
      <3>1. Has(d, "content") /\ Covered(d, delivered[d])
        BY <1>2, <2>1, RequestKept DEF DeliveredInv, Has
      <3>2. CoveredNext(d, delivered'[d])
        BY <1>2, <2>1, <3>1, DeliveredCall, CoveredCall DEF Covered, Delivering
      <3> QED BY <3>2 DEF Covered, CoveredNext
    <2> QED BY <1>1, <1>2, <2>1, OthersCall
  <1>3. ASSUME NEW c \in Calls, NEW p \in Pieces, JobStep(c, p) PROVE Covered(d, delivered[d])'
    <2>1. CASE d = c
      <3>1. Has(d, "content") /\ Covered(d, delivered[d])
        BY <1>3, <2>1, RequestKept DEF DeliveredInv, Has
      <3>2. CoveredNext(d, delivered'[d])
        BY <1>3, <2>1, <3>1, DeliveredJob, CoveredJob DEF Covered
      <3> QED BY <3>2 DEF Covered, CoveredNext
    <2> QED BY <1>1, <1>3, <2>1, OthersJob
  <1>4. CASE ~\E c \in Calls : CallStep(c) \/ \E p \in Pieces : JobStep(c, p)
    <2>1. CASE Same(d)
      BY <1>1, <2>1
    <2>2. CASE ~Same(d)
      BY <1>4, <2>2, OtherSteps DEF Covered, Begun, Early, Looping, Shape, EarlyShape, JobsShape
    <2> QED BY <2>1, <2>2
  <1> QED BY <1>2, <1>3, <1>4

\* A client that asked for content and whose stream ended well got every piece of its
\* range, for any number of calls, pieces, parents and rounds, and whatever is lost,
\* aborted or deleted on the way.
THEOREM SuccessMeansDelivered == Spec => []OkMeansDelivered
  <1>1. Init => DeliveredInv
    BY DEF Init, DeliveredInv, Covered, Begun, Looping, NoRequest, Has
  <1>2. TypeInv /\ DeliveredInv => OkMeansDelivered
    BY DEF TypeInv, TypeOK, DeliveredInv, Covered, OkMeansDelivered
  <1> QED BY <1>1, <1>2, TypeInvInit, TypeInvNext, DeliveredInvNext, PTL DEF Spec

-----------------------------------------------------------------------------
(* What a call has obtained is stored, until the task is deleted.          *)

StoredMore(c) ==
    /\ \A p \in Pieces : job[c][p] \in {"notify", "got"} => p \in stored
    /\ pc[c] = "local" => todo[c] \subseteq stored
    /\ peer[c] = "finished" => req[c].range \subseteq stored

StoredInv == deletes = 0 => \A c \in Calls : Covered(c, stored) /\ StoredMore(c)

StoredStep(c) ==
    /\ StoredMore(c)'
    /\ pc[c] = "local" => partial'[c] \subseteq partial[c] \cup stored

LEMMA StoredCall ==
  ASSUME TypeOK, NEW c \in Calls, Shape(c), Covered(c, stored), StoredMore(c), CallStep(c)
  PROVE  StoredStep(c)
  <1> USE DEF TypeOK, Shape, JobsShape, EarlyShape, Early, Looping, Begun, Covered,
      StoredMore, StoredStep, record, store, client, plan, loop, jobs, Goto, Tell, Lose
  <1>1. CASE Stat(c)
    BY <1>1 DEF Stat, download_task_failed
  <1>2. CASE Begin(c)
    BY <1>2 DEF Begin
  <1>3. CASE Lookup(c)
    BY <1>3 DEF Lookup
  <1>4. CASE LocalDone(c)
    BY <1>4 DEF LocalDone
  <1>5. CASE Subscribe(c)
    BY <1>5 DEF Subscribe
  <1>6. CASE InFlight(c)
    BY <1>6 DEF InFlight
  <1>7. CASE Route(c)
    BY <1>7 DEF Route, StartLoop
  <1>8. CASE Register(c)
    BY <1>8 DEF Register
  <1>9. CASE TooManySchedules(c)
    BY <1>9 DEF TooManySchedules, Response
  <1>10. CASE EmptyTask(c)
    BY <1>10 DEF EmptyTask, Response
  <1>11. CASE NormalTask(c)
    BY <1>11 DEF NormalTask, Response, StartLoop
  <1>12. CASE NeedBackToSource(c)
    BY <1>12 DEF NeedBackToSource, Response, StartLoop
  <1>13. CASE StreamEnds(c)
    BY <1>13 DEF StreamEnds
  <1>14. CASE Closed(c)
    BY <1>14 DEF Closed
  <1>15. CASE CollectEnds(c)
    BY <1>15 DEF CollectEnds
  <1>16. CASE Spawn(c)
    BY <1>16 DEF Spawn
  <1>17. CASE JoinError(c)
    BY <1>17 DEF JoinError, Shutdown, Release, EndLoop, StartLoop
  <1>18. CASE ParentsDone(c)
    BY <1>18 DEF ParentsDone, Joined, EndLoop, StartLoop
  <1>19. CASE BackToSourceDone(c)
    BY <1>19 DEF BackToSourceDone, Joined, EndLoop, StartLoop
  <1>20. CASE SourceDone(c)
    BY <1>20 DEF SourceDone, Joined, EndLoop, StartLoop
  <1>21. CASE Settle(c)
    BY <1>21 DEF Settle, FromSource, StartLoop
  <1>22. CASE Fallback(c)
    BY <1>22 DEF Fallback, FromSource, StartLoop
  <1>23. CASE FinishOk(c)
    BY <1>23 DEF FinishOk, Return, EndLoop, StartLoop
  <1>24. CASE FinishErr(c)
    BY <1>24 DEF FinishErr, Return, EndLoop, StartLoop, download_task_failed
  <1>25. ASSUME NEW p \in Pieces, LocalPiece(c, p) PROVE StoredStep(c)
    BY <1>25 DEF LocalPiece, Deliver
  <1>26. ASSUME NEW p \in Pieces, Permit(c, p) PROVE StoredStep(c)
    BY <1>26 DEF Permit
  <1>27. ASSUME NEW p \in Pieces, Join(c, p) PROVE StoredStep(c)
    BY <1>27 DEF Join
  <1>28. ASSUME NEW p \in Pieces, NEW n \in 1..Parents, Collect(c, p, n) PROVE StoredStep(c)
    BY <1>28 DEF Collect
  <1> QED BY <1>1, <1>2, <1>3, <1>4, <1>5, <1>6, <1>7, <1>8, <1>9, <1>10, <1>11, <1>12,
      <1>13, <1>14, <1>15, <1>16, <1>17, <1>18, <1>19, <1>20, <1>21, <1>22, <1>23, <1>24,
      <1>25, <1>26, <1>27, <1>28 DEF CallStep

LEMMA StoredJob ==
  ASSUME TypeOK, NEW c \in Calls, NEW p \in Pieces, Covered(c, stored), StoredMore(c),
         Shape(c), JobStep(c, p)
  PROVE  /\ stored \subseteq stored' /\ StoredMore(c)'
         /\ job[c][p] = "got" => p \in stored
  <1> USE DEF TypeOK, Shape, JobsShape, Looping, Covered, StoredMore, record, store, client,
      plan, loop, jobs
  <1>1. CASE JobStart(c, p)
    BY <1>1 DEF JobStart
  <1>2. CASE JobStore(c, p)
    BY <1>2 DEF JobStore
  <1>3. CASE JobNotify(c, p)
    BY <1>3 DEF JobNotify, Release
  <1>4. CASE JobFail(c, p)
    BY <1>4 DEF JobFail, Release
  <1>5. CASE JobDeliver(c, p)
    BY <1>5 DEF JobDeliver, Deliver
  <1>6. CASE JobReport(c, p)
    BY <1>6 DEF JobReport
  <1> QED BY <1>1, <1>2, <1>3, <1>4, <1>5, <1>6 DEF JobStep

LEMMA StoredInvNext == TypeInv /\ StoredInv /\ [Next]_vars => StoredInv'
  <1> SUFFICES ASSUME TypeInv, StoredInv, [Next]_vars, deletes' = 0, NEW d \in Calls
               PROVE  Covered(d, stored)' /\ StoredMore(d)'
    BY DEF StoredInv
  <1> USE DEF TypeInv
  <1>1. ASSUME deletes = 0, Same(d), stored \subseteq stored'
        PROVE  Covered(d, stored)' /\ StoredMore(d)'
    BY <1>1 DEF StoredInv, StoredMore, Covered, Same
  <1>2. ASSUME NEW c \in Calls, CallStep(c) PROVE Covered(d, stored)' /\ StoredMore(d)'
    <2>1. stored' = stored /\ deletes = 0
      BY <1>2, ClaimsCall, RequestKept
    <2>2. CASE d = c
      <3>1. Covered(d, stored) /\ StoredMore(d)
        BY <2>1 DEF StoredInv
      <3>2. StoredStep(d)
        BY <1>2, <2>2, <3>1, StoredCall
      <3>3. CoveredNext(d, stored)
        BY <1>2, <2>2, <3>1, <3>2, CoveredCall DEF StoredStep, Covered
      <3> QED BY <2>1, <3>2, <3>3 DEF Covered, CoveredNext, StoredStep
    <2> QED BY <1>1, <1>2, <2>1, <2>2, OthersCall
  <1>3. ASSUME NEW c \in Calls, NEW p \in Pieces, JobStep(c, p)
        PROVE  Covered(d, stored)' /\ StoredMore(d)'
    <2>1. deletes = 0
      BY <1>3, RequestKept
    <2>2. Covered(c, stored) /\ StoredMore(c)
      BY <2>1 DEF StoredInv
    <2>3. /\ stored \subseteq stored' /\ StoredMore(c)'
          /\ job[c][p] = "got" => p \in stored
      BY <1>3, <2>2, StoredJob
    <2>4. CASE d = c
      <3>1. CoveredNext(c, stored')
        BY <1>3, <2>2, <2>3, CoveredJob
      <3> QED BY <2>3, <2>4, <3>1 DEF Covered, CoveredNext
    <2> QED BY <1>1, <1>3, <2>1, <2>3, <2>4, OthersJob
  <1>4. CASE ~\E c \in Calls : CallStep(c) \/ \E p \in Pieces : JobStep(c, p)
    <2>1. deletes = 0 /\ stored' = stored
      BY <1>4, OtherSteps DEF TypeOK
    <2>2. CASE Same(d)
      BY <1>1, <2>1, <2>2
    <2>3. CASE ~Same(d)
      <3>1. Covered(d, stored) /\ StoredMore(d)
        BY <2>1 DEF StoredInv
      <3> QED BY <1>4, <2>1, <2>3, <3>1, OtherSteps DEF Covered, StoredMore, Begun, Early, Looping,
          Shape, EarlyShape
    <2> QED BY <2>2, <2>3
  <1> QED BY <1>2, <1>3, <1>4

\* A peer that has announced itself finished holds every piece of its range until the task
\* is deleted, whatever mixture of local pieces, parents, other calls and the origin
\* they came from.
THEOREM FinishedPeersHoldTheirRange == Spec => []FinishedPeerHoldsRange
  <1>1. Init => StoredInv
    BY DEF Init, StoredInv, StoredMore, Covered, Begun, Looping
  <1>2. StoredInv => FinishedPeerHoldsRange
    BY DEF StoredInv, StoredMore, FinishedPeerHoldsRange
  <1> QED BY <1>1, <1>2, TypeInvInit, TypeInvNext, StoredInvNext, PTL DEF Spec

-----------------------------------------------------------------------------
(* After the last message of a peer only the origin is left, without the   *)
(* scheduler.                                                              *)

Terminal == {"finished", "failed", "finished_empty"}

PeerShape(c) ==
    peer[c] \in Terminal =>
        \/ pc[c] \in {"closing", "settle", "ok", "err", "done", "failed"}
        \/ pc[c] \in {"spawn", "join"} /\ mode[c] = "source"

PeerStep(c) == PeerShape(c)' /\ (peer[c] \in Terminal => peer'[c] = peer[c])

LEMMA PeerCall ==
  ASSUME TypeOK, NEW c \in Calls, PeerShape(c), CallStep(c)
  PROVE  PeerStep(c)
  <1> USE DEF TypeOK, PeerShape, PeerStep, Terminal, record, store, client, plan, loop, jobs,
      Goto, Tell, Lose
  <1>1. CASE Stat(c)
    BY <1>1 DEF Stat, download_task_failed
  <1>2. CASE Begin(c)
    BY <1>2 DEF Begin
  <1>3. CASE Lookup(c)
    BY <1>3 DEF Lookup
  <1>4. CASE LocalDone(c)
    BY <1>4 DEF LocalDone
  <1>5. CASE Subscribe(c)
    BY <1>5 DEF Subscribe
  <1>6. CASE InFlight(c)
    BY <1>6 DEF InFlight
  <1>7. CASE Route(c)
    BY <1>7 DEF Route, StartLoop
  <1>8. CASE Register(c)
    BY <1>8 DEF Register
  <1>9. CASE TooManySchedules(c)
    BY <1>9 DEF TooManySchedules, Response
  <1>10. CASE EmptyTask(c)
    BY <1>10 DEF EmptyTask, Response
  <1>11. CASE NormalTask(c)
    BY <1>11 DEF NormalTask, Response, StartLoop
  <1>12. CASE NeedBackToSource(c)
    BY <1>12 DEF NeedBackToSource, Response, StartLoop
  <1>13. CASE StreamEnds(c)
    BY <1>13 DEF StreamEnds
  <1>14. CASE Closed(c)
    BY <1>14 DEF Closed
  <1>15. CASE CollectEnds(c)
    BY <1>15 DEF CollectEnds
  <1>16. CASE Spawn(c)
    BY <1>16 DEF Spawn
  <1>17. CASE JoinError(c)
    BY <1>17 DEF JoinError, Shutdown, Release, EndLoop, StartLoop
  <1>18. CASE ParentsDone(c)
    BY <1>18 DEF ParentsDone, Joined, EndLoop, StartLoop
  <1>19. CASE BackToSourceDone(c)
    BY <1>19 DEF BackToSourceDone, Joined, EndLoop, StartLoop
  <1>20. CASE SourceDone(c)
    BY <1>20 DEF SourceDone, Joined, EndLoop, StartLoop
  <1>21. CASE Settle(c)
    BY <1>21 DEF Settle, FromSource, StartLoop
  <1>22. CASE Fallback(c)
    BY <1>22 DEF Fallback, FromSource, StartLoop
  <1>23. CASE FinishOk(c)
    BY <1>23 DEF FinishOk, Return, EndLoop, StartLoop
  <1>24. CASE FinishErr(c)
    BY <1>24 DEF FinishErr, Return, EndLoop, StartLoop, download_task_failed
  <1>25. ASSUME NEW p \in Pieces, LocalPiece(c, p) PROVE PeerStep(c)
    BY <1>25 DEF LocalPiece, Deliver
  <1>26. ASSUME NEW p \in Pieces, Permit(c, p) PROVE PeerStep(c)
    BY <1>26 DEF Permit
  <1>27. ASSUME NEW p \in Pieces, Join(c, p) PROVE PeerStep(c)
    BY <1>27 DEF Join
  <1>28. ASSUME NEW p \in Pieces, NEW n \in 1..Parents, Collect(c, p, n) PROVE PeerStep(c)
    BY <1>28 DEF Collect
  <1> QED BY <1>1, <1>2, <1>3, <1>4, <1>5, <1>6, <1>7, <1>8, <1>9, <1>10, <1>11, <1>12,
      <1>13, <1>14, <1>15, <1>16, <1>17, <1>18, <1>19, <1>20, <1>21, <1>22, <1>23, <1>24,
      <1>25, <1>26, <1>27, <1>28 DEF CallStep

LEMMA PeerJob ==
  ASSUME TypeOK, NEW c \in Calls, NEW p \in Pieces, PeerShape(c), JobStep(c, p)
  PROVE  PeerStep(c)
  <1> USE DEF TypeOK, PeerShape, PeerStep, record, store, client, plan, loop, jobs
  <1>1. CASE JobStart(c, p)
    BY <1>1 DEF JobStart
  <1>2. CASE JobStore(c, p)
    BY <1>2 DEF JobStore
  <1>3. CASE JobNotify(c, p)
    BY <1>3 DEF JobNotify, Release
  <1>4. CASE JobFail(c, p)
    BY <1>4 DEF JobFail, Release
  <1>5. CASE JobDeliver(c, p)
    BY <1>5 DEF JobDeliver, Deliver
  <1>6. CASE JobReport(c, p)
    BY <1>6 DEF JobReport
  <1> QED BY <1>1, <1>2, <1>3, <1>4, <1>5, <1>6 DEF JobStep

PeerInv == \A c \in Calls : PeerShape(c)

LEMMA PeerNext ==
  ASSUME TypeInv, PeerInv, [Next]_vars, NEW d \in Calls
  PROVE  PeerStep(d)
  <1> USE DEF TypeInv
  <1>1. ASSUME Same(d) PROVE PeerStep(d)
    BY <1>1 DEF Same, PeerInv, PeerShape, PeerStep
  <1>2. ASSUME NEW c \in Calls, CallStep(c) PROVE PeerStep(d)
    BY <1>1, <1>2, PeerCall, OthersCall DEF PeerInv
  <1>3. ASSUME NEW c \in Calls, NEW p \in Pieces, JobStep(c, p) PROVE PeerStep(d)
    BY <1>1, <1>3, PeerJob, OthersJob DEF PeerInv
  <1>4. CASE ~\E c \in Calls : CallStep(c) \/ \E p \in Pieces : JobStep(c, p)
    BY <1>1, <1>4, OtherSteps DEF PeerShape, PeerStep, Terminal, Shape, EarlyShape
  <1> QED BY <1>2, <1>3, <1>4

\* Once a peer has told the scheduler that it is finished, failed or empty, it says
\* nothing else, and no job is left that would report a piece under it.
THEOREM TheLastMessageIsLast == Spec => TerminalIsLast
  <1> DEFINE Last == \A c \in Calls : peer[c] \in {"finished", "failed", "finished_empty"} =>
                        /\ peer'[c] = peer[c]
                        /\ \A p \in Pieces : job[c][p] \in Running => mode[c] = "source"
  <1>1. Init => PeerInv
    BY DEF Init, PeerInv, PeerShape, Terminal
  <1>2. TypeInv /\ PeerInv /\ [Next]_vars => PeerInv' /\ Last
    <2> SUFFICES ASSUME TypeInv, PeerInv, [Next]_vars PROVE PeerInv' /\ Last
      OBVIOUS
    <2>1. \A c \in Calls : PeerStep(c)
      BY PeerNext
    <2>2. ASSUME NEW c \in Calls, peer[c] \in Terminal, NEW p \in Pieces, job[c][p] \in Running
          PROVE  mode[c] = "source"
      BY <2>2 DEF TypeInv, PeerInv, PeerShape, Shape, JobsShape, Looping, Running
    <2> QED BY <2>1, <2>2 DEF PeerInv, PeerStep, Terminal
  <1> QED BY <1>1, <1>2, TypeInvInit, TypeInvNext, PTL DEF Spec, TerminalIsLast

-----------------------------------------------------------------------------
(* Refinement: every step does to each piece what PieceStore allows.       *)

PieceStep(p) == Piece(p)!Next \/ UNCHANGED <<owner[p], p \in stored>>

LEMMA PieceSteps ==
  ASSUME TypeInv, ClaimInv, [Next]_vars, NEW p \in Pieces
  PROVE  PieceStep(p)
  <1> USE CallsAssumption DEF TypeInv, TypeOK, PieceStep, Piece!Next, Piece!Begin, Piece!Store,
      Piece!End, Piece!Forget
  <1>1. ASSUME NEW c \in Calls, CallStep(c) PROVE PieceStep(p)
    <2>1. Shape(c)
      OBVIOUS
    <2>2. UNCHANGED stored /\ (KeepsClaims(c) \/ DropsClaims(c))
      BY <1>1, <2>1, ClaimsCall
    <2>3. CASE KeepsClaims(c)
      BY <2>2, <2>3 DEF KeepsClaims
    <2>4. CASE DropsClaims(c)
      <3>1. owner'[p] = IF owner[p] = c THEN NoCall ELSE owner[p]
        BY <2>4 DEF DropsClaims
      <3> QED BY <2>2, <3>1
    <2> QED BY <2>2, <2>3, <2>4
  <1>2. ASSUME NEW c \in Calls, NEW q \in Pieces, JobStep(c, q) PROVE PieceStep(p)
    <2>1. CASE KeepsClaims(c) /\ stored' = stored
      BY <2>1 DEF KeepsClaims
    <2>2. CASE KeepsClaims(c) /\ job[c][q] = "own" /\ stored' = stored \cup {q}
      BY <2>2 DEF KeepsClaims, ClaimInv, Held
    <2>3. CASE TakesClaim(c, q) /\ stored' = stored
      BY <2>3 DEF TakesClaim
    <2>4. CASE GivesClaim(c, q) /\ stored' = stored
      BY <2>4 DEF GivesClaim, ClaimInv
    <2> QED BY <1>2, <2>1, <2>2, <2>3, <2>4, ClaimsJob
  <1>3. CASE UNCHANGED <<owner, stored>>
    BY <1>3
  <1>4. CASE Delete
    BY <1>4 DEF Delete
  <1>5. ASSUME NEW c \in Calls, PrefetchStep(c) PROVE UNCHANGED <<owner, stored>>
    BY <1>5 DEF PrefetchStep, PrefetchStarted, PrefetchReturns, PrefetchCall, Prepare, store
  <1> QED BY <1>1, <1>2, <1>3, <1>4, <1>5 DEF Next, Accept, Prepare, Refuse, ClientLeaves,
      store, vars

\* What the calls do to each piece is what PieceStore promises of it: one owner at a time,
\* begun only while it is not stored, stored by its owner, and forgotten only as a whole.
THEOREM PiecesAreStoredAlways == Spec => PiecesAreStored
  <1>1. Init => \A p \in Pieces : Piece(p)!Init
    BY DEF Init, Piece!Init
  <1>2. TypeInv /\ ClaimInv /\ [Next]_vars =>
          \A p \in Pieces : Piece(p)!Next \/ UNCHANGED <<owner[p], p \in stored>>
    BY PieceSteps DEF PieceStep
  <1> QED BY <1>1, <1>2, ClaimInvAlways, PTL DEF Spec, PiecesAreStored

-----------------------------------------------------------------------------
(* What a finished record remembers.  It was finished by a call that had   *)
(* its whole range, which is never empty; that call has ended, its request *)
(* no longer changes, and the range stays stored until the task is         *)
(* deleted.                                                                *)

Holds(d) == pc[d] # "idle" /\ req[d].range # {} /\ req[d].range \subseteq stored

Remembered == "finished" \in task \/ hit # {}

HitInv ==
    /\ \A c \in Calls : pc[c] = "idle" \/ req[c].range # {}
    /\ deletes = 0 /\ Remembered => \E d \in Calls : Holds(d)

(* A step of call c: the record is marked finished only at the end of a    *)
(* download that succeeded, and only a marked record is reported as a hit. *)
Remembers(c) == pc'[c] # "idle" /\ (Remembered' => Remembered \/ pc[c] = "ok")

LEMMA RemembersCall ==
  ASSUME TypeOK, NEW c \in Calls, CallStep(c)
  PROVE  Remembers(c)
  <1> USE DEF TypeOK, Remembers, Remembered, record, store, client, plan, loop, jobs, Goto
  <1>1. CASE Stat(c)
    BY <1>1 DEF Stat, download_task_failed
  <1>2. CASE Begin(c)
    BY <1>2 DEF Begin
  <1>3. CASE Lookup(c)
    BY <1>3 DEF Lookup
  <1>4. CASE LocalDone(c)
    BY <1>4 DEF LocalDone
  <1>5. CASE Subscribe(c)
    BY <1>5 DEF Subscribe
  <1>6. CASE InFlight(c)
    BY <1>6 DEF InFlight
  <1>7. CASE Route(c)
    BY <1>7 DEF Route, StartLoop
  <1>8. CASE Register(c)
    BY <1>8 DEF Register
  <1>9. CASE TooManySchedules(c)
    BY <1>9 DEF TooManySchedules, Response
  <1>10. CASE EmptyTask(c)
    BY <1>10 DEF EmptyTask, Response
  <1>11. CASE NormalTask(c)
    BY <1>11 DEF NormalTask, Response, StartLoop
  <1>12. CASE NeedBackToSource(c)
    BY <1>12 DEF NeedBackToSource, Response, StartLoop
  <1>13. CASE StreamEnds(c)
    BY <1>13 DEF StreamEnds
  <1>14. CASE Closed(c)
    BY <1>14 DEF Closed
  <1>15. CASE CollectEnds(c)
    BY <1>15 DEF CollectEnds
  <1>16. CASE Spawn(c)
    BY <1>16 DEF Spawn
  <1>17. CASE JoinError(c)
    BY <1>17 DEF JoinError, Shutdown, Release, EndLoop, StartLoop
  <1>18. CASE ParentsDone(c)
    BY <1>18 DEF ParentsDone, Joined, EndLoop, StartLoop
  <1>19. CASE BackToSourceDone(c)
    BY <1>19 DEF BackToSourceDone, Joined, EndLoop, StartLoop
  <1>20. CASE SourceDone(c)
    BY <1>20 DEF SourceDone, Joined, EndLoop, StartLoop
  <1>21. CASE Settle(c)
    BY <1>21 DEF Settle, FromSource, StartLoop
  <1>22. CASE Fallback(c)
    BY <1>22 DEF Fallback, FromSource, StartLoop
  <1>23. CASE FinishOk(c)
    BY <1>23 DEF FinishOk, Return, EndLoop, StartLoop
  <1>24. CASE FinishErr(c)
    BY <1>24 DEF FinishErr, Return, EndLoop, StartLoop, download_task_failed
  <1>25. ASSUME NEW p \in Pieces, LocalPiece(c, p) PROVE Remembers(c)
    BY <1>25 DEF LocalPiece, Deliver
  <1>26. ASSUME NEW p \in Pieces, Permit(c, p) PROVE Remembers(c)
    BY <1>26 DEF Permit
  <1>27. ASSUME NEW p \in Pieces, Join(c, p) PROVE Remembers(c)
    BY <1>27 DEF Join
  <1>28. ASSUME NEW p \in Pieces, NEW n \in 1..Parents, Collect(c, p, n) PROVE Remembers(c)
    BY <1>28 DEF Collect
  <1> QED BY <1>1, <1>2, <1>3, <1>4, <1>5, <1>6, <1>7, <1>8, <1>9, <1>10, <1>11, <1>12,
      <1>13, <1>14, <1>15, <1>16, <1>17, <1>18, <1>19, <1>20, <1>21, <1>22, <1>23, <1>24,
      <1>25, <1>26, <1>27, <1>28 DEF CallStep

(* The requests of calls that have one stay, and new ones are for some piece. *)
LEMMA HitFrame ==
  ASSUME TypeOK, HitInv, stored \subseteq stored', deletes' = 0 => deletes = 0,
         \A d \in Calls : /\ pc[d] # "idle" => pc'[d] # "idle" /\ req'[d] = req[d]
                          /\ pc'[d] = "idle" \/ req'[d].range # {},
         Remembered' => Remembered \/ \E d \in Calls : Holds(d)
  PROVE  HitInv'
  <1>1. \A d \in Calls : Holds(d) => Holds(d)'
    BY DEF Holds
  <1>2. ASSUME deletes' = 0, Remembered' PROVE \E d \in Calls : Holds(d)'
    BY <1>1, <1>2 DEF HitInv
  <1> QED BY <1>2 DEF HitInv

LEMMA HitPrepare ==
  ASSUME TypeOK, HitInv, NEW c \in Calls, NEW r \in [range : (SUBSET Pieces) \ {{}}, opts : SUBSET Options],
         Prepare(c, r)
  PROVE  HitInv'
  <1> USE DEF TypeOK, Prepare, Goto, store
  <1>1. UNCHANGED <<stored, deletes>>
    OBVIOUS
  <1>2. \A d \in Calls : /\ pc[d] # "idle" => pc'[d] # "idle" /\ req'[d] = req[d]
                         /\ pc'[d] = "idle" \/ req'[d].range # {}
    <2>1. pc[c] = "idle" /\ pc'[c] # "idle" /\ req'[c] = r /\ r.range # {}
      OBVIOUS
    <2>2. \A d \in Calls \ {c} : pc'[d] = pc[d] /\ req'[d] = req[d]
      OBVIOUS
    <2> HIDE DEF TypeOK, Prepare
    <2> QED BY <2>1, <2>2 DEF HitInv
  <1>3. Remembered' => Remembered
    BY DEF Remembered
  <1> QED BY <1>1, <1>2, <1>3, HitFrame

LEMMA HitInvNext == TypeInv /\ StoredInv /\ HitInv /\ [Next]_vars => HitInv'
  <1> SUFFICES ASSUME TypeInv, StoredInv, HitInv, [Next]_vars
               PROVE  HitInv'
    OBVIOUS
  <1> USE DEF TypeInv
  <1>1. ASSUME NEW c \in Calls, CallStep(c) PROVE HitInv'
    <2>1. UNCHANGED <<stored, req, deletes>>
      BY <1>1, ClaimsCall, RequestKept
    <2>2. pc'[c] # "idle" /\ (Remembered' => Remembered \/ pc[c] = "ok")
      BY <1>1, RemembersCall DEF Remembers
    <2>3. \A d \in Calls \ {c} : pc'[d] = pc[d]
      BY <1>1, OthersCall DEF Same
    <2>4. pc[c] # "idle"
      BY <1>1 DEF CallStep, Stat, Begin, Lookup, LocalDone, Subscribe, InFlight, Route, Register,
          TooManySchedules, EmptyTask, NormalTask, NeedBackToSource, StreamEnds, Closed,
          CollectEnds, Spawn, JoinError, ParentsDone, BackToSourceDone, SourceDone, Settle,
          Fallback, FinishOk, FinishErr, LocalPiece, Permit, Join, Collect, Response, Joined
    <2>5. deletes = 0 /\ pc[c] = "ok" => Holds(c)
      BY DEF StoredInv, Covered, HitInv, Holds
    <2>6. CASE deletes = 0
      BY <2>1, <2>2, <2>3, <2>4, <2>5, <2>6, HitFrame DEF HitInv
    <2>7. CASE deletes # 0
      BY <2>1, <2>2, <2>3, <2>4, <2>7 DEF HitInv
    <2> QED BY <2>6, <2>7
  <1>2. ASSUME NEW c \in Calls, NEW p \in Pieces, JobStep(c, p) PROVE HitInv'
    <2>1. UNCHANGED <<task, hit, pc, req, deletes>> /\ stored \subseteq stored'
      BY <1>2 DEF JobStep, JobStart, JobStore, JobNotify, JobFail, JobDeliver, JobReport, record,
          store
    <2>2. Remembered' = Remembered
      BY <2>1 DEF Remembered
    <2> QED BY <2>1, <2>2, HitFrame DEF HitInv
  <1>3. ASSUME NEW c \in Calls, Accept(c) PROVE HitInv'
    <2>1. PICK r \in Requests[c] : Prepare(c, r)
      BY <1>3 DEF Accept
    <2>2. r \in [range : (SUBSET Pieces) \ {{}}, opts : SUBSET Options]
      BY <2>1, RequestsAssumption
    <2> QED BY <2>1, <2>2, HitPrepare
  <1>4. ASSUME NEW c \in Calls, NEW d \in Calls, PrefetchCall(c, d) PROVE HitInv'
    <2>1. PrefetchRequest(req[c]) \in [range : (SUBSET Pieces) \ {{}}, opts : SUBSET Options]
      BY PiecesAssumption DEF PrefetchRequest, TypeOK, Options
    <2> QED BY <1>4, <2>1, HitPrepare DEF PrefetchCall
  <1>5. ASSUME NEW c \in Calls, Refuse(c) PROVE HitInv'
    <2>1. UNCHANGED <<req, stored, deletes>> /\ pc[c] = "begin" /\ pc' = [pc EXCEPT ![c] = "refused"]
      BY <1>5 DEF Refuse, Goto, store
    <2>2. Remembered' => Remembered
      BY <1>5 DEF Refuse, Remembered, download_task_failed
    <2> QED BY <2>1, <2>2, HitFrame DEF HitInv, TypeOK
  <1>6. ASSUME NEW c \in Calls, PrefetchStarted(c) \/ PrefetchReturns(c) PROVE HitInv'
    <2>1. UNCHANGED <<req, stored, deletes, pc, hit>>
      BY <1>6 DEF PrefetchStarted, PrefetchReturns, store
    <2>2. "finished" \in task' => "finished" \in task
      BY <1>6 DEF PrefetchStarted, PrefetchReturns, prefetch_task_failed
    <2>3. Remembered' => Remembered
      BY <2>1, <2>2 DEF Remembered
    <2> QED BY <2>1, <2>3, HitFrame DEF HitInv
  <1>7. ASSUME NEW c \in Calls, ClientLeaves(c) PROVE HitInv'
    BY <1>7, HitFrame DEF ClientLeaves, HitInv, Remembered, record, store
  <1>8. CASE Delete
    <2>1. UNCHANGED <<pc, req>> /\ deletes' # 0
      BY <1>8 DEF Delete, TypeOK
    <2> QED BY <2>1 DEF HitInv
  <1>9. CASE UNCHANGED vars
    BY <1>9, HitFrame DEF vars, HitInv, Remembered
  <1> QED BY <1>1, <1>2, <1>3, <1>4, <1>5, <1>6, <1>7, <1>8, <1>9 DEF Next, PrefetchStep

\* As long as everybody asks for the same range and the task is not deleted, a started
\* response that says is_finished is for a range that is in the local storage, for any
\* number of calls, pieces and prefetches.
THEOREM AFinishedTaskIsALocalHit == Spec => []FinishedIsLocalHit
  <1>1. Init => StoredInv /\ HitInv
    BY DEF Init, StoredInv, StoredMore, Covered, Begun, Looping, HitInv, Remembered
  <1>2. TypeInv /\ HitInv => FinishedIsLocalHit
    <2> SUFFICES ASSUME TypeInv, HitInv, deletes = 0, NEW c \in hit,
                        \A e, d \in Calls : req[e].range \in {{}, req[d].range} \/ req[d].range = {}
                 PROVE  req[c].range \subseteq stored
      BY DEF FinishedIsLocalHit
    <2>1. PICK d \in Calls : Holds(d)
      BY DEF HitInv, Remembered
    <2> QED BY <2>1 DEF Holds, TypeInv, TypeOK
  <1> QED BY <1>1, <1>2, TypeInvInit, TypeInvNext, StoredInvNext, HitInvNext, PTL DEF Spec
=============================================================================
