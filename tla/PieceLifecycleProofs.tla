------------------------ MODULE PieceLifecycleProofs ------------------------
(***************************************************************************)
(* Proofs about PieceLifecycle for every number of threads, payloads,      *)
(* blocks, calls and restarts.                                             *)
(***************************************************************************)
EXTENDS PieceLifecycle, TLAPS

LEMMA Assumptions ==
    /\ NoPayload \notin Payloads /\ Hole \notin Payloads
    /\ Downloaders \cap Uploaders = {}
    /\ Transports \subseteq {"urma", "stream", "source"} /\ Transports # {}
    /\ Blocks \in Nat \ {0}
    /\ MaxCalls \in Nat /\ MaxTimeouts \in Nat /\ MaxCrashes \in Nat /\ MaxDeletes \in Nat
  BY ThreadsAssumption, PayloadsAssumption, TransportsAssumption, BlocksAssumption,
     BoundsAssumption

-----------------------------------------------------------------------------
(* Type correctness.  A writer is inside the piece and has a payload.      *)

Writing(t) == pc[t] = "write" => block[t] \in 1..Blocks /\ payload[t] \in Payloads
TypeInv == TypeOK /\ \A t \in Threads : Writing(t)

LEMMA TypeInvInit == Init => TypeInv
  <1> SUFFICES ASSUME Init PROVE TypeInv
    OBVIOUS
  <1> USE Assumptions DEF Init
  <1>1. /\ piece \in {"absent", "started", "finished"} /\ digest \in Payloads \cup {NoPayload}
        /\ notifier \in BOOLEAN /\ file \in BOOLEAN /\ gc \in {"idle", "list", "batch", "content"}
    OBVIOUS
  <1>2. /\ content \in [1..Blocks -> Payloads \cup {Hole}]
        /\ late \subseteq (1..Blocks) \X Payloads
    OBVIOUS
  <1>3. pc \in [Threads -> Labels] /\ \A t \in Threads : Writing(t)
    BY DEF Labels, Writing
  <1>4. handle \in [Threads -> {"none", "live", "woken", "orphan"}]
    OBVIOUS
  <1>5. /\ via \in [Threads -> Transports \cup {"none"}]
        /\ payload \in [Threads -> Payloads \cup {NoPayload}]
    OBVIOUS
  <1>6. block \in [Threads -> 1..(Blocks + 1)]
    OBVIOUS
  <1>7. fd \in [Threads -> {"none", "path", "removed"}] /\ calls \in [Threads -> 0..MaxCalls]
    OBVIOUS
  <1>8. timeouts \in 0..MaxTimeouts /\ crashes \in 0..MaxCrashes /\ deletes \in 0..MaxDeletes
    OBVIOUS
  <1> QED BY <1>1, <1>2, <1>3, <1>4, <1>5, <1>6, <1>7, <1>8 DEF TypeInv, TypeOK

(* A read of the record by a waiter moves only the waiter. *)
LEMMA TypeInvGetPiece ==
  ASSUME TypeInv, NEW t \in Threads, NEW from \in Labels, NEW next \in Labels \ {"write"},
         GetPiece(t, from, next)
  PROVE  TypeInv'
  <1> USE DEF TypeInv, TypeOK, Writing, GetPiece, Goto, Drop, AfterErr, AfterOk
  <1>1. pc' \in [Threads -> Labels] /\ \A u \in Threads : Writing(u)'
    <2>1. {"claim", "idle", "open"} \subseteq Labels \ {"write"}
      BY DEF Labels, ClaimLabels, UploadLabels
    <2>2. PICK l \in Labels \ {"write"} : pc' = [pc EXCEPT ![t] = l]
      BY <2>1
    <2>3. \A u \in Threads : pc'[u] = "write" => u # t /\ pc[u] = "write"
      BY <2>2
    <2>4. \A u \in Threads : u # t => payload'[u] = payload[u] /\ block'[u] = block[u]
      OBVIOUS
    <2> QED BY <2>2, <2>3, <2>4
  <1>2. /\ handle' \in [Threads -> {"none", "live", "woken", "orphan"}]
        /\ payload' \in [Threads -> Payloads \cup {NoPayload}]
    OBVIOUS
  <1> QED BY <1>1, <1>2 DEF db, disk, bounds

(* The end of a call. *)
LEMMA TypeInvReturn ==
  ASSUME TypeInv, NEW t \in Threads, Return(t), pc' = [pc EXCEPT ![t] = "idle"]
  PROVE  /\ pc' \in [Threads -> Labels]
         /\ via' \in [Threads -> Transports \cup {"none"}]
         /\ payload' \in [Threads -> Payloads \cup {NoPayload}]
         /\ block' \in [Threads -> 1..(Blocks + 1)]
         /\ fd' \in [Threads -> {"none", "path", "removed"}]
         /\ \A u \in Threads : Writing(u)'
  <1> USE Assumptions DEF TypeInv, TypeOK, Return
  <1>1. pc' \in [Threads -> Labels]
    BY DEF Labels
  <1>2. /\ via' \in [Threads -> Transports \cup {"none"}]
        /\ payload' \in [Threads -> Payloads \cup {NoPayload}]
    OBVIOUS
  <1>3. block' \in [Threads -> 1..(Blocks + 1)]
    OBVIOUS
  <1>4. fd' \in [Threads -> {"none", "path", "removed"}]
    OBVIOUS
  <1>5. \A u \in Threads : Writing(u)'
    BY DEF Writing
  <1> QED BY <1>1, <1>2, <1>3, <1>4, <1>5

LEMMA TypeInvNotify ==
  ASSUME TypeInv, remove_and_notify
  PROVE  /\ notifier' \in BOOLEAN
         /\ handle' \in [Threads -> {"none", "live", "woken", "orphan"}]
  BY DEF TypeInv, TypeOK, remove_and_notify

LEMMA TypeInvStep ==
  ASSUME TypeInv, NEW t \in Threads, Step(t)
  PROVE  TypeInv'
  <1> USE Assumptions DEF TypeInv, TypeOK, Writing, Goto, Labels, WaitLabels, ClaimLabels,
        OwnerLabels, EntryLabels, DownloadLabels, UploadLabels, AttemptLabels, db, disk, attempt, bounds
  <1>1. CASE Lookup(t)
    BY <1>1, TypeInvGetPiece DEF Lookup
  <1>2. CASE Watch(t)
    BY <1>2 DEF Watch, Grab
  <1>3. CASE Arm(t)
    BY <1>3 DEF Arm
  <1>4. CASE Recheck(t)
    BY <1>4, TypeInvGetPiece DEF Recheck
  <1>5. CASE Notified(t)
    BY <1>5 DEF Notified, Drop
  <1>6. CASE Fallback(t)
    BY <1>6 DEF Fallback, Drop
  <1>7. CASE ExpireGet(t)
    BY ZenonT(60), <1>7 DEF ExpireGet, FailedGet
  <1>8. CASE ExpireDelete(t)
    BY <1>8 DEF ExpireDelete, FailedDelete, DeletePiece
  <1>9. CASE ExpireNotify(t)
    BY <1>9 DEF ExpireNotify, remove_and_notify, AfterErr
  <1>10. CASE AloneGet1(t)
    BY <1>10, TypeInvGetPiece DEF AloneGet1
  <1>11. CASE AloneGet2(t)
    BY <1>11, TypeInvGetPiece DEF AloneGet2
  <1>12. CASE AloneCheck(t)
    BY ZenonT(60), <1>12 DEF AloneCheck
  <1>13. CASE StaleGet(t)
    BY ZenonT(60), <1>13 DEF StaleGet, FailedGet, AfterErr
  <1>14. CASE StaleDelete(t)
    BY <1>14 DEF StaleDelete, FailedDelete, DeletePiece, AfterErr
  <1>15. CASE Claim(t)
    BY <1>15 DEF Claim, Grab
  <1>16. CASE ClaimArm(t)
    BY <1>16 DEF ClaimArm
  <1>17. CASE ClaimWait(t)
    BY <1>17 DEF ClaimWait, Drop
  <1>18. CASE OwnGet(t)
    BY <1>18 DEF OwnGet
  <1>19. CASE OwnRelease(t)
    BY <1>19 DEF OwnRelease, remove_and_notify
  <1>20. CASE OwnPut(t)
    BY <1>20 DEF OwnPut, FirstTransports, PutStarted
  <1>21. CASE OwnError(t)
    BY <1>21 DEF OwnError, remove_and_notify
  <1>22. CASE OpenWrite(t)
    <2>1. PICK p \in Payloads : payload' = [payload EXCEPT ![t] = p]
      BY <1>22 DEF OpenWrite, DownloadFromParent, DownloadFromSource, ReceiveFrom
    <2>2. pc' = [pc EXCEPT ![t] = "write"] /\ block' = [block EXCEPT ![t] = 1]
      BY <1>22 DEF OpenWrite, DownloadFromParent, DownloadFromSource, ReceiveFrom
    <2>3. fd' = [fd EXCEPT ![t] = "path"]
          /\ UNCHANGED <<db, notifier, disk, handle, via, calls, bounds, gc>>
      BY <1>22 DEF OpenWrite, DownloadFromParent, DownloadFromSource, ReceiveFrom
    <2>4. pc' \in [Threads -> Labels] /\ \A u \in Threads : Writing(u)'
      BY <2>1, <2>2
    <2>5. payload' \in [Threads -> Payloads \cup {NoPayload}]
      BY <2>1
    <2>6. block' \in [Threads -> 1..(Blocks + 1)] /\ fd' \in [Threads -> {"none", "path", "removed"}]
      BY <2>2, <2>3
    <2> QED BY <2>3, <2>4, <2>5, <2>6
  <1>23. CASE WriteBlock(t)
    <2>1. pc[t] = "write" /\ block[t] \in 1..Blocks /\ payload[t] \in Payloads
      BY <1>23 DEF WriteBlock
    <2>2. block' = [block EXCEPT ![t] = block[t] + 1]
          /\ UNCHANGED <<db, notifier, file, late, handle, via, payload, fd, calls, bounds, gc>>
      BY <1>23 DEF WriteBlock
    <2>3. block' \in [Threads -> 1..(Blocks + 1)]
      BY <2>1, <2>2
    <2>4. content' \in [1..Blocks -> Payloads \cup {Hole}]
      BY <1>23, <2>1 DEF WriteBlock
    <2>5. pc' \in [Threads -> Labels] /\ \A u \in Threads \ {t} : Writing(u)'
      BY <1>23, <2>2 DEF WriteBlock
    <2>6. Writing(t)'
      BY <1>23, <2>1, <2>2 DEF WriteBlock
    <2> QED BY <2>2, <2>3, <2>4, <2>5, <2>6
  <1>24. CASE Abort(t)
    <2>0. pc' = [pc EXCEPT ![t] = "download"] \/ pc' = [pc EXCEPT ![t] = "fail_get"]
      BY <1>24 DEF Abort
    <2>1. pc' \in [Threads -> Labels]
      BY <2>0
    <2>4. via' \in [Threads -> Transports \cup {"none"}]
      BY <1>24 DEF Abort
    <2>2. late' \subseteq (1..Blocks) \X Payloads
      BY <1>24 DEF Abort, LateWrites
    <2>3. \A u \in Threads : Writing(u)'
      BY <1>24 DEF Abort
    <2> QED BY <1>24, <2>1, <2>2, <2>3, <2>4 DEF Abort
  <1>25. CASE Verify(t)
    BY <1>25 DEF Verify
  <1>26. CASE FinishGet(t)
    BY <1>26 DEF FinishGet
  <1>27. CASE FinishPut(t)
    BY <1>27 DEF FinishPut, PutFinished
  <1>28. CASE FinishNotify(t)
    BY <1>28, TypeInvReturn, TypeInvNotify DEF FinishNotify
  <1>29. CASE FailGet(t)
    BY ZenonT(60), <1>29 DEF FailGet, FailedGet
  <1>30. CASE FailDelete(t)
    BY <1>30 DEF FailDelete, FailedDelete, DeletePiece
  <1>31. CASE FailNotify(t)
    BY <1>31, TypeInvReturn, TypeInvNotify DEF FailNotify
  <1>32. CASE OpenRead(t)
    <2>1. CASE file
      BY <1>32, <2>1 DEF OpenRead
    <2>2. CASE ~file
      BY <1>32, <2>2, TypeInvReturn DEF OpenRead
    <2> QED BY <2>1, <2>2
  <1>33. CASE ReadDone(t)
    BY <1>33, TypeInvReturn DEF ReadDone
  <1> QED BY <1>1, <1>2, <1>3, <1>4, <1>5, <1>6, <1>7, <1>8, <1>9, <1>10, <1>11,
      <1>12, <1>13, <1>14, <1>15, <1>16, <1>17, <1>18, <1>19, <1>20, <1>21, <1>22,
      <1>23, <1>24, <1>25, <1>26, <1>27, <1>28, <1>29, <1>30, <1>31, <1>32, <1>33 DEF
      Step

LEMMA TypeInvNext == TypeInv /\ [Next]_vars => TypeInv'
  <1> SUFFICES ASSUME TypeInv, [Next]_vars PROVE TypeInv'
    OBVIOUS
  <1> USE Assumptions DEF TypeInv, TypeOK, Writing, Labels, WaitLabels, db, disk, attempt, bounds
  <1>1. ASSUME NEW t \in Threads, Begin(t) PROVE TypeInv'
    <2>1. pc' \in [Threads -> Labels] /\ \A u \in Threads : Writing(u)'
      BY <1>1 DEF Begin, Goto
    <2>2. calls' \in [Threads -> 0..MaxCalls]
      BY <1>1 DEF Begin
    <2>3. file' \in BOOLEAN /\ content' \in [1..Blocks -> Payloads \cup {Hole}]
      BY <1>1 DEF Begin
    <2> QED BY <1>1, <2>1, <2>2, <2>3 DEF Begin
  <1>2. ASSUME NEW t \in Threads, Step(t) PROVE TypeInv'
    BY <1>2, TypeInvStep
  <1>3. ASSUME NEW t \in Threads, WaitTimeout(t) PROVE TypeInv'
    BY <1>3 DEF WaitTimeout, Goto, Drop
  <1>4. CASE LateWrite
    BY <1>4 DEF LateWrite
  <1>5. CASE DeleteTask \/ ListPieces \/ DeletePieces \/ DeleteContent
    <2>1. CASE DeleteTask \/ ListPieces
      BY <2>1 DEF DeleteTask, ListPieces
    <2>2. CASE DeletePieces
      BY <2>2 DEF DeletePieces, DeletePiece
    <2>3. CASE DeleteContent
      <3>1. fd' \in [Threads -> {"none", "path", "removed"}]
        BY <2>3 DEF DeleteContent
      <3>2. content' \in [1..Blocks -> Payloads \cup {Hole}]
        BY <2>3 DEF DeleteContent
      <3> QED BY <2>3, <3>1, <3>2 DEF DeleteContent
    <2> QED BY <1>5, <2>1, <2>2, <2>3
  <1>6. CASE Restart
    <2>1. pc' \in [Threads -> Labels] /\ \A u \in Threads : Writing(u)'
      BY <1>6 DEF Restart
    <2>2. handle' \in [Threads -> {"none", "live", "woken", "orphan"}]
      BY <1>6 DEF Restart
    <2>3. /\ via' \in [Threads -> Transports \cup {"none"}]
          /\ payload' \in [Threads -> Payloads \cup {NoPayload}]
      BY <1>6 DEF Restart
    <2>4. block' \in [Threads -> 1..(Blocks + 1)]
      BY <1>6 DEF Restart
    <2>5. fd' \in [Threads -> {"none", "path", "removed"}]
      BY <1>6 DEF Restart
    <2>6. late' \subseteq (1..Blocks) \X Payloads /\ crashes' \in 0..MaxCrashes
      BY <1>6 DEF Restart
    <2> HIDE DEF Writing, Labels, WaitLabels
    <2> QED BY <1>6, <2>1, <2>2, <2>3, <2>4, <2>5, <2>6 DEF Restart
  <1>7. CASE UNCHANGED vars
    BY <1>7 DEF vars
  <1> QED BY <1>1, <1>2, <1>3, <1>4, <1>5, <1>6, <1>7 DEF Next

\* Every variable keeps its type in every behaviour: no step of a call, of the
\* deletion or of a restart leaves the record, the file or a thread half-defined.
THEOREM TypeCorrect == Spec => []TypeOK
  <1>1. Spec => []TypeInv
    BY TypeInvInit, TypeInvNext, PTL DEF Spec
  <1>2. TypeInv => TypeOK
    BY DEF TypeInv
  <1> QED BY <1>1, <1>2, PTL
-----------------------------------------------------------------------------
(* Single flight.  What a step of a call can do to the claim of the piece. *)

Owns(t) == pc[t] \in OwnerLabels

Keeps(t) == notifier' = notifier /\ Owns(t)' = Owns(t)
Claims(t) == ~notifier /\ notifier' /\ ~Owns(t) /\ Owns(t)'
Releases(t) == ~notifier' /\ Owns(t) /\ ~Owns(t)'
Expires(t) == pc[t] = "expire_notify" /\ ~notifier' /\ ~Owns(t)'

LEMMA ClaimStep ==
  ASSUME TypeInv, NEW t \in Threads, Step(t)
  PROVE  /\ \A u \in Threads \ {t} : pc'[u] = pc[u]
         /\ Keeps(t) \/ Claims(t) \/ Releases(t) \/ Expires(t)
         /\ pc'[t] \in ExpireLabels => pc[t] \in ExpireLabels
  <1> USE DEF TypeInv, TypeOK, Goto, Owns, OwnerLabels, EntryLabels, DownloadLabels, ExpireLabels
  <1>1. CASE Lookup(t)
    BY <1>1 DEF Lookup, GetPiece, AfterErr, AfterOk, Keeps
  <1>2. CASE Watch(t)
    BY <1>2 DEF Watch, Keeps
  <1>3. CASE Arm(t)
    BY <1>3 DEF Arm, Keeps
  <1>4. CASE Recheck(t)
    BY <1>4 DEF Recheck, GetPiece, AfterErr, AfterOk, Keeps
  <1>5. CASE Notified(t)
    BY <1>5 DEF Notified, Keeps
  <1>6. CASE Fallback(t)
    BY <1>6 DEF Fallback, Keeps
  <1>7. CASE ExpireGet(t)
    BY <1>7 DEF ExpireGet, FailedGet, Keeps
  <1>8. CASE ExpireDelete(t)
    BY <1>8 DEF ExpireDelete, FailedDelete, Keeps
  <1>9. CASE ExpireNotify(t)
    BY <1>9 DEF ExpireNotify, remove_and_notify, AfterErr, Expires
  <1>10. CASE AloneGet1(t)
    BY <1>10 DEF AloneGet1, GetPiece, AfterErr, AfterOk, Keeps
  <1>11. CASE AloneGet2(t)
    BY <1>11 DEF AloneGet2, GetPiece, AfterErr, AfterOk, Keeps
  <1>12. CASE AloneCheck(t)
    BY <1>12 DEF AloneCheck, Keeps
  <1>13. CASE StaleGet(t)
    BY <1>13 DEF StaleGet, FailedGet, AfterErr, Keeps
  <1>14. CASE StaleDelete(t)
    BY <1>14 DEF StaleDelete, FailedDelete, AfterErr, Keeps
  <1>15. CASE Claim(t)
    <2>1. CASE notifier
      <3>1. pc' = [pc EXCEPT ![t] = "claim_arm"] /\ pc[t] = "claim"
        BY <1>15, <2>1 DEF Claim
      <3>2. notifier' = notifier
        BY <1>15, <2>1, Zenon DEF Claim
      <3> QED BY <3>1, <3>2 DEF Keeps
    <2>2. CASE ~notifier
      <3>1. pc' = [pc EXCEPT ![t] = "own_get"] /\ pc[t] = "claim"
        BY <1>15, <2>2 DEF Claim
      <3>2. ~notifier /\ notifier'
        BY <1>15, <2>2, Zenon DEF Claim
      <3> QED BY <3>1, <3>2 DEF Claims
    <2> QED BY <2>1, <2>2
  <1>16. CASE ClaimArm(t)
    BY <1>16 DEF ClaimArm, Keeps
  <1>17. CASE ClaimWait(t)
    BY <1>17 DEF ClaimWait, Keeps
  <1>18. CASE OwnGet(t)
    BY <1>18 DEF OwnGet, Keeps
  <1>19. CASE OwnRelease(t)
    BY <1>19 DEF OwnRelease, remove_and_notify, Releases
  <1>20. CASE OwnPut(t)
    BY <1>20 DEF OwnPut, FirstTransports, Keeps
  <1>21. CASE OwnError(t)
    BY <1>21 DEF OwnError, remove_and_notify, Releases
  <1>22. CASE OpenWrite(t)
    BY <1>22 DEF OpenWrite, DownloadFromParent, DownloadFromSource,
            ReceiveFrom, Keeps
  <1>23. CASE WriteBlock(t)
    BY <1>23 DEF WriteBlock, Keeps
  <1>24. CASE Abort(t)
    BY <1>24 DEF Abort, Keeps, AttemptLabels
  <1>25. CASE Verify(t)
    BY <1>25 DEF Verify, Keeps
  <1>26. CASE FinishGet(t)
    BY <1>26 DEF FinishGet, Keeps
  <1>27. CASE FinishPut(t)
    BY <1>27 DEF FinishPut, Keeps
  <1>28. CASE FinishNotify(t)
    BY <1>28 DEF FinishNotify, remove_and_notify, Releases
  <1>29. CASE FailGet(t)
    BY <1>29 DEF FailGet, FailedGet, Keeps
  <1>30. CASE FailDelete(t)
    BY <1>30 DEF FailDelete, FailedDelete, Keeps
  <1>31. CASE FailNotify(t)
    BY <1>31 DEF FailNotify, remove_and_notify, Releases
  <1>32. CASE OpenRead(t)
    BY <1>32 DEF OpenRead, Keeps
  <1>33. CASE ReadDone(t)
    BY <1>33 DEF ReadDone, Keeps
  <1> QED BY <1>1, <1>2, <1>3, <1>4, <1>5, <1>6, <1>7, <1>8, <1>9, <1>10, <1>11,
      <1>12, <1>13, <1>14, <1>15, <1>16, <1>17, <1>18, <1>19, <1>20, <1>21, <1>22,
      <1>23, <1>24, <1>25, <1>26, <1>27, <1>28, <1>29, <1>30, <1>31, <1>32, <1>33 DEF
      Step

(* The other steps leave the claim alone; a restart drops all of them. *)
LEMMA ClaimOther ==
  ASSUME TypeInv, [Next]_vars, ~\E t \in Threads : Step(t)
  PROVE  \/ notifier' = notifier /\ \A u \in Threads : Owns(u)' = Owns(u)
         \/ ~notifier' /\ \A u \in Threads : ~Owns(u)'
  <1> USE DEF TypeInv, TypeOK, Goto, Owns, OwnerLabels, EntryLabels, DownloadLabels
  <1>1. ASSUME NEW t \in Threads, Begin(t)
        PROVE  notifier' = notifier /\ \A u \in Threads : Owns(u)' = Owns(u)
    BY <1>1 DEF Begin
  <1>2. ASSUME NEW t \in Threads, WaitTimeout(t)
        PROVE  notifier' = notifier /\ \A u \in Threads : Owns(u)' = Owns(u)
    BY <1>2 DEF WaitTimeout
  <1>3. ASSUME LateWrite \/ DeleteTask \/ ListPieces \/ DeletePieces \/ DeleteContent \/ UNCHANGED vars
        PROVE  notifier' = notifier /\ \A u \in Threads : Owns(u)' = Owns(u)
    BY <1>3 DEF LateWrite, DeleteTask, ListPieces, DeletePieces, DeleteContent, vars
  <1>4. ASSUME Restart PROVE ~notifier' /\ \A u \in Threads : ~Owns(u)'
    BY <1>4 DEF Restart
  <1> QED BY <1>1, <1>2, <1>3, <1>4 DEF Next

\* A claim always has an owner that will give it back: whatever times out, fails, is
\* deleted or restarts, the notifier entry of a piece is never left behind.
THEOREM NoClaimIsLeaked == Spec => []NoOrphanClaim
  <1>1. Init => NoOrphanClaim
    BY DEF Init, NoOrphanClaim
  <1>2. TypeInv /\ NoOrphanClaim /\ [Next]_vars => NoOrphanClaim'
    <2> SUFFICES ASSUME TypeInv, NoOrphanClaim, [Next]_vars PROVE NoOrphanClaim'
      OBVIOUS
    <2> USE DEF NoOrphanClaim, Owners
    <2>1. ASSUME NEW t \in Threads, Step(t) PROVE NoOrphanClaim'
      BY <2>1, ClaimStep DEF Owns, Keeps, Claims, Releases, Expires
    <2>2. CASE ~\E t \in Threads : Step(t)
      BY <2>2, ClaimOther DEF Owns
    <2> QED BY <2>1, <2>2
  <1>3. Spec => []TypeInv
    BY TypeInvInit, TypeInvNext, PTL DEF Spec
  <1> QED BY <1>1, <1>2, <1>3, PTL DEF Spec

-----------------------------------------------------------------------------
(* Without waits that outlast the owner, the entry is there as long as the *)
(* owner is, so a second claimer always finds it.                          *)

ClaimInv ==
    /\ OneOwner
    /\ \A t \in Threads : Owns(t) => notifier
    /\ \A t \in Threads : pc[t] \notin ExpireLabels

LEMMA ClaimInvNext ==
  ASSUME MaxTimeouts = 0, TypeInv, ClaimInv, [Next]_vars
  PROVE  ClaimInv'
  <1> USE DEF ClaimInv, OneOwner, Owners
  <1>1. ASSUME NEW t \in Threads, Step(t) PROVE ClaimInv'
    <2>1. pc[t] # "expire_notify" /\ pc'[t] \notin ExpireLabels
      BY <1>1, ClaimStep DEF ExpireLabels
    <2>2. Keeps(t) \/ Claims(t) \/ Releases(t)
      BY <1>1, <2>1, ClaimStep DEF Expires
    <2>3. \A u \in Threads \ {t} : pc'[u] = pc[u] /\ Owns(u)' = Owns(u)
      BY <1>1, ClaimStep DEF Owns
    <2>4. \A u \in Threads : pc'[u] \notin ExpireLabels
      BY <2>1, <2>3
    <2>5. CASE Keeps(t)
      BY <2>3, <2>4, <2>5 DEF Keeps, Owns
    <2>6. CASE Claims(t)
      BY <2>3, <2>4, <2>6 DEF Claims, Owns
    <2>7. CASE Releases(t)
      BY <2>3, <2>4, <2>7 DEF Releases, Owns
    <2> QED BY <2>2, <2>5, <2>6, <2>7
  <1>2. CASE ~\E t \in Threads : Step(t)
    <2>1. \A t \in Threads : pc'[t] \notin ExpireLabels
      <3> USE <1>2 DEF TypeInv, TypeOK, ExpireLabels, Goto
      <3>1. ASSUME NEW t \in Threads, Begin(t) PROVE \A u \in Threads : pc'[u] \notin ExpireLabels
        BY <3>1 DEF Begin
      <3>2. ASSUME NEW t \in Threads, WaitTimeout(t) PROVE FALSE
        BY <3>2 DEF WaitTimeout
      <3>3. CASE LateWrite \/ DeleteTask \/ ListPieces \/ DeletePieces \/ DeleteContent \/ UNCHANGED vars
        BY <3>3 DEF LateWrite, DeleteTask, ListPieces, DeletePieces, DeleteContent, vars
      <3>4. CASE Restart
        BY <3>4 DEF Restart
      <3> QED BY <3>1, <3>2, <3>3, <3>4 DEF Next
    <2> QED BY <1>2, <2>1, ClaimOther DEF Owns
  <1> QED BY <1>1, <1>2

\* At most one download of the piece runs at a time, for any number of callers,
\* failures, restarts and deletions, as long as no wait outlasts the download it
\* waits for (MaxTimeouts = 0).
THEOREM SingleFlight ==
  ASSUME MaxTimeouts = 0
  PROVE  Spec => []OneOwner
  <1>1. Init => ClaimInv
    BY DEF Init, ClaimInv, OneOwner, Owners, Owns, OwnerLabels, EntryLabels, DownloadLabels,
           ExpireLabels
  <1>2. TypeInv /\ ClaimInv /\ [Next]_vars => ClaimInv'
    BY ClaimInvNext
  <1>3. Spec => []TypeInv
    BY TypeInvInit, TypeInvNext, PTL DEF Spec
  <1>4. ClaimInv => OneOwner
    BY DEF ClaimInv
  <1> QED BY <1>1, <1>2, <1>3, <1>4, PTL DEF Spec
-----------------------------------------------------------------------------
(* The bytes behind a finished record.  Without timed-out waits, deletions *)
(* and writes of dropped downloads that land late, the content changes     *)
(* only under the claim of a download of an unfinished piece.              *)

Unfinished == {"own_put", "download", "write", "verify", "finish_get", "finish_put"}
Complete == {"verify", "finish_get", "finish_put"}

Quiet == gc = "idle"

Written(t) ==
    /\ pc[t] \in Unfinished => piece # "finished"
    /\ pc[t] = "write" =>
         file /\ fd[t] = "path" /\ \A b \in 1..Blocks : b < block[t] => content[b] = payload[t]
    /\ pc[t] \in Complete => file /\ \A b \in 1..Blocks : content[b] = payload[t]

ContentInv == FinishedIntact /\ \A t \in Threads : Written(t)

LEMMA QuietNext ==
  ASSUME MaxDeletes = 0, TypeInv, Quiet, [Next]_vars
  PROVE  Quiet'
  <1> USE Assumptions DEF TypeInv, TypeOK, Quiet
  <1>1. ASSUME NEW t \in Threads, Step(t) PROVE gc' = gc
    BY <1>1 DEF Step, Lookup, Watch, Arm, Recheck, Notified, Fallback, ExpireGet,
          ExpireDelete, ExpireNotify, AloneGet1, AloneGet2, AloneCheck, StaleGet,
          StaleDelete, Claim, ClaimArm, ClaimWait, OwnGet, OwnRelease, OwnPut, OwnError,
          OpenWrite, DownloadFromParent, DownloadFromSource, ReceiveFrom,
          WriteBlock, Abort, Verify, FinishGet, FinishPut, FinishNotify, FailGet,
          FailDelete, FailNotify, OpenRead, ReadDone, GetPiece, FailedGet, FailedDelete
  <1> QED BY <1>1 DEF Next, vars, Begin, WaitTimeout, LateWrite, DeleteTask, ListPieces,
                      DeletePieces, DeleteContent, Restart

(* A step that leaves the record and the file alone and moves no thread into *)
(* a later stage of its download keeps the invariant.                        *)
LEMMA ContentFrame ==
  ASSUME ContentInv, UNCHANGED <<piece, digest, file, content>>,
         \A u \in Threads :
           \/ pc'[u] \notin Unfinished
           \/ pc'[u] = pc[u] /\ fd'[u] = fd[u] /\ block'[u] = block[u] /\ payload'[u] = payload[u]
  PROVE  ContentInv'
  <1>1. FinishedIntact'
    BY DEF ContentInv, FinishedIntact
  <1>2. ASSUME NEW u \in Threads PROVE Written(u)'
    BY <1>2 DEF ContentInv, Written, Unfinished, Complete
  <1> QED BY <1>1, <1>2 DEF ContentInv

(* Forgetting the record, or putting a started one, is always safe. *)
LEMMA ContentErase ==
  ASSUME ContentInv, UNCHANGED <<file, content>>, piece' # "finished",
         \A u \in Threads :
           \/ pc'[u] \notin {"write"} \cup Complete
           \/ pc'[u] = pc[u] /\ fd'[u] = fd[u] /\ block'[u] = block[u] /\ payload'[u] = payload[u]
  PROVE  ContentInv'
  BY DEF ContentInv, FinishedIntact, Written, Complete

LEMMA ContentStep ==
  ASSUME TypeInv, ClaimInv, ContentInv, NEW t \in Threads, Step(t)
  PROVE  ContentInv'
  <1> USE Assumptions DEF Goto, TypeInv, TypeOK, Unfinished
  <1>1. CASE Lookup(t)
    BY <1>1, ContentFrame DEF Lookup, GetPiece, AfterErr, AfterOk, db, disk, attempt
  <1>2. CASE Watch(t)
    BY <1>2, ContentFrame DEF Watch, db, disk, attempt
  <1>3. CASE Arm(t)
    BY <1>3, ContentFrame DEF Arm, db, disk, attempt
  <1>4. CASE Recheck(t)
    BY <1>4, ContentFrame DEF Recheck, GetPiece, AfterErr, AfterOk, db, disk, attempt
  <1>5. CASE Notified(t)
    BY <1>5, ContentFrame DEF Notified, db, disk, attempt
  <1>6. CASE Fallback(t)
    BY <1>6, ContentFrame DEF Fallback, db, disk, attempt
  <1>7. CASE ExpireGet(t)
    BY <1>7, ContentFrame DEF ExpireGet, FailedGet, db, disk, attempt
  <1>8. CASE ExpireDelete(t)
    <2>1. CASE DeletePiece
      BY <1>8, <2>1, ContentErase DEF ExpireDelete, FailedDelete, DeletePiece, AfterErr, disk,
            attempt, Complete
    <2>2. CASE UNCHANGED db
      BY <1>8, <2>2, ContentFrame DEF ExpireDelete, FailedDelete, AfterErr, db, disk, attempt
    <2> QED BY <1>8, <2>1, <2>2 DEF ExpireDelete, FailedDelete
  <1>9. CASE ExpireNotify(t)
    BY <1>9, ContentFrame DEF ExpireNotify, AfterErr, db, disk, attempt
  <1>10. CASE AloneGet1(t)
    BY <1>10, ContentFrame DEF AloneGet1, GetPiece, AfterErr, AfterOk, db, disk,
        attempt
  <1>11. CASE AloneGet2(t)
    BY <1>11, ContentFrame DEF AloneGet2, GetPiece, AfterErr, AfterOk, db, disk,
        attempt
  <1>12. CASE AloneCheck(t)
    BY <1>12, ContentFrame DEF AloneCheck, db, disk, attempt
  <1>13. CASE StaleGet(t)
    BY <1>13, ContentFrame DEF StaleGet, FailedGet, AfterErr, db, disk, attempt
  <1>14. CASE StaleDelete(t)
    <2>1. CASE DeletePiece
      BY <1>14, <2>1, ContentErase DEF StaleDelete, FailedDelete, DeletePiece, AfterErr, disk,
            attempt, Complete
    <2>2. CASE UNCHANGED db
      BY <1>14, <2>2, ContentFrame DEF StaleDelete, FailedDelete, AfterErr, db, disk, attempt
    <2> QED BY <1>14, <2>1, <2>2 DEF StaleDelete, FailedDelete
  <1>15. CASE Claim(t)
    BY <1>15, ContentFrame DEF Claim, db, disk, attempt
  <1>16. CASE ClaimArm(t)
    BY <1>16, ContentFrame DEF ClaimArm, db, disk, attempt
  <1>17. CASE ClaimWait(t)
    BY <1>17, ContentFrame DEF ClaimWait, db, disk, attempt
  <1>18. CASE OwnGet(t)
    <2>1. UNCHANGED <<piece, digest, file, content, fd, block, payload>>
      BY <1>18 DEF OwnGet, db, disk, attempt
    <2>2. \A u \in Threads : pc'[u] = pc[u] \/ pc'[u] \in {"own_put", "own_release"}
      BY <1>18 DEF OwnGet
    <2>3. \A u \in Threads : pc'[u] = "own_put" => piece # "finished"
      BY <1>18 DEF OwnGet, ContentInv, Written
    <2> QED BY <2>1, <2>2, <2>3 DEF ContentInv, FinishedIntact, Written, Complete
  <1>19. CASE OwnRelease(t)
    BY <1>19, ContentFrame DEF OwnRelease, db, disk, attempt
  <1>20. CASE OwnPut(t)
    BY <1>20, ContentErase DEF OwnPut, FirstTransports, PutStarted, disk, Complete
  <1>21. CASE OwnError(t)
    BY <1>21, ContentFrame DEF OwnError, db, disk, attempt
  <1>22. CASE OpenWrite(t)
    <2>1. FinishedIntact'
      BY <1>22 DEF OpenWrite, DownloadFromParent, DownloadFromSource,
            ReceiveFrom, ContentInv, FinishedIntact, db, disk
    <2>2. ASSUME NEW u \in Threads \ {t} PROVE Written(u)'
      BY <1>22, <2>2 DEF OpenWrite, DownloadFromParent, DownloadFromSource,
            ReceiveFrom, ContentInv, Written, Complete, db, disk
    <2>3. Written(t)'
      BY <1>22 DEF OpenWrite, DownloadFromParent, DownloadFromSource,
            ReceiveFrom, ContentInv, Written, Complete, db, disk
    <2> QED BY <2>1, <2>2, <2>3 DEF ContentInv
  <1>23. CASE WriteBlock(t)
    <2>1. /\ file /\ fd[t] = "path" /\ piece # "finished"
          /\ \A b \in 1..Blocks : b < block[t] => content[b] = payload[t]
      BY <1>23 DEF WriteBlock, ContentInv, Written
    <2>2. FinishedIntact'
      BY <1>23, <2>1 DEF WriteBlock, FinishedIntact, db
    <2>3. ASSUME NEW u \in Threads \ {t} PROVE Written(u)'
      <3>1. pc'[u] = pc[u] /\ pc[u] \notin OwnerLabels
        BY <1>23, <2>3 DEF WriteBlock, ClaimInv, OneOwner, Owners, OwnerLabels, DownloadLabels
      <3> QED BY <3>1 DEF Written, Complete, OwnerLabels, DownloadLabels, EntryLabels
    <2>4. Written(t)'
      <3>1. block[t] \in 1..Blocks
        BY <1>23 DEF WriteBlock, Writing
      <3>2. /\ content' = [content EXCEPT ![block[t]] = payload[t]]
            /\ block'[t] = block[t] + 1 /\ file' = file /\ fd' = fd /\ payload' = payload
            /\ piece' = piece
        BY <1>23, <2>1 DEF WriteBlock, db
      <3>3. \A b \in 1..Blocks : b < block'[t] => content'[b] = payload'[t]
        BY <2>1, <3>1, <3>2
      <3>4. CASE block[t] = Blocks
        <4>1. pc'[t] = "verify"
          BY <1>23, <3>4 DEF WriteBlock
        <4>2. \A b \in 1..Blocks : content'[b] = payload'[t]
          <5>1. block'[t] = Blocks + 1
            BY <3>2, <3>4
          <5>2. \A b \in 1..Blocks : b < Blocks + 1
            OBVIOUS
          <5> HIDE DEF TypeInv, TypeOK
          <5> QED BY <3>3, <5>1, <5>2, Zenon
        <4> QED BY <2>1, <3>2, <4>1, <4>2 DEF Written, Complete
      <3>5. CASE block[t] # Blocks
        <4>1. pc'[t] = "write"
          BY <1>23, <3>5 DEF WriteBlock
        <4> QED BY <2>1, <3>2, <3>3, <4>1 DEF Written, Complete
      <3> QED BY <3>4, <3>5
    <2> QED BY <2>2, <2>3, <2>4 DEF ContentInv
  <1>24. CASE Abort(t)
    <2>1. UNCHANGED <<piece, digest, file, content, fd, block, payload>>
      BY <1>24 DEF Abort, db
    <2>2. \A u \in Threads \ {t} : pc'[u] = pc[u]
      BY <1>24 DEF Abort
    <2>3. pc'[t] \in {"download", "fail_get"} /\ piece # "finished"
      BY <1>24 DEF Abort, AttemptLabels, ContentInv, Written
    <2> QED BY <2>1, <2>2, <2>3 DEF ContentInv, FinishedIntact, Written, Complete
  <1>25. CASE Verify(t)
    <2>1. UNCHANGED <<piece, digest, file, content, fd, block, payload>>
      BY <1>25 DEF Verify, db, disk, attempt
    <2>2. pc[t] = "verify" /\ pc'[t] = "finish_get" /\ \A u \in Threads \ {t} : pc'[u] = pc[u]
      BY <1>25 DEF Verify
    <2> QED BY SMTT(40), <2>1, <2>2 DEF ContentInv, FinishedIntact, Written, Complete
  <1>26. CASE FinishGet(t)
    <2>1. UNCHANGED <<piece, digest, file, content, fd, block, payload>>
      BY <1>26 DEF FinishGet, db, disk, attempt
    <2>2. pc[t] = "finish_get" /\ \A u \in Threads \ {t} : pc'[u] = pc[u]
      BY <1>26 DEF FinishGet
    <2>3. pc'[t] = "finish_put"
      BY <1>26 DEF FinishGet
    <2> QED BY ZenonT(60), <2>1, <2>2, <2>3 DEF ContentInv, FinishedIntact, Written, Complete
  <1>27. CASE FinishPut(t)
    <2>1. /\ pc[t] = "finish_put" /\ pc'[t] = "finish_notify"
          /\ \A u \in Threads \ {t} : pc'[u] = pc[u]
      BY <1>27 DEF FinishPut
    <2>2. FinishedIntact'
      BY <1>27, <2>1 DEF FinishPut, PutFinished, ContentInv, Written, Complete, FinishedIntact,
                        disk
    <2>3. ASSUME NEW u \in Threads PROVE pc'[u] \notin Unfinished
      <3>1. CASE u = t
        BY <2>1, <3>1
      <3>2. CASE u # t
        <4>1. pc[u] \notin OwnerLabels
          BY <2>1, <3>2 DEF ClaimInv, OneOwner, Owners, OwnerLabels, DownloadLabels
        <4>2. pc'[u] = pc[u]
          BY <2>1, <3>2
        <4> QED BY <4>1, <4>2 DEF OwnerLabels, DownloadLabels, EntryLabels
      <3> QED BY <3>1, <3>2
    <2> QED BY <2>2, <2>3 DEF ContentInv, Written, Complete
  <1>28. CASE FinishNotify(t)
    BY <1>28, ContentFrame DEF FinishNotify, Return, db, disk, attempt
  <1>29. CASE FailGet(t)
    BY <1>29, ContentFrame DEF FailGet, FailedGet, db, disk, attempt
  <1>30. CASE FailDelete(t)
    <2>1. CASE DeletePiece
      BY <1>30, <2>1, ContentErase DEF FailDelete, FailedDelete, DeletePiece, AfterErr, disk,
            attempt, Complete
    <2>2. CASE UNCHANGED db
      BY <1>30, <2>2, ContentFrame DEF FailDelete, FailedDelete, AfterErr, db, disk, attempt
    <2> QED BY <1>30, <2>1, <2>2 DEF FailDelete, FailedDelete
  <1>31. CASE FailNotify(t)
    BY <1>31, ContentFrame DEF FailNotify, Return, db, disk, attempt
  <1>32. CASE OpenRead(t)
    BY <1>32, ContentFrame DEF OpenRead, Return, db, disk, attempt
  <1>33. CASE ReadDone(t)
    BY <1>33, ContentFrame DEF ReadDone, Return, db, disk, attempt
  <1> QED BY <1>1, <1>2, <1>3, <1>4, <1>5, <1>6, <1>7, <1>8, <1>9, <1>10, <1>11,
      <1>12, <1>13, <1>14, <1>15, <1>16, <1>17, <1>18, <1>19, <1>20, <1>21, <1>22,
      <1>23, <1>24, <1>25, <1>26, <1>27, <1>28, <1>29, <1>30, <1>31, <1>32, <1>33 DEF
      Step

LEMMA ContentNext ==
  ASSUME MaxTimeouts = 0, MaxDeletes = 0, TypeInv, Quiet, ClaimInv, ContentInv,
         [Next]_vars, [~LateWrite]_vars
  PROVE  ContentInv'
  <1>1. ASSUME NEW t \in Threads, Begin(t) PROVE ContentInv'
    <2>1. CASE file
      BY <1>1, <2>1, ContentFrame DEF Begin, Goto, TypeInv, TypeOK, Unfinished, db, attempt
    <2>2. CASE ~file
      <3>1. piece # "finished" /\ piece' = piece
        BY <1>1, <2>2 DEF Begin, db, ContentInv, FinishedIntact
      <3>2. \A u \in Threads : pc'[u] = pc[u] \/ pc'[u] = "lookup"
        BY <1>1 DEF Begin, Goto, TypeInv, TypeOK
      <3>3. \A u \in Threads : pc[u] \notin {"write"} \cup Complete
        BY <2>2 DEF ContentInv, Written
      <3> QED BY <3>1, <3>2, <3>3 DEF ContentInv, FinishedIntact, Written, Complete
    <2> QED BY <2>1, <2>2
  <1>2. ASSUME NEW t \in Threads, Step(t) PROVE ContentInv'
    BY <1>2, ContentStep
  <1>3. ASSUME NEW t \in Threads, WaitTimeout(t) PROVE FALSE
    BY <1>3 DEF WaitTimeout, TypeInv, TypeOK
  <1>4. ~DeleteTask /\ ~ListPieces /\ ~DeletePieces /\ ~DeleteContent
    BY DEF Quiet, DeleteTask, ListPieces, DeletePieces, DeleteContent, TypeInv, TypeOK
  <1>5. CASE Restart
    BY <1>5, ContentFrame DEF Restart, Unfinished, db
  <1>6. CASE UNCHANGED vars
    BY <1>6, ContentFrame DEF vars
  <1> QED BY <1>1, <1>2, <1>3, <1>4, <1>5, <1>6 DEF Next

\* A finished record always describes the bytes in the task file, for any number of
\* callers, payloads that differ, transports, blocks and restarts, as long as no write
\* that a dropped download left on the blocking pool reaches the file, no wait
\* outlasts the download it waits for and the task is not deleted meanwhile.  So the
\* late writes of write_range_from_stream and write_urma_stream_to_path are the only
\* way the bytes of another source get under a finished record of a single owner.
THEOREM FinishedPiecesAreIntact ==
  ASSUME MaxTimeouts = 0, MaxDeletes = 0
  PROVE  Spec /\ [][~LateWrite]_vars => []FinishedIntact
  <1> DEFINE Inv == TypeInv /\ Quiet /\ ClaimInv /\ ContentInv
  <1>1. Init => Inv
    <2> SUFFICES ASSUME Init PROVE Inv
      OBVIOUS
    <2>1. Quiet
      BY DEF Init, Quiet
    <2>2. ClaimInv
      BY DEF Init, ClaimInv, OneOwner, Owners, Owns, OwnerLabels, EntryLabels,
             DownloadLabels, ExpireLabels
    <2>3. ContentInv
      BY DEF Init, ContentInv, FinishedIntact, Written, Complete, Unfinished
    <2> QED BY TypeInvInit, <2>1, <2>2, <2>3
  <1>2. Inv /\ [Next]_vars /\ [~LateWrite]_vars => Inv'
    BY TypeInvNext, QuietNext, ClaimInvNext, ContentNext
  <1>3. Inv => FinishedIntact
    BY DEF ContentInv
  <1> QED BY <1>1, <1>2, <1>3, PTL DEF Spec


-----------------------------------------------------------------------------
(* The bytes an upload streams.  Without the deletion of the task a block  *)
(* that holds a payload never becomes a hole again, and a call that knows  *)
(* a finished record, or has written the whole range, knows that every     *)
(* block holds one.  Where all sources of a task deliver the same bytes    *)
(* this is all an upload needs, over every transport, with timed-out waits *)
(* that let two downloads write at once and with writes that land late.    *)

Filled == file /\ \A b \in 1..Blocks : content[b] \in Payloads

Stages == {"write"} \cup Complete \cup UploadLabels

Reached(t) ==
    /\ pc[t] = "write" =>
         file /\ fd[t] = "path" /\ \A b \in 1..Blocks : b < block[t] => content[b] \in Payloads
    /\ pc[t] \in Complete \cup UploadLabels => Filled /\ payload[t] \in Payloads

FilledInv ==
    /\ gc = "idle"
    /\ piece = "finished" => Filled /\ digest \in Payloads
    /\ \A t \in Threads : Reached(t)

Same(t) == pc'[t] = pc[t] /\ fd'[t] = fd[t] /\ block'[t] = block[t] /\ payload'[t] = payload[t]

(* No payload is lost. *)
Grows ==
    file => file' /\ \A b \in 1..Blocks : content[b] \in Payloads => content'[b] \in Payloads

LEMMA FilledGrows ==
  ASSUME FilledInv, Grows, NEW u \in Threads, pc'[u] \notin Stages \/ Same(u)
  PROVE  Reached(u)'
  <1>1. CASE pc'[u] \notin Stages
    BY <1>1 DEF Reached, Stages
  <1>2. CASE Same(u) /\ pc[u] = "write"
    BY <1>2 DEF FilledInv, Reached, Grows, Same, Complete, UploadLabels
  <1>3. CASE Same(u) /\ pc[u] # "write"
    BY <1>3 DEF FilledInv, Reached, Grows, Same, Filled
  <1> QED BY <1>1, <1>2, <1>3

(* Steps that move no call into a later stage, and record nothing finished. *)
LEMMA FilledFrame ==
  ASSUME FilledInv, Grows \/ UNCHANGED <<file, content>>, gc' = gc,
         piece' # "finished" \/ UNCHANGED <<piece, digest>>,
         \A u \in Threads : pc'[u] \notin Stages \/ Same(u)
  PROVE  FilledInv'
  <1>1. Grows
    BY DEF Grows
  <1>2. (piece = "finished" => Filled /\ digest \in Payloads)'
    BY <1>1 DEF FilledInv, Filled, Grows
  <1> QED BY <1>1, <1>2, FilledGrows DEF FilledInv

(* A call advances from one stage of its own to the next. *)
LEMMA FilledMore ==
  ASSUME FilledInv, UNCHANGED <<piece, digest, file, content, gc>>, NEW t \in Threads,
         \A u \in Threads \ {t} : Same(u),
         \/ pc'[t] \notin Stages
         \/ pc'[t] = "write" /\ file /\ fd'[t] = "path" /\ block'[t] = 1
         \/ /\ pc[t] \in Complete \cup UploadLabels /\ pc'[t] \in Complete \cup UploadLabels
            /\ payload'[t] = payload[t]
         \/ /\ piece = "finished" /\ pc'[t] = "open" /\ payload'[t] = digest
  PROVE  FilledInv'
  <1>1. \A u \in Threads \ {t} : Reached(u)'
    BY FilledGrows DEF Grows
  <1>2. Filled' = Filled
    BY DEF Filled
  <1>3. Reached(t)'
    <2>1. CASE pc'[t] \notin Stages
      BY <2>1 DEF Reached, Stages
    <2>2. CASE pc'[t] = "write" /\ file /\ fd'[t] = "path" /\ block'[t] = 1
      BY <2>2 DEF Reached, Complete, UploadLabels
    <2>3. CASE pc'[t] \in Complete \cup UploadLabels
      BY <1>2, <2>3 DEF FilledInv, Reached, Complete, UploadLabels, Stages
    <2> QED BY <2>1, <2>2, <2>3 DEF Stages
  <1> QED BY <1>1, <1>2, <1>3 DEF FilledInv

(* A read of the record: only an upload that finds it finished goes on to open. *)
LEMMA FilledGet ==
  ASSUME TypeInv, FilledInv, NEW t \in Threads, NEW from, NEW next, next \notin Stages,
         GetPiece(t, from, next)
  PROVE  FilledInv'
  <1>1. UNCHANGED <<piece, digest, file, content, gc>> /\ \A u \in Threads \ {t} : Same(u)
    BY DEF GetPiece, Goto, Same, TypeInv, TypeOK, db, disk
  <1>2. pc'[t] \notin Stages \/ (piece = "finished" /\ pc'[t] = "open" /\ payload'[t] = digest)
    BY DEF GetPiece, Goto, AfterErr, AfterOk, TypeInv, TypeOK, Stages, Complete, UploadLabels
  <1> QED BY <1>1, <1>2, FilledMore

LEMMA FilledWrite ==
  ASSUME TypeInv, FilledInv, NEW t \in Threads, WriteBlock(t)
  PROVE  FilledInv'
  <1> USE Assumptions DEF Goto, TypeInv, TypeOK
  <1>1. /\ pc[t] = "write" /\ file /\ fd[t] = "path" /\ payload[t] \in Payloads
        /\ block[t] \in 1..Blocks
        /\ \A b \in 1..Blocks : b < block[t] => content[b] \in Payloads
    BY DEF WriteBlock, FilledInv, Reached, Writing
  <1>2. /\ content' = [content EXCEPT ![block[t]] = payload[t]] /\ block'[t] = block[t] + 1
        /\ UNCHANGED <<piece, digest, file, fd, payload, gc>>
        /\ \A u \in Threads \ {t} : Same(u)
    BY <1>1 DEF WriteBlock, Same, db
  <1>3. Grows
    BY <1>1, <1>2 DEF Grows
  <1>4. \A u \in Threads \ {t} : Reached(u)'
    BY <1>2, <1>3, FilledGrows
  <1>5. (piece = "finished" => Filled /\ digest \in Payloads)'
    BY <1>2, <1>3 DEF FilledInv, Filled, Grows
  <1>6. \A b \in 1..Blocks : b < block'[t] => content'[b] \in Payloads
    BY <1>1, <1>2
  <1>7. Reached(t)'
    <2>1. CASE block[t] = Blocks
      <3>1. pc'[t] = "verify"
        BY <2>1 DEF WriteBlock
      <3>2. \A b \in 1..Blocks : b < block'[t]
        BY <1>2, <2>1
      <3>3. Filled'
        BY <1>1, <1>2, <1>6, <3>2, Zenon DEF Filled
      <3> QED BY <1>1, <1>2, <3>1, <3>3 DEF Reached
    <2>2. CASE block[t] # Blocks
      <3>1. pc'[t] = "write"
        BY <2>2 DEF WriteBlock
      <3> QED BY <1>1, <1>2, <1>6, <3>1 DEF Reached, Complete, UploadLabels
    <2> QED BY <2>1, <2>2
  <1> QED BY <1>2, <1>4, <1>5, <1>7 DEF FilledInv

LEMMA FilledStep ==
  ASSUME TypeInv, FilledInv, NEW t \in Threads, Step(t)
  PROVE  FilledInv'
  <1> USE DEF Goto, TypeInv, TypeOK, Stages, Complete, UploadLabels, Same
  <1>1. CASE Lookup(t)
    BY <1>1, FilledGet DEF Lookup
  <1>2. CASE Watch(t)
    BY <1>2, FilledFrame DEF Watch, AfterErr, db, disk, attempt
  <1>3. CASE Arm(t)
    BY <1>3, FilledFrame DEF Arm, AfterErr, db, disk, attempt
  <1>4. CASE Recheck(t)
    BY <1>4, FilledGet DEF Recheck
  <1>5. CASE Notified(t)
    BY <1>5, FilledFrame DEF Notified, AfterErr, db, disk, attempt
  <1>6. CASE Fallback(t)
    BY <1>6, FilledFrame DEF Fallback, AfterErr, db, disk, attempt
  <1>7. CASE ExpireGet(t)
    BY <1>7, FilledFrame DEF ExpireGet, FailedGet, AfterErr, db, disk, attempt
  <1>8. CASE ExpireDelete(t)
    BY <1>8, FilledFrame DEF ExpireDelete, FailedDelete, DeletePiece, AfterErr, db, disk, attempt
  <1>9. CASE ExpireNotify(t)
    BY <1>9, FilledFrame DEF ExpireNotify, AfterErr, db, disk, attempt
  <1>10. CASE AloneGet1(t)
    BY <1>10, FilledGet DEF AloneGet1
  <1>11. CASE AloneGet2(t)
    BY <1>11, FilledGet DEF AloneGet2
  <1>12. CASE AloneCheck(t)
    BY <1>12, FilledFrame DEF AloneCheck, AfterErr, db, disk, attempt
  <1>13. CASE StaleGet(t)
    BY <1>13, FilledFrame DEF StaleGet, FailedGet, AfterErr, db, disk, attempt
  <1>14. CASE StaleDelete(t)
    BY <1>14, FilledFrame DEF StaleDelete, FailedDelete, DeletePiece, AfterErr, db, disk, attempt
  <1>15. CASE Claim(t)
    BY <1>15, FilledFrame DEF Claim, AfterErr, db, disk, attempt
  <1>16. CASE ClaimArm(t)
    BY <1>16, FilledFrame DEF ClaimArm, AfterErr, db, disk, attempt
  <1>17. CASE ClaimWait(t)
    BY <1>17, FilledFrame DEF ClaimWait, AfterErr, db, disk, attempt
  <1>18. CASE OwnGet(t)
    BY <1>18, FilledFrame DEF OwnGet, AfterErr, db, disk, attempt
  <1>19. CASE OwnRelease(t)
    BY <1>19, FilledFrame DEF OwnRelease, AfterErr, db, disk, attempt
  <1>20. CASE OwnPut(t)
    BY <1>20, FilledFrame DEF OwnPut, PutStarted, disk
  <1>21. CASE OwnError(t)
    BY <1>21, FilledFrame DEF OwnError, AfterErr, db, disk, attempt
  <1>22. CASE OpenWrite(t)
    <2>1. /\ UNCHANGED <<piece, digest, file, content, gc>> /\ file /\ fd'[t] = "path" /\ block'[t] = 1
          /\ pc'[t] = "write" /\ \A u \in Threads \ {t} : Same(u)
      BY <1>22 DEF OpenWrite, DownloadFromParent, DownloadFromSource, ReceiveFrom, Same, db, disk
    <2> QED BY <2>1, FilledMore
  <1>23. CASE WriteBlock(t)
    BY <1>23, FilledWrite
  <1>24. CASE Abort(t)
    <2>1. UNCHANGED <<piece, digest, file, content, gc>>
      BY <1>24 DEF Abort, db
    <2>2. \A u \in Threads : pc'[u] \notin Stages \/ Same(u)
      BY <1>24 DEF Abort, Same
    <2> QED BY <2>1, <2>2, FilledFrame
  <1>25. CASE Verify(t)
    <2>1. UNCHANGED <<piece, digest, file, content, gc, payload>> /\ \A u \in Threads \ {t} : Same(u)
      BY <1>25 DEF Verify, Same, db, disk, attempt
    <2>2. pc[t] \in Complete /\ pc'[t] \in Complete
      BY <1>25 DEF Verify
    <2> QED BY <2>1, <2>2, FilledMore
  <1>26. CASE FinishGet(t)
    <2>1. UNCHANGED <<piece, digest, file, content, gc, payload>> /\ \A u \in Threads \ {t} : Same(u)
      BY <1>26 DEF FinishGet, Same, db, disk, attempt
    <2>2. pc[t] \in Complete /\ pc'[t] \in Complete
      BY <1>26 DEF FinishGet
    <2> QED BY <2>1, <2>2, FilledMore
  <1>27. CASE FinishPut(t)
    <2>1. UNCHANGED <<file, content, gc>> /\ piece' = "finished" /\ digest' = payload[t]
      BY <1>27 DEF FinishPut, PutFinished, disk
    <2>2. pc[t] = "finish_put" /\ \A u \in Threads : pc'[u] \notin Stages \/ Same(u)
      BY <1>27 DEF FinishPut, Same, attempt
    <2>3. Filled /\ payload[t] \in Payloads
      BY <2>2 DEF FilledInv, Reached
    <2> QED BY <2>1, <2>2, <2>3 DEF FilledInv, Filled, Reached, Same
  <1>28. CASE FinishNotify(t)
    BY <1>28, FilledFrame DEF FinishNotify, Return, db, disk, attempt
  <1>29. CASE FailGet(t)
    BY <1>29, FilledFrame DEF FailGet, FailedGet, AfterErr, db, disk, attempt
  <1>30. CASE FailDelete(t)
    BY <1>30, FilledFrame DEF FailDelete, FailedDelete, DeletePiece, AfterErr, db, disk, attempt
  <1>31. CASE FailNotify(t)
    BY <1>31, FilledFrame DEF FailNotify, Return, db, disk, attempt
  <1>32. CASE OpenRead(t)
    <2>1. UNCHANGED <<piece, digest, file, content, gc>> /\ \A u \in Threads \ {t} : Same(u)
      BY <1>32 DEF OpenRead, Return, Same, db, disk
    <2>2. pc[t] = "open" /\ (pc'[t] = "idle" \/ (pc'[t] = "read" /\ payload' = payload))
      BY <1>32 DEF OpenRead
    <2> QED BY <2>1, <2>2, FilledMore
  <1>33. CASE ReadDone(t)
    BY <1>33, FilledFrame DEF ReadDone, Return, db, disk, attempt
  <1> QED BY <1>1, <1>2, <1>3, <1>4, <1>5, <1>6, <1>7, <1>8, <1>9, <1>10, <1>11,
      <1>12, <1>13, <1>14, <1>15, <1>16, <1>17, <1>18, <1>19, <1>20, <1>21, <1>22,
      <1>23, <1>24, <1>25, <1>26, <1>27, <1>28, <1>29, <1>30, <1>31, <1>32, <1>33 DEF
      Step

LEMMA FilledNext ==
  ASSUME MaxDeletes = 0, TypeInv, FilledInv, [Next]_vars
  PROVE  FilledInv'
  <1> USE Assumptions DEF Goto, TypeInv, TypeOK, Stages, Complete, UploadLabels, Same
  <1>1. ASSUME NEW t \in Threads, Begin(t) PROVE FilledInv'
    <2>1. Grows
      BY <1>1 DEF Begin, Grows
    <2> QED BY <1>1, <2>1, FilledFrame DEF Begin, db, attempt
  <1>2. ASSUME NEW t \in Threads, Step(t) PROVE FilledInv'
    BY <1>2, FilledStep
  <1>3. ASSUME NEW t \in Threads, WaitTimeout(t) PROVE FilledInv'
    BY <1>3, FilledFrame DEF WaitTimeout, db, disk, attempt
  <1>4. CASE LateWrite
    <2>1. Grows
      BY <1>4 DEF LateWrite, Grows
    <2> QED BY <1>4, <2>1, FilledFrame DEF LateWrite, db, attempt
  <1>5. ~DeleteTask /\ ~ListPieces /\ ~DeletePieces /\ ~DeleteContent
    BY DEF FilledInv, DeleteTask, ListPieces, DeletePieces, DeleteContent
  <1>6. CASE Restart
    <2>1. gc' = gc
      BY <1>6 DEF Restart, FilledInv
    <2> QED BY <1>6, <2>1, FilledFrame DEF Restart, db
  <1>7. CASE UNCHANGED vars
    BY <1>7, FilledFrame DEF vars
  <1> QED BY <1>1, <1>2, <1>3, <1>4, <1>5, <1>6, <1>7 DEF Next

\* Where every source and parent of a task delivers the same bytes and the task is not
\* deleted, a finished record always describes the file and an upload streams exactly
\* the bytes of the record it was given: over every transport, with waiters that time
\* out and drop the claim of a running download, with two downloads writing at once,
\* with writes that outlive their download, and across restarts.
THEOREM SharedContentIsIntact ==
  ASSUME MaxDeletes = 0, \A p, q \in Payloads : p = q
  PROVE  Spec => [](FinishedIntact /\ UploadIntact)
  <1>1. Init => TypeInv /\ FilledInv
    <2> SUFFICES ASSUME Init PROVE FilledInv
      BY TypeInvInit
    <2> QED BY DEF Init, FilledInv, Reached, Complete, UploadLabels
  <1>2. TypeInv /\ FilledInv /\ [Next]_vars => (TypeInv /\ FilledInv)'
    BY TypeInvNext, FilledNext
  <1>3. FilledInv => FinishedIntact /\ UploadIntact
    BY SMTT(40) DEF FilledInv, FinishedIntact, UploadIntact, Filled, Reached, UploadLabels, Threads
  <1> QED BY <1>1, <1>2, <1>3, PTL DEF Spec

-----------------------------------------------------------------------------
(***************************************************************************)
(* PieceLifecycle implements PieceStore, for every number of threads,      *)
(* payloads, blocks, calls, restarts and deletions, when no wait outlasts  *)
(* the download it waits for.                                              *)
(***************************************************************************)

(* The record has a digest when it is finished; only downloads own; and a  *)
(* download that has not yet recorded its piece finished finds it so only  *)
(* before it has claimed it.                                               *)
Linked == piece = "finished" <=> digest # NoPayload

Honest(t) ==
    /\ t \in Uploaders => pc[t] \notin ClaimLabels \cup OwnerLabels
    /\ pc[t] \in Unfinished => piece # "finished"
    /\ pc[t] \in Complete \cup {"write"} => payload[t] \in Payloads

RecordInv == Linked /\ \A t \in Threads : Honest(t)

Downloads(t) == pc[t] \in DownloadLabels

(* What a step of a call does to the abstract store. *)
Hidden(t) == Downloads(t)' = Downloads(t) /\ digest' = digest
Begins(t) == pc[t] = "own_put" /\ ~Downloads(t) /\ Downloads(t)' /\ digest' = NoPayload
Stores(t) == pc[t] = "finish_put" /\ Downloads(t) /\ Downloads(t)' /\ digest' = payload[t]
Ends(t) == Downloads(t) /\ ~Downloads(t)' /\ digest' = digest
Forgets(t) == Downloads(t)' = Downloads(t) /\ digest' = NoPayload

(* Every step of a call does one of these things. *)
LEMMA StoreStep ==
  ASSUME TypeInv, NEW t \in Threads, Step(t)
  PROVE  Hidden(t) \/ Begins(t) \/ Stores(t) \/ Ends(t) \/ Forgets(t)
  <1> USE DEF TypeInv, TypeOK, Goto, Downloads, DownloadLabels, Hidden, Begins, Stores, Ends,
      Forgets, db
  <1>1. CASE Lookup(t)
    BY <1>1 DEF Lookup, GetPiece, AfterErr, AfterOk
  <1>2. CASE Watch(t)
    BY <1>2 DEF Watch
  <1>3. CASE Arm(t)
    BY <1>3 DEF Arm
  <1>4. CASE Recheck(t)
    BY <1>4 DEF Recheck, GetPiece, AfterErr, AfterOk
  <1>5. CASE Notified(t)
    BY <1>5 DEF Notified
  <1>6. CASE Fallback(t)
    BY <1>6 DEF Fallback
  <1>7. CASE ExpireGet(t)
    BY <1>7 DEF ExpireGet, FailedGet
  <1>8. CASE ExpireDelete(t)
    BY <1>8 DEF ExpireDelete, FailedDelete, DeletePiece
  <1>9. CASE ExpireNotify(t)
    BY <1>9 DEF ExpireNotify, AfterErr
  <1>10. CASE AloneGet1(t)
    BY <1>10 DEF AloneGet1, GetPiece, AfterErr, AfterOk
  <1>11. CASE AloneGet2(t)
    BY <1>11 DEF AloneGet2, GetPiece, AfterErr, AfterOk
  <1>12. CASE AloneCheck(t)
    BY <1>12 DEF AloneCheck
  <1>13. CASE StaleGet(t)
    BY <1>13 DEF StaleGet, FailedGet, AfterErr
  <1>14. CASE StaleDelete(t)
    BY <1>14 DEF StaleDelete, FailedDelete, AfterErr, DeletePiece
  <1>15. CASE Claim(t)
    BY <1>15 DEF Claim
  <1>16. CASE ClaimArm(t)
    BY <1>16 DEF ClaimArm
  <1>17. CASE ClaimWait(t)
    BY <1>17 DEF ClaimWait
  <1>18. CASE OwnGet(t)
    BY <1>18 DEF OwnGet
  <1>19. CASE OwnRelease(t)
    BY <1>19 DEF OwnRelease
  <1>20. CASE OwnPut(t)
    BY <1>20 DEF OwnPut, PutStarted
  <1>21. CASE OwnError(t)
    BY <1>21 DEF OwnError
  <1>22. CASE OpenWrite(t)
    BY <1>22 DEF OpenWrite, DownloadFromParent, DownloadFromSource, ReceiveFrom
  <1>23. CASE WriteBlock(t)
    BY <1>23 DEF WriteBlock
  <1>24. CASE Abort(t)
    BY <1>24 DEF Abort, AttemptLabels
  <1>25. CASE Verify(t)
    BY <1>25 DEF Verify
  <1>26. CASE FinishGet(t)
    BY <1>26 DEF FinishGet
  <1>27. CASE FinishPut(t)
    BY <1>27 DEF FinishPut, PutFinished
  <1>28. CASE FinishNotify(t)
    BY <1>28 DEF FinishNotify, Return
  <1>29. CASE FailGet(t)
    BY <1>29 DEF FailGet, FailedGet
  <1>30. CASE FailDelete(t)
    BY <1>30 DEF FailDelete, FailedDelete, DeletePiece
  <1>31. CASE FailNotify(t)
    BY <1>31 DEF FailNotify, Return
  <1>32. CASE OpenRead(t)
    BY <1>32 DEF OpenRead, Return
  <1>33. CASE ReadDone(t)
    BY <1>33 DEF ReadDone, Return
  <1> QED BY <1>1, <1>2, <1>3, <1>4, <1>5, <1>6, <1>7, <1>8, <1>9, <1>10, <1>11, <1>12,
     <1>13, <1>14, <1>15, <1>16, <1>17, <1>18, <1>19, <1>20, <1>21, <1>22, <1>23, <1>24,
     <1>25, <1>26, <1>27, <1>28, <1>29, <1>30, <1>31, <1>32, <1>33 DEF Step

(* The record invariant survives at the thread that moves, and only finish_put *)
(* makes a record finished.                                                     *)
LEMMA RecordStep ==
  ASSUME TypeInv, RecordInv, NEW t \in Threads, Step(t)
  PROVE  /\ Linked' /\ Honest(t)'
         /\ \A u \in Threads \ {t} : payload'[u] = payload[u]
         /\ piece' = "finished" => piece = "finished" \/ pc[t] = "finish_put"
  <1> USE Assumptions DEF TypeInv, TypeOK, Goto, RecordInv, Linked, Honest, Unfinished,
      Complete, ClaimLabels, OwnerLabels, EntryLabels, DownloadLabels, db, attempt, Threads
  <1>1. CASE Lookup(t)
    BY <1>1 DEF Lookup, GetPiece, AfterErr, AfterOk
  <1>2. CASE Watch(t)
    BY <1>2 DEF Watch
  <1>3. CASE Arm(t)
    BY <1>3 DEF Arm
  <1>4. CASE Recheck(t)
    BY <1>4 DEF Recheck, GetPiece, AfterErr, AfterOk
  <1>5. CASE Notified(t)
    BY <1>5 DEF Notified
  <1>6. CASE Fallback(t)
    BY <1>6 DEF Fallback
  <1>7. CASE ExpireGet(t)
    BY <1>7 DEF ExpireGet, FailedGet
  <1>8. CASE ExpireDelete(t)
    BY <1>8 DEF ExpireDelete, FailedDelete, DeletePiece
  <1>9. CASE ExpireNotify(t)
    BY <1>9 DEF ExpireNotify, AfterErr
  <1>10. CASE AloneGet1(t)
    BY <1>10 DEF AloneGet1, GetPiece, AfterErr, AfterOk
  <1>11. CASE AloneGet2(t)
    BY <1>11 DEF AloneGet2, GetPiece, AfterErr, AfterOk
  <1>12. CASE AloneCheck(t)
    BY <1>12 DEF AloneCheck
  <1>13. CASE StaleGet(t)
    BY <1>13 DEF StaleGet, FailedGet, AfterErr
  <1>14. CASE StaleDelete(t)
    BY <1>14 DEF StaleDelete, FailedDelete, AfterErr, DeletePiece
  <1>15. CASE Claim(t)
    BY <1>15 DEF Claim
  <1>16. CASE ClaimArm(t)
    BY <1>16 DEF ClaimArm
  <1>17. CASE ClaimWait(t)
    BY <1>17 DEF ClaimWait
  <1>18. CASE OwnGet(t)
    BY <1>18 DEF OwnGet
  <1>19. CASE OwnRelease(t)
    BY <1>19 DEF OwnRelease
  <1>20. CASE OwnPut(t)
    BY <1>20 DEF OwnPut, PutStarted
  <1>21. CASE OwnError(t)
    BY <1>21 DEF OwnError
  <1>22. CASE OpenWrite(t)
    BY <1>22 DEF OpenWrite, DownloadFromParent, DownloadFromSource, ReceiveFrom
  <1>23. CASE WriteBlock(t)
    BY <1>23 DEF WriteBlock
  <1>24. CASE Abort(t)
    BY <1>24 DEF Abort, AttemptLabels
  <1>25. CASE Verify(t)
    BY <1>25 DEF Verify
  <1>26. CASE FinishGet(t)
    BY <1>26 DEF FinishGet
  <1>27. CASE FinishPut(t)
    BY <1>27 DEF FinishPut, PutFinished
  <1>28. CASE FinishNotify(t)
    BY <1>28 DEF FinishNotify, Return
  <1>29. CASE FailGet(t)
    BY <1>29 DEF FailGet, FailedGet
  <1>30. CASE FailDelete(t)
    BY <1>30 DEF FailDelete, FailedDelete, DeletePiece
  <1>31. CASE FailNotify(t)
    BY <1>31 DEF FailNotify, Return
  <1>32. CASE OpenRead(t)
    BY <1>32 DEF OpenRead, Return
  <1>33. CASE ReadDone(t)
    BY <1>33 DEF ReadDone, Return
  <1> QED BY <1>1, <1>2, <1>3, <1>4, <1>5, <1>6, <1>7, <1>8, <1>9, <1>10, <1>11, <1>12,
     <1>13, <1>14, <1>15, <1>16, <1>17, <1>18, <1>19, <1>20, <1>21, <1>22, <1>23, <1>24,
     <1>25, <1>26, <1>27, <1>28, <1>29, <1>30, <1>31, <1>32, <1>33 DEF Step

(* It survives every step: the others see a newly finished record only if they *)
(* do not own the piece, because OneOwner makes the finisher the only owner.    *)
LEMMA RecordInvNext ==
  ASSUME TypeInv, ClaimInv, RecordInv, [Next]_vars
  PROVE  RecordInv'
  <1>1. ASSUME NEW t \in Threads, Step(t) PROVE RecordInv'
    <2>1. /\ Linked' /\ Honest(t)'
          /\ \A u \in Threads \ {t} : payload'[u] = payload[u]
          /\ piece' = "finished" => piece = "finished" \/ pc[t] = "finish_put"
      BY <1>1, RecordStep
    <2>2. ASSUME NEW u \in Threads, u # t PROVE Honest(u)'
      <3>1. pc'[u] = pc[u]
        BY <1>1, <2>2, ClaimStep
      <3>2. pc[u] \in Unfinished => pc[t] # "finish_put"
        BY <2>2 DEF ClaimInv, OneOwner, Owners, Unfinished, OwnerLabels, EntryLabels,
           DownloadLabels
      <3> QED BY <2>1, <2>2, <3>1, <3>2 DEF RecordInv, Honest
    <2> QED BY <2>1, <2>2 DEF RecordInv
  <1>2. ASSUME ~\E t \in Threads : Step(t) PROVE RecordInv'
    <2> USE DEF TypeInv, TypeOK, RecordInv, Linked, Honest, Unfinished, Complete, ClaimLabels,
        OwnerLabels, EntryLabels, DownloadLabels, Goto, db, attempt
    <2>1. ASSUME NEW t \in Threads, Begin(t) PROVE RecordInv'
      BY <2>1 DEF Begin
    <2>2. ASSUME NEW t \in Threads, WaitTimeout(t) PROVE RecordInv'
      BY <2>2 DEF WaitTimeout
    <2>3. CASE LateWrite \/ DeleteTask \/ ListPieces \/ DeleteContent \/ UNCHANGED vars
      BY <2>3 DEF LateWrite, DeleteTask, ListPieces, DeleteContent, vars
    <2>4. CASE DeletePieces
      BY <2>4 DEF DeletePieces, DeletePiece
    <2>5. CASE Restart
      BY <2>5 DEF Restart
    <2> QED BY <1>2, <2>1, <2>2, <2>3, <2>4, <2>5 DEF Next
  <1> QED BY <1>1, <1>2

-----------------------------------------------------------------------------
(* The owner of the abstract store: with one download at a time there is   *)
(* nothing to choose.                                                      *)

(* Before a step ... *)
LEMMA OwnerIs ==
  ASSUME NEW t \in Downloaders, pc[t] \in DownloadLabels,
         \A u \in Downloaders : pc[u] \in DownloadLabels => u = t
  PROVE  storeOwner = t
  BY DEF storeOwner

LEMMA OwnerIsNobody ==
  ASSUME \A u \in Downloaders : pc[u] \notin DownloadLabels
  PROVE  storeOwner = NoOwner
  BY DEF storeOwner

(* ... and after it. *)
LEMMA OwnerBecomes ==
  ASSUME NEW t \in Downloaders, pc'[t] \in DownloadLabels,
         \A u \in Downloaders : pc'[u] \in DownloadLabels => u = t
  PROVE  storeOwner' = t
  BY DEF storeOwner

LEMMA OwnerBecomesNobody ==
  ASSUME \A u \in Downloaders : pc'[u] \notin DownloadLabels
  PROVE  storeOwner' = NoOwner
  BY DEF storeOwner

(* Who downloads is the one owner. *)
LEMMA OneDownload ==
  ASSUME ClaimInv, NEW t \in Threads, NEW u \in Threads, Owns(t), Downloads(u)
  PROVE  u = t
  BY DEF ClaimInv, OneOwner, Owners, Owns, Downloads, OwnerLabels

(* A step that starts and ends no download leaves the owner of the store alone. *)
LEMMA SameOwner ==
  ASSUME ClaimInv,
         \A u \in Downloaders : pc'[u] \in DownloadLabels <=> pc[u] \in DownloadLabels
  PROVE  storeOwner' = storeOwner
  <1>1. CASE \E t \in Downloaders : pc[t] \in DownloadLabels
    <2>1. PICK t \in Downloaders : pc[t] \in DownloadLabels
      BY <1>1
    <2>2. \A u \in Downloaders : pc[u] \in DownloadLabels => u = t
      BY <2>1, OneDownload DEF Downloads, Owns, OwnerLabels, Threads
    <2> QED BY <2>1, <2>2, OwnerIs, OwnerBecomes
  <1>2. CASE ~\E t \in Downloaders : pc[t] \in DownloadLabels
    BY <1>2, OwnerIsNobody, OwnerBecomesNobody
  <1> QED BY <1>1, <1>2

(* Every step of a call is a step of the store. *)
LEMMA StoreCallStep ==
  ASSUME TypeInv, ClaimInv, ClaimInv', RecordInv, RecordInv', NEW t \in Threads, Step(t)
  PROVE  [Store!Next]_<<storeOwner, digest>>
  <1>1. \A u \in Threads \ {t} : pc'[u] = pc[u]
    BY ClaimStep
  <1>2. Downloads(t) \/ Downloads(t)' => t \in Downloaders
    BY DEF RecordInv, Honest, Downloads, OwnerLabels, Threads
  <1>3. Downloads(t) => storeOwner = t
    BY <1>2, OneDownload, OwnerIs DEF Downloads, Owns, OwnerLabels, Threads
  <1>4. ASSUME Downloads(t)' = Downloads(t) PROVE storeOwner' = storeOwner
    <2>1. \A u \in Downloaders : pc'[u] \in DownloadLabels <=> pc[u] \in DownloadLabels
      BY <1>1, <1>4 DEF Downloads, Threads
    <2> QED BY <2>1, SameOwner
  <1>5. CASE Hidden(t)
    BY <1>4, <1>5 DEF Hidden
  <1>6. CASE Forgets(t)
    BY <1>4, <1>6 DEF Forgets, Store!Next, Store!Forget
  <1>7. CASE Begins(t)
    <2>1. pc[t] = "own_put" /\ Owns(t) /\ ~Downloads(t) /\ Downloads(t)' /\ t \in Downloaders
      BY <1>2, <1>7 DEF Begins, Owns, OwnerLabels, EntryLabels
    <2>2. \A u \in Downloaders : pc[u] \notin DownloadLabels
      BY <2>1, OneDownload DEF Downloads, Threads
    <2>3. storeOwner = NoOwner
      BY <2>2, OwnerIsNobody
    <2>4. \A u \in Downloaders : pc'[u] \in DownloadLabels => u = t
      BY <1>1, <2>2 DEF Threads
    <2>5. storeOwner' = t
      BY <2>1, <2>4, OwnerBecomes DEF Downloads
    <2>6. digest = NoPayload
      BY <2>1 DEF RecordInv, Linked, Honest, Unfinished
    <2> QED BY <1>7, <2>1, <2>3, <2>5, <2>6 DEF Begins, Store!Next, Store!Begin
  <1>8. CASE Stores(t)
    <2>1. t \in Downloaders /\ storeOwner = t /\ storeOwner' = t
      BY <1>2, <1>3, <1>4, <1>8 DEF Stores
    <2>2. digest = NoPayload /\ digest' \in Payloads
      BY <1>8 DEF Stores, RecordInv, Linked, Honest, Unfinished, Complete
    <2> QED BY <2>1, <2>2 DEF Store!Next, Store!Store
  <1>9. CASE Ends(t)
    <2>1. t \in Downloaders /\ storeOwner = t
      BY <1>2, <1>3, <1>9 DEF Ends
    <2>2. \A u \in Downloaders : pc'[u] \notin DownloadLabels
      BY <1>1, <1>9, <2>1, OneDownload DEF Ends, Downloads, Owns, OwnerLabels, Threads
    <2>3. storeOwner' = NoOwner
      BY <2>2, OwnerBecomesNobody
    <2> QED BY <1>9, <2>1, <2>3 DEF Ends, Store!Next, Store!End
  <1> QED BY <1>5, <1>6, <1>7, <1>8, <1>9, StoreStep

(* So is every other step: a deletion forgets, a restart drops the owner. *)
LEMMA StoreNext ==
  ASSUME TypeInv, ClaimInv, ClaimInv', RecordInv, RecordInv', [Next]_vars
  PROVE  [Store!Next]_<<storeOwner, digest>>
  <1>1. ASSUME NEW t \in Threads, Step(t) PROVE [Store!Next]_<<storeOwner, digest>>
    BY <1>1, StoreCallStep
  <1>2. ASSUME NEW t \in Threads, Begin(t) \/ WaitTimeout(t)
        PROVE  [Store!Next]_<<storeOwner, digest>>
    <2>1. digest' = digest
      BY <1>2 DEF Begin, WaitTimeout, db
    <2>2. \A u \in Downloaders : pc'[u] \in DownloadLabels <=> pc[u] \in DownloadLabels
      BY <1>2 DEF Begin, WaitTimeout, Goto, DownloadLabels, TypeInv, TypeOK, Threads
    <2> QED BY <2>1, <2>2, SameOwner
  <1>3. CASE LateWrite \/ DeleteTask \/ ListPieces \/ DeleteContent \/ UNCHANGED vars
    <2>1. pc' = pc /\ digest' = digest
      BY <1>3 DEF LateWrite, DeleteTask, ListPieces, DeleteContent, vars, db
    <2> QED BY <2>1, SameOwner
  <1>4. CASE DeletePieces
    <2>1. pc' = pc /\ digest' = NoPayload
      BY <1>4 DEF DeletePieces, DeletePiece
    <2> QED BY <2>1, SameOwner DEF Store!Next, Store!Forget
  <1>5. CASE Restart
    <2>1. digest' = digest /\ \A u \in Downloaders : pc'[u] \notin DownloadLabels
      BY <1>5 DEF Restart, db, DownloadLabels, Threads
    <2> QED BY <2>1, OwnerBecomesNobody DEF Store!Next, Store!Restart
  <1> QED BY <1>1, <1>2, <1>3, <1>4, <1>5 DEF Next

(* With MaxTimeouts = 0 (no wait outlasts the owner's download), for every *)
(* number of concurrent downloads and uploads, of RocksDB failures, task   *)
(* deletions and restarts, the non-atomic protocol of the record, the      *)
(* notifier map and the scope guard implements the atomic store: one       *)
(* download at a time, begun only when nothing is stored, and a stored     *)
(* digest is only ever forgotten, never replaced.                          *)
THEOREM StoreIsImplemented ==
  ASSUME MaxTimeouts = 0
  PROVE  Spec => ImplementsStore
  <1>1. Init => ClaimInv
    BY DEF Init, ClaimInv, OneOwner, Owners, Owns, OwnerLabels, EntryLabels, DownloadLabels,
           ExpireLabels
  <1>2. TypeInv /\ ClaimInv /\ [Next]_vars => ClaimInv'
    BY ClaimInvNext
  <1>3. Init => RecordInv
    BY Assumptions DEF Init, RecordInv, Linked, Honest, ClaimLabels, OwnerLabels, EntryLabels,
       DownloadLabels, Unfinished, Complete
  <1>4. TypeInv /\ ClaimInv /\ RecordInv /\ [Next]_vars => RecordInv'
    BY RecordInvNext
  <1>5. Init => Store!Init
    <2> SUFFICES ASSUME Init PROVE Store!Init
      OBVIOUS
    <2>1. \A u \in Downloaders : pc[u] \notin DownloadLabels
      BY DEF Init, DownloadLabels, Threads
    <2> QED BY <2>1, OwnerIsNobody DEF Init, Store!Init
  <1>6. /\ TypeInv /\ ClaimInv /\ ClaimInv' /\ RecordInv /\ RecordInv' /\ [Next]_vars
        => [Store!Next]_<<storeOwner, digest>>
    BY StoreNext
  <1> QED BY <1>1, <1>2, <1>3, <1>4, <1>5, <1>6, TypeInvInit, TypeInvNext, PTL
         DEF Spec, ImplementsStore, Store!Spec
=============================================================================
