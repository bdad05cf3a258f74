----------------------------- MODULE UrmaFabric -----------------------------
(***************************************************************************)
(* The URMA fabric (urma/fabric.rs, runtime.rs, lane.rs, completion.rs):   *)
(* one owner thread holds the native runtime, the peer lanes, the router   *)
(* of completions and the registered buffer pool.  Other threads send it   *)
(* commands and hold leases on registered slots; the provider completes    *)
(* posted work requests at its own pace.                                   *)
(*                                                                         *)
(* A command is one step of the owner thread; a poll of the completion     *)
(* queues is several, one per completion record, so that the records of a  *)
(* poll are routed before its failure is dealt with, as drain_batch does.  *)
(* Payloads, lengths and sequence encodings are left out; a sequence is    *)
(* the SEND_IMM identity a receive waits for.                              *)
(***************************************************************************)
EXTENDS UrmaBufferPool

CONSTANTS
    Lanes,        \* lanes the process may create
    NoLane,
    Seqs,         \* SEND_IMM identities of one lane
    MaxCredits,   \* bound: receive credits a lane holds at a time
    Faults        \* what the provider or a peer may do wrong:
                  \* "post" a post list is accepted only in part,
                  \* "status" a WR fails although its lane is not retiring,
                  \* "identity" a RECV carries no or an unknown identity or length,
                  \* "corrupt" a completion names a Jetty of another lane,
                  \* "native" a control call to the provider fails

ASSUME LanesAssumption == NoLane \notin Lanes
ASSUME MaxCreditsAssumption == MaxCredits \in Nat
ASSUME FaultsAssumption ==
    Faults \subseteq {"post", "status", "identity", "corrupt", "native"}

VARIABLES
    lane,      \* LaneState of each lane; "none" before create, "gone" once removed
    armed,     \* UrmaLane::retirement_armed
    credits,   \* LaneCredits::remote_receives_available
    ret,       \* LaneRetirement: "unregistered", "registered", "waiting", "flushed"
    wrLane,    \* CompletionRouter::outstanding, the lane of the WR on each slot
    wrGen,     \* its slot generation
    wrTarget,  \* the lease whose window waits for it, 0 if none
    rxIds,     \* registered_rx_by_identity, per lane
    hw,        \* the provider's view of a slot: "idle", "posted" or "done" (CQE queued)
    holder,    \* who holds the LeaseCore of a lease
    txErr,     \* RegisteredTxWindowInner::first_error is set, until the window resolves
    permits,   \* tx_slot_admission
    poisoned,  \* the owner loop's poison
    pc,        \* where the owner thread is
    phase,     \* "run", or "drain" once shutdown_inner runs
    pollErr,   \* first error of the running poll: "none", "completion", "protocol"
    reapErr,   \* did reap_drained_lanes stop on an error?
    failures,  \* has shutdown_inner recorded a failure?
    active     \* the process-wide ACTIVE guard

laneVars   == <<lane, armed, credits, ret>>
routerVars == <<wrLane, wrGen, wrTarget, rxIds>>
leaseVars  == <<holder, txErr, permits>>
ownerVars  == <<poisoned, pc, phase, pollErr, reapErr, failures, active>>
vars == <<poolVars, laneVars, routerVars, hw, leaseVars, ownerVars>>

Flag == {"no", "yes"}
LaneStates == {"none", "DescriptorExchanged", "Ready", "Draining", "Failed", "Closed", "gone"}
Holders == {"none", "caller", "window", "queued", "lost"}

TypeOK ==
    /\ slotState \in [Slots -> SlotStates]
    /\ slotGen \in [Slots -> 0..GenMax]
    /\ free \in [Slots -> Nat]
    /\ leases \in [LeaseIds -> SUBSET (Slots \X (0..GenMax))]
    /\ segment \in {"open", "closed", "forgotten"}
    /\ lane \in [Lanes -> LaneStates]
    /\ armed \in [Lanes -> Flag]
    /\ credits \in [Lanes -> 0..MaxCredits]
    /\ ret \in [Lanes -> {"unregistered", "registered", "waiting", "flushed"}]
    /\ wrLane \in [Slots -> Lanes \cup {NoLane}]
    /\ wrGen \in [Slots -> 0..GenMax]
    /\ wrTarget \in [Slots -> LeaseIds \cup {0}]
    /\ rxIds \in [Lanes -> SUBSET Seqs]
    /\ hw \in [Slots -> {"idle", "posted", "done"}]
    /\ holder \in [LeaseIds -> Holders]
    /\ txErr \in [LeaseIds -> Flag]
    /\ permits \in Nat
    /\ poisoned \in Flag
    /\ pc \in {"serve", "pollSend", "pollRecv", "pollEnd",
               "reapAbort", "reapPoll", "reapShut", "drain", "stopped"}
    /\ phase \in {"run", "drain"}
    /\ pollErr \in {"none", "completion", "protocol"}
    /\ reapErr \in Flag
    /\ failures \in Flag
    /\ active \in Flag

Init ==
    /\ PoolInit
    /\ lane = [l \in Lanes |-> "none"]
    /\ armed = [l \in Lanes |-> "no"]
    /\ credits = [l \in Lanes |-> 0]
    /\ ret = [l \in Lanes |-> "unregistered"]
    /\ wrLane = [s \in Slots |-> NoLane]
    /\ wrGen = [s \in Slots |-> 0]
    /\ wrTarget = [s \in Slots |-> 0]
    /\ rxIds = [l \in Lanes |-> {}]
    /\ hw = [s \in Slots |-> "idle"]
    /\ holder = [i \in LeaseIds |-> "none"]
    /\ txErr = [i \in LeaseIds |-> "no"]
    /\ permits = Cardinality(TxSlots)
    /\ poisoned = "no"
    /\ pc = "serve"
    /\ phase = "run"
    /\ pollErr = "none"
    /\ reapErr = "no"
    /\ failures = "no"
    /\ active = "yes"

Outstanding == {s \in Slots : wrLane[s] # NoLane}
OutstandingOf(l) == {s \in Slots : wrLane[s] = l}
PendingFlush == \E l \in Lanes : ret[l] = "waiting"
OwnedLanes == {l \in Lanes : lane[l] \notin {"none", "gone"}}
NativeResult == IF "native" \in Faults THEN {"ok", "err"} ELSE {"ok"}

-----------------------------------------------------------------------------
(* Lanes.                                                                  *)

\* The pc guard: the owner takes a command only between two polls.
CreateLane(l) ==
    /\ pc = "serve" /\ poisoned = "no" /\ lane[l] = "none"
    /\ lane' = [lane EXCEPT ![l] = "DescriptorExchanged"]
    /\ ret' = [ret EXCEPT ![l] = "registered"]
    /\ UNCHANGED <<poolVars, armed, credits, routerVars, hw, leaseVars, ownerVars>>

BindLane(l) ==
    /\ pc = "serve" /\ poisoned = "no" /\ lane[l] = "DescriptorExchanged"
    /\ lane' = [lane EXCEPT ![l] = "Ready"]
    /\ UNCHANGED <<poolVars, armed, credits, ret, routerVars, hw, leaseVars, ownerVars>>

GrantSendCredit(l, n) ==
    /\ pc = "serve" /\ poisoned = "no" /\ lane[l] = "Ready"
    /\ credits[l] + n <= MaxCredits
    /\ credits' = [credits EXCEPT ![l] = @ + n]
    /\ UNCHANGED <<poolVars, lane, armed, ret, routerVars, hw, leaseVars, ownerVars>>

\* abort_lane; close_lane is the same call.  A failed mark_error leaves the
\* lane Draining and unarmed, and skips the reap.
AbortLane(l) ==
    /\ pc = "serve" /\ ret[l] # "unregistered"
    /\ ret' = [ret EXCEPT ![l] = IF @ = "flushed" THEN @ ELSE "waiting"]
    /\ \E marked \in NativeResult :
          IF lane[l] = "Closed"
          THEN pc' = "reapAbort" /\ UNCHANGED <<lane, armed>>
          ELSE /\ lane' = [lane EXCEPT ![l] = "Draining"]
               /\ armed' = [armed EXCEPT ![l] = IF marked = "ok" THEN "yes" ELSE @]
               /\ pc' = IF marked = "ok" THEN "reapAbort" ELSE "serve"
    /\ UNCHANGED <<poolVars, credits, routerVars, hw, leaseVars,
                   poisoned, phase, pollErr, reapErr, failures, active>>

-----------------------------------------------------------------------------
(* Windows.                                                                *)

(***************************************************************************)
(* Reserve the RX slots S, one per sequence of Q, and post them.  P is the *)
(* prefix the provider accepts, waiting for the identities I.              *)
(***************************************************************************)
PostReceiveWindow(l, Q, S, P, I) ==
    /\ pc = "serve" /\ poisoned = "no" /\ lane[l] = "Ready"
    /\ Q # {} /\ Q \cap rxIds[l] = {}
    /\ Cardinality(S) = Cardinality(Q)
    /\ Cardinality(P) = Cardinality(I)
    /\ P # S => "post" \in Faults
    /\ PostRxSlots(S, P)
    /\ hw' = [s \in Slots |-> IF s \in P THEN "posted" ELSE hw[s]]
    /\ wrLane' = [s \in Slots |-> IF s \in P THEN l ELSE wrLane[s]]
    /\ wrGen' = [s \in Slots |-> IF s \in P THEN slotGen'[s] ELSE wrGen[s]]
    /\ rxIds' = [rxIds EXCEPT ![l] = @ \cup I]
    /\ UNCHANGED <<laneVars, wrTarget, leaseVars, ownerVars>>

\* The admission permits are taken first; without a free slot they go back.
AcquireTxWindow(S) ==
    /\ pc = "serve" /\ poisoned = "no"
    /\ S # {} /\ permits >= Cardinality(S)
    /\ \A s \in S : slotState[s] = "Free"
    /\ UnusedLeases # {}
    /\ LeaseTxSlots(NewLease, S)
    /\ holder' = [holder EXCEPT ![NewLease] = "caller"]
    /\ permits' = permits - Cardinality(S)
    /\ UNCHANGED <<laneVars, routerVars, hw, txErr, ownerVars>>

TxLease(i) == leases[i] # {} /\ SlotsOf(leases[i]) \subseteq TxSlots

(***************************************************************************)
(* Post a leased window; P is the prefix the provider accepts.  Nothing    *)
(* posted: finish_posting resolves the window at once and drops the lease. *)
(***************************************************************************)
SendRegisteredWindow(l, i, P) ==
    /\ pc = "serve" /\ poisoned = "no" /\ lane[l] = "Ready"
    /\ holder[i] = "caller" /\ TxLease(i)
    /\ credits[l] >= Cardinality(SlotsOf(leases[i]))
    /\ \A id \in leases[i] : Current(id, "LeasedTx")
    /\ P # SlotsOf(leases[i]) => "post" \in Faults
    /\ PostTxSlots(P)
    /\ credits' = [credits EXCEPT ![l] = @ - Cardinality(P)]
    /\ hw' = [s \in Slots |-> IF s \in P THEN "posted" ELSE hw[s]]
    /\ wrLane' = [s \in Slots |-> IF s \in P THEN l ELSE wrLane[s]]
    /\ wrGen' = [s \in Slots |-> IF s \in P THEN slotGen[s] ELSE wrGen[s]]
    /\ wrTarget' = [s \in Slots |-> IF s \in P THEN i ELSE wrTarget[s]]
    /\ holder' = [holder EXCEPT ![i] = IF P = {} THEN "queued" ELSE "window"]
    /\ txErr' = [txErr EXCEPT ![i] = IF P \in {{}, SlotsOf(leases[i])} THEN "no" ELSE "yes"]
    /\ UNCHANGED <<lane, armed, ret, rxIds, permits, ownerVars>>

\* Mutant: the permits of a refused window are given back at once, and again with its slots.
SendRefusedRefunds(l, i) ==
    /\ pc = "serve" /\ holder[i] = "caller" /\ TxLease(i)
    /\ poisoned = "yes" \/ lane[l] # "Ready" \/ credits[l] < Cardinality(SlotsOf(leases[i]))
    /\ holder' = [holder EXCEPT ![i] = "queued"]
    /\ permits' = permits + Cardinality(leases[i])
    /\ UNCHANGED <<poolVars, laneVars, routerVars, hw, txErr, ownerVars>>

\* A refused command drops the lease it carried.
SendRefused(l, i) ==
    /\ pc = "serve" /\ holder[i] = "caller" /\ TxLease(i)
    /\ \/ poisoned = "yes"
       \/ lane[l] # "Ready"
       \/ credits[l] < Cardinality(SlotsOf(leases[i]))
    /\ holder' = [holder EXCEPT ![i] = "queued"]
    /\ UNCHANGED <<poolVars, laneVars, routerVars, hw, txErr, permits, ownerVars>>

\* The caller (any thread, at any time) drops a lease: a recycle command is queued.
DropLease(i) ==
    /\ holder[i] = "caller"
    /\ holder' = [holder EXCEPT ![i] = "queued"]
    /\ UNCHANGED <<poolVars, laneVars, routerVars, hw, txErr, permits, ownerVars>>

Refund(i) == IF TxLease(i) THEN Cardinality(leases[i]) ELSE 0

\* A dropped lease whose slots are not all leased any more is only logged.
RecycleLease(i) ==
    /\ pc = "serve" /\ holder[i] = "queued"
    /\ IF Recyclable(i)
       THEN /\ Recycle(i)
            /\ permits' = permits + Refund(i)
            /\ holder' = [holder EXCEPT ![i] = "none"]
       ELSE /\ holder' = [holder EXCEPT ![i] = "lost"]
            /\ UNCHANGED <<poolVars, permits>>
    /\ UNCHANGED <<laneVars, routerVars, hw, txErr, ownerVars>>

\* recycle_{tx,rx}_window: the caller hands its lease over; a refused one is dropped.
RecycleWindow(i) ==
    /\ pc = "serve" /\ holder[i] = "caller"
    /\ IF Recyclable(i)
       THEN /\ Recycle(i)
            /\ permits' = permits + Refund(i)
            /\ holder' = [holder EXCEPT ![i] = "none"]
       ELSE /\ holder' = [holder EXCEPT ![i] = "queued"]
            /\ UNCHANGED <<poolVars, permits>>
    /\ UNCHANGED <<laneVars, routerVars, hw, txErr, ownerVars>>

-----------------------------------------------------------------------------
(* The provider.                                                           *)

ProviderCompletes(s) ==
    /\ hw[s] = "posted"
    /\ hw' = [hw EXCEPT ![s] = "done"]
    /\ UNCHANGED <<poolVars, laneVars, routerVars, leaseVars, ownerVars>>

-----------------------------------------------------------------------------
(* The poll.                                                               *)

\* Which queue poll_once reads first.
FirstQueue ==
    IF Outstanding \cap TxSlots # {} \/ PendingFlush THEN "pollSend" ELSE "pollRecv"

\* Mutant: only unfinished SENDs keep the owner polling.
PollBeginForSends ==
    /\ pc = "serve" /\ Outstanding \cap TxSlots # {}
    /\ pc' = FirstQueue
    /\ pollErr' = "none"
    /\ UNCHANGED <<poolVars, laneVars, routerVars, hw, leaseVars,
                   poisoned, phase, reapErr, failures, active>>

\* The owner polls only while it counts an unfinished WR; otherwise it blocks
\* on the command channel.
PollBegin ==
    /\ pc = "serve" /\ Outstanding # {}
    /\ pc' = FirstQueue
    /\ pollErr' = "none"
    /\ UNCHANGED <<poolVars, laneVars, routerVars, hw, leaseVars,
                   poisoned, phase, reapErr, failures, active>>

\* poll_jfc itself fails: nothing is read from this queue.
PollFails ==
    /\ "native" \in Faults
    /\ \/ pc = "pollSend" /\ pc' = "pollRecv"
       \/ pc = "pollRecv" /\ pc' = "pollEnd"
    /\ pollErr' = IF pollErr = "none" THEN "protocol" ELSE pollErr
    /\ UNCHANGED <<poolVars, laneVars, routerVars, hw, leaseVars,
                   poisoned, phase, reapErr, failures, active>>

PollNext ==
    /\ \/ pc = "pollSend" /\ pc' = "pollRecv"
       \/ pc = "pollRecv" /\ pc' = "pollEnd"
    /\ UNCHANGED <<poolVars, laneVars, routerVars, hw, leaseVars,
                   poisoned, phase, pollErr, reapErr, failures, active>>

FirstError(e) == IF pollErr = "none" THEN e ELSE pollErr

\* The native Jetty id of the record is not that of the token's lane.
RouteCorrupt(s) ==
    /\ "corrupt" \in Faults
    /\ pc = (IF s \in TxSlots THEN "pollSend" ELSE "pollRecv")
    /\ hw[s] = "done"
    /\ hw' = [hw EXCEPT ![s] = "idle"]
    /\ pollErr' = FirstError("protocol")
    /\ UNCHANGED <<poolVars, laneVars, routerVars, leaseVars,
                   poisoned, pc, phase, reapErr, failures, active>>

Retire(s) ==
    /\ hw' = [hw EXCEPT ![s] = "idle"]
    /\ wrLane' = [wrLane EXCEPT ![s] = NoLane]
    /\ wrGen' = [wrGen EXCEPT ![s] = 0]
    /\ wrTarget' = [wrTarget EXCEPT ![s] = 0]

Retiring(s) == ret[wrLane[s]] \in {"waiting", "flushed"}

\* Mutant: the window resolves at its first completion.
RouteSendEager(s, ok) ==
    /\ pc = "pollSend" /\ s \in TxSlots /\ hw[s] = "done" /\ wrLane[s] # NoLane
    /\ ok \/ Retiring(s) \/ "status" \in Faults
    /\ Retire(s)
    /\ IF wrTarget[s] = 0
       THEN CompleteError(s) /\ UNCHANGED leaseVars
       ELSE /\ CompleteTxLeaseSend(s)
            /\ holder' = [holder EXCEPT ![wrTarget[s]] = IF ok THEN "caller" ELSE "queued"]
            /\ UNCHANGED <<txErr, permits>>
    /\ pollErr' = IF ok \/ Retiring(s) THEN pollErr ELSE FirstError("completion")
    /\ UNCHANGED <<laneVars, rxIds, poisoned, pc, phase, reapErr, failures, active>>

\* Mutant: a failed completion drops the lease of its window while other WRs of it
\* are still posted.
RouteSendDrops(s, ok) ==
    /\ pc = "pollSend" /\ s \in TxSlots /\ hw[s] = "done" /\ wrLane[s] # NoLane
    /\ ok \/ Retiring(s) \/ "status" \in Faults
    /\ Retire(s)
    /\ IF wrTarget[s] = 0
       THEN CompleteError(s) /\ UNCHANGED leaseVars
       ELSE LET last == \A t \in Slots \ {s} : wrTarget[t] # wrTarget[s]
            IN  /\ CompleteTxLeaseSend(s)
                /\ holder' = [holder EXCEPT ![wrTarget[s]] =
                                 IF ~last THEN IF ok THEN "window" ELSE "lost"
                                 ELSE IF ok THEN "caller" ELSE "queued"]
                /\ UNCHANGED <<txErr, permits>>
    /\ pollErr' = IF ok \/ Retiring(s) THEN pollErr ELSE FirstError("completion")
    /\ UNCHANGED <<laneVars, rxIds, poisoned, pc, phase, reapErr, failures, active>>

(***************************************************************************)
(* A SEND completion.  The window that waits for it resolves when it was   *)
(* its last: without an error the lease goes back to the caller, otherwise *)
(* it is dropped.  A WR whose window was failed before has no target.      *)
(***************************************************************************)
RouteSend(s, ok) ==
    /\ pc = "pollSend" /\ s \in TxSlots /\ hw[s] = "done" /\ wrLane[s] # NoLane
    /\ ok \/ Retiring(s) \/ "status" \in Faults
    /\ Retire(s)
    /\ IF wrTarget[s] = 0
       THEN /\ CompleteError(s)
            /\ pollErr' = IF ok THEN FirstError("protocol")
                          ELSE IF Retiring(s) THEN pollErr ELSE FirstError("completion")
            /\ UNCHANGED leaseVars
       ELSE LET i == wrTarget[s]
                failed == txErr[i] = "yes" \/ ~ok
                last == \A t \in Slots \ {s} : wrTarget[t] # i
            IN  /\ CompleteTxLeaseSend(s)
                /\ pollErr' = IF ok \/ Retiring(s) THEN pollErr ELSE FirstError("completion")
                /\ txErr' = [txErr EXCEPT ![i] = IF failed /\ ~last THEN "yes" ELSE "no"]
                /\ holder' = [holder EXCEPT ![i] =
                                 IF ~last THEN "window" ELSE IF failed THEN "queued" ELSE "caller"]
                /\ UNCHANGED permits
    /\ UNCHANGED <<laneVars, rxIds, poisoned, pc, phase, reapErr, failures, active>>

\* WR_FLUSH_ERR_DONE, once the Jetty was put into the error state.
RouteFlush(l) ==
    /\ pc = "pollSend" /\ ret[l] = "waiting" /\ armed[l] = "yes"
    /\ ret' = [ret EXCEPT ![l] = "flushed"]
    /\ UNCHANGED <<poolVars, lane, armed, credits, routerVars, hw, leaseVars, ownerVars>>

ReadyRecv(s) == pc = "pollRecv" /\ s \in RxSlots /\ hw[s] = "done" /\ wrLane[s] # NoLane

\* A RECV that carries the identity q: its waiter gets a lease on the slot,
\* whichever posted WR of the lane the message landed in.
RouteRecv(s, q) ==
    /\ ReadyRecv(s) /\ q \in rxIds[wrLane[s]]
    /\ UnusedLeases # {}
    /\ Retire(s)
    /\ rxIds' = [rxIds EXCEPT ![wrLane[s]] = @ \ {q}]
    /\ LeaseRxSlot(NewLease, s)
    /\ holder' = [holder EXCEPT ![NewLease] = "caller"]
    /\ UNCHANGED <<laneVars, txErr, permits, ownerVars>>

\* A RECV with no identity, an unknown one or a length out of range.  Only the
\* length check comes after the waiter was taken out of the map.
RouteRecvRejected(s, taken) ==
    /\ ReadyRecv(s)
    /\ "identity" \in Faults \/ rxIds[wrLane[s]] = {}
    /\ taken \subseteq rxIds[wrLane[s]] /\ Cardinality(taken) <= 1
    /\ Retire(s)
    /\ rxIds' = [rxIds EXCEPT ![wrLane[s]] = @ \ taken]
    /\ CompleteError(s)
    /\ pollErr' = FirstError("protocol")
    /\ UNCHANGED <<laneVars, leaseVars, poisoned, pc, phase, reapErr, failures, active>>

\* A RECV with an error status: the slot is released, the identity stays.
RouteRecvError(s) ==
    /\ ReadyRecv(s)
    /\ Retiring(s) \/ "status" \in Faults
    /\ Retire(s)
    /\ CompleteError(s)
    /\ pollErr' = IF Retiring(s) THEN pollErr ELSE FirstError("completion")
    /\ UNCHANGED <<laneVars, rxIds, leaseVars, poisoned, pc, phase, reapErr, failures, active>>

\* fail_pending: every waiter is answered; the windows lose their last owner,
\* so their leases are dropped although the slots are still posted.
FailPending ==
    /\ rxIds' = [l \in Lanes |-> {}]
    /\ wrTarget' = [s \in Slots |-> 0]
    /\ holder' = [i \in LeaseIds |-> IF holder[i] = "window" THEN "queued" ELSE holder[i]]
    /\ txErr' = [i \in LeaseIds |-> "no"]
    /\ UNCHANGED <<wrLane, wrGen>>

PollEnd ==
    /\ pc = "pollEnd"
    /\ IF pollErr = "none" THEN UNCHANGED <<routerVars, holder, txErr>> ELSE FailPending
    /\ pc' = "reapPoll"
    /\ UNCHANGED <<poolVars, laneVars, hw, permits,
                   poisoned, phase, pollErr, reapErr, failures, active>>

-----------------------------------------------------------------------------
(* Retirement and shutdown.                                                *)

Reaping == pc \in {"reapAbort", "reapPoll", "reapShut"}

\* Mutant: the flush sentinel alone retires the lane.
DrainedByFlush(l) == lane[l] = "Draining" /\ armed[l] = "yes" /\ ret[l] = "flushed"

Drained(l) ==
    /\ lane[l] = "Draining" /\ armed[l] = "yes" /\ ret[l] = "flushed"
    /\ OutstandingOf(l) = {}

\* Close the Jetty, then unregister the lane; either may fail and ends the reap.
ReapLane(l) ==
    /\ Reaping /\ reapErr = "no" /\ Drained(l)
    /\ \E closed \in NativeResult :
          IF closed = "err"
          THEN /\ lane' = [lane EXCEPT ![l] = "Failed"]
               /\ reapErr' = "yes"
               /\ UNCHANGED <<credits, ret>>
          ELSE /\ credits' = [credits EXCEPT ![l] = 0]
               /\ IF rxIds[l] # {}
                  THEN /\ lane' = [lane EXCEPT ![l] = "Closed"]
                       /\ reapErr' = "yes"
                       /\ UNCHANGED ret
                  ELSE /\ lane' = [lane EXCEPT ![l] = "gone"]
                       /\ ret' = [ret EXCEPT ![l] = "unregistered"]
                       /\ UNCHANGED reapErr
    /\ UNCHANGED <<poolVars, armed, routerVars, hw, leaseVars,
                   poisoned, pc, phase, pollErr, failures, active>>

\* Mutant: the reap may end while a drained lane is left.
ReapDoneEarly ==
    /\ Reaping
    /\ reapErr' = "no"
    /\ LET bad == pollErr = "protocol" \/ (pollErr = "none" /\ reapErr = "yes")
       IN  \/ /\ pc = "reapAbort"
              /\ pc' = "serve"
              /\ UNCHANGED <<poisoned, failures>>
           \/ /\ pc = "reapPoll" /\ phase = "run"
              /\ pc' = "serve"
              /\ poisoned' = IF bad \/ pollErr = "completion" THEN "yes" ELSE poisoned
              /\ UNCHANGED failures
           \/ /\ pc = "reapPoll" /\ phase = "drain"
              /\ pc' = "drain"
              /\ failures' = IF bad THEN "yes" ELSE failures
              /\ UNCHANGED poisoned
           \/ /\ pc = "reapShut"
              /\ pc' = "drain"
              /\ failures' = IF reapErr = "yes" THEN "yes" ELSE failures
              /\ UNCHANGED poisoned
    /\ pollErr' = "none"
    /\ UNCHANGED <<poolVars, laneVars, routerVars, hw, leaseVars, phase, active>>

\* The reap is over: answer the abort, or let the poll's error poison the
\* fabric (while running) or count against the shutdown.
ReapDone ==
    /\ Reaping
    /\ reapErr = "yes" \/ \A l \in Lanes : ~Drained(l)
    /\ reapErr' = "no"
    /\ LET bad == pollErr = "protocol" \/ (pollErr = "none" /\ reapErr = "yes")
       IN  \/ /\ pc = "reapAbort"
              /\ pc' = "serve"
              /\ UNCHANGED <<poisoned, failures>>
           \/ /\ pc = "reapPoll" /\ phase = "run"
              /\ pc' = "serve"
              /\ poisoned' = IF bad \/ pollErr = "completion" THEN "yes" ELSE poisoned
              /\ UNCHANGED failures
           \/ /\ pc = "reapPoll" /\ phase = "drain"
              /\ pc' = "drain"
              /\ failures' = IF bad THEN "yes" ELSE failures
              /\ UNCHANGED poisoned
           \/ /\ pc = "reapShut"
              /\ pc' = "drain"
              /\ failures' = IF reapErr = "yes" THEN "yes" ELSE failures
              /\ UNCHANGED poisoned
    /\ pollErr' = "none"
    /\ UNCHANGED <<poolVars, laneVars, routerVars, hw, leaseVars, phase, active>>

\* The last handle goes away or asks for it: abort every lane, then drain.
Shutdown ==
    /\ pc = "serve"
    /\ ret' = [l \in Lanes |-> IF ret[l] = "registered" THEN "waiting" ELSE ret[l]]
    /\ \E unmarked \in SUBSET {l \in OwnedLanes : lane[l] # "Closed"} :
          /\ unmarked # {} => "native" \in Faults
          /\ lane' = [l \in Lanes |->
                         IF l \in OwnedLanes /\ lane[l] # "Closed" THEN "Draining" ELSE lane[l]]
          /\ armed' = [l \in Lanes |->
                         IF l \in OwnedLanes \ unmarked /\ lane[l] # "Closed" THEN "yes" ELSE armed[l]]
          /\ failures' = IF unmarked # {} THEN "yes" ELSE "no"
    /\ phase' = "drain"
    /\ pc' = "reapShut"
    /\ UNCHANGED <<poolVars, credits, routerVars, hw, leaseVars, poisoned, pollErr, reapErr, active>>

DrainPoll ==
    /\ pc = "drain" /\ OwnedLanes # {}
    /\ pc' = FirstQueue
    /\ pollErr' = "none"
    /\ UNCHANGED <<poolVars, laneVars, routerVars, hw, leaseVars,
                   poisoned, phase, reapErr, failures, active>>

\* Mutant: the guard is given back when the pool closed.
DrainEndCareless ==
    /\ pc = "drain"
    /\ \E closed \in NativeResult :
          /\ EndPool(Outstanding # {}, closed = "err")
          /\ active' = IF NoActiveLease /\ closed = "ok" THEN "no" ELSE active
    /\ pc' = "stopped"
    /\ UNCHANGED <<laneVars, routerVars, hw, leaseVars,
                   poisoned, phase, pollErr, reapErr, failures>>

\* Mutant: no deadline.
DrainEndWaits ==
    /\ pc = "drain" /\ OwnedLanes = {}
    /\ \E closed \in NativeResult :
          /\ EndPool(Outstanding # {}, closed = "err")
          /\ active' = IF NoActiveLease /\ failures = "no" THEN "no" ELSE active
    /\ pc' = "stopped"
    /\ UNCHANGED <<laneVars, routerVars, hw, leaseVars,
                   poisoned, phase, pollErr, reapErr, failures>>

\* All lanes are gone, or the second has passed.  The process guard is given
\* back only by a shutdown without failures.
DrainEnd ==
    /\ pc = "drain"
    /\ \E closed \in NativeResult :
          /\ EndPool(Outstanding # {}, closed = "err")
          /\ active' = IF OwnedLanes = {} /\ NoActiveLease /\ failures = "no" /\ closed = "ok"
                       THEN "no" ELSE active
    /\ pc' = "stopped"
    /\ UNCHANGED <<laneVars, routerVars, hw, leaseVars,
                   poisoned, phase, pollErr, reapErr, failures>>

-----------------------------------------------------------------------------
Command ==
    \/ \E l \in Lanes :
          \/ CreateLane(l)
          \/ BindLane(l)
          \/ AbortLane(l)
          \/ \E n \in 1..MaxCredits : GrantSendCredit(l, n)
          \/ \E Q \in SUBSET Seqs, S \in SUBSET OnFreeList(RxSlots) :
                \E P \in SUBSET S, I \in SUBSET Q : PostReceiveWindow(l, Q, S, P, I)
    \/ \E S \in SUBSET OnFreeList(TxSlots) : AcquireTxWindow(S)
    \/ \E i \in LeaseIds :
          \/ \E l \in Lanes : \E P \in SUBSET SlotsOf(leases[i]) : SendRegisteredWindow(l, i, P)
          \/ \E l \in Lanes : SendRefused(l, i)
          \/ DropLease(i)
          \/ RecycleWindow(i)
    \/ Shutdown

Recycling == \E i \in LeaseIds : RecycleLease(i)

Route ==
    \/ \E s \in Slots :
          \/ \E ok \in BOOLEAN : RouteSend(s, ok)
          \/ RouteCorrupt(s)
          \/ \E q \in Seqs : RouteRecv(s, q)
          \/ \E taken \in SUBSET Seqs : RouteRecvRejected(s, taken)
          \/ RouteRecvError(s)
    \/ \E l \in Lanes : RouteFlush(l)

Reap == ReapDone \/ \E l \in Lanes : ReapLane(l)

Provider == \E s \in Slots : ProviderCompletes(s)

Next ==
    \/ Command \/ Recycling \/ Provider
    \/ PollBegin \/ Route \/ PollNext \/ PollFails \/ PollEnd
    \/ Reap \/ DrainPoll \/ DrainEnd

Spec == Init /\ [][Next]_vars

\* The owner thread goes on while it has something to do, a poll that recurs
\* reads every queued record, the provider completes what was posted, and the
\* drain deadline passes.
RouteSlot(s) ==
    \/ \E ok \in BOOLEAN : RouteSend(s, ok)
    \/ \E q \in Seqs : RouteRecv(s, q)
    \/ \E taken \in SUBSET Seqs : RouteRecvRejected(s, taken)
    \/ RouteRecvError(s)

Fairness ==
    /\ SF_vars(PollBegin) /\ WF_vars(PollNext) /\ WF_vars(PollEnd)
    /\ WF_vars(Reap) /\ WF_vars(DrainPoll) /\ SF_vars(DrainEnd)
    /\ WF_vars(Recycling)
    /\ \A s \in Slots : WF_vars(ProviderCompletes(s)) /\ SF_vars(RouteSlot(s))
    /\ \A l \in Lanes : SF_vars(RouteFlush(l))

FairSpec == Spec /\ Fairness

-----------------------------------------------------------------------------
(* What the fabric promises.                                               *)

(***************************************************************************)
(* Every slot has exactly one owner, whatever fails: its free list once,   *)
(* the provider through one tracked WR of the same generation, or one      *)
(* lease of the book.           (buffer.rs transition, release, recycle;   *)
(* completion.rs track_*, take_outstanding.)                               *)
(***************************************************************************)
SlotOwnership ==
    \A s \in Slots :
       /\ free[s] = IF slotState[s] = "Free" THEN 1 ELSE 0
       /\ wrLane[s] # NoLane <=> slotState[s] \in {"PostedRecv", "SendPosted"}
       /\ wrLane[s] # NoLane => wrGen[s] = slotGen[s]
       /\ hw[s] # "idle" => wrLane[s] # NoLane
       /\ slotState[s] = LeasedAs(s) =>
             \E i \in LeaseIds :
                /\ <<s, slotGen[s]>> \in leases[i]
                /\ \A j \in LeaseIds \ {i} : <<s, slotGen[s]>> \notin leases[j]

(***************************************************************************)
(* The memory behind a lease in a caller's hands is the caller's alone: no *)
(* slot of it is free, posted or leased under another generation, however  *)
(* the completions of its window and the failures of the fabric interleave *)
(* (RegisteredTxWindowState::resolve, lease_completed_rx_window).          *)
(***************************************************************************)
HeldLeaseIntact ==
    \A i \in LeaseIds :
       holder[i] = "caller" =>
          /\ leases[i] # {}
          /\ \A id \in leases[i] : Current(id, LeasedAs(id[1])) /\ hw[id[1]] = "idle"

\* The Segment is not unregistered and freed while the provider may still
\* write into it or another thread reads or fills it (UrmaBufferPool::close,
\* its Drop, and the shim's count of unfinished WRs).
SegmentOutlivesUse ==
    segment = "closed" =>
       /\ \A s \in Slots : hw[s] # "posted"
       /\ \A i \in LeaseIds : holder[i] # "caller"

\* An admitted TX acquisition finds its slots: the semaphore never promises
\* more than the free list holds (commit_ and release_tx_slot_permits).
PermitsBacked == permits <= Cardinality({s \in TxSlots : slotState[s] = "Free"})

\* A Jetty is closed only when none of its WRs is unfinished, although WRs are
\* posted, completed and flushed while it retires (reap_drained_lanes).
JettyOutlivesWrs ==
    \A l \in Lanes : lane[l] \in {"Failed", "Closed", "gone"} => OutstandingOf(l) = {}

\* The process guard, which lets a new fabric start, is given back only when
\* nothing of the old one is left (shutdown_inner).
GuardGivenBackClean ==
    active = "no" =>
       /\ segment = "closed" /\ OwnedLanes = {} /\ Outstanding = {}
       /\ \A i \in LeaseIds : holder[i] \in {"none", "lost"}

\* A window keeps its buffers until its last completion, which retires them: a
\* lease is left behind without a holder only by a poll that failed, which answers
\* every waiter and drops the windows whose slots are still posted (fail_pending).
NoLostLease ==
    \A i \in LeaseIds : holder[i] = "lost" => poisoned = "yes" \/ phase = "drain" \/ pollErr # "none"

\* The owner keeps a lane until every WR and the flush sentinel have been
\* consumed, and no longer (close_lane); one that is closed but cannot leave,
\* because an identity is still registered for it, poisons the fabric.
RetiredLanesLeave ==
    pc = "serve" /\ poisoned = "no" => \A l \in Lanes : ~Drained(l) /\ lane[l] # "Closed"

\* The buffers behind a lease stay its holder's, and its window gives them back.
LeasesKept == HeldLeaseIntact /\ NoLostLease

\* What the provider and other threads use outlives its use, and goes once it is not
\* used any more: the Jetty of a lane, the lane, the Segment and the process guard.
LifetimesNest == JettyOutlivesWrs /\ RetiredLanesLeave /\ SegmentOutlivesUse /\ GuardGivenBackClean

\* Every posted WR is retired, whatever fails, unless the fabric stops first.
WrsRetire == \A s \in Slots : wrLane[s] # NoLane ~> (wrLane[s] = NoLane \/ pc = "stopped")

\* A shutdown comes to an end even if a lane cannot be retired.
ShutdownEnds == phase = "drain" ~> pc = "stopped"
=============================================================================
