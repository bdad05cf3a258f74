-------------------------- MODULE UrmaFabricProofs --------------------------
(***************************************************************************)
(* Proofs about UrmaFabric for every number of slots, lanes, leases,       *)
(* generations and credits, and every choice of faults.                    *)
(***************************************************************************)
EXTENDS UrmaFabric, FiniteSetTheorems, FunctionTheorems, TLAPS

-----------------------------------------------------------------------------
(* The inductive invariant, in parts.                                      *)

\* A poll has failed: its error waits to be dealt with, it has poisoned the
\* fabric, or the fabric is going down.  From then on no slot is handed out.
Broken == poisoned = "yes" \/ phase = "drain" \/ pollErr # "none"

Tracked(s) ==
    /\ s \in TxSlots => slotState[s] \in {"Free", "LeasedTx", "SendPosted"}
    /\ s \in RxSlots => slotState[s] \in {"Free", "PostedRecv", "LeasedRx"}
    /\ free[s] = IF slotState[s] = "Free" THEN 1 ELSE 0
    /\ wrLane[s] # NoLane <=> slotState[s] \in {"PostedRecv", "SendPosted"}
    /\ wrLane[s] # NoLane => wrGen[s] = slotGen[s]
    /\ hw[s] # "idle" => wrLane[s] # NoLane
    /\ wrLane[s] = NoLane => wrTarget[s] = 0

\* A WR belongs to the window that waits for it, unless its poll has failed.
Awaited(s) ==
    /\ wrTarget[s] # 0 => /\ s \in TxSlots
                          /\ holder[wrTarget[s]] = "window"
                          /\ <<s, slotGen[s]>> \in leases[wrTarget[s]]
    /\ slotState[s] = "SendPosted" /\ wrTarget[s] = 0 => Broken
    /\ slotState[s] = LeasedAs(s) => \E i \in LeaseIds : <<s, slotGen[s]>> \in leases[i]

\* The slots of a lease keep their generation until it is recycled; they are
\* leased, or wait with its window, or were left behind by a failed poll.
Kept(i, id) ==
    /\ slotGen[id[1]] = id[2]
    /\ \/ slotState[id[1]] = LeasedAs(id[1])
       \/ holder[i] = "window" /\ wrTarget[id[1]] = i
       \/ Broken /\ holder[i] \in {"queued", "lost"} /\ id[1] \in TxSlots

Booked(i) ==
    /\ holder[i] = "none" <=> leases[i] = {}
    /\ SlotsOf(leases[i]) \subseteq TxSlots \/ SlotsOf(leases[i]) \subseteq RxSlots
    /\ holder[i] = "window" => SlotsOf(leases[i]) \subseteq TxSlots
    /\ holder[i] = "lost" => Broken
    /\ \A id \in leases[i] : Kept(i, id)

Apart(i, j) == i # j => SlotsOf(leases[i]) \cap SlotsOf(leases[j]) = {}

SlotInv == \A s \in Slots : Tracked(s) /\ Awaited(s)
LeaseInv == (\A i \in LeaseIds : Booked(i)) /\ \A i, j \in LeaseIds : Apart(i, j)

Staged(l) ==
    /\ lane[l] \in {"none", "gone", "Failed", "Closed"} => OutstandingOf(l) = {}
    /\ ret[l] = "unregistered" <=> lane[l] \in {"none", "gone"}
    /\ ret[l] = "registered" => lane[l] \in {"DescriptorExchanged", "Ready"}
    /\ ret[l] \in {"waiting", "flushed"} => lane[l] \in {"Draining", "Failed", "Closed"}
    /\ ret[l] = "flushed" => armed[l] = "yes"

\* While the fabric is healthy, every lane that could leave has left.
ReapInv ==
    poisoned = "no" /\ phase = "run" =>
       /\ pc \in {"serve", "reapAbort"} => \A l \in Lanes : ~Drained(l)
       /\ reapErr = "no" => \A l \in Lanes : lane[l] \notin {"Failed", "Closed"}
       /\ pc # "reapPoll" => reapErr = "no"

OwnerInv ==
    /\ pc \in {"serve", "reapAbort", "reapShut", "drain", "stopped"} => pollErr = "none"
    /\ pc \in {"serve", "reapAbort"} => phase = "run"
    /\ pc \in {"reapShut", "drain", "stopped"} => phase = "drain"
    /\ pc \notin {"reapAbort", "reapPoll", "reapShut"} => reapErr = "no"

LaneInv == (\A l \in Lanes : Staged(l)) /\ ReapInv

EndInv ==
    /\ segment # "open" => pc = "stopped"
    /\ segment = "closed" => Outstanding = {} /\ NoActiveLease
    /\ active = "no" => pc = "stopped" /\ segment = "closed" /\ OwnedLanes = {}

IInv == TypeOK /\ OwnerInv /\ SlotInv /\ LeaseInv /\ LaneInv /\ EndInv /\ PermitsBacked

-----------------------------------------------------------------------------
(* The operators of the model.                                             *)

(* The slots are finitely many, and so is every set of them. *)
LEMMA FiniteSlots ==
  /\ IsFiniteSet(Slots)
  /\ \A S \in SUBSET Slots : IsFiniteSet(S) /\ Cardinality(S) \in Nat
  <1>1. IsFiniteSet(Slots)
    BY SlotsAssumption, FS_Union DEF Slots
  <1>2. ASSUME NEW S \in SUBSET Slots PROVE IsFiniteSet(S) /\ Cardinality(S) \in Nat
    BY <1>1, FS_Subset, FS_CardinalityType
  <1> QED BY <1>1, <1>2

(* A smaller set of slots has fewer of them. *)
LEMMA CardinalitySubset ==
  ASSUME NEW S \in SUBSET Slots, NEW T \in SUBSET S
  PROVE  Cardinality(T) <= Cardinality(S)
  BY FiniteSlots, FS_Subset

(* Taking away or adding a disjoint set changes the size by that set's size. *)
LEMMA CardinalitySplit ==
  ASSUME NEW S \in SUBSET Slots, NEW T \in SUBSET Slots, S \cap T = {}
  PROVE  Cardinality(S \cup T) = Cardinality(S) + Cardinality(T)
  <1>1. Cardinality(S \cap T) = 0
    BY FS_EmptySet
  <1>2. IsFiniteSet(S) /\ IsFiniteSet(T) /\ Cardinality(S) \in Nat /\ Cardinality(T) \in Nat
    BY FiniteSlots
  <1>3. Cardinality(S \cup T) = Cardinality(S) + Cardinality(T) - Cardinality(S \cap T)
    BY <1>2, FS_Union
  <1> QED BY <1>1, <1>2, <1>3

(* The next lease is an unused one. *)
LEMMA NewLeaseUnused ==
  ASSUME UnusedLeases # {}
  PROVE  NewLease \in LeaseIds /\ leases[NewLease] = {} /\ NewLease # 0
  <1>1. NewLease \in UnusedLeases
    BY DEF NewLease
  <1> QED BY <1>1, LeaseIdsAssumption DEF UnusedLeases

(* Handing a slot out keeps its generation in range. *)
LEMMA BumpedType ==
  ASSUME slotGen \in [Slots -> 0..GenMax], NEW S
  PROVE  Bumped(S) \in [Slots -> 0..GenMax]
  <1>1. \A g \in 0..GenMax : NextGen(g) \in 0..GenMax
    BY GenAssumption DEF NextGen
  <1> QED BY <1>1 DEF Bumped

(* The identities of a set of slots name just those slots. *)
LEMMA IdentitiesNameSlots ==
  ASSUME NEW S, NEW gen
  PROVE  SlotsOf(Identities(S, gen)) = S
  <1>1. ASSUME NEW s \in S PROVE s \in SlotsOf(Identities(S, gen))
    <2>1. <<s, gen[s]>> \in Identities(S, gen)
      BY DEF Identities
    <2>2. <<s, gen[s]>>[1] \in SlotsOf(Identities(S, gen))
      BY <2>1 DEF SlotsOf
    <2> QED BY <2>2
  <1>2. ASSUME NEW s \in SlotsOf(Identities(S, gen)) PROVE s \in S
    BY DEF SlotsOf, Identities
  <1> QED BY <1>1, <1>2

(* Only no lease has no slots. *)
LEMMA SlotsOfEmpty == \A ids : SlotsOf(ids) = {} <=> ids = {}
  BY DEF SlotsOf

(* A set of identities with one generation per slot is as large as its slots. *)
LEMMA IdentitiesCounted ==
  ASSUME NEW ids \in SUBSET (Slots \X (0..GenMax)),
         \A a, b \in ids : a[1] = b[1] => a = b
  PROVE  Cardinality(ids) = Cardinality(SlotsOf(ids))
  <1> DEFINE f == [id \in ids |-> id[1]]
  <1>1. f \in Injection(ids, SlotsOf(ids))
    BY DEF Injection, IsInjective, SlotsOf
  <1>2. f \in Surjection(ids, SlotsOf(ids))
    BY <1>1 DEF Injection, Surjection, SlotsOf
  <1>3. SlotsOf(ids) \in SUBSET Slots
    BY DEF SlotsOf
  <1> HIDE DEF f
  <1>4. IsFiniteSet(SlotsOf(ids))
    BY <1>3, FiniteSlots
  <1> QED BY <1>1, <1>2, <1>4, FS_Injection

-----------------------------------------------------------------------------
(* What a step leaves alone.                                               *)

FreeTx == {s \in TxSlots : slotState[s] = "Free"}

(* The slots and the leases are as before when nothing of them changed. *)
LEMMA PoolFrame ==
  ASSUME SlotInv, LeaseInv, UNCHANGED <<poolVars, routerVars, hw, holder>>, Broken => Broken'
  PROVE  SlotInv' /\ LeaseInv'
  <1> USE DEF poolVars, routerVars
  <1>1. SlotInv'
    BY DEF SlotInv, Tracked, Awaited
  <1>2. \A i \in LeaseIds : Booked(i)'
    BY DEF LeaseInv, Booked, Kept, SlotsOf
  <1>3. \A i, j \in LeaseIds : Apart(i, j)'
    BY DEF LeaseInv, Apart, SlotsOf
  <1> QED BY <1>1, <1>2, <1>3 DEF LeaseInv

(* A step of the owner before its end that leaves Segment and guard alone. *)
LEMMA EndFrame ==
  ASSUME EndInv, pc # "stopped", UNCHANGED <<segment, active>>
  PROVE  EndInv'
  BY DEF EndInv

(* The permits stay backed when no TX slot leaves the free list. *)
LEMMA PermitsFrame ==
  ASSUME TypeOK, PermitsBacked, permits' = permits, FreeTx \subseteq FreeTx'
  PROVE  PermitsBacked'
  <1>1. FreeTx' \in SUBSET Slots /\ FreeTx \in SUBSET FreeTx'
    BY DEF FreeTx, Slots
  <1>2. Cardinality(FreeTx) <= Cardinality(FreeTx')
    BY <1>1, CardinalitySubset
  <1>3. Cardinality(FreeTx) \in Nat /\ Cardinality(FreeTx') \in Nat
    BY <1>1, FiniteSlots
  <1> QED BY <1>2, <1>3 DEF PermitsBacked, FreeTx, TypeOK

(* The stages of the lanes survive a step that only posts to a lane that is  *)
(* ready, or only retires WRs inside a poll.                                 *)
LEMMA LaneFrame ==
  ASSUME LaneInv, UNCHANGED <<laneVars, poisoned, phase, pc, reapErr>>,
         \A l \in Lanes :
            \/ OutstandingOf(l)' = OutstandingOf(l)
            \/ lane[l] = "Ready"
            \/ OutstandingOf(l)' \subseteq OutstandingOf(l) /\ pc \in {"pollSend", "pollRecv"}
  PROVE  LaneInv'
  <1> USE DEF laneVars
  <1>1. ASSUME NEW l \in Lanes PROVE Staged(l)'
    BY <1>1 DEF LaneInv, Staged
  <1>2. ASSUME NEW l \in Lanes, pc \notin {"pollSend", "pollRecv"}, ~Drained(l) PROVE ~Drained(l)'
    BY <1>2 DEF Drained
  <1>3. ReapInv'
    BY <1>2 DEF LaneInv, ReapInv
  <1> QED BY <1>1, <1>3 DEF LaneInv

(* A step of the owner that touches neither slots, WRs nor leases. *)
LEMMA ControlFrame ==
  ASSUME IInv, UNCHANGED <<poolVars, routerVars, hw, leaseVars, active>>,
         Broken => Broken', pc # "stopped",
         TypeOK', OwnerInv', LaneInv'
  PROVE  IInv'
  <1> USE DEF poolVars, leaseVars
  <1>1. SlotInv' /\ LeaseInv'
    BY PoolFrame DEF IInv
  <1>2. EndInv'
    BY EndFrame DEF IInv
  <1>3. PermitsBacked'
    BY PermitsFrame DEF IInv, FreeTx
  <1> QED BY <1>1, <1>2, <1>3 DEF IInv

-----------------------------------------------------------------------------
(* The steps.                                                              *)

(* A new lane is registered and has no WR. *)
LEMMA CreateLaneKeeps ==
  ASSUME IInv, NEW l \in Lanes, CreateLane(l)
  PROVE  IInv'
  <1> USE DEF CreateLane, IInv
  <1>1. TypeOK'
    BY DEF TypeOK, poolVars, routerVars, leaseVars, ownerVars, LaneStates
  <1>2. OwnerInv' /\ (Broken => Broken')
    BY DEF OwnerInv, Broken, ownerVars
  <1>3. LaneInv'
    <2>1. ASSUME NEW k \in Lanes PROVE Staged(k)'
      BY <2>1 DEF LaneInv, Staged, TypeOK, OutstandingOf, routerVars
    <2>2. ReapInv'
      BY DEF LaneInv, ReapInv, Drained, TypeOK, OutstandingOf, routerVars, ownerVars
    <2> QED BY <2>1, <2>2 DEF LaneInv
  <1> QED BY <1>1, <1>2, <1>3, ControlFrame DEF ownerVars

(* A lane becomes ready. *)
LEMMA BindLaneKeeps ==
  ASSUME IInv, NEW l \in Lanes, BindLane(l)
  PROVE  IInv'
  <1> USE DEF BindLane, IInv
  <1>1. TypeOK'
    BY DEF TypeOK, poolVars, routerVars, leaseVars, ownerVars, LaneStates
  <1>2. OwnerInv' /\ (Broken => Broken')
    BY DEF OwnerInv, Broken, ownerVars
  <1>3. LaneInv'
    <2>1. ASSUME NEW k \in Lanes PROVE Staged(k)'
      BY <2>1 DEF LaneInv, Staged, TypeOK, OutstandingOf, routerVars
    <2>2. ReapInv'
      BY DEF LaneInv, ReapInv, Drained, TypeOK, OutstandingOf, routerVars, ownerVars
    <2> QED BY <2>1, <2>2 DEF LaneInv
  <1> QED BY <1>1, <1>2, <1>3, ControlFrame DEF ownerVars

(* Credits stay under their bound. *)
LEMMA GrantSendCreditKeeps ==
  ASSUME IInv, NEW l \in Lanes, NEW n \in 1..MaxCredits, GrantSendCredit(l, n)
  PROVE  IInv'
  <1> USE DEF GrantSendCredit, IInv
  <1>1. TypeOK'
    BY MaxCreditsAssumption DEF TypeOK, poolVars, routerVars, leaseVars, ownerVars
  <1>2. OwnerInv' /\ (Broken => Broken')
    BY DEF OwnerInv, Broken, ownerVars
  <1>3. LaneInv'
    BY DEF LaneInv, Staged, ReapInv, Drained, OutstandingOf, routerVars, ownerVars
  <1> QED BY <1>1, <1>2, <1>3, ControlFrame DEF ownerVars

(* An aborted lane drains; it can leave at once only if it was closed before. *)
LEMMA AbortLaneKeeps ==
  ASSUME IInv, NEW l \in Lanes, AbortLane(l)
  PROVE  IInv'
  <1> USE DEF AbortLane, IInv
  <1>1. TypeOK'
    <2>1. lane' \in [Lanes -> LaneStates] /\ armed' \in [Lanes -> Flag]
      BY DEF TypeOK, LaneStates, Flag
    <2>2. pc' \in {"serve", "reapAbort"}
      BY DEF TypeOK
    <2>3. ret' \in [Lanes -> {"unregistered", "registered", "waiting", "flushed"}]
      BY DEF TypeOK
    <2> QED BY <2>1, <2>2, <2>3 DEF TypeOK, poolVars, routerVars, leaseVars
  <1>2. OwnerInv' /\ (Broken => Broken')
    BY DEF OwnerInv, Broken, TypeOK
  <1>3. LaneInv'
    <2>1. ASSUME NEW k \in Lanes PROVE Staged(k)'
      BY <2>1 DEF LaneInv, Staged, TypeOK, OutstandingOf, routerVars
    <2>2. ReapInv'
      BY DEF LaneInv, ReapInv, Staged, Drained, TypeOK, OutstandingOf, routerVars, ownerVars
    <2> QED BY <2>1, <2>2 DEF LaneInv
  <1> QED BY <1>1, <1>2, <1>3, ControlFrame DEF TypeOK

(* The flush sentinel is consumed inside a poll, before the reap. *)
LEMMA RouteFlushKeeps ==
  ASSUME IInv, NEW l \in Lanes, RouteFlush(l)
  PROVE  IInv'
  <1> USE DEF RouteFlush, IInv
  <1>1. TypeOK'
    BY DEF TypeOK, poolVars, routerVars, leaseVars, ownerVars
  <1>2. OwnerInv' /\ (Broken => Broken')
    BY DEF OwnerInv, Broken, ownerVars
  <1>3. LaneInv'
    <2>1. ASSUME NEW k \in Lanes PROVE Staged(k)'
      BY <2>1 DEF LaneInv, Staged, TypeOK, OutstandingOf, routerVars
    <2>2. ReapInv'
      BY DEF LaneInv, ReapInv, ownerVars
    <2> QED BY <2>1, <2>2 DEF LaneInv
  <1> QED BY <1>1, <1>2, <1>3, ControlFrame DEF ownerVars

(* The steps that only move the owner through a poll. *)
PollStep == PollBegin \/ PollFails \/ PollNext \/ DrainPoll

(* A poll begins, goes to the next queue, or fails on one. *)
LEMMA PollStepKeeps ==
  ASSUME IInv, PollStep
  PROVE  IInv'
  <1> USE DEF PollStep, IInv
  <1> DEFINE Queues == {"pollSend", "pollRecv", "pollEnd"}
  <1>1. pc' \in Queues /\ pc \in Queues \cup {"serve", "drain"}
    BY DEF PollBegin, PollFails, PollNext, DrainPoll, FirstQueue
  <1>2. UNCHANGED <<poolVars, laneVars, routerVars, hw, leaseVars,
                    poisoned, phase, reapErr, failures, active>>
    BY DEF PollBegin, PollFails, PollNext, DrainPoll
  <1>3. pollErr' \in {"none", "completion", "protocol"}
    BY DEF PollBegin, PollFails, PollNext, DrainPoll, TypeOK
  <1>4. Broken => Broken'
    BY DEF PollBegin, PollFails, PollNext, DrainPoll, OwnerInv, Broken
  <1>5. TypeOK'
    BY <1>1, <1>2, <1>3 DEF TypeOK, poolVars, laneVars, routerVars, leaseVars
  <1>6. OwnerInv'
    BY <1>1, <1>2 DEF OwnerInv
  <1>7. LaneInv'
    <2>1. ASSUME NEW k \in Lanes PROVE Staged(k)'
      BY <1>2, <2>1 DEF LaneInv, Staged, OutstandingOf, laneVars, routerVars
    <2>2. ReapInv'
      BY <1>1, <1>2 DEF LaneInv, ReapInv, laneVars, OwnerInv
    <2> QED BY <2>1, <2>2 DEF LaneInv
  <1> QED BY <1>1, <1>2, <1>4, <1>5, <1>6, <1>7, ControlFrame

(* A drained lane leaves, or stops the reap. *)
LEMMA ReapLaneKeeps ==
  ASSUME IInv, NEW l \in Lanes, ReapLane(l)
  PROVE  IInv'
  <1> USE DEF ReapLane, IInv
  <1>1. TypeOK'
    <2>1. lane' \in [Lanes -> LaneStates] /\ reapErr' \in Flag
      BY DEF TypeOK, LaneStates, Flag
    <2>2. credits' \in [Lanes -> 0..MaxCredits]
      BY MaxCreditsAssumption DEF TypeOK
    <2>3. ret' \in [Lanes -> {"unregistered", "registered", "waiting", "flushed"}]
      BY DEF TypeOK
    <2> QED BY <2>1, <2>2, <2>3 DEF TypeOK, poolVars, routerVars, leaseVars
  <1>2. OwnerInv' /\ (Broken => Broken')
    BY DEF OwnerInv, Broken, Reaping
  <1>3. LaneInv'
    <2>1. ASSUME NEW k \in Lanes PROVE Staged(k)'
      BY <2>1 DEF LaneInv, Staged, TypeOK, OutstandingOf, routerVars, Drained
    <2>2. ReapInv'
      BY DEF LaneInv, ReapInv, Drained, TypeOK, OutstandingOf, routerVars, OwnerInv, Reaping
    <2> QED BY <2>1, <2>2 DEF LaneInv
  <1> QED BY <1>1, <1>2, <1>3, ControlFrame DEF Reaping

(* The reap ends with no drained lane left, or poisons the fabric. *)
LEMMA ReapDoneKeeps ==
  ASSUME IInv, ReapDone
  PROVE  IInv'
  <1> USE DEF ReapDone, IInv
  <1>1. TypeOK'
    BY DEF TypeOK, poolVars, laneVars, routerVars, leaseVars, Flag
  <1>2. OwnerInv' /\ (Broken => Broken')
    BY DEF OwnerInv, Broken, Reaping, TypeOK
  <1>3. LaneInv'
    <2>1. ASSUME NEW k \in Lanes PROVE Staged(k)'
      BY <2>1 DEF LaneInv, Staged, TypeOK, OutstandingOf, laneVars, routerVars
    <2>2. ASSUME poisoned' = "no", phase' = "run"
          PROVE  reapErr = "no" /\ \A k \in Lanes : ~Drained(k)'
      BY <2>2 DEF LaneInv, ReapInv, Drained, TypeOK, Flag, OutstandingOf, laneVars, routerVars,
                  OwnerInv, Reaping
    <2>3. ReapInv'
      BY <2>2 DEF LaneInv, ReapInv, TypeOK, laneVars
    <2> QED BY <2>1, <2>3 DEF LaneInv
  <1> QED BY <1>1, <1>2, <1>3, ControlFrame DEF Reaping

(* Every lane starts to drain. *)
LEMMA ShutdownKeeps ==
  ASSUME IInv, Shutdown
  PROVE  IInv'
  <1> USE DEF Shutdown, IInv
  <1>1. TypeOK'
    <2>1. lane' \in [Lanes -> LaneStates] /\ armed' \in [Lanes -> Flag] /\ failures' \in Flag
      BY DEF TypeOK, LaneStates, Flag
    <2>2. ret' \in [Lanes -> {"unregistered", "registered", "waiting", "flushed"}]
      BY DEF TypeOK
    <2> QED BY <2>1, <2>2 DEF TypeOK, poolVars, routerVars, leaseVars
  <1>2. OwnerInv' /\ (Broken => Broken')
    BY DEF OwnerInv, Broken
  <1>3. LaneInv'
    <2>1. ASSUME NEW k \in Lanes PROVE Staged(k)'
      BY <2>1 DEF LaneInv, Staged, TypeOK, OutstandingOf, routerVars, OwnedLanes
    <2>2. ReapInv'
      BY DEF ReapInv
    <2> QED BY <2>1, <2>2 DEF LaneInv
  <1> QED BY <1>1, <1>2, <1>3, ControlFrame

(* With no lane left there is no WR left. *)
LEMMA NoLaneNoWr ==
  ASSUME IInv, OwnedLanes = {}
  PROVE  Outstanding = {}
  BY DEF IInv, OwnedLanes, Outstanding, LaneInv, Staged, TypeOK, OutstandingOf

(* The Segment goes only without WRs and leases, the guard only without lanes. *)
LEMMA DrainEndKeeps ==
  ASSUME IInv, DrainEnd
  PROVE  IInv'
  <1> USE DEF DrainEnd, EndPool, IInv
  <1>1. segment' \in {"open", "closed", "forgotten"} /\ active' \in Flag
    BY DEF TypeOK, Flag
  <1>2. TypeOK'
    BY <1>1 DEF TypeOK, laneVars, routerVars, leaseVars
  <1>3. OwnerInv' /\ (Broken => Broken')
    BY DEF OwnerInv, Broken
  <1>4. LaneInv'
    <2>1. ASSUME NEW k \in Lanes PROVE Staged(k)'
      BY <2>1 DEF LaneInv, Staged, OutstandingOf, laneVars, routerVars
    <2>2. ReapInv'
      BY DEF LaneInv, ReapInv, laneVars, OwnerInv
    <2> QED BY <2>1, <2>2 DEF LaneInv
  <1>5. EndInv'
    <2>1. segment' # "open" => pc' = "stopped"
      OBVIOUS
    <2>2. segment' = "closed" => Outstanding' = {} /\ NoActiveLease'
      BY DEF routerVars, Outstanding, NoActiveLease
    <2>3. active' = "no" => segment' = "closed" /\ OwnedLanes' = {}
      BY NoLaneNoWr DEF EndInv, laneVars, OwnedLanes
    <2> QED BY <2>1, <2>2, <2>3 DEF EndInv
  <1>6. SlotInv'
    BY <1>3 DEF SlotInv, Tracked, Awaited, routerVars, leaseVars
  <1>7. \A i \in LeaseIds : Booked(i)'
    BY <1>3 DEF LeaseInv, Booked, Kept, SlotsOf, routerVars, leaseVars
  <1>8. \A i, j \in LeaseIds : Apart(i, j)'
    BY DEF LeaseInv, Apart, SlotsOf
  <1>9. PermitsBacked'
    BY DEF PermitsBacked, leaseVars
  <1> QED BY <1>2, <1>3, <1>4, <1>5, <1>6, <1>7, <1>8, <1>9 DEF LeaseInv

-----------------------------------------------------------------------------
(* The steps on slots, WRs and leases.                                     *)

(* The slots of a lease, and the identity that names one. *)
LEMMA SlotsOfLease ==
  ASSUME TypeOK, NEW i \in LeaseIds
  PROVE  /\ \A s \in SlotsOf(leases[i]) : s \in Slots /\ \E g \in 0..GenMax : <<s, g>> \in leases[i]
         /\ \A id \in leases[i] : /\ id = <<id[1], id[2]>>
                                  /\ id[1] \in Slots /\ id[2] \in 0..GenMax
                                  /\ id[1] \in SlotsOf(leases[i])
  <1>1. leases[i] \subseteq Slots \X (0..GenMax)
    BY DEF TypeOK
  <1>2. ASSUME NEW s \in SlotsOf(leases[i])
        PROVE  s \in Slots /\ \E g \in 0..GenMax : <<s, g>> \in leases[i]
    <2>1. PICK id \in leases[i] : s = id[1]
      BY DEF SlotsOf
    <2>2. id = <<id[1], id[2]>> /\ id[1] \in Slots /\ id[2] \in 0..GenMax
      BY <1>1
    <2> QED BY <2>1, <2>2
  <1>3. ASSUME NEW id \in leases[i]
        PROVE  /\ id = <<id[1], id[2]>>
               /\ id[1] \in Slots /\ id[2] \in 0..GenMax
               /\ id[1] \in SlotsOf(leases[i])
    BY <1>1 DEF SlotsOf
  <1> QED BY <1>2, <1>3

(* A posted RX slot, and while no poll has failed any free slot, is in no    *)
(* lease.                                                                    *)
LEMMA OutsideLeases ==
  ASSUME IInv, NEW s \in Slots, NEW i \in LeaseIds,
         \/ s \in RxSlots /\ slotState[s] = "PostedRecv"
         \/ ~Broken /\ slotState[s] = "Free"
  PROVE  s \notin SlotsOf(leases[i])
  <1> SUFFICES ASSUME s \in SlotsOf(leases[i]) PROVE FALSE
    OBVIOUS
  <1>1. PICK g \in 0..GenMax : <<s, g>> \in leases[i]
    BY SlotsOfLease DEF IInv
  <1>2. Kept(i, <<s, g>>)
    BY <1>1 DEF IInv, LeaseInv, Booked
  <1>3. Tracked(s) /\ Awaited(s) /\ (wrTarget[s] = i => wrTarget[s] # 0)
    BY LeaseIdsAssumption DEF IInv, SlotInv
  <1> QED BY <1>2, <1>3, SlotsAssumption DEF Kept, Tracked, Awaited, LeasedAs

(* Only the provider's view of a slot changes. *)
LEMMA ProviderKeeps ==
  ASSUME IInv, NEW s \in Slots, ProviderCompletes(s) \/ RouteCorrupt(s)
  PROVE  IInv'
  <1> USE DEF IInv
  <1>1. UNCHANGED <<poolVars, laneVars, routerVars, leaseVars, poisoned, pc, phase, reapErr,
                    failures, active>>
    BY DEF ProviderCompletes, RouteCorrupt, ownerVars
  <1>2. hw' \in [Slots -> {"idle", "posted", "done"}]
        /\ \A t \in Slots : hw'[t] # "idle" => hw[t] # "idle"
    BY DEF ProviderCompletes, RouteCorrupt, TypeOK
  <1>3. /\ pollErr' \in {"none", "completion", "protocol"}
        /\ pc \in {"serve", "reapAbort", "reapShut", "drain", "stopped"} => pollErr' = pollErr
        /\ pollErr # "none" => pollErr' # "none"
    BY DEF ProviderCompletes, RouteCorrupt, TypeOK, FirstError, ownerVars
  <1>4. TypeOK'
    BY <1>1, <1>2, <1>3 DEF TypeOK, poolVars, laneVars, routerVars, leaseVars
  <1>5. OwnerInv' /\ (Broken => Broken')
    BY <1>1, <1>3 DEF OwnerInv, Broken
  <1>6. LaneInv'
    BY <1>1, LaneFrame DEF OutstandingOf, routerVars
  <1>7. EndInv'
    BY <1>1 DEF EndInv, poolVars, laneVars, routerVars, Outstanding, NoActiveLease, OwnedLanes
  <1>8. SlotInv'
    BY <1>1, <1>2, <1>5 DEF SlotInv, Tracked, Awaited, poolVars, routerVars, leaseVars
  <1>9. \A i \in LeaseIds : Booked(i)'
    BY <1>1, <1>5 DEF LeaseInv, Booked, Kept, SlotsOf, poolVars, routerVars, leaseVars
  <1>10. \A i, j \in LeaseIds : Apart(i, j)'
    BY <1>1 DEF LeaseInv, Apart, SlotsOf, poolVars
  <1>11. PermitsBacked'
    BY <1>1 DEF PermitsBacked, leaseVars, poolVars
  <1> QED BY <1>4, <1>5, <1>6, <1>7, <1>8, <1>9, <1>10, <1>11 DEF LeaseInv

(* A caller's lease is dropped, by its holder or by a refused command. *)
LEMMA DropKeeps ==
  ASSUME IInv, NEW i \in LeaseIds, holder[i] = "caller",
         holder' = [holder EXCEPT ![i] = "queued"],
         UNCHANGED <<poolVars, laneVars, routerVars, hw, txErr, permits, ownerVars>>
  PROVE  IInv'
  <1> USE DEF IInv, ownerVars
  <1>1. TypeOK'
    BY DEF TypeOK, poolVars, laneVars, routerVars, Holders
  <1>2. OwnerInv' /\ Broken' = Broken
    BY DEF OwnerInv, Broken
  <1>3. LaneInv'
    BY LaneFrame DEF OutstandingOf, routerVars
  <1>4. EndInv'
    BY DEF EndInv, poolVars, laneVars, routerVars, Outstanding, NoActiveLease, OwnedLanes
  <1>5. SlotInv'
    <2>1. ASSUME NEW s \in Slots PROVE Tracked(s)' /\ Awaited(s)'
      <3>1. Tracked(s) /\ Awaited(s) /\ wrTarget[s] \in LeaseIds \cup {0}
        BY DEF SlotInv, TypeOK
      <3>2. \A k \in LeaseIds : holder'[k] = IF k = i THEN "queued" ELSE holder[k]
        BY DEF TypeOK
      <3> QED BY <1>2, <3>1, <3>2 DEF Tracked, Awaited, poolVars, routerVars
    <2> QED BY <2>1 DEF SlotInv
  <1>6. ASSUME NEW k \in LeaseIds PROVE Booked(k)'
    <2>1. Booked(k)
      BY DEF LeaseInv
    <2> QED BY <1>2, <2>1 DEF Booked, Kept, SlotsOf, poolVars, routerVars, TypeOK
  <1>7. \A k, j \in LeaseIds : Apart(k, j)'
    BY DEF LeaseInv, Apart, SlotsOf, poolVars
  <1>8. PermitsBacked'
    BY DEF PermitsBacked, poolVars
  <1> QED BY <1>1, <1>2, <1>3, <1>4, <1>5, <1>6, <1>7, <1>8 DEF LeaseInv

(* A failed poll drops the windows; their slots stay posted. *)
LEMMA PollEndKeeps ==
  ASSUME IInv, PollEnd
  PROVE  IInv'
  <1> USE DEF PollEnd, IInv
  <1>1. TypeOK'
    <2>1. CASE pollErr = "none"
      BY <2>1 DEF TypeOK, poolVars, laneVars, routerVars
    <2>2. CASE pollErr # "none"
      BY <2>2 DEF TypeOK, poolVars, laneVars, FailPending, Holders, Flag
    <2> QED BY <2>1, <2>2
  <1>2. OwnerInv' /\ Broken' = Broken
    BY DEF OwnerInv, Broken
  <1>3. UNCHANGED <<wrLane, wrGen>>
    BY DEF FailPending, routerVars
  <1>4. LaneInv'
    <2>1. ASSUME NEW k \in Lanes PROVE Staged(k)'
      BY <1>3, <2>1 DEF LaneInv, Staged, OutstandingOf, laneVars
    <2>2. ReapInv'
      BY DEF LaneInv, ReapInv, laneVars, OwnerInv
    <2> QED BY <2>1, <2>2 DEF LaneInv
  <1>5. EndInv'
    BY EndFrame DEF poolVars
  <1>6. SlotInv' /\ LeaseInv'
    <2>1. CASE pollErr = "none"
      BY <1>2, <2>1, PoolFrame
    <2>2. CASE pollErr # "none"
      <3>1. Broken /\ Broken' /\ FailPending
        BY <2>2 DEF Broken
      <3>2. SlotInv'
        BY <3>1 DEF SlotInv, Tracked, Awaited, poolVars, FailPending
      <3>3. ASSUME NEW i \in LeaseIds PROVE Booked(i)'
        <4>1. Booked(i) /\ leases' = leases
          BY DEF LeaseInv, poolVars
        <4>2. holder'[i] = IF holder[i] = "window" THEN "queued" ELSE holder[i]
          BY <3>1 DEF FailPending
        <4>3. ASSUME NEW id \in leases[i] PROVE Kept(i, id)'
          <5>1. Kept(i, id) /\ id[1] \in SlotsOf(leases[i])
            BY <4>1, SlotsOfLease DEF Booked
          <5> QED BY <3>1, <4>1, <4>2, <5>1 DEF Booked, Kept, poolVars
        <4> QED BY <3>1, <4>1, <4>2, <4>3 DEF Booked, SlotsOf
      <3>4. \A i, j \in LeaseIds : Apart(i, j)'
        BY DEF LeaseInv, Apart, SlotsOf, poolVars
      <3> QED BY <3>2, <3>3, <3>4 DEF LeaseInv
    <2> QED BY <2>1, <2>2
  <1>7. PermitsBacked'
    BY DEF PermitsBacked, poolVars
  <1> QED BY <1>1, <1>2, <1>4, <1>5, <1>6, <1>7

(* Free RX slots, in no lease, are posted. *)
LEMMA PostReceiveWindowKeeps ==
  ASSUME IInv, NEW l \in Lanes, NEW Q \in SUBSET Seqs, NEW S \in SUBSET OnFreeList(RxSlots),
         NEW P \in SUBSET S, NEW I \in SUBSET Q, PostReceiveWindow(l, Q, S, P, I)
  PROVE  IInv'
  <1> USE DEF PostReceiveWindow, PostRxSlots, IInv
  <1>1. ~Broken /\ ~Broken' /\ OwnerInv'
    BY DEF OwnerInv, Broken, ownerVars
  <1>2. S \subseteq RxSlots /\ S \subseteq Slots /\ S \cap TxSlots = {}
    BY SlotsAssumption DEF OnFreeList, Slots
  <1>3. \A s \in S : slotState[s] = "Free" /\ free[s] = 1 /\ wrLane[s] = NoLane /\ wrTarget[s] = 0
    BY <1>2 DEF OnFreeList, SlotInv, Tracked
  <1>4. \A s \in S : \A i \in LeaseIds : s \notin SlotsOf(leases[i])
    BY <1>1, <1>2, <1>3, OutsideLeases
  <1>5. TypeOK'
    <2>1. slotState' \in [Slots -> SlotStates] /\ hw' \in [Slots -> {"idle", "posted", "done"}]
      BY DEF TypeOK, Moved, SlotStates
    <2>2. slotGen' \in [Slots -> 0..GenMax]
      BY BumpedType DEF TypeOK
    <2>3. free' \in [Slots -> Nat]
      BY <1>3 DEF TypeOK, Taken
    <2>4. wrLane' \in [Slots -> Lanes \cup {NoLane}] /\ rxIds' \in [Lanes -> SUBSET Seqs]
      BY DEF TypeOK
    <2>5. wrGen' \in [Slots -> 0..GenMax]
      BY <2>2 DEF TypeOK
    <2> QED BY <2>1, <2>2, <2>3, <2>4, <2>5 DEF TypeOK, laneVars, leaseVars, ownerVars
  <1>6. SlotInv'
    <2>1. ASSUME NEW s \in Slots PROVE Tracked(s)'
      <3>1. Tracked(s)
        BY DEF SlotInv
      <3> QED BY <1>2, <1>3, <3>1, LanesAssumption DEF Tracked, Moved, Bumped, Taken, Slots
    <2>2. ASSUME NEW s \in Slots PROVE Awaited(s)'
      <3>1. Awaited(s)
        BY DEF SlotInv
      <3>2. CASE s \in S
        BY <1>2, <1>3, <3>2 DEF Moved, Awaited, LeasedAs
      <3>3. CASE s \notin S
        BY <1>1, <3>1, <3>3 DEF Awaited, Moved, Bumped, LeasedAs, leaseVars
      <3> QED BY <3>2, <3>3
    <2> QED BY <2>1, <2>2 DEF SlotInv
  <1>7. ASSUME NEW i \in LeaseIds PROVE Booked(i)'
    <2>1. Booked(i)
      BY DEF LeaseInv
    <2>2. ASSUME NEW id \in leases[i] PROVE Kept(i, id)'
      <3>1. Kept(i, id) /\ id[1] \in Slots /\ id[1] \notin S
        BY <1>4, <2>1, SlotsOfLease DEF Booked
      <3> QED BY <1>1, <3>1 DEF Kept, Moved, Bumped, LeasedAs, leaseVars
    <2> QED BY <1>1, <2>1, <2>2 DEF Booked, leaseVars, SlotsOf
  <1>8. \A i, j \in LeaseIds : Apart(i, j)'
    BY DEF LeaseInv, Apart, SlotsOf
  <1>9. LaneInv'
    <2>1. ASSUME NEW k \in Lanes PROVE OutstandingOf(k)' = OutstandingOf(k) \/ lane[k] = "Ready"
      BY <1>2, <1>3, LanesAssumption DEF OutstandingOf
    <2> QED BY <2>1, LaneFrame DEF ownerVars
  <1>10. EndInv'
    BY EndFrame DEF ownerVars
  <1>11. PermitsBacked'
    <2>1. FreeTx \subseteq FreeTx'
      BY <1>2 DEF FreeTx, Moved, Slots
    <2> QED BY <2>1, PermitsFrame DEF leaseVars
  <1> QED BY <1>1, <1>5, <1>6, <1>7, <1>8, <1>9, <1>10, <1>11 DEF LeaseInv

(* Free TX slots, in no lease, are lent, and their permits taken. *)
LEMMA AcquireTxWindowKeeps ==
  ASSUME IInv, NEW S \in SUBSET OnFreeList(TxSlots), AcquireTxWindow(S)
  PROVE  IInv'
  <1> USE DEF AcquireTxWindow, LeaseTxSlots, IInv
  <1>1. ~Broken /\ ~Broken' /\ OwnerInv'
    BY DEF OwnerInv, Broken, ownerVars
  <1>2. S \subseteq TxSlots /\ S \subseteq Slots
    BY DEF OnFreeList, Slots
  <1>3. \A s \in S : slotState[s] = "Free" /\ free[s] = 1 /\ wrLane[s] = NoLane /\ wrTarget[s] = 0
    BY <1>2 DEF OnFreeList, SlotInv, Tracked
  <1>4. \A s \in S : \A i \in LeaseIds : s \notin SlotsOf(leases[i])
    BY <1>1, <1>2, <1>3, OutsideLeases
  <1>5. PICK n \in LeaseIds : n = NewLease /\ leases[n] = {} /\ n # 0 /\ holder[n] = "none"
    BY NewLeaseUnused DEF LeaseInv, Booked
  <1>6. /\ leases' = [leases EXCEPT ![n] = Identities(S, slotGen')]
        /\ holder' = [holder EXCEPT ![n] = "caller"]
        /\ leases'[n] = Identities(S, slotGen') /\ SlotsOf(leases'[n]) = S
        /\ holder'[n] = "caller"
        /\ \A i \in LeaseIds \ {n} : leases'[i] = leases[i] /\ holder'[i] = holder[i]
    BY <1>5, IdentitiesNameSlots DEF TypeOK
  <1>7. TypeOK'
    <2>1. slotState' \in [Slots -> SlotStates] /\ holder' \in [LeaseIds -> Holders]
      BY <1>6 DEF TypeOK, Moved, SlotStates, Holders
    <2>2. slotGen' \in [Slots -> 0..GenMax]
      BY BumpedType DEF TypeOK
    <2>3. free' \in [Slots -> Nat]
      BY <1>3 DEF TypeOK, Taken
    <2> DEFINE Ids == SUBSET (Slots \X (0..GenMax))
    <2>4. Identities(S, slotGen') \in Ids
      BY <1>2, <2>2 DEF Identities
    <2>5. leases \in [LeaseIds -> Ids]
      BY DEF TypeOK
    <2> HIDE DEF Ids
    <2>55. leases' \in [LeaseIds -> Ids]
      BY <1>6, <2>4, <2>5
    <2> USE DEF Ids
    <2>6. permits' \in Nat
      BY <1>2, FiniteSlots DEF TypeOK
    <2> QED BY <2>1, <2>2, <2>3, <2>55, <2>6 DEF TypeOK, laneVars, routerVars, ownerVars
  <1>8. ASSUME NEW s \in Slots PROVE Tracked(s)' /\ Awaited(s)'
    <2>1. Tracked(s) /\ Awaited(s) /\ wrTarget[s] \in LeaseIds \cup {0}
      BY DEF SlotInv, TypeOK
    <2>2. CASE s \in S
      <3>1. <<s, slotGen'[s]>> \in leases'[n]
        BY <1>6, <2>2 DEF Identities
      <3> QED BY <1>2, <1>3, <1>5, <2>1, <2>2, <3>1, SlotsAssumption
              DEF Tracked, Awaited, Moved, Taken, routerVars
    <2>3. CASE s \notin S
      <3>1. Tracked(s)'
        BY <2>1, <2>3 DEF Tracked, Moved, Bumped, Taken, routerVars
      <3>2. \A i \in LeaseIds : <<s, slotGen[s]>> \in leases[i] => <<s, slotGen[s]>> \in leases'[i]
        BY <1>5, <1>6
      <3>3. wrTarget[s] # 0 => holder'[wrTarget[s]] = holder[wrTarget[s]]
        BY <1>5, <1>6, <2>1 DEF Awaited
      <3>4. Awaited(s)'
        BY <1>1, <2>1, <2>3, <3>2, <3>3 DEF Awaited, Moved, Bumped, LeasedAs, routerVars
      <3> QED BY <3>1, <3>4
    <2> QED BY <2>2, <2>3
  <1>9. ASSUME NEW i \in LeaseIds PROVE Booked(i)'
    <2>1. Booked(i)
      BY DEF LeaseInv
    <2>2. CASE i = n
      <3>1. \A id \in leases'[n] : \E s \in S : id = <<s, slotGen'[s]>>
        BY <1>6 DEF Identities
      <3>2. \A id \in leases'[n] : Kept(n, id)'
        BY <1>2, <3>1 DEF Kept, Moved, LeasedAs
      <3>3. leases'[n] # {}
        BY <1>6, SlotsOfEmpty
      <3>4. Booked(n)'
        BY <1>2, <1>6, <3>2, <3>3 DEF Booked
      <3> QED BY <2>2, <3>4
    <2>3. CASE i # n
      <3>1. ASSUME NEW id \in leases[i] PROVE Kept(i, id)'
        <4>1. Kept(i, id) /\ id[1] \in Slots /\ id[1] \notin S
          BY <1>4, <2>1, SlotsOfLease DEF Booked
        <4> QED BY <1>1, <1>6, <2>3, <4>1 DEF Kept, Moved, Bumped, LeasedAs, routerVars
      <3> QED BY <1>1, <1>6, <2>1, <2>3, <3>1 DEF Booked
    <2> QED BY <2>2, <2>3
  <1>10. ASSUME NEW i \in LeaseIds, NEW j \in LeaseIds PROVE Apart(i, j)'
    <2>1. Apart(i, j)
      BY DEF LeaseInv
    <2> QED BY <1>4, <1>6, <2>1 DEF Apart
  <1>11. LaneInv'
    BY LaneFrame DEF OutstandingOf, routerVars, ownerVars
  <1>12. EndInv'
    BY EndFrame DEF ownerVars
  <1>13. PermitsBacked'
    <2>1. FreeTx' = FreeTx \ S /\ S \subseteq FreeTx /\ FreeTx = FreeTx' \cup S /\ FreeTx' \cap S = {}
      BY <1>2, <1>3 DEF FreeTx, Moved, Slots
    <2>2. FreeTx' \in SUBSET Slots /\ S \in SUBSET Slots
      BY <1>2 DEF FreeTx, Slots
    <2>3. Cardinality(FreeTx) = Cardinality(FreeTx') + Cardinality(S)
      BY <2>1, <2>2, CardinalitySplit
    <2>4. Cardinality(FreeTx') \in Nat /\ Cardinality(S) \in Nat
      BY <2>2, FiniteSlots
    <2> QED BY <2>3, <2>4 DEF PermitsBacked, FreeTx, TypeOK
  <1> QED BY <1>1, <1>7, <1>8, <1>9, <1>10, <1>11, <1>12, <1>13 DEF SlotInv, LeaseInv

(* A window's WRs wait with its lease. *)
LEMMA SendRegisteredWindowKeeps ==
  ASSUME IInv, NEW l \in Lanes, NEW i \in LeaseIds, NEW P \in SUBSET SlotsOf(leases[i]),
         SendRegisteredWindow(l, i, P)
  PROVE  IInv'
  <1> USE DEF SendRegisteredWindow, PostTxSlots, TxLease, IInv
  <1>1. ~Broken /\ ~Broken' /\ OwnerInv'
    BY DEF OwnerInv, Broken, ownerVars
  <1>2. P \subseteq TxSlots /\ P \subseteq Slots /\ P \cap RxSlots = {}
    BY SlotsAssumption DEF Slots
  <1>3. \A s \in P : /\ slotState[s] = "LeasedTx" /\ <<s, slotGen[s]>> \in leases[i]
                     /\ free[s] = 0 /\ wrLane[s] = NoLane /\ wrTarget[s] = 0
    <2>1. ASSUME NEW s \in P PROVE slotState[s] = "LeasedTx" /\ <<s, slotGen[s]>> \in leases[i]
      <3>1. PICK g \in 0..GenMax : <<s, g>> \in leases[i]
        BY SlotsOfLease
      <3>2. Current(<<s, g>>, "LeasedTx")
        BY <3>1
      <3> QED BY <3>1, <3>2 DEF Current
    <2> QED BY <1>2, <2>1 DEF SlotInv, Tracked
  <1>4. \A k \in LeaseIds : holder'[k] =
           IF k = i THEN IF P = {} THEN "queued" ELSE "window" ELSE holder[k]
    BY DEF TypeOK
  <1>5. TypeOK'
    <2>1. slotState' \in [Slots -> SlotStates] /\ hw' \in [Slots -> {"idle", "posted", "done"}]
      BY DEF TypeOK, Moved, SlotStates
    <2>2. credits' \in [Lanes -> 0..MaxCredits]
      <3>1. SlotsOf(leases[i]) \in SUBSET Slots
        BY DEF Slots
      <3>2. Cardinality(P) <= credits[l] /\ Cardinality(P) \in Nat
        BY <1>2, <3>1, CardinalitySubset, FiniteSlots DEF TypeOK
      <3>3. credits[l] - Cardinality(P) \in 0..MaxCredits
        BY <3>2, MaxCreditsAssumption DEF TypeOK
      <3> QED BY <3>3 DEF TypeOK
    <2>3. wrLane' \in [Slots -> Lanes \cup {NoLane}] /\ wrGen' \in [Slots -> 0..GenMax]
      BY DEF TypeOK
    <2>4. wrTarget' \in [Slots -> LeaseIds \cup {0}]
      BY DEF TypeOK
    <2>5. holder' \in [LeaseIds -> Holders] /\ txErr' \in [LeaseIds -> Flag]
      BY DEF TypeOK, Holders, Flag
    <2> QED BY <2>1, <2>2, <2>3, <2>4, <2>5 DEF TypeOK, ownerVars
  <1>6. ASSUME NEW s \in Slots PROVE Tracked(s)' /\ Awaited(s)'
    <2>1. Tracked(s) /\ Awaited(s) /\ wrTarget[s] \in LeaseIds \cup {0}
      BY DEF SlotInv, TypeOK
    <2>2. CASE s \in P
      <3>1. P # {} /\ wrTarget'[s] = i /\ slotState'[s] = "SendPosted" /\ wrLane'[s] = l
        BY <2>2 DEF Moved
      <3>2. Tracked(s)'
        BY <1>2, <1>3, <2>2, <3>1, LanesAssumption, LeaseIdsAssumption DEF Tracked
      <3>3. Awaited(s)'
        BY <1>2, <1>3, <1>4, <2>2, <3>1, LeaseIdsAssumption DEF Awaited, LeasedAs
      <3> QED BY <3>2, <3>3
    <2>3. CASE s \notin P
      <3>1. Tracked(s)'
        BY <2>1, <2>3 DEF Tracked, Moved
      <3>2. wrTarget[s] # 0 => wrTarget[s] # i
        BY <2>1 DEF Awaited
      <3>3. wrTarget[s] # 0 => holder'[wrTarget[s]] = holder[wrTarget[s]]
        BY <1>4, <2>1, <3>2
      <3>4. Awaited(s)'
        BY <1>1, <2>1, <2>3, <3>3 DEF Awaited, Moved, LeasedAs
      <3> QED BY <3>1, <3>4
    <2> QED BY <2>2, <2>3
  <1>7. ASSUME NEW k \in LeaseIds PROVE Booked(k)'
    <2>1. Booked(k)
      BY DEF LeaseInv
    <2>2. ASSUME NEW id \in leases[k] PROVE Kept(k, id)'
      <3>1. Kept(k, id) /\ id[1] \in Slots /\ id[1] \in SlotsOf(leases[k])
        BY <2>1, SlotsOfLease DEF Booked
      <3>2. CASE k = i
        <4>1. CASE id[1] \in P
          BY <1>4, <3>1, <3>2, <4>1 DEF Kept
        <4>2. CASE id[1] \notin P
          <5>1. slotState[id[1]] = LeasedAs(id[1])
            BY <3>1, <3>2, <1>1 DEF Kept
          <5> QED BY <3>1, <4>2, <5>1 DEF Kept, Moved, LeasedAs
        <4> QED BY <4>1, <4>2
      <3>3. CASE k # i
        <4>1. id[1] \notin P
          BY <3>1, <3>3 DEF LeaseInv, Apart
        <4> QED BY <1>1, <1>4, <3>1, <3>3, <4>1 DEF Kept, Moved, LeasedAs
      <3> QED BY <3>2, <3>3
    <2> QED BY <1>1, <1>4, <2>1, <2>2 DEF Booked
  <1>8. \A k, j \in LeaseIds : Apart(k, j)'
    BY DEF LeaseInv, Apart
  <1>9. LaneInv'
    <2>1. ASSUME NEW k \in Lanes PROVE OutstandingOf(k)' = OutstandingOf(k) \/ lane[k] = "Ready"
      BY <1>2, <1>3, LanesAssumption DEF OutstandingOf
    <2>2. ASSUME NEW k \in Lanes PROVE Staged(k)'
      BY <2>1 DEF LaneInv, Staged
    <2>3. ASSUME NEW k \in Lanes, ~Drained(k) PROVE ~Drained(k)'
      BY <2>1, <2>3 DEF Drained
    <2>4. ReapInv'
      BY <2>3 DEF LaneInv, ReapInv, ownerVars
    <2> QED BY <2>2, <2>4 DEF LaneInv
  <1>10. EndInv'
    BY EndFrame DEF ownerVars
  <1>11. PermitsBacked'
    <2>1. FreeTx \subseteq FreeTx'
      BY <1>2, <1>3 DEF FreeTx, Moved, Slots
    <2> QED BY <2>1, PermitsFrame
  <1> QED BY <1>1, <1>5, <1>6, <1>7, <1>8, <1>9, <1>10, <1>11 DEF SlotInv, LeaseInv

(* A lease whose slots are all leased still goes back to the free list. *)
LEMMA RecycleKeeps ==
  ASSUME IInv, NEW i \in LeaseIds, holder[i] \in {"caller", "queued"}, pc = "serve",
         Recyclable(i), Recycle(i), permits' = permits + Refund(i),
         holder' = [holder EXCEPT ![i] = "none"],
         UNCHANGED <<laneVars, routerVars, hw, txErr, ownerVars>>
  PROVE  IInv'
  <1> USE DEF Recycle, IInv
  <1> DEFINE S == SlotsOf(leases[i])
  <1>1. OwnerInv' /\ Broken' = Broken
    BY DEF OwnerInv, Broken, ownerVars
  <1>2. S \in SUBSET Slots
    BY SlotsOfLease
  <1>3. \A s \in S : /\ slotState[s] = LeasedAs(s)
                     /\ free[s] = 0 /\ wrLane[s] = NoLane /\ wrTarget[s] = 0 /\ hw[s] = "idle"
    <2>1. ASSUME NEW s \in S PROVE slotState[s] = LeasedAs(s)
      <3>1. PICK g \in 0..GenMax : <<s, g>> \in leases[i]
        BY SlotsOfLease
      <3>2. Current(<<s, g>>, LeasedAs(s))
        BY <3>1 DEF Recyclable
      <3> QED BY <3>2 DEF Current
    <2> QED BY <1>2, <2>1 DEF SlotInv, Tracked, TypeOK, LeasedAs
  <1>4. /\ leases'[i] = {} /\ holder'[i] = "none"
        /\ \A k \in LeaseIds \ {i} : leases'[k] = leases[k] /\ holder'[k] = holder[k]
    BY DEF TypeOK
  <1>5. Refund(i) = IF S \subseteq TxSlots THEN Cardinality(S) ELSE 0
    <2>1. leases[i] \in SUBSET (Slots \X (0..GenMax))
      BY DEF TypeOK
    <2>2. \A a, b \in leases[i] : a[1] = b[1] => a = b
      <3>1. \A a \in leases[i] : a = <<a[1], slotGen[a[1]]>>
        BY SlotsOfLease DEF LeaseInv, Booked, Kept
      <3> QED BY <3>1
    <2>3. Cardinality(leases[i]) = Cardinality(S)
      BY <2>1, <2>2, IdentitiesCounted
    <2> QED BY <2>3 DEF Refund, TxLease, Recyclable
  <1>6. TypeOK'
    <2>1. slotState' \in [Slots -> SlotStates] /\ holder' \in [LeaseIds -> Holders]
      BY DEF TypeOK, Moved, SlotStates, Holders
    <2>2. free' \in [Slots -> Nat]
      BY DEF TypeOK, Returned
    <2>3. leases' \in [LeaseIds -> SUBSET (Slots \X (0..GenMax))]
      BY DEF TypeOK
    <2>4. permits' \in Nat
      BY <1>2, <1>5, FiniteSlots DEF TypeOK
    <2> QED BY <2>1, <2>2, <2>3, <2>4 DEF TypeOK, laneVars, routerVars, ownerVars
  <1>7. ASSUME NEW s \in Slots PROVE Tracked(s)' /\ Awaited(s)'
    <2>1. Tracked(s) /\ Awaited(s) /\ wrTarget[s] \in LeaseIds \cup {0}
      BY DEF SlotInv, TypeOK
    <2>2. CASE s \in S
      <3>1. slotState'[s] = "Free" /\ free'[s] = 1
        BY <1>3, <2>2 DEF Moved, Returned
      <3> QED BY <1>3, <2>1, <2>2, <3>1 DEF Tracked, Awaited, LeasedAs, routerVars
    <2>3. CASE s \notin S
      <3>1. Tracked(s)'
        BY <2>1, <2>3 DEF Tracked, Moved, Returned, routerVars
      <3>2. \A k \in LeaseIds : <<s, slotGen[s]>> \in leases[k] => k # i
        BY <2>3 DEF SlotsOf
      <3>3. \A k \in LeaseIds : <<s, slotGen[s]>> \in leases[k] => <<s, slotGen[s]>> \in leases'[k]
        BY <1>4, <3>2
      <3>4. wrTarget[s] # 0 => holder'[wrTarget[s]] = holder[wrTarget[s]]
        BY <1>4, <2>1 DEF Awaited
      <3>5. Awaited(s)'
        BY <1>1, <2>1, <2>3, <3>3, <3>4 DEF Awaited, Moved, LeasedAs, routerVars
      <3> QED BY <3>1, <3>5
    <2> QED BY <2>2, <2>3
  <1>8. ASSUME NEW k \in LeaseIds PROVE Booked(k)'
    <2>1. Booked(k)
      BY DEF LeaseInv
    <2>2. CASE k = i
      BY <1>4, <2>2 DEF Booked, SlotsOf
    <2>3. CASE k # i
      <3>1. ASSUME NEW id \in leases[k] PROVE Kept(k, id)'
        <4>1. Kept(k, id) /\ id[1] \in Slots /\ id[1] \in SlotsOf(leases[k])
          BY <2>1, SlotsOfLease DEF Booked
        <4>2. id[1] \notin S
          BY <2>3, <4>1 DEF LeaseInv, Apart
        <4> QED BY <1>1, <1>4, <2>3, <4>1, <4>2 DEF Kept, Moved, LeasedAs, routerVars
      <3> QED BY <1>1, <1>4, <2>1, <2>3, <3>1 DEF Booked
    <2> QED BY <2>2, <2>3
  <1>9. ASSUME NEW k \in LeaseIds, NEW j \in LeaseIds PROVE Apart(k, j)'
    <2>1. Apart(k, j)
      BY DEF LeaseInv
    <2>2. SlotsOf({}) = {}
      BY SlotsOfEmpty
    <2> QED BY <1>4, <2>1, <2>2 DEF Apart
  <1>10. LaneInv'
    BY LaneFrame DEF OutstandingOf, routerVars, ownerVars
  <1>11. EndInv'
    BY EndFrame DEF ownerVars
  <1>12. PermitsBacked'
    <2>1. CASE S \subseteq TxSlots
      <3>1. FreeTx' = FreeTx \cup S /\ FreeTx \cap S = {}
        BY <1>2, <1>3, <2>1 DEF FreeTx, Moved, Slots, LeasedAs
      <3>2. FreeTx \in SUBSET Slots
        BY DEF FreeTx, Slots
      <3>3. Cardinality(FreeTx') = Cardinality(FreeTx) + Cardinality(S)
        BY <1>2, <3>1, <3>2, CardinalitySplit
      <3>4. Cardinality(FreeTx) \in Nat /\ Cardinality(S) \in Nat
        BY <1>2, <3>2, FiniteSlots
      <3> QED BY <1>5, <2>1, <3>3, <3>4 DEF PermitsBacked, FreeTx, TypeOK
    <2>2. CASE ~(S \subseteq TxSlots)
      <3>1. FreeTx \subseteq FreeTx' /\ permits' = permits
        BY <1>2, <1>5, <2>2 DEF FreeTx, Moved, Slots, TypeOK
      <3> QED BY <3>1, PermitsFrame
    <2> QED BY <2>1, <2>2
  <1> QED BY <1>1, <1>6, <1>7, <1>8, <1>9, <1>10, <1>11, <1>12 DEF SlotInv, LeaseInv

(* A refused lease is dropped. *)
LEMMA RecycleWindowKeeps ==
  ASSUME IInv, NEW i \in LeaseIds, RecycleWindow(i)
  PROVE  IInv'
  <1>1. CASE Recyclable(i)
    BY <1>1, RecycleKeeps DEF RecycleWindow
  <1>2. CASE ~Recyclable(i)
    BY <1>2, DropKeeps DEF RecycleWindow
  <1> QED BY <1>1, <1>2

(* A dropped lease is lost only after a failed poll. *)
LEMMA RecycleLeaseKeeps ==
  ASSUME IInv, NEW i \in LeaseIds, RecycleLease(i)
  PROVE  IInv'
  <1>1. CASE Recyclable(i)
    BY <1>1, RecycleKeeps DEF RecycleLease
  <1>2. CASE ~Recyclable(i)
    <2> USE DEF IInv, ownerVars
    <2>1. /\ holder[i] = "queued" /\ holder' = [holder EXCEPT ![i] = "lost"] /\ pc = "serve"
          /\ UNCHANGED <<poolVars, laneVars, routerVars, hw, txErr, permits, ownerVars>>
      BY <1>2 DEF RecycleLease
    <2>2. Broken /\ Broken' /\ OwnerInv'
      <3>1. PICK id \in leases[i] : ~Current(id, LeasedAs(id[1]))
        BY <1>2, <2>1 DEF Recyclable, LeaseInv, Booked
      <3>2. Kept(i, id)
        BY <3>1 DEF LeaseInv, Booked
      <3>3. Broken
        BY <2>1, <3>1, <3>2 DEF Kept, Current
      <3> QED BY <2>1, <3>3 DEF Broken, OwnerInv
    <2>3. TypeOK'
      BY <2>1 DEF TypeOK, poolVars, laneVars, routerVars, Holders
    <2>4. LaneInv'
      BY <2>1, LaneFrame DEF OutstandingOf, routerVars
    <2>5. EndInv'
      BY <2>1, EndFrame DEF poolVars
    <2>6. \A k \in LeaseIds : holder'[k] = IF k = i THEN "lost" ELSE holder[k]
      BY <2>1 DEF TypeOK
    <2>7. ASSUME NEW s \in Slots PROVE Tracked(s)' /\ Awaited(s)'
      <3>1. Tracked(s) /\ Awaited(s) /\ wrTarget[s] \in LeaseIds \cup {0}
        BY DEF SlotInv, TypeOK
      <3> QED BY <2>1, <2>2, <2>6, <3>1 DEF Tracked, Awaited, poolVars, routerVars
    <2>8. ASSUME NEW k \in LeaseIds PROVE Booked(k)'
      <3>1. Booked(k)
        BY DEF LeaseInv
      <3> QED BY <2>1, <2>2, <2>6, <3>1 DEF Booked, Kept, SlotsOf, poolVars, routerVars
    <2>9. \A k, j \in LeaseIds : Apart(k, j)'
      BY <2>1 DEF LeaseInv, Apart, SlotsOf, poolVars
    <2>10. PermitsBacked'
      BY <2>1 DEF PermitsBacked, poolVars
    <2> QED BY <2>2, <2>3, <2>4, <2>5, <2>7, <2>8, <2>9, <2>10 DEF SlotInv, LeaseInv
  <1> QED BY <1>1, <1>2

(* A completion is retired inside a poll: what its lane and its owner keep. *)
LEMMA RetireFrame ==
  ASSUME IInv, NEW s \in Slots, hw[s] = "done", Retire(s), pc \in {"pollSend", "pollRecv"},
         UNCHANGED <<laneVars, poisoned, pc, phase, reapErr, failures, active, segment>>,
         pollErr' \in {"none", "completion", "protocol"}, pollErr # "none" => pollErr' # "none"
  PROVE  /\ OwnerInv' /\ (Broken => Broken') /\ LaneInv' /\ EndInv'
         /\ wrLane' \in [Slots -> Lanes \cup {NoLane}]
         /\ wrGen' \in [Slots -> 0..GenMax]
         /\ wrTarget' \in [Slots -> LeaseIds \cup {0}]
         /\ hw' \in [Slots -> {"idle", "posted", "done"}]
         /\ hw'[s] = "idle" /\ wrLane'[s] = NoLane /\ wrTarget'[s] = 0
         /\ \A t \in Slots \ {s} : /\ hw'[t] = hw[t] /\ wrLane'[t] = wrLane[t]
                                   /\ wrGen'[t] = wrGen[t] /\ wrTarget'[t] = wrTarget[t]
  <1> USE DEF IInv, Retire
  <1>1. OwnerInv' /\ (Broken => Broken')
    BY DEF OwnerInv, Broken
  <1>2. EndInv'
    BY EndFrame
  <1>3. /\ wrLane' \in [Slots -> Lanes \cup {NoLane}]
        /\ wrTarget' \in [Slots -> LeaseIds \cup {0}]
        /\ hw' \in [Slots -> {"idle", "posted", "done"}]
    BY DEF TypeOK
  <1>4. wrGen' \in [Slots -> 0..GenMax]
    BY GenAssumption DEF TypeOK
  <1>5. /\ hw'[s] = "idle" /\ wrLane'[s] = NoLane /\ wrTarget'[s] = 0
        /\ \A t \in Slots \ {s} : /\ hw'[t] = hw[t] /\ wrLane'[t] = wrLane[t]
                                  /\ wrGen'[t] = wrGen[t] /\ wrTarget'[t] = wrTarget[t]
    BY DEF TypeOK
  <1>6. ASSUME NEW l \in Lanes PROVE OutstandingOf(l)' \subseteq OutstandingOf(l)
    BY <1>5, LanesAssumption DEF OutstandingOf
  <1>7. LaneInv'
    BY <1>6, LaneFrame
  <1> QED BY <1>1, <1>2, <1>3, <1>4, <1>5, <1>7

(* A completed RECV is lent as a lease of its own. *)
LEMMA RouteRecvKeeps ==
  ASSUME IInv, NEW s \in Slots, NEW q \in Seqs, RouteRecv(s, q)
  PROVE  IInv'
  <1> USE DEF RouteRecv, ReadyRecv, LeaseRxSlot, IInv
  <1>1. pollErr' = pollErr /\ pollErr \in {"none", "completion", "protocol"}
    BY DEF ownerVars, TypeOK
  <1>2. /\ OwnerInv' /\ (Broken => Broken') /\ LaneInv' /\ EndInv'
        /\ wrLane' \in [Slots -> Lanes \cup {NoLane}]
        /\ wrGen' \in [Slots -> 0..GenMax]
        /\ wrTarget' \in [Slots -> LeaseIds \cup {0}]
        /\ hw' \in [Slots -> {"idle", "posted", "done"}]
        /\ hw'[s] = "idle" /\ wrLane'[s] = NoLane /\ wrTarget'[s] = 0
        /\ \A t \in Slots \ {s} : /\ hw'[t] = hw[t] /\ wrLane'[t] = wrLane[t]
                                  /\ wrGen'[t] = wrGen[t] /\ wrTarget'[t] = wrTarget[t]
    BY <1>1, RetireFrame DEF ownerVars
  <1>3. s \in RxSlots /\ s \notin TxSlots /\ slotState[s] = "PostedRecv" /\ free[s] = 0 /\ wrLane[s] # NoLane
    BY SlotsAssumption DEF SlotInv, Tracked
  <1>4. \A i \in LeaseIds : s \notin SlotsOf(leases[i])
    BY <1>3, OutsideLeases
  <1>5. PICK n \in LeaseIds : n = NewLease /\ leases[n] = {} /\ n # 0 /\ holder[n] = "none"
    BY NewLeaseUnused DEF LeaseInv, Booked
  <1>6. /\ leases' = [leases EXCEPT ![n] = Identities({s}, slotGen)]
        /\ holder' = [holder EXCEPT ![n] = "caller"]
        /\ leases'[n] = Identities({s}, slotGen) /\ SlotsOf(leases'[n]) = {s}
        /\ holder'[n] = "caller"
        /\ \A i \in LeaseIds \ {n} : leases'[i] = leases[i] /\ holder'[i] = holder[i]
    BY <1>5, IdentitiesNameSlots DEF TypeOK
  <1>7. leases'[n] = {<<s, slotGen[s]>>}
    BY <1>6 DEF Identities
  <1>8. TypeOK'
    <2>1. slotState' \in [Slots -> SlotStates] /\ holder' \in [LeaseIds -> Holders]
      BY <1>6 DEF TypeOK, Moved, SlotStates, Holders
    <2>2. rxIds' \in [Lanes -> SUBSET Seqs]
      BY DEF TypeOK
    <2> DEFINE Ids == SUBSET (Slots \X (0..GenMax))
    <2>3. Identities({s}, slotGen) \in Ids
      BY DEF Identities, TypeOK
    <2>4. leases \in [LeaseIds -> Ids]
      BY DEF TypeOK
    <2> HIDE DEF Ids
    <2>5. leases' \in [LeaseIds -> Ids]
      BY <1>6, <2>3, <2>4
    <2> USE DEF Ids
    <2> QED BY <1>2, <2>1, <2>2, <2>5 DEF TypeOK, laneVars, ownerVars
  <1>9. ASSUME NEW t \in Slots PROVE Tracked(t)' /\ Awaited(t)'
    <2>1. Tracked(t) /\ Awaited(t) /\ wrTarget[t] \in LeaseIds \cup {0}
      BY DEF SlotInv, TypeOK
    <2>2. CASE t = s
      BY <1>2, <1>3, <1>7, <2>1, <2>2 DEF Tracked, Awaited, Moved, LeasedAs
    <2>3. CASE t # s
      <3>1. Tracked(t)'
        BY <1>2, <2>1, <2>3 DEF Tracked, Moved
      <3>2. \A i \in LeaseIds : <<t, slotGen[t]>> \in leases[i] => <<t, slotGen[t]>> \in leases'[i]
        BY <1>5, <1>6
      <3>3. wrTarget[t] # 0 => holder'[wrTarget[t]] = holder[wrTarget[t]]
        BY <1>5, <1>6, <2>1 DEF Awaited
      <3>4. Awaited(t)'
        BY <1>2, <2>1, <2>3, <3>2, <3>3 DEF Awaited, Moved, LeasedAs
      <3> QED BY <3>1, <3>4
    <2> QED BY <2>2, <2>3
  <1>10. ASSUME NEW i \in LeaseIds PROVE Booked(i)'
    <2>1. Booked(i)
      BY DEF LeaseInv
    <2>2. CASE i = n
      <3>1. Kept(n, <<s, slotGen[s]>>)'
        BY <1>3 DEF Kept, Moved, LeasedAs
      <3> QED BY <1>3, <1>6, <1>7, <2>2, <3>1 DEF Booked
    <2>3. CASE i # n
      <3>1. ASSUME NEW id \in leases[i] PROVE Kept(i, id)'
        <4>1. Kept(i, id) /\ id[1] \in Slots /\ id[1] # s
          BY <1>4, <2>1, SlotsOfLease DEF Booked
        <4> QED BY <1>2, <1>6, <2>3, <4>1 DEF Kept, Moved, LeasedAs
      <3> QED BY <1>2, <1>6, <2>1, <2>3, <3>1 DEF Booked
    <2> QED BY <2>2, <2>3
  <1>11. ASSUME NEW i \in LeaseIds, NEW j \in LeaseIds PROVE Apart(i, j)'
    <2>1. Apart(i, j)
      BY DEF LeaseInv
    <2>2. \A k \in LeaseIds :
             SlotsOf(leases'[k]) = IF k = n THEN {s} ELSE SlotsOf(leases[k])
      BY <1>6
    <2>3. i # j => {s} \cap SlotsOf(leases[j]) = {} /\ SlotsOf(leases[i]) \cap {s} = {}
      BY <1>4
    <2>4. i # j => SlotsOf(leases[i]) \cap SlotsOf(leases[j]) = {}
      BY <2>1 DEF Apart
    <2>5. i # j => SlotsOf(leases'[i]) \cap SlotsOf(leases'[j]) = {}
      BY SMTT(40), <2>2, <2>3, <2>4
    <2> QED BY <2>5 DEF Apart
  <1>12. PermitsBacked'
    <2>1. FreeTx \subseteq FreeTx'
      BY <1>3 DEF FreeTx, Moved, Slots
    <2> QED BY <2>1, PermitsFrame
  <1> QED BY <1>2, <1>8, <1>9, <1>10, <1>11, <1>12 DEF SlotInv, LeaseInv

(* A RECV that brings no lease frees its slot. *)
LEMMA RecvFreedKeeps ==
  ASSUME IInv, NEW s \in Slots, NEW taken \in SUBSET Seqs,
         RouteRecvRejected(s, taken) \/ RouteRecvError(s)
  PROVE  IInv'
  <1> USE DEF IInv
  <1>1. /\ ReadyRecv(s) /\ Retire(s) /\ CompleteError(s)
        /\ UNCHANGED <<laneVars, leaseVars, poisoned, pc, phase, reapErr, failures, active>>
    BY DEF RouteRecvRejected, RouteRecvError
  <1>2. /\ pollErr' \in {"none", "completion", "protocol"}
        /\ pollErr # "none" => pollErr' # "none"
        /\ rxIds' \in [Lanes -> SUBSET Seqs]
    BY DEF RouteRecvRejected, RouteRecvError, FirstError, TypeOK
  <1>3. /\ OwnerInv' /\ (Broken => Broken') /\ LaneInv' /\ EndInv'
        /\ wrLane' \in [Slots -> Lanes \cup {NoLane}]
        /\ wrGen' \in [Slots -> 0..GenMax]
        /\ wrTarget' \in [Slots -> LeaseIds \cup {0}]
        /\ hw' \in [Slots -> {"idle", "posted", "done"}]
        /\ hw'[s] = "idle" /\ wrLane'[s] = NoLane /\ wrTarget'[s] = 0
        /\ \A t \in Slots \ {s} : /\ hw'[t] = hw[t] /\ wrLane'[t] = wrLane[t]
                                  /\ wrGen'[t] = wrGen[t] /\ wrTarget'[t] = wrTarget[t]
    BY <1>1, <1>2, RetireFrame DEF ReadyRecv, CompleteError
  <1> USE DEF CompleteError
  <1>4. s \in RxSlots /\ s \notin TxSlots /\ slotState[s] = "PostedRecv" /\ free[s] = 0 /\ wrLane[s] # NoLane
    BY <1>1, SlotsAssumption DEF SlotInv, Tracked, ReadyRecv
  <1>5. \A i \in LeaseIds : s \notin SlotsOf(leases[i])
    BY <1>4, OutsideLeases
  <1>6. TypeOK'
    <2>1. slotState' \in [Slots -> SlotStates] /\ free' \in [Slots -> Nat]
      BY <1>1 DEF TypeOK, Moved, Returned, SlotStates
    <2> QED BY <1>1, <1>2, <1>3, <2>1 DEF TypeOK, laneVars, leaseVars
  <1>7. ASSUME NEW t \in Slots PROVE Tracked(t)' /\ Awaited(t)'
    <2>1. Tracked(t) /\ Awaited(t)
      BY DEF SlotInv
    <2>2. CASE t = s
      BY <1>1, <1>3, <1>4, <2>1, <2>2 DEF Tracked, Awaited, Moved, Returned, LeasedAs
    <2>3. CASE t # s
      <3>1. Tracked(t)'
        BY <1>1, <1>3, <2>1, <2>3 DEF Tracked, Moved, Returned
      <3>2. Awaited(t)'
        BY <1>1, <1>3, <2>1, <2>3 DEF Awaited, Moved, LeasedAs, leaseVars
      <3> QED BY <3>1, <3>2
    <2> QED BY <2>2, <2>3
  <1>8. ASSUME NEW i \in LeaseIds PROVE Booked(i)'
    <2>1. Booked(i)
      BY DEF LeaseInv
    <2>2. ASSUME NEW id \in leases[i] PROVE Kept(i, id)'
      <3>1. Kept(i, id) /\ id[1] \in Slots /\ id[1] # s
        BY <1>5, <2>1, SlotsOfLease DEF Booked
      <3> QED BY <1>1, <1>3, <3>1 DEF Kept, Moved, LeasedAs, leaseVars
    <2> QED BY <1>1, <1>3, <2>1, <2>2 DEF Booked, leaseVars
  <1>9. \A i, j \in LeaseIds : Apart(i, j)'
    BY <1>1 DEF LeaseInv, Apart
  <1>10. PermitsBacked'
    <2>1. FreeTx \subseteq FreeTx'
      BY <1>1, <1>4 DEF FreeTx, Moved, Slots
    <2> QED BY <1>1, <2>1, PermitsFrame DEF leaseVars
  <1> QED BY <1>3, <1>6, <1>7, <1>8, <1>9, <1>10 DEF SlotInv, LeaseInv

(* A SEND whose window was failed before frees its slot. *)
LEMMA SendFreedKeeps ==
  ASSUME IInv, NEW s \in Slots, NEW ok \in BOOLEAN, RouteSend(s, ok), wrTarget[s] = 0
  PROVE  IInv'
  <1> USE DEF IInv
  <1>1. /\ pc = "pollSend" /\ s \in TxSlots /\ hw[s] = "done" /\ wrLane[s] # NoLane
        /\ Retire(s) /\ CompleteError(s)
        /\ UNCHANGED <<laneVars, rxIds, leaseVars, poisoned, pc, phase, reapErr, failures, active>>
    BY DEF RouteSend
  <1>2. /\ pollErr' \in {"none", "completion", "protocol"}
        /\ pollErr # "none" => pollErr' # "none"
    BY DEF RouteSend, FirstError, TypeOK
  <1>3. /\ OwnerInv' /\ (Broken => Broken') /\ LaneInv' /\ EndInv'
        /\ wrLane' \in [Slots -> Lanes \cup {NoLane}]
        /\ wrGen' \in [Slots -> 0..GenMax]
        /\ wrTarget' \in [Slots -> LeaseIds \cup {0}]
        /\ hw' \in [Slots -> {"idle", "posted", "done"}]
        /\ hw'[s] = "idle" /\ wrLane'[s] = NoLane /\ wrTarget'[s] = 0
        /\ \A t \in Slots \ {s} : /\ hw'[t] = hw[t] /\ wrLane'[t] = wrLane[t]
                                  /\ wrGen'[t] = wrGen[t] /\ wrTarget'[t] = wrTarget[t]
    BY <1>1, <1>2, RetireFrame DEF CompleteError
  <1>4. slotState[s] = "SendPosted" /\ free[s] = 0 /\ Broken /\ Broken'
    BY <1>1, <1>3 DEF SlotInv, Tracked, Awaited
  <1> USE DEF CompleteError
  <1>5. TypeOK'
    <2>1. slotState' \in [Slots -> SlotStates] /\ free' \in [Slots -> Nat]
      BY <1>1 DEF TypeOK, Moved, Returned, SlotStates
    <2> QED BY <1>1, <1>2, <1>3, <2>1 DEF TypeOK, laneVars, leaseVars
  <1>6. ASSUME NEW t \in Slots PROVE Tracked(t)' /\ Awaited(t)'
    <2>1. Tracked(t) /\ Awaited(t)
      BY DEF SlotInv
    <2>2. CASE t = s
      BY <1>1, <1>3, <1>4, <2>1, <2>2 DEF Tracked, Awaited, Moved, Returned, LeasedAs
    <2>3. CASE t # s
      <3>1. Tracked(t)'
        BY <1>1, <1>3, <2>1, <2>3 DEF Tracked, Moved, Returned
      <3>2. Awaited(t)'
        BY <1>1, <1>3, <2>1, <2>3 DEF Awaited, Moved, LeasedAs, leaseVars
      <3> QED BY <3>1, <3>2
    <2> QED BY <2>2, <2>3
  <1>7. ASSUME NEW i \in LeaseIds PROVE Booked(i)'
    <2>1. Booked(i)
      BY DEF LeaseInv
    <2>2. ASSUME NEW id \in leases[i] PROVE Kept(i, id)'
      <3>1. Kept(i, id) /\ id[1] \in Slots /\ i # 0
        BY <2>1, SlotsOfLease, LeaseIdsAssumption DEF Booked
      <3> QED BY <1>1, <1>3, <1>4, <3>1 DEF Kept, Moved, LeasedAs, leaseVars
    <2> QED BY <1>1, <1>4, <2>1, <2>2 DEF Booked, leaseVars
  <1>8. \A i, j \in LeaseIds : Apart(i, j)'
    BY <1>1 DEF LeaseInv, Apart
  <1>9. PermitsBacked'
    <2>1. FreeTx \subseteq FreeTx'
      BY <1>1 DEF FreeTx, Moved, Slots
    <2> QED BY <1>1, <2>1, PermitsFrame DEF leaseVars
  <1> QED BY <1>3, <1>5, <1>6, <1>7, <1>8, <1>9 DEF SlotInv, LeaseInv

(* A SEND of a window that waits: the slot goes back to its lease, which     *)
(* leaves the window with the last of its WRs.                               *)
LEMMA SendReturnedKeeps ==
  ASSUME IInv, NEW s \in Slots, NEW ok \in BOOLEAN, RouteSend(s, ok), wrTarget[s] # 0
  PROVE  IInv'
  <1> USE DEF IInv
  <1>1. PICK i \in LeaseIds : i = wrTarget[s]
    BY DEF TypeOK
  <1>2. /\ pc = "pollSend" /\ s \in TxSlots /\ hw[s] = "done" /\ wrLane[s] # NoLane
        /\ Retire(s) /\ CompleteTxLeaseSend(s)
        /\ UNCHANGED <<laneVars, rxIds, permits, poisoned, pc, phase, reapErr, failures, active>>
    BY DEF RouteSend
  <1>3. /\ pollErr' \in {"none", "completion", "protocol"}
        /\ pollErr # "none" => pollErr' # "none"
    BY DEF RouteSend, FirstError, TypeOK
  <1>4. /\ OwnerInv' /\ (Broken => Broken') /\ LaneInv' /\ EndInv'
        /\ wrLane' \in [Slots -> Lanes \cup {NoLane}]
        /\ wrGen' \in [Slots -> 0..GenMax]
        /\ wrTarget' \in [Slots -> LeaseIds \cup {0}]
        /\ hw' \in [Slots -> {"idle", "posted", "done"}]
        /\ hw'[s] = "idle" /\ wrLane'[s] = NoLane /\ wrTarget'[s] = 0
        /\ \A t \in Slots \ {s} : /\ hw'[t] = hw[t] /\ wrLane'[t] = wrLane[t]
                                  /\ wrGen'[t] = wrGen[t] /\ wrTarget'[t] = wrTarget[t]
    BY <1>2, <1>3, RetireFrame DEF CompleteTxLeaseSend
  <1> DEFINE last == \A t \in Slots \ {s} : wrTarget[t] # i
  <1>5. /\ holder'[i] \in {"window", "queued", "caller"}
        /\ holder'[i] = "window" <=> ~last
        /\ \A k \in LeaseIds \ {i} : holder'[k] = holder[k]
        /\ holder' \in [LeaseIds -> Holders] /\ txErr' \in [LeaseIds -> Flag]
    BY <1>1 DEF RouteSend, TypeOK, Holders, Flag
  <1>6. /\ slotState[s] = "SendPosted" /\ free[s] = 0
        /\ holder[i] = "window" /\ <<s, slotGen[s]>> \in leases[i]
    BY <1>1, <1>2 DEF SlotInv, Tracked, Awaited
  <1> USE DEF CompleteTxLeaseSend
  <1>7. TypeOK'
    <2>1. slotState' \in [Slots -> SlotStates]
      BY <1>2 DEF TypeOK, Moved, SlotStates
    <2> QED BY <1>2, <1>3, <1>4, <1>5, <2>1 DEF TypeOK, laneVars
  <1>8. ASSUME NEW t \in Slots PROVE Tracked(t)' /\ Awaited(t)'
    <2>1. Tracked(t) /\ Awaited(t) /\ wrTarget[t] \in LeaseIds \cup {0}
      BY DEF SlotInv, TypeOK
    <2>2. CASE t = s
      <3>1. Tracked(t)'
        BY <1>2, <1>4, <1>6, <2>1, <2>2, SlotsAssumption DEF Tracked, Moved
      <3>2. Awaited(t)'
        BY <1>2, <1>4, <1>6, <2>1, <2>2 DEF Awaited, Moved, LeasedAs
      <3> QED BY <3>1, <3>2
    <2>3. CASE t # s
      <3>1. Tracked(t)'
        BY <1>2, <1>4, <2>1, <2>3 DEF Tracked, Moved
      <3>2. wrTarget[t] # 0 => holder'[wrTarget[t]] = "window"
        BY <1>5, <2>1, <2>3 DEF Awaited
      <3>3. Awaited(t)'
        BY <1>2, <1>4, <2>1, <2>3, <3>2 DEF Awaited, Moved, LeasedAs
      <3> QED BY <3>1, <3>3
    <2> QED BY <2>2, <2>3
  <1>9. ASSUME NEW k \in LeaseIds PROVE Booked(k)'
    <2>1. Booked(k)
      BY DEF LeaseInv
    <2>2. ASSUME NEW id \in leases[k] PROVE Kept(k, id)'
      <3>1. Kept(k, id) /\ id[1] \in Slots /\ id[1] \in SlotsOf(leases[k])
        BY <2>1, SlotsOfLease DEF Booked
      <3>2. CASE k = i
        <4>1. CASE id[1] = s
          BY <1>2, <3>1, <4>1 DEF Kept, Moved, LeasedAs
        <4>2. CASE id[1] # s
          <5>1. slotState[id[1]] = LeasedAs(id[1]) \/ (~last /\ wrTarget[id[1]] = i)
            BY <1>6, <3>1, <3>2, <4>2 DEF Kept
          <5> QED BY <1>2, <1>4, <1>5, <3>1, <3>2, <4>2, <5>1 DEF Kept, Moved, LeasedAs
        <4> QED BY <4>1, <4>2
      <3>3. CASE k # i
        <4>1. s \in SlotsOf(leases[i])
          BY <1>6 DEF SlotsOf
        <4>2. id[1] # s
          BY <3>1, <3>3, <4>1 DEF LeaseInv, Apart
        <4> QED BY <1>2, <1>4, <1>5, <3>1, <3>3, <4>2 DEF Kept, Moved, LeasedAs
      <3> QED BY <3>2, <3>3
    <2>3. leases[i] # {} /\ SlotsOf(leases[i]) \subseteq TxSlots
      BY <1>6 DEF LeaseInv, Booked
    <2> QED BY <1>2, <1>4, <1>5, <2>1, <2>2, <2>3 DEF Booked
  <1>10. \A k, j \in LeaseIds : Apart(k, j)'
    BY <1>2 DEF LeaseInv, Apart
  <1>11. PermitsBacked'
    <2>1. FreeTx \subseteq FreeTx'
      BY <1>2, <1>6 DEF FreeTx, Moved, Slots
    <2> QED BY <1>2, <2>1, PermitsFrame
  <1> QED BY <1>4, <1>7, <1>8, <1>9, <1>10, <1>11 DEF SlotInv, LeaseInv

-----------------------------------------------------------------------------
(* The invariant.                                                          *)

(* The invariant holds at the start. *)
LEMMA InitInv == Init => IInv
  <1> SUFFICES ASSUME Init PROVE IInv
    OBVIOUS
  <1> USE DEF Init, PoolInit
  <1>1. TypeOK
    <2>1. Cardinality(TxSlots) \in Nat
      BY FiniteSlots DEF Slots
    <2> QED BY <2>1, GenAssumption, MaxCreditsAssumption
            DEF TypeOK, SlotStates, LaneStates, Holders, Flag
  <1>2. OwnerInv /\ EndInv
    BY DEF OwnerInv, EndInv
  <1>3. SlotInv
    BY DEF SlotInv, Tracked, Awaited, LeasedAs
  <1>4. LeaseInv
    <2>1. \A i \in LeaseIds : SlotsOf(leases[i]) = {}
      BY SlotsOfEmpty
    <2> QED BY <2>1 DEF LeaseInv, Booked, Apart
  <1>5. LaneInv
    BY LanesAssumption DEF LaneInv, Staged, ReapInv, Drained, OutstandingOf
  <1>6. PermitsBacked
    <2>1. FreeTx = TxSlots
      BY DEF FreeTx, Slots
    <2>2. Cardinality(TxSlots) \in Nat
      BY FiniteSlots DEF Slots
    <2>3. permits <= Cardinality(FreeTx)
      BY <2>1, <2>2
    <2> HIDE DEF Init
    <2> QED BY <2>3 DEF PermitsBacked, FreeTx
  <1> QED BY <1>1, <1>2, <1>3, <1>4, <1>5, <1>6 DEF IInv

(* Every step keeps it. *)
LEMMA NextInv == IInv /\ [Next]_vars => IInv'
  <1> SUFFICES ASSUME IInv, [Next]_vars PROVE IInv'
    OBVIOUS
  <1>1. ASSUME NEW l \in Lanes, CreateLane(l) PROVE IInv'
    BY <1>1, CreateLaneKeeps
  <1>2. ASSUME NEW l \in Lanes, BindLane(l) PROVE IInv'
    BY <1>2, BindLaneKeeps
  <1>3. ASSUME NEW l \in Lanes, AbortLane(l) PROVE IInv'
    BY <1>3, AbortLaneKeeps
  <1>4. ASSUME NEW l \in Lanes, NEW n \in 1..MaxCredits, GrantSendCredit(l, n) PROVE IInv'
    BY <1>4, GrantSendCreditKeeps
  <1>5. ASSUME NEW l \in Lanes, NEW Q \in SUBSET Seqs, NEW S \in SUBSET OnFreeList(RxSlots),
               NEW P \in SUBSET S, NEW I \in SUBSET Q, PostReceiveWindow(l, Q, S, P, I)
        PROVE  IInv'
    BY <1>5, PostReceiveWindowKeeps
  <1>6. ASSUME NEW S \in SUBSET OnFreeList(TxSlots), AcquireTxWindow(S) PROVE IInv'
    BY <1>6, AcquireTxWindowKeeps
  <1>7. ASSUME NEW i \in LeaseIds, NEW l \in Lanes, NEW P \in SUBSET SlotsOf(leases[i]),
               SendRegisteredWindow(l, i, P)
        PROVE  IInv'
    BY <1>7, SendRegisteredWindowKeeps
  <1>8. ASSUME NEW i \in LeaseIds, NEW l \in Lanes, SendRefused(l, i) PROVE IInv'
    BY <1>8, DropKeeps DEF SendRefused
  <1>9. ASSUME NEW i \in LeaseIds, DropLease(i) PROVE IInv'
    BY <1>9, DropKeeps DEF DropLease
  <1>10. ASSUME NEW i \in LeaseIds, RecycleWindow(i) PROVE IInv'
    BY <1>10, RecycleWindowKeeps
  <1>11. CASE Shutdown
    BY <1>11, ShutdownKeeps
  <1>12. CASE Command
    BY <1>1, <1>2, <1>3, <1>4, <1>5, <1>6, <1>7, <1>8, <1>9, <1>10, <1>11, <1>12 DEF Command
  <1>13. CASE Recycling
    BY <1>13, RecycleLeaseKeeps DEF Recycling
  <1>14. CASE Provider
    BY <1>14, ProviderKeeps DEF Provider
  <1>15. CASE Route
    <2>1. ASSUME NEW s \in Slots, NEW ok \in BOOLEAN, RouteSend(s, ok) PROVE IInv'
      BY <2>1, SendFreedKeeps, SendReturnedKeeps
    <2>2. ASSUME NEW s \in Slots, RouteCorrupt(s) PROVE IInv'
      BY <2>2, ProviderKeeps
    <2>3. ASSUME NEW s \in Slots, NEW q \in Seqs, RouteRecv(s, q) PROVE IInv'
      BY <2>3, RouteRecvKeeps
    <2>4. ASSUME NEW s \in Slots, NEW taken \in SUBSET Seqs, RouteRecvRejected(s, taken) PROVE IInv'
      BY <2>4, RecvFreedKeeps
    <2>5. ASSUME NEW s \in Slots, RouteRecvError(s) PROVE IInv'
      <3>1. {} \in SUBSET Seqs
        OBVIOUS
      <3> QED BY <2>5, <3>1, RecvFreedKeeps
    <2>6. ASSUME NEW l \in Lanes, RouteFlush(l) PROVE IInv'
      BY <2>6, RouteFlushKeeps
    <2> QED BY <1>15, <2>1, <2>2, <2>3, <2>4, <2>5, <2>6 DEF Route
  <1>16. CASE PollStep
    BY <1>16, PollStepKeeps
  <1>17. CASE PollEnd
    BY <1>17, PollEndKeeps
  <1>18. CASE Reap
    BY <1>18, ReapDoneKeeps, ReapLaneKeeps DEF Reap
  <1>19. CASE DrainEnd
    BY <1>19, DrainEndKeeps
  <1>20. CASE UNCHANGED vars
    <2> USE <1>20 DEF vars, poolVars, laneVars, routerVars, leaseVars, ownerVars, IInv
    <2>1. TypeOK' /\ OwnerInv' /\ (Broken => Broken')
      BY DEF TypeOK, OwnerInv, Broken
    <2>2. SlotInv' /\ LeaseInv'
      BY <2>1, PoolFrame
    <2>3. LaneInv'
      BY LaneFrame DEF OutstandingOf
    <2>4. EndInv'
      BY DEF EndInv, Outstanding, NoActiveLease, OwnedLanes
    <2>5. PermitsBacked'
      BY DEF PermitsBacked
    <2> QED BY <2>1, <2>2, <2>3, <2>4, <2>5
  <1> QED BY <1>12, <1>13, <1>14, <1>15, <1>16, <1>17, <1>18, <1>19, <1>20 DEF Next, PollStep

(* The invariant holds in every reachable state. *)
LEMMA Invariant == Spec => []IInv
  <1>1. IInv /\ [Next]_vars => IInv'
    BY NextInv
  <1> QED BY <1>1, InitInv, PTL DEF Spec

-----------------------------------------------------------------------------
(* Every variable of the fabric keeps its range: no free-list count, credit  *)
(* or permit goes below zero and no generation above its largest.            *)
THEOREM TypeCorrect == Spec => []TypeOK
  <1>1. IInv => TypeOK
    BY DEF IInv
  <1> QED BY <1>1, Invariant, PTL

(* Every slot is on its free list once, with the provider through one WR of  *)
(* its generation, or in exactly one lease (buffer.rs, completion.rs).       *)
THEOREM OwnershipUnique == Spec => []SlotOwnership
  <1>1. IInv => SlotOwnership
    <2> SUFFICES ASSUME IInv, NEW s \in Slots,
                        slotState[s] = LeasedAs(s)
                 PROVE  \E i \in LeaseIds :
                           /\ <<s, slotGen[s]>> \in leases[i]
                           /\ \A j \in LeaseIds \ {i} : <<s, slotGen[s]>> \notin leases[j]
      BY DEF IInv, SlotInv, Tracked, SlotOwnership
    <2>1. PICK i \in LeaseIds : <<s, slotGen[s]>> \in leases[i]
      BY DEF IInv, SlotInv, Awaited
    <2>2. ASSUME NEW j \in LeaseIds \ {i} PROVE <<s, slotGen[s]>> \notin leases[j]
      <3>1. s \in SlotsOf(leases[i]) /\ s \notin SlotsOf(leases[j])
        BY <2>1 DEF IInv, LeaseInv, Apart, SlotsOf
      <3> QED BY <3>1 DEF SlotsOf
    <2> QED BY <2>1, <2>2
  <1> QED BY <1>1, Invariant, PTL

(* The slots of a lease in a caller's hands are leased under its generation  *)
(* and out of the provider's reach, and no lease loses its holder while no   *)
(* poll has failed (RegisteredTxWindowState::resolve, fail_pending).         *)
THEOREM LeasesKeptAlways == Spec => []LeasesKept
  <1>1. IInv => HeldLeaseIntact
    <2> SUFFICES ASSUME IInv, NEW i \in LeaseIds, holder[i] = "caller"
                 PROVE  /\ leases[i] # {}
                        /\ \A id \in leases[i] : Current(id, LeasedAs(id[1])) /\ hw[id[1]] = "idle"
      BY DEF HeldLeaseIntact
    <2>1. Booked(i)
      BY DEF IInv, LeaseInv
    <2>2. ASSUME NEW id \in leases[i] PROVE Current(id, LeasedAs(id[1])) /\ hw[id[1]] = "idle"
      <3>1. Kept(i, id) /\ id[1] \in Slots
        BY <2>1, SlotsOfLease DEF IInv, Booked
      <3>2. Tracked(id[1]) /\ hw[id[1]] \in {"idle", "posted", "done"}
        BY <3>1 DEF IInv, SlotInv, TypeOK
      <3> QED BY <3>1, <3>2 DEF Kept, Tracked, Current, LeasedAs
    <2> QED BY <2>1, <2>2 DEF Booked
  <1>2. IInv => NoLostLease
    BY DEF IInv, LeaseInv, Booked, NoLostLease, Broken
  <1>3. IInv => LeasesKept
    BY <1>1, <1>2 DEF LeasesKept
  <1> QED BY <1>3, Invariant, PTL

(* The semaphore never promises more TX slots than the free list holds       *)
(* (commit_ and release_tx_slot_permits).                                    *)
THEOREM PermitsAlwaysBacked == Spec => []PermitsBacked
  <1>1. IInv => PermitsBacked
    BY DEF IInv
  <1> QED BY <1>1, Invariant, PTL

(* A Jetty outlives its WRs, a drained lane leaves, the Segment outlives its *)
(* users, and the guard of the process goes back only when all are gone      *)
(* (reap_drained_lanes, UrmaBufferPool::close, shutdown_inner).              *)
THEOREM LifetimesAlwaysNest == Spec => []LifetimesNest
  <1> SUFFICES IInv => LifetimesNest
    BY Invariant, PTL
  <1> SUFFICES ASSUME IInv PROVE LifetimesNest
    OBVIOUS
  <1> USE DEF IInv
  <1>1. JettyOutlivesWrs
    BY DEF JettyOutlivesWrs, LaneInv, Staged
  <1>2. RetiredLanesLeave
    BY DEF RetiredLanesLeave, LaneInv, ReapInv, OwnerInv
  <1>3. SegmentOutlivesUse
    <2> SUFFICES ASSUME segment = "closed"
                 PROVE  /\ \A s \in Slots : hw[s] # "posted"
                        /\ \A i \in LeaseIds : holder[i] # "caller"
      BY DEF SegmentOutlivesUse
    <2>1. Outstanding = {} /\ NoActiveLease
      BY DEF EndInv
    <2>2. \A s \in Slots : wrLane[s] = NoLane
      BY <2>1 DEF Outstanding
    <2> QED BY <2>1, <2>2 DEF SlotInv, Tracked, LeaseInv, Booked, NoActiveLease
  <1>4. GuardGivenBackClean
    BY DEF GuardGivenBackClean, EndInv, NoActiveLease, LeaseInv, Booked
  <1> QED BY <1>1, <1>2, <1>3, <1>4 DEF LifetimesNest
=============================================================================
