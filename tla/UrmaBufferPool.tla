--------------------------- MODULE UrmaBufferPool ---------------------------
(***************************************************************************)
(* The registered buffer pool of the URMA transport (urma/buffer.rs): one  *)
(* registered Segment cut into fixed TX and RX slots, a free list for each *)
(* kind, and the book of the leases that lend slots to other threads.  The *)
(* pool belongs to the fabric's owner thread, which runs every operation   *)
(* below; UrmaFabric composes them with the lanes and the completion       *)
(* router.                                                                 *)
(*                                                                         *)
(* A slot is handed out under an identity <<slot, generation>>; the        *)
(* generation counts allocations modulo 2^16 - 1 (zero is skipped), here   *)
(* modulo GenMax.  Offsets and lengths are left out: a lease spans its     *)
(* slots.  The free lists are multisets: which free slot is taken next is  *)
(* left open, but a slot freed twice is on its list twice.                 *)
(***************************************************************************)
EXTENDS Naturals, FiniteSets

CONSTANTS
    TxSlots, RxSlots,  \* the slots of the two kinds
    GenMax,            \* largest slot generation
    LeaseIds           \* names of leases; as many as there are slots

Slots == TxSlots \cup RxSlots

ASSUME SlotsAssumption ==
    /\ TxSlots \cap RxSlots = {}
    /\ IsFiniteSet(TxSlots)
    /\ IsFiniteSet(RxSlots)
ASSUME GenAssumption == GenMax \in Nat \ {0}
ASSUME LeaseIdsAssumption == LeaseIds \subseteq Nat \ {0}

SlotStates == {"Free", "PostedRecv", "LeasedRx", "LeasedTx", "SendPosted"}

VARIABLES
    slotState,   \* BufferSlot::state
    slotGen,     \* BufferSlot::generation
    free,        \* how often each slot is on its free list
    leases,      \* LeaseBook::active: the slot identities of each lease, {} if none
    segment      \* "open", "closed" (unregistered and freed) or "forgotten"

poolVars == <<slotState, slotGen, free, leases, segment>>

(***************************************************************************)
(* Slots may pass through Allocated, RecvCompleted and SendCompleted only  *)
(* inside one call of the owner thread, so no step ends in those states.   *)
(***************************************************************************)
PoolInit ==
    /\ slotState = [s \in Slots |-> "Free"]
    /\ slotGen = [s \in Slots |-> 0]
    /\ free = [s \in Slots |-> 1]
    /\ leases = [l \in LeaseIds |-> {}]
    /\ segment = "open"

\* Mutant: the generation does not wrap.
NextGenUnbounded(g) == g + 1

NextGen(g) == IF g = GenMax THEN 1 ELSE g + 1

OnFreeList(S) == {s \in S : free[s] > 0}

UnusedLeases == {l \in LeaseIds : leases[l] = {}}
NewLease == CHOOSE l \in UnusedLeases : TRUE

Identities(S, gen) == {<<s, gen[s]>> : s \in S}
SlotsOf(ids) == {id[1] : id \in ids}
Current(id, st) == slotGen[id[1]] = id[2] /\ slotState[id[1]] = st

Moved(S, st) == [s \in Slots |-> IF s \in S THEN st ELSE slotState[s]]
Bumped(S) == [s \in Slots |-> IF s \in S THEN NextGen(slotGen[s]) ELSE slotGen[s]]
Taken(S) == [s \in Slots |-> IF s \in S THEN free[s] - 1 ELSE free[s]]
Returned(S) == [s \in Slots |-> IF s \in S THEN free[s] + 1 ELSE free[s]]

\* Mutant: slots the provider refused do not go back to the free list.
PostRxSlotsKept(S, P) ==
    /\ slotState' = Moved(P, "PostedRecv")
    /\ slotGen' = Bumped(S)
    /\ free' = Taken(S)
    /\ UNCHANGED <<leases, segment>>

(***************************************************************************)
(* Reserve the RX slots S for one window, post P and give the others back: *)
(* the window is all-or-nothing up to the provider's refusal.              *)
(***************************************************************************)
PostRxSlots(S, P) ==
    /\ slotState' = Moved(P, "PostedRecv")
    /\ slotGen' = Bumped(S)
    /\ free' = Taken(P)
    /\ UNCHANGED <<leases, segment>>

\* Lease the free TX slots S to the caller under the name l.
LeaseTxSlots(l, S) ==
    /\ slotState' = Moved(S, "LeasedTx")
    /\ slotGen' = Bumped(S)
    /\ free' = Taken(S)
    /\ leases' = [leases EXCEPT ![l] = Identities(S, slotGen')]
    /\ UNCHANGED segment

\* Post the slots P of a leased window; the others stay LeasedTx.
PostTxSlots(P) ==
    /\ slotState' = Moved(P, "SendPosted")
    /\ UNCHANGED <<slotGen, free, leases, segment>>

\* A SEND completed, with whatever status: the slot goes back to its lease.
CompleteTxLeaseSend(s) ==
    /\ slotState' = Moved({s}, "LeasedTx")
    /\ UNCHANGED <<slotGen, free, leases, segment>>

\* A WR completed that nobody owns any more, or a RECV failed: release the slot.
CompleteError(s) ==
    /\ slotState' = Moved({s}, "Free")
    /\ free' = Returned({s})
    /\ UNCHANGED <<slotGen, leases, segment>>

\* A RECV completed: lend its slot to the waiter as the lease l.
LeaseRxSlot(l, s) ==
    /\ slotState' = Moved({s}, "LeasedRx")
    /\ leases' = [leases EXCEPT ![l] = Identities({s}, slotGen)]
    /\ UNCHANGED <<slotGen, free, segment>>

LeasedAs(s) == IF s \in TxSlots THEN "LeasedTx" ELSE "LeasedRx"
Recyclable(l) ==
    /\ leases[l] # {}
    /\ \A id \in leases[l] : Current(id, LeasedAs(id[1]))
Recycle(l) ==
    /\ slotState' = Moved(SlotsOf(leases[l]), "Free")
    /\ free' = Returned(SlotsOf(leases[l]))
    /\ leases' = [leases EXCEPT ![l] = {}]
    /\ UNCHANGED <<slotGen, segment>>

NoActiveLease == \A l \in LeaseIds : leases[l] = {}

\* Mutant: active leases do not keep the Segment.
EndPoolEager(busy, refused) ==
    /\ segment' = IF busy \/ refused THEN "open" ELSE "closed"
    /\ UNCHANGED <<slotState, slotGen, free, leases>>

(***************************************************************************)
(* The end of the pool: a close (when every lane is gone) or only the drop *)
(* of the value.  Active leases keep the Segment mapped for ever; the shim *)
(* refuses to delete it while it counts an unfinished WR (busy), and the   *)
(* provider may refuse too.                                                *)
(***************************************************************************)
EndPool(busy, refused) ==
    /\ segment' = IF ~NoActiveLease THEN "forgotten"
                  ELSE IF busy \/ refused THEN "open" ELSE "closed"
    /\ UNCHANGED <<slotState, slotGen, free, leases>>
=============================================================================
