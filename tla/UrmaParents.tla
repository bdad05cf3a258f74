----------------------------- MODULE UrmaParents -----------------------------
(* The URMA downloader of a peer (resource/piece_downloader.rs, mod urma): the *)
(* clients it caches per parent, the gate under which one is built, the        *)
(* penalties of parents that failed, and the shared fabric, which can fail and *)
(* is then started again. One parent; its calls run at the same time.          *)
EXTENDS Integers, FiniteSets

CONSTANTS
    Calls,        \* downloads of pieces from the parent
    Streaming,    \* those of them that go through the stream operations
    Bounds,       \* choices of the calls that are made and of the fabrics that may fail
    None          \* no gate, no client

VARIABLES
    bound,        \* one of Bounds: [calls, failures]
    fabricState,  \* "none", "failed" or "ready"
    fabric,       \* number of the last fabric that was started
    failed,       \* fabrics that have failed
    penalty,      \* of the parent: "none", "active" or "expired"
    capable,      \* the parent's advertisement is cached
    cached,       \* generation of the cached client, or None
    generation,   \* generations given out
    on,           \* generation -> its fabric
    broken,       \* generations whose transfers have recorded a failure
    succeeded,    \* generations whose transfers have recorded a success
    step,         \* call -> where it stands
    gate,         \* call -> the construction gate it refers to, or None
    locked,       \* call -> it holds its gate
    handle,       \* call -> the generation it uses, or None
    doomed,       \* calls that found the fabric failed
    retired,      \* calls whose failure has removed their client
    blamed,       \* generation -> penalties that requests on it have brought
    reported,     \* generation -> penalties that lookups of it have brought
    faulted       \* generations on which a request failed while they were cached

cacheVars == <<cached, generation, on>>
fabricVars == <<bound, fabricState, fabric, failed>>
parentVars == <<penalty, capable, blamed, reported>>
outcomeVars == <<broken, succeeded, faulted>>
callVars == <<step, gate, locked, handle, doomed, retired>>
vars == <<fabricVars, parentVars, cacheVars, outcomeVars, callVars>>

Generations == 1 .. Cardinality(Calls)
Building == {"fabric", "advertise", "insert"}

TypeOK ==
    /\ fabricState \in {"none", "failed", "ready"}
    /\ bound \in Bounds
    /\ fabric \in 0 .. 2 * bound.failures + 2
    /\ failed \subseteq 1 .. fabric
    /\ penalty \in {"none", "active", "expired"}
    /\ capable \in BOOLEAN
    /\ cached \in Generations \cup {None}
    /\ generation \in 0 .. Cardinality(Calls)
    /\ on \in [Generations -> 0 .. fabric]
    /\ broken \subseteq Generations
    /\ succeeded \subseteq Generations
    /\ faulted \subseteq Generations
    /\ step \in [Calls -> {"check", "gate", "lookup", "retire", "penalize", "discard", "request",
                           "settle", "clear", "drop", "blame", "refused", "done"} \cup Building]
    /\ gate \in [Calls -> Calls \cup {None}]
    /\ locked \in [Calls -> BOOLEAN]
    /\ handle \in [Calls -> Generations \cup {None}]
    /\ \A c \in Calls : locked[c] => gate[c] # None
    /\ \A c \in Calls : step[c] = "request" => handle[c] # None
    /\ doomed \subseteq Calls
    /\ retired \subseteq Calls
    /\ blamed \in [Generations -> Nat]
    /\ reported \in [Generations -> Nat]

Init ==
    /\ bound \in Bounds
    /\ fabricState = "none"
    /\ fabric = 0
    /\ failed = {}
    /\ penalty = "none"
    /\ capable = FALSE
    /\ blamed = [g \in Generations |-> 0]
    /\ reported = [g \in Generations |-> 0]
    /\ cached = None
    /\ generation = 0
    /\ on = [g \in Generations |-> 0]
    /\ broken = {}
    /\ succeeded = {}
    /\ faulted = {}
    /\ step = [c \in Calls |-> IF c \in bound.calls THEN "check" ELSE "done"]
    /\ gate = [c \in Calls |-> None]
    /\ locked = [c \in Calls |-> FALSE]
    /\ handle = [c \in Calls |-> None]
    /\ doomed = {}
    /\ retired = {}

Goto(c, s) == step' = [step EXCEPT ![c] = s]

\* client() returns: the call drops the gate it held and its reference to it.
Return(c, s) ==
    /\ Goto(c, s)
    /\ locked' = [locked EXCEPT ![c] = FALSE]
    /\ gate' = [gate EXCEPT ![c] = None]

record_failure ==
    /\ penalty' = "active"
    /\ capable' = FALSE

\* Only the generation that failed is removed.
retire_client(c) == cached' = IF cached = handle[c] THEN None ELSE cached

-----------------------------------------------------------------------------
(* client(): the client of the parent, cached or new.                         *)

\* Mutant: every call builds under a gate of its own.
OwnGate(c) ==
    /\ step[c] = "check"
    /\ penalty # "active"
    /\ gate' = [gate EXCEPT ![c] = c]
    /\ Goto(c, "gate")
    /\ UNCHANGED <<fabricVars, parentVars, cacheVars, outcomeVars, locked, handle, doomed, retired>>

\* The gate of the parent is shared by the calls that refer to it; the map itself
\* holds none. A gate is named after the call that made it.
client_init_gate(c) ==
    /\ step[c] = "check"
    /\ penalty # "active"
    /\ LET held == {gate[d] : d \in Calls} \ {None}
       IN  gate' = [gate EXCEPT ![c] = IF held = {} THEN c ELSE CHOOSE g \in held : TRUE]
    /\ Goto(c, "gate")
    /\ UNCHANGED <<fabricVars, parentVars, cacheVars, outcomeVars, locked, handle, doomed, retired>>

\* A parent that failed recently is refused, before and under the gate.
check_parent(c) ==
    /\ step[c] = "check"
    /\ penalty = "active"
    /\ Goto(c, "refused")
    /\ UNCHANGED <<fabricVars, parentVars, cacheVars, outcomeVars, gate, locked, handle, doomed, retired>>

LockGate(c) ==
    /\ step[c] = "gate"
    /\ \A d \in Calls : ~(locked[d] /\ gate[d] = gate[c])
    /\ IF penalty = "active"
       THEN Return(c, "refused")
       ELSE /\ Goto(c, "lookup")
            /\ locked' = [locked EXCEPT ![c] = TRUE]
            /\ UNCHANGED gate
    /\ UNCHANGED <<fabricVars, parentVars, cacheVars, outcomeVars, handle, doomed, retired>>

\* A cached client is used unless it was idle for too long, its fabric failed or
\* a transfer of it failed; a success clears the penalty.
Lookup(c) ==
    /\ step[c] = "lookup"
    /\ \/ /\ cached = None
          /\ Goto(c, "fabric")
          /\ UNCHANGED <<cached, succeeded, handle, penalty, gate, locked>>
       \/ /\ cached # None
          /\ handle' = [handle EXCEPT ![c] = cached]
          /\ UNCHANGED cached
          /\ IF on[cached] \in failed
             THEN Goto(c, "discard") /\ UNCHANGED <<succeeded, penalty, gate, locked>>
             ELSE IF cached \in broken
             THEN Goto(c, "retire") /\ UNCHANGED <<succeeded, penalty, gate, locked>>
             ELSE /\ Return(c, "request")
                  /\ succeeded' = succeeded \ {cached}
                  /\ penalty' = IF cached \in succeeded THEN "none" ELSE penalty
    /\ UNCHANGED <<fabricVars, capable, blamed, reported, generation, on, broken, faulted, doomed, retired>>

LookupIdle(c) ==
    /\ step[c] = "lookup"
    /\ cached # None
    /\ cached' = None
    /\ Goto(c, "fabric")
    /\ UNCHANGED <<fabricVars, parentVars, generation, on, outcomeVars, gate, locked, handle, doomed, retired>>

\* The client of a failed transfer goes, and the parent is penalised for it.
RetireBroken(c) ==
    /\ step[c] = "retire"
    /\ retire_client(c)
    /\ Goto(c, "penalize")
    /\ UNCHANGED <<fabricVars, parentVars, generation, on, outcomeVars, gate, locked, handle, doomed, retired>>

\* It is penalised even when a request on the same client has just removed it.
PenalizeBroken(c) ==
    /\ step[c] = "penalize"
    /\ record_failure
    /\ reported' = [reported EXCEPT ![handle[c]] = @ + 1]
    /\ Return(c, "refused")
    /\ UNCHANGED <<fabricVars, blamed, cacheVars, outcomeVars, handle, doomed, retired>>

DiscardFailed(c) ==
    /\ step[c] = "discard"
    /\ retire_client(c)
    /\ Goto(c, "fabric")
    /\ UNCHANGED <<fabricVars, parentVars, generation, on, outcomeVars, gate, locked, handle, doomed, retired>>

Ready == fabricState = "ready" /\ fabric \notin failed

\* The shared fabric is used while it works, and started again otherwise; after
\* a failed start only when the retry interval is over.
UseFabric(c) ==
    /\ step[c] = "fabric"
    /\ \/ /\ Ready
          /\ Goto(c, "advertise")
          /\ UNCHANGED <<fabricState, fabric, gate, locked>>
       \/ /\ ~Ready
          /\ fabric' = fabric + 1
          /\ fabricState' = "ready"
          /\ Goto(c, "advertise")
          /\ UNCHANGED <<gate, locked>>
       \/ /\ ~Ready
          /\ fabricState' = "failed"
          /\ Return(c, "refused")
          /\ UNCHANGED fabric
    /\ UNCHANGED <<bound, failed, parentVars, cacheVars, outcomeVars, handle, doomed, retired>>

\* The parent is asked for its advertisement, over TCP and under a timeout.
discover(c) ==
    \/ /\ capable' = TRUE
       /\ Goto(c, "insert")
       /\ UNCHANGED <<penalty, gate, locked>>
    \/ /\ record_failure
       /\ Return(c, "refused")

\* The cached advertisement is used until it expires.
advertisement(c) ==
    /\ step[c] = "advertise"
    /\ \/ capable /\ Goto(c, "insert") /\ UNCHANGED <<capable, penalty, gate, locked>>
       \/ discover(c)
    /\ UNCHANGED <<fabricVars, blamed, reported, cacheVars, outcomeVars, handle, doomed, retired>>

InsertClient(c) ==
    /\ step[c] = "insert"
    /\ generation' = generation + 1
    /\ on' = [on EXCEPT ![generation + 1] = fabric]
    /\ cached' = generation + 1
    /\ handle' = [handle EXCEPT ![c] = generation + 1]
    /\ Return(c, "request")
    /\ UNCHANGED <<fabricVars, parentVars, outcomeVars, doomed, retired>>

client(c) ==
    \/ client_init_gate(c) \/ check_parent(c) \/ LockGate(c)
    \/ Lookup(c) \/ LookupIdle(c)
    \/ RetireBroken(c) \/ PenalizeBroken(c) \/ DiscardFailed(c)
    \/ UseFabric(c) \/ advertisement(c) \/ InsertClient(c)

-----------------------------------------------------------------------------
(* The download of the call on its client, and what a failure leads to.       *)

\* The piece is there, or its transfer has begun; or the parent is busy, which
\* costs the client nothing.
Succeeds(c) ==
    /\ step[c] = "request"
    /\ Goto(c, "done")
    /\ UNCHANGED <<fabricVars, parentVars, cacheVars, outcomeVars, gate, locked, handle, doomed, retired>>

Fails(c) ==
    /\ step[c] = "request"
    /\ faulted' = faulted \cup ({handle[c]} \cap {cached})
    /\ IF on[handle[c]] \in failed
       THEN Goto(c, "settle") /\ doomed' = doomed \cup {c}
       ELSE Goto(c, "drop") /\ UNCHANGED doomed
    /\ UNCHANGED <<fabricVars, parentVars, cacheVars, broken, succeeded, gate, locked, handle, retired>>

\* retire_failed_fabric: the fabric is forgotten, and then, without its lock, the
\* clients, whichever fabric they are on by now.
RetireFabric(c) ==
    /\ step[c] = "settle"
    /\ IF fabricState = "ready" /\ fabric \in failed
       THEN fabricState' = "none" /\ Goto(c, "clear")
       ELSE Goto(c, "drop") /\ UNCHANGED fabricState
    /\ UNCHANGED <<bound, fabric, failed, parentVars, cacheVars, outcomeVars, gate, locked, handle, doomed, retired>>

ClearClients(c) ==
    /\ step[c] = "clear"
    /\ cached' = None
    /\ Goto(c, "drop")
    /\ UNCHANGED <<fabricVars, parentVars, generation, on, outcomeVars, gate, locked, handle, doomed, retired>>

\* Mutant: the cached client goes, whichever generation it is.
DropAny(c) ==
    /\ step[c] = "drop"
    /\ cached' = None
    /\ retired' = retired \cup {c}
    /\ Goto(c, "blame")
    /\ UNCHANGED <<fabricVars, parentVars, generation, on, outcomeVars, gate, locked, handle, doomed>>

DropClient(c) ==
    /\ step[c] = "drop"
    /\ retire_client(c)
    /\ retired' = IF cached = handle[c] THEN retired \cup {c} ELSE retired
    /\ Goto(c, "blame")
    /\ UNCHANGED <<fabricVars, parentVars, generation, on, outcomeVars, gate, locked, handle, doomed>>

\* Mutant: every request that fails penalises the parent.
BlameAlways(c) ==
    /\ step[c] = "blame"
    /\ record_failure
    /\ blamed' = [blamed EXCEPT ![handle[c]] = @ + (IF c \in doomed THEN 0 ELSE 1)]
    /\ Goto(c, "done")
    /\ doomed' = doomed \ {c}
    /\ retired' = retired \ {c}
    /\ UNCHANGED <<fabricVars, reported, cacheVars, outcomeVars, gate, locked, handle>>

Blame(c) ==
    /\ step[c] = "blame"
    /\ IF c \in retired \cup doomed
       THEN /\ record_failure
            /\ blamed' = [blamed EXCEPT ![handle[c]] = @ + (IF c \in doomed THEN 0 ELSE 1)]
       ELSE UNCHANGED <<penalty, capable, blamed>>
    /\ Goto(c, "done")
    /\ doomed' = doomed \ {c}
    /\ retired' = retired \ {c}
    /\ UNCHANGED <<fabricVars, reported, cacheVars, outcomeVars, gate, locked, handle>>

Settle(c) == RetireFabric(c) \/ ClearClients(c) \/ DropClient(c) \/ Blame(c)

handle_stream_result(c) == c \in Streaming /\ (Succeeds(c) \/ Fails(c) \/ Settle(c))
handle_piece_result(c) == c \notin Streaming /\ (Succeeds(c) \/ Fails(c) \/ Settle(c))

download_piece_stream(c) == client(c) /\ c \in Streaming
download_piece(c) == client(c) /\ c \notin Streaming

Call(c) ==
    \/ download_piece_stream(c)
    \/ download_piece(c)
    \/ handle_stream_result(c)
    \/ handle_piece_result(c)

-----------------------------------------------------------------------------
(* What happens around the calls.                                             *)

\* The transfer of a call goes on after it, ends well or fails for good; of a
\* client that is not cached any more nobody asks.
TransferEnds(g) ==
    /\ cached = g
    /\ \E c \in Calls : step[c] = "done" /\ handle[c] = g
    /\ g \notin broken
    /\ \/ broken' = broken \cup {g} /\ UNCHANGED succeeded
       \/ succeeded' = succeeded \cup {g} /\ UNCHANGED broken
    /\ UNCHANGED <<fabricVars, parentVars, cacheVars, faulted, callVars>>

FabricFails ==
    /\ fabric > 0
    /\ fabric \notin failed
    /\ Cardinality(failed) < bound.failures
    /\ failed' = failed \cup {fabric}
    /\ UNCHANGED <<bound, fabricState, fabric, parentVars, cacheVars, outcomeVars, callVars>>

PenaltyExpires ==
    /\ penalty = "active"
    /\ penalty' = "expired"
    /\ UNCHANGED <<fabricVars, capable, blamed, reported, cacheVars, outcomeVars, callVars>>

Next ==
    \/ \E c \in Calls : Call(c)
    \/ \E g \in Generations : TransferEnds(g)
    \/ FabricFails
    \/ PenaltyExpires

Spec == Init /\ [][Next]_vars

-----------------------------------------------------------------------------

\* Never two calls discover the parent or build a client for it at once, although
\* the gate is made and dropped with the calls that refer to it.
OneConstruction == Cardinality({c \in Calls : step[c] \in Building}) <= 1

\* However many requests fail on one client, they penalise its parent once, as long
\* as the fabric works: the back-off doubles per client and not per request. One more
\* penalty comes from the lookup that finds a failed transfer of the client, and only
\* from one: client() does not ask whether it was the one that removed the client, so
\* that a client both broken and failing a request costs two.
PenaltiesPerClient ==
    \A g \in Generations :
        /\ blamed[g] <= 1
        /\ reported[g] <= IF g \in broken THEN 1 ELSE 0

\* A client that is cached goes only for its own failure, for that of its fabric or
\* for its idleness; a call that failed on an older client leaves it alone, unless
\* it is about to clear the clients of a failed fabric.
HealthyStep ==
    cached # None /\ cached' # cached =>
        \/ cached \in broken \cup faulted
        \/ on[cached] \in failed
        \/ \E c \in Calls : step[c] \in {"lookup", "clear"} /\ step'[c] # step[c]

\* Every call must be answered: no path leaves the gate of the parent locked.
CallsEnded == \A c \in Calls : step[c] \in {"refused", "done"}

=============================================================================
