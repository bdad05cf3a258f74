-------------------------- MODULE TransportProofs --------------------------
(* Proofs about the transports of a piece (MCTransport): the clients of TCP   *)
(* and QUIC parents with the upload server behind them (PieceTransfer), the   *)
(* clients of an URMA parent (UrmaParents) and an URMA session (UrmaSession), *)
(* for any number of requests, calls, clients, failing fabrics and transfers, *)
(* and for every shape of a piece, depth and limit of a session.              *)
EXTENDS MCTransport, FiniteSetTheorems, SequenceTheorems, TLAPS

-----------------------------------------------------------------------------
(* UrmaParents: the inductive invariant.                                      *)

\* A call that is here holds the gate of the parent.
Inside == {"lookup", "retire", "penalize", "discard"} \cup Parents!Building

\* A call that is here may still make a client.
Before == {"check", "gate"} \cup Inside

\* A fabric is started only when all before it have failed.
FabricInv ==
    /\ fabric \in Nat
    /\ failed \in {1 .. fabric, 1 .. fabric - 1}
    /\ Cardinality(failed) <= bound.failures
    /\ fabricState # "ready" => failed = 1 .. fabric

\* There is one gate, whoever made it, and one call at a time has it locked: the
\* one that is inside.
GateInv ==
    /\ \A c \in Calls : step[c] = "gate" => gate[c] # None
    /\ \A c \in Calls : locked[c] <=> step[c] \in Inside
    /\ \A c, d \in Calls : gate[c] # None /\ gate[d] # None => gate[c] = gate[d]
    /\ \A c, d \in Calls : locked[c] /\ locked[d] => c = d

\* The calls that may make a client.
Makers == {c \in Calls : step[c] \in Before}

\* Every call makes at most one client.
CountInv == generation + Cardinality(Makers) <= Cardinality(Calls)

\* Nobody knows a client that was not made; one is made only where none is cached.
CacheInv ==
    /\ cached # None => cached <= generation
    /\ \A c \in Calls : handle[c] # None => handle[c] <= generation
    /\ \A g \in Parents!Generations : blamed[g] > 0 => g <= generation
    /\ \A c \in Calls : step[c] \in Parents!Building => cached = None
    /\ \A c \in Calls : step[c] = "discard" => cached \in {handle[c], None}
    /\ \A c \in Calls : step[c] \in {"retire", "discard", "request", "settle", "clear", "drop", "blame"}
                            => handle[c] # None

\* A client has one call that retires it, and is blamed for by no other.
BlameInv ==
    /\ \A g \in Parents!Generations : blamed[g] <= 1
    /\ \A g \in Parents!Generations : cached = g => blamed[g] = 0
    /\ \A c \in retired : step[c] = "blame" /\ blamed[handle[c]] = 0 /\ cached # handle[c]
    /\ \A c, d \in retired : handle[c] = handle[d] => c = d

\* A client has one lookup that reports it, while it is about to go or after it has gone.
ReportInv ==
    /\ \A g \in Parents!Generations :
           /\ reported[g] \in {0, 1}
           /\ reported[g] = 1 => g \in broken /\ cached # g /\ g <= generation
    /\ \A c \in Calls : step[c] \in {"retire", "penalize"} =>
           handle[c] \in Parents!Generations /\ handle[c] \in broken /\ reported[handle[c]] = 0
    /\ \A c \in Calls : step[c] = "penalize" => cached # handle[c]

\* What a call is about to retire has failed, or is not the cached client any more.
HealthInv ==
    /\ \A c \in Calls : step[c] = "retire" => handle[c] \in broken
    /\ \A c \in Calls : step[c] = "discard" => on[handle[c]] \in failed
    /\ \A c \in Calls : step[c] \in {"settle", "clear", "drop"} /\ cached = handle[c]
                            => handle[c] \in faulted

ParentsInv ==
    /\ Parents!TypeOK
    /\ FabricInv
    /\ GateInv
    /\ CountInv
    /\ CacheInv
    /\ BlameInv
    /\ ReportInv
    /\ HealthInv

-----------------------------------------------------------------------------
(* UrmaParents: every step keeps the invariant.                               *)

\* UrmaParents and this module count in the same way.
LEMMA ParentsCardinality ==
  \A S : Parents!Cardinality(S) = Cardinality(S)
  BY Zenon DEF Parents!Cardinality, Cardinality

\* What the constants of UrmaParents are.
LEMMA ParentsConstants ==
  /\ Cardinality(Calls) \in Nat /\ Parents!Cardinality(Calls) = Cardinality(Calls)
  /\ None \notin Calls /\ None \notin Parents!Generations
  /\ Parents!Generations = 1 .. Cardinality(Calls)
  <1>1. Cardinality(Calls) \in Nat
    BY CallsAssumption, FS_CardinalityType
  <1>2. Parents!Cardinality(Calls) = Cardinality(Calls)
    BY ParentsCardinality
  <1> QED BY <1>1, <1>2, CallsAssumption DEF Parents!Generations

\* The bound of a behaviour.
LEMMA ParentsBound ==
  ASSUME Parents!TypeOK
  PROVE  bound.failures \in Nat
  <1>1. bound \in Bounds
    BY DEF Parents!TypeOK
  <1> QED BY <1>1, BoundsAssumption

\* There are never more fabrics than failures and one.
LEMMA FabricsBounded ==
  ASSUME NEW n \in Nat, NEW F, NEW m \in Nat, F \in {1 .. n, 1 .. n - 1}, Cardinality(F) <= m
  PROVE  n \in 0 .. 2 * m + 2 /\ F \subseteq 1 .. n
  <1>1. Cardinality(1 .. n) = n
    BY FS_Interval
  <1>2. n > 0 => Cardinality(1 .. n - 1) = n - 1
    BY FS_Interval
  <1> QED BY <1>1, <1>2

\* A step that makes no client keeps the count: the call does not come back to
\* those that may make one.
LEMMA CountKept ==
  ASSUME Parents!TypeOK, CountInv, NEW c \in Calls, NEW s,
         step' = [step EXCEPT ![c] = s], s \in Before => step[c] \in Before,
         generation' = generation
  PROVE  CountInv'
  <1>1. Makers' \in SUBSET Makers
    BY DEF Makers, Parents!TypeOK
  <1>2. IsFiniteSet(Makers)
    BY FS_Subset, CallsAssumption DEF Makers
  <1>3. Cardinality(Makers') <= Cardinality(Makers) /\ IsFiniteSet(Makers')
    BY <1>1, <1>2, FS_Subset
  <1>4. Cardinality(Makers') \in Nat /\ Cardinality(Makers) \in Nat
    BY <1>2, <1>3, FS_CardinalityType
  <1>5. generation \in Nat /\ Cardinality(Calls) \in Nat
    BY ParentsConstants DEF Parents!TypeOK
  <1> QED BY <1>3, <1>4, <1>5 DEF CountInv

\* A call that makes a client makes no other.
LEMMA CountMade ==
  ASSUME Parents!TypeOK, CountInv, NEW c \in Calls, NEW s,
         step' = [step EXCEPT ![c] = s], s \notin Before, step[c] \in Before,
         generation' = generation + 1
  PROVE  CountInv' /\ generation + 1 <= Cardinality(Calls)
  <1>1. Makers' = Makers \ {c} /\ c \in Makers
    BY DEF Makers, Parents!TypeOK
  <1>2. IsFiniteSet(Makers)
    BY FS_Subset, CallsAssumption DEF Makers
  <1>3. Cardinality(Makers') = Cardinality(Makers) - 1 /\ IsFiniteSet(Makers')
    BY <1>1, <1>2, FS_RemoveElement
  <1>4. Cardinality(Makers') \in Nat /\ Cardinality(Makers) \in Nat
    BY <1>2, <1>3, FS_CardinalityType
  <1>5. generation \in Nat /\ Cardinality(Calls) \in Nat
    BY ParentsConstants DEF Parents!TypeOK
  <1> QED BY <1>3, <1>4, <1>5 DEF CountInv

\* A step that leaves the gate alone stays inside or outside it.
LEMMA GateKept ==
  ASSUME Parents!TypeOK, GateInv, NEW c \in Calls, NEW s,
         Parents!Goto(c, s), UNCHANGED <<gate, locked>>,
         s # "gate", s \in Inside <=> step[c] \in Inside
  PROVE  GateInv'
  BY DEF GateInv, Parents!Goto, Parents!TypeOK

\* A call that returns from client() leaves the gate.
LEMMA GateLeft ==
  ASSUME Parents!TypeOK, GateInv, NEW c \in Calls, NEW s,
         Parents!Return(c, s), s \notin Inside \cup {"gate"}
  PROVE  GateInv'
  BY DEF GateInv, Parents!Goto, Parents!Return, Parents!TypeOK

\* What a call does to its own step, gate and lock has their types.
LEMMA CallTypes ==
  ASSUME Parents!TypeOK, NEW c \in Calls,
         NEW s \in {"gate", "lookup", "retire", "penalize", "discard", "request", "settle", "clear",
                    "drop", "blame", "refused", "done"} \cup Parents!Building,
         Parents!Goto(c, s), UNCHANGED <<gate, locked>> \/ Parents!Return(c, s)
  PROVE  /\ step' \in [Calls -> {"check", "gate", "lookup", "retire", "penalize", "discard", "request",
                                  "settle", "clear", "drop", "blame", "refused", "done"} \cup Parents!Building]
         /\ gate' \in [Calls -> Calls \cup {None}]
         /\ locked' \in [Calls -> BOOLEAN]
         /\ \A d \in Calls : locked'[d] => gate'[d] # None
         /\ \A d \in Calls \ {c} : step'[d] = step[d]
         /\ step'[c] = s
  <1>1. step' \in [Calls -> {"check", "gate", "lookup", "retire", "penalize", "discard", "request",
                            "settle", "clear", "drop", "blame", "refused", "done"} \cup Parents!Building]
    BY DEF Parents!Goto, Parents!TypeOK
  <1>2. CASE UNCHANGED <<gate, locked>>
    BY <1>1, <1>2 DEF Parents!Goto, Parents!TypeOK
  <1>3. CASE Parents!Return(c, s)
    <2>1. gate' \in [Calls -> Calls \cup {None}]
      BY <1>3 DEF Parents!Return, Parents!TypeOK
    <2>2. locked' \in [Calls -> BOOLEAN]
      BY <1>3 DEF Parents!Return, Parents!TypeOK
    <2>3. \A d \in Calls : locked'[d] => gate'[d] # None
      BY <1>3 DEF Parents!Return, Parents!TypeOK
    <2> QED BY <1>1, <2>1, <2>2, <2>3 DEF Parents!Goto, Parents!TypeOK
  <1> QED BY <1>2, <1>3

\* A step that neither looks a client up, nor reports one, nor makes one.
LEMMA ReportKept ==
  ASSUME ReportInv, Parents!TypeOK, UNCHANGED <<reported, generation>>, broken \subseteq broken',
         cached' \in {cached, None},
         \A d \in Calls : step'[d] \in {"retire", "penalize"}
                             => step'[d] = step[d] /\ handle'[d] = handle[d]
  PROVE  ReportInv'
  <1>1. None \notin Parents!Generations
    BY ParentsConstants
  <1>2. \A g \in Parents!Generations :
           /\ reported'[g] \in {0, 1}
           /\ reported'[g] = 1 => g \in broken' /\ cached' # g /\ g <= generation'
    BY <1>1 DEF ReportInv
  <1>3. \A d \in Calls : step'[d] \in {"retire", "penalize"} =>
           handle'[d] \in Parents!Generations /\ handle'[d] \in broken' /\ reported'[handle'[d]] = 0
    BY DEF ReportInv
  <1>4. \A d \in Calls : step'[d] = "penalize" => cached' # handle'[d]
    BY <1>1 DEF ReportInv
  <1> QED BY <1>2, <1>3, <1>4 DEF ReportInv

\* Every step of a call keeps the invariant.
LEMMA ParentsCallStep ==
  ASSUME ParentsInv, NEW c \in Calls, Parents!Call(c)
  PROVE  ParentsInv'
  <1> USE DEF ParentsInv, Parents!fabricVars, Parents!parentVars, Parents!cacheVars, Parents!outcomeVars, Parents!callVars
  <1>a. /\ Cardinality(Calls) \in Nat /\ Parents!Cardinality(Calls) = Cardinality(Calls)
        /\ None \notin Parents!Generations
    BY ParentsConstants
  <1>1. ASSUME Parents!client_init_gate(c) PROVE ParentsInv'
    <2>0. PICK s \in {"gate"} : Parents!Goto(c, s)
      BY <1>1 DEF Parents!client_init_gate
    <2>1. step[c] = "check" /\ Parents!Goto(c, s)
      BY <1>1, <2>0 DEF Parents!client_init_gate, Parents!Return
    <2>2. FabricInv'
      BY <1>1 DEF FabricInv, Parents!client_init_gate
    <2>3. GateInv'
      <3>1. gate'[c] # None /\ \A d \in Calls : gate[d] # None => gate'[c] = gate[d]
        <4> DEFINE held == {gate[d] : d \in Calls} \ {None}
        <4>1. gate'[c] = IF held = {} THEN c ELSE CHOOSE g \in held : TRUE
          BY <1>1 DEF Parents!client_init_gate, Parents!TypeOK
        <4>2. CASE held = {}
          BY CallsAssumption, <4>1, <4>2
        <4>3. CASE held # {}
          <5>1. gate'[c] \in held
            BY <4>1, <4>3
          <5> QED BY <5>1 DEF GateInv
        <4> QED BY <4>2, <4>3
      <3>2. /\ \A d \in Calls \ {c} : gate'[d] = gate[d] /\ step'[d] = step[d]
            /\ step'[c] = "gate" /\ UNCHANGED locked
        BY <1>1 DEF Parents!client_init_gate, Parents!Goto, Parents!TypeOK
      <3> QED BY <2>1, <3>1, <3>2 DEF GateInv, Inside, Parents!Building
    <2>4. CountInv'
      <3>1. step' = [step EXCEPT ![c] = s] /\ UNCHANGED generation
        BY <1>1, <2>1 DEF Parents!client_init_gate, Parents!Goto
      <3>2. s \in Before => step[c] \in Before
        BY <2>1 DEF Before, Inside, Parents!Building
      <3> QED BY <3>1, <3>2, CountKept
    <2>5. /\ \A d \in Calls \ {c} : step'[d] = step[d]
          /\ step'[c] = s
      BY <2>1 DEF Parents!Goto, Parents!TypeOK
    <2>6. Parents!TypeOK'
      <3>1. /\ fabricState' \in {"none", "failed", "ready"} /\ bound' \in Bounds
            /\ on' \in [Parents!Generations -> 0 .. fabric']
        BY <2>2, <2>4, <1>1 DEF Parents!client_init_gate, Parents!TypeOK, FabricInv
      <3>2. fabric' \in 0 .. 2 * bound'.failures + 2 /\ failed' \subseteq 1 .. fabric'
        <4>1. bound'.failures \in Nat
          BY <3>1, BoundsAssumption
        <4> QED BY <2>2, <4>1, FabricsBounded DEF FabricInv
      <3>3. /\ penalty' \in {"none", "active", "expired"} /\ capable' \in BOOLEAN
            /\ cached' \in Parents!Generations \cup {None}
            /\ generation' \in 0 .. Cardinality(Calls)
        BY <1>a, <2>4, <1>1, ParentsConstants DEF Parents!client_init_gate, Parents!TypeOK
      <3>4. /\ broken' \subseteq Parents!Generations /\ succeeded' \subseteq Parents!Generations
            /\ faulted' \subseteq Parents!Generations
            /\ doomed' \subseteq Calls /\ retired' \subseteq Calls
        BY <1>1 DEF Parents!client_init_gate, Parents!TypeOK
      <3>5. handle' \in [Calls -> Parents!Generations \cup {None}]
        BY <2>4, <1>1 DEF Parents!client_init_gate, Parents!TypeOK
      <3>6. blamed' \in [Parents!Generations -> Nat] /\ reported' \in [Parents!Generations -> Nat]
        BY <2>1, <1>1 DEF Parents!client_init_gate, Parents!TypeOK, CacheInv
      <3>7. \A d \in Calls : step'[d] = "request" => handle'[d] # None
        BY <1>a, <2>4, <2>5, <1>1 DEF Parents!client_init_gate, Parents!TypeOK
      <3>8. /\ step' \in [Calls -> {"check", "gate", "lookup", "retire", "penalize", "discard", "request",
                                     "settle", "clear", "drop", "blame", "refused", "done"} \cup Parents!Building]
            /\ gate' \in [Calls -> Calls \cup {None}]
            /\ locked' \in [Calls -> BOOLEAN]
            /\ \A d \in Calls : locked'[d] => gate'[d] # None
        <4>0. step' \in [Calls -> {"check", "gate", "lookup", "retire", "penalize", "discard", "request",
                                  "settle", "clear", "drop", "blame", "refused", "done"} \cup Parents!Building]
          BY <2>1 DEF Parents!TypeOK, Parents!Goto
        <4>1. gate' \in [Calls -> Calls \cup {None}]
          BY <1>1 DEF Parents!client_init_gate, Parents!TypeOK
        <4>2. gate'[c] # None /\ UNCHANGED locked /\ \A d \in Calls \ {c} : gate'[d] = gate[d]
          <5>1. step'[c] = "gate"
            BY <2>0, <2>5
          <5>2. gate'[c] # None
            BY <2>3, <5>1 DEF GateInv
          <5>3. UNCHANGED locked
            BY <1>1 DEF Parents!client_init_gate
          <5>4. \A d \in Calls \ {c} : gate'[d] = gate[d]
            BY <1>1 DEF Parents!client_init_gate, Parents!TypeOK
          <5> QED BY <5>2, <5>3, <5>4
        <4> QED BY <4>0, <4>1, <4>2 DEF Parents!TypeOK
      <3> QED BY <1>a, <3>1, <3>2, <3>3, <3>4, <3>5, <3>6, <3>7, <3>8 DEF Parents!TypeOK
    <2>7. CacheInv'
      <3>1. \A d \in Calls \ {c} : handle'[d] = handle[d]
        BY <1>1 DEF Parents!client_init_gate, Parents!TypeOK
      <3>2. UNCHANGED generation \/ generation' = generation + 1
        BY <1>1 DEF Parents!client_init_gate
      <3> QED BY <1>a, <2>1, <2>3, <2>4, <2>5, <3>1, <3>2, <1>1 DEF CacheInv,
          Parents!client_init_gate, Parents!TypeOK, Parents!Building
    <2>8. BlameInv'
      BY <1>a, <2>1, <2>5, <1>1 DEF BlameInv, CacheInv, Parents!client_init_gate,
          Parents!TypeOK
    <2>9. HealthInv'
      BY <1>a, <2>1, <2>5, <1>1 DEF HealthInv, CacheInv, Parents!client_init_gate,
          Parents!TypeOK
    <2>10. ReportInv'
      <3>1. /\ UNCHANGED <<reported, generation, broken>> /\ cached' \in {cached, None}
            /\ \A d \in Calls \ {c} : handle'[d] = handle[d]
        BY <1>1 DEF Parents!client_init_gate, Parents!retire_client, Parents!discover, Parents!record_failure, Parents!TypeOK
      <3>2. \A d \in Calls : step'[d] \in {"retire", "penalize"} => d # c
        BY <2>0, <2>5 DEF Parents!Building
      <3> QED BY <2>5, <3>1, <3>2, ReportKept
    <2> QED BY <2>2, <2>3, <2>4, <2>6, <2>7, <2>8, <2>9, <2>10
  <1>2. ASSUME Parents!check_parent(c) PROVE ParentsInv'
    <2>0. PICK s \in {"refused"} : Parents!Goto(c, s) /\ UNCHANGED <<gate, locked>>
      BY <1>2 DEF Parents!check_parent
    <2>1. step[c] = "check" /\ Parents!Goto(c, s)
      BY <1>2, <2>0 DEF Parents!check_parent, Parents!Return
    <2>2. FabricInv'
      BY <1>2 DEF FabricInv, Parents!check_parent
    <2>3. GateInv'
      BY <2>0, <2>1, GateKept DEF Inside, Parents!Building
    <2>4. CountInv'
      <3>1. step' = [step EXCEPT ![c] = s] /\ UNCHANGED generation
        BY <1>2, <2>1 DEF Parents!check_parent, Parents!Goto
      <3>2. s \in Before => step[c] \in Before
        BY <2>1 DEF Before, Inside, Parents!Building
      <3> QED BY <3>1, <3>2, CountKept
    <2>5. /\ \A d \in Calls \ {c} : step'[d] = step[d]
          /\ step'[c] = s
      BY <2>1 DEF Parents!Goto, Parents!TypeOK
    <2>6. Parents!TypeOK'
      BY <1>2, <2>0 DEF Parents!check_parent, Parents!TypeOK, Parents!Building,
          Parents!Goto, Parents!Return
    <2>7. CacheInv'
      BY <1>2, <2>1, <2>5 DEF CacheInv, Parents!check_parent, Parents!TypeOK,
          Parents!Building
    <2>8. BlameInv'
      BY <1>a, <2>1, <2>5, <1>2 DEF BlameInv, CacheInv, Parents!check_parent, Parents!TypeOK
    <2>9. HealthInv'
      BY <1>a, <2>1, <2>5, <1>2 DEF HealthInv, CacheInv, Parents!check_parent,
          Parents!TypeOK
    <2>10. ReportInv'
      <3>1. /\ UNCHANGED <<reported, generation, broken>> /\ cached' \in {cached, None}
            /\ \A d \in Calls \ {c} : handle'[d] = handle[d]
        BY <1>2 DEF Parents!check_parent, Parents!retire_client, Parents!discover, Parents!record_failure, Parents!TypeOK
      <3>2. \A d \in Calls : step'[d] \in {"retire", "penalize"} => d # c
        BY <2>0, <2>5 DEF Parents!Building
      <3> QED BY <2>5, <3>1, <3>2, ReportKept
    <2> QED BY <2>2, <2>3, <2>4, <2>6, <2>7, <2>8, <2>9, <2>10
  <1>3. ASSUME Parents!LockGate(c) PROVE ParentsInv'
    <2>0. PICK s \in {"lookup", "refused"} : Parents!Goto(c, s)
      BY <1>3 DEF Parents!LockGate, Parents!Return
    <2>1. step[c] = "gate" /\ Parents!Goto(c, s)
      BY <1>3, <2>0 DEF Parents!LockGate, Parents!Return
    <2>2. FabricInv'
      BY <1>3 DEF FabricInv, Parents!LockGate
    <2>3. GateInv'
      <3>1. CASE penalty = "active"
        BY <1>3, <3>1, GateLeft DEF Parents!LockGate, Inside, Parents!Building
      <3>2. CASE penalty # "active"
        <4>1. /\ step' = [step EXCEPT ![c] = "lookup"]
              /\ locked' = [locked EXCEPT ![c] = TRUE] /\ UNCHANGED gate
          BY <1>3, <3>2 DEF Parents!LockGate, Parents!Goto
        <4>2. \A d \in Calls : ~locked[d]
          BY <1>3, <2>1 DEF Parents!LockGate, GateInv, Parents!TypeOK
        <4>3. gate[c] # None /\ \A d \in Calls \ {c} : step'[d] = step[d] /\ ~locked'[d]
          BY <2>1, <4>1, <4>2 DEF GateInv, Parents!TypeOK
        <4>4. step'[c] = "lookup" /\ locked'[c]
          BY <4>1 DEF Parents!TypeOK
        <4> QED BY <4>1, <4>2, <4>3, <4>4 DEF GateInv, Inside, Parents!Building
      <3> QED BY <3>1, <3>2
    <2>4. CountInv'
      <3>1. step' = [step EXCEPT ![c] = s] /\ UNCHANGED generation
        BY <1>3, <2>1 DEF Parents!LockGate, Parents!Goto
      <3>2. s \in Before => step[c] \in Before
        BY <2>1 DEF Before, Inside, Parents!Building
      <3> QED BY <3>1, <3>2, CountKept
    <2>5. /\ \A d \in Calls \ {c} : step'[d] = step[d]
          /\ step'[c] = s
      BY <2>1 DEF Parents!Goto, Parents!TypeOK
    <2>6. Parents!TypeOK'
      <3>1. /\ fabricState' \in {"none", "failed", "ready"} /\ bound' \in Bounds
            /\ on' \in [Parents!Generations -> 0 .. fabric']
        BY <2>2, <2>4, <1>3 DEF Parents!LockGate, Parents!TypeOK, FabricInv
      <3>2. fabric' \in 0 .. 2 * bound'.failures + 2 /\ failed' \subseteq 1 .. fabric'
        <4>1. bound'.failures \in Nat
          BY <3>1, BoundsAssumption
        <4> QED BY <2>2, <4>1, FabricsBounded DEF FabricInv
      <3>3. /\ penalty' \in {"none", "active", "expired"} /\ capable' \in BOOLEAN
            /\ cached' \in Parents!Generations \cup {None}
            /\ generation' \in 0 .. Cardinality(Calls)
        BY <1>a, <2>4, <1>3, ParentsConstants DEF Parents!LockGate, Parents!TypeOK
      <3>4. /\ broken' \subseteq Parents!Generations /\ succeeded' \subseteq Parents!Generations
            /\ faulted' \subseteq Parents!Generations
            /\ doomed' \subseteq Calls /\ retired' \subseteq Calls
        BY <1>3 DEF Parents!LockGate, Parents!TypeOK
      <3>5. handle' \in [Calls -> Parents!Generations \cup {None}]
        BY <2>4, <1>3 DEF Parents!LockGate, Parents!TypeOK
      <3>6. blamed' \in [Parents!Generations -> Nat] /\ reported' \in [Parents!Generations -> Nat]
        BY <2>1, <1>3 DEF Parents!LockGate, Parents!TypeOK, CacheInv
      <3>7. \A d \in Calls : step'[d] = "request" => handle'[d] # None
        BY <1>a, <2>4, <2>5, <1>3 DEF Parents!LockGate, Parents!TypeOK
      <3>8. /\ step' \in [Calls -> {"check", "gate", "lookup", "retire", "penalize", "discard", "request",
                                     "settle", "clear", "drop", "blame", "refused", "done"} \cup Parents!Building]
            /\ gate' \in [Calls -> Calls \cup {None}]
            /\ locked' \in [Calls -> BOOLEAN]
            /\ \A d \in Calls : locked'[d] => gate'[d] # None
        <4>0. step' \in [Calls -> {"check", "gate", "lookup", "retire", "penalize", "discard", "request",
                                  "settle", "clear", "drop", "blame", "refused", "done"} \cup Parents!Building]
          BY <2>1 DEF Parents!TypeOK, Parents!Goto
        <4>1. CASE penalty = "active"
          BY <1>3, <4>0, <4>1, CallTypes DEF Parents!LockGate, Parents!Return
        <4>2. CASE penalty # "active"
          <5>1. locked' = [locked EXCEPT ![c] = TRUE] /\ UNCHANGED gate /\ gate[c] # None
            BY <1>3, <2>1, <4>2 DEF Parents!LockGate, GateInv
          <5>2. locked' \in [Calls -> BOOLEAN]
            BY <5>1 DEF Parents!TypeOK
          <5>3. \A d \in Calls : locked'[d] => gate'[d] # None
            BY <5>1 DEF Parents!TypeOK
          <5> QED BY <4>0, <5>1, <5>2, <5>3 DEF Parents!TypeOK
        <4> QED BY <4>1, <4>2
      <3> QED BY <1>a, <3>1, <3>2, <3>3, <3>4, <3>5, <3>6, <3>7, <3>8 DEF Parents!TypeOK
    <2>7. CacheInv'
      <3>1. \A d \in Calls \ {c} : handle'[d] = handle[d]
        BY <1>3 DEF Parents!LockGate, Parents!TypeOK
      <3>2. UNCHANGED generation \/ generation' = generation + 1
        BY <1>3 DEF Parents!LockGate
      <3> QED BY <1>a, <2>1, <2>3, <2>4, <2>5, <3>1, <3>2, <1>3 DEF CacheInv,
          Parents!LockGate, Parents!TypeOK, Parents!Building
    <2>8. BlameInv'
      BY <1>a, <2>1, <2>5, <1>3 DEF BlameInv, CacheInv, Parents!LockGate, Parents!TypeOK
    <2>9. HealthInv'
      BY <1>a, <2>1, <2>5, <1>3 DEF HealthInv, CacheInv, Parents!LockGate, Parents!TypeOK
    <2>10. ReportInv'
      <3>1. /\ UNCHANGED <<reported, generation, broken>> /\ cached' \in {cached, None}
            /\ \A d \in Calls \ {c} : handle'[d] = handle[d]
        BY <1>3 DEF Parents!LockGate, Parents!retire_client, Parents!discover, Parents!record_failure, Parents!TypeOK
      <3>2. \A d \in Calls : step'[d] \in {"retire", "penalize"} => d # c
        BY <2>0, <2>5 DEF Parents!Building
      <3> QED BY <2>5, <3>1, <3>2, ReportKept
    <2> QED BY <2>2, <2>3, <2>4, <2>6, <2>7, <2>8, <2>9, <2>10
  <1>4. ASSUME Parents!Lookup(c) PROVE ParentsInv'
    <2>a. \/ (Parents!Goto(c, "fabric") \/ Parents!Goto(c, "discard") \/ Parents!Goto(c, "retire")) /\ UNCHANGED <<gate, locked>>
          \/ Parents!Return(c, "request")
      BY <1>4 DEF Parents!Lookup
    <2>0. PICK s \in {"fabric", "discard", "retire", "request"} :
              \/ s \in {"fabric", "discard", "retire"} /\ Parents!Goto(c, s) /\ UNCHANGED <<gate, locked>>
              \/ s \in {"request"} /\ Parents!Return(c, s)
      BY <2>a
    <2>1. step[c] = "lookup" /\ Parents!Goto(c, s)
      BY <1>4, <2>0 DEF Parents!Lookup, Parents!Return
    <2>2. FabricInv'
      BY <1>4 DEF FabricInv, Parents!Lookup
    <2>3. GateInv'
      BY <2>0, <2>1, GateKept, GateLeft DEF Inside, Parents!Building
    <2>4. CountInv'
      <3>1. step' = [step EXCEPT ![c] = s] /\ UNCHANGED generation
        BY <1>4, <2>1 DEF Parents!Lookup, Parents!Goto
      <3>2. s \in Before => step[c] \in Before
        BY <2>1 DEF Before, Inside, Parents!Building
      <3> QED BY <3>1, <3>2, CountKept
    <2>5. /\ \A d \in Calls \ {c} : step'[d] = step[d]
          /\ step'[c] = s
      BY <2>1 DEF Parents!Goto, Parents!TypeOK
    <2>b. /\ UNCHANGED <<cached, generation, on, broken, faulted, failed, blamed, reported>>
          /\ \A d \in Calls \ {c} : handle'[d] = handle[d]
          /\ \/ cached = None /\ s = "fabric" /\ handle'[c] = handle[c]
             \/ /\ cached # None /\ handle'[c] = cached
                /\ \/ s = "discard" /\ on[cached] \in failed
                   \/ s = "retire" /\ cached \in broken
                   \/ s = "request"
      <3>1. CASE cached = None
        BY <1>4, <2>1, <2>5, <3>1 DEF Parents!Lookup, Parents!Goto, Parents!TypeOK
      <3>2. CASE cached # None
        <4>1. /\ UNCHANGED <<cached, generation, on, broken, faulted, failed, blamed, reported>>
              /\ handle' = [handle EXCEPT ![c] = cached]
          BY <1>4, <3>2 DEF Parents!Lookup
        <4>2. \/ Parents!Goto(c, "discard") /\ on[cached] \in failed
              \/ Parents!Goto(c, "retire") /\ cached \in broken
              \/ Parents!Goto(c, "request")
          BY <1>4, <3>2 DEF Parents!Lookup, Parents!Return
        <4> QED BY <2>5, <3>2, <4>1, <4>2 DEF Parents!Goto, Parents!TypeOK
      <3> QED BY <3>1, <3>2
    <2>6. Parents!TypeOK'
      <3>1. /\ fabricState' \in {"none", "failed", "ready"} /\ bound' \in Bounds
            /\ on' \in [Parents!Generations -> 0 .. fabric']
        BY <2>2, <2>4, <1>4 DEF Parents!Lookup, Parents!TypeOK, FabricInv
      <3>2. fabric' \in 0 .. 2 * bound'.failures + 2 /\ failed' \subseteq 1 .. fabric'
        <4>1. bound'.failures \in Nat
          BY <3>1, BoundsAssumption
        <4> QED BY <2>2, <4>1, FabricsBounded DEF FabricInv
      <3>3. /\ penalty' \in {"none", "active", "expired"} /\ capable' \in BOOLEAN
            /\ cached' \in Parents!Generations \cup {None}
            /\ generation' \in 0 .. Cardinality(Calls)
        BY <1>a, <2>4, <1>4, ParentsConstants DEF Parents!Lookup, Parents!TypeOK
      <3>4. /\ broken' \subseteq Parents!Generations /\ succeeded' \subseteq Parents!Generations
            /\ faulted' \subseteq Parents!Generations
            /\ doomed' \subseteq Calls /\ retired' \subseteq Calls
        BY <1>4 DEF Parents!Lookup, Parents!TypeOK
      <3>5. handle' \in [Calls -> Parents!Generations \cup {None}]
        BY <2>4, <1>4 DEF Parents!Lookup, Parents!TypeOK
      <3>6. blamed' \in [Parents!Generations -> Nat] /\ reported' \in [Parents!Generations -> Nat]
        BY <2>1, <1>4 DEF Parents!Lookup, Parents!TypeOK, CacheInv
      <3>7. \A d \in Calls : step'[d] = "request" => handle'[d] # None
        BY <1>a, <2>5, <2>b DEF Parents!TypeOK
      <3>8. /\ step' \in [Calls -> {"check", "gate", "lookup", "retire", "penalize", "discard", "request",
                                     "settle", "clear", "drop", "blame", "refused", "done"} \cup Parents!Building]
            /\ gate' \in [Calls -> Calls \cup {None}]
            /\ locked' \in [Calls -> BOOLEAN]
            /\ \A d \in Calls : locked'[d] => gate'[d] # None
        BY <2>0, <2>1, CallTypes DEF Parents!Building
      <3> QED BY <1>a, <3>1, <3>2, <3>3, <3>4, <3>5, <3>6, <3>7, <3>8 DEF Parents!TypeOK
    <2>7. CacheInv'
      <3>1. \A d \in Calls \ {c} : handle'[d] = handle[d]
        BY <1>4 DEF Parents!Lookup, Parents!TypeOK
      <3>2. UNCHANGED generation \/ generation' = generation + 1
        BY <1>4 DEF Parents!Lookup
      <3>3. \A d \in Calls \ {c} : step[d] \notin Inside
        BY <2>1 DEF GateInv, Inside, Parents!Building
      <3> QED BY <1>a, <2>1, <2>5, <2>b, <3>3 DEF CacheInv, Parents!TypeOK,
          Parents!Building, Inside
    <2>8. BlameInv'
      BY <1>a, <2>1, <2>5, <1>4 DEF BlameInv, CacheInv, Parents!Lookup, Parents!TypeOK
    <2>9. HealthInv'
      BY <1>a, <2>1, <2>5, <2>b DEF HealthInv, CacheInv, Parents!TypeOK
    <2>10. ReportInv'
      <3>1. UNCHANGED reported
        BY <1>4 DEF Parents!Lookup
      <3>2. cached \in Parents!Generations \cup {None}
        BY DEF Parents!TypeOK
      <3>3. \A g \in Parents!Generations : cached = g => reported[g] = 0
        BY DEF ReportInv
      <3>4. \A d \in Calls : step'[d] \in {"retire", "penalize"} =>
               \/ d # c /\ step'[d] = step[d] /\ handle'[d] = handle[d]
               \/ step'[d] = "retire" /\ handle'[d] = cached /\ cached \in broken /\ cached # None
        BY <2>5, <2>b
      <3> QED BY <2>b, <3>1, <3>2, <3>3, <3>4 DEF ReportInv
    <2> QED BY <2>2, <2>3, <2>4, <2>6, <2>7, <2>8, <2>9, <2>10
  <1>5. ASSUME Parents!LookupIdle(c) PROVE ParentsInv'
    <2>0. PICK s \in {"fabric"} : Parents!Goto(c, s) /\ UNCHANGED <<gate, locked>>
      BY <1>5 DEF Parents!LookupIdle
    <2>1. step[c] = "lookup" /\ Parents!Goto(c, s)
      BY <1>5, <2>0 DEF Parents!LookupIdle, Parents!Return
    <2>2. FabricInv'
      BY <1>5 DEF FabricInv, Parents!LookupIdle
    <2>3. GateInv'
      BY <2>0, <2>1, GateKept DEF Inside, Parents!Building
    <2>4. CountInv'
      <3>1. step' = [step EXCEPT ![c] = s] /\ UNCHANGED generation
        BY <1>5, <2>1 DEF Parents!LookupIdle, Parents!Goto
      <3>2. s \in Before => step[c] \in Before
        BY <2>1 DEF Before, Inside, Parents!Building
      <3> QED BY <3>1, <3>2, CountKept
    <2>5. /\ \A d \in Calls \ {c} : step'[d] = step[d]
          /\ step'[c] = s
      BY <2>1 DEF Parents!Goto, Parents!TypeOK
    <2>6. Parents!TypeOK'
      BY <1>5, <2>0 DEF Parents!LookupIdle, Parents!TypeOK, Parents!Building,
          Parents!Goto, Parents!Return
    <2>7. CacheInv'
      BY <1>5, <2>1, <2>5 DEF CacheInv, Parents!LookupIdle, Parents!TypeOK, Parents!Building
    <2>8. BlameInv'
      BY <1>a, <2>1, <2>5, <1>5 DEF BlameInv, CacheInv, Parents!LookupIdle, Parents!TypeOK
    <2>9. HealthInv'
      BY <1>a, <2>1, <2>5, <1>5 DEF HealthInv, CacheInv, Parents!LookupIdle, Parents!TypeOK
    <2>10. ReportInv'
      <3>1. /\ UNCHANGED <<reported, generation, broken>> /\ cached' \in {cached, None}
            /\ \A d \in Calls \ {c} : handle'[d] = handle[d]
        BY <1>5 DEF Parents!LookupIdle, Parents!retire_client, Parents!discover, Parents!record_failure, Parents!TypeOK
      <3>2. \A d \in Calls : step'[d] \in {"retire", "penalize"} => d # c
        BY <2>0, <2>5 DEF Parents!Building
      <3> QED BY <2>5, <3>1, <3>2, ReportKept
    <2> QED BY <2>2, <2>3, <2>4, <2>6, <2>7, <2>8, <2>9, <2>10
  <1>6. ASSUME Parents!RetireBroken(c) PROVE ParentsInv'
    <2>0. PICK s \in {"penalize"} : Parents!Goto(c, s) /\ UNCHANGED <<gate, locked>>
      BY <1>6 DEF Parents!RetireBroken, Parents!retire_client
    <2>1. step[c] = "retire" /\ Parents!Goto(c, s)
      BY <1>6, <2>0 DEF Parents!RetireBroken, Parents!retire_client, Parents!Return
    <2>2. FabricInv'
      BY <1>6 DEF FabricInv, Parents!RetireBroken, Parents!retire_client
    <2>3. GateInv'
      BY <2>0, <2>1, GateKept DEF Inside, Parents!Building
    <2>4. CountInv'
      <3>1. step' = [step EXCEPT ![c] = s] /\ UNCHANGED generation
        BY <1>6, <2>1 DEF Parents!RetireBroken, Parents!retire_client, Parents!Goto
      <3>2. s \in Before => step[c] \in Before
        BY <2>1 DEF Before, Inside, Parents!Building
      <3> QED BY <3>1, <3>2, CountKept
    <2>5. /\ \A d \in Calls \ {c} : step'[d] = step[d]
          /\ step'[c] = s
      BY <2>1 DEF Parents!Goto, Parents!TypeOK
    <2>6. Parents!TypeOK'
      BY <1>6, <2>0 DEF Parents!RetireBroken, Parents!retire_client, Parents!TypeOK,
          Parents!Building, Parents!Goto, Parents!Return
    <2>7. CacheInv'
      BY <1>6, <2>1, <2>5 DEF CacheInv, Parents!RetireBroken, Parents!retire_client,
          Parents!TypeOK, Parents!Building
    <2>8. BlameInv'
      BY <1>a, <2>1, <2>5, <1>6 DEF BlameInv, CacheInv, Parents!RetireBroken,
          Parents!retire_client, Parents!TypeOK
    <2>9. HealthInv'
      BY <1>a, <2>1, <2>5, <1>6 DEF HealthInv, CacheInv, Parents!RetireBroken,
          Parents!retire_client, Parents!TypeOK
    <2>10. ReportInv'
      <3>1. /\ UNCHANGED <<reported, generation, broken, handle>>
            /\ cached' = IF cached = handle[c] THEN None ELSE cached
        BY <1>6 DEF Parents!RetireBroken, Parents!retire_client
      <3>2. handle[c] \in Parents!Generations /\ cached' # handle[c]
        BY <1>a, <2>1, <3>1 DEF ReportInv
      <3>3. \A d \in Calls : step'[d] \in {"retire", "penalize"} => step[d] \in {"retire", "penalize"}
        BY <2>1, <2>5
      <3>4. \A d \in Calls : step'[d] = "penalize" => d = c \/ step[d] = "penalize"
        BY <2>5
      <3>5. \A d \in Calls : step'[d] = "penalize" => cached' # handle'[d]
        BY <1>a, <3>1, <3>2, <3>4 DEF ReportInv
      <3>6. \A g \in Parents!Generations :
               /\ reported'[g] \in {0, 1}
               /\ reported'[g] = 1 => g \in broken' /\ cached' # g /\ g <= generation'
        BY <1>a, <3>1 DEF ReportInv
      <3>7. \A d \in Calls : step'[d] \in {"retire", "penalize"} =>
               handle'[d] \in Parents!Generations /\ handle'[d] \in broken' /\ reported'[handle'[d]] = 0
        BY <3>1, <3>3 DEF ReportInv
      <3> QED BY <3>5, <3>6, <3>7 DEF ReportInv
    <2> QED BY <2>2, <2>3, <2>4, <2>6, <2>7, <2>8, <2>9, <2>10
  <1>7. ASSUME Parents!PenalizeBroken(c) PROVE ParentsInv'
    <2>0. PICK s \in {"refused"} : Parents!Return(c, s)
      BY <1>7 DEF Parents!PenalizeBroken, Parents!record_failure
    <2>1. step[c] = "penalize" /\ Parents!Goto(c, s)
      BY <1>7, <2>0 DEF Parents!PenalizeBroken, Parents!record_failure, Parents!Return
    <2>2. FabricInv'
      BY <1>7 DEF FabricInv, Parents!PenalizeBroken, Parents!record_failure
    <2>3. GateInv'
      BY <2>0, <2>1, GateLeft DEF Inside, Parents!Building
    <2>4. CountInv'
      <3>1. step' = [step EXCEPT ![c] = s] /\ UNCHANGED generation
        BY <1>7, <2>1 DEF Parents!PenalizeBroken, Parents!record_failure, Parents!Goto
      <3>2. s \in Before => step[c] \in Before
        BY <2>1 DEF Before, Inside, Parents!Building
      <3> QED BY <3>1, <3>2, CountKept
    <2>5. /\ \A d \in Calls \ {c} : step'[d] = step[d]
          /\ step'[c] = s
      BY <2>1 DEF Parents!Goto, Parents!TypeOK
    <2>6. Parents!TypeOK'
      <3>1. /\ step' \in [Calls -> {"check", "gate", "lookup", "retire", "penalize", "discard", "request",
                                     "settle", "clear", "drop", "blame", "refused", "done"} \cup Parents!Building]
            /\ gate' \in [Calls -> Calls \cup {None}] /\ locked' \in [Calls -> BOOLEAN]
            /\ \A d \in Calls : locked'[d] => gate'[d] # None
        BY <2>0, <2>1, CallTypes
      <3>2. reported' \in [Parents!Generations -> Nat]
        <4>1. reported' = [reported EXCEPT ![handle[c]] = @ + 1]
          BY <1>7 DEF Parents!PenalizeBroken
        <4>2. handle[c] \in Parents!Generations /\ reported \in [Parents!Generations -> Nat]
          BY <2>1 DEF ReportInv, Parents!TypeOK
        <4>3. reported[handle[c]] + 1 \in Nat
          BY <4>2
        <4> QED BY ONLY <4>1, <4>2, <4>3
      <3>3. /\ UNCHANGED <<bound, fabricState, fabric, failed, cached, generation, on, broken, succeeded,
                           faulted, handle, doomed, retired, blamed>>
            /\ penalty' = "active" /\ capable' = FALSE
        BY <1>7 DEF Parents!PenalizeBroken, Parents!record_failure
      <3> QED BY <2>0, <2>5, <3>1, <3>2, <3>3 DEF Parents!TypeOK
    <2>7. CacheInv'
      BY <1>7, <2>1, <2>5 DEF CacheInv, Parents!PenalizeBroken, Parents!record_failure,
          Parents!TypeOK, Parents!Building
    <2>8. BlameInv'
      BY <1>a, <2>1, <2>5, <1>7 DEF BlameInv, CacheInv, Parents!PenalizeBroken,
          Parents!record_failure, Parents!TypeOK
    <2>9. HealthInv'
      BY <1>a, <2>1, <2>5, <1>7 DEF HealthInv, CacheInv, Parents!PenalizeBroken,
          Parents!record_failure, Parents!TypeOK
    <2>10. ReportInv'
      <3>1. /\ UNCHANGED <<generation, broken, handle, cached>>
            /\ reported' = [reported EXCEPT ![handle[c]] = @ + 1]
        BY <1>7 DEF Parents!PenalizeBroken
      <3>2. /\ handle[c] \in Parents!Generations /\ handle[c] \in broken
            /\ cached # handle[c] /\ reported[handle[c]] = 0
        BY <2>1 DEF ReportInv
      <3>3. handle[c] <= generation
        BY <1>a, <3>2 DEF CacheInv
      <3>4. \A d \in Calls : step'[d] \notin {"retire", "penalize"}
        BY <2>0, <2>1, <2>5 DEF GateInv, Inside
      <3>5. reported'[handle[c]] = 1 /\ \A g \in Parents!Generations \ {handle[c]} : reported'[g] = reported[g]
        BY <3>1, <3>2 DEF Parents!TypeOK
      <3> QED BY <3>1, <3>2, <3>3, <3>4, <3>5 DEF ReportInv
    <2> QED BY <2>2, <2>3, <2>4, <2>6, <2>7, <2>8, <2>9, <2>10
  <1>8. ASSUME Parents!DiscardFailed(c) PROVE ParentsInv'
    <2>0. PICK s \in {"fabric"} : Parents!Goto(c, s) /\ UNCHANGED <<gate, locked>>
      BY <1>8 DEF Parents!DiscardFailed, Parents!retire_client
    <2>1. step[c] = "discard" /\ Parents!Goto(c, s)
      BY <1>8, <2>0 DEF Parents!DiscardFailed, Parents!retire_client, Parents!Return
    <2>2. FabricInv'
      BY <1>8 DEF FabricInv, Parents!DiscardFailed, Parents!retire_client
    <2>3. GateInv'
      BY <2>0, <2>1, GateKept DEF Inside, Parents!Building
    <2>4. CountInv'
      <3>1. step' = [step EXCEPT ![c] = s] /\ UNCHANGED generation
        BY <1>8, <2>1 DEF Parents!DiscardFailed, Parents!retire_client, Parents!Goto
      <3>2. s \in Before => step[c] \in Before
        BY <2>1 DEF Before, Inside, Parents!Building
      <3> QED BY <3>1, <3>2, CountKept
    <2>5. /\ \A d \in Calls \ {c} : step'[d] = step[d]
          /\ step'[c] = s
      BY <2>1 DEF Parents!Goto, Parents!TypeOK
    <2>6. Parents!TypeOK'
      BY <1>8, <2>0 DEF Parents!DiscardFailed, Parents!retire_client, Parents!TypeOK,
          Parents!Building, Parents!Goto, Parents!Return
    <2>7. CacheInv'
      <3>1. \A d \in Calls \ {c} : handle'[d] = handle[d]
        BY <1>8 DEF Parents!DiscardFailed, Parents!retire_client, Parents!TypeOK
      <3>2. UNCHANGED generation \/ generation' = generation + 1
        BY <1>8 DEF Parents!DiscardFailed, Parents!retire_client
      <3>3. \A d \in Calls \ {c} : step[d] \notin Inside
        BY <2>1 DEF GateInv, Inside, Parents!Building
      <3> QED BY <1>a, <2>1, <2>3, <2>4, <2>5, <3>1, <3>2, <3>3, <1>8 DEF CacheInv,
          Parents!DiscardFailed, Parents!retire_client, Parents!TypeOK, Parents!Building,
          Inside
    <2>8. BlameInv'
      BY <1>a, <2>1, <2>5, <1>8 DEF BlameInv, CacheInv, Parents!DiscardFailed,
          Parents!retire_client, Parents!TypeOK
    <2>9. HealthInv'
      BY <1>a, <2>1, <2>5, <1>8 DEF HealthInv, CacheInv, Parents!DiscardFailed,
          Parents!retire_client, Parents!TypeOK
    <2>10. ReportInv'
      <3>1. /\ UNCHANGED <<reported, generation, broken>> /\ cached' \in {cached, None}
            /\ \A d \in Calls \ {c} : handle'[d] = handle[d]
        BY <1>8 DEF Parents!DiscardFailed, Parents!retire_client, Parents!discover, Parents!record_failure, Parents!TypeOK
      <3>2. \A d \in Calls : step'[d] \in {"retire", "penalize"} => d # c
        BY <2>0, <2>5 DEF Parents!Building
      <3> QED BY <2>5, <3>1, <3>2, ReportKept
    <2> QED BY <2>2, <2>3, <2>4, <2>6, <2>7, <2>8, <2>9, <2>10
  <1>9. ASSUME Parents!UseFabric(c) PROVE ParentsInv'
    <2>a. \/ (Parents!Goto(c, "advertise")) /\ UNCHANGED <<gate, locked>>
          \/ Parents!Return(c, "refused")
      BY <1>9 DEF Parents!UseFabric
    <2>0. PICK s \in {"advertise", "refused"} :
              \/ s \in {"advertise"} /\ Parents!Goto(c, s) /\ UNCHANGED <<gate, locked>>
              \/ s \in {"refused"} /\ Parents!Return(c, s)
      BY <2>a
    <2>1. step[c] = "fabric" /\ Parents!Goto(c, s)
      BY <1>9, <2>0 DEF Parents!UseFabric, Parents!Ready, Parents!Return
    <2>2. FabricInv'
      <3>1. ~Parents!Ready => failed = 1 .. fabric
        BY DEF FabricInv, Parents!Ready
      <3>2. UNCHANGED <<bound, failed>>
        BY <1>9 DEF Parents!UseFabric, Parents!Ready
      <3>3. \/ UNCHANGED <<fabric, fabricState>>
            \/ ~Parents!Ready /\ fabric' = fabric + 1 /\ fabricState' = "ready"
            \/ ~Parents!Ready /\ fabric' = fabric /\ fabricState' = "failed"
        BY <1>9 DEF Parents!UseFabric
      <3> QED BY <3>1, <3>2, <3>3 DEF FabricInv
    <2>3. GateInv'
      BY <2>0, <2>1, GateKept, GateLeft DEF Inside, Parents!Building
    <2>4. CountInv'
      <3>1. step' = [step EXCEPT ![c] = s] /\ UNCHANGED generation
        BY <1>9, <2>1 DEF Parents!UseFabric, Parents!Ready, Parents!Goto
      <3>2. s \in Before => step[c] \in Before
        BY <2>1 DEF Before, Inside, Parents!Building
      <3> QED BY <3>1, <3>2, CountKept
    <2>5. /\ \A d \in Calls \ {c} : step'[d] = step[d]
          /\ step'[c] = s
      BY <2>1 DEF Parents!Goto, Parents!TypeOK
    <2>6. Parents!TypeOK'
      <3>1. /\ fabricState' \in {"none", "failed", "ready"} /\ bound' \in Bounds
            /\ on' \in [Parents!Generations -> 0 .. fabric']
        BY <2>2, <2>4, <1>9 DEF Parents!UseFabric, Parents!Ready, Parents!TypeOK, FabricInv
      <3>2. fabric' \in 0 .. 2 * bound'.failures + 2 /\ failed' \subseteq 1 .. fabric'
        <4>1. bound'.failures \in Nat
          BY <3>1, BoundsAssumption
        <4> QED BY <2>2, <4>1, FabricsBounded DEF FabricInv
      <3>3. /\ penalty' \in {"none", "active", "expired"} /\ capable' \in BOOLEAN
            /\ cached' \in Parents!Generations \cup {None}
            /\ generation' \in 0 .. Cardinality(Calls)
        BY <1>a, <2>4, <1>9, ParentsConstants DEF Parents!UseFabric, Parents!Ready,
            Parents!TypeOK
      <3>4. /\ broken' \subseteq Parents!Generations /\ succeeded' \subseteq Parents!Generations
            /\ faulted' \subseteq Parents!Generations
            /\ doomed' \subseteq Calls /\ retired' \subseteq Calls
        BY <1>9 DEF Parents!UseFabric, Parents!Ready, Parents!TypeOK
      <3>5. handle' \in [Calls -> Parents!Generations \cup {None}]
        BY <2>4, <1>9 DEF Parents!UseFabric, Parents!Ready, Parents!TypeOK
      <3>6. blamed' \in [Parents!Generations -> Nat] /\ reported' \in [Parents!Generations -> Nat]
        BY <2>1, <1>9 DEF Parents!UseFabric, Parents!Ready, Parents!TypeOK, CacheInv
      <3>7. \A d \in Calls : step'[d] = "request" => handle'[d] # None
        BY <1>a, <2>4, <2>5, <1>9 DEF Parents!UseFabric, Parents!Ready, Parents!TypeOK
      <3>8. /\ step' \in [Calls -> {"check", "gate", "lookup", "retire", "penalize", "discard", "request",
                                     "settle", "clear", "drop", "blame", "refused", "done"} \cup Parents!Building]
            /\ gate' \in [Calls -> Calls \cup {None}]
            /\ locked' \in [Calls -> BOOLEAN]
            /\ \A d \in Calls : locked'[d] => gate'[d] # None
        BY <2>0, <2>1, CallTypes DEF Parents!Building
      <3> QED BY <1>a, <3>1, <3>2, <3>3, <3>4, <3>5, <3>6, <3>7, <3>8 DEF Parents!TypeOK
    <2>7. CacheInv'
      <3>1. \A d \in Calls \ {c} : handle'[d] = handle[d]
        BY <1>9 DEF Parents!UseFabric, Parents!Ready, Parents!TypeOK
      <3>2. UNCHANGED generation \/ generation' = generation + 1
        BY <1>9 DEF Parents!UseFabric, Parents!Ready
      <3> QED BY <1>a, <2>1, <2>3, <2>4, <2>5, <3>1, <3>2, <1>9 DEF CacheInv,
          Parents!UseFabric, Parents!Ready, Parents!TypeOK, Parents!Building
    <2>8. BlameInv'
      BY <1>a, <2>1, <2>5, <1>9 DEF BlameInv, CacheInv, Parents!UseFabric, Parents!Ready,
          Parents!TypeOK
    <2>9. HealthInv'
      BY <1>a, <2>1, <2>5, <1>9 DEF HealthInv, CacheInv, Parents!UseFabric, Parents!Ready,
          Parents!TypeOK
    <2>10. ReportInv'
      <3>1. /\ UNCHANGED <<reported, generation, broken>> /\ cached' \in {cached, None}
            /\ \A d \in Calls \ {c} : handle'[d] = handle[d]
        BY <1>9 DEF Parents!UseFabric, Parents!retire_client, Parents!discover, Parents!record_failure, Parents!TypeOK
      <3>2. \A d \in Calls : step'[d] \in {"retire", "penalize"} => d # c
        BY <2>0, <2>5 DEF Parents!Building
      <3> QED BY <2>5, <3>1, <3>2, ReportKept
    <2> QED BY <2>2, <2>3, <2>4, <2>6, <2>7, <2>8, <2>9, <2>10
  <1>10. ASSUME Parents!advertisement(c) PROVE ParentsInv'
    <2>a. \/ (Parents!Goto(c, "insert")) /\ UNCHANGED <<gate, locked>>
          \/ Parents!Return(c, "refused")
      BY <1>10 DEF Parents!advertisement, Parents!discover
    <2>0. PICK s \in {"insert", "refused"} :
              \/ s \in {"insert"} /\ Parents!Goto(c, s) /\ UNCHANGED <<gate, locked>>
              \/ s \in {"refused"} /\ Parents!Return(c, s)
      BY <2>a
    <2>1. step[c] = "advertise" /\ Parents!Goto(c, s)
      BY <1>10, <2>0 DEF Parents!advertisement, Parents!discover, Parents!record_failure,
          Parents!Return
    <2>2. FabricInv'
      BY <1>10 DEF FabricInv, Parents!advertisement, Parents!discover,
          Parents!record_failure
    <2>3. GateInv'
      BY <2>0, <2>1, GateKept, GateLeft DEF Inside, Parents!Building
    <2>4. CountInv'
      <3>1. step' = [step EXCEPT ![c] = s] /\ UNCHANGED generation
        BY <1>10, <2>1 DEF Parents!advertisement, Parents!discover,
            Parents!record_failure, Parents!Goto
      <3>2. s \in Before => step[c] \in Before
        BY <2>1 DEF Before, Inside, Parents!Building
      <3> QED BY <3>1, <3>2, CountKept
    <2>5. /\ \A d \in Calls \ {c} : step'[d] = step[d]
          /\ step'[c] = s
      BY <2>1 DEF Parents!Goto, Parents!TypeOK
    <2>6. Parents!TypeOK'
      <3>1. /\ fabricState' \in {"none", "failed", "ready"} /\ bound' \in Bounds
            /\ on' \in [Parents!Generations -> 0 .. fabric']
        BY <2>2, <2>4, <1>10 DEF Parents!advertisement, Parents!discover,
            Parents!record_failure, Parents!TypeOK, FabricInv
      <3>2. fabric' \in 0 .. 2 * bound'.failures + 2 /\ failed' \subseteq 1 .. fabric'
        <4>1. bound'.failures \in Nat
          BY <3>1, BoundsAssumption
        <4> QED BY <2>2, <4>1, FabricsBounded DEF FabricInv
      <3>3. /\ penalty' \in {"none", "active", "expired"} /\ capable' \in BOOLEAN
            /\ cached' \in Parents!Generations \cup {None}
            /\ generation' \in 0 .. Cardinality(Calls)
        BY <1>a, <2>4, <1>10, ParentsConstants DEF Parents!advertisement,
            Parents!discover, Parents!record_failure, Parents!TypeOK
      <3>4. /\ broken' \subseteq Parents!Generations /\ succeeded' \subseteq Parents!Generations
            /\ faulted' \subseteq Parents!Generations
            /\ doomed' \subseteq Calls /\ retired' \subseteq Calls
        BY <1>10 DEF Parents!advertisement, Parents!discover, Parents!record_failure,
            Parents!TypeOK
      <3>5. handle' \in [Calls -> Parents!Generations \cup {None}]
        BY <2>4, <1>10 DEF Parents!advertisement, Parents!discover,
            Parents!record_failure, Parents!TypeOK
      <3>6. blamed' \in [Parents!Generations -> Nat] /\ reported' \in [Parents!Generations -> Nat]
        BY <2>1, <1>10 DEF Parents!advertisement, Parents!discover,
            Parents!record_failure, Parents!TypeOK, CacheInv
      <3>7. \A d \in Calls : step'[d] = "request" => handle'[d] # None
        BY <1>a, <2>4, <2>5, <1>10 DEF Parents!advertisement, Parents!discover,
            Parents!record_failure, Parents!TypeOK
      <3>8. /\ step' \in [Calls -> {"check", "gate", "lookup", "retire", "penalize", "discard", "request",
                                     "settle", "clear", "drop", "blame", "refused", "done"} \cup Parents!Building]
            /\ gate' \in [Calls -> Calls \cup {None}]
            /\ locked' \in [Calls -> BOOLEAN]
            /\ \A d \in Calls : locked'[d] => gate'[d] # None
        BY <2>0, <2>1, CallTypes DEF Parents!Building
      <3> QED BY <1>a, <3>1, <3>2, <3>3, <3>4, <3>5, <3>6, <3>7, <3>8 DEF Parents!TypeOK
    <2>7. CacheInv'
      <3>1. \A d \in Calls \ {c} : handle'[d] = handle[d]
        BY <1>10 DEF Parents!advertisement, Parents!discover, Parents!record_failure,
            Parents!TypeOK
      <3>2. UNCHANGED generation \/ generation' = generation + 1
        BY <1>10 DEF Parents!advertisement, Parents!discover, Parents!record_failure
      <3> QED BY <1>a, <2>1, <2>3, <2>4, <2>5, <3>1, <3>2, <1>10 DEF CacheInv,
          Parents!advertisement, Parents!discover, Parents!record_failure, Parents!TypeOK,
          Parents!Building
    <2>8. BlameInv'
      BY <1>a, <2>1, <2>5, <1>10 DEF BlameInv, CacheInv, Parents!advertisement,
          Parents!discover, Parents!record_failure, Parents!TypeOK
    <2>9. HealthInv'
      BY <1>a, <2>1, <2>5, <1>10 DEF HealthInv, CacheInv, Parents!advertisement,
          Parents!discover, Parents!record_failure, Parents!TypeOK
    <2>10. ReportInv'
      <3>1. /\ UNCHANGED <<reported, generation, broken>> /\ cached' \in {cached, None}
            /\ \A d \in Calls \ {c} : handle'[d] = handle[d]
        BY <1>10 DEF Parents!advertisement, Parents!retire_client, Parents!discover, Parents!record_failure, Parents!TypeOK
      <3>2. \A d \in Calls : step'[d] \in {"retire", "penalize"} => d # c
        BY <2>0, <2>5 DEF Parents!Building
      <3> QED BY <2>5, <3>1, <3>2, ReportKept
    <2> QED BY <2>2, <2>3, <2>4, <2>6, <2>7, <2>8, <2>9, <2>10
  <1>11. ASSUME Parents!InsertClient(c) PROVE ParentsInv'
    <2>0. PICK s \in {"request"} : Parents!Return(c, s)
      BY <1>11 DEF Parents!InsertClient
    <2>1. step[c] = "insert" /\ Parents!Goto(c, s)
      BY <1>11, <2>0 DEF Parents!InsertClient, Parents!Return
    <2>2. FabricInv'
      BY <1>11 DEF FabricInv, Parents!InsertClient
    <2>3. GateInv'
      BY <2>0, <2>1, GateLeft DEF Inside, Parents!Building
    <2>4. CountInv' /\ generation + 1 \in Parents!Generations
      <3>1. /\ step' = [step EXCEPT ![c] = "request"] /\ generation' = generation + 1
            /\ step[c] \in Before /\ "request" \notin Before
        BY <1>11 DEF Parents!InsertClient, Before, Inside, Parents!Building,
            Parents!Return, Parents!Goto
      <3>2. CountInv' /\ generation + 1 <= Cardinality(Calls)
        BY <3>1, CountMade
      <3> QED BY <1>a, <3>2, ParentsConstants DEF Parents!TypeOK
    <2>5. /\ \A d \in Calls \ {c} : step'[d] = step[d]
          /\ step'[c] = s
      BY <2>1 DEF Parents!Goto, Parents!TypeOK
    <2>6. Parents!TypeOK'
      <3>1. /\ fabricState' \in {"none", "failed", "ready"} /\ bound' \in Bounds
            /\ on' \in [Parents!Generations -> 0 .. fabric']
        BY <2>2, <2>4, <1>11 DEF Parents!InsertClient, Parents!TypeOK, FabricInv
      <3>2. fabric' \in 0 .. 2 * bound'.failures + 2 /\ failed' \subseteq 1 .. fabric'
        <4>1. bound'.failures \in Nat
          BY <3>1, BoundsAssumption
        <4> QED BY <2>2, <4>1, FabricsBounded DEF FabricInv
      <3>3. /\ penalty' \in {"none", "active", "expired"} /\ capable' \in BOOLEAN
            /\ cached' \in Parents!Generations \cup {None}
            /\ generation' \in 0 .. Cardinality(Calls)
        BY <1>a, <2>4, <1>11, ParentsConstants DEF Parents!InsertClient, Parents!TypeOK
      <3>4. /\ broken' \subseteq Parents!Generations /\ succeeded' \subseteq Parents!Generations
            /\ faulted' \subseteq Parents!Generations
            /\ doomed' \subseteq Calls /\ retired' \subseteq Calls
        BY <1>11 DEF Parents!InsertClient, Parents!TypeOK
      <3>5. handle' \in [Calls -> Parents!Generations \cup {None}]
        BY <2>4, <1>11 DEF Parents!InsertClient, Parents!TypeOK
      <3>6. blamed' \in [Parents!Generations -> Nat] /\ reported' \in [Parents!Generations -> Nat]
        BY <2>1, <1>11 DEF Parents!InsertClient, Parents!TypeOK, CacheInv
      <3>7. \A d \in Calls : step'[d] = "request" => handle'[d] # None
        BY <1>a, <2>4, <2>5, <1>11 DEF Parents!InsertClient, Parents!TypeOK
      <3>8. /\ step' \in [Calls -> {"check", "gate", "lookup", "retire", "penalize", "discard", "request",
                                     "settle", "clear", "drop", "blame", "refused", "done"} \cup Parents!Building]
            /\ gate' \in [Calls -> Calls \cup {None}]
            /\ locked' \in [Calls -> BOOLEAN]
            /\ \A d \in Calls : locked'[d] => gate'[d] # None
        BY <2>0, <2>1, CallTypes DEF Parents!Building
      <3> QED BY <1>a, <3>1, <3>2, <3>3, <3>4, <3>5, <3>6, <3>7, <3>8 DEF Parents!TypeOK
    <2>7. CacheInv'
      <3>1. \A d \in Calls \ {c} : handle'[d] = handle[d]
        BY <1>11 DEF Parents!InsertClient, Parents!TypeOK
      <3>2. UNCHANGED generation \/ generation' = generation + 1
        BY <1>11 DEF Parents!InsertClient
      <3>3. \A d \in Calls \ {c} : step[d] \notin Inside
        BY <2>1 DEF GateInv, Inside, Parents!Building
      <3>4. /\ handle'[c] = generation + 1 /\ cached' = generation + 1 /\ generation' = generation + 1
            /\ UNCHANGED blamed /\ generation \in Nat /\ Parents!Generations \subseteq Nat
        BY <1>11, ParentsConstants DEF Parents!InsertClient, Parents!TypeOK
      <3>5. \A d \in Calls : step'[d] \notin Inside
        BY <2>5, <3>3 DEF Inside, Parents!Building
      <3>6. /\ cached' <= generation'
            /\ \A d \in Calls : handle'[d] # None => handle'[d] <= generation'
            /\ \A g \in Parents!Generations : blamed'[g] > 0 => g <= generation'
        <4>1. \A d \in Calls : handle[d] # None => handle[d] \in Nat /\ handle[d] <= generation
          BY <3>4 DEF CacheInv, Parents!TypeOK
        <4>2. \A d \in Calls : handle'[d] # None => handle'[d] <= generation'
          BY <3>1, <3>4, <4>1
        <4>3. \A g \in Parents!Generations : blamed'[g] > 0 => g <= generation'
          BY <3>4 DEF CacheInv
        <4> QED BY <3>4, <4>2, <4>3
      <3>7. generation + 1 # None
        BY <1>a, <2>4
      <3>8. \A d \in Calls : step'[d] \in {"retire", "discard", "request", "settle", "clear", "drop", "blame"}
                                => handle'[d] # None
        BY <2>5, <3>1, <3>4, <3>7 DEF CacheInv
      <3> QED BY <3>5, <3>6, <3>8 DEF CacheInv, Inside
    <2>8. BlameInv'
      BY <1>a, <2>1, <2>5, <1>11 DEF BlameInv, CacheInv, Parents!InsertClient,
          Parents!TypeOK
    <2>9. HealthInv'
      BY <1>a, <2>1, <2>5, <1>11 DEF HealthInv, CacheInv, Parents!InsertClient,
          Parents!TypeOK
    <2>10. ReportInv'
      <3>1. /\ UNCHANGED <<reported, broken>> /\ generation \in Nat
            /\ generation' = generation + 1 /\ cached' = generation + 1
        BY <1>11 DEF Parents!InsertClient, Parents!TypeOK
      <3>2. \A d \in Calls : step'[d] \notin {"retire", "penalize"}
        BY <2>0, <2>1, <2>5 DEF GateInv, Inside, Parents!Building
      <3>3. \A g \in Parents!Generations : g \in Nat
        BY ParentsConstants
      <3> QED BY <3>1, <3>2, <3>3 DEF ReportInv
    <2> QED BY <2>2, <2>3, <2>4, <2>6, <2>7, <2>8, <2>9, <2>10
  <1>12. ASSUME Parents!Succeeds(c) PROVE ParentsInv'
    <2>0. PICK s \in {"done"} : Parents!Goto(c, s) /\ UNCHANGED <<gate, locked>>
      BY <1>12 DEF Parents!Succeeds
    <2>1. step[c] = "request" /\ Parents!Goto(c, s)
      BY <1>12, <2>0 DEF Parents!Succeeds, Parents!Return
    <2>2. FabricInv'
      BY <1>12 DEF FabricInv, Parents!Succeeds
    <2>3. GateInv'
      BY <2>0, <2>1, GateKept DEF Inside, Parents!Building
    <2>4. CountInv'
      <3>1. step' = [step EXCEPT ![c] = s] /\ UNCHANGED generation
        BY <1>12, <2>1 DEF Parents!Succeeds, Parents!Goto
      <3>2. s \in Before => step[c] \in Before
        BY <2>1 DEF Before, Inside, Parents!Building
      <3> QED BY <3>1, <3>2, CountKept
    <2>5. /\ \A d \in Calls \ {c} : step'[d] = step[d]
          /\ step'[c] = s
      BY <2>1 DEF Parents!Goto, Parents!TypeOK
    <2>6. Parents!TypeOK'
      BY <1>12, <2>0 DEF Parents!Succeeds, Parents!TypeOK, Parents!Building, Parents!Goto,
          Parents!Return
    <2>7. CacheInv'
      BY <1>12, <2>1, <2>5 DEF CacheInv, Parents!Succeeds, Parents!TypeOK, Parents!Building
    <2>8. BlameInv'
      BY <1>a, <2>1, <2>5, <1>12 DEF BlameInv, CacheInv, Parents!Succeeds, Parents!TypeOK
    <2>9. HealthInv'
      BY <1>a, <2>1, <2>5, <1>12 DEF HealthInv, CacheInv, Parents!Succeeds, Parents!TypeOK
    <2>10. ReportInv'
      <3>1. /\ UNCHANGED <<reported, generation, broken>> /\ cached' \in {cached, None}
            /\ \A d \in Calls \ {c} : handle'[d] = handle[d]
        BY <1>12 DEF Parents!Succeeds, Parents!retire_client, Parents!discover, Parents!record_failure, Parents!TypeOK
      <3>2. \A d \in Calls : step'[d] \in {"retire", "penalize"} => d # c
        BY <2>0, <2>5 DEF Parents!Building
      <3> QED BY <2>5, <3>1, <3>2, ReportKept
    <2> QED BY <2>2, <2>3, <2>4, <2>6, <2>7, <2>8, <2>9, <2>10
  <1>13. ASSUME Parents!Fails(c) PROVE ParentsInv'
    <2>0. PICK s \in {"settle", "drop"} : Parents!Goto(c, s) /\ UNCHANGED <<gate, locked>>
      BY <1>13 DEF Parents!Fails
    <2>1. step[c] = "request" /\ Parents!Goto(c, s)
      BY <1>13, <2>0 DEF Parents!Fails, Parents!Return
    <2>2. FabricInv'
      BY <1>13 DEF FabricInv, Parents!Fails
    <2>3. GateInv'
      BY <2>0, <2>1, GateKept DEF Inside, Parents!Building
    <2>4. CountInv'
      <3>1. step' = [step EXCEPT ![c] = s] /\ UNCHANGED generation
        BY <1>13, <2>1 DEF Parents!Fails, Parents!Goto
      <3>2. s \in Before => step[c] \in Before
        BY <2>1 DEF Before, Inside, Parents!Building
      <3> QED BY <3>1, <3>2, CountKept
    <2>5. /\ \A d \in Calls \ {c} : step'[d] = step[d]
          /\ step'[c] = s
      BY <2>1 DEF Parents!Goto, Parents!TypeOK
    <2>6. Parents!TypeOK'
      BY <1>13, <2>0 DEF Parents!Fails, Parents!TypeOK, Parents!Building, Parents!Goto,
          Parents!Return
    <2>7. CacheInv'
      BY <1>13, <2>1, <2>5 DEF CacheInv, Parents!Fails, Parents!TypeOK, Parents!Building
    <2>8. BlameInv'
      BY <1>a, <2>1, <2>5, <1>13 DEF BlameInv, CacheInv, Parents!Fails, Parents!TypeOK
    <2>9. HealthInv'
      BY <1>a, <2>1, <2>5, <1>13 DEF HealthInv, CacheInv, Parents!Fails, Parents!TypeOK
    <2>10. ReportInv'
      <3>1. /\ UNCHANGED <<reported, generation, broken>> /\ cached' \in {cached, None}
            /\ \A d \in Calls \ {c} : handle'[d] = handle[d]
        BY <1>13 DEF Parents!Fails, Parents!retire_client, Parents!discover, Parents!record_failure, Parents!TypeOK
      <3>2. \A d \in Calls : step'[d] \in {"retire", "penalize"} => d # c
        BY <2>0, <2>5 DEF Parents!Building
      <3> QED BY <2>5, <3>1, <3>2, ReportKept
    <2> QED BY <2>2, <2>3, <2>4, <2>6, <2>7, <2>8, <2>9, <2>10
  <1>14. ASSUME Parents!RetireFabric(c) PROVE ParentsInv'
    <2>0. PICK s \in {"clear", "drop"} : Parents!Goto(c, s) /\ UNCHANGED <<gate, locked>>
      BY <1>14 DEF Parents!RetireFabric
    <2>1. step[c] = "settle" /\ Parents!Goto(c, s)
      BY <1>14, <2>0 DEF Parents!RetireFabric, Parents!Return
    <2>2. FabricInv'
      BY <1>14 DEF FabricInv, Parents!RetireFabric
    <2>3. GateInv'
      BY <2>0, <2>1, GateKept DEF Inside, Parents!Building
    <2>4. CountInv'
      <3>1. step' = [step EXCEPT ![c] = s] /\ UNCHANGED generation
        BY <1>14, <2>1 DEF Parents!RetireFabric, Parents!Goto
      <3>2. s \in Before => step[c] \in Before
        BY <2>1 DEF Before, Inside, Parents!Building
      <3> QED BY <3>1, <3>2, CountKept
    <2>5. /\ \A d \in Calls \ {c} : step'[d] = step[d]
          /\ step'[c] = s
      BY <2>1 DEF Parents!Goto, Parents!TypeOK
    <2>6. Parents!TypeOK'
      BY <1>14, <2>0 DEF Parents!RetireFabric, Parents!TypeOK, Parents!Building,
          Parents!Goto, Parents!Return
    <2>7. CacheInv'
      BY <1>14, <2>1, <2>5 DEF CacheInv, Parents!RetireFabric, Parents!TypeOK,
          Parents!Building
    <2>8. BlameInv'
      BY <1>a, <2>1, <2>5, <1>14 DEF BlameInv, CacheInv, Parents!RetireFabric,
          Parents!TypeOK
    <2>9. HealthInv'
      BY <1>a, <2>1, <2>5, <1>14 DEF HealthInv, CacheInv, Parents!RetireFabric,
          Parents!TypeOK
    <2>10. ReportInv'
      <3>1. /\ UNCHANGED <<reported, generation, broken>> /\ cached' \in {cached, None}
            /\ \A d \in Calls \ {c} : handle'[d] = handle[d]
        BY <1>14 DEF Parents!RetireFabric, Parents!retire_client, Parents!discover, Parents!record_failure, Parents!TypeOK
      <3>2. \A d \in Calls : step'[d] \in {"retire", "penalize"} => d # c
        BY <2>0, <2>5 DEF Parents!Building
      <3> QED BY <2>5, <3>1, <3>2, ReportKept
    <2> QED BY <2>2, <2>3, <2>4, <2>6, <2>7, <2>8, <2>9, <2>10
  <1>15. ASSUME Parents!ClearClients(c) PROVE ParentsInv'
    <2>0. PICK s \in {"drop"} : Parents!Goto(c, s) /\ UNCHANGED <<gate, locked>>
      BY <1>15 DEF Parents!ClearClients
    <2>1. step[c] = "clear" /\ Parents!Goto(c, s)
      BY <1>15, <2>0 DEF Parents!ClearClients, Parents!Return
    <2>2. FabricInv'
      BY <1>15 DEF FabricInv, Parents!ClearClients
    <2>3. GateInv'
      BY <2>0, <2>1, GateKept DEF Inside, Parents!Building
    <2>4. CountInv'
      <3>1. step' = [step EXCEPT ![c] = s] /\ UNCHANGED generation
        BY <1>15, <2>1 DEF Parents!ClearClients, Parents!Goto
      <3>2. s \in Before => step[c] \in Before
        BY <2>1 DEF Before, Inside, Parents!Building
      <3> QED BY <3>1, <3>2, CountKept
    <2>5. /\ \A d \in Calls \ {c} : step'[d] = step[d]
          /\ step'[c] = s
      BY <2>1 DEF Parents!Goto, Parents!TypeOK
    <2>6. Parents!TypeOK'
      BY <1>15, <2>0 DEF Parents!ClearClients, Parents!TypeOK, Parents!Building,
          Parents!Goto, Parents!Return
    <2>7. CacheInv'
      BY <1>15, <2>1, <2>5 DEF CacheInv, Parents!ClearClients, Parents!TypeOK,
          Parents!Building
    <2>8. BlameInv'
      BY <1>a, <2>1, <2>5, <1>15 DEF BlameInv, CacheInv, Parents!ClearClients,
          Parents!TypeOK
    <2>9. HealthInv'
      BY <1>a, <2>1, <2>5, <1>15 DEF HealthInv, CacheInv, Parents!ClearClients,
          Parents!TypeOK
    <2>10. ReportInv'
      <3>1. /\ UNCHANGED <<reported, generation, broken>> /\ cached' \in {cached, None}
            /\ \A d \in Calls \ {c} : handle'[d] = handle[d]
        BY <1>15 DEF Parents!ClearClients, Parents!retire_client, Parents!discover, Parents!record_failure, Parents!TypeOK
      <3>2. \A d \in Calls : step'[d] \in {"retire", "penalize"} => d # c
        BY <2>0, <2>5 DEF Parents!Building
      <3> QED BY <2>5, <3>1, <3>2, ReportKept
    <2> QED BY <2>2, <2>3, <2>4, <2>6, <2>7, <2>8, <2>9, <2>10
  <1>16. ASSUME Parents!DropClient(c) PROVE ParentsInv'
    <2>0. PICK s \in {"blame"} : Parents!Goto(c, s) /\ UNCHANGED <<gate, locked>>
      BY <1>16 DEF Parents!DropClient, Parents!retire_client
    <2>1. step[c] = "drop" /\ Parents!Goto(c, s)
      BY <1>16, <2>0 DEF Parents!DropClient, Parents!retire_client, Parents!Return
    <2>2. FabricInv'
      BY <1>16 DEF FabricInv, Parents!DropClient, Parents!retire_client
    <2>3. GateInv'
      BY <2>0, <2>1, GateKept DEF Inside, Parents!Building
    <2>4. CountInv'
      <3>1. step' = [step EXCEPT ![c] = s] /\ UNCHANGED generation
        BY <1>16, <2>1 DEF Parents!DropClient, Parents!retire_client, Parents!Goto
      <3>2. s \in Before => step[c] \in Before
        BY <2>1 DEF Before, Inside, Parents!Building
      <3> QED BY <3>1, <3>2, CountKept
    <2>5. /\ \A d \in Calls \ {c} : step'[d] = step[d]
          /\ step'[c] = s
      BY <2>1 DEF Parents!Goto, Parents!TypeOK
    <2>6. Parents!TypeOK'
      BY <1>16, <2>0 DEF Parents!DropClient, Parents!retire_client, Parents!TypeOK,
          Parents!Building, Parents!Goto, Parents!Return
    <2>7. CacheInv'
      BY <1>16, <2>1, <2>5 DEF CacheInv, Parents!DropClient, Parents!retire_client,
          Parents!TypeOK, Parents!Building
    <2>8. BlameInv'
      BY <1>a, <2>1, <2>5, <1>16 DEF BlameInv, CacheInv, Parents!DropClient,
          Parents!retire_client, Parents!TypeOK
    <2>9. HealthInv'
      BY <1>a, <2>1, <2>5, <1>16 DEF HealthInv, CacheInv, Parents!DropClient,
          Parents!retire_client, Parents!TypeOK
    <2>10. ReportInv'
      <3>1. /\ UNCHANGED <<reported, generation, broken>> /\ cached' \in {cached, None}
            /\ \A d \in Calls \ {c} : handle'[d] = handle[d]
        BY <1>16 DEF Parents!DropClient, Parents!retire_client, Parents!discover, Parents!record_failure, Parents!TypeOK
      <3>2. \A d \in Calls : step'[d] \in {"retire", "penalize"} => d # c
        BY <2>0, <2>5 DEF Parents!Building
      <3> QED BY <2>5, <3>1, <3>2, ReportKept
    <2> QED BY <2>2, <2>3, <2>4, <2>6, <2>7, <2>8, <2>9, <2>10
  <1>17. ASSUME Parents!Blame(c) PROVE ParentsInv'
    <2>0. PICK s \in {"done"} : Parents!Goto(c, s) /\ UNCHANGED <<gate, locked>>
      BY <1>17 DEF Parents!Blame, Parents!record_failure
    <2>1. step[c] = "blame" /\ Parents!Goto(c, s)
      BY <1>17, <2>0 DEF Parents!Blame, Parents!record_failure, Parents!Return
    <2>2. FabricInv'
      BY <1>17 DEF FabricInv, Parents!Blame, Parents!record_failure
    <2>3. GateInv'
      BY <2>0, <2>1, GateKept DEF Inside, Parents!Building
    <2>4. CountInv'
      <3>1. step' = [step EXCEPT ![c] = s] /\ UNCHANGED generation
        BY <1>17, <2>1 DEF Parents!Blame, Parents!record_failure, Parents!Goto
      <3>2. s \in Before => step[c] \in Before
        BY <2>1 DEF Before, Inside, Parents!Building
      <3> QED BY <3>1, <3>2, CountKept
    <2>5. /\ \A d \in Calls \ {c} : step'[d] = step[d]
          /\ step'[c] = s
      BY <2>1 DEF Parents!Goto, Parents!TypeOK
    <2>6. Parents!TypeOK'
      <3>1. /\ fabricState' \in {"none", "failed", "ready"} /\ bound' \in Bounds
            /\ on' \in [Parents!Generations -> 0 .. fabric']
        BY <2>2, <2>4, <1>17 DEF Parents!Blame, Parents!record_failure, Parents!TypeOK,
            FabricInv
      <3>2. fabric' \in 0 .. 2 * bound'.failures + 2 /\ failed' \subseteq 1 .. fabric'
        <4>1. bound'.failures \in Nat
          BY <3>1, BoundsAssumption
        <4> QED BY <2>2, <4>1, FabricsBounded DEF FabricInv
      <3>3. /\ penalty' \in {"none", "active", "expired"} /\ capable' \in BOOLEAN
            /\ cached' \in Parents!Generations \cup {None}
            /\ generation' \in 0 .. Cardinality(Calls)
        BY <1>a, <2>4, <1>17, ParentsConstants DEF Parents!Blame, Parents!record_failure,
            Parents!TypeOK
      <3>4. /\ broken' \subseteq Parents!Generations /\ succeeded' \subseteq Parents!Generations
            /\ faulted' \subseteq Parents!Generations
            /\ doomed' \subseteq Calls /\ retired' \subseteq Calls
        BY <1>17 DEF Parents!Blame, Parents!record_failure, Parents!TypeOK
      <3>5. handle' \in [Calls -> Parents!Generations \cup {None}]
        BY <2>4, <1>17 DEF Parents!Blame, Parents!record_failure, Parents!TypeOK
      <3>6. blamed' \in [Parents!Generations -> Nat] /\ reported' \in [Parents!Generations -> Nat]
        BY <2>1, <1>17 DEF Parents!Blame, Parents!record_failure, Parents!TypeOK, CacheInv
      <3>7. \A d \in Calls : step'[d] = "request" => handle'[d] # None
        BY <1>a, <2>4, <2>5, <1>17 DEF Parents!Blame, Parents!record_failure, Parents!TypeOK
      <3>8. /\ step' \in [Calls -> {"check", "gate", "lookup", "retire", "penalize", "discard", "request",
                                     "settle", "clear", "drop", "blame", "refused", "done"} \cup Parents!Building]
            /\ gate' \in [Calls -> Calls \cup {None}]
            /\ locked' \in [Calls -> BOOLEAN]
            /\ \A d \in Calls : locked'[d] => gate'[d] # None
        BY <2>0, <2>1, CallTypes DEF Parents!Building
      <3> QED BY <1>a, <3>1, <3>2, <3>3, <3>4, <3>5, <3>6, <3>7, <3>8 DEF Parents!TypeOK
    <2>7. CacheInv'
      <3>1. \A d \in Calls \ {c} : handle'[d] = handle[d]
        BY <1>17 DEF Parents!Blame, Parents!record_failure, Parents!TypeOK
      <3>2. UNCHANGED generation \/ generation' = generation + 1
        BY <1>17 DEF Parents!Blame, Parents!record_failure
      <3> QED BY <1>a, <2>1, <2>3, <2>4, <2>5, <3>1, <3>2, <1>17 DEF CacheInv,
          Parents!Blame, Parents!record_failure, Parents!TypeOK, Parents!Building
    <2>8. BlameInv'
      BY <1>a, <2>1, <2>5, <1>17 DEF BlameInv, CacheInv, Parents!Blame,
          Parents!record_failure, Parents!TypeOK
    <2>9. HealthInv'
      BY <1>a, <2>1, <2>5, <1>17 DEF HealthInv, CacheInv, Parents!Blame,
          Parents!record_failure, Parents!TypeOK
    <2>10. ReportInv'
      <3>1. /\ UNCHANGED <<reported, generation, broken>> /\ cached' \in {cached, None}
            /\ \A d \in Calls \ {c} : handle'[d] = handle[d]
        BY <1>17 DEF Parents!Blame, Parents!retire_client, Parents!discover, Parents!record_failure, Parents!TypeOK
      <3>2. \A d \in Calls : step'[d] \in {"retire", "penalize"} => d # c
        BY <2>0, <2>5 DEF Parents!Building
      <3> QED BY <2>5, <3>1, <3>2, ReportKept
    <2> QED BY <2>2, <2>3, <2>4, <2>6, <2>7, <2>8, <2>9, <2>10
  <1> QED
    BY <1>1, <1>2, <1>3, <1>4, <1>5, <1>6, <1>7, <1>8, <1>9, <1>10, <1>11, <1>12, <1>13,
        <1>14, <1>15, <1>16, <1>17 DEF Parents!Call,
       Parents!client, Parents!download_piece_stream, Parents!download_piece, Parents!handle_stream_result, Parents!handle_piece_result, Parents!Settle

\* What happens around the calls keeps it too.
LEMMA ParentsOtherStep ==
  ASSUME ParentsInv,
         (\E g \in Parents!Generations : Parents!TransferEnds(g)) \/ Parents!FabricFails \/ Parents!PenaltyExpires
  PROVE  ParentsInv'
  <1> USE DEF ParentsInv, Parents!fabricVars, Parents!parentVars, Parents!cacheVars, Parents!outcomeVars,
              Parents!callVars
  <1>a. /\ UNCHANGED <<cached, generation, on, step, gate, locked, handle, doomed, retired, faulted, blamed,
                       reported, bound, fabric, fabricState, capable>>
        /\ broken \subseteq broken'
    BY DEF Parents!TransferEnds, Parents!FabricFails, Parents!PenaltyExpires
  <1>1. FabricInv' /\ failed \subseteq failed'
    <2>1. CASE Parents!FabricFails
      <3>1. /\ fabric > 0 /\ failed = 1 .. fabric - 1 /\ failed' = 1 .. fabric
            /\ Cardinality(failed) < bound.failures /\ fabricState = "ready"
        BY <2>1, ParentsCardinality DEF Parents!FabricFails, FabricInv
      <3>2. Cardinality(failed) = fabric - 1 /\ Cardinality(failed') = fabric
        BY <3>1, FS_Interval DEF FabricInv
      <3>3. bound.failures \in Nat
        BY ParentsBound
      <3> QED BY <1>a, <3>1, <3>2, <3>3 DEF FabricInv
    <2>2. CASE ~Parents!FabricFails
      <3>1. UNCHANGED failed
        BY <2>2 DEF Parents!TransferEnds, Parents!PenaltyExpires
      <3> QED BY <1>a, <3>1 DEF FabricInv
    <2> QED BY <2>1, <2>2
  <1>2. GateInv' /\ CacheInv' /\ BlameInv'
    BY <1>a DEF GateInv, CacheInv, BlameInv
  <1>3. HealthInv'
    BY <1>a, <1>1 DEF HealthInv
  <1>6. ReportInv'
    BY <1>a, ReportKept
  <1>4. CountInv'
    <2>1. Makers' = Makers
      BY <1>a DEF Makers
    <2> QED BY <1>a, <2>1 DEF CountInv
  <1>5. Parents!TypeOK'
    <2>1. failed' \subseteq 1 .. fabric
      BY <1>a, <1>1 DEF FabricInv
    <2>2. /\ broken' \subseteq Parents!Generations /\ succeeded' \subseteq Parents!Generations
          /\ penalty' \in {"none", "active", "expired"}
      BY DEF Parents!TransferEnds, Parents!FabricFails, Parents!PenaltyExpires,
          Parents!TypeOK
    <2> QED BY <1>a, <2>1, <2>2 DEF Parents!TypeOK
  <1> QED BY <1>1, <1>2, <1>3, <1>4, <1>5, <1>6

\* A step of another part.
LEMMA ParentsStutter ==
  ASSUME ParentsInv, UNCHANGED parentsVars
  PROVE  ParentsInv'
  <1> USE DEF parentsVars
  <1>1. Makers' = Makers
    BY DEF Makers
  <1>2. CountInv'
    BY <1>1 DEF ParentsInv, CountInv
  <1>3. Parents!TypeOK' /\ FabricInv' /\ GateInv'
    BY DEF ParentsInv, Parents!TypeOK, FabricInv, GateInv
  <1>4. CacheInv' /\ BlameInv' /\ ReportInv' /\ HealthInv'
    BY DEF ParentsInv, CacheInv, BlameInv, ReportInv, HealthInv
  <1> QED BY <1>2, <1>3, <1>4 DEF ParentsInv

LEMMA ParentsInit ==
  ASSUME Parents!Init
  PROVE  ParentsInv
  <1> USE DEF Parents!Init
  <1>a. /\ Cardinality(Calls) \in Nat /\ Parents!Cardinality(Calls) = Cardinality(Calls)
        /\ None \notin Parents!Generations
    BY ParentsConstants
  <1>b. bound.failures \in Nat
    BY BoundsAssumption
  <1>1. Parents!TypeOK
    <2>1. /\ fabric \in 0 .. 2 * bound.failures + 2 /\ generation \in 0 .. Cardinality(Calls)
          /\ on \in [Parents!Generations -> 0 .. fabric] /\ blamed \in [Parents!Generations -> Nat]
          /\ reported \in [Parents!Generations -> Nat]
      BY <1>a, <1>b
    <2>2. step \in [Calls -> {"check", "done"}]
      OBVIOUS
    <2>3. /\ gate \in [Calls -> Calls \cup {None}] /\ locked \in [Calls -> BOOLEAN]
          /\ handle \in [Calls -> Parents!Generations \cup {None}]
          /\ \A c \in Calls : ~locked[c] /\ step[c] # "request"
      OBVIOUS
    <2> QED BY <1>a, <2>1, <2>2, <2>3 DEF Parents!TypeOK
  <1>2. FabricInv
    BY <1>b, FS_EmptySet DEF FabricInv
  <1>3. GateInv
    BY DEF GateInv, Inside, Parents!Building
  <1>4. CountInv
    <2>1. Makers \in SUBSET Calls
      BY DEF Makers
    <2>2. Cardinality(Makers) <= Cardinality(Calls)
      BY <2>1, FS_Subset, CallsAssumption
    <2>3. Cardinality(Makers) \in Nat
      BY <2>1, FS_Subset, FS_CardinalityType, CallsAssumption
    <2> QED BY <1>a, <2>2, <2>3 DEF CountInv
  <1>5. CacheInv /\ BlameInv /\ ReportInv /\ HealthInv
    BY <1>a DEF CacheInv, BlameInv, ReportInv, HealthInv, Parents!Building
  <1> QED BY <1>1, <1>2, <1>3, <1>4, <1>5 DEF ParentsInv

\* At most one call is inside the gate.
LEMMA OneInside ==
  ASSUME ParentsInv
  PROVE  Parents!OneConstruction
  <1> DEFINE B == {c \in Calls : step[c] \in Parents!Building}
  <1>1. \A c, d \in B : c = d
    BY DEF ParentsInv, GateInv, Inside
  <1>2. B = {} \/ \E x : B = {x}
    BY <1>1
  <1>3. Cardinality(B) <= 1
    <2>1. CASE B = {}
      BY <2>1, FS_EmptySet
    <2>2. ASSUME NEW x, B = {x} PROVE Cardinality(B) <= 1
      <3>1. Cardinality({x}) = 1
        BY FS_Singleton
      <3> QED BY <2>2, <3>1
    <2> QED BY <1>2, <2>1, <2>2
  <1>4. Parents!Cardinality(B) <= 1
    BY <1>3, ParentsCardinality
  <1> QED BY <1>4 DEF Parents!OneConstruction

-----------------------------------------------------------------------------
(* PieceTransfer: the inductive invariant.                                    *)

\* A request that is here has not reached the server.
Early == {"entry", "make", "check", "again", "remake", "guard", "send"}

\* A request that is here has a client.
WithClient == {"check", "again", "guard", "body", "remove"} \cup Transfer!Guarded

\* The requests that count as active on client k.
Guards(k) == {r \in Requests : using[r] = k /\ at[r] \in Transfer!Guarded}

\* The uploads that were counted as started and not yet as finished or failed.
Open == {r \in Requests : handler[r] \in Transfer!Serving \ {"error"}}

\* The uploads whose handler has read the head of the request, or given up on it.
Read == {r \in Requests : handler[r] \notin {"none", "header"}}

TransferTyped ==
    /\ proto \in {"tcp", "quic"}
    /\ pieces \in {"task", "persistent", "persistent_cache"}
    /\ pool \in Clients \cup {None}
    /\ made \in 0 .. Cardinality(Clients)
    /\ closed \subseteq Clients
    /\ at \in [Requests -> {"entry", "make", "check", "again", "remake", "guard", "body", "remove"}
                             \cup Transfer!Guarded \cup Transfer!Ended]
    /\ using \in [Requests -> Clients \cup {None}]
    /\ stale \in [Requests -> Clients \cup {None}]
    /\ handler \in [Requests -> {"none", "header", "ended"} \cup Transfer!Serving]
    /\ answer \in [Requests -> {"none", "content", "error"}]
    /\ sent \in [Requests -> 0 .. PieceLength]
    /\ eof \subseteq Requests
    /\ got \in [Requests -> 0 .. PieceLength]
    /\ counts \in [{"started", "finished", "failure"} -> Nat]

\* active_requests of a client is the number of requests that hold a guard of it.
InflightInv == inflight = [k \in Clients |-> Cardinality(Guards(k))]

\* A client that was found closed and unused has left the pool for good: clients
\* are numbered as they are made, and a request asks for another one.
PoolInv ==
    /\ pool # None => pool <= made
    /\ \A r \in Requests : using[r] # None => using[r] <= made
    /\ \A r \in Requests : at[r] \in WithClient => using[r] # None
    /\ \A r \in Requests : at[r] \in {"entry", "make", "check"} => stale[r] = None
    /\ \A r \in Requests : stale[r] # None => stale[r] <= made /\ pool # stale[r]
    /\ \A r \in Requests : stale[r] # None /\ at[r] # "again" => using[r] # stale[r]

\* Every open upload was started; a handler starts an upload once.
UploadInv ==
    /\ \A r \in Requests : at[r] \in Early => handler[r] = "none"
    /\ counts["started"] = counts["finished"] + counts["failure"] + Cardinality(Open)
    /\ counts["started"] <= Cardinality(Read)

TransferInv ==
    /\ TransferTyped
    /\ InflightInv
    /\ PoolInv
    /\ UploadInv

-----------------------------------------------------------------------------
(* PieceTransfer: every step keeps the invariant.                             *)

\* PieceTransfer and this module count in the same way.
LEMMA TransferCardinality ==
  \A S : Transfer!Cardinality(S) = Cardinality(S)
  BY Zenon DEF Transfer!Cardinality, Cardinality

\* What the constants of PieceTransfer are.
LEMMA TransferConstants ==
  /\ Cardinality(Clients) \in Nat /\ Transfer!Cardinality(Clients) = Cardinality(Clients)
  /\ Clients \subseteq Nat /\ None \notin Clients
  /\ \A n \in Nat : n < Cardinality(Clients) => n + 1 \in Clients
  <1>1. Cardinality(Clients) \in Nat /\ Transfer!Cardinality(Clients) = Cardinality(Clients)
    BY ClientsAssumption, FS_CardinalityType, TransferCardinality
  <1> QED BY <1>1, ClientsAssumption

\* The sets that are counted are finite.
LEMMA RequestSets ==
  ASSUME NEW S \in SUBSET Requests
  PROVE  IsFiniteSet(S) /\ Cardinality(S) \in Nat /\ Cardinality(S) <= Cardinality(Requests)
  <1>1. IsFiniteSet(S) /\ Cardinality(S) <= Cardinality(Requests)
    BY FS_Subset, RequestsAssumption
  <1> QED BY <1>1, FS_CardinalityType

\* A request that keeps its guard, or has none and takes none.
LEMMA InflightKept ==
  ASSUME TransferTyped, InflightInv, NEW r \in Requests, NEW p, NEW k,
         at' = [at EXCEPT ![r] = p], UNCHANGED inflight,
         p \in Transfer!Guarded <=> at[r] \in Transfer!Guarded,
         \/ UNCHANGED using
         \/ at[r] \notin Transfer!Guarded /\ using' = [using EXCEPT ![r] = k]
  PROVE  InflightInv'
  <1>1. ASSUME NEW n \in Clients PROVE Guards(n)' = Guards(n)
    BY DEF Guards, TransferTyped
  <1>2. \A n \in Clients : Cardinality(Guards(n)') = Cardinality(Guards(n))
    BY <1>1
  <1> QED BY <1>2 DEF InflightInv

\* request_guard: the request counts as active on its client.
LEMMA InflightTaken ==
  ASSUME TransferTyped, InflightInv, NEW r \in Requests, NEW p,
         at' = [at EXCEPT ![r] = p], UNCHANGED using,
         p \in Transfer!Guarded, at[r] \notin Transfer!Guarded, using[r] \in Clients,
         inflight' = [inflight EXCEPT ![using[r]] = @ + 1]
  PROVE  InflightInv'
  <1>1. \A n \in Clients : n # using[r] => Guards(n)' = Guards(n)
    BY DEF Guards, TransferTyped
  <1>2. Guards(using[r])' = Guards(using[r]) \cup {r} /\ r \notin Guards(using[r])
    BY DEF Guards, TransferTyped
  <1>3. Cardinality(Guards(using[r])') = Cardinality(Guards(using[r])) + 1
    <2>1. IsFiniteSet(Guards(using[r]))
      BY RequestSets DEF Guards
    <2> QED BY <1>2, <2>1, FS_AddElement
  <1>4. \A n \in Clients : inflight'[n] = Cardinality(Guards(n)')
    BY <1>1, <1>3 DEF InflightInv
  <1>5. inflight' = [n \in Clients |-> inflight'[n]]
    BY DEF InflightInv
  <1> QED BY <1>4, <1>5 DEF InflightInv

\* The request gives its guard back.
LEMMA InflightReleased ==
  ASSUME TransferTyped, InflightInv, NEW r \in Requests, NEW p,
         at' = [at EXCEPT ![r] = p], UNCHANGED using,
         p \notin Transfer!Guarded, at[r] \in Transfer!Guarded, using[r] \in Clients,
         inflight' = [inflight EXCEPT ![using[r]] = @ - 1]
  PROVE  InflightInv'
  <1>1. \A n \in Clients : n # using[r] => Guards(n)' = Guards(n)
    BY DEF Guards, TransferTyped
  <1>2. Guards(using[r])' = Guards(using[r]) \ {r} /\ r \in Guards(using[r])
    BY DEF Guards, TransferTyped
  <1>3. Cardinality(Guards(using[r])') = Cardinality(Guards(using[r])) - 1
    <2>1. IsFiniteSet(Guards(using[r]))
      BY RequestSets DEF Guards
    <2> QED BY <1>2, <2>1, FS_RemoveElement
  <1>4. \A n \in Clients : inflight'[n] = Cardinality(Guards(n)')
    BY <1>1, <1>3 DEF InflightInv
  <1>5. inflight' = [n \in Clients |-> inflight'[n]]
    BY DEF InflightInv
  <1> QED BY <1>4, <1>5 DEF InflightInv

\* A request that goes on with the client it has.
LEMMA PoolMoved ==
  ASSUME TransferTyped, PoolInv, NEW r \in Requests, NEW p,
         at' = [at EXCEPT ![r] = p], at[r] # "again", p \notin {"entry", "make", "check", "again"},
         p \in WithClient => at[r] \in WithClient,
         UNCHANGED <<using, stale, made>>, pool' \in {pool, None}
  PROVE  PoolInv'
  BY DEF PoolInv, TransferTyped

\* The peer acts before or after its handler, never on what is counted.
LEMMA UploadsMoved ==
  ASSUME TransferTyped, UploadInv, NEW r \in Requests, NEW p,
         at' = [at EXCEPT ![r] = p], p \in Early => at[r] \in Early,
         UNCHANGED <<handler, counts>>
  PROVE  UploadInv'
  <1>1. Open' = Open /\ Read' = Read
    BY DEF Open, Read
  <1>2. Cardinality(Open') = Cardinality(Open) /\ Cardinality(Read') = Cardinality(Read)
    BY <1>1
  <1>3. \A q \in Requests : at'[q] \in Early => handler'[q] = "none"
    BY DEF UploadInv, TransferTyped
  <1> QED BY <1>2, <1>3 DEF UploadInv

\* What a step of a handler changes of the sets that are counted.
LEMMA UploadsAfter ==
  ASSUME TransferTyped, NEW r \in Requests, NEW h, handler' = [handler EXCEPT ![r] = h]
  PROVE  /\ Cardinality(Open) \in Nat /\ Cardinality(Open') \in Nat
         /\ Cardinality(Read) \in Nat /\ Cardinality(Read') \in Nat
         /\ r \in Open /\ h \in Transfer!Serving \ {"error"} => Cardinality(Open') = Cardinality(Open)
         /\ r \in Open /\ h \notin Transfer!Serving \ {"error"} => Cardinality(Open') = Cardinality(Open) - 1
         /\ r \notin Open /\ h \in Transfer!Serving \ {"error"} => Cardinality(Open') = Cardinality(Open) + 1
         /\ r \notin Open /\ h \notin Transfer!Serving \ {"error"} => Cardinality(Open') = Cardinality(Open)
         /\ r \in Read /\ h \notin {"none", "header"} => Cardinality(Read') = Cardinality(Read)
         /\ r \notin Read /\ h \notin {"none", "header"} => Cardinality(Read') = Cardinality(Read) + 1
         /\ r \notin Read /\ h \in {"none", "header"} => Cardinality(Read') = Cardinality(Read)
  <1>1. IsFiniteSet(Open) /\ IsFiniteSet(Read) /\ Cardinality(Open) \in Nat /\ Cardinality(Read) \in Nat
    BY RequestSets DEF Open, Read
  <1>2. Cardinality(Open') \in Nat /\ Cardinality(Read') \in Nat
    BY RequestSets DEF Open, Read
  <1>3. /\ h \in Transfer!Serving \ {"error"} => Open' = Open \cup {r}
        /\ h \notin Transfer!Serving \ {"error"} => Open' = Open \ {r}
    BY DEF Open, TransferTyped
  <1>4. /\ h \notin {"none", "header"} => Read' = Read \cup {r}
        /\ r \notin Read /\ h \in {"none", "header"} => Read' = Read
    BY DEF Read, TransferTyped
  <1>5. /\ Cardinality(Open \cup {r}) = IF r \in Open THEN Cardinality(Open) ELSE Cardinality(Open) + 1
        /\ Cardinality(Open \ {r}) = IF r \in Open THEN Cardinality(Open) - 1 ELSE Cardinality(Open)
        /\ Cardinality(Read \cup {r}) = IF r \in Read THEN Cardinality(Read) ELSE Cardinality(Read) + 1
    BY <1>1, FS_AddElement, FS_RemoveElement
  <1> QED BY <1>1, <1>2, <1>3, <1>4, <1>5

\* A step of the peer that goes on with the client it has.
LEMMA TransferMove ==
  ASSUME TransferInv, NEW r \in Requests,
         \/ Transfer!ConnectFails(r) \/ Transfer!request_guard(r) \/ Transfer!DropGuard(r)
         \/ Transfer!remove_client_entry(r) \/ Transfer!RequestFails(r) \/ Transfer!Receives(r)
  PROVE  TransferInv'
  <1> USE DEF TransferInv, Transfer!poolVars, Transfer!clientVars, Transfer!serverVars
  <1>1. ASSUME Transfer!ConnectFails(r) PROVE TransferInv'
    <2>1. PICK p \in {"failed"} : at' = [at EXCEPT ![r] = p]
      BY <1>1 DEF Transfer!ConnectFails, Transfer!Goto
    <2>2. /\ at[r] \in {"make", "remake"} /\ UNCHANGED <<using, stale, made, handler, counts>>
          /\ pool' \in {pool, None} /\ UNCHANGED inflight
      BY <1>1 DEF Transfer!ConnectFails
    <2>3. TransferTyped'
      <3>1. at' \in [Requests -> {"entry", "make", "check", "again", "remake", "guard", "body", "remove"}
                                   \cup Transfer!Guarded \cup Transfer!Ended]
        BY <2>1 DEF TransferTyped, Transfer!Guarded, Transfer!Ended
      <3> QED BY <1>1, <2>2, <3>1 DEF Transfer!ConnectFails, TransferTyped
    <2>4. PoolInv' /\ UploadInv'
      BY <2>1, <2>2, PoolMoved, UploadsMoved DEF WithClient, Early, Transfer!Guarded
    <2>6. InflightInv'
      BY <2>1, <2>2, InflightKept DEF Transfer!Guarded
    <2> QED BY <2>3, <2>4, <2>6
  <1>2. ASSUME Transfer!request_guard(r) PROVE TransferInv'
    <2>1. PICK p \in {"send"} : at' = [at EXCEPT ![r] = p]
      BY <1>2 DEF Transfer!request_guard, Transfer!Goto
    <2>2. /\ at[r] \in {"guard"} /\ UNCHANGED <<using, stale, made, handler, counts>>
          /\ pool' \in {pool, None} /\ inflight' = [inflight EXCEPT ![using[r]] = @ + 1]
      BY <1>2 DEF Transfer!request_guard
    <2>3. TransferTyped'
      <3>1. at' \in [Requests -> {"entry", "make", "check", "again", "remake", "guard", "body", "remove"}
                                   \cup Transfer!Guarded \cup Transfer!Ended]
        BY <2>1 DEF TransferTyped, Transfer!Guarded, Transfer!Ended
      <3> QED BY <1>2, <2>2, <3>1 DEF Transfer!request_guard, TransferTyped
    <2>4. PoolInv' /\ UploadInv'
      BY <2>1, <2>2, PoolMoved, UploadsMoved DEF WithClient, Early, Transfer!Guarded
    <2>5. using[r] \in Clients
      BY <2>2 DEF TransferTyped, PoolInv, WithClient, Transfer!Guarded
    <2>6. InflightInv'
      BY <2>1, <2>2, <2>5, InflightTaken DEF Transfer!Guarded
    <2> QED BY <2>3, <2>4, <2>6
  <1>3. ASSUME Transfer!DropGuard(r) PROVE TransferInv'
    <2>1. PICK p \in {"remove"} : at' = [at EXCEPT ![r] = p]
      BY <1>3 DEF Transfer!DropGuard, Transfer!Release, Transfer!Goto
    <2>2. /\ at[r] \in {"drop"} /\ UNCHANGED <<using, stale, made, handler, counts>>
          /\ pool' \in {pool, None} /\ inflight' = [inflight EXCEPT ![using[r]] = @ - 1]
      BY <1>3 DEF Transfer!DropGuard, Transfer!Release
    <2>3. TransferTyped'
      <3>1. at' \in [Requests -> {"entry", "make", "check", "again", "remake", "guard", "body", "remove"}
                                   \cup Transfer!Guarded \cup Transfer!Ended]
        BY <2>1 DEF TransferTyped, Transfer!Guarded, Transfer!Ended
      <3> QED BY <1>3, <2>2, <3>1 DEF Transfer!DropGuard, Transfer!Release, TransferTyped
    <2>4. PoolInv' /\ UploadInv'
      BY <2>1, <2>2, PoolMoved, UploadsMoved DEF WithClient, Early, Transfer!Guarded
    <2>5. using[r] \in Clients
      BY <2>2 DEF TransferTyped, PoolInv, WithClient, Transfer!Guarded
    <2>6. InflightInv'
      BY <2>1, <2>2, <2>5, InflightReleased DEF Transfer!Guarded
    <2> QED BY <2>3, <2>4, <2>6
  <1>4. ASSUME Transfer!remove_client_entry(r) PROVE TransferInv'
    <2>1. PICK p \in {"failed"} : at' = [at EXCEPT ![r] = p]
      BY <1>4 DEF Transfer!remove_client_entry, Transfer!remove_entry, Transfer!Goto
    <2>2. /\ at[r] \in {"remove"} /\ UNCHANGED <<using, stale, made, handler, counts>>
          /\ pool' \in {pool, None} /\ UNCHANGED inflight
      BY <1>4 DEF Transfer!remove_client_entry, Transfer!remove_entry
    <2>3. TransferTyped'
      <3>1. at' \in [Requests -> {"entry", "make", "check", "again", "remake", "guard", "body", "remove"}
                                   \cup Transfer!Guarded \cup Transfer!Ended]
        BY <2>1 DEF TransferTyped, Transfer!Guarded, Transfer!Ended
      <3> QED BY <1>4, <2>2, <3>1 DEF Transfer!remove_client_entry, Transfer!remove_entry,
          TransferTyped
    <2>4. PoolInv' /\ UploadInv'
      BY <2>1, <2>2, PoolMoved, UploadsMoved DEF WithClient, Early, Transfer!Guarded
    <2>6. InflightInv'
      BY <2>1, <2>2, InflightKept DEF Transfer!Guarded
    <2> QED BY <2>3, <2>4, <2>6
  <1>5. ASSUME Transfer!RequestFails(r) PROVE TransferInv'
    <2>1. PICK p \in {"drop"} : at' = [at EXCEPT ![r] = p]
      BY <1>5 DEF Transfer!RequestFails, Transfer!Goto
    <2>2. /\ at[r] \in {"send", "header"} /\ UNCHANGED <<using, stale, made, handler, counts>>
          /\ pool' \in {pool, None} /\ UNCHANGED inflight
      BY <1>5 DEF Transfer!RequestFails
    <2>3. TransferTyped'
      <3>1. at' \in [Requests -> {"entry", "make", "check", "again", "remake", "guard", "body", "remove"}
                                   \cup Transfer!Guarded \cup Transfer!Ended]
        BY <2>1 DEF TransferTyped, Transfer!Guarded, Transfer!Ended
      <3> QED BY <1>5, <2>2, <3>1 DEF Transfer!RequestFails, TransferTyped
    <2>4. PoolInv' /\ UploadInv'
      BY <2>1, <2>2, PoolMoved, UploadsMoved DEF WithClient, Early, Transfer!Guarded
    <2>6. InflightInv'
      BY <2>1, <2>2, InflightKept DEF Transfer!Guarded
    <2> QED BY <2>3, <2>4, <2>6
  <1>6. ASSUME Transfer!recv_piece_content(r) PROVE TransferInv'
    <2>1. PICK p \in {"body"} : at' = [at EXCEPT ![r] = p]
      BY <1>6 DEF Transfer!recv_piece_content, Transfer!Release, Transfer!Goto
    <2>2. /\ at[r] \in {"header"} /\ UNCHANGED <<using, stale, made, handler, counts>>
          /\ pool' \in {pool, None} /\ inflight' = [inflight EXCEPT ![using[r]] = @ - 1]
      BY <1>6 DEF Transfer!recv_piece_content, Transfer!Release
    <2>3. TransferTyped'
      <3>1. at' \in [Requests -> {"entry", "make", "check", "again", "remake", "guard", "body", "remove"}
                                   \cup Transfer!Guarded \cup Transfer!Ended]
        BY <2>1 DEF TransferTyped, Transfer!Guarded, Transfer!Ended
      <3> QED BY <1>6, <2>2, <3>1 DEF Transfer!recv_piece_content, Transfer!Release,
          TransferTyped
    <2>4. PoolInv' /\ UploadInv'
      BY <2>1, <2>2, PoolMoved, UploadsMoved DEF WithClient, Early, Transfer!Guarded
    <2>5. using[r] \in Clients
      BY <2>2 DEF TransferTyped, PoolInv, WithClient, Transfer!Guarded
    <2>6. InflightInv'
      BY <2>1, <2>2, <2>5, InflightReleased DEF Transfer!Guarded
    <2> QED BY <2>3, <2>4, <2>6
  <1>7. ASSUME Transfer!recv_error(r) PROVE TransferInv'
    <2>1. PICK p \in {"drop"} : at' = [at EXCEPT ![r] = p]
      BY <1>7 DEF Transfer!recv_error, Transfer!Goto
    <2>2. /\ at[r] \in {"header"} /\ UNCHANGED <<using, stale, made, handler, counts>>
          /\ pool' \in {pool, None} /\ UNCHANGED inflight
      BY <1>7 DEF Transfer!recv_error
    <2>3. TransferTyped'
      <3>1. at' \in [Requests -> {"entry", "make", "check", "again", "remake", "guard", "body", "remove"}
                                   \cup Transfer!Guarded \cup Transfer!Ended]
        BY <2>1 DEF TransferTyped, Transfer!Guarded, Transfer!Ended
      <3> QED BY <1>7, <2>2, <3>1 DEF Transfer!recv_error, TransferTyped
    <2>4. PoolInv' /\ UploadInv'
      BY <2>1, <2>2, PoolMoved, UploadsMoved DEF WithClient, Early, Transfer!Guarded
    <2>6. InflightInv'
      BY <2>1, <2>2, InflightKept DEF Transfer!Guarded
    <2> QED BY <2>3, <2>4, <2>6
  <1>8. ASSUME Transfer!content_stream(r) PROVE TransferInv'
    <2>1. PICK p \in {"body", "ok", "failed"} : at' = [at EXCEPT ![r] = p]
      <3>1. \/ UNCHANGED at \/ Transfer!Goto(r, "ok") \/ Transfer!Goto(r, "failed")
        BY <1>8 DEF Transfer!content_stream
      <3>2. UNCHANGED at => at' = [at EXCEPT ![r] = "body"]
        BY <1>8 DEF Transfer!content_stream, TransferTyped
      <3> QED BY <3>1, <3>2 DEF Transfer!Goto
    <2>2. /\ at[r] \in {"body"} /\ UNCHANGED <<using, stale, made, handler, counts>>
          /\ pool' \in {pool, None} /\ UNCHANGED inflight
      BY <1>8 DEF Transfer!content_stream
    <2>3. TransferTyped'
      <3>1. at' \in [Requests -> {"entry", "make", "check", "again", "remake", "guard", "body", "remove"}
                                   \cup Transfer!Guarded \cup Transfer!Ended]
        BY <2>1 DEF TransferTyped, Transfer!Guarded, Transfer!Ended
      <3> QED BY <1>8, <2>2, <3>1, PieceLengthAssumption DEF Transfer!content_stream,
          TransferTyped
    <2>4. PoolInv' /\ UploadInv'
      BY <2>1, <2>2, PoolMoved, UploadsMoved DEF WithClient, Early, Transfer!Guarded
    <2>6. InflightInv'
      BY <2>1, <2>2, InflightKept DEF Transfer!Guarded
    <2> QED BY <2>3, <2>4, <2>6
  <1>9. ASSUME Transfer!StreamBreaks(r) PROVE TransferInv'
    <2>1. PICK p \in {"failed"} : at' = [at EXCEPT ![r] = p]
      BY <1>9 DEF Transfer!StreamBreaks, Transfer!Goto
    <2>2. /\ at[r] \in {"body"} /\ UNCHANGED <<using, stale, made, handler, counts>>
          /\ pool' \in {pool, None} /\ UNCHANGED inflight
      BY <1>9 DEF Transfer!StreamBreaks
    <2>3. TransferTyped'
      <3>1. at' \in [Requests -> {"entry", "make", "check", "again", "remake", "guard", "body", "remove"}
                                   \cup Transfer!Guarded \cup Transfer!Ended]
        BY <2>1 DEF TransferTyped, Transfer!Guarded, Transfer!Ended
      <3> QED BY <1>9, <2>2, <3>1 DEF Transfer!StreamBreaks, TransferTyped
    <2>4. PoolInv' /\ UploadInv'
      BY <2>1, <2>2, PoolMoved, UploadsMoved DEF WithClient, Early, Transfer!Guarded
    <2>6. InflightInv'
      BY <2>1, <2>2, InflightKept DEF Transfer!Guarded
    <2> QED BY <2>3, <2>4, <2>6
  <1>10. ASSUME Transfer!BodyTimesOut(r) PROVE TransferInv'
    <2>1. PICK p \in {"failed"} : at' = [at EXCEPT ![r] = p]
      BY <1>10 DEF Transfer!BodyTimesOut, Transfer!Goto
    <2>2. /\ at[r] \in {"body"} /\ UNCHANGED <<using, stale, made, handler, counts>>
          /\ pool' \in {pool, None} /\ UNCHANGED inflight
      BY <1>10 DEF Transfer!BodyTimesOut
    <2>3. TransferTyped'
      <3>1. at' \in [Requests -> {"entry", "make", "check", "again", "remake", "guard", "body", "remove"}
                                   \cup Transfer!Guarded \cup Transfer!Ended]
        BY <2>1 DEF TransferTyped, Transfer!Guarded, Transfer!Ended
      <3> QED BY <1>10, <2>2, <3>1 DEF Transfer!BodyTimesOut, TransferTyped
    <2>4. PoolInv' /\ UploadInv'
      BY <2>1, <2>2, PoolMoved, UploadsMoved DEF WithClient, Early, Transfer!Guarded
    <2>6. InflightInv'
      BY <2>1, <2>2, InflightKept DEF Transfer!Guarded
    <2> QED BY <2>3, <2>4, <2>6
  <1> QED BY <1>1, <1>2, <1>3, <1>4, <1>5, <1>6, <1>7, <1>8, <1>9, <1>10 DEF
      Transfer!Receives

\* The request reaches the server, which spawns its handler.
LEMMA TransferSend ==
  ASSUME TransferInv, NEW r \in Requests, Transfer!send_request(r)
  PROVE  TransferInv'
  <1> USE DEF TransferInv, Transfer!poolVars
  <1>1. /\ at[r] = "send" /\ at' = [at EXCEPT ![r] = "header"]
        /\ handler' = [handler EXCEPT ![r] = "header"] /\ handler[r] = "none"
        /\ UNCHANGED <<proto, pieces, pool, made, inflight, closed, using, stale, got, answer, sent, eof, counts>>
    BY DEF Transfer!send_request, Transfer!Goto, Transfer!Accept, UploadInv, Early
  <1>2. TransferTyped'
    BY <1>1 DEF TransferTyped, Transfer!Guarded
  <1>3. PoolInv'
    BY <1>1, PoolMoved DEF WithClient, Transfer!Guarded
  <1>4. InflightInv'
    BY <1>1, InflightKept DEF Transfer!Guarded
  <1>5. UploadInv'
    <2>1. r \notin Open /\ r \notin Read /\ "header" \notin Transfer!Serving
      BY <1>1 DEF Open, Read, Transfer!Serving
    <2>2. Cardinality(Open') = Cardinality(Open) /\ Cardinality(Read') = Cardinality(Read)
      BY <1>1, <2>1, UploadsAfter
    <2>3. \A q \in Requests : at'[q] \in Early => handler'[q] = "none"
      BY <1>1 DEF UploadInv, TransferTyped, Early
    <2> QED BY <1>1, <2>2, <2>3 DEF UploadInv
  <1> QED BY <1>2, <1>3, <1>4, <1>5

\* The request looks for a client in the pool.
LEMMA TransferEntry ==
  ASSUME TransferInv, NEW r \in Requests, Transfer!entry(r)
  PROVE  TransferInv'
  <1> USE DEF TransferInv, Transfer!serverVars
  <1>1. /\ pool' \in {pool, None} /\ using' = [using EXCEPT ![r] = pool']
        /\ UNCHANGED <<proto, pieces, made, inflight, closed, stale, got, handler, answer, sent, eof, counts>>
    BY DEF Transfer!entry, Transfer!PoolEntry, Transfer!Use
  <1>2. PICK p \in {"check", "guard", "make", "remake"} :
             /\ at' = [at EXCEPT ![r] = p]
             /\ p \in {"check", "guard"} => pool' # None
             /\ p \in {"check", "make"} => at[r] = "entry"
    BY DEF Transfer!entry, Transfer!PoolEntry, Transfer!Goto, Transfer!Found
  <1>3. at[r] \in {"entry", "again"}
    BY DEF Transfer!entry
  <1>4. TransferTyped'
    BY <1>1, <1>2 DEF TransferTyped
  <1>5. InflightInv'
    BY <1>1, <1>2, <1>3, InflightKept DEF Transfer!Guarded
  <1>6. UploadInv'
    BY <1>1, <1>2, <1>3, UploadsMoved DEF Early
  <1>7. PoolInv'
    <2>1. /\ \A q \in Requests \ {r} : at'[q] = at[q] /\ using'[q] = using[q]
          /\ at'[r] = p /\ using'[r] = pool'
      BY <1>1, <1>2 DEF TransferTyped
    <2> QED BY <1>1, <1>2, <1>3, <2>1 DEF PoolInv, WithClient, Transfer!Guarded
  <1> QED BY <1>4, <1>5, <1>6, <1>7

\* The request makes a client; the pool keeps the first of two.
LEMMA TransferMake ==
  ASSUME TransferInv, NEW r \in Requests, Transfer!make_client(r)
  PROVE  TransferInv'
  <1> USE DEF TransferInv, Transfer!serverVars
  <1>1. /\ made < Cardinality(Clients) /\ made' = made + 1
        /\ pool' = (IF pool = None THEN made + 1 ELSE pool)
        /\ using' = [using EXCEPT ![r] = pool']
        /\ UNCHANGED <<proto, pieces, inflight, closed, stale, got, handler, answer, sent, eof, counts>>
    BY TransferConstants DEF Transfer!make_client, Transfer!PoolInsert, Transfer!Use
  <1>2. PICK p \in {"check", "guard"} :
             at' = [at EXCEPT ![r] = p] /\ (p = "check" => at[r] = "make")
    BY DEF Transfer!make_client, Transfer!PoolInsert, Transfer!Goto, Transfer!Found
  <1>3. at[r] \in {"make", "remake"}
    BY DEF Transfer!make_client
  <1>4. made \in Nat /\ made' \in Nat /\ pool' \in Clients /\ made' \in 0 .. Cardinality(Clients)
    BY <1>1, TransferConstants DEF TransferTyped
  <1>5. TransferTyped'
    BY <1>1, <1>2, <1>4 DEF TransferTyped
  <1>6. InflightInv'
    BY <1>1, <1>2, <1>3, InflightKept DEF Transfer!Guarded
  <1>7. UploadInv'
    BY <1>1, <1>2, <1>3, UploadsMoved DEF Early
  <1>8. PoolInv'
    <2>1. /\ \A q \in Requests \ {r} : at'[q] = at[q] /\ using'[q] = using[q]
          /\ at'[r] = p /\ using'[r] = pool'
      BY <1>1, <1>2 DEF TransferTyped
    <2>2. pool' # None /\ pool' <= made' /\ \A q \in Requests : stale[q] # None => pool' # stale[q]
      BY <1>1, <1>4, TransferConstants DEF PoolInv, TransferTyped
    <2>3. \A q \in Requests : /\ using'[q] # None => using'[q] <= made'
                              /\ stale[q] # None => stale[q] <= made'
      <3>1. \A q \in Requests : /\ using[q] # None => using[q] \in Nat /\ using[q] <= made
                                /\ stale[q] # None => stale[q] \in Nat /\ stale[q] <= made
        BY TransferConstants DEF PoolInv, TransferTyped
      <3>2. \A n \in Nat : n <= made => n <= made'
        BY <1>1, <1>4
      <3>3. ASSUME NEW q \in Requests, using'[q] # None PROVE using'[q] <= made'
        <4>1. CASE q = r
          BY <2>1, <2>2, <4>1
        <4>2. CASE q # r
          BY <2>1, <3>1, <3>2, <3>3, <4>2
        <4> QED BY <4>1, <4>2
      <3> QED BY <3>1, <3>2, <3>3
    <2> QED BY <1>1, <1>2, <1>3, <2>1, <2>2, <2>3 DEF PoolInv, WithClient, Transfer!Guarded
  <1> QED BY <1>5, <1>6, <1>7, <1>8

\* A closed client leaves the pool when nobody uses it, and the request asks again.
LEMMA TransferCheck ==
  ASSUME TransferInv, NEW r \in Requests, Transfer!CheckClosed(r)
  PROVE  TransferInv'
  <1> USE DEF TransferInv, Transfer!serverVars
  <1>1. /\ at[r] = "check" /\ pool' \in {pool, None}
        /\ UNCHANGED <<proto, pieces, made, inflight, closed, using, got, handler, answer, sent, eof, counts>>
    BY DEF Transfer!CheckClosed, Transfer!remove_entry
  <1>2. \/ at' = [at EXCEPT ![r] = "guard"] /\ UNCHANGED stale
        \/ at' = [at EXCEPT ![r] = "again"] /\ UNCHANGED stale
        \/ /\ at' = [at EXCEPT ![r] = "again"] /\ stale' = [stale EXCEPT ![r] = using[r]]
           /\ pool' # using[r]
    <2>1. CASE using[r] \in closed /\ Transfer!Unused(using[r])
      <3>1. /\ at' = [at EXCEPT ![r] = "again"] /\ stale' = [stale EXCEPT ![r] = using[r]]
            /\ pool' = IF Transfer!Unused(pool) THEN None ELSE pool
        BY <2>1 DEF Transfer!CheckClosed, Transfer!remove_entry, Transfer!Goto
      <3>2. using[r] # None
        BY <1>1 DEF PoolInv, WithClient
      <3> QED BY <2>1, <3>1, <3>2
    <2>2. CASE using[r] \in closed /\ ~Transfer!Unused(using[r])
      <3>1. at' = [at EXCEPT ![r] = "again"] /\ stale' = [stale EXCEPT ![r] = stale[r]]
        BY <2>2 DEF Transfer!CheckClosed, Transfer!Goto
      <3> QED BY <3>1 DEF TransferTyped
    <2>3. CASE using[r] \notin closed
      BY <2>3 DEF Transfer!CheckClosed, Transfer!Goto
    <2> QED BY <2>1, <2>2, <2>3
  <1>3. TransferTyped'
    BY <1>1, <1>2 DEF TransferTyped
  <1>4. InflightInv'
    BY <1>1, <1>2, InflightKept DEF Transfer!Guarded
  <1>5. UploadInv'
    BY <1>1, <1>2, UploadsMoved DEF Early
  <1>6. PoolInv'
    <2>1. using[r] # None /\ stale[r] = None
      BY <1>1 DEF PoolInv, WithClient
    <2>2. /\ \A q \in Requests \ {r} : at'[q] = at[q] /\ stale'[q] = stale[q]
          /\ \/ at'[r] = "guard" /\ stale'[r] = stale[r]
             \/ at'[r] = "again" /\ stale'[r] = stale[r]
             \/ at'[r] = "again" /\ stale'[r] = using[r] /\ pool' # using[r]
      BY <1>2 DEF TransferTyped
    <2> QED BY <1>1, <2>1, <2>2 DEF PoolInv, WithClient, Transfer!Guarded
  <1> QED BY <1>3, <1>4, <1>5, <1>6

\* A handler counts what it starts and how it ends, once each.
LEMMA TransferServe ==
  ASSUME TransferInv, NEW r \in Requests,
         Transfer!read_download_piece(r) \/ Transfer!HandlePiece(r) \/ Transfer!Respond(r)
  PROVE  TransferInv'
  <1> USE DEF TransferInv, Transfer!poolVars, Transfer!clientVars
  <1>1. UNCHANGED <<proto, pieces, pool, made, inflight, closed, at, using, stale, got>>
    BY DEF Transfer!read_download_piece, Transfer!HandlePiece, Transfer!Respond,
        Transfer!write_error,
           Transfer!write_response, Transfer!write_stream
  <1>2. PoolInv'
    BY <1>1 DEF PoolInv
  <1>3. InflightInv'
    <2>1. \A k \in Clients : Guards(k)' = Guards(k)
      BY <1>1 DEF Guards
    <2> QED BY <1>1, <2>1 DEF InflightInv
  <1>4. /\ eof' \subseteq Requests /\ answer' \in [Requests -> {"none", "content", "error"}]
        /\ sent' \in [Requests -> 0 .. PieceLength]
    <2>1. eof' \subseteq Requests
      BY DEF Transfer!read_download_piece, Transfer!HandlePiece, Transfer!Respond,
          Transfer!write_error,
             Transfer!write_response, Transfer!write_stream, Transfer!Close, TransferTyped
    <2>2. answer' \in [Requests -> {"none", "content", "error"}]
      BY DEF Transfer!read_download_piece, Transfer!HandlePiece, Transfer!Respond,
          Transfer!write_error,
             Transfer!write_response, Transfer!write_stream, Transfer!Answer, TransferTyped
    <2>3. sent' \in [Requests -> 0 .. PieceLength]
      BY PieceLengthAssumption
         DEF Transfer!read_download_piece, Transfer!HandlePiece, Transfer!Respond, Transfer!write_error,
             Transfer!write_response, Transfer!write_stream, TransferTyped
    <2> QED BY <2>1, <2>2, <2>3
  <1> DEFINE Served(h, n) ==
        /\ handler' = [handler EXCEPT ![r] = h]
        /\ counts' = IF n = "none" THEN counts ELSE [counts EXCEPT ![n] = @ + 1]
  <1>5. \/ handler[r] = "header" /\ (Served("metadata", "started") \/ Served("ended", "none"))
        \/ handler[r] = "metadata" /\ (Served("respond", "none") \/ Served("error", "failure"))
        \/ handler[r] = "error" /\ Served("ended", "none")
        \/ handler[r] = "respond" /\ (Served("ended", "failure") \/ Served("content", "none"))
        \/ handler[r] = "content" /\ \/ Served("content", "none")
                                     \/ Served("ended", "finished") \/ Served("ended", "failure")
    <2>1. CASE Transfer!read_download_piece(r)
      BY <2>1 DEF Transfer!read_download_piece, Transfer!At, Transfer!Count
    <2>2. CASE Transfer!HandlePiece(r)
      BY <2>2 DEF Transfer!HandlePiece, Transfer!At, Transfer!Count
    <2>3. CASE Transfer!write_error(r)
      BY <2>3 DEF Transfer!write_error, Transfer!At
    <2>4. CASE Transfer!write_response(r)
      BY <2>4 DEF Transfer!write_response, Transfer!At, Transfer!Count
    <2>5. CASE Transfer!write_stream(r)
      <3>1. UNCHANGED handler /\ handler[r] = "content" => handler' = [handler EXCEPT ![r] = "content"]
        BY DEF TransferTyped
      <3> QED BY <2>5, <3>1 DEF Transfer!write_stream, Transfer!At, Transfer!Count
    <2> QED BY <2>1, <2>2, <2>3, <2>4, <2>5 DEF Transfer!Respond
  <1>6. PICK h \in {"metadata", "error", "respond", "content", "ended"} : handler' = [handler EXCEPT ![r] = h]
    BY <1>5
  <1>7. counts' \in [{"started", "finished", "failure"} -> Nat]
    BY <1>5 DEF TransferTyped
  <1>8. TransferTyped'
    <2>1. handler' \in [Requests -> {"none", "header", "ended"} \cup Transfer!Serving]
      BY <1>6 DEF TransferTyped, Transfer!Serving
    <2> QED BY <1>1, <1>4, <1>7, <2>1 DEF TransferTyped
  <1>9. UploadInv'
    <2>1. handler'[r] = h /\ \A q \in Requests \ {r} : handler'[q] = handler[q]
      BY <1>6 DEF TransferTyped
    <2>2. \A q \in Requests : at'[q] \in Early => handler'[q] = "none"
      BY <1>1, <1>5, <2>1 DEF UploadInv
    <2>3. /\ r \in Open <=> handler[r] \in {"metadata", "respond", "content"}
          /\ r \in Read <=> handler[r] \notin {"none", "header"}
          /\ h \in Transfer!Serving \ {"error"} <=> h \in {"metadata", "respond", "content"}
          /\ h \notin {"none", "header"}
      BY DEF Open, Read, Transfer!Serving
    <2>4. /\ counts["started"] \in Nat /\ counts["finished"] \in Nat /\ counts["failure"] \in Nat
          /\ Cardinality(Open) \in Nat /\ Cardinality(Read) \in Nat
      BY <1>6, UploadsAfter DEF TransferTyped
    <2>5. /\ Cardinality(Open') = Cardinality(Open) + (IF h \in {"metadata", "respond", "content"} THEN 1 ELSE 0)
                                   - (IF handler[r] \in {"metadata", "respond", "content"} THEN 1 ELSE 0)
          /\ Cardinality(Read') = Cardinality(Read) + (IF handler[r] = "header" THEN 1 ELSE 0)
      <3>2. /\ r \in Open /\ h \in Transfer!Serving \ {"error"} => Cardinality(Open') = Cardinality(Open)
            /\ r \in Open /\ h \notin Transfer!Serving \ {"error"} => Cardinality(Open') = Cardinality(Open) - 1
            /\ r \notin Open /\ h \in Transfer!Serving \ {"error"} => Cardinality(Open') = Cardinality(Open) + 1
            /\ r \notin Open /\ h \notin Transfer!Serving \ {"error"} => Cardinality(Open') = Cardinality(Open)
            /\ r \in Read => Cardinality(Read') = Cardinality(Read)
            /\ r \notin Read => Cardinality(Read') = Cardinality(Read) + 1
        BY <1>6, <2>3, UploadsAfter
      <3>3. r \in Read <=> handler[r] # "header"
        BY <1>5, <2>3
      <3> QED BY <2>3, <2>4, <3>2, <3>3
    <2>6. /\ counts'["started"] = counts["started"]
                                   + (IF handler[r] = "header" /\ h = "metadata" THEN 1 ELSE 0)
          /\ counts'["finished"] + counts'["failure"]
                = counts["finished"] + counts["failure"]
                  + (IF handler[r] \in {"metadata", "respond", "content"} /\ h \in {"error", "ended"}
                     THEN 1 ELSE 0)
      BY <1>5, <2>1, <2>4 DEF TransferTyped
    <2>7. \/ handler[r] = "header" /\ h \in {"metadata", "ended"}
          \/ handler[r] \in {"metadata", "respond", "content"} /\ h \in {"respond", "content", "error", "ended"}
          \/ handler[r] = "error" /\ h = "ended"
      BY <1>5, <2>1 DEF TransferTyped
    <2>8. /\ counts["started"] = counts["finished"] + counts["failure"] + Cardinality(Open)
          /\ counts["started"] <= Cardinality(Read)
      BY DEF UploadInv
    <2>9. /\ counts'["started"] = counts'["finished"] + counts'["failure"] + Cardinality(Open')
          /\ counts'["started"] <= Cardinality(Read')
      <3>1. CASE handler[r] = "header" /\ h = "metadata"
        BY <3>1, <2>4, <2>5, <2>6, <2>8
      <3>2. CASE handler[r] = "header" /\ h = "ended"
        BY <3>2, <2>4, <2>5, <2>6, <2>8
      <3>3. CASE handler[r] \in {"metadata", "respond", "content"} /\ h \in {"respond", "content"}
        BY <3>3, <2>4, <2>5, <2>6, <2>8
      <3>4. CASE handler[r] \in {"metadata", "respond", "content"} /\ h \in {"error", "ended"}
        BY <3>4, <2>4, <2>5, <2>6, <2>8
      <3>5. CASE handler[r] = "error" /\ h = "ended"
        BY <3>5, <2>4, <2>5, <2>6, <2>8
      <3> QED BY <2>7, <3>1, <3>2, <3>3, <3>4, <3>5
    <2> QED BY <2>2, <2>9 DEF UploadInv
  <1> QED BY <1>2, <1>3, <1>8, <1>9

\* A connection closes under its requests.
LEMMA TransferCloses ==
  ASSUME TransferInv, NEW k \in Clients, Transfer!ConnectionCloses(k)
  PROVE  TransferInv'
  <1>1. /\ closed' \subseteq Clients
        /\ UNCHANGED <<proto, pieces, pool, made, inflight, at, using, stale, handler, answer, sent, eof,
                        got, counts>>
    BY DEF TransferInv, TransferTyped, Transfer!ConnectionCloses, Transfer!clientVars,
        Transfer!serverVars
  <1>2. TransferTyped' /\ PoolInv'
    BY <1>1 DEF TransferInv, TransferTyped, PoolInv
  <1>3. (\A n \in Clients : Guards(n)' = Guards(n)) /\ Open' = Open /\ Read' = Read
    BY <1>1 DEF Guards, Open, Read
  <1> QED BY <1>1, <1>2, <1>3 DEF TransferInv, InflightInv, UploadInv

\* A step of another part.
LEMMA TransferStutter ==
  ASSUME TransferInv, UNCHANGED transferVars
  PROVE  TransferInv'
  <1>1. UNCHANGED <<proto, pieces, pool, made, inflight, closed, at, using, stale, handler, answer, sent, eof,
                    got, counts>>
    BY DEF transferVars
  <1>2. TransferTyped' /\ PoolInv'
    BY <1>1 DEF TransferInv, TransferTyped, PoolInv
  <1>3. (\A n \in Clients : Guards(n)' = Guards(n)) /\ Open' = Open /\ Read' = Read
    BY <1>1 DEF Guards, Open, Read
  <1> QED BY <1>1, <1>2, <1>3 DEF TransferInv, InflightInv, UploadInv

LEMMA TransferInit ==
  ASSUME Transfer!Init
  PROVE  TransferInv
  <1>1. PICK u \in Setups :
             /\ proto = u.proto /\ pieces = u.pieces
             /\ at = [r \in Requests |-> IF r \in u.requests THEN "entry" ELSE "failed"]
    BY DEF Transfer!Init
  <1>2. proto \in {"tcp", "quic"} /\ pieces \in {"task", "persistent", "persistent_cache"}
    BY <1>1, SetupsAssumption
  <1>3. \A r \in Requests : at[r] \in {"entry", "failed"}
    BY <1>1
  <1>4. TransferTyped
    <2>1. at \in [Requests -> {"entry", "make", "check", "again", "remake", "guard", "body", "remove"}
                               \cup Transfer!Guarded \cup Transfer!Ended]
      BY <1>1 DEF Transfer!Ended
    <2>2. pool = None /\ made = 0 /\ closed = {}
      BY DEF Transfer!Init, Transfer!DownloaderFactory
    <2> QED BY <1>2, <2>1, <2>2, PieceLengthAssumption, TransferConstants DEF
        TransferTyped, Transfer!Init
  <1>5. InflightInv
    <2>1. \A k \in Clients : Guards(k) = {}
      BY <1>3 DEF Guards, Transfer!Guarded
    <2>2. \A k \in Clients : Cardinality(Guards(k)) = 0
      BY <2>1, FS_EmptySet
    <2> QED BY <2>2 DEF InflightInv, Transfer!Init, Transfer!DownloaderFactory
  <1>6. PoolInv
    BY <1>3 DEF PoolInv, Transfer!Init, Transfer!DownloaderFactory, WithClient,
        Transfer!Guarded
  <1>7. UploadInv
    <2>1. Open = {} /\ Read = {}
      BY DEF Open, Read, Transfer!Init, Transfer!Serving
    <2>2. Cardinality(Open) = 0 /\ Cardinality(Read) = 0
      BY <2>1, FS_EmptySet
    <2> QED BY <2>2 DEF UploadInv, Transfer!Init
  <1> QED BY <1>4, <1>5, <1>6, <1>7 DEF TransferInv

\* What the invariant says of the type, the counts and the clients.
LEMMA TransferSafe ==
  ASSUME TransferInv
  PROVE  Transfer!TypeOK /\ Transfer!UploadsCountedOnce /\ Transfer!ClosedClientReplaced
  <1> USE DEF TransferInv
  <1>1. Transfer!ClosedClientReplaced
    BY DEF PoolInv, Transfer!ClosedClientReplaced, Transfer!Guarded
  <1>2. Transfer!UploadsCountedOnce
    <2>1. Transfer!Cardinality({r \in Requests : handler[r] \in Transfer!Serving \ {"error"}}) = Cardinality(Open)
      BY TransferCardinality DEF Open
    <2> QED BY <2>1 DEF UploadInv, Transfer!UploadsCountedOnce
  <1>3. Transfer!TypeOK
    <2>1. inflight = [k \in Clients |->
              Transfer!Cardinality({r \in Requests : using[r] = k /\ at[r] \in Transfer!Guarded})]
      <3>1. \A k \in Clients :
                Transfer!Cardinality({r \in Requests : using[r] = k /\ at[r] \in Transfer!Guarded})
                    = Cardinality(Guards(k))
        BY TransferCardinality DEF Guards
      <3> QED BY <3>1 DEF InflightInv
    <2>2. made \in 0 .. Transfer!Cardinality(Clients)
      BY TransferConstants DEF TransferTyped
    <2>3. counts \in [{"started", "finished", "failure"} -> 0 .. 2 * Transfer!Cardinality(Requests)]
      <3>1. /\ Cardinality(Open) \in Nat /\ Cardinality(Read) \in Nat
            /\ Cardinality(Read) <= Cardinality(Requests)
        BY RequestSets DEF Open, Read
      <3>2. Cardinality(Requests) \in Nat /\ Transfer!Cardinality(Requests) = Cardinality(Requests)
        BY RequestsAssumption, FS_CardinalityType, TransferCardinality
      <3>3. counts["started"] \in Nat /\ counts["finished"] \in Nat /\ counts["failure"] \in Nat
        BY DEF TransferTyped
      <3>4. \A c \in {"started", "finished", "failure"} : counts[c] \in 0 .. 2 * Transfer!Cardinality(Requests)
        BY <3>1, <3>2, <3>3 DEF UploadInv
      <3> QED BY <3>4 DEF TransferTyped
    <2> QED BY <2>1, <2>2, <2>3 DEF Transfer!TypeOK, TransferTyped
  <1> QED BY <1>1, <1>2, <1>3

-----------------------------------------------------------------------------
(* The transports side by side.                                               *)

Inv == TransferInv /\ ParentsInv

LEMMA TransferNext ==
  ASSUME TransferInv, Transfer!Next
  PROVE  TransferInv'
  <1>1. ASSUME NEW r \in Requests, Transfer!get_client_entry(r) PROVE TransferInv'
    BY <1>1, TransferEntry, TransferMake, TransferMove, TransferCheck DEF
        Transfer!get_client_entry
  <1>2. ASSUME NEW r \in Requests, Transfer!TCPDownloader(r) \/ Transfer!QUICDownloader(r) PROVE TransferInv'
    BY <1>1, <1>2, TransferMove DEF Transfer!TCPDownloader, Transfer!QUICDownloader
  <1>3. ASSUME NEW r \in Requests, Transfer!Client(r) PROVE TransferInv'
    <2>1. Transfer!Asks(r) \/ Transfer!Receives(r)
      BY <1>3 DEF Transfer!Client, Transfer!tcp_download_piece,
          Transfer!tcp_download_persistent_piece,
         Transfer!tcp_download_persistent_cache_piece, Transfer!quic_download_piece,
         Transfer!quic_download_persistent_piece, Transfer!quic_download_persistent_cache_piece
    <2> QED BY <2>1, TransferMove, TransferSend DEF Transfer!Asks
  <1>4. ASSUME NEW r \in Requests, Transfer!Server(r) PROVE TransferInv'
    <2>1. Transfer!read_download_piece(r) \/ Transfer!HandlePiece(r) \/ Transfer!Respond(r)
      <3>1. CASE Transfer!TcpServer(r)
        BY <3>1 DEF Transfer!TcpServer, Transfer!tcp_handle, Transfer!tcp_respond_piece,
            Transfer!tcp_handle_piece,
           Transfer!tcp_respond_persistent_piece, Transfer!tcp_handle_persistent_piece,
           Transfer!tcp_respond_persistent_cache_piece, Transfer!tcp_handle_persistent_cache_piece
      <3>2. CASE Transfer!QuicServer(r)
        BY <3>2 DEF Transfer!QuicServer, Transfer!quic_handle, Transfer!quic_respond_piece,
           Transfer!quic_handle_piece, Transfer!quic_respond_persistent_piece,
           Transfer!quic_handle_persistent_piece, Transfer!quic_respond_persistent_cache_piece,
           Transfer!quic_handle_persistent_cache_piece
      <3> QED BY <1>4, <3>1, <3>2 DEF Transfer!Server
    <2> QED BY <2>1, TransferServe
  <1> QED BY <1>2, <1>3, <1>4, TransferCloses DEF Transfer!Next, Transfer!Peer

LEMMA ParentsNext ==
  ASSUME ParentsInv, Parents!Next
  PROVE  ParentsInv'
  BY ParentsCallStep, ParentsOtherStep DEF Parents!Next

\* The invariant of both parts, whichever part a behaviour is about.
LEMMA Invariant == MCSpec => []Inv
  <1>1. MCInit => Inv
    BY TransferInit, ParentsInit DEF MCInit, Inv
  <1>2. Inv /\ [MCNext]_allVars => Inv'
    <2> SUFFICES ASSUME Inv, [MCNext]_allVars PROVE Inv'
      OBVIOUS
    <2>1. CASE Transfer!Next /\ UNCHANGED parentsVars
      BY <2>1, TransferNext, ParentsStutter DEF Inv
    <2>2. CASE Parents!Next /\ UNCHANGED transferVars
      BY <2>2, ParentsNext, TransferStutter DEF Inv
    <2>3. CASE UNCHANGED <<transferVars, parentsVars>>
      BY <2>3, TransferStutter, ParentsStutter DEF Inv
    <2> QED BY <2>1, <2>2, <2>3 DEF MCNext, allVars
  <1> QED BY <1>1, <1>2, PTL DEF MCSpec

\* PieceTransfer, UrmaParents: for any number of requests, clients, calls and failing
\* fabrics, the server counts one end for every upload it started, no request goes out on
\* a client that it found closed and unused, one call at a time builds the client of a
\* parent, and however many requests fail on one client, its parent is penalised once
\* for them, and once for the failed transfer that a lookup finds.
THEOREM ClientsAlwaysSafe == MCSpec => []ClientsSafe
  <1>1. Inv => ClientsSafe
    <2> SUFFICES ASSUME Inv PROVE ClientsSafe
      OBVIOUS
    <2>1. Transfer!TypeOK /\ Transfer!UploadsCountedOnce /\ Transfer!ClosedClientReplaced
      BY TransferSafe DEF Inv
    <2>2. Parents!TypeOK /\ Parents!PenaltiesPerClient
      BY DEF Inv, ParentsInv, BlameInv, ReportInv, Parents!PenaltiesPerClient, Parents!TypeOK
    <2>3. Parents!OneConstruction
      BY OneInside DEF Inv
    <2> QED BY <2>1, <2>2, <2>3 DEF ClientsSafe
  <1> QED BY <1>1, Invariant, PTL

\* UrmaParents: a cached client is removed only for its own failure, for that of its
\* fabric, for its idleness or with the clients of a failed fabric: a call that failed on
\* an older client leaves a healthy one alone.
THEOREM HealthyClientsAreKept == MCSpec => HealthyClientKept
  <1>1. Inv /\ [MCNext]_allVars => [Parents!HealthyStep]_allVars
    <2> SUFFICES ASSUME Inv, MCNext, cached # None, cached' # cached
                 PROVE  \/ cached \in broken \cup faulted
                        \/ on[cached] \in failed
                        \/ \E c \in Calls : step[c] \in {"lookup", "clear"} /\ step'[c] # step[c]
      BY DEF Parents!HealthyStep
    <2> USE DEF Inv, ParentsInv, Parents!fabricVars, Parents!parentVars, Parents!cacheVars,
                Parents!outcomeVars, Parents!callVars
    <2>1. Parents!Next
      BY DEF MCNext, parentsVars
    <2>2. PICK c \in Calls :
             \/ Parents!LookupIdle(c) \/ Parents!RetireBroken(c) \/ Parents!DiscardFailed(c)
             \/ Parents!InsertClient(c) \/ Parents!ClearClients(c) \/ Parents!DropClient(c)
      <3>1. PICK c \in Calls : Parents!Call(c)
        BY <2>1 DEF Parents!Next, Parents!TransferEnds, Parents!FabricFails,
            Parents!PenaltyExpires
      <3>2. Parents!client(c) \/ Parents!Succeeds(c) \/ Parents!Fails(c) \/ Parents!Settle(c)
        BY <3>1 DEF Parents!Call, Parents!download_piece_stream, Parents!download_piece,
           Parents!handle_stream_result, Parents!handle_piece_result
      <3> QED BY <3>2 DEF Parents!client, Parents!Settle, Parents!client_init_gate,
          Parents!check_parent,
           Parents!LockGate, Parents!Lookup, Parents!PenalizeBroken, Parents!UseFabric,
           Parents!advertisement, Parents!Succeeds, Parents!Fails, Parents!RetireFabric, Parents!Blame
    <2>3. CASE Parents!LookupIdle(c) \/ Parents!ClearClients(c)
      BY <2>3 DEF Parents!LookupIdle, Parents!ClearClients, Parents!Goto, Parents!TypeOK
    <2>4. CASE Parents!RetireBroken(c)
      BY <2>4 DEF Parents!RetireBroken, Parents!retire_client, HealthInv
    <2>5. CASE Parents!DiscardFailed(c)
      BY <2>5 DEF Parents!DiscardFailed, Parents!retire_client, HealthInv
    <2>6. CASE Parents!InsertClient(c)
      BY <2>6 DEF Parents!InsertClient, CacheInv, Parents!Building
    <2>7. CASE Parents!DropClient(c)
      BY <2>7 DEF Parents!DropClient, Parents!retire_client, HealthInv
    <2> QED BY <2>2, <2>3, <2>4, <2>5, <2>6, <2>7
  <1> QED BY <1>1, Invariant, PTL DEF HealthyClientKept, MCSpec

-----------------------------------------------------------------------------
(* UrmaSession: rounding up to windows and chunks.                            *)

\* What a quotient is.
LEMMA Quotient ==
  ASSUME NEW a \in Int, NEW b \in Nat \ {0}, NEW q \in Int, q * b <= a, a < q * b + b
  PROVE  a \div b = q
  <1> DEFINE e == a \div b
  <1>1. e \in Int /\ e * b <= a /\ a < e * b + b
    BY SMT
  <1> HIDE DEF e
  <1>2. e < q + 1 /\ q < e + 1
    <2>1. ASSUME e >= q + 1 PROVE FALSE
      <3>1. e * b >= (q + 1) * b
        BY <2>1, <1>1
      <3> QED BY <3>1, <1>1
    <2>2. ASSUME q >= e + 1 PROVE FALSE
      <3>1. q * b >= (e + 1) * b
        BY <2>2, <1>1
      <3> QED BY <3>1, <1>1
    <2> QED BY <2>1, <2>2, <1>1
  <1>3. e = q
    BY <1>2, <1>1
  <1> QED BY <1>3 DEF e

\* The quotient of n that is rounded up is the least q with q * b >= n.
LEMMA RoundedUp ==
  ASSUME NEW n \in Nat, NEW b \in Nat \ {0}
  PROVE  /\ DivCeil(n, b) \in Nat
         /\ DivCeil(n, b) * b >= n
         /\ DivCeil(n, b) * b < n + b
         /\ \A q \in Int : q * b >= n /\ q * b < n + b => DivCeil(n, b) = q
         /\ \A q \in Int : q * b >= n => DivCeil(n, b) <= q
  <1> DEFINE e == DivCeil(n, b)
  <1>1. e \in Int /\ e * b <= n + b - 1 /\ n + b - 1 < e * b + b
    BY SMT DEF DivCeil
  <1>2. ASSUME NEW q \in Int, q * b >= n, q * b < n + b PROVE e = q
    BY <1>2, Quotient DEF DivCeil
  <1> HIDE DEF e
  <1>3. ASSUME NEW q \in Int, q * b >= n PROVE e <= q
    <2>1. ASSUME e >= q + 1 PROVE FALSE
      <3>1. e * b >= (q + 1) * b
        BY <2>1, <1>1
      <3> QED BY <3>1, <1>1, <1>3
    <2> QED BY <2>1, <1>1
  <1>4. e >= 0
    <2>1. ASSUME e <= -1 PROVE FALSE
      <3>1. e * b <= (-1) * b
        BY <2>1, <1>1
      <3> QED BY <3>1, <1>1
    <2> QED BY <2>1, <1>1
  <1> QED BY <1>1, <1>2, <1>3, <1>4 DEF e
\* Rounding up is monotone, and a window more or less is one in the quotient.
LEMMA RoundedMonotone ==
  ASSUME NEW m \in Nat, NEW n \in Nat, NEW b \in Nat \ {0}, m <= n
  PROVE  DivCeil(m, b) <= DivCeil(n, b)
  <1>1. DivCeil(n, b) \in Nat /\ DivCeil(n, b) * b >= m
    BY RoundedUp
  <1> QED BY <1>1, RoundedUp

\* One more part costs at most one more quotient.
LEMMA RoundedStep ==
  ASSUME NEW n \in Nat, NEW c \in Nat, NEW b \in Nat \ {0}, c <= b
  PROVE  DivCeil(n + c, b) <= DivCeil(n, b) + 1
  <1> DEFINE e == DivCeil(n, b)
  <1>1. e \in Nat /\ e * b >= n
    BY RoundedUp
  <1> HIDE DEF e
  <1>2. (e + 1) * b = e * b + b
    BY <1>1
  <1>3. (e + 1) * b >= n + c
    BY <1>1, <1>2
  <1>4. n + c \in Nat /\ e + 1 \in Int
    BY <1>1
  <1>5. DivCeil(n + c, b) <= e + 1
    BY <1>3, <1>4, RoundedUp
  <1> QED BY <1>5 DEF e

\* A sum is rounded up to at most the sum of what is rounded up.
LEMMA RoundedSum ==
  ASSUME NEW m \in Nat, NEW n \in Nat, NEW b \in Nat \ {0}
  PROVE  DivCeil(m + n, b) <= DivCeil(m, b) + DivCeil(n, b)
  <1> DEFINE e == DivCeil(m, b)
             f == DivCeil(n, b)
  <1>1. e \in Nat /\ e * b >= m /\ f \in Nat /\ f * b >= n
    BY RoundedUp
  <1> HIDE DEF e, f
  <1>2. (e + f) * b = e * b + f * b
    BY <1>1
  <1>3. (e + f) * b >= m + n
    BY <1>1, <1>2
  <1>4. m + n \in Nat /\ e + f \in Int
    BY <1>1
  <1>5. DivCeil(m + n, b) <= e + f
    BY <1>3, <1>4, RoundedUp
  <1> QED BY <1>5 DEF e, f

-----------------------------------------------------------------------------
(* UrmaSession: the shape of a transfer.                                      *)

\* Windows that the first n chunks fill.
Windows(n) == DivCeil(n, Inflight)

\* Where a window can start or the piece ends.
Boundary(n) == n = Chunks \/ \E q \in Nat : n = q * Inflight

\* The end of the window at n.
After(n) == n + Smaller(Chunks - n, Inflight)

\* A piece has at least one chunk, and the last one is not empty.
LEMMA ShapeFacts ==
  /\ Length \in Nat \ {0} /\ ChunkSize \in Nat \ {0} /\ Inflight \in Nat \ {0}
  /\ Chunks \in Nat \ {0}
  /\ Length <= Chunks * ChunkSize
  /\ (Chunks - 1) * ChunkSize < Length
  <1>1. Length \in Nat \ {0} /\ ChunkSize \in Nat \ {0} /\ Inflight \in Nat \ {0}
    BY ShapeAssumption
  <1>2. Chunks \in Nat /\ Chunks * ChunkSize >= Length /\ Chunks * ChunkSize < Length + ChunkSize
    BY <1>1, RoundedUp DEF Chunks
  <1>3. Chunks # 0
    BY <1>1, <1>2
  <1>4. (Chunks - 1) * ChunkSize = Chunks * ChunkSize - ChunkSize
    BY <1>1, <1>2
  <1> QED BY <1>1, <1>2, <1>3, <1>4

\* A window has at least one chunk and ends with the piece at the latest.
LEMMA AfterFacts ==
  ASSUME NEW n \in Nat, n < Chunks
  PROVE  /\ After(n) \in Nat
         /\ n < After(n)
         /\ After(n) <= Chunks
         /\ After(n) <= n + Inflight
         /\ After(n) = Smaller(Chunks, n + Inflight)
         /\ After(n) # Chunks => After(n) = n + Inflight
  BY ShapeFacts DEF After, Smaller

\* The window after a boundary ends at a boundary, and is one more.
LEMMA NextWindow ==
  ASSUME NEW n \in Nat, n < Chunks, Boundary(n)
  PROVE  /\ Boundary(After(n))
         /\ Windows(After(n)) = Windows(n) + 1
  <1>1. PICK q \in Nat : n = q * Inflight
    BY DEF Boundary
  <1>2. Windows(n) = q
    <2>1. q * Inflight >= n /\ q * Inflight < n + Inflight
      BY <1>1, ShapeFacts
    <2>2. q \in Int
      BY <1>1
    <2> QED BY <2>1, <2>2, RoundedUp, ShapeFacts DEF Windows
  <1>3. (q + 1) * Inflight = n + Inflight
    BY <1>1, ShapeFacts
  <1>4. Windows(After(n)) = q + 1
    <2>1. (q + 1) * Inflight >= After(n) /\ (q + 1) * Inflight < After(n) + Inflight
      BY <1>3, AfterFacts, ShapeFacts
    <2>2. q + 1 \in Int /\ After(n) \in Nat
      BY <1>1, AfterFacts
    <2> QED BY <2>1, <2>2, RoundedUp, ShapeFacts DEF Windows
  <1>5. Boundary(After(n))
    BY <1>3, AfterFacts DEF Boundary
  <1> QED BY <1>2, <1>4, <1>5

\* More chunks fill more windows.
LEMMA WindowsMonotone ==
  ASSUME NEW m \in Nat, NEW n \in Nat, m <= n
  PROVE  Windows(m) \in Nat /\ Windows(n) \in Nat /\ Windows(m) <= Windows(n)
  BY RoundedMonotone, RoundedUp, ShapeFacts DEF Windows

\* What is less by a factor is less.
LEMMA FactorLess ==
  ASSUME NEW a \in Int, NEW b \in Int, NEW m \in Nat \ {0}
  PROVE  /\ a <= b => a * m <= b * m
         /\ a * m < b * m => a < b
  <1>1. ASSUME a <= b PROVE a * m <= b * m
    BY <1>1
  <1>2. ASSUME b <= a PROVE b * m <= a * m
    BY <1>2
  <1>3. a * m \in Int /\ b * m \in Int
    OBVIOUS
  <1> QED BY <1>1, <1>2, <1>3

\* The bytes of consecutive chunks are consecutive.
LEMMA ChunkRun ==
  ASSUME NEW a \in Nat, NEW n \in Nat, NEW total \in Int
  PROVE  UNION {Bytes(k, Smaller(ChunkSize, total - k * ChunkSize)) : k \in a .. a + n - 1}
            = a * ChunkSize + 1 .. Smaller((a + n) * ChunkSize, total)
  <1> DEFINE size == ChunkSize
  <1>s. size \in Nat \ {0}
    BY ShapeFacts
  <1> HIDE DEF size
  <1> DEFINE Run(k) == k * size + 1 .. k * size + Smaller(size, total - k * size)
  <1>0. a * size \in Int /\ (a + n) * size \in Int
    BY <1>s
  <1>1. ASSUME NEW k \in a .. a + n - 1, NEW y \in Run(k)
        PROVE  y \in a * size + 1 .. Smaller((a + n) * size, total)
    <2>1. a * size <= k * size /\ (k + 1) * size <= (a + n) * size
      BY <1>s, FactorLess
    <2>2. (k + 1) * size = k * size + size /\ k * size \in Int
      BY <1>s
    <2>3. y \in Int /\ k * size + 1 <= y /\ y <= k * size + size /\ y <= total
      BY <1>s, <2>2 DEF Smaller
    <2> QED BY <1>s, <2>1, <2>2, <2>3, <1>0 DEF Smaller
  <1>2. ASSUME NEW y \in a * size + 1 .. Smaller((a + n) * size, total)
        PROVE  \E k \in a .. a + n - 1 : y \in Run(k)
    <2>1. y \in Int /\ a * size + 1 <= y /\ y <= (a + n) * size /\ y <= total
      BY <1>0 DEF Smaller
    <2>2. PICK k \in Int : k * size <= y - 1 /\ y - 1 < k * size + size
      <3>1. (y - 1) \div size \in Int
            /\ ((y - 1) \div size) * size <= y - 1 /\ y - 1 < ((y - 1) \div size) * size + size
        BY <1>s, <2>1, SMT
      <3> QED BY <3>1
    <2>3. (k + 1) * size = k * size + size /\ k * size \in Int
      BY <1>s
    <2>4. a * size < (k + 1) * size /\ k * size < (a + n) * size
      BY <1>s, <2>1, <2>2, <2>3, <1>0
    <2>5. a < k + 1 /\ k < a + n
      BY <1>s, <2>4, FactorLess
    <2>6. y \in Run(k)
      BY <1>s, <2>1, <2>2, <2>3 DEF Smaller
    <2> QED BY <2>5, <2>6
  <1>3. UNION {Run(k) : k \in a .. a + n - 1} = a * size + 1 .. Smaller((a + n) * size, total)
    <2> HIDE DEF Run
    <2> QED BY <1>1, <1>2
  <1> QED BY <1>3 DEF size, Bytes

\* What the server fills from where it stands in the piece is what the client posted
\* receives for: as many chunks, and as many bytes.
LEMMA LeaseFits ==
  ASSUME NEW x \in Nat, x < Chunks
  PROVE  /\ tx_window_chunk_lengths(LengthOf(0, x)).count = Window(x).count
         /\ tx_window_chunk_lengths(LengthOf(0, x)).length = LengthOf(x, Window(x).count)
  <1> DEFINE n == Smaller(Chunks - x, Inflight)
  <1>1. n \in Nat \ {0} /\ x + n <= Chunks
    BY ShapeFacts DEF Smaller
  <1> HIDE DEF n
  <1>2. /\ x * ChunkSize \in Nat /\ n * ChunkSize \in Nat /\ Chunks * ChunkSize \in Nat
        /\ (Chunks - x) * ChunkSize = Chunks * ChunkSize - x * ChunkSize
        /\ (x + n) * ChunkSize = x * ChunkSize + n * ChunkSize
        /\ (Chunks - 1) * ChunkSize = Chunks * ChunkSize - ChunkSize
        /\ x * ChunkSize <= (Chunks - 1) * ChunkSize
        /\ n * ChunkSize >= 1
    BY <1>1, ShapeFacts, FactorLess
  <1>3. x * ChunkSize < Length
    BY <1>2, ShapeFacts
  <1>4. LengthOf(0, x) = x * ChunkSize
    <2>1. UNION {Bytes(k, ChunkLength(k)) : k \in 0 .. 0 + x - 1}
             = 0 * ChunkSize + 1 .. Smaller((0 + x) * ChunkSize, Length)
      <3>1. 0 \in Nat /\ Length \in Int
        BY ShapeFacts
      <3> QED BY <3>1, ChunkRun, ZenonT(60) DEF ChunkLength
    <2>2. Smaller((0 + x) * ChunkSize, Length) = x * ChunkSize /\ 0 * ChunkSize + 1 = 1
      BY <1>3, ShapeFacts DEF Smaller
    <2>3. Cardinality(1 .. x * ChunkSize) = x * ChunkSize
      BY <1>2, FS_Interval
    <2> QED BY <2>1, <2>2, <2>3 DEF LengthOf
  <1>5. DivCeil(Length - x * ChunkSize, ChunkSize) = Chunks - x
    <2>1. (Chunks - x) * ChunkSize >= Length - x * ChunkSize
      BY <1>2, ShapeFacts
    <2>2. (Chunks - x) * ChunkSize < Length - x * ChunkSize + ChunkSize
      BY <1>2, ShapeFacts
    <2>3. Length - x * ChunkSize \in Nat /\ Chunks - x \in Int
      BY <1>2, <1>3, ShapeFacts
    <2> QED BY <2>1, <2>2, <2>3, RoundedUp, ShapeFacts
  <1> DEFINE rest == Length - x * ChunkSize
             have == UNION {Bytes(i, Smaller(ChunkSize, rest - i * ChunkSize)) : i \in 0 .. n - 1}
  <1>6. rest \in Int
    BY <1>2, ShapeFacts
  <1>7. tx_window_chunk_lengths(LengthOf(0, x)) = [count |-> n, length |-> Cardinality(have)]
    BY <1>4, <1>5 DEF tx_window_chunk_lengths, n
  <1>8. Cardinality(have) = Smaller(n * ChunkSize, rest)
    <2>1. have = 0 * ChunkSize + 1 .. Smaller((0 + n) * ChunkSize, rest)
      <3> HIDE DEF rest
      <3>1. 0 .. n - 1 = 0 .. 0 + n - 1
        BY <1>1
      <3>2. 0 \in Nat /\ n \in Nat
        BY <1>1
      <3>3. UNION {Bytes(i, Smaller(ChunkSize, rest - i * ChunkSize)) : i \in 0 .. 0 + n - 1}
               = 0 * ChunkSize + 1 .. Smaller((0 + n) * ChunkSize, rest)
        BY <1>6, <3>2, ChunkRun, ZenonT(60)
      <3> QED BY <3>1, <3>3, Zenon
    <2>2. Smaller((0 + n) * ChunkSize, rest) = Smaller(n * ChunkSize, rest) /\ 0 * ChunkSize + 1 = 1
      BY <1>1, ShapeFacts
    <2>3. Smaller(n * ChunkSize, rest) \in Nat
      BY <1>2, <1>3, ShapeFacts DEF Smaller
    <2>4. Cardinality(1 .. Smaller(n * ChunkSize, rest)) = Smaller(n * ChunkSize, rest)
      BY <2>3, FS_Interval
    <2> QED BY <2>1, <2>2, <2>4
  <1>9. LengthOf(x, n) = Smaller(n * ChunkSize, rest)
    <2>1. UNION {Bytes(k, ChunkLength(k)) : k \in x .. x + n - 1}
             = x * ChunkSize + 1 .. Smaller((x + n) * ChunkSize, Length)
      <3>1. n \in Nat /\ Length \in Int
        BY <1>1, ShapeFacts
      <3> QED BY <3>1, ChunkRun, Zenon DEF ChunkLength
    <2> DEFINE to == Smaller((x + n) * ChunkSize, Length)
    <2>2. to \in Int /\ x * ChunkSize + 1 <= to
      BY <1>2, <1>3, ShapeFacts DEF Smaller
    <2>3. Cardinality(x * ChunkSize + 1 .. to) = to - x * ChunkSize
      <3> HIDE DEF to
      <3>1. Cardinality(x * ChunkSize + 1 .. to) = to - (x * ChunkSize + 1) + 1
        BY <1>2, <2>2, FS_Interval
      <3> QED BY <3>1, <1>2, <2>2
    <2>4. to - x * ChunkSize = Smaller(n * ChunkSize, rest)
      BY <1>2, ShapeFacts DEF Smaller
    <2> QED BY <2>1, <2>3, <2>4 DEF LengthOf
  <1>10. Window(x).count = n
    BY DEF Window, n
  <1> QED BY <1>7, <1>8, <1>9, <1>10

-----------------------------------------------------------------------------
(* UrmaSession: counting what is between two bounds of every transfer.        *)

Pair(t, a, b) == {t} \X (a + 1 .. b)

\* What a transfer adds to a number of things between two bounds.
LEMMA OneBetween ==
  ASSUME NEW t, NEW a \in Nat, NEW b \in Nat, a <= b
  PROVE  IsFiniteSet(Pair(t, a, b)) /\ Cardinality(Pair(t, a, b)) = b - a
  <1>1. IsFiniteSet({t}) /\ Cardinality({t}) = 1
    BY FS_Singleton
  <1>2. IsFiniteSet(a + 1 .. b) /\ Cardinality(a + 1 .. b) = b - a
    <2>1. a + 1 \in Int /\ b \in Int
      OBVIOUS
    <2>2. Cardinality(a + 1 .. b) = IF a + 1 > b THEN 0 ELSE b - (a + 1) + 1
      BY <2>1, FS_Interval
    <2>3. Cardinality(a + 1 .. b) = b - a
      BY <2>2
    <2> QED BY <2>1, <2>3, FS_Interval
  <1>3. Cardinality(Pair(t, a, b)) = Cardinality({t}) * Cardinality(a + 1 .. b) /\ IsFiniteSet(Pair(t, a, b))
    BY <1>1, <1>2, FS_Product, Zenon DEF Pair
  <1> QED BY <1>1, <1>2, <1>3

\* There are finitely many things between two bounds: at most the upper one for each.
LEMMA BetweenFinite ==
  ASSUME NEW S, IsFiniteSet(S), NEW lo, NEW hi, NEW n \in Nat,
         \A u \in S : lo[u] \in Nat /\ hi[u] \in Nat /\ lo[u] <= hi[u] /\ hi[u] <= n
  PROVE  /\ IsFiniteSet(Between(S, lo, hi))
         /\ Cardinality(Between(S, lo, hi)) \in Nat
         /\ Cardinality(Between(S, lo, hi)) <= n * Cardinality(S)
  <1>1. ASSUME NEW y \in Between(S, lo, hi) PROVE y \in S \X (1 .. n)
    <2>1. PICK u \in S : y \in {u} \X (lo[u] + 1 .. hi[u])
      BY <1>1 DEF Between
    <2>2. lo[u] + 1 .. hi[u] \subseteq 1 .. n
      BY <2>1
    <2> QED BY <2>1, <2>2
  <1>2. IsFiniteSet(1 .. n) /\ Cardinality(1 .. n) = n
    <2>1. 1 \in Int /\ n \in Int
      OBVIOUS
    <2>2. Cardinality(1 .. n) = IF 1 > n THEN 0 ELSE n - 1 + 1
      BY <2>1, FS_Interval
    <2> QED BY <2>1, <2>2, FS_Interval
  <1>3. IsFiniteSet(S \X (1 .. n)) /\ Cardinality(S \X (1 .. n)) = Cardinality(S) * n
    BY <1>2, FS_Product
  <1>4. IsFiniteSet(Between(S, lo, hi)) /\ Cardinality(Between(S, lo, hi)) <= Cardinality(S) * n
    <2>1. Between(S, lo, hi) \in SUBSET (S \X (1 .. n))
      BY <1>1
    <2> QED BY <2>1, <1>3, FS_Subset
  <1>5. Cardinality(S) \in Nat
    BY FS_CardinalityType
  <1>6. Cardinality(S) * n = n * Cardinality(S)
    BY <1>5
  <1> QED BY <1>4, <1>6, FS_CardinalityType
\* When the bounds of one transfer move, the number changes by as much.
LEMMA BetweenMoves ==
  ASSUME NEW S, IsFiniteSet(S), NEW t \in S, NEW lo, NEW hi, NEW lo2, NEW hi2, NEW n \in Nat,
         \A u \in S : lo[u] \in Nat /\ hi[u] \in Nat /\ lo[u] <= hi[u] /\ hi[u] <= n,
         lo2[t] \in Nat, hi2[t] \in Nat, lo2[t] <= hi2[t],
         \A u \in S \ {t} : lo2[u] = lo[u] /\ hi2[u] = hi[u]
  PROVE  Cardinality(Between(S, lo2, hi2))
            = Cardinality(Between(S, lo, hi)) - (hi[t] - lo[t]) + (hi2[t] - lo2[t])
  <1> DEFINE R == Between(S \ {t}, lo, hi)
  <1>1. IsFiniteSet(R) /\ Cardinality(R) \in Nat
    <2>1. IsFiniteSet(S \ {t})
      BY FS_Subset
    <2> QED BY <2>1, BetweenFinite
  <1>2. ASSUME NEW f, NEW g, f[t] \in Nat, g[t] \in Nat, f[t] <= g[t],
               \A u \in S \ {t} : f[u] = lo[u] /\ g[u] = hi[u]
        PROVE  Cardinality(Between(S, f, g)) = Cardinality(R) + (g[t] - f[t])
    <2>1. Between(S, f, g) = R \cup Pair(t, f[t], g[t])
      <3>1. ASSUME NEW y \in Between(S, f, g) PROVE y \in R \cup Pair(t, f[t], g[t])
        <4>1. PICK u \in S : y \in {u} \X (f[u] + 1 .. g[u])
          BY <3>1 DEF Between
        <4>2. CASE u = t
          BY <4>1, <4>2 DEF Pair
        <4>3. CASE u # t
          BY <1>2, <4>1, <4>3 DEF Between
        <4> QED BY <4>2, <4>3
      <3>2. ASSUME NEW y \in R PROVE y \in Between(S, f, g)
        <4>1. PICK u \in S \ {t} : y \in {u} \X (lo[u] + 1 .. hi[u])
          BY <3>2 DEF Between
        <4> QED BY <1>2, <4>1 DEF Between
      <3>3. ASSUME NEW y \in Pair(t, f[t], g[t]) PROVE y \in Between(S, f, g)
        BY <3>3 DEF Between, Pair
      <3> QED BY <3>1, <3>2, <3>3
    <2>2. R \cap Pair(t, f[t], g[t]) = {}
      <3>1. ASSUME NEW y \in R, y \in Pair(t, f[t], g[t]) PROVE FALSE
        <4>1. PICK u \in S \ {t} : y \in {u} \X (lo[u] + 1 .. hi[u])
          BY <3>1 DEF Between
        <4> QED BY <3>1, <4>1 DEF Pair
      <3> QED BY <3>1
    <2>3. IsFiniteSet(Pair(t, f[t], g[t])) /\ Cardinality(Pair(t, f[t], g[t])) = g[t] - f[t]
      BY <1>2, OneBetween
    <2> HIDE DEF R
    <2>4. Cardinality(R \cup Pair(t, f[t], g[t])) = Cardinality(R) + (g[t] - f[t]) - Cardinality({})
      <3>1. Cardinality(R \cup Pair(t, f[t], g[t]))
              = Cardinality(R) + Cardinality(Pair(t, f[t], g[t])) - Cardinality(R \cap Pair(t, f[t], g[t]))
        BY <1>1, <2>3, FS_Union
      <3> QED BY <3>1, <2>2, <2>3
    <2>5. Cardinality({}) = 0
      BY FS_EmptySet
    <2> QED BY <2>1, <2>4, <2>5, <1>1, <1>2
  <1>3. Cardinality(Between(S, lo, hi)) = Cardinality(R) + (hi[t] - lo[t])
    BY <1>2
  <1>4. Cardinality(Between(S, lo2, hi2)) = Cardinality(R) + (hi2[t] - lo2[t])
    BY <1>2
  <1> HIDE DEF R
  <1>5. hi[t] \in Nat /\ lo[t] \in Nat
    OBVIOUS
  <1> QED BY <1>1, <1>3, <1>4, <1>5

\* Less of the same is not more.
LEMMA BetweenSmaller ==
  ASSUME NEW S, IsFiniteSet(S), NEW T \in SUBSET S, NEW lo, NEW hi, NEW lo2, NEW hi2, NEW n \in Nat,
         \A u \in S : lo[u] \in Nat /\ hi[u] \in Nat /\ lo[u] <= hi[u] /\ hi[u] <= n,
         \A u \in T : lo2[u] \in Nat /\ hi2[u] \in Nat /\ lo[u] <= lo2[u] /\ hi2[u] <= hi[u]
  PROVE  Cardinality(Between(T, lo2, hi2)) <= Cardinality(Between(S, lo, hi))
  <1>1. ASSUME NEW y \in Between(T, lo2, hi2) PROVE y \in Between(S, lo, hi)
    <2>1. PICK u \in T : y \in {u} \X (lo2[u] + 1 .. hi2[u])
      BY <1>1 DEF Between
    <2>2. lo2[u] + 1 .. hi2[u] \subseteq lo[u] + 1 .. hi[u]
      BY <2>1
    <2>3. y \in {u} \X (lo[u] + 1 .. hi[u])
      BY <2>1, <2>2
    <2> QED BY <2>1, <2>3 DEF Between
  <1>2. Between(T, lo2, hi2) \in SUBSET Between(S, lo, hi)
    BY <1>1
  <1> QED BY <1>2, BetweenFinite, FS_Subset

-----------------------------------------------------------------------------
(* UrmaSession: the inductive invariant.                                      *)

\* Frames of the client and of the server.
ToServerFrames == [type : {"request"}] \cup [type : {"posted"}, window : [start : Nat, count : Int]]
ToClientFrames == [type : {"ready", "busy", "done", "error"}]

\* The stages in which the client's frames are those of the windows it posted.
Live == {"credit", "permit", "sending", "finish"}

\* The chunks whose frames the server has taken.
Cursor(s, x) == IF s \in {"permit", "sending"} THEN After(x) ELSE x

\* The frames under way are the windows from the server's cursor x to the chunks p that
\* are posted, one after the other.
Chain(out, x, p) ==
    /\ out = <<>> => p = x
    /\ out # <<>> => /\ out[1].window.start = x
                     /\ p = After(out[Len(out)].window.start)
    /\ \A i \in 1 .. Len(out) : /\ out[i] = Posted(Window(out[i].window.start))
                                /\ out[i].window.start < p
    /\ \A i \in 1 .. Len(out) - 1 : out[i + 1].window.start = out[i].window.start + Inflight

\* What a transfer's stage at the server says of the call and of what is on the wire.
Stages(c, p, s, x, l, out, in) ==
    /\ s = "none" =>
          /\ p = 0 /\ l = 0 /\ in = <<>>
          /\ \/ out = <<>> /\ c \in {"new", "dial", "request", "busy", "failed"}
             \/ out = <<Frame("request")>> /\ c \in {"awaiting", "failed"}
    /\ s \in {"incoming", "admission", "tx", "spare"} =>
          /\ p = 0 /\ out = <<>> /\ in = <<>>
          /\ c \in {"awaiting", "failed"}
          /\ l = (IF s = "spare" THEN 1 ELSE 0)
    /\ s \in {"refused", "busy"} =>
          /\ p = 0 /\ out = <<>>
          /\ \/ in = <<Frame("busy")>> /\ c \in {"awaiting", "failed"}
             \/ in = <<>> /\ c \in {"busy", "failed"}
    /\ s \in Live =>
          /\ Chain(out, Cursor(s, x), p)
          /\ x = Chunks <=> s = "finish"
          /\ \/ in = <<Frame("ready")>> /\ p = 0 /\ c \in {"awaiting", "failed"}
             \/ in = <<>> /\ c \in Pumping \cup {"failed", "cancelled"}
    /\ s = "done" =>
          /\ x = Chunks /\ out = <<>>
          /\ \/ in = <<Frame("done")>> /\ c \in Pumping \cup {"failed", "cancelled"}
             \/ in = <<>> /\ c \in {"done", "failed", "cancelled"}
    /\ s \in {"failed", "aborted"} =>
          /\ c \in Pumping \cup {"awaiting", "failed", "cancelled"}
          /\ \A i \in 1 .. Len(in) : in[i].type \in {"ready", "error"}
          /\ \A i \in 1 .. Len(out) : out[i].type = "posted"

\* A call: its state c, whether its reader is there, chunks posted, delivered, published
\* and consumed; the server's task: its stage s, chunks sent and windows held; the wire.
Row(c, there, p, d, u, k, s, x, l, out, in) ==
    /\ p \in 0 .. Chunks /\ x \in 0 .. p /\ d \in 0 .. x /\ u \in 0 .. d /\ k \in 0 .. u
    /\ l \in 0 .. 2
    /\ out \in Seq(ToServerFrames) /\ in \in Seq(ToClientFrames) /\ Len(in) <= 2
    /\ Boundary(p) /\ Boundary(x)
    /\ DivCeil(p - k, Inflight) <= PipelineDepth
    /\ s # "none" => Len(out) <= Windows(p) - Windows(Cursor(s, x))
    /\ c \in {"finish", "done"} => d = Chunks
    /\ u = Chunks => c = "done"
    /\ c = "cancelled" => ~there
    /\ Stages(c, p, s, x, l, out, in)

\* A transfer that was asked for has a lane; what failed at the server took the lane
\* with it, and on a closed lane nobody works.
LaneRow(c, s, out, cl, sl) ==
    /\ (c \in Pumping \cup {"request", "awaiting", "done", "busy", "cancelled"} \/ s # "none" \/ out # <<>>)
          => cl \in {"up", "broken", "failed"}
    /\ s \in {"failed", "aborted"} => sl = "failed"
    /\ sl = "closed" => s \notin Working \cup {"incoming"}

\* Types of the lane, and of what a transfer has.
LaneTypes ==
    /\ limits \in Limits
    /\ clientLane \in {"none", "dialing", "up", "broken", "failed"}
    /\ serverLane \in {"none", "up", "broken", "failed", "closed"}
    /\ sessionSlot \in Transfers \cup {None}
    /\ sticky \in BOOLEAN
    /\ handling \in {"none", "accepting", "joining", "ended"}
    /\ permits \subseteq Transfers
    /\ fault \in BOOLEAN

CallStates == {"new", "dial", "request", "awaiting"} \cup Pumping \cup CallEnds
TaskStates == Working \cup TaskEnds \cup {"incoming"}

TransferTypes ==
    /\ call \in [Transfers -> CallStates]
    /\ reader \subseteq Transfers
    /\ posted \in [Transfers -> Nat]
    /\ delivered \in [Transfers -> Nat]
    /\ published \in [Transfers -> Nat]
    /\ consumed \in [Transfers -> Nat]
    /\ serving \in [Transfers -> TaskStates]
    /\ nextChunk \in [Transfers -> Nat]
    /\ leases \in [Transfers -> Nat]
    /\ toServer \in [Transfers -> Seq(ToServerFrames)]
    /\ toClient \in [Transfers -> Seq(ToClientFrames)]

RowOf(t) == Row(call[t], t \in reader, posted[t], delivered[t], published[t], consumed[t],
                serving[t], nextChunk[t], leases[t], toServer[t], toClient[t])
LaneRowOf(t) == LaneRow(call[t], serving[t], toServer[t], clientLane, serverLane)

Rows == \A t \in Transfers : RowOf(t) /\ LaneRowOf(t)

\* One call makes the session, and a lane closed for idleness has no loop.
SlotInv ==
    /\ \A t \in Transfers : call[t] = "dial" <=> sessionSlot = t
    /\ clientLane = "dialing" <=> sessionSlot # None
    /\ serverLane = "closed" => handling = "ended"

\* The counters are what the transfers make of them.
SessionCounts ==
    /\ native = Cardinality(Between(Transfers, nextChunk, posted))
    /\ FreeWindows >= 0
    /\ Cardinality(permits) <= limits.process

SessionInv == LaneTypes /\ TransferTypes /\ Rows /\ SlotInv /\ SessionCounts /\ LaneKept

-----------------------------------------------------------------------------
(* UrmaSession: the frames under way.                                         *)

\* A further window is the last of the frames.
LEMMA ChainGrows ==
  ASSUME NEW out \in Seq(ToServerFrames), NEW x \in Nat, NEW p \in Nat, p < Chunks, Chain(out, x, p)
  PROVE  Chain(Append(out, Posted(Window(p))), x, After(p))
  <1> DEFINE more == Append(out, Posted(Window(p)))
             n == Len(out)
  <1>1. /\ n \in Nat
        /\ Len(more) = n + 1
        /\ more # <<>>
        /\ \A i \in 1 .. n : more[i] = out[i]
        /\ more[n + 1] = Posted(Window(p))
    OBVIOUS
  <1>2. more[n + 1].window.start = p
    BY <1>1 DEF Posted, Window
  <1>3. After(p) \in Nat /\ p < After(p)
    BY AfterFacts
  <1>4. n # 0 => out[n].window.start + Inflight = p
    <2> SUFFICES ASSUME n # 0 PROVE out[n].window.start + Inflight = p
      OBVIOUS
    <2>1. n \in 1 .. n /\ out # <<>>
      BY <1>1
    <2>2. out[n] = Posted(Window(out[n].window.start))
      BY <2>1 DEF Chain
    <2>3. out[n].window.start \in Nat
      BY <2>1, <2>2 DEF ToServerFrames, Posted
    <2>4. p = After(out[n].window.start) /\ out[n].window.start < p
      BY <2>1 DEF Chain
    <2> QED BY <2>3, <2>4, ShapeFacts DEF After, Smaller
  <1>5. more[1].window.start = x
    <2>1. CASE out = <<>>
      BY <2>1, <1>2 DEF Chain
    <2>2. CASE out # <<>>
      BY <2>2, <1>1 DEF Chain
    <2> QED BY <2>1, <2>2
  <1>6. ASSUME NEW i \in 1 .. n + 1
        PROVE  more[i] = Posted(Window(more[i].window.start)) /\ more[i].window.start < After(p)
    <2>1. CASE i = n + 1
      BY <2>1, <1>1, <1>2, <1>3
    <2>2. CASE i # n + 1
      <3>1. i \in 1 .. n
        BY <2>2, <1>1
      <3>2. out[i] = Posted(Window(out[i].window.start)) /\ out[i].window.start < p
        BY <3>1 DEF Chain
      <3>3. out[i].window.start \in Nat
        BY <3>1, <3>2 DEF ToServerFrames, Posted
      <3> QED BY <3>1, <3>2, <3>3, <1>1, <1>3
    <2> QED BY <2>1, <2>2
  <1>7. ASSUME NEW i \in 1 .. n
        PROVE  more[i + 1].window.start = more[i].window.start + Inflight
    <2>1. CASE i = n
      <3>1. n # 0 /\ more[n] = out[n]
        BY <2>1, <1>1
      <3> QED BY <2>1, <3>1, <1>2, <1>4
    <2>2. CASE i # n
      <3>1. i \in 1 .. n - 1 /\ i + 1 \in 1 .. n
        BY <2>2, <1>1
      <3>2. out[i + 1].window.start = out[i].window.start + Inflight
        BY <3>1 DEF Chain
      <3> QED BY <3>1, <3>2, <1>1
    <2> QED BY <2>1, <2>2
  <1>8. Len(more) - 1 = n
    BY <1>1
  <1> HIDE DEF more, n
  <1>9. Chain(more, x, After(p))
    BY <1>1, <1>2, <1>5, <1>6, <1>7, <1>8 DEF Chain
  <1> QED BY <1>9 DEF more

\* The first frame is that of the window at the cursor; without it the others follow on.
LEMMA ChainShrinks ==
  ASSUME NEW out \in Seq(ToServerFrames), out # <<>>, NEW x \in Nat, NEW p \in 0 .. Chunks, x < Chunks,
         Chain(out, x, p)
  PROVE  /\ Head(out) = Posted(Window(x))
         /\ Chain(Tail(out), After(x), p)
         /\ After(x) <= p
  <1> DEFINE rest == Tail(out)
             n == Len(out)
  <1>1. /\ n \in Nat \ {0}
        /\ rest \in Seq(ToServerFrames)
        /\ Len(rest) = n - 1
        /\ \A i \in 1 .. n - 1 : rest[i] = out[i + 1]
        /\ Head(out) = out[1]
    OBVIOUS
  <1>0. rest = <<>> <=> n = 1
    <2>1. CASE rest = <<>>
      <3>1. Len(rest) = 0
        <4> HIDE DEF rest
        <4> QED BY <2>1, EmptySeq
      <3> QED BY <3>1, <2>1, <1>1
    <2>2. CASE n = 1
      <3>1. Len(rest) = 0
        BY <2>2, <1>1
      <3> QED BY <3>1, <2>2, <1>1, EmptySeq
    <2> QED BY <2>1, <2>2
  <1>2. out[1] = Posted(Window(x)) /\ out[1].window.start = x
    BY <1>1 DEF Chain
  <1>3. CASE n = 1
    <2>1. p = After(x)
      BY <1>2, <1>3 DEF Chain
    <2>2. p \in Nat
      BY ShapeFacts
    <2> HIDE DEF rest, n
    <2> QED BY <1>0, <1>1, <1>2, <1>3, <2>1, <2>2 DEF Chain, rest
  <1>4. CASE n # 1
    <2>1. /\ 1 \in 1 .. n - 1 /\ 2 \in 1 .. n /\ n \in 1 .. n /\ n - 1 \in 1 .. n - 1
      BY <1>1, <1>4
    <2>2. out[2].window.start = x + Inflight /\ out[2].window.start < p
      BY <1>2, <2>1 DEF Chain
    <2>3. After(x) = x + Inflight
      BY <2>2, ShapeFacts DEF After, Smaller
    <2>4. rest[1].window.start = After(x)
      BY <1>1, <2>1, <2>2, <2>3
    <2>5. p = After(rest[n - 1].window.start)
      <3>1. rest[n - 1] = out[n]
        BY <1>1, <2>1
      <3> QED BY <3>1 DEF Chain
    <2>6. ASSUME NEW i \in 1 .. n - 1
          PROVE  rest[i] = Posted(Window(rest[i].window.start)) /\ rest[i].window.start < p
      <3>1. i + 1 \in 1 .. n /\ rest[i] = out[i + 1]
        BY <1>1
      <3> QED BY <3>1 DEF Chain
    <2>7. ASSUME NEW i \in 1 .. n - 1 - 1
          PROVE  rest[i + 1].window.start = rest[i].window.start + Inflight
      <3>1. i \in 1 .. n - 1 /\ i + 1 \in 1 .. n - 1 /\ rest[i] = out[i + 1] /\ rest[i + 1] = out[i + 1 + 1]
        BY <1>1
      <3> QED BY <3>1 DEF Chain
    <2>8. After(x) <= p
      BY <2>2, <2>3, ShapeFacts
    <2> HIDE DEF rest, n
    <2>9. Chain(rest, After(x), p)
      BY <1>0, <1>1, <1>4, <2>4, <2>5, <2>6, <2>7 DEF Chain
    <2> QED BY <1>1, <1>2, <2>8, <2>9 DEF rest
  <1> QED BY <1>3, <1>4

-----------------------------------------------------------------------------
(* UrmaSession: what a step does to the row of its transfer.                  *)

\* Both queues of a transfer hold one frame or more, or none.
LEMMA OneFrame ==
  /\ \A f : Head(<<f>>) = f /\ Tail(<<f>>) = <<>> /\ Len(<<f>>) = 1 /\ <<f>> # <<>> /\ Append(<<>>, f) = <<f>>
  /\ Len(<<>>) = 0
  /\ Frame("request") \in ToServerFrames
  /\ \A y \in {"ready", "busy", "done", "error"} : Frame(y) \in ToClientFrames /\ Frame(y).type = y
  /\ Frame("request").type = "request"
  BY DEF Frame, ToServerFrames, ToClientFrames

\* The call before it has a transfer, and a call that fails.
LEMMA CallRow ==
  ASSUME NEW c, NEW there, NEW p, NEW d, NEW u, NEW k, NEW s, NEW x, NEW l, NEW out, NEW in,
         Row(c, there, p, d, u, k, s, x, l, out, in),
         s \in TaskStates
  PROVE  /\ c \in {"new", "dial", "request"} =>
               /\ s = "none" /\ out = <<>>
               /\ \A c2 \in {"dial", "request", "busy", "failed"} :
                     Row(c2, there, p, d, u, k, s, x, l, out, in)
         /\ c = "request" => Row("awaiting", there, p, d, u, k, s, x, l, Append(out, Frame("request")), in)
         /\ c # "done" => Row("failed", there, p, d, u, k, s, x, l, out, in)
  <1>1. ASSUME c \in {"new", "dial", "request"}
        PROVE  s = "none" /\ out = <<>> /\ p = 0 /\ l = 0 /\ in = <<>>
    BY <1>1 DEF Row, Stages, TaskStates, Working, TaskEnds, Live, Pumping
  <1>2. ASSUME c \in {"new", "dial", "request"}, NEW c2 \in {"dial", "request", "busy", "failed"}
        PROVE  Row(c2, there, p, d, u, k, s, x, l, out, in)
    BY <1>1, <1>2, ShapeFacts DEF Row, Stages, Live
  <1>3. ASSUME c = "request"
        PROVE  Row("awaiting", there, p, d, u, k, s, x, l, Append(out, Frame("request")), in)
    <2>1. Append(out, Frame("request")) = <<Frame("request")>>
      BY <1>1, <1>3, OneFrame
    <2>2. <<Frame("request")>> \in Seq(ToServerFrames)
      BY OneFrame
    <2> QED BY <1>1, <1>3, <2>1, <2>2, ShapeFacts DEF Row, Stages, Live
  <1>4. ASSUME c # "done" PROVE Row("failed", there, p, d, u, k, s, x, l, out, in)
    <2>1. Stages("failed", p, s, x, l, out, in)
      BY <1>4 DEF Row, Stages
    <2> QED BY <1>4, <2>1 DEF Row
  <1> QED BY <1>1, <1>2, <1>3, <1>4

\* The call takes a frame of the server.
LEMMA FrameRow ==
  ASSUME NEW c, NEW there, NEW p, NEW d, NEW u, NEW k, NEW s, NEW x, NEW l, NEW out, NEW in,
         Row(c, there, p, d, u, k, s, x, l, out, in),
         s \in TaskStates, in # <<>>
  PROVE  /\ c = "awaiting" /\ Head(in).type = "ready"
               => Row("fill", there, p, d, u, k, s, x, l, out, Tail(in))
         /\ c = "awaiting" /\ Head(in).type = "busy"
               => Row("busy", there, p, d, u, k, s, x, l, out, Tail(in))
         /\ Head(in).type = "error" => s \in {"failed", "aborted"}
         /\ c = "finish" /\ Head(in).type = "done" =>
               /\ s = "done"
               /\ Row("done", there, p, d, Chunks, k, s, x, l, out, Tail(in))
         /\ c = "finish" /\ Head(in).type # "done" => s \in {"failed", "aborted"}
         /\ c \in {"failed", "cancelled"} => Row(c, there, p, d, u, k, s, x, l, out, Tail(in))
         /\ c \notin {"done", "busy"}
  <1> USE OneFrame
  <1> DEFINE rest == Tail(in)
  <1>1. /\ rest \in Seq(ToClientFrames) /\ Len(rest) = Len(in) - 1 /\ Len(rest) <= 2
        /\ Head(in) = in[1] /\ 1 \in 1 .. Len(in)
        /\ \A i \in 1 .. Len(rest) : rest[i] = in[i + 1] /\ i + 1 \in 1 .. Len(in)
    BY DEF Row
  <1>2. \/ s \in {"refused", "busy"} /\ in = <<Frame("busy")>> /\ c \in {"awaiting", "failed"}
        \/ s \in Live /\ in = <<Frame("ready")>> /\ p = 0 /\ c \in {"awaiting", "failed"}
        \/ s = "done" /\ in = <<Frame("done")>> /\ c \in Pumping \cup {"failed", "cancelled"}
        \/ /\ s \in {"failed", "aborted"}
           /\ c \in Pumping \cup {"awaiting", "failed", "cancelled"}
           /\ \A i \in 1 .. Len(in) : in[i].type \in {"ready", "error"}
           /\ \A i \in 1 .. Len(out) : out[i].type = "posted"
    BY DEF Row, Stages, TaskStates, Working, TaskEnds, Live
  <1> HIDE DEF rest
  <1>3. ASSUME s \in {"failed", "aborted"},
               NEW c2 \in Pumping \cup {"failed", "cancelled"}, c2 \in {"fill", c}
        PROVE  Row(c2, there, p, d, u, k, s, x, l, out, rest)
    <2>1. Stages(c2, p, s, x, l, out, rest)
      BY <1>1, <1>2, <1>3 DEF Stages, Live
    <2> QED BY <1>1, <1>2, <1>3, <2>1 DEF Row, Pumping
  <1>4. ASSUME s \in Live, NEW c2 \in {"fill", "failed"}, c2 \in {"fill", c}
        PROVE  Row(c2, there, p, d, u, k, s, x, l, out, rest)
    <2>1. rest = <<>>
      BY <1>2, <1>4 DEF Live, rest
    <2>2. Stages(c2, p, s, x, l, out, rest)
      BY <1>2, <1>4, <2>1 DEF Row, Stages, Live, Pumping
    <2> QED BY <1>1, <1>2, <1>4, <2>2, ShapeFacts DEF Row, Live
  <1>5. ASSUME s \in {"refused", "busy"}, NEW c2 \in {"busy", "failed"}
        PROVE  Row(c2, there, p, d, u, k, s, x, l, out, rest)
    <2>1. rest = <<>>
      BY <1>2, <1>5 DEF Live, rest
    <2>2. Stages(c2, p, s, x, l, out, rest)
      BY <1>2, <1>5, <2>1 DEF Row, Stages, Live
    <2> QED BY <1>1, <1>2, <1>5, <2>2, ShapeFacts DEF Row, Live
  <1>6. ASSUME s = "done", c \in {"failed", "cancelled"}
        PROVE  Row(c, there, p, d, u, k, s, x, l, out, rest)
    <2>1. rest = <<>>
      BY <1>2, <1>6 DEF Live, rest
    <2>2. Stages(c, p, s, x, l, out, rest)
      BY <1>2, <1>6, <2>1 DEF Row, Stages, Live
    <2> QED BY <1>1, <1>2, <1>6, <2>2 DEF Row, Live
  <1>7. ASSUME s = "done", c = "finish"
        PROVE  Row("done", there, p, d, Chunks, k, s, x, l, out, rest)
    <2>1. rest = <<>>
      BY <1>2, <1>7 DEF Live, rest
    <2>2. Stages("done", p, s, x, l, out, rest)
      BY <1>2, <1>7, <2>1 DEF Row, Stages, Live
    <2>3. d = Chunks /\ Chunks \in 0 .. d /\ k \in 0 .. Chunks
      BY <1>7, ShapeFacts DEF Row
    <2> QED BY <1>1, <1>7, <2>2, <2>3 DEF Row
  <1>8. Head(in).type = "ready" => s \in Live \cup {"failed", "aborted"}
    BY <1>2
  <1>9. Head(in).type = "busy" => s \in {"refused", "busy"}
    BY <1>1, <1>2
  <1>10. Head(in).type = "done" => s = "done"
    BY <1>1, <1>2
  <1>11. Head(in).type = "error" => s \in {"failed", "aborted"}
    BY <1>2
  <1>12. c \notin {"done", "busy"}
    BY <1>2 DEF Pumping
  <1>13. c = "finish" => s \in {"done", "failed", "aborted"}
    BY <1>2
  <1>14. s = "done" => Head(in).type = "done"
    BY <1>2 DEF Live
  <1>15. c \in {"failed", "cancelled"} => Row(c, there, p, d, u, k, s, x, l, out, rest)
    BY <1>2, <1>3, <1>4, <1>5, <1>6 DEF Pumping
  <1>16. c = "awaiting" /\ Head(in).type = "ready" => Row("fill", there, p, d, u, k, s, x, l, out, rest)
    BY <1>3, <1>4, <1>8 DEF Pumping
  <1>17. c = "awaiting" /\ Head(in).type = "busy" => Row("busy", there, p, d, u, k, s, x, l, out, rest)
    BY <1>5, <1>9
  <1>18. c = "finish" /\ Head(in).type = "done" =>
            s = "done" /\ Row("done", there, p, d, Chunks, k, s, x, l, out, rest)
    BY <1>7, <1>10
  <1>19. c = "finish" /\ Head(in).type # "done" => s \in {"failed", "aborted"}
    BY <1>13, <1>14
  <1> QED BY <1>11, <1>12, <1>15, <1>16, <1>17, <1>18, <1>19 DEF rest

\* The client's pump and its reader.
LEMMA PumpRow ==
  ASSUME NEW c, NEW there, NEW p, NEW d, NEW u, NEW k, NEW s, NEW x, NEW l, NEW out, NEW in,
         Row(c, there, p, d, u, k, s, x, l, out, in),
         s \in TaskStates
  PROVE  /\ c = "fill" => Row("wait", there, p, d, u, k, s, x, l, out, in)
         /\ c = "wait" /\ x >= After(d) /\ After(d) = Chunks
               => Row("finish", there, p, After(d), u, k, s, x, l, out, in)
         /\ c = "wait" /\ x >= After(d) /\ After(d) # Chunks =>
               /\ Row("fill", there, p, After(d), u + (After(d) - d), k, s, x, l, out, in)
               /\ ~there => Row("cancelled", there, p, After(d), u, k, s, x, l, out, in)
         /\ Row(c, there, p, d, u, u, s, x, l, out, in)
         /\ c \in Pumping => Row(c, FALSE, p, d, u, u, s, x, l, out, in)
  <1>1. /\ p \in Nat /\ x \in Nat /\ d \in Nat /\ u \in Nat /\ k \in Nat
        /\ x <= p /\ d <= x /\ u <= d /\ k <= u /\ p <= Chunks
    BY ShapeFacts DEF Row
  <1>2. ASSUME c \in Pumping, NEW c2 \in Pumping \cup {"cancelled"} PROVE Stages(c2, p, s, x, l, out, in)
    BY <1>2 DEF Row, Stages, Pumping
  <1>3. ASSUME c = "fill" PROVE Row("wait", there, p, d, u, k, s, x, l, out, in)
    <2>1. Stages("wait", p, s, x, l, out, in)
      BY <1>2, <1>3 DEF Pumping
    <2> QED BY <1>3, <2>1 DEF Row
  <1>4. ASSUME c = "wait", x >= After(d), After(d) = Chunks
        PROVE  Row("finish", there, p, After(d), u, k, s, x, l, out, in)
    <2>1. Stages("finish", p, s, x, l, out, in)
      BY <1>2, <1>4 DEF Pumping
    <2>2. After(d) \in 0 .. x /\ u \in 0 .. After(d)
      BY <1>1, <1>4, ShapeFacts
    <2> QED BY <1>4, <2>1, <2>2 DEF Row
  <1>5. ASSUME c = "wait", x >= After(d), After(d) # Chunks
        PROVE  /\ Row("fill", there, p, After(d), u + (After(d) - d), k, s, x, l, out, in)
               /\ ~there => Row("cancelled", there, p, After(d), u, k, s, x, l, out, in)
    <2>1. Stages("fill", p, s, x, l, out, in) /\ Stages("cancelled", p, s, x, l, out, in)
      BY <1>2, <1>5 DEF Pumping
    <2>2. After(d) \in Nat /\ d <= After(d) /\ After(d) < Chunks
      BY <1>1, <1>5, ShapeFacts DEF After, Smaller
    <2>3. /\ After(d) \in 0 .. x /\ u \in 0 .. After(d) /\ u + (After(d) - d) \in 0 .. After(d)
          /\ k \in 0 .. u + (After(d) - d) /\ u # Chunks /\ u + (After(d) - d) # Chunks
      BY <1>1, <1>5, <2>2
    <2> QED BY <1>5, <2>1, <2>3 DEF Row
  <1>6. /\ u \in 0 .. u
        /\ DivCeil(p - u, Inflight) <= PipelineDepth
    <2>1. p - u \in Nat /\ p - k \in Nat /\ p - u <= p - k
      BY <1>1
    <2>2. DivCeil(p - u, Inflight) <= DivCeil(p - k, Inflight)
      BY <2>1, RoundedMonotone, ShapeFacts
    <2>3. DivCeil(p - u, Inflight) \in Nat /\ DivCeil(p - k, Inflight) \in Nat
      BY <2>1, RoundedUp, ShapeFacts
    <2>4. DivCeil(p - k, Inflight) <= PipelineDepth
      BY DEF Row
    <2> QED BY <1>1, <2>2, <2>3, <2>4, DepthAssumption
  <1>7. Row(c, there, p, d, u, u, s, x, l, out, in)
    BY <1>6 DEF Row
  <1>8. ASSUME c \in Pumping PROVE Row(c, FALSE, p, d, u, u, s, x, l, out, in)
    BY <1>6, <1>8 DEF Row
  <1> QED BY <1>3, <1>4, <1>5, <1>7, <1>8

\* Receives of a further window are posted.
LEMMA PostRow ==
  ASSUME NEW there, NEW p, NEW d, NEW u, NEW k, NEW s, NEW x, NEW l, NEW out, NEW in,
         Row("fill", there, p, d, u, k, s, x, l, out, in),
         s \in TaskStates,
         p < Chunks, DivCeil(p - k, Inflight) < PipelineDepth
  PROVE  /\ Row("fill", there, After(p), d, u, k, s, x, l, Append(out, Posted(Window(p))), in)
         /\ p < After(p) /\ After(p) <= Chunks
  <1> DEFINE more == Append(out, Posted(Window(p)))
  <1>1. /\ p \in Nat /\ x \in Nat /\ k \in Nat /\ x <= p /\ k <= p
        /\ After(p) \in Nat /\ p < After(p) /\ After(p) <= Chunks /\ After(p) <= p + Inflight
    BY ShapeFacts, AfterFacts DEF Row
  <1>2. s \in Live \cup {"failed", "aborted"}
    BY <1>1 DEF Row, Stages, TaskStates, Working, TaskEnds, Live
  <1>3. Posted(Window(p)) \in ToServerFrames
    BY <1>1, ShapeFacts DEF Posted, Window, Smaller, ToServerFrames
  <1>4. /\ out \in Seq(ToServerFrames) /\ Len(out) \in Nat
        /\ more \in Seq(ToServerFrames) /\ Len(more) = Len(out) + 1
        /\ \A i \in 1 .. Len(more) : (i \in 1 .. Len(out) /\ more[i] = out[i]) \/ more[i] = Posted(Window(p))
    BY <1>3 DEF Row
  <1>5. Boundary(After(p)) /\ Windows(After(p)) = Windows(p) + 1
    BY <1>1, NextWindow DEF Row
  <1>6. Len(more) <= Windows(After(p)) - Windows(Cursor(s, x))
    <2>1. Windows(p) \in Nat
      BY <1>1, WindowsMonotone
    <2>2. Cursor(s, x) \in Nat
      <3>1. x # Chunks => After(x) \in Nat
        BY <1>1, AfterFacts, ShapeFacts
      <3>2. s \in {"permit", "sending"} => x # Chunks
        BY DEF Row, Stages, Live
      <3> QED BY <1>1, <3>1, <3>2 DEF Cursor
    <2>3. Windows(Cursor(s, x)) \in Nat
      BY <2>2, WindowsMonotone
    <2>4. Len(out) <= Windows(p) - Windows(Cursor(s, x))
      BY <1>2 DEF Row, Live
    <2> QED BY <1>4, <1>5, <2>1, <2>3, <2>4
  <1>7. DivCeil(After(p) - k, Inflight) <= PipelineDepth
    <2>1. p - k \in Nat /\ After(p) - p \in Nat /\ After(p) - p <= Inflight /\ After(p) - k = (p - k) + (After(p) - p)
          /\ After(p) - k \in Nat
      BY <1>1, ShapeFacts
    <2>2. DivCeil((p - k) + (After(p) - p), Inflight) <= DivCeil(p - k, Inflight) + 1
      BY <2>1, RoundedStep, ShapeFacts
    <2>3. DivCeil(p - k, Inflight) \in Nat /\ DivCeil(After(p) - k, Inflight) \in Nat
      BY <2>1, RoundedUp, ShapeFacts
    <2> QED BY <2>1, <2>2, <2>3, DepthAssumption
  <1>8. Stages("fill", After(p), s, x, l, more, in)
    <2>1. CASE s \in Live
      <3>1. Chain(out, Cursor(s, x), p) /\ (x = Chunks <=> s = "finish") /\ in = <<>>
        BY <2>1 DEF Row, Stages, Pumping
      <3>2. Cursor(s, x) \in Nat
        BY <1>1, <3>1, AfterFacts, ShapeFacts DEF Cursor
      <3>3. Chain(more, Cursor(s, x), After(p))
        BY <1>1, <1>4, <3>1, <3>2, ChainGrows
      <3> HIDE DEF more
      <3> QED BY <2>1, <3>1, <3>3 DEF Stages, Live, Pumping
    <2>2. CASE s \in {"failed", "aborted"}
      <3>1. /\ \A i \in 1 .. Len(in) : in[i].type \in {"ready", "error"}
            /\ \A i \in 1 .. Len(out) : out[i].type = "posted"
        BY <2>2 DEF Row, Stages
      <3>2. \A i \in 1 .. Len(more) : more[i].type = "posted"
        BY <3>1, <1>4 DEF Posted
      <3> HIDE DEF more
      <3> QED BY <2>2, <3>1, <3>2 DEF Stages, Live, Pumping
    <2> QED BY <1>2, <2>1, <2>2
  <1>9. After(p) \in 0 .. Chunks /\ x \in 0 .. After(p)
    BY <1>1, ShapeFacts
  <1> HIDE DEF more
  <1>10. Row("fill", there, After(p), d, u, k, s, x, l, more, in)
    BY <1>4, <1>5, <1>6, <1>7, <1>8, <1>9 DEF Row
  <1> QED BY <1>1, <1>10 DEF more

\* The server's task up to the first frame of the client.
LEMMA AdmitRow ==
  ASSUME NEW c, NEW there, NEW p, NEW d, NEW u, NEW k, NEW s, NEW x, NEW l, NEW out, NEW in,
         Row(c, there, p, d, u, k, s, x, l, out, in),
         s \in TaskStates
  PROVE  /\ out # <<>> /\ Head(out).type = "request" =>
               /\ s = "none"
               /\ Row(c, there, p, d, u, k, "incoming", x, l, Tail(out), in)
               /\ Row(c, there, p, d, u, k, "refused", x, l, Tail(out), Append(in, Frame("busy")))
         /\ s = "incoming" => Row(c, there, p, d, u, k, "admission", x, l, out, in)
         /\ s = "admission" => Row(c, there, p, d, u, k, "tx", x, l, out, in)
         /\ s = "tx" => l = 0 /\ Row(c, there, p, d, u, k, "spare", x, 1, out, in)
         /\ s \in {"admission", "tx"} =>
               Row(c, there, p, d, u, k, "busy", x, 0, out, Append(in, Frame("busy"))) /\ l = 0
         /\ s = "spare" => l = 1 /\ \A l2 \in {1, 2} :
               Row(c, there, p, d, u, k, "credit", x, l2, out, Append(in, Frame("ready")))
         /\ out # <<>> /\ Head(out).type = "posted" /\ s \in TaskEnds => s \in {"failed", "aborted"}
  <1> USE OneFrame
  <1>1. s \in {"none", "incoming", "admission", "tx", "spare"} =>
           /\ p = 0 /\ x = 0 /\ in = <<>> /\ Boundary(0)
           /\ Windows(0) \in Nat
           /\ s # "none" => out = <<>>
           /\ s # "spare" => l = 0
           /\ s = "spare" => l = 1
    <2>1. Windows(0) \in Nat
      BY WindowsMonotone
    <2> QED BY <2>1 DEF Row, Stages
  <1>2. ASSUME s \in {"none", "incoming", "admission", "tx", "spare"}, c \in {"awaiting", "failed"},
               NEW s2 \in {"incoming", "admission", "tx", "spare", "refused", "busy", "credit"},
               NEW l2 \in 0 .. 2, NEW in2 \in {<<>>, <<Frame("busy")>>, <<Frame("ready")>>},
               Stages(c, 0, s2, 0, l2, <<>>, in2)
        PROVE  Row(c, there, p, d, u, k, s2, x, l2, <<>>, in2)
    <2>1. in2 \in Seq(ToClientFrames) /\ Len(in2) <= 2 /\ <<>> \in Seq(ToServerFrames)
      <3>1. CASE in2 = <<>>
        BY <3>1
      <3>2. CASE in2 = <<Frame("busy")>>
        BY <3>2
      <3>3. CASE in2 = <<Frame("ready")>>
        BY <3>3
      <3> QED BY <1>2, <3>1, <3>2, <3>3
    <2>2. Cursor(s2, x) = 0
      BY <1>1, <1>2 DEF Cursor
    <2>3. Len(<<>>) <= Windows(0) - Windows(0)
      BY <1>1, <1>2
    <2> QED BY <1>1, <1>2, <2>1, <2>2, <2>3 DEF Row
  <1>3. s \in {"incoming", "admission", "tx", "spare"} => c \in {"awaiting", "failed"}
    BY DEF Row, Stages
  <1>4. \A s2 \in {"incoming", "admission", "tx"} : c \in {"awaiting", "failed"} => Stages(c, 0, s2, 0, 0, <<>>, <<>>)
    BY DEF Stages, Live
  <1>5. c \in {"awaiting", "failed"} => Stages(c, 0, "spare", 0, 1, <<>>, <<>>)
    BY DEF Stages, Live
  <1>6. \A s2 \in {"refused", "busy"} :
            c \in {"awaiting", "failed"} => Stages(c, 0, s2, 0, 0, <<>>, <<Frame("busy")>>)
    BY DEF Stages, Live
  <1>7. \A l2 \in {1, 2} : c \in {"awaiting", "failed"} => Stages(c, 0, "credit", 0, l2, <<>>, <<Frame("ready")>>)
    <2>1. Chain(<<>>, 0, 0)
      BY DEF Chain
    <2>2. Cursor("credit", 0) = 0 /\ Chunks # 0
      BY ShapeFacts DEF Cursor
    <2> QED BY <2>1, <2>2 DEF Stages, Live
  <1>8. out # <<>> /\ Head(out).type = "request" => s = "none" /\ out = <<Frame("request")>> /\ c \in {"awaiting", "failed"}
    <2> SUFFICES ASSUME out # <<>>, Head(out).type = "request"
                 PROVE  s = "none" /\ out = <<Frame("request")>> /\ c \in {"awaiting", "failed"}
      OBVIOUS
    <2>1. Len(out) \in Nat \ {0} /\ Head(out) = out[1] /\ 1 \in 1 .. Len(out)
      BY DEF Row
    <2>2. ASSUME s \in Live PROVE FALSE
      <3>1. out[1] = Posted(Window(out[1].window.start))
        BY <2>1, <2>2 DEF Row, Stages, Chain
      <3>2. out[1].type = "posted"
        BY <3>1 DEF Posted
      <3> QED BY <3>2, <2>1
    <2>3. s \notin {"failed", "aborted"}
      BY <2>1 DEF Row, Stages
    <2> QED BY <2>2, <2>3 DEF Row, Stages, TaskStates, Working, TaskEnds, Live
  <1>9. out # <<>> /\ Head(out).type = "posted" /\ s \in TaskEnds => s \in {"failed", "aborted"}
    BY DEF Row, Stages, TaskEnds
  <1>10. Tail(<<Frame("request")>>) = <<>>
    OBVIOUS
  <1>11. /\ out # <<>> /\ Head(out).type = "request" =>
               /\ s = "none"
               /\ Row(c, there, p, d, u, k, "incoming", x, l, Tail(out), in)
               /\ Row(c, there, p, d, u, k, "refused", x, l, Tail(out), Append(in, Frame("busy")))
    <2> SUFFICES ASSUME out # <<>>, Head(out).type = "request"
                 PROVE  /\ Row(c, there, p, d, u, k, "incoming", x, 0, <<>>, <<>>)
                        /\ Row(c, there, p, d, u, k, "refused", x, 0, <<>>, <<Frame("busy")>>)
      BY <1>1, <1>8, <1>10
    <2> QED BY <1>2, <1>4, <1>6, <1>8
  <1>12. s = "incoming" => Row(c, there, p, d, u, k, "admission", x, l, out, in)
    BY <1>1, <1>2, <1>3, <1>4
  <1>13. s = "admission" => Row(c, there, p, d, u, k, "tx", x, l, out, in)
    BY <1>1, <1>2, <1>3, <1>4
  <1>14. s = "tx" => l = 0 /\ Row(c, there, p, d, u, k, "spare", x, 1, out, in)
    BY <1>1, <1>2, <1>3, <1>5
  <1>15. s \in {"admission", "tx"} =>
            Row(c, there, p, d, u, k, "busy", x, 0, out, Append(in, Frame("busy"))) /\ l = 0
    <2> SUFFICES ASSUME s \in {"admission", "tx"}
                 PROVE  Row(c, there, p, d, u, k, "busy", x, 0, <<>>, <<Frame("busy")>>)
      BY <1>1
    <2> QED BY <1>2, <1>3, <1>6
  <1>16. s = "spare" => l = 1 /\ \A l2 \in {1, 2} :
            Row(c, there, p, d, u, k, "credit", x, l2, out, Append(in, Frame("ready")))
    <2> SUFFICES ASSUME s = "spare", NEW l2 \in {1, 2}
                 PROVE  Row(c, there, p, d, u, k, "credit", x, l2, <<>>, <<Frame("ready")>>)
      BY <1>1
    <2> QED BY <1>2, <1>3, <1>7
  <1> QED BY <1>9, <1>11, <1>12, <1>13, <1>14, <1>15, <1>16

\* A request, and no frame of a window, is read by a task that does not exist yet.
LEMMA RequestRow ==
  ASSUME NEW c, NEW there, NEW p, NEW d, NEW u, NEW k, NEW s, NEW x, NEW l, NEW out, NEW in,
         Row(c, there, p, d, u, k, s, x, l, out, in), s \in TaskStates,
         out # <<>>, Head(out).type = "request"
  PROVE  /\ s = "none"
         /\ Row(c, there, p, d, u, k, "incoming", x, l, Tail(out), in)
         /\ Row(c, there, p, d, u, k, "refused", x, l, Tail(out), Append(in, Frame("busy")))
  BY AdmitRow

\* A task without a permit or a window of the server answers busy.
LEMMA BusyRow ==
  ASSUME NEW c, NEW there, NEW p, NEW d, NEW u, NEW k, NEW s, NEW x, NEW l, NEW out, NEW in,
         Row(c, there, p, d, u, k, s, x, l, out, in), s \in TaskStates, s \in {"admission", "tx"}
  PROVE  Row(c, there, p, d, u, k, "busy", x, 0, out, Append(in, Frame("busy"))) /\ l = 0
  BY AdmitRow

\* A task with its first window is ready, with a second one or without.
LEMMA ReadyRow ==
  ASSUME NEW c, NEW there, NEW p, NEW d, NEW u, NEW k, NEW s, NEW x, NEW l, NEW out, NEW in,
         Row(c, there, p, d, u, k, s, x, l, out, in), s \in TaskStates, s = "spare"
  PROVE  l = 1 /\ \A l2 \in {1, 2} : Row(c, there, p, d, u, k, "credit", x, l2, out, Append(in, Frame("ready")))
  BY AdmitRow

\* A window is announced to a task that has ended only where the task failed.
LEMMA LateRow ==
  ASSUME NEW c, NEW there, NEW p, NEW d, NEW u, NEW k, NEW s, NEW x, NEW l, NEW out, NEW in,
         Row(c, there, p, d, u, k, s, x, l, out, in), s \in TaskStates,
         out # <<>>, Head(out).type = "posted", s \in TaskEnds
  PROVE  s \in {"failed", "aborted"}
  BY AdmitRow

\* The server's task from one window to the next, and to Done.
LEMMA SendRow ==
  ASSUME NEW c, NEW there, NEW p, NEW d, NEW u, NEW k, NEW s, NEW x, NEW l, NEW out, NEW in,
         Row(c, there, p, d, u, k, s, x, l, out, in)
  PROVE  /\ s = "credit" /\ out # <<>> =>
               /\ x < Chunks
               /\ Head(out) = Posted(Window(x))
               /\ Row(c, there, p, d, u, k, "permit", x, l, Tail(out), in)
         /\ s = "permit" => Row(c, there, p, d, u, k, "sending", x, l, out, in)
         /\ s = "sending" =>
               /\ x < After(x) /\ After(x) <= p
               /\ After(x) = Chunks => Row(c, there, p, d, u, k, "finish", After(x), 0, out, in)
               /\ \A l2 \in 0 .. 2 :
                     After(x) # Chunks => Row(c, there, p, d, u, k, "credit", After(x), l2, out, in)
         /\ s = "finish" => Row(c, there, p, d, u, k, "done", x, l, out, Append(in, Frame("done")))
  <1> USE OneFrame
  <1>1. /\ p \in Nat /\ x \in Nat /\ x <= p /\ p <= Chunks
        /\ p \in 0 .. Chunks /\ out \in Seq(ToServerFrames)
    BY ShapeFacts DEF Row
  <1>2. s \in Live =>
          /\ Chain(out, Cursor(s, x), p)
          /\ x = Chunks <=> s = "finish"
          /\ \/ in = <<Frame("ready")>> /\ p = 0 /\ c \in {"awaiting", "failed"}
             \/ in = <<>> /\ c \in Pumping \cup {"failed", "cancelled"}
          /\ Len(out) <= Windows(p) - Windows(Cursor(s, x))
    BY DEF Row, Stages, Live
  <1>3. s \in Live /\ s # "finish" =>
          /\ x < Chunks /\ After(x) \in Nat /\ x < After(x)
          /\ Boundary(After(x)) /\ Windows(After(x)) = Windows(x) + 1
          /\ Windows(x) \in Nat /\ Windows(p) \in Nat
    <2> SUFFICES ASSUME s \in Live, s # "finish"
                 PROVE  /\ x < Chunks /\ After(x) \in Nat /\ x < After(x)
                        /\ Boundary(After(x)) /\ Windows(After(x)) = Windows(x) + 1
                        /\ Windows(x) \in Nat /\ Windows(p) \in Nat
      OBVIOUS
    <2>1. x < Chunks
      BY <1>1, <1>2, ShapeFacts
    <2>2. Boundary(x)
      BY DEF Row
    <2> QED BY <1>1, <2>1, <2>2, AfterFacts, NextWindow, WindowsMonotone
  <1>4. s = "credit" /\ out # <<>> =>
           /\ x < Chunks
           /\ Head(out) = Posted(Window(x))
           /\ Row(c, there, p, d, u, k, "permit", x, l, Tail(out), in)
    <2> SUFFICES ASSUME s = "credit", out # <<>>
                 PROVE  /\ Head(out) = Posted(Window(x))
                        /\ Row(c, there, p, d, u, k, "permit", x, l, Tail(out), in)
      BY <1>3 DEF Live
    <2>1. Cursor("credit", x) = x /\ Cursor("permit", x) = After(x)
      BY DEF Cursor
    <2>2. Head(out) = Posted(Window(x)) /\ Chain(Tail(out), After(x), p) /\ After(x) <= p
      BY <1>1, <1>2, <1>3, <2>1, ChainShrinks DEF Live
    <2>3. Tail(out) \in Seq(ToServerFrames) /\ Len(Tail(out)) = Len(out) - 1 /\ Len(out) \in Nat
      BY <1>1
    <2>4. Len(Tail(out)) <= Windows(p) - Windows(After(x))
      BY <1>2, <1>3, <2>1, <2>3 DEF Live
    <2>5. Stages(c, p, "permit", x, l, Tail(out), in)
      BY <1>2, <1>3, <2>1, <2>2, ShapeFacts DEF Stages, Live
    <2> QED BY <2>1, <2>2, <2>3, <2>4, <2>5 DEF Row
  <1>5. s = "permit" => Row(c, there, p, d, u, k, "sending", x, l, out, in)
    <2> SUFFICES ASSUME s = "permit" PROVE Row(c, there, p, d, u, k, "sending", x, l, out, in)
      OBVIOUS
    <2>1. Cursor("sending", x) = Cursor("permit", x)
      BY DEF Cursor
    <2>2. Stages(c, p, "sending", x, l, out, in)
      BY <1>2, <1>3, <2>1 DEF Stages, Live
    <2> QED BY <2>1, <2>2 DEF Row
  <1>6. s = "sending" => x < After(x) /\ After(x) <= p
    <2> SUFFICES ASSUME s = "sending" PROVE After(x) <= p
      BY <1>3 DEF Live
    <2>1. Chain(out, After(x), p)
      BY <1>2 DEF Cursor, Live
    <2>2. CASE out = <<>>
      BY <1>1, <2>1, <2>2 DEF Chain
    <2>3. CASE out # <<>>
      <3>1. 1 \in 1 .. Len(out)
        BY <1>1, <2>3
      <3>2. out[1].window.start = After(x) /\ out[1].window.start < p
        BY <2>1, <2>3, <3>1 DEF Chain
      <3> QED BY <3>2, <1>1, <1>3 DEF Live
    <2> QED BY <2>2, <2>3
  <1>7. ASSUME s = "sending", NEW s2 \in {"credit", "finish"}, s2 = "finish" <=> After(x) = Chunks, NEW l2 \in 0 .. 2
        PROVE  Row(c, there, p, d, u, k, s2, After(x), l2, out, in)
    <2>1. Cursor(s2, After(x)) = After(x) /\ Cursor("sending", x) = After(x)
      BY <1>7 DEF Cursor
    <2>2. p # 0 /\ in = <<>> /\ c \in Pumping \cup {"failed", "cancelled"}
      BY <1>1, <1>2, <1>3, <1>6, <1>7 DEF Live
    <2>3. Stages(c, p, s2, After(x), l2, out, in)
      BY <1>2, <1>7, <2>1, <2>2 DEF Stages, Live
    <2>4. After(x) \in 0 .. p /\ d \in 0 .. After(x)
      BY <1>1, <1>3, <1>6, <1>7 DEF Row, Live
    <2>5. Len(out) <= Windows(p) - Windows(Cursor(s2, After(x)))
      BY <1>2, <1>7, <2>1 DEF Live
    <2>6. Boundary(After(x))
      BY <1>3, <1>7 DEF Live
    <2> QED BY <1>7, <2>3, <2>4, <2>5, <2>6 DEF Row
  <1>8. s = "finish" => Row(c, there, p, d, u, k, "done", x, l, out, Append(in, Frame("done")))
    <2> SUFFICES ASSUME s = "finish"
                 PROVE  Row(c, there, p, d, u, k, "done", x, l, out, Append(in, Frame("done")))
      OBVIOUS
    <2>1. x = Chunks /\ p = Chunks /\ p # 0 /\ Cursor("finish", x) = x /\ Cursor("done", x) = x
      BY <1>1, <1>2, ShapeFacts DEF Live, Cursor
    <2>2. out = <<>>
      <3> SUFFICES ASSUME out # <<>> PROVE FALSE
        OBVIOUS
      <3>1. 1 \in 1 .. Len(out)
        BY <1>1
      <3>2. out[1].window.start = x /\ out[1].window.start < p
        BY <1>2, <2>1, <3>1 DEF Chain, Live
      <3> QED BY <3>2, <2>1, <1>1
    <2>3. in = <<>> /\ c \in Pumping \cup {"failed", "cancelled"}
      BY <1>2, <2>1 DEF Live
    <2>4. Append(in, Frame("done")) = <<Frame("done")>> /\ <<Frame("done")>> \in Seq(ToClientFrames)
      BY <2>3
    <2>5. Stages(c, p, "done", x, l, out, <<Frame("done")>>)
      BY <2>1, <2>2, <2>3 DEF Stages, Live
    <2>6. Len(out) <= Windows(p) - Windows(Cursor("done", x))
      BY <1>2, <2>1 DEF Live
    <2>7. Row(c, there, p, d, u, k, "done", x, l, out, <<Frame("done")>>)
      BY <2>4, <2>5, <2>6 DEF Row
    <2> QED BY <2>4, <2>7
  <1> QED BY <1>4, <1>5, <1>6, <1>7, <1>8

\* An error frame follows what is under way.
LEMMA FrameAppended ==
  ASSUME NEW in \in Seq(ToClientFrames), NEW f \in ToClientFrames
  PROVE  /\ Append(in, f) \in Seq(ToClientFrames)
         /\ Len(Append(in, f)) = Len(in) + 1
         /\ \A i \in 1 .. Len(in) + 1 : (i \in 1 .. Len(in) /\ Append(in, f)[i] = in[i]) \/ Append(in, f)[i] = f
  OBVIOUS

\* The server's task fails or is aborted, and afterwards.
LEMMA EndRow ==
  ASSUME NEW c, NEW there, NEW p, NEW d, NEW u, NEW k, NEW s, NEW x, NEW l, NEW out, NEW in,
         Row(c, there, p, d, u, k, s, x, l, out, in)
  PROVE  /\ s \in Working \cup {"incoming"} => \A s2 \in {"failed", "aborted"} :
               /\ Row(c, there, p, d, u, k, s2, x, 0, out, in)
               /\ Row(c, there, p, d, u, k, s2, x, 0, out, Append(in, Frame("error")))
         /\ s \in TaskEnds => Row(c, there, p, d, u, k, s, x, 0, out, in)
         /\ s \in {"failed", "aborted"} /\ out # <<>> => Row(c, there, p, d, u, k, s, x, l, Tail(out), in)
  <1> USE OneFrame
  <1>1. /\ p \in Nat /\ x \in Nat /\ x <= p /\ p <= Chunks
        /\ out \in Seq(ToServerFrames) /\ Len(out) \in Nat
    BY ShapeFacts DEF Row
  <1>2. ASSUME s \in Working \cup {"incoming"}, NEW s2 \in {"failed", "aborted"}
        PROVE  /\ Row(c, there, p, d, u, k, s2, x, 0, out, in)
               /\ Row(c, there, p, d, u, k, s2, x, 0, out, Append(in, Frame("error")))
    <2>1. in \in {<<>>, <<Frame("ready")>>} /\ c \in Pumping \cup {"awaiting", "failed", "cancelled"}
      BY <1>2 DEF Row, Stages, Working, Live
    <2>2. \A i \in 1 .. Len(out) : out[i].type = "posted"
      <3>1. CASE s \in Live
        <4> SUFFICES ASSUME NEW i \in 1 .. Len(out) PROVE out[i].type = "posted"
          OBVIOUS
        <4>1. out[i] = Posted(Window(out[i].window.start))
          BY <3>1 DEF Row, Stages, Chain
        <4> QED BY <4>1 DEF Posted
      <3>2. CASE s \notin Live
        <4>1. out = <<>>
          BY <1>2, <3>2 DEF Row, Stages, Working, Live
        <4> QED BY <4>1
      <3> QED BY <3>1, <3>2
    <2>3. Cursor(s2, x) = x
      BY <1>2 DEF Cursor
    <2>4. Len(out) <= Windows(p) - Windows(x)
      <3>1. Len(out) <= Windows(p) - Windows(Cursor(s, x))
        BY <1>2 DEF Row, Working
      <3>2. CASE s \in {"permit", "sending"}
        <4>1. x < Chunks
          BY <1>1, <3>2, ShapeFacts DEF Row, Stages, Live
        <4>2. After(x) \in Nat /\ x <= After(x)
          BY <1>1, <4>1, AfterFacts
        <4>3. /\ Windows(x) \in Nat /\ Windows(After(x)) \in Nat /\ Windows(x) <= Windows(After(x))
              /\ Windows(p) \in Nat
          BY <1>1, <4>2, WindowsMonotone
        <4> QED BY <1>1, <3>1, <3>2, <4>3 DEF Cursor
      <3>3. CASE s \notin {"permit", "sending"}
        BY <3>1, <3>3 DEF Cursor
      <3> QED BY <3>2, <3>3
    <2> DEFINE in2 == Append(in, Frame("error"))
    <2>5. /\ in \in Seq(ToClientFrames) /\ Len(in) <= 2
          /\ \A i \in 1 .. Len(in) : in[i].type \in {"ready", "error"}
          /\ in2 \in Seq(ToClientFrames) /\ Len(in2) <= 2
          /\ \A i \in 1 .. Len(in2) : in2[i].type \in {"ready", "error"}
      <3>1. CASE in = <<>>
        BY <3>1
      <3>2. CASE in = <<Frame("ready")>>
        <4>1. in \in Seq(ToClientFrames) /\ Len(in) = 1 /\ in[1].type = "ready"
          BY <3>2
        <4>2. /\ in2 \in Seq(ToClientFrames) /\ Len(in2) = Len(in) + 1
              /\ \A i \in 1 .. Len(in) + 1 : (i \in 1 .. Len(in) /\ in2[i] = in[i]) \/ in2[i] = Frame("error")
          BY <4>1, FrameAppended, OneFrame
        <4>3. \A i \in 1 .. Len(in) : in[i].type = "ready"
          BY <4>1
        <4> HIDE DEF in2
        <4> QED BY <4>1, <4>2, <4>3
      <3> QED BY <2>1, <3>1, <3>2
    <2> HIDE DEF in2
    <2>6. Stages(c, p, s2, x, 0, out, in) /\ Stages(c, p, s2, x, 0, out, in2)
      BY <1>2, <2>1, <2>2, <2>5 DEF Stages, Live
    <2>7. Row(c, there, p, d, u, k, s2, x, 0, out, in) /\ Row(c, there, p, d, u, k, s2, x, 0, out, in2)
      BY <2>3, <2>4, <2>5, <2>6 DEF Row
    <2> QED BY <2>7 DEF in2
  <1>3. ASSUME s \in TaskEnds PROVE Row(c, there, p, d, u, k, s, x, 0, out, in)
    BY <1>3 DEF Row, Stages, TaskEnds, Live
  <1>4. ASSUME s \in {"failed", "aborted"}, out # <<>>
        PROVE  Row(c, there, p, d, u, k, s, x, l, Tail(out), in)
    <2> DEFINE rest == Tail(out)
    <2>1. /\ rest \in Seq(ToServerFrames) /\ Len(rest) = Len(out) - 1
          /\ \A i \in 1 .. Len(rest) : rest[i] = out[i + 1] /\ i + 1 \in 1 .. Len(out)
      BY <1>1, <1>4
    <2> HIDE DEF rest
    <2>2. Stages(c, p, s, x, l, rest, in)
      BY ZenonT(60), <1>4, <2>1 DEF Row, Stages, Live
    <2>3. Len(rest) <= Windows(p) - Windows(Cursor(s, x))
      <3>1. Cursor(s, x) = x /\ Windows(x) \in Nat /\ Windows(p) \in Nat
        BY <1>1, <1>4, WindowsMonotone DEF Cursor
      <3>2. Len(out) <= Windows(p) - Windows(Cursor(s, x))
        BY <1>4 DEF Row
      <3> QED BY <1>1, <2>1, <3>1, <3>2
    <2>4. Row(c, there, p, d, u, k, s, x, l, rest, in)
      BY <2>1, <2>2, <2>3 DEF Row
    <2> QED BY <2>4 DEF rest
  <1> QED BY <1>2, <1>3, <1>4

-----------------------------------------------------------------------------
(* UrmaSession: a step of one transfer keeps the invariant.                   *)

\* What one transfer becomes; the others stay as they are.
Becomes(t, c, p, d, u, k, s, x, l, out, in) ==
    /\ call' = [call EXCEPT ![t] = c]
    /\ posted' = [posted EXCEPT ![t] = p]
    /\ delivered' = [delivered EXCEPT ![t] = d]
    /\ published' = [published EXCEPT ![t] = u]
    /\ consumed' = [consumed EXCEPT ![t] = k]
    /\ serving' = [serving EXCEPT ![t] = s]
    /\ nextChunk' = [nextChunk EXCEPT ![t] = x]
    /\ leases' = [leases EXCEPT ![t] = l]
    /\ toServer' = [toServer EXCEPT ![t] = out]
    /\ toClient' = [toClient EXCEPT ![t] = in]

\* Why a lane may be down.
Excused ==
    \/ fault \/ reader # Transfers
    \/ clientLane \in {"broken", "failed"} \/ serverLane \in {"broken", "failed", "closed"}

\* The lane as a transfer finds it, or brought down with an excuse.
LaneMoves ==
    /\ UNCHANGED <<limits, sessionSlot, handling>>
    /\ sticky' \in BOOLEAN /\ fault' \in BOOLEAN
    /\ fault => fault'
    /\ \/ clientLane' = clientLane
       \/ clientLane \in {"up", "broken", "failed"} /\ clientLane' \in {"broken", "failed"}
    /\ \/ serverLane' = serverLane
       \/ /\ serverLane # "closed" /\ serverLane' \in {"broken", "failed"}
          /\ serverLane = "failed" => serverLane' = "failed"
    /\ UNCHANGED <<clientLane, serverLane>> \/ fault' \/ Excused

\* The counters follow what the transfer becomes.
CountsMove(t, p, x, l) ==
    /\ native' = native - (posted[t] - nextChunk[t]) + (p - x)
    /\ l <= leases[t] \/ (l = leases[t] + 1 /\ FreeWindows > 0)
    /\ \/ permits' \in {permits, permits \ {t}}
       \/ permits' = permits \cup {t} /\ Cardinality(permits) < limits.process

\* A row has its types.
LEMMA RowTypes ==
  ASSUME NEW c, NEW there, NEW p, NEW d, NEW u, NEW k, NEW s, NEW x, NEW l, NEW out, NEW in,
         Row(c, there, p, d, u, k, s, x, l, out, in)
  PROVE  /\ p \in Nat /\ d \in Nat /\ u \in Nat /\ k \in Nat /\ x \in Nat /\ l \in Nat
         /\ x <= p /\ p <= Chunks /\ l <= 2
         /\ out \in Seq(ToServerFrames) /\ in \in Seq(ToClientFrames)
  BY ShapeFacts DEF Row

\* What a transfer needs of its lane survives what may happen to the lane.
LEMMA LaneRowKept ==
  ASSUME NEW c, NEW s, NEW out, NEW cl, NEW sl, NEW cl2, NEW sl2,
         LaneRow(c, s, out, cl, sl),
         cl \in {"up", "broken", "failed"} => cl2 \in {"up", "broken", "failed"},
         sl = "failed" => sl2 = "failed",
         sl2 = "closed" => sl = "closed"
  PROVE  LaneRow(c, s, out, cl2, sl2)
  BY DEF LaneRow

\* The rows, when a transfer becomes what it may and no lane is lost to the others.
LEMMA RowsStep ==
  ASSUME SessionInv, NEW t \in Transfers,
         NEW c \in CallStates, NEW p, NEW d, NEW u, NEW k, NEW s \in TaskStates, NEW x, NEW l, NEW out, NEW in,
         Becomes(t, c, p, d, u, k, s, x, l, out, in),
         reader' \in {reader, reader \ {t}},
         Row(c, t \in reader', p, d, u, k, s, x, l, out, in),
         LaneRow(c, s, out, clientLane', serverLane'),
         clientLane \in {"up", "broken", "failed"} => clientLane' \in {"up", "broken", "failed"},
         serverLane = "failed" => serverLane' = "failed",
         serverLane' = "closed" => serverLane = "closed",
         limits' = limits, CountsMove(t, p, x, l)
  PROVE  TransferTypes' /\ Rows' /\ SessionCounts'
  <1> USE DEF SessionInv
  <1>1. /\ p \in Nat /\ d \in Nat /\ u \in Nat /\ k \in Nat /\ x \in Nat /\ l \in Nat
        /\ x <= p /\ p <= Chunks /\ l <= 2
        /\ out \in Seq(ToServerFrames) /\ in \in Seq(ToClientFrames)
    BY RowTypes
  <1>2. TransferTypes'
    BY <1>1 DEF TransferTypes, Becomes
  <1>3. Rows'
    <2> SUFFICES ASSUME NEW v \in Transfers PROVE RowOf(v)' /\ LaneRowOf(v)'
      BY DEF Rows
    <2>1. CASE v = t
      <3>1. /\ call'[v] = c /\ posted'[v] = p /\ delivered'[v] = d /\ published'[v] = u /\ consumed'[v] = k
            /\ serving'[v] = s /\ nextChunk'[v] = x /\ leases'[v] = l /\ toServer'[v] = out /\ toClient'[v] = in
        BY <2>1 DEF TransferTypes, Becomes
      <3> QED BY <2>1, <3>1 DEF RowOf, LaneRowOf
    <2>2. CASE v # t
      <3>1. /\ call'[v] = call[v] /\ posted'[v] = posted[v] /\ delivered'[v] = delivered[v]
            /\ published'[v] = published[v] /\ consumed'[v] = consumed[v]
            /\ serving'[v] = serving[v] /\ nextChunk'[v] = nextChunk[v] /\ leases'[v] = leases[v]
            /\ toServer'[v] = toServer[v] /\ toClient'[v] = toClient[v]
        BY <2>2 DEF TransferTypes, Becomes
      <3>2. (v \in reader') = (v \in reader)
        BY <2>2
      <3>3. RowOf(v) /\ LaneRowOf(v)
        BY DEF Rows
      <3>4. RowOf(v)'
        BY <3>1, <3>2, <3>3 DEF RowOf
      <3>5. LaneRow(call[v], serving[v], toServer[v], clientLane', serverLane')
        BY <3>3, LaneRowKept DEF LaneRowOf
      <3> QED BY <3>1, <3>4, <3>5 DEF LaneRowOf
    <2> QED BY <2>1, <2>2
  <1>4. SessionCounts'
    <2>1. \A v \in Transfers : /\ nextChunk[v] \in Nat /\ posted[v] \in Nat /\ nextChunk[v] <= posted[v]
                               /\ posted[v] <= Chunks /\ leases[v] \in Nat /\ leases[v] <= 2
      BY RowTypes DEF Rows, RowOf
    <2>2. native' = Cardinality(Between(Transfers, nextChunk', posted'))
      <3>1. /\ nextChunk'[t] = x /\ posted'[t] = p
            /\ \A v \in Transfers \ {t} : nextChunk'[v] = nextChunk[v] /\ posted'[v] = posted[v]
        BY DEF TransferTypes, Becomes
      <3>2. Cardinality(Between(Transfers, nextChunk', posted'))
              = Cardinality(Between(Transfers, nextChunk, posted)) - (posted[t] - nextChunk[t])
                   + (posted'[t] - nextChunk'[t])
        <4>1. /\ nextChunk'[t] \in Nat /\ posted'[t] \in Nat /\ nextChunk'[t] <= posted'[t]
              /\ Chunks \in Nat
          BY <1>1, <3>1, ShapeFacts
        <4> QED BY <2>1, <3>1, <4>1, BetweenMoves, TransfersAssumption
      <3> QED BY <3>1, <3>2 DEF SessionCounts, CountsMove
    <2>3. FreeWindows' >= 0
      <3> DEFINE zero == [v \in Transfers |-> 0]
      <3>1. /\ leases'[t] = l
            /\ \A v \in Transfers \ {t} : leases'[v] = leases[v]
            /\ \A v \in Transfers : zero[v] = 0
        BY DEF TransferTypes, Becomes
      <3> HIDE DEF zero
      <3>2. Cardinality(Between(Transfers, zero, leases'))
              = Cardinality(Between(Transfers, zero, leases)) - (leases[t] - zero[t]) + (leases'[t] - zero[t])
        <4>1. /\ \A v \in Transfers : zero[v] \in Nat /\ leases[v] \in Nat /\ zero[v] <= leases[v] /\ leases[v] <= 2
              /\ leases'[t] \in Nat /\ zero[t] <= leases'[t]
          BY <1>1, <2>1, <3>1
        <4> QED BY <3>1, <4>1, BetweenMoves, TransfersAssumption
      <3>3. Cardinality(Between(Transfers, zero, leases)) \in Nat
        BY SMTT(40), <2>1, <3>1, BetweenFinite, TransfersAssumption
      <3>4. /\ FreeWindows = TxWindows - Cardinality(Between(Transfers, zero, leases))
            /\ FreeWindows' = TxWindows - Cardinality(Between(Transfers, zero, leases'))
        BY DEF FreeWindows, zero
      <3>5. leases[t] \in Nat /\ zero[t] = 0
        BY <2>1, <3>1
      <3>6. FreeWindows >= 0
        BY DEF SessionCounts
      <3>7. l <= leases[t] \/ (l = leases[t] + 1 /\ FreeWindows > 0)
        BY DEF CountsMove
      <3>8. Cardinality(Between(Transfers, zero, leases')) = Cardinality(Between(Transfers, zero, leases)) - leases[t] + l
        BY <1>1, <3>1, <3>2, <3>3, <3>5
      <3>9. TxWindows \in Nat
        BY DepthAssumption
      <3> QED BY ONLY SMTT(40), <1>1, <3>3, <3>4, <3>5, <3>6, <3>7, <3>8, <3>9
    <2>4. Cardinality(permits') <= limits'.process
      <3>1. limits' = limits /\ limits.process \in Nat /\ Cardinality(permits) <= limits.process
        BY LimitsAssumption DEF LaneTypes, SessionCounts
      <3>2. IsFiniteSet(permits) /\ Cardinality(permits) \in Nat
        BY FS_Subset, FS_CardinalityType, TransfersAssumption DEF LaneTypes
      <3>3. CASE permits' = permits \/ permits' = permits \ {t}
        <4>1. permits' \in SUBSET permits
          BY <3>3
        <4>2. Cardinality(permits') <= Cardinality(permits) /\ IsFiniteSet(permits')
          BY <3>2, <4>1, FS_Subset
        <4> QED BY <3>1, <3>2, <4>2, FS_CardinalityType
      <3>4. CASE permits' = permits \cup {t} /\ Cardinality(permits) < limits.process
        <4>1. Cardinality(permits') <= Cardinality(permits) + 1 /\ Cardinality(permits') \in Nat
          <5>1. Cardinality(permits \cup {t}) = IF t \in permits THEN Cardinality(permits) ELSE Cardinality(permits) + 1
            BY <3>2, FS_AddElement
          <5> QED BY <3>2, <3>4, <5>1
        <4> QED BY <3>1, <3>2, <3>4, <4>1
      <3> QED BY <3>3, <3>4 DEF CountsMove
    <2> QED BY <2>2, <2>3, <2>4 DEF SessionCounts
  <1> QED BY <1>2, <1>3, <1>4

\* A step of one transfer keeps the invariant.
LEMMA TransferStep ==
  ASSUME SessionInv, NEW t \in Transfers,
         NEW c \in CallStates, NEW p, NEW d, NEW u, NEW k, NEW s \in TaskStates, NEW x, NEW l, NEW out, NEW in,
         Becomes(t, c, p, d, u, k, s, x, l, out, in),
         reader' \in {reader, reader \ {t}},
         Row(c, t \in reader', p, d, u, k, s, x, l, out, in),
         LaneRow(c, s, out, clientLane', serverLane'),
         LaneMoves, CountsMove(t, p, x, l),
         c # "dial", call[t] # "dial"
  PROVE  SessionInv'
  <1> USE DEF SessionInv
  <1>1. TransferTypes' /\ Rows' /\ SessionCounts'
    <2>1. /\ clientLane \in {"up", "broken", "failed"} => clientLane' \in {"up", "broken", "failed"}
          /\ serverLane = "failed" => serverLane' = "failed"
          /\ serverLane' = "closed" => serverLane = "closed"
          /\ limits' = limits
      BY DEF LaneMoves
    <2> HIDE DEF SessionInv
    <2> QED BY <2>1, RowsStep
  <1>2. LaneTypes'
    BY DEF LaneTypes, LaneMoves, CountsMove
  <1>3. SlotInv'
    <2>1. \A v \in Transfers : call'[v] = "dial" <=> call[v] = "dial"
      BY DEF TransferTypes, Becomes
    <2>2. clientLane' = "dialing" <=> clientLane = "dialing"
      BY DEF LaneMoves
    <2>3. serverLane' = "closed" => serverLane = "closed"
      BY DEF LaneMoves
    <2> QED BY <2>1, <2>2, <2>3 DEF SlotInv, LaneMoves
  <1>4. LaneKept'
    <2>1. CASE UNCHANGED <<clientLane, serverLane>> /\ ~fault' /\ ~Excused
      BY <2>1 DEF LaneKept, LaneMoves, LaneTypes, Excused
    <2>2. CASE Excused
      <3>1. fault \/ reader # Transfers \/ serverLane = "closed"
        BY <2>2 DEF LaneKept, Excused
      <3>2. fault' \/ reader' # Transfers \/ serverLane' = "closed"
        BY <3>1 DEF LaneMoves, TransferTypes
      <3> QED BY <3>2 DEF LaneKept
    <2>3. CASE fault'
      BY <2>3 DEF LaneKept
    <2> QED BY <2>1, <2>2, <2>3 DEF LaneMoves
  <1> QED BY <1>1, <1>2, <1>3, <1>4

\* A step that moves the lane alone.
LEMMA LaneStep ==
  ASSUME SessionInv, UNCHANGED <<limits, call, pumpVars, serving, taskVars, wireVars, native>>,
         \A t \in Transfers : LaneRow(call[t], serving[t], toServer[t], clientLane', serverLane')
  PROVE  TransferTypes' /\ Rows' /\ SessionCounts'
  <1> USE DEF SessionInv, pumpVars, taskVars, wireVars
  <1>1. TransferTypes'
    BY DEF TransferTypes
  <1>2. Rows'
    BY DEF Rows, RowOf, LaneRowOf
  <1>3. SessionCounts'
    BY DEF SessionCounts, FreeWindows
  <1> QED BY <1>1, <1>2, <1>3

\* A transfer before a step.
LEMMA RowAt ==
  ASSUME SessionInv, NEW t \in Transfers
  PROVE  /\ Row(call[t], t \in reader, posted[t], delivered[t], published[t], consumed[t],
                serving[t], nextChunk[t], leases[t], toServer[t], toClient[t])
         /\ LaneRow(call[t], serving[t], toServer[t], clientLane, serverLane)
         /\ call[t] \in CallStates
         /\ serving[t] \in TaskStates
         /\ posted[t] \in Nat /\ nextChunk[t] \in Nat /\ leases[t] \in Nat /\ native \in Nat
  <1> USE DEF SessionInv
  <1>1. /\ Row(call[t], t \in reader, posted[t], delivered[t], published[t], consumed[t],
               serving[t], nextChunk[t], leases[t], toServer[t], toClient[t])
        /\ LaneRow(call[t], serving[t], toServer[t], clientLane, serverLane)
    BY DEF Rows, RowOf, LaneRowOf
  <1>2. call[t] \in CallStates /\ serving[t] \in TaskStates
    BY DEF TransferTypes
  <1>3. posted[t] \in Nat /\ nextChunk[t] \in Nat /\ leases[t] \in Nat
    BY DEF TransferTypes
  <1>4. native \in Nat
    <2>1. \A v \in Transfers : nextChunk[v] \in Nat /\ posted[v] \in Nat /\ nextChunk[v] <= posted[v] /\ posted[v] <= Chunks
      BY RowTypes DEF Rows, RowOf
    <2> QED BY <2>1, BetweenFinite, TransfersAssumption, ShapeFacts DEF SessionCounts
  <1> QED BY <1>1, <1>2, <1>3, <1>4

\* What a step leaves alone is what it was, of this transfer too.
LEMMA Unmoved ==
  ASSUME SessionInv, NEW t \in Transfers
  PROVE  /\ call = [call EXCEPT ![t] = call[t]] /\ posted = [posted EXCEPT ![t] = posted[t]]
         /\ delivered = [delivered EXCEPT ![t] = delivered[t]] /\ published = [published EXCEPT ![t] = published[t]]
         /\ consumed = [consumed EXCEPT ![t] = consumed[t]] /\ serving = [serving EXCEPT ![t] = serving[t]]
         /\ nextChunk = [nextChunk EXCEPT ![t] = nextChunk[t]] /\ leases = [leases EXCEPT ![t] = leases[t]]
         /\ toServer = [toServer EXCEPT ![t] = toServer[t]] /\ toClient = [toClient EXCEPT ![t] = toClient[t]]
  BY DEF SessionInv, TransferTypes

\* A step that posts, sends and takes nothing keeps the counters.
LEMMA CountsUnmoved ==
  ASSUME SessionInv, NEW t \in Transfers, UNCHANGED <<native, permits>>
  PROVE  CountsMove(t, posted[t], nextChunk[t], leases[t])
  BY RowAt DEF CountsMove

\* A step that leaves the lane alone.
LEMMA LaneUnmoved ==
  ASSUME SessionInv, UNCHANGED <<laneVars, handling, fault>>
  PROVE  LaneMoves
  BY DEF LaneMoves, laneVars, SessionInv, LaneTypes

\* A call that fails takes the lane down: it was down, or there is a fault.
LEMMA LaneAborted ==
  ASSUME SessionInv, NEW t \in Transfers, AbortClient(t), call[t] \in Pumping \cup {"request", "awaiting"},
         UNCHANGED <<limits, serverLane, sessionSlot, handling>>,
         fault' \in BOOLEAN, fault => fault', fault' \/ Excused
  PROVE  LaneMoves
  <1>1. clientLane \in {"up", "broken", "failed"} /\ clientLane' = "failed"
    BY RowAt DEF LaneRow, AbortClient
  <1>2. sticky' \in BOOLEAN
    BY DEF AbortClient
  <1> QED BY <1>1, <1>2 DEF LaneMoves

-----------------------------------------------------------------------------
(* UrmaSession: the steps of the client.                                      *)

\* A step of a call whose transfer has a lane.
LEMMA CallStep ==
  ASSUME SessionInv, NEW t \in Transfers,
         NEW c \in CallStates, NEW p, NEW d, NEW u, NEW k, NEW out, NEW in,
         Becomes(t, c, p, d, u, k, serving[t], nextChunk[t], leases[t], out, in),
         reader' \in {reader, reader \ {t}},
         Row(c, t \in reader', p, d, u, k, serving[t], nextChunk[t], leases[t], out, in),
         LaneMoves, clientLane' \in {"up", "broken", "failed"}, serverLane' = serverLane,
         native' = native + (p - posted[t]), permits' = permits,
         c # "dial", call[t] # "dial"
  PROVE  SessionInv'
  <1>1. LaneRow(c, serving[t], out, clientLane', serverLane')
    BY RowAt DEF LaneRow
  <1>2. p \in Nat
    BY RowTypes
  <1>3. CountsMove(t, p, nextChunk[t], leases[t])
    BY <1>2, RowAt DEF CountsMove
  <1>4. serving[t] \in TaskStates
    BY RowAt
  <1> QED BY <1>1, <1>3, <1>4, TransferStep

\* A frame of the server, as the client finds it.
LEMMA FrameAt ==
  ASSUME SessionInv, NEW t \in Transfers, toClient[t] # <<>>
  PROVE  /\ call[t] = "awaiting" /\ Head(toClient[t]).type = "ready"
               => Row("fill", t \in reader, posted[t], delivered[t], published[t], consumed[t], serving[t],
                      nextChunk[t], leases[t], toServer[t], Tail(toClient[t]))
         /\ call[t] = "awaiting" /\ Head(toClient[t]).type = "busy"
               => Row("busy", t \in reader, posted[t], delivered[t], published[t], consumed[t], serving[t],
                      nextChunk[t], leases[t], toServer[t], Tail(toClient[t]))
         /\ Head(toClient[t]).type = "error" => serving[t] \in {"failed", "aborted"}
         /\ call[t] = "finish" /\ Head(toClient[t]).type = "done" =>
               /\ serving[t] = "done"
               /\ Row("done", t \in reader, posted[t], delivered[t], Chunks, consumed[t], serving[t],
                      nextChunk[t], leases[t], toServer[t], Tail(toClient[t]))
         /\ call[t] = "finish" /\ Head(toClient[t]).type # "done" => serving[t] \in {"failed", "aborted"}
         /\ call[t] \in {"failed", "cancelled"}
               => Row(call[t], t \in reader, posted[t], delivered[t], published[t], consumed[t], serving[t],
                      nextChunk[t], leases[t], toServer[t], Tail(toClient[t]))
         /\ call[t] \notin {"done", "busy"}
  <1>1. /\ Row(call[t], t \in reader, posted[t], delivered[t], published[t], consumed[t],
               serving[t], nextChunk[t], leases[t], toServer[t], toClient[t])
        /\ serving[t] \in TaskStates
    BY RowAt
  <1> QED BY ONLY <1>1, toClient[t] # <<>>, FrameRow, Zenon

\* A request goes out, or the call ends with its lane or before it.
LEMMA RequestStep ==
  ASSUME SessionInv, NEW t \in Transfers, request_piece(t)
  PROVE  SessionInv'
  <1> USE DEF laneVars, pumpVars, taskVars, wireVars
  <1>1. call[t] = "request" /\ UNCHANGED <<native, permits, reader, handling, fault>>
    BY DEF request_piece
  <1>2. clientLane \in {"up", "broken", "failed"}
    BY <1>1, RowAt DEF LaneRow
  <1>3. native' = native + (posted[t] - posted[t]) /\ "failed" \in CallStates /\ "busy" \in CallStates
    BY <1>1, RowAt DEF CallStates, CallEnds
  <1>4. ASSUME NEW c \in {"failed", "busy"}, Goto(t, c), toServer' = toServer, LaneMoves,
               clientLane' \in {"up", "broken", "failed"}, serverLane' = serverLane
        PROVE  SessionInv'
    <2>1. Becomes(t, c, posted[t], delivered[t], published[t], consumed[t], serving[t], nextChunk[t], leases[t],
                  toServer[t], toClient[t])
      BY <1>4, Unmoved DEF Becomes, Goto, request_piece
    <2>2. Row(c, t \in reader', posted[t], delivered[t], published[t], consumed[t], serving[t], nextChunk[t],
              leases[t], toServer[t], toClient[t])
      BY <1>1, RowAt, CallRow
    <2> QED BY <1>1, <1>3, <1>4, <2>1, <2>2, CallStep
  <1>5. CASE UNCHANGED <<laneVars, toServer>> /\ (Goto(t, "failed") \/ Goto(t, "busy"))
    <2>1. LaneMoves
      BY <1>1, <1>5, LaneUnmoved
    <2> QED BY <1>2, <1>4, <1>5, <2>1
  <1>6. CASE Goto(t, "awaiting") /\ SendServer(t, Frame("request")) /\ UNCHANGED laneVars
    <2>1. Becomes(t, "awaiting", posted[t], delivered[t], published[t], consumed[t], serving[t], nextChunk[t], leases[t],
                  Append(toServer[t], Frame("request")), toClient[t])
      BY <1>6, Unmoved DEF Becomes, Goto, SendServer, request_piece
    <2>2. Row("awaiting", t \in reader', posted[t], delivered[t], published[t], consumed[t], serving[t], nextChunk[t],
              leases[t], Append(toServer[t], Frame("request")), toClient[t])
      BY <1>1, RowAt, CallRow
    <2>3. LaneMoves
      BY <1>1, <1>6, LaneUnmoved
    <2>4. "awaiting" \in CallStates
      BY DEF CallStates
    <2> QED BY <1>1, <1>2, <1>3, <1>6, <2>1, <2>2, <2>3, <2>4, CallStep
  <1>7. CASE clientLane = "broken" /\ AbortClient(t) /\ UNCHANGED <<limits, serverLane, sessionSlot, toServer>>
    <2>1. Excused
      BY <1>7 DEF Excused
    <2>2. fault' \in BOOLEAN /\ (fault => fault')
      BY <1>1 DEF SessionInv, LaneTypes
    <2>3. LaneMoves
      BY <1>1, <1>7, <2>1, <2>2, LaneAborted
    <2> QED BY <1>4, <1>7, <2>3 DEF AbortClient
  <1> QED BY <1>2, <1>5, <1>6, <1>7 DEF request_piece

\* A call that fails with its lane, or on it.
LEMMA CallFails ==
  ASSUME SessionInv, NEW t \in Transfers, AbortClient(t), call[t] \in Pumping \cup {"awaiting"},
         NEW in, in = toClient[t] \/ (in = Tail(toClient[t]) /\ toClient[t] # <<>>),
         toClient' = [toClient EXCEPT ![t] = in],
         UNCHANGED <<limits, serverLane, sessionSlot, handling, pumpVars, serving, taskVars, toServer, native>>,
         fault' \in BOOLEAN, fault => fault', fault' \/ Excused
  PROVE  SessionInv'
  <1> USE DEF laneVars, pumpVars, taskVars, wireVars
  <1>1. call[t] \notin {"dial", "done"}
    BY DEF Pumping
  <1>2. Row("failed", t \in reader', posted[t], delivered[t], published[t], consumed[t], serving[t], nextChunk[t],
            leases[t], toServer[t], in)
    <2>1. Row("failed", t \in reader', posted[t], delivered[t], published[t], consumed[t], serving[t], nextChunk[t],
              leases[t], toServer[t], toClient[t])
      BY <1>1, RowAt, CallRow
    <2>2. CASE in = Tail(toClient[t]) /\ toClient[t] # <<>>
      <3>1. "failed" \in {"failed", "cancelled"} /\ toClient[t] # <<>> /\ serving[t] \in TaskStates
        BY <2>2, RowAt
      <3>2. Row("failed", t \in reader', posted[t], delivered[t], published[t], consumed[t], serving[t], nextChunk[t],
                leases[t], toServer[t], Tail(toClient[t]))
        BY ONLY <2>1, <3>1, FrameRow, ZenonT(60)
      <3> QED BY <2>2, <3>2
    <2> QED BY <2>1, <2>2
  <1>3. Becomes(t, "failed", posted[t], delivered[t], published[t], consumed[t], serving[t], nextChunk[t], leases[t],
                toServer[t], in)
    BY Unmoved DEF Becomes, AbortClient, Goto
  <1>4. LaneMoves
    BY LaneAborted
  <1>5. clientLane' = "failed" /\ native' = native + (posted[t] - posted[t]) /\ "failed" \in CallStates
    BY RowAt DEF AbortClient, CallStates, CallEnds
  <1> QED BY <1>1, <1>2, <1>3, <1>4, <1>5, CallStep

\* The answer of the server: ready, busy or an error.
LEMMA ReadyStep ==
  ASSUME SessionInv, NEW t \in Transfers, ReceiveReady(t)
  PROVE  SessionInv'
  <1> USE DEF laneVars, pumpVars, taskVars, wireVars
  <1>1. /\ call[t] = "awaiting" /\ toClient[t] # <<>> /\ TakeClient(t)
        /\ UNCHANGED <<handling, pumpVars, serving, taskVars, toServer, native, fault>>
    BY DEF ReceiveReady
  <1>2. ASSUME NEW c \in {"fill", "busy"}, Goto(t, c), UNCHANGED laneVars,
               Row(c, t \in reader', posted[t], delivered[t], published[t], consumed[t], serving[t], nextChunk[t],
                   leases[t], toServer[t], Tail(toClient[t]))
        PROVE  SessionInv'
    <2>1. Becomes(t, c, posted[t], delivered[t], published[t], consumed[t], serving[t], nextChunk[t], leases[t],
                  toServer[t], Tail(toClient[t]))
      BY <1>1, <1>2, Unmoved DEF Becomes, Goto, TakeClient
    <2>2. LaneMoves
      BY <1>1, <1>2, LaneUnmoved
    <2>3. clientLane' \in {"up", "broken", "failed"} /\ native' = native + (posted[t] - posted[t]) /\ c \in CallStates
      BY <1>1, <1>2, RowAt DEF LaneRow, CallStates, CallEnds, Pumping
    <2> QED BY <1>1, <1>2, <2>1, <2>2, <2>3, CallStep
  <1>3. CASE ClientHas(t, "ready") /\ Goto(t, "fill") /\ UNCHANGED laneVars
    <2>1. Row("fill", t \in reader', posted[t], delivered[t], published[t], consumed[t], serving[t], nextChunk[t],
              leases[t], toServer[t], Tail(toClient[t]))
      BY <1>1, <1>3, FrameAt DEF ClientHas
    <2> QED BY <1>2, <1>3, <2>1
  <1>4. CASE ClientHas(t, "busy") /\ Goto(t, "busy") /\ UNCHANGED laneVars
    <2>1. Row("busy", t \in reader', posted[t], delivered[t], published[t], consumed[t], serving[t], nextChunk[t],
              leases[t], toServer[t], Tail(toClient[t]))
      BY <1>1, <1>4, FrameAt DEF ClientHas
    <2> QED BY <1>2, <1>4, <2>1
  <1>5. CASE ClientHas(t, "error") /\ AbortClient(t) /\ UNCHANGED <<limits, serverLane, sessionSlot>>
    <2>1. serving[t] \in {"failed", "aborted"}
      BY <1>1, <1>5, FrameAt DEF ClientHas
    <2>2. Excused
      BY <2>1, RowAt DEF Excused, LaneRow
    <2>3. fault' \in BOOLEAN /\ (fault => fault')
      BY <1>1 DEF SessionInv, LaneTypes
    <2> QED BY <1>1, <1>5, <2>2, <2>3, CallFails DEF TakeClient
  <1> QED BY <1>3, <1>4, <1>5 DEF ReceiveReady

\* Receives are posted for one more window, and then announced.
LEMMA PostStep ==
  ASSUME SessionInv, NEW t \in Transfers, PostWindow(t)
  PROVE  SessionInv'
  <1> USE DEF laneVars, pumpVars, taskVars, wireVars
  <1> DEFINE p == posted[t]
  <1>1. /\ call[t] = "fill" /\ p < Chunks /\ DivCeil(p - consumed[t], Inflight) < PipelineDepth
        /\ clientLane = "up"
        /\ posted' = [posted EXCEPT ![t] = p + Window(p).count]
        /\ native' = native + Window(p).count
        /\ toServer' = [toServer EXCEPT ![t] = Append(toServer[t], Posted(Window(p)))]
        /\ UNCHANGED <<laneVars, handling, call, reader, delivered, published, consumed, serving, taskVars, toClient, fault>>
    BY DEF PostWindow, SendServer, WindowsInUse
  <1>2. p + Window(p).count = After(p) /\ Window(p).count = After(p) - p
    BY RowAt, ShapeFacts DEF Window, After, Smaller
  <1>3. Row("fill", t \in reader', After(p), delivered[t], published[t], consumed[t], serving[t], nextChunk[t],
            leases[t], Append(toServer[t], Posted(Window(p))), toClient[t])
    BY <1>1, RowAt, PostRow
  <1>4. Becomes(t, "fill", After(p), delivered[t], published[t], consumed[t], serving[t], nextChunk[t], leases[t],
                Append(toServer[t], Posted(Window(p))), toClient[t])
    BY <1>1, <1>2, Unmoved DEF Becomes
  <1>5. LaneMoves
    BY <1>1, LaneUnmoved
  <1>6. native' = native + (After(p) - p) /\ "fill" \in CallStates
    BY <1>1, <1>2 DEF CallStates, Pumping
  <1> QED BY <1>1, <1>3, <1>4, <1>5, <1>6, CallStep

\* A step of the pump that posts nothing.
LEMMA PumpStep ==
  ASSUME SessionInv, NEW t \in Transfers, call[t] \in Pumping,
         NEW c \in CallStates \ {"dial"}, NEW d, NEW u, NEW in,
         call' = [call EXCEPT ![t] = c],
         delivered' = [delivered EXCEPT ![t] = d],
         published' = [published EXCEPT ![t] = u],
         toClient' = [toClient EXCEPT ![t] = in],
         UNCHANGED <<laneVars, handling, reader, posted, consumed, serving, taskVars, toServer, native, fault>>,
         Row(c, t \in reader, posted[t], d, u, consumed[t], serving[t], nextChunk[t], leases[t], toServer[t], in)
  PROVE  SessionInv'
  <1> USE DEF laneVars, taskVars
  <1>1. Becomes(t, c, posted[t], d, u, consumed[t], serving[t], nextChunk[t], leases[t], toServer[t], in)
    BY Unmoved DEF Becomes
  <1>2. LaneMoves
    BY LaneUnmoved
  <1>3. clientLane' \in {"up", "broken", "failed"} /\ native' = native + (posted[t] - posted[t])
    BY RowAt DEF LaneRow
  <1>4. call[t] # "dial"
    BY DEF Pumping
  <1> QED BY <1>1, <1>2, <1>3, <1>4, CallStep

\* The pump waits, or hands a completed window on.
LEMMA WindowStep ==
  ASSUME SessionInv, NEW t \in Transfers, FillEnds(t) \/ CompleteWindow(t)
  PROVE  SessionInv'
  <1> USE DEF laneVars, pumpVars, taskVars, wireVars, Pumping, CallStates, CallEnds
  <1>1. CASE FillEnds(t)
    <2>1. Row("wait", t \in reader, posted[t], delivered[t], published[t], consumed[t], serving[t], nextChunk[t],
              leases[t], toServer[t], toClient[t])
      BY <1>1, RowAt, PumpRow DEF FillEnds
    <2>2. /\ call[t] = "fill" /\ call' = [call EXCEPT ![t] = "wait"]
          /\ delivered' = [delivered EXCEPT ![t] = delivered[t]] /\ published' = [published EXCEPT ![t] = published[t]]
          /\ toClient' = [toClient EXCEPT ![t] = toClient[t]]
          /\ UNCHANGED <<laneVars, handling, reader, posted, consumed, serving, taskVars, toServer, native, fault>>
      BY <1>1, Unmoved DEF FillEnds, Goto
    <2> QED BY <2>1, <2>2, PumpStep
  <1>2. CASE CompleteWindow(t)
    <2> DEFINE d == delivered[t]
               u == published[t]
    <2>0. d \in Nat /\ u \in Nat
      BY RowAt, RowTypes
    <2>1. d + Window(d).count = After(d) /\ u + Window(d).count = u + (After(d) - d)
      BY <2>0, ShapeFacts, RowAt DEF Window, After, Smaller
    <2>2. /\ call[t] = "wait" /\ nextChunk[t] >= After(d)
          /\ delivered' = [delivered EXCEPT ![t] = After(d)]
          /\ toClient' = [toClient EXCEPT ![t] = toClient[t]]
          /\ UNCHANGED <<laneVars, handling, reader, posted, consumed, serving, taskVars, toServer, native, fault>>
          /\ \/ After(d) = Chunks /\ Goto(t, "finish") /\ UNCHANGED published
             \/ /\ After(d) # Chunks /\ Goto(t, "fill")
                /\ published' = [published EXCEPT ![t] = u + (After(d) - d)]
             \/ After(d) # Chunks /\ t \notin reader /\ Goto(t, "cancelled") /\ UNCHANGED published
      BY <1>2, <2>1, Unmoved DEF CompleteWindow
    <2>3. CASE After(d) = Chunks /\ Goto(t, "finish") /\ UNCHANGED published
      <3>1. Row("finish", t \in reader, posted[t], After(d), u, consumed[t], serving[t], nextChunk[t],
                leases[t], toServer[t], toClient[t])
        BY <2>2, <2>3, RowAt, PumpRow
      <3>2. call' = [call EXCEPT ![t] = "finish"] /\ published' = [published EXCEPT ![t] = u]
        BY <2>3, Unmoved DEF Goto
      <3> QED BY <2>2, <3>1, <3>2, PumpStep
    <2>4. CASE After(d) # Chunks /\ Goto(t, "fill") /\ published' = [published EXCEPT ![t] = u + (After(d) - d)]
      <3>1. Row("fill", t \in reader, posted[t], After(d), u + (After(d) - d), consumed[t], serving[t], nextChunk[t],
                leases[t], toServer[t], toClient[t])
        BY <2>2, <2>4, RowAt, PumpRow
      <3>2. call' = [call EXCEPT ![t] = "fill"]
        BY <2>4 DEF Goto
      <3> QED BY <2>2, <2>4, <3>1, <3>2, PumpStep
    <2>5. CASE After(d) # Chunks /\ t \notin reader /\ Goto(t, "cancelled") /\ UNCHANGED published
      <3>1. Row("cancelled", t \in reader, posted[t], After(d), u, consumed[t], serving[t], nextChunk[t],
                leases[t], toServer[t], toClient[t])
        BY <2>2, <2>5, RowAt, PumpRow
      <3>2. call' = [call EXCEPT ![t] = "cancelled"] /\ published' = [published EXCEPT ![t] = u]
        BY <2>5, Unmoved DEF Goto
      <3> QED BY <2>2, <3>1, <3>2, PumpStep
    <2> QED BY <2>2, <2>3, <2>4, <2>5
  <1> QED BY <1>1, <1>2

\* The piece is complete with Done and not before.
LEMMA FinishStep ==
  ASSUME SessionInv, NEW t \in Transfers, finish_piece(t)
  PROVE  SessionInv'
  <1> USE DEF laneVars, pumpVars, taskVars, wireVars
  <1>1. /\ call[t] = "finish" /\ toClient[t] # <<>> /\ TakeClient(t)
        /\ UNCHANGED <<handling, reader, posted, delivered, consumed, serving, taskVars, toServer, native, fault>>
    BY DEF finish_piece
  <1>2. CASE ClientHas(t, "done")
    <2>1. /\ published' = [published EXCEPT ![t] = Chunks] /\ call' = [call EXCEPT ![t] = "done"]
          /\ UNCHANGED laneVars
      BY <1>2 DEF finish_piece, Goto
    <2>2. Row("done", t \in reader, posted[t], delivered[t], Chunks, consumed[t], serving[t], nextChunk[t],
              leases[t], toServer[t], Tail(toClient[t]))
      BY <1>1, <1>2, FrameAt DEF ClientHas
    <2>3. delivered' = [delivered EXCEPT ![t] = delivered[t]] /\ toClient' = [toClient EXCEPT ![t] = Tail(toClient[t])]
      BY <1>1, Unmoved DEF TakeClient
    <2>4. call[t] \in Pumping /\ "done" \in CallStates \ {"dial"}
      BY <1>1 DEF Pumping, CallStates, CallEnds
    <2> QED BY <1>1, <2>1, <2>2, <2>3, <2>4, PumpStep
  <1>3. CASE ~ClientHas(t, "done")
    <2>1. AbortClient(t) /\ UNCHANGED <<published, limits, serverLane, sessionSlot>>
      BY <1>3 DEF finish_piece
    <2>2. serving[t] \in {"failed", "aborted"}
      BY <1>1, <1>3, FrameAt DEF ClientHas
    <2>3. Excused
      BY <2>2, RowAt DEF Excused, LaneRow
    <2>4. fault' \in BOOLEAN /\ (fault => fault')
      BY <1>1 DEF SessionInv, LaneTypes
    <2> QED BY <1>1, <2>1, <2>3, <2>4, CallFails DEF TakeClient, Pumping
  <1> QED BY <1>2, <1>3

\* A wait of the client times out, or its lane is gone.
LEMMA ClosedStep ==
  ASSUME SessionInv, NEW t \in Transfers, ClientTimesOut(t) \/ ClientClosed(t)
  PROVE  SessionInv'
  <1> USE DEF laneVars, pumpVars, taskVars, wireVars
  <1>1. /\ call[t] \in Pumping \cup {"awaiting"} /\ AbortClient(t)
        /\ UNCHANGED <<limits, serverLane, sessionSlot, handling, pumpVars, serving, taskVars, toServer, native>>
        /\ toClient' = [toClient EXCEPT ![t] = toClient[t]]
    BY Unmoved DEF ClientTimesOut, ClientClosed
  <1>2. fault' \in BOOLEAN /\ (fault => fault') /\ (fault' \/ Excused)
    BY DEF ClientTimesOut, ClientClosed, Faults, Excused, SessionInv, LaneTypes
  <1> QED BY <1>1, <1>2, CallFails

\* The reader reads, or leaves.
LEMMA ReaderStep ==
  ASSUME SessionInv, NEW t \in Transfers, ReaderReads(t) \/ ReaderLeaves(t)
  PROVE  SessionInv'
  <1> USE DEF laneVars, pumpVars, taskVars, wireVars
  <1> DEFINE c == call[t]
  <1>1. /\ reader' \in {reader, reader \ {t}}
        /\ UNCHANGED <<laneVars, handling, call, posted, delivered, published, serving, taskVars, wireVars, native, fault>>
        /\ consumed' = [consumed EXCEPT ![t] = published[t]]
        /\ reader' = reader \/ c \in Pumping
    BY DEF ReaderReads, ReaderLeaves
  <1>2. Becomes(t, c, posted[t], delivered[t], published[t], published[t], serving[t], nextChunk[t], leases[t],
                toServer[t], toClient[t])
    BY <1>1, Unmoved DEF Becomes
  <1>3. Row(c, t \in reader', posted[t], delivered[t], published[t], published[t], serving[t], nextChunk[t],
            leases[t], toServer[t], toClient[t])
    <2>1. CASE reader' = reader
      BY <2>1, RowAt, PumpRow
    <2>2. CASE reader' = reader \ {t} /\ c \in Pumping
      <3>1. (t \in reader') = FALSE
        BY <2>2
      <3>2. Row(c, FALSE, posted[t], delivered[t], published[t], published[t], serving[t], nextChunk[t],
                leases[t], toServer[t], toClient[t])
        BY <2>2, RowAt, PumpRow
      <3> QED BY <3>1, <3>2
    <2> QED BY <1>1, <2>1, <2>2
  <1>4. LaneMoves
    BY <1>1, LaneUnmoved
  <1>5. LaneRow(c, serving[t], toServer[t], clientLane', serverLane')
    BY <1>1, RowAt
  <1>6. CountsMove(t, posted[t], nextChunk[t], leases[t])
    BY <1>1, CountsUnmoved
  <1>7. CASE c # "dial"
    BY <1>1, <1>2, <1>3, <1>4, <1>5, <1>6, <1>7, RowAt, TransferStep
  <1>8. CASE c = "dial"
    <2>1. FALSE
      <3>1. posted[t] = 0
        <4>1. serving[t] = "none"
          BY <1>8, RowAt, CallRow
        <4> QED BY <4>1, RowAt DEF Row, Stages
      <3>2. consumed[t] \in 0 .. 0 /\ published[t] \in 0 .. 0
        BY <3>1, RowAt DEF Row
      <3> QED BY <1>8, <3>2 DEF ReaderReads, ReaderLeaves, Pumping
    <2> QED BY <2>1
  <1> QED BY <1>7, <1>8

-----------------------------------------------------------------------------
(* UrmaSession: the steps of the server.                                      *)

\* A transfer that the server works on has a lane, which is not closed.
LEMMA ServedAt ==
  ASSUME SessionInv, NEW t \in Transfers, serving[t] \in Working \cup {"incoming"}
  PROVE  /\ serverLane # "closed" /\ clientLane \in {"up", "broken", "failed"}
         /\ call[t] # "dial"
  <1>1. serving[t] # "none"
    BY DEF Working
  <1>2. call[t] # "dial"
    BY <1>1, RowAt, CallRow
  <1> QED BY <1>1, <1>2, RowAt DEF LaneRow

\* What the server's task becomes, with its queues.
Serves(t, s, x, l, out, in) ==
    /\ serving' = [serving EXCEPT ![t] = s]
    /\ nextChunk' = [nextChunk EXCEPT ![t] = x]
    /\ leases' = [leases EXCEPT ![t] = l]
    /\ toServer' = [toServer EXCEPT ![t] = out]
    /\ toClient' = [toClient EXCEPT ![t] = in]
    /\ UNCHANGED <<call, pumpVars>>

\* A step of the server's task.
LEMMA ServeStep ==
  ASSUME SessionInv, NEW t \in Transfers,
         NEW s \in TaskStates, NEW x, NEW l, NEW out, NEW in,
         clientLane \in {"up", "broken", "failed"}, call[t] # "dial",
         Serves(t, s, x, l, out, in), clientLane' = clientLane,
         Row(call[t], t \in reader, posted[t], delivered[t], published[t], consumed[t], s, x, l, out, in),
         LaneMoves, CountsMove(t, posted[t], x, l), serverLane' # "closed",
         s \in {"failed", "aborted"} => serverLane' = "failed"
  PROVE  SessionInv'
  <1> USE DEF pumpVars
  <1>1. Becomes(t, call[t], posted[t], delivered[t], published[t], consumed[t], s, x, l, out, in)
    BY Unmoved DEF Becomes, Serves
  <1>2. LaneRow(call[t], s, out, clientLane', serverLane')
    BY DEF LaneRow
  <1>3. reader' \in {reader, reader \ {t}} /\ (t \in reader') = (t \in reader)
    BY DEF Serves
  <1>4. Row(call[t], t \in reader', posted[t], delivered[t], published[t], consumed[t], s, x, l, out, in)
    BY <1>3
  <1> QED BY <1>1, <1>2, <1>3, <1>4, RowAt, TransferStep

\* What the server's task may become, as the server finds it.
LEMMA AdmitAt ==
  ASSUME SessionInv, NEW t \in Transfers
  PROVE  /\ toServer[t] # <<>> /\ Head(toServer[t]).type = "request" =>
               /\ serving[t] = "none"
               /\ Row(call[t], t \in reader, posted[t], delivered[t], published[t], consumed[t], "incoming",
                      nextChunk[t], leases[t], Tail(toServer[t]), toClient[t])
               /\ Row(call[t], t \in reader, posted[t], delivered[t], published[t], consumed[t], "refused",
                      nextChunk[t], leases[t], Tail(toServer[t]), Append(toClient[t], Frame("busy")))
         /\ serving[t] = "incoming" =>
               Row(call[t], t \in reader, posted[t], delivered[t], published[t], consumed[t], "admission",
                   nextChunk[t], leases[t], toServer[t], toClient[t])
         /\ serving[t] = "admission" =>
               Row(call[t], t \in reader, posted[t], delivered[t], published[t], consumed[t], "tx",
                   nextChunk[t], leases[t], toServer[t], toClient[t])
         /\ serving[t] = "tx" =>
               /\ leases[t] = 0
               /\ Row(call[t], t \in reader, posted[t], delivered[t], published[t], consumed[t], "spare",
                      nextChunk[t], 1, toServer[t], toClient[t])
         /\ serving[t] \in {"admission", "tx"} =>
               /\ Row(call[t], t \in reader, posted[t], delivered[t], published[t], consumed[t], "busy",
                      nextChunk[t], 0, toServer[t], Append(toClient[t], Frame("busy")))
               /\ leases[t] = 0
         /\ serving[t] = "spare" => leases[t] = 1 /\ \A l \in {1, 2} :
               Row(call[t], t \in reader, posted[t], delivered[t], published[t], consumed[t], "credit",
                   nextChunk[t], l, toServer[t], Append(toClient[t], Frame("ready")))
         /\ toServer[t] # <<>> /\ Head(toServer[t]).type = "posted" /\ serving[t] \in TaskEnds
               => serving[t] \in {"failed", "aborted"}
  <1>1. /\ Row(call[t], t \in reader, posted[t], delivered[t], published[t], consumed[t],
               serving[t], nextChunk[t], leases[t], toServer[t], toClient[t])
        /\ serving[t] \in TaskStates
    BY RowAt
  <1>2. toServer[t] # <<>> /\ Head(toServer[t]).type = "request" =>
            /\ serving[t] = "none"
            /\ Row(call[t], t \in reader, posted[t], delivered[t], published[t], consumed[t], "incoming",
                   nextChunk[t], leases[t], Tail(toServer[t]), toClient[t])
            /\ Row(call[t], t \in reader, posted[t], delivered[t], published[t], consumed[t], "refused",
                   nextChunk[t], leases[t], Tail(toServer[t]), Append(toClient[t], Frame("busy")))
    BY ONLY <1>1, RequestRow, Zenon
  <1>3. serving[t] = "incoming" =>
            Row(call[t], t \in reader, posted[t], delivered[t], published[t], consumed[t], "admission",
                nextChunk[t], leases[t], toServer[t], toClient[t])
    BY ONLY <1>1, AdmitRow, Zenon
  <1>4. serving[t] = "admission" =>
            Row(call[t], t \in reader, posted[t], delivered[t], published[t], consumed[t], "tx",
                nextChunk[t], leases[t], toServer[t], toClient[t])
    BY ONLY <1>1, AdmitRow, Zenon
  <1>5. serving[t] = "tx" =>
            /\ leases[t] = 0
            /\ Row(call[t], t \in reader, posted[t], delivered[t], published[t], consumed[t], "spare",
                   nextChunk[t], 1, toServer[t], toClient[t])
    BY ONLY <1>1, AdmitRow, Zenon
  <1>6. serving[t] \in {"admission", "tx"} =>
            /\ Row(call[t], t \in reader, posted[t], delivered[t], published[t], consumed[t], "busy",
                   nextChunk[t], 0, toServer[t], Append(toClient[t], Frame("busy")))
            /\ leases[t] = 0
    BY ONLY <1>1, BusyRow, Zenon
  <1>7. serving[t] = "spare" => leases[t] = 1 /\ \A l \in {1, 2} :
            Row(call[t], t \in reader, posted[t], delivered[t], published[t], consumed[t], "credit",
                nextChunk[t], l, toServer[t], Append(toClient[t], Frame("ready")))
    BY ONLY <1>1, ReadyRow, Zenon
  <1>8. toServer[t] # <<>> /\ Head(toServer[t]).type = "posted" /\ serving[t] \in TaskEnds
            => serving[t] \in {"failed", "aborted"}
    BY ONLY <1>1, LateRow, Zenon
  <1> QED BY ONLY <1>2, <1>3, <1>4, <1>5, <1>6, <1>7, <1>8, Zenon

\* The request is admitted to the lane, or answered with busy.
LEMMA ReadRequestStep ==
  ASSUME SessionInv, NEW t \in Transfers, ReadRequest(t)
  PROVE  SessionInv'
  <1> USE DEF laneVars, pumpVars, taskVars, wireVars
  <1>1. /\ serverLane = "up" /\ toServer[t] # <<>> /\ Head(toServer[t]).type = "request"
        /\ toServer' = [toServer EXCEPT ![t] = Tail(toServer[t])]
        /\ UNCHANGED <<laneVars, handling, call, pumpVars, taskVars, native, fault>>
        /\ \/ Serve(t, "refused") /\ SendClient(t, Frame("busy"))
           \/ Serve(t, "incoming") /\ UNCHANGED toClient
    BY DEF ReadRequest, ServerHas, TakeServer
  <1>2. clientLane \in {"up", "broken", "failed"} /\ call[t] # "dial"
    <2>1. call[t] # "dial"
      BY <1>1, RowAt, CallRow
    <2> QED BY <1>1, <2>1, RowAt DEF LaneRow
  <1>3. LaneMoves
    BY <1>1, LaneUnmoved
  <1>4. CountsMove(t, posted[t], nextChunk[t], leases[t])
    BY <1>1, CountsUnmoved
  <1>5. leases' = [leases EXCEPT ![t] = leases[t]] /\ nextChunk' = [nextChunk EXCEPT ![t] = nextChunk[t]]
    BY <1>1, Unmoved
  <1>v. clientLane' = clientLane /\ serverLane' # "closed"
    BY <1>1
  <1>6. CASE Serve(t, "refused") /\ SendClient(t, Frame("busy"))
    <2>1. "refused" \in TaskStates /\ serving' = [serving EXCEPT ![t] = "refused"]
          /\ toClient' = [toClient EXCEPT ![t] = Append(toClient[t], Frame("busy"))]
      BY <1>6 DEF TaskStates, TaskEnds, Serve, SendClient
    <2>s. Serves(t, "refused", nextChunk[t], leases[t], Tail(toServer[t]), Append(toClient[t], Frame("busy")))
      BY <1>1, <1>5, <2>1 DEF Serves
    <2>r. Row(call[t], t \in reader, posted[t], delivered[t], published[t], consumed[t], "refused",
              nextChunk[t], leases[t], Tail(toServer[t]), Append(toClient[t], Frame("busy")))
      BY <1>1, AdmitAt
    <2> QED BY <1>v, <1>2, <1>3, <1>4, <2>1, <2>s, <2>r, ServeStep
  <1>7. CASE Serve(t, "incoming") /\ UNCHANGED toClient
    <2>1. "incoming" \in TaskStates /\ serving' = [serving EXCEPT ![t] = "incoming"]
          /\ toClient' = [toClient EXCEPT ![t] = toClient[t]]
      BY <1>7, Unmoved DEF TaskStates, TaskEnds, Serve
    <2>s. Serves(t, "incoming", nextChunk[t], leases[t], Tail(toServer[t]), toClient[t])
      BY <1>1, <1>5, <2>1 DEF Serves
    <2>r. Row(call[t], t \in reader, posted[t], delivered[t], published[t], consumed[t], "incoming",
              nextChunk[t], leases[t], Tail(toServer[t]), toClient[t])
      BY <1>1, AdmitAt
    <2> QED BY <1>v, <1>2, <1>3, <1>4, <2>1, <2>s, <2>r, ServeStep
  <1> QED BY <1>1, <1>6, <1>7

\* Steps of the task that leave its lane alone.
LEMMA WorkStep ==
  ASSUME SessionInv, NEW t \in Transfers, serving[t] \in Working \cup {"incoming"},
         NEW s \in TaskStates \ {"failed", "aborted"}, NEW x, NEW l, NEW out, NEW in,
         Serves(t, s, x, l, out, in), UNCHANGED <<laneVars, handling, fault>>,
         Row(call[t], t \in reader, posted[t], delivered[t], published[t], consumed[t], s, x, l, out, in),
         CountsMove(t, posted[t], x, l)
  PROVE  SessionInv'
  <1> USE DEF laneVars
  <1>1. LaneMoves
    BY LaneUnmoved
  <1> QED BY <1>1, ServedAt, ServeStep

\* The task takes its permit and its windows, or says busy, and is ready.
LEMMA AdmitStep ==
  ASSUME SessionInv, NEW t \in Transfers,
         receive_request(t) \/ acquire_process_transfer(t) \/ acquire_tx_window(t) \/ ready(t)
  PROVE  SessionInv'
  <1> USE DEF laneVars, pumpVars, taskVars, wireVars, TaskStates, TaskEnds, Working
  <1>u. /\ nextChunk' = [nextChunk EXCEPT ![t] = nextChunk[t]] /\ toServer' = [toServer EXCEPT ![t] = toServer[t]]
        /\ UNCHANGED <<laneVars, handling, call, pumpVars, native, fault>>
    BY Unmoved DEF receive_request, acquire_process_transfer, acquire_tx_window, ready
  <1>v. UNCHANGED <<laneVars, handling, fault>>
    BY <1>u
  <1>1. CASE receive_request(t)
    <2>1. /\ serving[t] = "incoming" /\ serving' = [serving EXCEPT ![t] = "admission"]
          /\ leases' = [leases EXCEPT ![t] = leases[t]] /\ toClient' = [toClient EXCEPT ![t] = toClient[t]]
          /\ UNCHANGED permits
      BY <1>1, Unmoved DEF receive_request, Serve
    <2>2. CountsMove(t, posted[t], nextChunk[t], leases[t])
      BY <1>u, <2>1, CountsUnmoved
    <2>3. "admission" \in TaskStates \ {"failed", "aborted"} /\ serving[t] \in Working \cup {"incoming"}
      BY <2>1
    <2>s. Serves(t, "admission", nextChunk[t], leases[t], toServer[t], toClient[t])
      BY <1>u, <2>1 DEF Serves
    <2>r. Row(call[t], t \in reader, posted[t], delivered[t], published[t], consumed[t], "admission",
              nextChunk[t], leases[t], toServer[t], toClient[t])
      BY <2>1, AdmitAt
    <2> QED BY <1>v, <2>2, <2>3, <2>s, <2>r, WorkStep
  <1>2. CASE acquire_process_transfer(t)
    <2>1. /\ serving[t] = "admission" /\ leases' = [leases EXCEPT ![t] = leases[t]]
      BY <1>2, Unmoved DEF acquire_process_transfer
    <2>2. CASE Cardinality(permits) < limits.process
      <3>1. /\ serving' = [serving EXCEPT ![t] = "tx"] /\ toClient' = [toClient EXCEPT ![t] = toClient[t]]
            /\ permits' = permits \cup {t}
        BY <1>2, <2>2, Unmoved DEF acquire_process_transfer, Serve
      <3>2. CountsMove(t, posted[t], nextChunk[t], leases[t])
        BY <1>u, <2>2, <3>1, RowAt DEF CountsMove
      <3>3. "tx" \in TaskStates \ {"failed", "aborted"} /\ serving[t] \in Working \cup {"incoming"}
        BY <2>1
      <3>s. Serves(t, "tx", nextChunk[t], leases[t], toServer[t], toClient[t])
        BY <1>u, <2>1, <3>1 DEF Serves
      <3>r. Row(call[t], t \in reader, posted[t], delivered[t], published[t], consumed[t], "tx",
                nextChunk[t], leases[t], toServer[t], toClient[t])
        BY <2>1, AdmitAt
      <3> QED BY <1>v, <3>2, <3>3, <3>s, <3>r, WorkStep
    <2>3. CASE ~(Cardinality(permits) < limits.process)
      <3>1. /\ serving' = [serving EXCEPT ![t] = "busy"] /\ UNCHANGED permits
            /\ toClient' = [toClient EXCEPT ![t] = Append(toClient[t], Frame("busy"))]
        BY <1>2, <2>3 DEF acquire_process_transfer, reject_piece_transient, Serve, SendClient
      <3>2. CountsMove(t, posted[t], nextChunk[t], leases[t])
        BY <1>u, <3>1, CountsUnmoved
      <3>3. "busy" \in TaskStates \ {"failed", "aborted"} /\ serving[t] \in Working \cup {"incoming"}
        BY <2>1
      <3>4. leases[t] = 0
        BY <2>1, AdmitAt
      <3>s. Serves(t, "busy", nextChunk[t], leases[t], toServer[t], Append(toClient[t], Frame("busy")))
        BY <1>u, <2>1, <3>1 DEF Serves
      <3>r. Row(call[t], t \in reader, posted[t], delivered[t], published[t], consumed[t], "busy",
                nextChunk[t], leases[t], toServer[t], Append(toClient[t], Frame("busy")))
        BY <2>1, <3>4, AdmitAt
      <3> QED BY <1>v, <3>2, <3>3, <3>s, <3>r, WorkStep
    <2> QED BY <2>2, <2>3
  <1>3. CASE acquire_tx_window(t)
    <2>1. serving[t] = "tx" /\ leases[t] = 0
      BY <1>3, AdmitAt DEF acquire_tx_window
    <2>2. CASE FreeWindows > 0
      <3>1. /\ serving' = [serving EXCEPT ![t] = "spare"] /\ toClient' = [toClient EXCEPT ![t] = toClient[t]]
            /\ leases' = [leases EXCEPT ![t] = 1] /\ UNCHANGED permits
        BY <1>3, <2>2, Unmoved DEF acquire_tx_window, Serve
      <3>2. CountsMove(t, posted[t], nextChunk[t], 1)
        BY <1>u, <2>1, <2>2, <3>1, RowAt DEF CountsMove
      <3>3. "spare" \in TaskStates \ {"failed", "aborted"} /\ serving[t] \in Working \cup {"incoming"}
        BY <2>1
      <3>s. Serves(t, "spare", nextChunk[t], 1, toServer[t], toClient[t])
        BY <1>u, <3>1 DEF Serves
      <3>r. Row(call[t], t \in reader, posted[t], delivered[t], published[t], consumed[t], "spare",
                nextChunk[t], 1, toServer[t], toClient[t])
        BY <2>1, AdmitAt
      <3> QED BY <1>v, <3>2, <3>3, <3>s, <3>r, WorkStep
    <2>3. CASE ~(FreeWindows > 0)
      <3>1. /\ serving' = [serving EXCEPT ![t] = "busy"] /\ permits' = permits \ {t}
            /\ leases' = [leases EXCEPT ![t] = 0]
            /\ toClient' = [toClient EXCEPT ![t] = Append(toClient[t], Frame("busy"))]
        BY <1>3, <2>3 DEF acquire_tx_window, reject_piece_transient, GiveBack, Serve, SendClient
      <3>2. CountsMove(t, posted[t], nextChunk[t], 0)
        BY <1>u, <2>1, <3>1, RowAt DEF CountsMove
      <3>3. "busy" \in TaskStates \ {"failed", "aborted"} /\ serving[t] \in Working \cup {"incoming"}
        BY <2>1
      <3>s. Serves(t, "busy", nextChunk[t], 0, toServer[t], Append(toClient[t], Frame("busy")))
        BY <1>u, <3>1 DEF Serves
      <3>r. Row(call[t], t \in reader, posted[t], delivered[t], published[t], consumed[t], "busy",
                nextChunk[t], 0, toServer[t], Append(toClient[t], Frame("busy")))
        BY <2>1, AdmitAt
      <3> QED BY <1>v, <3>2, <3>3, <3>s, <3>r, WorkStep
    <2> QED BY <2>2, <2>3
  <1>4. CASE ready(t)
    <2>1. serving[t] = "spare" /\ leases[t] = 1
      BY <1>4, AdmitAt DEF ready
    <2>2. PICK l \in {1, 2} : leases' = [leases EXCEPT ![t] = l] /\ (l = 1 \/ FreeWindows > 0)
      BY <1>4, <2>1, Unmoved DEF ready, TakeSpare
    <2>3. /\ serving' = [serving EXCEPT ![t] = "credit"] /\ UNCHANGED permits
          /\ toClient' = [toClient EXCEPT ![t] = Append(toClient[t], Frame("ready"))]
      BY <1>4 DEF ready, Serve, SendClient
    <2>4. CountsMove(t, posted[t], nextChunk[t], l)
      BY <1>u, <2>1, <2>2, <2>3, RowAt DEF CountsMove
    <2>5. "credit" \in TaskStates \ {"failed", "aborted"} /\ serving[t] \in Working \cup {"incoming"}
      BY <2>1
    <2>s. Serves(t, "credit", nextChunk[t], l, toServer[t], Append(toClient[t], Frame("ready")))
      BY <1>u, <2>2, <2>3 DEF Serves
    <2>r. Row(call[t], t \in reader, posted[t], delivered[t], published[t], consumed[t], "credit",
              nextChunk[t], l, toServer[t], Append(toClient[t], Frame("ready")))
      BY <2>1, AdmitAt
    <2> QED BY <1>v, <2>4, <2>5, <2>s, <2>r, WorkStep
  <1> QED BY <1>1, <1>2, <1>3, <1>4

\* What the server sends, as it finds the transfer.
LEMMA SendAt ==
  ASSUME SessionInv, NEW t \in Transfers
  PROVE  /\ serving[t] = "credit" /\ toServer[t] # <<>> =>
               /\ nextChunk[t] < Chunks
               /\ Head(toServer[t]) = Posted(Window(nextChunk[t]))
               /\ Row(call[t], t \in reader, posted[t], delivered[t], published[t], consumed[t], "permit",
                      nextChunk[t], leases[t], Tail(toServer[t]), toClient[t])
         /\ serving[t] = "permit" =>
               Row(call[t], t \in reader, posted[t], delivered[t], published[t], consumed[t], "sending",
                   nextChunk[t], leases[t], toServer[t], toClient[t])
         /\ serving[t] = "sending" =>
               /\ nextChunk[t] < After(nextChunk[t]) /\ After(nextChunk[t]) <= posted[t]
               /\ After(nextChunk[t]) = Chunks =>
                     Row(call[t], t \in reader, posted[t], delivered[t], published[t], consumed[t], "finish",
                         After(nextChunk[t]), 0, toServer[t], toClient[t])
               /\ \A l \in 0 .. 2 : After(nextChunk[t]) # Chunks =>
                     Row(call[t], t \in reader, posted[t], delivered[t], published[t], consumed[t], "credit",
                         After(nextChunk[t]), l, toServer[t], toClient[t])
         /\ serving[t] = "finish" =>
               Row(call[t], t \in reader, posted[t], delivered[t], published[t], consumed[t], "done",
                   nextChunk[t], leases[t], toServer[t], Append(toClient[t], Frame("done")))
  <1>1. Row(call[t], t \in reader, posted[t], delivered[t], published[t], consumed[t],
            serving[t], nextChunk[t], leases[t], toServer[t], toClient[t])
    BY RowAt
  <1> QED BY ONLY <1>1, SendRow, Zenon

\* The windows that the server fills are always those the client posted receives for.
LEMMA ReceivePostedStep ==
  ASSUME SessionInv, NEW t \in Transfers, ReceivePosted(t)
  PROVE  SessionInv'
  <1> USE DEF laneVars, pumpVars, taskVars, wireVars
  <1>1. serving[t] = "credit" /\ toServer[t] # <<>>
    BY DEF ReceivePosted
  <1>2. nextChunk[t] \in Nat /\ nextChunk[t] < Chunks
    BY <1>1, SendAt, RowAt
  <1>3. /\ Head(toServer[t]) = Posted(Window(nextChunk[t]))
        /\ tx_window_chunk_lengths(LengthOf(0, nextChunk[t])).count = Window(nextChunk[t]).count
        /\ tx_window_chunk_lengths(LengthOf(0, nextChunk[t])).length
              = LengthOf(Window(nextChunk[t]).start, Window(nextChunk[t]).count)
    <2>1. Window(nextChunk[t]).start = nextChunk[t]
      BY DEF Window
    <2> QED BY <1>1, <1>2, <2>1, SendAt, LeaseFits
  <1>4. /\ Serve(t, "permit") /\ UNCHANGED <<serverLane, toClient, taskVars>> /\ TakeServer(t)
        /\ UNCHANGED <<limits, clientLane, sessionSlot, sticky, handling, call, pumpVars, native, fault>>
    BY <1>3 DEF ReceivePosted
  <1>5. CountsMove(t, posted[t], nextChunk[t], leases[t])
    BY <1>4, CountsUnmoved
  <1>6. /\ serving' = [serving EXCEPT ![t] = "permit"] /\ nextChunk' = [nextChunk EXCEPT ![t] = nextChunk[t]]
        /\ leases' = [leases EXCEPT ![t] = leases[t]] /\ toClient' = [toClient EXCEPT ![t] = toClient[t]]
        /\ toServer' = [toServer EXCEPT ![t] = Tail(toServer[t])]
    BY <1>4, Unmoved DEF Serve, TakeServer
  <1>7. "permit" \in TaskStates \ {"failed", "aborted"} /\ serving[t] \in Working \cup {"incoming"}
    BY <1>1 DEF TaskStates, Working
  <1>v. UNCHANGED <<laneVars, handling, fault>>
    BY <1>4
  <1>s. Serves(t, "permit", nextChunk[t], leases[t], Tail(toServer[t]), toClient[t])
    BY <1>4, <1>6 DEF Serves
  <1>r. Row(call[t], t \in reader, posted[t], delivered[t], published[t], consumed[t], "permit",
            nextChunk[t], leases[t], Tail(toServer[t]), toClient[t])
    BY <1>1, SendAt
  <1> QED BY <1>v, <1>5, <1>7, <1>s, <1>r, WorkStep

\* A window is sent and completes; after the last one the task says Done.
LEMMA SendStep ==
  ASSUME SessionInv, NEW t \in Transfers, SendWindow(t) \/ WindowSent(t) \/ SendDone(t)
  PROVE  SessionInv'
  <1> USE DEF laneVars, pumpVars, taskVars, wireVars, TaskStates, TaskEnds, Working
  <1>u. /\ toServer' = [toServer EXCEPT ![t] = toServer[t]]
        /\ UNCHANGED <<laneVars, handling, call, pumpVars, fault>>
    BY Unmoved DEF SendWindow, WindowSent, SendDone
  <1>v. UNCHANGED <<laneVars, handling, fault>>
    BY <1>u
  <1>1. CASE SendWindow(t)
    <2>1. /\ serving[t] = "permit" /\ serving' = [serving EXCEPT ![t] = "sending"]
          /\ nextChunk' = [nextChunk EXCEPT ![t] = nextChunk[t]] /\ leases' = [leases EXCEPT ![t] = leases[t]]
          /\ toClient' = [toClient EXCEPT ![t] = toClient[t]] /\ UNCHANGED <<native, permits>>
      BY <1>1, Unmoved DEF SendWindow, Serve
    <2>2. CountsMove(t, posted[t], nextChunk[t], leases[t])
      BY <2>1, CountsUnmoved
    <2>3. "sending" \in TaskStates \ {"failed", "aborted"} /\ serving[t] \in Working \cup {"incoming"}
      BY <2>1
    <2>s. Serves(t, "sending", nextChunk[t], leases[t], toServer[t], toClient[t])
      BY <1>u, <2>1 DEF Serves
    <2>r. Row(call[t], t \in reader, posted[t], delivered[t], published[t], consumed[t], "sending",
              nextChunk[t], leases[t], toServer[t], toClient[t])
      BY <2>1, SendAt
    <2> QED BY <1>v, <2>2, <2>3, <2>s, <2>r, WorkStep
  <1>2. CASE WindowSent(t)
    <2> DEFINE x == nextChunk[t]
    <2>1. /\ serving[t] = "sending" /\ x \in Nat /\ SendCount(t) = After(x) - x /\ x + SendCount(t) = After(x)
          /\ After(x) \in Int
      BY <1>2, RowAt, ShapeFacts DEF WindowSent, SendCount, Window, After, Smaller
    <2>2. /\ native' = native - (After(x) - x) /\ nextChunk' = [nextChunk EXCEPT ![t] = After(x)]
          /\ toClient' = [toClient EXCEPT ![t] = toClient[t]]
      BY <1>2, <2>1, Unmoved DEF WindowSent
    <2>3. CASE After(x) = Chunks
      <3>1. /\ serving' = [serving EXCEPT ![t] = "finish"] /\ leases' = [leases EXCEPT ![t] = 0]
            /\ permits' = permits \ {t}
        BY <1>2, <2>1, <2>3 DEF WindowSent, Serve, GiveBack
      <3>2. CountsMove(t, posted[t], After(x), 0)
        BY <2>1, <2>2, <3>1, RowAt DEF CountsMove
      <3>3. "finish" \in TaskStates \ {"failed", "aborted"} /\ serving[t] \in Working \cup {"incoming"}
        BY <2>1
      <3>s. Serves(t, "finish", After(x), 0, toServer[t], toClient[t])
        BY <1>u, <2>2, <3>1 DEF Serves
      <3>r. Row(call[t], t \in reader, posted[t], delivered[t], published[t], consumed[t], "finish",
                After(x), 0, toServer[t], toClient[t])
        BY <2>1, <2>3, SendAt
      <3> QED BY <1>v, <3>2, <3>3, <3>s, <3>r, WorkStep
    <2>4. CASE After(x) # Chunks
      <3> DEFINE l == ReleaseSpare(leases[t])
      <3>1. /\ serving' = [serving EXCEPT ![t] = "credit"] /\ leases' = [leases EXCEPT ![t] = l]
            /\ permits' = permits
        BY <1>2, <2>1, <2>4 DEF WindowSent, Serve
      <3>2. l \in 0 .. 2 /\ l <= leases[t]
        <4>1. leases[t] \in Nat /\ leases[t] <= 2
          BY RowAt, RowTypes
        <4> QED BY <4>1 DEF ReleaseSpare, Smaller
      <3>3. CountsMove(t, posted[t], After(x), l)
        BY <2>1, <2>2, <3>1, <3>2, RowAt DEF CountsMove
      <3>4. "credit" \in TaskStates \ {"failed", "aborted"} /\ serving[t] \in Working \cup {"incoming"}
        BY <2>1
      <3> HIDE DEF l
      <3>s. Serves(t, "credit", After(x), l, toServer[t], toClient[t])
        BY <1>u, <2>2, <3>1 DEF Serves
      <3>r. Row(call[t], t \in reader, posted[t], delivered[t], published[t], consumed[t], "credit",
                After(x), l, toServer[t], toClient[t])
        BY <2>1, <2>4, <3>2, SendAt
      <3> QED BY <1>v, <3>3, <3>4, <3>s, <3>r, WorkStep
    <2> QED BY <2>3, <2>4
  <1>3. CASE SendDone(t)
    <2>1. /\ serving[t] = "finish" /\ serving' = [serving EXCEPT ![t] = "done"]
          /\ nextChunk' = [nextChunk EXCEPT ![t] = nextChunk[t]] /\ leases' = [leases EXCEPT ![t] = leases[t]]
          /\ toClient' = [toClient EXCEPT ![t] = Append(toClient[t], Frame("done"))] /\ UNCHANGED <<native, permits>>
      BY <1>3, Unmoved DEF SendDone, Serve, SendClient
    <2>2. CountsMove(t, posted[t], nextChunk[t], leases[t])
      BY <2>1, CountsUnmoved
    <2>3. "done" \in TaskStates \ {"failed", "aborted"} /\ serving[t] \in Working \cup {"incoming"}
      BY <2>1
    <2>s. Serves(t, "done", nextChunk[t], leases[t], toServer[t], Append(toClient[t], Frame("done")))
      BY <1>u, <2>1 DEF Serves
    <2>r. Row(call[t], t \in reader, posted[t], delivered[t], published[t], consumed[t], "done",
              nextChunk[t], leases[t], toServer[t], Append(toClient[t], Frame("done")))
      BY <2>1, SendAt
    <2> QED BY <1>v, <2>2, <2>3, <2>s, <2>r, WorkStep
  <1> QED BY <1>1, <1>2, <1>3

\* Receives that a cancelled client never posts are no fault, but its reader has left.
LEMMA ServerFailsStep ==
  ASSUME SessionInv, NEW t \in Transfers, ServerFails(t) \/ ServerClosed(t)
  PROVE  SessionInv'
  <1> USE DEF laneVars, pumpVars, taskVars, wireVars
  <1>1. /\ serving[t] \in Working /\ AbortServer(t)
        /\ UNCHANGED <<limits, clientLane, sessionSlot, sticky, handling, call, pumpVars, toServer, native>>
    BY DEF ServerFails, ServerClosed
  <1>2. fault' \in BOOLEAN /\ (fault => fault') /\ (fault' \/ Excused)
    <2>1. CASE ServerClosed(t)
      BY <2>1 DEF ServerClosed, Excused, SessionInv, LaneTypes
    <2>2. CASE ServerFails(t)
      <3>1. fault' = (fault \/ ~(serving[t] = "credit" /\ call[t] = "cancelled"))
        BY <2>2 DEF ServerFails
      <3>2. call[t] = "cancelled" => Excused
        BY RowAt DEF Row, Excused
      <3> QED BY <3>1, <3>2
    <2> QED BY <2>1, <2>2
  <1>3. serverLane' = "failed" /\ serverLane # "closed" /\ clientLane \in {"up", "broken", "failed"} /\ call[t] # "dial"
    BY <1>1, ServedAt DEF AbortServer
  <1>4. LaneMoves
    <2>1. sticky' \in BOOLEAN
      BY <1>1 DEF SessionInv, LaneTypes
    <2> QED BY <1>1, <1>2, <1>3, <2>1 DEF LaneMoves
  <1>5. /\ serving' = [serving EXCEPT ![t] = "failed"] /\ leases' = [leases EXCEPT ![t] = 0]
        /\ nextChunk' = [nextChunk EXCEPT ![t] = nextChunk[t]] /\ toServer' = [toServer EXCEPT ![t] = toServer[t]]
        /\ permits' = permits \ {t}
    BY <1>1, Unmoved DEF AbortServer, Serve, GiveBack
  <1>6. PICK in \in {toClient[t], Append(toClient[t], Frame("error"))} : toClient' = [toClient EXCEPT ![t] = in]
    BY <1>1, Unmoved DEF AbortServer, SendClient
  <1>7. Row(call[t], t \in reader, posted[t], delivered[t], published[t], consumed[t], "failed", nextChunk[t], 0,
            toServer[t], in)
    <2>1. /\ Row(call[t], t \in reader, posted[t], delivered[t], published[t], consumed[t],
                 serving[t], nextChunk[t], leases[t], toServer[t], toClient[t])
          /\ serving[t] \in Working \cup {"incoming"} /\ "failed" \in {"failed", "aborted"}
      BY <1>1, RowAt
    <2>2. /\ Row(call[t], t \in reader, posted[t], delivered[t], published[t], consumed[t], "failed", nextChunk[t], 0,
                 toServer[t], toClient[t])
          /\ Row(call[t], t \in reader, posted[t], delivered[t], published[t], consumed[t], "failed", nextChunk[t], 0,
                 toServer[t], Append(toClient[t], Frame("error")))
      BY ONLY <2>1, EndRow, Zenon
    <2> QED BY <1>6, <2>2
  <1>8. CountsMove(t, posted[t], nextChunk[t], 0)
    BY <1>1, <1>5, RowAt DEF CountsMove
  <1>9. "failed" \in TaskStates
    BY DEF TaskStates, TaskEnds
  <1>s. Serves(t, "failed", nextChunk[t], 0, toServer[t], in)
    BY <1>1, <1>5, <1>6 DEF Serves
  <1>v. clientLane' = clientLane /\ serverLane' # "closed" /\ ("failed" \in {"failed", "aborted"} => serverLane' = "failed")
    BY <1>1, <1>3
  <1> QED BY <1>3, <1>4, <1>7, <1>8, <1>9, <1>s, <1>v, ServeStep

-----------------------------------------------------------------------------
(* UrmaSession: the session slot, the control connection and the lane.        *)

\* A lane with its transfers, where neither they nor a fault change.
LEMMA LaneOnly ==
  ASSUME SessionInv, UNCHANGED <<limits, sessionSlot, sticky, call, pumpVars, serving, taskVars, wireVars, native>>,
         clientLane' \in {clientLane, "broken"}, clientLane' # clientLane => clientLane = "up",
         serverLane' \in {"none", "up", "broken", "failed", "closed"},
         handling' \in {"none", "accepting", "joining", "ended"},
         serverLane' = "closed" => handling' = "ended",
         fault' \in BOOLEAN, fault => fault',
         \A t \in Transfers : LaneRow(call[t], serving[t], toServer[t], clientLane', serverLane'),
         LaneKept'
  PROVE  SessionInv'
  <1>1. TransferTypes' /\ Rows' /\ SessionCounts'
    BY LaneStep
  <1>2. LaneTypes'
    BY DEF SessionInv, LaneTypes, taskVars
  <1>3. SlotInv'
    BY DEF SessionInv, SlotInv
  <1> QED BY <1>1, <1>2, <1>3 DEF SessionInv

\* Before its lane is there no transfer is at the server.
LEMMA NobodyServed ==
  ASSUME SessionInv, clientLane \in {"none", "dialing"}, NEW t \in Transfers
  PROVE  /\ serving[t] = "none" /\ toServer[t] = <<>>
         /\ call[t] \notin Pumping \cup {"request", "awaiting", "done", "busy", "cancelled"}
  BY RowAt DEF LaneRow

\* The call takes the session, or the slot to make one.
LEMMA HandleDownloadStep ==
  ASSUME SessionInv, NEW t \in Transfers, handle_download(t)
  PROVE  SessionInv'
  <1> USE DEF laneVars, pumpVars, taskVars, wireVars
  <1>1. /\ call[t] = "new" /\ sessionSlot = None
        /\ UNCHANGED <<limits, serverLane, sticky, handling, pumpVars, serving, taskVars, wireVars, native, fault>>
    BY DEF handle_download
  <1>2. serving[t] = "none" /\ toServer[t] = <<>> /\ \A c2 \in {"dial", "request", "failed"} :
           Row(c2, t \in reader, posted[t], delivered[t], published[t], consumed[t], serving[t], nextChunk[t],
               leases[t], toServer[t], toClient[t])
    BY <1>1, RowAt, CallRow
  <1>3. ASSUME NEW c2 \in {"dial", "request", "failed"}, Goto(t, c2)
        PROVE  /\ Becomes(t, c2, posted[t], delivered[t], published[t], consumed[t], serving[t], nextChunk[t],
                          leases[t], toServer[t], toClient[t])
               /\ reader' \in {reader, reader \ {t}} /\ c2 \in CallStates /\ serving[t] \in TaskStates
               /\ Row(c2, t \in reader', posted[t], delivered[t], published[t], consumed[t], serving[t], nextChunk[t],
                      leases[t], toServer[t], toClient[t])
               /\ CountsMove(t, posted[t], nextChunk[t], leases[t])
    <2>1. Becomes(t, c2, posted[t], delivered[t], published[t], consumed[t], serving[t], nextChunk[t],
                  leases[t], toServer[t], toClient[t])
      BY <1>1, <1>3, Unmoved DEF Becomes, Goto
    <2>2. reader' = reader /\ c2 \in CallStates
      BY <1>1, <1>3 DEF CallStates, CallEnds
    <2>3. CountsMove(t, posted[t], nextChunk[t], leases[t])
      BY <1>1, CountsUnmoved
    <2> QED BY <1>2, <1>3, <2>1, <2>2, <2>3, RowAt
  <1>4. clientLane # "dialing"
    BY <1>1 DEF SessionInv, SlotInv
  <1>5. ASSUME NEW c2 \in {"request", "failed"}, Goto(t, c2), UNCHANGED <<sessionSlot, clientLane>>,
               c2 = "request" => clientLane # "none"
        PROVE  SessionInv'
    <2>1. LaneMoves
      BY <1>1, <1>5, LaneUnmoved
    <2>2. clientLane \in {"none", "dialing", "up", "broken", "failed"}
      BY DEF SessionInv, LaneTypes
    <2>3. LaneRow(c2, serving[t], toServer[t], clientLane', serverLane')
      BY <1>2, <1>4, <1>5, <2>2 DEF LaneRow, Pumping, Working
    <2>4. c2 # "dial" /\ call[t] # "dial"
      BY <1>1, <1>5
    <2> QED BY <1>3, <1>5, <2>1, <2>3, <2>4, TransferStep
  <1>6. CASE Goto(t, "dial") /\ sessionSlot' = t /\ clientLane' = "dialing" /\ clientLane = "none"
    <2>1. LaneRow("dial", serving[t], toServer[t], clientLane', serverLane')
      BY <1>2 DEF LaneRow, Pumping, Working
    <2>2. TransferTypes' /\ Rows' /\ SessionCounts'
      BY <1>1, <1>3, <1>6, <2>1, RowsStep
    <2>3. LaneTypes'
      BY <1>1, <1>6 DEF SessionInv, LaneTypes
    <2>4. SlotInv'
      <3>1. \A v \in Transfers : call'[v] = "dial" <=> v = t
        BY <1>1, <1>6, TransfersAssumption DEF SessionInv, TransferTypes, SlotInv, Goto
      <3> QED BY <1>1, <1>6, <3>1, TransfersAssumption DEF SessionInv, SlotInv
    <2>5. LaneKept'
      BY <1>1, <1>6 DEF SessionInv, LaneKept
    <2> QED BY <2>2, <2>3, <2>4, <2>5 DEF SessionInv
  <1> QED BY <1>5, <1>6 DEF handle_download

\* The session is in the slot, or the slot is empty again.
LEMMA ConnectStep ==
  ASSUME SessionInv, NEW t \in Transfers, connect(t)
  PROVE  SessionInv'
  <1> USE DEF laneVars, pumpVars, taskVars, wireVars
  <1>1. /\ call[t] = "dial" /\ sessionSlot' = None
        /\ UNCHANGED <<limits, sticky, handling, pumpVars, serving, taskVars, wireVars, native>>
    BY DEF connect
  <1>2. sessionSlot = t /\ clientLane = "dialing"
    BY <1>1, TransfersAssumption DEF SessionInv, SlotInv
  <1>3. PICK c2 \in {"request", "failed"} :
           /\ Goto(t, c2)
           /\ \/ c2 = "request" /\ serverLane = "up" /\ clientLane' = "up" /\ UNCHANGED <<serverLane, fault>>
              \/ /\ c2 = "failed" /\ clientLane' = "none" /\ fault' = TRUE
                 /\ serverLane' = (IF serverLane = "up" THEN "broken" ELSE serverLane)
    BY DEF connect, Faults
  <1>4. serving[t] = "none" /\ toServer[t] = <<>>
    BY <1>2, NobodyServed
  <1>5. Becomes(t, c2, posted[t], delivered[t], published[t], consumed[t], serving[t], nextChunk[t],
                leases[t], toServer[t], toClient[t])
    BY <1>1, <1>3, Unmoved DEF Becomes, Goto
  <1>6. Row(c2, t \in reader', posted[t], delivered[t], published[t], consumed[t], serving[t], nextChunk[t],
            leases[t], toServer[t], toClient[t])
    BY <1>1, <1>3, RowAt, CallRow
  <1>7. CountsMove(t, posted[t], nextChunk[t], leases[t])
    BY <1>1, CountsUnmoved
  <1>8. LaneRow(c2, serving[t], toServer[t], clientLane', serverLane')
    BY <1>3, <1>4 DEF LaneRow, Pumping, Working
  <1>9. TransferTypes' /\ Rows' /\ SessionCounts'
    <2>1. /\ clientLane \in {"up", "broken", "failed"} => clientLane' \in {"up", "broken", "failed"}
          /\ serverLane = "failed" => serverLane' = "failed"
          /\ serverLane' = "closed" => serverLane = "closed"
          /\ limits' = limits /\ reader' \in {reader, reader \ {t}}
          /\ c2 \in CallStates /\ serving[t] \in TaskStates
      BY <1>1, <1>2, <1>3, RowAt DEF CallStates, CallEnds
    <2> QED BY <1>5, <1>6, <1>7, <1>8, <2>1, RowsStep
  <1>10. LaneTypes'
    BY <1>1, <1>3 DEF SessionInv, LaneTypes
  <1>11. SlotInv'
    <2>1. \A v \in Transfers : call'[v] # "dial"
      BY <1>2, <1>3 DEF SessionInv, TransferTypes, SlotInv, Goto
    <2>2. serverLane' = "closed" => handling' = "ended"
      BY <1>1, <1>3 DEF SessionInv, SlotInv
    <2> QED BY <1>1, <1>3, <2>1, <2>2, TransfersAssumption DEF SlotInv
  <1>12. LaneKept'
    BY <1>3 DEF LaneKept
  <1> QED BY <1>9, <1>10, <1>11, <1>12 DEF SessionInv

\* A late frame of the server finds a call that was retired; none of the client's comes late.
LEMMA RoutesStep ==
  ASSUME SessionInv, NEW t \in Transfers, Routes(t)
  PROVE  SessionInv'
  <1> USE DEF laneVars, pumpVars, taskVars, wireVars
  <1>1. CASE ClientRoutes(t)
    <2>1. /\ clientLane = "up" /\ call[t] \in CallEnds /\ toClient[t] # <<>> /\ TakeClient(t)
          /\ clientLane' = (IF RetiredAtClient(t) THEN clientLane ELSE "broken")
          /\ UNCHANGED <<limits, serverLane, sessionSlot, sticky, handling, call, pumpVars, serving, taskVars,
                         toServer, native, fault>>
      BY <1>1 DEF ClientRoutes
    <2>2. call[t] \in {"failed", "cancelled"}
      BY <2>1, FrameAt DEF CallEnds
    <2>3. LaneMoves
      BY <2>1, <2>2, LaneUnmoved DEF RetiredAtClient
    <2>4. Becomes(t, call[t], posted[t], delivered[t], published[t], consumed[t], serving[t], nextChunk[t],
                  leases[t], toServer[t], Tail(toClient[t]))
      BY <2>1, Unmoved DEF Becomes, TakeClient
    <2>5. Row(call[t], t \in reader', posted[t], delivered[t], published[t], consumed[t], serving[t], nextChunk[t],
              leases[t], toServer[t], Tail(toClient[t]))
      BY <2>1, <2>2, FrameAt
    <2>6. /\ clientLane' \in {"up", "broken", "failed"} /\ serverLane' = serverLane /\ permits' = permits
          /\ native' = native + (posted[t] - posted[t]) /\ call[t] # "dial" /\ call[t] \in CallStates
          /\ reader' \in {reader, reader \ {t}}
      BY <2>1, <2>2, RowAt DEF CallStates, CallEnds
    <2> QED BY <2>3, <2>4, <2>5, <2>6, CallStep
  <1>2. CASE ServerRoutes(t)
    <2>1. /\ serverLane = "up" /\ serving[t] \in TaskEnds
          /\ toServer[t] # <<>> /\ Head(toServer[t]).type = "posted"
      BY <1>2 DEF ServerRoutes, ServerHas
    <2>2. serving[t] \in {"failed", "aborted"}
      BY <2>1, AdmitAt
    <2>3. serverLane = "failed"
      BY <2>2, RowAt DEF LaneRow
    <2> QED BY <2>1, <2>3
  <1> QED BY <1>1, <1>2 DEF Routes

\* The server makes its side of the lane while nobody is served.
LEMMA RunStep ==
  ASSUME SessionInv, run
  PROVE  SessionInv'
  <1> USE DEF laneVars, pumpVars, taskVars, wireVars
  <1>1. /\ clientLane = "dialing" /\ serverLane' = "up" /\ handling' = "accepting"
        /\ UNCHANGED <<limits, clientLane, sessionSlot, sticky, call, pumpVars, serving, taskVars, wireVars, native, fault>>
    BY DEF run, accept
  <1>2. \A t \in Transfers : LaneRow(call[t], serving[t], toServer[t], clientLane', serverLane')
    <2> SUFFICES ASSUME NEW t \in Transfers
                 PROVE  LaneRow(call[t], serving[t], toServer[t], clientLane', serverLane')
      OBVIOUS
    <2> QED BY <1>1, NobodyServed DEF LaneRow, Working
  <1>3. LaneKept'
    BY <1>1 DEF LaneKept
  <1>4. fault' \in BOOLEAN
    BY <1>1 DEF SessionInv, LaneTypes
  <1> QED BY <1>1, <1>2, <1>3, <1>4, LaneOnly

\* The loop ends: the tasks are aborted where they are, with the lane.
LEMMA HandleEndsStep ==
  ASSUME SessionInv, HandleEnds
  PROVE  SessionInv'
  <1> USE DEF laneVars, pumpVars, taskVars, wireVars
  <1>1. /\ serverLane \in {"failed", "broken"} /\ handling' = "ended" /\ serverLane' = "failed" /\ permits' = {}
        /\ serving' = [t \in Transfers |-> IF serving[t] \in Working \cup {"incoming"} THEN "aborted" ELSE serving[t]]
        /\ leases' = [t \in Transfers |-> 0]
        /\ UNCHANGED <<limits, clientLane, sessionSlot, sticky, call, pumpVars, nextChunk, wireVars, native, fault>>
    BY DEF HandleEnds
  <1>2. TransferTypes'
    <2>1. \A t \in Transfers : serving'[t] \in TaskStates
      BY <1>1, RowAt DEF TaskStates, TaskEnds
    <2> QED BY <1>1, <2>1 DEF SessionInv, TransferTypes
  <1>3. Rows'
    <2> SUFFICES ASSUME NEW t \in Transfers PROVE RowOf(t)' /\ LaneRowOf(t)'
      BY DEF Rows
    <2>1. /\ Row(call[t], t \in reader, posted[t], delivered[t], published[t], consumed[t],
                 serving[t], nextChunk[t], leases[t], toServer[t], toClient[t])
          /\ serving[t] \in TaskStates
          /\ LaneRow(call[t], serving[t], toServer[t], clientLane, serverLane)
      BY RowAt
    <2>2. "aborted" \in {"failed", "aborted"}
      OBVIOUS
    <2>3. serving[t] \in Working \cup {"incoming"} =>
             Row(call[t], t \in reader, posted[t], delivered[t], published[t], consumed[t],
                 "aborted", nextChunk[t], 0, toServer[t], toClient[t])
      BY ONLY <2>1, <2>2, EndRow, Zenon
    <2>4. serving[t] \in TaskEnds =>
             Row(call[t], t \in reader, posted[t], delivered[t], published[t], consumed[t],
                 serving[t], nextChunk[t], 0, toServer[t], toClient[t])
      BY ONLY <2>1, EndRow, Zenon
    <2>5. leases'[t] = 0 /\ serving'[t] = IF serving[t] \in Working \cup {"incoming"} THEN "aborted" ELSE serving[t]
      BY <1>1
    <2>6. Row(call[t], t \in reader, posted[t], delivered[t], published[t], consumed[t],
              serving'[t], nextChunk[t], 0, toServer[t], toClient[t])
      BY <2>1, <2>3, <2>4, <2>5 DEF TaskStates
    <2>7. RowOf(t)'
      BY <1>1, <2>5, <2>6 DEF RowOf
    <2>8. LaneRow(call[t], serving'[t], toServer[t], clientLane, "failed")
      BY <2>1, <2>5 DEF LaneRow, Working
    <2> QED BY <1>1, <2>7, <2>8 DEF LaneRowOf
  <1>4. SessionCounts'
    <2>1. native' = Cardinality(Between(Transfers, nextChunk', posted'))
      BY <1>1 DEF SessionInv, SessionCounts
    <2>2. FreeWindows' = TxWindows
      <3>1. Between(Transfers, [t \in Transfers |-> 0], leases') = {}
        BY <1>1 DEF Between
      <3>2. Cardinality({}) = 0
        BY FS_EmptySet
      <3> QED BY <3>1, <3>2, DepthAssumption DEF FreeWindows
    <2>3. Cardinality(permits') = 0
      BY <1>1, FS_EmptySet
    <2>4. TxWindows \in Nat /\ limits'.process \in Nat
      BY <1>1, DepthAssumption, LimitsAssumption DEF SessionInv, LaneTypes
    <2> QED BY <2>1, <2>2, <2>3, <2>4 DEF SessionCounts
  <1>5. LaneTypes' /\ SlotInv'
    BY <1>1 DEF SessionInv, LaneTypes, SlotInv
  <1>6. LaneKept'
    BY <1>1 DEF SessionInv, LaneKept
  <1> QED BY <1>2, <1>3, <1>4, <1>5, <1>6 DEF SessionInv

\* Nobody works on a lane that its loop closes for idleness.
LEMMA HandleIdleStep ==
  ASSUME SessionInv, HandleIdle
  PROVE  SessionInv'
  <1> USE DEF laneVars, pumpVars, taskVars, wireVars
  <1>1. /\ serverLane = "up"
        /\ \A t \in Transfers : serving[t] # "incoming"
        /\ \/ handling' = "joining" /\ UNCHANGED serverLane
           \/ /\ \A t \in Transfers : serving[t] \notin Working
              /\ handling' = "ended" /\ serverLane' = "closed"
        /\ UNCHANGED <<limits, clientLane, sessionSlot, sticky, call, pumpVars, serving, taskVars, wireVars, native, fault>>
    BY DEF HandleIdle
  <1>2. \A t \in Transfers : LaneRow(call[t], serving[t], toServer[t], clientLane', serverLane')
    <2> SUFFICES ASSUME NEW t \in Transfers
                 PROVE  LaneRow(call[t], serving[t], toServer[t], clientLane', serverLane')
      OBVIOUS
    <2>1. LaneRow(call[t], serving[t], toServer[t], clientLane, serverLane)
      BY RowAt
    <2> QED BY <1>1, <2>1 DEF LaneRow
  <1>3. LaneKept'
    BY <1>1 DEF SessionInv, LaneKept
  <1>4. fault' \in BOOLEAN
    BY <1>1 DEF SessionInv, LaneTypes
  <1> QED BY <1>1, <1>2, <1>3, <1>4, LaneOnly

\* The loop goes on when all its tasks have ended.
LEMMA HandleJoinsStep ==
  ASSUME SessionInv, HandleJoins
  PROVE  SessionInv'
  <1> USE DEF laneVars, pumpVars, taskVars, wireVars
  <1>1. /\ handling = "joining" /\ handling' = "accepting"
        /\ UNCHANGED <<limits, clientLane, serverLane, sessionSlot, sticky, call, pumpVars, serving, taskVars, wireVars,
                       native, fault>>
    BY DEF HandleJoins
  <1>2. serverLane # "closed" /\ serverLane' \in {"none", "up", "broken", "failed", "closed"} /\ fault' \in BOOLEAN
    BY <1>1 DEF SessionInv, SlotInv, LaneTypes
  <1>3. \A t \in Transfers : LaneRow(call[t], serving[t], toServer[t], clientLane', serverLane')
    BY <1>1, RowAt
  <1>4. LaneKept'
    BY <1>1 DEF SessionInv, LaneKept
  <1> QED BY <1>1, <1>2, <1>3, <1>4, LaneOnly

\* A side reads the end of the connection, or the connection breaks: never without a cause.
LEMMA LinkStep ==
  ASSUME SessionInv, ReadEnds \/ LinkBreaks
  PROVE  SessionInv'
  <1> USE DEF laneVars, pumpVars, taskVars, wireVars
  <1>1. /\ \/ clientLane = "up" /\ clientLane' = "broken" /\ UNCHANGED serverLane
           \/ serverLane = "up" /\ serverLane' = "broken" /\ UNCHANGED clientLane
        /\ UNCHANGED <<limits, sessionSlot, sticky, handling, call, pumpVars, serving, taskVars, wireVars, native>>
    BY DEF ReadEnds, LinkBreaks
  <1>2. fault' \in BOOLEAN /\ (fault => fault')
    BY DEF ReadEnds, LinkBreaks, Faults, SessionInv, LaneTypes
  <1>3. LaneKept'
    BY <1>1 DEF ReadEnds, LinkBreaks, Faults, SessionInv, LaneKept
  <1>4. \A t \in Transfers : LaneRow(call[t], serving[t], toServer[t], clientLane', serverLane')
    <2> SUFFICES ASSUME NEW t \in Transfers
                 PROVE  LaneRow(call[t], serving[t], toServer[t], clientLane', serverLane')
      OBVIOUS
    <2>1. LaneRow(call[t], serving[t], toServer[t], clientLane, serverLane)
      BY RowAt
    <2> QED BY <1>1, <2>1 DEF LaneRow
  <1>5. /\ serverLane' \in {"none", "up", "broken", "failed", "closed"}
        /\ handling' \in {"none", "accepting", "joining", "ended"}
        /\ serverLane' = "closed" => handling' = "ended"
    BY <1>1 DEF SessionInv, LaneTypes, SlotInv
  <1> QED BY <1>1, <1>2, <1>3, <1>4, <1>5, LaneOnly

-----------------------------------------------------------------------------
(* UrmaSession: the invariant.                                                *)

\* The session starts in the invariant.
LEMMA SessionInit ==
  ASSUME Init
  PROVE  SessionInv
  <1>1. LaneTypes
    BY DEF Init, LaneTypes
  <1>2. TransferTypes
    BY DEF Init, TransferTypes, CallStates, TaskStates, TaskEnds
  <1>3. Rows
    <2> SUFFICES ASSUME NEW t \in Transfers PROVE RowOf(t) /\ LaneRowOf(t)
      BY DEF Rows
    <2>1. /\ call[t] = "new" /\ posted[t] = 0 /\ delivered[t] = 0 /\ published[t] = 0 /\ consumed[t] = 0
          /\ serving[t] = "none" /\ nextChunk[t] = 0 /\ leases[t] = 0 /\ toServer[t] = <<>> /\ toClient[t] = <<>>
      BY DEF Init
    <2>2. DivCeil(0, Inflight) <= PipelineDepth
      <3>1. DivCeil(0, Inflight) \in Nat /\ DivCeil(0, Inflight) <= 0
        BY RoundedUp, ShapeFacts
      <3> QED BY <3>1, DepthAssumption
    <2>3. Boundary(0)
      <3>1. 0 \in Nat /\ 0 = 0 * Inflight
        BY ShapeFacts
      <3> QED BY <3>1 DEF Boundary
    <2>4. Stages("new", 0, "none", 0, 0, <<>>, <<>>)
      BY DEF Stages, Live
    <2>5. <<>> \in Seq(ToServerFrames) /\ <<>> \in Seq(ToClientFrames) /\ Len(<<>>) = 0
      OBVIOUS
    <2>6. Row("new", t \in reader, 0, 0, 0, 0, "none", 0, 0, <<>>, <<>>)
      BY <2>2, <2>3, <2>4, <2>5, ShapeFacts DEF Row
    <2>7. LaneRow("new", "none", <<>>, clientLane, serverLane)
      BY DEF LaneRow, Pumping, Working, Init
    <2> QED BY <2>1, <2>6, <2>7 DEF RowOf, LaneRowOf
  <1>4. SlotInv /\ LaneKept
    BY TransfersAssumption DEF Init, SlotInv, LaneKept
  <1>5. SessionCounts
    <2>1. Cardinality({}) = 0
      BY FS_EmptySet
    <2>2. Between(Transfers, nextChunk, posted) = {} /\ Between(Transfers, [t \in Transfers |-> 0], leases) = {}
      BY DEF Init, Between
    <2>3. TxWindows \in Nat /\ limits.process \in Nat
      BY DepthAssumption, LimitsAssumption DEF Init
    <2>4. native = 0 /\ permits = {}
      BY DEF Init
    <2>5. FreeWindows = TxWindows
      BY <2>1, <2>2, <2>3 DEF FreeWindows
    <2> QED BY <2>1, <2>2, <2>3, <2>4, <2>5 DEF SessionCounts
  <1> QED BY <1>1, <1>2, <1>3, <1>4, <1>5 DEF SessionInv

\* What leaves the session alone keeps the invariant.
LEMMA SessionStutter ==
  ASSUME SessionInv, UNCHANGED vars
  PROVE  SessionInv'
  <1> USE DEF vars, laneVars, pumpVars, taskVars, wireVars
  <1>1. \A t \in Transfers : LaneRow(call[t], serving[t], toServer[t], clientLane', serverLane')
    BY RowAt
  <1>2. TransferTypes' /\ Rows' /\ SessionCounts'
    BY <1>1, LaneStep
  <1>3. LaneTypes' /\ SlotInv' /\ LaneKept'
    BY DEF SessionInv, LaneTypes, SlotInv, LaneKept
  <1> QED BY <1>2, <1>3 DEF SessionInv

\* Every step of the session keeps the invariant.
LEMMA SessionNext ==
  ASSUME SessionInv, Next
  PROVE  SessionInv'
  <1>1. ASSUME NEW t \in Transfers, Client(t)
        PROVE  SessionInv'
    <2>1. CASE handle_download(t) \/ connect(t) \/ request_piece(t)
      BY <2>1, HandleDownloadStep, ConnectStep, RequestStep
    <2>2. CASE ReceiveReady(t) \/ PostWindow(t) \/ FillEnds(t) \/ CompleteWindow(t)
      BY <2>2, ReadyStep, PostStep, WindowStep
    <2>3. CASE finish_piece(t) \/ ClientTimesOut(t) \/ ClientClosed(t) \/ ReaderReads(t)
      BY <2>3, FinishStep, ClosedStep, ReaderStep
    <2> QED BY <1>1, <2>1, <2>2, <2>3 DEF Client
  <1>2. ASSUME NEW t \in Transfers, Server(t)
        PROVE  SessionInv'
    <2>1. CASE ReadRequest(t) \/ receive_request(t) \/ acquire_process_transfer(t) \/ acquire_tx_window(t) \/ ready(t)
      BY <2>1, ReadRequestStep, AdmitStep
    <2>2. CASE ReceivePosted(t) \/ SendWindow(t) \/ WindowSent(t) \/ SendDone(t)
      BY <2>2, ReceivePostedStep, SendStep
    <2>3. CASE ServerFails(t) \/ ServerClosed(t)
      BY <2>3, ServerFailsStep
    <2> QED BY <1>2, <2>1, <2>2, <2>3 DEF Server, serve_transfer
  <1>3. ASSUME NEW t \in Transfers, ReaderLeaves(t) \/ Routes(t)
        PROVE  SessionInv'
    BY <1>3, ReaderStep, RoutesStep
  <1>4. CASE Lane \/ HandleIdle \/ LinkBreaks
    BY <1>4, RunStep, HandleEndsStep, HandleJoinsStep, HandleIdleStep, LinkStep DEF Lane
  <1> QED BY <1>1, <1>2, <1>3, <1>4 DEF Next

\* The client's frames are at most the windows of the pipeline, and a request.
LEMMA FramesBounded ==
  ASSUME SessionInv, NEW t \in Transfers
  PROVE  Len(toServer[t]) <= PipelineDepth + 1
  <1> DEFINE p == posted[t]
             k == consumed[t]
             x == nextChunk[t]
             s == serving[t]
  <1>1. /\ p \in Nat /\ k \in Nat /\ x \in Nat /\ p - k \in Nat /\ k <= x /\ x <= p /\ p <= Chunks
        /\ DivCeil(p - k, Inflight) <= PipelineDepth
        /\ toServer[t] \in Seq(ToServerFrames) /\ Len(toServer[t]) \in Nat /\ PipelineDepth \in Nat
    <2>1. Row(call[t], t \in reader, p, delivered[t], published[t], k, s, x, leases[t], toServer[t], toClient[t])
      BY RowAt
    <2>2. /\ p \in Int /\ x \in Int /\ k \in Int /\ 0 <= k /\ k <= x /\ x <= p /\ p <= Chunks
          /\ DivCeil(p - k, Inflight) <= PipelineDepth /\ toServer[t] \in Seq(ToServerFrames)
      BY <2>1, ShapeFacts DEF Row
    <2>3. Len(toServer[t]) \in Nat
      BY ONLY <2>2, LenProperties
    <2> QED BY ONLY <2>2, <2>3, DepthAssumption
  <1>2. CASE s = "none"
    <2>1. toServer[t] \in {<<>>, <<Frame("request")>>}
      BY <1>2, RowAt DEF Row, Stages
    <2>2. Len(toServer[t]) <= 1
      <3>1. Len(<<>>) = 0 /\ Len(<<Frame("request")>>) = 1
        BY ONLY OneFrame, Zenon
      <3>2. Len(toServer[t]) = 0 \/ Len(toServer[t]) = 1
        BY ONLY <2>1, <3>1, Zenon
      <3> DEFINE n == Len(toServer[t])
      <3>3. n \in {0, 1}
        BY ONLY <3>2
      <3> HIDE DEF n
      <3>4. n <= 1
        BY ONLY <3>3
      <3> QED BY ONLY <3>4 DEF n
    <2> QED BY ONLY <1>1, <2>2
  <1>3. CASE s # "none"
    <2>1. Len(toServer[t]) <= Windows(p) - Windows(Cursor(s, x))
      BY <1>3, RowAt DEF Row
    <2>2. Cursor(s, x) \in Nat /\ k <= Cursor(s, x)
      <3>1. CASE s \in {"permit", "sending"}
        <4>1. x # Chunks
          BY <3>1, RowAt DEF Row, Stages, Live
        <4>2. After(x) \in Nat /\ x < After(x)
          BY <1>1, <4>1, AfterFacts, ShapeFacts
        <4> QED BY <1>1, <3>1, <4>2 DEF Cursor
      <3>2. CASE s \notin {"permit", "sending"}
        BY <1>1, <3>2 DEF Cursor
      <3> QED BY <3>1, <3>2
    <2>3. Windows(k) \in Nat /\ Windows(Cursor(s, x)) \in Nat /\ Windows(k) <= Windows(Cursor(s, x))
      BY <1>1, <2>2, WindowsMonotone
    <2>4. Windows(p) \in Nat
      BY <1>1, WindowsMonotone
    <2>5. DivCeil(p - k, Inflight) \in Nat /\ Windows(p) <= Windows(k) + DivCeil(p - k, Inflight)
      <3>1. k + (p - k) = p
        BY <1>1
      <3>2. DivCeil(k + (p - k), Inflight) <= DivCeil(k, Inflight) + DivCeil(p - k, Inflight)
        BY <1>1, RoundedSum, ShapeFacts
      <3>3. DivCeil(p - k, Inflight) \in Nat
        BY <1>1, RoundedUp, ShapeFacts
      <3> QED BY <3>1, <3>2, <3>3 DEF Windows
    <2> QED BY ONLY <1>1, <2>1, <2>3, <2>4, <2>5
  <1> QED BY <1>2, <1>3

\* The invariant is what it is meant to be.
LEMMA SessionIsSafe ==
  ASSUME SessionInv
  PROVE  TypeOK /\ ReceivesPosted /\ CompleteIsConfirmed /\ LaneKept
  <1>1. /\ \A t \in Transfers : /\ nextChunk[t] \in Nat /\ posted[t] \in Nat /\ nextChunk[t] <= posted[t]
                                /\ posted[t] <= Chunks
        /\ IsFiniteSet(Transfers) /\ Cardinality(Transfers) \in Nat /\ Chunks \in Nat
    <2>1. \A t \in Transfers : /\ nextChunk[t] \in Nat /\ posted[t] \in Nat /\ nextChunk[t] <= posted[t]
                                /\ posted[t] <= Chunks
      BY RowAt, RowTypes
    <2> QED BY <2>1, TransfersAssumption, FS_CardinalityType, ShapeFacts
  <1>2. TypeOK
    <2>1. /\ limits \in Limits
          /\ clientLane \in {"none", "dialing", "up", "broken", "failed"}
          /\ serverLane \in {"none", "up", "broken", "failed", "closed"}
          /\ sessionSlot \in Transfers \cup {None}
          /\ sticky \in BOOLEAN
          /\ handling \in {"none", "accepting", "joining", "ended"}
          /\ permits \subseteq Transfers
          /\ fault \in BOOLEAN
          /\ FreeWindows >= 0
          /\ Cardinality(permits) <= limits.process
      BY DEF SessionInv, LaneTypes, SessionCounts
    <2>2. \A t \in Transfers :
             /\ posted[t] \in 0 .. Chunks /\ nextChunk[t] \in 0 .. Chunks /\ leases[t] \in 0 .. 2
             /\ delivered[t] \in 0 .. posted[t] /\ published[t] \in 0 .. delivered[t]
             /\ consumed[t] \in 0 .. published[t]
             /\ WindowsInUse(t) <= PipelineDepth
             /\ Len(toClient[t]) <= 2
      <3> SUFFICES ASSUME NEW t \in Transfers
                   PROVE  /\ posted[t] \in 0 .. Chunks /\ nextChunk[t] \in 0 .. Chunks /\ leases[t] \in 0 .. 2
                          /\ delivered[t] \in 0 .. posted[t] /\ published[t] \in 0 .. delivered[t]
                          /\ consumed[t] \in 0 .. published[t]
                          /\ WindowsInUse(t) <= PipelineDepth
                          /\ Len(toClient[t]) <= 2
        OBVIOUS
      <3>1. Row(call[t], t \in reader, posted[t], delivered[t], published[t], consumed[t],
                serving[t], nextChunk[t], leases[t], toServer[t], toClient[t])
        BY RowAt
      <3> QED BY <1>1, <3>1 DEF Row, WindowsInUse
    <2>3. /\ call \in [Transfers -> {"new", "dial", "request", "awaiting"} \cup Pumping \cup CallEnds]
          /\ serving \in [Transfers -> Working \cup TaskEnds \cup {"incoming"}]
          /\ reader \subseteq Transfers
      BY DEF SessionInv, TransferTypes, CallStates, TaskStates
    <2>4. posted \in [Transfers -> 0 .. Chunks] /\ nextChunk \in [Transfers -> 0 .. Chunks] /\ leases \in [Transfers -> 0 .. 2]
      BY <2>2 DEF SessionInv, TransferTypes
    <2>5. native \in 0 .. Chunks * Cardinality(Transfers)
      <3>1. native \in Nat /\ native <= Chunks * Cardinality(Transfers)
        BY <1>1, BetweenFinite DEF SessionInv, SessionCounts
      <3> QED BY <1>1, <3>1
    <2> QED BY <2>1, <2>2, <2>3, <2>4, <2>5, FramesBounded DEF TypeOK
  <1>3. ReceivesPosted
    <2> DEFINE end == [t \in Transfers |-> nextChunk[t] + SendCount(t)]
    <2>1. \A t \in Sending : end[t] = After(nextChunk[t]) /\ After(nextChunk[t]) <= posted[t] /\ nextChunk[t] <= end[t]
      <3> SUFFICES ASSUME NEW t \in Sending
                   PROVE  end[t] = After(nextChunk[t]) /\ After(nextChunk[t]) <= posted[t] /\ nextChunk[t] <= end[t]
        OBVIOUS
      <3>1. t \in Transfers /\ serving[t] = "sending"
        BY DEF Sending
      <3>2. end[t] = After(nextChunk[t])
        BY <3>1 DEF SendCount, Window, After
      <3>3. After(nextChunk[t]) <= posted[t] /\ nextChunk[t] < After(nextChunk[t])
        BY <3>1, SendAt
      <3>4. nextChunk[t] \in Nat /\ After(nextChunk[t]) \in Int
        BY <1>1, <3>1, ShapeFacts DEF After, Smaller
      <3> HIDE DEF end
      <3> QED BY ONLY <3>2, <3>3, <3>4
    <2>2. \A t \in Sending : end[t] \in Nat
      BY <1>1, <2>1, ShapeFacts DEF Sending, After, Smaller
    <2>3. Sending \in SUBSET Transfers
      BY DEF Sending
    <2>4. \A t \in Sending : /\ nextChunk[t] \in Nat /\ end[t] \in Nat /\ nextChunk[t] <= nextChunk[t]
                             /\ end[t] <= posted[t]
      BY <1>1, <2>1, <2>2, <2>3
    <2> HIDE DEF end
    <2>5. Cardinality(Between(Sending, nextChunk, end)) <= Cardinality(Between(Transfers, nextChunk, posted))
      BY <1>1, <2>3, <2>4, BetweenSmaller
    <2> QED BY <2>5 DEF end, ReceivesPosted, SendsUnderWay, SessionInv, SessionCounts
  <1>4. CompleteIsConfirmed
    <2> SUFFICES ASSUME NEW t \in Transfers
                 PROVE  /\ call[t] = "done" => serving[t] = "done" /\ delivered[t] = Chunks
                        /\ published[t] = Chunks => call[t] = "done"
      BY DEF CompleteIsConfirmed
    <2>1. /\ Row(call[t], t \in reader, posted[t], delivered[t], published[t], consumed[t],
                 serving[t], nextChunk[t], leases[t], toServer[t], toClient[t])
          /\ serving[t] \in TaskStates
      BY RowAt
    <2>2. call[t] = "done" => serving[t] = "done"
      BY <2>1 DEF Row, Stages, TaskStates, TaskEnds, Working, Live, Pumping
    <2> QED BY <2>1, <2>2 DEF Row
  <1> QED BY <1>2, <1>3, <1>4 DEF SessionInv

\* In the parts of a behaviour that are about something else the session stays as it starts.
LEMMA SessionInvariant == MCSpec => []SessionInv
  <1>1. MCInit => SessionInv
    BY SessionInit DEF MCInit
  <1>2. SessionInv /\ [MCNext]_allVars => SessionInv'
    <2> SUFFICES ASSUME SessionInv, [MCNext]_allVars PROVE SessionInv'
      OBVIOUS
    <2>1. CASE Next
      BY <2>1, SessionNext
    <2>2. CASE UNCHANGED vars
      BY <2>2, SessionStutter
    <2> QED BY <2>1, <2>2 DEF MCNext, allVars
  <1> QED BY <1>1, <1>2, PTL DEF MCSpec

\* UrmaSession: the client's receives cover the server's sends at every moment, however
\* transfers, timeouts, readers that leave and reconnections interleave; a piece is complete
\* for the client only when the server has finished it; and neither busy answers, late
\* frames nor the sizes of the windows cost the lane that the transfers share.
THEOREM SessionsAlwaysSafe == MCSpec => []SessionSafe
  <1>1. SessionInv => SessionSafe
    BY SessionIsSafe DEF SessionSafe
  <1> QED BY <1>1, SessionInvariant, PTL
=============================================================================
