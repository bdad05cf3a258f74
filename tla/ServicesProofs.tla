--------------------------- MODULE ServicesProofs ---------------------------
(* Proofs about the services around the download of a task (MCServices), for  *)
(* any number of requests, calls, schedulers, files, buckets and tasks. A     *)
(* behaviour of MCServices is about one of the parts and leaves the others    *)
(* as they start, so each part has an invariant of its own: the process       *)
(* (Daemon), the limiter (AdaptiveLimiter), the list of schedulers            *)
(* (Schedulers), the proxy (Proxy), the programs that export files            *)
(* (ExportClients) and the cache of pieces (PieceCache). Which pieces a task  *)
(* has and where they come from is in PieceServicesProofs.                    *)
EXTENDS MCServices, FiniteSetTheorems, TLAPS

-----------------------------------------------------------------------------
(* Daemon: the inductive invariant.                                           *)

\* The main task has not spawned its services.
Booting == {"storage", "dynconfig", "scheduler_client", "announcer", "spawn"}

\* Before its services are spawned the process has none, and nobody waits.
BootInv == process \in Booting => gate = {} /\ \A s \in Process!Services : service[s] = "none"

\* A gRPC server that has arrived at the barrier has bound its address and keeps it
\* until it ends, and nobody passes the barrier before all have arrived.
BarrierInv ==
    /\ \A s \in gate \ {"proxy"} : service[s] \in {"barrier", "serving", "leaving", "ended"}
    /\ \A s \in Process!Gated : service[s] = "serving" => gate = Process!Gated
    /\ service["proxy"] = "bind" => gate = Process!Gated

\* The announcer does not break, and when it has ended it has told the schedulers, or
\* could not.
AnnouncedInv ==
    /\ service["announcer"] # "broken"
    /\ service["announcer"] = "ended" => (announced => undeleted)

ProcessInv ==
    /\ Process!TypeOK
    /\ BootInv
    /\ BarrierInv
    /\ AnnouncedInv
    /\ Process!OrderlyExit

-----------------------------------------------------------------------------
(* Daemon: every step keeps the invariant.                                    *)

LEMMA ServiceNames ==
  Process!Services = {"health", "stats", "metrics", "dynconfig", "gc", "tcp", "quic", "urma", "upload", "download",
                      "proxy", "announcer"}
  BY ProcessesAssumption DEF Process!Services

LEMMA ProcessInit ==
  ASSUME Process!Init
  PROVE  ProcessInv
  <1> USE MaxClientsAssumption, ServiceNames
  <1>1. Process!TypeOK
    <2>1. service \in [Process!Services -> Process!Places]
      BY DEF Process!Init, Process!Places
    <2>2. clients \in [Process!Gated -> 0 .. MaxClients]
      BY DEF Process!Init
    <2> QED BY <2>1, <2>2 DEF Process!Init, Process!TypeOK
  <1> QED BY <1>1 DEF Process!Init, ProcessInv, BootInv, BarrierInv, AnnouncedInv, Process!Gated,
      Process!OrderlyExit

LEMMA ProcessStutter ==
  ASSUME ProcessInv, UNCHANGED processVars
  PROVE  ProcessInv'
  BY DEF processVars, ProcessInv, BootInv, BarrierInv, AnnouncedInv, Process!TypeOK, Process!OrderlyExit

\* A step of the main task.
LEMMA MainStep ==
  ASSUME ProcessInv, Process!Main \/ Process!ShutdownSignal
  PROVE  ProcessInv'
  <1> USE ServiceNames
  <1> USE DEF ProcessInv
  <1>1. CASE Process!NewStorage \/ Process!NewDynconfig \/ Process!NewSchedulerClient \/ Process!NewAnnouncer
    <2>1. Process!TypeOK'
      BY <1>1 DEF Process!NewStorage, Process!NewDynconfig, Process!NewSchedulerClient, Process!NewAnnouncer,
         Process!Boot, Process!TypeOK
    <2> QED BY <1>1, <2>1 DEF Process!NewStorage, Process!NewDynconfig, Process!NewSchedulerClient,
         Process!NewAnnouncer, Process!Boot, Process!TypeOK, Booting, BootInv, BarrierInv, AnnouncedInv,
         Process!OrderlyExit, Process!Gated
  <1>2. CASE Process!Spawn
    <2>1. Process!TypeOK'
      BY <1>2 DEF Process!Spawn, Process!TypeOK, Process!Places
    <2> QED BY <1>2, <2>1 DEF Process!Spawn, Process!TypeOK, Booting, BootInv, BarrierInv, AnnouncedInv,
         Process!OrderlyExit, Process!Gated, Process!Subscribed
  <1>3. CASE Process!ServiceFailed \/ Process!ShutdownSignal \/ Process!Exit
    <2>1. Process!TypeOK'
      BY <1>3 DEF Process!ServiceFailed, Process!ShutdownSignal, Process!Exit, Process!TypeOK
    <2>2. Process!OrderlyExit'
      BY <1>3 DEF Process!ServiceFailed, Process!ShutdownSignal, Process!Exit, Process!TypeOK, AnnouncedInv,
         Process!OrderlyExit
    <2> QED BY <1>3, <2>1, <2>2 DEF Process!ServiceFailed, Process!ShutdownSignal, Process!Exit, Booting, BootInv,
         BarrierInv, AnnouncedInv
  <1> QED BY <1>1, <1>2, <1>3 DEF Process!Main

\* A service moves to another place, and neither arrives nor passes at the barrier.
LEMMA ServiceMoves ==
  ASSUME ProcessInv, Process!Alive, NEW s \in Process!Services, NEW p \in Process!Places,
         service[s] # "none", service' = [service EXCEPT ![s] = p],
         late' = late \/ (s \notin Process!Subscribed /\ late' = late \cup {s}),
         s \in {"upload", "download"} =>
            \/ service[s] \in {"spawned", "bind"} /\ p \in {"bind", "barrier", "broken"}
            \/ p \in {"leaving", "ended"},
         s = "proxy" => \/ service[s] = "bind" \/ p \notin {"bind", "serving"},
         s = "announcer" => p = "serving",
         UNCHANGED <<running, process, exiting, gate, clients, announced, undeleted>>
  PROVE  ProcessInv'
  <1> USE ServiceNames
  <1> USE DEF ProcessInv
  <1>1. Process!TypeOK'
    BY DEF Process!TypeOK
  <1>2. process \notin Booting
    BY DEF BootInv
  <1>3. BarrierInv'
    BY DEF BarrierInv, Process!TypeOK, Process!Gated
  <1>4. AnnouncedInv'
    BY DEF AnnouncedInv, Process!TypeOK
  <1> QED BY <1>1, <1>2, <1>3, <1>4 DEF BootInv, Process!OrderlyExit, Process!Alive

LEMMA BarrierStep ==
  ASSUME ProcessInv, Process!Alive, NEW s \in Process!Gated, NEW p, p = (IF s = "proxy" THEN "bind" ELSE "serving"),
         Process!BarrierWait(s, p)
  PROVE  ProcessInv'
  <1> USE ServiceNames
  <1> USE DEF ProcessInv
  <1>1. Process!TypeOK'
    BY DEF Process!TypeOK, Process!BarrierWait, Process!Goto, Process!Gated, Process!Places
  <1>2. process \notin Booting
    BY DEF BootInv, Process!BarrierWait, Process!Gated
  <1>3. BarrierInv'
    BY DEF BarrierInv, Process!TypeOK, Process!Gated, Process!BarrierWait, Process!Goto
  <1>4. AnnouncedInv'
    BY DEF AnnouncedInv, Process!TypeOK, Process!BarrierWait, Process!Goto, Process!Gated
  <1> QED BY <1>1, <1>2, <1>3, <1>4 DEF BootInv, Process!OrderlyExit, Process!Alive, Process!BarrierWait

LEMMA RunStep ==
  ASSUME ProcessInv, Process!Alive, Process!Run
  PROVE  ProcessInv'
  <1> USE ServiceNames
  <1>1. ASSUME NEW s \in {"health", "stats", "metrics"}, Process!Server(s) PROVE ProcessInv'
    BY <1>1, ServiceMoves DEF Process!Server, Process!Subscribes, Process!Binds, Process!Stops, Process!Goto,
       Process!Places, Process!Subscribed
  <1>2. ASSUME NEW s \in {"dynconfig", "gc"}, Process!Worker(s) PROVE ProcessInv'
    BY <1>2, ServiceMoves DEF Process!Worker, Process!Subscribes, Process!Stops, Process!Goto,
       Process!Places, Process!Subscribed
  <1>3. ASSUME Process!tcp_run \/ Process!quic_run \/ Process!urma_run PROVE ProcessInv'
    BY <1>3, ServiceMoves DEF Process!tcp_run, Process!quic_run, Process!urma_run, Process!Binds, Process!Stops,
       Process!AcceptFails, Process!Goto, Process!Places, Process!Subscribed
  <1>4. ASSUME NEW s \in {"upload", "download"}, Process!Grpc(s) PROVE ProcessInv'
    <2>1. CASE Process!BarrierWait(s, "serving")
      BY <1>4, <2>1, BarrierStep DEF Process!Gated
    <2> QED BY <1>4, <2>1, ServiceMoves DEF Process!Grpc, Process!Subscribes, Process!Binds, Process!GrpcLeaves,
       Process!GrpcEnds, Process!Goto, Process!Places, Process!Subscribed
  <1>5. ASSUME Process!proxy_run PROVE ProcessInv'
    <2>1. CASE Process!BarrierWait("proxy", "bind")
      BY <1>5, <2>1, BarrierStep DEF Process!Gated
    <2>2. CASE Process!AcceptFails("proxy") \/ Process!Stops("proxy", {"barrier", "serving"})
      BY <2>2, ServiceMoves DEF Process!Stops, Process!AcceptFails, Process!Goto, Process!Places
    <2> QED BY <1>5, <2>1, <2>2, ServiceMoves DEF Process!proxy_run, Process!Subscribes, Process!Binds,
       Process!Goto, Process!Places, Process!Subscribed
  <1>6. ASSUME Process!announcer_run PROVE ProcessInv'
    <2>1. CASE Process!Subscribes("announcer", "serving")
      BY <2>1, ServiceMoves DEF Process!Subscribes, Process!Goto, Process!Places, Process!Subscribed
    <2>2. CASE ~Process!Subscribes("announcer", "serving")
      <3> USE <1>6, <2>2 DEF ProcessInv, Process!announcer_run, Process!Goto
      <3>1. Process!TypeOK'
        BY DEF Process!TypeOK, Process!Places
      <3>2. process \notin Booting
        BY DEF BootInv
      <3>3. BarrierInv'
        <4>1. service' = [service EXCEPT !["announcer"] = "ended"] /\ gate' = gate
          OBVIOUS
        <4>2. \A s \in Process!Gated : service'[s] = service[s]
          BY <4>1 DEF Process!TypeOK, Process!Gated
        <4>3. gate \subseteq Process!Gated
          BY DEF Process!TypeOK
        <4> HIDE DEF ProcessInv, Process!announcer_run
        <4> QED BY <4>1, <4>2, <4>3 DEF ProcessInv, BarrierInv, Process!Gated
      <3>4. AnnouncedInv'
        BY DEF AnnouncedInv, Process!TypeOK
      <3> QED BY <3>1, <3>2, <3>3, <3>4 DEF BootInv, Process!OrderlyExit, Process!Alive
    <2> QED BY <2>1, <2>2
  <1> QED BY <1>1, <1>2, <1>3, <1>4, <1>5, <1>6 DEF Process!Run, Process!health_run, Process!stats_run,
      Process!metrics_run, Process!dynconfig_run, Process!gc_run, Process!upload_run, Process!download_run

LEMMA ClientsStep ==
  ASSUME ProcessInv, Process!Alive, Process!Clients
  PROVE  ProcessInv'
  <1>1. PICK s \in Process!Gated : Process!ClientComes(s) \/ Process!ClientGoes(s)
    BY DEF Process!Clients
  <1>2. clients' \in [Process!Gated -> 0 .. MaxClients]
    BY <1>1, MaxClientsAssumption DEF ProcessInv, Process!TypeOK, Process!ClientComes, Process!ClientGoes
  <1>3. UNCHANGED <<running, process, service, exiting, late, gate, announced, undeleted>>
    BY <1>1 DEF Process!ClientComes, Process!ClientGoes
  <1> QED BY <1>2, <1>3 DEF ProcessInv, Process!TypeOK, BootInv, BarrierInv, AnnouncedInv, Process!OrderlyExit,
      Process!Alive

LEMMA ProcessNext ==
  ASSUME ProcessInv, Process!Next
  PROVE  ProcessInv'
  BY MainStep, RunStep, ClientsStep DEF Process!Next

LEMMA ProcessGood ==
  ASSUME ProcessInv
  PROVE  Process!TypeOK /\ Process!ServingTogether /\ Process!OrderlyExit
  BY DEF ProcessInv, BarrierInv, Process!ServingTogether, Process!Gated

-----------------------------------------------------------------------------
(* AdaptiveLimiter: the inductive invariant.                                  *)

\* The calls of a ring, as a function of it.
CallsOf(w) == UNION {{i} \X (1 .. w[i].pass) : i \in DOMAIN w}

\* A bucket with a call in it has the response time of one.
BucketInv == current.pass > 0 => current.min_rt \in Times

\* The numbers of calls that ended, which only the properties read.
HistoryInv == passed \in Nat /\ overwritten \in Nat /\ IsFiniteSet(CallsOf(window))

LimiterInv ==
    /\ Limiter!TypeOK
    /\ Limiter!InFlightExact
    /\ Limiter!WindowCountsOnce
    /\ BucketInv
    /\ HistoryInv

-----------------------------------------------------------------------------
(* AdaptiveLimiter: every step keeps the invariant.                           *)

LEMMA LimiterCardinality ==
  \A S : Limiter!Cardinality(S) = Cardinality(S)
  BY Zenon DEF Limiter!Cardinality, Cardinality

LEMMA LimiterToSet ==
  \A s : Limiter!ToSet(s) = {s[i] : i \in DOMAIN s}
  BY DEF Limiter!ToSet

\* The calls that are counted.
Counted == {r \in Limited : limited[r] \notin Limiter!Idle}

\* A call that begins is counted once more.
LEMMA CountedIn ==
  ASSUME Limiter!TypeOK, Limiter!InFlightExact, NEW r \in Limited, NEW p,
         limited[r] \in Limiter!Idle, p \notin Limiter!Idle,
         limited' = [limited EXCEPT ![r] = p], in_flight' = in_flight + 1
  PROVE  Limiter!InFlightExact' /\ in_flight' \in Nat
  <1>1. Counted' = Counted \cup {r} /\ r \notin Counted
    BY DEF Counted, Limiter!TypeOK
  <1>2. IsFiniteSet(Counted)
    BY LimiterAssumption, FS_Subset DEF Counted
  <1>3. Cardinality(Counted') = Cardinality(Counted) + 1 /\ Cardinality(Counted) \in Nat
    BY <1>1, <1>2, FS_AddElement, FS_CardinalityType
  <1> QED BY <1>3, LimiterCardinality DEF Counted, Limiter!InFlightExact

\* A call that ends is not counted any more.
LEMMA CountedOut ==
  ASSUME Limiter!TypeOK, Limiter!InFlightExact, NEW r \in Limited, NEW p,
         limited[r] \notin Limiter!Idle, p \in Limiter!Idle,
         limited' = [limited EXCEPT ![r] = p], in_flight' = in_flight - 1
  PROVE  Limiter!InFlightExact' /\ in_flight' \in Nat
  <1>1. Counted' = Counted \ {r} /\ r \in Counted
    BY DEF Counted, Limiter!TypeOK
  <1>2. IsFiniteSet(Counted)
    BY LimiterAssumption, FS_Subset DEF Counted
  <1>3. Cardinality(Counted') = Cardinality(Counted) - 1 /\ IsFiniteSet(Counted')
    BY <1>1, <1>2, FS_RemoveElement
  <1>4. Cardinality(Counted') \in Nat /\ Cardinality(Counted) \in Nat
    BY <1>2, <1>3, FS_CardinalityType
  <1> QED BY <1>3, <1>4, LimiterCardinality DEF Counted, Limiter!InFlightExact

\* A call that goes on stays counted.
LEMMA CountedOn ==
  ASSUME Limiter!TypeOK, Limiter!InFlightExact, NEW r \in Limited, NEW p,
         limited[r] \notin Limiter!Idle, p \notin Limiter!Idle,
         limited' = [limited EXCEPT ![r] = p], in_flight' = in_flight
  PROVE  Limiter!InFlightExact'
  <1>1. Counted' = Counted
    BY DEF Counted, Limiter!TypeOK
  <1> QED BY <1>1 DEF Counted, Limiter!InFlightExact

\* What is in a sequence with one element more.
LEMMA Appended ==
  ASSUME NEW S, NEW q \in Seq(S), NEW e \in S
  PROVE  /\ Append(q, e) \in Seq(S) /\ Len(Append(q, e)) = Len(q) + 1
         /\ \A i \in DOMAIN Append(q, e) : (i \in DOMAIN q /\ Append(q, e)[i] = q[i]) \/ Append(q, e)[i] = e
  OBVIOUS

\* A pair of the calls of a ring.
LEMMA CallsOfPairs ==
  ASSUME NEW w, NEW x
  PROVE  x \in CallsOf(w) <=> \E i \in DOMAIN w : \E k \in 1 .. w[i].pass : x = <<i, k>>
  BY DEF CallsOf

\* A number of pairs with the same first part.
LEMMA Pairs ==
  ASSUME NEW i, NEW n \in Nat
  PROVE  IsFiniteSet({i} \X (1 .. n)) /\ Cardinality({i} \X (1 .. n)) = n
  <1>1. IsFiniteSet({i}) /\ Cardinality({i}) = 1
    BY FS_Singleton
  <1>2. IsFiniteSet(1 .. n) /\ Cardinality(1 .. n) = n
    BY FS_Interval
  <1>3. IsFiniteSet({i} \X (1 .. n)) /\ Cardinality({i} \X (1 .. n)) = Cardinality({i}) * Cardinality(1 .. n)
    BY <1>1, <1>2, FS_Product
  <1> QED BY <1>1, <1>2, <1>3

\* A sample that is appended adds its calls.
LEMMA CallsAppended ==
  ASSUME NEW w \in Seq(Limiter!Samples), NEW s \in Limiter!Samples, IsFiniteSet(CallsOf(w))
  PROVE  /\ IsFiniteSet(CallsOf(Append(w, s)))
         /\ Cardinality(CallsOf(Append(w, s))) = Cardinality(CallsOf(w)) + s.pass
  <1> DEFINE n == Len(w) + 1
             New == {n} \X (1 .. s.pass)
  <1>1. s.pass \in Nat /\ Len(w) \in Nat /\ DOMAIN w = 1 .. Len(w)
    BY DEF Limiter!Samples
  <1>2. CallsOf(Append(w, s)) = CallsOf(w) \cup New
    <2> DEFINE v == Append(w, s)
    <2>1. DOMAIN v = (1 .. Len(w)) \cup {n} /\ v[n] = s /\ \A i \in 1 .. Len(w) : v[i] = w[i]
      BY <1>1
    <2> HIDE DEF v
    <2> SUFFICES ASSUME NEW x PROVE x \in CallsOf(v) <=> x \in CallsOf(w) \/ x \in New
      BY DEF v
    <2>2. x \in CallsOf(v) <=> \E i \in DOMAIN v : \E k \in 1 .. v[i].pass : x = <<i, k>>
      BY CallsOfPairs
    <2>3. x \in CallsOf(w) <=> \E i \in DOMAIN w : \E k \in 1 .. w[i].pass : x = <<i, k>>
      BY CallsOfPairs
    <2>4. x \in New <=> \E k \in 1 .. s.pass : x = <<n, k>>
      OBVIOUS
    <2> HIDE DEF New, n
    <2> QED BY <1>1, <2>1, <2>2, <2>3, <2>4
  <1>3. CallsOf(w) \cap New = {}
    <2> SUFFICES ASSUME NEW x \in CallsOf(w), x \in New PROVE FALSE
      OBVIOUS
    <2>1. PICK i \in DOMAIN w : \E k \in 1 .. w[i].pass : x = <<i, k>>
      BY CallsOfPairs
    <2>2. x[1] = n
      OBVIOUS
    <2> QED BY <1>1, <2>1, <2>2
  <1>4. IsFiniteSet(New) /\ Cardinality(New) = s.pass
    BY <1>1, Pairs
  <1>5. /\ IsFiniteSet(CallsOf(w) \cup New)
        /\ Cardinality(CallsOf(w) \cup New)
            = Cardinality(CallsOf(w)) + Cardinality(New) - Cardinality(CallsOf(w) \cap New)
    BY <1>4, FS_Union
  <1>6. Cardinality(CallsOf(w) \cap New) = 0
    BY <1>3, FS_EmptySet
  <1>7. Cardinality(CallsOf(w)) \in Nat
    BY FS_CardinalityType
  <1> QED BY <1>1, <1>2, <1>4, <1>5, <1>6, <1>7

\* Without its first sample a ring lacks the calls of that sample.
LEMMA CallsOfTail ==
  ASSUME NEW w \in Seq(Limiter!Samples), w # <<>>, IsFiniteSet(CallsOf(w))
  PROVE  /\ IsFiniteSet(CallsOf(Tail(w)))
         /\ Cardinality(CallsOf(Tail(w))) + w[1].pass = Cardinality(CallsOf(w))
  <1> DEFINE v == Tail(w)
             Old == {1} \X (1 .. w[1].pass)
             Rest == CallsOf(w) \ Old
             g == [x \in Rest |-> <<x[1] - 1, x[2]>>]
  <1>1. Len(w) \in Nat \ {0} /\ DOMAIN w = 1 .. Len(w) /\ w[1] \in Limiter!Samples
    OBVIOUS
  <1>2. DOMAIN v = 1 .. Len(w) - 1 /\ \A i \in 1 .. Len(w) - 1 : v[i] = w[i + 1]
    BY <1>1
  <1>n. w[1].pass \in Nat
    BY <1>1 DEF Limiter!Samples
  <1> HIDE DEF v
  <1>3. Old \subseteq CallsOf(w)
    <2> SUFFICES ASSUME NEW k \in 1 .. w[1].pass PROVE <<1, k>> \in CallsOf(w)
      OBVIOUS
    <2> QED BY <1>1, CallsOfPairs
  <1>4. \A x \in Rest : \E i \in 2 .. Len(w) : \E k \in 1 .. w[i].pass : x = <<i, k>>
    <2> SUFFICES ASSUME NEW x \in Rest PROVE \E i \in 2 .. Len(w) : \E k \in 1 .. w[i].pass : x = <<i, k>>
      OBVIOUS
    <2>1. PICK i \in DOMAIN w : \E k \in 1 .. w[i].pass : x = <<i, k>>
      BY CallsOfPairs
    <2>2. i # 1
      BY <2>1
    <2> QED BY <1>1, <2>1, <2>2
  <1>5. \A x \in Rest : g[x] \in CallsOf(v)
    <2> SUFFICES ASSUME NEW x \in Rest PROVE g[x] \in CallsOf(v)
      OBVIOUS
    <2>1. PICK i \in 2 .. Len(w) : \E k \in 1 .. w[i].pass : x = <<i, k>>
      BY <1>4
    <2>2. PICK k \in 1 .. w[i].pass : x = <<i, k>>
      BY <2>1
    <2>3. g[x] = <<i - 1, k>> /\ i - 1 \in DOMAIN v /\ k \in 1 .. v[i - 1].pass
      BY <1>1, <1>2, <2>2
    <2> HIDE DEF g
    <2> QED BY <2>3, CallsOfPairs
  <1>6. \A y \in CallsOf(v) : \E x \in Rest : g[x] = y
    <2> SUFFICES ASSUME NEW y \in CallsOf(v) PROVE \E x \in Rest : g[x] = y
      OBVIOUS
    <2>1. PICK i \in DOMAIN v : \E k \in 1 .. v[i].pass : y = <<i, k>>
      BY CallsOfPairs
    <2>2. PICK k \in 1 .. v[i].pass : y = <<i, k>>
      BY <2>1
    <2>3. i + 1 \in DOMAIN w /\ i + 1 # 1 /\ k \in 1 .. w[i + 1].pass /\ i \in Int
      BY <1>1, <1>2
    <2>4. <<i + 1, k>> \in CallsOf(w)
      BY <2>3, CallsOfPairs
    <2>5. <<i + 1, k>> \in Rest
      BY <2>3, <2>4
    <2>6. g[<<i + 1, k>>] = <<i, k>>
      BY <2>3, <2>5
    <2> QED BY <2>2, <2>5, <2>6
  <1>7. \A x, y \in Rest : g[x] = g[y] => x = y
    <2> SUFFICES ASSUME NEW x \in Rest, NEW y \in Rest, g[x] = g[y] PROVE x = y
      OBVIOUS
    <2>1. PICK i \in 2 .. Len(w) : \E k \in 1 .. w[i].pass : x = <<i, k>>
      BY <1>4
    <2>2. PICK j \in 2 .. Len(w) : \E k \in 1 .. w[j].pass : y = <<j, k>>
      BY <1>4
    <2>3. PICK k \in 1 .. w[i].pass : x = <<i, k>>
      BY <2>1
    <2>4. PICK l \in 1 .. w[j].pass : y = <<j, l>>
      BY <2>2
    <2>5. g[x] = <<i - 1, k>> /\ g[y] = <<j - 1, l>>
      BY <2>3, <2>4
    <2> QED BY <1>1, <2>3, <2>4, <2>5
  <1>8. g \in Bijection(Rest, CallsOf(v))
    <2>1. g \in [Rest -> CallsOf(v)]
      BY <1>5
    <2> HIDE DEF g, Rest
    <2> QED BY <1>6, <1>7, <2>1 DEF Bijection, Injection, Surjection, IsInjective
  <1>9. IsFiniteSet(Rest) /\ Cardinality(Rest) = Cardinality(CallsOf(w)) - Cardinality(CallsOf(w) \cap Old)
    BY FS_Difference
  <1>10. IsFiniteSet(CallsOf(v)) /\ Cardinality(CallsOf(v)) = Cardinality(Rest)
    <2> HIDE DEF Rest, g
    <2> QED BY <1>8, <1>9, FS_Bijection DEF ExistsBijection
  <1>11. Cardinality(Old) = w[1].pass
    BY <1>n, Pairs
  <1>12. Cardinality(CallsOf(w) \cap Old) = w[1].pass
    <2>1. CallsOf(w) \cap Old = Old
      BY <1>3
    <2> HIDE DEF Old
    <2> QED BY <1>11, <2>1
  <1>13. Cardinality(CallsOf(w)) \in Nat
    BY FS_CardinalityType
  <1> HIDE DEF Rest, Old
  <1>14. Cardinality(CallsOf(v)) + w[1].pass = Cardinality(CallsOf(w))
    BY <1>n, <1>9, <1>10, <1>12, <1>13
  <1> QED BY <1>10, <1>14 DEF v

LEMMA LimiterWindow == Limiter!RingCalls = CallsOf(window)
  BY DEF Limiter!RingCalls, CallsOf

LEMMA LimiterInit ==
  ASSUME Limiter!Init
  PROVE  LimiterInv
  <1> USE LimiterAssumption DEF Limiter!Init
  <1>1. Limiter!TypeOK
    <2>1. limited \in [Limited -> Limiter!Idle \cup {"counted", "cooled", "refused", "shed", "served", "recorded"}]
      BY DEF Limiter!Idle
    <2>2. current \in Limiter!Samples
      BY DEF Limiter!Samples
    <2>3. window \in Seq(Limiter!Samples) /\ Len(window) <= BucketCount
      OBVIOUS
    <2>4. begun \in 0 .. MaxCalls /\ in_flight \in Nat
      OBVIOUS
    <2>5. is_overloaded \in BOOLEAN /\ cooling \in BOOLEAN /\ elapsed \in BOOLEAN
      BY Zenon
    <2> QED BY <2>1, <2>2, <2>3, <2>4, <2>5, Zenon DEF Limiter!TypeOK
  <1>2. Limiter!InFlightExact
    <2>1. Counted = {}
      BY DEF Counted, Limiter!Idle
    <2>2. Limiter!Cardinality(Counted) = 0
      BY <2>1, LimiterCardinality, FS_EmptySet
    <2> QED BY <2>2 DEF Limiter!InFlightExact, Counted
  <1>3. CallsOf(window) = {}
    BY DEF CallsOf
  <1>4. Cardinality(CallsOf(window)) = 0 /\ IsFiniteSet(CallsOf(window))
    BY <1>3, FS_EmptySet
  <1>5. Limiter!WindowCountsOnce
    BY <1>4, LimiterWindow, LimiterCardinality, LimiterToSet DEF Limiter!WindowCountsOnce
  <1> QED BY <1>1, <1>2, <1>4, <1>5 DEF LimiterInv, BucketInv, HistoryInv

LEMMA LimiterStutter ==
  ASSUME LimiterInv, UNCHANGED limiterVars
  PROVE  LimiterInv'
  BY DEF LimiterInv, limiterVars, Limiter!TypeOK, Limiter!InFlightExact, Limiter!WindowCountsOnce, BucketInv,
     HistoryInv, Limiter!RingCalls, CallsOf

\* The window, which most steps leave alone.
WindowInv == Limiter!WindowCountsOnce /\ BucketInv /\ HistoryInv

LEMMA WindowKept ==
  ASSUME WindowInv, UNCHANGED <<window, current, passed, overwritten>>
  PROVE  WindowInv'
  BY DEF WindowInv, Limiter!WindowCountsOnce, BucketInv, HistoryInv, Limiter!RingCalls, CallsOf

\* A call begins, is decided on, is refused or ends.
LEMMA CallStep ==
  ASSUME LimiterInv, NEW r \in Limited,
         \/ Limiter!add_in_flight(r) \/ Limiter!is_in_cooldown(r) \/ Limiter!should_shed(r) \/ Limiter!Refuse(r)
         \/ Limiter!Shed(r) \/ Limiter!sub_in_flight(r)
  PROVE  LimiterInv'
  <1> USE LimiterAssumption DEF LimiterInv
  <1>1. UNCHANGED <<window, current, elapsed, passed, overwritten>>
    BY DEF Limiter!add_in_flight, Limiter!is_in_cooldown, Limiter!should_shed, Limiter!Refuse, Limiter!Shed,
       Limiter!sub_in_flight, Limiter!windowVars
  <1>2. PICK p \in {"counted", "cooled", "refused", "shed", "served", "ended"} :
            /\ limited' = [limited EXCEPT ![r] = p]
            /\ \/ limited[r] \in Limiter!Idle /\ p \notin Limiter!Idle /\ in_flight' = in_flight + 1
               \/ limited[r] \notin Limiter!Idle /\ p \in Limiter!Idle /\ in_flight' = in_flight - 1
               \/ limited[r] \notin Limiter!Idle /\ p \notin Limiter!Idle /\ in_flight' = in_flight
    <2>1. CASE Limiter!add_in_flight(r)
      BY <2>1 DEF Limiter!add_in_flight, Limiter!Goto, Limiter!Idle
    <2>2. CASE Limiter!is_in_cooldown(r)
      <3>1. PICK p \in {"shed", "cooled"} : limited' = [limited EXCEPT ![r] = p]
        BY <2>2 DEF Limiter!is_in_cooldown, Limiter!Goto
      <3> QED BY <2>2, <3>1 DEF Limiter!is_in_cooldown, Limiter!Idle
    <2>3. CASE Limiter!should_shed(r)
      <3>1. PICK p \in {"refused", "served"} : limited' = [limited EXCEPT ![r] = p]
        BY <2>3 DEF Limiter!should_shed, Limiter!Goto
      <3> QED BY <2>3, <3>1 DEF Limiter!should_shed, Limiter!Idle
    <2>4. CASE Limiter!Refuse(r)
      BY <2>4 DEF Limiter!Refuse, Limiter!Goto, Limiter!Idle
    <2>5. CASE Limiter!Shed(r) \/ Limiter!sub_in_flight(r)
      BY <2>5 DEF Limiter!Shed, Limiter!sub_in_flight, Limiter!Goto, Limiter!Idle
    <2> QED BY <2>1, <2>2, <2>3, <2>4, <2>5
  <1>3. Limiter!InFlightExact' /\ in_flight' \in Nat
    BY <1>2, CountedIn, CountedOut, CountedOn DEF Limiter!TypeOK
  <1>4. limited' \in [Limited -> Limiter!Idle \cup {"counted", "cooled", "refused", "shed", "served", "recorded"}]
    BY <1>2 DEF Limiter!TypeOK, Limiter!Idle
  <1>5. begun' \in 0 .. MaxCalls /\ is_overloaded' \in BOOLEAN /\ cooling' \in BOOLEAN
    <2>1. begun' = begun \/ (begun < MaxCalls /\ begun' = begun + 1)
      BY DEF Limiter!add_in_flight, Limiter!is_in_cooldown, Limiter!should_shed, Limiter!Refuse, Limiter!Shed,
         Limiter!sub_in_flight
    <2>2. is_overloaded' = is_overloaded /\ (cooling' = cooling \/ cooling' = TRUE)
      BY Zenon DEF Limiter!add_in_flight, Limiter!is_in_cooldown, Limiter!should_shed, Limiter!Refuse, Limiter!Shed,
         Limiter!sub_in_flight
    <2>3. begun \in 0 .. MaxCalls /\ is_overloaded \in BOOLEAN /\ cooling \in BOOLEAN
      BY Zenon DEF Limiter!TypeOK
    <2>4. begun' \in 0 .. MaxCalls
      BY <2>1, <2>3
    <2> QED BY <2>2, <2>3, <2>4, Zenon
  <1>6. Limiter!TypeOK'
    BY <1>1, <1>3, <1>4, <1>5 DEF Limiter!TypeOK
  <1>7. WindowInv'
    BY <1>1, WindowKept DEF WindowInv
  <1> QED BY <1>3, <1>6, <1>7 DEF WindowInv

\* A call that was served is recorded, in the bucket of now or in a new one.
LEMMA AddStep ==
  ASSUME LimiterInv, NEW r \in Limited, NEW rt \in Times, Limiter!add(r, rt)
  PROVE  LimiterInv'
  <1> USE LimiterAssumption
  <1> DEFINE full == Len(window) = BucketCount
             kept == IF full THEN Tail(window) ELSE window
             replaced == IF full THEN window[1].pass ELSE 0
             moves == elapsed /\ current.pass > 0
  <1>1. /\ window \in Seq(Limiter!Samples) /\ Len(window) <= BucketCount /\ Len(window) \in Nat
        /\ current \in Limiter!Samples /\ rt \in Nat
    BY DEF LimiterInv, Limiter!TypeOK
  <1>2. current.pass \in Nat /\ current.min_rt \in Nat
    BY <1>1 DEF Limiter!Samples
  <1>3. IsFiniteSet(CallsOf(window)) /\ passed \in Nat /\ overwritten \in Nat
    BY DEF LimiterInv, HistoryInv
  <1>4. Cardinality(CallsOf(window)) + current.pass + overwritten = passed
    BY LimiterWindow, LimiterCardinality DEF LimiterInv, Limiter!WindowCountsOnce
  <1>5. \A i \in DOMAIN window : window[i].pass > 0 /\ window[i].min_rt \in Times
    BY LimiterToSet DEF LimiterInv, Limiter!WindowCountsOnce
  <1>6. limited[r] = "served" /\ limited' = [limited EXCEPT ![r] = "recorded"] /\ elapsed' = FALSE
        /\ passed' = passed + 1 /\ UNCHANGED <<begun, in_flight, is_overloaded, cooling>>
    BY DEF Limiter!add, Limiter!Goto
  <1>7. moves => window' = Append(kept, current) /\ overwritten' = overwritten + replaced
    BY <1>3 DEF Limiter!add
  <1>8. ~moves => window' = window /\ overwritten' = overwritten
    BY DEF Limiter!add
  <1>9. current' = IF elapsed \/ current.pass = 0 THEN [pass |-> 1, min_rt |-> rt]
                   ELSE [pass |-> current.pass + 1, min_rt |-> IF rt < current.min_rt THEN rt ELSE current.min_rt]
    BY DEF Limiter!add
  <1>10. /\ kept \in Seq(Limiter!Samples) /\ Len(kept) < BucketCount
         /\ \A i \in DOMAIN kept : \E j \in DOMAIN window : kept[i] = window[j]
    BY <1>1
  <1>11. /\ IsFiniteSet(CallsOf(kept)) /\ replaced \in Nat
         /\ Cardinality(CallsOf(kept)) + replaced = Cardinality(CallsOf(window))
    <2>1. CASE full
      <3>1. window # <<>> /\ window[1] \in Limiter!Samples
        BY <1>1, <2>1
      <3>2. window[1].pass \in Nat
        BY <3>1 DEF Limiter!Samples
      <3> QED BY <1>1, <1>3, <2>1, <3>1, <3>2, CallsOfTail
    <2>2. CASE ~full
      <3>1. Cardinality(CallsOf(window)) \in Nat
        BY <1>3, FS_CardinalityType
      <3> QED BY <1>3, <2>2, <3>1
    <2> QED BY <2>1, <2>2
  <1> HIDE DEF kept, replaced
  <1>12. /\ current' \in Limiter!Samples /\ current'.pass > 0 /\ current'.min_rt \in Times
         /\ current'.pass = (IF elapsed \/ current.pass = 0 THEN 1 ELSE current.pass + 1)
    BY <1>1, <1>2, <1>9 DEF Limiter!Samples, BucketInv, LimiterInv
  <1>13. /\ IsFiniteSet(CallsOf(window')) /\ overwritten' \in Nat
         /\ Cardinality(CallsOf(window')) + current'.pass + overwritten' = passed'
    <2>1. CASE moves
      <3>1. /\ IsFiniteSet(CallsOf(window'))
            /\ Cardinality(CallsOf(window')) = Cardinality(CallsOf(kept)) + current.pass
        BY <1>1, <1>7, <1>10, <1>11, <2>1, CallsAppended
      <3>2. Cardinality(CallsOf(kept)) \in Nat /\ current'.pass = 1
        BY <1>11, <1>12, <2>1, FS_CardinalityType
      <3>3. overwritten' = overwritten + replaced /\ passed' = passed + 1
        BY <1>6, <1>7, <2>1
      <3>4. Cardinality(CallsOf(window')) + 1 + overwritten' = passed'
        BY <1>2, <1>3, <1>4, <1>11, <3>1, <3>2, <3>3
      <3> QED BY <1>3, <1>11, <3>1, <3>2, <3>3, <3>4
    <2>2. CASE ~moves
      <3>1. Cardinality(CallsOf(window)) \in Nat
        BY <1>3, FS_CardinalityType
      <3>2. current'.pass = current.pass + 1
        BY <1>2, <1>12, <2>2
      <3> QED BY <1>2, <1>3, <1>4, <1>6, <1>8, <2>2, <3>1, <3>2
    <2> QED BY <2>1, <2>2
  <1>14. /\ window' \in Seq(Limiter!Samples) /\ Len(window') <= BucketCount
         /\ \A i \in DOMAIN window' : window'[i].pass > 0 /\ window'[i].min_rt \in Times
    <2>1. CASE moves
      <3>1. /\ window' \in Seq(Limiter!Samples) /\ Len(window') = Len(kept) + 1
            /\ \A i \in DOMAIN window' : (i \in DOMAIN kept /\ window'[i] = kept[i]) \/ window'[i] = current
        <4>1. window' = Append(kept, current)
          BY <1>7, <2>1
        <4>2. kept \in Seq(Limiter!Samples) /\ current \in Limiter!Samples
          BY <1>1, <1>10
        <4> QED BY <4>1, <4>2, Appended, ZenonT(60)
      <3>3. Len(kept) \in Nat
        BY <1>10
      <3>2. current.pass > 0 /\ current.min_rt \in Times
        BY <2>1 DEF LimiterInv, BucketInv
      <3> QED BY <1>5, <1>10, <3>1, <3>2, <3>3
    <2>2. CASE ~moves
      BY <1>1, <1>5, <1>8, <2>2
    <2> QED BY <2>1, <2>2
  <1>15. Limiter!InFlightExact'
    BY <1>6, CountedOn DEF LimiterInv, Limiter!Idle
  <1>16. Limiter!TypeOK'
    <2>1. limited' \in [Limited -> Limiter!Idle \cup {"counted", "cooled", "refused", "shed", "served", "recorded"}]
      BY <1>6 DEF LimiterInv, Limiter!TypeOK
    <2> QED BY <1>6, <1>12, <1>14, <2>1, Zenon DEF LimiterInv, Limiter!TypeOK
  <1>17. Limiter!WindowCountsOnce'
    <2>1. (\A s \in Limiter!ToSet(window) : s.pass > 0 /\ s.min_rt \in Times)'
      BY <1>14 DEF Limiter!ToSet
    <2>2. (Cardinality(Limiter!RingCalls))' = Cardinality(CallsOf(window'))
      BY DEF Limiter!RingCalls, CallsOf
    <2>3. (Limiter!Cardinality(Limiter!RingCalls))' = (Cardinality(Limiter!RingCalls))'
      BY LimiterCardinality
    <2> QED BY <1>13, <2>1, <2>2, <2>3 DEF Limiter!WindowCountsOnce
  <1>18. BucketInv' /\ HistoryInv'
    BY <1>3, <1>6, <1>12, <1>13 DEF BucketInv, HistoryInv
  <1> QED BY <1>15, <1>16, <1>17, <1>18 DEF LimiterInv

\* Time passes, or the collector looks.
LEMMA TimeStep ==
  ASSUME LimiterInv, Limiter!BucketElapses \/ Limiter!CooldownEnds \/ Limiter!collect_overloaded
  PROVE  LimiterInv'
  <1>1. UNCHANGED <<limited, begun, in_flight, window, current, passed, overwritten>>
    BY DEF Limiter!BucketElapses, Limiter!CooldownEnds, Limiter!collect_overloaded, Limiter!windowVars
  <1>2. is_overloaded' \in BOOLEAN /\ cooling' \in BOOLEAN /\ elapsed' \in BOOLEAN
    BY DEF Limiter!BucketElapses, Limiter!CooldownEnds, Limiter!collect_overloaded, Limiter!windowVars,
       LimiterInv, Limiter!TypeOK
  <1>3. WindowInv'
    BY <1>1, WindowKept DEF WindowInv, LimiterInv
  <1>4. Limiter!InFlightExact'
    BY <1>1 DEF LimiterInv, Limiter!InFlightExact
  <1>5. Limiter!TypeOK'
    BY <1>1, <1>2 DEF LimiterInv, Limiter!TypeOK
  <1> QED BY <1>3, <1>4, <1>5 DEF LimiterInv, WindowInv

LEMMA LimiterNext ==
  ASSUME LimiterInv, Limiter!Next
  PROVE  LimiterInv'
  BY CallStep, AddStep, TimeStep DEF Limiter!Next, Limiter!Request, Limiter!acquire

-----------------------------------------------------------------------------
(* Schedulers: the inductive invariant.                                       *)

\* Who is here replaces the list of the client.
Replacing == {"channels", "schedulers", "addrs", "ring"}

\* Whoever replaces the list has read the same one, unless two replaced it at once by
\* different ones, and what it has replaced stays so.
UpdateInv ==
    /\ \A c \in Sched!Updaters : c \in updating <=> calls[c] \in Replacing
    /\ ~mixed => \A c, d \in updating : copy[c] = copy[d]
    /\ ~mixed => \A c \in updating : /\ calls[c] \in {"addrs", "ring"} => schedulers = copy[c]
                                     /\ calls[c] = "ring" => addrs = copy[c]

\* While nobody has come further than the channels, list, addresses and ring agree.
AgreeInv ==
    ~mixed /\ (\A c \in updating : calls[c] \in {"channels", "schedulers"}) => addrs = schedulers /\ ring = schedulers

\* A list of schedulers of one cluster.
SameCluster(l) == \A s, t \in l : Cluster[s] = Cluster[t]

\* A list that was read from a manager is of one cluster, whoever holds it.
ClusterInv ==
    backend = "remote" =>
        /\ SameCluster(data) /\ SameCluster(schedulers)
        /\ \A c \in Sched!Updaters : SameCluster(copy[c])

\* A call to a channel has a scheduler to call.
TargetInv == \A c \in Sched!Updaters : calls[c] \in {"channel", "insert"} => target[c] \in Sched!Servers

\* Until the announcer that leaves has told everybody, it has those on its list who
\* know the host.
LeavingInv ==
    /\ calls[Announcer] = "call" /\ leaving => knows \subseteq untold \cup left
    /\ calls[Announcer] = "ended" => knows \subseteq untold

SchedInv ==
    /\ Sched!TypeOK
    /\ UpdateInv
    /\ ClusterInv
    /\ TargetInv
    /\ LeavingInv
    /\ AgreeInv

-----------------------------------------------------------------------------
(* Schedulers: every step keeps the invariant.                                *)

LEMMA Available ==
  ASSUME NEW healthy
  PROVE  /\ SameCluster(Sched!remote_get_available_schedulers(healthy))
         /\ Sched!remote_get_available_schedulers(healthy) \in Sched!Lists
         /\ Sched!local_get_available_schedulers(healthy) \in Sched!Lists
  BY DEF SameCluster, Sched!remote_get_available_schedulers, Sched!local_get_available_schedulers, Sched!Lists

LEMMA SchedInit ==
  ASSUME Sched!Init
  PROVE  SchedInv
  <1>1. data \in Sched!Lists /\ (backend = "remote" => SameCluster(data)) /\ backend \in {"remote", "local"}
    BY Available DEF Sched!Init
  <1>2. /\ schedulers = data /\ addrs = data /\ ring = data /\ channels = data /\ knows = data
        /\ refreshes = 0 /\ updating = {} /\ left = {} /\ untold = {}
        /\ mixed = FALSE /\ stopping = FALSE /\ leaving = FALSE
        /\ calls = [c \in Sched!Updaters |-> "idle"]
        /\ copy = [c \in Sched!Updaters |-> {}]
        /\ target = [c \in Sched!Updaters |-> None]
    BY DEF Sched!Init
  <1>3. Announcer \in Sched!Updaters
    BY DEF Sched!Updaters
  <1>4. Sched!TypeOK
    <2>1. /\ calls \in [Sched!Updaters -> {"idle", "read", "compare", "channels", "schedulers", "addrs", "ring",
                                           "pick", "channel", "insert", "call", "ended"}]
          /\ copy \in [Sched!Updaters -> Sched!Lists]
          /\ target \in [Sched!Updaters -> Sched!Servers \cup {None}]
      BY <1>2 DEF Sched!Lists
    <2>2. /\ refreshes \in 0 .. MaxRefreshes /\ {data, schedulers, addrs} \subseteq Sched!Lists
          /\ ring \cup channels \subseteq Sched!Servers /\ updating \subseteq Sched!Updaters
          /\ left \cup knows \cup untold \subseteq Sched!Servers
      BY <1>1, <1>2, AnnouncerAssumption DEF Sched!Lists
    <2>3. mixed \in BOOLEAN /\ stopping \in BOOLEAN /\ leaving \in BOOLEAN
      BY <1>2
    <2> QED BY <1>1, <2>1, <2>2, <2>3 DEF Sched!TypeOK
  <1>5. UpdateInv /\ ClusterInv /\ TargetInv /\ LeavingInv /\ AgreeInv
    BY <1>1, <1>2, <1>3 DEF UpdateInv, ClusterInv, TargetInv, LeavingInv, AgreeInv, SameCluster, Replacing
  <1> QED BY <1>4, <1>5 DEF SchedInv

LEMMA SchedStutter ==
  ASSUME SchedInv, UNCHANGED schedVars
  PROVE  SchedInv'
  BY DEF SchedInv, schedVars, Sched!TypeOK, UpdateInv, ClusterInv, TargetInv, LeavingInv, AgreeInv,
     SameCluster

\* The data is refreshed.
LEMMA RefreshStep ==
  ASSUME SchedInv, Sched!remote_refresh \/ Sched!local_refresh
  PROVE  SchedInv'
  <1>1. PICK l : l \in Sched!Lists /\ (backend = "remote" => SameCluster(l)) /\ Sched!refresh(l)
    BY Available DEF Sched!remote_refresh, Sched!local_refresh
  <1>2. /\ data' = l /\ refreshes' = refreshes + 1 /\ refreshes < MaxRefreshes
        /\ UNCHANGED <<backend, schedulers, addrs, ring, channels, updating, mixed, calls, copy, target,
                       stopping, left, knows, leaving, untold>>
    BY <1>1 DEF Sched!refresh, Sched!clientVars, Sched!announceVars
  <1>3. Sched!TypeOK'
    BY <1>1, <1>2, AnnouncerAssumption DEF SchedInv, Sched!TypeOK
  <1> QED BY <1>1, <1>2, <1>3 DEF SchedInv, UpdateInv, ClusterInv, TargetInv, LeavingInv, AgreeInv,
     SameCluster

\* A step that moves a call and leaves the lists alone.
LEMMA MoveStep ==
  ASSUME SchedInv, NEW c \in Sched!Updaters, NEW p, calls' = [calls EXCEPT ![c] = p],
         p \in {"idle", "read", "compare", "pick", "channel", "insert", "call", "ended"},
         calls[c] \notin Replacing,
         p = "channel" => target'[c] \in Sched!Servers,
         p = "insert" => calls[c] = "channel" /\ target' = target,
         c = Announcer => p \notin {"call", "ended"},
         c # Announcer => calls[c] # "ended",
         \E t \in Sched!Servers \cup {None} : target' \in {target, [target EXCEPT ![c] = t]},
         \E l : (l = data \/ l = {}) /\ copy' \in {copy, [copy EXCEPT ![c] = l]},
         channels' = channels \/ (calls[c] = "insert" /\ channels' = channels \cup {target[c]}),
         UNCHANGED <<backend, refreshes, data, schedulers, addrs, ring, updating, mixed, stopping, left, knows, untold>>,
         leaving' \in BOOLEAN,
         c = Announcer \/ leaving' = leaving
  PROVE  SchedInv'
  <1> USE DEF SchedInv
  <1>1. PICK t \in Sched!Servers \cup {None} : target' \in {target, [target EXCEPT ![c] = t]}
    OBVIOUS
  <1>2. PICK l : (l = data \/ l = {}) /\ copy' \in {copy, [copy EXCEPT ![c] = l]}
    OBVIOUS
  <1>3. l \in Sched!Lists /\ (backend = "remote" => SameCluster(l))
    BY <1>2 DEF Sched!TypeOK, Sched!Lists, ClusterInv, SameCluster
  <1>4. Sched!TypeOK'
    <2>1. target' \in [Sched!Updaters -> Sched!Servers \cup {None}]
      BY <1>1 DEF Sched!TypeOK
    <2>2. copy' \in [Sched!Updaters -> Sched!Lists]
      BY <1>2, <1>3 DEF Sched!TypeOK
    <2>3. calls' \in [Sched!Updaters -> {"idle", "read", "compare", "channels", "schedulers", "addrs", "ring", "pick",
                            "channel", "insert", "call", "ended"}]
      BY DEF Sched!TypeOK
    <2>4. channels' \subseteq Sched!Servers
      BY DEF Sched!TypeOK, TargetInv
    <2> QED BY <2>1, <2>2, <2>3, <2>4 DEF Sched!TypeOK
  <1>5. \A d \in Sched!Updaters \ {c} : calls'[d] = calls[d] /\ copy'[d] = copy[d] /\ target'[d] = target[d]
    BY <1>1, <1>2 DEF Sched!TypeOK
  <1>6. calls'[c] = p /\ c \notin updating
    BY DEF Sched!TypeOK, UpdateInv
  <1>7. UpdateInv'
    <2>1. updating \subseteq Sched!Updaters \ {c}
      BY <1>6 DEF Sched!TypeOK
    <2> QED BY <1>5, <1>6, <2>1 DEF UpdateInv, Replacing
  <1>8. ClusterInv'
    <2>1. copy'[c] \in {copy[c], l}
      BY <1>2 DEF Sched!TypeOK
    <2> QED BY <1>3, <1>5, <2>1 DEF ClusterInv, SameCluster
  <1>9. TargetInv'
    BY <1>5, <1>6 DEF TargetInv
  <1>10. LeavingInv'
    <2>1. c # Announcer => calls'[Announcer] = calls[Announcer]
      BY <1>5 DEF Sched!Updaters
    <2> QED BY <1>6, <2>1 DEF LeavingInv
  <1>11. AgreeInv'
    BY DEF AgreeInv
  <1> QED BY <1>4, <1>7, <1>8, <1>9, <1>10, <1>11

\* A step of a call that replaces the list of the client.
LEMMA UpdateStep ==
  ASSUME SchedInv, NEW c \in Sched!Updaters, Sched!update_available_scheduler_addrs(c)
  PROVE  SchedInv'
  <1> USE DEF Sched!dynVars, Sched!announceVars, Sched!clientVars, Sched!Goto
  <1>1. CASE Sched!ReadData(c)
    BY <1>1, MoveStep DEF Sched!ReadData, Replacing, SchedInv, Sched!TypeOK
  <1>2. CASE Sched!Compare(c) /\ copy[c] = schedulers
    BY <1>2, MoveStep DEF Sched!Compare, Replacing, SchedInv, Sched!TypeOK
  <1>3. CASE Sched!Compare(c) /\ copy[c] # schedulers
    <2> USE DEF SchedInv
    <2>1. /\ calls[c] = "compare" /\ calls' = [calls EXCEPT ![c] = "channels"]
          /\ updating' = updating \cup {c}
          /\ mixed' = (mixed \/ \E d \in updating : copy[d] # copy[c])
          /\ UNCHANGED <<backend, refreshes, data, copy, schedulers, addrs, ring, channels, target,
                         stopping, left, knows, leaving, untold>>
      BY <1>3 DEF Sched!Compare
    <2>2. Sched!TypeOK'
      BY <2>1 DEF Sched!TypeOK
    <2>3. calls'[c] = "channels" /\ \A d \in Sched!Updaters \ {c} : calls'[d] = calls[d]
      BY <2>1 DEF Sched!TypeOK
    <2>4. UpdateInv'
      <3>1. \A d \in Sched!Updaters : d \in updating' <=> calls'[d] \in Replacing
        BY <2>1, <2>3 DEF UpdateInv, Replacing
      <3>2. mixed \in BOOLEAN /\ updating \subseteq Sched!Updaters
        BY DEF Sched!TypeOK
      <3>3. ~mixed' => ~mixed /\ \A d \in updating : copy[d] = copy[c]
        BY <2>1, <3>2
      <3>4. ~mixed' => \A d, e \in updating' : copy'[d] = copy'[e]
        BY <2>1, <3>3 DEF UpdateInv
      <3>5. ~mixed' => \A d \in updating' : /\ calls'[d] \in {"addrs", "ring"} => schedulers' = copy'[d]
                                            /\ calls'[d] = "ring" => addrs' = copy'[d]
        BY <2>1, <2>3, <3>2, <3>3 DEF UpdateInv
      <3> QED BY <3>1, <3>4, <3>5 DEF UpdateInv
    <2>5. Announcer \in Sched!Updaters
      BY DEF Sched!Updaters
    <2>6. AgreeInv'
      <3> SUFFICES ASSUME ~mixed', \A d \in updating' : calls'[d] \in {"channels", "schedulers"}
                   PROVE  addrs = schedulers /\ ring = schedulers
        BY <2>1 DEF AgreeInv
      <3>1. ~mixed /\ updating \subseteq Sched!Updaters /\ c \notin updating
        BY <2>1 DEF Sched!TypeOK, UpdateInv, Replacing
      <3>2. \A d \in updating : calls[d] \in {"channels", "schedulers"}
        BY <2>1, <2>3, <3>1
      <3> QED BY <3>1, <3>2 DEF AgreeInv
    <2>7. ClusterInv' /\ TargetInv' /\ LeavingInv'
      BY <2>1, <2>3, <2>5 DEF ClusterInv, SameCluster, TargetInv, LeavingInv
    <2> QED BY <2>2, <2>4, <2>6, <2>7
  <1>4. CASE Sched!RetainChannels(c) \/ Sched!ReplaceSchedulers(c) \/ Sched!ReplaceAddrs(c)
    <2> USE DEF SchedInv
    <2>1. \/ /\ calls[c] = "channels" /\ calls' = [calls EXCEPT ![c] = "schedulers"]
             /\ UNCHANGED <<schedulers, addrs>> /\ channels' = channels \cap copy[c]
          \/ /\ calls[c] = "schedulers" /\ calls' = [calls EXCEPT ![c] = "addrs"]
             /\ schedulers' = copy[c] /\ UNCHANGED <<addrs, channels>>
          \/ /\ calls[c] = "addrs" /\ calls' = [calls EXCEPT ![c] = "ring"]
             /\ addrs' = copy[c] /\ UNCHANGED <<schedulers, channels>>
      BY <1>4 DEF Sched!RetainChannels, Sched!ReplaceSchedulers, Sched!ReplaceAddrs
    <2>2. UNCHANGED <<backend, refreshes, data, ring, updating, mixed, copy, target, stopping, left, knows,
                      leaving, untold>>
      BY <1>4 DEF Sched!RetainChannels, Sched!ReplaceSchedulers, Sched!ReplaceAddrs
    <2>3. c \in updating /\ updating' # {} /\ copy[c] \in Sched!Lists
      BY <2>1, <2>2 DEF UpdateInv, Replacing, Sched!TypeOK
    <2>4. Sched!TypeOK'
      BY <2>1, <2>2, <2>3 DEF Sched!TypeOK
    <2>5. calls'[c] \in {"schedulers", "addrs", "ring"} /\ \A d \in Sched!Updaters \ {c} : calls'[d] = calls[d]
      BY <2>1 DEF Sched!TypeOK
    <2>6. UpdateInv'
      <3>1. \A d \in Sched!Updaters : d \in updating' <=> calls'[d] \in Replacing
        BY <2>1, <2>2, <2>5 DEF UpdateInv, Replacing
      <3>2. ~mixed => \A d \in updating : /\ calls'[d] \in {"addrs", "ring"} => schedulers' = copy[d]
                                          /\ calls'[d] = "ring" => addrs' = copy[d]
        <4> SUFFICES ASSUME ~mixed, NEW d \in updating
                     PROVE  /\ calls'[d] \in {"addrs", "ring"} => schedulers' = copy[d]
                            /\ calls'[d] = "ring" => addrs' = copy[d]
          OBVIOUS
        <4>1. copy[d] = copy[c] /\ d \in Sched!Updaters
          BY <2>3 DEF UpdateInv, Sched!TypeOK
        <4>2. CASE d = c
          BY <2>1, <2>3, <4>1, <4>2 DEF UpdateInv, Sched!TypeOK
        <4>3. CASE d # c
          BY <2>1, <2>5, <4>1, <4>3 DEF UpdateInv
        <4> QED BY <4>2, <4>3
      <3> QED BY <2>2, <3>1, <3>2 DEF UpdateInv
    <2>7. ClusterInv'
      BY <2>1, <2>2 DEF ClusterInv, SameCluster
    <2>8. TargetInv' /\ LeavingInv'
      BY <2>1, <2>2, <2>5 DEF TargetInv, LeavingInv, Sched!Updaters
    <2>9. AgreeInv'
      <3> SUFFICES ASSUME ~mixed, \A d \in updating : calls'[d] \in {"channels", "schedulers"}
                   PROVE  addrs' = schedulers' /\ ring = schedulers'
        BY <2>2 DEF AgreeInv
      <3>1. calls[c] = "channels" /\ UNCHANGED <<schedulers, addrs>>
        BY <2>1, <2>3 DEF Sched!TypeOK
      <3>2. updating \subseteq Sched!Updaters
        BY DEF Sched!TypeOK
      <3>3. \A d \in updating : calls[d] \in {"channels", "schedulers"}
        BY <2>5, <3>1, <3>2
      <3> QED BY <3>1, <3>3 DEF AgreeInv
    <2> QED BY <2>4, <2>6, <2>7, <2>8, <2>9
  <1>5. CASE Sched!ReplaceRing(c)
    <2> USE DEF SchedInv
    <2>1. /\ calls[c] = "ring" /\ calls' = [calls EXCEPT ![c] = "pick"]
          /\ ring' = copy[c] /\ updating' = updating \ {c} /\ copy' = [copy EXCEPT ![c] = {}]
          /\ UNCHANGED <<backend, refreshes, data, schedulers, addrs, channels, mixed, target, stopping, left,
                         knows, leaving, untold>>
      BY <1>5 DEF Sched!ReplaceRing
    <2>2. copy[c] \in Sched!Lists /\ {} \in Sched!Lists
      BY DEF Sched!TypeOK, Sched!Lists
    <2>3. Sched!TypeOK'
      BY <2>1, <2>2 DEF Sched!TypeOK, Sched!Lists
    <2>4. calls'[c] = "pick" /\ \A d \in Sched!Updaters \ {c} : calls'[d] = calls[d] /\ copy'[d] = copy[d]
      BY <2>1 DEF Sched!TypeOK
    <2>5. copy'[c] = {}
      BY <2>1 DEF Sched!TypeOK
    <2>6. UpdateInv'
      BY <2>1, <2>4 DEF UpdateInv, Replacing, Sched!TypeOK
    <2>7. ClusterInv'
      BY <2>1, <2>4, <2>5 DEF ClusterInv, SameCluster
    <2>8. TargetInv' /\ LeavingInv'
      BY <2>1, <2>4 DEF TargetInv, LeavingInv, Sched!Updaters
    <2>9. AgreeInv'
      BY <2>1 DEF UpdateInv, Replacing, AgreeInv
    <2> QED BY <2>3, <2>6, <2>7, <2>8, <2>9
  <1> QED BY <1>1, <1>2, <1>3, <1>4, <1>5 DEF Sched!update_available_scheduler_addrs

\* A step of a call to the scheduler of a task.
LEMMA CallerStep ==
  ASSUME SchedInv, NEW c \in Callers, Sched!CallBegins(c) \/ Sched!Caller(c) \/ Sched!CallDropped(c)
  PROVE  SchedInv'
  <1> USE AnnouncerAssumption DEF Sched!dynVars, Sched!announceVars, Sched!clientVars, Sched!Goto
  <1>0. c \in Sched!Updaters /\ c # Announcer /\ leaving \in BOOLEAN
    BY DEF Sched!Updaters, SchedInv, Sched!TypeOK
  <1>1. CASE Sched!CallBegins(c)
    BY <1>0, <1>1, MoveStep DEF Sched!CallBegins, Replacing
  <1>2. CASE Sched!client(c)
    <2>1. PICK s \in ring : target' = [target EXCEPT ![c] = s]
      BY <1>2 DEF Sched!client
    <2>2. s \in Sched!Servers /\ target'[c] = s
      BY <1>0, <2>1 DEF SchedInv, Sched!TypeOK
    <2> QED BY <1>0, <1>2, <2>1, <2>2, MoveStep DEF Sched!client, Replacing
  <1>3. CASE Sched!channel(c)
    BY <1>0, <1>3, MoveStep DEF Sched!channel, Replacing
  <1>4. CASE Sched!CallEnds(c)
    BY <1>0, <1>4, MoveStep DEF Sched!CallEnds, Replacing
  <1>5. CASE Sched!CallDropped(c)
    <2> USE DEF SchedInv
    <2>1. /\ calls' = [calls EXCEPT ![c] = "idle"] /\ copy' = [copy EXCEPT ![c] = {}]
          /\ target' = [target EXCEPT ![c] = None] /\ updating' = updating \ {c}
          /\ mixed' = (mixed \/ calls[c] \in {"addrs", "ring"})
          /\ UNCHANGED <<backend, refreshes, data, schedulers, addrs, ring, channels, stopping, left, knows, leaving,
                         untold>>
      BY <1>5 DEF Sched!CallDropped
    <2>2. /\ mixed' \in BOOLEAN /\ {} \in Sched!Lists
          /\ ~mixed' => ~mixed /\ calls[c] \notin {"addrs", "ring"}
      BY <2>1, Zenon DEF Sched!TypeOK, Sched!Lists
    <2>3. Sched!TypeOK'
      BY <1>0, <2>1, <2>2 DEF Sched!TypeOK
    <2>4. /\ calls'[c] = "idle" /\ copy'[c] = {} /\ updating \subseteq Sched!Updaters
          /\ \A d \in Sched!Updaters \ {c} : calls'[d] = calls[d] /\ copy'[d] = copy[d] /\ target'[d] = target[d]
      BY <1>0, <2>1 DEF Sched!TypeOK
    <2>5. UpdateInv'
      BY <1>0, <2>1, <2>2, <2>4 DEF UpdateInv, Replacing
    <2>6. AgreeInv'
      <3> SUFFICES ASSUME ~mixed', \A d \in updating' : calls'[d] \in {"channels", "schedulers"}
                   PROVE  addrs = schedulers /\ ring = schedulers
        BY <2>1 DEF AgreeInv
      <3>1. \A d \in updating : calls[d] \in {"channels", "schedulers"}
        BY <2>1, <2>2, <2>4 DEF UpdateInv, Replacing
      <3> QED BY <2>2, <3>1 DEF AgreeInv
    <2>7. ClusterInv'
      BY <1>0, <2>1, <2>4 DEF ClusterInv, SameCluster
    <2>8. TargetInv' /\ LeavingInv'
      BY <1>0, <2>1, <2>4 DEF TargetInv, LeavingInv, Sched!Updaters
    <2> QED BY <2>3, <2>5, <2>6, <2>7, <2>8
  <1> QED BY <1>0, <1>1, <1>2, <1>3, <1>4, <1>5, UpdateStep DEF Sched!Caller

\* A step of the announcer, or the shutdown it waits for.
LEMMA AnnouncerStep ==
  ASSUME SchedInv, Sched!ShutDown \/ Sched!announce_host \/ Sched!Announce
  PROVE  SchedInv'
  <1> USE DEF Sched!dynVars, Sched!announceVars, Sched!clientVars, Sched!Goto
  <1>0. Announcer \in Sched!Updaters /\ leaving \in BOOLEAN
    BY DEF Sched!Updaters, SchedInv, Sched!TypeOK
  <1>1. CASE Sched!ShutDown
    BY <1>1 DEF Sched!ShutDown, SchedInv, Sched!TypeOK, UpdateInv, ClusterInv, TargetInv, LeavingInv,
       AgreeInv, SameCluster
  <1>2. CASE Sched!announce_host \/ Sched!delete_host
    BY <1>0, <1>2, MoveStep DEF Sched!announce_host, Sched!delete_host, Replacing
  <1>3. CASE Sched!AnnounceAll
    <2> USE DEF SchedInv
    <2>1. /\ calls[Announcer] = "pick" /\ calls' = [calls EXCEPT ![Announcer] = "call"]
          /\ left' = addrs /\ untold' = (IF leaving THEN Sched!Servers \ addrs ELSE {})
          /\ UNCHANGED <<backend, refreshes, data, schedulers, addrs, ring, channels, updating, mixed, copy, target,
                         stopping, knows, leaving>>
      BY <1>3 DEF Sched!AnnounceAll
    <2>2. calls'[Announcer] = "call" /\ \A d \in Sched!Updaters \ {Announcer} : calls'[d] = calls[d]
      BY <1>0, <2>1 DEF Sched!TypeOK
    <2>3. Sched!TypeOK'
      BY <2>1 DEF Sched!TypeOK, Sched!Lists
    <2>4. UpdateInv'
      BY <1>0, <2>1, <2>2 DEF UpdateInv, Replacing, Sched!TypeOK
    <2>5. ClusterInv' /\ TargetInv' /\ AgreeInv'
      BY <2>1, <2>2 DEF ClusterInv, SameCluster, TargetInv, AgreeInv
    <2>6. LeavingInv'
      BY <2>1, <2>2 DEF LeavingInv, Sched!TypeOK
    <2> QED BY <2>3, <2>4, <2>5, <2>6
  <1>4. ASSUME NEW s \in Sched!Servers, Sched!AnnounceTo(s) PROVE SchedInv'
    <2> USE DEF SchedInv
    <2>1. /\ calls[Announcer] = "call" /\ s \in left /\ left' = left \ {s} /\ channels' = channels \cup {s}
          /\ UNCHANGED <<backend, refreshes, data, schedulers, addrs, ring, updating, mixed, calls, copy, target,
                         stopping, leaving>>
          /\ \/ knows' = (IF leaving THEN knows \ {s} ELSE knows \cup {s}) /\ untold' = untold
             \/ untold' = (IF leaving THEN untold \cup {s} ELSE untold) /\ knows' = knows
      BY <1>4 DEF Sched!AnnounceTo
    <2>2. Sched!TypeOK'
      BY <2>1 DEF Sched!TypeOK
    <2>3. UpdateInv' /\ ClusterInv' /\ TargetInv' /\ AgreeInv'
      BY <2>1 DEF UpdateInv, ClusterInv, SameCluster, TargetInv, AgreeInv
    <2>4. LeavingInv'
      BY <2>1 DEF LeavingInv
    <2> QED BY <2>2, <2>3, <2>4
  <1>5. CASE Sched!AnnounceEnds
    <2> USE DEF SchedInv
    <2>1. /\ calls[Announcer] = "call" /\ left = {}
          /\ calls' = [calls EXCEPT ![Announcer] = IF leaving THEN "ended" ELSE "idle"]
          /\ UNCHANGED <<backend, refreshes, data, schedulers, addrs, ring, channels, updating, mixed, copy, target,
                         stopping, left, knows, leaving, untold>>
      BY <1>5 DEF Sched!AnnounceEnds
    <2>2. /\ calls'[Announcer] = (IF leaving THEN "ended" ELSE "idle")
          /\ \A d \in Sched!Updaters \ {Announcer} : calls'[d] = calls[d]
      BY <1>0, <2>1 DEF Sched!TypeOK
    <2>3. Sched!TypeOK'
      BY <2>1 DEF Sched!TypeOK
    <2>4. UpdateInv'
      BY <1>0, <2>1, <2>2 DEF UpdateInv, Replacing, Sched!TypeOK
    <2>5. ClusterInv' /\ TargetInv' /\ AgreeInv'
      BY <2>1, <2>2 DEF ClusterInv, SameCluster, TargetInv, AgreeInv
    <2>6. LeavingInv'
      BY <2>1, <2>2 DEF LeavingInv
    <2> QED BY <2>3, <2>4, <2>5, <2>6
  <1> QED BY <1>0, <1>1, <1>2, <1>3, <1>4, <1>5, UpdateStep DEF Sched!Announce

LEMMA SchedNext ==
  ASSUME SchedInv, Sched!Next
  PROVE  SchedInv'
  BY RefreshStep, CallerStep, AnnouncerStep DEF Sched!Next, Sched!peer_call, Sched!persistent_peer_call,
     Sched!persistent_cache_peer_call

LEMMA SchedGood ==
  ASSUME SchedInv
  PROVE  Sched!TypeOK /\ Sched!RingFollows /\ Sched!OneCluster /\ Sched!HostLeft
  BY DEF SchedInv, AgreeInv, Sched!RingFollows, ClusterInv, SameCluster, Sched!OneCluster, LeavingInv, Sched!HostLeft

-----------------------------------------------------------------------------
(* Proxy: the inductive invariant.                                            *)

\* The messages of the download.
Messages == {Started} \cup Errors \cup 1 .. length

\* Stages before a request is known to have the right credentials.
Unverified == {"accept", "mirror", "http", "tunnel", "inner"}

\* A download is there only for a request that was verified; its messages begin with
\* the one that says that it has started, which the handler takes.
StageInv ==
    /\ stage \in Unverified \cup {"via"} => transfer = "none" /\ out = <<>>
    /\ stage \notin {"wait", "done"} => pump = "none"
    /\ stage # "done" => response = "none"
    /\ transfer = "starting" => stage = "first" /\ out = <<>>
    /\ \A i \in DOMAIN out : out[i] = Started => i = 1 /\ stage = "first"
    /\ request.auth # "ok" => stage \in Unverified \cup {"done"} /\ transfer = "none"
                              /\ response \notin {"http", "https", "stream"}

\* The pump has let the response go if it has seen a piece.
PumpInv ==
    /\ pump = "none" => need = 1 /\ verdict = "none" /\ finished = {}
    /\ pump = "send" => need \in finished
    /\ pump \in {"none", "recv", "send", "fail"} => verdict = (IF initialized THEN "go" ELSE "none")
    /\ response = "stream" => verdict = "go"

\* An error ends the body.
EndsInError == body # <<>> /\ body[Len(body)] = DownloadError

\* The client has read, and the body holds, the pieces whose turn has come, in their
\* order; the body of a pump that has ended is complete, or ends in an error.
BodyInv ==
    /\ \A i \in DOMAIN received : received[i] = i
    /\ Len(received) <= need - 1
    /\ \A i \in DOMAIN body : body[i] = Len(received) + i \/ (body[i] = DownloadError /\ i = Len(body) /\ pump = "ended")
    /\ client \notin {"gone", "broken"} =>
            Len(received) + Len(body) = (IF EndsInError THEN need ELSE need - 1)
    /\ client \notin {"gone", "broken"} /\ pump = "ended" /\ verdict = "go" => need = length + 1 \/ EndsInError
    /\ client \in {"reading", "whole"} => response = "stream"
    /\ client = "whole" => body = <<>> /\ pump = "ended"
    /\ client = "broken" => pump = "ended"

ProxyInv ==
    /\ TypeOK
    /\ out \in Seq(Messages) /\ body \in Seq(Int) /\ received \in Seq(Int)
    /\ StageInv
    /\ PumpInv
    /\ BodyInv

-----------------------------------------------------------------------------
(* Proxy: every step keeps the invariant.                                     *)

LEMMA ProxyLengths ==
  ASSUME TypeOK
  PROVE  length \in Nat /\ need \in Nat /\ OutSize \in Nat /\ BodySize \in Nat
  BY ProxyAssumption DEF TypeOK

LEMMA ProxyInit ==
  ASSUME Init
  PROVE  ProxyInv
  <1> USE ProxyAssumption DEF Init
  <1>1. length \in Nat
    OBVIOUS
  <1>2. TypeOK
    <2>1. todo \subseteq 1 .. length /\ finished \subseteq 1 .. length /\ need \in 1 .. length + 1
      BY <1>1
    <2>2. Len(out) <= OutSize /\ Len(body) <= BodySize /\ Len(received) <= length
      BY <1>1
    <2> QED BY <2>1, <2>2 DEF TypeOK
  <1>3. out \in Seq(Messages) /\ body \in Seq(Int) /\ received \in Seq(Int)
    OBVIOUS
  <1>4. StageInv /\ PumpInv
    BY DEF StageInv, PumpInv, Unverified
  <1>5. BodyInv
    BY <1>1 DEF BodyInv, EndsInError
  <1> QED BY <1>2, <1>3, <1>4, <1>5 DEF ProxyInv

LEMMA ProxyStutter ==
  ASSUME ProxyInv, UNCHANGED vars
  PROVE  ProxyInv'
  BY DEF ProxyInv, vars, handlerVars, pumpVars, clientVars, TypeOK, Messages, StageInv, PumpInv, BodyInv, EndsInError

\* The handler goes on or answers; the pump has not begun.
LEMMA HandlerStep ==
  ASSUME ProxyInv, pump = "none", transfer # "starting", stage \in Unverified \cup {"via", "first", "prefetch", "head"},
         UNCHANGED <<request, length, todo, initialized, verdict, finished, need, body, client, received>>,
         transfer' = transfer \/ (stage' = "first" /\ transfer' = "starting"),
         out' = out \/ out' = <<>> \/ (stage = "first" /\ out # <<>> /\ Head(out) = Started /\ out' = Tail(out)),
         stage = "first" => stage' # "first" /\ (out' = out => out = <<>>),
         stage' = "first" => stage = "via",
         pump' = "none" \/ (pump' = "recv" /\ stage' = "wait") \/ (pump' = "ended" /\ stage' = "done"),
         prefetching' \in {"none", "running", "failed"},
         \/ stage \in Unverified /\ stage' \in Unverified \cup {"via"} /\ response' = response
         \/ stage \notin Unverified /\ stage' \in {"first", "prefetch", "head", "wait"} /\ response' = response
         \/ stage' = "done" /\ response' \in Statuses \cup {"closed", "http", "https"},
         stage' # "done" \/ stage \in Unverified \/ response' \notin {"http", "https"},
         stage' = "via" \/ response' \in {"http", "https"} => request.auth = "ok",
         stage' = "wait" => pump' = "recv",
         stage' \in Unverified \cup {"via"} => UNCHANGED <<transfer, out>>
  PROVE  ProxyInv'
  <1>0. length \in Nat /\ need \in Nat /\ OutSize \in Nat /\ BodySize \in Nat
    BY ProxyLengths DEF ProxyInv
  <1>1. out' \in Seq(Messages) /\ Len(out') <= OutSize /\ DOMAIN out' = 1 .. Len(out')
        /\ \A i \in DOMAIN out' : out' = out \/ (i + 1 \in DOMAIN out /\ out'[i] = out[i + 1])
    <2>1. out \in Seq(Messages) /\ Len(out) <= OutSize
      BY DEF ProxyInv, TypeOK
    <2>2. CASE out' = out
      BY <2>1, <2>2
    <2>3. CASE out' = <<>>
      BY <1>0, <2>3
    <2>4. CASE out # <<>> /\ out' = Tail(out)
      BY <1>0, <2>1, <2>4
    <2> QED BY <2>2, <2>3, <2>4
  <1>2. TypeOK'
    <2>1. stage' \in {"accept", "mirror", "http", "tunnel", "inner", "via", "first", "prefetch", "head", "wait", "done"}
      BY DEF Unverified
    <2>2. response' \in Statuses \cup {"none", "closed", "http", "https", "stream"}
      BY DEF ProxyInv, TypeOK
    <2>3. transfer' \in {"none", "starting", "running", "ended"} /\ pump' \in {"none", "recv", "send", "fail", "ended"}
      BY DEF ProxyInv, TypeOK
    <2>4. pump' = "recv" => need \notin finished
      <3>1. pump = "none" => finished = {}
        BY DEF ProxyInv, PumpInv
      <3> QED BY <3>1
    <2> QED BY <1>1, <2>1, <2>2, <2>3, <2>4 DEF ProxyInv, TypeOK
  <1>3. StageInv'
    <2>1. \A i \in DOMAIN out' : out'[i] = Started => i = 1 /\ stage' = "first"
      <3> SUFFICES ASSUME NEW i \in DOMAIN out', out'[i] = Started PROVE i = 1 /\ stage' = "first"
        OBVIOUS
      <3>1. CASE out' = out
        <4>1. stage = "first"
          BY <3>1 DEF ProxyInv, StageInv
        <4> QED BY <3>1, <4>1
      <3>2. CASE out' # out
        <4>1. i + 1 \in DOMAIN out /\ out[i + 1] = Started /\ i \in 1 .. Len(out')
          BY <1>1, <3>2
        <4> QED BY <1>1, <4>1 DEF ProxyInv, StageInv
      <3> QED BY <3>1, <3>2
    <2>2. transfer' = "starting" => stage' = "first" /\ out' = <<>>
      BY DEF ProxyInv, StageInv, Unverified
    <2>3. request.auth # "ok" => stage' \in Unverified \cup {"done"} /\ transfer' = "none"
                                 /\ response' \notin {"http", "https", "stream"}
      BY DEF ProxyInv, StageInv, Unverified, Statuses
    <2>4. stage' # "done" => response' = "none"
      BY DEF ProxyInv, StageInv, Unverified
    <2> QED BY <2>1, <2>2, <2>3, <2>4 DEF ProxyInv, StageInv, Unverified
  <1>4. PumpInv'
    BY DEF ProxyInv, PumpInv, StageInv, Unverified, Statuses
  <1>5. BodyInv'
    <2>1. client \notin {"reading", "whole"} /\ verdict = "none"
      BY DEF ProxyInv, BodyInv, StageInv, PumpInv, Unverified
    <2>2. \A i \in DOMAIN body : body[i] = Len(received) + i
      BY DEF ProxyInv, BodyInv
    <2>3. EndsInError' = EndsInError
      BY DEF EndsInError
    <2> QED BY <2>1, <2>2, <2>3 DEF ProxyInv, BodyInv
  <1>6. out' \in Seq(Messages')
    BY <1>1 DEF Messages
  <1> QED BY <1>2, <1>3, <1>4, <1>5, <1>6 DEF ProxyInv

\* Before its credentials are verified.
LEMMA RouteStep ==
  ASSUME ProxyInv, \/ handler \/ registry_mirror_http_handler \/ registry_mirror_https_handler
                   \/ http_handler \/ https_handler \/ upgraded_handler
  PROVE  ProxyInv'
  <1>1. /\ stage \in Unverified
        /\ UNCHANGED <<request, length, prefetching, transfer, todo, out, pump, initialized, verdict, finished, need,
                       body, client, received>>
    BY DEF handler, registry_mirror_http_handler, registry_mirror_https_handler, http_handler, https_handler,
       upgraded_handler, Route, proxy_via_http, proxy_via_https, make_error_response, Goto, pumpVars, clientVars,
       Unverified
  <1>2. \/ stage' \in Unverified \cup {"via"} /\ response' = response /\ (stage' = "via" => request.auth = "ok")
        \/ /\ stage' = "done" /\ response' \in {"429", "401", "400", "closed", "http", "https"}
           /\ response' \in {"http", "https"} => request.auth = "ok"
    <2>1. CASE handler \/ registry_mirror_http_handler \/ registry_mirror_https_handler \/ https_handler
      BY <2>1 DEF handler, registry_mirror_http_handler, registry_mirror_https_handler, https_handler,
         make_error_response, Goto, Unverified
    <2>2. CASE http_handler \/ upgraded_handler
      BY <2>2 DEF http_handler, upgraded_handler, Route, proxy_via_http, proxy_via_https, make_error_response, Goto
    <2> QED BY <2>1, <2>2
  <1>3. pump = "none" /\ transfer = "none" /\ out = <<>> /\ response = "none"
    BY <1>1 DEF ProxyInv, StageInv, Unverified
  <1>4. prefetching \in {"none", "running", "failed"}
    BY DEF ProxyInv, TypeOK
  <1> QED BY <1>1, <1>2, <1>3, <1>4, HandlerStep DEF Unverified, Statuses

\* The download is asked for, and the response is prepared.
LEMMA DfdaemonStep ==
  ASSUME ProxyInv, download \/ ReceiveStarted \/ prefetch \/ make_response_headers
  PROVE  ProxyInv'
  <1>1. prefetching \in {"none", "running", "failed"}
    BY DEF ProxyInv, TypeOK
  <1>2. pump = "none" /\ response = "none"
    BY DEF ProxyInv, StageInv, download, ReceiveStarted, prefetch, make_response_headers
  <1>3. CASE download
    <2>1. transfer = "none" /\ out = <<>>
      BY <1>3 DEF ProxyInv, StageInv, download
    <2> QED BY <1>1, <1>2, <1>3, <2>1, HandlerStep DEF download, make_error_response, Goto, pumpVars, clientVars,
           Unverified, Statuses
  <1>4. CASE ReceiveStarted
    <2>1. transfer # "starting"
      BY <1>4 DEF ProxyInv, StageInv, ReceiveStarted
    <2>2. CASE out # <<>> /\ Head(out) = Started /\ out' = Tail(out)
      <3>1. out' # out
        BY <2>2 DEF ProxyInv
      <3> QED BY <1>1, <1>2, <1>4, <2>1, <2>2, <3>1, HandlerStep DEF ReceiveStarted, make_error_response, Goto,
          pumpVars,
           clientVars, Unverified, Statuses
    <2>3. CASE out' = <<>> /\ make_error_response("500")
      BY <1>1, <1>2, <1>4, <2>1, <2>3, HandlerStep DEF ReceiveStarted, make_error_response, pumpVars,
           clientVars, Unverified, Statuses
    <2> QED BY <1>4, <2>2, <2>3 DEF ReceiveStarted
  <1>5. CASE prefetch
    <2>1. transfer # "starting"
      BY <1>5 DEF ProxyInv, StageInv, prefetch
    <2> QED BY <1>1, <1>2, <1>5, <2>1, HandlerStep DEF prefetch, pumpVars, clientVars, Unverified
  <1>6. CASE make_response_headers
    <2>1. transfer # "starting"
      BY <1>6 DEF ProxyInv, StageInv, make_response_headers
    <2> QED BY <1>1, <1>2, <1>6, <2>1, HandlerStep DEF make_response_headers, make_error_response, Goto, clientVars,
           Unverified, Statuses
  <1> QED BY <1>3, <1>4, <1>5, <1>6

\* The response goes out; the prefetch ends.
LEMMA VerdictStep ==
  ASSUME ProxyInv, ReceiveVerdict \/ prefetch_task_failed
  PROVE  ProxyInv'
  <1>1. CASE prefetch_task_failed
    <2>1. /\ prefetching' \in {"none", "failed"}
          /\ UNCHANGED <<request, length, stage, response, transfer, todo, out, pump, initialized, verdict, finished,
                         need, body, client, received>>
      BY <1>1 DEF prefetch_task_failed, pumpVars, clientVars
    <2> QED BY <2>1 DEF ProxyInv, TypeOK, Messages, StageInv, PumpInv, BodyInv, EndsInError
  <1>2. CASE ReceiveVerdict
    <2>1. /\ stage = "wait" /\ stage' = "done"
          /\ response' \in {"stream", "500", "backend"} /\ (response' = "stream" => verdict = "go")
          /\ UNCHANGED <<request, length, prefetching, transfer, todo, out, pump, initialized, verdict, finished,
                         need, body, client, received>>
      BY <1>2 DEF ReceiveVerdict, make_error_response, pumpVars, clientVars
    <2>2. TypeOK'
      BY <2>1 DEF ProxyInv, TypeOK, Statuses
    <2>3. StageInv' /\ PumpInv'
      BY <2>1 DEF ProxyInv, StageInv, PumpInv, Unverified
    <2>4. client \notin {"reading", "whole"}
      BY <2>1 DEF ProxyInv, StageInv, BodyInv
    <2>5. BodyInv'
      BY <2>1, <2>4 DEF ProxyInv, BodyInv, EndsInError
    <2> QED BY <2>1, <2>2, <2>3, <2>5 DEF ProxyInv, Messages
  <1> QED BY <1>1, <1>2

\* A message of the download.
LEMMA ReportStep ==
  ASSUME ProxyInv, NEW m \in Messages, Report(m), m = Started => transfer = "starting",
         UNCHANGED <<request, length, stage, response, prefetching, pump, initialized, verdict, finished, need, body,
                     client, received>>,
         todo' \subseteq todo, transfer \in {"starting", "running"}, transfer' \in {"running", "ended"}
  PROVE  ProxyInv'
  <1>0. length \in Nat /\ need \in Nat /\ OutSize \in Nat /\ BodySize \in Nat
    BY ProxyLengths DEF ProxyInv
  <1>1. out \in Seq(Messages)
    BY DEF ProxyInv
  <1>2. \/ out' = <<>>
        \/ ~Deserted /\ Len(out) < OutSize /\ out' = Append(out, m)
    BY DEF Report
  <1>3. /\ out' \in Seq(Messages) /\ Len(out') <= OutSize
        /\ \A i \in DOMAIN out' : (i \in DOMAIN out /\ out'[i] = out[i]) \/ (out'[i] = m /\ i = Len(out) + 1)
    <2>1. CASE out' = <<>>
      BY <1>0, <2>1
    <2>2. CASE Len(out) < OutSize /\ out' = Append(out, m)
      BY <1>0, <1>1, <2>2
    <2> QED BY <1>2, <2>1, <2>2
  <1>4. \A i \in DOMAIN out' : out'[i] = Started => i = 1 /\ stage' = "first"
    <2> SUFFICES ASSUME NEW i \in DOMAIN out', out'[i] = Started PROVE i = 1 /\ stage = "first"
      OBVIOUS
    <2>1. CASE i \in DOMAIN out /\ out'[i] = out[i]
      BY <2>1 DEF ProxyInv, StageInv
    <2>2. CASE out'[i] = m /\ i = Len(out) + 1
      <3>1. out = <<>> /\ stage = "first"
        BY <2>2 DEF ProxyInv, StageInv
      <3> QED BY <2>2, <3>1
    <2> QED BY <1>3, <2>1, <2>2
  <1>5. stage \notin Unverified \cup {"via"} /\ request.auth = "ok"
    BY DEF ProxyInv, StageInv
  <1>6. TypeOK'
    BY <1>3 DEF ProxyInv, TypeOK
  <1>7. StageInv' /\ PumpInv'
    BY <1>4, <1>5 DEF ProxyInv, StageInv, PumpInv
  <1>8. BodyInv'
    BY DEF ProxyInv, BodyInv, EndsInError
  <1> QED BY <1>3, <1>6, <1>7, <1>8 DEF ProxyInv, Messages

LEMMA DownloadStep ==
  ASSUME ProxyInv, Download
  PROVE  ProxyInv'
  <1> USE DEF handlerVars, pumpVars, clientVars
  <1>1. CASE DownloadStarts
    BY <1>1, ReportStep DEF DownloadStarts, Messages
  <1>2. ASSUME NEW p \in 1 .. length, DownloadPiece(p) PROVE ProxyInv'
    <2>1. p \in Messages /\ p # Started
      BY <1>2, ProxyLengths DEF Messages, Started, ProxyInv
    <2> QED BY <1>2, <2>1, ReportStep DEF DownloadPiece
  <1>3. CASE DownloadEnds
    <2>1. /\ transfer = "running" /\ transfer' = "ended"
          /\ UNCHANGED <<request, length, stage, response, prefetching, todo, out, pump, initialized, verdict, finished,
                         need, body, client, received>>
      BY <1>3 DEF DownloadEnds
    <2> QED BY <2>1 DEF ProxyInv, TypeOK, Messages, StageInv, PumpInv, BodyInv, EndsInError
  <1>4. CASE handle_error
    <2>1. PICK e \in Errors : Report(e)
      BY <1>4 DEF handle_error
    <2>2. e \in Messages /\ e # Started
      BY <2>1 DEF Messages, Started, Errors, DownloadError, BackendError
    <2> QED BY <1>4, <2>1, <2>2, ReportStep DEF handle_error
  <1> QED BY <1>1, <1>2, <1>3, <1>4 DEF Download

\* While the pump runs there is no error in the body.
LEMMA RunningBody ==
  ASSUME ProxyInv, pump # "ended"
  PROVE  /\ ~EndsInError /\ \A i \in DOMAIN body : body[i] = Len(received) + i
         /\ client # "whole"
         /\ client \notin {"gone", "broken"} => Len(received) + Len(body) = need - 1
  <1>1. \A i \in DOMAIN body : body[i] = Len(received) + i
    BY DEF ProxyInv, BodyInv
  <1>2. ~EndsInError
    BY <1>1 DEF EndsInError, DownloadError, ProxyInv
  <1> QED BY <1>1, <1>2 DEF ProxyInv, BodyInv

\* A step of the pump that leaves the body alone.
LEMMA PumpMoves ==
  ASSUME ProxyInv, pump \in {"recv", "send", "fail"}, pump' \in {"recv", "send", "fail", "ended"},
         UNCHANGED <<request, length, stage, response, prefetching, transfer, todo, need, body, client, received>>,
         out' = out \/ out' = <<>> \/ (out # <<>> /\ out' = Tail(out)),
         initialized' \in BOOLEAN, verdict' \in {"none", "go", "500", "backend"},
         finished' \subseteq 1 .. length,
         pump' = "recv" => need \notin finished', pump' = "send" => need \in finished',
         pump' # "ended" => verdict' = (IF initialized' THEN "go" ELSE "none"),
         verdict = "go" => verdict' = "go",
         pump' = "ended" => client = "gone" \/ verdict' # "go" \/ need = length + 1
  PROVE  ProxyInv'
  <1>0. length \in Nat /\ need \in Nat /\ OutSize \in Nat /\ BodySize \in Nat
    BY ProxyLengths DEF ProxyInv
  <1>1. /\ out' \in Seq(Messages) /\ Len(out') <= OutSize
        /\ \A i \in DOMAIN out' : \E j \in DOMAIN out : out'[i] = out[j]
    <2>1. out \in Seq(Messages) /\ Len(out) <= OutSize
      BY DEF ProxyInv, TypeOK
    <2>2. CASE out' = out
      BY <2>1, <2>2
    <2>3. CASE out' = <<>>
      BY <1>0, <2>3
    <2>4. CASE out # <<>> /\ out' = Tail(out)
      BY <1>0, <2>1, <2>4
    <2> QED BY <2>2, <2>3, <2>4
  <1>2. stage \in {"wait", "done"} /\ transfer # "starting"
    BY DEF ProxyInv, StageInv
  <1>3. TypeOK'
    BY <1>1 DEF ProxyInv, TypeOK
  <1>4. StageInv'
    <2>1. \A i \in DOMAIN out' : out'[i] # Started
      BY <1>1, <1>2 DEF ProxyInv, StageInv
    <2> QED BY <1>2, <2>1 DEF ProxyInv, StageInv, Unverified
  <1>5. PumpInv'
    BY DEF ProxyInv, PumpInv
  <1>6. BodyInv'
    BY RunningBody DEF ProxyInv, BodyInv, EndsInError
  <1> QED BY <1>1, <1>3, <1>4, <1>5, <1>6 DEF ProxyInv, Messages

\* The pump sends a piece or an error to the body.
LEMMA PumpSends ==
  ASSUME ProxyInv, client # "gone", Len(body) < BodySize, NEW m, body' = Append(body, m),
         UNCHANGED <<request, length, stage, response, prefetching, transfer, todo, initialized, verdict, client, received>>,
         \/ /\ pump = "send" /\ m = need /\ need' = need + 1 /\ finished' = finished \ {need} /\ out' = out
            /\ pump' = IF need' \in finished' THEN "send" ELSE "recv"
         \/ pump = "fail" /\ m = DownloadError /\ need' = need /\ finished' = finished /\ out' = <<>> /\ pump' = "ended"
  PROVE  ProxyInv'
  <1>0. length \in Nat /\ need \in 1 .. length + 1 /\ OutSize \in Nat /\ BodySize \in Nat
    BY ProxyLengths DEF ProxyInv, TypeOK
  <1>1. stage \in {"wait", "done"} /\ transfer # "starting"
    BY DEF ProxyInv, StageInv
  <1>2. need' \in 1 .. length + 1 /\ finished' \subseteq 1 .. length /\ m \in Int
    <2>1. pump = "send" => need \in finished
      BY DEF ProxyInv, PumpInv
    <2>2. finished \subseteq 1 .. length
      BY DEF ProxyInv, TypeOK
    <2>3. CASE pump = "send"
      <3>1. need \in 1 .. length /\ m = need /\ need' = need + 1 /\ finished' \subseteq finished
        BY <2>1, <2>2, <2>3
      <3> QED BY <1>0, <2>2, <3>1
    <2>4. CASE pump = "fail"
      <3>1. m = DownloadError /\ need' = need /\ finished' = finished
        BY <2>4
      <3>2. DownloadError \in Int
        BY DEF DownloadError
      <3>3. length' = length
        OBVIOUS
      <3> QED BY ONLY <1>0, <2>2, <3>1, <3>2, <3>3
    <2> QED BY <2>3, <2>4
  <1>3. /\ body \in Seq(Int) /\ Len(body) \in Nat /\ received \in Seq(Int) /\ Len(received) \in Nat
        /\ out \in Seq(Messages) /\ Len(out) <= OutSize
    BY DEF ProxyInv, TypeOK
  <1>4. /\ body' \in Seq(Int) /\ Len(body') = Len(body) + 1 /\ Len(body') <= BodySize /\ DOMAIN body' = 1 .. Len(body')
        /\ body'[Len(body) + 1] = m /\ body' # <<>>
        /\ \A i \in DOMAIN body' : i # Len(body) + 1 => i \in DOMAIN body /\ body'[i] = body[i]
    <2>1. body' = Append(body, m) /\ Len(body) < BodySize
      OBVIOUS
    <2>2. body' \in Seq(Int) /\ Len(body') = Len(body) + 1 /\ DOMAIN body' = 1 .. Len(body')
      BY ONLY <1>2, <1>3, <2>1
    <2>3. body'[Len(body) + 1] = m /\ \A i \in 1 .. Len(body) : body'[i] = body[i]
      BY ONLY <1>2, <1>3, <2>1
    <2>4. DOMAIN body = 1 .. Len(body)
      BY ONLY <1>3
    <2>5. Len(body') <= BodySize /\ body' # <<>>
      <3>1. Len(body') <= BodySize /\ Len(body') # 0
        BY ONLY <1>0, <1>3, <2>1, <2>2
      <3>2. body' = <<>> => Len(body') = 0
        BY ONLY <2>2
      <3> QED BY <3>1, <3>2
    <2> QED BY ONLY <1>3, <2>2, <2>3, <2>4, <2>5
  <1>5. TypeOK'
    <2>1. Len(out') <= OutSize
      BY <1>0, <1>3
    <2>2. pump' \in {"none", "recv", "send", "fail", "ended"} /\ (pump' = "recv" => need' \notin finished')
      OBVIOUS
    <2>3. Len(received') <= length'
      BY DEF ProxyInv, TypeOK
    <2> QED BY <1>2, <1>4, <2>1, <2>2, <2>3 DEF ProxyInv, TypeOK
  <1>6. StageInv'
    <2>1. \A i \in DOMAIN out' : out'[i] # Started
      BY <1>1 DEF ProxyInv, StageInv
    <2> QED BY <1>1, <2>1 DEF ProxyInv, StageInv, Unverified
  <1>7. PumpInv'
    BY DEF ProxyInv, PumpInv
  <1>8. BodyInv'
    <2>1. /\ \A i \in DOMAIN body : body[i] = Len(received) + i
          /\ client # "whole"
          /\ client \notin {"gone", "broken"} => Len(received) + Len(body) = need - 1
          /\ Len(received) <= need - 1 /\ \A i \in DOMAIN received : received[i] = i
      BY RunningBody DEF ProxyInv, BodyInv
    <2>2. EndsInError' <=> m = DownloadError
      BY <1>3, <1>4 DEF EndsInError
    <2>3. client # "broken"
      BY DEF ProxyInv, BodyInv
    <2>4. CASE m = need /\ need' = need + 1 /\ pump' # "ended"
      <3>1. m # DownloadError
        BY <1>0, <2>4 DEF DownloadError
      <3>2. \A i \in DOMAIN body' : body'[i] = Len(received') + i
        <4> SUFFICES ASSUME NEW i \in DOMAIN body' PROVE body'[i] = Len(received) + i
          OBVIOUS
        <4>1. CASE i = Len(body) + 1
          BY <1>0, <1>3, <1>4, <2>1, <2>3, <2>4, <4>1
        <4>2. CASE i # Len(body) + 1
          BY <1>4, <2>1, <4>2
        <4> QED BY <4>1, <4>2
      <3> QED BY SMTT(40), <1>0, <1>3, <1>4, <2>1, <2>2, <2>3, <2>4, <3>1, <3>2 DEF BodyInv, ProxyInv
    <2>5. CASE m = DownloadError /\ need' = need /\ pump' = "ended"
      <3>1. \A i \in DOMAIN body' : \/ body'[i] = Len(received') + i
                                    \/ body'[i] = DownloadError /\ i = Len(body') /\ pump' = "ended"
        BY <1>3, <1>4, <2>1, <2>5
      <3> QED BY SMTT(40), <1>0, <1>3, <1>4, <2>1, <2>2, <2>3, <2>5, <3>1 DEF BodyInv, ProxyInv
    <2> QED BY <2>4, <2>5
  <1>9. out' \in Seq(Messages)
    <2>1. out' = out \/ out' = <<>>
      OBVIOUS
    <2>2. CASE out' = out
      BY <1>3, <2>2
    <2>3. CASE out' = <<>>
      BY <2>3
    <2> QED BY <2>1, <2>2, <2>3
  <1> QED BY <1>4, <1>5, <1>6, <1>7, <1>8, <1>9 DEF ProxyInv, Messages

LEMMA PumpStep ==
  ASSUME ProxyInv, Pump
  PROVE  ProxyInv'
  <1> USE DEF handlerVars, clientVars, PumpEnds
  <1>0. /\ length \in Nat /\ need \in 1 .. length + 1 /\ finished \subseteq 1 .. length /\ initialized \in BOOLEAN
        /\ verdict \in {"none", "go", "500", "backend"} /\ out \in Seq(Messages)
        /\ pump = "recv" => need \notin finished
        /\ pump \in {"recv", "send", "fail"} => verdict = (IF initialized THEN "go" ELSE "none")
        /\ pump = "send" => need \in finished
    BY ProxyLengths DEF ProxyInv, TypeOK, PumpInv
  <1>1. CASE PumpEmpty
    <2>1. need = length + 1
      BY <1>0, <1>1 DEF PumpEmpty
    <2> QED BY <1>0, <1>1, <2>1, PumpMoves DEF PumpEmpty
  <1>2. CASE PumpPiece
    <2>1. Head(out) \in 1 .. length
      <3>1. Head(out) \in Messages /\ Head(out) = out[1] /\ 1 \in DOMAIN out
        BY <1>0, <1>2 DEF PumpPiece
      <3>2. stage # "first"
        BY <1>2 DEF PumpPiece, ProxyInv, StageInv
      <3>3. Head(out) # Started
        BY <3>1, <3>2 DEF ProxyInv, StageInv
      <3> QED BY <1>2, <3>1, <3>3 DEF PumpPiece, Messages
    <2> QED BY <1>0, <1>2, <2>1, PumpMoves DEF PumpPiece
  <1>3. CASE PumpSend
    <2>1. CASE client = "gone" /\ PumpEnds
      BY <1>0, <1>3, <2>1, PumpMoves DEF PumpSend
    <2>2. CASE pump' = "fail" /\ UNCHANGED <<out, finished, need, body>>
      BY <1>0, <1>3, <2>2, PumpMoves DEF PumpSend
    <2>3. CASE client # "gone" /\ Len(body) < BodySize /\ body' = Append(body, need)
      BY <1>0, <1>3, <2>3, PumpSends DEF PumpSend
    <2> QED BY <1>3, <2>1, <2>2, <2>3 DEF PumpSend
  <1>4. CASE PumpClosed
    BY <1>0, <1>4, PumpMoves DEF PumpClosed
  <1>5. CASE PumpError
    BY <1>0, <1>5, PumpMoves DEF PumpError
  <1>6. CASE PumpFail
    BY <1>0, <1>6, PumpMoves, PumpSends DEF PumpFail
  <1> QED BY <1>1, <1>2, <1>3, <1>4, <1>5, <1>6 DEF Pump

LEMMA EmptyByLength ==
  ASSUME NEW S, NEW q \in Seq(S)
  PROVE  q = <<>> <=> Len(q) = 0
  OBVIOUS

LEMMA ClientStep ==
  ASSUME ProxyInv, ClientReads \/ ClientLeaves
  PROVE  ProxyInv'
  <1> USE DEF handlerVars, pumpVars
  <1>0. /\ length \in Nat /\ need \in 1 .. length + 1 /\ BodySize \in Nat /\ body \in Seq(Int) /\ received \in Seq(Int)
        /\ Len(body) \in Nat /\ Len(body) <= BodySize /\ Len(received) \in Nat
    BY ProxyLengths DEF ProxyInv, TypeOK
  <1>1. UNCHANGED <<request, length, stage, response, prefetching, transfer, todo, out, pump, initialized, verdict,
                    finished, need>>
    BY DEF ClientReads, ClientLeaves
  <1>2. StageInv' /\ PumpInv' /\ out' \in Seq(Messages')
    BY <1>1 DEF ProxyInv, StageInv, PumpInv, Messages
  <1>3. CASE UNCHANGED <<body, received>> /\ client' \in {"reading", "answered"} /\ client = "waiting"
             /\ (client' = "reading" => response = "stream")
    BY <1>1, <1>2, <1>3 DEF ProxyInv, TypeOK, Ended, BodyInv, EndsInError
  <1>4. CASE client = "reading" /\ body # <<>> /\ body' = Tail(body) /\ Head(body) \in Errors
             /\ client' = "broken" /\ received' = received
    <2>1. Head(body) = body[1] /\ body[1] < 0 /\ 1 \in DOMAIN body
      BY <1>0, <1>4 DEF Errors, DownloadError, BackendError
    <2>2. Len(body) = 1 /\ pump = "ended"
      <3>1. body[1] = Len(received) + 1 \/ (1 = Len(body) /\ pump = "ended")
        BY <2>1 DEF ProxyInv, BodyInv
      <3> QED BY <1>0, <2>1, <3>1
    <2>3. body' = <<>> /\ body' \in Seq(Int) /\ Len(body') <= BodySize
      BY SMTT(40), <1>0, <1>4, <2>2
    <2>4. TypeOK'
      BY <1>1, <1>4, <2>3 DEF ProxyInv, TypeOK, Ended
    <2>5. BodyInv'
      BY <1>1, <1>4, <2>2, <2>3 DEF ProxyInv, BodyInv, EndsInError
    <2> QED BY <1>2, <1>4, <2>3, <2>4, <2>5 DEF ProxyInv
  <1>5. CASE client = "reading" /\ body # <<>> /\ body' = Tail(body) /\ Head(body) \notin Errors
             /\ received' = Append(received, Head(body)) /\ client' = client
    <2>1. /\ body[1] = Len(received) + 1 /\ Head(body) = body[1]
      BY <1>0, <1>5 DEF ProxyInv, BodyInv, Errors
    <2>2. /\ received' \in Seq(Int) /\ Len(received') = Len(received) + 1 /\ \A i \in DOMAIN received' : received'[i] = i
      <3>1. \A i \in DOMAIN received : received[i] = i
        BY DEF ProxyInv, BodyInv
      <3> QED BY SMTT(40), <1>0, <1>5, <2>1, <3>1
    <2>3. /\ body' \in Seq(Int) /\ Len(body') = Len(body) - 1 /\ Len(body') <= BodySize /\ DOMAIN body' = 1 .. Len(body')
          /\ \A i \in DOMAIN body' : i + 1 \in DOMAIN body /\ body'[i] = body[i + 1]
      BY <1>0, <1>5
    <2>4. EndsInError' <=> EndsInError
      <3>1. CASE Len(body) = 1
        <4>1. ~EndsInError
          BY <1>0, <2>1, <3>1 DEF EndsInError, DownloadError
        <4>2. body' = <<>>
          BY SMTT(40), <1>0, <1>5, <3>1
        <4> QED BY <4>1, <4>2 DEF EndsInError
      <3>2. CASE Len(body) # 1
        <4>1. Len(body') \in DOMAIN body' /\ body'[Len(body')] = body[Len(body)] /\ body' # <<>>
          <5>0. Len(body) # 0
            BY <1>0, <1>5, EmptyByLength
          <5>1. Len(body) >= 2
            <6>1. Len(body) \in Nat
              BY <1>0
            <6> QED BY ONLY <6>1, <3>2, <5>0
          <5>2. Len(body') \in DOMAIN body' /\ Len(body') + 1 = Len(body)
            BY <1>0, <2>3, <5>1
          <5>3. body' # <<>>
            BY <1>0, <5>1, <5>2
          <5> QED BY <2>3, <5>2, <5>3
        <4> QED BY <1>5, <4>1 DEF EndsInError
      <3> QED BY <3>1, <3>2
    <2>5. Len(received) + Len(body) = (IF EndsInError THEN need ELSE need - 1)
      BY <1>5 DEF ProxyInv, BodyInv
    <2>6. EndsInError => Len(body) > 1
      BY <1>0, <1>5, <2>1 DEF EndsInError, DownloadError
    <2>7. Len(received') <= need - 1
      BY <1>0, <1>5, <2>2, <2>5, <2>6
    <2>8. BodyInv'
      <3>1. \A i \in DOMAIN body' : \/ body'[i] = Len(received') + i
                                    \/ body'[i] = DownloadError /\ i = Len(body') /\ pump' = "ended"
        <4> SUFFICES ASSUME NEW i \in DOMAIN body'
                     PROVE  \/ body'[i] = Len(received') + i
                            \/ body'[i] = DownloadError /\ i = Len(body') /\ pump' = "ended"
          OBVIOUS
        <4>1. \/ body[i + 1] = Len(received) + (i + 1)
              \/ body[i + 1] = DownloadError /\ i + 1 = Len(body) /\ pump = "ended"
          BY <2>3 DEF ProxyInv, BodyInv
        <4>2. i \in Nat /\ body'[i] = body[i + 1]
          BY <1>0, <2>3
        <4>3. CASE body[i + 1] = Len(received) + (i + 1)
          BY <1>0, <2>2, <4>2, <4>3
        <4>4. CASE body[i + 1] = DownloadError /\ i + 1 = Len(body) /\ pump = "ended"
          BY <1>0, <1>1, <2>3, <4>2, <4>4
        <4> QED BY <4>1, <4>3, <4>4
      <3>2. Len(received') + Len(body') = (IF EndsInError' THEN need' ELSE need' - 1)
        <4>1. Len(received') + Len(body') = Len(received) + Len(body)
          BY <1>0, <2>2, <2>3
        <4> QED BY <1>1, <2>4, <2>5, <4>1
      <3> QED BY <1>1, <1>5, <2>2, <2>4, <2>7, <3>1, <3>2 DEF ProxyInv, BodyInv
    <2>9. TypeOK'
      BY <1>0, <1>1, <1>5, <2>3, <2>7, <2>2 DEF ProxyInv, TypeOK
    <2> QED BY <1>2, <2>2, <2>3, <2>8, <2>9 DEF ProxyInv
  <1>6. CASE client = "reading" /\ body = <<>> /\ pump = "ended" /\ client' = "whole" /\ UNCHANGED <<body, received>>
    BY <1>1, <1>2, <1>6 DEF ProxyInv, TypeOK, Ended, BodyInv, EndsInError
  <1>7. CASE ClientLeaves
    <2>1. client' = "gone" /\ body' = <<>> /\ received' = received
      BY <1>7 DEF ClientLeaves
    <2>2. TypeOK'
      BY <1>0, <1>1, <2>1 DEF ProxyInv, TypeOK, Ended
    <2>3. BodyInv'
      BY <1>1, <2>1 DEF ProxyInv, BodyInv, EndsInError
    <2> QED BY <1>2, <2>1, <2>2, <2>3 DEF ProxyInv
  <1> QED BY <1>3, <1>4, <1>5, <1>6, <1>7 DEF ClientReads

LEMMA ProxyNext ==
  ASSUME ProxyInv, Next
  PROVE  ProxyInv'
  BY RouteStep, DfdaemonStep, VerdictStep, DownloadStep, PumpStep, ClientStep DEF Next, Handler, proxy_via_dfdaemon

LEMMA ProxyGood ==
  ASSUME ProxyInv
  PROVE  TypeOK /\ BodyIsWhole /\ VerifiedBeforeUse
  <1>1. VerifiedBeforeUse
    BY DEF ProxyInv, StageInv, VerifiedBeforeUse
  <1>2. \A i \in 1 .. Len(received) : received[i] = i
    BY DEF ProxyInv, BodyInv
  <1>3. ASSUME client = "whole" PROVE Len(received) = length
    <2>1. response = "stream" /\ verdict = "go" /\ body = <<>> /\ pump = "ended"
      BY <1>3 DEF ProxyInv, BodyInv, PumpInv
    <2>2. need = length + 1 /\ Len(received) + Len(body) = need - 1
      BY <1>3, <2>1 DEF ProxyInv, BodyInv, EndsInError
    <2> QED BY <2>1, <2>2, ProxyLengths DEF ProxyInv
  <1> QED BY <1>1, <1>2, <1>3 DEF BodyIsWhole, ProxyInv

-----------------------------------------------------------------------------
(* ExportClients: the inductive invariant.                                   *)

Fetches == [pc : {"idle", "request", "open", "stream", "flush", "ok", "err", "aborted"},
            initialized : BOOLEAN, remaining_pieces : SUBSET Pieces, downloaded : 0 .. MaxMessages]
Outputs == [exists : BOOLEAN, written : SUBSET Pieces, buffer : SUBSET Pieces]
UnderWay == {"request", "open", "stream", "flush"}

\* A count of bytes that a repeated piece can complete.
Fooled(c) == c.program # "dfget" /\ c.repeats /\ c.cuts

\* What is in the file is what the daemon delivered, and the two ways to see that it is
\* complete agree with it.
FileOK(c, r, o, g) ==
    /\ r \in Fetches /\ o \in Outputs /\ g \in SUBSET Pieces
    /\ r.pc \in {"idle", "request", "open"} =>
            ~r.initialized /\ r.downloaded = 0 /\ g = {} /\ ~o.exists /\ o.written = {} /\ o.buffer = {}
    /\ r.pc = "stream" =>
            /\ ~r.initialized => g = {} /\ r.downloaded = 0
            /\ r.initialized => r.remaining_pieces = Pieces \ g
            /\ c.transfer => o.exists /\ o.written \cup o.buffer = g
            /\ ~c.repeats => r.downloaded = Cardinality(g)
    /\ r.pc = "flush" => o.exists /\ o.written \cup o.buffer = g /\ (g = Pieces \/ Fooled(c))
    /\ r.pc = "ok" => o.exists /\ o.written = g /\ (g = Pieces \/ Fooled(c))
    /\ r.pc = "err" => ~o.exists

FilesInv ==
    /\ command \in Exports
    /\ fetch = [f \in Files |-> fetch[f]] /\ given = [f \in Files |-> given[f]] /\ output = [f \in Files |-> output[f]]
    /\ \A f \in Files : FileOK(command, fetch[f], output[f], given[f])

\* Which files the program may have asked for.
WalkInv ==
    /\ main \in {"start", "single", "list", "spawn", "join", "ok", "err"}
    /\ entries \subseteq listed /\ listed \subseteq Files \cup Dirs /\ dirs \subseteq Dirs
    /\ main \in {"start", "list"} => \A f \in Files : fetch[f].pc = "idle"
    /\ main \in {"start", "list"} => entries = {} /\ listed = {}
    /\ main = "single" => \A f, g \in Files : fetch[f].pc # "idle" /\ fetch[g].pc # "idle" => f = g
    /\ main = "single" => ~command.directory
    /\ main \in {"list", "spawn", "join"} => command.directory
    /\ \A f \in Files : command.directory /\ fetch[f].pc # "idle" =>
            f \in listed /\ f \notin entries /\ ParentOf[f] \in dirs \cup {None}
    /\ \A f \in Files : f \in listed /\ ParentOf[f] # None => ParentOf[f] \in listed
    /\ main \in {"spawn", "join", "ok"} /\ command.directory => \A d \in Dirs : d \in listed => d \in entries \cup dirs
    /\ main \in {"join"} => entries = {}
    /\ main = "ok" /\ command.directory => entries = {} /\ \A f \in Files : f \in listed => fetch[f].pc = "ok"
    /\ main \in {"ok", "err"} => \A f \in Files : fetch[f].pc \notin UnderWay

ExportInv == FilesInv /\ WalkInv

-----------------------------------------------------------------------------
(* ExportClients: every step keeps the invariant.                            *)

LEMMA ExportInit == Exporter!Init => ExportInv
  <1> SUFFICES ASSUME Exporter!Init PROVE ExportInv
    OBVIOUS
  <1>1. Cardinality({}) = 0
    BY FS_EmptySet
  <1>2. 0 \in 0 .. MaxMessages
    BY ExportAssumption
  <1>3. FilesInv
    BY <1>1, <1>2 DEF Exporter!Init, Exporter!Idle, Exporter!NoFile, FilesInv, FileOK, Fetches, Outputs
  <1>4. WalkInv
    BY DEF Exporter!Init, Exporter!Idle, WalkInv, UnderWay
  <1> QED BY <1>3, <1>4 DEF ExportInv

LEMMA ExportStutter == ExportInv /\ UNCHANGED exportVars => ExportInv'
  BY DEF ExportInv, FilesInv, WalkInv, exportVars

LEMMA CountPieces == Exporter!Cardinality(Pieces) = Cardinality(Pieces)
  BY Zenon DEF Exporter!Cardinality, Cardinality

\* A step of one download that is under way.
LEMMA FileStep ==
  ASSUME ExportInv, NEW f \in Files, fetch[f].pc \in UnderWay,
         NEW r, NEW o, NEW g, r.pc # "idle", FileOK(command, r, o, g),
         fetch' = [fetch EXCEPT ![f] = r], output' = [output EXCEPT ![f] = o], given' = [given EXCEPT ![f] = g],
         UNCHANGED <<command, main, entries, listed, dirs>>
  PROVE  ExportInv'
  <1>1. FilesInv'
    BY DEF ExportInv, FilesInv
  <1>2. \A h \in Files : fetch'[h].pc # "idle" => fetch[h].pc # "idle"
    BY DEF ExportInv, FilesInv, UnderWay
  <1>3. main \notin {"start", "list", "ok", "err"}
    BY DEF ExportInv, WalkInv, UnderWay
  <1>4. WalkInv'
    BY <1>2, <1>3 DEF ExportInv, WalkInv
  <1> QED BY <1>1, <1>4 DEF ExportInv

\* What an error leaves.
LEMMA Failed ==
  ASSUME ExportInv, NEW f \in Files, NEW g \in SUBSET Pieces
  PROVE  /\ [fetch[f] EXCEPT !.pc = "err"].pc = "err"
         /\ FileOK(command, [fetch[f] EXCEPT !.pc = "err"], Exporter!NoFile, g)
  BY DEF ExportInv, FilesInv, FileOK, Fetches, Outputs, Exporter!NoFile

\* A stream that is taken for complete has brought every piece, or was miscounted.
LEMMA CompleteIsWhole ==
  ASSUME ExportInv, NEW f \in Files, fetch[f].pc = "stream", given[f] = Pieces \/ command.cuts, ~Exporter!Incomplete(f)
  PROVE  given[f] = Pieces \/ Fooled(command)
  <1>1. FileOK(command, fetch[f], output[f], given[f]) /\ command \in Exports
    BY DEF ExportInv, FilesInv
  <1>2. given[f] \subseteq Pieces /\ (fetch[f].initialized => fetch[f].remaining_pieces = Pieces \ given[f])
        /\ (~command.repeats => fetch[f].downloaded = Cardinality(given[f]))
    BY <1>1 DEF FileOK
  <1>3. command.program \in {"dfget", "dfcache", "dfstore"}
    BY <1>1, ExportAssumption
  <1>4. CASE command.program = "dfget"
    BY <1>2, <1>4 DEF Exporter!Incomplete, Exporter!dfget_incomplete
  <1>5. CASE command.program \in {"dfcache", "dfstore"} /\ command.cuts /\ ~command.repeats
    <2>1. ~command.repeats
      BY <1>5
    <2>2. fetch[f].downloaded = Cardinality(Pieces)
      BY <1>5, CountPieces DEF Exporter!Incomplete, Exporter!dfcache_incomplete, Exporter!dfstore_incomplete
    <2>3. Cardinality(given[f]) = Cardinality(Pieces)
      BY <1>2, <2>1, <2>2
    <2> QED BY <1>2, <2>3, ExportAssumption, FS_Subset
  <1> QED BY <1>3, <1>4, <1>5 DEF Fooled

\* A new piece is counted once.
LEMMA OneMore ==
  ASSUME NEW S \in SUBSET Pieces, NEW p \in Pieces, p \notin S
  PROVE  Cardinality(S \cup {p}) = Cardinality(S) + 1
  <1>1. IsFiniteSet(S)
    BY ExportAssumption, FS_Subset
  <1> QED BY <1>1, FS_AddElement

LEMMA TransferStep == ASSUME ExportInv, NEW f \in Files, Exporter!Transfer(f) PROVE ExportInv'
  <1> DEFINE r == fetch[f]
             o == output[f]
             g == given[f]
  <1>0. /\ FileOK(command, r, o, g) /\ r \in Fetches /\ o \in Outputs /\ g \in SUBSET Pieces
        /\ fetch = [h \in Files |-> fetch[h]] /\ given = [h \in Files |-> given[h]]
        /\ output = [h \in Files |-> output[h]]
    BY DEF ExportInv, FilesInv, FileOK
  <1>1. CASE Exporter!download_task(f)
    <2>1. PICK pc \in {"open", "err"} : fetch' = [fetch EXCEPT ![f].pc = pc]
      BY <1>1 DEF Exporter!download_task, Exporter!Goto
    <2>2. fetch' = [fetch EXCEPT ![f] = [r EXCEPT !.pc = pc]]
      BY <2>1
    <2>3. /\ r.pc = "request" /\ r.pc \in UnderWay /\ output' = [output EXCEPT ![f] = o]
          /\ given' = [given EXCEPT ![f] = g] /\ UNCHANGED <<command, main, entries, listed, dirs>>
      BY <1>0, <1>1 DEF Exporter!download_task, UnderWay
    <2>4. [r EXCEPT !.pc = pc].pc # "idle" /\ FileOK(command, [r EXCEPT !.pc = pc], o, g)
      BY <1>0, <2>3 DEF FileOK, Fetches
    <2> HIDE DEF r, o, g
    <2> QED BY <2>2, <2>3, <2>4, FileStep DEF r
  <1>2. CASE Exporter!OpenOutput(f)
    <2>1. /\ r.pc = "open" /\ r.pc \in UnderWay
          /\ given' = [given EXCEPT ![f] = g] /\ UNCHANGED <<command, main, entries, listed, dirs>>
      BY <1>0, <1>2 DEF Exporter!OpenOutput, UnderWay
    <2>2. Cardinality({}) = 0
      BY FS_EmptySet
    <2>3. CASE fetch' = [fetch EXCEPT ![f].pc = "err"] /\ output' = output
      <3>1. fetch' = [fetch EXCEPT ![f] = [r EXCEPT !.pc = "err"]] /\ output' = [output EXCEPT ![f] = o]
        BY <1>0, <2>3
      <3>2. [r EXCEPT !.pc = "err"].pc # "idle" /\ FileOK(command, [r EXCEPT !.pc = "err"], o, g)
        BY <1>0, <2>1 DEF FileOK, Fetches
      <3> HIDE DEF r, o, g
      <3> QED BY <2>1, <3>1, <3>2, FileStep DEF r
    <2>4. CASE /\ command.transfer /\ fetch' = [fetch EXCEPT ![f].pc = "stream"]
               /\ output' = [output EXCEPT ![f] = [Exporter!NoFile EXCEPT !.exists = TRUE]]
      <3> DEFINE n == [Exporter!NoFile EXCEPT !.exists = TRUE]
      <3>1. fetch' = [fetch EXCEPT ![f] = [r EXCEPT !.pc = "stream"]] /\ output' = [output EXCEPT ![f] = n]
        BY <2>4
      <3>2. [r EXCEPT !.pc = "stream"].pc # "idle" /\ FileOK(command, [r EXCEPT !.pc = "stream"], n, g)
        BY <1>0, <2>1, <2>2 DEF FileOK, Fetches, Outputs, Exporter!NoFile
      <3> HIDE DEF r, o, g, n
      <3> QED BY <2>1, <3>1, <3>2, FileStep DEF r
    <2>5. CASE ~command.transfer /\ fetch' = [fetch EXCEPT ![f].pc = "stream"] /\ output' = output
      <3>1. fetch' = [fetch EXCEPT ![f] = [r EXCEPT !.pc = "stream"]] /\ output' = [output EXCEPT ![f] = o]
        BY <1>0, <2>5
      <3>2. [r EXCEPT !.pc = "stream"].pc # "idle" /\ FileOK(command, [r EXCEPT !.pc = "stream"], o, g)
        BY <1>0, <2>1, <2>2, <2>5 DEF FileOK, Fetches
      <3> HIDE DEF r, o, g
      <3> QED BY <2>1, <3>1, <3>2, FileStep DEF r
    <2> QED BY <1>2, <2>3, <2>4, <2>5 DEF Exporter!OpenOutput, Exporter!Goto
  <1>3. ASSUME Exporter!RemoveAndFail(f), r.pc \in UnderWay, NEW d \in SUBSET Pieces, given' = [given EXCEPT ![f] = d],
               UNCHANGED <<command, main, entries, listed, dirs>>
        PROVE  ExportInv'
    <2>1. /\ fetch' = [fetch EXCEPT ![f] = [r EXCEPT !.pc = "err"]]
          /\ output' = [output EXCEPT ![f] = Exporter!NoFile]
      BY <1>3 DEF Exporter!RemoveAndFail, Exporter!Goto
    <2>2. [r EXCEPT !.pc = "err"].pc # "idle" /\ FileOK(command, [r EXCEPT !.pc = "err"], Exporter!NoFile, d)
      BY <1>3, Failed
    <2> HIDE DEF r, o, g
    <2> QED BY <1>3, <2>1, <2>2, FileStep DEF r
  <1>4. CASE Exporter!DownloadTaskStarted(f)
    <2>1. /\ r.pc = "stream" /\ ~r.initialized /\ r.pc \in UnderWay
          /\ given' = [given EXCEPT ![f] = g] /\ UNCHANGED <<command, main, entries, listed, dirs>>
      BY <1>0, <1>4 DEF Exporter!DownloadTaskStarted, UnderWay
    <2>2. CASE /\ fetch' = [fetch EXCEPT ![f].initialized = TRUE, ![f].remaining_pieces = Pieces]
               /\ output' = output
      <3> DEFINE n == [r EXCEPT !.initialized = TRUE, !.remaining_pieces = Pieces]
      <3>1. fetch' = [fetch EXCEPT ![f] = n] /\ output' = [output EXCEPT ![f] = o]
        BY <1>0, <2>2
      <3>2. n.pc # "idle" /\ FileOK(command, n, o, g)
        BY <1>0, <2>1 DEF FileOK, Fetches
      <3> HIDE DEF r, o, g, n
      <3> QED BY <2>1, <3>1, <3>2, FileStep DEF r
    <2> QED BY <1>0, <1>3, <1>4, <2>1, <2>2 DEF Exporter!DownloadTaskStarted
  <1>5. ASSUME NEW p \in Pieces, Exporter!DownloadPieceFinished(f, p)
        PROVE  ExportInv'
    <2> DEFINE d == g \cup {p}
               n == [r EXCEPT !.remaining_pieces = @ \ {p}, !.downloaded = @ + 1]
               w == [o EXCEPT !.written = o.written \cup o.buffer, !.buffer = {p}]
    <2>1. /\ r.pc = "stream" /\ r.initialized /\ r.downloaded < MaxMessages /\ r.pc \in UnderWay
          /\ (p \in g => command.repeats)
          /\ given' = [given EXCEPT ![f] = d] /\ UNCHANGED <<command, main, entries, listed, dirs>> /\ d \in SUBSET Pieces
      BY <1>0, <1>5 DEF Exporter!DownloadPieceFinished, UnderWay
    <2>2. CASE /\ fetch' = [fetch EXCEPT ![f].remaining_pieces = @ \ {p}, ![f].downloaded = @ + 1]
               /\ output' = IF command.transfer
                            THEN [output EXCEPT ![f].written = Exporter!Seek(f), ![f].buffer = {p}] ELSE output
      <3>1. fetch' = [fetch EXCEPT ![f] = n]
        BY <1>0, <2>2
      <3>2. ~command.repeats => Cardinality(d) = r.downloaded + 1
        <4>1. ~command.repeats => p \notin g /\ r.downloaded = Cardinality(g)
          BY <1>0, <2>1 DEF FileOK
        <4> QED BY <1>0, <4>1, OneMore
      <3>3. /\ n \in Fetches /\ n.pc = "stream" /\ n.initialized
            /\ n.remaining_pieces = r.remaining_pieces \ {p} /\ n.downloaded = r.downloaded + 1
        <4>1. r.downloaded \in 0 .. MaxMessages /\ r.downloaded + 1 \in 0 .. MaxMessages
          BY <1>0, <2>1, ExportAssumption DEF Fetches
        <4> QED BY <1>0, <2>1, <4>1 DEF Fetches
      <3>4. CASE command.transfer
        <4>1. output' = [output EXCEPT ![f] = w]
          BY <1>0, <2>2, <3>4 DEF Exporter!Seek
        <4>2. w \in Outputs /\ w.exists = o.exists /\ w.written \cup w.buffer = o.written \cup o.buffer \cup {p}
          BY <1>0 DEF Outputs
        <4>3. FileOK(command, n, w, d)
          <5>1. o.exists /\ o.written \cup o.buffer = g /\ r.remaining_pieces = Pieces \ g
            BY <1>0, <2>1, <3>4 DEF FileOK
          <5> HIDE DEF n, w
          <5> QED BY <2>1, <3>2, <3>3, <4>2, <5>1 DEF FileOK
        <4> HIDE DEF r, o, g, d, n, w
        <4> QED BY <2>1, <3>1, <3>3, <4>1, <4>3, FileStep DEF r
      <3>5. CASE ~command.transfer
        <4>1. output' = [output EXCEPT ![f] = o]
          BY <1>0, <2>2, <3>5
        <4>3. FileOK(command, n, o, d)
          <5>1. r.remaining_pieces = Pieces \ g
            BY <1>0, <2>1 DEF FileOK
          <5> HIDE DEF n
          <5> QED BY <1>0, <2>1, <3>2, <3>3, <3>5, <5>1 DEF FileOK
        <4> HIDE DEF r, o, g, d, n
        <4> QED BY <2>1, <3>1, <3>3, <4>1, <4>3, FileStep DEF r
      <3> QED BY <3>4, <3>5
    <2> HIDE DEF d
    <2> QED BY <1>3, <1>5, <2>1, <2>2 DEF Exporter!DownloadPieceFinished
  <1>6. CASE Exporter!StreamEnds(f)
    <2>1. /\ r.pc = "stream" /\ r.pc \in UnderWay /\ (g = Pieces \/ command.cuts)
          /\ given' = [given EXCEPT ![f] = g] /\ UNCHANGED <<command, main, entries, listed, dirs>>
      BY <1>0, <1>6 DEF Exporter!StreamEnds, UnderWay
    <2>2. CASE Exporter!Incomplete(f)
      BY <1>0, <1>3, <1>6, <2>1, <2>2 DEF Exporter!StreamEnds
    <2>3. CASE ~Exporter!Incomplete(f)
      <3>1. g = Pieces \/ Fooled(command)
        BY <2>1, <2>3, CompleteIsWhole
      <3> DEFINE n == [r EXCEPT !.pc = "flush"]
                 w == IF command.transfer THEN o ELSE [exists |-> TRUE, written |-> g, buffer |-> {}]
      <3>2. fetch' = [fetch EXCEPT ![f] = n]
        BY <1>6, <2>3 DEF Exporter!StreamEnds, Exporter!Goto
      <3>3. output' = [output EXCEPT ![f] = w]
        BY <1>0, <1>6, <2>3 DEF Exporter!StreamEnds
      <3>4. w \in Outputs /\ w.exists /\ w.written \cup w.buffer = g
        <4>1. CASE command.transfer
          BY <1>0, <2>1, <4>1 DEF FileOK
        <4>2. CASE ~command.transfer
          BY <1>0, <4>2 DEF Outputs
        <4> QED BY <4>1, <4>2
      <3>5. n \in Fetches /\ n.pc = "flush"
        BY <1>0 DEF Fetches
      <3>6. FileOK(command, n, w, g)
        <4> HIDE DEF n, w
        <4> QED BY <1>0, <3>1, <3>4, <3>5 DEF FileOK
      <3> HIDE DEF r, o, g, n, w
      <3> QED BY <2>1, <3>2, <3>3, <3>5, <3>6, FileStep DEF r
    <2> QED BY <2>2, <2>3
  <1>7. CASE Exporter!StreamFails(f)
    <2>1. /\ r.pc \in UnderWay /\ Exporter!RemoveAndFail(f)
          /\ given' = [given EXCEPT ![f] = g] /\ UNCHANGED <<command, main, entries, listed, dirs>>
      BY <1>0, <1>7 DEF Exporter!StreamFails, UnderWay
    <2> QED BY <1>0, <1>3, <2>1
  <1>8. CASE Exporter!Flush(f)
    <2>1. /\ r.pc = "flush" /\ r.pc \in UnderWay
          /\ given' = [given EXCEPT ![f] = g] /\ UNCHANGED <<command, main, entries, listed, dirs>>
      BY <1>0, <1>8 DEF Exporter!Flush, UnderWay
    <2>2. CASE /\ output' = [output EXCEPT ![f].written = Exporter!Seek(f), ![f].buffer = {}]
               /\ fetch' = [fetch EXCEPT ![f].pc = "ok"]
      <3> DEFINE n == [r EXCEPT !.pc = "ok"]
                 w == [o EXCEPT !.written = o.written \cup o.buffer, !.buffer = {}]
      <3>1. fetch' = [fetch EXCEPT ![f] = n] /\ output' = [output EXCEPT ![f] = w]
        BY <1>0, <2>2 DEF Exporter!Seek
      <3>2. n.pc # "idle" /\ FileOK(command, n, w, g)
        BY <1>0, <2>1 DEF FileOK, Fetches, Outputs
      <3> HIDE DEF r, o, g, n, w
      <3> QED BY <2>1, <3>1, <3>2, FileStep DEF r
    <2> QED BY <1>0, <1>3, <1>8, <2>1, <2>2 DEF Exporter!Flush, Exporter!Goto
  <1> QED BY <1>1, <1>2, <1>4, <1>5, <1>6, <1>7, <1>8 DEF Exporter!Transfer

\* The files that the program leaves as they are.
LEMMA FilesStay ==
  ASSUME ExportInv, UNCHANGED <<command, fetch, given, output>>
  PROVE  FilesInv'
  BY DEF ExportInv, FilesInv

\* Downloads that are shut down stop where they are.
LEMMA AbortStep ==
  ASSUME ExportInv, Exporter!AbortAll, UNCHANGED <<command, given, output>>
  PROVE  /\ FilesInv'
         /\ \A f \in Files : fetch'[f].pc \notin UnderWay /\ (fetch'[f].pc # "idle" => fetch[f].pc # "idle")
  <1>1. \A f \in Files : \/ fetch[f].pc \in UnderWay /\ fetch'[f] = [fetch[f] EXCEPT !.pc = "aborted"]
                         \/ fetch[f].pc \notin UnderWay /\ fetch'[f] = fetch[f]
    BY DEF Exporter!AbortAll, Exporter!Running, UnderWay
  <1>2. fetch' = [f \in Files |-> fetch'[f]]
    BY DEF Exporter!AbortAll
  <1>3. ASSUME NEW f \in Files
        PROVE  /\ FileOK(command, fetch'[f], output[f], given[f]) /\ fetch'[f].pc \notin UnderWay
               /\ (fetch'[f].pc # "idle" => fetch[f].pc # "idle")
    <2>1. FileOK(command, fetch[f], output[f], given[f])
      BY DEF ExportInv, FilesInv
    <2>2. CASE fetch[f].pc \in UnderWay /\ fetch'[f] = [fetch[f] EXCEPT !.pc = "aborted"]
      BY <2>1, <2>2 DEF FileOK, Fetches, UnderWay
    <2> QED BY <1>1, <2>1, <2>2
  <1> QED BY <1>2, <1>3 DEF ExportInv, FilesInv

\* A download that begins.
LEMMA BeginStep ==
  ASSUME ExportInv, NEW f \in Files, fetch[f].pc = "idle", Exporter!Goto(f, "request"), UNCHANGED <<command, given, output>>
  PROVE  /\ FilesInv'
         /\ fetch'[f].pc = "request" /\ \A h \in Files : h # f => fetch'[h].pc = fetch[h].pc
  <1>1. fetch' = [fetch EXCEPT ![f] = [fetch[f] EXCEPT !.pc = "request"]] /\ fetch = [h \in Files |-> fetch[h]]
    BY DEF ExportInv, FilesInv, Exporter!Goto
  <1>2. FileOK(command, fetch[f], output[f], given[f])
    BY DEF ExportInv, FilesInv
  <1>3. /\ FileOK(command, [fetch[f] EXCEPT !.pc = "request"], output[f], given[f])
        /\ [fetch[f] EXCEPT !.pc = "request"].pc = "request"
    BY <1>2 DEF FileOK, Fetches
  <1> QED BY <1>1, <1>3 DEF ExportInv, FilesInv

LEMMA ExportNext == ASSUME ExportInv, Exporter!Next PROVE ExportInv'
  <1>1. CASE Exporter!dfget_refuses \/ Exporter!dfcache_refuses \/ Exporter!dfstore_refuses
    <2>1. main = "start" /\ main' = "err" /\ UNCHANGED <<command, entries, listed, dirs, fetch, given, output>>
      BY <1>1 DEF Exporter!dfget_refuses, Exporter!dfcache_refuses, Exporter!dfstore_refuses, Exporter!Refuse,
          Exporter!Exit
    <2> QED BY <2>1, FilesStay DEF ExportInv, WalkInv, UnderWay
  <1>2. CASE Exporter!RunDirectory
    BY <1>2, FilesStay DEF ExportInv, WalkInv, UnderWay, Exporter!RunDirectory
  <1>3. CASE Exporter!SingleEnds
    <2>1. PICK f \in Files : fetch[f].pc \in {"ok", "err"} /\ main' = fetch[f].pc
      BY <1>3 DEF Exporter!SingleEnds, Exporter!Exit
    <2>2. main = "single" /\ UNCHANGED <<command, entries, listed, dirs, fetch, given, output>>
      BY <1>3 DEF Exporter!SingleEnds
    <2>3. \A h \in Files : fetch[h].pc \notin UnderWay
      BY <2>1, <2>2 DEF ExportInv, WalkInv, UnderWay
    <2> QED BY <2>1, <2>2, <2>3, FilesStay DEF ExportInv, WalkInv
  <1>4. CASE Exporter!download_dir
    <2>1. main = "list" /\ UNCHANGED <<command, dirs, fetch, given, output>>
      BY <1>4 DEF Exporter!download_dir
    <2>2. /\ \A f \in Files : fetch[f].pc = "idle"
          /\ entries = {} /\ listed = {} /\ dirs \subseteq Dirs /\ command.directory
      BY <2>1 DEF ExportInv, WalkInv
    <2>3. CASE main' = "err" /\ UNCHANGED <<entries, listed>>
      BY <2>1, <2>2, <2>3, FilesStay DEF ExportInv, WalkInv, UnderWay
    <2>4. ASSUME NEW found \in SUBSET (Files \cup Dirs), listed' = Exporter!get_all_entries(found),
                 \/ main' = "err" /\ entries' = entries
                 \/ entries' = listed' /\ main' = (IF listed' = {} THEN "ok" ELSE "spawn")
          PROVE  ExportInv'
      <3>1. listed' \subseteq Files \cup Dirs /\ \A f \in Files : f \in listed' /\ ParentOf[f] # None => ParentOf[f] \in listed'
        BY <2>4, ExportAssumption DEF Exporter!get_all_entries
      <3>2. WalkInv'
        BY <2>1, <2>2, <2>4, <3>1 DEF WalkInv, UnderWay
      <3> QED BY <2>1, <3>2, FilesStay DEF ExportInv
    <2> QED BY <1>4, <2>3, <2>4 DEF Exporter!download_dir, Exporter!Exit, Exporter!get_entries
  <1>5. CASE Exporter!Spawned
    BY <1>5, FilesStay DEF ExportInv, WalkInv, UnderWay, Exporter!Spawned
  <1>6. CASE Exporter!join_next
    <2>1. main = "join" /\ UNCHANGED <<command, entries, listed, dirs, given, output>>
      BY <1>6 DEF Exporter!join_next
    <2>2. CASE Exporter!AbortAll /\ main' = "err"
      <3> QED BY <2>1, <2>2, AbortStep DEF ExportInv, WalkInv
    <2>3. CASE (\A f \in listed \cap Files : fetch[f].pc = "ok") /\ main' = "ok" /\ fetch' = fetch
      <3>1. \A f \in Files : fetch[f].pc \notin UnderWay
        BY <2>1, <2>3 DEF ExportInv, WalkInv, UnderWay
      <3> QED BY <2>1, <2>3, <3>1, FilesStay DEF ExportInv, WalkInv
    <2> QED BY <1>6, <2>2, <2>3 DEF Exporter!join_next, Exporter!Exit
  <1>7. ASSUME NEW d \in Dirs, Exporter!CreateDir(d)
        PROVE  ExportInv'
    <2>1. main = "spawn" /\ d \in entries /\ UNCHANGED <<command, listed, given, output>>
      BY <1>7 DEF Exporter!CreateDir
    <2>2. CASE dirs' = dirs \cup {d} /\ entries' = entries \ {d} /\ UNCHANGED <<main, fetch>>
      BY <2>1, <2>2, FilesStay DEF ExportInv, WalkInv
    <2>3. CASE Exporter!AbortAll /\ main' = "err" /\ UNCHANGED <<dirs, entries>>
      BY <2>1, <2>3, AbortStep DEF ExportInv, WalkInv
    <2> QED BY <1>7, <2>2, <2>3 DEF Exporter!CreateDir, Exporter!Exit
  <1>8. ASSUME NEW f \in Files, Exporter!RunSingle(f)
        PROVE  ExportInv'
    <2>1. /\ main = "start" /\ ~command.directory /\ main' = "single" /\ Exporter!Goto(f, "request")
          /\ UNCHANGED <<command, entries, listed, dirs, given, output>>
      BY <1>8 DEF Exporter!RunSingle
    <2>2. \A h \in Files : fetch[h].pc = "idle"
      BY <2>1 DEF ExportInv, WalkInv
    <2>3. FilesInv' /\ fetch'[f].pc = "request" /\ \A h \in Files : h # f => fetch'[h].pc = fetch[h].pc
      BY <2>1, <2>2, BeginStep
    <2> QED BY <2>1, <2>2, <2>3 DEF ExportInv, WalkInv
  <1>9. ASSUME NEW f \in Files, Exporter!Spawn(f)
        PROVE  ExportInv'
    <2>1. /\ main = "spawn" /\ f \in entries /\ (f \in Dirs \/ entries \cap Dirs = {}) /\ Exporter!Goto(f, "request")
          /\ entries' = entries \ {f} /\ UNCHANGED <<command, main, listed, dirs, given, output>>
      BY <1>9 DEF Exporter!Spawn, Exporter!MayCome
    <2>2. entries \cap Dirs = {} /\ f \notin Dirs
      BY <2>1, ExportAssumption
    <2>3. fetch[f].pc = "idle" /\ f \in listed /\ command.directory
      BY <2>1 DEF ExportInv, WalkInv
    <2>4. ParentOf[f] \in dirs \cup {None}
      BY <2>1, <2>2, <2>3, ExportAssumption DEF ExportInv, WalkInv
    <2>5. FilesInv' /\ fetch'[f].pc = "request" /\ \A h \in Files : h # f => fetch'[h].pc = fetch[h].pc
      BY <2>1, <2>3, BeginStep
    <2>6. WalkInv'
      BY <2>1, <2>2, <2>3, <2>4, <2>5 DEF ExportInv, WalkInv
    <2> QED BY <2>5, <2>6 DEF ExportInv
  <1>10. ASSUME NEW f \in Files, Exporter!download(f) \/ Exporter!dfcache_export(f) \/ Exporter!dfstore_export(f)
         PROVE  ExportInv'
    BY <1>10, TransferStep DEF Exporter!download, Exporter!dfcache_export, Exporter!dfstore_export
  <1> QED BY <1>1, <1>2, <1>3, <1>4, <1>5, <1>6, <1>7, <1>8, <1>9, <1>10 DEF Exporter!Next

LEMMA ExportGood == ExportInv => Exporter!TypeOK /\ Exporter!OutputIsWhole /\ Exporter!DirectoryIsWhole
  <1> SUFFICES ASSUME ExportInv PROVE Exporter!TypeOK /\ Exporter!OutputIsWhole /\ Exporter!DirectoryIsWhole
    OBVIOUS
  <1>1. \A f \in Files : fetch[f] \in Fetches /\ output[f] \in Outputs /\ given[f] \in SUBSET Pieces
    BY DEF ExportInv, FilesInv, FileOK
  <1>2. Exporter!TypeOK
    <2>1. fetch \in [Files -> Fetches] /\ output \in [Files -> Outputs] /\ given \in [Files -> SUBSET Pieces]
      BY <1>1 DEF ExportInv, FilesInv
    <2> QED BY <2>1 DEF ExportInv, FilesInv, WalkInv, Exporter!TypeOK, Fetches, Outputs
  <1>3. Exporter!OutputIsWhole
    BY DEF ExportInv, FilesInv, FileOK, Fooled, Exporter!OutputIsWhole, Exporter!CountFooled
  <1>4. Exporter!DirectoryIsWhole
    <2>1. main \in {"ok", "err"} => Exporter!Running = {}
      BY DEF ExportInv, WalkInv, Exporter!Running, UnderWay
    <2>2. ASSUME main = "ok" /\ command.directory, NEW e \in listed
          PROVE  IF e \in Dirs THEN e \in dirs ELSE fetch[e].pc = "ok"
      BY <2>2 DEF ExportInv, WalkInv
    <2>3. command.directory => \A f \in Files : fetch[f].pc # "idle" => ParentOf[f] \in dirs \cup {None}
      BY DEF ExportInv, WalkInv
    <2> QED BY <2>1, <2>2, <2>3 DEF Exporter!DirectoryIsWhole
  <1> QED BY <1>2, <1>3, <1>4

-----------------------------------------------------------------------------
(* PieceCache: the inductive invariant.                                      *)

Names == Tasks \cup {None}
Lists == [head : Names, tail : Names, prev : [Tasks -> Names], next : [Tasks -> Names]]
Entered(h) == {t \in Tasks : h[t] # None}

\* A strict total order of the entries, and nothing between two of them.
Ordered(r, E) ==
    /\ r \subseteq E \X E
    /\ \A t, u \in E : <<t, u>> \in r <=> t # u /\ <<u, t>> \notin r
    /\ \A t, u, v \in E : <<t, u>> \in r /\ <<u, v>> \in r => <<t, v>> \in r
Adjacent(r, E, t, u) == <<t, u>> \in r /\ \A v \in E : ~(<<t, v>> \in r /\ <<v, u>> \in r)

\* The list has the entries in that order; what is not in it has no neighbours.
Linked(l, r, E) ==
    /\ E = {} => l.head = None /\ l.tail = None
    /\ E # {} => l.head \in E /\ l.tail \in E
    /\ \A t \in E : <<t, l.head>> \notin r /\ <<l.tail, t>> \notin r
    /\ \A t \in E : l.next[t] = None => t = l.tail
    /\ \A t \in E : l.prev[t] = None => t = l.head
    /\ \A t \in E : l.next[t] # None => l.next[t] \in E /\ Adjacent(r, E, t, l.next[t])
    /\ \A t \in E : l.prev[t] # None => l.prev[t] \in E /\ Adjacent(r, E, l.prev[t], t)
    /\ \A t \in Tasks \ E : l.prev[t] = None /\ l.next[t] = None

-----------------------------------------------------------------------------
(* PieceCache: every step keeps the invariant.                               *)

LEMMA CallsCount ==
  ASSUME NEW S \in SUBSET Calls, NEW T \in SUBSET Calls, S \subseteq T
  PROVE  /\ Cardinality(S) \in Nat /\ Cardinality(T) \in Nat /\ Cardinality(Calls) \in Nat
         /\ Cardinality(S) <= Cardinality(T) /\ Cardinality(T) <= Cardinality(Calls)
         /\ \A c \in T : c \notin S => Cardinality(S) + 1 <= Cardinality(T)
  <1>1. IsFiniteSet(Calls) /\ IsFiniteSet(S) /\ IsFiniteSet(T)
    BY CacheAssumption, FS_Subset
  <1>2. /\ Cardinality(S) \in Nat /\ Cardinality(T) \in Nat /\ Cardinality(Calls) \in Nat
        /\ Cardinality(S) <= Cardinality(T) /\ Cardinality(T) <= Cardinality(Calls)
    BY <1>1, FS_Subset, FS_CardinalityType
  <1>3. ASSUME NEW c \in T, c \notin S
        PROVE  Cardinality(S) + 1 <= Cardinality(T)
    <2>1. IsFiniteSet(S \cup {c}) /\ Cardinality(S \cup {c}) = Cardinality(S) + 1
      BY <1>1, <1>3, FS_AddElement
    <2>2. S \cup {c} \subseteq T
      BY <1>3
    <2>3. Cardinality(S \cup {c}) <= Cardinality(T)
      BY <1>1, <2>2, FS_Subset
    <2> QED BY <2>1, <2>3
  <1> QED BY <1>2, <1>3

LEMMA NoName == \A t \in Tasks : t # None
  BY CacheAssumption

\* An entry has one neighbour on each side.
LEMMA OneNeighbour ==
  ASSUME NEW E, NEW r, Ordered(r, E), NEW t \in E, NEW u \in E, NEW v \in E
  PROVE  /\ Adjacent(r, E, t, v) /\ Adjacent(r, E, u, v) => t = u
         /\ Adjacent(r, E, v, t) /\ Adjacent(r, E, v, u) => t = u
  BY DEF Ordered, Adjacent

\* Without an entry the order is what is left of it.
LEMMA OrderedLess ==
  ASSUME NEW E, NEW r, Ordered(r, E), NEW t \in E, NEW q,
         q \subseteq (E \ {t}) \X (E \ {t}), \A u, v \in E \ {t} : <<u, v>> \in q <=> <<u, v>> \in r
  PROVE  Ordered(q, E \ {t})
  BY DEF Ordered

\* A new first entry.
LEMMA OrderedMore ==
  ASSUME NEW E, NEW r, Ordered(r, E), NEW t, t \notin E, NEW q, q \subseteq (E \cup {t}) \X (E \cup {t}),
         \A u, v \in E \cup {t} : <<u, v>> \in q <=> v # t /\ (u = t \/ <<u, v>> \in r)
  PROVE  Ordered(q, E \cup {t})
  <1>1. \A u, v \in E : <<u, v>> \in q <=> <<u, v>> \in r
    OBVIOUS
  <1>2. \A u \in E : <<t, u>> \in q /\ <<u, t>> \notin q
    OBVIOUS
  <1>3. <<t, t>> \notin q
    OBVIOUS
  <1> QED BY <1>1, <1>2, <1>3 DEF Ordered

LEMMA DetachType ==
  ASSUME NEW l \in Lists, NEW t \in Tasks
  PROVE  /\ Cache!detach(l, t) \in Lists
         /\ Cache!detach(l, t).head = (IF l.prev[t] = None THEN l.next[t] ELSE l.head)
         /\ Cache!detach(l, t).tail = (IF l.next[t] = None THEN l.prev[t] ELSE l.tail)
         /\ \A u \in Tasks : Cache!detach(l, t).prev[u] =
                (IF u = l.next[t] THEN l.prev[t] ELSE IF u = t THEN None ELSE l.prev[u])
         /\ \A u \in Tasks : Cache!detach(l, t).next[u] =
                (IF u = l.prev[t] THEN l.next[t] ELSE IF u = t THEN None ELSE l.next[u])
  BY DEF Cache!detach, Lists, Names

LEMMA AttachType ==
  ASSUME NEW l \in Lists, NEW t \in Tasks
  PROVE  /\ Cache!attach(l, t) \in Lists
         /\ Cache!attach(l, t).head = t
         /\ Cache!attach(l, t).tail = (IF l.head = None THEN t ELSE l.tail)
         /\ \A u \in Tasks : Cache!attach(l, t).prev[u] = (IF l.head # None /\ u = l.head THEN t ELSE l.prev[u])
         /\ \A u \in Tasks : Cache!attach(l, t).next[u] = (IF l.head # None /\ u = t THEN l.head ELSE l.next[u])
  <1>1. CASE l.head = None
    BY <1>1 DEF Cache!attach, Lists, Names
  <1>2. CASE l.head # None
    <2>1. Cache!attach(l, t) = [l EXCEPT !.head = t, !.next[t] = l.head, !.prev[l.head] = t]
      BY <1>2 DEF Cache!attach
    <2>2. l.head \in Tasks
      BY <1>2 DEF Lists, Names
    <2>3. Cache!attach(l, t) = [head |-> t, tail |-> l.tail, prev |-> [l.prev EXCEPT ![l.head] = t],
                                next |-> [l.next EXCEPT ![t] = l.head]]
      BY <2>1 DEF Lists
    <2>4. l.tail \in Names /\ l.prev \in [Tasks -> Names] /\ l.next \in [Tasks -> Names] /\ l.head \in Names /\ t \in Names
      BY DEF Lists, Names
    <2>5. /\ [l.prev EXCEPT ![l.head] = t] \in [Tasks -> Names]
          /\ [l.next EXCEPT ![t] = l.head] \in [Tasks -> Names]
      BY <2>4
    <2>6. Cache!attach(l, t) \in Lists
      BY <2>3, <2>4, <2>5 DEF Lists
    <2> QED BY <1>2, <2>2, <2>3, <2>4, <2>6
  <1> QED BY <1>1, <1>2

\* Taking an entry out of the list.
LEMMA DetachLinked ==
  ASSUME NEW E \in SUBSET Tasks, NEW r, NEW l \in Lists, Ordered(r, E), Linked(l, r, E), NEW t \in E, NEW q,
         q \subseteq (E \ {t}) \X (E \ {t}), \A u, v \in E \ {t} : <<u, v>> \in q <=> <<u, v>> \in r
  PROVE  Linked(Cache!detach(l, t), q, E \ {t})
  <1> DEFINE p == l.prev[t]
             n == l.next[t]
             F == E \ {t}
  <1> t \in Tasks
    OBVIOUS
  <1>0. PICK d \in Lists : d = Cache!detach(l, t)
    BY DetachType
  <1>1. /\ d.head = (IF p = None THEN n ELSE l.head) /\ d.tail = (IF n = None THEN p ELSE l.tail)
        /\ \A u \in Tasks : d.prev[u] = (IF u = n THEN p ELSE IF u = t THEN None ELSE l.prev[u])
        /\ \A u \in Tasks : d.next[u] = (IF u = p THEN n ELSE IF u = t THEN None ELSE l.next[u])
    BY <1>0, DetachType
  <1>2. /\ n # None => n \in F /\ Adjacent(r, E, t, n)
        /\ p # None => p \in F /\ Adjacent(r, E, p, t)
        /\ n = None => t = l.tail
        /\ p = None => t = l.head
    BY DEF Linked, Ordered, Adjacent
  <1>3. /\ \A u \in E : u # t /\ l.next[u] = t => u = p
        /\ \A u \in E : u # t /\ l.prev[u] = t => u = n
    <2>1. ASSUME NEW u \in E, u # t, l.next[u] = t PROVE u = p
      <3>1. Adjacent(r, E, u, t)
        BY <2>1, NoName DEF Linked
      <3>2. p # None
        BY <1>2, <3>1 DEF Adjacent, Linked
      <3> QED BY <1>2, <3>1, <3>2, OneNeighbour
    <2>2. ASSUME NEW u \in E, u # t, l.prev[u] = t PROVE u = n
      <3>1. Adjacent(r, E, t, u)
        BY <2>2, NoName DEF Linked
      <3>2. n # None
        BY <1>2, <3>1 DEF Adjacent, Linked
      <3> QED BY <1>2, <3>1, <3>2, OneNeighbour
    <2> QED BY <2>1, <2>2
  <1> HIDE DEF p, n
  <1>4. F # {} => n # None \/ p # None
    BY ZenonT(60), <1>2 DEF Linked, Ordered
  <1>5. F = {} => d.head = None /\ d.tail = None
    BY <1>1, <1>2
  <1>6. F # {} => d.head \in F /\ d.tail \in F
    <2>1. p # None => l.head \in F
      BY <1>2 DEF Linked, Adjacent
    <2>2. n # None => l.tail \in F
      BY <1>2 DEF Linked, Adjacent
    <2> QED BY <1>1, <1>2, <1>4, <2>1, <2>2
  <1>7. ASSUME NEW u \in F PROVE <<u, d.head>> \notin q /\ <<d.tail, u>> \notin q
    <2>0. d.head \in F /\ d.tail \in F
      BY <1>6
    <2>1. <<u, d.head>> \notin r
      <3>1. CASE p = None
        <4>1. d.head = n /\ t = l.head /\ n \in F /\ Adjacent(r, E, t, n)
          BY <1>1, <1>2, <1>4, <3>1
        <4>2. <<t, u>> \in r
          BY <4>1 DEF Linked, Ordered
        <4> QED BY <4>1, <4>2 DEF Adjacent
      <3>2. CASE p # None
        BY <1>1, <3>2 DEF Linked
      <3> QED BY <3>1, <3>2
    <2>2. <<d.tail, u>> \notin r
      <3>1. CASE n = None
        <4>1. d.tail = p /\ t = l.tail /\ p \in F /\ Adjacent(r, E, p, t)
          BY <1>1, <1>2, <1>4, <3>1
        <4>2. <<u, t>> \in r
          BY <4>1 DEF Linked, Ordered
        <4> QED BY <4>1, <4>2 DEF Adjacent
      <3>2. CASE n # None
        BY <1>1, <3>2 DEF Linked
      <3> QED BY <3>1, <3>2
    <2> QED BY <2>0, <2>1, <2>2
  <1>8. ASSUME NEW u \in F
        PROVE  /\ d.next[u] = None => u = d.tail
               /\ d.next[u] # None => d.next[u] \in F /\ Adjacent(q, F, u, d.next[u])
    <2>1. CASE u = p
      <3>0. u # None
        BY NoName
      <3>1. d.next[u] = n /\ Adjacent(r, E, p, t)
        BY <1>1, <1>2, <2>1, <3>0
      <3>2. n = None => u = d.tail
        BY <1>1, <2>1
      <3>3. n # None => n \in F /\ Adjacent(q, F, u, n)
        <4> SUFFICES ASSUME n # None PROVE n \in F /\ Adjacent(q, F, u, n)
          OBVIOUS
        <4>1. n \in F /\ Adjacent(r, E, t, n)
          BY <1>2
        <4>2. <<u, n>> \in r
          BY <2>1, <3>1, <4>1 DEF Ordered, Adjacent
        <4>3. ASSUME NEW v \in F, <<u, v>> \in r, <<v, n>> \in r PROVE FALSE
          BY <2>1, <3>1, <4>1, <4>3 DEF Ordered, Adjacent
        <4> QED BY <4>1, <4>2, <4>3 DEF Adjacent
      <3> QED BY <3>1, <3>2, <3>3
    <2>2. CASE u # p
      <3>1. d.next[u] = l.next[u]
        BY <1>1, <2>2
      <3>2. l.next[u] # t
        BY <1>3, <2>2
      <3>3. l.next[u] = None => u = d.tail
        BY <1>1, <1>2 DEF Linked
      <3>4. l.next[u] # None => l.next[u] \in F /\ Adjacent(q, F, u, l.next[u])
        BY <3>2 DEF Linked, Adjacent
      <3> QED BY <3>1, <3>3, <3>4
    <2> QED BY <2>1, <2>2
  <1>9. ASSUME NEW u \in F
        PROVE  /\ d.prev[u] = None => u = d.head
               /\ d.prev[u] # None => d.prev[u] \in F /\ Adjacent(q, F, d.prev[u], u)
    <2>1. CASE u = n
      <3>0. u # None
        BY NoName
      <3>1. d.prev[u] = p /\ Adjacent(r, E, t, n)
        BY <1>1, <1>2, <2>1, <3>0
      <3>2. p = None => u = d.head
        BY <1>1, <2>1
      <3>3. p # None => p \in F /\ Adjacent(q, F, p, u)
        <4> SUFFICES ASSUME p # None PROVE p \in F /\ Adjacent(q, F, p, u)
          OBVIOUS
        <4>1. p \in F /\ Adjacent(r, E, p, t)
          BY <1>2
        <4>2. <<p, u>> \in r
          BY <2>1, <3>1, <4>1 DEF Ordered, Adjacent
        <4>3. ASSUME NEW v \in F, <<p, v>> \in r, <<v, u>> \in r PROVE FALSE
          BY <2>1, <3>1, <4>1, <4>3 DEF Ordered, Adjacent
        <4> QED BY <4>1, <4>2, <4>3 DEF Adjacent
      <3> QED BY <3>1, <3>2, <3>3
    <2>2. CASE u # n
      <3>1. d.prev[u] = l.prev[u]
        BY <1>1, <2>2
      <3>2. l.prev[u] # t
        BY <1>3, <2>2
      <3>3. l.prev[u] = None => u = d.head
        BY <1>1, <1>2 DEF Linked
      <3>4. l.prev[u] # None => l.prev[u] \in F /\ Adjacent(q, F, l.prev[u], u)
        BY <3>2 DEF Linked, Adjacent
      <3> QED BY <3>1, <3>3, <3>4
    <2> QED BY <2>1, <2>2
  <1>10. ASSUME NEW u \in Tasks \ F PROVE d.prev[u] = None /\ d.next[u] = None
    <2>1. u # n /\ u # p
      BY <1>2, NoName
    <2> QED BY <1>1, <2>1 DEF Linked
  <1> HIDE DEF F
  <1>11. Linked(d, q, F)
    BY <1>5, <1>6, <1>7, <1>8, <1>9, <1>10 DEF Linked
  <1> QED BY <1>0, <1>11 DEF F

\* Putting an entry in front.
LEMMA AttachLinked ==
  ASSUME NEW E \in SUBSET Tasks, NEW r, NEW l \in Lists, Ordered(r, E), Linked(l, r, E), NEW t \in Tasks, t \notin E,
         NEW q, q \subseteq (E \cup {t}) \X (E \cup {t}),
         \A u, v \in E \cup {t} : <<u, v>> \in q <=> v # t /\ (u = t \/ <<u, v>> \in r)
  PROVE  Linked(Cache!attach(l, t), q, E \cup {t})
  <1> DEFINE F == E \cup {t}
  <1>0. PICK d \in Lists : d = Cache!attach(l, t)
    BY AttachType
  <1>1. /\ d.head = t /\ d.tail = (IF l.head = None THEN t ELSE l.tail)
        /\ \A u \in Tasks : d.prev[u] = (IF l.head # None /\ u = l.head THEN t ELSE l.prev[u])
        /\ \A u \in Tasks : d.next[u] = (IF l.head # None /\ u = t THEN l.head ELSE l.next[u])
    BY <1>0, AttachType
  <1>2. l.prev[t] = None /\ l.next[t] = None /\ (l.head = None <=> E = {}) /\ (E # {} => l.head \in E /\ l.tail \in E)
    BY NoName DEF Linked
  <1>3. d.head \in F /\ d.tail \in F
    BY <1>1, <1>2
  <1>4. \A u \in F : <<u, d.head>> \notin q
    BY <1>1
  <1>5. ASSUME NEW u \in F PROVE <<d.tail, u>> \notin q
    <2>1. CASE E = {}
      BY <1>1, <1>2, <2>1
    <2>2. CASE E # {}
      <3>1. d.tail = l.tail /\ l.tail \in E
        BY <1>1, <1>2, <2>2
      <3>2. u \in E => <<l.tail, u>> \notin r
        BY DEF Linked
      <3> QED BY <3>1, <3>2
    <2> QED BY <2>1, <2>2
  <1>6. ASSUME NEW u \in F
        PROVE  /\ d.next[u] = None => u = d.tail
               /\ d.next[u] # None => d.next[u] \in F /\ Adjacent(q, F, u, d.next[u])
    <2>1. CASE u = t /\ E = {}
      BY <1>1, <1>2, <2>1
    <2>2. CASE u = t /\ E # {}
      <3>1. d.next[u] = l.head /\ l.head \in E /\ l.head # None
        BY <1>1, <1>2, <2>2
      <3>2. \A v \in E : <<v, l.head>> \notin r
        BY DEF Linked
      <3>3. Adjacent(q, F, t, l.head)
        BY <3>1, <3>2 DEF Adjacent
      <3> QED BY <2>2, <3>1, <3>3
    <2>3. CASE u # t
      <3>1. d.next[u] = l.next[u] /\ u \in E /\ d.tail = l.tail
        BY <1>1, <1>2, <2>3
      <3>2. l.next[u] # None => l.next[u] \in E /\ Adjacent(r, E, u, l.next[u])
        BY <3>1 DEF Linked
      <3>3. l.next[u] # None => Adjacent(q, F, u, l.next[u])
        BY <2>3, <3>1, <3>2 DEF Adjacent
      <3> QED BY <3>1, <3>2, <3>3 DEF Linked
    <2> QED BY <2>1, <2>2, <2>3
  <1>7. ASSUME NEW u \in F
        PROVE  /\ d.prev[u] = None => u = d.head
               /\ d.prev[u] # None => d.prev[u] \in F /\ Adjacent(q, F, d.prev[u], u)
    <2>1. CASE u = t
      BY <1>1, <1>2, <2>1
    <2>2. CASE u # t /\ u = l.head
      <3>1. d.prev[u] = t /\ u \in E
        BY <1>1, <1>2, <2>2, NoName
      <3>2. \A v \in E : <<v, u>> \notin r
        BY <2>2 DEF Linked
      <3>3. Adjacent(q, F, t, u)
        BY <2>2, <3>1, <3>2 DEF Adjacent
      <3> QED BY <3>1, <3>3, NoName
    <2>3. CASE u # t /\ u # l.head
      <3>1. d.prev[u] = l.prev[u] /\ u \in E
        BY <1>1, <1>2, <2>3
      <3>2. l.prev[u] # None /\ l.prev[u] \in E /\ Adjacent(r, E, l.prev[u], u)
        BY <2>3, <3>1 DEF Linked
      <3>3. Adjacent(q, F, l.prev[u], u)
        BY <2>3, <3>1, <3>2 DEF Adjacent
      <3> QED BY <3>1, <3>2, <3>3
    <2> QED BY <2>1, <2>2, <2>3
  <1>8. ASSUME NEW u \in Tasks \ F PROVE d.prev[u] = None /\ d.next[u] = None
    BY <1>1, <1>2 DEF Linked
  <1> HIDE DEF F
  <1>9. Linked(d, q, F)
    BY <1>3, <1>4, <1>5, <1>6, <1>7, <1>8 DEF Linked
  <1> QED BY <1>0, <1>9 DEF F

\* An entry is used: it is the first of the list, whether it was in it or not.
LEMMA UsedLinked ==
  ASSUME NEW E \in SUBSET Tasks, NEW r, NEW l \in Lists, Ordered(r, E), Linked(l, r, E), NEW t \in Tasks,
         NEW q, q \subseteq (E \cup {t}) \X (E \cup {t}),
         \A u, v \in E \cup {t} : <<u, v>> \in q <=> v # t /\ (u = t \/ <<u, v>> \in r),
         NEW d, d = (IF t \in E THEN Cache!get(l, t) ELSE Cache!attach(l, t))
  PROVE  d \in Lists /\ Ordered(q, E \cup {t}) /\ Linked(d, q, E \cup {t})
  <1>1. CASE t \notin E
    BY <1>1, AttachType, AttachLinked, OrderedMore
  <1>2. CASE t \in E
    <2>0. PICK F : F = E \ {t}
      OBVIOUS
    <2>1. F \in SUBSET Tasks /\ F = E \ {t} /\ E \cup {t} = F \cup {t} /\ t \notin F
      BY <1>2, <2>0
    <2>2. PICK x : x = r \cap (F \X F)
      OBVIOUS
    <2>3. x \subseteq F \X F /\ \A u, v \in F : <<u, v>> \in x <=> <<u, v>> \in r
      BY <2>2
    <2>4. PICK m \in Lists : m = Cache!detach(l, t)
      BY DetachType
    <2>5. Ordered(x, F) /\ Linked(m, x, F)
      BY <1>2, <2>1, <2>3, <2>4, OrderedLess, DetachLinked
    <2>6. d = Cache!attach(m, t)
      BY <1>2, <2>4 DEF Cache!get
    <2>7. q \subseteq (F \cup {t}) \X (F \cup {t})
      BY <2>1
    <2>8. \A u, v \in F \cup {t} : <<u, v>> \in q <=> v # t /\ (u = t \/ <<u, v>> \in x)
      BY <2>1, <2>3
    <2>9. d \in Lists
      BY <2>6, AttachType
    <2>10. t \notin F
      BY <2>1
    <2>11. Ordered(q, F \cup {t})
      BY <2>10, <2>5, <2>7, <2>8, OrderedMore
    <2>12. Linked(Cache!attach(m, t), q, F \cup {t})
      BY <2>1, <2>10, <2>5, <2>7, <2>8, AttachLinked
    <2> QED BY <2>1, <2>6, <2>9, <2>11, <2>12
  <1> QED BY <1>1, <1>2

-----------------------------------------------------------------------------

EntryRecs == [length : 1 .. CacheCapacity, content : {"none", "good", "bad"}]
Maps == [Tasks -> EntryRecs \cup {None}]
BytesOf(h) == UNION {{t} \X (1 .. h[t].length) : t \in Entered(h)}
Fits(h, n) ==
    IsFiniteSet(BytesOf(h)) /\ Cardinality(BytesOf(h)) <= CacheCapacity /\ Cardinality(BytesOf(h)) <= n

LEMMA NoEntry == \A e \in EntryRecs : e # None
  <1> SUFFICES ASSUME NEW e \in EntryRecs PROVE e # None
    OBVIOUS
  <1>1. e = [length |-> e.length, content |-> e.content] /\ e.length \in 1 .. CacheCapacity
        /\ e.content \in {"none", "good", "bad"}
    BY DEF EntryRecs
  <1> QED BY <1>1, CacheAssumption

\* The entry of a task adds its length.
LEMMA BytesSplit ==
  ASSUME NEW h \in Maps, NEW t \in Tasks, NEW g \in Maps, g = [h EXCEPT ![t] = None], h[t] # None, IsFiniteSet(BytesOf(g))
  PROVE  /\ IsFiniteSet(BytesOf(h)) /\ h[t].length \in Nat
         /\ Cardinality(BytesOf(h)) = Cardinality(BytesOf(g)) + h[t].length
         /\ Cardinality(BytesOf(g)) \in Nat
  <1>1. h[t].length \in Nat
    BY CacheAssumption DEF Maps, EntryRecs
  <1>2. Entered(h) = Entered(g) \cup {t} /\ t \notin Entered(g) /\ \A u \in Entered(g) : g[u] = h[u] /\ u # t
    BY DEF Entered, Maps
  <1>3. PICK P : P = {t} \X (1 .. h[t].length)
    OBVIOUS
  <1>4. BytesOf(h) = BytesOf(g) \cup P
    <2>1. ASSUME NEW x \in BytesOf(h) PROVE x \in BytesOf(g) \cup P
      <3>1. PICK u \in Entered(h) : x \in {u} \X (1 .. h[u].length)
        BY <2>1 DEF BytesOf
      <3>2. CASE u = t
        BY <1>3, <3>1, <3>2
      <3>3. CASE u # t
        BY <1>2, <3>1, <3>3 DEF BytesOf
      <3> QED BY <3>2, <3>3
    <2>2. P \subseteq BytesOf(h)
      BY <1>2, <1>3 DEF BytesOf
    <2>3. ASSUME NEW x \in BytesOf(g) PROVE x \in BytesOf(h)
      <3>1. PICK u \in Entered(g) : x \in {u} \X (1 .. g[u].length)
        BY <2>3 DEF BytesOf
      <3>2. u \in Entered(h) /\ g[u] = h[u]
        BY <1>2
      <3> QED BY <3>1, <3>2 DEF BytesOf
    <2> QED BY <2>1, <2>2, <2>3
  <1>5. BytesOf(g) \cap P = {}
    <2> SUFFICES ASSUME NEW x \in BytesOf(g), x \in P PROVE FALSE
      OBVIOUS
    <2>1. PICK u \in Entered(g) : x \in {u} \X (1 .. g[u].length)
      BY DEF BytesOf
    <2> QED BY <1>2, <1>3, <2>1
  <1>6. IsFiniteSet(P) /\ Cardinality(P) = h[t].length
    BY <1>1, <1>3, Pairs
  <1>7. IsFiniteSet(BytesOf(g) \cup P)
        /\ Cardinality(BytesOf(g) \cup P) = Cardinality(BytesOf(g)) + Cardinality(P) - Cardinality(BytesOf(g) \cap P)
    BY <1>6, FS_Union
  <1>8. Cardinality(BytesOf(g) \cap P) = 0 /\ Cardinality(BytesOf(g)) \in Nat
    BY <1>5, FS_EmptySet, FS_CardinalityType
  <1> QED BY <1>1, <1>4, <1>6, <1>7, <1>8

\* Without the entry of a task there is less.
LEMMA BytesLess ==
  ASSUME NEW h \in Maps, NEW t \in Tasks, NEW g, g = [h EXCEPT ![t] = None], IsFiniteSet(BytesOf(h))
  PROVE  /\ g \in Maps /\ IsFiniteSet(BytesOf(g))
         /\ Cardinality(BytesOf(g)) <= Cardinality(BytesOf(h))
         /\ Cardinality(BytesOf(g)) \in Nat /\ Cardinality(BytesOf(h)) \in Nat
  <1>1. g \in Maps
    BY DEF Maps
  <1>2. BytesOf(g) \subseteq BytesOf(h)
    BY DEF BytesOf, Entered, Maps
  <1>3. IsFiniteSet(BytesOf(g)) /\ Cardinality(BytesOf(g)) <= Cardinality(BytesOf(h))
    BY <1>2, FS_Subset
  <1> QED BY <1>1, <1>3, FS_CardinalityType

\* Putting an entry, and taking one out.
LEMMA FitsPut ==
  ASSUME NEW h \in Maps, NEW n \in Nat, Fits(h, n), NEW t \in Tasks, NEW e \in EntryRecs,
         n + e.length <= CacheCapacity \/ Entered(h) = {}
  PROVE  [h EXCEPT ![t] = e] \in Maps /\ Fits([h EXCEPT ![t] = e], n + e.length) /\ n + e.length \in Nat
  <1>1. PICK g : g = [h EXCEPT ![t] = None]
    OBVIOUS
  <1>2. PICK k \in Maps : k = [h EXCEPT ![t] = e]
    BY DEF Maps
  <1>3. g = [k EXCEPT ![t] = None] /\ k[t] = e
    BY <1>1, <1>2 DEF Maps
  <1>4. /\ g \in Maps /\ IsFiniteSet(BytesOf(g)) /\ Cardinality(BytesOf(g)) <= Cardinality(BytesOf(h))
        /\ Cardinality(BytesOf(g)) \in Nat /\ Cardinality(BytesOf(h)) \in Nat
    BY <1>1, BytesLess DEF Fits
  <1>5. IsFiniteSet(BytesOf(k)) /\ e.length \in Nat /\ Cardinality(BytesOf(k)) = Cardinality(BytesOf(g)) + e.length
    BY <1>3, <1>4, BytesSplit, NoEntry
  <1>6. Entered(h) = {} => Cardinality(BytesOf(g)) = 0
    <2>1. Entered(h) = {} => BytesOf(g) = {}
      BY <1>1 DEF Entered, BytesOf, Maps
    <2> QED BY <2>1, FS_EmptySet
  <1>7. e.length <= CacheCapacity /\ CacheCapacity \in Nat
    BY CacheAssumption DEF EntryRecs
  <1>8. Cardinality(BytesOf(k)) <= CacheCapacity /\ Cardinality(BytesOf(k)) <= n + e.length /\ n + e.length \in Nat
    BY <1>4, <1>5, <1>6, <1>7 DEF Fits
  <1> QED BY <1>2, <1>5, <1>8 DEF Fits

LEMMA FitsPop ==
  ASSUME NEW h \in Maps, NEW n \in Nat, Fits(h, n), NEW t \in Tasks, h[t] # None
  PROVE  /\ [h EXCEPT ![t] = None] \in Maps /\ Fits([h EXCEPT ![t] = None], n - h[t].length)
         /\ n - h[t].length \in Nat /\ n - h[t].length <= n
  <1>1. PICK g : g = [h EXCEPT ![t] = None]
    OBVIOUS
  <1>2. g \in Maps /\ IsFiniteSet(BytesOf(g))
    BY <1>1, BytesLess DEF Fits
  <1>3. /\ h[t].length \in Nat /\ Cardinality(BytesOf(h)) = Cardinality(BytesOf(g)) + h[t].length
        /\ Cardinality(BytesOf(g)) \in Nat
    BY <1>1, <1>2, BytesSplit
  <1>4. /\ Cardinality(BytesOf(g)) <= CacheCapacity /\ Cardinality(BytesOf(g)) <= n - h[t].length
        /\ n - h[t].length \in Nat /\ n - h[t].length <= n
    BY <1>3, CacheAssumption DEF Fits
  <1> QED BY <1>1, <1>2, <1>4 DEF Fits

\* Writing the content of an entry.
LEMMA FitsWrite ==
  ASSUME NEW h \in Maps, NEW n \in Nat, Fits(h, n), NEW t \in Tasks, h[t] # None, NEW x \in {"none", "good", "bad"},
         NEW g, g = [h EXCEPT ![t].content = x]
  PROVE  g \in Maps /\ Fits(g, n) /\ Entered(g) = Entered(h)
  <1>1. h[t] \in EntryRecs
    BY DEF Maps
  <1>2. [h[t] EXCEPT !.content = x] \in EntryRecs /\ [h[t] EXCEPT !.content = x].length = h[t].length
    BY <1>1 DEF EntryRecs
  <1>3. g = [h EXCEPT ![t] = [h[t] EXCEPT !.content = x]]
    OBVIOUS
  <1>4. g \in Maps
    BY <1>2, <1>3 DEF Maps
  <1>5. \A u \in Tasks : (g[u] # None <=> h[u] # None) /\ (h[u] # None => g[u].length = h[u].length)
    BY <1>2, <1>3, NoEntry DEF Maps
  <1>6. Entered(g) = Entered(h)
    BY <1>5 DEF Entered
  <1>7. BytesOf(g) = BytesOf(h)
    BY <1>5, <1>6 DEF BytesOf, Entered
  <1> QED BY <1>4, <1>6, <1>7 DEF Fits

-----------------------------------------------------------------------------

CacheTypes ==
    /\ job \in Jobs /\ list \in Lists /\ held \in Maps /\ size \in Nat /\ records \subseteq Tasks
    /\ piece \in [Tasks -> {"none", "started", "finished"}] /\ owner \in [Tasks -> Calls \cup {None}]
    /\ at \in [Calls -> Cache!Places] /\ arrived \in [Calls -> {"good", "bad"}]
    /\ dropped \subseteq Tasks /\ spoiled \subseteq Tasks

OrderInv == Ordered(recent, Entered(held)) /\ Linked(list, recent, Entered(held))

\* A call adds to the size once, and then it has left these places.
Placed == {c \in Calls : at[c] \notin {"start", "evict"}}
SizeInv == Fits(held, size) /\ size <= CacheCapacity * Cardinality(Placed)

\* A piece that is recorded, or about to be, was kept.
Kept(t) == Cache!Cached(t, held) \/ t \in dropped
KeptInv ==
    /\ \A t \in Tasks : piece[t] = "finished" => Kept(t)
    /\ \A c \in Calls : at[c] = "finish" => Kept(job[c].task)

\* Bad content is still to be compared with its digest, or known.
BadContent(t, h) == Cache!Cached(t, h) /\ h[t].content = "bad"
Compares(c, t) == job[c].task = t /\ at[c] = "finish" /\ arrived[c] = "bad"
\* Bad content was there, or it is what a call has just written.
NothingWorse(h, c, p) ==
    \A t \in Tasks : BadContent(t, h) =>
        BadContent(t, held) \/ (t = job[c].task /\ p = "finish" /\ arrived[c] = "bad")
ComparedInv ==
    /\ \A t \in Tasks \ spoiled : BadContent(t, held) => \E c \in Calls : Compares(c, t)
    /\ \A c \in Calls : arrived[c] = "bad" => job[c].from # "source"

CacheInv == CacheTypes /\ OrderInv /\ SizeInv /\ KeptInv /\ ComparedInv

LEMMA JobType ==
  ASSUME CacheTypes, NEW c \in Calls
  PROVE  /\ job[c].task \in Tasks /\ job[c].length \in Nat /\ job[c].kind \in {"download", "upload", "delete"}
         /\ job[c].from \in {"source", "parent", "undigested"}
  BY CacheAssumption DEF CacheTypes

LEMMA PlacedGrows ==
  ASSUME at \in [Calls -> Cache!Places], NEW c \in Calls, NEW p \in Cache!Places, at' = [at EXCEPT ![c] = p],
         at[c] \in {"start", "evict"} \/ p \notin {"start", "evict"}
  PROVE  /\ Cardinality(Placed) \in Nat /\ Cardinality(Placed') \in Nat /\ Cardinality(Placed) <= Cardinality(Placed')
         /\ at[c] \in {"start", "evict"} /\ p \notin {"start", "evict"} => Cardinality(Placed) + 1 <= Cardinality(Placed')
  <1>1. Placed \in SUBSET Calls /\ Placed' \in SUBSET Calls /\ Placed \subseteq Placed'
    BY DEF Placed
  <1>2. at[c] \in {"start", "evict"} /\ p \notin {"start", "evict"} => c \in Placed' /\ c \notin Placed
    BY DEF Placed
  <1> QED BY <1>1, <1>2, CallsCount

LEMMA TimesCapacity ==
  ASSUME NEW m \in Nat, NEW n \in Nat
  PROVE  /\ CacheCapacity \in Nat /\ CacheCapacity * m \in Nat /\ CacheCapacity * n \in Nat
         /\ m <= n => CacheCapacity * m <= CacheCapacity * n
         /\ m + 1 <= n => CacheCapacity * m + CacheCapacity <= CacheCapacity * n
  <1>1. CacheCapacity \in Nat
    BY CacheAssumption
  <1> QED BY <1>1

LEMMA CacheInit == Cache!Init => CacheInv
  <1> SUFFICES ASSUME Cache!Init PROVE CacheInv
    OBVIOUS
  <1>1. job \in Jobs /\ size = 0 /\ recent = {} /\ held = [t \in Tasks |-> None] /\ held \in Maps /\ Entered(held) = {}
    BY DEF Cache!Init, Maps, Entered
  <1>2. \A c \in Calls : job[c].kind \in {"download", "upload", "delete"}
    BY <1>1, CacheAssumption
  <1>3. \A c \in Calls : at[c] \in {"start", "begin", "delete"}
    BY <1>2 DEF Cache!Init, Cache!First
  <1>4. at \in [Calls -> Cache!Places]
    BY <1>3 DEF Cache!Init, Cache!Places
  <1>5. list \in Lists /\ list.head = None /\ list.tail = None
        /\ (\A t \in Tasks : list.prev[t] = None /\ list.next[t] = None)
    BY DEF Cache!Init, Lists, Names
  <1>6. CacheTypes
    BY <1>1, <1>4, <1>5 DEF CacheTypes, Cache!Init
  <1>7. OrderInv
    BY <1>1, <1>5 DEF OrderInv, Ordered, Linked
  <1>8. SizeInv
    <2>1. BytesOf(held) = {}
      BY <1>1 DEF BytesOf
    <2>2. IsFiniteSet(BytesOf(held)) /\ Cardinality(BytesOf(held)) = 0
      BY <2>1, FS_EmptySet
    <2>3. Cardinality(Placed) \in Nat
      BY CallsCount DEF Placed
    <2> QED BY <1>1, <2>2, <2>3, TimesCapacity DEF SizeInv, Fits
  <1>9. KeptInv
    BY <1>3 DEF KeptInv, Cache!Init
  <1>10. ComparedInv
    BY <1>1 DEF ComparedInv, BadContent, Cache!Cached, Cache!Init
  <1> QED BY <1>6, <1>7, <1>8, <1>9, <1>10 DEF CacheInv

LEMMA CacheStutter == CacheInv /\ UNCHANGED cacheVars => CacheInv'
  <1> SUFFICES ASSUME CacheInv, UNCHANGED cacheVars PROVE CacheInv'
    OBVIOUS
  <1>1. CacheTypes' /\ OrderInv'
    BY DEF CacheInv, CacheTypes, OrderInv, cacheVars
  <1>2. SizeInv'
    BY DEF CacheInv, SizeInv, Placed, cacheVars
  <1>3. KeptInv'
    BY DEF CacheInv, KeptInv, Kept, cacheVars
  <1>4. ComparedInv'
    BY DEF CacheInv, ComparedInv, Compares, cacheVars
  <1> QED BY <1>1, <1>2, <1>3, <1>4 DEF CacheInv

\* A call moves on and leaves the cache alone.
LEMMA RecordStep ==
  ASSUME CacheInv, NEW c \in Calls, NEW p \in Cache!Places, at' = [at EXCEPT ![c] = p],
         at[c] # "finish", p \notin {"start", "evict", "finish"},
         job' = job, list' = list, held' = held, size' = size, recent' = recent, dropped' = dropped, spoiled' = spoiled,
         records' \subseteq Tasks, piece' \in [Tasks -> {"none", "started", "finished"}],
         owner' \in [Tasks -> Calls \cup {None}], arrived' \in [Calls -> {"good", "bad"}],
         \A t \in Tasks : piece'[t] = "finished" => piece[t] = "finished",
         \A d \in Calls : arrived'[d] = arrived[d] \/ (d = c /\ (arrived'[d] = "bad" => job[c].from # "source"))
  PROVE  CacheInv'
  <1>0. CacheTypes /\ OrderInv /\ SizeInv /\ KeptInv /\ ComparedInv
    BY DEF CacheInv
  <1>1. at \in [Calls -> Cache!Places] /\ at' \in [Calls -> Cache!Places]
    BY <1>0 DEF CacheTypes
  <1>2. CacheTypes'
    BY <1>0, <1>1 DEF CacheTypes
  <1>3. OrderInv'
    BY <1>0 DEF OrderInv
  <1>4. SizeInv'
    <2>1. Cardinality(Placed) \in Nat /\ Cardinality(Placed') \in Nat /\ Cardinality(Placed) <= Cardinality(Placed')
      BY <1>1, PlacedGrows
    <2>2. /\ CacheCapacity * Cardinality(Placed) \in Nat /\ CacheCapacity * Cardinality(Placed') \in Nat
          /\ CacheCapacity * Cardinality(Placed) <= CacheCapacity * Cardinality(Placed')
      BY <2>1, TimesCapacity
    <2>3. Fits(held, size)'
      BY <1>0 DEF SizeInv
    <2>4. size <= CacheCapacity * Cardinality(Placed) /\ size \in Nat
      BY <1>0 DEF SizeInv, CacheTypes
    <2>5. size' <= CacheCapacity * Cardinality(Placed')
      BY <2>2, <2>4
    <2> QED BY <2>3, <2>5 DEF SizeInv
  <1>5. KeptInv'
    BY <1>0, <1>1 DEF KeptInv, Kept
  <1>6. ComparedInv'
    <2>1. ASSUME NEW t \in Tasks, NEW d \in Calls, Compares(d, t) PROVE Compares(d, t)'
      BY <1>1, <2>1 DEF Compares
    <2> QED BY <1>0, <2>1 DEF ComparedInv
  <1> QED BY <1>2, <1>3, <1>4, <1>5, <1>6 DEF CacheInv

\* The cache becomes s: what was kept is kept, or dropped with its entry.
LEMMA BecomesKept ==
  ASSUME CacheInv, NEW c \in Calls, at[c] # "finish", NEW p, at' = [at EXCEPT ![c] = p],
         job' = job, piece' = piece, arrived' = arrived, NEW s, NEW t, Cache!Becomes(s, t),
         p = "finish" => Cache!Cached(job[c].task, s.held)
  PROVE  KeptInv' /\ dropped' \subseteq Tasks /\ spoiled' \subseteq Tasks
  <1>1. CacheTypes /\ KeptInv
    BY DEF CacheInv
  <1>2. held' = s.held /\ dropped' = {u \in Tasks : ~Cache!Cached(u, s.held) /\ (u \in dropped \/ Cache!Cached(u, held))}
    BY DEF Cache!Becomes
  <1>3. \A u \in Tasks : Kept(u) => Kept(u)'
    BY <1>2 DEF Kept
  <1>4. job[c].task \in Tasks /\ \A d \in Calls : job[d].task \in Tasks
    BY <1>1, JobType
  <1>5. \A u \in Tasks : piece'[u] = "finished" => Kept(u)'
    BY <1>1, <1>3 DEF KeptInv
  <1>6. ASSUME NEW d \in Calls, at'[d] = "finish" PROVE Kept(job[d].task)'
    <2>1. CASE d = c
      BY <1>1, <1>2, <1>6, <2>1 DEF Kept, CacheTypes
    <2>2. CASE d # c
      <3>1. at[d] = "finish"
        BY <1>1, <1>6, <2>2 DEF CacheTypes
      <3> QED BY <1>1, <1>3, <1>4, <3>1 DEF KeptInv
    <2> QED BY <2>1, <2>2
  <1>7. dropped' \subseteq Tasks /\ spoiled' \subseteq Tasks
    BY <1>1 DEF Cache!Becomes, CacheTypes
  <1> QED BY <1>5, <1>6, <1>7 DEF KeptInv

LEMMA BecomesCompared ==
  ASSUME CacheInv, NEW c \in Calls, at[c] # "finish", NEW p, at' = [at EXCEPT ![c] = p],
         job' = job, arrived' = arrived, NEW s, NEW t, Cache!Becomes(s, t),
         NothingWorse(s.held, c, p)
  PROVE  ComparedInv'
  <1>1. CacheTypes /\ ComparedInv
    BY DEF CacheInv
  <1>2. held' = s.held /\ spoiled' = {u \in spoiled : Cache!Cached(u, s.held)}
    BY DEF Cache!Becomes
  <1>3. ASSUME NEW u \in Tasks, u \notin spoiled', BadContent(u, s.held) PROVE \E d \in Calls : Compares(d, u)'
    <2>1. u \notin spoiled
      BY <1>2, <1>3 DEF BadContent
    <2>2. CASE BadContent(u, held)
      <3>1. PICK d \in Calls : Compares(d, u)
        BY <1>1, <2>1, <2>2 DEF ComparedInv
      <3>2. d # c
        BY <3>1 DEF Compares
      <3>3. Compares(d, u)'
        BY <1>1, <3>1, <3>2 DEF Compares, CacheTypes
      <3> QED BY <3>3
    <2>3. CASE u = job[c].task /\ p = "finish" /\ arrived[c] = "bad"
      <3>1. Compares(c, u)'
        BY <1>1, <2>3 DEF Compares, CacheTypes
      <3> QED BY <3>1
    <2> QED BY <1>3, <2>2, <2>3 DEF NothingWorse
  <1>4. \A u \in Tasks : BadContent(u, held)' = BadContent(u, s.held)
    BY <1>2
  <1>5. \A d \in Calls : arrived'[d] = "bad" => job'[d].from # "source"
    BY <1>1 DEF ComparedInv
  <1> QED BY <1>3, <1>4, <1>5 DEF ComparedInv

\* An entry is used or put.
LEMMA BecomesUsed ==
  ASSUME CacheInv, NEW t \in Tasks, NEW s, Cache!Becomes(s, t), s.held \in Maps,
         Entered(s.held) = Entered(held) \cup {t},
         s.list = (IF held[t] # None THEN Cache!get(list, t) ELSE Cache!attach(list, t))
  PROVE  list' \in Lists /\ OrderInv'
  <1>1. CacheTypes /\ OrderInv
    BY DEF CacheInv
  <1>2. held' = s.held /\ list' = s.list
    BY DEF Cache!Becomes
  <1>3. PICK E : E = Entered(held)
    OBVIOUS
  <1>4. E \in SUBSET Tasks /\ Ordered(recent, E) /\ Linked(list, recent, E) /\ list \in Lists /\ Entered(held') = E \cup {t}
    BY <1>1, <1>2, <1>3 DEF OrderInv, Entered, CacheTypes
  <1>5. recent' = {x \in Tasks \X Tasks : /\ s.held[x[1]] # None /\ s.held[x[2]] # None
                                          /\ x[2] # t /\ (x[1] = t \/ x \in recent)}
    BY DEF Cache!Becomes
  <1>6. \A u \in Tasks : s.held[u] # None <=> u \in E \cup {t}
    BY <1>2, <1>4 DEF Entered
  <1>7. recent' \subseteq (E \cup {t}) \X (E \cup {t})
    BY <1>5, <1>6
  <1>8. \A u, v \in E \cup {t} : <<u, v>> \in recent' <=> v # t /\ (u = t \/ <<u, v>> \in recent)
    BY <1>4, <1>5, <1>6
  <1>9. list' = (IF t \in E THEN Cache!get(list, t) ELSE Cache!attach(list, t))
    BY <1>2, <1>3 DEF Entered
  <1>10. list' \in Lists /\ Ordered(recent', E \cup {t}) /\ Linked(list', recent', E \cup {t})
    BY <1>4, <1>7, <1>8, <1>9, UsedLinked
  <1> QED BY <1>4, <1>10 DEF OrderInv

\* An entry is taken out.
LEMMA BecomesPopped ==
  ASSUME CacheInv, NEW t \in Tasks, held[t] # None, NEW s, Cache!Becomes(s, None),
         s.held = [held EXCEPT ![t] = None], s.list = Cache!detach(list, t)
  PROVE  list' \in Lists /\ OrderInv'
  <1>1. CacheTypes /\ OrderInv
    BY DEF CacheInv
  <1>2. held' = s.held /\ list' = s.list
    BY DEF Cache!Becomes
  <1>3. PICK E : E = Entered(held)
    OBVIOUS
  <1>4. E \in SUBSET Tasks /\ Ordered(recent, E) /\ Linked(list, recent, E) /\ list \in Lists /\ t \in E
    BY <1>1, <1>3 DEF OrderInv, Entered, CacheTypes
  <1>5. recent' = {x \in Tasks \X Tasks : /\ s.held[x[1]] # None /\ s.held[x[2]] # None
                                          /\ x[2] # None /\ (x[1] = None \/ x \in recent)}
    BY DEF Cache!Becomes
  <1>6. \A u \in Tasks : s.held[u] # None <=> u \in E \ {t}
    BY <1>1, <1>3 DEF Entered, CacheTypes, Maps
  <1>7. Entered(held') = E \ {t}
    BY <1>2, <1>3, <1>6 DEF Entered
  <1>8. recent' \subseteq (E \ {t}) \X (E \ {t})
    BY <1>5, <1>6
  <1>9. \A u, v \in E \ {t} : <<u, v>> \in recent' <=> <<u, v>> \in recent
    BY <1>4, <1>5, <1>6, NoName
  <1>10. Ordered(recent', E \ {t})
    BY <1>4, <1>8, <1>9, OrderedLess
  <1>11. list' \in Lists /\ Linked(list', recent', E \ {t})
    BY SMTT(40), <1>2, <1>4, <1>8, <1>9, DetachType, DetachLinked
  <1> QED BY <1>7, <1>10, <1>11 DEF OrderInv

\* What a step of the cache has to show.
LEMMA CacheStep ==
  ASSUME CacheInv, NEW c \in Calls, at[c] # "finish", NEW p \in Cache!Places, at' = [at EXCEPT ![c] = p],
         job' = job, records' = records, piece' = piece, owner' = owner, arrived' = arrived,
         NEW s, NEW t, Cache!Becomes(s, t), s.held \in Maps, s.size \in Nat, Fits(s.held, s.size), list' \in Lists, OrderInv',
         at[c] \in {"start", "evict"} \/ p \notin {"start", "evict"},
         \/ s.size <= size
         \/ at[c] \in {"start", "evict"} /\ p \notin {"start", "evict"} /\ s.size <= size + CacheCapacity,
         p = "finish" => Cache!Cached(job[c].task, s.held),
         NothingWorse(s.held, c, p)
  PROVE  CacheInv'
  <1>0. CacheTypes /\ SizeInv
    BY DEF CacheInv
  <1>1. at \in [Calls -> Cache!Places] /\ at' \in [Calls -> Cache!Places]
    BY <1>0 DEF CacheTypes
  <1>2. KeptInv' /\ dropped' \subseteq Tasks /\ spoiled' \subseteq Tasks
    BY BecomesKept
  <1>3. ComparedInv'
    BY BecomesCompared
  <1>4. held' = s.held /\ size' = s.size
    BY DEF Cache!Becomes
  <1>5. CacheTypes'
    BY <1>0, <1>1, <1>2, <1>4 DEF CacheTypes
  <1>6. SizeInv'
    <2>1. /\ Cardinality(Placed) \in Nat /\ Cardinality(Placed') \in Nat /\ Cardinality(Placed) <= Cardinality(Placed')
          /\ at[c] \in {"start", "evict"} /\ p \notin {"start", "evict"} => Cardinality(Placed) + 1 <= Cardinality(Placed')
      BY <1>1, PlacedGrows
    <2>2. /\ CacheCapacity \in Nat
          /\ CacheCapacity * Cardinality(Placed) \in Nat /\ CacheCapacity * Cardinality(Placed') \in Nat
          /\ CacheCapacity * Cardinality(Placed) <= CacheCapacity * Cardinality(Placed')
          /\ at[c] \in {"start", "evict"} /\ p \notin {"start", "evict"} =>
                CacheCapacity * Cardinality(Placed) + CacheCapacity <= CacheCapacity * Cardinality(Placed')
      BY <2>1, TimesCapacity
    <2>3. size <= CacheCapacity * Cardinality(Placed) /\ size \in Nat
      BY <1>0 DEF SizeInv, CacheTypes
    <2>4. s.size <= CacheCapacity * Cardinality(Placed')
      BY <2>2, <2>3
    <2> QED BY <1>4, <2>4 DEF SizeInv
  <1> QED BY <1>2, <1>3, <1>5, <1>6 DEF CacheInv

LEMMA EvictStep ==
  ASSUME CacheInv, NEW c \in Calls, Cache!EvictTask(c)
  PROVE  CacheInv'
  <1>1. CacheTypes /\ OrderInv /\ SizeInv
    BY DEF CacheInv
  <1>2. PICK t : t = list.tail
    OBVIOUS
  <1>3. t \in Tasks /\ held[t] # None
    <2>1. t # None /\ list.tail \in Entered(held)
      BY <1>1, <1>2 DEF Cache!EvictTask, OrderInv, Linked
    <2> QED BY <1>2, <2>1 DEF Entered
  <1>4. PICK s : s = Cache!pop_lru(Cache!State)
    OBVIOUS
  <1>5. s.list = Cache!detach(list, t) /\ s.held = [held EXCEPT ![t] = None] /\ s.size = size - held[t].length
    BY <1>2, <1>4 DEF Cache!pop_lru, Cache!pop, Cache!State
  <1>6. Cache!Becomes(s, None)
    BY <1>4 DEF Cache!EvictTask
  <1>7. s.held \in Maps /\ Fits(s.held, s.size) /\ s.size \in Nat /\ s.size <= size
    <2>1. held \in Maps /\ size \in Nat /\ Fits(held, size)
      BY <1>1 DEF SizeInv, CacheTypes
    <2>2. /\ [held EXCEPT ![t] = None] \in Maps /\ Fits([held EXCEPT ![t] = None], size - held[t].length)
          /\ size - held[t].length \in Nat /\ size - held[t].length <= size
      BY <1>3, <2>1, FitsPop
    <2> QED BY <1>5, <2>2
  <1>8. list' \in Lists /\ OrderInv'
    BY <1>3, <1>5, <1>6, BecomesPopped
  <1>9. NothingWorse(s.held, c, "evict")
    BY <1>1, <1>5 DEF NothingWorse, BadContent, Cache!Cached, CacheTypes, Maps
  <1>10. /\ at[c] \in {"start", "evict"} /\ at' = [at EXCEPT ![c] = "evict"] /\ "evict" \in Cache!Places
         /\ job' = job /\ records' = records /\ piece' = piece /\ owner' = owner /\ arrived' = arrived
    BY DEF Cache!EvictTask, Cache!Puts, Cache!Goto, Cache!Places
  <1>11. at[c] # "finish"
    BY <1>10
  <1> QED BY <1>6, <1>7, <1>8, <1>9, <1>10, <1>11, CacheStep

LEMMA PutStep ==
  ASSUME CacheInv, NEW c \in Calls, Cache!put_task(c)
  PROVE  CacheInv'
  <1>1. CacheTypes /\ OrderInv /\ SizeInv
    BY DEF CacheInv
  <1>2. PICK t \in Tasks : t = job[c].task
    BY <1>1, JobType
  <1>3. PICK e : e = [length |-> job[c].length, content |-> "none"]
    OBVIOUS
  <1>4. e \in EntryRecs /\ e.length = job[c].length /\ e.content = "none" /\ e # None
    BY <1>3, NoEntry DEF Cache!put_task, Cache!Puts, EntryRecs
  <1>5. PICK s : s = [Cache!put(Cache!State, t, e) EXCEPT !.size = @ + job[c].length]
    OBVIOUS
  <1>6. /\ s.list = (IF held[t] # None THEN Cache!get(list, t) ELSE Cache!attach(list, t))
        /\ s.held = [held EXCEPT ![t] = e] /\ s.size = size + e.length
    BY <1>4, <1>5 DEF Cache!put, Cache!State
  <1>7. Cache!Becomes(s, t)
    BY <1>2, <1>3, <1>5 DEF Cache!put_task
  <1>8. size + e.length <= CacheCapacity \/ Entered(held) = {}
    BY <1>1, <1>4, NoName DEF Cache!put_task, OrderInv, Linked, Entered
  <1>9. s.held \in Maps /\ Fits(s.held, s.size) /\ s.size \in Nat
    BY <1>1, <1>4, <1>6, <1>8, FitsPut DEF SizeInv, CacheTypes
  <1>10. Entered(s.held) = Entered(held) \cup {t}
    BY <1>1, <1>4, <1>6 DEF Entered, CacheTypes, Maps
  <1>11. list' \in Lists /\ OrderInv'
    BY <1>6, <1>7, <1>9, <1>10, BecomesUsed
  <1>12. NothingWorse(s.held, c, "record")
    BY <1>1, <1>4, <1>6 DEF NothingWorse, BadContent, Cache!Cached, CacheTypes, Maps
  <1>13. /\ at[c] \in {"start", "evict"} /\ at' = [at EXCEPT ![c] = "record"] /\ "record" \in Cache!Places
         /\ job' = job /\ records' = records /\ piece' = piece /\ owner' = owner /\ arrived' = arrived
    BY DEF Cache!put_task, Cache!Puts, Cache!Goto, Cache!Places
  <1>14. at[c] # "finish" /\ s.size <= size + CacheCapacity
    <2>1. e.length \in Nat /\ e.length <= CacheCapacity
      BY <1>4, CacheAssumption DEF EntryRecs
    <2> QED BY <1>1, <1>6, <1>13, <2>1, CacheAssumption DEF CacheTypes
  <1> QED BY <1>7, <1>9, <1>11, <1>12, <1>13, <1>14, CacheStep

\* A piece is written or read: its entry is used, and may have got its content.
LEMMA UseStep ==
  ASSUME CacheInv, NEW c \in Calls, at[c] \notin {"start", "evict", "finish"}, NEW t \in Tasks, t = job[c].task, held[t] # None,
         NEW p \in Cache!Places, p \notin {"start", "evict"}, at' = [at EXCEPT ![c] = p],
         NEW x \in {"none", "good", "bad"}, x = held[t].content \/ (p = "finish" /\ x = arrived[c]),
         p = "finish" => x # "none",
         NEW s, s.list = Cache!get(list, t), s.held = [held EXCEPT ![t].content = x], s.size = size, Cache!Becomes(s, t),
         job' = job, records' = records, piece' = piece, owner' = owner, arrived' = arrived
  PROVE  CacheInv'
  <1>1. CacheTypes /\ OrderInv /\ SizeInv
    BY DEF CacheInv
  <1>2. s.held \in Maps /\ Fits(s.held, s.size) /\ s.size \in Nat /\ Entered(s.held) = Entered(held)
    BY <1>1, FitsWrite DEF SizeInv, CacheTypes
  <1>3. Entered(s.held) = Entered(held) \cup {t}
    BY <1>2 DEF Entered
  <1>4. list' \in Lists /\ OrderInv'
    BY <1>2, <1>3, BecomesUsed
  <1>5. s.held[t] # None /\ s.held[t].content = x /\ \A u \in Tasks \ {t} : s.held[u] = held[u]
    <2>1. held[t] \in EntryRecs
      BY <1>1 DEF CacheTypes, Maps
    <2>2. s.held[t] = [held[t] EXCEPT !.content = x]
      BY <1>1 DEF CacheTypes, Maps
    <2>3. [held[t] EXCEPT !.content = x] \in EntryRecs /\ [held[t] EXCEPT !.content = x].content = x
      BY <2>1 DEF EntryRecs
    <2> QED BY <1>1, <2>2, <2>3, NoEntry DEF CacheTypes, Maps
  <1>6. p = "finish" => Cache!Cached(job[c].task, s.held)
    BY <1>5 DEF Cache!Cached
  <1>7. NothingWorse(s.held, c, p)
    BY <1>5 DEF NothingWorse, BadContent, Cache!Cached
  <1>8. s.size <= size
    BY <1>1 DEF CacheTypes
  <1> QED BY <1>2, <1>4, <1>6, <1>7, <1>8, CacheStep

LEMMA WriteStep ==
  ASSUME CacheInv, NEW c \in Calls, Cache!write_piece(c)
  PROVE  CacheInv'
  <1>1. CacheTypes
    BY DEF CacheInv
  <1>2. PICK t \in Tasks : t = job[c].task
    BY <1>1, JobType
  <1>3. at[c] = "write" /\ job' = job /\ records' = records /\ piece' = piece /\ owner' = owner /\ arrived' = arrived
    BY DEF Cache!write_piece
  <1>4. CASE held[t] = None
    <2>1. at' = [at EXCEPT ![c] = "fail"] /\ "fail" \in Cache!Places
      BY <1>2, <1>4 DEF Cache!write_piece, Cache!Goto, Cache!Places
    <2>2. list' = list /\ held' = held /\ size' = size /\ recent' = recent /\ dropped' = dropped /\ spoiled' = spoiled
      BY <1>2, <1>4 DEF Cache!write_piece, Cache!cacheVars
    <2> QED BY <1>1, <1>3, <2>1, <2>2, RecordStep DEF CacheTypes
  <1>5. CASE held[t] # None
    <2>1. at' = [at EXCEPT ![c] = "finish"] /\ "finish" \in Cache!Places
      BY <1>2, <1>5 DEF Cache!write_piece, Cache!Goto, Cache!Places
    <2>2. PICK x : x = (IF held[t].content = "none" THEN arrived[c] ELSE held[t].content)
      OBVIOUS
    <2>3. held[t].content \in {"none", "good", "bad"} /\ arrived[c] \in {"good", "bad"}
      BY <1>1, <1>5 DEF CacheTypes, Maps, EntryRecs
    <2>4. x \in {"none", "good", "bad"} /\ x # "none" /\ (x = held[t].content \/ x = arrived[c])
      BY <2>2, <2>3
    <2>5. PICK s : s = [Cache!State EXCEPT !.list = Cache!get(list, t),
                                 !.held[t].content = IF @ = "none" THEN arrived[c] ELSE @]
      OBVIOUS
    <2>6. s.list = Cache!get(list, t) /\ s.held = [held EXCEPT ![t].content = x] /\ s.size = size
      BY <2>2, <2>5 DEF Cache!State
    <2>7. Cache!Becomes(s, t)
      BY <1>2, <1>5, <2>5 DEF Cache!write_piece
    <2> QED BY <1>2, <1>3, <1>5, <2>1, <2>4, <2>6, <2>7, UseStep
  <1> QED BY <1>4, <1>5

LEMMA ReadStep ==
  ASSUME CacheInv, NEW c \in Calls, Cache!read_piece(c)
  PROVE  CacheInv'
  <1>1. CacheTypes
    BY DEF CacheInv
  <1>2. PICK t \in Tasks : t = job[c].task
    BY <1>1, JobType
  <1>3. /\ at[c] = "read" /\ job' = job /\ records' = records /\ piece' = piece /\ owner' = owner /\ arrived' = arrived
        /\ at' = [at EXCEPT ![c] = "uncount"] /\ "uncount" \in Cache!Places
    BY DEF Cache!read_piece, Cache!Goto, Cache!Places
  <1>4. CASE held[t] = None
    <2>1. list' = list /\ held' = held /\ size' = size /\ recent' = recent /\ dropped' = dropped /\ spoiled' = spoiled
      BY SMTT(40), <1>2, <1>4 DEF Cache!read_piece, Cache!cacheVars
    <2> QED BY <1>1, <1>3, <2>1, RecordStep DEF CacheTypes
  <1>5. CASE held[t] # None
    <2>1. PICK x : x = held[t].content
      OBVIOUS
    <2>2. held \in Maps /\ held[t] \in EntryRecs /\ x \in {"none", "good", "bad"}
      BY <1>1, <1>5, <2>1 DEF CacheTypes, Maps, EntryRecs
    <2>3. PICK s : s = [Cache!State EXCEPT !.list = Cache!get(list, t)]
      OBVIOUS
    <2>4. s.list = Cache!get(list, t) /\ s.held = held /\ s.size = size
      BY <2>3 DEF Cache!State
    <2>5. [held[t] EXCEPT !.content = x] = held[t]
      BY <2>1, <2>2 DEF EntryRecs
    <2>6. [held EXCEPT ![t].content = x] = held
      BY <2>2, <2>5 DEF Maps
    <2>7. Cache!Becomes(s, t)
      BY <1>2, <1>5, <2>3 DEF Cache!read_piece
    <2>8. s.held = [held EXCEPT ![t].content = x]
      BY <2>4, <2>6
    <2>9. /\ at[c] \notin {"start", "evict", "finish"} /\ "uncount" \notin {"start", "evict"} /\ "uncount" # "finish"
          /\ x \in {"none", "good", "bad"} /\ x = held[t].content
      BY <1>3, <2>1, <2>2
    <2> QED BY <1>2, <1>3, <1>5, <2>4, <2>7, <2>8, <2>9, UseStep
  <1> QED BY <1>4, <1>5

LEMMA DeleteStep ==
  ASSUME CacheInv, NEW c \in Calls, Cache!delete_task(c)
  PROVE  CacheInv'
  <1>1. CacheTypes /\ SizeInv
    BY DEF CacheInv
  <1>2. PICK t \in Tasks : t = job[c].task
    BY <1>1, JobType
  <1>3. /\ at[c] = "delete_content" /\ job' = job /\ records' = records /\ piece' = piece /\ owner' = owner
        /\ arrived' = arrived /\ at' = [at EXCEPT ![c] = "done"] /\ "done" \in Cache!Places
    BY DEF Cache!delete_task, Cache!Goto, Cache!Places
  <1>4. CASE held[t] = None
    <2>1. list' = list /\ held' = held /\ size' = size /\ recent' = recent /\ dropped' = dropped /\ spoiled' = spoiled
      BY <1>2, <1>4 DEF Cache!delete_task, Cache!cacheVars
    <2> QED BY <1>1, <1>3, <2>1, RecordStep DEF CacheTypes
  <1>5. CASE held[t] # None
    <2>1. PICK s : s = Cache!pop(Cache!State, t)
      OBVIOUS
    <2>2. s.list = Cache!detach(list, t) /\ s.held = [held EXCEPT ![t] = None] /\ s.size = size - held[t].length
      BY <2>1 DEF Cache!pop, Cache!State
    <2>3. Cache!Becomes(s, None)
      BY <1>2, <1>5, <2>1 DEF Cache!delete_task
    <2>4. s.held \in Maps /\ Fits(s.held, s.size) /\ s.size \in Nat /\ s.size <= size
      <3>1. held \in Maps /\ size \in Nat /\ Fits(held, size)
        BY <1>1 DEF SizeInv, CacheTypes
      <3>2. /\ [held EXCEPT ![t] = None] \in Maps /\ Fits([held EXCEPT ![t] = None], size - held[t].length)
            /\ size - held[t].length \in Nat /\ size - held[t].length <= size
        BY <1>5, <3>1, FitsPop
      <3> QED BY <2>2, <3>2
    <2>5. list' \in Lists /\ OrderInv'
      BY <1>5, <2>2, <2>3, BecomesPopped
    <2>6. NothingWorse(s.held, c, "done")
      BY <1>1, <2>2 DEF NothingWorse, BadContent, Cache!Cached, CacheTypes, Maps
    <2> QED BY <1>3, <2>3, <2>4, <2>5, <2>6, CacheStep
  <1> QED BY <1>4, <1>5

\* The digest is compared: bad content that nobody compares any more is known.
LEMMA FinishStep ==
  ASSUME CacheInv, NEW c \in Calls, Cache!download_cache_piece_finished(c)
  PROVE  CacheInv'
  <1>0. CacheTypes /\ OrderInv /\ SizeInv /\ KeptInv /\ ComparedInv
    BY DEF CacheInv
  <1>1. PICK t \in Tasks : t = job[c].task
    BY <1>0, JobType
  <1>2. /\ at[c] = "finish" /\ job' = job /\ list' = list /\ held' = held /\ size' = size /\ recent' = recent
        /\ dropped' = dropped /\ records' = records /\ owner' = owner /\ arrived' = arrived
    BY DEF Cache!download_cache_piece_finished
  <1>3. PICK p \in {"fail", "release"} : at' = [at EXCEPT ![c] = p]
    BY DEF Cache!download_cache_piece_finished, Cache!Goto
  <1>4. p \in Cache!Places /\ p \notin {"start", "evict", "finish"}
    BY <1>3 DEF Cache!Places
  <1>5. /\ piece' \in [Tasks -> {"none", "started", "finished"}]
        /\ \A u \in Tasks : u # t => piece'[u] = piece[u]
    BY <1>0, <1>1 DEF Cache!download_cache_piece_finished, CacheTypes
  <1>6. /\ spoiled \subseteq spoiled' /\ spoiled' \subseteq Tasks
        /\ BadContent(t, held) /\ arrived[c] = "bad" => t \in spoiled'
    <2>1. spoiled' = IF /\ Cache!Cached(t, held) /\ held[t].content = "bad"
                        /\ (job[c].from = "parent" /\ arrived[c] = "bad") \/ job[c].from = "undigested"
                     THEN spoiled \cup {t} ELSE spoiled
      BY <1>1 DEF Cache!download_cache_piece_finished
    <2>2. arrived[c] = "bad" => job[c].from \in {"parent", "undigested"}
      BY <1>0, JobType DEF ComparedInv
    <2> QED BY <1>0, <2>1, <2>2 DEF BadContent, CacheTypes
  <1>7. at \in [Calls -> Cache!Places] /\ at' \in [Calls -> Cache!Places]
    BY <1>0, <1>3, <1>4 DEF CacheTypes
  <1>8. CacheTypes'
    BY <1>0, <1>2, <1>5, <1>6, <1>7 DEF CacheTypes
  <1>9. OrderInv'
    BY <1>0, <1>2 DEF OrderInv
  <1>10. SizeInv'
    <2>1. Placed' = Placed
      BY <1>2, <1>3, <1>4, <1>7 DEF Placed
    <2> QED BY <1>0, <1>2, <2>1 DEF SizeInv
  <1>11. KeptInv'
    <2>1. \A u \in Tasks : Kept(u)' = Kept(u)
      BY <1>2 DEF Kept
    <2>2. Kept(t)
      BY <1>0, <1>1, <1>2 DEF KeptInv
    <2>3. \A u \in Tasks : piece'[u] = "finished" => Kept(u)
      BY <1>0, <1>5, <2>2 DEF KeptInv
    <2>4. \A d \in Calls : at'[d] = "finish" => at[d] = "finish"
      BY <1>3, <1>4, <1>7
    <2>5. \A d \in Calls : job[d].task \in Tasks
      BY <1>0, JobType
    <2> QED BY <1>0, <1>2, <2>1, <2>3, <2>4, <2>5 DEF KeptInv
  <1>12. ComparedInv'
    <2>1. ASSUME NEW u \in Tasks, u \notin spoiled', BadContent(u, held) PROVE \E d \in Calls : Compares(d, u)'
      <3>1. PICK d \in Calls : Compares(d, u)
        BY <1>0, <1>6, <2>1 DEF ComparedInv
      <3>2. d # c
        BY <1>1, <1>6, <2>1, <3>1 DEF Compares
      <3>3. Compares(d, u)'
        BY <1>2, <1>3, <1>7, <3>1, <3>2 DEF Compares
      <3> QED BY <3>3
    <2>2. \A d \in Calls : arrived'[d] = "bad" => job'[d].from # "source"
      BY <1>0, <1>2 DEF ComparedInv
    <2> QED BY <1>2, <2>1, <2>2 DEF ComparedInv
  <1> QED BY <1>8, <1>9, <1>10, <1>11, <1>12 DEF CacheInv

\* The other steps leave the cache alone.
LEMMA RecordSteps ==
  ASSUME CacheInv, NEW c \in Calls,
         \/ Cache!SkipTask(c) \/ Cache!download_cache_task_started(c)
         \/ Cache!WaitBegins(c) \/ Cache!wait_for_cache_piece_finished(c) \/ Cache!WaitFailed(c)
         \/ Cache!Claim(c) \/ Cache!download_cache_piece_started(c) \/ Cache!Fetch(c)
         \/ Cache!download_cache_piece_failed(c) \/ Cache!remove_and_notify(c)
         \/ Cache!GetRecord(c) \/ Cache!PutRecord(c) \/ Cache!contains_piece(c)
         \/ Cache!delete_cache_task(c) \/ Cache!delete_pieces(c)
  PROVE  CacheInv'
  <1>0. CacheTypes
    BY DEF CacheInv
  <1>1. PICK t \in Tasks : t = job[c].task
    BY <1>0, JobType
  <1> DEFINE Moves ==
        /\ at[c] # "finish"
        /\ \E p \in Cache!Places \ {"start", "evict", "finish"} : at' = [at EXCEPT ![c] = p]
        /\ job' = job /\ list' = list /\ held' = held /\ size' = size /\ recent' = recent /\ dropped' = dropped
        /\ spoiled' = spoiled
      Records ==
        /\ records' \subseteq Tasks /\ piece' \in [Tasks -> {"none", "started", "finished"}]
        /\ owner' \in [Tasks -> Calls \cup {None}]
        /\ \A u \in Tasks : piece'[u] = "finished" => piece[u] = "finished"
      Arrives ==
        /\ arrived' \in [Calls -> {"good", "bad"}]
        /\ \A d \in Calls : arrived'[d] = arrived[d] \/ (d = c /\ (arrived'[d] = "bad" => job[c].from # "source"))
  <1>2. Moves /\ Records /\ Arrives => CacheInv'
    BY RecordStep
  <1>3. arrived' = arrived => Arrives
    BY <1>0 DEF CacheTypes
  <1>4. records' = records /\ piece' = piece /\ owner' = owner => Records
    BY <1>0 DEF CacheTypes
  <1> HIDE DEF Moves, Records, Arrives
  <1>5. CASE Cache!SkipTask(c)
    <2>1. Moves
      BY <1>5 DEF Moves, Cache!SkipTask, Cache!Goto, Cache!Places, Cache!cacheVars
    <2>2. arrived' = arrived /\ records' = records /\ piece' = piece /\ owner' = owner
      BY <1>5 DEF Cache!SkipTask
    <2> QED BY <1>2, <1>3, <1>4, <2>1, <2>2
  <1>6. CASE Cache!download_cache_task_started(c)
    <2>1. Moves
      BY <1>6 DEF Moves, Cache!download_cache_task_started, Cache!Goto, Cache!Places, Cache!cacheVars
    <2>2. arrived' = arrived /\ Records
      BY <1>0, <1>1, <1>6 DEF Records, CacheTypes, Cache!download_cache_task_started
    <2> QED BY <1>2, <1>3, <2>1, <2>2
  <1>7. CASE Cache!WaitBegins(c)
    <2>1. Moves
      BY <1>7 DEF Moves, Cache!WaitBegins, Cache!Found, Cache!Missing, Cache!Goto, Cache!Places, Cache!cacheVars
    <2>2. arrived' = arrived /\ records' = records /\ piece' = piece /\ owner' = owner
      BY <1>7 DEF Cache!WaitBegins
    <2> QED BY <1>2, <1>3, <1>4, <2>1, <2>2
  <1>8. CASE Cache!wait_for_cache_piece_finished(c)
    <2>1. Moves
      BY <1>8 DEF Moves, Cache!wait_for_cache_piece_finished, Cache!Found, Cache!Missing, Cache!Goto, Cache!Places,
                  Cache!cacheVars
    <2>2. arrived' = arrived /\ records' = records /\ piece' = piece /\ owner' = owner
      BY <1>8 DEF Cache!wait_for_cache_piece_finished
    <2> QED BY <1>2, <1>3, <1>4, <2>1, <2>2
  <1>9. CASE Cache!WaitFailed(c)
    <2>1. Moves
      BY <1>9 DEF Moves, Cache!WaitFailed, Cache!Missing, Cache!Goto, Cache!Places, Cache!cacheVars
    <2>2. arrived' = arrived /\ Records
      <3>1. piece' = piece \/ piece' = [piece EXCEPT ![t] = "none"]
        BY <1>1, <1>9 DEF Cache!WaitFailed
      <3>2. arrived' = arrived /\ records' = records /\ owner' \in {owner, [owner EXCEPT ![t] = None]}
        BY <1>1, <1>9 DEF Cache!WaitFailed
      <3> QED BY <1>0, <1>1, <3>1, <3>2 DEF Records, CacheTypes
    <2> QED BY <1>2, <1>3, <2>1, <2>2
  <1>10. CASE Cache!Claim(c)
    <2>1. Moves
      BY <1>10 DEF Moves, Cache!Claim, Cache!Goto, Cache!Places, Cache!cacheVars
    <2>2. arrived' = arrived /\ Records
      BY <1>0, <1>1, <1>10 DEF Records, CacheTypes, Cache!Claim
    <2> QED BY <1>2, <1>3, <2>1, <2>2
  <1>11. CASE Cache!download_cache_piece_started(c)
    <2>1. Moves
      BY <1>11 DEF Moves, Cache!download_cache_piece_started, Cache!Goto, Cache!Places, Cache!cacheVars
    <2>2. arrived' = arrived /\ Records
      BY <1>0, <1>1, <1>11 DEF Records, CacheTypes, Cache!download_cache_piece_started
    <2> QED BY <1>2, <1>3, <2>1, <2>2
  <1>12. CASE Cache!Fetch(c)
    <2>1. Moves
      BY <1>12 DEF Moves, Cache!Fetch, Cache!Goto, Cache!Places, Cache!cacheVars
    <2>2. Arrives
      BY <1>0, <1>12 DEF Arrives, CacheTypes, Cache!Fetch
    <2>3. records' = records /\ piece' = piece /\ owner' = owner
      BY <1>12 DEF Cache!Fetch
    <2> QED BY <1>2, <1>4, <2>1, <2>2, <2>3
  <1>13. CASE Cache!download_cache_piece_failed(c)
    <2>1. Moves
      BY <1>13 DEF Moves, Cache!download_cache_piece_failed, Cache!Goto, Cache!Places, Cache!cacheVars
    <2>2. arrived' = arrived /\ Records
      <3>1. piece' = piece \/ piece' = [piece EXCEPT ![t] = "none"]
        BY <1>1, <1>13 DEF Cache!download_cache_piece_failed
      <3>2. arrived' = arrived /\ records' = records /\ owner' = owner
        BY <1>13 DEF Cache!download_cache_piece_failed
      <3> QED BY <1>0, <1>1, <3>1, <3>2 DEF Records, CacheTypes
    <2> QED BY <1>2, <1>3, <2>1, <2>2
  <1>14. CASE Cache!remove_and_notify(c)
    <2>1. Moves
      BY <1>14 DEF Moves, Cache!remove_and_notify, Cache!Goto, Cache!Places, Cache!cacheVars
    <2>2. arrived' = arrived /\ Records
      BY <1>0, <1>1, <1>14 DEF Records, CacheTypes, Cache!remove_and_notify
    <2> QED BY <1>2, <1>3, <2>1, <2>2
  <1>15. CASE Cache!GetRecord(c)
    <2>1. Moves
      <3>1. /\ DOMAIN Cache!Updates = {"close", "count", "uncount"}
            /\ \A x \in DOMAIN Cache!Updates : Cache!Updates[x] \in {"closing", "counting", "uncounting"}
        BY DEF Cache!Updates
      <3>2. at[c] # "finish" /\ \E p \in {"closing", "counting", "uncounting", "done"} : at' = [at EXCEPT ![c] = p]
        BY <1>15, <3>1 DEF Cache!GetRecord, Cache!Goto
      <3>3. {"closing", "counting", "uncounting", "done"} \subseteq Cache!Places \ {"start", "evict", "finish"}
        BY DEF Cache!Places
      <3>4. UNCHANGED <<job, list, held, size, recent, dropped, spoiled>>
        BY <1>15 DEF Cache!GetRecord, Cache!cacheVars
      <3> QED BY <3>2, <3>3, <3>4 DEF Moves
    <2>2. arrived' = arrived /\ records' = records /\ piece' = piece /\ owner' = owner
      BY <1>15 DEF Cache!GetRecord
    <2> QED BY <1>2, <1>3, <1>4, <2>1, <2>2
  <1>16. CASE Cache!PutRecord(c)
    <2>1. Moves
      <3>1. /\ DOMAIN Cache!After = {"closing", "counting", "uncounting"}
            /\ \A x \in DOMAIN Cache!After : Cache!After[x] \in {"done", "look"}
        BY DEF Cache!After
      <3>2. at[c] # "finish" /\ \E p \in {"done", "look"} : at' = [at EXCEPT ![c] = p]
        BY <1>16, <3>1 DEF Cache!PutRecord, Cache!Goto
      <3>3. {"done", "look"} \subseteq Cache!Places \ {"start", "evict", "finish"}
        BY DEF Cache!Places
      <3>4. UNCHANGED <<job, list, held, size, recent, dropped, spoiled>>
        BY <1>16 DEF Cache!PutRecord, Cache!cacheVars
      <3> QED BY <3>2, <3>3, <3>4 DEF Moves
    <2>2. arrived' = arrived /\ Records
      BY <1>0, <1>1, <1>16 DEF Records, CacheTypes, Cache!PutRecord
    <2> QED BY <1>2, <1>3, <2>1, <2>2
  <1>17. CASE Cache!contains_piece(c)
    <2>1. Moves
      BY <1>17 DEF Moves, Cache!contains_piece, Cache!Goto, Cache!Places, Cache!cacheVars
    <2>2. arrived' = arrived /\ records' = records /\ piece' = piece /\ owner' = owner
      BY <1>17 DEF Cache!contains_piece
    <2> QED BY <1>2, <1>3, <1>4, <2>1, <2>2
  <1>18. CASE Cache!delete_cache_task(c)
    <2>1. Moves
      BY <1>18 DEF Moves, Cache!delete_cache_task, Cache!Goto, Cache!Places, Cache!cacheVars
    <2>2. arrived' = arrived /\ Records
      BY <1>0, <1>1, <1>18 DEF Records, CacheTypes, Cache!delete_cache_task
    <2> QED BY <1>2, <1>3, <2>1, <2>2
  <1>19. CASE Cache!delete_pieces(c)
    <2>1. Moves
      BY <1>19 DEF Moves, Cache!delete_pieces, Cache!Goto, Cache!Places, Cache!cacheVars
    <2>2. arrived' = arrived /\ Records
      BY <1>0, <1>1, <1>19 DEF Records, CacheTypes, Cache!delete_pieces
    <2> QED BY <1>2, <1>3, <2>1, <2>2
  <1> QED BY <1>5, <1>6, <1>7, <1>8, <1>9, <1>10, <1>11, <1>12, <1>13, <1>14, <1>15, <1>16, <1>17, <1>18, <1>19

LEMMA CacheNext == CacheInv /\ Cache!Next => CacheInv'
  <1> SUFFICES ASSUME CacheInv, Cache!Next PROVE CacheInv'
    OBVIOUS
  <1>1. PICK c \in Calls : Cache!Call(c)
    BY DEF Cache!Next
  <1> QED BY <1>1, EvictStep, PutStep, WriteStep, ReadStep, DeleteStep, FinishStep, RecordSteps DEF Cache!Call

LEMMA CacheGood ==
  ASSUME CacheInv
  PROVE  Cache!TypeOK /\ Cache!UseOrder /\ Cache!HeldFits /\ Cache!FinishedWasCached /\ Cache!FinishedIsGood
  <1>0. CacheTypes /\ OrderInv /\ SizeInv /\ KeptInv /\ ComparedInv
    BY DEF CacheInv
  <1>1. Cache!Entries = Entered(held)
    BY DEF Cache!Entries, Entered
  <1>2. \A S : Cache!Cardinality(S) = Cardinality(S)
    BY Zenon DEF Cache!Cardinality, Cardinality
  <1>3. Cache!TypeOK
    <2>1. {list.head, list.tail} \subseteq Tasks \cup {None} /\ {list.prev, list.next} \subseteq [Tasks -> Tasks \cup {None}]
      BY <1>0 DEF CacheTypes, Lists, Names
    <2>2. \A t \in Cache!Entries : held[t].length \in 1 .. CacheCapacity /\ held[t].content \in Cache!Contents \cup {"none"}
      BY <1>0 DEF CacheTypes, Maps, EntryRecs, Cache!Entries, Cache!Contents
    <2>3. size \in 0 .. CacheCapacity * Cardinality(Calls)
      <3>1. Placed \in SUBSET Calls
        BY DEF Placed
      <3>2. Cardinality(Placed) \in Nat /\ Cardinality(Calls) \in Nat /\ Cardinality(Placed) <= Cardinality(Calls)
        BY <3>1, CallsCount
      <3>3. /\ CacheCapacity * Cardinality(Placed) \in Nat /\ CacheCapacity * Cardinality(Calls) \in Nat
            /\ CacheCapacity * Cardinality(Placed) <= CacheCapacity * Cardinality(Calls)
        BY <3>2, TimesCapacity
      <3> QED BY <1>0, <3>3 DEF SizeInv, CacheTypes
    <2>4. size \in 0 .. CacheCapacity * Cache!Cardinality(Calls)
      BY <1>2, <2>3
    <2> QED BY <1>0, <2>1, <2>2, <2>4 DEF CacheTypes, Cache!TypeOK, Cache!Contents
  <1>4. Cache!UseOrder
    BY <1>0, <1>1 DEF Cache!UseOrder, OrderInv, Ordered, Linked, Adjacent
  <1>5. Cache!HeldFits
    <2>1. UNION {{t} \X (1 .. held[t].length) : t \in Cache!Entries} = BytesOf(held)
      BY <1>1 DEF BytesOf
    <2> QED BY <1>0, <1>2, <2>1 DEF Cache!HeldFits, SizeInv, Fits
  <1>6. Cache!FinishedWasCached
    BY <1>0 DEF Cache!FinishedWasCached, KeptInv, Kept
  <1>7. Cache!FinishedIsGood
    BY <1>0 DEF Cache!FinishedIsGood, ComparedInv, BadContent, Compares
  <1> QED BY <1>3, <1>4, <1>5, <1>6, <1>7

-----------------------------------------------------------------------------
(* The theorems.                                                              *)

\* A step is one of a part, or leaves it alone.
LEMMA PartSteps ==
  ASSUME [MCNext]_allVars
  PROVE  /\ Next \/ UNCHANGED vars
         /\ Cache!Next \/ UNCHANGED cacheVars
         /\ Sched!Next \/ UNCHANGED schedVars
         /\ Process!Next \/ UNCHANGED processVars
         /\ Limiter!Next \/ UNCHANGED limiterVars
         /\ Exporter!Next \/ UNCHANGED exportVars
  BY Zenon DEF MCNext, allVars

LEMMA ProxyAlways == MCSpec => []ProxyInv
  <1>1. MCInit => ProxyInv
    BY ProxyInit DEF MCInit
  <1>2. ProxyInv /\ [MCNext]_allVars => ProxyInv'
    BY ProxyNext, ProxyStutter, PartSteps
  <1> QED BY <1>1, <1>2, PTL DEF MCSpec

LEMMA ExportAlways == MCSpec => []ExportInv
  <1>1. MCInit => ExportInv
    BY ExportInit DEF MCInit
  <1>2. ExportInv /\ [MCNext]_allVars => ExportInv'
    BY ExportNext, ExportStutter, PartSteps
  <1> QED BY <1>1, <1>2, PTL DEF MCSpec

\* Daemon: whatever services the process has and however many clients it serves,
\* nothing is served before both gRPC servers have bound their addresses, and a
\* process that has shut down in order has left nothing behind.
THEOREM ProcessAlwaysSafe == MCSpec => []ProcessSafe
  <1>1. MCInit => ProcessInv
    BY ProcessInit DEF MCInit
  <1>2. ProcessInv /\ [MCNext]_allVars => ProcessInv'
    BY ProcessNext, ProcessStutter, PartSteps
  <1>3. ProcessInv => ProcessSafe
    BY ProcessGood DEF ProcessSafe
  <1> QED BY <1>1, <1>2, <1>3, PTL DEF MCSpec

\* AdaptiveLimiter: for any number of calls and buckets, the calls in flight are
\* counted exactly, also when one is rejected or dropped, and the window counts every
\* call that ended once, in its ring, in its current bucket or among the overwritten.
THEOREM LimiterAlwaysExact == MCSpec => []LimiterExact
  <1>1. MCInit => LimiterInv
    BY LimiterInit DEF MCInit
  <1>2. LimiterInv /\ [MCNext]_allVars => LimiterInv'
    BY LimiterNext, LimiterStutter, PartSteps
  <1>3. LimiterInv => LimiterExact
    BY DEF LimiterExact, LimiterInv
  <1> QED BY <1>1, <1>2, <1>3, PTL DEF MCSpec

\* Schedulers: for any list of schedulers, clusters and callers, the hash ring and the
\* list agree when nobody replaces them, unless two callers replaced them at once by
\* different ones; they stay within one cluster; and every scheduler that knew a host
\* that has left was told, or could not be.
THEOREM SchedulersAlwaysSafe == MCSpec => []SchedulersSafe
  <1>1. MCInit => SchedInv
    BY SchedInit DEF MCInit
  <1>2. SchedInv /\ [MCNext]_allVars => SchedInv'
    BY SchedNext, SchedStutter, PartSteps
  <1>3. SchedInv => SchedulersSafe
    BY SchedGood DEF SchedulersSafe
  <1> QED BY <1>1, <1>2, <1>3, PTL DEF MCSpec

\* PieceCache: for any tasks, any capacity and any calls that put, write, read and
\* delete them at the same time, the linked list of the cache is in the order of the
\* last use from both ends, what is kept fits although the cache counts a task that it
\* replaces twice, a piece that is recorded as finished was kept, and the content kept
\* of it is what its digest says once those who wrote it have compared it.
THEOREM CacheAlwaysSafe == MCSpec => []CacheSafe
  <1>1. MCInit => CacheInv
    BY CacheInit DEF MCInit
  <1>2. CacheInv /\ [MCNext]_allVars => CacheInv'
    BY CacheNext, CacheStutter, PartSteps
  <1>3. CacheInv => CacheSafe
    BY CacheGood DEF CacheSafe
  <1> QED BY <1>1, <1>2, <1>3, PTL DEF MCSpec

\* Proxy, ExportClients: for any length of a response, any sizes of its buffers, any
\* files and pieces, a response that ends without an error is whole and in order,
\* nobody without credentials reaches a download or a server, and what a program
\* reports as exported is whole.
THEOREM ResponseAlwaysSafe == MCSpec => []ResponseSafe
  <1>1. ProxyInv /\ ExportInv => ResponseSafe
    BY ProxyGood, ExportGood DEF ResponseSafe
  <1> QED BY <1>1, ProxyAlways, ExportAlways, PTL
=============================================================================
