-------------------------------- MODULE Daemon --------------------------------
(* The process of the daemon (bin/dfdaemon/main.rs): its start, its services, *)
(* and the shutdown, which every service hears through its own subscription   *)
(* (util shutdown) and whose end the process awaits: it ends when nothing     *)
(* holds a sender of the completion channel any more.                         *)
EXTENDS Integers, FiniteSets

CONSTANTS
    Setups,       \* sets of services that run together, by their names below
    MaxClients    \* bound on the clients of a server at a time

Services == UNION Setups
Gated == {"upload", "download", "proxy"}
Subscribed == {"tcp", "quic", "urma"}

VARIABLES
    running,      \* the services that are part of the process
    process,      \* what the main task does
    place,        \* service -> where it stands
    down,         \* the shutdown was triggered
    deaf,         \* services that subscribed too late to hear it
    arrived,      \* services that wait or have waited at the barrier
    clients,      \* service -> its open connections or calls
    announced,    \* the schedulers know the host
    undeleted     \* the schedulers could not be told that the host leaves

vars == <<running, process, place, down, deaf, arrived, clients, announced, undeleted>>

Places == {"none", "spawned", "subscribed", "barrier", "bind", "serving", "leaving", "ended", "broken"}

TypeOK ==
    /\ running \in Setups
    /\ process \in {"storage", "dynconfig", "scheduler_client", "announcer", "spawn", "select", "waiting",
                    "exited", "failed"}
    /\ place \in [Services -> Places]
    /\ down \in BOOLEAN
    /\ deaf \subseteq Services \ Subscribed
    /\ arrived \subseteq Gated
    /\ clients \in [Gated -> 0 .. MaxClients]
    /\ announced \in BOOLEAN
    /\ undeleted \in BOOLEAN

Init ==
    /\ running \in Setups
    /\ process = "storage"
    /\ place = [s \in Services |-> "none"]
    /\ down = FALSE
    /\ deaf = {}
    /\ arrived = {}
    /\ clients = [s \in Gated |-> 0]
    /\ announced = FALSE
    /\ undeleted = FALSE

Goto(s, p) == place' = [place EXCEPT ![s] = p]
Alive == process \notin {"exited", "failed"}

-----------------------------------------------------------------------------
(* The start.                                                                 *)

\* A step of the start succeeds, or the process ends with its error.
Boot(from, to) ==
    /\ process = from
    /\ process' \in {to, "failed"}
    /\ UNCHANGED <<running, place, down, deaf, arrived, clients, undeleted>>

NewStorage == Boot("storage", "dynconfig") /\ UNCHANGED announced
NewDynconfig == Boot("dynconfig", "scheduler_client") /\ UNCHANGED announced
NewSchedulerClient == Boot("scheduler_client", "announcer") /\ UNCHANGED announced

\* The tasks, the servers and the proxy are made; then the host is announced to every
\* scheduler, of which some may have heard when one fails.
NewAnnouncer ==
    /\ Boot("announcer", "spawn")
    /\ announced' \in IF process' = "failed" THEN BOOLEAN ELSE {TRUE}

Spawn ==
    /\ process = "spawn"
    /\ process' = "select"
    /\ place' = [s \in Services |-> IF s \notin running THEN "none" ELSE IF s \in Subscribed THEN "bind" ELSE "spawned"]
    /\ UNCHANGED <<running, down, deaf, arrived, clients, announced, undeleted>>

-----------------------------------------------------------------------------
(* What the services have in common.                                          *)

\* Its first poll clones the shutdown: it hears only what is triggered from now on.
Subscribes(s, next) ==
    /\ place[s] = "spawned"
    /\ Goto(s, next)
    /\ deaf' = IF down THEN deaf \cup {s} ELSE deaf
    /\ UNCHANGED <<running, process, down, arrived, clients, announced, undeleted>>

\* It binds its address, or breaks.
Binds(s, next) ==
    /\ place[s] = "bind"
    /\ Goto(s, next) \/ Goto(s, "broken")
    /\ UNCHANGED <<running, process, down, deaf, arrived, clients, announced, undeleted>>

Hears(s) == down /\ s \notin deaf

Stops(s, from) ==
    /\ place[s] \in from
    /\ Hears(s)
    /\ Goto(s, "ended")
    /\ UNCHANGED <<running, process, down, deaf, arrived, clients, announced, undeleted>>

\* It cannot accept connections any more, and breaks.
AcceptFails(s) ==
    /\ place[s] = "serving"
    /\ Goto(s, "broken")
    /\ UNCHANGED <<running, process, down, deaf, arrived, clients, announced, undeleted>>

Server(s) == Subscribes(s, "bind") \/ Binds(s, "serving") \/ Stops(s, {"serving"})
Worker(s) == Subscribes(s, "serving") \/ Stops(s, {"serving"})

\* Mutant: two of the three pass the barrier.
WaitsForOne(s, next) ==
    /\ place[s] = "barrier"
    /\ arrived' = arrived \cup {s}
    /\ IF Cardinality(arrived') >= 2 THEN Goto(s, next) ELSE UNCHANGED place
    /\ UNCHANGED <<running, process, down, deaf, clients, announced, undeleted>>

\* It arrives at the barrier, and passes it when all three have arrived.
BarrierWait(s, next) ==
    /\ place[s] = "barrier"
    /\ arrived' = arrived \cup {s}
    /\ IF arrived' = Gated THEN Goto(s, next) ELSE UNCHANGED place
    /\ UNCHANGED <<running, process, down, deaf, clients, announced, undeleted>>

\* A client comes and goes as it likes.
ClientComes(s) ==
    /\ place[s] \in (IF s = "proxy" THEN {"serving"} ELSE {"barrier", "serving"})
    /\ clients[s] < MaxClients
    /\ clients' = [clients EXCEPT ![s] = @ + 1]
    /\ UNCHANGED <<running, process, place, down, deaf, arrived, announced, undeleted>>

ClientGoes(s) ==
    /\ clients[s] > 0
    /\ clients' = [clients EXCEPT ![s] = @ - 1]
    /\ UNCHANGED <<running, process, place, down, deaf, arrived, announced, undeleted>>

\* A gRPC server that heard the shutdown ends when its calls have ended.
GrpcEnds(s) ==
    /\ place[s] = "leaving"
    /\ clients[s] = 0
    /\ Goto(s, "ended")
    /\ UNCHANGED <<running, process, down, deaf, arrived, clients, announced, undeleted>>

GrpcLeaves(s) ==
    /\ place[s] \in {"barrier", "serving"}
    /\ Hears(s)
    /\ Goto(s, "leaving")
    /\ UNCHANGED <<running, process, down, deaf, arrived, clients, announced, undeleted>>

Grpc(s) ==
    \/ Subscribes(s, "bind") \/ Binds(s, "barrier") \/ BarrierWait(s, "serving")
    \/ GrpcLeaves(s) \/ GrpcEnds(s)

-----------------------------------------------------------------------------
(* The services.                                                              *)

health_run == Server("health")
stats_run == Server("stats")
metrics_run == Server("metrics")
dynconfig_run == Worker("dynconfig")
gc_run == Worker("gc")

\* The storage servers subscribed when they were made.
tcp_run == (Binds("tcp", "serving") \/ Stops("tcp", {"serving"}))
quic_run == (Binds("quic", "serving") \/ Stops("quic", {"serving"}))

\* A failed URMA server waits for the shutdown: the process goes on without it.
urma_run == Binds("urma", "serving") \/ AcceptFails("urma") \/ Stops("urma", {"serving", "broken"})

upload_run == Grpc("upload")
download_run == Grpc("download")

\* The proxy binds after the barrier. It leaves its connections behind.
proxy_run ==
    \/ Subscribes("proxy", "barrier") \/ BarrierWait("proxy", "bind") \/ Binds("proxy", "serving")
    \/ AcceptFails("proxy") \/ Stops("proxy", {"barrier", "serving"})

\* The announcer tells the schedulers that the host leaves, before it ends.
announcer_run ==
    \/ Subscribes("announcer", "serving")
    \/ /\ place["announcer"] = "serving"
       /\ Hears("announcer")
       /\ Goto("announcer", "ended")
       /\ \/ announced' = FALSE /\ UNCHANGED undeleted
          \/ undeleted' = TRUE /\ UNCHANGED announced
       /\ UNCHANGED <<running, process, down, deaf, arrived, clients>>

Run ==
    \/ health_run \/ stats_run \/ metrics_run \/ dynconfig_run \/ gc_run
    \/ tcp_run \/ quic_run \/ urma_run
    \/ upload_run \/ download_run \/ proxy_run \/ announcer_run

-----------------------------------------------------------------------------
(* The end.                                                                   *)

\* A signal arrives: the shutdown is triggered.
ShutdownSignal ==
    /\ process = "select"
    /\ process' = "waiting"
    /\ down' = TRUE
    /\ UNCHANGED <<running, place, deaf, arrived, clients, announced, undeleted>>

\* A service that broke makes the process return its error, without a shutdown.
ServiceFailed ==
    /\ process = "select"
    /\ \E s \in running \ {"urma"} : place[s] = "broken"
    /\ process' = "failed"
    /\ UNCHANGED <<running, place, down, deaf, arrived, clients, announced, undeleted>>

\* Mutant: the announcer holds no sender of the completion channel.
ExitsWithoutAnnouncer ==
    /\ process = "waiting"
    /\ \A s \in running \ {"announcer"} : place[s] = "ended" \/ (place[s] = "broken" /\ s # "urma")
    /\ \A s \in Gated : clients[s] = 0
    /\ process' = "exited"
    /\ UNCHANGED <<running, place, down, deaf, arrived, clients, announced, undeleted>>

\* Nothing holds a sender: the services are gone, and the connections of the proxy,
\* which share the task and the dynamic configuration.
Exit ==
    /\ process = "waiting"
    /\ \A s \in running : place[s] = "ended" \/ (place[s] = "broken" /\ s # "urma")
    /\ \A s \in Gated : clients[s] = 0
    /\ process' = "exited"
    /\ UNCHANGED <<running, place, down, deaf, arrived, clients, announced, undeleted>>

Main ==
    \/ NewStorage \/ NewDynconfig \/ NewSchedulerClient \/ NewAnnouncer \/ Spawn
    \/ ServiceFailed \/ Exit

Clients == \E s \in Gated : ClientComes(s) \/ ClientGoes(s)

Next ==
    \/ Main
    \/ ShutdownSignal
    \/ Alive /\ Run
    \/ Alive /\ Clients

Spec == Init /\ [][Next]_vars

-----------------------------------------------------------------------------

\* A process that has shut down in order has left no trace: the schedulers that were
\* told of the host were told that it leaves, or could not be.
OrderlyExit == process = "exited" /\ announced => undeleted \/ "announcer" \notin running

\* The proxy takes requests, and a gRPC server says that it is serving, only when both
\* gRPC servers have bound their addresses.
ServingTogether ==
    (\E s \in Gated : place[s] = "serving") =>
        \A s \in Gated \ {"proxy"} : place[s] \notin {"none", "spawned", "bind", "broken"}

\* Once the shutdown is triggered the process must exit, unless a service subscribed
\* too late, or a client stays connected.
ShutdownCompletes ==
    down => process \in {"exited", "failed"} \/ deaf # {} \/ (\E s \in Gated : clients[s] > 0)

=============================================================================
