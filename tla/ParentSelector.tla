---------------------------- MODULE ParentSelector ----------------------------
(* The selector of parents (resource/parent_selector.rs): one sync_host       *)
(* stream per parent host, shared by the calls that download from it and      *)
(* counted by them, and the weights the streams keep up to date. The code has *)
(* three copies, for tasks, persistent tasks and persistent cache tasks.      *)
EXTENDS Integers, Sequences, FiniteSets

CONSTANTS
    Callers,      \* calls that download a task from parents
    Hosts,        \* hosts of parents
    Setups,       \* a copy and, for each call, the sequence of its parents' hosts
    MaxParents,   \* the most parents a call has
    None          \* no connection

VARIABLES
    selector,     \* which of the three copies
    parents,      \* call -> the hosts of its parents
    place,        \* call -> where it stands
    index,        \* call -> the parent it is at
    lock,         \* call -> the connection whose map entry it holds, or None
    connections,  \* host -> its connection, named after who made it, or None
    active,       \* connection -> active_requests
    signalled,    \* connections whose shutdown was triggered
    stream,       \* connection -> its sync_host stream
    weights,      \* hosts with a weight
    down,         \* the daemon was told to shut down
    deaf,         \* streams that subscribed to the daemon's shutdown too late
    counted,      \* call -> connections whose count it raised
    orphans,      \* connections no call will shut down any more
    missed        \* hosts that a call counts down but never counted

callVars == <<selector, parents, place, index>>
vars == <<selector, parents, place, index, lock, connections, active, signalled, stream,
          weights, down, deaf, counted, orphans, missed>>

\* A connection is named after the call that made it, the host, and the place of the
\* parent in the call's list: two parents may be on one host.
Connections == Callers \X Hosts \X (1 .. MaxParents)
At(c) == parents[c][index[c]]

\* No call holds the map entry of the host.
Unlocked(h) == \A d \in Callers : lock[d] \in Connections => lock[d][2] # h

TypeOK ==
    /\ selector \in {"task", "persistent", "persistent_cache"}
    /\ \A c \in Callers : \A i \in DOMAIN parents[c] : parents[c][i] \in Hosts
    /\ place \in [Callers -> {"register", "connect", "weight", "entry", "using", "unregister",
                              "check", "unweigh", "remove", "done"}]
    /\ \A c \in Callers : index[c] = 1 \/ index[c] \in DOMAIN parents[c]
    /\ lock \in [Callers -> Connections \cup {None}]
    /\ connections \in [Hosts -> Connections \cup {None}]
    /\ \A h \in Hosts : connections[h] # None => connections[h][2] = h
    /\ active \in [Connections -> Int]
    /\ signalled \subseteq Connections
    /\ stream \in [Connections -> {"none", "running", "ended"}]
    /\ weights \subseteq Hosts
    /\ down \in BOOLEAN
    /\ deaf \subseteq Connections
    /\ counted \in [Callers -> SUBSET Connections]
    /\ orphans \subseteq Connections
    /\ missed \subseteq Hosts

Init ==
    /\ \E u \in Setups : selector = u.selector /\ parents = u.parents
    /\ place = [c \in Callers |-> IF parents[c] = <<>> THEN "done" ELSE "register"]
    /\ index = [c \in Callers |-> 1]
    /\ lock = [c \in Callers |-> None]
    /\ connections = [h \in Hosts |-> None]
    /\ active = [k \in Connections |-> 0]
    /\ signalled = {}
    /\ stream = [k \in Connections |-> "none"]
    /\ weights = {}
    /\ down = FALSE
    /\ deaf = {}
    /\ counted = [c \in Callers |-> {}]
    /\ orphans = {}
    /\ missed = {}

Goto(c, p) == place' = [place EXCEPT ![c] = p] /\ UNCHANGED index

\* The next parent of the loop of register or unregister, or what follows it.
Advance(c, p, after) ==
    IF index[c] < Len(parents[c])
    THEN place' = [place EXCEPT ![c] = p] /\ index' = [index EXCEPT ![c] = @ + 1]
    ELSE place' = [place EXCEPT ![c] = after] /\ index' = [index EXCEPT ![c] = 1]

Increment(c, k) ==
    /\ active' = [active EXCEPT ![k] = @ + 1]
    /\ counted' = [counted EXCEPT ![c] = @ \cup {k}]

-----------------------------------------------------------------------------
(* register                                                                   *)

\* A host with a connection is only counted.
Lookup(c) ==
    /\ place[c] = "register"
    /\ IF connections[At(c)] # None
       THEN Increment(c, connections[At(c)]) /\ Advance(c, "register", "using")
       ELSE Goto(c, "connect") /\ UNCHANGED <<active, counted>>
    /\ UNCHANGED <<selector, parents, lock, connections, signalled, stream, weights, down, deaf, orphans, missed>>

\* The client of the parent is built, or the parent is skipped.
ConnectHost(c) ==
    /\ place[c] = "connect"
    /\ \/ Goto(c, "weight") /\ UNCHANGED missed
       \/ Advance(c, "register", "using") /\ missed' = missed \cup {At(c)}
    /\ UNCHANGED <<selector, parents, lock, connections, active, signalled, stream, weights, down, deaf,
                   counted, orphans>>

\* An address that is none makes register return: the streams it has spawned are
\* aborted with their join set, and the counts it raised stay.
BadAddress(c) ==
    /\ place[c] = "connect"
    /\ Goto(c, "done")
    /\ stream' = [k \in Connections |->
                    IF k[1] = c /\ stream[k] = "running" THEN "ended" ELSE stream[k]]
    /\ orphans' = orphans \cup counted[c]
    /\ UNCHANGED <<selector, parents, lock, connections, active, signalled, weights, down, deaf, counted, missed>>

InsertWeight(c) ==
    /\ place[c] = "weight"
    /\ weights' = weights \cup {At(c)}
    /\ Goto(c, "entry")
    /\ UNCHANGED <<selector, parents, lock, connections, active, signalled, stream, down, deaf, counted, orphans, missed>>

\* Mutant: the connection is put into the map without another look.
EntryBlind(c) ==
    /\ place[c] = "entry"
    /\ LET h == At(c)
           k == <<c, h, index[c]>>
       IN  /\ connections' = [connections EXCEPT ![h] = k]
           /\ Increment(c, k)
           /\ stream' = [stream EXCEPT ![k] = "running"]
           /\ deaf' = IF down THEN deaf \cup {k} ELSE deaf
    /\ Advance(c, "register", "using")
    /\ UNCHANGED <<selector, parents, lock, signalled, weights, down, orphans, missed>>

\* Another call may have connected the host since; the map decides. The stream
\* subscribes to the daemon's shutdown only now.
Entry(c) ==
    /\ place[c] = "entry"
    /\ LET h == At(c)
           k == <<c, h, index[c]>>
       IN  IF connections[h] # None
           THEN /\ Increment(c, connections[h])
                /\ UNCHANGED <<connections, stream, deaf>>
           ELSE /\ Unlocked(h)
                /\ connections' = [connections EXCEPT ![h] = k]
                /\ Increment(c, k)
                /\ stream' = [stream EXCEPT ![k] = "running"]
                /\ deaf' = IF down THEN deaf \cup {k} ELSE deaf
    /\ Advance(c, "register", "using")
    /\ UNCHANGED <<selector, parents, lock, signalled, weights, down, orphans, missed>>

register(c) == Lookup(c) \/ ConnectHost(c) \/ BadAddress(c) \/ InsertWeight(c) \/ Entry(c)

\* The round ends and the guard unregisters the parents.
RoundEnds(c) ==
    /\ place[c] = "using"
    /\ Goto(c, "unregister")
    /\ UNCHANGED <<selector, parents, lock, connections, active, signalled, stream, weights, down, deaf,
                   counted, orphans, missed>>

-----------------------------------------------------------------------------
(* unregister                                                                 *)

\* It holds the map entry while it counts down and looks at the count.
Decrement(c) ==
    /\ place[c] = "unregister"
    /\ LET k == connections[At(c)]
       IN  IF k = None
           THEN Advance(c, "unregister", "done") /\ UNCHANGED <<lock, active>>
           ELSE /\ active' = [active EXCEPT ![k] = @ - 1]
                /\ lock' = [lock EXCEPT ![c] = k]
                /\ Goto(c, "check")
    /\ UNCHANGED <<selector, parents, connections, signalled, stream, weights, down, deaf, counted, orphans, missed>>

\* At zero it shuts the connection down, then lets the entry go.
Check(c) ==
    /\ place[c] = "check"
    /\ lock' = [lock EXCEPT ![c] = None]
    /\ IF active[lock[c]] = 0
       THEN signalled' = signalled \cup {lock[c]} /\ Goto(c, "unweigh")
       ELSE Advance(c, "unregister", "done") /\ UNCHANGED signalled
    /\ UNCHANGED <<selector, parents, connections, active, stream, weights, down, deaf, counted, orphans, missed>>

RemoveWeight(c) ==
    /\ place[c] = "unweigh"
    /\ weights' = weights \ {At(c)}
    /\ Goto(c, "remove")
    /\ UNCHANGED <<selector, parents, lock, connections, active, signalled, stream, down, deaf, counted, orphans, missed>>

\* It removes whatever connection the host has by now: one that a later call
\* made since is left without anybody who would shut it down.
RemoveConnection(c) ==
    /\ place[c] = "remove"
    /\ LET h == At(c)
       IN  /\ Unlocked(h)
           /\ connections' = [connections EXCEPT ![h] = None]
           /\ orphans' = orphans \cup ({connections[h]} \ (signalled \cup {None}))
           /\ missed' = missed \cup {g \in {h} : \E k \in {connections[h]} \ {None} : active[k] > 0}
    /\ Advance(c, "unregister", "done")
    /\ UNCHANGED <<selector, parents, lock, active, signalled, stream, weights, down, deaf, counted>>

unregister(c) == Decrement(c) \/ Check(c) \/ RemoveWeight(c) \/ RemoveConnection(c)

-----------------------------------------------------------------------------
(* The sync_host stream of connection k, and the daemon's shutdown.           *)

Running(k) == stream[k] = "running"

End(k) == stream' = [stream EXCEPT ![k] = "ended"]

\* A message of the parent sets the weight, also after unregister removed it.
HostReports(k) ==
    /\ Running(k)
    /\ weights' = weights \cup {k[2]}
    /\ UNCHANGED <<selector, parents, place, index, lock, connections, active, signalled, stream, down, deaf,
                   counted, orphans, missed>>

\* The call is refused, or the stream ends or breaks.
HostLeaves(k) ==
    /\ Running(k)
    /\ End(k)
    /\ UNCHANGED <<callVars, lock, connections, active, signalled, weights, down, deaf, counted, orphans, missed>>

StreamStops(k) ==
    /\ Running(k)
    /\ k \in signalled \/ (down /\ k \notin deaf)
    /\ End(k)
    /\ UNCHANGED <<callVars, lock, connections, active, signalled, weights, down, deaf, counted, orphans, missed>>

sync_host(k) == HostReports(k) \/ HostLeaves(k) \/ StreamStops(k)

ShutDown ==
    /\ ~down
    /\ down' = TRUE
    /\ UNCHANGED <<callVars, lock, connections, active, signalled, stream, weights, deaf, counted, orphans, missed>>

Caller(c) == register(c) \/ RoundEnds(c) \/ unregister(c)

Register == \E c \in Callers : Caller(c)
SyncHost == \E k \in Connections : sync_host(k)

\* The three copies.
ParentSelectorStep == selector = "task" /\ (Register \/ SyncHost)
PersistentRegister == selector = "persistent" /\ Register
PersistentSyncHost == selector = "persistent" /\ SyncHost
PersistentCacheRegister == selector = "persistent_cache" /\ Register
PersistentCacheSyncHost == selector = "persistent_cache" /\ SyncHost

Next ==
    \/ ParentSelectorStep
    \/ PersistentRegister
    \/ PersistentSyncHost
    \/ PersistentCacheRegister
    \/ PersistentCacheSyncHost
    \/ ShutDown

Spec == Init /\ [][Next]_vars

-----------------------------------------------------------------------------

\* When the last call has unregistered, the sync_host streams of its parents must end,
\* although calls share, create and remove the connections at the same time; and the
\* shutdown of the daemon must end the streams that were open, used or not. Excepted
\* are the connections that a late removal or a bad address left to nobody, the hosts
\* a call counts down although it counted none of their connections, or only one that
\* is gone, and the streams that subscribed to the shutdown too late.
StreamsEnded ==
    \A k \in Connections : Running(k) =>
        /\ (\A c \in Callers : place[c] = "done") => k \in orphans \/ k[2] \in missed
        /\ down => k \in deaf

\* At most one stream per host runs that nobody has told to stop, however many
\* calls found the host unconnected at once.
OneLiveStream ==
    \A h \in Hosts :
        Cardinality({k \in Connections : /\ k[2] = h
                                         /\ Running(k)
                                         /\ k \notin signalled \cup orphans}) <= 1

=============================================================================
