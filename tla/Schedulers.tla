------------------------------ MODULE Schedulers ------------------------------
(* How the daemon finds its schedulers: the dynamic configuration asks the    *)
(* manager or a file and checks who is healthy (dynconfig/), the scheduler    *)
(* client follows it with its list, its hash ring and its channels before     *)
(* every call (grpc/scheduler.rs), and the announcer tells every scheduler    *)
(* that the host is there (announcer/mod.rs).                                 *)
EXTENDS Integers, Sequences, FiniteSets, SequencesExt

CONSTANTS
    Listing,      \* the schedulers, in the order in which they are listed
    Cluster,      \* scheduler -> its cluster
    Callers,      \* calls that go to the scheduler of a task
    Announcer,    \* the announcer
    MaxRefreshes, \* bound on the refreshes that find something new
    Nobody        \* no scheduler

Servers == ToSet(Listing)
Updaters == Callers \cup {Announcer}

VARIABLES
    backend,      \* "remote": the manager is asked; "local": a file is read
    refreshes,    \* how many refreshes have found something new
    data,         \* the available schedulers of the dynamic configuration
    schedulers,   \* the client's copy of data,
    addrs,        \* its addresses,
    ring,         \* its hash ring and
    channels,     \* its channels
    at,           \* caller -> where it stands
    copy,         \* caller -> the data that it read
    target,       \* caller -> the scheduler of its call
    updating,     \* callers that replace the list of the client
    mixed,        \* two callers replaced it at once by different ones, or one was cut off
    down,         \* the shutdown was triggered
    todo,         \* schedulers that the announcer has not told
    knows,        \* schedulers that know the host
    leaving,      \* it tells them that the host leaves
    missed        \* schedulers that it could not tell so

dynVars == <<backend, refreshes, data>>
clientVars == <<schedulers, addrs, ring, channels, updating, mixed>>
announceVars == <<down, todo, knows, leaving, missed>>
vars == <<dynVars, clientVars, at, copy, target, announceVars>>

\* Every list keeps the order of the listing: it is given by the set of its members.
Lists == SUBSET Servers

TypeOK ==
    /\ backend \in {"remote", "local"}
    /\ refreshes \in 0 .. MaxRefreshes
    /\ {data, schedulers, addrs} \subseteq Lists
    /\ ring \cup channels \subseteq Servers
    /\ at \in [Updaters -> {"idle", "read", "compare", "channels", "schedulers", "addrs", "ring", "pick",
                            "channel", "insert", "call", "ended"}]
    /\ copy \in [Updaters -> Lists]
    /\ target \in [Updaters -> Servers \cup {Nobody}]
    /\ updating \subseteq Updaters
    /\ mixed \in BOOLEAN
    /\ down \in BOOLEAN
    /\ leaving \in BOOLEAN
    /\ todo \cup knows \cup missed \subseteq Servers

\* The healthy schedulers of the file.
local_get_available_schedulers(healthy) == {s \in Servers : s \in healthy}

\* Mutant: the healthy schedulers of every cluster are available.
AvailableEverywhere(healthy) == {s \in Servers : s \in healthy}

\* The healthy schedulers of the manager that are of the cluster of the first of them.
remote_get_available_schedulers(healthy) ==
    LET first == Listing[Min({i \in DOMAIN Listing : Listing[i] \in healthy})]
    IN  {s \in Servers : s \in healthy /\ Cluster[s] = Cluster[first]}

\* The daemon has started: a first refresh and a first announcement have succeeded.
Init ==
    /\ \/ backend = "remote" /\ data = remote_get_available_schedulers(Servers)
       \/ backend = "local" /\ data = local_get_available_schedulers(Servers)
    /\ refreshes = 0
    /\ schedulers = data
    /\ addrs = data
    /\ ring = data
    /\ channels = data
    /\ at = [c \in Updaters |-> "idle"]
    /\ copy = [c \in Updaters |-> {}]
    /\ target = [c \in Updaters |-> Nobody]
    /\ updating = {}
    /\ mixed = FALSE
    /\ down = FALSE
    /\ todo = {}
    /\ knows = data
    /\ leaving = FALSE
    /\ missed = {}

-----------------------------------------------------------------------------
(* The dynamic configuration.                                                 *)

\* One refresh runs at a time; the data is replaced by what it found.
refresh(available) ==
    /\ refreshes < MaxRefreshes
    /\ refreshes' = refreshes + 1
    /\ available # data
    /\ data' = available
    /\ UNCHANGED <<backend, clientVars, at, copy, target, announceVars>>

\* The schedulers are asked for and their health is checked; a refresh that fails, or
\* finds nobody available, changes nothing.
remote_refresh ==
    /\ backend = "remote"
    /\ \E healthy \in (SUBSET Servers) \ {{}} : refresh(remote_get_available_schedulers(healthy))

local_refresh ==
    /\ backend = "local"
    /\ \E healthy \in (SUBSET Servers) \ {{}} : refresh(local_get_available_schedulers(healthy))

-----------------------------------------------------------------------------
(* The scheduler client: update_available_scheduler_addrs, in the steps in    *)
(* which it takes and lets go of its locks.                                   *)

Goto(c, p) == at' = [at EXCEPT ![c] = p]

ReadData(c) ==
    /\ at[c] = "read"
    /\ copy' = [copy EXCEPT ![c] = data]
    /\ Goto(c, "compare")
    /\ UNCHANGED <<dynVars, clientVars, target, announceVars>>

\* Without a change, the list of the client is used as it is.
Compare(c) ==
    /\ at[c] = "compare"
    /\ IF copy[c] = schedulers
       THEN /\ Goto(c, "pick")
            /\ copy' = [copy EXCEPT ![c] = {}]
            /\ UNCHANGED <<updating, mixed>>
       ELSE /\ Goto(c, "channels")
            /\ UNCHANGED copy
            /\ updating' = updating \cup {c}
            /\ mixed' = (mixed \/ \E d \in updating : copy[d] # copy[c])
    /\ UNCHANGED <<dynVars, schedulers, addrs, ring, channels, target, announceVars>>

RetainChannels(c) ==
    /\ at[c] = "channels"
    /\ channels' = channels \cap copy[c]
    /\ Goto(c, "schedulers")
    /\ UNCHANGED <<dynVars, schedulers, addrs, ring, updating, mixed, copy, target, announceVars>>

ReplaceSchedulers(c) ==
    /\ at[c] = "schedulers"
    /\ schedulers' = copy[c]
    /\ Goto(c, "addrs")
    /\ UNCHANGED <<dynVars, addrs, ring, channels, updating, mixed, copy, target, announceVars>>

ReplaceAddrs(c) ==
    /\ at[c] = "addrs"
    /\ addrs' = copy[c]
    /\ Goto(c, "ring")
    /\ UNCHANGED <<dynVars, schedulers, ring, channels, updating, mixed, copy, target, announceVars>>

\* Mutant: the new schedulers are added to the old ring.
RingGrows(c) ==
    /\ at[c] = "ring"
    /\ ring' = ring \cup copy[c]
    /\ updating' = updating \ {c}
    /\ copy' = [copy EXCEPT ![c] = {}]
    /\ Goto(c, "pick")
    /\ UNCHANGED <<dynVars, schedulers, addrs, channels, mixed, target, announceVars>>

ReplaceRing(c) ==
    /\ at[c] = "ring"
    /\ ring' = copy[c]
    /\ updating' = updating \ {c}
    /\ copy' = [copy EXCEPT ![c] = {}]
    /\ Goto(c, "pick")
    /\ UNCHANGED <<dynVars, schedulers, addrs, channels, mixed, target, announceVars>>

update_available_scheduler_addrs(c) ==
    \/ ReadData(c) \/ Compare(c)
    \/ RetainChannels(c) \/ ReplaceSchedulers(c) \/ ReplaceAddrs(c) \/ ReplaceRing(c)

-----------------------------------------------------------------------------
(* A call to the scheduler of a task.                                         *)

\* Every call finds its client first.
CallBegins(c) ==
    /\ c \in Callers
    /\ at[c] = "idle"
    /\ Goto(c, "read")
    /\ UNCHANGED <<dynVars, clientVars, copy, target, announceVars>>

\* announce_peer, stat_peer, delete_peer, stat_task, delete_task; and the calls of the
\* persistent and of the persistent cache tasks.
peer_call(c) == CallBegins(c)
persistent_peer_call(c) == CallBegins(c)
persistent_cache_peer_call(c) == CallBegins(c)

\* The ring maps the task to a scheduler.
client(c) ==
    /\ c \in Callers
    /\ at[c] = "pick"
    /\ \E s \in ring : target' = [target EXCEPT ![c] = s]
    /\ Goto(c, "channel")
    /\ UNCHANGED <<dynVars, clientVars, copy, announceVars>>

\* A channel is looked up, or made and kept; it connects when it is used.
channel(c) ==
    /\ \/ at[c] = "channel" /\ Goto(c, IF target[c] \in channels THEN "call" ELSE "insert") /\ UNCHANGED channels
       \/ at[c] = "insert" /\ Goto(c, "call") /\ channels' = channels \cup {target[c]}
    /\ UNCHANGED <<dynVars, schedulers, addrs, ring, updating, mixed, copy, target, announceVars>>

CallEnds(c) ==
    /\ c \in Callers
    /\ at[c] = "call"
    /\ Goto(c, "idle")
    /\ target' = [target EXCEPT ![c] = Nobody]
    /\ UNCHANGED <<dynVars, clientVars, copy, announceVars>>

\* The handler that made the call is cancelled: the call ends where it awaits, which may
\* be between two of the locks.
CallDropped(c) ==
    /\ c \in Callers
    /\ at[c] # "idle"
    /\ Goto(c, "idle")
    /\ copy' = [copy EXCEPT ![c] = {}]
    /\ target' = [target EXCEPT ![c] = Nobody]
    /\ updating' = updating \ {c}
    /\ mixed' = (mixed \/ at[c] \in {"addrs", "ring"})
    /\ UNCHANGED <<dynVars, schedulers, addrs, ring, channels, announceVars>>

Caller(c) == update_available_scheduler_addrs(c) \/ client(c) \/ channel(c) \/ CallEnds(c)

-----------------------------------------------------------------------------
(* The announcer.                                                             *)

ShutDown ==
    /\ ~down
    /\ down' = TRUE
    /\ UNCHANGED <<dynVars, clientVars, at, copy, target, todo, knows, leaving, missed>>

\* Mutant: the announcer ends without a word.
LeavesQuietly ==
    /\ at[Announcer] = "idle"
    /\ down
    /\ Goto(Announcer, "ended")
    /\ UNCHANGED <<dynVars, clientVars, copy, target, announceVars>>

\* An interval is over, or it was told to stop: the client is updated first.
announce_host ==
    /\ at[Announcer] = "idle"
    /\ Goto(Announcer, "read")
    /\ UNCHANGED <<dynVars, clientVars, copy, target, announceVars>>

delete_host ==
    /\ at[Announcer] = "idle"
    /\ down
    /\ Goto(Announcer, "read")
    /\ leaving' = TRUE
    /\ UNCHANGED <<dynVars, clientVars, copy, target, down, todo, knows, missed>>

\* One call for each address that the client has now. A scheduler that is not among
\* them any more is not told.
AnnounceAll ==
    /\ at[Announcer] = "pick"
    /\ Goto(Announcer, "call")
    /\ todo' = addrs
    /\ missed' = IF leaving THEN Servers \ addrs ELSE {}
    /\ UNCHANGED <<dynVars, clientVars, copy, target, down, knows, leaving>>

\* The calls go out at once and are answered, or fail, in any order.
AnnounceTo(s) ==
    /\ at[Announcer] = "call"
    /\ s \in todo
    /\ todo' = todo \ {s}
    /\ channels' = channels \cup {s}
    /\ \/ /\ knows' = IF leaving THEN knows \ {s} ELSE knows \cup {s}
          /\ UNCHANGED missed
       \/ /\ missed' = IF leaving THEN missed \cup {s} ELSE missed
          /\ UNCHANGED knows
    /\ UNCHANGED <<dynVars, schedulers, addrs, ring, updating, mixed, at, copy, target, down, leaving>>

AnnounceEnds ==
    /\ at[Announcer] = "call"
    /\ todo = {}
    /\ Goto(Announcer, IF leaving THEN "ended" ELSE "idle")
    /\ UNCHANGED <<dynVars, clientVars, copy, target, announceVars>>

Announce ==
    \/ delete_host
    \/ update_available_scheduler_addrs(Announcer)
    \/ AnnounceAll \/ (\E s \in Servers : AnnounceTo(s)) \/ AnnounceEnds

Next ==
    \/ remote_refresh \/ local_refresh
    \/ \E c \in Callers : peer_call(c) \/ persistent_peer_call(c) \/ persistent_cache_peer_call(c)
    \/ \E c \in Callers : Caller(c) \/ CallDropped(c)
    \/ ShutDown
    \/ announce_host \/ Announce

Spec == Init /\ [][Next]_vars

-----------------------------------------------------------------------------

\* When no call replaces the list, list, addresses and ring of the client agree: a
\* later call would take them for up to date. It holds unless calls that had read
\* different lists replaced them at once, or a call was dropped after it had replaced
\* the list and before it came to the ring.
RingFollows ==
    updating = {} /\ ~mixed => addrs = schedulers /\ ring = schedulers

\* With a manager, the tasks of the daemon are shared out among the schedulers of one
\* cluster, also while their health changes.
OneCluster ==
    backend = "remote" => \A s, t \in ring \cup addrs : mixed \/ updating # {} \/ Cluster[s] = Cluster[t]

\* When the announcer has ended, no scheduler knows the host but those that could not
\* be told, or were not available any more.
HostLeft == at[Announcer] = "ended" => knows \subseteq missed

\* The announcer must end after the shutdown.
AnnouncerEnded == down => at[Announcer] = "ended"

=============================================================================
