------------------------------ MODULE PieceCache ------------------------------
(* Cache tasks (storage/src/lib.rs): their pieces are kept in memory, in a    *)
(* least-recently-used map of tasks (cache/mod.rs, cache/lru_cache.rs), while *)
(* the records of task and pieces are kept by the metadata store. A piece is  *)
(* claimed and waited for as in PieceLifecycle, by the copy of that code for  *)
(* cache pieces. The daemon does not serve cache tasks yet: a call stands for *)
(* what the storage offers, used the way the other kinds of task use it.      *)
EXTENDS Integers, FiniteSets

CONSTANTS
    Tasks,        \* cache tasks; each has one piece
    Calls,        \* calls of the storage
    Jobs,         \* assignments of a job to every call
    Capacity,     \* capacity of the cache
    Nil           \* no task, no call

VARIABLES
    job,          \* call -> its kind, its task and the length it says the task has
    list,         \* the doubly linked list of the map: head, tail, prev and next
    held,         \* task -> its entry in the map, [length, content], or Nil
    size,         \* the size that the cache believes it has
    records,      \* tasks with a record
    piece,        \* task -> the record of its piece: "none", "started", "finished"
    owner,        \* task -> the call that has claimed its piece, or Nil
    at,           \* call -> where it stands
    recent,       \* pairs of entries: the first was used after the second
    arrived,      \* call -> the content it has received
    dropped,      \* tasks whose piece left the cache with their entry
    spoiled       \* tasks whose piece was refused, or never compared with a digest

cacheVars == <<list, held, size, recent, dropped, spoiled>>
vars == <<job, cacheVars, records, piece, owner, at, arrived>>

Entries == {t \in Tasks : held[t] # Nil}
Contents == {"good", "bad"}
Cached(t, h) == h[t] # Nil /\ h[t].content # "none"

Places == {"start", "evict", "record", "begin", "wait", "timeout", "forget", "claim", "own", "fetch", "write", "finish",
           "fail", "erase", "release", "close", "closing", "count", "counting", "look", "read", "uncount", "uncounting",
           "delete", "delete_pieces", "delete_content", "done"}

TypeOK ==
    /\ job \in Jobs
    /\ {list.head, list.tail} \subseteq Tasks \cup {Nil}
    /\ {list.prev, list.next} \subseteq [Tasks -> Tasks \cup {Nil}]
    /\ \A t \in Entries : held[t].length \in 1 .. Capacity /\ held[t].content \in Contents \cup {"none"}
    /\ size \in 0 .. Capacity * Cardinality(Calls)
    /\ records \subseteq Tasks
    /\ piece \in [Tasks -> {"none", "started", "finished"}]
    /\ owner \in [Tasks -> Calls \cup {Nil}]
    /\ at \in [Calls -> Places]
    /\ arrived \in [Calls -> Contents]
    /\ dropped \cup spoiled \subseteq Tasks

First == [download |-> "start", upload |-> "begin", delete |-> "delete"]

Init ==
    /\ job \in Jobs
    /\ list = [head |-> Nil, tail |-> Nil, prev |-> [t \in Tasks |-> Nil], next |-> [t \in Tasks |-> Nil]]
    /\ held = [t \in Tasks |-> Nil]
    /\ size = 0
    /\ records = {}
    /\ piece = [t \in Tasks |-> "none"]
    /\ owner = [t \in Tasks |-> Nil]
    /\ at = [c \in Calls |-> First[job[c].kind]]
    /\ recent = {}
    /\ arrived = [c \in Calls |-> "good"]
    /\ dropped = {}
    /\ spoiled = {}

Goto(c, p) == at' = [at EXCEPT ![c] = p]

-----------------------------------------------------------------------------
(* The list of the map.                                                       *)

detach(l, t) ==
    LET p == l.prev[t]
        n == l.next[t]
    IN  [head |-> IF p = Nil THEN n ELSE l.head,
         tail |-> IF n = Nil THEN p ELSE l.tail,
         prev |-> [u \in Tasks |-> IF u = n THEN p ELSE IF u = t THEN Nil ELSE l.prev[u]],
         next |-> [u \in Tasks |-> IF u = p THEN n ELSE IF u = t THEN Nil ELSE l.next[u]]]

\* Mutant: the entry that was the first does not learn what comes before it.
AttachOneWay(l, t) ==
    IF l.head = Nil
    THEN [l EXCEPT !.head = t, !.tail = t]
    ELSE [l EXCEPT !.head = t, !.next[t] = l.head]

attach(l, t) ==
    IF l.head = Nil
    THEN [l EXCEPT !.head = t, !.tail = t]
    ELSE [l EXCEPT !.head = t, !.next[t] = l.head, !.prev[l.head] = t]

\* The map and its list after an entry was used, and after the last one was popped.
get(l, t) == attach(detach(l, t), t)

put(s, t, e) ==
    [s EXCEPT !.list = IF s.held[t] # Nil THEN get(s.list, t) ELSE attach(s.list, t),
              !.held[t] = e]

pop(s, t) == [s EXCEPT !.list = detach(s.list, t), !.held[t] = Nil, !.size = @ - s.held[t].length]

pop_lru(s) == pop(s, s.list.tail)

State == [list |-> list, held |-> held, size |-> size]

\* The cache becomes s; t, if any, was used.
Becomes(s, t) ==
    /\ list' = s.list
    /\ held' = s.held
    /\ size' = s.size
    /\ recent' = {p \in Tasks \X Tasks : /\ s.held[p[1]] # Nil /\ s.held[p[2]] # Nil
                                         /\ p[2] # t /\ (p[1] = t \/ p \in recent)}
    /\ dropped' = {u \in Tasks : ~Cached(u, s.held) /\ (u \in dropped \/ Cached(u, held))}
    /\ spoiled' = {u \in spoiled : Cached(u, s.held)}

-----------------------------------------------------------------------------
(* download_cache_task_started                                                *)

\* A call that evicts holds the write lock; who needs the map waits for it.
Unlocked(c) == \A d \in Calls \ {c} : at[d] # "evict"

\* A task without content, or with more than fits, is not kept.
SkipTask(c) ==
    /\ at[c] = "start"
    /\ job[c].length = 0 \/ job[c].length > Capacity
    /\ Goto(c, "record")
    /\ UNCHANGED <<job, cacheVars, records, piece, owner, arrived>>

Puts(c) == at[c] \in {"start", "evict"} /\ Unlocked(c) /\ job[c].length \in 1 .. Capacity

\* Entries are evicted until there is room, or there are none.
EvictTask(c) ==
    /\ Puts(c)
    /\ size + job[c].length > Capacity
    /\ list.tail # Nil
    /\ Becomes(pop_lru(State), Nil)
    /\ Goto(c, "evict")
    /\ UNCHANGED <<job, records, piece, owner, arrived>>

\* Mutant: one entry is evicted, however much room is needed.
PutAfterOne(c) ==
    /\ Puts(c)
    /\ at[c] = "evict" \/ size + job[c].length <= Capacity \/ list.tail = Nil
    /\ LET s == put(State, job[c].task, [length |-> job[c].length, content |-> "none"])
       IN  Becomes([s EXCEPT !.size = @ + job[c].length], job[c].task)
    /\ Goto(c, "record")
    /\ UNCHANGED <<job, records, piece, owner, arrived>>

\* The entry of a task that is there is replaced, and its length is counted once more.
put_task(c) ==
    /\ Puts(c)
    /\ size + job[c].length <= Capacity \/ list.tail = Nil
    /\ LET s == put(State, job[c].task, [length |-> job[c].length, content |-> "none"])
       IN  Becomes([s EXCEPT !.size = @ + job[c].length], job[c].task)
    /\ Goto(c, "record")
    /\ UNCHANGED <<job, records, piece, owner, arrived>>

download_cache_task_started(c) ==
    /\ at[c] = "record"
    /\ records' = records \cup {job[c].task}
    /\ Goto(c, "begin")
    /\ UNCHANGED <<job, cacheVars, piece, owner, arrived>>

-----------------------------------------------------------------------------
(* Waiting for a piece and claiming it.                                       *)

\* What a call does with a finished piece, and with one that is not there.
Found(c) == Goto(c, IF job[c].kind = "upload" THEN "count" ELSE "close")
Missing(c) == Goto(c, IF job[c].kind = "upload" THEN "done" ELSE "claim")

WaitBegins(c) ==
    /\ at[c] = "begin"
    /\ \/ piece[job[c].task] = "finished" /\ Found(c)
       \/ piece[job[c].task] = "none" /\ Missing(c)
       \/ piece[job[c].task] = "started" /\ Goto(c, "wait")
    /\ UNCHANGED <<job, cacheVars, records, piece, owner, arrived>>

\* It is woken, looks again after a while, or its time is up. A piece that nobody
\* has claimed is given up.
wait_for_cache_piece_finished(c) ==
    /\ at[c] = "wait"
    /\ \/ piece[job[c].task] = "finished" /\ Found(c)
       \/ piece[job[c].task] = "none" /\ Missing(c)
       \/ piece[job[c].task] = "started" /\ owner[job[c].task] # Nil /\ Goto(c, "timeout")
       \/ piece[job[c].task] = "started" /\ owner[job[c].task] = Nil /\ Goto(c, "forget")
    /\ UNCHANGED <<job, cacheVars, records, piece, owner, arrived>>

\* The record is read, and deleted if it is not finished; it may have been finished
\* between the two. At a timeout the claim goes as well, whoever has it.
WaitFailed(c) ==
    /\ at[c] \in {"timeout", "forget"}
    /\ \/ piece[job[c].task] = "finished" /\ UNCHANGED piece
       \/ piece' = [piece EXCEPT ![job[c].task] = "none"]
    /\ owner' = IF at[c] = "timeout" THEN [owner EXCEPT ![job[c].task] = Nil] ELSE owner
    /\ Missing(c)
    /\ UNCHANGED <<job, cacheVars, records, arrived>>

Claim(c) ==
    /\ at[c] = "claim"
    /\ IF owner[job[c].task] = Nil
       THEN owner' = [owner EXCEPT ![job[c].task] = c] /\ Goto(c, "own")
       ELSE Goto(c, "begin") /\ UNCHANGED owner
    /\ UNCHANGED <<job, cacheVars, records, piece, arrived>>

\* The owner looks once more, then the piece is its own.
download_cache_piece_started(c) ==
    /\ at[c] = "own"
    /\ IF piece[job[c].task] = "finished"
       THEN owner' = [owner EXCEPT ![job[c].task] = Nil] /\ Goto(c, "close") /\ UNCHANGED piece
       ELSE piece' = [piece EXCEPT ![job[c].task] = "started"] /\ Goto(c, "fetch") /\ UNCHANGED owner
    /\ UNCHANGED <<job, cacheVars, records, arrived>>

-----------------------------------------------------------------------------
(* The content of the piece.                                                  *)

\* It arrives, or its reader breaks, or the time for it is up.
Fetch(c) ==
    /\ at[c] = "fetch"
    /\ \/ Goto(c, "write") /\ arrived' = [arrived EXCEPT ![c] = "good"]
       \/ Goto(c, "write") /\ job[c].from # "source" /\ arrived' = [arrived EXCEPT ![c] = "bad"]
       \/ Goto(c, "fail") /\ UNCHANGED arrived
    /\ UNCHANGED <<job, cacheVars, records, piece, owner>>

\* Mutant: a piece whose task is not in the cache is taken for a written one.
WriteIgnored(c) ==
    /\ at[c] = "write" /\ Unlocked(c)
    /\ IF held[job[c].task] = Nil
       THEN UNCHANGED cacheVars
       ELSE Becomes([State EXCEPT !.list = get(list, job[c].task), !.held[job[c].task].content = arrived[c]], job[c].task)
    /\ Goto(c, "finish")
    /\ UNCHANGED <<job, records, piece, owner, arrived>>

\* The piece is written unless it is there; without its task it cannot be.
write_piece(c) ==
    /\ at[c] = "write" /\ Unlocked(c)
    /\ LET t == job[c].task
       IN  IF held[t] = Nil
           THEN Goto(c, "fail") /\ UNCHANGED cacheVars
           ELSE /\ Becomes([State EXCEPT !.list = get(list, t),
                                       !.held[t].content = IF @ = "none" THEN arrived[c] ELSE @], t)
                /\ Goto(c, "finish")
    /\ UNCHANGED <<job, records, piece, owner, arrived>>

\* Mutant: the digest is not compared.
DigestIgnored(c) ==
    /\ at[c] = "finish"
    /\ IF piece[job[c].task] = "none"
       THEN Goto(c, "fail") /\ UNCHANGED piece
       ELSE piece' = [piece EXCEPT ![job[c].task] = "finished"] /\ Goto(c, "release")
    /\ UNCHANGED <<job, list, held, size, recent, dropped, spoiled, records, owner, arrived>>

\* The piece of a parent is compared with the digest that was expected, if any was;
\* a refused piece stays in the cache. A piece without a record cannot be finished.
download_cache_piece_finished(c) ==
    LET t == job[c].task
        refused == job[c].from = "parent" /\ arrived[c] = "bad"
    IN  /\ at[c] = "finish"
        /\ IF refused \/ piece[t] = "none"
           THEN Goto(c, "fail") /\ UNCHANGED piece
           ELSE piece' = [piece EXCEPT ![t] = "finished"] /\ Goto(c, "release")
        /\ spoiled' = IF Cached(t, held) /\ held[t].content = "bad" /\ (refused \/ job[c].from = "undigested")
                      THEN spoiled \cup {t} ELSE spoiled
        /\ UNCHANGED <<job, list, held, size, recent, dropped, records, owner, arrived>>

\* A finished record is left alone; another one is deleted, whatever became of it since.
download_cache_piece_failed(c) ==
    /\ \/ /\ at[c] = "fail"
          /\ Goto(c, IF piece[job[c].task] = "finished" THEN "release" ELSE "erase")
          /\ UNCHANGED piece
       \/ /\ at[c] = "erase"
          /\ Goto(c, "release")
          /\ piece' = [piece EXCEPT ![job[c].task] = "none"]
    /\ UNCHANGED <<job, cacheVars, records, owner, arrived>>

\* Whoever waits is woken, and the claim is gone, also another call's.
remove_and_notify(c) ==
    /\ at[c] = "release"
    /\ owner' = [owner EXCEPT ![job[c].task] = Nil]
    /\ Goto(c, "close")
    /\ UNCHANGED <<job, cacheVars, records, piece, arrived>>

-----------------------------------------------------------------------------
(* The record of the task, which says that a download has finished or failed  *)
(* and counts the uploads that start and end.                                 *)

Updates == [close |-> "closing", count |-> "counting", uncount |-> "uncounting"]
After == [closing |-> "done", counting |-> "look", uncounting |-> "done"]

\* The call ends with an error if the record is not there.
GetRecord(c) ==
    /\ at[c] \in DOMAIN Updates
    /\ Goto(c, IF job[c].task \in records THEN Updates[at[c]] ELSE "done")
    /\ UNCHANGED <<job, cacheVars, records, piece, owner, arrived>>

\* The changed record is put back, also if it was deleted since it was read.
PutRecord(c) ==
    /\ at[c] \in DOMAIN After
    /\ records' = records \cup {job[c].task}
    /\ Goto(c, After[at[c]])
    /\ UNCHANGED <<job, cacheVars, piece, owner, arrived>>

-----------------------------------------------------------------------------
(* upload_cache_piece, once the piece is finished, and delete_cache_task.     *)

contains_piece(c) ==
    /\ at[c] = "look" /\ Unlocked(c)
    /\ LET e == held[job[c].task]
       IN  Goto(c, IF e # Nil /\ e.content # "none" THEN "read" ELSE "uncount")
    /\ UNCHANGED <<job, cacheVars, records, piece, owner, arrived>>

\* The read uses the task, also if its piece is not there any more.
read_piece(c) ==
    /\ at[c] = "read" /\ Unlocked(c)
    /\ LET t == job[c].task
       IN  IF held[t] = Nil
           THEN UNCHANGED cacheVars
           ELSE Becomes([State EXCEPT !.list = get(list, t)], t)
    /\ Goto(c, "uncount")
    /\ UNCHANGED <<job, records, piece, owner, arrived>>

delete_cache_task(c) ==
    /\ at[c] = "delete"
    /\ records' = records \ {job[c].task}
    /\ Goto(c, "delete_pieces")
    /\ UNCHANGED <<job, cacheVars, piece, owner, arrived>>

delete_pieces(c) ==
    /\ at[c] = "delete_pieces"
    /\ piece' = [piece EXCEPT ![job[c].task] = "none"]
    /\ Goto(c, "delete_content")
    /\ UNCHANGED <<job, cacheVars, records, owner, arrived>>

delete_task(c) ==
    /\ at[c] = "delete_content" /\ Unlocked(c)
    /\ IF held[job[c].task] = Nil
       THEN UNCHANGED cacheVars
       ELSE Becomes(pop(State, job[c].task), Nil)
    /\ Goto(c, "done")
    /\ UNCHANGED <<job, records, piece, owner, arrived>>

Call(c) ==
    \/ SkipTask(c) \/ EvictTask(c) \/ put_task(c) \/ download_cache_task_started(c)
    \/ WaitBegins(c) \/ wait_for_cache_piece_finished(c) \/ WaitFailed(c)
    \/ Claim(c) \/ download_cache_piece_started(c)
    \/ Fetch(c) \/ write_piece(c) \/ download_cache_piece_finished(c)
    \/ download_cache_piece_failed(c) \/ remove_and_notify(c)
    \/ GetRecord(c) \/ PutRecord(c)
    \/ contains_piece(c) \/ read_piece(c)
    \/ delete_cache_task(c) \/ delete_pieces(c) \/ delete_task(c)

Next == \E c \in Calls : Call(c)

Spec == Init /\ [][Next]_vars

-----------------------------------------------------------------------------

\* The list of the map holds its entries in the order of their last use, forwards
\* and backwards, so that what is evicted next is what was used least recently.
UseOrder ==
    LET Adjacent(t, u) == <<t, u>> \in recent /\ \A v \in Entries : ~(<<t, v>> \in recent /\ <<v, u>> \in recent)
    IN  /\ recent \subseteq Entries \X Entries
        /\ \A t, u \in Entries : <<t, u>> \in recent <=> t # u /\ <<u, t>> \notin recent
        /\ \A t, u, v \in Entries : <<t, u>> \in recent /\ <<u, v>> \in recent => <<t, v>> \in recent
        /\ Entries = {} => list.head = Nil /\ list.tail = Nil
        /\ Entries # {} => list.head \in Entries /\ list.tail \in Entries
        /\ \A t \in Entries : /\ <<t, list.head>> \notin recent /\ <<list.tail, t>> \notin recent
                              /\ list.next[t] = Nil => t = list.tail
                              /\ list.prev[t] = Nil => t = list.head
                              /\ list.next[t] # Nil => list.next[t] \in Entries /\ Adjacent(t, list.next[t])
                              /\ list.prev[t] # Nil => list.prev[t] \in Entries /\ Adjacent(list.prev[t], t)

\* The tasks that are kept fit into the cache, although tasks are replaced, deleted
\* and evicted at the same time and size is only what the cache believes.
HeldFits ==
    LET total == Cardinality(UNION {{t} \X (1 .. held[t].length) : t \in Entries})
    IN  total <= Capacity /\ total <= size

\* A piece is recorded as finished only if its content was kept; it may have been
\* lost only with the entry of its task, since.
FinishedWasCached ==
    \A t \in Tasks :
        piece[t] = "finished" => Cached(t, held) \/ t \in dropped

\* The content that is kept for a finished piece is what its digest says, whoever of
\* several downloads wrote it, once they have compared it. Excepted is a piece that no
\* digest was known for, and one that was refused: it stays in the cache, and a later
\* download does not replace it.
FinishedIsGood ==
    \A t \in Tasks \ spoiled :
        piece[t] = "finished" /\ Cached(t, held) /\ held[t].content = "bad"
            => \E c \in Calls : job[c].task = t /\ at[c] = "finish" /\ arrived[c] = "bad"

\* Every call must end.
CallsEnded == \A c \in Calls : at[c] = "done"

=============================================================================
