--------------------------- MODULE AdaptiveLimiter ---------------------------
(* The adaptive limiter of the gRPC servers (util ratelimiter/bbr.rs and      *)
(* grpc/middleware.rs): calls are counted while they are in flight, and when   *)
(* the machine is overloaded a call is refused if more are in flight than the  *)
(* recent past says are good for it.                                           *)
EXTENDS Integers, Sequences, FiniteSets, SequencesExt

CONSTANTS
    Requests,     \* calls at a time
    MaxCalls,     \* bound on all calls
    BucketCount,  \* buckets of the window
    Scale,        \* milliseconds of a second, on a small scale
    Times         \* response times in milliseconds

VARIABLES
    request,      \* call -> where it stands
    calls,        \* calls that have begun
    in_flight,    \* the counter
    is_overloaded,\* what the collector found last
    cooling,      \* a refusal is not longer ago than the cool-down
    ring,         \* the samples of past buckets
    current,      \* the bucket of now,
    elapsed,      \* whose interval is over
    passed,       \* calls that have ended well
    overwritten   \* those of them whose sample has left the ring

vars == <<request, calls, in_flight, is_overloaded, cooling, ring, current, elapsed, passed, overwritten>>
windowVars == <<ring, current, elapsed, passed, overwritten>>

Idle == {"idle", "ended"}
Samples == [pass : Nat, min_rt : Nat]

TypeOK ==
    /\ request \in [Requests -> Idle \cup {"counted", "cooled", "refused", "shed", "served", "recorded"}]
    /\ calls \in 0 .. MaxCalls
    /\ in_flight \in Nat
    /\ is_overloaded \in BOOLEAN
    /\ cooling \in BOOLEAN
    /\ ring \in Seq(Samples) /\ Len(ring) <= BucketCount
    /\ current \in Samples
    /\ elapsed \in BOOLEAN

\* A new bucket has no response time (u64::MAX).
Init ==
    /\ request = [r \in Requests |-> "idle"]
    /\ calls = 0
    /\ in_flight = 0
    /\ is_overloaded \in BOOLEAN
    /\ cooling = FALSE
    /\ ring = <<>>
    /\ current = [pass |-> 0, min_rt |-> 0]
    /\ elapsed = FALSE
    /\ passed = 0
    /\ overwritten = 0

Goto(r, p) == request' = [request EXCEPT ![r] = p]

-----------------------------------------------------------------------------
(* acquire                                                                    *)

add_in_flight(r) ==
    /\ request[r] \in Idle
    /\ calls < MaxCalls
    /\ calls' = calls + 1
    /\ in_flight' = in_flight + 1
    /\ Goto(r, "counted")
    /\ UNCHANGED <<is_overloaded, cooling, windowVars>>

is_in_cooldown(r) ==
    /\ request[r] = "counted"
    /\ Goto(r, IF cooling THEN "shed" ELSE "cooled")
    /\ UNCHANGED <<calls, in_flight, is_overloaded, cooling, windowVars>>

\* Only past buckets count. Without one a response takes a millisecond.
get_stats ==
    [max_pass |-> FoldSeq(LAMBDA s, n : IF s.pass > n THEN s.pass ELSE n, 0, ring),
     min_rt |-> IF ring = <<>> THEN 1
                ELSE FoldSeq(LAMBDA s, n : IF s.min_rt < n THEN s.min_rt ELSE n, ring[1].min_rt, ring)]

\* Rounded to the nearest.
estimated_limit ==
    (2 * get_stats.max_pass * get_stats.min_rt * BucketCount + Scale) \div (2 * Scale)

should_shed(r) ==
    /\ request[r] = "cooled"
    /\ Goto(r, IF is_overloaded /\ get_stats.max_pass > 0 /\ in_flight > estimated_limit
               THEN "refused" ELSE "served")
    /\ UNCHANGED <<calls, in_flight, is_overloaded, cooling, windowVars>>

\* The refusal starts the cool-down.
Refuse(r) ==
    /\ request[r] = "refused"
    /\ cooling' = TRUE
    /\ Goto(r, "shed")
    /\ UNCHANGED <<calls, in_flight, is_overloaded, windowVars>>

\* Mutant: a call that was refused stays counted.
ShedCounted(r) ==
    /\ request[r] = "shed"
    /\ Goto(r, "ended")
    /\ UNCHANGED <<calls, in_flight, is_overloaded, cooling, windowVars>>

\* It is answered "resource exhausted".
Shed(r) ==
    /\ request[r] = "shed"
    /\ in_flight' = in_flight - 1
    /\ Goto(r, "ended")
    /\ UNCHANGED <<calls, is_overloaded, cooling, windowVars>>

acquire(r) == is_in_cooldown(r) \/ should_shed(r) \/ Refuse(r) \/ Shed(r)

-----------------------------------------------------------------------------
(* The guard of a call that is served, dropped when it ends or is abandoned.  *)

\* Mutant: the new bucket goes on counting from the old one.
BucketGoesOn(r, rt) ==
    /\ request[r] = "served"
    /\ Goto(r, "recorded")
    /\ LET full == Len(ring) = BucketCount
       IN  IF elapsed /\ current.pass > 0
           THEN /\ ring' = Append(IF full THEN Tail(ring) ELSE ring, current)
                /\ overwritten' = IF full THEN overwritten + ring[1].pass ELSE overwritten
           ELSE UNCHANGED <<ring, overwritten>>
    /\ current' = [pass |-> current.pass + 1,
                   min_rt |-> IF elapsed \/ current.pass = 0 \/ rt < current.min_rt THEN rt ELSE current.min_rt]
    /\ elapsed' = FALSE
    /\ passed' = passed + 1
    /\ UNCHANGED <<calls, in_flight, is_overloaded, cooling>>

\* When the interval of the bucket is over it becomes a sample of the ring, unless
\* nothing was recorded in it.
add(r, rt) ==
    /\ request[r] = "served"
    /\ Goto(r, "recorded")
    /\ LET full == Len(ring) = BucketCount
       IN  IF elapsed /\ current.pass > 0
           THEN /\ ring' = Append(IF full THEN Tail(ring) ELSE ring, current)
                /\ overwritten' = IF full THEN overwritten + ring[1].pass ELSE overwritten
           ELSE UNCHANGED <<ring, overwritten>>
    /\ current' = IF elapsed \/ current.pass = 0
                  THEN [pass |-> 1, min_rt |-> rt]
                  ELSE [pass |-> current.pass + 1, min_rt |-> IF rt < current.min_rt THEN rt ELSE current.min_rt]
    /\ elapsed' = FALSE
    /\ passed' = passed + 1
    /\ UNCHANGED <<calls, in_flight, is_overloaded, cooling>>

sub_in_flight(r) ==
    /\ request[r] = "recorded"
    /\ in_flight' = in_flight - 1
    /\ Goto(r, "ended")
    /\ UNCHANGED <<calls, is_overloaded, cooling, windowVars>>

-----------------------------------------------------------------------------
(* Time passes, and the collector looks at the machine.                       *)

BucketElapses ==
    /\ ~elapsed
    /\ elapsed' = TRUE
    /\ UNCHANGED <<request, calls, in_flight, is_overloaded, cooling, ring, current, passed, overwritten>>

CooldownEnds ==
    /\ cooling
    /\ cooling' = FALSE
    /\ UNCHANGED <<request, calls, in_flight, is_overloaded, windowVars>>

collect_overloaded ==
    /\ is_overloaded' = ~is_overloaded
    /\ UNCHANGED <<request, calls, in_flight, cooling, windowVars>>

Request(r) == acquire(r) \/ (\E rt \in Times : add(r, rt)) \/ sub_in_flight(r)

Next ==
    \/ \E r \in Requests : add_in_flight(r) \/ Request(r)
    \/ BucketElapses \/ CooldownEnds \/ collect_overloaded

Spec == Init /\ [][Next]_vars

-----------------------------------------------------------------------------

\* The counter is the number of calls that are decided on or served, whatever refuses,
\* ends or abandons them: one that is too high would shed calls for ever, one that is
\* too low would wrap around.
InFlightExact == in_flight = Cardinality({r \in Requests : request[r] \notin Idle})

\* The calls that the samples of the ring count: a pair for each.
RingCalls == UNION {{i} \X (1 .. ring[i].pass) : i \in DOMAIN ring}

\* The window counts every call that has ended once, until its bucket is overwritten,
\* and a sample stands for at least one call: the limit is never that of an empty
\* bucket.
WindowCountsOnce ==
    /\ Cardinality(RingCalls) + current.pass + overwritten = passed
    /\ \A s \in ToSet(ring) : s.pass > 0 /\ s.min_rt \in Times

\* No call stays undecided or counted.
CallsAnswered == \A r \in Requests : request[r] \in Idle

=============================================================================
