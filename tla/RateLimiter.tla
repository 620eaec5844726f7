---------------------------- MODULE RateLimiter ----------------------------
(***************************************************************************)
(* RateLimiterMiddleware.dispatch for one client and one endpoint class,   *)
(* that is one Redis sorted set.  Several API workers serve the client's    *)
(* requests: each reads the clock, then runs its pipeline (a MULTI/EXEC,    *)
(* one step).  A member of the set is the second itself, so that all        *)
(* requests of a second are one member.                                    *)
(***************************************************************************)
EXTENDS Integers, FiniteSets

CONSTANTS Workers,      \* API workers
          Requests,     \* max_requests
          Window,       \* window, in seconds
          MaxLag,       \* bound: seconds between reading the clock and the pipeline
          MaxTime,      \* bound: the clock stops here
          MaxHits,      \* bound: requests stamped with the same second
          RedisFails,   \* whether Redis may be down
          NoStamp       \* a worker that serves nobody

ASSUME RateLimiterAssumption ==
    /\ Window \in Nat \ {0} /\ Requests \in Nat
    /\ MaxLag \in 0..(Window - 1) /\ MaxTime \in Nat /\ MaxHits \in Nat
    /\ RedisFails \in BOOLEAN
    /\ NoStamp \notin Nat

Times == 0..MaxTime

VARIABLES now,        \* int(time.time())
          stamp,      \* stamp[w]: current_time of the request w serves
          members,    \* the sorted set; a member is its own score
          expires,    \* when Redis drops the key
          hits,       \* hits[t]: requests that ran their pipeline with current_time = t
          refused     \* stamp and clock of the refusals

vars == <<now, stamp, members, expires, hits, refused>>

TypeOK ==
    /\ now \in Times
    /\ stamp \in [Workers -> Times \cup {NoStamp}]
    /\ members \subseteq Times
    /\ expires \in Nat
    /\ hits \in [Times -> Nat]
    /\ refused \subseteq Times \X Times

Init ==
    /\ now = 0
    /\ stamp = [w \in Workers |-> NoStamp]
    /\ members = {}
    /\ expires = 0
    /\ hits = [t \in Times |-> 0]
    /\ refused = {}

Tick ==
    /\ now < MaxTime
    /\ \A w \in Workers : stamp[w] # NoStamp => now + 1 - stamp[w] <= MaxLag
    /\ now' = now + 1
    /\ UNCHANGED <<stamp, members, expires, hits, refused>>

\* Fault: the clock is rounded up.
ArriveMutant(w) ==
    /\ stamp[w] = NoStamp
    /\ stamp' = [stamp EXCEPT ![w] = now + 1]
    /\ UNCHANGED <<now, members, expires, hits, refused>>

\* A request arrives at worker w, which reads the clock.
Arrive(w) ==
    /\ stamp[w] = NoStamp
    /\ stamp' = [stamp EXCEPT ![w] = now]
    /\ UNCHANGED <<now, members, expires, hits, refused>>

\* Faults: nothing is trimmed; the window includes the second before it.
SlidUntrimmedMutant(t) == members \cup {t}
SlidLongMutant(t) == {m \in members : now < expires /\ m >= t - Window} \cup {t}

\* zremrangebyscore 0..t-Window on the set, if it has not expired; then zadd t.
Slid(t) == {m \in members : now < expires /\ m > t - Window} \cup {t}

\* The pipeline, and the decision on the count it returns.
Decide(w) ==
    LET t == stamp[w] IN
    /\ t # NoStamp
    /\ hits[t] < MaxHits
    /\ members' = Slid(t)
    /\ expires' = now + Window
    /\ hits' = [hits EXCEPT ![t] = @ + 1]
    /\ refused' = IF Cardinality(Slid(t)) > Requests THEN refused \cup {<<t, now>>} ELSE refused
    /\ stamp' = [stamp EXCEPT ![w] = NoStamp]
    /\ UNCHANGED now

\* Redis is down: the request goes through uncounted.
RedisError(w) ==
    /\ RedisFails
    /\ stamp[w] # NoStamp
    /\ stamp' = [stamp EXCEPT ![w] = NoStamp]
    /\ UNCHANGED <<now, members, expires, hits, refused>>

Next == Tick \/ \E w \in Workers : Arrive(w) \/ Decide(w) \/ RedisError(w)

Spec == Init /\ [][Next]_vars
=============================================================================
