-------------------------- MODULE RateLimiterProofs --------------------------
(***************************************************************************)
(* For every limit, window, clock and number of workers: the sorted set    *)
(* never holds more members than the window has seconds, so a limit that   *)
(* is at least the window never refuses a request.                         *)
(***************************************************************************)
EXTENDS RateLimiterProps, FiniteSetTheorems, TLAPS

USE RateLimiterAssumption

\* What is left in the set: the second of the request, and members after its window.
LEMMA SlidMembers ==
  ASSUME NEW t, NEW m \in Slid(t)
  PROVE  m = t \/ (m \in members /\ m > t - Window)
BY DEF Slid

\* Type correctness.
THEOREM TypeCorrect == Spec => []TypeOK
<1>1. Init => TypeOK
  BY DEF Init, TypeOK, Times
<1>2. TypeOK /\ [Next]_vars => TypeOK'
  <2> SUFFICES ASSUME TypeOK, [Next]_vars PROVE TypeOK'
    OBVIOUS
  <2>1. CASE Tick
    BY <2>1 DEF Tick, TypeOK, Times
  <2>2. ASSUME NEW w \in Workers, Arrive(w) PROVE TypeOK'
    BY <2>2 DEF Arrive, TypeOK
  <2>3. ASSUME NEW w \in Workers, Decide(w) PROVE TypeOK'
    <3>1. stamp[w] \in Times
      BY <2>3 DEF Decide, TypeOK
    <3>2. members' \subseteq Times
      BY <2>3, <3>1, SlidMembers DEF Decide, TypeOK
    <3>7. expires' \in Nat
      BY <2>3 DEF Decide, TypeOK, Times
    <3>3. hits' \in [Times -> Nat]
      BY <2>3, <3>1 DEF Decide, TypeOK
    <3>4. refused' \subseteq Times \X Times
      BY <2>3, <3>1 DEF Decide, TypeOK
    <3> QED
      BY <2>3, <3>2, <3>3, <3>4, <3>7 DEF Decide, TypeOK
  <2>4. ASSUME NEW w \in Workers, RedisError(w) PROVE TypeOK'
    <3>1. stamp[w] \in Times
      BY <2>4 DEF RedisError, TypeOK
    <3> QED
      BY <2>4, <3>1 DEF RedisError, TypeOK
  <2>5. CASE UNCHANGED vars
    BY <2>5 DEF vars, TypeOK
  <2> QED
    BY <2>1, <2>2, <2>3, <2>4, <2>5 DEF Next
<1> QED
  BY <1>1, <1>2, PTL DEF Spec

\* The members lie within Window consecutive seconds, and no clock is ahead.
Spread ==
    /\ \E b \in Int : members \subseteq b..(b + Window - 1)
    /\ \A m \in members : m <= now
    /\ \A w \in Workers : stamp[w] # NoStamp => stamp[w] <= now /\ now - stamp[w] <= MaxLag
    /\ refused # {} => Requests < Window

\* What one window holds is at most Window seconds.
LEMMA WindowCardinality ==
  ASSUME NEW S, NEW b \in Int, S \subseteq b..(b + Window - 1)
  PROVE  IsFiniteSet(S) /\ Cardinality(S) \in Nat /\ Cardinality(S) <= Window
<1>1. IsFiniteSet(b..(b + Window - 1)) /\ Cardinality(b..(b + Window - 1)) = Window
  BY FS_Interval
<1> QED
  BY <1>1, FS_Subset, FS_CardinalityType

\* A pipeline leaves the members within a window, wherever its clock stands:
\* after the old window, inside it, or (late) before it.
LEMMA SlidSpread ==
  ASSUME TypeOK, Spread, NEW w \in Workers, stamp[w] # NoStamp
  PROVE  \E b \in Int : Slid(stamp[w]) \subseteq b..(b + Window - 1)
<1> DEFINE t == stamp[w]
<1>1. PICK b \in Int : members \subseteq b..(b + Window - 1)
  BY DEF Spread
<1>2. t \in Times /\ t <= now /\ now - t <= MaxLag /\ now \in Times
  BY DEF TypeOK, Spread
<1>3. CASE t > b + Window - 1
  <2> DEFINE c == t - Window + 1
  <2>1. c \in Int /\ Window \in Nat /\ t \in Int
    BY <1>2 DEF Times
  <2>2. ASSUME NEW m \in Slid(t) PROVE m \in c..(c + Window - 1)
    <3>1. CASE m = t
      BY <2>1, <3>1
    <3>2. CASE m \in members /\ m > t - Window
      <4>1. m \in Int /\ m <= b + Window - 1
        BY <1>1, <3>2
      <4> QED
        BY <1>3, <2>1, <3>2, <4>1
    <3> QED
      BY <3>1, <3>2, SlidMembers
  <2> QED
    BY <2>1, <2>2
<1>4. CASE t >= b /\ t <= b + Window - 1
  <2>1. t \in b..(b + Window - 1)
    BY <1>2, <1>4 DEF Times
  <2>2. ASSUME NEW m \in Slid(t) PROVE m \in b..(b + Window - 1)
    BY <1>1, <2>1, SlidMembers
  <2> QED
    BY <2>2
<1>5. CASE t < b
  <2>1. \A m \in members : m \in Int /\ m >= b /\ m <= now
    BY <1>1 DEF Spread
  <2>2. Slid(t) \subseteq t..(t + Window - 1)
    BY <1>2, <1>5, <2>1, SlidMembers DEF Times
  <2> QED
    BY <1>2, <2>2 DEF Times
<1> QED
  BY <1>2, <1>3, <1>4, <1>5 DEF Times

\* Spread is inductive, given the types.
LEMMA SpreadInvariant == Spec => []Spread
<1>1. Init => Spread
  <2> SUFFICES ASSUME Init PROVE Spread
    OBVIOUS
  <2>1. members \subseteq 0..(0 + Window - 1)
    BY DEF Init
  <2> QED
    BY <2>1 DEF Init, Spread
<1>2. TypeOK /\ Spread /\ [Next]_vars => Spread'
  <2> SUFFICES ASSUME TypeOK, Spread, [Next]_vars PROVE Spread'
    OBVIOUS
  <2>1. CASE Tick
    <3>1. \A m \in members : m <= now'
      BY <2>1 DEF Tick, TypeOK, Spread, Times
    <3>2. \A w \in Workers : stamp[w] # NoStamp => stamp[w] <= now' /\ now' - stamp[w] <= MaxLag
      BY <2>1 DEF Tick, TypeOK, Spread, Times
    <3> QED
      BY <2>1, <3>1, <3>2 DEF Tick, Spread
  <2>2. ASSUME NEW w \in Workers, Arrive(w) PROVE Spread'
    <3>1. \A v \in Workers : stamp'[v] # NoStamp => stamp'[v] <= now' /\ now' - stamp'[v] <= MaxLag
      BY <2>2 DEF Arrive, TypeOK, Spread, Times
    <3> QED
      BY <2>2, <3>1 DEF Arrive, Spread
  <2>3. ASSUME NEW w \in Workers, Decide(w) PROVE Spread'
    <3>1. stamp[w] # NoStamp /\ stamp[w] \in Times /\ stamp[w] <= now /\ now \in Times
      BY <2>3 DEF Decide, TypeOK, Spread
    <3>2. PICK b \in Int : Slid(stamp[w]) \subseteq b..(b + Window - 1)
      BY <3>1, SlidSpread
    <3>3. \A m \in members' : m <= now'
      BY <2>3, <3>1 DEF Decide, Slid, Spread
    <3>4. refused' # {} => Requests < Window
      <4>1. Cardinality(Slid(stamp[w])) \in Nat /\ Cardinality(Slid(stamp[w])) <= Window
        BY <3>2, WindowCardinality
      <4> QED
        BY <2>3, <4>1 DEF Decide, Spread
    <3>5. \E c \in Int : members' \subseteq c..(c + Window - 1)
      BY <2>3, <3>2 DEF Decide
    <3>6. \A v \in Workers : stamp'[v] # NoStamp => stamp'[v] <= now' /\ now' - stamp'[v] <= MaxLag
      BY <2>3 DEF Decide, TypeOK, Spread
    <3> QED
      BY <3>3, <3>4, <3>5, <3>6 DEF Spread
  <2>4. ASSUME NEW w \in Workers, RedisError(w) PROVE Spread'
    BY <2>4 DEF RedisError, TypeOK, Spread
  <2>5. CASE UNCHANGED vars
    BY <2>5 DEF vars, Spread
  <2> QED
    BY <2>1, <2>2, <2>3, <2>4, <2>5 DEF Next
<1> QED
  BY <1>1, <1>2, TypeCorrect, PTL DEF Spec

\* The sorted set never has more members than the window has seconds.
THEOREM MembersBounded == Spec => []SetBounded
<1>1. Spread => SetBounded
  BY WindowCardinality DEF Spread, SetBounded
<1> QED
  BY <1>1, SpreadInvariant, PTL

NothingRefused == refused = {}

\* A limit of at least the seconds of the window refuses nobody: the 100 requests
\* per 60 seconds of the general API are no limit at all.
THEOREM GenerousLimitIsNoLimit ==
  ASSUME Requests >= Window
  PROVE  Spec => []NothingRefused
<1>1. Spread => NothingRefused
  BY DEF Spread, NothingRefused
<1> QED
  BY <1>1, SpreadInvariant, PTL

-----------------------------------------------------------------------------
(* Nobody is refused within the limit                                      *)

\* The seconds of a refusal in which a request was counted.
Busy(r) == {u \in Seen(r[1], r[2]) : hits[u] > 0}

\* Every member is the second of a request that was counted.
Genuine ==
    /\ \A m \in members : hits[m] > 0
    /\ RefusedOnlyAboveLimit

LEMMA BusyFinite ==
  ASSUME NEW S, S \subseteq Times
  PROVE  IsFiniteSet(S) /\ Cardinality(S) \in Nat
<1>1. IsFiniteSet(Times)
  BY FS_Interval DEF Times
<1> QED
  BY <1>1, FS_Subset, FS_CardinalityType

LEMMA GenuineDecide ==
  ASSUME TypeOK, Spread, Genuine, NEW w \in Workers, Decide(w)
  PROVE  Genuine'
<1>1. PICK t \in Times : t = stamp[w] /\ t <= now /\ now \in Times
  BY DEF Decide, TypeOK, Spread
<1>2. hits' = [hits EXCEPT ![t] = @ + 1] /\ members' = Slid(t) /\ now' = now
  BY <1>1 DEF Decide
<1>3. \A u \in Times : hits[u] \in Nat /\ hits'[u] \in Nat /\ hits'[u] >= hits[u] /\ hits'[t] > 0
  BY <1>2 DEF TypeOK
<1>4. \A m \in Slid(t) : m \in Times /\ m > t - Window /\ m <= now /\ hits'[m] > 0
  <2> SUFFICES ASSUME NEW m \in Slid(t)
               PROVE  m \in Times /\ m > t - Window /\ m <= now /\ hits'[m] > 0
    OBVIOUS
  <2>1. CASE m = t
    BY <1>1, <1>3, <2>1 DEF Times
  <2>2. CASE m \in members /\ m > t - Window
    <3>1. m \in Times /\ m <= now
      BY <2>2 DEF TypeOK, Spread
    <3>2. hits[m] > 0
      BY <2>2 DEF Genuine
    <3>3. hits'[m] > 0
      BY <1>3, <3>1, <3>2
    <3> QED
      BY <2>2, <3>1, <3>3
  <2> QED
    BY <2>1, <2>2, SlidMembers
<1>5. ASSUME NEW r \in refused' PROVE Cardinality(Busy(r)') > Requests
  <2>1. PICK after : after = Busy(r)' /\ after = {u \in Seen(r[1], r[2]) : hits'[u] > 0} /\ after \subseteq Times
    BY DEF Busy, Seen
  <2>2. CASE r \in refused
    <3>1. PICK before : before = Busy(r) /\ before \subseteq after
      <4>1. ASSUME NEW u \in Busy(r) PROVE u \in after
        <5>1. u \in Times /\ u \in Seen(r[1], r[2]) /\ hits[u] > 0
          BY DEF Busy, Seen
        <5>2. hits'[u] > 0
          BY <1>3, <5>1
        <5> QED
          BY <2>1, <5>1, <5>2
      <4> QED
        BY <4>1
    <3>2. Cardinality(before) > Requests
      BY <2>2, <3>1 DEF Genuine, RefusedOnlyAboveLimit, Busy
    <3>3. Cardinality(before) <= Cardinality(after)
      BY <2>1, <3>1, BusyFinite, FS_Subset
    <3> QED
      BY <2>1, <3>1, <3>2, <3>3, BusyFinite
  <2>3. CASE r \notin refused
    <3>1. r = <<t, now>> /\ Cardinality(Slid(t)) > Requests
      BY <1>1, <2>3 DEF Decide
    <3>2. PICK slid : slid = Slid(t) /\ slid \subseteq after
      BY <1>4, <2>1, <3>1 DEF Busy, Seen
    <3>3. Cardinality(slid) <= Cardinality(after) /\ Cardinality(slid) \in Nat
      BY <2>1, <3>2, BusyFinite, FS_Subset
    <3> QED
      BY <2>1, <3>1, <3>2, <3>3, BusyFinite
  <2> QED
    BY <2>2, <2>3
<1>6. \A m \in members' : hits'[m] > 0
  BY <1>2, <1>4
<1>7. RefusedOnlyAboveLimit'
  BY <1>5 DEF RefusedOnlyAboveLimit, Busy
<1> QED
  BY <1>6, <1>7 DEF Genuine

LEMMA GenuineInvariant == Spec => []Genuine
<1>1. Init => Genuine
  BY DEF Init, Genuine, RefusedOnlyAboveLimit
<1>2. TypeOK /\ Spread /\ Genuine /\ [Next]_vars => Genuine'
  <2> SUFFICES ASSUME TypeOK, Spread, Genuine, [Next]_vars PROVE Genuine'
    OBVIOUS
  <2>1. CASE UNCHANGED <<members, hits, refused>>
    BY <2>1 DEF Genuine, RefusedOnlyAboveLimit, Seen
  <2>2. ASSUME NEW w \in Workers, Decide(w) PROVE Genuine'
    BY <2>2, GenuineDecide
  <2> QED
    BY <2>1, <2>2 DEF Next, Tick, Arrive, RedisError, vars
<1> QED
  BY <1>1, <1>2, TypeCorrect, SpreadInvariant, PTL DEF Spec

\* A refusal always rests on requests in more than max_requests distinct seconds of
\* the window it looked at, whatever the lag of the workers and the key's expiry.
THEOREM NeverRefusedWithinLimit == Spec => []RefusedOnlyAboveLimit
<1>1. Genuine => RefusedOnlyAboveLimit
  BY DEF Genuine
<1> QED
  BY <1>1, GenuineInvariant, PTL
==============================================================================
