-------------------------- MODULE RateLimiterProps --------------------------
EXTENDS RateLimiter

\* The seconds a pipeline that ran at clock c with current_time = t looks at.
Seen(t, c) == {u \in Times : u > t - Window /\ u <= c}

\* A request is refused only if the client sent requests in more than max_requests
\* of the seconds the pipeline looked at, hence more requests than the limit: the
\* clocks of several workers, late pipelines and the expiry of the key never refuse
\* a client within its limit.
RefusedOnlyAboveLimit ==
    \A r \in refused :
        Cardinality({u \in Seen(r[1], r[2]) : hits[u] > 0}) > Requests

\* The members lie within one window, although late pipelines add old seconds and
\* trim by an old clock: the count is at most the seconds of a window, however
\* many requests arrive.
SetBounded == Cardinality(members) <= Window
=============================================================================
