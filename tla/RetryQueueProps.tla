-------------------------- MODULE RetryQueueProps --------------------------
(***************************************************************************)
(* What the retry queue should guarantee.                                  *)
(***************************************************************************)
EXTENDS RetryQueue

\* A job is given up only after MAX_RETRIES runs of it failed, and no row counts
\* more failures than there were, whatever is lost: stale counts, rolled-back
\* increments, resets, sessions that overlap or are killed.
NotGivenUpEarly ==
    \A j \in JobIds :
        /\ table[j].count <= failures[j]
        /\ table[j].status = "DEAD_LETTER" => failures[j] >= MaxRetries
=============================================================================
