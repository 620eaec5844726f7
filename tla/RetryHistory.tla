---------------------------- MODULE RetryHistory ----------------------------
(***************************************************************************)
(* What the retry queue guarantees of a job, given its past: two history   *)
(* variables remember what went wrong with it, and change no behaviour.    *)
(***************************************************************************)
EXTENDS RetryQueueProps

VARIABLES outdated,  \* history: jobs that a session once updated although another had
                     \* changed their row since it was loaded
          excused    \* history: excused[j] failed runs of j may be missing from its count

historyVars == <<vars, outdated, excused>>

\* The step of s updates job j ...
Writes(s, j) == session[s].dirty[j] = {} /\ session[s].dirty[j]' # {}

\* ... whose row is no longer what s loaded.
Outdated(s, j) ==
    LET old == session[s].mem[j]
        row == table[j]
    IN \/ old.status # row.status \/ old.count # row.count
       \/ ~(old.next = "null" <=> row.next = "null")

\* The step of s loses a failed run of job j that it has not counted, or not committed
\* the count of: a later job of the batch rolls the session back, or the session ends
\* early.
Loses(s, j) ==
    \/ /\ "count" \in session[s].dirty[j] \/ (At(s, "increment") /\ j \in session[s].cur)
       /\ \/ \E o \in Outcomes : EndsRolledBack(s, o) \/ EndsBroken(s, o)
          \/ DeadlockAbort(s) \/ Crash(s)
    \/ j \in session[s].cur /\ \E o \in Outcomes : EndsBroken(s, o)

\* The endpoint commits its reset of job j, which forgives what has failed so far.
Resets(s, j) == j \in Locked(s) /\ session[s].mode = "endpoint" /\ Commit(s)

Remember ==
    /\ outdated' = outdated \cup {j \in JobIds : \E s \in Sessions : Writes(s, j) /\ Outdated(s, j)}
    /\ excused' = [j \in JobIds |->
                      IF \E s \in Sessions : Resets(s, j) THEN failures[j]
                      ELSE IF \E s \in Sessions : Loses(s, j) THEN excused[j] + 1
                      ELSE excused[j]]

HistoryInit == Init /\ outdated = {} /\ excused = [j \in JobIds |-> 0]
HistoryNext == Next /\ Remember
HistorySpec == HistoryInit /\ [][HistoryNext]_historyVars

-----------------------------------------------------------------------------
\* A pending job has a time to run at: get_ready_for_retry never returns one
\* without (NULL <= now is not true), and it is no dead letter either.  A session
\* writes status and next_retry_at only when it saw them change, so two sessions can
\* each write one of them.  However many sessions overlap, roll back, are reset or
\* killed, a job is left behind only after an update made from an outdated row.
PendingHasTimer ==
    \A j \in JobIds \ outdated : table[j].status = "PENDING" => table[j].next # "null"

\* Every failed run of a job that no session has in hand is counted, so that the job
\* becomes a dead letter after MAX_RETRIES of them, except for the runs forgiven by a
\* manual reset and one for each time that a later job of its batch rolled the shared
\* session back, or the session broke down, was aborted or was killed; and unless the
\* job was updated from an outdated row.
EachFailureCounts ==
    \A j \in JobIds \ outdated :
        (\A s \in Sessions : j \notin session[s].cur \cup Locked(s)) =>
            failures[j] <= table[j].count + excused[j]
=============================================================================
