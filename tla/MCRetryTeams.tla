---------------------------- MODULE MCRetryTeams ----------------------------
(* RetryHistory in cases chosen at the start: which sessions work, which     *)
(* jobs they take, whether a service leaves a new failed job, and how much   *)
(* fails, is retried by hand and is killed.                                  *)
EXTENDS RetryHistory

CONSTANTS j1, j2, j3, j4, s1, s2

Out(ok, tx, new) == [ok |-> ok, tx |-> tx, new |-> new]
\* order_sync: success, Odoo unreachable, a failed attempt, and the fate of a
\* session whose failure handler fails too.
OrderOutcomes == {Out(TRUE, "commit", FALSE), Out(FALSE, "none", FALSE),
                  Out(FALSE, "broken", FALSE), Out(FALSE, "rollback", TRUE)}

Case(team, jobs, new, failed, posted, killed) ==
    [team |-> team, jobs |-> jobs, new |-> new, failures |-> failed, posts |-> posted,
     crashes |-> killed]
\* One session that is killed once, and more jobs than a batch takes.
Alone    == Case({s1}, {j1, j2, j3}, {}, 4, 0, 1)
\* Two sessions and batches of two jobs, one of which may roll back the other.
Batches  == Case({s1, s2}, {j1, j2}, {j4}, 2, 0, 0)
\* Two sessions and a job that is retried by hand again and again.
Repeated == Case({s1, s2}, {j1}, {}, 4, 2, 0)

VARIABLE case
mcVars == <<historyVars, case>>

\* What the case leaves out does not happen.
Within ==
    /\ \A s \in Sessions \ case.team : At(s, "idle")
    /\ \A j \in JobIds \ case.jobs :
           /\ \A s \in Sessions : j \notin session[s].todo \cup session[s].cur
           /\ table[j].next # "due"
    /\ \A j \in JobIds \ InitJobs : table[j] # NoRow => j \in case.new
    /\ FoldFunction(+, 0, failures) <= case.failures
    /\ posts <= case.posts
    /\ crashes <= case.crashes
Member == case' = case /\ Within'

MCInit == HistoryInit /\ case \in {Alone, Batches, Repeated} /\ Within
MCSpec ==
    /\ MCInit
    /\ [][HistoryNext /\ Member]_mcVars
    /\ \A j \in InitJobs : WF_mcVars(Tick(j) /\ Remember /\ Member)
    /\ \A s \in Sessions : /\ WF_mcVars(BeginQueue(s) /\ Remember /\ Member)
                           /\ WF_mcVars(Work(s) /\ Remember /\ Member)

\* In the case Alone a pending job is resolved or becomes a dead letter in the end,
\* although batches are smaller than the number of due jobs and a session is killed.
\* The jobs of the case are alike, so it is asked of one of them.
AloneJobsEnd ==
    (case = Alone /\ table[j1].status = "PENDING")
        ~> table[j1].status \in {"RESOLVED", "DEAD_LETTER"}
=============================================================================
