---------------------------- MODULE MCOrderTeams ----------------------------
(* OrderSync with a team of one process or of several, chosen at the start.  *)
(* The properties that need a single process are asserted of that team,      *)
(* which gets more webhooks and crashes; the liveness properties of both.    *)
EXTENDS OrderSyncProps, TLC

CONSTANTS Teams,       \* sets of processes
          TeamPosts,   \* bound: what MaxPosts is for several processes
          TeamCrashes  \* bound: what MaxCrashes is for several processes

VARIABLES team,
          uncancelled  \* history: orders given up with their sale order left alone, because
                       \* Odoo refused to cancel it or because they were refunded
teamVars == <<vars, team, uncancelled>>

Alone == \E p \in Procs : team = {p}

\* A process that is not of the team starts nothing.
Member ==
    /\ team' = team
    /\ \A p \in Procs \ team : At(p, "idle")'
    /\ Alone \/ (posts' <= TeamPosts /\ crashes' <= TeamCrashes)

\* The step of p leaves the sale order of w alone for good.
GivesUp(p, w) == OrderOf(p) = w /\ (CancelSaleFails(p) \/ MarkRefunded(p))
Remember == uncancelled' = uncancelled \cup {w \in Orders : \E p \in Procs : GivesUp(p, w)}

MCInit == Init /\ team \in Teams /\ uncancelled = {}
MCNext == Next /\ Member /\ Remember

MCSpec ==
    /\ MCInit
    /\ [][MCNext]_teamVars
    /\ \A p \in Procs : /\ WF_teamVars(Work(p) /\ Member /\ Remember)
                        /\ WF_teamVars(Start(p) /\ Member /\ Remember)
                        /\ WF_teamVars(RunJob(p) /\ Member /\ Remember)

\* With one process (see OrderSyncProps): what is left in Odoo is explained by
\* the faults and crashes.
AloneStraysExplained == Alone => StraysExplained
\* With one process, however many faults and refused invoices: a mapping names the
\* invoice of its sale order, or of a cancelled one, unless the order was once
\* given up with its sale order left alone in Odoo.
AloneInvoiceExplained == Alone => \A w \in Orders : InvoiceOfMappedSale(w) \/ w \in uncancelled
\* With one process: a SYNCED order keeps its sale order and invoice.
AloneSyncedIsFinal == [][Alone => SyncedKept]_rows
=============================================================================
