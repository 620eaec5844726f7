--------------------------- MODULE MCOrderUpdates ---------------------------
(* OrderSync, watched for what becomes of an order-updated webhook about an  *)
(* order that has been synced.                                               *)
EXTENDS OrderSyncProps

VARIABLE outdated   \* history: SYNCED orders updated in the shop and not synced since
updateVars == <<vars, outdated>>

Remember ==
    outdated' = (outdated \cup {w \in Orders : rows[w].status = "SYNCED" /\ Webhook(w, "updated")})
                \ {OrderOf(p) : p \in {r \in Procs : CommitSynced(r)}}

UpdateInit == Init /\ outdated = {}
UpdateSpec ==
    /\ UpdateInit
    /\ [][Next /\ Remember]_updateVars
    /\ \A p \in Procs : /\ WF_updateVars(Work(p) /\ Remember)
                        /\ WF_updateVars(Start(p) /\ Remember)
                        /\ WF_updateVars(RunJob(p) /\ Remember)

\* An order that was synced and then updated in the shop is synced again
\* (webhooks.py, order-updated: "Re-syncs the order if it has already been processed").
UpdatesAreResynced == \A w \in Orders : w \in outdated ~> w \notin outdated
=============================================================================
