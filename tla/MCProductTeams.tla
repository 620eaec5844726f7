--------------------------- MODULE MCProductTeams ---------------------------
(* ProductSync in cases chosen at the start: which sessions run, which SKUs  *)
(* the users may give to each product meanwhile, how many faults and crashes *)
(* there may be, and how many products the shop sells before the first sync. *)
EXTENDS ProductSyncProps

CONSTANTS a, b, c, p1, p2

Case(team, sku1, sku2, troubles, inShops) ==
    [team : {team}, skus : {[o \in Products |-> IF o = 1 THEN sku1 ELSE sku2]},
     troubles : {troubles}, inShop : inShops]
\* Two sessions; product 1 may give up its SKU, and product 2 may then get it.
Replaced == Case({p1, p2}, {a, None}, {None, a}, 2, {{0, 1}})
\* One session; the SKU of product 1 may be corrected.
Corrected == Case({p1}, {a, c}, {b}, 1, {{0}, {1}})
AllSkus == [o \in Products |-> {a, b, c, None}]

VARIABLE case
mcvars == <<vars, case>>

Within ==
    /\ \A o \in Products : odoo[o] \in case.skus[o]
    /\ \A w \in WooIds : Live(w) => \E o \in Products : woo[w] \in case.skus[o]
    /\ \A s \in Sessions \ case.team : At(s, "idle")
    /\ faults + crashes <= case.troubles
Member == case' = case /\ Within'

MCInit ==
    /\ Init
    /\ case \in Replaced \cup Corrected
    /\ Within
    /\ Cardinality({w \in WooIds : Live(w)}) \in case.inShop

MCSpec ==
    /\ MCInit
    /\ [][Next /\ Member]_mcvars
    /\ \A s \in Sessions : /\ SF_mcvars(StartFull(s) /\ Member)
                           /\ WF_mcvars(Calls(s) /\ Member)
                           /\ SF_mcvars(Flushes(s) /\ Member)

\* With one session: what is on sale and forgotten is explained by the faults
\* and crashes.
AloneLeftoversExplained ==
    Cardinality(case.team) = 1 => \A n \in case.inShop : LeftoversExplained(n)
=============================================================================
