--------------------------- MODULE WebhookConfig ---------------------------
(***************************************************************************)
(* POST /update-webhooks and WooCommerceClient._request below it: the      *)
(* webhooks of the shop are listed, those of ours are pointed at this      *)
(* server one by one, and when that leaves none right the three of the     *)
(* order topics are created.  Each call to the shop is made up to          *)
(* MaxRetries + 1 times; a call without an answer may have been obeyed.    *)
(*                                                                         *)
(* A webhook is its topic and its delivery URL, a base and a path.         *)
(* Definitions named ...Mutant are faults that no action uses.             *)
(***************************************************************************)
EXTENDS Naturals, FiniteSets, Sequences

CONSTANTS HookIds,     \* bound: the webhook ids WooCommerce can give, in order
          Callers,     \* requests to the endpoint that may overlap
          FirstHooks,  \* the webhooks the shop may have at first
          MaxRetries,  \* max_retries of _request
          MaxFaults,   \* bound: attempts that are refused or not answered
          MaxCrashes,  \* bound: requests that are killed
          MaxDeletes,  \* bound: webhooks deleted by hand
          None, Gone

VARIABLES hooks,    \* hooks[h]: a webhook of the shop, None before and Gone after it is one
          caller,   \* the state of each request
          faults, crashes

vars == <<hooks, caller, faults, crashes>>

-----------------------------------------------------------------------------
\* topic_to_path, in its order
Order == <<"order.created", "order.updated", "order.deleted">>
PathOf(t) == CASE t = "order.created" -> "order-created"
               [] t = "order.updated" -> "order-updated"
               [] t = "order.deleted" -> "order-cancelled"
Mapped == {Order[i] : i \in DOMAIN Order}
\* The paths that hold "/webhooks/woocommerce/order", and any other one.
OurPaths == {"order-created", "order-updated", "order-cancelled", "order-refunded"}
Hook == [topic : Mapped \cup {"other"}, base : {"here", "there"}, path : OurPaths \cup {"elsewhere"}]

ASSUME WebhookConfigAssumption ==
    /\ IsFiniteSet(Callers) /\ Callers # {}
    /\ HookIds \subseteq Nat \ {0} /\ FirstHooks \subseteq Hook /\ IsFiniteSet(FirstHooks)
    /\ {MaxRetries, MaxFaults, MaxCrashes, MaxDeletes} \subseteq Nat
    /\ {None, Gone} \cap (HookIds \cup Hook) = {} /\ None # Gone

\* new_path: by the topic, or else the path the webhook has, if it is one of ours
Ours(k)    == k.topic \in Mapped \/ k.path \in OurPaths
NewPath(k) == IF k.topic \in Mapped THEN PathOf(k.topic) ELSE k.path
Moved(k)   == [k EXCEPT !.base = "here", !.path = NewPath(k)]
Right(k)   == k = Moved(k)
Created(t) == [topic |-> t, base |-> "here", path |-> PathOf(t)]

PCs == {"idle", "list", "update", "create", "answered"}
Caller == [pc : PCs, attempt : 0..MaxRetries,
           listed : SUBSET HookIds,
           todo : SUBSET HookIds,          \* to be updated, in the order of the list
           topics : Seq(Mapped),           \* to be created
           good : BOOLEAN,                 \* a result is "updated" or "already_correct"
           created : BOOLEAN,              \* the topics were to be created
           errors : SUBSET HookIds,        \* the errors of the answer: updates,
           uncreated : SUBSET Mapped]      \* and creations
Idle == [pc |-> "idle", attempt |-> 0, listed |-> {}, todo |-> {}, topics |-> <<>>,
         good |-> FALSE, created |-> FALSE, errors |-> {}, uncreated |-> {}]

TypeOK ==
    /\ hooks \in [HookIds -> Hook \cup {None, Gone}]
    /\ caller \in [Callers -> Caller]
    /\ faults \in 0..MaxFaults /\ crashes \in 0..MaxCrashes

At(c, pc) == caller[c].pc = pc
Live(h)   == hooks[h] \in Hook
Fault     == faults < MaxFaults /\ faults' = faults + 1

\* Some of FirstHooks, in any order; no two of them about the same order topic.
Init ==
    /\ \E n \in 0..Cardinality(FirstHooks) : \E first \in [1..n -> FirstHooks] :
          /\ \A g, h \in 1..n : g # h =>
                first[g] # first[h] /\ (first[g].topic # first[h].topic \/ first[h].topic = "other")
          /\ hooks = [h \in HookIds |-> IF h <= n THEN first[h] ELSE None]
    /\ caller = [c \in Callers |-> Idle]
    /\ faults = 0 /\ crashes = 0

-----------------------------------------------------------------------------
DeleteByHand(h) ==
    /\ Live(h)
    /\ Cardinality({g \in HookIds : hooks[g] = Gone}) < MaxDeletes
    /\ hooks' = [hooks EXCEPT ![h] = Gone]
    /\ UNCHANGED <<caller, faults, crashes>>

Call(c) ==
    /\ At(c, "idle") \/ At(c, "answered")
    /\ caller' = [caller EXCEPT ![c] = [Idle EXCEPT !.pc = "list"]]
    /\ UNCHANGED <<hooks, faults, crashes>>

\* Fault: a webhook that is right already is not counted.
ListAnsweredMutant(c) ==
    LET all == {h \in HookIds : Live(h)} IN
    /\ At(c, "list")
    /\ caller' = [caller EXCEPT ![c] = [Idle EXCEPT
           !.pc = "update", !.listed = all,
           !.todo = {h \in all : Ours(hooks[h]) /\ ~Right(hooks[h])}]]
    /\ UNCHANGED <<hooks, faults, crashes>>

\* What is right already and what is not ours takes no call.
ListAnswered(c) ==
    LET all == {h \in HookIds : Live(h)} IN
    /\ At(c, "list")
    /\ caller' = [caller EXCEPT ![c] = [Idle EXCEPT
           !.pc = "update", !.listed = all,
           !.todo = {h \in all : Ours(hooks[h]) /\ ~Right(hooks[h])},
           !.good = \E h \in all : Ours(hooks[h]) /\ Right(hooks[h])]]
    /\ UNCHANGED <<hooks, faults, crashes>>

IsCurrent(c, h) == At(c, "update") /\ h \in caller[c].todo /\ \A g \in caller[c].todo : h <= g
Updated(h) == [hooks EXCEPT ![h] = IF Live(h) THEN Moved(@) ELSE @]

UpdateAnswered(c, h) ==
    /\ IsCurrent(c, h) /\ Live(h)
    /\ hooks' = Updated(h)
    /\ caller' = [caller EXCEPT ![c].todo = @ \ {h}, ![c].good = TRUE, ![c].attempt = 0]
    /\ UNCHANGED <<faults, crashes>>

\* Fault: a failed update leaves nothing to create.
FailUpdateMutant(c, h) ==
    caller' = [caller EXCEPT ![c].todo = @ \ {h}, ![c].attempt = 0]

\* The error is recorded and the loop goes on.
FailUpdate(c, h) ==
    caller' = [caller EXCEPT ![c].todo = @ \ {h}, ![c].attempt = 0, ![c].errors = @ \cup {h}]

\* 404
UpdateNotFound(c, h) ==
    /\ IsCurrent(c, h) /\ ~Live(h)
    /\ FailUpdate(c, h)
    /\ UNCHANGED <<hooks, faults, crashes>>

AfterUpdates(c) ==
    /\ At(c, "update") /\ caller[c].todo = {}
    /\ caller' = IF caller[c].good THEN [caller EXCEPT ![c].pc = "answered"]
                 ELSE [caller EXCEPT ![c].pc = "create", ![c].topics = Order, ![c].created = TRUE]
    /\ UNCHANGED <<hooks, faults, crashes>>

Creating(c) == At(c, "create") /\ caller[c].topics # <<>>
IsNew(h) == hooks[h] = None /\ \A g \in HookIds : g < h => hooks[g] # None
Posted(c, h) == [hooks EXCEPT ![h] = Created(Head(caller[c].topics))]

CreateAnswered(c, h) ==
    /\ Creating(c) /\ IsNew(h)
    /\ hooks' = Posted(c, h)
    /\ caller' = [caller EXCEPT ![c].topics = Tail(@), ![c].attempt = 0]
    /\ UNCHANGED <<faults, crashes>>

FailCreate(c) ==
    caller' = [caller EXCEPT ![c].topics = Tail(@), ![c].attempt = 0,
                             ![c].uncreated = @ \cup {Head(caller[c].topics)}]

AllCreated(c) ==
    /\ At(c, "create") /\ caller[c].topics = <<>>
    /\ caller' = [caller EXCEPT ![c].pc = "answered"]
    /\ UNCHANGED <<hooks, faults, crashes>>

-----------------------------------------------------------------------------
(* Attempts of _request that fail                                          *)

\* The current call of c is given up: 502, or an error in the results.
GiveUp(c) ==
    \/ At(c, "list") /\ caller' = [caller EXCEPT ![c] = Idle]
    \/ \E h \in HookIds : IsCurrent(c, h) /\ FailUpdate(c, h)
    \/ Creating(c) /\ FailCreate(c)

\* 4xx: no further attempt.
Refused(c) ==
    /\ Fault
    /\ GiveUp(c)
    /\ UNCHANGED <<hooks, crashes>>

\* Fault: the last attempt is not looked at.
UnansweredMutant(c) ==
    /\ Fault
    /\ At(c, "list") \/ Creating(c) \/ \E h \in HookIds : IsCurrent(c, h)
    /\ UNCHANGED hooks
    /\ caller' = [caller EXCEPT ![c].attempt = @ + 1]
    /\ UNCHANGED crashes

\* 429, 5xx, a timeout or a broken connection; the shop may have obeyed.
Unanswered(c) ==
    /\ Fault
    /\ \/ UNCHANGED hooks
       \/ \E h \in HookIds : IsCurrent(c, h) /\ hooks' = Updated(h)
       \/ \E h \in HookIds : Creating(c) /\ IsNew(h) /\ hooks' = Posted(c, h)
    /\ IF caller[c].attempt < MaxRetries
       THEN /\ At(c, "list") \/ Creating(c) \/ \E h \in HookIds : IsCurrent(c, h)
            /\ caller' = [caller EXCEPT ![c].attempt = @ + 1]
       ELSE GiveUp(c)
    /\ UNCHANGED crashes

Crash(c) ==
    /\ ~At(c, "idle") /\ ~At(c, "answered")
    /\ crashes < MaxCrashes /\ crashes' = crashes + 1
    /\ caller' = [caller EXCEPT ![c] = Idle]
    /\ UNCHANGED <<hooks, faults>>

-----------------------------------------------------------------------------
Next ==
    \/ \E h \in HookIds : DeleteByHand(h)
    \/ \E c \in Callers :
          \/ Call(c) \/ ListAnswered(c) \/ AfterUpdates(c) \/ AllCreated(c)
          \/ \E h \in HookIds : UpdateAnswered(c, h) \/ UpdateNotFound(c, h) \/ CreateAnswered(c, h)
          \/ Refused(c) \/ Unanswered(c) \/ Crash(c)

Spec == Init /\ [][Next]_vars
=============================================================================
