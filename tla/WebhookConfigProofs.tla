------------------------ MODULE WebhookConfigProofs ------------------------
(***************************************************************************)
(* Proofs about WebhookConfig for any number of requests, webhooks,        *)
(* faults, crashes and deletions.                                          *)
(*                                                                         *)
(* Done is the loop invariant of the endpoint: what a request has dealt    *)
(* with and has not recorded as an error is right, at every step between   *)
(* its list and its answer.  The other requests and the repeated attempts  *)
(* only make webhooks right; a deletion leaves its trace.                  *)
(*                                                                         *)
(* Budget counts the webhooks of a topic and the requests that may still   *)
(* create one.                                                             *)
(***************************************************************************)
EXTENDS WebhookConfigProps, FiniteSetTheorems, TLAPS

USE WebhookConfigAssumption

Listed(c) == caller[c].pc \in {"update", "create", "answered"}

\* The webhooks that c listed and has neither recorded nor still to update.
UpdatesDone(c) ==
    \A h \in caller[c].listed \ (caller[c].errors \cup caller[c].todo) :
        Live(h) /\ Ours(hooks[h]) => Right(hooks[h])

\* The topics that c has neither recorded nor still to create.
Waiting(c) == {caller[c].topics[i] : i \in DOMAIN caller[c].topics}
Present(t) ==
    \/ \E h \in Copies(t) : Right(hooks[h])
    \/ \E h \in HookIds : hooks[h] = Gone
CreationsDone(c) ==
    \A t \in Mapped \ (caller[c].uncreated \cup Waiting(c)) : Present(t)

DoneBy(c) ==
    /\ Listed(c) => UpdatesDone(c)
    /\ Listed(c) /\ caller[c].created => CreationsDone(c)
    /\ At(c, "update") => ~caller[c].created
    /\ At(c, "create") \/ At(c, "answered") => caller[c].todo = {}
    /\ At(c, "answered") /\ caller[c].created => caller[c].topics = <<>>
Done == \A c \in Callers : DoneBy(c)

Inv == TypeOK /\ Done

-----------------------------------------------------------------------------
(* Webhooks                                                                *)

LEMMA MappedTopics == Mapped = {"order.created", "order.updated", "order.deleted"}
BY DEF Mapped, Order

LEMMA OrderType == Order \in Seq(Mapped)
BY MappedTopics DEF Order

LEMMA MovedType ==
  ASSUME NEW k \in Hook
  PROVE  Moved(k) \in Hook /\ Right(Moved(k)) /\ Moved(k).topic = k.topic
                           /\ (Ours(Moved(k)) <=> Ours(k))
BY MappedTopics DEF Moved, Right, NewPath, Ours, Hook, PathOf, OurPaths

LEMMA PathType ==
  ASSUME NEW t \in Mapped
  PROVE  PathOf(t) \in OurPaths
BY MappedTopics DEF PathOf, OurPaths

LEMMA CreatedType ==
  ASSUME NEW t \in Mapped
  PROVE  Created(t) \in Hook /\ Right(Created(t)) /\ Created(t).topic = t
<1>1. PICK p \in OurPaths : p = PathOf(t)
  BY PathType
<1>2. PICK k \in Hook : k = Created(t) /\ k = [topic |-> t, base |-> "here", path |-> p]
  BY <1>1 DEF Created, Hook
<1>3. NewPath(k) = p
  BY <1>1, <1>2 DEF NewPath
<1>4. Moved(k) = k
  <2>1. Moved(k) = [[k EXCEPT !.base = "here"] EXCEPT !.path = p]
    BY <1>3 DEF Moved
  <2>2. [k EXCEPT !.base = "here"] = k
    BY <1>2
  <2>3. [k EXCEPT !.path = p] = k
    BY <1>2
  <2> QED
    BY <2>1, <2>2, <2>3
<1> QED
  BY <1>2, <1>4 DEF Right

\* What a step may do to the webhooks: delete one, or make one right.
HookStep ==
    \A h \in HookIds :
        \/ hooks'[h] = hooks[h]
        \/ hooks'[h] = Gone
        \/ /\ hooks'[h] \in Hook /\ Right(hooks'[h])
           /\ Live(h) => hooks'[h].topic = hooks[h].topic
           /\ hooks[h] # Gone

LEMMA NotAHook == None \notin Hook /\ Gone \notin Hook /\ None # Gone
BY WebhookConfigAssumption

LEMMA PresentKept ==
  ASSUME HookStep, NEW t \in Mapped, Present(t)
  PROVE  Present(t)'
<1>1. CASE \E h \in HookIds : hooks[h] = Gone
  BY <1>1, NotAHook DEF HookStep, Present
<1>2. CASE \E h \in Copies(t) : Right(hooks[h])
  <2>1. PICK h \in HookIds : Live(h) /\ hooks[h].topic = t /\ Right(hooks[h])
    BY <1>2 DEF Copies
  <2>2. CASE hooks'[h] = Gone
    BY <2>2 DEF Present
  <2>3. CASE hooks'[h] # Gone
    <3>1. hooks'[h] \in Hook /\ hooks'[h].topic = t /\ Right(hooks'[h])
      BY <2>1, <2>3 DEF HookStep, Live
    <3> QED
      BY <3>1 DEF Present, Copies, Live, Right, Moved, NewPath
  <2> QED
    BY <2>2, <2>3
<1> QED
  BY <1>1, <1>2 DEF Present

\* The steps of the others and of the shop leave what a request has done.
LEMMA DoneKept ==
  ASSUME HookStep, NEW c \in Callers, caller'[c] = caller[c], DoneBy(c),
         caller[c].listed \subseteq HookIds
  PROVE  DoneBy(c)'
<1>1. UpdatesDone(c) => UpdatesDone(c)'
  <2> SUFFICES ASSUME UpdatesDone(c), NEW h \in caller[c].listed \ (caller[c].errors \cup caller[c].todo),
                      Live(h)', Ours(hooks[h])'
               PROVE  Right(hooks[h])'
    BY DEF UpdatesDone
  <2> QED
    <3>1. h \in HookIds /\ (Live(h) /\ Ours(hooks[h]) => Right(hooks[h]))
      BY DEF UpdatesDone
    <3>2. PICK k : k = hooks'[h]
      OBVIOUS
    <3>3. Right(k)
      BY <3>1, <3>2, NotAHook DEF HookStep, Live, Ours
    <3> QED
      BY <3>2, <3>3 DEF Right, Moved, NewPath
<1>2. CreationsDone(c) => CreationsDone(c)'
  BY PresentKept DEF CreationsDone, Waiting
<1> QED
  BY <1>1, <1>2 DEF DoneBy, Listed, At

-----------------------------------------------------------------------------
(* The steps                                                               *)

LEMMA Fields ==
  ASSUME NEW r \in Caller
  PROVE  /\ r.pc \in PCs /\ r.attempt \in 0..MaxRetries
         /\ r.listed \subseteq HookIds /\ r.todo \subseteq HookIds
         /\ r.topics \in Seq(Mapped) /\ r.good \in BOOLEAN /\ r.created \in BOOLEAN
         /\ r.errors \subseteq HookIds /\ r.uncreated \subseteq Mapped
BY DEF Caller

LEMMA NoAttempt == 0 \in 0..MaxRetries
BY WebhookConfigAssumption

LEMMA IdleType == Idle \in Caller
BY WebhookConfigAssumption DEF Idle, Caller, PCs

LEMMA InitInv == Init => Inv
<1> SUFFICES ASSUME Init PROVE Inv
  OBVIOUS
<1>1. hooks \in [HookIds -> Hook \cup {None, Gone}]
  <2>1. PICK n \in 0..Cardinality(FirstHooks) : \E first \in [1..n -> FirstHooks] :
           hooks = [h \in HookIds |-> IF h <= n THEN first[h] ELSE None]
    BY DEF Init
  <2>2. PICK first \in [1..n -> FirstHooks] :
           hooks = [h \in HookIds |-> IF h <= n THEN first[h] ELSE None]
    BY <2>1
  <2>3. ASSUME NEW h \in HookIds, h <= n PROVE first[h] \in Hook
    BY <2>1, <2>2, <2>3, WebhookConfigAssumption
  <2> QED
    BY <2>2, <2>3
<1>2. caller \in [Callers -> Caller] /\ \A c \in Callers : caller[c].pc = "idle"
  BY IdleType DEF Init, Idle
<1>3. faults \in 0..MaxFaults /\ crashes \in 0..MaxCrashes
  BY WebhookConfigAssumption DEF Init
<1>4. Done
  BY <1>2 DEF Done, DoneBy, Listed, At
<1> QED
  BY <1>1, <1>2, <1>3, <1>4 DEF Inv, TypeOK

\* A step of c keeps the invariant when it keeps it for c.
LEMMA StepOf ==
  ASSUME Inv, HookStep, NEW c \in Callers, NEW r \in Caller,
         caller' = [caller EXCEPT ![c] = r], DoneBy(c)',
         faults' \in 0..MaxFaults, crashes' \in 0..MaxCrashes,
         hooks' \in [HookIds -> Hook \cup {None, Gone}]
  PROVE  Inv'
<1>1. caller' \in [Callers -> Caller] /\ \A d \in Callers \ {c} : caller'[d] = caller[d]
  BY DEF Inv, TypeOK
<1>2. \A d \in Callers \ {c} : DoneBy(d)'
  <2> TAKE d \in Callers \ {c}
  <2>1. DoneBy(d) /\ caller[d].listed \subseteq HookIds
    BY Fields DEF Inv, TypeOK, Done
  <2> QED
    BY <1>1, <2>1, DoneKept
<1> QED
  BY <1>1, <1>2 DEF Inv, TypeOK, Done

LEMMA HooksSame ==
  ASSUME UNCHANGED hooks
  PROVE  HookStep
BY DEF HookStep

LEMMA UpdatedStep ==
  ASSUME TypeOK, NEW h \in HookIds, Live(h), hooks' = Updated(h)
  PROVE  HookStep /\ hooks' \in [HookIds -> Hook \cup {None, Gone}] /\ Right(hooks'[h])
<1>1. PICK k \in Hook : k = hooks[h]
  BY DEF Live
<1>2. Moved(k) \in Hook /\ Right(Moved(k)) /\ Moved(k).topic = k.topic
  BY MovedType
<1>3. hooks' = [hooks EXCEPT ![h] = Moved(k)]
  BY <1>1 DEF Updated, Live
<1>4. hooks' \in [HookIds -> Hook \cup {None, Gone}] /\ hooks'[h] = Moved(k)
  BY <1>2, <1>3 DEF TypeOK
<1>5. HookStep
  BY <1>1, <1>2, <1>3, <1>4, NotAHook DEF HookStep, TypeOK
<1> QED
  BY <1>2, <1>4, <1>5

LEMMA PostedStep ==
  ASSUME TypeOK, NEW c \in Callers, Creating(c), NEW h \in HookIds, IsNew(h), hooks' = Posted(c, h)
  PROVE  /\ HookStep /\ hooks' \in [HookIds -> Hook \cup {None, Gone}]
         /\ \E t \in Mapped : t = Head(caller[c].topics) /\ Present(t)'
<1>1. PICK t \in Mapped : t = Head(caller[c].topics)
  BY Fields DEF TypeOK, Creating
<1>2. PICK k \in Hook : k = Created(t) /\ Right(k) /\ k.topic = t
  BY CreatedType
<1>3. hooks' = [hooks EXCEPT ![h] = k]
  BY <1>1, <1>2 DEF Posted
<1>4. hooks' \in [HookIds -> Hook \cup {None, Gone}] /\ hooks'[h] = k
  BY <1>3 DEF TypeOK
<1>5. HookStep
  BY <1>2, <1>3, <1>4, NotAHook DEF HookStep, TypeOK, IsNew, Live
<1>6. Present(t)'
  <2>1. hooks'[h] \in Hook /\ hooks'[h].topic = t /\ Right(k)
    BY <1>2, <1>4
  <2> QED
    BY <2>1, <1>4 DEF Present, Copies, Live, Right, Moved, NewPath
<1> QED
  BY <1>1, <1>4, <1>5, <1>6

LEMMA TailOf ==
  ASSUME NEW q \in Seq(Mapped), q # <<>>
  PROVE  /\ Tail(q) \in Seq(Mapped) /\ Head(q) \in Mapped
         /\ \A i \in DOMAIN q : q[i] = Head(q) \/ \E j \in DOMAIN Tail(q) : Tail(q)[j] = q[i]
<1>1. Tail(q) \in Seq(Mapped) /\ Head(q) \in Mapped /\ Head(q) = q[1] /\ Len(q) > 0
  OBVIOUS
<1>2. ASSUME NEW i \in DOMAIN q, i # 1
      PROVE  \E j \in DOMAIN Tail(q) : Tail(q)[j] = q[i]
  <2>1. i \in 2..Len(q)
    BY <1>2
  <2>2. i - 1 \in 1..Len(Tail(q)) /\ Tail(q)[i - 1] = q[i]
    BY <2>1
  <2> QED
    BY <2>2, <1>1
<1> QED
  BY <1>1, <1>2

\* The next topic is done: it is present, or among the errors.
LEMMA NextTopic ==
  ASSUME TypeOK, HookStep, NEW c \in Callers, Creating(c), DoneBy(c), NEW r \in Caller,
         caller' = [caller EXCEPT ![c] = r],
         r.pc = "create", r.todo = caller[c].todo, r.listed = caller[c].listed,
         r.errors = caller[c].errors, r.created = caller[c].created,
         r.topics = Tail(caller[c].topics),
         caller[c].uncreated \subseteq r.uncreated,
         \/ Head(caller[c].topics) \in r.uncreated
         \/ \E t \in Mapped : t = Head(caller[c].topics) /\ Present(t)'
  PROVE  DoneBy(c)'
<1>1. caller'[c] = r
  BY DEF TypeOK
<1>2. UpdatesDone(c)'
  <2> SUFFICES ASSUME NEW h \in HookIds, h \in r.listed \ (r.errors \cup r.todo),
                      Live(h)', Ours(hooks[h])'
               PROVE  Right(hooks[h])'
    BY <1>1, Fields DEF UpdatesDone
  <2>1. Live(h) /\ Ours(hooks[h]) => Right(hooks[h])
    BY DEF DoneBy, Listed, Creating, At, UpdatesDone
  <2>2. PICK k : k = hooks'[h]
    OBVIOUS
  <2>3. Right(k)
    BY <2>1, <2>2, NotAHook DEF HookStep, Live, Ours
  <2> QED
    BY <2>2, <2>3 DEF Right, Moved, NewPath
<1>3. ASSUME r.created, NEW t \in Mapped \ (r.uncreated \cup Waiting(c)') PROVE Present(t)'
  <2>1. CASE t = Head(caller[c].topics)
    BY <2>1, <1>3
  <2>2. CASE t # Head(caller[c].topics)
    <3>1. t \notin Waiting(c)
      <4>1. PICK q \in Seq(Mapped) : q = caller[c].topics /\ q # <<>>
        BY Fields DEF TypeOK, Creating
      <4>2. ASSUME NEW i \in DOMAIN q, q[i] = t PROVE t \in Waiting(c)'
        <5>1. PICK j \in DOMAIN Tail(q) : Tail(q)[j] = t
          BY <4>1, <4>2, <2>2, TailOf
        <5> QED
          BY <1>1, <4>1, <5>1 DEF Waiting
      <4> QED
        BY <1>3, <4>1, <4>2 DEF Waiting
    <3>2. Present(t)
      BY <1>3, <3>1 DEF DoneBy, Listed, Creating, At, CreationsDone
    <3> QED
      BY <3>2, PresentKept
  <2> QED
    BY <2>1, <2>2
<1>4. r.created => CreationsDone(c)'
  BY <1>1, <1>3 DEF CreationsDone
<1> QED
  BY <1>1, <1>2, <1>4 DEF DoneBy, Listed, At, Creating

\* The update of h is done: it is right, or among the errors, or it is gone.
LEMMA NextUpdate ==
  ASSUME TypeOK, HookStep, NEW c \in Callers, NEW h \in HookIds, IsCurrent(c, h), DoneBy(c),
         NEW r \in Caller, caller' = [caller EXCEPT ![c] = r],
         r.pc = "update", r.todo = caller[c].todo \ {h}, r.listed = caller[c].listed,
         r.created = caller[c].created, caller[c].errors \subseteq r.errors,
         h \in r.errors \/ Right(hooks'[h])
  PROVE  DoneBy(c)'
<1>1. caller'[c] = r
  BY DEF TypeOK
<1>2. UpdatesDone(c)'
  <2> SUFFICES ASSUME NEW g \in HookIds, g \in r.listed \ (r.errors \cup r.todo),
                      Live(g)', Ours(hooks[g])'
               PROVE  Right(hooks[g])'
    BY <1>1, Fields DEF UpdatesDone
  <2>1. PICK k : k = hooks'[g]
    OBVIOUS
  <2>2. CASE g = h
    BY <2>1, <2>2 DEF Right, Moved, NewPath
  <2>3. CASE g # h
    <3>1. Live(g) /\ Ours(hooks[g]) => Right(hooks[g])
      BY <2>3 DEF DoneBy, Listed, IsCurrent, At, UpdatesDone
    <3>2. Right(k)
      BY <3>1, <2>1, NotAHook DEF HookStep, Live, Ours
    <3> QED
      BY <2>1, <3>2 DEF Right, Moved, NewPath
  <2> QED
    BY <2>2, <2>3
<1>3. ~r.created
  BY DEF DoneBy, IsCurrent, At
<1> QED
  BY <1>1, <1>2, <1>3 DEF DoneBy, Listed, At

\* A step that leaves c where it is, or sends it back to the start.
LEMMA SameOrIdle ==
  ASSUME TypeOK, HookStep, NEW c \in Callers, DoneBy(c),
         NEW r \in Caller, caller' = [caller EXCEPT ![c] = r],
         \/ r.pc \in {"idle", "list"}
         \/ /\ r.pc = caller[c].pc /\ r.todo = caller[c].todo /\ r.listed = caller[c].listed
            /\ r.errors = caller[c].errors /\ r.created = caller[c].created
            /\ r.topics = caller[c].topics /\ r.uncreated = caller[c].uncreated
  PROVE  DoneBy(c)'
<1>1. caller'[c] = r
  BY DEF TypeOK
<1>2. CASE r.pc \in {"idle", "list"}
  BY <1>1, <1>2 DEF DoneBy, Listed, At
<1>3. CASE r.pc \notin {"idle", "list"}
  <2>1. UpdatesDone(c) => UpdatesDone(c)'
    <3> SUFFICES ASSUME UpdatesDone(c), NEW h \in HookIds, h \in r.listed \ (r.errors \cup r.todo),
                        Live(h)', Ours(hooks[h])'
                 PROVE  Right(hooks[h])'
      BY <1>1, Fields DEF UpdatesDone
    <3>1. PICK k : k = hooks'[h]
      OBVIOUS
    <3>2. Right(k)
      BY <1>3, <3>1, NotAHook DEF HookStep, Live, Ours, UpdatesDone
    <3> QED
      BY <3>1, <3>2 DEF Right, Moved, NewPath
  <2>2. CreationsDone(c) => CreationsDone(c)'
    BY <1>1, <1>3, PresentKept DEF CreationsDone, Waiting
  <2> QED
    BY <1>1, <1>3, <2>1, <2>2 DEF DoneBy, Listed, At
<1> QED
  BY <1>2, <1>3

-----------------------------------------------------------------------------
(* The actions                                                             *)

LEMMA DeleteInv ==
  ASSUME Inv, NEW h \in HookIds, DeleteByHand(h)
  PROVE  Inv'
<1>1. HookStep /\ hooks' \in [HookIds -> Hook \cup {None, Gone}]
  BY DEF DeleteByHand, HookStep, Inv, TypeOK
<1>2. \A c \in Callers : DoneBy(c)'
  <2> TAKE c \in Callers
  <2>1. DoneBy(c) /\ caller[c].listed \subseteq HookIds /\ caller'[c] = caller[c]
    BY Fields DEF Inv, TypeOK, Done, DeleteByHand
  <2> QED
    BY <1>1, <2>1, DoneKept
<1> QED
  BY <1>1, <1>2 DEF Inv, TypeOK, Done, DeleteByHand

LEMMA CallInv ==
  ASSUME Inv, NEW c \in Callers, Call(c)
  PROVE  Inv'
<1>1. PICK r \in Caller : r = [Idle EXCEPT !.pc = "list"]
  BY IdleType DEF Caller, PCs
<1>2. r.pc = "list" /\ caller' = [caller EXCEPT ![c] = r]
  BY <1>1, IdleType DEF Call, Caller
<1>3. DoneBy(c)'
  BY <1>2, SameOrIdle, HooksSame DEF Call, Inv, Done
<1> QED
  BY <1>2, <1>3, StepOf, HooksSame DEF Call, Inv, TypeOK

LEMMA ListAnsweredInv ==
  ASSUME Inv, NEW c \in Callers, ListAnswered(c)
  PROVE  Inv'
<1> DEFINE all == {h \in HookIds : Live(h)}
           todo == {h \in all : Ours(hooks[h]) /\ ~Right(hooks[h])}
           good == \E h \in all : Ours(hooks[h]) /\ Right(hooks[h])
<1>1. PICK r \in Caller :
        r = [Idle EXCEPT !.pc = "update", !.listed = all, !.todo = todo, !.good = good]
  <2> HIDE DEF good
  <2>1. good \in BOOLEAN
    BY DEF good
  <2> QED
    BY <2>1, IdleType DEF Caller, PCs
<1>2. r.pc = "update" /\ r.listed = all /\ r.todo = todo /\ ~r.created
  BY <1>1 DEF Idle
<1>3. caller' = [caller EXCEPT ![c] = r] /\ caller'[c] = r
  BY <1>1 DEF ListAnswered, Inv, TypeOK
<1>4. UpdatesDone(c)'
  <2> SUFFICES ASSUME NEW h \in all \ todo, Live(h), Ours(hooks[h])
               PROVE  Right(hooks[h])
    BY <1>2, <1>3 DEF UpdatesDone, ListAnswered, Live, Ours, Right, Moved, NewPath
  <2> QED
    OBVIOUS
<1>5. DoneBy(c)'
  BY <1>2, <1>3, <1>4 DEF DoneBy, At, Listed
<1> QED
  BY <1>3, <1>5, StepOf, HooksSame DEF ListAnswered, Inv, TypeOK

LEMMA UpdateAnsweredInv ==
  ASSUME Inv, NEW c \in Callers, NEW h \in HookIds, UpdateAnswered(c, h)
  PROVE  Inv'
<1>1. PICK o \in Caller : o = caller[c]
  BY DEF Inv, TypeOK
<1>2. PICK r \in Caller :
         r = [o EXCEPT !.todo = @ \ {h}, !.good = TRUE, !.attempt = 0]
  <2>1. PICK todo \in SUBSET HookIds : todo = o.todo \ {h}
    BY Fields
  <2> QED
    BY <2>1, NoAttempt DEF Caller
<1>3. caller' = [caller EXCEPT ![c] = r]
  BY <1>1, <1>2 DEF UpdateAnswered, Inv, TypeOK
<1>4. /\ r.pc = o.pc /\ r.todo = o.todo \ {h} /\ r.listed = o.listed
      /\ r.created = o.created /\ r.errors = o.errors
  BY <1>2 DEF Caller
<1>5. HookStep /\ hooks' \in [HookIds -> Hook \cup {None, Gone}] /\ Right(hooks'[h])
  BY UpdatedStep DEF UpdateAnswered, Inv
<1>6. DoneBy(c)'
  BY <1>1, <1>3, <1>4, <1>5, NextUpdate DEF UpdateAnswered, IsCurrent, At, Inv, Done
<1> QED
  BY <1>3, <1>5, <1>6, StepOf DEF UpdateAnswered, Inv, TypeOK

LEMMA FailUpdateInv ==
  ASSUME Inv, HookStep, NEW c \in Callers, NEW h \in HookIds, IsCurrent(c, h), FailUpdate(c, h),
         faults' \in 0..MaxFaults, crashes' \in 0..MaxCrashes,
         hooks' \in [HookIds -> Hook \cup {None, Gone}]
  PROVE  Inv'
<1>1. PICK o \in Caller : o = caller[c]
  BY DEF Inv, TypeOK
<1>2. PICK r \in Caller :
         r = [o EXCEPT !.todo = @ \ {h}, !.attempt = 0, !.errors = @ \cup {h}]
  <2>1. PICK todo \in SUBSET HookIds, errors \in SUBSET HookIds :
           todo = o.todo \ {h} /\ errors = o.errors \cup {h}
    BY Fields
  <2> QED
    BY <2>1, NoAttempt DEF Caller
<1>3. caller' = [caller EXCEPT ![c] = r]
  BY <1>1, <1>2 DEF FailUpdate, Inv, TypeOK
<1>4. /\ r.pc = o.pc /\ r.todo = o.todo \ {h} /\ r.listed = o.listed
      /\ r.created = o.created /\ r.errors = o.errors \cup {h}
  BY <1>2 DEF Caller
<1>5. DoneBy(c)'
  BY <1>1, <1>3, <1>4, NextUpdate DEF IsCurrent, At, Inv, Done
<1> QED
  BY <1>3, <1>5, StepOf

LEMMA UpdateNotFoundInv ==
  ASSUME Inv, NEW c \in Callers, NEW h \in HookIds, UpdateNotFound(c, h)
  PROVE  Inv'
BY FailUpdateInv, HooksSame DEF UpdateNotFound, Inv, TypeOK

LEMMA AfterUpdatesInv ==
  ASSUME Inv, NEW c \in Callers, AfterUpdates(c)
  PROVE  Inv'
<1>1. PICK o \in Caller : o = caller[c]
  BY DEF Inv, TypeOK
<1>2. CASE o.good
  <2>1. PICK r \in Caller : r = [o EXCEPT !.pc = "answered"]
    BY DEF Caller, PCs
  <2>2. /\ r.pc = "answered" /\ r.todo = o.todo /\ r.listed = o.listed
        /\ r.errors = o.errors /\ r.created = o.created
    BY <2>1 DEF Caller
  <2>3. caller' = [caller EXCEPT ![c] = r] /\ caller'[c] = r
    BY <1>1, <1>2, <2>1 DEF AfterUpdates, Inv, TypeOK
  <2>4. UpdatesDone(c)'
    BY <1>1, <2>2, <2>3 DEF AfterUpdates, Inv, Done, DoneBy, Listed, At, UpdatesDone,
                           Live, Ours, Right, Moved, NewPath
  <2>5. DoneBy(c)'
    BY <1>1, <2>2, <2>3, <2>4 DEF AfterUpdates, Inv, Done, DoneBy, Listed, At
  <2> QED
    BY <2>3, <2>5, StepOf, HooksSame DEF AfterUpdates, Inv, TypeOK
<1>3. CASE ~o.good
  <2>1. PICK r \in Caller : r = [o EXCEPT !.pc = "create", !.topics = Order, !.created = TRUE]
    BY OrderType DEF Caller, PCs
  <2>2. /\ r.pc = "create" /\ r.todo = o.todo /\ r.listed = o.listed
        /\ r.errors = o.errors /\ r.topics = Order
    BY <2>1 DEF Caller
  <2>3. caller' = [caller EXCEPT ![c] = r] /\ caller'[c] = r
    BY <1>1, <1>3, <2>1 DEF AfterUpdates, Inv, TypeOK
  <2>4. UpdatesDone(c)'
    BY <1>1, <2>2, <2>3 DEF AfterUpdates, Inv, Done, DoneBy, Listed, At, UpdatesDone,
                           Live, Ours, Right, Moved, NewPath
  <2>5. CreationsDone(c)'
    BY <2>2, <2>3 DEF CreationsDone, Waiting, Mapped
  <2>6. DoneBy(c)'
    BY <1>1, <2>2, <2>3, <2>4, <2>5 DEF AfterUpdates, DoneBy, Listed, At
  <2> QED
    BY <2>3, <2>6, StepOf, HooksSame DEF AfterUpdates, Inv, TypeOK
<1> QED
  BY <1>2, <1>3

LEMMA CreateAnsweredInv ==
  ASSUME Inv, NEW c \in Callers, NEW h \in HookIds, CreateAnswered(c, h)
  PROVE  Inv'
<1>1. PICK o \in Caller : o = caller[c] /\ o.pc = "create" /\ o.topics # <<>>
  BY DEF Inv, TypeOK, CreateAnswered, Creating, At
<1>2. PICK r \in Caller : r = [o EXCEPT !.topics = Tail(@), !.attempt = 0]
  <2>1. PICK topics \in Seq(Mapped) : topics = Tail(o.topics)
    BY <1>1, TailOf, Fields
  <2> QED
    BY <2>1, NoAttempt DEF Caller
<1>3. caller' = [caller EXCEPT ![c] = r]
  BY <1>1, <1>2 DEF CreateAnswered, Inv, TypeOK
<1>4. /\ r.pc = o.pc /\ r.todo = o.todo /\ r.listed = o.listed /\ r.errors = o.errors
      /\ r.created = o.created /\ r.topics = Tail(o.topics) /\ r.uncreated = o.uncreated
  BY <1>2 DEF Caller
<1>5. /\ HookStep /\ hooks' \in [HookIds -> Hook \cup {None, Gone}]
      /\ \E t \in Mapped : t = Head(caller[c].topics) /\ Present(t)'
  BY PostedStep DEF CreateAnswered, Inv
<1>6. DoneBy(c)'
  BY <1>1, <1>3, <1>4, <1>5, NextTopic DEF CreateAnswered, Inv, Done
<1> QED
  BY <1>3, <1>5, <1>6, StepOf DEF CreateAnswered, Inv, TypeOK

LEMMA FailCreateInv ==
  ASSUME Inv, HookStep, NEW c \in Callers, Creating(c), FailCreate(c),
         faults' \in 0..MaxFaults, crashes' \in 0..MaxCrashes,
         hooks' \in [HookIds -> Hook \cup {None, Gone}]
  PROVE  Inv'
<1>1. PICK o \in Caller : o = caller[c] /\ o.pc = "create" /\ o.topics # <<>>
  BY DEF Inv, TypeOK, Creating, At
<1>2. PICK r \in Caller : r = [o EXCEPT !.topics = Tail(@), !.attempt = 0,
                                        !.uncreated = @ \cup {Head(o.topics)}]
  <2>1. PICK topics \in Seq(Mapped) : topics = Tail(o.topics)
    BY <1>1, TailOf, Fields
  <2>2. PICK uncreated \in SUBSET Mapped : uncreated = o.uncreated \cup {Head(o.topics)}
    <3>1. o.uncreated \subseteq Mapped /\ Head(o.topics) \in Mapped
      BY <1>1, TailOf, Fields
    <3> QED
      BY <3>1
  <2> QED
    BY <2>1, <2>2, NoAttempt DEF Caller
<1>3. caller' = [caller EXCEPT ![c] = r]
  BY <1>1, <1>2 DEF FailCreate, Inv, TypeOK
<1>4. /\ r.pc = o.pc /\ r.todo = o.todo /\ r.listed = o.listed /\ r.errors = o.errors
      /\ r.created = o.created /\ r.topics = Tail(o.topics)
      /\ r.uncreated = o.uncreated \cup {Head(o.topics)}
  BY <1>2 DEF Caller
<1>5. DoneBy(c)'
  BY <1>1, <1>3, <1>4, NextTopic DEF Inv, Done
<1> QED
  BY <1>3, <1>5, StepOf

LEMMA AllCreatedInv ==
  ASSUME Inv, NEW c \in Callers, AllCreated(c)
  PROVE  Inv'
<1>1. PICK o \in Caller : o = caller[c] /\ o.pc = "create" /\ o.topics = <<>>
  BY DEF Inv, TypeOK, AllCreated, At
<1>2. PICK r \in Caller : r = [o EXCEPT !.pc = "answered"]
  BY DEF Caller, PCs
<1>3. /\ r.pc = "answered" /\ r.todo = o.todo /\ r.listed = o.listed /\ r.errors = o.errors
      /\ r.created = o.created /\ r.topics = o.topics /\ r.uncreated = o.uncreated
  BY <1>2 DEF Caller
<1>4. caller' = [caller EXCEPT ![c] = r] /\ caller'[c] = r
  BY <1>1, <1>2 DEF AllCreated, Inv, TypeOK
<1>5. DoneBy(c) /\ Listed(c) /\ o.todo = {}
  BY <1>1 DEF Inv, Done, DoneBy, Listed, At
<1>6. UpdatesDone(c)'
  BY <1>1, <1>3, <1>4, <1>5 DEF AllCreated, DoneBy, UpdatesDone, Live, Ours, Right, Moved, NewPath
<1>7. r.created => CreationsDone(c)'
  BY <1>1, <1>3, <1>4, <1>5, PresentKept, HooksSame DEF AllCreated, DoneBy, CreationsDone, Waiting
<1>8. DoneBy(c)'
  BY <1>1, <1>3, <1>4, <1>5, <1>6, <1>7 DEF DoneBy, Listed, At
<1> QED
  BY <1>4, <1>8, StepOf, HooksSame DEF AllCreated, Inv, TypeOK

LEMMA ToIdle ==
  ASSUME Inv, HookStep, NEW c \in Callers, caller' = [caller EXCEPT ![c] = Idle],
         faults' \in 0..MaxFaults, crashes' \in 0..MaxCrashes,
         hooks' \in [HookIds -> Hook \cup {None, Gone}]
  PROVE  Inv'
<1>1. PICK r \in Caller : r = Idle /\ r.pc = "idle"
  BY IdleType DEF Idle
<1>2. caller' = [caller EXCEPT ![c] = r]
  BY <1>1
<1>3. DoneBy(c)'
  BY <1>1, <1>2, SameOrIdle DEF Inv, Done
<1> QED
  BY <1>2, <1>3, StepOf

LEMMA GiveUpInv ==
  ASSUME Inv, HookStep, NEW c \in Callers, GiveUp(c),
         faults' \in 0..MaxFaults, crashes' \in 0..MaxCrashes,
         hooks' \in [HookIds -> Hook \cup {None, Gone}]
  PROVE  Inv'
<1>1. CASE At(c, "list") /\ caller' = [caller EXCEPT ![c] = Idle]
  BY <1>1, ToIdle
<1>2. ASSUME NEW h \in HookIds, IsCurrent(c, h), FailUpdate(c, h) PROVE Inv'
  BY <1>2, FailUpdateInv
<1>3. CASE Creating(c) /\ FailCreate(c)
  BY <1>3, FailCreateInv
<1> QED
  BY <1>1, <1>2, <1>3 DEF GiveUp

LEMMA FaultType ==
  ASSUME Inv, Fault
  PROVE  faults' \in 0..MaxFaults
BY WebhookConfigAssumption DEF Inv, TypeOK, Fault

LEMMA RefusedInv ==
  ASSUME Inv, NEW c \in Callers, Refused(c)
  PROVE  Inv'
<1>1. crashes' \in 0..MaxCrashes /\ hooks' \in [HookIds -> Hook \cup {None, Gone}]
  BY DEF Refused, Inv, TypeOK
<1> QED
  BY <1>1, GiveUpInv, HooksSame, FaultType DEF Refused

LEMMA UnansweredInv ==
  ASSUME Inv, NEW c \in Callers, Unanswered(c)
  PROVE  Inv'
<1>1. HookStep /\ hooks' \in [HookIds -> Hook \cup {None, Gone}]
  <2>1. CASE UNCHANGED hooks
    BY <2>1, HooksSame DEF Inv, TypeOK
  <2>2. ASSUME NEW h \in HookIds, hooks' = Updated(h) PROVE <1>1!1 /\ <1>1!2
    <3>1. CASE Live(h)
      BY <2>2, <3>1, UpdatedStep DEF Inv
    <3>2. CASE ~Live(h)
      <4>1. UNCHANGED hooks
        BY <2>2, <3>2 DEF Updated, Inv, TypeOK
      <4> QED
        BY <2>1, <4>1
    <3> QED
      BY <3>1, <3>2
  <2>3. ASSUME NEW h \in HookIds, Creating(c), IsNew(h), hooks' = Posted(c, h)
        PROVE  <1>1!1 /\ <1>1!2
    BY <2>3, PostedStep DEF Inv
  <2> QED
    BY <2>1, <2>2, <2>3 DEF Unanswered
<1>2. faults' \in 0..MaxFaults /\ crashes' \in 0..MaxCrashes
  BY FaultType DEF Unanswered, Inv, TypeOK
<1>3. CASE GiveUp(c)
  BY <1>1, <1>2, <1>3, GiveUpInv
<1>4. CASE caller[c].attempt < MaxRetries /\ caller' = [caller EXCEPT ![c].attempt = @ + 1]
  <2>1. PICK o \in Caller : o = caller[c]
    BY DEF Inv, TypeOK
  <2>2. PICK attempt \in 0..MaxRetries : attempt = o.attempt + 1
    BY <1>4, <2>1, Fields, WebhookConfigAssumption
  <2>3. PICK r \in Caller : r = [o EXCEPT !.attempt = @ + 1]
    BY <2>2 DEF Caller
  <2>4. /\ r.pc = o.pc /\ r.todo = o.todo /\ r.listed = o.listed /\ r.errors = o.errors
        /\ r.created = o.created /\ r.topics = o.topics /\ r.uncreated = o.uncreated
    BY <2>3 DEF Caller
  <2>5. caller' = [caller EXCEPT ![c] = r]
    BY <1>4, <2>1, <2>3 DEF Inv, TypeOK
  <2>6. DoneBy(c)'
    BY <1>1, <2>1, <2>4, <2>5, SameOrIdle DEF Inv, Done
  <2> QED
    BY <1>1, <1>2, <2>5, <2>6, StepOf
<1> QED
  BY <1>3, <1>4 DEF Unanswered

LEMMA CrashInv ==
  ASSUME Inv, NEW c \in Callers, Crash(c)
  PROVE  Inv'
<1>1. /\ faults' \in 0..MaxFaults /\ crashes' \in 0..MaxCrashes
      /\ hooks' \in [HookIds -> Hook \cup {None, Gone}]
  BY WebhookConfigAssumption DEF Crash, Inv, TypeOK
<1> QED
  BY <1>1, ToIdle, HooksSame DEF Crash

LEMMA NextInv ==
  ASSUME Inv, [Next]_vars
  PROVE  Inv'
<1>1. CASE UNCHANGED vars
  <2>1. HookStep /\ TypeOK'
    BY <1>1, HooksSame DEF vars, Inv, TypeOK
  <2>2. \A c \in Callers : DoneBy(c) /\ caller[c].listed \subseteq HookIds
    BY Fields DEF Inv, TypeOK, Done
  <2>3. \A c \in Callers : DoneBy(c)'
    BY <1>1, <2>1, <2>2, DoneKept DEF vars
  <2> QED
    BY <2>1, <2>3 DEF Inv, Done
<1>2. CASE Next
  BY <1>2, DeleteInv, CallInv, ListAnsweredInv, AfterUpdatesInv, AllCreatedInv, UpdateAnsweredInv,
     UpdateNotFoundInv, CreateAnsweredInv, RefusedInv, UnansweredInv, CrashInv DEF Next
<1> QED
  BY <1>1, <1>2

LEMMA InvHolds == Spec => []Inv
BY InitInv, NextInv, PTL DEF Spec

-----------------------------------------------------------------------------
(* How many webhooks a topic has.  Each Right copy of it was made by a     *)
(* request that is no longer among its Creators, or by a fault; a request  *)
(* that finds one is not among them.  A Stale copy, of another server, is  *)
(* the first one; while it is there, only who was Charged a fault for not  *)
(* updating it can create another.                                         *)

RightCopies(t) == {h \in Copies(t) : Right(hooks[h])}
StaleCopies(t) == {h \in Copies(t) : ~Right(hooks[h])}

\* Request r may still create a webhook for t.
Makes(r, t) ==
    \/ r.pc = "update" /\ ~r.good
    \/ r.pc = "create" /\ \E i \in DOMAIN r.topics : r.topics[i] = t
Creators(t)   == {c \in Callers : Makes(caller[c], t)}
Charged(h, t) == {c \in Creators(t) : h \notin caller[c].todo}

Paid(R, C, n) == Cardinality(R) + Cardinality(C) <= n
Budget(t) ==
    /\ IsFiniteSet(RightCopies(t))
    /\ \A g, h \in StaleCopies(t) : g = h
    /\ Paid(RightCopies(t), Creators(t), Cardinality(Callers) + faults)
    /\ \A h \in StaleCopies(t) : Paid(RightCopies(t), Charged(h, t), faults)

\* A request has each topic to create only once.
Once(r) == \A i, j \in DOMAIN r.topics : r.topics[i] = r.topics[j] => i = j
BudgetInv == (\A t \in Mapped : Budget(t)) /\ \A c \in Callers : Once(caller[c])

(* Sums of two cardinalities                                               *)

LEMMA SubCard ==
  ASSUME NEW S, IsFiniteSet(S), NEW T, T \subseteq S
  PROVE  IsFiniteSet(T) /\ Cardinality(T) \in Nat /\ Cardinality(S) \in Nat
         /\ Cardinality(T) <= Cardinality(S)
<1>1. T \in SUBSET S
  OBVIOUS
<1> QED
  BY <1>1, FS_Subset, FS_CardinalityType

LEMMA AddCard ==
  ASSUME NEW S, IsFiniteSet(S), NEW x, NEW T, T \subseteq S \cup {x}
  PROVE  IsFiniteSet(T) /\ Cardinality(T) \in Nat /\ Cardinality(S) \in Nat
         /\ Cardinality(T) <= Cardinality(S) + 1
<1>1. IsFiniteSet(S \cup {x}) /\ Cardinality(S \cup {x}) <= Cardinality(S) + 1
      /\ Cardinality(S) \in Nat
  <2>1. IsFiniteSet(S \cup {x})
        /\ Cardinality(S \cup {x}) = IF x \in S THEN Cardinality(S) ELSE Cardinality(S) + 1
    BY FS_AddElement
  <2>2. Cardinality(S) \in Nat
    BY FS_CardinalityType
  <2> QED
    BY <2>1, <2>2
<1> QED
  BY <1>1, SubCard

LEMMA DropCard ==
  ASSUME NEW S, IsFiniteSet(S), NEW x \in S, NEW T, T \subseteq S \ {x}
  PROVE  IsFiniteSet(T) /\ Cardinality(T) \in Nat /\ Cardinality(S) \in Nat
         /\ Cardinality(T) <= Cardinality(S) - 1
<1>1. IsFiniteSet(S \ {x}) /\ Cardinality(S \ {x}) = Cardinality(S) - 1 /\ Cardinality(S) \in Nat
  BY FS_RemoveElement, FS_CardinalityType
<1> QED
  BY <1>1, SubCard

LEMMA PaidKeep ==
  ASSUME NEW R, IsFiniteSet(R), NEW C, IsFiniteSet(C), NEW n \in Nat, Paid(R, C, n),
         NEW Q, Q \subseteq R, NEW D, D \subseteq C, NEW m \in Nat, m >= n
  PROVE  Paid(Q, D, m)
<1>1. /\ Cardinality(Q) \in Nat /\ Cardinality(R) \in Nat /\ Cardinality(Q) <= Cardinality(R)
      /\ Cardinality(D) \in Nat /\ Cardinality(C) \in Nat /\ Cardinality(D) <= Cardinality(C)
  BY SubCard
<1> QED
  BY <1>1 DEF Paid

LEMMA PaidMore ==
  ASSUME NEW R, IsFiniteSet(R), NEW C, IsFiniteSet(C), NEW n \in Nat, Paid(R, C, n),
         NEW x, NEW Q, Q \subseteq R \cup {x}, NEW D, D \subseteq C
  PROVE  Paid(Q, D, n + 1)
<1>1. /\ Cardinality(Q) \in Nat /\ Cardinality(R) \in Nat /\ Cardinality(Q) <= Cardinality(R) + 1
  BY AddCard
<1>2. /\ Cardinality(D) \in Nat /\ Cardinality(C) \in Nat /\ Cardinality(D) <= Cardinality(C)
  BY SubCard
<1> QED
  BY <1>1, <1>2 DEF Paid

LEMMA PaidCharge ==
  ASSUME NEW R, IsFiniteSet(R), NEW C, IsFiniteSet(C), NEW n \in Nat, Paid(R, C, n),
         NEW x, NEW Q, Q \subseteq R, NEW D, D \subseteq C \cup {x}
  PROVE  Paid(Q, D, n + 1)
<1>1. /\ Cardinality(Q) \in Nat /\ Cardinality(R) \in Nat /\ Cardinality(Q) <= Cardinality(R)
  BY SubCard
<1>2. /\ Cardinality(D) \in Nat /\ Cardinality(C) \in Nat /\ Cardinality(D) <= Cardinality(C) + 1
  BY AddCard
<1> QED
  BY <1>1, <1>2 DEF Paid

LEMMA CreatorsFinite ==
  ASSUME NEW t
  PROVE  IsFiniteSet(Creators(t)) /\ \A h : IsFiniteSet(Charged(h, t))
<1>1. Creators(t) \subseteq Callers /\ \A h : Charged(h, t) \subseteq Callers
  BY DEF Creators, Charged
<1> QED
  BY <1>1, SubCard

(* What a step may do to the budget of a topic                             *)

NoMore(t) ==
    /\ RightCopies(t)' \subseteq RightCopies(t)
    /\ Creators(t)' \subseteq Creators(t)
    /\ \A h \in StaleCopies(t) : Charged(h, t)' \subseteq Charged(h, t)
NoneStale(t) == StaleCopies(t)' \subseteq StaleCopies(t)

LEMMA BudgetKept ==
  ASSUME TypeOK, TypeOK', NEW t, Budget(t), NoneStale(t), NoMore(t), faults' >= faults
  PROVE  Budget(t)'
<1>1. faults \in Nat /\ faults' \in Nat /\ Cardinality(Callers) \in Nat
  BY FS_CardinalityType DEF TypeOK
<1>2. IsFiniteSet(RightCopies(t)')
  BY SubCard DEF Budget, NoMore
<1>3. Paid(RightCopies(t)', Creators(t)', Cardinality(Callers) + faults')
  BY <1>1, PaidKeep, CreatorsFinite DEF Budget, NoMore
<1>4. ASSUME NEW h \in StaleCopies(t)' PROVE Paid(RightCopies(t)', Charged(h, t)', faults')
  BY <1>1, <1>4, PaidKeep, CreatorsFinite DEF Budget, NoMore, NoneStale
<1> QED
  BY <1>2, <1>3, <1>4 DEF Budget, NoneStale, Paid

\* A fault may leave one more right copy, or charge one request.
LEMMA BudgetFault ==
  ASSUME TypeOK, TypeOK', NEW t, Budget(t), NoneStale(t), faults' = faults + 1,
         Creators(t)' \subseteq Creators(t),
         NEW g, RightCopies(t)' \subseteq RightCopies(t) \cup {g},
         \A h \in StaleCopies(t)' :
            \/ Charged(h, t)' \subseteq Charged(h, t)
            \/ /\ RightCopies(t)' \subseteq RightCopies(t)
               /\ \E c : Charged(h, t)' \subseteq Charged(h, t) \cup {c}
  PROVE  Budget(t)'
<1>1. faults \in Nat /\ faults' \in Nat /\ Cardinality(Callers) \in Nat
  BY FS_CardinalityType DEF TypeOK
<1>2. IsFiniteSet(RightCopies(t)')
  BY AddCard DEF Budget
<1>3. Paid(RightCopies(t)', Creators(t)', Cardinality(Callers) + faults + 1)
  <2>1. PICK n \in Nat : n = Cardinality(Callers) + faults
    BY <1>1
  <2>2. /\ IsFiniteSet(RightCopies(t)) /\ IsFiniteSet(Creators(t))
        /\ Paid(RightCopies(t), Creators(t), n)
    BY <2>1, CreatorsFinite DEF Budget
  <2>3. Paid(RightCopies(t)', Creators(t)', n + 1)
    BY <2>2, PaidMore
  <2> QED
    BY <2>1, <2>3
<1>4. ASSUME NEW h \in StaleCopies(t)' PROVE Paid(RightCopies(t)', Charged(h, t)', faults + 1)
  <2>1. Paid(RightCopies(t), Charged(h, t), faults) /\ IsFiniteSet(Charged(h, t))
        /\ IsFiniteSet(RightCopies(t))
    BY <1>4, CreatorsFinite DEF Budget, NoneStale
  <2>2. CASE Charged(h, t)' \subseteq Charged(h, t)
    BY <1>1, <2>1, <2>2, PaidMore
  <2>3. ASSUME RightCopies(t)' \subseteq RightCopies(t),
               NEW c, Charged(h, t)' \subseteq Charged(h, t) \cup {c}
        PROVE  Paid(RightCopies(t)', Charged(h, t)', faults + 1)
    BY <1>1, <2>1, <2>3, PaidCharge
  <2> QED
    BY <1>4, <2>2, <2>3
<1>5. Paid(RightCopies(t)', Creators(t)', Cardinality(Callers) + faults')
  BY <1>1, <1>3 DEF Paid
<1> QED
  BY <1>2, <1>4, <1>5 DEF Budget, NoneStale

\* A request creates a copy and is no longer among those that may.
LEMMA BudgetSwap ==
  ASSUME TypeOK, TypeOK', NEW t, Budget(t), NoneStale(t), faults' = faults,
         NEW g, RightCopies(t)' \subseteq RightCopies(t) \cup {g},
         NEW c \in Creators(t), Creators(t)' \subseteq Creators(t) \ {c},
         \A h \in StaleCopies(t) : c \in Charged(h, t) /\ Charged(h, t)' \subseteq Charged(h, t) \ {c}
  PROVE  Budget(t)'
<1>1. faults \in Nat /\ faults' \in Nat /\ Cardinality(Callers) \in Nat
  BY FS_CardinalityType DEF TypeOK
<1>2. IsFiniteSet(RightCopies(t)')
  BY AddCard DEF Budget
<1>3. Paid(RightCopies(t)', Creators(t)', Cardinality(Callers) + faults')
  <2>1. PICK n \in Nat : n = Cardinality(Callers) + faults
    BY <1>1
  <2>2. /\ IsFiniteSet(RightCopies(t)) /\ IsFiniteSet(Creators(t))
        /\ Paid(RightCopies(t), Creators(t), n)
    BY <2>1, CreatorsFinite DEF Budget
  <2>3. PICK R, Q, C, D : /\ R = RightCopies(t) /\ Q = RightCopies(t)'
                         /\ C = Creators(t) /\ D = Creators(t)'
    OBVIOUS
  <2>4. Paid(R, C, n) /\ IsFiniteSet(R) /\ IsFiniteSet(C) /\ c \in C
        /\ Q \subseteq R \cup {g} /\ D \subseteq C \ {c}
    BY <2>2, <2>3
  <2>6. Cardinality(Q) \in Nat /\ Cardinality(R) \in Nat /\ Cardinality(Q) <= Cardinality(R) + 1
    BY <2>4, AddCard
  <2>7. Cardinality(D) \in Nat /\ Cardinality(C) \in Nat /\ Cardinality(D) <= Cardinality(C) - 1
    BY <2>4, DropCard
  <2>5. Paid(Q, D, n)
    BY <2>4, <2>6, <2>7 DEF Paid
  <2> QED
    BY <2>1, <2>3, <2>5
<1>4. ASSUME NEW h \in StaleCopies(t)' PROVE Paid(RightCopies(t)', Charged(h, t)', faults')
  <2>1. /\ Paid(RightCopies(t), Charged(h, t), faults) /\ IsFiniteSet(Charged(h, t))
        /\ IsFiniteSet(RightCopies(t))
        /\ c \in Charged(h, t) /\ Charged(h, t)' \subseteq Charged(h, t) \ {c}
    BY <1>4, CreatorsFinite DEF Budget, NoneStale
  <2>2. PICK n \in Nat : n = faults
    BY <1>1
  <2>3. PICK R, Q, C, D : /\ R = RightCopies(t) /\ Q = RightCopies(t)'
                         /\ C = Charged(h, t) /\ D = Charged(h, t)'
    OBVIOUS
  <2>4. Paid(R, C, n) /\ IsFiniteSet(R) /\ IsFiniteSet(C) /\ c \in C
        /\ Q \subseteq R \cup {g} /\ D \subseteq C \ {c}
    BY <2>1, <2>2, <2>3
  <2>6. Cardinality(Q) \in Nat /\ Cardinality(R) \in Nat /\ Cardinality(Q) <= Cardinality(R) + 1
    BY <2>4, AddCard
  <2>7. Cardinality(D) \in Nat /\ Cardinality(C) \in Nat /\ Cardinality(D) <= Cardinality(C) - 1
    BY <2>4, DropCard
  <2>5. Paid(Q, D, n)
    BY <2>4, <2>6, <2>7 DEF Paid
  <2> QED
    BY <2>2, <2>3, <2>5
<1> QED
  BY <1>2, <1>3, <1>4 DEF Budget, NoneStale

\* The stale copy becomes right, and the request that did it creates nothing.
LEMMA BudgetRepair ==
  ASSUME TypeOK, TypeOK', NEW t, Budget(t), faults' = faults,
         NEW g \in StaleCopies(t), StaleCopies(t)' = {},
         RightCopies(t)' \subseteq RightCopies(t) \cup {g},
         NEW c \in Callers, c \notin Creators(t)'
  PROVE  Budget(t)'
<1>1. faults \in Nat
  BY DEF TypeOK
<1>2. /\ IsFiniteSet(RightCopies(t)') /\ Cardinality(RightCopies(t)') \in Nat
      /\ Cardinality(RightCopies(t)) \in Nat
      /\ Cardinality(RightCopies(t)') <= Cardinality(RightCopies(t)) + 1
  BY AddCard DEF Budget
<1>3. Cardinality(Charged(g, t)) \in Nat
  BY CreatorsFinite, FS_CardinalityType
<1>4. Cardinality(RightCopies(t)) <= faults
  BY <1>1, <1>2, <1>3 DEF Budget, Paid
<1>5. Creators(t)' \subseteq Callers \ {c}
  BY DEF Creators
<1>6. /\ Cardinality(Creators(t)') \in Nat /\ Cardinality(Callers) \in Nat
      /\ Cardinality(Creators(t)') <= Cardinality(Callers) - 1
  BY <1>5, DropCard
<1>7. Paid(RightCopies(t)', Creators(t)', Cardinality(Callers) + faults')
  BY <1>1, <1>2, <1>4, <1>6 DEF Paid
<1> QED
  BY <1>2, <1>7 DEF Budget

(* What the steps do to the copies of a topic                              *)

RightOf(f, t) == {h \in HookIds : f[h] \in Hook /\ f[h].topic = t /\ Right(f[h])}
StaleOf(f, t) == {h \in HookIds : f[h] \in Hook /\ f[h].topic = t /\ ~Right(f[h])}

LEMMA CopiesAre ==
  ASSUME NEW t
  PROVE  /\ RightCopies(t) = RightOf(hooks, t) /\ RightCopies(t)' = RightOf(hooks', t)
         /\ StaleCopies(t) = StaleOf(hooks, t) /\ StaleCopies(t)' = StaleOf(hooks', t)
<1>1. RightCopies(t) = RightOf(hooks, t) /\ StaleCopies(t) = StaleOf(hooks, t)
  BY DEF RightCopies, StaleCopies, Copies, Live, RightOf, StaleOf
<1>2. RightCopies(t)' = RightOf(hooks', t)
  BY DEF RightCopies, Copies, Live, RightOf, Right, Moved, NewPath
<1>3. StaleCopies(t)' = StaleOf(hooks', t)
  BY DEF StaleCopies, Copies, Live, StaleOf, Right, Moved, NewPath
<1> QED
  BY <1>1, <1>2, <1>3

LEMMA CopiesSame ==
  ASSUME NEW t, UNCHANGED hooks
  PROVE  RightCopies(t)' = RightCopies(t) /\ StaleCopies(t)' = StaleCopies(t)
BY CopiesAre

\* A webhook that is deleted, or becomes k.
LEMMA CopiesChanged ==
  ASSUME NEW t, NEW f, NEW g \in HookIds, NEW k, NEW e,
         \A h \in HookIds : e[h] = IF h = g THEN k ELSE f[h]
  PROVE  /\ RightOf(e, t) \subseteq RightOf(f, t) \cup {g}
         /\ k \notin Hook => RightOf(e, t) \subseteq RightOf(f, t)
         /\ k \notin Hook \/ Right(k) => StaleOf(e, t) \subseteq StaleOf(f, t) \ {g}
         /\ k.topic # t => RightOf(e, t) \subseteq RightOf(f, t)
BY DEF RightOf, StaleOf

LEMMA CopiesDeleted ==
  ASSUME TypeOK, NEW t, NEW g \in HookIds, DeleteByHand(g)
  PROVE  RightCopies(t)' \subseteq RightCopies(t) /\ NoneStale(t)
<1>1. \A h \in HookIds : hooks'[h] = IF h = g THEN Gone ELSE hooks[h]
  BY DEF DeleteByHand, TypeOK
<1>2. RightOf(hooks', t) \subseteq RightOf(hooks, t) /\ StaleOf(hooks', t) \subseteq StaleOf(hooks, t)
  BY <1>1, NotAHook DEF RightOf, StaleOf
<1> QED
  BY <1>2, CopiesAre DEF NoneStale

LEMMA CopiesUpdated ==
  ASSUME TypeOK, NEW t, NEW g \in HookIds, Live(g), hooks' = Updated(g)
  PROVE  /\ RightCopies(t)' \subseteq RightCopies(t) \cup {g}
         /\ StaleCopies(t)' \subseteq StaleCopies(t) \ {g}
         /\ g \notin StaleCopies(t) => RightCopies(t)' \subseteq RightCopies(t)
<1>1. PICK k \in Hook : k = hooks[g]
  BY DEF Live
<1>2. Moved(k) \in Hook /\ Right(Moved(k)) /\ Moved(k).topic = k.topic
  BY MovedType
<1>3. \A h \in HookIds : hooks'[h] = IF h = g THEN Moved(k) ELSE hooks[h]
  BY <1>1 DEF Updated, Live, TypeOK
<1>4. /\ RightOf(hooks', t) \subseteq RightOf(hooks, t) \cup {g}
      /\ StaleOf(hooks', t) \subseteq StaleOf(hooks, t) \ {g}
      /\ k.topic # t => RightOf(hooks', t) \subseteq RightOf(hooks, t)
  BY <1>2, <1>3, CopiesChanged
<1>5. k.topic = t => g \in RightOf(hooks, t) \/ g \in StaleOf(hooks, t)
  BY <1>1 DEF RightOf, StaleOf
<1> QED
  BY <1>4, <1>5, CopiesAre

LEMMA CopiesPosted ==
  ASSUME TypeOK, NEW t, NEW c \in Callers, Creating(c), NEW g \in HookIds, hooks' = Posted(c, g)
  PROVE  /\ RightCopies(t)' \subseteq RightCopies(t) \cup {g} /\ NoneStale(t)
         /\ t # Head(caller[c].topics) => RightCopies(t)' \subseteq RightCopies(t)
<1>1. PICK u \in Mapped : u = Head(caller[c].topics)
  BY Fields, TailOf DEF TypeOK, Creating
<1>2. PICK k \in Hook : k = Created(u) /\ Right(k) /\ k.topic = u
  BY CreatedType
<1>3. \A h \in HookIds : hooks'[h] = IF h = g THEN k ELSE hooks[h]
  BY <1>1, <1>2 DEF Posted, TypeOK
<1>4. /\ RightOf(hooks', t) \subseteq RightOf(hooks, t) \cup {g}
      /\ StaleOf(hooks', t) \subseteq StaleOf(hooks, t) \ {g}
      /\ k.topic # t => RightOf(hooks', t) \subseteq RightOf(hooks, t)
  BY <1>2, <1>3, CopiesChanged
<1> QED
  BY <1>1, <1>2, <1>4, CopiesAre DEF NoneStale

(* What the steps do to those who may create                               *)

LEMMA CreatorsNext ==
  ASSUME NEW t
  PROVE  /\ \A d : d \in Creators(t)' <=> d \in Callers /\ Makes(caller'[d], t)
         /\ \A h, d : d \in Charged(h, t)' <=> d \in Creators(t)' /\ h \notin caller'[d].todo
BY DEF Creators, Charged, Makes

LEMMA CallerStep ==
  ASSUME TypeOK, NEW t, NEW c \in Callers, NEW r, caller' = [caller EXCEPT ![c] = r]
  PROVE  /\ (Makes(r, t) => Makes(caller[c], t)) => Creators(t)' \subseteq Creators(t)
         /\ \A h : Charged(h, t)' \subseteq Charged(h, t) \cup {c}
         /\ \A h : (Makes(r, t) /\ h \notin r.todo => Makes(caller[c], t) /\ h \notin caller[c].todo)
                   => Charged(h, t)' \subseteq Charged(h, t)
         /\ ~Makes(r, t) => /\ Creators(t)' \subseteq Creators(t) \ {c}
                            /\ \A h : Charged(h, t)' \subseteq Charged(h, t) \ {c}
<1>1. \A d \in Callers : caller'[d] = IF d = c THEN r ELSE caller[d]
  BY DEF TypeOK
<1>2. /\ \A d : d \in Creators(t) <=> d \in Callers /\ Makes(caller[d], t)
      /\ \A h, d : d \in Charged(h, t) <=> d \in Creators(t) /\ h \notin caller[d].todo
  BY DEF Creators, Charged
<1> QED
  BY <1>1, <1>2, CreatorsNext

LEMMA CreatorsSame ==
  ASSUME NEW t, UNCHANGED caller
  PROVE  Creators(t)' = Creators(t) /\ \A h : Charged(h, t)' = Charged(h, t)
BY CreatorsNext DEF Creators, Charged

\* A request that is done, or not begun, creates nothing.
LEMMA DoneMakes ==
  ASSUME NEW t, NEW r, r.pc \in {"idle", "list", "answered"}
  PROVE  ~Makes(r, t)
BY DEF Makes

Ends(c) ==
    /\ caller'[c].pc \in {"idle", "list", "answered"}
    /\ \A d \in Callers \ {c} : caller'[d] = caller[d]

LEMMA IdleFewer ==
  ASSUME NEW t, NEW c \in Callers, Ends(c)
  PROVE  Creators(t)' \subseteq Creators(t) /\ \A h : Charged(h, t)' \subseteq Charged(h, t)
<1>1. ~Makes(caller'[c], t)
  BY DoneMakes DEF Ends
<1>2. /\ \A d : d \in Creators(t) <=> d \in Callers /\ Makes(caller[d], t)
      /\ \A h, d : d \in Charged(h, t) <=> d \in Creators(t) /\ h \notin caller[d].todo
  BY DEF Creators, Charged
<1> QED
  BY <1>1, <1>2, CreatorsNext DEF Ends

LEMMA IdleBudget ==
  ASSUME TypeOK, TypeOK', NEW t, Budget(t), NEW c \in Callers, Ends(c),
         UNCHANGED hooks, faults' >= faults
  PROVE  Budget(t)'
<1>1. NoneStale(t) /\ RightCopies(t)' \subseteq RightCopies(t)
  BY CopiesSame DEF NoneStale
<1>2. /\ Creators(t)' \subseteq Creators(t)
      /\ \A h \in StaleCopies(t) : Charged(h, t)' \subseteq Charged(h, t)
  BY IdleFewer
<1> QED
  BY <1>1, <1>2, BudgetKept DEF NoMore

(* The steps, for one topic                                                *)

LEMMA ListBudget ==
  ASSUME Inv, TypeOK', NEW t \in Mapped, Budget(t), NEW c \in Callers, ListAnswered(c)
  PROVE  Budget(t)'
<1> DEFINE all == {h \in HookIds : Live(h)}
           todo == {h \in all : Ours(hooks[h]) /\ ~Right(hooks[h])}
           good == \E h \in all : Ours(hooks[h]) /\ Right(hooks[h])
<1>1. PICK r : r = [Idle EXCEPT !.pc = "update", !.listed = all, !.todo = todo, !.good = good]
  OBVIOUS
<1>2. caller' = [caller EXCEPT ![c] = r] /\ UNCHANGED <<hooks, faults>> /\ TypeOK
  BY <1>1 DEF ListAnswered, Inv
<1>3. r.pc = "update" /\ r.todo = todo /\ (r.good <=> good)
  BY <1>1 DEF Idle
<1>4. \A h \in Copies(t) : h \in all /\ Ours(hooks[h])
  BY DEF Copies, Ours
<1>5. \A h \in StaleCopies(t) : h \in r.todo
  BY <1>3, <1>4 DEF StaleCopies
<1>6. \A h \in StaleCopies(t) : Charged(h, t)' \subseteq Charged(h, t)
  BY <1>2, <1>5, CallerStep
<1>7. RightCopies(t)' = RightCopies(t) /\ StaleCopies(t)' = StaleCopies(t)
  BY <1>2, CopiesSame
<1>8. CASE RightCopies(t) # {}
  <2>1. r.good
    BY <1>3, <1>4, <1>8 DEF RightCopies
  <2>2. ~Makes(r, t)
    BY <1>3, <2>1 DEF Makes
  <2>3. Creators(t)' \subseteq Creators(t) \ {c}
    BY <1>2, <2>2, CallerStep
  <2>4. faults' >= faults
    BY <1>2 DEF TypeOK
  <2> QED
    BY <1>2, <1>6, <1>7, <2>3, <2>4, BudgetKept DEF NoMore, NoneStale
<1>9. CASE RightCopies(t) = {}
  <2>1. Creators(t)' \subseteq Callers
    BY DEF Creators
  <2>2. /\ Cardinality(Creators(t)') \in Nat /\ Cardinality(Callers) \in Nat
        /\ Cardinality(Creators(t)') <= Cardinality(Callers)
    BY <2>1, SubCard
  <2>3. IsFiniteSet(RightCopies(t)') /\ Cardinality(RightCopies(t)') = 0
    BY <1>7, <1>9, FS_EmptySet
  <2>4. faults \in Nat /\ faults' = faults
    BY <1>2 DEF TypeOK
  <2>5. Paid(RightCopies(t)', Creators(t)', Cardinality(Callers) + faults')
    BY <2>2, <2>3, <2>4 DEF Paid
  <2>6. ASSUME NEW h \in StaleCopies(t) PROVE Paid(RightCopies(t)', Charged(h, t)', faults')
    <3>1. Paid(RightCopies(t), Charged(h, t), faults) /\ IsFiniteSet(Charged(h, t))
      BY <2>6, CreatorsFinite DEF Budget
    <3>2. IsFiniteSet(RightCopies(t)) /\ RightCopies(t)' \subseteq RightCopies(t)
      BY <1>7 DEF Budget
    <3>3. Charged(h, t)' \subseteq Charged(h, t) /\ faults' >= faults /\ faults' \in Nat
      BY <1>6, <2>4, <2>6
    <3> QED
      BY <2>4, <3>1, <3>2, <3>3, PaidKeep
  <2> QED
    BY <1>7, <2>3, <2>5, <2>6 DEF Budget
<1> QED
  BY <1>8, <1>9

LEMMA AfterUpdatesBudget ==
  ASSUME Inv, TypeOK', NEW t \in Mapped, Budget(t), NEW c \in Callers, AfterUpdates(c)
  PROVE  Budget(t)'
<1>1. PICK o \in Caller : o = caller[c] /\ o.pc = "update"
  BY DEF AfterUpdates, At, Inv, TypeOK
<1>2. UNCHANGED <<hooks, faults>> /\ TypeOK /\ faults' >= faults
  BY DEF AfterUpdates, Inv, TypeOK
<1>3. CASE o.good
  <2>1. PICK r : r = [o EXCEPT !.pc = "answered"]
    OBVIOUS
  <2>2. caller' = [caller EXCEPT ![c] = r] /\ r.pc = "answered"
    BY <1>1, <1>3, <2>1 DEF AfterUpdates, Inv, TypeOK, Caller
  <2>4. Ends(c)
    BY <1>2, <2>2 DEF Ends, TypeOK
  <2> QED
    BY <1>2, <2>4, IdleBudget
<1>4. CASE ~o.good
  <2>1. PICK r : r = [o EXCEPT !.pc = "create", !.topics = Order, !.created = TRUE]
    OBVIOUS
  <2>2. caller' = [caller EXCEPT ![c] = r] /\ r.todo = o.todo
    BY <1>1, <1>4, <2>1 DEF AfterUpdates, Inv, TypeOK, Caller
  <2>3. Makes(o, t)
    BY <1>1, <1>4 DEF Makes
  <2>4. /\ Creators(t)' \subseteq Creators(t)
        /\ \A h : Charged(h, t)' \subseteq Charged(h, t)
    BY <1>1, <1>2, <2>2, <2>3, CallerStep
  <2> QED
    BY <1>2, <2>4, CopiesSame, BudgetKept DEF NoMore, NoneStale
<1> QED
  BY <1>3, <1>4

LEMMA UpdateBudget ==
  ASSUME Inv, TypeOK', NEW t \in Mapped, Budget(t), NEW c \in Callers, NEW g \in HookIds,
         UpdateAnswered(c, g)
  PROVE  Budget(t)'
<1>1. PICK o \in Caller : o = caller[c]
  BY DEF Inv, TypeOK
<1>2. PICK r : r = [o EXCEPT !.todo = @ \ {g}, !.good = TRUE, !.attempt = 0]
  OBVIOUS
<1>3. caller' = [caller EXCEPT ![c] = r] /\ r.pc = "update" /\ r.good = TRUE
  BY <1>1, <1>2 DEF UpdateAnswered, IsCurrent, At, Inv, TypeOK, Caller
<1>4. ~Makes(r, t)
  BY <1>3 DEF Makes
<1>5. TypeOK /\ Live(g) /\ hooks' = Updated(g) /\ faults' = faults /\ faults' >= faults
  BY DEF UpdateAnswered, Inv, TypeOK
<1>6. /\ Creators(t)' \subseteq Creators(t) \ {c}
      /\ \A h : Charged(h, t)' \subseteq Charged(h, t) \ {c}
  BY <1>3, <1>4, <1>5, CallerStep
<1>7. /\ RightCopies(t)' \subseteq RightCopies(t) \cup {g}
      /\ StaleCopies(t)' \subseteq StaleCopies(t) \ {g}
      /\ g \notin StaleCopies(t) => RightCopies(t)' \subseteq RightCopies(t)
  BY <1>5, CopiesUpdated
<1>8. CASE g \in StaleCopies(t)
  <2>1. StaleCopies(t)' = {}
    BY <1>7, <1>8 DEF Budget
  <2>2. c \notin Creators(t)'
    BY <1>6
  <2> QED
    BY <1>5, <1>7, <1>8, <2>1, <2>2, BudgetRepair
<1>9. CASE g \notin StaleCopies(t)
  <2>1. NoneStale(t) /\ NoMore(t)
    BY <1>6, <1>7, <1>9 DEF NoMore, NoneStale
  <2> QED
    BY <1>5, <2>1, BudgetKept
<1> QED
  BY <1>8, <1>9


\* What a step may leave of what request c has still to create and update.
Fewer(c, t) ==
    /\ Creators(t)' \subseteq Creators(t)
    /\ \A h \in HookIds : Charged(h, t)' \subseteq Charged(h, t)
AllButOne(c, g, t) ==
    /\ Creators(t)' \subseteq Creators(t)
    /\ \A h \in HookIds \ {g} : Charged(h, t)' \subseteq Charged(h, t)
    /\ Charged(g, t)' \subseteq Charged(g, t) \cup {c}

LEMMA FailUpdateCreators ==
  ASSUME TypeOK, NEW t, NEW c \in Callers, NEW g \in HookIds, IsCurrent(c, g), FailUpdate(c, g)
  PROVE  AllButOne(c, g, t)
<1>1. PICK o \in Caller : o = caller[c]
  BY DEF TypeOK
<1>2. PICK r : r = [o EXCEPT !.todo = @ \ {g}, !.attempt = 0, !.errors = @ \cup {g}]
  OBVIOUS
<1>3. caller' = [caller EXCEPT ![c] = r]
  BY <1>1, <1>2 DEF FailUpdate, TypeOK
<1>4. r.pc = o.pc /\ r.todo = o.todo \ {g} /\ r.good = o.good /\ r.topics = o.topics
  BY <1>2 DEF Caller
<1>5. Makes(r, t) <=> Makes(o, t)
  BY <1>4 DEF Makes
<1> QED
  BY <1>1, <1>3, <1>4, <1>5, CallerStep DEF AllButOne

\* The first topic is dealt with.
LEMMA TailMakes ==
  ASSUME TypeOK, NEW t, NEW c \in Callers, Creating(c), Once(caller[c]), NEW r,
         r.pc = "create", r.topics = Tail(caller[c].topics)
  PROVE  /\ Makes(r, t) => Makes(caller[c], t) /\ t # Head(caller[c].topics)
         /\ t = Head(caller[c].topics) => Makes(caller[c], t)
<1>1. PICK q \in Seq(Mapped) : q = caller[c].topics /\ q # <<>> /\ caller[c].pc = "create"
  BY Fields DEF TypeOK, Creating, At
<1>2. Head(q) = q[1] /\ 1 \in DOMAIN q
  BY <1>1
<1>3. ASSUME NEW j \in DOMAIN Tail(q), Tail(q)[j] = t
      PROVE  j + 1 \in DOMAIN q /\ j + 1 # 1 /\ q[j + 1] = t
  BY <1>1, <1>3
<1>4. Makes(r, t) => \E j \in DOMAIN Tail(q) : Tail(q)[j] = t
  BY <1>1 DEF Makes
<1>5. \A i \in DOMAIN q : q[i] = t => Makes(caller[c], t)
  BY <1>1 DEF Makes
<1>6. \A i, j \in DOMAIN q : q[i] = q[j] => i = j
  BY <1>1 DEF Once
<1>7. ASSUME Makes(r, t) PROVE Makes(caller[c], t) /\ t # q[1]
  <2>1. PICK j \in DOMAIN Tail(q) : Tail(q)[j] = t
    BY <1>4, <1>7
  <2>2. j + 1 \in DOMAIN q /\ j + 1 # 1 /\ q[j + 1] = t
    BY <1>3, <2>1
  <2> QED
    BY <1>2, <1>5, <1>6, <2>2
<1> QED
  BY <1>1, <1>2, <1>5, <1>7

LEMMA TailOnce ==
  ASSUME NEW q \in Seq(Mapped), q # <<>>, \A i, j \in DOMAIN q : q[i] = q[j] => i = j
  PROVE  \A i, j \in DOMAIN Tail(q) : Tail(q)[i] = Tail(q)[j] => i = j
<1> SUFFICES ASSUME NEW i \in DOMAIN Tail(q), NEW j \in DOMAIN Tail(q), Tail(q)[i] = Tail(q)[j]
             PROVE  i = j
  OBVIOUS
<1>1. i + 1 \in DOMAIN q /\ j + 1 \in DOMAIN q /\ i \in Nat /\ j \in Nat
      /\ q[i + 1] = Tail(q)[i] /\ q[j + 1] = Tail(q)[j]
  OBVIOUS
<1> QED
  BY <1>1

LEMMA FailCreateCreators ==
  ASSUME TypeOK, NEW t, NEW c \in Callers, Creating(c), Once(caller[c]), FailCreate(c)
  PROVE  Fewer(c, t)
<1>1. PICK o \in Caller : o = caller[c] /\ o.pc = "create"
  BY DEF TypeOK, Creating, At
<1>2. PICK r : r = [o EXCEPT !.topics = Tail(@), !.attempt = 0,
                             !.uncreated = @ \cup {Head(o.topics)}]
  OBVIOUS
<1>3. caller' = [caller EXCEPT ![c] = r]
  BY <1>1, <1>2 DEF FailCreate, TypeOK
<1>4. r.pc = "create" /\ r.todo = o.todo /\ r.topics = Tail(o.topics)
  BY <1>1, <1>2 DEF Caller
<1>5. Makes(r, t) => Makes(o, t)
  BY <1>1, <1>4, TailMakes
<1> QED
  BY <1>1, <1>3, <1>4, <1>5, CallerStep DEF Fewer

LEMMA CreateBudget ==
  ASSUME Inv, TypeOK', NEW t \in Mapped, Budget(t), NEW c \in Callers, Once(caller[c]),
         NEW g \in HookIds, CreateAnswered(c, g)
  PROVE  Budget(t)'
<1>1. PICK o \in Caller : o = caller[c] /\ o.pc = "create"
  BY DEF CreateAnswered, Creating, At, Inv, TypeOK
<1>2. PICK r : r = [o EXCEPT !.topics = Tail(@), !.attempt = 0]
  OBVIOUS
<1>3. caller' = [caller EXCEPT ![c] = r]
  BY <1>1, <1>2 DEF CreateAnswered, Inv, TypeOK
<1>4. r.pc = "create" /\ r.todo = o.todo /\ r.topics = Tail(o.topics)
  BY <1>1, <1>2 DEF Caller
<1>5. TypeOK /\ Creating(c) /\ hooks' = Posted(c, g) /\ faults' = faults /\ faults' >= faults
  BY DEF CreateAnswered, Inv, TypeOK
<1>6. /\ RightCopies(t)' \subseteq RightCopies(t) \cup {g} /\ NoneStale(t)
      /\ t # Head(o.topics) => RightCopies(t)' \subseteq RightCopies(t)
  BY <1>1, <1>5, CopiesPosted
<1>7. /\ Makes(r, t) => Makes(o, t) /\ t # Head(o.topics)
      /\ t = Head(o.topics) => Makes(o, t)
  BY <1>1, <1>4, <1>5, TailMakes
<1>8. CASE t = Head(o.topics)
  <2>1. ~Makes(r, t) /\ Makes(o, t)
    BY <1>7, <1>8
  <2>2. /\ Creators(t)' \subseteq Creators(t) \ {c}
        /\ \A h : Charged(h, t)' \subseteq Charged(h, t) \ {c}
    BY <1>3, <1>5, <2>1, CallerStep
  <2>3. o.todo = {}
    BY <1>1 DEF Inv, Done, DoneBy, At
  <2>4. c \in Creators(t) /\ \A h : c \in Charged(h, t)
    BY <1>1, <2>1, <2>3 DEF Creators, Charged
  <2> QED
    BY <1>5, <1>6, <2>2, <2>4, BudgetSwap
<1>9. CASE t # Head(o.topics)
  <2>1. Creators(t)' \subseteq Creators(t) /\ \A h : Charged(h, t)' \subseteq Charged(h, t)
    BY <1>1, <1>3, <1>4, <1>5, <1>7, CallerStep
  <2>2. NoMore(t)
    BY <1>6, <1>9, <2>1 DEF NoMore
  <2> QED
    BY <1>5, <1>6, <2>2, BudgetKept
<1> QED
  BY <1>8, <1>9


\* A fault, with what the shop did and what the request makes of it.
LEMMA FaultBudget ==
  ASSUME Inv, TypeOK', NEW t \in Mapped, Budget(t), NEW c \in Callers, Fault,
         \/ UNCHANGED hooks
         \/ \E h \in HookIds : IsCurrent(c, h) /\ hooks' = Updated(h)
         \/ \E h \in HookIds : Creating(c) /\ hooks' = Posted(c, h),
         \/ Fewer(c, t)
         \/ \E h \in HookIds : IsCurrent(c, h) /\ AllButOne(c, h, t)
  PROVE  Budget(t)'
<1>1. TypeOK /\ faults' = faults + 1
  BY DEF Fault, Inv
<1>2. StaleCopies(t) \subseteq HookIds /\ StaleCopies(t)' \subseteq HookIds
  BY DEF StaleCopies, Copies
<1>3. Creators(t)' \subseteq Creators(t)
  BY DEF Fewer, AllButOne
<1>4. CASE UNCHANGED hooks \/ \E h \in HookIds : hooks' = Updated(h) /\ ~Live(h)
  <2>1. UNCHANGED hooks
    BY <1>1, <1>4 DEF Updated, TypeOK
  <2>2. RightCopies(t)' = RightCopies(t) /\ NoneStale(t)
    BY <2>1, CopiesSame DEF NoneStale
  <2>3. PICK g : RightCopies(t)' \subseteq RightCopies(t) \cup {g}
    BY <2>2
  <2>4. \A h \in StaleCopies(t)' : \E d : Charged(h, t)' \subseteq Charged(h, t) \cup {d}
    BY <1>2 DEF Fewer, AllButOne
  <2> QED
    BY <1>1, <1>3, <2>2, <2>3, <2>4, BudgetFault
<1>5. ASSUME NEW g \in HookIds, IsCurrent(c, g), hooks' = Updated(g), Live(g)
      PROVE  Budget(t)'
  <2>1. /\ RightCopies(t)' \subseteq RightCopies(t) \cup {g}
        /\ StaleCopies(t)' \subseteq StaleCopies(t) \ {g}
    BY <1>1, <1>5, CopiesUpdated
  <2>2. \A h \in HookIds : IsCurrent(c, h) => h = g
    <3> SUFFICES ASSUME NEW h \in HookIds, IsCurrent(c, h) PROVE h = g
      OBVIOUS
    <3>1. g <= h /\ h <= g /\ g \in Nat /\ h \in Nat
      BY <1>5 DEF IsCurrent
    <3> QED
      BY <3>1
  <2>3. \A h \in HookIds \ {g} : Charged(h, t)' \subseteq Charged(h, t)
    BY <2>2 DEF Fewer, AllButOne
  <2>4. \A h \in StaleCopies(t)' : Charged(h, t)' \subseteq Charged(h, t)
    BY <1>2, <2>1, <2>3
  <2> QED
    BY <1>1, <1>3, <2>1, <2>4, BudgetFault DEF NoneStale
<1>6. ASSUME NEW g \in HookIds, Creating(c), hooks' = Posted(c, g) PROVE Budget(t)'
  <2>1. RightCopies(t)' \subseteq RightCopies(t) \cup {g} /\ NoneStale(t)
    BY <1>1, <1>6, CopiesPosted
  <2>2. \A h \in HookIds : ~IsCurrent(c, h)
    BY <1>6 DEF IsCurrent, Creating, At
  <2>3. \A h \in StaleCopies(t)' : Charged(h, t)' \subseteq Charged(h, t)
    BY <1>2, <2>2 DEF Fewer
  <2> QED
    BY <1>1, <1>3, <2>1, <2>3, BudgetFault
<1> QED
  BY <1>4, <1>5, <1>6

LEMMA IdleEnds ==
  ASSUME TypeOK, NEW c \in Callers, caller' = [caller EXCEPT ![c] = Idle] PROVE Ends(c)
<1>1. Idle.pc \in {"idle", "list", "answered"}
  BY DEF Idle
<1> QED
  BY <1>1 DEF Ends, TypeOK

LEMMA GiveUpCreators ==
  ASSUME TypeOK, NEW t, NEW c \in Callers, Once(caller[c]), GiveUp(c)
  PROVE  Fewer(c, t) \/ \E h \in HookIds : IsCurrent(c, h) /\ AllButOne(c, h, t)
<1>1. CASE caller' = [caller EXCEPT ![c] = Idle]
  BY <1>1, IdleEnds, IdleFewer DEF Fewer
<1>2. CASE \E h \in HookIds : IsCurrent(c, h) /\ FailUpdate(c, h)
  BY <1>2, FailUpdateCreators
<1>3. CASE Creating(c) /\ FailCreate(c)
  BY <1>3, FailCreateCreators
<1> QED
  BY <1>1, <1>2, <1>3 DEF GiveUp

LEMMA RetryFewer ==
  ASSUME TypeOK, NEW t, NEW c \in Callers, caller' = [caller EXCEPT ![c].attempt = @ + 1]
  PROVE  Fewer(c, t)
<1>1. PICK o \in Caller : o = caller[c]
  BY DEF TypeOK
<1>2. PICK r : r = [o EXCEPT !.attempt = @ + 1]
  OBVIOUS
<1>3. caller' = [caller EXCEPT ![c] = r]
  BY <1>1, <1>2 DEF TypeOK
<1>4. r.pc = o.pc /\ r.todo = o.todo /\ r.good = o.good /\ r.topics = o.topics
  BY <1>2 DEF Caller
<1>5. Makes(r, t) <=> Makes(o, t)
  BY <1>4 DEF Makes
<1> QED
  BY <1>1, <1>3, <1>4, <1>5, CallerStep DEF Fewer

LEMMA StepBudget ==
  ASSUME Inv, TypeOK', NEW t \in Mapped, Budget(t), \A c \in Callers : Once(caller[c]), Next
  PROVE  Budget(t)'
<1>0. TypeOK /\ faults \in Nat
  BY DEF Inv, TypeOK
<1>1. ASSUME NEW g \in HookIds, DeleteByHand(g) PROVE Budget(t)'
  <2>1. RightCopies(t)' \subseteq RightCopies(t) /\ NoneStale(t)
    BY <1>0, <1>1, CopiesDeleted
  <2>2. UNCHANGED caller /\ faults' >= faults
    BY <1>0, <1>1 DEF DeleteByHand
  <2>3. NoMore(t)
    BY <2>1, <2>2, CreatorsSame DEF NoMore
  <2> QED
    BY <1>0, <2>1, <2>2, <2>3, BudgetKept
<1>2. ASSUME NEW c \in Callers, Call(c) \/ AllCreated(c) \/ Crash(c) PROVE Budget(t)'
  <2>1. CASE Call(c)
    <3>1. PICK r : r = [Idle EXCEPT !.pc = "list"]
      OBVIOUS
    <3>2. r.pc \in {"idle", "list", "answered"} /\ caller' = [caller EXCEPT ![c] = r]
      BY <2>1, <3>1 DEF Call, Idle
    <3>3. Ends(c)
      BY <1>0, <3>2 DEF Ends, TypeOK
    <3> QED
      BY <1>0, <2>1, <3>3, IdleBudget DEF Call
  <2>2. CASE AllCreated(c)
    <3>1. PICK r : r = [caller[c] EXCEPT !.pc = "answered"]
      OBVIOUS
    <3>2. r.pc \in {"idle", "list", "answered"} /\ caller' = [caller EXCEPT ![c] = r]
      BY <1>0, <2>2, <3>1 DEF AllCreated, TypeOK, Caller
    <3>3. Ends(c)
      BY <1>0, <3>2 DEF Ends, TypeOK
    <3> QED
      BY <1>0, <2>2, <3>3, IdleBudget DEF AllCreated
  <2>3. CASE Crash(c)
    <3>1. Ends(c)
      BY <1>0, <2>3, IdleEnds DEF Crash
    <3>2. UNCHANGED hooks /\ faults' >= faults
      BY <1>0, <2>3 DEF Crash
    <3> QED
      BY <1>0, <3>1, <3>2, IdleBudget
  <2> QED
    BY <1>2, <2>1, <2>2, <2>3
<1>3. ASSUME NEW c \in Callers, ListAnswered(c) \/ AfterUpdates(c) PROVE Budget(t)'
  BY <1>3, ListBudget, AfterUpdatesBudget
<1>4. ASSUME NEW c \in Callers, NEW g \in HookIds, UpdateAnswered(c, g) \/ CreateAnswered(c, g)
      PROVE  Budget(t)'
  BY <1>4, UpdateBudget, CreateBudget
<1>5. ASSUME NEW c \in Callers, NEW g \in HookIds, UpdateNotFound(c, g) PROVE Budget(t)'
  <2>1. AllButOne(c, g, t) /\ UNCHANGED hooks /\ faults' >= faults
    BY <1>0, <1>5, FailUpdateCreators DEF UpdateNotFound
  <2>2. g \notin StaleCopies(t) /\ StaleCopies(t) \subseteq HookIds
    BY <1>5 DEF UpdateNotFound, StaleCopies, Copies
  <2>3. NoMore(t) /\ NoneStale(t)
    BY <2>1, <2>2, CopiesSame DEF AllButOne, NoMore, NoneStale
  <2> QED
    BY <1>0, <2>1, <2>3, BudgetKept
<1>6. ASSUME NEW c \in Callers, Refused(c) PROVE Budget(t)'
  <2>1. Fewer(c, t) \/ \E h \in HookIds : IsCurrent(c, h) /\ AllButOne(c, h, t)
    BY <1>0, <1>6, GiveUpCreators DEF Refused
  <2> QED
    BY <1>6, <2>1, FaultBudget DEF Refused
<1>7. ASSUME NEW c \in Callers, Unanswered(c) PROVE Budget(t)'
  <2>1. Fewer(c, t) \/ \E h \in HookIds : IsCurrent(c, h) /\ AllButOne(c, h, t)
    BY <1>0, <1>7, GiveUpCreators, RetryFewer DEF Unanswered
  <2>2. \/ UNCHANGED hooks
        \/ \E h \in HookIds : IsCurrent(c, h) /\ hooks' = Updated(h)
        \/ \E h \in HookIds : Creating(c) /\ hooks' = Posted(c, h)
    BY <1>7 DEF Unanswered
  <2>3. Fault
    BY <1>7 DEF Unanswered
  <2> QED
    BY <2>1, <2>2, <2>3, FaultBudget
<1> QED
  BY <1>1, <1>2, <1>3, <1>4, <1>5, <1>6, <1>7 DEF Next


LEMMA OrderOnce == \A i, j \in DOMAIN Order : Order[i] = Order[j] => i = j
BY DEF Order

LEMMA StepOnce ==
  ASSUME TypeOK, \A c \in Callers : Once(caller[c]), Next
  PROVE  \A c \in Callers : Once(caller'[c])
<1> USE DEF TypeOK
<1>a. \A c \in Callers : caller[c] \in Caller
  OBVIOUS
<1>b. ASSUME NEW r, r.topics = <<>> PROVE Once(r)
  BY <1>b DEF Once
<1>c. ASSUME NEW c \in Callers, NEW r, caller' = [caller EXCEPT ![c] = r], Once(r)
      PROVE  \A d \in Callers : Once(caller'[d])
  BY <1>c
<1>d. ASSUME NEW c \in Callers, caller'[c].topics = caller[c].topics,
             \A d \in Callers \ {c} : caller'[d] = caller[d]
      PROVE  \A d \in Callers : Once(caller'[d])
  BY <1>d DEF Once
<1>e. ASSUME NEW c \in Callers, Creating(c), caller'[c].topics = Tail(caller[c].topics),
             \A d \in Callers \ {c} : caller'[d] = caller[d]
      PROVE  \A d \in Callers : Once(caller'[d])
  <2>1. PICK q \in Seq(Mapped) : q = caller[c].topics /\ q # <<>>
    BY <1>e, Fields DEF Creating
  <2>2. \A i, j \in DOMAIN Tail(q) : Tail(q)[i] = Tail(q)[j] => i = j
    BY <2>1, TailOnce DEF Once
  <2> QED
    BY <1>e, <2>1, <2>2 DEF Once
<1>1. ASSUME NEW g \in HookIds, DeleteByHand(g) PROVE \A d \in Callers : Once(caller'[d])
  BY <1>1 DEF DeleteByHand
<1>2. ASSUME NEW c \in Callers, Call(c) \/ ListAnswered(c) \/ Crash(c)
      PROVE  \A d \in Callers : Once(caller'[d])
  <2>1. caller'[c].topics = <<>> /\ \A d \in Callers \ {c} : caller'[d] = caller[d]
    <3>1. CASE Call(c)
      <4>1. PICK r : r = [Idle EXCEPT !.pc = "list"]
        OBVIOUS
      <4>2. r.topics = <<>>
        BY <4>1 DEF Idle
      <4> QED
        BY <3>1, <4>1, <4>2 DEF Call
    <3>2. CASE ListAnswered(c)
      <4>1. PICK all, todo, good : caller' = [caller EXCEPT ![c] = [Idle EXCEPT
               !.pc = "update", !.listed = all, !.todo = todo, !.good = good]]
        BY <3>2 DEF ListAnswered
      <4>2. PICK r : r = [Idle EXCEPT !.pc = "update", !.listed = all, !.todo = todo, !.good = good]
        OBVIOUS
      <4>3. r.topics = <<>>
        BY <4>2 DEF Idle
      <4> QED
        BY <4>1, <4>2, <4>3
    <3>3. CASE Crash(c)
      BY <3>3 DEF Crash, Idle
    <3> QED
      BY <1>2, <3>1, <3>2, <3>3
  <2> QED
    BY <1>b, <2>1
<1>3. ASSUME NEW c \in Callers, AfterUpdates(c) PROVE \A d \in Callers : Once(caller'[d])
  <2>1. CASE caller[c].good
    BY <1>3, <1>a, <1>d, <2>1 DEF AfterUpdates, Caller
  <2>2. CASE ~caller[c].good
    <3>1. caller'[c].topics = Order /\ \A d \in Callers \ {c} : caller'[d] = caller[d]
      BY <1>3, <1>a, <2>2 DEF AfterUpdates, Caller
    <3> QED
      BY <3>1, OrderOnce DEF Once
  <2> QED
    BY <2>1, <2>2
<1>4. ASSUME NEW c \in Callers, AllCreated(c) PROVE \A d \in Callers : Once(caller'[d])
  BY <1>4, <1>a, <1>d DEF AllCreated, Caller
<1>5. ASSUME NEW c \in Callers, NEW g \in HookIds,
             UpdateAnswered(c, g) \/ FailUpdate(c, g)
      PROVE  \A d \in Callers : Once(caller'[d])
  <2>1. CASE UpdateAnswered(c, g)
    BY <1>a, <1>d, <2>1 DEF UpdateAnswered, Caller
  <2>2. CASE FailUpdate(c, g)
    BY <1>a, <1>d, <2>2 DEF FailUpdate, Caller
  <2> QED
    BY <1>5, <2>1, <2>2
<1>6. ASSUME NEW c \in Callers, NEW g \in HookIds, CreateAnswered(c, g)
      PROVE  \A d \in Callers : Once(caller'[d])
  <2>1. Creating(c) /\ caller'[c].topics = Tail(caller[c].topics)
        /\ \A d \in Callers \ {c} : caller'[d] = caller[d]
    BY <1>6, <1>a DEF CreateAnswered, Caller
  <2> QED
    BY <1>e, <2>1
<1>7. ASSUME NEW c \in Callers, GiveUp(c) PROVE \A d \in Callers : Once(caller'[d])
  <2>1. CASE caller' = [caller EXCEPT ![c] = Idle]
    <3>1. caller'[c].topics = <<>> /\ \A d \in Callers \ {c} : caller'[d] = caller[d]
      BY <2>1 DEF Idle
    <3> QED
      BY <1>b, <3>1
  <2>2. CASE \E h \in HookIds : FailUpdate(c, h)
    BY <1>5, <2>2
  <2>3. CASE Creating(c) /\ FailCreate(c)
    <3>1. caller'[c].topics = Tail(caller[c].topics)
          /\ \A d \in Callers \ {c} : caller'[d] = caller[d]
      BY <1>a, <2>3 DEF FailCreate, Caller
    <3> QED
      BY <1>e, <2>3, <3>1
  <2> QED
    BY <1>7, <2>1, <2>2, <2>3 DEF GiveUp
<1>8. ASSUME NEW c \in Callers, Unanswered(c) PROVE \A d \in Callers : Once(caller'[d])
  <2>1. CASE GiveUp(c)
    BY <1>7, <2>1
  <2>2. CASE caller' = [caller EXCEPT ![c].attempt = @ + 1]
    BY <1>a, <1>d, <2>2 DEF Caller
  <2> QED
    BY <1>8, <2>1, <2>2 DEF Unanswered
<1> QED
  BY <1>1, <1>2, <1>3, <1>4, <1>5, <1>6, <1>7, <1>8 DEF Next, UpdateNotFound, Refused

\* The shop has at most one webhook for an order topic at first.
LEMMA InitBudget == Init => BudgetInv
<1> SUFFICES ASSUME Init PROVE BudgetInv
  OBVIOUS
<1>1. \A c \in Callers : caller[c].pc = "idle" /\ caller[c].topics = <<>>
  BY DEF Init, Idle
<1>2. \A c \in Callers : Once(caller[c])
  BY <1>1 DEF Once
<1>3. PICK n \in 0..Cardinality(FirstHooks) : \E first \in [1..n -> FirstHooks] :
         /\ \A g, h \in 1..n : g # h =>
               first[g] # first[h] /\ (first[g].topic # first[h].topic \/ first[h].topic = "other")
         /\ hooks = [h \in HookIds |-> IF h <= n THEN first[h] ELSE None]
  BY DEF Init
<1>4. PICK first \in [1..n -> FirstHooks] :
         /\ \A g, h \in 1..n : g # h =>
               first[g] # first[h] /\ (first[g].topic # first[h].topic \/ first[h].topic = "other")
         /\ hooks = [h \in HookIds |-> IF h <= n THEN first[h] ELSE None]
  BY <1>3
<1>5. \A h \in HookIds : Live(h) => h \in 1..n /\ hooks[h] = first[h]
  <2> SUFFICES ASSUME NEW h \in HookIds, Live(h) PROVE h \in 1..n /\ hooks[h] = first[h]
    OBVIOUS
  <2>1. hooks[h] = IF h <= n THEN first[h] ELSE None
    BY <1>4
  <2>2. h <= n
    BY <2>1, NotAHook DEF Live
  <2>3. h \in Nat \ {0} /\ n \in Nat
    BY <1>3, FS_CardinalityType
  <2> QED
    BY <2>1, <2>2, <2>3
<1>6. ASSUME NEW t \in Mapped PROVE Budget(t)
  <2>1. \A g, h \in Copies(t) : g = h
    <3> SUFFICES ASSUME NEW g \in Copies(t), NEW h \in Copies(t), g # h PROVE FALSE
      OBVIOUS
    <3>1. g \in 1..n /\ h \in 1..n /\ first[g].topic = t /\ first[h].topic = t
      BY <1>5 DEF Copies
    <3>2. t # "other"
      BY MappedTopics
    <3> QED
      BY <1>4, <3>1, <3>2
  <2>2. Creators(t) = {} /\ \A h : Charged(h, t) = {}
    BY <1>1 DEF Creators, Charged, Makes
  <2>3. faults = 0
    BY DEF Init
  <2>4. Cardinality({}) = 0 /\ IsFiniteSet({})
    BY FS_EmptySet
  <2>5. Cardinality(Callers) \in Nat /\ Cardinality(Callers) # 0
    BY FS_CardinalityType, FS_EmptySet
  <2>6. CASE RightCopies(t) = {}
    <3>1. \A g, h \in StaleCopies(t) : g = h
      BY <2>1 DEF StaleCopies
    <3>2. Paid({}, {}, faults) /\ Paid({}, {}, Cardinality(Callers) + faults)
      BY <2>3, <2>4, <2>5 DEF Paid
    <3> QED
      BY <2>2, <2>4, <2>6, <3>1, <3>2 DEF Budget
  <2>7. CASE RightCopies(t) # {}
    <3>1. PICK g \in RightCopies(t) : RightCopies(t) = {g}
      BY <2>1, <2>7 DEF RightCopies
    <3>2. StaleCopies(t) = {}
      BY <2>1, <3>1 DEF RightCopies, StaleCopies
    <3>3. IsFiniteSet({g}) /\ Cardinality({g}) = 1
      BY FS_Singleton
    <3> QED
      BY <2>2, <2>3, <2>4, <2>5, <3>1, <3>2, <3>3 DEF Budget, Paid
  <2> QED
    BY <2>6, <2>7
<1> QED
  BY <1>2, <1>6 DEF BudgetInv

LEMMA BudgetBounds ==
  ASSUME TypeOK, NEW t, Budget(t)
  PROVE  Cardinality(Copies(t)) <= Cardinality(Callers) + faults
<1>1. Copies(t) = RightCopies(t) \cup StaleCopies(t)
  BY DEF RightCopies, StaleCopies
<1>2. faults \in Nat /\ Cardinality(Callers) \in Nat /\ Cardinality(Callers) # 0
  BY FS_CardinalityType, FS_EmptySet DEF TypeOK
<1>3. IsFiniteSet(RightCopies(t)) /\ Cardinality(RightCopies(t)) \in Nat
  BY FS_CardinalityType DEF Budget
<1>4. CASE StaleCopies(t) = {}
  <2>1. Cardinality(Creators(t)) \in Nat
    BY CreatorsFinite, FS_CardinalityType
  <2>2. Copies(t) = RightCopies(t)
    BY <1>1, <1>4
  <2> QED
    BY <1>2, <1>3, <2>1, <2>2 DEF Budget, Paid
<1>5. ASSUME NEW h \in StaleCopies(t)
      PROVE  Cardinality(Copies(t)) <= Cardinality(Callers) + faults
  <2>1. Cardinality(Charged(h, t)) \in Nat
    BY CreatorsFinite, FS_CardinalityType
  <2>2. Cardinality(RightCopies(t)) <= faults
    BY <1>2, <1>3, <2>1 DEF Budget, Paid
  <2>3. Copies(t) \subseteq RightCopies(t) \cup {h}
    BY <1>1 DEF Budget
  <2>4. Cardinality(Copies(t)) \in Nat /\ Cardinality(Copies(t)) <= Cardinality(RightCopies(t)) + 1
    BY <1>3, <2>3, AddCard
  <2> QED
    BY <1>2, <1>3, <2>2, <2>4
<1> QED
  BY <1>4, <1>5

LEMMA NextBudget == Inv /\ BudgetInv /\ [Next]_vars => BudgetInv'
<1> SUFFICES ASSUME Inv, BudgetInv, [Next]_vars PROVE BudgetInv'
  OBVIOUS
<1>1. TypeOK /\ TypeOK'
  BY NextInv DEF Inv
<1>2. CASE Next
  <2>1. \A t \in Mapped : Budget(t)'
    BY <1>1, <1>2, StepBudget DEF BudgetInv
  <2>2. \A c \in Callers : Once(caller'[c])
    BY <1>1, <1>2, StepOnce DEF BudgetInv
  <2>3. \A c \in Callers : Once(caller[c])'
    BY <2>2 DEF Once
  <2> QED
    BY <2>1, <2>3 DEF BudgetInv
<1>3. CASE UNCHANGED vars
  <2>1. UNCHANGED <<hooks, caller, faults>> /\ faults' >= faults
    BY <1>1, <1>3 DEF vars, TypeOK
  <2>2. ASSUME NEW t \in Mapped PROVE Budget(t)'
    <3>1. NoMore(t) /\ NoneStale(t)
      BY <2>1, CopiesSame, CreatorsSame DEF NoMore, NoneStale
    <3> QED
      BY <1>1, <2>1, <3>1, BudgetKept DEF BudgetInv
  <2>3. \A c \in Callers : Once(caller[c])'
    BY <2>1 DEF BudgetInv, Once
  <2> QED
    BY <2>2, <2>3 DEF BudgetInv
<1> QED
  BY <1>2, <1>3

-----------------------------------------------------------------------------
(* What is proved                                                          *)

\* Every variable of the endpoint's model keeps its type: no request is at an
\* attempt past MaxRetries, and no error is of a webhook that is not there.
THEOREM TypeCorrect == Spec => []TypeOK
<1>1. Inv => TypeOK
  BY DEF Inv
<1> QED
  BY <1>1, InvHolds, PTL

\* The answer of update_woocommerce_webhooks is true for any number of overlapping
\* requests, faults, crashes and deletions: what it does not list as an error
\* has this server's URL, and was created unless webhooks were deleted.
THEOREM AnswerTrue == Spec => []AnswerIsTrue
<1>1. Inv => AnswerIsTrue
  <2> SUFFICES ASSUME Inv, NEW c \in Callers, At(c, "answered")
               PROVE  /\ \A h \in caller[c].listed \ caller[c].errors :
                            Live(h) /\ Ours(hooks[h]) => Right(hooks[h])
                      /\ caller[c].created => \A t \in Mapped \ caller[c].uncreated : Present(t)
    BY DEF AnswerIsTrue, Present
  <2>1. DoneBy(c) /\ Listed(c)
    BY DEF Inv, Done, At, Listed
  <2>2. caller[c].todo = {} /\ UpdatesDone(c)
    BY <2>1 DEF DoneBy
  <2>3. caller[c].created => Waiting(c) = {} /\ CreationsDone(c)
    BY <2>1 DEF DoneBy, Waiting
  <2> QED
    BY <2>2, <2>3 DEF UpdatesDone, CreationsDone
<1> QED
  BY <1>1, InvHolds, PTL

\* No order topic gets more webhooks than there are requests that may overlap
\* and faults, whatever is deleted meanwhile and however often each request is
\* made: a request creates only when it saw no right webhook, or a fault made it.
THEOREM CopiesNeverMany == Spec => []CopiesBounded
<1>1. Inv /\ BudgetInv => CopiesBounded
  BY BudgetBounds DEF Inv, BudgetInv, CopiesBounded
<1> QED
  BY <1>1, InitInv, NextInv, InitBudget, NextBudget, PTL DEF Spec
=============================================================================
