-------------------------- MODULE RetryQueueProofs --------------------------
(***************************************************************************)
(* Proofs about RetryQueue for any jobs, sessions, outcomes and bounds.    *)
(*                                                                         *)
(* A count may be stale, rolled back or reset, but never ahead: each       *)
(* increment follows a failed run of its own.  So the invariant weighs     *)
(* each count, in the table or in a session's memory, against the failed   *)
(* runs that no session is about to count (Backed).  In the other direction *)
(* a session owes the failed runs it has not counted, or not committed     *)
(* (Owes); HistoryInv balances the debts with what the history excuses.    *)
(***************************************************************************)
EXTENDS RetryHistory, FiniteSetTheorems, TLAPS

USE RetryQueueAssumption

\* The sessions that are about to count a failed run of j.
Uncounted(j) == {s \in Sessions : At(s, "increment") /\ session[s].cur = {j}}

\* The failed runs of j that have been counted, or never will be.
Slack(j) == failures[j] - Cardinality(Uncounted(j))

\* The count of a row of j is covered by failed runs, and so is its giving up.
Backed(row, j) ==
    /\ row.count <= Slack(j)
    /\ row.status = "DEAD_LETTER" => failures[j] >= MaxRetries

AtWork == {"run", "resolve", "increment", "reset"}
Linked(s) == session[s].pc \in AtWork => \E j \in JobIds : session[s].cur = {j}


\* A column is flushed from a loaded row.
Loaded(s) == \A j \in JobIds : session[s].dirty[j] # {} => session[s].mem[j] \in Row

Inv ==
    /\ TypeOK
    /\ \A s \in Sessions : Linked(s) /\ Loaded(s)
    /\ \A j \in JobIds : Backed(table[j], j)
    /\ \A s \in Sessions, j \in JobIds : Backed(session[s].mem[j], j)

-----------------------------------------------------------------------------
(* Rows and sessions                                                       *)

Statuses == {"absent", "PENDING", "DEAD_LETTER", "RESOLVED"}
PCs == {"idle", "loop", "run", "resolve", "increment", "commit", "reset"}

LEMMA RowType ==
  /\ NoRow \in Row /\ NewRow \in Row
  /\ \A st \in Statuses, n \in Nat, nx \in {"null", "wait", "due"} :
        [status |-> st, count |-> n, next |-> nx] \in Row
BY DEF Row, NoRow, NewRow, Statuses

LEMMA IdleType == Idle \in Session /\ Idle.pc = "idle" /\ Idle.mem = [j \in JobIds |-> Unloaded]
BY DEF Idle, Session, Modes

LEMMA Fields ==
  ASSUME NEW o \in Session
  PROVE  /\ o.pc \in PCs /\ o.mode \in Modes /\ o.todo \subseteq JobIds /\ o.cur \subseteq JobIds
         /\ o.mem \in [JobIds -> Row \cup {Unloaded}] /\ o.dirty \in [JobIds -> SUBSET Columns]
BY DEF Session, PCs

LEMMA IncrementedType ==
  ASSUME NEW row \in Row \cup {Unloaded}
  PROVE  /\ Incremented(row) \in Row
         /\ Incremented(row).count = row.count + 1
         /\ Incremented(row).status \in {"PENDING", "DEAD_LETTER"}
         /\ Incremented(row).status = "DEAD_LETTER" => row.count + 1 >= MaxRetries
BY DEF Incremented, Row, Unloaded

LEMMA MergedType ==
  ASSUME TypeOK, NEW s \in Sessions, NEW j \in JobIds, session[s].mem[j] \in Row \/ session[s].dirty[j] = {}
  PROVE  Merged(s, j) \in Row
<1>1. PICK o \in Session : o = session[s]
  BY DEF TypeOK
<1>2. table[j] \in Row
  BY DEF TypeOK
<1> QED
  BY <1>1, <1>2 DEF Merged, Row

-----------------------------------------------------------------------------
(* Steps of a session                                                      *)

LEMMA UncountedFinite ==
  ASSUME NEW j
  PROVE  IsFiniteSet(Uncounted(j)) /\ Cardinality(Uncounted(j)) \in Nat
<1>1. Uncounted(j) \subseteq Sessions
  BY DEF Uncounted
<1> QED
  BY <1>1, FS_Subset, FS_CardinalityType

LEMMA UncountedFiniteNext ==
  ASSUME NEW j
  PROVE  IsFiniteSet(Uncounted(j)') /\ Cardinality(Uncounted(j)') \in Nat
<1>1. Uncounted(j)' \subseteq Sessions
  BY DEF Uncounted
<1> QED
  BY <1>1, FS_Subset, FS_CardinalityType

SlackKept ==
    \A j \in JobIds : Slack(j)' >= Slack(j) /\ failures'[j] >= failures[j]

\* A step that leaves s at no failed run takes nothing from the others.
LEMMA SlackNotFailed ==
  ASSUME TypeOK, NEW s \in Sessions, NEW r \in Session, session' = [session EXCEPT ![s] = r],
         r.pc # "increment", failures' = failures
  PROVE  SlackKept
<1> SUFFICES ASSUME NEW j \in JobIds PROVE Slack(j)' >= Slack(j)
  BY DEF SlackKept, TypeOK
<1>1. Uncounted(j)' \subseteq Uncounted(j)
  BY DEF Uncounted, At, TypeOK
<1>2. Cardinality(Uncounted(j)') <= Cardinality(Uncounted(j))
  BY <1>1, UncountedFinite, FS_Subset
<1> QED
  BY <1>2, UncountedFinite, UncountedFiniteNext DEF Slack, TypeOK

\* The session that counts its failed run.
LEMMA SlackCounted ==
  ASSUME TypeOK, NEW s \in Sessions, NEW r \in Session, session' = [session EXCEPT ![s] = r],
         r.pc # "increment", failures' = failures,
         NEW c \in JobIds, At(s, "increment"), session[s].cur = {c}
  PROVE  Slack(c)' = Slack(c) + 1
<1>1. Uncounted(c)' = Uncounted(c) \ {s} /\ s \in Uncounted(c)
  BY DEF Uncounted, At, TypeOK
<1>2. Cardinality(Uncounted(c)') = Cardinality(Uncounted(c)) - 1
  BY <1>1, UncountedFinite, FS_RemoveElement
<1> QED
  BY <1>2, UncountedFinite DEF Slack, TypeOK

\* A run of c that fails: one more to count, and one more failure.
LEMMA SlackFailed ==
  ASSUME TypeOK, NEW s \in Sessions, NEW r \in Session, session' = [session EXCEPT ![s] = r],
         NEW c \in JobIds, failures' = [failures EXCEPT ![c] = @ + 1],
         ~At(s, "increment"), r.cur = {c}
  PROVE  SlackKept
<1> SUFFICES ASSUME NEW j \in JobIds PROVE Slack(j)' >= Slack(j)
  BY DEF SlackKept, TypeOK
<1>1. CASE j # c
  <2>1. Uncounted(j)' \subseteq Uncounted(j)
    BY <1>1 DEF Uncounted, At, TypeOK
  <2>2. Cardinality(Uncounted(j)') <= Cardinality(Uncounted(j))
    BY <2>1, UncountedFinite, FS_Subset
  <2> QED
    BY <1>1, <2>2, UncountedFinite, UncountedFiniteNext DEF Slack, TypeOK
<1>2. CASE j = c
  <2>1. Uncounted(c)' \subseteq Uncounted(c) \cup {s}
    BY DEF Uncounted, At, TypeOK
  <2>2. /\ IsFiniteSet(Uncounted(c) \cup {s})
        /\ Cardinality(Uncounted(c) \cup {s}) <= Cardinality(Uncounted(c)) + 1
    <3>1. PICK U : U = Uncounted(c) /\ IsFiniteSet(U) /\ Cardinality(U) \in Nat
      BY UncountedFinite
    <3>2. IsFiniteSet(U \cup {s}) /\ Cardinality(U \cup {s}) \in {Cardinality(U), Cardinality(U) + 1}
      BY <3>1, FS_AddElement
    <3> QED
      BY <3>1, <3>2
  <2>3. /\ Cardinality(Uncounted(c)') <= Cardinality(Uncounted(c) \cup {s})
        /\ Cardinality(Uncounted(c) \cup {s}) \in Nat
    BY <2>1, <2>2, FS_Subset, FS_CardinalityType
  <2>4. failures'[c] = failures[c] + 1 /\ failures[c] \in Nat
    BY DEF TypeOK
  <2> QED
    BY <1>2, <2>2, <2>3, <2>4, UncountedFinite, UncountedFiniteNext DEF Slack
<1> QED
  BY <1>1, <1>2

LEMMA BackedKept ==
  ASSUME TypeOK, SlackKept, failures' \in [JobIds -> Nat],
         NEW j \in JobIds, NEW row, row.count \in Nat, Backed(row, j)
  PROVE  Backed(row, j)'
<1>1. Slack(j) \in Int /\ Slack(j)' \in Int
  BY UncountedFinite, UncountedFiniteNext DEF Slack, TypeOK
<1> QED
  BY <1>1 DEF Backed, SlackKept, TypeOK

\* A step of s keeps the invariant when what it writes is backed.
LEMMA StepOf ==
  ASSUME Inv, NEW s \in Sessions, NEW r \in Session, session' = [session EXCEPT ![s] = r],
         r.pc \in AtWork => \E j \in JobIds : r.cur = {j},
         \A j \in JobIds : r.dirty[j] # {} => r.mem[j] \in Row,
         SlackKept, failures' \in [JobIds -> Nat],
         \A j \in JobIds : Backed(r.mem[j], j)',
         table' \in [JobIds -> Row], \A j \in JobIds : Backed(table[j], j)',
         asked' \subseteq JobIds, posts' \in Nat, crashes' \in Nat
  PROVE  Inv'
<1>1. session' \in [Sessions -> Session] /\ session'[s] = r
  BY DEF Inv, TypeOK
<1>2. \A t \in Sessions : Linked(t)' /\ Loaded(t)'
  BY <1>1 DEF Inv, TypeOK, Linked, Loaded
<1>3. ASSUME NEW t \in Sessions, NEW j \in JobIds PROVE Backed(session[t].mem[j], j)'
  <2>1. CASE t = s
    BY <1>1, <2>1 DEF Backed
  <2>2. CASE t # s
    <3>1. PICK row : row = session[t].mem[j]
      OBVIOUS
    <3>2. row \in Row \cup {Unloaded} /\ session'[t].mem[j] = row
      BY <2>2, <3>1, Fields DEF Inv, TypeOK
    <3>3. Backed(row, j)'
      BY <3>1, <3>2, BackedKept DEF Inv, Row, Unloaded
    <3> QED
      BY <3>2, <3>3 DEF Backed
  <2> QED
    BY <2>1, <2>2
<1> QED
  BY <1>1, <1>2, <1>3 DEF Inv, TypeOK

LEMMA TableKept ==
  ASSUME Inv, SlackKept, failures' \in [JobIds -> Nat], UNCHANGED table
  PROVE  table' \in [JobIds -> Row] /\ \A j \in JobIds : Backed(table[j], j)'
<1>1. ASSUME NEW j \in JobIds PROVE Backed(table[j], j)'
  <2>1. PICK row \in Row : row = table[j] /\ row = table'[j] /\ row.count \in Nat
    BY DEF Inv, TypeOK, Row
  <2>2. Backed(row, j)'
    BY <2>1, BackedKept DEF Inv
  <2> QED
    BY <2>1, <2>2 DEF Backed
<1> QED
  BY <1>1 DEF Inv, TypeOK

\* What a session may write without a new failure of its own.
LEMMA RowBacked ==
  ASSUME Inv, SlackKept, failures' \in [JobIds -> Nat], NEW j \in JobIds, NEW row,
         row.count \in Nat, row.count = 0 \/ row.count <= Slack(j),
         row.status # "DEAD_LETTER" \/ failures[j] >= MaxRetries
  PROVE  Backed(row, j)'
<1>1. 0 <= Slack(j)
  BY UncountedFinite DEF Inv, TypeOK, Backed, Slack, Row
<1>2. Backed(row, j)
  BY <1>1, UncountedFinite DEF Backed, Slack, Inv, TypeOK
<1> QED
  BY <1>2, BackedKept DEF Inv

LEMMA InitInv == Init => Inv
<1> SUFFICES ASSUME Init PROVE Inv
  OBVIOUS
<1>1. TypeOK
  BY IdleType, RowType DEF Init, TypeOK
<1>2. \A s \in Sessions : Linked(s) /\ Loaded(s)
  BY IdleType DEF Init, Linked, Loaded, Idle, AtWork
<1>3. ASSUME NEW j \in JobIds PROVE Slack(j) = 0
  <2>1. Uncounted(j) = {}
    BY IdleType DEF Init, Uncounted, At
  <2> QED
    BY <2>1, FS_EmptySet DEF Slack, Init
<1>4. \A j \in JobIds : Backed(table[j], j)
  BY <1>3 DEF Init, Backed, NoRow, NewRow
<1>5. \A s \in Sessions, j \in JobIds : Backed(session[s].mem[j], j)
  BY <1>3 DEF Init, Backed, Idle, Unloaded
<1> QED
  BY <1>1, <1>2, <1>4, <1>5 DEF Inv

LEMMA TickInv ==
  ASSUME Inv, NEW c \in JobIds, Tick(c)
  PROVE  Inv'
<1>1. table' \in [JobIds -> Row] /\ \A j \in JobIds : /\ table'[j].count = table[j].count
                                                      /\ table'[j].status = table[j].status
  BY DEF Tick, Inv, TypeOK, Row
<1>2. \A j \in JobIds : Uncounted(j)' = Uncounted(j)
  BY DEF Tick, Uncounted, At
<1> QED
  BY <1>1, <1>2 DEF Tick, Inv, TypeOK, Linked, Loaded, Backed, Slack

\* A session that begins or ends forgets what it has loaded and flushed.
LEMMA RestartInv ==
  ASSUME Inv, NEW s \in Sessions, NEW r \in Session, session' = [session EXCEPT ![s] = r],
         r.pc # "increment", r.pc \in AtWork => \E j \in JobIds : r.cur = {j},
         \A j \in JobIds : r.dirty[j] = {}, \A j \in JobIds : r.mem[j] \in {Unloaded, table[j]},
         UNCHANGED <<table, failures>>, asked' \subseteq JobIds, posts' \in Nat, crashes' \in Nat
  PROVE  Inv'
<1>1. SlackKept /\ failures' \in [JobIds -> Nat]
  BY SlackNotFailed DEF Inv, TypeOK
<1>2. ASSUME NEW j \in JobIds PROVE Backed(r.mem[j], j)'
  <2>1. PICK row : row = r.mem[j]
    OBVIOUS
  <2>2. row \in Row \cup {Unloaded} /\ row.count \in Nat
    BY <2>1 DEF Inv, TypeOK, Row, Unloaded
  <2>3. /\ row.count = 0 \/ row.count <= Slack(j)
        /\ row.status # "DEAD_LETTER" \/ failures[j] >= MaxRetries
    BY <2>1 DEF Inv, Backed, Unloaded
  <2> QED
    BY <1>1, <2>1, <2>2, <2>3, RowBacked
<1> QED
  BY <1>1, <1>2, TableKept, StepOf

-----------------------------------------------------------------------------
(* The actions                                                             *)

LEMMA BeginQueueInv ==
  ASSUME Inv, NEW s \in Sessions, BeginQueue(s)
  PROVE  Inv'
<1>1. PICK batch \in SUBSET JobIds :
        session' = [session EXCEPT ![s] = [Idle EXCEPT
                      !.pc = "loop", !.todo = batch,
                      !.mem = [j \in JobIds |-> IF j \in batch THEN table[j] ELSE Unloaded]]]
  BY DEF BeginQueue, Due
<1>2. PICK mem \in [JobIds -> Row \cup {Unloaded}] :
        mem = [j \in JobIds |-> IF j \in batch THEN table[j] ELSE Unloaded]
  BY DEF Inv, TypeOK
<1>3. PICK r \in Session : r = [Idle EXCEPT !.pc = "loop", !.todo = batch, !.mem = mem]
  BY <1>2, IdleType DEF Session
<1>4. r.pc = "loop" /\ r.mem = mem /\ r.dirty = [j \in JobIds |-> {}]
  BY <1>3 DEF Idle
<1>5. session' = [session EXCEPT ![s] = r]
  BY <1>1, <1>2, <1>3
<1>6. \A j \in JobIds : r.mem[j] \in {Unloaded, table[j]}
  BY <1>2, <1>4
<1> QED
  BY <1>4, <1>5, <1>6, RestartInv DEF BeginQueue, AtWork, Inv, TypeOK

LEMMA RetryFailedJobInv ==
  ASSUME Inv, NEW s \in Sessions, NEW c \in JobIds, RetryFailedJob(s, c)
  PROVE  Inv'
<1>1. PICK mem \in [JobIds -> Row \cup {Unloaded}] :
        mem = [Idle.mem EXCEPT ![c] = table[c]]
  BY IdleType DEF Inv, TypeOK
<1>2. PICK r \in Session : r = [Idle EXCEPT !.pc = "reset", !.mode = "endpoint", !.cur = {c}, !.mem = mem]
  BY <1>1, IdleType DEF Session, Modes
<1>3. /\ r.pc = "reset" /\ r.cur = {c} /\ r.dirty = [j \in JobIds |-> {}]
      /\ r.mem = mem
  BY <1>2 DEF Idle
<1>4. \A j \in JobIds : r.mem[j] \in {Unloaded, table[j]}
  BY <1>1, <1>3, IdleType
<1>5. session' = [session EXCEPT ![s] = r]
  BY <1>1, <1>2 DEF RetryFailedJob
<1>6. posts' \in Nat /\ crashes' \in Nat /\ asked' \subseteq JobIds /\ UNCHANGED <<table, failures>>
  BY DEF RetryFailedJob, Inv, TypeOK
<1> QED
  BY <1>3, <1>4, <1>5, <1>6, RestartInv

LEMMA BeginSingleInv ==
  ASSUME Inv, NEW s \in Sessions, NEW c \in JobIds, BeginSingle(s, c)
  PROVE  Inv'
<1>1. PICK mem \in [JobIds -> Row \cup {Unloaded}] :
        mem = [Idle.mem EXCEPT ![c] = table[c]]
  BY IdleType DEF Inv, TypeOK
<1>2. PICK r \in Session : r = [Idle EXCEPT !.pc = "loop", !.mode = "single", !.todo = {c}, !.mem = mem]
  BY <1>1, IdleType DEF Session, Modes
<1>3. r.pc = "loop" /\ r.dirty = [j \in JobIds |-> {}] /\ r.mem = mem
  BY <1>2 DEF Idle
<1>4. \A j \in JobIds : r.mem[j] \in {Unloaded, table[j]}
  BY <1>1, <1>3, IdleType
<1>5. session' = [session EXCEPT ![s] = r]
  BY <1>1, <1>2 DEF BeginSingle
<1> QED
  BY <1>3, <1>4, <1>5, RestartInv DEF BeginSingle, AtWork, Inv, TypeOK

LEMMA ToIdle ==
  ASSUME Inv, NEW s \in Sessions, session' = [session EXCEPT ![s] = Idle],
         UNCHANGED <<table, failures>>, asked' \subseteq JobIds, posts' \in Nat, crashes' \in Nat
  PROVE  Inv'
<1>1. PICK r \in Session : r = Idle
  BY IdleType
<1>2. r.pc = "idle" /\ \A j \in JobIds : r.dirty[j] = {} /\ r.mem[j] = Unloaded
  BY <1>1 DEF Idle
<1>3. session' = [session EXCEPT ![s] = r]
  BY <1>1
<1> QED
  BY <1>2, <1>3, RestartInv DEF AtWork

LEMMA DispatchInv ==
  ASSUME Inv, NEW s \in Sessions, Dispatch(s)
  PROVE  Inv'
<1>1. session[s].cur \subseteq JobIds
  BY Fields DEF Inv, TypeOK
<1> QED
  BY <1>1, ToIdle DEF Dispatch, Inv, TypeOK

LEMMA CrashInv ==
  ASSUME Inv, NEW s \in Sessions, Crash(s)
  PROVE  Inv'
<1>1. session[s].cur \subseteq JobIds /\ session[s].todo \subseteq JobIds /\ Locked(s) \subseteq JobIds
  BY Fields DEF Inv, TypeOK, Locked
<1>2. posts' \in Nat /\ crashes' \in Nat /\ asked' \subseteq JobIds /\ UNCHANGED <<table, failures>>
  BY <1>1 DEF Crash, Inv, TypeOK
<1> QED
  BY <1>2, ToIdle DEF Crash

\* What a session reads or holds of a row stays backed.
LEMMA RowKept ==
  ASSUME Inv, SlackKept, failures' \in [JobIds -> Nat], NEW s \in Sessions, NEW j \in JobIds,
         NEW row, row \in {table[j], session[s].mem[j], Merged(s, j)}
  PROVE  Backed(row, j) /\ Backed(row, j)'
<1>1. PICK o \in Session : o = session[s]
  BY DEF Inv, TypeOK
<1>2. table[j] \in Row /\ o.mem[j] \in Row \cup {Unloaded} /\ Backed(table[j], j) /\ Backed(o.mem[j], j)
  BY <1>1, Fields DEF Inv, TypeOK
<1>3. row.count \in {table[j].count, o.mem[j].count} /\ row.status \in {table[j].status, o.mem[j].status}
  BY <1>1 DEF Merged
<1>4. row.count \in Nat /\ Backed(row, j)
  BY <1>2, <1>3 DEF Backed, Row, Unloaded
<1> QED
  BY <1>4, BackedKept DEF Inv

\* The statement of a session that flushes a row.
LEMMA FlushInv ==
  ASSUME Inv, NEW s \in Sessions, NEW c \in JobIds, NEW old, NEW new \in Row,
         NEW pc \in PCs \ AtWork, Flush(s, c, old, new, pc),
         SlackKept /\ (At(s, "increment") /\ session[s].cur = {c} => Slack(c)' = Slack(c) + 1)
            => Backed(new, c)',
         UNCHANGED <<table, asked, failures, posts, crashes>>
  PROVE  Inv'
<1>1. PICK o \in Session : o = session[s]
  BY DEF Inv, TypeOK
<1>2. PICK mem \in [JobIds -> Row \cup {Unloaded}] : mem = [o.mem EXCEPT ![c] = new]
  BY Fields
<1>3. Changed(old, new) \subseteq Columns
  BY DEF Changed, Columns
<1>4. PICK dirty \in [JobIds -> SUBSET Columns] :
        dirty = [o.dirty EXCEPT ![c] = o.dirty[c] \cup Changed(old, new)]
  BY <1>3, Fields
<1>5. PICK r \in Session : r = [o EXCEPT !.pc = pc, !.cur = {}, !.mem = mem, !.dirty = dirty]
  BY <1>2, <1>4 DEF Session, PCs
<1>6. r.pc = pc /\ r.mem = mem /\ r.dirty = dirty
  BY <1>5 DEF Session
<1>7. session' = [session EXCEPT ![s] = r]
  BY <1>1, <1>2, <1>4, <1>5 DEF Flush
<1>8. SlackKept /\ failures' \in [JobIds -> Nat]
  BY <1>6, <1>7, SlackNotFailed DEF Inv, TypeOK, AtWork
<1>9. At(s, "increment") /\ session[s].cur = {c} => Slack(c)' = Slack(c) + 1
  BY <1>6, <1>7, SlackCounted DEF Inv, AtWork
<1>10. ASSUME NEW j \in JobIds PROVE Backed(r.mem[j], j)'
  <2>1. PICK row : row = r.mem[j]
    OBVIOUS
  <2>2. Backed(row, j)'
    BY <1>1, <1>2, <1>6, <1>8, <1>9, <2>1, RowKept, Fields
  <2> QED
    BY <2>1, <2>2
<1>11. \A j \in JobIds : r.dirty[j] # {} => r.mem[j] \in Row
  BY <1>1, <1>2, <1>4, <1>6, Fields DEF Inv, Loaded
<1> QED
  BY <1>6, <1>7, <1>8, <1>10, <1>11, TableKept, StepOf DEF AtWork, Inv, TypeOK

\* The job being run.
LEMMA CurrentIs ==
  ASSUME Inv, NEW s \in Sessions, session[s].pc \in AtWork
  PROVE  Current(s) \in JobIds /\ session[s].cur = {Current(s)}
<1>1. PICK j \in JobIds : session[s].cur = {j}
  BY DEF Inv, Linked
<1> QED
  BY <1>1 DEF Current

LEMMA DispatchFailsInv ==
  ASSUME Inv, NEW s \in Sessions, DispatchFails(s)
  PROVE  Inv'
<1>1. PICK c \in JobIds : c = Current(s)
  BY CurrentIs DEF DispatchFails, At, AtWork
<1>2. PICK new \in Row : new = [status |-> "PENDING", count |-> 0, next |-> "due"]
  BY RowType DEF Statuses
<1>3. PICK old : old = session[s].mem[c]
  OBVIOUS
<1>4. Flush(s, c, old, new, "commit") /\ UNCHANGED <<table, asked, failures, posts, crashes>>
  BY <1>1, <1>2, <1>3 DEF DispatchFails
<1>5. ASSUME SlackKept PROVE Backed(new, c)'
  BY <1>2, <1>4, <1>5, RowBacked DEF Inv, TypeOK
<1> QED
  BY <1>4, <1>5, FlushInv DEF PCs, AtWork

LEMMA MarkResolvedInv ==
  ASSUME Inv, NEW s \in Sessions, MarkResolved(s)
  PROVE  Inv'
<1>1. PICK c \in JobIds : c = Current(s)
  BY CurrentIs DEF MarkResolved, At, AtWork
<1>2. PICK old : old = session[s].mem[c]
  OBVIOUS
<1>3. old \in Row \cup {Unloaded} /\ old.count \in Nat /\ Backed(old, c)
  BY <1>2, Fields DEF Inv, TypeOK, Row, Unloaded
<1>4. PICK new \in Row : new = [status |-> "RESOLVED", count |-> old.count, next |-> "null"]
  BY <1>3, RowType DEF Statuses
<1>5. Flush(s, c, old, new, "loop") /\ UNCHANGED <<table, asked, failures, posts, crashes>>
  BY <1>1, <1>2, <1>4 DEF MarkResolved
<1>6. ASSUME SlackKept PROVE Backed(new, c)'
  BY <1>3, <1>4, <1>5, <1>6, RowBacked DEF Inv, TypeOK, Backed
<1> QED
  BY <1>5, <1>6, FlushInv DEF PCs, AtWork

LEMMA RunJobInv ==
  ASSUME Inv, NEW s \in Sessions, NEW c \in JobIds, RunJob(s, c)
  PROVE  Inv'
<1>1. PICK o \in Session : o = session[s]
  BY DEF Inv, TypeOK
<1>2. PICK row \in Row \cup {Unloaded} :
        row = IF o.mem[c] = Unloaded THEN Merged(s, c) ELSE o.mem[c]
  <2>1. o.mem[c] = Unloaded => Merged(s, c) \in Row
    <3>1. o.mem[c] \in Row \/ o.dirty[c] = {}
      BY <1>1 DEF Inv, Loaded
    <3> QED
      BY <1>1, <3>1, MergedType DEF Inv
  <2> QED
    BY <2>1, Fields
<1>3. PICK mem \in [JobIds -> Row \cup {Unloaded}] : mem = [o.mem EXCEPT ![c] = row]
  BY Fields
<1>4. PICK todo \in SUBSET JobIds : todo = o.todo \ {c}
  BY Fields
<1>5. PICK r \in Session : r = [o EXCEPT !.pc = "run", !.cur = {c}, !.todo = todo, !.mem = mem]
  BY <1>3, <1>4 DEF Session
<1>6. r.pc = "run" /\ r.cur = {c} /\ r.mem = mem /\ r.dirty = o.dirty
  BY <1>5 DEF Session
<1>7. session' = [session EXCEPT ![s] = r]
  BY <1>1, <1>2, <1>3, <1>4, <1>5 DEF RunJob
<1>8. SlackKept /\ failures' \in [JobIds -> Nat]
  BY <1>6, <1>7, SlackNotFailed DEF RunJob, Inv, TypeOK
<1>9. ASSUME NEW j \in JobIds PROVE Backed(r.mem[j], j)'
  <2>1. PICK held : held = r.mem[j]
    OBVIOUS
  <2>2. held \in {session[s].mem[j], Merged(s, j)}
    BY <1>1, <1>2, <1>3, <1>6, <2>1, Fields
  <2>3. Backed(held, j)'
    BY <1>8, <2>2, RowKept
  <2> QED
    BY <2>1, <2>3
<1>10. \A j \in JobIds : r.dirty[j] # {} => r.mem[j] \in Row
  <2>1. \A j \in JobIds : o.dirty[j] # {} => o.mem[j] \in Row /\ o.mem[j] # Unloaded
    BY <1>1, RowType DEF Inv, Loaded, Row, Unloaded
  <2> QED
    BY <1>2, <1>3, <1>6, <2>1, Fields
<1> QED
  BY <1>6, <1>7, <1>8, <1>9, <1>10, TableKept, StepOf DEF RunJob, Inv, TypeOK

LEMMA ReloadInv ==
  ASSUME Inv, NEW s \in Sessions, Reload(s)
  PROVE  Inv'
<1>1. PICK c \in JobIds : c = Current(s) /\ session[s].cur = {c}
  BY CurrentIs DEF Reload, At, AtWork
<1>2. PICK o \in Session : o = session[s]
  BY DEF Inv, TypeOK
<1>3. o.mem[c] = Unloaded /\ o.dirty[c] = {}
  BY <1>1, <1>2, RowType DEF Reload, Inv, Loaded, Row, Unloaded
<1>4. PICK row \in Row : row = Merged(s, c)
  BY <1>2, <1>3, MergedType DEF Inv
<1>5. PICK mem \in [JobIds -> Row \cup {Unloaded}] : mem = [o.mem EXCEPT ![c] = row]
  BY Fields
<1>6. PICK r \in Session : r = [o EXCEPT !.mem = mem]
  BY <1>5 DEF Session
<1>7. r.pc = o.pc /\ r.cur = {c} /\ r.mem = mem /\ r.dirty = o.dirty
  BY <1>1, <1>2, <1>6 DEF Session
<1>8. session' = [session EXCEPT ![s] = r] /\ UNCHANGED <<table, asked, failures, posts, crashes>>
  BY <1>1, <1>2, <1>4, <1>5, <1>6 DEF Reload
<1>9. SlackKept /\ failures' \in [JobIds -> Nat]
  <2>1. ASSUME NEW j \in JobIds PROVE Slack(j)' = Slack(j)
    <3>1. Uncounted(j)' = Uncounted(j)
      BY <1>1, <1>2, <1>7, <1>8 DEF Uncounted, At, Inv, TypeOK
    <3> QED
      BY <1>8, <3>1 DEF Slack
  <2> QED
    BY <1>8, <2>1, UncountedFinite DEF SlackKept, Slack, Inv, TypeOK
<1>10. ASSUME NEW j \in JobIds PROVE Backed(r.mem[j], j)'
  <2>1. PICK held : held = r.mem[j]
    OBVIOUS
  <2>2. held \in {session[s].mem[j], Merged(s, j)}
    BY <1>2, <1>4, <1>5, <1>7, <2>1, Fields
  <2>3. Backed(held, j)'
    BY <1>9, <2>2, RowKept
  <2> QED
    BY <2>1, <2>3
<1>11. \A j \in JobIds : r.dirty[j] # {} => r.mem[j] \in Row
  BY <1>2, <1>3, <1>5, <1>7, Fields DEF Inv, Loaded
<1> QED
  BY <1>1, <1>7, <1>8, <1>9, <1>10, <1>11, TableKept, StepOf DEF Inv, TypeOK

LEMMA IncrementRetryInv ==
  ASSUME Inv, NEW s \in Sessions, IncrementRetry(s)
  PROVE  Inv'
<1>1. PICK c \in JobIds : c = Current(s) /\ session[s].cur = {c}
  BY CurrentIs DEF IncrementRetry, At, AtWork
<1>2. PICK old : old = session[s].mem[c]
  OBVIOUS
<1>3. old \in Row \cup {Unloaded} /\ old.count \in Nat /\ Backed(old, c)
  BY <1>2, Fields DEF Inv, TypeOK, Row, Unloaded
<1>4. PICK new \in Row : new = Incremented(old)
  BY <1>3, IncrementedType
<1>5. Flush(s, c, old, new, "loop") /\ UNCHANGED <<table, asked, failures, posts, crashes>>
  BY <1>1, <1>2, <1>4 DEF IncrementRetry
<1>6. ASSUME SlackKept, Slack(c)' = Slack(c) + 1 PROVE Backed(new, c)'
  <2>1. new.count = old.count + 1 /\ (new.status = "DEAD_LETTER" => old.count + 1 >= MaxRetries)
    BY <1>3, <1>4, IncrementedType
  <2>2. Slack(c) \in Int /\ failures[c] \in Nat /\ Slack(c) <= failures[c] /\ failures'[c] = failures[c]
    BY <1>5, UncountedFinite DEF Slack, Inv, TypeOK
  <2>3. Slack(c)' <= failures'[c]
    BY <1>5, UncountedFiniteNext DEF Slack, Inv, TypeOK
  <2> QED
    BY <1>3, <1>6, <2>1, <2>2, <2>3 DEF Backed
<1> QED
  BY <1>1, <1>5, <1>6, FlushInv DEF PCs, AtWork, IncrementRetry

-----------------------------------------------------------------------------
(* The ends of a service                                                   *)

LEMMA EndedType ==
  ASSUME TypeOK, NEW s \in Sessions, NEW o \in Outcomes, Ended(s, o)
  PROVE  /\ failures' \in [JobIds -> Nat] /\ \A j \in JobIds : failures'[j] >= failures[j]
         /\ UNCHANGED <<asked, posts, crashes>>
<1>1. PICK c : c = Current(s)
  OBVIOUS
<1>2. \/ failures' = failures
      \/ failures' = [failures EXCEPT ![c] = @ + 1]
  BY <1>1 DEF Ended
<1>3. failures \in [JobIds -> Nat]
  BY DEF TypeOK
<1>4. failures' \in [JobIds -> Nat] /\ \A j \in JobIds : failures'[j] >= failures[j]
  BY <1>2, <1>3
<1> QED
  BY <1>4 DEF Ended

\* A service that ends leaves its session at verdict, with what it flushed or without.
LEMMA EndsInv ==
  ASSUME Inv, NEW s \in Sessions, NEW o \in Outcomes, Ended(s, o),
         NEW old \in Session, old = session[s],
         NEW mem \in [JobIds -> Row \cup {Unloaded}],
         NEW dirty \in [JobIds -> SUBSET Columns],
         session' = [session EXCEPT ![s] = [old EXCEPT !.pc = Verdict(o), !.dirty = dirty, !.mem = mem]],
         mem \in {old.mem, Idle.mem},
         dirty = Clean \/ (dirty = old.dirty /\ mem = old.mem),
         SlackKept => /\ table' \in [JobIds -> Row]
                      /\ \A j \in JobIds : Backed(table[j], j)'
  PROVE  Inv'
<1>1. PICK c \in JobIds : c = Current(s) /\ old.cur = {c}
  BY CurrentIs DEF Ended, At, AtWork
<1>2. Verdict(o) \in {"resolve", "increment"}
  BY DEF Verdict
<1>3. PICK r \in Session : r = [old EXCEPT !.pc = Verdict(o), !.dirty = dirty, !.mem = mem]
  BY <1>2 DEF Session
<1>4. r.pc = Verdict(o) /\ r.cur = {c} /\ r.mem = mem /\ r.dirty = dirty
  BY <1>1, <1>3 DEF Session
<1>5. session' = [session EXCEPT ![s] = r]
  BY <1>3
<1>6. SlackKept /\ failures' \in [JobIds -> Nat]
  <2>1. CASE o.ok
    <3>1. failures' = failures /\ r.pc # "increment"
      BY <1>4, <2>1 DEF Ended, Verdict
    <3> QED
      BY <1>5, <3>1, SlackNotFailed DEF Inv, TypeOK
  <2>2. CASE ~o.ok
    <3>1. failures' = [failures EXCEPT ![c] = @ + 1]
      BY <1>1, <2>2 DEF Ended
    <3>2. ~At(s, "increment")
      BY DEF Ended, At
    <3>3. TypeOK /\ failures' \in [JobIds -> Nat]
      BY <3>1 DEF Inv, TypeOK
    <3> QED
      BY <1>4, <1>5, <3>1, <3>2, <3>3, SlackFailed
  <2> QED
    BY <2>1, <2>2
<1>7. ASSUME NEW j \in JobIds PROVE Backed(r.mem[j], j)'
  <2>1. PICK held : held = r.mem[j]
    OBVIOUS
  <2>2. held = session[s].mem[j] \/ held = Unloaded
    BY <1>4, <2>1, IdleType
  <2>3. CASE held = session[s].mem[j]
    BY <1>6, <2>1, <2>3, RowKept DEF Backed
  <2>4. CASE held = Unloaded
    BY <1>6, <2>1, <2>4, RowBacked DEF Unloaded, Backed
  <2> QED
    BY <2>2, <2>3, <2>4
<1>8. \A j \in JobIds : r.dirty[j] # {} => r.mem[j] \in Row
  BY <1>4 DEF Inv, Loaded, Clean
<1> QED
  BY <1>1, <1>4, <1>5, <1>6, <1>7, <1>8, StepOf DEF Ended, Inv, TypeOK

\* The rows a commit of s makes visible.
LEMMA CommittedBacked ==
  ASSUME Inv, SlackKept, failures' \in [JobIds -> Nat], NEW s \in Sessions
  PROVE  Committed(s) \in [JobIds -> Row] /\ \A j \in JobIds : \A row : row = Committed(s)[j] => Backed(row, j)'
<1>1. \A j \in JobIds : Merged(s, j) \in Row
  BY MergedType DEF Inv, Loaded
<1>2. ASSUME NEW j \in JobIds, NEW row, row = Committed(s)[j] PROVE Backed(row, j)'
  BY <1>2, RowKept DEF Committed
<1> QED
  BY <1>1, <1>2 DEF Committed

\* The rows after a service's own failed job, if it leaves one.
LEMMA NewJobBacked ==
  ASSUME Inv, SlackKept, failures' \in [JobIds -> Nat], NEW o \in Outcomes,
         NEW rows \in [JobIds -> Row], \A j \in JobIds : \A row : row = rows[j] => Backed(row, j)',
         NewJob(o, rows)
  PROVE  table' \in [JobIds -> Row] /\ \A j \in JobIds : Backed(table[j], j)'
<1>1. table' \in [JobIds -> Row] /\ \A j \in JobIds : table'[j] \in {rows[j], NewRow}
  BY RowType DEF NewJob
<1>2. ASSUME NEW j \in JobIds PROVE Backed(table[j], j)'
  <2>1. PICK row : row = table'[j]
    OBVIOUS
  <2>2. Backed(row, j)'
    <3>1. CASE row = rows[j]
      BY <3>1
    <3>2. CASE row = NewRow
      BY <3>2, RowBacked DEF NewRow
    <3> QED
      BY <1>1, <2>1, <3>1, <3>2
  <2> QED
    BY <2>1, <2>2 DEF Backed
<1> QED
  BY <1>1, <1>2

LEMMA EndsUncommittedInv ==
  ASSUME Inv, NEW s \in Sessions, NEW o \in Outcomes, EndsUncommitted(s, o)
  PROVE  Inv'
<1>1. PICK old \in Session : old = session[s]
  BY DEF Inv, TypeOK
<1>2. PICK mem \in [JobIds -> Row \cup {Unloaded}] : mem = old.mem
  BY Fields
<1>3. PICK dirty \in [JobIds -> SUBSET Columns] : dirty = old.dirty
  BY Fields
<1>4. session' = [session EXCEPT ![s] = [old EXCEPT !.pc = Verdict(o), !.dirty = dirty, !.mem = mem]]
  <2>1. [old EXCEPT !.pc = Verdict(o), !.dirty = dirty, !.mem = mem] = [old EXCEPT !.pc = Verdict(o)]
    BY <1>2, <1>3 DEF Session
  <2> QED
    BY <1>1, <2>1 DEF EndsUncommitted
<1>5. failures' \in [JobIds -> Nat] /\ Ended(s, o) /\ UNCHANGED table
  BY EndedType DEF EndsUncommitted, Inv
<1>6. ASSUME SlackKept PROVE table' \in [JobIds -> Row] /\ \A j \in JobIds : Backed(table[j], j)'
  BY <1>5, <1>6, TableKept
<1> QED
  BY <1>1, <1>2, <1>3, <1>4, <1>5, <1>6, EndsInv

LEMMA EndsCommittedInv ==
  ASSUME Inv, NEW s \in Sessions, NEW o \in Outcomes, EndsCommitted(s, o)
  PROVE  Inv'
<1>1. PICK old \in Session : old = session[s]
  BY DEF Inv, TypeOK
<1>2. PICK mem \in [JobIds -> Row \cup {Unloaded}] : mem = old.mem
  BY Fields
<1>3. PICK dirty \in [JobIds -> SUBSET Columns] : dirty = Clean
  BY DEF Clean
<1>4. session' = [session EXCEPT ![s] = [old EXCEPT !.pc = Verdict(o), !.dirty = dirty, !.mem = mem]]
  <2>1. [old EXCEPT !.pc = Verdict(o), !.dirty = dirty, !.mem = mem]
          = [old EXCEPT !.pc = Verdict(o), !.dirty = Clean]
    BY <1>2, <1>3 DEF Session
  <2> QED
    BY <1>1, <2>1 DEF EndsCommitted
<1>5. failures' \in [JobIds -> Nat] /\ Ended(s, o) /\ NewJob(o, Committed(s))
  BY EndedType DEF EndsCommitted, Inv
<1>6. ASSUME SlackKept PROVE table' \in [JobIds -> Row] /\ \A j \in JobIds : Backed(table[j], j)'
  <2>1. PICK rows \in [JobIds -> Row] : rows = Committed(s) /\ \A j \in JobIds : \A row : row = rows[j] => Backed(row, j)'
    BY <1>5, <1>6, CommittedBacked
  <2> QED
    BY <1>5, <1>6, <2>1, NewJobBacked
<1> QED
  BY <1>1, <1>2, <1>3, <1>4, <1>5, <1>6, EndsInv

LEMMA EndsRolledBackInv ==
  ASSUME Inv, NEW s \in Sessions, NEW o \in Outcomes, EndsRolledBack(s, o)
  PROVE  Inv'
<1>1. PICK old \in Session : old = session[s]
  BY DEF Inv, TypeOK
<1>2. PICK mem \in [JobIds -> Row \cup {Unloaded}] : mem = Idle.mem
  BY IdleType
<1>3. PICK dirty \in [JobIds -> SUBSET Columns] : dirty = Clean
  BY DEF Clean
<1>4. session' = [session EXCEPT ![s] = [old EXCEPT !.pc = Verdict(o), !.dirty = dirty, !.mem = mem]]
  BY <1>1, <1>2, <1>3 DEF EndsRolledBack
<1>5. failures' \in [JobIds -> Nat] /\ Ended(s, o) /\ NewJob(o, table)
  BY EndedType DEF EndsRolledBack, Inv
<1>6. ASSUME SlackKept PROVE table' \in [JobIds -> Row] /\ \A j \in JobIds : Backed(table[j], j)'
  <2>1. PICK rows \in [JobIds -> Row] : rows = table /\ \A j \in JobIds : \A row : row = rows[j] => Backed(row, j)'
    <3>1. PICK rows \in [JobIds -> Row] : rows = table
      BY DEF Inv, TypeOK
    <3>2. ASSUME NEW j \in JobIds, NEW row, row = rows[j] PROVE Backed(row, j)'
      BY <1>5, <1>6, <3>1, <3>2, RowKept
    <3> QED
      BY <3>1, <3>2
  <2> QED
    BY <1>5, <1>6, <2>1, NewJobBacked
<1> QED
  BY <1>1, <1>2, <1>3, <1>4, <1>5, <1>6, EndsInv

LEMMA EndsBrokenInv ==
  ASSUME Inv, NEW s \in Sessions, NEW o \in Outcomes, EndsBroken(s, o)
  PROVE  Inv'
<1>1. PICK r \in Session : r = Idle
  BY IdleType
<1>2. /\ r.pc = "idle" /\ \A j \in JobIds : r.dirty[j] = {} /\ r.mem[j] = Unloaded
      /\ session' = [session EXCEPT ![s] = r]
  BY <1>1 DEF Idle, EndsBroken
<1>3. /\ failures' \in [JobIds -> Nat] /\ \A j \in JobIds : failures'[j] >= failures[j]
      /\ UNCHANGED <<table, asked, posts, crashes>>
  BY EndedType DEF EndsBroken, Inv
<1>4. SlackKept
  <2> SUFFICES ASSUME NEW j \in JobIds PROVE Slack(j)' >= Slack(j)
    BY <1>3 DEF SlackKept
  <2>1. Uncounted(j)' \subseteq Uncounted(j)
    BY <1>2 DEF Uncounted, At, Inv, TypeOK
  <2>2. Cardinality(Uncounted(j)') <= Cardinality(Uncounted(j))
    BY <2>1, UncountedFinite, FS_Subset
  <2> QED
    BY <1>3, <2>2, UncountedFinite, UncountedFiniteNext DEF Slack, Inv, TypeOK
<1>5. ASSUME NEW j \in JobIds PROVE Backed(r.mem[j], j)'
  BY <1>2, <1>3, <1>4, RowBacked DEF Unloaded, Backed
<1> QED
  BY <1>2, <1>3, <1>4, <1>5, TableKept, StepOf DEF AtWork, Inv, TypeOK

LEMMA CommitInv ==
  ASSUME Inv, NEW s \in Sessions, Commit(s)
  PROVE  Inv'
<1>1. PICK r \in Session : r = Idle
  BY IdleType
<1>2. /\ r.pc = "idle" /\ \A j \in JobIds : r.dirty[j] = {} /\ r.mem[j] = Unloaded
      /\ session' = [session EXCEPT ![s] = r]
  BY <1>1 DEF Idle, Commit
<1>3. /\ SlackKept /\ failures' \in [JobIds -> Nat]
      /\ table' = Committed(s) /\ UNCHANGED <<asked, posts, crashes>>
  BY <1>2, SlackNotFailed DEF Commit, Inv, TypeOK
<1>4. ASSUME NEW j \in JobIds PROVE Backed(r.mem[j], j)'
  BY <1>2, <1>3, RowBacked DEF Unloaded, Backed
<1>5. table' \in [JobIds -> Row] /\ \A j \in JobIds : Backed(table[j], j)'
  BY <1>3, CommittedBacked DEF Backed
<1> QED
  BY <1>2, <1>3, <1>4, <1>5, StepOf DEF AtWork, Inv, TypeOK

LEMMA DeadlockAbortInv ==
  ASSUME Inv, NEW s \in Sessions, DeadlockAbort(s)
  PROVE  Inv'
BY ToIdle DEF DeadlockAbort, Inv, TypeOK

LEMMA NextInv == Inv /\ [Next]_vars => Inv'
<1> SUFFICES ASSUME Inv, [Next]_vars PROVE Inv'
  OBVIOUS
<1>1. ASSUME NEW j \in JobIds, Tick(j) PROVE Inv'
  BY <1>1, TickInv
<1>2. ASSUME NEW s \in Sessions, BeginQueue(s) PROVE Inv'
  BY <1>2, BeginQueueInv
<1>3. ASSUME NEW s \in Sessions, NEW j \in JobIds, RetryFailedJob(s, j) \/ BeginSingle(s, j) PROVE Inv'
  BY <1>3, RetryFailedJobInv, BeginSingleInv
<1>4. ASSUME NEW s \in Sessions, Work(s) PROVE Inv'
  <2>1. ASSUME Dispatch(s) \/ DispatchFails(s) \/ \E j \in JobIds : RunJob(s, j) PROVE Inv'
    BY <2>1, DispatchInv, DispatchFailsInv, RunJobInv
  <2>2. ASSUME NEW o \in Outcomes,
               EndsUncommitted(s, o) \/ EndsCommitted(s, o) \/ EndsRolledBack(s, o) \/ EndsBroken(s, o)
        PROVE  Inv'
    BY <2>2, EndsUncommittedInv, EndsCommittedInv, EndsRolledBackInv, EndsBrokenInv
  <2>3. ASSUME MarkResolved(s) \/ Reload(s) \/ IncrementRetry(s) \/ Commit(s) \/ DeadlockAbort(s)
        PROVE  Inv'
    BY <2>3, MarkResolvedInv, ReloadInv, IncrementRetryInv, CommitInv, DeadlockAbortInv
  <2> QED
    BY <1>4, <2>1, <2>2, <2>3 DEF Work
<1>5. ASSUME NEW s \in Sessions, Crash(s) PROVE Inv'
  BY <1>5, CrashInv
<1>6. CASE UNCHANGED vars
  BY <1>6 DEF Inv, TypeOK, Linked, Loaded, Backed, Slack, Uncounted, At, vars
<1> QED
  BY <1>1, <1>2, <1>3, <1>4, <1>5, <1>6 DEF Next

-----------------------------------------------------------------------------
(* The theorems                                                            *)

\* The types of the rows, the sessions and the counters (RetryQueue): in particular
\* no session ever holds or writes a status the model of the code does not know.
THEOREM TypeCorrect == Spec => []TypeOK
<1>1. Inv => TypeOK
  BY DEF Inv
<1> QED
  BY <1>1, InitInv, NextInv, PTL DEF Spec

\* FailedJobRepository.increment_retry, whatever overlaps, rolls back, is reset or
\* killed: no row counts more failed runs than there were, and a dead letter has
\* had MAX_RETRIES of them.
THEOREM NeverGivenUpEarly == Spec => []NotGivenUpEarly
<1>1. Inv => NotGivenUpEarly
  <2> SUFFICES ASSUME Inv, NEW j \in JobIds
               PROVE  /\ table[j].count <= failures[j]
                      /\ table[j].status = "DEAD_LETTER" => failures[j] >= MaxRetries
    BY DEF NotGivenUpEarly
  <2>1. Backed(table[j], j) /\ table[j].count \in Nat /\ failures[j] \in Nat
    BY DEF Inv, TypeOK, Row
  <2> QED
    BY <2>1, UncountedFinite DEF Backed, Slack
<1> QED
  BY <1>1, InitInv, NextInv, PTL DEF Spec

-----------------------------------------------------------------------------
(* The past of a job                                                       *)

Timed(row) == row.status = "PENDING" => row.next # "null"

\* What o reads of row j, when row is the committed one.
Over(o, j, row) ==
    [status |-> IF "status" \in o.dirty[j] THEN o.mem[j].status ELSE row.status,
     count  |-> IF "count" \in o.dirty[j] THEN o.mem[j].count ELSE row.count,
     next   |-> IF "next" \in o.dirty[j] THEN o.mem[j].next ELSE row.next]

\* A session updates each job once, and only jobs that exist.
Kept(o, j, row) ==
    /\ j \in o.todo \cup o.cur => o.dirty[j] = {}
    /\ o.dirty[j] # {} => o.mem[j].status # "absent"
    /\ row.status = "absent" => j \notin o.todo \cup o.cur /\ o.dirty[j] = {}

Shaped(o) ==
    /\ o.todo \cap o.cur = {}
    /\ o.pc = "idle" => \A j \in JobIds : o.dirty[j] = {}
    /\ o.mode = "endpoint" <=> o.pc \in {"reset", "commit"}

\* An update made from the row as it is commits the row that the session holds.
Exact(o, j, row) ==
    /\ Over(o, j, row) = o.mem[j] /\ Timed(o.mem[j])
    /\ "next" \in o.dirty[j] \/ o.mem[j].next = "null"
    /\ "count" \in o.dirty[j] => o.mode = "endpoint" \/ o.mem[j].count = row.count + 1

\* A session has a failed run of j that it has not counted, or not committed the count of.
Owes(o, j) == \/ o.pc = "increment" /\ o.cur = {j}
              \/ o.mode # "endpoint" /\ "count" \in o.dirty[j]
Debt(o, j) == IF Owes(o, j) THEN 1 ELSE 0
Debtors(j) == {s \in Sessions : Owes(session[s], j)}

HistoryInv ==
    /\ excused \in [JobIds -> Nat]
    /\ \A j \in asked : table[j].status # "absent"
    /\ \A j \in JobIds : table[j].status = "absent" => table[j].count = 0
    /\ \A s \in Sessions : Shaped(session[s])
    /\ \A s \in Sessions, j \in JobIds : Kept(session[s], j, table[j])
    /\ \A s, r \in Sessions, j \in JobIds :
          session[s].dirty[j] # {} /\ session[r].dirty[j] # {} => s = r
    /\ \A j \in JobIds \ outdated :
          /\ Timed(table[j])
          /\ \A s \in Sessions : session[s].dirty[j] # {} => Exact(session[s], j, table[j])
          /\ failures[j] <= table[j].count + excused[j] + Cardinality(Debtors(j))

LEMMA DebtorsFinite ==
  ASSUME NEW j
  PROVE  IsFiniteSet(Debtors(j)) /\ Cardinality(Debtors(j)) \in Nat
<1>1. Debtors(j) \subseteq Sessions
  BY DEF Debtors
<1> QED
  BY <1>1, FS_Subset, FS_CardinalityType

\* Only the session that makes the step changes what it owes.
LEMMA DebtorsStep ==
  ASSUME TypeOK, NEW s \in Sessions, NEW r \in Session, session' = [session EXCEPT ![s] = r], NEW j
  PROVE  /\ Cardinality(Debtors(j)') \in Nat
         /\ Cardinality(Debtors(j)') + Debt(session[s], j) = Cardinality(Debtors(j)) + Debt(r, j)
<1>1. PICK D : D = Debtors(j) \ {s}
  OBVIOUS
<1>2. IsFiniteSet(D) /\ Cardinality(D) \in Nat /\ s \notin D
  BY <1>1, DebtorsFinite, FS_Subset, FS_CardinalityType
<1>3. /\ Debtors(j) = IF Owes(session[s], j) THEN D \cup {s} ELSE D
      /\ Debtors(j)' = IF Owes(r, j) THEN D \cup {s} ELSE D
  BY <1>1 DEF Debtors, Owes, TypeOK
<1>4. Cardinality(D \cup {s}) = Cardinality(D) + 1
  BY <1>2, FS_AddElement
<1> QED
  BY <1>2, <1>3, <1>4 DEF Debt

Forgiven(j) == excused'[j] = failures'[j]

\* What a step remembers.
LEMMA Remembered ==
  ASSUME Inv, HistoryInv, Remember
  PROVE  /\ excused' \in [JobIds -> Nat] /\ outdated \subseteq outdated'
         /\ \A j \in JobIds : Forgiven(j) \/ excused'[j] >= excused[j]
         /\ \A s \in Sessions, j \in JobIds :
               /\ Loses(s, j) => Forgiven(j) \/ excused'[j] >= excused[j] + 1
               /\ Resets(s, j) => Forgiven(j)
               /\ Writes(s, j) /\ Outdated(s, j) => j \in outdated'
<1>1. ASSUME NEW j \in JobIds
      PROVE  excused'[j] = IF \E s \in Sessions : Resets(s, j) THEN failures[j]
                           ELSE IF \E s \in Sessions : Loses(s, j) THEN excused[j] + 1
                           ELSE excused[j]
  BY DEF Remember
<1>2. ASSUME NEW j \in JobIds PROVE excused[j] \in Nat /\ failures[j] \in Nat
  BY DEF HistoryInv, Inv, TypeOK
<1>3. excused' \in [JobIds -> Nat]
  BY <1>2 DEF Remember
<1>4. ASSUME NEW s \in Sessions, NEW j \in JobIds, Resets(s, j) PROVE Forgiven(j)
  BY <1>1, <1>4 DEF Forgiven, Resets, Commit
<1>5. ASSUME NEW j \in JobIds PROVE Forgiven(j) \/ excused'[j] >= excused[j]
  <2>1. CASE \E s \in Sessions : Resets(s, j)
    BY <1>4, <2>1
  <2>2. CASE ~\E s \in Sessions : Resets(s, j)
    BY <1>1, <1>2, <2>2
  <2> QED
    BY <2>1, <2>2
<1>6. ASSUME NEW s \in Sessions, NEW j \in JobIds, Loses(s, j)
      PROVE  Forgiven(j) \/ excused'[j] >= excused[j] + 1
  <2>1. CASE \E t \in Sessions : Resets(t, j)
    BY <1>4, <2>1
  <2>2. CASE ~\E t \in Sessions : Resets(t, j)
    BY <1>1, <1>2, <1>6, <2>2
  <2> QED
    BY <2>1, <2>2
<1>7. outdated \subseteq outdated' /\ \A s \in Sessions, j \in JobIds :
         Writes(s, j) /\ Outdated(s, j) => j \in outdated'
  BY DEF Remember
<1> QED
  BY <1>3, <1>4, <1>5, <1>6, <1>7

\* What a commit of s may do to a row.
CommitsRow(s, j) ==
    \/ table'[j] = table[j]
    \/ session[s].dirty[j] # {} /\ table'[j] = Over(session[s], j, table[j])
    \/ table[j].status = "absent" /\ table'[j] = NewRow

\* The step of s to r leaves no failed run of j unaccounted for.
Accounts(s, r, j) ==
    \/ Forgiven(j)
    \/ failures'[j] + Debt(session[s], j) + table[j].count + excused[j]
         <= failures[j] + Debt(r, j) + table'[j].count + excused'[j]

\* A step of s that commits some rows, or none, and leaves the session at r.
LEMMA HistoryStep ==
  ASSUME Inv, HistoryInv, Inv', Remember, NEW s \in Sessions, NEW r \in Session,
         session' = [session EXCEPT ![s] = r],
         \A j \in JobIds : CommitsRow(s, j),
         Shaped(r), \A j \in JobIds : Kept(r, j, table'[j]),
         \A t \in Sessions, j \in JobIds : t # s /\ r.dirty[j] # {} => session[t].dirty[j] = {},
         \A j \in asked' : table'[j].status # "absent",
         \A j \in JobIds \ outdated' : r.dirty[j] # {} => Exact(r, j, table'[j]),
         \A j \in JobIds \ outdated' : Accounts(s, r, j)
  PROVE  HistoryInv'
<1>1. session'[s] = r /\ \A t \in Sessions : t # s => session'[t] = session[t]
  BY DEF Inv, TypeOK
<1>2. /\ excused' \in [JobIds -> Nat] /\ outdated \subseteq outdated'
  BY Remembered
<1>3. ASSUME NEW j \in JobIds
      PROVE  /\ table'[j].status = "absent" => table[j].status = "absent" /\ table'[j] = table[j]
             /\ \A t \in Sessions : t # s /\ session[t].dirty[j] # {} => table'[j] = table[j]
             /\ j \notin outdated' => Timed(table'[j])
  <2>1. Kept(session[s], j, table[j]) /\ \A t \in Sessions : Kept(session[t], j, table[j])
    BY DEF HistoryInv
  <2>2. CASE table'[j] = table[j]
    BY <1>2, <2>2 DEF HistoryInv
  <2>3. CASE session[s].dirty[j] # {} /\ table'[j] = Over(session[s], j, table[j])
    <3>1. table'[j].status # "absent"
      BY <2>1, <2>3 DEF Kept, Over
    <3>2. \A t \in Sessions : t # s => session[t].dirty[j] = {}
      BY <2>3 DEF HistoryInv
    <3>3. j \notin outdated' => Timed(table'[j])
      BY <1>2, <2>3 DEF HistoryInv, Exact
    <3> QED
      BY <3>1, <3>2, <3>3
  <2>4. CASE table[j].status = "absent" /\ table'[j] = NewRow
    BY <2>1, <2>4 DEF Kept, NewRow, Timed
  <2> QED
    BY <2>2, <2>3, <2>4 DEF CommitsRow
<1>4. \A j \in JobIds : table'[j].status = "absent" => table'[j].count = 0
  BY <1>3 DEF HistoryInv
<1>5. ASSUME NEW t \in Sessions PROVE Shaped(session'[t])
  BY <1>1 DEF HistoryInv
<1>6. ASSUME NEW t \in Sessions, NEW j \in JobIds PROVE Kept(session'[t], j, table'[j])
  <2>1. CASE t = s
    BY <1>1, <2>1
  <2>2. CASE t # s
    BY <1>1, <1>3, <2>2 DEF HistoryInv, Kept
  <2> QED
    BY <2>1, <2>2
<1>7. ASSUME NEW t \in Sessions, NEW u \in Sessions, NEW j \in JobIds,
             session'[t].dirty[j] # {}, session'[u].dirty[j] # {}
      PROVE  t = u
  BY <1>1, <1>7 DEF HistoryInv
<1>8. ASSUME NEW t \in Sessions, NEW j \in JobIds \ outdated', session'[t].dirty[j] # {}
      PROVE  Exact(session'[t], j, table'[j])
  <2>1. CASE t = s
    BY <1>1, <1>8, <2>1
  <2>2. CASE t # s
    BY <1>1, <1>2, <1>3, <1>8, <2>2 DEF HistoryInv
  <2> QED
    BY <2>1, <2>2
<1>9. ASSUME NEW j \in JobIds \ outdated'
      PROVE  failures'[j] <= table'[j].count + excused'[j] + Cardinality(Debtors(j)')
  <2>1. /\ failures[j] \in Nat /\ failures'[j] \in Nat /\ table[j].count \in Nat
        /\ table'[j].count \in Nat /\ excused[j] \in Nat /\ excused'[j] \in Nat
    BY <1>2 DEF Inv, TypeOK, HistoryInv, Row
  <2>2. /\ Cardinality(Debtors(j)') \in Nat
        /\ Cardinality(Debtors(j)') + Debt(session[s], j) = Cardinality(Debtors(j)) + Debt(r, j)
    BY DebtorsStep DEF Inv
  <2>3. Cardinality(Debtors(j)) \in Nat /\ Debt(session[s], j) \in {0, 1} /\ Debt(r, j) \in {0, 1}
    BY DebtorsFinite DEF Debt
  <2>4. failures[j] <= table[j].count + excused[j] + Cardinality(Debtors(j))
    BY <1>2 DEF HistoryInv
  <2>5. \/ excused'[j] = failures'[j]
        \/ failures'[j] + Debt(session[s], j) + table[j].count + excused[j]
              <= failures[j] + Debt(r, j) + table'[j].count + excused'[j]
    BY DEF Accounts, Forgiven
  <2> HIDE DEF Debt
  <2> QED
    BY <2>1, <2>2, <2>3, <2>4, <2>5
<1>10. HistoryInv' <=>
    /\ excused' \in [JobIds -> Nat]
    /\ \A j \in asked' : table'[j].status # "absent"
    /\ \A j \in JobIds : table'[j].status = "absent" => table'[j].count = 0
    /\ \A t \in Sessions : Shaped(session'[t])
    /\ \A t \in Sessions, j \in JobIds : Kept(session'[t], j, table'[j])
    /\ \A t, u \in Sessions, j \in JobIds :
          session'[t].dirty[j] # {} /\ session'[u].dirty[j] # {} => t = u
    /\ \A j \in JobIds \ outdated' :
          /\ Timed(table'[j])
          /\ \A t \in Sessions : session'[t].dirty[j] # {} => Exact(session'[t], j, table'[j])
          /\ failures'[j] <= table'[j].count + excused'[j] + Cardinality(Debtors(j)')
  BY DEF HistoryInv, Shaped, Kept, Timed, Exact, Over
<1> QED
  BY <1>2, <1>3, <1>4, <1>5, <1>6, <1>7, <1>8, <1>9, <1>10

LEMMA HistoryInitInv == HistoryInit => HistoryInv
<1> SUFFICES ASSUME HistoryInit PROVE HistoryInv
  OBVIOUS
<1>1. \A s \in Sessions : /\ session[s].pc = "idle" /\ session[s].todo = {} /\ session[s].cur = {}
                          /\ session[s].mode = "queue" /\ \A j \in JobIds : session[s].dirty[j] = {}
  BY DEF HistoryInit, Init, Idle
<1>2. \A j \in JobIds : table[j] \in {NoRow, NewRow} /\ failures[j] = 0 /\ excused[j] = 0
  BY DEF HistoryInit, Init
<1>3. \A j \in JobIds : table[j].count = 0 /\ Timed(table[j])
  BY <1>2 DEF NoRow, NewRow, Timed
<1>4. \A j \in JobIds : failures[j] <= table[j].count + excused[j] + Cardinality(Debtors(j))
  BY <1>2, <1>3, DebtorsFinite
<1> QED
  BY <1>1, <1>3, <1>4 DEF HistoryInit, Init, HistoryInv, Shaped, Kept

\* The clock, and steps that change nothing.
LEMMA ClockHistory ==
  ASSUME Inv, HistoryInv, Remember, UNCHANGED <<asked, session, failures>>,
         \A j \in JobIds : /\ table'[j].status = table[j].status /\ table'[j].count = table[j].count
                           /\ table'[j] = table[j] \/ (table[j].next = "wait" /\ table'[j].next = "due")
  PROVE  HistoryInv'
<1>1. excused' \in [JobIds -> Nat] /\ outdated \subseteq outdated'
  BY Remembered
<1>2. ASSUME NEW s \in Sessions, NEW j \in JobIds PROVE Kept(session[s], j, table'[j])
  BY DEF HistoryInv, Kept
<1>3. ASSUME NEW j \in JobIds \ outdated' PROVE Timed(table'[j])
  <2>1. Timed(table[j])
    BY <1>1 DEF HistoryInv
  <2> QED
    BY <2>1 DEF Timed
<1>4. ASSUME NEW s \in Sessions, NEW j \in JobIds \ outdated', session[s].dirty[j] # {}
      PROVE  Exact(session[s], j, table'[j])
  <2>1. PICK o : o = session[s]
    OBVIOUS
  <2>2. Exact(o, j, table[j])
    BY <1>1, <1>4, <2>1 DEF HistoryInv
  <2>3. Over(o, j, table'[j]) = Over(o, j, table[j])
    <3>1. Over(o, j, table[j]).next = o.mem[j].next
      BY <2>2 DEF Exact
    <3>2. "next" \in o.dirty[j] \/ table[j].next = "null"
      BY <2>2, <3>1 DEF Exact, Over
    <3>3. "next" \in o.dirty[j] \/ table'[j].next = table[j].next
      BY <3>2
    <3> QED
      BY <3>3 DEF Over
  <2> QED
    BY <2>1, <2>2, <2>3 DEF Exact
<1>5. ASSUME NEW j \in JobIds \ outdated'
      PROVE  failures'[j] <= table'[j].count + excused'[j] + Cardinality(Debtors(j)')
  <2>1. /\ failures[j] \in Nat /\ table[j].count \in Nat /\ excused[j] \in Nat /\ excused'[j] \in Nat
    BY <1>1 DEF Inv, TypeOK, HistoryInv, Row
  <2>2. Debtors(j)' = Debtors(j)
    BY DEF Debtors
  <2>3. Cardinality(Debtors(j)) \in Nat
    BY DebtorsFinite
  <2>4. failures[j] <= table[j].count + excused[j] + Cardinality(Debtors(j))
    BY <1>1 DEF HistoryInv
  <2>5. excused'[j] = failures[j] \/ excused'[j] >= excused[j]
    BY Remembered DEF Forgiven
  <2> QED
    BY <2>1, <2>2, <2>3, <2>4, <2>5
<1>6. /\ \A j \in asked' : table'[j].status # "absent"
      /\ \A j \in JobIds : table'[j].status = "absent" => table'[j].count = 0
  <2>1. asked \subseteq JobIds
    BY DEF Inv, TypeOK
  <2> QED
    BY <2>1 DEF HistoryInv
<1>7. /\ \A s \in Sessions : Shaped(session[s])'
      /\ \A s, r \in Sessions, j \in JobIds :
            session'[s].dirty[j] # {} /\ session'[r].dirty[j] # {} => s = r
  BY DEF HistoryInv, Shaped
<1>8. \A s \in Sessions, j \in JobIds : Kept(session[s], j, table[j])'
  BY <1>2 DEF Kept
<1>9. \A j \in JobIds \ outdated' :
         Timed(table[j])' /\ \A s \in Sessions : session'[s].dirty[j] # {} => Exact(session[s], j, table[j])'
  BY <1>3, <1>4 DEF Timed, Exact, Over
<1> QED
  BY <1>1, <1>5, <1>6, <1>7, <1>8, <1>9 DEF HistoryInv

\* A session that begins.
LEMMA BeginsHistory ==
  ASSUME Inv, HistoryInv, Inv', Remember, NEW s \in Sessions, NEW r,
         session' = [session EXCEPT ![s] = r], At(s, "idle"), UNCHANGED <<table, failures>>,
         asked' \subseteq asked, r.todo \cap r.cur = {},
         \A j \in r.todo \cup r.cur : table[j].status # "absent",
         r.dirty = [j \in JobIds |-> {}],
         \/ r.pc = "loop" /\ r.mode # "endpoint"
         \/ r.pc = "reset" /\ r.mode = "endpoint"
  PROVE  HistoryInv'
<1>1. r \in Session
  BY DEF Inv, TypeOK
<1>2. \A j \in JobIds : CommitsRow(s, j)
  BY DEF CommitsRow
<1>3. Shaped(r) /\ \A j \in JobIds : Kept(r, j, table'[j])
  BY DEF Shaped, Kept
<1>4. ASSUME NEW j \in JobIds PROVE Accounts(s, r, j)
  <2>1. Debt(session[s], j) = 0 /\ Debt(r, j) = 0
    BY DEF HistoryInv, Shaped, At, Debt, Owes
  <2>2. failures[j] \in Nat /\ table[j].count \in Nat /\ excused[j] \in Nat /\ excused'[j] \in Nat
    BY Remembered DEF Inv, TypeOK, HistoryInv, Row
  <2>3. Forgiven(j) \/ excused'[j] >= excused[j]
    BY Remembered
  <2> QED
    BY <2>1, <2>2, <2>3 DEF Accounts
<1>5. \A j \in asked' : table'[j].status # "absent"
  BY DEF HistoryInv
<1> QED
  BY <1>1, <1>2, <1>3, <1>4, <1>5, HistoryStep

\* A session that ends.
LEMMA LeavesHistory ==
  ASSUME Inv, HistoryInv, Inv', Remember, NEW s \in Sessions, session' = [session EXCEPT ![s] = Idle],
         \A j \in JobIds : CommitsRow(s, j), \A j \in asked' : table'[j].status # "absent",
         \A j \in JobIds \ outdated' :
            \/ Forgiven(j)
            \/ failures'[j] + Debt(session[s], j) + table[j].count + excused[j]
                 <= failures[j] + table'[j].count + excused'[j]
  PROVE  HistoryInv'
<1>1. PICK r \in Session : r = Idle
  BY IdleType
<1>2. /\ r.pc = "idle" /\ r.mode = "queue" /\ r.todo = {} /\ r.cur = {}
      /\ \A j \in JobIds : r.dirty[j] = {} /\ session' = [session EXCEPT ![s] = r]
  BY <1>1 DEF Idle
<1>3. Shaped(r) /\ \A j \in JobIds : Kept(r, j, table'[j])
  BY <1>2 DEF Shaped, Kept
<1>4. ASSUME NEW j \in JobIds \ outdated' PROVE Accounts(s, r, j)
  <2>1. Debt(r, j) = 0
    BY <1>2 DEF Debt, Owes
  <2>2. failures[j] \in Nat
    BY DEF Inv, TypeOK
  <2> QED
    BY <2>1, <2>2 DEF Accounts
<1>5. session' = [session EXCEPT ![s] = r]
  BY <1>1
<1> QED
  BY <1>2, <1>3, <1>4, <1>5, HistoryStep

\* A session that reads a row.
LEMMA ReadsHistory ==
  ASSUME Inv, HistoryInv, Inv', Remember, NEW s \in Sessions, NEW r, NEW o, o = session[s],
         session' = [session EXCEPT ![s] = r], UNCHANGED <<table, asked, failures>>,
         Shaped(r), r.mode = o.mode, r.dirty = o.dirty, r.todo \cup r.cur \subseteq o.todo \cup o.cur,
         \A j \in JobIds : o.dirty[j] # {} => r.mem[j] = o.mem[j],
         \A j \in JobIds : Owes(o, j) => Owes(r, j)
  PROVE  HistoryInv'
<1>1. r \in Session /\ session'[s] = r
  BY DEF Inv, TypeOK
<1>2. \A j \in JobIds : CommitsRow(s, j)
  BY DEF CommitsRow
<1>3. ASSUME NEW j \in JobIds PROVE Kept(r, j, table'[j])
  BY DEF HistoryInv, Kept
<1>4. ASSUME NEW j \in JobIds \ outdated', r.dirty[j] # {} PROVE Exact(r, j, table'[j])
  <2>1. Exact(o, j, table[j])
    BY <1>4, Remembered DEF HistoryInv
  <2>2. Over(r, j, table[j]) = Over(o, j, table[j])
    BY <1>4 DEF Over
  <2> QED
    BY <1>4, <2>1, <2>2 DEF Exact
<1>5. ASSUME NEW j \in JobIds PROVE Accounts(s, r, j)
  <2>1. Debt(o, j) \in {0, 1} /\ Debt(r, j) \in {0, 1} /\ Debt(r, j) >= Debt(o, j)
    BY DEF Debt
  <2>2. failures[j] \in Nat /\ table[j].count \in Nat /\ excused[j] \in Nat /\ excused'[j] \in Nat
    BY Remembered DEF Inv, TypeOK, HistoryInv, Row
  <2>3. Forgiven(j) \/ excused'[j] >= excused[j]
    BY Remembered
  <2> HIDE DEF Debt
  <2> QED
    BY <2>1, <2>2, <2>3 DEF Accounts
<1>6. \A t \in Sessions, j \in JobIds : t # s /\ r.dirty[j] # {} => session[t].dirty[j] = {}
  BY DEF HistoryInv
<1>7. \A j \in asked' : table'[j].status # "absent"
  BY DEF HistoryInv
<1> QED
  BY <1>1, <1>2, <1>3, <1>4, <1>5, <1>6, <1>7, HistoryStep

\* A session that updates job c.
LEMMA FlushHistory ==
  ASSUME Inv, HistoryInv, Inv', Remember, NEW s \in Sessions, NEW c \in JobIds, session[s].cur = {c},
         NEW old, old = session[s].mem[c], NEW new \in Row, NEW pc, Flush(s, c, old, new, pc),
         UNCHANGED <<table, asked, failures>>, new.status # "absent", Timed(new),
         session[s].pc \in {"resolve", "increment", "reset"},
         pc = IF session[s].mode = "endpoint" THEN "commit" ELSE "loop",
         session[s].mode = "endpoint" \/ new.count = old.count + Debt(session[s], c)
  PROVE  HistoryInv'
<1>1. PICK o \in Session : o = session[s]
  BY DEF Inv, TypeOK
<1>2. PICK r : r = [o EXCEPT !.pc = pc, !.cur = {}, !.mem[c] = new,
                             !.dirty[c] = o.dirty[c] \cup Changed(old, new)]
  OBVIOUS
<1>3. session' = [session EXCEPT ![s] = r]
  BY <1>1, <1>2 DEF Flush
<1>4. r \in Session /\ session'[s] = r
  BY <1>3 DEF Inv, TypeOK
<1>5. PICK row \in Row : row = table[c] /\ row = table'[c]
  BY DEF Inv, TypeOK
<1>6. /\ o.dirty[c] = {} /\ row.status # "absent" /\ Shaped(o)
      /\ old.count \in Nat
  BY <1>1, <1>5, Fields DEF HistoryInv, Kept, Row, Unloaded
<1>7. /\ r.pc = pc /\ r.mode = o.mode /\ r.todo = o.todo /\ r.cur = {}
      /\ r.mem = [o.mem EXCEPT ![c] = new]
      /\ r.dirty = [o.dirty EXCEPT ![c] = o.dirty[c] \cup Changed(old, new)]
  BY <1>2 DEF Session
<1>8. r.mem[c] = new /\ r.dirty[c] = Changed(old, new) /\ "resolved_at" \in r.dirty[c]
  BY <1>6, <1>7, Fields DEF Changed
<1>9. \A j \in JobIds : j # c => r.mem[j] = o.mem[j] /\ r.dirty[j] = o.dirty[j]
  BY <1>7, Fields
<1>10. \A j \in JobIds : CommitsRow(s, j)
  BY DEF CommitsRow
<1>11. Shaped(r)
  BY <1>1, <1>6, <1>7 DEF Shaped
<1>12. ASSUME NEW j \in JobIds PROVE Kept(r, j, table'[j])
  <2>1. Kept(o, j, table[j])
    BY <1>1 DEF HistoryInv
  <2>2. c \notin o.todo
    BY <1>1, <1>6 DEF Shaped
  <2>3. CASE j = c
    BY <1>5, <1>6, <1>7, <1>8, <2>2, <2>3 DEF Kept
  <2>4. CASE j # c
    BY <1>1, <1>7, <1>9, <2>1, <2>4 DEF Kept
  <2> QED
    BY <2>3, <2>4
<1>13. ASSUME c \notin outdated'
       PROVE  old.status = row.status /\ old.count = row.count /\ (old.next = "null" <=> row.next = "null")
  <2>1. Writes(s, c)
    BY <1>1, <1>4, <1>6, <1>8 DEF Writes
  <2>2. ~Outdated(s, c)
    BY <1>13, <2>1, Remembered
  <2> QED
    BY <1>5, <2>2 DEF Outdated
<1>14. /\ "status" \in r.dirty[c] <=> old.status # new.status
       /\ "count" \in r.dirty[c] <=> old.count # new.count
       /\ "next" \in r.dirty[c] <=> new.next # "null" \/ old.next # "null"
  BY <1>8 DEF Changed
<1>15. ASSUME c \notin outdated' PROVE Exact(r, c, row)
  <2>1. Over(r, c, row) = new
    BY <1>8, <1>13, <1>14, <1>15 DEF Over, Row
  <2>2. "count" \in r.dirty[c] => r.mode = "endpoint" \/ new.count = row.count + 1
    BY <1>1, <1>6, <1>7, <1>13, <1>14, <1>15 DEF Debt
  <2> QED
    BY <1>8, <1>14, <2>1, <2>2 DEF Exact
<1>16. ASSUME NEW j \in JobIds \ outdated', r.dirty[j] # {} PROVE Exact(r, j, table'[j])
  <2>1. CASE j = c
    BY <1>5, <1>15, <1>16, <2>1
  <2>2. CASE j # c
    <3>1. Exact(o, j, table[j])
      BY <1>1, <1>9, <1>16, <2>2, Remembered DEF HistoryInv
    <3>2. Over(r, j, table[j]) = Over(o, j, table[j])
      BY <1>9, <1>16, <2>2 DEF Over
    <3> QED
      BY <1>7, <1>9, <1>16, <2>2, <3>1, <3>2 DEF Exact
  <2> QED
    BY <2>1, <2>2
<1>17. ASSUME NEW j \in JobIds PROVE Accounts(s, r, j)
  <2>1. Owes(o, j) => Owes(r, j)
    <3>1. CASE j = c
      BY <1>1, <1>6, <1>7, <1>14, <3>1 DEF Owes, Debt, Shaped
    <3>2. CASE j # c
      BY <1>1, <1>7, <1>9, <3>2 DEF Owes
    <3> QED
      BY <3>1, <3>2
  <2>2. Debt(o, j) \in {0, 1} /\ Debt(r, j) \in {0, 1} /\ Debt(r, j) >= Debt(o, j)
    BY <2>1 DEF Debt
  <2>3. failures[j] \in Nat /\ table[j].count \in Nat /\ excused[j] \in Nat /\ excused'[j] \in Nat
    BY Remembered DEF Inv, TypeOK, HistoryInv, Row
  <2>4. Forgiven(j) \/ excused'[j] >= excused[j]
    BY Remembered
  <2> HIDE DEF Debt
  <2> QED
    BY <1>1, <2>2, <2>3, <2>4 DEF Accounts
<1>18. ASSUME NEW t \in Sessions, NEW j \in JobIds, t # s, r.dirty[j] # {} PROVE session[t].dirty[j] = {}
  <2>1. CASE j = c
    BY <1>18, <2>1 DEF Flush, Locked
  <2>2. CASE j # c
    BY <1>1, <1>9, <1>18, <2>2 DEF HistoryInv
  <2> QED
    BY <2>1, <2>2
<1>19. \A j \in asked' : table'[j].status # "absent"
  BY DEF HistoryInv
<1> QED
  BY <1>3, <1>4, <1>10, <1>11, <1>12, <1>16, <1>17, <1>18, <1>19, HistoryStep

-----------------------------------------------------------------------------
(* The actions, with the past they leave                                   *)

LEMMA TickHistory ==
  ASSUME Inv, HistoryInv, Remember, NEW c \in JobIds, Tick(c)
  PROVE  HistoryInv'
<1>1. ASSUME NEW j \in JobIds
      PROVE  /\ table'[j].status = table[j].status /\ table'[j].count = table[j].count
             /\ table'[j] = table[j] \/ (table[j].next = "wait" /\ table'[j].next = "due")
  <2>1. table[j] \in Row /\ table'[j] = IF j = c THEN [table[j] EXCEPT !.next = "due"] ELSE table[j]
    BY DEF Tick, Inv, TypeOK
  <2> QED
    BY <2>1 DEF Tick, Row
<1> QED
  BY <1>1, ClockHistory DEF Tick

LEMMA BeginQueueHistory ==
  ASSUME Inv, HistoryInv, Inv', Remember, NEW s \in Sessions, BeginQueue(s)
  PROVE  HistoryInv'
<1>1. PICK batch \in SUBSET Due :
        session' = [session EXCEPT ![s] = [Idle EXCEPT
                      !.pc = "loop", !.todo = batch,
                      !.mem = [j \in JobIds |-> IF j \in batch THEN table[j] ELSE Unloaded]]]
  BY DEF BeginQueue
<1>2. PICK r : r = [Idle EXCEPT !.pc = "loop", !.todo = batch,
                      !.mem = [j \in JobIds |-> IF j \in batch THEN table[j] ELSE Unloaded]]
  OBVIOUS
<1>3. /\ r.pc = "loop" /\ r.mode = "queue" /\ r.todo = batch /\ r.cur = {}
      /\ r.dirty = [j \in JobIds |-> {}]
  BY <1>2 DEF Idle
<1>4. session' = [session EXCEPT ![s] = r]
  BY <1>1, <1>2
<1>5. \A j \in r.todo \cup r.cur : table[j].status # "absent"
  BY <1>3 DEF Due
<1> QED
  BY <1>3, <1>4, <1>5, BeginsHistory DEF BeginQueue

LEMMA RetryFailedJobHistory ==
  ASSUME Inv, HistoryInv, Inv', Remember, NEW s \in Sessions, NEW c \in JobIds, RetryFailedJob(s, c)
  PROVE  HistoryInv'
<1>1. PICK r : r = [Idle EXCEPT !.pc = "reset", !.mode = "endpoint", !.cur = {c}, !.mem[c] = table[c]]
  OBVIOUS
<1>2. /\ r.pc = "reset" /\ r.mode = "endpoint" /\ r.todo = {} /\ r.cur = {c}
      /\ r.dirty = [j \in JobIds |-> {}]
  BY <1>1 DEF Idle
<1>3. session' = [session EXCEPT ![s] = r] /\ table[c].status # "absent"
  BY <1>1 DEF RetryFailedJob
<1>4. At(s, "idle") /\ UNCHANGED <<table, failures>> /\ asked' \subseteq asked
  BY DEF RetryFailedJob
<1>5. r.todo \cap r.cur = {} /\ \A j \in r.todo \cup r.cur : table[j].status # "absent"
  BY <1>2, <1>3
<1> QED
  BY <1>2, <1>3, <1>4, <1>5, BeginsHistory

LEMMA BeginSingleHistory ==
  ASSUME Inv, HistoryInv, Inv', Remember, NEW s \in Sessions, NEW c \in JobIds, BeginSingle(s, c)
  PROVE  HistoryInv'
<1>1. PICK r : r = [Idle EXCEPT !.pc = "loop", !.mode = "single", !.todo = {c}, !.mem[c] = table[c]]
  OBVIOUS
<1>2. /\ r.pc = "loop" /\ r.mode = "single" /\ r.todo = {c} /\ r.cur = {}
      /\ r.dirty = [j \in JobIds |-> {}]
  BY <1>1 DEF Idle
<1>3. session' = [session EXCEPT ![s] = r] /\ table[c].status # "absent"
  BY <1>1 DEF BeginSingle, HistoryInv
<1> QED
  BY <1>2, <1>3, BeginsHistory DEF BeginSingle

LEMMA RunJobHistory ==
  ASSUME Inv, HistoryInv, Inv', Remember, NEW s \in Sessions, NEW c \in JobIds, RunJob(s, c)
  PROVE  HistoryInv'
<1>1. PICK o \in Session : o = session[s] /\ o.pc = "loop" /\ c \in o.todo /\ o.dirty[c] = {} /\ Shaped(o)
  BY DEF RunJob, At, HistoryInv, Kept, Inv, TypeOK
<1>2. PICK row : row = IF o.mem[c] = Unloaded THEN Merged(s, c) ELSE o.mem[c]
  OBVIOUS
<1>3. PICK r : r = [o EXCEPT !.pc = "run", !.cur = {c}, !.todo = o.todo \ {c}, !.mem[c] = row]
  OBVIOUS
<1>4. /\ r.pc = "run" /\ r.cur = {c} /\ r.todo = o.todo \ {c} /\ r.mode = o.mode /\ r.dirty = o.dirty
      /\ r.mem = [o.mem EXCEPT ![c] = row]
  BY <1>3 DEF Session
<1>5. session' = [session EXCEPT ![s] = r]
  BY <1>1, <1>2, <1>3 DEF RunJob
<1>6. Shaped(r) /\ r.todo \cup r.cur \subseteq o.todo \cup o.cur
  BY <1>1, <1>4 DEF Shaped
<1>7. \A j \in JobIds : o.dirty[j] # {} => r.mem[j] = o.mem[j]
  BY <1>1, <1>4, Fields
<1>8. \A j \in JobIds : Owes(o, j) => Owes(r, j)
  BY <1>1, <1>4 DEF Owes
<1>9. UNCHANGED <<table, asked, failures>> /\ o = session[s]
  BY <1>1 DEF RunJob
<1>10. r.mode = o.mode /\ r.dirty = o.dirty
  BY <1>4
<1> QED
  BY <1>5, <1>6, <1>7, <1>8, <1>9, <1>10, ReadsHistory

LEMMA ReloadHistory ==
  ASSUME Inv, HistoryInv, Inv', Remember, NEW s \in Sessions, Reload(s)
  PROVE  HistoryInv'
<1>1. PICK c \in JobIds : c = Current(s) /\ session[s].cur = {c}
  BY CurrentIs DEF Reload, At, AtWork
<1>2. PICK o \in Session : o = session[s] /\ o.dirty[c] = {} /\ Shaped(o)
  BY <1>1 DEF HistoryInv, Kept, Inv, TypeOK
<1>3. PICK row : row = Merged(s, c)
  OBVIOUS
<1>4. PICK r : r = [o EXCEPT !.mem[c] = row]
  OBVIOUS
<1>5. /\ r.pc = o.pc /\ r.cur = o.cur /\ r.todo = o.todo /\ r.mode = o.mode /\ r.dirty = o.dirty
      /\ r.mem = [o.mem EXCEPT ![c] = row]
  BY <1>4 DEF Session
<1>6. session' = [session EXCEPT ![s] = r]
  BY <1>1, <1>2, <1>3, <1>4 DEF Reload
<1>7. Shaped(r) /\ r.todo \cup r.cur \subseteq o.todo \cup o.cur
  BY <1>2, <1>5 DEF Shaped
<1>8. \A j \in JobIds : o.dirty[j] # {} => r.mem[j] = o.mem[j]
  BY <1>2, <1>5, Fields
<1>9. \A j \in JobIds : Owes(o, j) => Owes(r, j)
  BY <1>5 DEF Owes
<1> QED
  BY <1>2, <1>5, <1>6, <1>7, <1>8, <1>9, ReadsHistory DEF Reload

LEMMA DispatchFailsHistory ==
  ASSUME Inv, HistoryInv, Inv', Remember, NEW s \in Sessions, DispatchFails(s)
  PROVE  HistoryInv'
<1>1. PICK c \in JobIds : c = Current(s) /\ session[s].cur = {c}
  BY CurrentIs DEF DispatchFails, At, AtWork
<1>2. PICK new \in Row : new = [status |-> "PENDING", count |-> 0, next |-> "due"]
  BY RowType DEF Statuses
<1>3. PICK old : old = session[s].mem[c]
  OBVIOUS
<1>4. Flush(s, c, old, new, "commit") /\ UNCHANGED <<table, asked, failures>>
  BY <1>1, <1>2, <1>3 DEF DispatchFails
<1>5. session[s].pc = "reset" /\ session[s].mode = "endpoint"
  BY DEF DispatchFails, At, HistoryInv, Shaped
<1>6. new.status # "absent" /\ Timed(new)
  BY <1>2 DEF Timed
<1> QED
  BY <1>1, <1>3, <1>4, <1>5, <1>6, FlushHistory

LEMMA MarkResolvedHistory ==
  ASSUME Inv, HistoryInv, Inv', Remember, NEW s \in Sessions, MarkResolved(s)
  PROVE  HistoryInv'
<1>1. PICK c \in JobIds : c = Current(s) /\ session[s].cur = {c}
  BY CurrentIs DEF MarkResolved, At, AtWork
<1>2. PICK old : old = session[s].mem[c]
  OBVIOUS
<1>3. old.count \in Nat
  BY <1>2, Fields DEF Inv, TypeOK, Row, Unloaded
<1>4. PICK new \in Row : new = [status |-> "RESOLVED", count |-> old.count, next |-> "null"]
  BY <1>3, RowType DEF Statuses
<1>5. Flush(s, c, old, new, "loop") /\ UNCHANGED <<table, asked, failures>>
  BY <1>1, <1>2, <1>4 DEF MarkResolved
<1>6. session[s].pc = "resolve" /\ session[s].mode # "endpoint" /\ session[s].dirty[c] = {}
  BY <1>1 DEF MarkResolved, At, HistoryInv, Shaped, Kept
<1>7. Debt(session[s], c) = 0
  BY <1>6 DEF Debt, Owes
<1>8. new.status # "absent" /\ Timed(new) /\ new.count = old.count + Debt(session[s], c)
  BY <1>3, <1>4, <1>7 DEF Timed
<1> QED
  BY <1>1, <1>2, <1>5, <1>6, <1>8, FlushHistory

LEMMA IncrementRetryHistory ==
  ASSUME Inv, HistoryInv, Inv', Remember, NEW s \in Sessions, IncrementRetry(s)
  PROVE  HistoryInv'
<1>1. PICK c \in JobIds : c = Current(s) /\ session[s].cur = {c}
  BY CurrentIs DEF IncrementRetry, At, AtWork
<1>2. PICK old : old = session[s].mem[c]
  OBVIOUS
<1>3. old \in Row \cup {Unloaded}
  BY <1>2, Fields DEF Inv, TypeOK
<1>4. PICK new \in Row : new = Incremented(old) /\ new.count = old.count + 1
  BY <1>3, IncrementedType
<1>5. Flush(s, c, old, new, "loop") /\ UNCHANGED <<table, asked, failures>>
  BY <1>1, <1>2, <1>4 DEF IncrementRetry
<1>6. session[s].pc = "increment" /\ session[s].mode # "endpoint"
  BY DEF IncrementRetry, At, HistoryInv, Shaped
<1>7. Debt(session[s], c) = 1
  BY <1>1, <1>6 DEF Debt, Owes
<1>8. new.status # "absent" /\ Timed(new)
  BY <1>4 DEF Timed, Incremented
<1> QED
  BY <1>1, <1>2, <1>4, <1>5, <1>6, <1>7, <1>8, FlushHistory

LEMMA CommittedRows ==
  ASSUME NEW s \in Sessions, NEW j \in JobIds, Inv
  PROVE  /\ Committed(s)[j] = Over(session[s], j, table[j])
         /\ session[s].dirty[j] = {} => Committed(s)[j] = table[j]
<1>1. Committed(s)[j] = Over(session[s], j, table[j])
  BY DEF Committed, Merged, Over
<1>2. session[s].dirty[j] = {} => Over(session[s], j, table[j]) = table[j]
  BY DEF Over, Inv, TypeOK, Row
<1> QED
  BY <1>1, <1>2

\* A committed count is one higher when the session had one to commit.
LEMMA CommittedCount ==
  ASSUME Inv, HistoryInv, NEW s \in Sessions, NEW j \in JobIds \ outdated,
         session[s].mode # "endpoint", "count" \in session[s].dirty[j]
  PROVE  Over(session[s], j, table[j]).count = table[j].count + 1
BY DEF HistoryInv, Exact

LEMMA EndsHistory ==
  ASSUME Inv, HistoryInv, Inv', Remember, NEW s \in Sessions, NEW o \in Outcomes, Ended(s, o),
         NEW r, NEW old, old = session[s], session' = [session EXCEPT ![s] = r],
         r.pc = Verdict(o), r.cur = old.cur, r.todo = old.todo, r.mode = old.mode,
         \/ r.dirty = old.dirty /\ r.mem = old.mem /\ UNCHANGED table
         \/ /\ r.dirty = Clean
            /\ \A j \in JobIds \ outdated' : "count" \in old.dirty[j] =>
                  Loses(s, j) \/ table'[j] = Over(old, j, table[j]),
         \A j \in JobIds : CommitsRow(s, j)
  PROVE  HistoryInv'
<1>1. PICK c \in JobIds : c = Current(s) /\ old.cur = {c}
  BY CurrentIs DEF Ended, At, AtWork
<1>2. /\ old.pc = "run" /\ old.mode # "endpoint" /\ Shaped(old) /\ old.dirty[c] = {} /\ r \in Session
      /\ old \in Session /\ r.pc \in {"resolve", "increment"}
  BY <1>1 DEF Ended, At, HistoryInv, Shaped, Kept, Inv, TypeOK, Verdict
<1>3. Shaped(r)
  BY <1>2 DEF Shaped
<1>4. \A j \in JobIds : r.dirty[j] \in {{}, old.dirty[j]}
  BY DEF Clean
<1>5. ASSUME NEW j \in JobIds
      PROVE  /\ table'[j].status = "absent" => table[j].status = "absent"
             /\ r.dirty[j] # {} => r.mem[j] = old.mem[j] /\ table'[j] = table[j]
  <2>1. Kept(old, j, table[j])
    BY DEF HistoryInv
  <2>2. table'[j].status = "absent" => table[j].status = "absent"
    <3>1. CASE old.dirty[j] # {} /\ table'[j] = Over(old, j, table[j])
      BY <2>1, <3>1 DEF Over, Kept
    <3> QED
      BY <3>1 DEF CommitsRow
  <2>3. r.dirty[j] # {} => r.mem[j] = old.mem[j] /\ table'[j] = table[j]
    BY DEF Clean
  <2> QED
    BY <2>2, <2>3
<1>6. ASSUME NEW j \in JobIds PROVE Kept(r, j, table'[j])
  <2>1. Kept(old, j, table[j])
    BY DEF HistoryInv
  <2> QED
    BY <1>4, <1>5, <2>1 DEF Kept
<1>7. ASSUME NEW t \in Sessions, NEW j \in JobIds, t # s, r.dirty[j] # {} PROVE session[t].dirty[j] = {}
  BY <1>4, <1>7 DEF HistoryInv
<1>8. ASSUME NEW j \in JobIds \ outdated', r.dirty[j] # {} PROVE Exact(r, j, table'[j])
  <2>1. Exact(old, j, table[j]) /\ r.dirty = old.dirty /\ r.mem = old.mem /\ table' = table
    BY <1>8, Remembered DEF HistoryInv, Clean
  <2> QED
    BY <2>1 DEF Exact, Over
<1>9. \A j \in asked' : table'[j].status # "absent"
  BY <1>5 DEF Ended, HistoryInv, Inv, TypeOK
<1>10. ASSUME NEW j \in JobIds \ outdated' PROVE Accounts(s, r, j)
  <2>1. PICK f \in {0, 1} : f = IF ~o.ok /\ j = c THEN 1 ELSE 0
    OBVIOUS
  <2>2. failures'[j] = failures[j] + f /\ failures[j] \in Nat
    <3>1. failures' = IF o.ok THEN failures ELSE [failures EXCEPT ![c] = @ + 1]
      BY <1>1 DEF Ended
    <3>2. failures \in [JobIds -> Nat]
      BY DEF Inv, TypeOK
    <3> QED
      BY <2>1, <3>1, <3>2
  <2>3. PICK a \in {0, 1} : a = Debt(old, j) /\ (a = 1 <=> "count" \in old.dirty[j])
    BY <1>2 DEF Debt, Owes
  <2>4. PICK b \in {0, 1} : b = Debt(r, j) /\ (b = 1 <=> f = 1 \/ "count" \in r.dirty[j])
    BY <1>1, <1>2, <2>1 DEF Debt, Owes, Verdict
  <2>5. f = 1 => a = 0
    BY <1>2, <2>1, <2>3
  <2>6. /\ table[j].count \in Nat /\ table'[j].count \in Nat /\ excused[j] \in Nat /\ excused'[j] \in Nat
        /\ Forgiven(j) \/ excused'[j] >= excused[j]
    BY Remembered DEF Inv, TypeOK, HistoryInv, Row
  <2>7. a = 0 => table'[j].count >= table[j].count
    <3>1. table[j].status = "absent" => table[j].count = 0
      BY DEF HistoryInv
    <3>2. a = 0 => Over(old, j, table[j]).count = table[j].count
      BY <2>3 DEF Over
    <3>3. NewRow.count = 0
      BY DEF NewRow
    <3> QED
      BY <2>6, <3>1, <3>2, <3>3 DEF CommitsRow
  <2>8. CASE r.dirty = old.dirty /\ UNCHANGED table
    BY <2>2, <2>3, <2>4, <2>5, <2>6, <2>8 DEF Accounts
  <2>9. CASE r.dirty = Clean
    <3>1. b = f
      BY <2>4, <2>9 DEF Clean
    <3>2. a = 1 => Forgiven(j) \/ table'[j].count + excused'[j] >= table[j].count + excused[j] + 1
      <4>1. ASSUME a = 1, table'[j] = Over(old, j, table[j]) PROVE table'[j].count = table[j].count + 1
        BY <1>2, <2>3, <4>1, CommittedCount, Remembered
      <4>2. ASSUME a = 1, Loses(s, j) PROVE Forgiven(j) \/ excused'[j] >= excused[j] + 1
        BY <4>2, Remembered
      <4>3. ASSUME a = 1, Loses(s, j) PROVE table'[j].count >= table[j].count
        <5>1. "count" \in old.dirty[j] /\ table[j].status # "absent"
          BY <2>3, <4>3 DEF HistoryInv, Kept
        <5>2. table'[j] = table[j] \/ table'[j] = Over(old, j, table[j])
          BY <5>1 DEF CommitsRow
        <5>3. table'[j].count \in {table[j].count, table[j].count + 1}
          BY <4>1, <4>3, <5>2
        <5> QED
          BY <2>6, <5>3
      <4>4. a = 1 => Loses(s, j) \/ table'[j] = Over(old, j, table[j])
        BY <2>3, <2>9 DEF Clean
      <4> QED
        BY <2>6, <4>1, <4>2, <4>3, <4>4
    <3> QED
      BY <2>2, <2>3, <2>4, <2>5, <2>6, <2>7, <3>1, <3>2 DEF Accounts
  <2> QED
    BY <2>8, <2>9
<1> QED
  BY <1>2, <1>3, <1>6, <1>7, <1>8, <1>9, <1>10, HistoryStep

LEMMA EndsUncommittedHistory ==
  ASSUME Inv, HistoryInv, Inv', Remember, NEW s \in Sessions, NEW o \in Outcomes, EndsUncommitted(s, o)
  PROVE  HistoryInv'
<1>1. PICK old \in Session : old = session[s]
  BY DEF Inv, TypeOK
<1>2. PICK r : r = [old EXCEPT !.pc = Verdict(o)]
  OBVIOUS
<1>3. /\ r.pc = Verdict(o) /\ r.cur = old.cur /\ r.todo = old.todo /\ r.mode = old.mode
      /\ r.dirty = old.dirty /\ r.mem = old.mem
  BY <1>2 DEF Session
<1>4. session' = [session EXCEPT ![s] = r] /\ Ended(s, o) /\ UNCHANGED table
  BY <1>1, <1>2 DEF EndsUncommitted
<1>5. \A j \in JobIds : CommitsRow(s, j)
  BY <1>4 DEF CommitsRow
<1> QED
  BY <1>1, <1>3, <1>4, <1>5, EndsHistory

LEMMA EndsCommittedHistory ==
  ASSUME Inv, HistoryInv, Inv', Remember, NEW s \in Sessions, NEW o \in Outcomes, EndsCommitted(s, o)
  PROVE  HistoryInv'
<1>1. PICK old \in Session : old = session[s]
  BY DEF Inv, TypeOK
<1>2. PICK r : r = [old EXCEPT !.pc = Verdict(o), !.dirty = Clean]
  OBVIOUS
<1>3. /\ r.pc = Verdict(o) /\ r.cur = old.cur /\ r.todo = old.todo /\ r.mode = old.mode
      /\ r.dirty = Clean
  BY <1>2 DEF Session
<1>4. session' = [session EXCEPT ![s] = r] /\ Ended(s, o) /\ NewJob(o, Committed(s))
  BY <1>1, <1>2 DEF EndsCommitted
<1>5. PICK rows : rows = Committed(s) /\ rows \in [JobIds -> Row] /\ NewJob(o, rows)
  <2>1. \A j \in JobIds : Merged(s, j) \in Row
    BY MergedType DEF Inv, Loaded
  <2>2. Committed(s) \in [JobIds -> Row]
    BY <2>1 DEF Committed
  <2> QED
    BY <1>4, <2>2
<1>6. \A j \in JobIds :
         table'[j] = rows[j] \/ (table[j].status = "absent" /\ table'[j] = NewRow)
  <2>1. CASE o.new
    <3>1. PICK n \in JobIds : table[n].status = "absent" /\ table' = [rows EXCEPT ![n] = NewRow]
      BY <1>5, <2>1 DEF NewJob
    <3> QED
      BY <1>5, <3>1
  <2>2. CASE ~o.new
    BY <1>5, <2>2 DEF NewJob
  <2> QED
    BY <2>1, <2>2
<1>7. ASSUME NEW j \in JobIds PROVE CommitsRow(s, j)
  BY <1>5, <1>6, CommittedRows DEF CommitsRow
<1>8. ASSUME NEW j \in JobIds \ outdated', "count" \in old.dirty[j]
      PROVE  table'[j] = Over(old, j, table[j])
  <2>1. table[j].status # "absent"
    BY <1>1, <1>8 DEF HistoryInv, Kept
  <2> QED
    BY <1>1, <1>5, <1>6, <2>1, CommittedRows
<1> QED
  BY <1>1, <1>3, <1>4, <1>7, <1>8, EndsHistory

LEMMA EndsRolledBackHistory ==
  ASSUME Inv, HistoryInv, Inv', Remember, NEW s \in Sessions, NEW o \in Outcomes, EndsRolledBack(s, o)
  PROVE  HistoryInv'
<1>1. PICK old \in Session : old = session[s]
  BY DEF Inv, TypeOK
<1>2. PICK r : r = [old EXCEPT !.pc = Verdict(o), !.dirty = Clean, !.mem = Idle.mem]
  OBVIOUS
<1>3. /\ r.pc = Verdict(o) /\ r.cur = old.cur /\ r.todo = old.todo /\ r.mode = old.mode
      /\ r.dirty = Clean
  BY <1>2 DEF Session
<1>4. session' = [session EXCEPT ![s] = r] /\ Ended(s, o) /\ NewJob(o, table)
  BY <1>1, <1>2 DEF EndsRolledBack
<1>5. \A j \in JobIds : CommitsRow(s, j)
  BY <1>4 DEF NewJob, CommitsRow, Inv, TypeOK
<1>6. \A j \in JobIds : "count" \in old.dirty[j] => Loses(s, j)
  BY <1>1 DEF Loses
<1> QED
  BY <1>1, <1>3, <1>4, <1>5, <1>6, EndsHistory

\* A step that gives up the session, whose failed runs are lost.
LEMMA GivesUpHistory ==
  ASSUME Inv, HistoryInv, Inv', Remember, NEW s \in Sessions, session' = [session EXCEPT ![s] = Idle],
         UNCHANGED table, \A j \in asked' : table[j].status # "absent",
         NEW f \in [JobIds -> {0, 1}], \A j \in JobIds : failures'[j] = failures[j] + f[j],
         \A j \in JobIds : f[j] = 1 \/ Owes(session[s], j) => Loses(s, j),
         \A j \in JobIds : f[j] = 1 => ~Owes(session[s], j)
  PROVE  HistoryInv'
<1>1. \A j \in JobIds : CommitsRow(s, j)
  BY DEF CommitsRow
<1>2. ASSUME NEW j \in JobIds
      PROVE  \/ Forgiven(j)
             \/ failures'[j] + Debt(session[s], j) + table[j].count + excused[j]
                  <= failures[j] + table'[j].count + excused'[j]
  <2>1. failures[j] \in Nat /\ table[j].count \in Nat /\ excused[j] \in Nat /\ excused'[j] \in Nat
    BY Remembered DEF Inv, TypeOK, HistoryInv, Row
  <2>2. Forgiven(j) \/ excused'[j] >= excused[j]
    BY Remembered
  <2>3. f[j] = 1 \/ Owes(session[s], j) => Forgiven(j) \/ excused'[j] >= excused[j] + 1
    BY Remembered
  <2> QED
    BY <2>1, <2>2, <2>3 DEF Debt
<1> QED
  BY <1>1, <1>2, LeavesHistory

LEMMA EndsBrokenHistory ==
  ASSUME Inv, HistoryInv, Inv', Remember, NEW s \in Sessions, NEW o \in Outcomes, EndsBroken(s, o)
  PROVE  HistoryInv'
<1>1. PICK c \in JobIds : c = Current(s) /\ session[s].cur = {c}
  BY CurrentIs DEF EndsBroken, Ended, At, AtWork
<1>2. PICK f \in [JobIds -> {0, 1}] : f = [j \in JobIds |-> IF ~o.ok /\ j = c THEN 1 ELSE 0]
  OBVIOUS
<1>3. \A j \in JobIds : failures'[j] = failures[j] + f[j]
  <2>1. failures' = IF o.ok THEN failures ELSE [failures EXCEPT ![c] = @ + 1]
    BY <1>1 DEF EndsBroken, Ended
  <2>2. failures \in [JobIds -> Nat]
    BY DEF Inv, TypeOK
  <2> QED
    BY <1>2, <2>1, <2>2
<1>4. \A j \in JobIds : Owes(session[s], j) => "count" \in session[s].dirty[j]
  BY DEF EndsBroken, Ended, At, Owes
<1>5. \A j \in JobIds : f[j] = 1 => j = c
  BY <1>2
<1>6. \A j \in JobIds : f[j] = 1 \/ Owes(session[s], j) => Loses(s, j)
  BY <1>1, <1>4, <1>5 DEF Loses
<1>7. \A j \in JobIds : f[j] = 1 => ~Owes(session[s], j)
  <2>1. session[s].dirty[c] = {}
    BY <1>1 DEF HistoryInv, Kept
  <2> QED
    BY <1>4, <1>5, <2>1
<1>8. /\ session' = [session EXCEPT ![s] = Idle] /\ UNCHANGED table
      /\ \A j \in asked' : table[j].status # "absent"
  BY DEF EndsBroken, Ended, HistoryInv
<1> QED
  BY <1>3, <1>6, <1>7, <1>8, GivesUpHistory

LEMMA StopsHistory ==
  ASSUME Inv, HistoryInv, Inv', Remember, NEW s \in Sessions,
         Dispatch(s) \/ DeadlockAbort(s) \/ Crash(s)
  PROVE  HistoryInv'
<1>1. PICK f \in [JobIds -> {0, 1}] : f = [j \in JobIds |-> 0]
  OBVIOUS
<1>2. /\ session' = [session EXCEPT ![s] = Idle]
      /\ UNCHANGED table /\ UNCHANGED failures
  BY DEF Dispatch, DeadlockAbort, Crash
<1>3. \A j \in JobIds : failures'[j] = failures[j] + f[j] /\ f[j] = 0
  BY <1>1, <1>2 DEF Inv, TypeOK
<1>4. ASSUME NEW j \in JobIds, Owes(session[s], j) PROVE Loses(s, j)
  <2>1. ~Dispatch(s)
    BY <1>4 DEF Owes, Dispatch, At, HistoryInv, Shaped
  <2>2. "count" \in session[s].dirty[j] \/ (At(s, "increment") /\ j \in session[s].cur)
    BY <1>4 DEF Owes, At
  <2> QED
    BY <2>1, <2>2 DEF Loses
<1>5. ASSUME NEW j \in asked' PROVE table[j].status # "absent"
  <2>1. j \in asked \cup session[s].todo \cup session[s].cur \cup Locked(s)
    BY DEF Dispatch, DeadlockAbort, Crash
  <2>2. j \in JobIds
    BY DEF Inv, TypeOK
  <2> QED
    BY <2>1, <2>2 DEF HistoryInv, Kept, Locked
<1>6. \A j \in JobIds : f[j] = 1 \/ Owes(session[s], j) => Loses(s, j)
  BY <1>3, <1>4
<1>7. \A j \in JobIds : f[j] = 1 => ~Owes(session[s], j)
  BY <1>3
<1> QED
  BY <1>2, <1>3, <1>5, <1>6, <1>7, GivesUpHistory

LEMMA CommitHistory ==
  ASSUME Inv, HistoryInv, Inv', Remember, NEW s \in Sessions, Commit(s)
  PROVE  HistoryInv'
<1>1. /\ session' = [session EXCEPT ![s] = Idle] /\ table' = Committed(s) /\ UNCHANGED <<asked, failures>>
      /\ session[s].pc \in {"commit", "loop"}
  BY DEF Commit, At
<1>2. ASSUME NEW j \in JobIds PROVE CommitsRow(s, j) /\ table'[j] = Over(session[s], j, table[j])
  BY <1>1, CommittedRows DEF CommitsRow
<1>3. ASSUME NEW j \in asked' PROVE table'[j].status # "absent"
  <2>1. j \in JobIds /\ table[j].status # "absent" /\ Kept(session[s], j, table[j])
    BY <1>1 DEF HistoryInv, Inv, TypeOK
  <2>2. Over(session[s], j, table[j]).status # "absent"
    <3>1. CASE session[s].dirty[j] = {}
      BY <2>1, <3>1 DEF Over
    <3>2. CASE session[s].dirty[j] # {}
      BY <2>1, <3>2 DEF Over, Kept
    <3> QED
      BY <3>1, <3>2
  <2> QED
    BY <1>2, <2>1, <2>2
<1>4. ASSUME NEW j \in JobIds \ outdated'
      PROVE  \/ Forgiven(j)
             \/ failures'[j] + Debt(session[s], j) + table[j].count + excused[j]
                  <= failures[j] + table'[j].count + excused'[j]
  <2>1. /\ failures[j] \in Nat /\ table[j].count \in Nat /\ excused[j] \in Nat /\ excused'[j] \in Nat
        /\ failures' = failures
    BY <1>1, Remembered DEF Inv, TypeOK, HistoryInv, Row
  <2>2. Forgiven(j) \/ excused'[j] >= excused[j]
    BY Remembered
  <2>3. CASE "count" \notin session[s].dirty[j]
    <3>1. Debt(session[s], j) = 0
      BY <1>1, <2>3 DEF Debt, Owes
    <3>2. Over(session[s], j, table[j]).count = table[j].count
      BY <2>3 DEF Over
    <3> QED
      BY <1>2, <2>1, <2>2, <3>1, <3>2
  <2>4. CASE "count" \in session[s].dirty[j] /\ session[s].mode = "endpoint"
    <3>1. Resets(s, j)
      BY <2>4 DEF Resets, Locked
    <3> QED
      BY <3>1, Remembered
  <2>5. CASE "count" \in session[s].dirty[j] /\ session[s].mode # "endpoint"
    <3>1. table'[j].count = table[j].count + 1
      BY <1>2, <2>5, CommittedCount, Remembered
    <3>2. Debt(session[s], j) = 1
      BY <2>5 DEF Debt, Owes
    <3> QED
      BY <2>1, <2>2, <3>1, <3>2
  <2> QED
    BY <2>3, <2>4, <2>5
<1> QED
  BY <1>1, <1>2, <1>3, <1>4, LeavesHistory

LEMMA HistoryNextInv == Inv /\ HistoryInv /\ [HistoryNext]_historyVars => Inv' /\ HistoryInv'
<1> SUFFICES ASSUME Inv, HistoryInv, [HistoryNext]_historyVars PROVE Inv' /\ HistoryInv'
  OBVIOUS
<1>1. Inv'
  BY NextInv DEF HistoryNext, historyVars
<1>2. CASE UNCHANGED historyVars
  <2>1. UNCHANGED <<table, asked, session, failures, outdated, excused>>
    BY <1>2 DEF historyVars, vars
  <2>2. \A j \in JobIds : Debtors(j)' = Debtors(j)
    BY <2>1 DEF Debtors
  <2> QED
    BY <1>1, <2>1, <2>2 DEF HistoryInv, Shaped, Kept, Timed, Exact, Over
<1>3. CASE Next /\ Remember
  <2>1. ASSUME NEW j \in JobIds, Tick(j) PROVE HistoryInv'
    BY <1>3, <2>1, TickHistory
  <2>2. ASSUME NEW s \in Sessions, BeginQueue(s) PROVE HistoryInv'
    BY <1>1, <1>3, <2>2, BeginQueueHistory
  <2>3. ASSUME NEW s \in Sessions, NEW j \in JobIds, RetryFailedJob(s, j) \/ BeginSingle(s, j)
        PROVE  HistoryInv'
    BY <1>1, <1>3, <2>3, RetryFailedJobHistory, BeginSingleHistory
  <2>4. ASSUME NEW s \in Sessions, Work(s) PROVE HistoryInv'
    <3>1. ASSUME NEW j \in JobIds, RunJob(s, j) PROVE HistoryInv'
      BY <1>1, <1>3, <3>1, RunJobHistory
    <3>2. ASSUME NEW o \in Outcomes,
                 EndsUncommitted(s, o) \/ EndsCommitted(s, o) \/ EndsRolledBack(s, o) \/ EndsBroken(s, o)
          PROVE  HistoryInv'
      BY <1>1, <1>3, <3>2, EndsUncommittedHistory, EndsCommittedHistory, EndsRolledBackHistory,
         EndsBrokenHistory
    <3>3. ASSUME DispatchFails(s) \/ MarkResolved(s) \/ Reload(s) \/ IncrementRetry(s) \/ Commit(s)
          PROVE  HistoryInv'
      BY <1>1, <1>3, <3>3, DispatchFailsHistory, MarkResolvedHistory, ReloadHistory,
         IncrementRetryHistory, CommitHistory
    <3>4. ASSUME Dispatch(s) \/ DeadlockAbort(s) PROVE HistoryInv'
      BY <1>1, <1>3, <3>4, StopsHistory
    <3> QED
      BY <2>4, <3>1, <3>2, <3>3, <3>4 DEF Work
  <2>5. ASSUME NEW s \in Sessions, Crash(s) PROVE HistoryInv'
    BY <1>1, <1>3, <2>5, StopsHistory
  <2>6. Next
    BY <1>3
  <2> QED
    BY <1>1, <2>1, <2>2, <2>3, <2>4, <2>5, <2>6 DEF Next
<1> QED
  BY <1>1, <1>2, <1>3 DEF HistoryNext

LEMMA HistoryAlways == HistorySpec => [](Inv /\ HistoryInv)
<1>1. HistoryInit => Inv /\ HistoryInv
  BY InitInv, HistoryInitInv DEF HistoryInit
<1> QED
  BY <1>1, HistoryNextInv, PTL DEF HistorySpec

\* get_ready_for_retry never returns a pending job without a time.  However many
\* sessions overlap, whatever services do to the shared session, however often the
\* endpoint resets a job and whoever is killed: a pending job has a time, unless a
\* session updated it although another had changed its row since it was loaded.
THEOREM PendingKeepsTimer == HistorySpec => []PendingHasTimer
<1>1. HistoryInv => PendingHasTimer
  BY DEF HistoryInv, Timed, PendingHasTimer
<1> QED
  BY <1>1, HistoryAlways, PTL

\* increment_retry, for any sessions, outcomes (the rollback of every failed order
\* attempt among them), resets and crashes: once no session has a job in hand, all its
\* failed runs are in its count, except those forgiven by a reset and one for each
\* time a session that held one uncommitted was rolled back or ended early; or the
\* job was updated from an outdated row.
THEOREM EveryRunCounted == HistorySpec => []EachFailureCounts
<1>1. Inv /\ HistoryInv => EachFailureCounts
  <2> SUFFICES ASSUME Inv, HistoryInv, NEW j \in JobIds \ outdated,
                      \A s \in Sessions : j \notin session[s].cur \cup Locked(s)
               PROVE  failures[j] <= table[j].count + excused[j]
    BY DEF EachFailureCounts
  <2>1. Debtors(j) = {}
    BY DEF Debtors, Owes, Locked
  <2>2. Cardinality(Debtors(j)) = 0
    BY <2>1, FS_EmptySet
  <2>3. failures[j] <= table[j].count + excused[j] + 0
    BY <2>2 DEF HistoryInv
  <2>4. table[j].count \in Nat /\ excused[j] \in Nat
    BY DEF Inv, TypeOK, HistoryInv, Row
  <2> QED
    BY <2>3, <2>4
<1> QED
  BY <1>1, HistoryAlways, PTL
=============================================================================
