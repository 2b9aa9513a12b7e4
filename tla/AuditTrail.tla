----------------------------- MODULE AuditTrail -----------------------------
(***************************************************************************)
(* The audit log of the platform: how rows are chained by hash when they   *)
(* are inserted, and how the nightly run moves old ones to cold storage.   *)
(*                                                                         *)
(* Any flush with a pending audit row takes one advisory lock, reads the   *)
(* hash of the row with the highest id and inserts the row that names it   *)
(* (repositories/audit_chain.py); the lock is kept to the transaction's    *)
(* end.  The application connects as luciel_app, whose every statement     *)
(* passes the row policies: it sees the rows of its admin that belong to   *)
(* its instance or to none, and so does the read of the tail.  The         *)
(* archiver's role bypasses the policies and sees every row.               *)
(*                                                                         *)
(* The archiver takes the rows of one tier after the other, oldest first   *)
(* and a batch at a time, writes each customer's part of the batch to S3,  *)
(* stamps it and records what it did (services/audit_retention_service.py).*)
(* The broker hands the nightly message to another worker when a run takes *)
(* longer than its visibility timeout, so that runs overlap.               *)
(*                                                                         *)
(* A row's hash is told apart from every other by the row's content, which *)
(* has a time in it: it is modelled as the row's id.  Gaps that rollbacks  *)
(* leave in the ids are closed.                                            *)
(***************************************************************************)
EXTENDS Integers, Sequences, FiniteSets

CONSTANTS
    Writers,   \* application sessions that write audit rows
    Runs,      \* workers that execute the nightly run
    Admins,
    Insts,     \* instances
    NoInst,    \* luciel_instance_id IS NULL: a row of the admin as a whole
    History,   \* the rows that were there when tiers came, in id order
    Window,    \* retention of each tier, in ticks
    BatchSize, \* rows that one SELECT of the archiver returns
    MaxRows,   \* bound: no writer's transaction begins on a log of this length
    MaxRecords,\* bound: audit rows of one transaction
    Horizon,   \* bound: ticks of the clock
    MaxFaults, \* bound: outages, failed transactions and killed runs
    Everything, NoView, Free

Tiers  == <<"free", "pro">>
NoTier == "none"
Scopes == [adm : Admins, inst : Insts \union {NoInst}]
Views  == Scopes \union {Everything}
Sessions == Writers \union Runs
Genesis == 0

ASSUME ActorAssumption ==
    /\ IsFiniteSet(Writers) /\ IsFiniteSet(Runs) /\ Writers \intersect Runs = {}
    /\ Free \notin Sessions /\ NoInst \notin Insts
    /\ {Everything, NoView} \intersect Scopes = {} /\ Everything # NoView
ASSUME HistoryAssumption ==
    History \in Seq([of : Scopes, tier : {"free", "pro"}, at : Int])
ASSUME NumberAssumption ==
    /\ Window \in [{"free", "pro"} -> Nat] /\ BatchSize \in Nat \ {0}
    /\ {MaxRows, MaxRecords, Horizon, MaxFaults} \subseteq Nat

VARIABLES
    \* table admin_audit_logs
    log,      \* rows by id; "seenBy" is history: what the row's writer could see
    stamped,  \* ids with cold_archived_at
    \* open transactions
    view,     \* app.admin_id and app.instance_id; Everything under BYPASSRLS
    pending,  \* ids of the rows that are inserted
    marked,   \* ids of the rows that a run has stamped
    lock,     \* holder of the advisory lock
    step,     \* how far the flush of an audit row has come
    tail,     \* the hash that it chains to
    \* the nightly runs and the bucket
    run, store, s3,
    now, faults

chain == <<log, view, pending, lock, step, tail>>
cold  == <<stamped, marked, run, store>>
vars  == <<chain, cold, s3, now, faults>>

Idle == [pc |-> "idle", tier |-> 1, cutoff |-> 0, batch |-> {}, full |-> FALSE]
NoKey == <<>>

Init ==
    /\ log = [i \in DOMAIN History |->
                [of |-> History[i].of, prev |-> i - 1, tier |-> History[i].tier,
                 at |-> History[i].at, key |-> NoKey, seenBy |-> Everything]]
    /\ stamped = {} /\ view = [s \in Sessions |-> NoView]
    /\ pending = [s \in Sessions |-> {}] /\ marked = [a \in Runs |-> {}]
    /\ lock = Free /\ step = [s \in Sessions |-> "out"]
    /\ tail = [s \in Sessions |-> Genesis]
    /\ run = [a \in Runs |-> Idle] /\ store = <<>> /\ s3 = "up"
    /\ now = 0 /\ faults = 0

-----------------------------------------------------------------------------
(* Row security and the chain.                                             *)

Sees(v, scope) ==
    \/ v = Everything
    \/ /\ v \in Scopes /\ scope.adm = v.adm
       /\ scope.inst \in {NoInst, v.inst}

Committed == DOMAIN log \ UNION {pending[s] : s \in Sessions}
Readable(s) == {i \in Committed \union pending[s] : Sees(view[s], log[i].of)}
Highest(ids) == CHOOSE i \in ids \union {Genesis} : \A j \in ids : j <= i

\* Mutant of TakeLock: the lock is tried and not waited for.
TakeLock_try(s, v) ==
    /\ step[s] = "out" /\ view[s] \in {NoView, v}
    /\ lock' = s /\ view' = [view EXCEPT ![s] = v]
    /\ step' = [step EXCEPT ![s] = "locked"]
    /\ UNCHANGED <<log, pending, tail, cold, s3, now, faults>>

\* The first audit row of a transaction waits for the lock; a later one has it.
TakeLock(s, v) ==
    /\ step[s] = "out" /\ view[s] \in {NoView, v}
    /\ lock \in {Free, s}
    /\ lock' = s /\ view' = [view EXCEPT ![s] = v]
    /\ step' = [step EXCEPT ![s] = "locked"]
    /\ UNCHANGED <<log, pending, tail, cold, s3, now, faults>>

ReadTail(s) ==
    /\ step[s] = "locked"
    /\ step' = [step EXCEPT ![s] = "hashed"]
    /\ tail' = [tail EXCEPT ![s] = Highest(Readable(s))]
    /\ UNCHANGED <<log, view, pending, lock, cold, s3, now, faults>>

\* record() gives no tier; the age of a row without one is never asked for.
Insert(s, scope, key) ==
    LET id == Highest(DOMAIN log) + 1 IN
    /\ step[s] = "hashed"
    /\ log' = [i \in DOMAIN log \union {id} |->
                 IF i = id THEN [of |-> scope, prev |-> tail[s], tier |-> NoTier,
                                 at |-> 0, key |-> key, seenBy |-> view[s]]
                           ELSE log[i]]
    /\ pending' = [pending EXCEPT ![s] = @ \union {id}]
    /\ step' = [step EXCEPT ![s] = "out"] /\ tail' = [tail EXCEPT ![s] = Genesis]
    /\ UNCHANGED <<view, lock, stamped, store, s3, now, faults>>

EndTransaction(s) ==
    /\ view' = [view EXCEPT ![s] = NoView]
    /\ pending' = [pending EXCEPT ![s] = {}]
    /\ lock' = IF lock = s THEN Free ELSE lock
    /\ step' = [step EXCEPT ![s] = "out"] /\ tail' = [tail EXCEPT ![s] = Genesis]

CommitRows(s) == EndTransaction(s) /\ UNCHANGED log
UndoRows(s) ==
    /\ EndTransaction(s)
    /\ log' = [i \in DOMAIN log \ pending[s] |-> log[i]]

Fault == faults < MaxFaults /\ faults' = faults + 1

-----------------------------------------------------------------------------
(* The application: a transaction of a request or a task, from its first   *)
(* audit row on.                                                           *)

WantRecord(w, v) ==
    /\ IF view[w] = NoView THEN Cardinality(DOMAIN log) < MaxRows
                           ELSE Cardinality(pending[w]) < MaxRecords
    /\ TakeLock(w, v)

\* WITH CHECK of the policies: a row that its writer could not read is refused.
Record(w, scope) ==
    /\ Sees(view[w], scope)
    /\ Insert(w, scope, NoKey)
    /\ UNCHANGED <<marked, run>>

Commit(w) ==
    /\ view[w] # NoView /\ step[w] = "out"
    /\ CommitRows(w)
    /\ UNCHANGED <<cold, s3, now, faults>>

\* An exception, a rejection that is already recorded, a killed process.
Rollback(w) ==
    /\ view[w] # NoView /\ Fault
    /\ UndoRows(w)
    /\ UNCHANGED <<cold, s3, now>>

-----------------------------------------------------------------------------
(* The nightly run.                                                        *)

Start(a) ==
    /\ run[a].pc = "idle"
    /\ run' = [run EXCEPT ![a] = [Idle EXCEPT !.pc = "scan", !.cutoff = now]]
    /\ UNCHANGED <<chain, stamped, marked, store, s3, now, faults>>

Expired(i, when) == log[i].tier # NoTier /\ log[i].at + Window[log[i].tier] < when
Due(a) == {i \in Committed \ stamped :
             log[i].tier = Tiers[run[a].tier] /\ Expired(i, run[a].cutoff)}

\* ORDER BY created_at, id; what the SELECT returns is kept as a set of ids.
Older(i, j) == log[i].at < log[j].at \/ (log[i].at = log[j].at /\ i < j)
Oldest(S)   == CHOOSE i \in S : \A j \in S : ~Older(j, i)
Newest(S)   == CHOOSE i \in S : \A j \in S : ~Older(i, j)
Batch(a)    == {i \in Due(a) : Cardinality({j \in Due(a) : Older(j, i)}) < BatchSize}

\* Mutant of NextTier: a tier without due rows ends the run.
NextTier_return(r) == Idle
NextTier(r) ==
    IF r.tier = Len(Tiers) THEN Idle
                           ELSE [r EXCEPT !.pc = "scan", !.tier = @ + 1, !.batch = {}]


Fetch(a) ==
    /\ run[a].pc = "scan"
    /\ run' = [run EXCEPT ![a] =
                 IF Due(a) = {} THEN NextTier(@)
                 ELSE [@ EXCEPT !.pc = "group", !.batch = Batch(a),
                                !.full = Cardinality(Batch(a)) = BatchSize]]
    /\ UNCHANGED <<chain, stamped, marked, store, s3, now, faults>>

\* The rows of the batch that share admin and instance with its first one.
Scope(a) == log[Oldest(run[a].batch)].of
Group(a) == {i \in run[a].batch : log[i].of = Scope(a)}
\* Mutant of Key: an object is named by its first row only.
Key_first(a) == <<Oldest(Group(a)), Oldest(Group(a))>>
Key(a)   == <<Oldest(Group(a)), Newest(Group(a))>>

\* A full batch may not have been the last one: the tier is read again.
NextGroup(a) ==
    LET rest == run[a].batch \ Group(a)
    IN  IF rest # {}        THEN [run[a] EXCEPT !.pc = "group", !.batch = rest]
        ELSE IF run[a].full THEN [run[a] EXCEPT !.pc = "scan", !.batch = {}]
        ELSE NextTier(run[a])

Goto(a, where) == run' = [run EXCEPT ![a].pc = where]

PutObject(a) ==
    /\ run[a].pc = "group" /\ s3 = "up"
    /\ store' = [k \in DOMAIN store \union {Key(a)} |->
                   IF k = Key(a) THEN Group(a) ELSE store[k]]
    /\ Goto(a, "stored")
    /\ UNCHANGED <<chain, stamped, marked, s3, now, faults>>

PutFails(a) ==
    /\ run[a].pc = "group" /\ s3 = "down"
    /\ run' = [run EXCEPT ![a] = NextGroup(a)]
    /\ UNCHANGED <<chain, stamped, marked, store, s3, now, faults>>

\* An UPDATE waits for the rows that another transaction has updated.
Mark(a) ==
    /\ run[a].pc = "stored"
    /\ \A b \in Runs \ {a} : marked[b] \intersect Group(a) = {}
    /\ marked' = [marked EXCEPT ![a] = Group(a) \ stamped]
    /\ Goto(a, "marked")
    /\ UNCHANGED <<chain, stamped, store, s3, now, faults>>

WantBatchAudit(a) == run[a].pc = "marked" /\ TakeLock(a, Everything)

EmitBatchAudit(a) ==
    /\ run[a].pc = "marked"
    /\ Insert(a, Scope(a), Key(a))
    /\ Goto(a, "emitted") /\ UNCHANGED marked

CommitGroup(a) ==
    /\ run[a].pc = "emitted"
    /\ CommitRows(a)
    /\ stamped' = stamped \union marked[a] /\ marked' = [marked EXCEPT ![a] = {}]
    /\ run' = [run EXCEPT ![a] = NextGroup(a)]
    /\ UNCHANGED <<store, s3, now, faults>>

-----------------------------------------------------------------------------
(* What goes wrong, and time.                                              *)

Undo(a) ==
    /\ UndoRows(a) /\ marked' = [marked EXCEPT ![a] = {}]
    /\ UNCHANGED <<stamped, store, s3, now>>

\* A statement fails: the group is given up and the next one is tried.
GroupFails(a) ==
    /\ run[a].pc \in {"stored", "marked", "emitted"} /\ Fault
    /\ run' = [run EXCEPT ![a] = NextGroup(a)]
    /\ Undo(a)

\* The worker is killed; or the SELECT of a tier fails, and with it those of
\* the tiers after it, which run in the same aborted transaction.
Crash(a) ==
    /\ run[a].pc # "idle" /\ Fault
    /\ run' = [run EXCEPT ![a] = Idle]
    /\ Undo(a)

Outage ==
    /\ s3 = "up" /\ Fault /\ s3' = "down"
    /\ UNCHANGED <<chain, cold, now>>

Repair ==
    /\ s3 = "down" /\ s3' = "up"
    /\ UNCHANGED <<chain, cold, now, faults>>

Tick ==
    /\ now < Horizon /\ now' = now + 1
    /\ UNCHANGED <<chain, cold, s3, faults>>

WriterStep(w) ==
    \/ \E v \in Scopes : WantRecord(w, v)
    \/ ReadTail(w)
    \/ \E scope \in Scopes : Record(w, scope)
    \/ Commit(w)
RunStep(a) ==
    \/ Start(a) \/ Fetch(a) \/ PutObject(a) \/ PutFails(a) \/ Mark(a)
    \/ WantBatchAudit(a) \/ ReadTail(a) \/ EmitBatchAudit(a) \/ CommitGroup(a)

Next ==
    \/ \E w \in Writers : WriterStep(w) \/ Rollback(w)
    \/ \E a \in Runs : RunStep(a) \/ GroupFails(a) \/ Crash(a)
    \/ Outage \/ Repair \/ Tick

Spec == Init /\ [][Next]_vars

(* A transaction that has begun is ended; a run goes on unless it waits    *)
(* for a lock, and it is started again each night.  Nothing in the code    *)
(* brings the bucket back.                                                 *)
Fairness ==
    /\ \A w \in Writers :
         WF_vars(ReadTail(w) \/ (\E scope \in Scopes : Record(w, scope)) \/ Commit(w))
    /\ \A a \in Runs : WF_vars(RunStep(a))

FairSpec == Spec /\ Fairness

-----------------------------------------------------------------------------
(* Properties.                                                             *)

\* Type invariant; only a holder of the lock has rows that are not committed.
TypeOK ==
    /\ DOMAIN log \subseteq Nat \ {Genesis}
    /\ log \in [DOMAIN log -> [of : Scopes, prev : Nat, tier : {"free", "pro", NoTier},
                              at : Int, key : {NoKey} \union DOMAIN store, seenBy : Views]]
    /\ stamped \subseteq Committed
    /\ view \in [Sessions -> Views \union {NoView}]
    /\ \A s \in Sessions : pending[s] # {} => lock = s
    /\ step \in [Sessions -> {"out", "locked", "hashed"}] /\ tail \in [Sessions -> Nat]
    /\ run \in [Runs -> [pc : {"idle", "scan", "group", "stored", "marked", "emitted"},
                         tier : DOMAIN Tiers, cutoff : 0..Horizon,
                         batch : SUBSET DOMAIN log, full : BOOLEAN]]
    /\ s3 \in {"up", "down"} /\ now \in 0..Horizon /\ faults \in 0..MaxFaults

\* A committed row names the last row before it that its writer could see,
\* whatever was inserted, rolled back or committed meanwhile: no writer's
\* chain skips a row of its view or hangs on one that was never committed.
\* The row with the next-lower id, which the code's comments promise, is named
\* exactly by those who could see it: the log as a whole forks.
NextLower(i) == Highest({j \in Committed : j < i})
Known(i, j) == j # Genesis => Sees(log[i].seenBy, log[j].of)

PredecessorInView ==
    \A i \in Committed :
        /\ log[i].prev = Highest({j \in Committed : j < i /\ Sees(log[i].seenBy, log[j].of)})
        /\ log[i].prev = NextLower(i) <=> Known(i, NextLower(i))

\* A row stamped as archived is in an object of the bucket, and a committed
\* audit row names that object, however runs overlap, fail and are killed.
ColdIsFindable ==
    \A i \in stamped : \E e \in Committed :
        log[e].key \in DOMAIN store /\ i \in store[log[e].key]

\* Once the bucket stays reachable, again and again no row with a tier is left
\* whose window is over.
DueIsArchived ==
    <>[](s3 = "up")
      => []<>(\A i \in DOMAIN History : Expired(i, now) => i \in stamped)

=============================================================================
