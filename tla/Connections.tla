---------------------------- MODULE Connections ----------------------------
(***************************************************************************)
(* The OAuth connections of one instance and connector type, the secret    *)
(* their refresh token is kept in, and the outbox that deletes it.         *)
(*                                                                         *)
(* A row of instance_connections is made by the initiate route, connected  *)
(* by the consent callback, re-checked by the refresh route and by the     *)
(* nightly worker, and revoked by the disconnect route or by the cascade   *)
(* of an instance deletion or account closure.  Revocation puts the row's  *)
(* secret_ref into secret_cleanup_outbox in its own transaction; a nightly *)
(* drain deletes the secret.  A callback and a check load the row, call a  *)
(* provider and the secret store, and only then write: they overlap with   *)
(* revocations, with each other and with the drain.                        *)
(*                                                                         *)
(* The name of the secret is made from admin, instance and type, so all    *)
(* rows here share one name.  A secret has a new ARN whenever the name is  *)
(* created anew, and keeps it when its value is overwritten.               *)
(***************************************************************************)
EXTENDS Naturals, FiniteSets

CONSTANTS
    MaxRows,     \* bound: connection rows made one after another
    MaxSecrets,  \* bound: times the secret is created anew
    MaxAttempts, \* mark_failed: attempts before a row is left to an operator
    Workers,     \* requests and tasks that work on a connection
    MaxFaults    \* bound: killed requests and tasks

ASSUME BoundAssumption   == {MaxRows, MaxSecrets, MaxFaults} \subseteq Nat
ASSUME AttemptAssumption == MaxAttempts \in Nat \ {0}
ASSUME WorkerAssumption  == IsFiniteSet(Workers)

Rows     == 1..MaxRows
ARNs     == 0..MaxSecrets                  \* 0: no secret
Checked  == {"unconfigured", "connected", "error", "expired"}
Details  == Checked \cup {"none", "text"} \* of status_detail: a status means prior_status=
Statuses == Checked \cup {"dormant"}

VARIABLES
    \* table instance_connections
    made,      \* rows inserted so far; ids are consecutive
    revoked,   \* rows with revoked_at set
    ref,       \* secret_ref of each row
    status,    \* of the live row; nothing reads a revoked row's
    prior,     \* of the live row, status_detail: prior_status=..., or "none"
    \* the secret store
    secret,    \* ARN the name has now
    minted,    \* ARNs given out so far
    \* table secret_cleanup_outbox, by the connection_id of the entry
    box,
    free,      \* the account's tier is Free
    job,       \* each worker: the row as it was loaded, and the answer
    revoking,  \* the revocation that has read its row
    drain,     \* the drain: entries to do, and marks of its transaction
    lost,      \* history: ARNs whose row was left to name another, or none
    faults

table == <<made, revoked, status, ref, prior>>
store == <<secret, minted>>
vars  == <<table, store, box, free, job, revoking, drain, lost, faults>>

NoJob    == [pc |-> "idle", row |-> 0, status |-> "unconfigured", prior |-> "none",
             ref |-> 0, out |-> "unconfigured", new |-> 0]
NoRevoke == [how |-> "none", row |-> 0, ref |-> 0]
NoEntry  == [state |-> "none", ref |-> 0, tries |-> 0]
NoDrain  == [pc |-> "off", todo |-> {}, done |-> {}, failed |-> {}]

Init ==
    /\ made = 0 /\ revoked = {} /\ lost = {}
    /\ status = "unconfigured" /\ prior = "none"
    /\ ref    = [c \in Rows |-> 0]
    /\ secret = 0 /\ minted = 0
    /\ box = [c \in Rows |-> NoEntry]
    /\ free = FALSE
    /\ job = [w \in Workers |-> NoJob]
    /\ revoking = NoRevoke /\ drain = NoDrain
    /\ faults = 0

\* The partial unique index allows one row with revoked_at NULL.
IsLive(c)  == c \in 1..made /\ c \notin revoked
Pending(c) == box[c].state = "pending"

----------------------------------------------------------------------------
(* The routes of the dashboard *)

\* initiate and configure insert a row when none is live.
Initiate ==
    /\ made < MaxRows /\ \A c \in Rows : ~IsLive(c)
    /\ made' = made + 1 /\ status' = "unconfigured" /\ prior' = "none"
    /\ UNCHANGED <<revoked, ref, store, box, free, job, revoking,
                   drain, lost, faults>>

\* Load the live row; its columns are remembered, as the ORM does.
Load(w, c, pc) ==
    /\ job[w].pc = "idle" /\ IsLive(c)
    /\ job' = [job EXCEPT ![w] =
                   [pc |-> pc, row |-> c, status |-> status, prior |-> prior,
                    ref |-> ref[c], out |-> "unconfigured", new |-> 0]]
    /\ UNCHANGED <<table, store, box, free, revoking, drain, lost, faults>>

BeginCallback(w, c) == Load(w, c, "consent")

\* A refresh by the route, or by the nightly worker over all live rows.
BeginRefresh(w, c) == Load(w, c, "probe")

Answer(w, out, arn) ==
    job' = [job EXCEPT ![w].pc = "answer", ![w].out = out, ![w].new = arn]

\* The provider refuses the code, or the store refuses the secret.
ConsentFails(w) ==
    /\ job[w].pc = "consent"
    /\ Answer(w, "error", 0)
    /\ UNCHANGED <<table, store, box, free, revoking, drain, lost, faults>>

\* store.put: create the secret, or overwrite the one the name has.
StoreToken(w) ==
    /\ job[w].pc = "consent"
    /\ IF secret = 0
       THEN minted < MaxSecrets /\ minted' = minted + 1 /\ secret' = minted + 1
       ELSE UNCHANGED store
    /\ Answer(w, "connected", secret')
    /\ UNCHANGED <<table, box, free, revoking, drain, lost, faults>>

\* _refresh_oauth: without a token it reports unconfigured; it reads the
\* secret, which may fail; a token that is read is refreshed or refused.
\* Rotation keeps the ARN.
Probe(w) ==
    /\ job[w].pc = "probe"
    /\ \E out \in Checked :
        /\ out = "unconfigured" <=> job[w].ref = 0
        /\ out \in {"connected", "expired"} => secret = job[w].ref
        /\ Answer(w, out, 0)
    /\ UNCHANGED <<table, store, box, free, revoking, drain, lost, faults>>

\* What apply_health_check puts into status_detail; an error leaves it.
DetailAfter(w) ==
    CASE job[w].out = "error"   -> job[w].prior
      [] job[w].out = "expired" -> "text"
      [] OTHER                  -> "none"

\* Only a column whose value differs from the loaded one is written.
Written(loaded, new, now) == IF new = loaded THEN now ELSE new

\* The secret_ref a commit leaves in the row: a value that is the loaded one
\* is not written.
RefAfter(w) ==
    IF job[w].new \in {0, job[w].ref} THEN ref[job[w].row] ELSE job[w].new

\* A revocation has read the row, so it enqueues what the row named before.
Overtaken(c) == c \in revoked \/ revoking.row = c

\* The ARNs a commit leaves unnamed: a new one of its own, on a row that a
\* revocation has read already; another callback's, that it writes over.
Forgets(w) ==
    LET named == ref[job[w].row] IN
    (IF Overtaken(job[w].row) THEN {RefAfter(w)} \ {named} ELSE {})
        \cup ({named} \ {0, RefAfter(w), job[w].ref})

\* apply_health_check and the commit, by primary key: a row that has been
\* revoked or put to sleep since is written all the same.
CommitHealth(w) ==
    LET c == job[w].row IN
    /\ job[w].pc = "answer"
    /\ IF IsLive(c)
       THEN /\ status' = Written(job[w].status, job[w].out, status)
            /\ prior'  = Written(job[w].prior, DetailAfter(w), prior)
       ELSE UNCHANGED <<status, prior>>
    /\ ref'  = [ref EXCEPT ![c] = RefAfter(w)]
    /\ lost' = lost \cup Forgets(w)
    /\ job'  = [job EXCEPT ![w] = NoJob]
    /\ UNCHANGED <<made, revoked, store, box, free, revoking, drain, faults>>

----------------------------------------------------------------------------
(* Revocation: read the row, then revoke it and enqueue the ref that was read *)

ReadRevoke(c, how) ==
    /\ revoking = NoRevoke /\ IsLive(c)
    /\ revoking' = [how |-> how, row |-> c, ref |-> ref[c]]
    /\ UNCHANGED <<table, store, box, free, job, drain, lost, faults>>

\* The cascade also sets status, on a row that is not live any more.
MarkRevoked(c) ==
    /\ revoked' = revoked \cup {c}
    /\ status' = "unconfigured" /\ prior' = "none"
    /\ UNCHANGED <<made, ref>>

\* Mutant of CommitRevoke: only the disconnect route enqueues.
CommitRevoke_cascadeForgets ==
    LET c == revoking.row IN
    /\ revoking # NoRevoke
    /\ MarkRevoked(c)
    /\ box' = IF revoking.ref = 0 \/ revoking.how = "cascade" THEN box
              ELSE [box EXCEPT ![c] = [state |-> "pending", ref |-> revoking.ref, tries |-> 0]]
    /\ revoking' = NoRevoke
    /\ UNCHANGED <<store, free, job, drain, lost, faults>>

CommitRevoke ==
    LET c == revoking.row IN
    /\ revoking # NoRevoke
    /\ MarkRevoked(c)
    /\ box' = IF revoking.ref = 0 THEN box
              ELSE [box EXCEPT ![c] = [state |-> "pending", ref |-> revoking.ref, tries |-> 0]]
    /\ revoking' = NoRevoke
    /\ UNCHANGED <<store, free, job, drain, lost, faults>>

----------------------------------------------------------------------------
(* Downgrade and re-upgrade of the account *)

Sleeps == made \notin revoked /\ made > 0 /\ status # "dormant"

\* set_dormant_for_admin
SetDormant ==
    /\ ~free /\ free' = TRUE
    /\ prior'  = IF Sleeps THEN status ELSE prior
    /\ status' = IF Sleeps THEN "dormant" ELSE status
    /\ UNCHANGED <<made, revoked, ref, store, box, job, revoking, drain, lost, faults>>

\* restore_from_dormant_for_admin, _extract_prior_status: a dormant row whose
\* detail names no status becomes connected.
RestoreDormant ==
    /\ free /\ free' = FALSE
    /\ status' = IF status # "dormant" THEN status
                 ELSE IF prior \in Checked THEN prior ELSE "connected"
    /\ prior'  = IF status = "dormant" THEN "none" ELSE prior
    /\ UNCHANGED <<made, revoked, ref, store, box, job, revoking, drain, lost, faults>>

----------------------------------------------------------------------------
(* run_secret_cleanup_drain: one transaction, a call to the store per entry *)

DrainStart ==
    /\ drain.pc = "off" /\ \E c \in Rows : Pending(c)
    /\ drain' = [NoDrain EXCEPT !.pc = "on", !.todo = {c \in Rows : Pending(c)}]
    /\ UNCHANGED <<table, store, box, free, job, revoking, lost, faults>>

\* Oldest first.
IsNext(c) == c \in drain.todo /\ \A d \in drain.todo : c <= d

\* Mutant of DrainRow: the entry is marked and the secret is not deleted.
DrainRow_marksOnly(c) ==
    /\ drain.pc = "on" /\ IsNext(c)
    /\ drain' = [drain EXCEPT !.todo = @ \ {c}, !.done = @ \cup {c}]
    /\ UNCHANGED <<table, store, box, free, job, revoking, lost, faults>>

\* Mutant of DrainRow: the secret is deleted by its name.
DrainRow_byName(c) ==
    /\ drain.pc = "on" /\ IsNext(c)
    /\ secret' = 0
    /\ drain' = [drain EXCEPT !.todo = @ \ {c}, !.done = @ \cup {c}]
    /\ UNCHANGED <<table, minted, box, free, job, revoking, lost, faults>>

\* store.delete; a missing secret is not an error.
DrainRow(c) ==
    /\ drain.pc = "on" /\ IsNext(c)
    /\ secret' = IF secret = box[c].ref THEN 0 ELSE secret
    /\ drain' = [drain EXCEPT !.todo = @ \ {c}, !.done = @ \cup {c}]
    /\ UNCHANGED <<table, minted, box, free, job, revoking, lost, faults>>

\* SecretStoreError
DrainRowFails(c) ==
    /\ drain.pc = "on" /\ IsNext(c)
    /\ drain' = [drain EXCEPT !.todo = @ \ {c}, !.failed = @ \cup {c}]
    /\ UNCHANGED <<table, store, box, free, job, revoking, lost, faults>>

\* mark_done
DoneEntry(e) == [e EXCEPT !.state = "done", !.tries = @ + 1]

\* Mutant of FailedEntry: the attempts are counted from zero again.
FailedEntry_again(e) == [e EXCEPT !.tries = (@ + 1) % MaxAttempts]

\* mark_failed
FailedEntry(e) ==
    [e EXCEPT !.tries = @ + 1,
              !.state = IF e.tries + 1 >= MaxAttempts THEN "failed" ELSE @]

DrainCommit ==
    /\ drain.pc = "on" /\ drain.todo = {}
    /\ box' = [c \in Rows |-> IF c \in drain.done THEN DoneEntry(box[c])
                              ELSE IF c \in drain.failed THEN FailedEntry(box[c])
                              ELSE box[c]]
    /\ drain' = NoDrain
    /\ UNCHANGED <<table, store, free, job, revoking, lost, faults>>

----------------------------------------------------------------------------
(* A request or a task is killed, or raises: its transaction is rolled back, *)
(* what it did to the store is not.                                          *)

WorkerDies(w) ==
    /\ job[w].pc # "idle" /\ faults < MaxFaults
    /\ faults' = faults + 1
    /\ lost'   = lost \cup ({job[w].new} \ {0, job[w].ref})
    /\ job' = [job EXCEPT ![w] = NoJob]
    /\ UNCHANGED <<table, store, box, free, revoking, drain>>

\* Only ClientError becomes a SecretStoreError: a connection that fails or times
\* out raises through the drain, as a failed commit does, and counts no attempt.
DrainBreaks ==
    /\ drain.pc = "on"
    /\ drain' = NoDrain
    /\ UNCHANGED <<table, store, box, free, job, revoking, lost, faults>>

WorkerStep(w) == ConsentFails(w) \/ StoreToken(w) \/ Probe(w) \/ CommitHealth(w)

DrainStep ==
    \/ DrainStart \/ DrainCommit
    \/ \E c \in Rows : DrainRow(c) \/ DrainRowFails(c)

Next ==
    \/ Initiate \/ SetDormant \/ RestoreDormant \/ CommitRevoke
    \/ DrainStep \/ DrainBreaks
    \/ \E c \in Rows :
        \/ \E how \in {"disconnect", "cascade"} : ReadRevoke(c, how)
        \/ \E w \in Workers : BeginCallback(w, c) \/ BeginRefresh(w, c)
    \/ \E w \in Workers : WorkerStep(w) \/ WorkerDies(w)

Spec == Init /\ [][Next]_vars

\* The scheduler starts the drain every night, and a drain goes on or breaks.
FairSpec == Spec /\ WF_vars(DrainStep)

----------------------------------------------------------------------------
(* Every variable keeps its type; at most one row is live; an entry of the    *)
(* outbox belongs to a revoked row and is counted up to MaxAttempts.          *)
TypeOK ==
    /\ made \in 0..MaxRows /\ revoked \subseteq 1..made /\ lost \subseteq ARNs
    /\ status \in Statuses /\ prior \in Details
    /\ ref \in [Rows -> ARNs]
    /\ minted \in ARNs /\ secret \in 0..minted
    /\ box \in [Rows -> [state : {"none", "pending", "done", "failed"},
                         ref : ARNs, tries : 0..MaxAttempts]]
    /\ free \in BOOLEAN /\ faults \in 0..MaxFaults
    /\ job \in [Workers -> [pc : {"idle", "consent", "probe", "answer"}, row : 0..MaxRows,
                            status : Statuses, prior : Details, ref : ARNs,
                            out : Checked, new : ARNs]]
    /\ revoking \in [how : {"none", "disconnect", "cascade"}, row : 0..made, ref : ARNs]
    /\ drain \in [pc : {"off", "on"}, todo : SUBSET Rows, done : SUBSET Rows, failed : SUBSET Rows]
    /\ 1..(made - 1) \subseteq revoked
    /\ \A c \in Rows : box[c].state # "none" => c \in revoked /\ box[c].ref # 0

(* An entry marked done has outlived its secret: the ARN it names is gone for *)
(* good, whatever callbacks, checks and killed drains do between the store's  *)
(* delete and the commit (run_secret_cleanup_drain, mark_done).               *)
DoneMeansGone ==
    \A c \in Rows : box[c].state = "done" => secret # box[c].ref

(* A stored secret is named by the live row, by an entry that is pending or   *)
(* left to an operator, or by a running callback, unless one of three things  *)
(* has happened to it: its callback committed after a revocation had read the *)
(* row (secret_ref is read, enqueued and never looked at again), an           *)
(* overlapping callback of the row wrote an older ARN over it, or its         *)
(* callback was killed between the store and the commit.                      *)
NoOrphanedSecret ==
    secret \notin lost \cup {0} =>
        \/ \E c \in Rows : IsLive(c) /\ ref[c] = secret
        \/ \E c \in Rows : box[c].state \in {"pending", "failed"} /\ box[c].ref = secret
        \/ \E w \in Workers : job[w].new = secret

(* A live row that is connected or asleep has its secret, unless the entry of *)
(* an earlier row names the same ARN: nothing else ever takes the credential  *)
(* of a live connection away, and dormancy keeps it (set_dormant_for_admin).  *)
LostOnlyToPredecessor ==
    \A c \in Rows : IsLive(c) /\ ref[c] # 0 /\ secret # ref[c] =>
        \E d \in 1..(c - 1) : box[d].ref = ref[c] /\ box[d].state # "none"

(* If the drain breaks off only so often, every entry of the outbox is        *)
(* settled in the end, deleted or left to an operator, however often the      *)
(* store refuses.  Without the condition it is not: an entry whose delete     *)
(* keeps timing out is never counted, so it is never given up.                *)
CleanupSettles ==
    <>[][~DrainBreaks]_vars => \A c \in Rows : Pending(c) ~> ~Pending(c)
=============================================================================
