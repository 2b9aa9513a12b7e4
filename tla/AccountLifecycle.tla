-------------------------- MODULE AccountLifecycle --------------------------
(***************************************************************************)
(* Closing an account, reactivating it within the grace window, and the    *)
(* two nightly purges: of a closed account, and of a deleted instance.     *)
(*                                                                         *)
(* app/lifecycle/closure.py stamps the admin, cascades over the instances  *)
(* and then calls Stripe, all in one open transaction.                     *)
(* app/services/reactivation_service.py loads the admin, calls Stripe, and *)
(* only then writes.  The purge of an account verifies it and erases it in *)
(* one transaction that locks nothing beforehand; the purge of instances   *)
(* scans first and does not look again.  Owners pause, resume, delete and  *)
(* restore instances meanwhile.                                            *)
(*                                                                         *)
(* Time is kept as ages: how many ticks ago a closure or deletion was      *)
(* stamped, up to one more than the window.                                *)
(***************************************************************************)
EXTENDS Integers, FiniteSets

CONSTANTS
    Instances,
    Grace,        \* GRACE_WINDOW_DAYS = INSTANCE_RESTORE_GRACE_DAYS = 30 days
    MaxReturns,   \* bound: completed reactivations
    MaxFaults     \* bound: requests and tasks that are rolled back

ASSUME InstanceAssumption == IsFiniteSet(Instances)
ASSUME GraceAssumption    == Grace \in Nat \ {0}
ASSUME ReturnAssumption   == {MaxReturns, MaxFaults} \subseteq Nat

None == -1                  \* a timestamp that is NULL
Ages == None..(Grace + 1)   \* Grace + 1: any later time

VARIABLES
    \* table admins
    active,     \* admins.active
    closedFor,  \* age of closure_initiated_at
    erased,     \* hard_deleted_at is set
    \* table instances
    status,     \* instance_status; "gone" once the row is deleted
    flag,       \* instances.active, the deprecated mirror
    deletedFor, \* age of soft_deleted_at
    \* requests and tasks between their reads and their commit
    closing,        \* age of the stamp of a closure under way
    cut,            \* the instance rows its cascade has locked
    reactivating,
    erasing,        \* the account purge has verified the admin
    batch,          \* instances the instance purge has scanned
    late,   \* history: whether a reactivation that still waited for Stripe when
            \* its window ended is "waiting", or was "written" all the same
    returns, faults

admin == <<active, closedFor, erased>>
inst  == <<status, flag, deletedFor>>
tasks == <<closing, cut, reactivating, erasing, batch>>
vars  == <<admin, inst, tasks, late, returns, faults>>

Init ==
    /\ active = TRUE /\ closedFor = None /\ erased = FALSE
    /\ status     = [i \in Instances |-> "active"]
    /\ flag       = [i \in Instances |-> TRUE]
    /\ deletedFor = [i \in Instances |-> None]
    /\ closing = None /\ cut = {} /\ reactivating = FALSE
    /\ erasing = FALSE /\ batch = {} /\ late = "never"
    /\ returns = 0 /\ faults = 0

----------------------------------------------------------------------------
(* The owner's instances.  A request is let in while the admin is active;    *)
(* rows locked by a running cascade make it wait.                            *)

Free(i) == active /\ i \notin cut

SetInstance(i, s, f, age) ==
    /\ status'     = [status EXCEPT ![i] = s]
    /\ flag'       = [flag EXCEPT ![i] = f]
    /\ deletedFor' = [deletedFor EXCEPT ![i] = age]
    /\ UNCHANGED <<admin, tasks, late, returns, faults>>

Pause(i) ==
    /\ Free(i) /\ status[i] = "active"
    /\ SetInstance(i, "paused", FALSE, deletedFor[i])

Resume(i) ==
    /\ Free(i) /\ status[i] = "paused"
    /\ SetInstance(i, "active", TRUE, deletedFor[i])

\* delete_instance_with_grace
Delete(i) ==
    /\ Free(i) /\ status[i] \in {"active", "paused"}
    /\ SetInstance(i, "grace_window", FALSE, 0)

\* Mutant of Restore: the window is not checked.
Restore_late(i) ==
    /\ Free(i) /\ status[i] = "grace_window"
    /\ deletedFor[i] # None
    /\ SetInstance(i, "active", TRUE, None)

\* restore_by_pk: refused once the window is over, and for a row without a date.
Restore(i) ==
    /\ Free(i) /\ status[i] = "grace_window"
    /\ deletedFor[i] \in 0..Grace
    /\ SetInstance(i, "active", TRUE, None)

----------------------------------------------------------------------------
(* Closure: initiate_closure, and the commit of the route *)

\* The stamp is flushed first, and locks the admin; the cascade updates, and
\* so locks, the rows whose flag is set.  Stripe is called before the commit.
CloseBegin ==
    /\ active /\ closedFor = None /\ ~erased /\ closing = None
    /\ batch = {}          \* assumed: no account is reactivated and closed again
                           \* between a purge's scan and its last instance
    /\ closing' = 0
    /\ cut' = {i \in Instances : flag[i]}
    /\ UNCHANGED <<admin, inst, reactivating, erasing, batch, late, returns, faults>>

CloseCommit ==
    /\ closing # None
    /\ closing' = None /\ cut' = {}
    /\ active' = FALSE /\ closedFor' = closing
    /\ status' = [i \in Instances |-> IF i \in cut THEN "paused" ELSE status[i]]
    /\ flag'   = [i \in Instances |-> flag[i] /\ i \notin cut]
    /\ UNCHANGED <<erased, deletedFor, reactivating, erasing, batch, late, returns, faults>>

CloseFails ==
    /\ closing # None /\ faults < MaxFaults
    /\ closing' = None /\ cut' = {} /\ faults' = faults + 1
    /\ UNCHANGED <<admin, inst, reactivating, erasing, batch, late, returns>>

----------------------------------------------------------------------------
(* Reactivation: complete_reactivation *)

\* Mutant of InGrace: the window's last moment counts twice.
InGrace_late == closedFor \in 0..(Grace + 1)

\* _load_admin_for_reactivation: refused at the end of the window.
InGrace == closedFor \in 0..(Grace - 1)

ReactivateBegin ==
    /\ InGrace /\ ~erased /\ ~reactivating /\ returns < MaxReturns
    /\ reactivating' = TRUE
    /\ UNCHANGED <<admin, inst, closing, cut, erasing, batch, late, returns, faults>>

\* The stamps are cleared on the row loaded before Stripe was asked, whatever
\* has become of it; _inverse_restore_table sets the flag of every instance
\* whose flag is off and clears its soft_deleted_at, and does not touch
\* instance_status.
ReactivateCommit ==
    /\ reactivating /\ reactivating' = FALSE
    /\ active' = TRUE /\ closedFor' = None
    /\ flag'       = [i \in Instances |-> status[i] # "gone"]
    /\ deletedFor' = [i \in Instances |-> IF flag[i] THEN deletedFor[i] ELSE None]
    /\ returns' = returns + 1
    /\ late' = IF late = "waiting" THEN "written" ELSE late
    /\ UNCHANGED <<erased, status, closing, cut, erasing, batch, faults>>

\* Stripe cannot be reached, or the Checkout is not complete.
ReactivateFails ==
    /\ reactivating /\ reactivating' = FALSE
    /\ late' = IF late = "waiting" THEN "never" ELSE late
    /\ UNCHANGED <<admin, inst, closing, cut, erasing, batch, returns, faults>>

----------------------------------------------------------------------------
(* run_retention_purge, hard_delete_tenant_after_retention *)

\* closure_initiated_at < cutoff, soft_deleted_at < cutoff
Expired(age) == age > Grace

\* Mutants of EraseBegin: any closed account is taken; only one whose instances
\* are all as the cascade leaves them.
EraseBegin_anyAge ==
    /\ ~active /\ closedFor # None /\ ~erased /\ ~erasing
    /\ erasing' = TRUE
    /\ UNCHANGED <<admin, inst, closing, cut, reactivating, batch, late, returns, faults>>

EraseBegin_pausedOnly ==
    /\ ~active /\ Expired(closedFor) /\ ~erased /\ ~erasing
    /\ \A i \in Instances : status[i] = "paused"
    /\ erasing' = TRUE
    /\ UNCHANGED <<admin, inst, closing, cut, reactivating, batch, late, returns, faults>>

EraseBegin ==
    /\ ~active /\ Expired(closedFor) /\ ~erased /\ ~erasing
    /\ erasing' = TRUE
    /\ UNCHANGED <<admin, inst, closing, cut, reactivating, batch, late, returns, faults>>

\* The children are deleted, then the admin row becomes a tombstone; its
\* UPDATE asks for hard_deleted_at IS NULL only, and waits for a closure's lock.
EraseCommit ==
    /\ erasing /\ erasing' = FALSE
    /\ closing = None
    /\ erased' = TRUE /\ active' = FALSE
    /\ status'     = [i \in Instances |-> "gone"]
    /\ flag'       = [i \in Instances |-> FALSE]
    /\ deletedFor' = [i \in Instances |-> None]
    /\ UNCHANGED <<closedFor, closing, cut, reactivating, batch, late, returns, faults>>

EraseFails ==
    /\ erasing /\ faults < MaxFaults
    /\ erasing' = FALSE /\ faults' = faults + 1
    /\ UNCHANGED <<admin, inst, closing, cut, reactivating, batch, late, returns>>

----------------------------------------------------------------------------
(* run_instance_retention_purge *)

\* Mutant of Eligible: it asks for the active flag, as most queries do.
Eligible_flagged(i) ==
    flag[i] /\ status[i] = "grace_window" /\ Expired(deletedFor[i])

\* _scan_eligible_instances
Eligible(i) == status[i] = "grace_window" /\ Expired(deletedFor[i])

ScanInstances ==
    /\ batch = {} /\ \E i \in Instances : Eligible(i)
    /\ batch' = {i \in Instances : Eligible(i)}
    /\ UNCHANGED <<admin, inst, closing, cut, reactivating, erasing, late, returns, faults>>

\* _hard_delete_instance_cascade: it does not look at the row again.
PurgeInstance(i) ==
    /\ i \in batch /\ batch' = batch \ {i}
    /\ status'     = [status EXCEPT ![i] = "gone"]
    /\ flag'       = [flag EXCEPT ![i] = FALSE]
    /\ deletedFor' = [deletedFor EXCEPT ![i] = None]
    /\ UNCHANGED <<admin, closing, cut, reactivating, erasing, late, returns, faults>>

\* The instance is skipped until the next night.
PurgeInstanceFails(i) ==
    /\ i \in batch /\ faults < MaxFaults
    /\ batch' = batch \ {i} /\ faults' = faults + 1
    /\ UNCHANGED <<admin, inst, closing, cut, reactivating, erasing, late, returns>>

----------------------------------------------------------------------------

Older(age) == IF age \in 0..Grace THEN age + 1 ELSE age

\* The clock does not wait for Stripe.
Tick ==
    /\ closedFor'  = Older(closedFor)
    /\ closing'    = Older(closing)
    /\ deletedFor' = [i \in Instances |-> Older(deletedFor[i])]
    /\ late' = IF reactivating /\ closedFor = Grace /\ late = "never" THEN "waiting" ELSE late
    /\ UNCHANGED <<active, erased, status, flag, cut, reactivating, erasing, batch, returns, faults>>

Next ==
    \/ \E i \in Instances :
        \/ Pause(i) \/ Resume(i) \/ Delete(i) \/ Restore(i)
        \/ PurgeInstance(i) \/ PurgeInstanceFails(i)
    \/ CloseBegin \/ CloseCommit \/ CloseFails
    \/ EraseBegin \/ EraseCommit \/ EraseFails
    \/ ReactivateBegin \/ ReactivateCommit \/ ReactivateFails
    \/ ScanInstances \/ Tick

Spec == Init /\ [][Next]_vars

\* Time passes, the beat starts both purges every night, and what runs goes on.
FairSpec ==
    /\ Spec
    /\ WF_vars(Tick)
    /\ WF_vars(CloseCommit) /\ WF_vars(ReactivateCommit \/ ReactivateFails)
    /\ WF_vars(EraseBegin) /\ WF_vars(EraseCommit)
    /\ WF_vars(ScanInstances)
    /\ \A i \in Instances : WF_vars(PurgeInstance(i))

----------------------------------------------------------------------------
(* The variables keep their types; a closure runs on an active account, its   *)
(* cascade on rows whose flag is set; only rows in the grace window are dated. *)
TypeOK ==
    /\ active \in BOOLEAN /\ erased \in BOOLEAN
    /\ reactivating \in BOOLEAN /\ erasing \in BOOLEAN
    /\ {closedFor, closing} \subseteq Ages /\ deletedFor \in [Instances -> Ages]
    /\ status \in [Instances -> {"active", "paused", "grace_window", "gone"}]
    /\ flag \in [Instances -> BOOLEAN]
    /\ batch \subseteq Instances
    /\ cut \subseteq {i \in Instances : flag[i]}
    /\ closing # None => active
    /\ \A i \in Instances : deletedFor[i] # None => status[i] = "grace_window"
    /\ late \in {"never", "waiting", "written"}
    /\ returns \in 0..MaxReturns /\ faults \in 0..MaxFaults

(* Nothing is left of an erased account, and no customer comes back to it,    *)
(* unless a reactivation was written that still waited for Stripe when its    *)
(* window ended: nothing else makes the nightly purge and a reactivation      *)
(* meet.  (hard_delete_tenant_after_retention claims that the check in the    *)
(* purge's own transaction rules that one out, too.)                          *)
ErasedStaysClosed ==
    erased => /\ \A i \in Instances : status[i] = "gone"
              /\ active => late = "written"

(* An account is erased only when it is closed, and its closure is older than *)
(* the whole window, at the moment of the commit and not only at that of the  *)
(* check, unless such a reactivation was written before.                      *)
ErasedAfterGrace ==
    [][~erased /\ erased' => late = "written" \/ (~active /\ closedFor > Grace)]_vars

(* The purge of instances never takes one that its owner uses or could still  *)
(* restore, although it does not look at the row again after its scan.  (A    *)
(* row that a reactivation has stripped of its date cannot be restored.)      *)
PurgesOnlyExpired ==
    [][\A i \in Instances : status[i] # "gone" /\ status'[i] = "gone" /\ ~erased' =>
        /\ status[i] = "grace_window"
        /\ deletedFor[i] = None \/ deletedFor[i] > Grace]_vars

(* A closed account is erased, unless it is reactivated: the clean-up the     *)
(* law requires is not lost to failures of one night.                         *)
ClosedIsErased == closedFor # None ~> (erased \/ active)

(* A deleted instance does not stay in its grace window for good, whether its *)
(* account is open or closed: it is purged or restored, or a reactivation     *)
(* takes its date away.                                                       *)
InGraceWindow(i) == status[i] = "grace_window" /\ deletedFor[i] # None
DeletedIsPurged  == \A i \in Instances : InGraceWindow(i) ~> ~InGraceWindow(i)

(* The comment of restore_instance: a row in the grace window without a date  *)
(* does not occur in practice.  (It does: delete, close the account,          *)
(* reactivate it; the row can then be neither restored nor purged.)           *)
GraceIsDated ==
    \A i \in Instances : status[i] = "grace_window" => deletedFor[i] # None
=============================================================================
