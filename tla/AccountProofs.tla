--------------------------- MODULE AccountProofs ---------------------------
(***************************************************************************)
(* The safety of AccountLifecycle for any number of instances, any window  *)
(* and any number of reactivations and failures.                           *)
(*                                                                         *)
(* The two jobs that destroy data read first and act later.  What keeps    *)
(* them safe is age: the account they verified is one tick past the last   *)
(* moment at which it can be reactivated, and an instance they scanned is  *)
(* past the last moment at which it can be restored.  A reactivation that  *)
(* began in time and still waits for Stripe when the window ends is the    *)
(* one thing age does not keep out, and the history variable late marks it. *)
(***************************************************************************)
EXTENDS AccountLifecycle, TLAPS

\* The type invariant in two halves, without its conditions across variables.
Ranges ==
    /\ closedFor \in Ages /\ deletedFor \in [Instances -> Ages]
    /\ status \in [Instances -> {"active", "paused", "grace_window", "gone"}]
    /\ batch \subseteq Instances /\ cut \subseteq Instances /\ closing \in Ages
    /\ late \in {"never", "waiting", "written"}
    /\ returns \in 0..MaxReturns /\ faults \in 0..MaxFaults

Flags ==
    /\ active \in BOOLEAN /\ erased \in BOOLEAN
    /\ reactivating \in BOOLEAN /\ erasing \in BOOLEAN
    /\ flag \in [Instances -> BOOLEAN]

\* The account: until it is erased it is active or dated, never both; what
\* has been begun still stands on the age it was begun at, unless a
\* reactivation that outlasted its window was written in between.
AccountInv ==
    /\ ~erased => (active <=> closedFor = None)
    /\ closing # None => active /\ ~erased /\ ~reactivating
    /\ reactivating => returns < MaxReturns /\ (~erased => closedFor # None)
    /\ reactivating /\ late = "never" => closedFor \in 0..Grace
    /\ erasing => ~erased
    /\ erasing \/ erased => late = "written" \/ closedFor = Grace + 1
    /\ erased /\ active => late = "written"

\* The instances: a dated one is in its grace window with its flag off, the
\* rows a cascade has locked have theirs on, and those a purge has scanned
\* can not be restored any more.
InstanceInv ==
    /\ \A i \in Instances : deletedFor[i] # None => status[i] = "grace_window" /\ ~flag[i]
    /\ \A i \in cut : closing # None /\ flag[i] /\ i \notin batch
    /\ \A i \in batch :
        \/ status[i] = "gone"
        \/ status[i] = "grace_window" /\ deletedFor[i] \in {None, Grace + 1}
    /\ erased => \A i \in Instances : status[i] = "gone"

IInv == Ranges /\ Flags /\ AccountInv /\ InstanceInv

LEMMA InitIInv == Init => IInv
<1> SUFFICES ASSUME Init PROVE IInv
  OBVIOUS
<1> USE GraceAssumption, ReturnAssumption DEF Init
<1>1. Ranges
  <2>1. None \in Ages
    BY DEF None, Ages
  <2>2. returns \in 0..MaxReturns /\ faults \in 0..MaxFaults
    OBVIOUS
  <2> QED BY <2>1, <2>2 DEF Ranges
<1>2. Flags
  BY DEF Flags
<1>3. AccountInv /\ InstanceInv
  BY DEF AccountInv, InstanceInv
<1> QED BY <1>1, <1>2, <1>3 DEF IInv

(* Ages stay ages, and only grow.                                            *)
LEMMA OlderAge ==
    ASSUME NEW age \in Ages
    PROVE  /\ Older(age) \in Ages
           /\ age = None <=> Older(age) = None
           /\ age = Grace + 1 => Older(age) = Grace + 1
BY GraceAssumption DEF Older, Ages, None

LEMMA RangesStep == ASSUME Ranges, AccountInv, [Next]_vars PROVE Ranges'
<1> USE GraceAssumption, ReturnAssumption DEF Ranges
<1>0. {None, 0} \subseteq Ages
  BY DEF None, Ages
<1>1. ASSUME NEW i \in Instances, Pause(i) \/ Resume(i) \/ Delete(i) \/ Restore(i)
      PROVE  Ranges'
  BY <1>0, <1>1 DEF Pause, Resume, Delete, Restore, SetInstance, admin, tasks
<1>2. ASSUME NEW i \in Instances, PurgeInstance(i) PROVE Ranges'
  BY <1>0, <1>2 DEF PurgeInstance, admin
<1>3. ASSUME NEW i \in Instances, PurgeInstanceFails(i) PROVE Ranges'
  BY <1>3 DEF PurgeInstanceFails, admin, inst
<1>4. ASSUME CloseBegin PROVE Ranges'
  BY <1>0, <1>4 DEF CloseBegin, admin, inst
<1>5. ASSUME CloseCommit PROVE Ranges'
  BY <1>0, <1>5 DEF CloseCommit
<1>6. ASSUME CloseFails PROVE Ranges'
  BY <1>0, <1>6 DEF CloseFails, admin, inst
<1>7. ASSUME ReactivateBegin \/ ReactivateFails PROVE Ranges'
  BY <1>7 DEF ReactivateBegin, ReactivateFails, admin, inst
<1>8. ASSUME ReactivateCommit PROVE Ranges'
  <2>1. returns < MaxReturns
    BY <1>8 DEF ReactivateCommit, AccountInv
  <2> QED BY <1>0, <1>8, <2>1 DEF ReactivateCommit
<1>9. ASSUME EraseBegin PROVE Ranges'
  BY <1>9 DEF EraseBegin, admin, inst
<1>10. ASSUME EraseCommit PROVE Ranges'
  BY <1>0, <1>10 DEF EraseCommit
<1>11. ASSUME EraseFails PROVE Ranges'
  BY <1>11 DEF EraseFails, admin, inst
<1>12. ASSUME ScanInstances PROVE Ranges'
  BY <1>12 DEF ScanInstances, admin, inst
<1>13. ASSUME Tick PROVE Ranges'
  BY <1>13, OlderAge DEF Tick, tasks
<1>14. CASE UNCHANGED vars
  BY <1>14 DEF vars, admin, inst, tasks
<1> QED
  BY <1>1, <1>2, <1>3, <1>4, <1>5, <1>6, <1>7, <1>8, <1>9, <1>10, <1>11, <1>12,
     <1>13, <1>14 DEF Next

LEMMA FlagsStep == ASSUME Flags, [Next]_vars PROVE Flags'
<1> USE DEF Flags
<1>1. ASSUME NEW i \in Instances, Pause(i) \/ Resume(i) \/ Delete(i) \/ Restore(i)
      PROVE  Flags'
  BY <1>1 DEF Pause, Resume, Delete, Restore, SetInstance, admin, tasks
<1>2. ASSUME NEW i \in Instances, PurgeInstance(i) \/ PurgeInstanceFails(i) PROVE Flags'
  BY <1>2 DEF PurgeInstance, PurgeInstanceFails, admin, inst
<1>3. ASSUME CloseBegin \/ CloseFails PROVE Flags'
  BY <1>3 DEF CloseBegin, CloseFails, admin, inst
<1>4. ASSUME CloseCommit PROVE Flags'
  BY <1>4 DEF CloseCommit
<1>5. ASSUME ReactivateBegin \/ ReactivateFails PROVE Flags'
  BY <1>5 DEF ReactivateBegin, ReactivateFails, admin, inst
<1>6. ASSUME ReactivateCommit PROVE Flags'
  BY <1>6 DEF ReactivateCommit
<1>7. ASSUME EraseBegin \/ EraseFails PROVE Flags'
  BY <1>7 DEF EraseBegin, EraseFails, admin, inst
<1>8. ASSUME EraseCommit PROVE Flags'
  BY <1>8 DEF EraseCommit
<1>9. ASSUME ScanInstances \/ Tick PROVE Flags'
  BY <1>9 DEF ScanInstances, Tick, admin, inst, tasks
<1>10. CASE UNCHANGED vars
  BY <1>10 DEF vars, admin, inst, tasks
<1> QED
  BY <1>1, <1>2, <1>3, <1>4, <1>5, <1>6, <1>7, <1>8, <1>9, <1>10 DEF Next

(* A reactivation and an erasure are begun at ages that no account has both  *)
(* of, and a reactivation that is older than its window is known to be.      *)
LEMMA AccountStep ==
    ASSUME Ranges, Flags, AccountInv, [Next]_vars PROVE AccountInv'
<1> USE GraceAssumption DEF AccountInv, Ages, None
<1>1. ASSUME NEW i \in Instances, Pause(i) \/ Resume(i) \/ Delete(i) \/ Restore(i)
      PROVE  AccountInv'
  BY <1>1 DEF Pause, Resume, Delete, Restore, SetInstance, admin, tasks
<1>2. ASSUME NEW i \in Instances, PurgeInstance(i) \/ PurgeInstanceFails(i)
      PROVE  AccountInv'
  BY <1>2 DEF PurgeInstance, PurgeInstanceFails, admin, inst
<1>3. ASSUME CloseBegin \/ CloseFails PROVE AccountInv'
  BY <1>3 DEF CloseBegin, CloseFails, admin, inst
<1>4. ASSUME CloseCommit PROVE AccountInv'
  BY <1>4 DEF CloseCommit
<1>5. ASSUME ReactivateBegin \/ ReactivateFails PROVE AccountInv'
  BY <1>5 DEF ReactivateBegin, ReactivateFails, InGrace, admin, inst
<1>6. ASSUME ReactivateCommit PROVE AccountInv'
  BY <1>6 DEF ReactivateCommit, Ranges
<1>7. ASSUME EraseBegin \/ EraseFails PROVE AccountInv'
  BY <1>7 DEF EraseBegin, EraseFails, Expired, Ranges, admin, inst
<1>8. ASSUME EraseCommit PROVE AccountInv'
  BY <1>8 DEF EraseCommit
<1>9. ASSUME ScanInstances PROVE AccountInv'
  BY <1>9 DEF ScanInstances, admin, inst
<1>10. ASSUME Tick PROVE AccountInv'
  <2>1. /\ closedFor \in Ages /\ closedFor' = Older(closedFor)
        /\ closing \in Ages /\ closing' = Older(closing)
        /\ UNCHANGED <<active, erased, reactivating, erasing, returns>>
        /\ late' = IF reactivating /\ closedFor = Grace /\ late = "never" THEN "waiting" ELSE late
    BY <1>10 DEF Tick, Ranges
  <2>2. closedFor \in 0..Grace /\ closedFor # Grace => closedFor' \in 0..Grace
    BY <2>1 DEF Older
  <2> QED BY <2>1, <2>2, OlderAge
<1>11. CASE UNCHANGED vars
  BY <1>11 DEF vars, admin, inst, tasks
<1> QED
  BY <1>1, <1>2, <1>3, <1>4, <1>5, <1>6, <1>7, <1>8, <1>9, <1>10, <1>11 DEF Next

(* The owner can not touch a row a purge has scanned, a cascade touches only *)
(* rows without a date, and nothing is left to touch after the erasure.      *)
LEMMA InstanceStep ==
    ASSUME Ranges, Flags, AccountInv, InstanceInv, [Next]_vars PROVE InstanceInv'
<1> USE GraceAssumption DEF InstanceInv, Ranges, Flags
<1>1. ASSUME NEW i \in Instances, Pause(i) \/ Resume(i) PROVE InstanceInv'
  BY <1>1 DEF Pause, Resume, Free, SetInstance, admin, tasks, AccountInv
<1>2. ASSUME NEW i \in Instances, Delete(i) PROVE InstanceInv'
  BY <1>2 DEF Delete, Free, SetInstance, admin, tasks, AccountInv
<1>3. ASSUME NEW i \in Instances, Restore(i) PROVE InstanceInv'
  BY <1>3 DEF Restore, Free, SetInstance, admin, tasks, AccountInv, None
<1>4. ASSUME NEW i \in Instances, PurgeInstance(i) PROVE InstanceInv'
  BY <1>4 DEF PurgeInstance, admin
<1>5. ASSUME NEW i \in Instances, PurgeInstanceFails(i) PROVE InstanceInv'
  BY <1>5 DEF PurgeInstanceFails, admin, inst
<1>6. ASSUME CloseBegin \/ CloseFails PROVE InstanceInv'
  BY <1>6 DEF CloseBegin, CloseFails, None, admin, inst
<1>7. ASSUME CloseCommit PROVE InstanceInv'
  BY <1>7 DEF CloseCommit, AccountInv
<1>8. ASSUME ReactivateBegin \/ ReactivateFails PROVE InstanceInv'
  BY <1>8 DEF ReactivateBegin, ReactivateFails, admin, inst
<1>9. ASSUME ReactivateCommit PROVE InstanceInv'
  BY <1>9 DEF ReactivateCommit, AccountInv, None
<1>10. ASSUME EraseBegin \/ EraseFails PROVE InstanceInv'
  BY <1>10 DEF EraseBegin, EraseFails, admin, inst
<1>11. ASSUME EraseCommit PROVE InstanceInv'
  BY <1>11 DEF EraseCommit, AccountInv, None
<1>12. ASSUME ScanInstances PROVE InstanceInv'
  BY <1>12 DEF ScanInstances, Eligible, Expired, Ages, None, admin, inst
<1>13. ASSUME Tick PROVE InstanceInv'
  BY <1>13, OlderAge DEF Tick, tasks
<1>14. CASE UNCHANGED vars
  BY <1>14 DEF vars, admin, inst, tasks
<1> QED
  BY <1>1, <1>2, <1>3, <1>4, <1>5, <1>6, <1>7, <1>8, <1>9, <1>10, <1>11, <1>12,
     <1>13, <1>14 DEF Next

(* IInv is an inductive invariant of closure, reactivation and purges.       *)
THEOREM IInvHolds == Spec => []IInv
<1>1. IInv /\ [Next]_vars => IInv'
  BY RangesStep, FlagsStep, AccountStep, InstanceStep DEF IInv
<1> QED BY InitIInv, <1>1, PTL DEF Spec

(* The variables keep their types, a cascade holds rows whose flag is set,   *)
(* and only rows in the grace window are dated.                              *)
THEOREM AccountTypes == Spec => []TypeOK
<1>1. IInv => TypeOK
  BY DEF IInv, Ranges, Flags, AccountInv, InstanceInv, TypeOK
<1> QED BY IInvHolds, <1>1, PTL

(* Nothing is left of an erased account, and nobody comes back to it but by a *)
(* reactivation that was written although it had outlasted its window.        *)
THEOREM ErasedIsFinal == Spec => []ErasedStaysClosed
<1>1. IInv => ErasedStaysClosed
  BY DEF IInv, AccountInv, InstanceInv, ErasedStaysClosed
<1> QED BY IInvHolds, <1>1, PTL

(* Unless such a reactivation was written before, an account is erased only   *)
(* when it is closed and its whole window is over, at the moment of the       *)
(* commit and not only at that of the check.                                  *)
THEOREM ErasureWaits == Spec => ErasedAfterGrace
<1>1. ASSUME IInv, [Next]_vars, ~erased, erased', late # "written"
      PROVE  ~active /\ closedFor > Grace
  <2>1. EraseCommit
    BY <1>1 DEF Next, Pause, Resume, Delete, Restore, SetInstance, PurgeInstance,
       PurgeInstanceFails, CloseBegin, CloseCommit, CloseFails, EraseBegin, EraseFails,
       ReactivateBegin, ReactivateCommit, ReactivateFails, ScanInstances, Tick, vars, admin
  <2>2. closedFor = Grace + 1
    BY <1>1, <2>1 DEF EraseCommit, IInv, AccountInv
  <2>3. ~active
    BY <1>1, <2>2, GraceAssumption DEF IInv, AccountInv, Flags, None
  <2> QED BY <2>2, <2>3, GraceAssumption
<1>2. IInv /\ [Next]_vars =>
      [~erased /\ erased' => late = "written" \/ (~active /\ closedFor > Grace)]_vars
  BY <1>1
<1> QED BY IInvHolds, <1>2, PTL DEF Spec, ErasedAfterGrace

(* The purge of instances takes none that its owner uses or could restore.   *)
THEOREM PurgeWaits == Spec => PurgesOnlyExpired
<1>1. ASSUME IInv, [Next]_vars, NEW i \in Instances,
             status[i] # "gone", status'[i] = "gone", ~erased'
      PROVE  /\ status[i] = "grace_window"
             /\ deletedFor[i] = None \/ deletedFor[i] > Grace
  <2>1. PurgeInstance(i)
    BY <1>1 DEF IInv, Ranges, Next, Pause, Resume, Delete, Restore, SetInstance, PurgeInstance,
       PurgeInstanceFails, CloseBegin, CloseCommit, CloseFails, EraseBegin, EraseCommit,
       EraseFails, ReactivateBegin, ReactivateCommit, ReactivateFails, ScanInstances, Tick,
       vars, inst
  <2>2. i \in batch
    BY <2>1 DEF PurgeInstance
  <2> QED BY <1>1, <2>2, GraceAssumption DEF IInv, InstanceInv
<1>2. IInv /\ [Next]_vars =>
      [\A i \in Instances : status[i] # "gone" /\ status'[i] = "gone" /\ ~erased' =>
          /\ status[i] = "grace_window"
          /\ deletedFor[i] = None \/ deletedFor[i] > Grace]_vars
  BY <1>1
<1> QED BY IInvHolds, <1>2, PTL DEF Spec, PurgesOnlyExpired
=============================================================================
