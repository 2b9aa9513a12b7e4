------------------------ MODULE SubscriptionProofs ------------------------
(***************************************************************************)
(* A Pro account has an active subscription: for any number of purchases,  *)
(* workers and faults, one Checkout at a time or several.  The only step   *)
(* that can break it is Flip, which raises the tier on the strength of a   *)
(* row its handler committed a step before.  UpgradeSafe says why that row *)
(* is still active then.                                                   *)
(*                                                                         *)
(* Who pays is served, and the connections sleep as the tier says, until   *)
(* something is killed or two Checkouts are open at once.                  *)
(***************************************************************************)
EXTENDS SubscriptionLifecycle, FiniteSetTheorems, TLAPS

\* Whatever is being worked on has its row.
WorkHasRow ==
    /\ asking # NoSub => HasRow(asking)
    /\ \A h \in Hooks : ~Idle(h) => HasRow(hsub[h])

\* The row of an upgrade that has not flipped the tier yet is active, and its
\* deletion is neither being handled nor able to start.
UpgradeSafe ==
    \A h \in Hooks : hpc[h] = "attached" =>
        /\ active[hsub[h]]
        /\ stripe[hsub[h]] = "ended" => ~pending[hsub[h]] /\ asking # hsub[h]
        /\ \A g \in Hooks : hpc[g] \in {"deleting", "lowered"} => hsub[g] # hsub[h]

SInv == TypeOK /\ WorkHasRow /\ UpgradeSafe /\ TierNeedsSub

(* The position given to a new row is at most the number of subscriptions:   *)
(* the new row is not among those counted.                                   *)
LEMMA NewPosition ==
    ASSUME TypeOK, NEW s \in Subs, ~HasRow(s)
    PROVE  1 + Cardinality({t \in Subs : HasRow(t)}) \in 1..Cardinality(Subs)
<1> DEFINE R == {t \in Subs : HasRow(t)}
<1>1. IsFiniteSet(Subs) /\ R \subseteq Subs /\ s \notin R
  BY SubAssumption
<1>2. IsFiniteSet(R) /\ Cardinality(R) \in Nat
  BY <1>1, FS_Subset, FS_CardinalityType
<1>3. Cardinality(R \cup {s}) = Cardinality(R) + 1
  BY <1>1, <1>2, FS_AddElement
<1>4. Cardinality(R \cup {s}) <= Cardinality(Subs) /\ Cardinality(Subs) \in Nat
  BY <1>1, FS_Subset, FS_CardinalityType
<1> QED BY <1>2, <1>3, <1>4

(* No account starts above Free, and nothing is in progress.                 *)
LEMMA InitSInv == Init => SInv
<1> SUFFICES ASSUME Init PROVE SInv
  OBVIOUS
<1>1. Cardinality(Subs) \in Nat
  BY SubAssumption, FS_CardinalityType
<1>2. faults \in 0..MaxFaults
  BY FaultAssumption DEF Init
<1>3. {active, pending, lastDeleted} \subseteq [Subs -> BOOLEAN]
  BY DEF Init
<1>4. created \in [Subs -> 0..Cardinality(Subs)]
  BY <1>1 DEF Init
<1> QED BY <1>2, <1>3, <1>4, SubAssumption
        DEF Init, SInv, TypeOK, WorkHasRow, UpgradeSafe, TierNeedsSub, HasRow, Idle

(* Every step keeps the types.                                               *)
LEMMA TypeStep == ASSUME TypeOK, WorkHasRow, [Next]_vars PROVE TypeOK'
<1> USE SubAssumption, FaultAssumption
<1> USE DEF TypeOK, HasRow, Idle, Enter, Leave, rows, route, hooks
<1>1. ASSUME NEW s \in Subs, OpenCheckout(s) PROVE TypeOK'
  BY <1>1 DEF OpenCheckout
<1>2. ASSUME NEW s \in Subs, Pay(s) PROVE TypeOK'
  BY <1>2 DEF Pay
<1>3. ASSUME NEW s \in Subs, CancelElsewhere(s) PROVE TypeOK'
  BY <1>3 DEF CancelElsewhere
<1>4. ASSUME NEW s \in Subs, PeriodEnds(s) PROVE TypeOK'
  BY <1>4 DEF PeriodEnds
<1>5. ASSUME NEW s \in Subs, OtherEvent(s) PROVE TypeOK'
  BY <1>5 DEF OtherEvent
<1>6. ASSUME NEW s \in Subs, AskDowngrade(s) PROVE TypeOK'
  BY <1>6 DEF AskDowngrade
<1>7. ASSUME NEW s \in Subs, NEW h \in Hooks, Attach(h, s) PROVE TypeOK'
  <2>1. 1 + Cardinality({t \in Subs : HasRow(t)}) \in 1..Cardinality(Subs)
    <3>1. ~HasRow(s)
      BY <1>7 DEF Attach
    <3> HIDE DEF TypeOK, HasRow
    <3> QED BY <3>1, NewPosition
  <2>2. Cardinality(Subs) \in Nat
    BY FS_CardinalityType
  <2>3. PICK n \in 1..Cardinality(Subs) : created' = [created EXCEPT ![s] = n]
    BY <1>7, <2>1 DEF Attach
  <2>4. created' \in [Subs -> 0..Cardinality(Subs)]
    BY <2>2, <2>3
  <2>5. HasRow(s)' /\ \A t \in Subs : HasRow(t) => HasRow(t)'
    BY <2>2, <2>3
  <2>6. {active, pending, lastDeleted}' \subseteq [Subs -> BOOLEAN]
    BY <1>7 DEF Attach
  <2>7. \A t \in Subs : (active[t] \/ pending[t] \/ lastDeleted[t])' => HasRow(t)'
    BY <1>7, <2>5 DEF Attach
  <2>8. /\ hpc' \in [Hooks -> {"idle", "attached", "flipped", "deleting", "lowered"}]
        /\ hsub' \in [Hooks -> Subs \cup {NoSub}]
        /\ \A g \in Hooks : Idle(g)' <=> hsub'[g] = NoSub
    BY <1>7 DEF Attach
  <2>9. UNCHANGED <<tier, dormant, stripe, asking, armed, doubled, faults>>
    BY <1>7 DEF Attach
  <2> QED BY <2>4, <2>6, <2>7, <2>8, <2>9
<1>8. ASSUME NEW s \in Subs, NEW h \in Hooks, ReceiveDeleted(h, s) PROVE TypeOK'
  BY <1>8 DEF ReceiveDeleted
<1>9. ASSUME CommitDowngrade PROVE TypeOK'
  BY <1>9 DEF CommitDowngrade, WorkHasRow
<1>10. ASSUME RouteDies PROVE TypeOK'
  <2>1. faults' \in 0..MaxFaults
    BY <1>10 DEF RouteDies
  <2> HIDE FaultAssumption
  <2>2. armed' \in BOOLEAN
    BY <1>10 DEF RouteDies
  <2>3. asking' \in Subs \cup {NoSub}
    BY <1>10 DEF RouteDies
  <2> QED BY <1>10, <2>1, <2>2, <2>3 DEF RouteDies
<1>11. ASSUME NEW h \in Hooks, Flip(h) PROVE TypeOK'
  BY <1>11 DEF Flip
<1>12. ASSUME NEW h \in Hooks, Restore(h) PROVE TypeOK'
  BY <1>12 DEF Restore
<1>13. ASSUME NEW h \in Hooks, Lower(h) PROVE TypeOK'
  BY <1>13 DEF Lower, CancelRow, WorkHasRow
<1>14. ASSUME NEW h \in Hooks, LowerNoop(h) PROVE TypeOK'
  BY <1>14 DEF LowerNoop, CancelRow, WorkHasRow
<1>15. ASSUME NEW h \in Hooks, Archive(h) PROVE TypeOK'
  BY <1>15 DEF Archive
<1>16. ASSUME NEW h \in Hooks, HookDies(h) PROVE TypeOK'
  BY <1>16 DEF HookDies
<1>17. CASE UNCHANGED vars
  BY <1>17 DEF vars
<1> QED
  BY <1>1, <1>2, <1>3, <1>4, <1>5, <1>6, <1>7, <1>8, <1>9, <1>10, <1>11, <1>12,
     <1>13, <1>14, <1>15, <1>16, <1>17 DEF Next, HookStep

(* Every step keeps the safety part: a row stays once it is there, an upgrade *)
(* in progress stays safe, and the tier is raised only over an active row.    *)
LEMMA SafetyStep ==
    ASSUME SInv, [Next]_vars PROVE WorkHasRow' /\ UpgradeSafe' /\ TierNeedsSub'
<1> DEFINE Safe == WorkHasRow /\ UpgradeSafe /\ TierNeedsSub
<1> USE SubAssumption
<1> USE DEF SInv, TypeOK, WorkHasRow, UpgradeSafe, TierNeedsSub, HasRow, Idle,
            Enter, Leave, rows, route, hooks
<1>1. ASSUME NEW s \in Subs, OpenCheckout(s) PROVE Safe'
  BY <1>1 DEF OpenCheckout, Quiet
<1>2. ASSUME NEW s \in Subs, Pay(s) PROVE Safe'
  BY <1>2 DEF Pay
<1>3. ASSUME NEW s \in Subs, CancelElsewhere(s) PROVE Safe'
  BY <1>3 DEF CancelElsewhere, Quiet
<1>4. ASSUME NEW s \in Subs, PeriodEnds(s) PROVE Safe'
  BY <1>4 DEF PeriodEnds, Quiet
<1>5. ASSUME NEW s \in Subs, OtherEvent(s) PROVE Safe'
  BY <1>5 DEF OtherEvent
<1>6. ASSUME NEW s \in Subs, AskDowngrade(s) PROVE Safe'
  BY <1>6 DEF AskDowngrade, IsCurrent, Running
<1>7. ASSUME NEW s \in Subs, NEW h \in Hooks, Attach(h, s) PROVE Safe'
  <2>1. Cardinality({t \in Subs : HasRow(t)}) \in Nat
    BY FS_Subset, FS_CardinalityType
  <2>2. HasRow(s)' /\ \A t \in Subs : HasRow(t) => HasRow(t)'
    BY <1>7, <2>1 DEF Attach
  <2>3. WorkHasRow'
    BY <1>7, <2>2 DEF Attach
  <2>4. UpgradeSafe'
    BY <1>7 DEF Attach
  <2>5. TierNeedsSub'
    BY <1>7 DEF Attach
  <2> QED BY <2>3, <2>4, <2>5
<1>8. ASSUME NEW s \in Subs, NEW h \in Hooks, ReceiveDeleted(h, s) PROVE Safe'
  BY <1>8 DEF ReceiveDeleted
<1>9. ASSUME CommitDowngrade PROVE Safe'
  BY <1>9 DEF CommitDowngrade
<1>10. ASSUME RouteDies PROVE Safe'
  BY <1>10 DEF RouteDies
<1>11. ASSUME NEW h \in Hooks, Flip(h) PROVE Safe'
  BY <1>11 DEF Flip
<1>12. ASSUME NEW h \in Hooks, Restore(h) PROVE Safe'
  BY <1>12 DEF Restore
<1>13. ASSUME NEW h \in Hooks, Lower(h) PROVE Safe'
  BY <1>13 DEF Lower, CancelRow
<1>14. ASSUME NEW h \in Hooks, LowerNoop(h) PROVE Safe'
  BY <1>14 DEF LowerNoop, CancelRow
<1>15. ASSUME NEW h \in Hooks, Archive(h) PROVE Safe'
  BY <1>15 DEF Archive
<1>16. ASSUME NEW h \in Hooks, HookDies(h) PROVE Safe'
  BY <1>16 DEF HookDies
<1>17. CASE UNCHANGED vars
  BY <1>17 DEF vars
<1> QED
  BY <1>1, <1>2, <1>3, <1>4, <1>5, <1>6, <1>7, <1>8, <1>9, <1>10, <1>11, <1>12,
     <1>13, <1>14, <1>15, <1>16, <1>17 DEF Next, HookStep

(* SInv is an inductive invariant of the webhook handlers and the routes.     *)
THEOREM SInvHolds == Spec => []SInv
<1>1. SInv /\ [Next]_vars => SInv'
  BY TypeStep, SafetyStep DEF SInv
<1> QED BY InitSInv, <1>1, PTL DEF Spec

(* Every variable of the account keeps its type, and each Stripe subscription *)
(* has at most one row whatever is redelivered.                               *)
THEOREM SubscriptionTypes == Spec => []TypeOK
<1>1. SInv => TypeOK
  BY DEF SInv
<1> QED BY SInvHolds, <1>1, PTL

(* A Pro account has an active subscription row at every moment, between any  *)
(* two commits of the handlers and after a crash.                             *)
THEOREM TierIsBought == Spec => []TierNeedsSub
<1>1. SInv => TierNeedsSub
  BY DEF SInv
<1> QED BY SInvHolds, <1>1, PTL

-----------------------------------------------------------------------------
(***************************************************************************)
(* Nothing killed, and no two Checkouts at once.  Only one subscription    *)
(* is billed then, and only one is being left: what takes a tier away is   *)
(* the end of the subscription that gave it, because no other is bought    *)
(* while the account is Pro or a handler is at work.                       *)
(***************************************************************************)

Leaving(s)  == pending[s] \/ (asking = s /\ ~armed)
Stuck(s)    == active[s] /\ stripe[s] = "ended" /\ ~Leaving(s)
Deleting(h) == hpc[h] \in {"deleting", "lowered"}
Raising(h)  == hpc[h] \in {"attached", "flipped"}

OneBilled == \A s, t \in Subs : Billed(s) /\ Billed(t) => s = t
RowBought == \A s \in Subs : HasRow(s) => stripe[s] \notin {"none", "open"}
AskingOK  == asking # NoSub /\ ~armed => ~pending[asking]

LeavingOK ==
    \A s \in Subs : Leaving(s) =>
        /\ stripe[s] \in {"ending", "ended"}
        /\ stripe[s] = "ended" => \A t \in Subs : ~Billed(t)
        /\ \A t \in Subs : Leaving(t) => s = t
        /\ tier = "pro" \/ \E h \in Hooks : hpc[h] = "lowered" /\ hsub[h] = s

DeletingOK ==
    \A h \in Hooks : Deleting(h) =>
        /\ \A t \in Subs : ~Billed(t)
        /\ \A s \in Subs : Leaving(s) => s = hsub[h]
        /\ ~(asking = hsub[h] /\ ~armed)
        /\ active[hsub[h]] => pending[hsub[h]] /\ hpc[h] = "deleting"

RaisingOK ==
    \A h \in Hooks : Raising(h) =>
        active[hsub[h]] /\ (stripe[hsub[h]] = "ended" => ~Leaving(hsub[h]))

ServedOK ==
    \A s \in Subs : active[s] /\ Running(s) =>
        tier = "pro" \/ \E h \in Hooks : hpc[h] = "attached"

DormantOK ==
    /\ dormant => \E s \in Subs : Canceled(s)
    /\ (\A s \in Subs : ~Stuck(s)) =>
        /\ tier = "pro" /\ dormant => \E h \in Hooks : hpc[h] = "flipped"
        /\ tier = "free" /\ (\E s \in Subs : Canceled(s)) =>
             dormant \/ \E h \in Hooks : hpc[h] = "lowered"
        /\ \A h \in Hooks : hpc[h] = "flipped" => tier = "pro"
        /\ \A h \in Hooks : hpc[h] = "lowered" => tier = "free"

Orderly ==
    /\ OneBilled /\ RowBought /\ AskingOK /\ LeavingOK /\ DeletingOK
    /\ RaisingOK /\ ServedOK /\ DormantOK

OInv == faults = 0 /\ ~doubled => Orderly

(* Every step of the account, its handlers and Stripe keeps the order.        *)
LEMMA OrderlyStep ==
    ASSUME SInv, Orderly, [Next]_vars, faults' = 0, faults = 0, ~doubled, ~doubled'
    PROVE  Orderly'
<1> USE SubAssumption
<1> USE DEF SInv, TypeOK, WorkHasRow, UpgradeSafe, HasRow, Canceled, Running, Idle, Enter, Leave,
            rows, route, hooks, Leaving, Billed, Stuck, Deleting, Raising,
            Orderly, OneBilled, RowBought, AskingOK, LeavingOK, DeletingOK, RaisingOK,
            ServedOK, DormantOK
<1>1. ASSUME NEW s \in Subs, OpenCheckout(s) PROVE Orderly'
  <2>1. \A t \in Subs : ~Billed(t)
    BY <1>1 DEF OpenCheckout
  <2>2. \A h \in Hooks : hpc[h] = "idle"
    BY <1>1 DEF OpenCheckout, Quiet
  <2>3. stripe' = [stripe EXCEPT ![s] = "open"] /\ tier = "free" /\ stripe[s] = "none"
    BY <1>1 DEF OpenCheckout
  <2>4. UNCHANGED <<tier, dormant, created, active, pending, lastDeleted, asking, armed, hpc, hsub>>
    BY <1>1 DEF OpenCheckout
  <2>5. \A t \in Subs : ~Leaving(t)
    BY <2>2, <2>3
  <2> QED BY SMTT(20), <2>1, <2>2, <2>3, <2>4, <2>5
<1>2. ASSUME NEW s \in Subs, Pay(s) PROVE Orderly'
  BY SMTT(20), <1>2 DEF Pay
<1>3. ASSUME NEW s \in Subs, CancelElsewhere(s) PROVE Orderly'
  BY SMTT(20), <1>3 DEF CancelElsewhere, Quiet
<1>4. ASSUME NEW s \in Subs, PeriodEnds(s) PROVE Orderly'
  BY SMTT(20), <1>4 DEF PeriodEnds, Quiet
<1>5. ASSUME NEW s \in Subs, OtherEvent(s) PROVE Orderly'
  BY SMTT(20), <1>5 DEF OtherEvent
<1>6. ASSUME NEW s \in Subs, AskDowngrade(s) PROVE Orderly'
  BY SMTT(20), <1>6 DEF AskDowngrade, IsCurrent
<1>7. ASSUME NEW s \in Subs, NEW h \in Hooks, Attach(h, s) PROVE Orderly'
  BY SMTT(20), <1>7 DEF Attach
<1>8. ASSUME NEW s \in Subs, NEW h \in Hooks, ReceiveDeleted(h, s) PROVE Orderly'
  BY SMTT(20), <1>8 DEF ReceiveDeleted
<1>9. ASSUME CommitDowngrade PROVE Orderly'
  BY SMTT(20), <1>9 DEF CommitDowngrade
<1>10. ASSUME NEW h \in Hooks, Flip(h) PROVE Orderly'
  BY SMTT(20), <1>10 DEF Flip
<1>11. ASSUME NEW h \in Hooks, Restore(h) PROVE Orderly'
  BY SMTT(20), <1>11 DEF Restore
<1>12. ASSUME NEW h \in Hooks, Lower(h) PROVE Orderly'
  BY SMTT(20), <1>12 DEF Lower, CancelRow
<1>13. ASSUME NEW h \in Hooks, LowerNoop(h) PROVE Orderly'
  BY SMTT(20), <1>13 DEF LowerNoop, CancelRow
<1>14. ASSUME NEW h \in Hooks, Archive(h) PROVE Orderly'
  BY SMTT(20), <1>14 DEF Archive
<1>15. CASE UNCHANGED vars
  BY <1>15 DEF vars
<1>16. ~RouteDies /\ \A h \in Hooks : ~HookDies(h)
  BY FaultAssumption DEF RouteDies, HookDies
<1> QED
  BY <1>1, <1>2, <1>3, <1>4, <1>5, <1>6, <1>7, <1>8, <1>9, <1>10, <1>11, <1>12,
     <1>13, <1>14, <1>15, <1>16 DEF Next, HookStep

(* Neither a fault nor a second Checkout is undone.                          *)
LEMMA HistoryStays ==
    ASSUME TypeOK, [Next]_vars
    PROVE  /\ faults' = 0 => faults = 0
           /\ ~doubled' => ~doubled
<1> USE FaultAssumption DEF TypeOK
<1>1. ASSUME NEW h \in Hooks, HookDies(h) PROVE faults' # 0 /\ UNCHANGED doubled
  BY <1>1 DEF HookDies
<1>2. ASSUME RouteDies PROVE faults' # 0 /\ UNCHANGED doubled
  BY <1>2 DEF RouteDies
<1>3. ASSUME NEW h \in Hooks, HookStep(h) PROVE UNCHANGED <<doubled, faults>>
  BY <1>3 DEF HookStep, Flip, Restore, Lower, LowerNoop, Archive
<1>4. ASSUME NEW s \in Subs, NEW h \in Hooks, Attach(h, s) \/ ReceiveDeleted(h, s)
      PROVE  UNCHANGED <<doubled, faults>>
  BY <1>4 DEF Attach, ReceiveDeleted
<1>5. ASSUME NEW s \in Subs, \/ Pay(s) \/ CancelElsewhere(s) \/ PeriodEnds(s)
                              \/ OtherEvent(s) \/ AskDowngrade(s)
      PROVE  UNCHANGED <<doubled, faults>>
  BY <1>5 DEF Pay, CancelElsewhere, PeriodEnds, OtherEvent, AskDowngrade
<1>6. ASSUME NEW s \in Subs, OpenCheckout(s) PROVE UNCHANGED faults /\ (~doubled' => ~doubled)
  BY <1>6 DEF OpenCheckout
<1>7. CommitDowngrade \/ UNCHANGED vars => UNCHANGED <<doubled, faults>>
  BY DEF CommitDowngrade, vars
<1> QED BY <1>1, <1>2, <1>3, <1>4, <1>5, <1>6, <1>7 DEF Next

(* What each handler between two commits has done and still owes: OInv is     *)
(* inductive over SInv.                                                       *)
THEOREM OrderHolds == Spec => [](SInv /\ OInv)
<1>1. Init => OInv
  BY SubAssumption DEF Init, OInv, Orderly, OneBilled, RowBought, AskingOK, LeavingOK, DeletingOK,
         RaisingOK, ServedOK, DormantOK, Leaving, Billed, Stuck, Deleting, Raising,
         HasRow, Canceled, Running
<1>2. SInv /\ OInv /\ [Next]_vars => OInv'
  <2> SUFFICES ASSUME SInv, OInv, [Next]_vars, faults' = 0, ~doubled' PROVE Orderly'
    BY DEF OInv
  <2>1. faults = 0 /\ ~doubled
    BY HistoryStays DEF SInv
  <2> QED BY <2>1, OrderlyStep DEF OInv
<1> QED BY <1>1, <1>2, SInvHolds, PTL DEF Spec

(* Who pays for an attached subscription is on Pro when the handlers are done *)
(* and none was killed, in whatever order and however often the events of     *)
(* this subscription and of earlier ones came, up to the day on which two     *)
(* Checkouts are open at once.                                                *)
THEOREM PayingIsServed == Spec => []PaidIsServed
<1>1. SInv /\ OInv => PaidIsServed
  BY DEF OInv, Orderly, ServedOK, PaidIsServed, Quiet, Idle
<1> QED BY <1>1, OrderHolds, PTL

(* The connections sleep exactly while an applied downgrade has left the      *)
(* account on Free: no late archive or restore leaves them the wrong way, up  *)
(* to a kill or the day on which two Checkouts are open at once.              *)
THEOREM DormancyIsRight == Spec => []DormancyFollowsTier
<1>1. SInv /\ OInv => DormancyFollowsTier
  <2> SUFFICES ASSUME SInv, OInv, faults = 0, ~doubled, Quiet, \A s \in Subs : active[s] => Running(s)
               PROVE  dormant <=> tier = "free" /\ \E s \in Subs : Canceled(s)
    BY DEF DormancyFollowsTier
  <2>1. DormantOK /\ tier \in {"free", "pro"}
    BY DEF OInv, Orderly, SInv, TypeOK
  <2>2. \A s \in Subs : ~Stuck(s)
    BY DEF Stuck, Running
  <2>3. \A h \in Hooks : hpc[h] = "idle"
    BY DEF Quiet, Idle
  <2> QED BY <2>1, <2>2, <2>3 DEF DormantOK
<1> QED BY <1>1, OrderHolds, PTL
=============================================================================
