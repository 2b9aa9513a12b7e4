---------------------------- MODULE MeterProofs ----------------------------
(***************************************************************************)
(* Theorems about BudgetMeter and CycleClose, for every set of handlers,   *)
(* conversations and webhook handlers, every cap, number of Free and paid  *)
(* periods and number of faults.                                           *)
(*                                                                         *)
(* First the meter alone, under its own Spec; then the meter together with *)
(* the webhook handlers that close a cycle, under CSpec.  A handler claims *)
(* what it read from Redis earlier.  Three facts cover one claim: Redis is *)
(* never ahead of Postgres, the Postgres counter of a period never goes    *)
(* down, and more usage is never fewer units.                              *)
(***************************************************************************)
EXTENDS CycleClose, FiniteSetTheorems, TLAPS

(* Facts about the helpers, each used in several places below. *)

(* The alerts a count calls for are configured thresholds. *)
LEMMA DueAlertsType == \A p, n : DueAlerts(p, n) \subseteq Thresholds
  BY DEF DueAlerts

(* Leaving the metering code keeps the handler's locals typed. *)
LEMMA GoIdleType ==
    ASSUME TypeOK, NEW t \in Turns, GoIdle(t)
    PROVE  HandlersOK'
  BY DEF TypeOK, GoIdle, HandlersOK, Places

(* So does going on to an alert. *)
LEMMA AlertingType ==
    ASSUME TypeOK, NEW t \in Turns, NEW n \in Nat, NEW left \in SUBSET Thresholds,
           pc[t] # "idle", Alerting(t, n, left)
    PROVE  HandlersOK'
  <1>1. CASE GoIdle(t)
    BY <1>1, GoIdleType
  <1>2. CASE ~GoIdle(t)
    BY <1>2 DEF TypeOK, Alerting, HandlersOK, Places
  <1> QED
    BY <1>1, <1>2

(* The initial state is typed. *)
LEMMA InitTypeOK == Init => TypeOK
  <1> SUFFICES ASSUME Init PROVE TypeOK
    OBVIOUS
  <1> USE DEF Init
  <1>1. 1 \in Periods /\ 0 \in 0..MaxFaults
    BY BoundAssumption DEF Periods
  <1>2. countedIn \in [Sessions -> Periods \union {NoPeriod}] /\ pgCounter \in [Periods -> Nat]
    OBVIOUS
  <1>3. rCounter \in [Periods -> Nat \union {Absent}] /\ alertMark \in [Periods -> SUBSET Thresholds]
    OBVIOUS
  <1>4. pc \in [Turns -> Places] /\ \A t \in Turns : pc[t] = "idle"
    BY DEF Places
  <1>5. /\ sess \in [Turns -> Sessions \union {NoSession}]
        /\ per  \in [Turns -> Periods \union {NoPeriod}]
        /\ seen \in [Turns -> Nat]
        /\ due  \in [Turns -> SUBSET Thresholds]
    OBVIOUS
  <1>6. alertsSent \in [Periods -> [Thresholds -> Nat]]
    OBVIOUS
  <1> QED
    BY <1>1, <1>2, <1>3, <1>4, <1>5, <1>6 DEF TypeOK, HandlersOK

(* Which variables a step changes is read off its action; each step below   *)
(* is about those.                                                          *)
LEMMA StepTypeOK == TypeOK /\ [Next]_vars => TypeOK'
  <1> SUFFICES ASSUME TypeOK, [Next]_vars PROVE TypeOK'
    OBVIOUS
  <1> USE DEF stores, cache, handlers
  <1>1. CASE UNCHANGED vars
    BY <1>1 DEF vars, TypeOK, HandlersOK
  <1>2. ASSUME NEW t \in Turns, TurnStep(t) PROVE TypeOK'
    <2>1. ASSUME NEW s \in Sessions, PeekCache(t, s) \/ PeekMiss(t, s) PROVE TypeOK'
      <3>1. pc' \in [Turns -> Places]
        BY <2>1 DEF PeekCache, PeekMiss, GateOutcome, TypeOK, HandlersOK, Places
      <3>2. /\ sess' = [sess EXCEPT ![t] = s]
            /\ per'  = [per EXCEPT ![t] = period]
            /\ UNCHANGED <<stores, cache, period, seen, due, alertsSent, faults>>
            /\ \A u \in Turns \ {t} : pc'[u] = pc[u]
        BY <2>1 DEF PeekCache, PeekMiss, TypeOK, HandlersOK
      <3>3. HandlersOK'
        BY <3>1, <3>2 DEF TypeOK, HandlersOK
      <3> QED
        BY <3>2, <3>3 DEF TypeOK
    <2>2. CASE PeekStore(t)
      <3>1. HandlersOK'
        BY <2>2 DEF PeekStore, GateOutcome, TypeOK, HandlersOK, Places
      <3> QED
        BY <2>2, <3>1 DEF PeekStore, TypeOK, HandlersOK
    <2>3. CASE Acknowledge(t) \/ IntakeEscalates(t)
      BY <2>3, GoIdleType DEF Acknowledge, IntakeEscalates, TypeOK, HandlersOK
    <2>4. CASE InsertSession(t)
      <3>1. HandlersOK'
        BY <2>4 DEF InsertSession, TypeOK, HandlersOK, Places
      <3> QED
        BY <2>4, <3>1 DEF InsertSession, TypeOK, HandlersOK
    <2>5. CASE FindCounted(t)
      <3>1. pgCounter[per[t]] \in Nat
        BY <2>5 DEF FindCounted, TypeOK, HandlersOK
      <3>2. HandlersOK'
        BY <2>5, <3>1, DueAlertsType, AlertingType DEF FindCounted
      <3> QED
        BY <2>5, <3>2 DEF FindCounted, TypeOK, HandlersOK
    <2>6. CASE UpsertCounter(t)
      <3>1. pgCounter[per[t]] \in Nat
        BY <2>6 DEF UpsertCounter, TypeOK, HandlersOK
      <3>2. HandlersOK'
        BY <2>6, <3>1 DEF UpsertCounter, TypeOK, HandlersOK, Places
      <3> QED
        BY <2>6, <3>2 DEF UpsertCounter, TypeOK, HandlersOK
    <2>7. CASE Commit(t)
      <3>1. HandlersOK'
        BY <2>7 DEF Commit, TypeOK, HandlersOK, Places
      <3>2. /\ countedIn' \in [Sessions -> Periods \union {NoPeriod}]
            /\ pgCounter' \in [Periods -> Nat]
        BY <2>7 DEF Commit, TypeOK, HandlersOK
      <3> QED
        BY <2>7, <3>1, <3>2 DEF Commit, TypeOK, HandlersOK
    <2>8. CASE Mirror(t)
      <3>1. HandlersOK'
        BY <2>8, DueAlertsType, AlertingType DEF Mirror, TypeOK, HandlersOK
      <3>2. rCounter' \in [Periods -> Nat \union {Absent}]
        BY <2>8 DEF Mirror, TypeOK, HandlersOK, Incremented
      <3> QED
        BY <2>8, <3>1, <3>2 DEF Mirror, TypeOK, HandlersOK
    <2>9. ASSUME NEW th \in Thresholds, MarkAlert(t, th) PROVE TypeOK'
      <3>1. HandlersOK'
        BY <2>9 DEF MarkAlert, TypeOK, HandlersOK, Places
      <3>2. alertMark' \in [Periods -> SUBSET Thresholds]
        BY <2>9 DEF MarkAlert, TypeOK, HandlersOK
      <3> QED
        BY <2>9, <3>1, <3>2 DEF MarkAlert, TypeOK, HandlersOK
    <2>10. ASSUME NEW th \in Thresholds, SkipAlert(t, th) PROVE TypeOK'
      <3>1. HandlersOK'
        BY <2>10, AlertingType DEF SkipAlert, TypeOK, HandlersOK
      <3> QED
        BY <2>10, <3>1 DEF SkipAlert, TypeOK, HandlersOK
    <2>11. ASSUME NEW th \in Thresholds, SendAlert(t, th) PROVE TypeOK'
      <3>1. HandlersOK'
        BY <2>11, AlertingType DEF SendAlert, TypeOK, HandlersOK
      <3>2. alertsSent' \in [Periods -> [Thresholds -> Nat]]
        BY <2>11 DEF SendAlert, TypeOK, HandlersOK
      <3> QED
        BY <2>11, <3>1, <3>2 DEF SendAlert, TypeOK, HandlersOK
    <2> QED
      BY <1>2, <2>1, <2>2, <2>3, <2>4, <2>5, <2>6, <2>7, <2>8, <2>9, <2>10, <2>11
         DEF TurnStep
  <1>3. ASSUME NEW t \in Turns, TurnFails(t) PROVE TypeOK'
    <2>1. faults' \in 0..MaxFaults
      BY <1>3, BoundAssumption DEF TurnFails, Fault, TypeOK, HandlersOK
    <2> QED
      BY <1>3, <2>1, GoIdleType DEF TurnFails, TypeOK, HandlersOK
  <1>4. CASE RedisFault
    <2>1. faults' \in 0..MaxFaults
      BY <1>4, BoundAssumption
         DEF RedisFault, RedisGoesDown, RedisComesBack, RedisLosesKeys, Fault, TypeOK, HandlersOK
    <2>2. /\ rUp' \in BOOLEAN
          /\ rCounter'  \in [Periods -> Nat \union {Absent}]
          /\ alertMark' \in [Periods -> SUBSET Thresholds]
      BY <1>4 DEF RedisFault, RedisGoesDown, RedisComesBack, RedisLosesKeys, TypeOK, HandlersOK
    <2> QED
      BY <1>4, <2>1, <2>2
         DEF RedisFault, RedisGoesDown, RedisComesBack, RedisLosesKeys, TypeOK, HandlersOK
  <1>5. CASE FreeWindowRolls
    <2>1. period' \in Periods
      BY <1>5, BoundAssumption DEF FreeWindowRolls, TypeOK, HandlersOK, Periods
    <2> QED
      BY <1>5, <2>1 DEF FreeWindowRolls, TypeOK, HandlersOK
  <1> QED
    BY <1>1, <1>2, <1>3, <1>4, <1>5 DEF Next

(* TypeOK: every variable stays within its type, and a handler in the       *)
(* metering code always has a session and a billing anchor.                 *)
THEOREM TypeCorrect == Spec => []TypeOK
  BY InitTypeOK, StepTypeOK, PTL DEF Spec

----------------------------------------------------------------------------
(***************************************************************************)
(* The counting transactions.  The row locks keep two open transactions    *)
(* off the same idempotency row and off the same counter row, so what a    *)
(* transaction read is still true when it commits.                         *)
(***************************************************************************)

LocksExclude ==
    \A t, u \in Turns : t # u =>
        /\ ~(HoldsSessionRow(t) /\ HoldsSessionRow(u) /\ sess[t] = sess[u])
        /\ ~(HoldsCounterRow(t) /\ HoldsCounterRow(u) /\ per[t] = per[u])

ReadsStillTrue ==
    \A t \in Turns :
        /\ HoldsSessionRow(t) => countedIn[sess[t]] = NoPeriod
        /\ HoldsCounterRow(t) => seen[t] = pgCounter[per[t]] + 1

TxInv == TypeOK /\ LocksExclude /\ ReadsStillTrue

(* A step that opens no transaction and commits none keeps the locks. *)
LEMMA LocksKept ==
    ASSUME TypeOK, LocksExclude, ReadsStillTrue, UNCHANGED stores,
           \A t \in Turns : pc'[t] \in {"inserted", "upserted"} =>
                UNCHANGED <<pc[t], sess[t], per[t], seen[t]>>
    PROVE  LocksExclude' /\ ReadsStillTrue'
  BY DEF LocksExclude, ReadsStillTrue, HoldsSessionRow, HoldsCounterRow, stores

(* No transaction is open initially. *)
LEMMA InitTxInv == Init => TxInv
  BY InitTypeOK DEF Init, TxInv, LocksExclude, ReadsStillTrue, HoldsSessionRow, HoldsCounterRow

(* Every step keeps the row locks exclusive and what was read under them true. *)
LEMMA StepTxInv == TxInv /\ [Next]_vars => TxInv'
  <1> SUFFICES ASSUME TxInv, [Next]_vars PROVE LocksExclude' /\ ReadsStillTrue'
    BY StepTypeOK DEF TxInv
  <1> USE DEF handlers
  <1>0. TypeOK /\ LocksExclude /\ ReadsStillTrue
    BY DEF TxInv
  <1>1. CASE UNCHANGED vars
    BY <1>0, <1>1, LocksKept DEF vars, stores
  <1>2. ASSUME NEW t \in Turns, TurnStep(t) PROVE LocksExclude' /\ ReadsStillTrue'
    <2>1. ASSUME NEW s \in Sessions, PeekCache(t, s) \/ PeekMiss(t, s)
          PROVE  LocksExclude' /\ ReadsStillTrue'
      BY <1>0, <2>1, LocksKept DEF PeekCache, PeekMiss, GateOutcome, TypeOK, HandlersOK
    <2>2. CASE PeekStore(t)
      BY <1>0, <2>2, LocksKept DEF PeekStore, GateOutcome, TypeOK, HandlersOK
    <2>3. CASE Acknowledge(t) \/ IntakeEscalates(t)
      BY <1>0, <2>3, LocksKept DEF Acknowledge, IntakeEscalates, GoIdle, TypeOK, HandlersOK
    <2>4. CASE InsertSession(t)
      BY <1>0, <2>4 DEF InsertSession, SessionRowFree, LocksExclude, ReadsStillTrue,
                        HoldsSessionRow, HoldsCounterRow, TypeOK, HandlersOK, stores
    <2>5. CASE FindCounted(t)
      BY <1>0, <2>5, LocksKept DEF FindCounted, Alerting, GoIdle, TypeOK, HandlersOK
    <2>6. CASE UpsertCounter(t)
      BY <1>0, <2>6 DEF UpsertCounter, CounterRowFree, LocksExclude, ReadsStillTrue,
                        HoldsSessionRow, HoldsCounterRow, TypeOK, HandlersOK, stores
    <2>7. CASE Commit(t)
      BY <1>0, <2>7 DEF Commit, LocksExclude, ReadsStillTrue,
                        HoldsSessionRow, HoldsCounterRow, TypeOK, HandlersOK
    <2>8. CASE Mirror(t)
      BY <1>0, <2>8, LocksKept DEF Mirror, Alerting, GoIdle, TypeOK, HandlersOK
    <2>9. ASSUME NEW th \in Thresholds, MarkAlert(t, th)
          PROVE  LocksExclude' /\ ReadsStillTrue'
      BY <1>0, <2>9, LocksKept DEF MarkAlert, TypeOK, HandlersOK
    <2>10. ASSUME NEW th \in Thresholds, SkipAlert(t, th) \/ SendAlert(t, th)
           PROVE  LocksExclude' /\ ReadsStillTrue'
      BY <1>0, <2>10, LocksKept DEF SkipAlert, SendAlert, Alerting, GoIdle, TypeOK, HandlersOK
    <2> QED
      BY <1>2, <2>1, <2>2, <2>3, <2>4, <2>5, <2>6, <2>7, <2>8, <2>9, <2>10 DEF TurnStep
  <1>3. ASSUME NEW t \in Turns, TurnFails(t) PROVE LocksExclude' /\ ReadsStillTrue'
    BY <1>0, <1>3, LocksKept DEF TurnFails, GoIdle, TypeOK, HandlersOK
  <1>4. CASE RedisFault
    BY <1>0, <1>4, LocksKept DEF RedisFault, RedisGoesDown, RedisComesBack, RedisLosesKeys
  <1>5. CASE FreeWindowRolls
    BY <1>0, <1>5, LocksKept DEF FreeWindowRolls
  <1> QED
    BY <1>1, <1>2, <1>3, <1>4, <1>5 DEF Next

(* Hence no two handlers ever hold the same row. *)
LEMMA TxInvariant == Spec => []TxInv
  BY InitTxInv, StepTxInv, PTL DEF Spec

----------------------------------------------------------------------------
(* The ledger *)

(* The commit of a counting transaction is the only write to Postgres, and  *)
(* it charges its session, uncharged until then, to its period.             *)
LEMMA OnlyCommitCharges ==
    ASSUME [Next]_vars
    PROVE  UNCHANGED stores \/ \E t \in Turns : Commit(t)
  <1> USE DEF handlers
  <1>1. CASE UNCHANGED vars
    BY <1>1 DEF vars, stores
  <1>2. ASSUME NEW t \in Turns, TurnStep(t), ~Commit(t) PROVE UNCHANGED stores
    BY <1>2 DEF TurnStep, PeekCache, PeekMiss, PeekStore, Acknowledge, IntakeEscalates,
                InsertSession, FindCounted, UpsertCounter, Mirror, MarkAlert, SkipAlert,
                SendAlert
  <1>3. ASSUME NEW t \in Turns, TurnFails(t) PROVE UNCHANGED stores
    BY <1>3 DEF TurnFails
  <1>4. CASE RedisFault \/ FreeWindowRolls
    BY <1>4 DEF RedisFault, RedisGoesDown, RedisComesBack, RedisLosesKeys, FreeWindowRolls
  <1> QED
    BY <1>1, <1>2, <1>3, <1>4 DEF Next

(* The commit is a Charge of the ledger. *)
LEMMA CommitCharges ==
    ASSUME TxInv, NEW t \in Turns, Commit(t)
    PROVE  /\ sess[t] \in Sessions /\ per[t] \in Periods
           /\ countedIn[sess[t]] = NoPeriod
           /\ countedIn' = [countedIn EXCEPT ![sess[t]] = per[t]]
           /\ pgCounter' = [pgCounter EXCEPT ![per[t]] = @ + 1]
  BY DEF TxInv, Commit, TypeOK, HandlersOK, ReadsStillTrue, HoldsSessionRow, HoldsCounterRow

(* The write-through meter, with its transactions, cache and failures,      *)
(* implements the ledger in which a session is charged in one step.         *)
THEOREM MeterImplementsLedger == Spec => ImplementsLedger
  <1> USE DEF Ledger!Periods, Ledger!NoPeriod, Periods, NoPeriod
  <1>1. Init => Ledger!Init
    BY DEF Init, Ledger!Init
  <1>2. TxInv /\ [Next]_vars => [Ledger!Next]_(Ledger!ledgerVars)
    <2> SUFFICES ASSUME TxInv, [Next]_vars PROVE [Ledger!Next]_(Ledger!ledgerVars)
      OBVIOUS
    <2>1. CASE UNCHANGED stores
      BY <2>1 DEF stores, Ledger!ledgerVars
    <2>2. ASSUME NEW t \in Turns, Commit(t) PROVE Ledger!Next
      <3>1. Ledger!Charge(sess[t], per[t])
        BY <2>2, CommitCharges DEF Ledger!Charge
      <3> QED
        BY <2>2, <3>1, CommitCharges DEF Ledger!Next
    <2> QED
      BY <2>1, <2>2, OnlyCommitCharges
  <1> QED
    BY <1>1, <1>2, TxInvariant, PTL DEF Spec, ImplementsLedger, Ledger!Spec

(* ExactlyOnce: a period's counter is the number of its idempotency rows.   *)
THEOREM CountsExactlyOnce == Spec => []ExactlyOnce
  <1>1. Init => ExactlyOnce
    <2> SUFFICES ASSUME Init, NEW p \in Periods
                 PROVE  pgCounter[p] = Cardinality({s \in Sessions : countedIn[s] = p})
      BY DEF ExactlyOnce
    <2>1. {s \in Sessions : countedIn[s] = p} = {}
      BY DEF Init, Periods, NoPeriod
    <2> QED
      BY <2>1, FS_EmptySet DEF Init
  <1>2. TxInv /\ ExactlyOnce /\ [Next]_vars => ExactlyOnce'
    <2> SUFFICES ASSUME TxInv, ExactlyOnce, [Next]_vars PROVE ExactlyOnce'
      OBVIOUS
    <2>1. CASE UNCHANGED stores
      BY <2>1 DEF ExactlyOnce, stores
    <2>2. ASSUME NEW t \in Turns, Commit(t), NEW p \in Periods
          PROVE  pgCounter'[p] = Cardinality({s \in Sessions : countedIn'[s] = p})
      <3> DEFINE Charged == {s \in Sessions : countedIn[s] = p}
                 Charged1 == {s \in Sessions : countedIn'[s] = p}
      <3>1. IsFiniteSet(Charged)
        BY SessionAssumption, FS_Subset
      <3>2. countedIn \in [Sessions -> Periods \union {NoPeriod}] /\ pgCounter \in [Periods -> Nat]
        BY DEF TxInv, TypeOK
      <3>3. CASE p = per[t]
        <4>1. Charged1 = Charged \union {sess[t]} /\ sess[t] \notin Charged
          BY <2>2, <3>2, <3>3, CommitCharges DEF Periods, NoPeriod
        <4>2. Cardinality(Charged1) = Cardinality(Charged) + 1
          BY <3>1, <4>1, FS_AddElement
        <4> QED
          BY <2>2, <3>2, <3>3, <4>2, CommitCharges DEF ExactlyOnce
      <3>4. CASE p # per[t]
        <4>1. Charged1 = Charged
          BY <2>2, <3>2, <3>4, CommitCharges DEF Periods, NoPeriod
        <4> QED
          BY <2>2, <3>2, <3>4, <4>1, CommitCharges DEF ExactlyOnce
      <3> QED
        BY <3>3, <3>4
    <2> QED
      BY <2>1, <2>2, OnlyCommitCharges DEF ExactlyOnce
  <1> QED
    BY <1>1, <1>2, TxInvariant, PTL DEF Spec

----------------------------------------------------------------------------
(***************************************************************************)
(* The cache.  CacheNeverOvercounts is not inductive: a handler that has   *)
(* committed and not yet mirrored will raise the Redis counter whatever    *)
(* the Postgres one does.  CacheInv counts those handlers in.              *)
(***************************************************************************)

Unmirrored(p) == {t \in Turns : pc[t] = "committed" /\ per[t] = p}

CacheInv ==
    \A p \in Periods :
        /\ Cardinality(Unmirrored(p)) <= pgCounter[p]
        /\ rCounter[p] + Cardinality(Unmirrored(p)) <= pgCounter[p]

(* The commits Redis has not heard of yet can be counted. *)
LEMMA UnmirroredFinite ==
    \A p : IsFiniteSet(Unmirrored(p)) /\ Cardinality(Unmirrored(p)) \in Nat
  BY TurnsAssumption, FS_Subset, FS_CardinalityType DEF Unmirrored

(* A step keeps CacheInv when no handler commits and no counter is raised. *)
LEMMA CacheKept ==
    ASSUME TypeOK, TypeOK', CacheInv, UNCHANGED stores,
           \A p \in Periods : rCounter'[p] \in {rCounter[p], Absent},
           \A t \in Turns : pc'[t] = "committed" => pc[t] = "committed" /\ per'[t] = per[t]
    PROVE  CacheInv'
  <1> SUFFICES ASSUME NEW p \in Periods
               PROVE  /\ Cardinality(Unmirrored(p)') <= pgCounter'[p]
                      /\ rCounter'[p] + Cardinality(Unmirrored(p)') <= pgCounter'[p]
    BY DEF CacheInv
  <1>1. Unmirrored(p)' \subseteq Unmirrored(p)
    BY DEF Unmirrored
  <1>2. Cardinality(Unmirrored(p)') <= Cardinality(Unmirrored(p)) /\ Cardinality(Unmirrored(p)') \in Nat
    BY <1>1, UnmirroredFinite, FS_Subset, FS_CardinalityType
  <1>3. pgCounter'[p] = pgCounter[p] /\ pgCounter[p] \in Nat
    BY DEF stores, TypeOK
  <1>4. rCounter[p] \in Int /\ rCounter[p] >= -1 /\ (rCounter'[p] = rCounter[p] \/ rCounter'[p] = -1)
    BY DEF TypeOK, Absent
  <1>5. Cardinality(Unmirrored(p)) \in Nat
    BY UnmirroredFinite
  <1> QED
    BY <1>2, <1>3, <1>4, <1>5 DEF CacheInv

(* Every step keeps Redis, with the mirrors still to come, behind Postgres. *)
LEMMA StepCacheInv == TxInv /\ TxInv' /\ CacheInv /\ [Next]_vars => CacheInv'
  <1> SUFFICES ASSUME TxInv, TxInv', CacheInv, [Next]_vars PROVE CacheInv'
    OBVIOUS
  <1> USE DEF handlers
  <1>0. TypeOK /\ TypeOK'
    BY DEF TxInv
  <1>1. CASE UNCHANGED vars
    BY <1>0, <1>1, CacheKept DEF vars, cache
  <1>2. ASSUME NEW t \in Turns, TurnStep(t) PROVE CacheInv'
    <2>1. ASSUME NEW s \in Sessions, PeekCache(t, s) \/ PeekMiss(t, s) PROVE CacheInv'
      BY <1>0, <2>1, CacheKept DEF PeekCache, PeekMiss, GateOutcome, TypeOK, HandlersOK, cache
    <2>2. CASE PeekStore(t)
      BY <1>0, <2>2, CacheKept DEF PeekStore, GateOutcome, TypeOK, HandlersOK, cache
    <2>3. CASE Acknowledge(t) \/ IntakeEscalates(t)
      BY <1>0, <2>3, CacheKept
         DEF Acknowledge, IntakeEscalates, GoIdle, TypeOK, HandlersOK, cache
    <2>4. CASE InsertSession(t)
      BY <1>0, <2>4, CacheKept DEF InsertSession, TypeOK, HandlersOK, cache
    <2>5. CASE FindCounted(t)
      BY <1>0, <2>5, CacheKept DEF FindCounted, Alerting, GoIdle, TypeOK, HandlersOK, cache
    <2>6. CASE UpsertCounter(t)
      BY <1>0, <2>6, CacheKept DEF UpsertCounter, TypeOK, HandlersOK, cache
    <2>7. CASE Commit(t)
      <3> SUFFICES ASSUME NEW p \in Periods
                   PROVE  /\ Cardinality(Unmirrored(p)') <= pgCounter'[p]
                          /\ rCounter'[p] + Cardinality(Unmirrored(p)') <= pgCounter'[p]
        BY DEF CacheInv
      <3>1. Cardinality(Unmirrored(p)) \in Nat /\ pgCounter[p] \in Nat /\ rCounter[p] \in Int
        BY <1>0, UnmirroredFinite DEF TypeOK, Absent
      <3>2. rCounter' = rCounter /\ pgCounter' = [pgCounter EXCEPT ![per[t]] = @ + 1]
        BY <2>7, CommitCharges DEF Commit, cache
      <3>3. CASE p = per[t]
        <4>1. Unmirrored(p)' = Unmirrored(p) \union {t} /\ t \notin Unmirrored(p)
          BY <1>0, <2>7, <3>3 DEF Commit, Unmirrored, TypeOK, HandlersOK
        <4>2. Cardinality(Unmirrored(p)') = Cardinality(Unmirrored(p)) + 1
          BY <4>1, UnmirroredFinite, FS_AddElement
        <4>3. pgCounter'[p] = pgCounter[p] + 1
          BY <1>0, <3>2, <3>3 DEF TypeOK
        <4> QED
          BY <3>1, <3>2, <4>2, <4>3 DEF CacheInv
      <3>4. CASE p # per[t]
        <4>1. Unmirrored(p)' = Unmirrored(p)
          BY <1>0, <2>7, <3>4 DEF Commit, Unmirrored, TypeOK, HandlersOK
        <4>2. pgCounter'[p] = pgCounter[p]
          BY <1>0, <3>2, <3>4 DEF TypeOK
        <4> QED
          BY <3>1, <3>2, <4>1, <4>2 DEF CacheInv
      <3> QED
        BY <3>3, <3>4
    <2>8. CASE Mirror(t)
      <3>1. CASE ~rUp
        BY <1>0, <2>8, <3>1, CacheKept DEF Mirror, Alerting, GoIdle, TypeOK, HandlersOK, cache
      <3>2. CASE rUp
        <4> SUFFICES ASSUME NEW p \in Periods
                     PROVE  /\ Cardinality(Unmirrored(p)') <= pgCounter'[p]
                            /\ rCounter'[p] + Cardinality(Unmirrored(p)') <= pgCounter'[p]
          BY DEF CacheInv
        <4>1. /\ Cardinality(Unmirrored(p)) \in Nat /\ pgCounter[p] \in Nat
              /\ rCounter[p] \in Int /\ rCounter[p] >= -1
          BY <1>0, UnmirroredFinite DEF TypeOK, Absent
        <4>2. /\ pgCounter' = pgCounter
              /\ rCounter' = [rCounter EXCEPT ![per[t]] = Incremented(@)]
          BY <2>8, <3>2 DEF Mirror, stores
        <4>3. CASE p = per[t]
          <5>1. Unmirrored(p)' = Unmirrored(p) \ {t} /\ t \in Unmirrored(p)
            BY <1>0, <2>8, <4>3 DEF Mirror, Alerting, GoIdle, Unmirrored, TypeOK, HandlersOK
          <5>2. Cardinality(Unmirrored(p)') = Cardinality(Unmirrored(p)) - 1
            BY <5>1, UnmirroredFinite, FS_RemoveElement
          <5>3. \/ rCounter'[p] = rCounter[p] + 1
                \/ rCounter'[p] = 1
            BY <1>0, <4>2, <4>3 DEF TypeOK, Incremented
          <5> QED
            BY <4>1, <4>2, <5>2, <5>3 DEF CacheInv
        <4>4. CASE p # per[t]
          <5>1. Unmirrored(p)' = Unmirrored(p)
            BY <1>0, <2>8, <4>4 DEF Mirror, Alerting, GoIdle, Unmirrored, TypeOK, HandlersOK
          <5>2. rCounter'[p] = rCounter[p]
            BY <1>0, <4>2, <4>4 DEF TypeOK
          <5> QED
            BY <4>1, <4>2, <5>1, <5>2 DEF CacheInv
        <4> QED
          BY <4>3, <4>4
      <3> QED
        BY <1>0, <3>1, <3>2 DEF TypeOK
    <2>9. ASSUME NEW th \in Thresholds, MarkAlert(t, th) PROVE CacheInv'
      BY <1>0, <2>9, CacheKept DEF MarkAlert, TypeOK, HandlersOK
    <2>10. ASSUME NEW th \in Thresholds, SkipAlert(t, th) \/ SendAlert(t, th) PROVE CacheInv'
      BY <1>0, <2>10, CacheKept
         DEF SkipAlert, SendAlert, Alerting, GoIdle, TypeOK, HandlersOK, cache
    <2> QED
      BY <1>2, <2>1, <2>2, <2>3, <2>4, <2>5, <2>6, <2>7, <2>8, <2>9, <2>10 DEF TurnStep
  <1>3. ASSUME NEW t \in Turns, TurnFails(t) PROVE CacheInv'
    BY <1>0, <1>3, CacheKept DEF TurnFails, GoIdle, TypeOK, HandlersOK, cache
  <1>4. CASE RedisFault
    BY <1>0, <1>4, CacheKept DEF RedisFault, RedisGoesDown, RedisComesBack, RedisLosesKeys
  <1>5. CASE FreeWindowRolls
    BY <1>0, <1>5, CacheKept DEF FreeWindowRolls, cache
  <1> QED
    BY <1>1, <1>2, <1>3, <1>4, <1>5 DEF Next

(* Nothing is mirrored initially. *)
LEMMA InitCacheInv == Init => CacheInv
  <1> SUFFICES ASSUME Init, NEW p \in Periods
               PROVE  /\ Cardinality(Unmirrored(p)) <= pgCounter[p]
                      /\ rCounter[p] + Cardinality(Unmirrored(p)) <= pgCounter[p]
    BY DEF CacheInv
  <1>1. Unmirrored(p) = {}
    BY DEF Init, Unmirrored
  <1> QED
    BY <1>1, FS_EmptySet DEF Init, Absent

(* Hence Redis is always behind, by the mirrors to come at least. *)
LEMMA CacheInvariant == Spec => []CacheInv
  BY InitTxInv, StepTxInv, InitCacheInv, StepCacheInv, PTL DEF Spec

(* CacheNeverOvercounts: the Redis counter is never ahead of Postgres.      *)
THEOREM CacheNeverAhead == Spec => []CacheNeverOvercounts
  <1>1. TypeOK /\ CacheInv => CacheNeverOvercounts
    <2> SUFFICES ASSUME TypeOK, CacheInv, NEW p \in Periods PROVE rCounter[p] <= pgCounter[p]
      BY DEF CacheNeverOvercounts
    <2>1. Cardinality(Unmirrored(p)) \in Nat /\ pgCounter[p] \in Nat /\ rCounter[p] \in Int
      BY UnmirroredFinite DEF TypeOK, Absent
    <2> QED
      BY <2>1 DEF CacheInv
  <1> QED
    BY <1>1, TypeCorrect, CacheInvariant, PTL

----------------------------------------------------------------------------
(* The gate *)

(* A counter never goes down: nothing in the serving path removes a count.  *)
LEMMA CounterGrows ==
    ASSUME TxInv, [Next]_vars, NEW p \in Periods
    PROVE  pgCounter'[p] >= pgCounter[p] /\ pgCounter[p] \in Nat /\ pgCounter'[p] \in Nat
  <1>1. pgCounter \in [Periods -> Nat]
    BY DEF TxInv, TypeOK
  <1>2. CASE UNCHANGED stores
    BY <1>1, <1>2 DEF stores
  <1>3. ASSUME NEW t \in Turns, Commit(t)
        PROVE  pgCounter'[p] >= pgCounter[p] /\ pgCounter[p] \in Nat /\ pgCounter'[p] \in Nat
    BY <1>1, <1>3, CommitCharges
  <1> QED
    BY <1>2, <1>3, OnlyCommitCharges

(* A step at which no handler is newly denied keeps NoEarlyDenial. *)
LEMMA DenialKept ==
    ASSUME TxInv, [Next]_vars, NoEarlyDenial,
           \A t \in Turns : pc'[t] = "denied" => pc[t] = "denied" /\ per'[t] = per[t]
    PROVE  NoEarlyDenial'
  <1> SUFFICES ASSUME NEW t \in Turns, pc'[t] = "denied" PROVE pgCounter'[per'[t]] >= Cap
    BY DEF NoEarlyDenial
  <1>1. pc[t] = "denied" /\ per'[t] = per[t] /\ per[t] \in Periods
    BY DEF TxInv, TypeOK, HandlersOK
  <1>2. pgCounter[per[t]] >= Cap
    BY <1>1 DEF NoEarlyDenial
  <1> QED
    BY <1>1, <1>2, CounterGrows, BudgetAssumption

(* A denial was right when it was decided and stays right: counters only grow. *)
LEMMA StepNoEarlyDenial ==
    TxInv /\ CacheNeverOvercounts /\ NoEarlyDenial /\ [Next]_vars => NoEarlyDenial'
  <1> SUFFICES ASSUME TxInv, CacheNeverOvercounts, NoEarlyDenial, [Next]_vars
               PROVE  NoEarlyDenial'
    OBVIOUS
  <1> USE DEF handlers
  <1>0. TypeOK
    BY DEF TxInv
  <1>1. CASE UNCHANGED vars
    BY <1>1, DenialKept DEF vars
  <1>2. ASSUME NEW t \in Turns, TurnStep(t) PROVE NoEarlyDenial'
    <2>1. ASSUME NEW s \in Sessions, PeekCache(t, s) PROVE NoEarlyDenial'
      <3>1. CASE IsFree(period) /\ rCounter[period] >= Cap
        <4> SUFFICES ASSUME NEW u \in Turns, pc'[u] = "denied" PROVE pgCounter'[per'[u]] >= Cap
          BY DEF NoEarlyDenial
        <4>1. period \in Periods /\ pgCounter' = pgCounter
          BY <1>0, <2>1 DEF TypeOK, PeekCache, stores
        <4>2. pgCounter[period] >= Cap
          BY <1>0, <3>1, <4>1, BudgetAssumption DEF CacheNeverOvercounts, TypeOK, Absent
        <4>3. CASE u = t
          BY <1>0, <2>1, <4>1, <4>2, <4>3 DEF PeekCache, TypeOK, HandlersOK
        <4>4. CASE u # t
          BY <1>0, <2>1, <4>1, <4>4 DEF PeekCache, TypeOK, HandlersOK, NoEarlyDenial
        <4> QED
          BY <4>3, <4>4
      <3>2. CASE ~(IsFree(period) /\ rCounter[period] >= Cap)
        BY <1>0, <2>1, <3>2, DenialKept DEF PeekCache, GateOutcome, TypeOK, HandlersOK
      <3> QED
        BY <3>1, <3>2
    <2>2. ASSUME NEW s \in Sessions, PeekMiss(t, s) PROVE NoEarlyDenial'
      BY <1>0, <2>2, DenialKept DEF PeekMiss, TypeOK, HandlersOK
    <2>3. CASE PeekStore(t)
      BY <1>0, <2>3 DEF PeekStore, GateOutcome, TypeOK, HandlersOK, NoEarlyDenial, stores
    <2>4. CASE Acknowledge(t) \/ IntakeEscalates(t)
      BY <1>0, <2>4, DenialKept DEF Acknowledge, IntakeEscalates, GoIdle, TypeOK, HandlersOK
    <2>5. CASE InsertSession(t) \/ UpsertCounter(t) \/ Commit(t)
      BY <1>0, <2>5, DenialKept DEF InsertSession, UpsertCounter, Commit, TypeOK, HandlersOK
    <2>6. CASE FindCounted(t) \/ Mirror(t)
      BY <1>0, <2>6, DenialKept DEF FindCounted, Mirror, Alerting, GoIdle, TypeOK, HandlersOK
    <2>7. ASSUME NEW th \in Thresholds, MarkAlert(t, th) \/ SkipAlert(t, th) \/ SendAlert(t, th)
          PROVE  NoEarlyDenial'
      BY <1>0, <2>7, DenialKept
         DEF MarkAlert, SkipAlert, SendAlert, Alerting, GoIdle, TypeOK, HandlersOK
    <2> QED
      BY <1>2, <2>1, <2>2, <2>3, <2>4, <2>5, <2>6, <2>7 DEF TurnStep
  <1>3. ASSUME NEW t \in Turns, TurnFails(t) PROVE NoEarlyDenial'
    BY <1>0, <1>3, DenialKept DEF TurnFails, GoIdle, TypeOK, HandlersOK
  <1>4. CASE RedisFault \/ FreeWindowRolls
    BY <1>4, DenialKept
       DEF RedisFault, RedisGoesDown, RedisComesBack, RedisLosesKeys, FreeWindowRolls
  <1> QED
    BY <1>1, <1>2, <1>3, <1>4 DEF Next

(* NoEarlyDenial: the gate may read a cache that is behind, never one that  *)
(* is ahead, so a denied turn's period is at its cap in Postgres.           *)
THEOREM DenialJustified == Spec => []NoEarlyDenial
  <1>1. Init => NoEarlyDenial
    BY DEF Init, NoEarlyDenial
  <1> QED
    BY <1>1, StepNoEarlyDenial, TxInvariant, CacheNeverAhead, PTL DEF Spec

----------------------------------------------------------------------------
(***************************************************************************)
(* The overshoot.  While nothing has failed, Redis differs from Postgres   *)
(* by the handlers about to mirror (MirrorExact), so a handler that the    *)
(* gate lets pass saw a count short of the cap by that many at most; and   *)
(* each handler holds at most one admission (AdmissionBound).              *)
(***************************************************************************)

Admitted(p) == {t \in Turns : pc[t] \in {"gated", "inserted", "upserted"} /\ per[t] = p}

MirrorExact ==
    /\ rUp
    /\ \A p \in Periods :
         pgCounter[p] = Cardinality(Unmirrored(p))
                         + (IF rCounter[p] = Absent THEN 0 ELSE rCounter[p])

AdmissionBound ==
    \A p \in Periods \ PaidPeriods :
        pgCounter[p] + Cardinality(Admitted(p)) < Cap + Cardinality(Turns)

CleanInv == faults = 0 => MirrorExact /\ AdmissionBound

(* The handlers past the gate can be counted. *)
LEMMA AdmittedFinite ==
    \A p : /\ IsFiniteSet(Admitted(p)) /\ Cardinality(Admitted(p)) \in Nat
           /\ Cardinality(Turns) \in Nat /\ Cardinality(Admitted(p)) <= Cardinality(Turns)
           /\ Cardinality(Admitted(p)) + Cardinality(Unmirrored(p)) <= Cardinality(Turns)
  <1> TAKE p
  <1>1. Admitted(p) \subseteq Turns /\ Unmirrored(p) \subseteq Turns
        /\ Admitted(p) \cap Unmirrored(p) = {}
    BY DEF Admitted, Unmirrored
  <1>2. IsFiniteSet(Admitted(p)) /\ IsFiniteSet(Unmirrored(p))
    BY <1>1, TurnsAssumption, FS_Subset
  <1>3. Cardinality(Admitted(p) \union Unmirrored(p))
          = Cardinality(Admitted(p)) + Cardinality(Unmirrored(p)) - Cardinality({})
    BY <1>1, <1>2, FS_Union
  <1>4. Cardinality({}) = 0
    BY FS_EmptySet
  <1>5. /\ Cardinality(Admitted(p)) \in Nat /\ Cardinality(Unmirrored(p)) \in Nat
        /\ Cardinality(Turns) \in Nat
    BY <1>2, TurnsAssumption, FS_CardinalityType
  <1>6. Cardinality(Admitted(p) \union Unmirrored(p)) <= Cardinality(Turns)
    BY <1>1, TurnsAssumption, FS_Subset
  <1> QED
    BY <1>2, <1>3, <1>4, <1>5, <1>6

(* A step that commits nothing, mirrors nothing and admits nobody. *)
LEMMA CleanKept ==
    ASSUME TypeOK, TypeOK', CleanInv, faults' = faults, UNCHANGED <<stores, rUp, rCounter>>,
           \A t \in Turns : pc'[t] = "committed" <=> pc[t] = "committed",
           \A t \in Turns : pc[t] = "committed" => per'[t] = per[t],
           \A t \in Turns : pc'[t] \in {"gated", "inserted", "upserted"} =>
                pc[t] \in {"gated", "inserted", "upserted"} /\ per'[t] = per[t]
    PROVE  CleanInv'
  <1> SUFFICES ASSUME faults = 0 PROVE MirrorExact' /\ AdmissionBound'
    BY DEF CleanInv
  <1>0. MirrorExact /\ AdmissionBound
    BY DEF CleanInv
  <1>1. \A p : Unmirrored(p)' = Unmirrored(p)
    BY DEF Unmirrored
  <1>2. MirrorExact'
    BY <1>0, <1>1 DEF MirrorExact, stores
  <1>3. ASSUME NEW p \in Periods \ PaidPeriods
        PROVE  pgCounter'[p] + Cardinality(Admitted(p)') < Cap + Cardinality(Turns)
    <2>1. Admitted(p)' \subseteq Admitted(p)
      BY DEF Admitted
    <2>2. /\ Cardinality(Admitted(p)') <= Cardinality(Admitted(p))
          /\ Cardinality(Admitted(p)') \in Nat
      BY <2>1, AdmittedFinite, FS_Subset, FS_CardinalityType
    <2>3. pgCounter[p] + Cardinality(Admitted(p)) < Cap + Cardinality(Turns)
      BY <1>0, <1>3 DEF AdmissionBound
    <2>4. pgCounter[p] \in Nat /\ Cardinality(Admitted(p)) \in Nat /\ Cardinality(Turns) \in Nat
      BY AdmittedFinite DEF TypeOK
    <2> QED
      BY <2>2, <2>3, <2>4, BudgetAssumption DEF stores
  <1> QED
    BY <1>2, <1>3 DEF AdmissionBound

(* The gate lets a handler pass at a count n below the cap. *)
LEMMA CleanAdmit ==
    ASSUME TypeOK, TypeOK', CleanInv, faults' = faults, UNCHANGED <<stores, rUp, rCounter>>,
           NEW t \in Turns, NEW q \in Periods, NEW n \in Nat,
           pc[t] \in {"idle", "missed"}, pc'[t] = GateOutcome(q, n), per'[t] = q,
           \A u \in Turns \ {t} : pc'[u] = pc[u] /\ per'[u] = per[u],
           pgCounter[q] <= n + Cardinality(Unmirrored(q))
    PROVE  CleanInv'
  <1> SUFFICES ASSUME faults = 0 PROVE MirrorExact' /\ AdmissionBound'
    BY DEF CleanInv
  <1>0. MirrorExact /\ AdmissionBound
    BY DEF CleanInv
  <1>1. \A p : Unmirrored(p)' = Unmirrored(p)
    BY DEF Unmirrored, GateOutcome
  <1>2. MirrorExact'
    BY <1>0, <1>1 DEF MirrorExact, stores
  <1>3. ASSUME NEW p \in Periods \ PaidPeriods
        PROVE  pgCounter'[p] + Cardinality(Admitted(p)') < Cap + Cardinality(Turns)
    <2>0. /\ pgCounter[p] \in Nat /\ pgCounter'[p] = pgCounter[p]
          /\ Cardinality(Admitted(p)) \in Nat /\ Cardinality(Turns) \in Nat
          /\ pgCounter[p] + Cardinality(Admitted(p)) < Cap + Cardinality(Turns)
      BY <1>0, <1>3, AdmittedFinite DEF TypeOK, AdmissionBound, stores
    <2>1. CASE p # q \/ n >= Cap
      <3>1. Admitted(p)' \subseteq Admitted(p)
        BY <1>3, <2>1 DEF Admitted, GateOutcome, IsFree
      <3>2. /\ Cardinality(Admitted(p)') <= Cardinality(Admitted(p))
            /\ Cardinality(Admitted(p)') \in Nat
        BY <3>1, AdmittedFinite, FS_Subset, FS_CardinalityType
      <3> QED
        BY <2>0, <3>2, BudgetAssumption
    <2>2. CASE p = q /\ ~(n >= Cap)
      <3>1. /\ Cardinality(Admitted(p)') \in Nat /\ Cardinality(Unmirrored(p)) \in Nat
            /\ Cardinality(Admitted(p)') + Cardinality(Unmirrored(p)) <= Cardinality(Turns)
        <4>1. Admitted(p)' \subseteq Turns /\ Unmirrored(p)' \subseteq Turns
              /\ Admitted(p)' \cap Unmirrored(p)' = {}
          BY DEF Admitted, Unmirrored
        <4>2. IsFiniteSet(Admitted(p)') /\ IsFiniteSet(Unmirrored(p)')
          BY <4>1, TurnsAssumption, FS_Subset
        <4>3. Cardinality(Admitted(p)' \union Unmirrored(p)')
                = Cardinality(Admitted(p)') + Cardinality(Unmirrored(p)') - Cardinality({})
          BY <4>1, <4>2, FS_Union
        <4>4. Cardinality({}) = 0
          BY FS_EmptySet
        <4>5. /\ Cardinality(Admitted(p)') \in Nat /\ Cardinality(Unmirrored(p)') \in Nat
              /\ Cardinality(Turns) \in Nat
          BY <4>2, TurnsAssumption, FS_CardinalityType
        <4>6. Cardinality(Admitted(p)' \union Unmirrored(p)') <= Cardinality(Turns)
          BY <4>1, TurnsAssumption, FS_Subset
        <4> QED
          BY <1>1, <4>3, <4>4, <4>5, <4>6
      <3> QED
        BY <2>0, <2>2, <3>1, BudgetAssumption
    <2> QED
      BY <2>1, <2>2, BudgetAssumption
  <1> QED
    BY <1>2, <1>3 DEF AdmissionBound

(* A commit turns an admitted handler into a counted conversation. *)
LEMMA CommitClean == ASSUME TxInv, CleanInv, NEW t \in Turns, Commit(t) PROVE CleanInv'
  <1> SUFFICES ASSUME faults = 0 PROVE MirrorExact' /\ AdmissionBound'
    BY DEF CleanInv, Commit
  <1>0. TypeOK /\ MirrorExact /\ AdmissionBound
    BY DEF CleanInv, TxInv
  <1>1. ASSUME NEW p \in Periods
        PROVE  /\ pgCounter'[p] - pgCounter[p]
                     = Cardinality(Unmirrored(p)') - Cardinality(Unmirrored(p))
               /\ pgCounter'[p] + Cardinality(Admitted(p)')
                     = pgCounter[p] + Cardinality(Admitted(p))
               /\ Cardinality(Unmirrored(p)') \in Nat /\ Cardinality(Unmirrored(p)) \in Nat
               /\ pgCounter'[p] \in Nat /\ pgCounter[p] \in Nat
    <2>1. /\ Cardinality(Unmirrored(p)) \in Nat /\ Cardinality(Admitted(p)) \in Nat
          /\ pgCounter[p] \in Nat
      BY <1>0, UnmirroredFinite, AdmittedFinite DEF TypeOK
    <2>2. CASE p = per[t]
      <3>1. Unmirrored(p)' = Unmirrored(p) \union {t} /\ t \notin Unmirrored(p)
        BY <1>0, <2>2 DEF Commit, Unmirrored, TypeOK, HandlersOK
      <3>2. Admitted(p)' = Admitted(p) \ {t} /\ t \in Admitted(p)
        BY <1>0, <2>2 DEF Commit, Admitted, TypeOK, HandlersOK
      <3>3. Cardinality(Unmirrored(p)') = Cardinality(Unmirrored(p)) + 1
        BY <3>1, UnmirroredFinite, FS_AddElement
      <3>4. Cardinality(Admitted(p)') = Cardinality(Admitted(p)) - 1
        BY <3>2, AdmittedFinite, FS_RemoveElement
      <3>5. pgCounter'[p] = pgCounter[p] + 1
        BY <1>0, <2>2, CommitCharges DEF TypeOK
      <3> QED
        BY <2>1, <3>3, <3>4, <3>5
    <2>3. CASE p # per[t]
      <3>1. Unmirrored(p)' = Unmirrored(p)
        BY <1>0, <2>3 DEF Commit, Unmirrored, TypeOK, HandlersOK
      <3>2. Admitted(p)' = Admitted(p)
        BY <1>0, <2>3 DEF Commit, Admitted, TypeOK, HandlersOK
      <3>3. pgCounter'[p] = pgCounter[p]
        BY <1>0, <2>3, CommitCharges DEF TypeOK
      <3> QED
        BY <2>1, <3>1, <3>2, <3>3
    <2> QED
      BY <2>2, <2>3
  <1>2. MirrorExact'
    <2>1. rUp' = rUp /\ rCounter' = rCounter /\ rCounter \in [Periods -> Int]
      BY <1>0 DEF Commit, cache, TypeOK, Absent
    <2> SUFFICES ASSUME NEW p \in Periods
                 PROVE  pgCounter'[p] = Cardinality(Unmirrored(p)')
                                         + (IF rCounter[p] = Absent THEN 0 ELSE rCounter[p])
      BY <1>0, <2>1 DEF MirrorExact
    <2>2. pgCounter[p] = Cardinality(Unmirrored(p))
                          + (IF rCounter[p] = Absent THEN 0 ELSE rCounter[p])
      BY <1>0 DEF MirrorExact
    <2> QED
      BY <1>1, <2>1, <2>2
  <1>3. AdmissionBound'
    BY <1>0, <1>1 DEF AdmissionBound
  <1> QED
    BY <1>2, <1>3

(* With no fault, the mirror brings Redis level with the commit. *)
LEMMA MirrorClean == ASSUME TxInv, CleanInv, NEW t \in Turns, Mirror(t) PROVE CleanInv'
  <1> SUFFICES ASSUME faults = 0 PROVE MirrorExact' /\ AdmissionBound'
    BY DEF CleanInv, Mirror
  <1>0. TypeOK /\ MirrorExact /\ AdmissionBound
    BY DEF CleanInv, TxInv
  <1>1. /\ rUp' = rUp /\ pgCounter' = pgCounter
        /\ rCounter' = [rCounter EXCEPT ![per[t]] = Incremented(@)]
    BY <1>0 DEF Mirror, MirrorExact, stores
  <1>2. MirrorExact'
    <2> SUFFICES ASSUME NEW p \in Periods
                 PROVE  pgCounter[p] = Cardinality(Unmirrored(p)')
                                        + (IF rCounter'[p] = Absent THEN 0 ELSE rCounter'[p])
      BY <1>0, <1>1 DEF MirrorExact
    <2>0. /\ pgCounter[p] = Cardinality(Unmirrored(p))
                              + (IF rCounter[p] = Absent THEN 0 ELSE rCounter[p])
          /\ Cardinality(Unmirrored(p)) \in Nat /\ rCounter[p] \in Nat \union {-1}
      BY <1>0, UnmirroredFinite DEF MirrorExact, TypeOK, Absent
    <2>1. CASE p = per[t]
      <3>1. Unmirrored(p)' = Unmirrored(p) \ {t} /\ t \in Unmirrored(p)
        BY <1>0, <2>1 DEF Mirror, Alerting, GoIdle, Unmirrored, TypeOK, HandlersOK
      <3>2. Cardinality(Unmirrored(p)') = Cardinality(Unmirrored(p)) - 1
        BY <3>1, UnmirroredFinite, FS_RemoveElement
      <3>3. rCounter'[p] = Incremented(rCounter[p])
        BY <1>0, <1>1, <2>1 DEF TypeOK
      <3> QED
        BY <2>0, <3>2, <3>3 DEF Incremented, Absent
    <2>2. CASE p # per[t]
      <3>1. Unmirrored(p)' = Unmirrored(p)
        BY <1>0, <2>2 DEF Mirror, Alerting, GoIdle, Unmirrored, TypeOK, HandlersOK
      <3>2. rCounter'[p] = rCounter[p]
        BY <1>0, <1>1, <2>2 DEF TypeOK
      <3> QED
        BY <2>0, <3>1, <3>2
    <2> QED
      BY <2>1, <2>2
  <1>3. ASSUME NEW p \in Periods \ PaidPeriods
        PROVE  pgCounter'[p] + Cardinality(Admitted(p)') < Cap + Cardinality(Turns)
    <2>1. Admitted(p)' = Admitted(p)
      BY <1>0 DEF Mirror, Alerting, GoIdle, Admitted, TypeOK, HandlersOK
    <2> QED
      BY <1>0, <1>1, <1>3, <2>1 DEF AdmissionBound
  <1> QED
    BY <1>2, <1>3 DEF AdmissionBound

(* With no fault, every step keeps the cache exact and the admissions bounded. *)
LEMMA StepCleanInv == TxInv /\ TxInv' /\ CleanInv /\ [Next]_vars => CleanInv'
  <1> SUFFICES ASSUME TxInv, TxInv', CleanInv, [Next]_vars PROVE CleanInv'
    OBVIOUS
  <1> USE DEF handlers
  <1>0. TypeOK /\ TypeOK'
    BY DEF TxInv
  <1>1. CASE UNCHANGED vars
    BY <1>0, <1>1, CleanKept DEF vars, cache
  <1>2. ASSUME NEW t \in Turns, TurnStep(t) PROVE CleanInv'
    <2>1. ASSUME NEW s \in Sessions, PeekCache(t, s) PROVE CleanInv'
      <3>0. CASE faults # 0
        BY <2>1, <3>0 DEF CleanInv, PeekCache
      <3> SUFFICES ASSUME faults = 0 PROVE CleanInv'
        BY <3>0
      <3>1. /\ period \in Periods /\ rCounter[period] \in Nat
            /\ pgCounter[period] = rCounter[period] + Cardinality(Unmirrored(period))
            /\ Cardinality(Unmirrored(period)) \in Nat
        BY <1>0, <2>1, UnmirroredFinite DEF PeekCache, CleanInv, MirrorExact, TypeOK
      <3>2. /\ pc[t] = "idle" /\ pc'[t] = GateOutcome(period, rCounter[period]) /\ per'[t] = period
            /\ \A u \in Turns \ {t} : pc'[u] = pc[u] /\ per'[u] = per[u]
            /\ faults' = faults /\ UNCHANGED <<stores, rUp, rCounter>>
        BY <1>0, <2>1 DEF PeekCache, TypeOK, HandlersOK, cache
      <3>3. pgCounter[period] <= rCounter[period] + Cardinality(Unmirrored(period))
        BY <3>1
      <3> QED
        BY <1>0, <3>1, <3>2, <3>3, CleanAdmit
    <2>2. ASSUME NEW s \in Sessions, PeekMiss(t, s) PROVE CleanInv'
      BY <1>0, <2>2, CleanKept DEF PeekMiss, TypeOK, HandlersOK, cache
    <2>3. CASE PeekStore(t)
      <3>1. /\ per[t] \in Periods /\ pgCounter[per[t]] \in Nat
            /\ Cardinality(Unmirrored(per[t])) \in Nat
        BY <1>0, <2>3, UnmirroredFinite DEF PeekStore, TypeOK, HandlersOK
      <3>2. /\ pc[t] = "missed" /\ pc'[t] = GateOutcome(per[t], pgCounter[per[t]]) /\ per'[t] = per[t]
            /\ \A u \in Turns \ {t} : pc'[u] = pc[u] /\ per'[u] = per[u]
            /\ faults' = faults /\ UNCHANGED <<stores, rUp, rCounter>>
        BY <1>0, <2>3 DEF PeekStore, TypeOK, HandlersOK, cache
      <3>3. pgCounter[per[t]] <= pgCounter[per[t]] + Cardinality(Unmirrored(per[t]))
        BY <3>1
      <3> QED
        BY <1>0, <3>1, <3>2, <3>3, CleanAdmit
    <2>4. CASE Acknowledge(t) \/ IntakeEscalates(t)
      BY <1>0, <2>4, CleanKept DEF Acknowledge, IntakeEscalates, GoIdle, TypeOK, HandlersOK, cache
    <2>5. CASE InsertSession(t) \/ UpsertCounter(t)
      BY <1>0, <2>5, CleanKept DEF InsertSession, UpsertCounter, TypeOK, HandlersOK, cache
    <2>6. CASE FindCounted(t)
      BY <1>0, <2>6, CleanKept DEF FindCounted, Alerting, GoIdle, TypeOK, HandlersOK, cache
    <2>7. CASE Commit(t)
      BY <2>7, CommitClean
    <2>8. CASE Mirror(t)
      BY <2>8, MirrorClean
    <2>9. ASSUME NEW th \in Thresholds, MarkAlert(t, th) PROVE CleanInv'
      BY <1>0, <2>9, CleanKept DEF MarkAlert, TypeOK, HandlersOK
    <2>10. ASSUME NEW th \in Thresholds, SkipAlert(t, th) \/ SendAlert(t, th) PROVE CleanInv'
      BY <1>0, <2>10, CleanKept
         DEF SkipAlert, SendAlert, Alerting, GoIdle, TypeOK, HandlersOK, cache
    <2> QED
      BY <1>2, <2>1, <2>2, <2>3, <2>4, <2>5, <2>6, <2>7, <2>8, <2>9, <2>10 DEF TurnStep
  <1>3. ASSUME NEW t \in Turns, TurnFails(t) PROVE CleanInv'
    BY <1>0, <1>3 DEF TurnFails, Fault, CleanInv, TypeOK
  <1>4. CASE RedisGoesDown \/ RedisLosesKeys
    BY <1>0, <1>4 DEF RedisGoesDown, RedisLosesKeys, Fault, CleanInv, TypeOK
  <1>5. CASE RedisComesBack
    <2>1. ~rUp /\ faults' = faults
      BY <1>5 DEF RedisComesBack
    <2>2. faults # 0
      BY <2>1 DEF CleanInv, MirrorExact
    <2> QED
      BY <2>1, <2>2 DEF CleanInv
  <1>6. CASE FreeWindowRolls
    BY <1>0, <1>6, CleanKept DEF FreeWindowRolls, cache
  <1> QED
    BY <1>1, <1>2, <1>3, <1>4, <1>5, <1>6 DEF Next, RedisFault

(* Nobody is admitted initially. *)
LEMMA InitCleanInv == Init => CleanInv
  <1> SUFFICES ASSUME Init PROVE MirrorExact /\ AdmissionBound
    BY DEF CleanInv
  <1>1. \A p \in Periods : Unmirrored(p) = {} /\ Admitted(p) = {} /\ pgCounter[p] = 0
    BY DEF Init, Unmirrored, Admitted
  <1>2. Cardinality({}) = 0 /\ Cardinality(Turns) \in Nat
    BY FS_EmptySet, FS_CardinalityType, TurnsAssumption
  <1>3. MirrorExact
    <2> SUFFICES ASSUME NEW p \in Periods
                 PROVE  pgCounter[p] = Cardinality(Unmirrored(p))
                                        + (IF rCounter[p] = Absent THEN 0 ELSE rCounter[p])
      BY DEF MirrorExact, Init
    <2>1. pgCounter[p] = 0 /\ Cardinality(Unmirrored(p)) = 0 /\ rCounter[p] = Absent
      BY <1>1, <1>2 DEF Init
    <2> QED
      BY <2>1
  <1>4. AdmissionBound
    <2> SUFFICES ASSUME NEW p \in Periods \ PaidPeriods
                 PROVE  pgCounter[p] + Cardinality(Admitted(p)) < Cap + Cardinality(Turns)
      BY DEF AdmissionBound
    <2>1. pgCounter[p] = 0 /\ Cardinality(Admitted(p)) = 0
      BY <1>1, <1>2
    <2> QED
      BY <1>2, <2>1, BudgetAssumption
  <1> QED
    BY <1>3, <1>4

(* OvershootBounded: with no fault, the conversations of a Free period      *)
(* exceed its cap by fewer than there are handlers.                         *)
THEOREM OvershootIsBounded == Spec => []OvershootBounded
  <1>1. TypeOK /\ CleanInv => OvershootBounded
    <2> SUFFICES ASSUME TypeOK, CleanInv, faults = 0, NEW p \in Periods \ PaidPeriods
                 PROVE  pgCounter[p] < Cap + Cardinality(Turns)
      BY DEF OvershootBounded
    <2>1. /\ pgCounter[p] + Cardinality(Admitted(p)) < Cap + Cardinality(Turns)
          /\ pgCounter[p] \in Nat /\ Cardinality(Admitted(p)) \in Nat
          /\ Cardinality(Turns) \in Nat
      BY AdmittedFinite DEF CleanInv, AdmissionBound, TypeOK
    <2> QED
      BY <2>1, BudgetAssumption
  <1> QED
    BY <1>1, InitTxInv, StepTxInv, InitCleanInv, StepCleanInv, TypeCorrect, PTL DEF Spec

----------------------------------------------------------------------------
(***************************************************************************)
(* The alerts.  A handler that has counted looks at what its own count     *)
(* calls for; the count only grows, so what it called for stays used up.   *)
(***************************************************************************)

LEMMA DivisionMonotone ==
  ASSUME NEW a \in Nat, NEW b \in Nat, NEW k \in Nat, k > 0, a <= b
  PROVE  a \div k \in Nat /\ a \div k <= b \div k
OBVIOUS

Reached(p, th) == (pgCounter[p] * 100) \div Cap >= th

DueOK(t) ==
    /\ pc[t] \in {"committed", "alert", "sending"} => seen[t] <= pgCounter[per[t]]
    /\ pc[t] \in {"alert", "sending"} => \A th \in due[t] : Reached(per[t], th)

AlertsDueOK == \A t \in Turns : DueOK(t)

(* A handler's step leaves the other handlers' locals alone. *)
LEMMA OthersStay ==
    ASSUME TypeOK, NEW t \in Turns, TurnStep(t) \/ TurnFails(t), NEW u \in Turns \ {t}
    PROVE  UNCHANGED <<pc[u], sess[u], per[u], seen[u], due[u]>>
  <1> USE DEF handlers, TypeOK, HandlersOK
  <1>1. ASSUME NEW s \in Sessions, PeekCache(t, s) \/ PeekMiss(t, s)
        PROVE  UNCHANGED <<pc[u], sess[u], per[u], seen[u], due[u]>>
    BY <1>1 DEF PeekCache, PeekMiss
  <1>2. CASE PeekStore(t) \/ InsertSession(t) \/ UpsertCounter(t) \/ Commit(t)
    BY <1>2 DEF PeekStore, InsertSession, UpsertCounter, Commit
  <1>3. CASE Acknowledge(t) \/ IntakeEscalates(t) \/ TurnFails(t)
    BY <1>3 DEF Acknowledge, IntakeEscalates, TurnFails, GoIdle
  <1>4. CASE FindCounted(t) \/ Mirror(t)
    BY <1>4 DEF FindCounted, Mirror, Alerting, GoIdle
  <1>5. ASSUME NEW th \in Thresholds, MarkAlert(t, th) \/ SkipAlert(t, th) \/ SendAlert(t, th)
        PROVE  UNCHANGED <<pc[u], sess[u], per[u], seen[u], due[u]>>
    BY <1>5 DEF MarkAlert, SkipAlert, SendAlert, Alerting, GoIdle
  <1> QED
    BY <1>1, <1>2, <1>3, <1>4, <1>5 DEF TurnStep

(* A count calls for no alert whose share a greater count does not reach. *)
LEMMA CalledForReached ==
    ASSUME TypeOK, NEW p \in Periods, NEW n \in Nat, n <= pgCounter[p], NEW th \in DueAlerts(p, n)
    PROVE  Reached(p, th)
  <1>1. pgCounter[p] \in Nat /\ th \in Nat
    BY DueAlertsType, AlertAssumption DEF TypeOK
  <1>2. n * 100 \in Nat /\ pgCounter[p] * 100 \in Nat /\ n * 100 <= pgCounter[p] * 100
    BY <1>1
  <1>3. /\ (n * 100) \div Cap \in Nat /\ (pgCounter[p] * 100) \div Cap \in Nat
        /\ (n * 100) \div Cap <= (pgCounter[p] * 100) \div Cap
    BY <1>2, DivisionMonotone, BudgetAssumption
  <1>4. (n * 100) \div Cap >= th
    BY DEF DueAlerts
  <1> QED
    BY <1>1, <1>3, <1>4 DEF Reached

(* What was reached stays reached. *)
LEMMA ReachedStays ==
    ASSUME TxInv, [Next]_vars, NEW p \in Periods, NEW th \in Thresholds, Reached(p, th)
    PROVE  (pgCounter'[p] * 100) \div Cap >= th
  <1>1. pgCounter'[p] >= pgCounter[p] /\ pgCounter[p] \in Nat /\ pgCounter'[p] \in Nat
    BY CounterGrows
  <1>2. /\ pgCounter[p] * 100 \in Nat /\ pgCounter'[p] * 100 \in Nat
        /\ pgCounter[p] * 100 <= pgCounter'[p] * 100
    BY <1>1
  <1>3. /\ (pgCounter[p] * 100) \div Cap \in Nat /\ (pgCounter'[p] * 100) \div Cap \in Nat
        /\ (pgCounter[p] * 100) \div Cap <= (pgCounter'[p] * 100) \div Cap
    BY <1>2, DivisionMonotone, BudgetAssumption
  <1> QED
    BY <1>3, AlertAssumption DEF Reached

(* A handler that looks at nothing new keeps being right. *)
LEMMA DueStays ==
    ASSUME TxInv, [Next]_vars, NEW t \in Turns, DueOK(t),
           pc'[t] \in {"committed", "alert", "sending"} =>
               /\ pc'[t] = pc[t] \/ {pc[t], pc'[t]} \subseteq {"alert", "sending"}
               /\ per'[t] = per[t] /\ seen'[t] = seen[t] /\ due'[t] \subseteq due[t]
    PROVE  DueOK(t)'
  <1>1. TypeOK /\ due[t] \subseteq Thresholds /\ seen[t] \in Nat
    BY DEF TxInv, TypeOK, HandlersOK
  <1>2. CASE pc'[t] \notin {"committed", "alert", "sending"}
    BY <1>2 DEF DueOK
  <1>3. CASE pc'[t] \in {"committed", "alert", "sending"}
    <2>1. pc[t] \in {"committed", "alert", "sending"} /\ per[t] \in Periods /\ per'[t] = per[t]
      BY <1>3, <1>1 DEF TypeOK, HandlersOK
    <2>2. pgCounter'[per[t]] >= pgCounter[per[t]] /\ pgCounter[per[t]] \in Nat /\ pgCounter'[per[t]] \in Nat
      BY <2>1, CounterGrows
    <2>3. seen'[t] <= pgCounter'[per'[t]]
      BY <1>1, <1>3, <2>1, <2>2 DEF DueOK
    <2>4. ASSUME pc'[t] \in {"alert", "sending"}, NEW th \in due'[t]
          PROVE  (pgCounter'[per'[t]] * 100) \div Cap >= th
      <3>1. th \in due[t] /\ pc[t] \in {"alert", "sending"}
        BY <1>3, <2>4
      <3>2. Reached(per[t], th)
        BY <3>1 DEF DueOK
      <3> QED
        BY <3>1, <3>2, <2>1, <1>1, ReachedStays
    <2> QED
      BY <2>3, <2>4 DEF DueOK, Reached
  <1> QED
    BY <1>2, <1>3

(* So does one whose look is at the count it has, or at what is left of it. *)
LEMMA LooksAt ==
    ASSUME TxInv, NEW t \in Turns, UNCHANGED pgCounter, per[t] \in Periods,
           NEW n \in Nat, n <= pgCounter[per[t]], NEW left,
           \A th \in left : Reached(per[t], th), Alerting(t, n, left)
    PROVE  DueOK(t)'
  <1>1. TypeOK
    BY DEF TxInv
  <1>2. CASE left = {}
    BY <1>1, <1>2 DEF Alerting, GoIdle, DueOK, TypeOK, HandlersOK
  <1>3. CASE left # {}
    <2>1. pc'[t] = "alert" /\ seen'[t] = n /\ due'[t] = left /\ per'[t] = per[t]
      BY <1>1, <1>3 DEF Alerting, TypeOK, HandlersOK
    <2> QED
      BY <2>1 DEF DueOK, Reached
  <1> QED
    BY <1>2, <1>3

LEMMA StepAlertsDue == TxInv /\ AlertsDueOK /\ [Next]_vars => AlertsDueOK'
  <1> SUFFICES ASSUME TxInv, AlertsDueOK, [Next]_vars, NEW t \in Turns PROVE DueOK(t)'
    BY DEF AlertsDueOK
  <1> USE DEF handlers
  <1>0. TypeOK /\ DueOK(t)
    BY DEF TxInv, AlertsDueOK
  <1>1. ASSUME UNCHANGED <<pc[t], sess[t], per[t], seen[t], due[t]>> PROVE DueOK(t)'
    BY <1>0, <1>1, DueStays
  <1>2. ASSUME NEW u \in Turns \ {t}, TurnStep(u) \/ TurnFails(u) PROVE DueOK(t)'
    BY <1>0, <1>1, <1>2, OthersStay
  <1>3. CASE TurnStep(t)
    <2>1. ASSUME NEW s \in Sessions, PeekCache(t, s) \/ PeekMiss(t, s) PROVE DueOK(t)'
      BY <1>0, <2>1 DEF PeekCache, PeekMiss, GateOutcome, DueOK, TypeOK, HandlersOK
    <2>2. CASE PeekStore(t) \/ InsertSession(t) \/ UpsertCounter(t)
      BY <1>0, <2>2 DEF PeekStore, GateOutcome, InsertSession, UpsertCounter, DueOK, TypeOK, HandlersOK
    <2>3. CASE Acknowledge(t) \/ IntakeEscalates(t)
      BY <1>0, <2>3 DEF Acknowledge, IntakeEscalates, GoIdle, DueOK, TypeOK, HandlersOK
    <2>4. CASE FindCounted(t)
      <3>1. /\ UNCHANGED pgCounter /\ pc[t] = "gated"
            /\ Alerting(t, pgCounter[per[t]], DueAlerts(per[t], pgCounter[per[t]]))
        BY <2>4 DEF FindCounted, stores
      <3>2. per[t] \in Periods /\ pgCounter[per[t]] \in Nat
        BY <1>0, <3>1 DEF TypeOK, HandlersOK
      <3>3. \A th \in DueAlerts(per[t], pgCounter[per[t]]) : Reached(per[t], th)
        BY <1>0, <3>2, CalledForReached
      <3> QED
        BY <3>1, <3>2, <3>3, LooksAt
    <2>5. CASE Commit(t)
      <3>1. /\ pc'[t] = "committed" /\ per'[t] = per[t] /\ seen'[t] = seen[t] /\ per[t] \in Periods
            /\ pgCounter' = [pgCounter EXCEPT ![per[t]] = seen[t]]
        BY <1>0, <2>5 DEF Commit, TypeOK, HandlersOK
      <3>2. pgCounter'[per[t]] = seen[t] /\ seen[t] \in Nat
        BY <1>0, <3>1 DEF TypeOK, HandlersOK
      <3> QED
        BY <3>1, <3>2 DEF DueOK
    <2>6. CASE Mirror(t)
      <3>1. /\ UNCHANGED pgCounter /\ pc[t] = "committed"
            /\ Alerting(t, seen[t], DueAlerts(per[t], seen[t]))
        BY <2>6 DEF Mirror, stores
      <3>2. per[t] \in Periods /\ seen[t] \in Nat /\ seen[t] <= pgCounter[per[t]]
        BY <1>0, <3>1 DEF TypeOK, HandlersOK, DueOK
      <3>3. \A th \in DueAlerts(per[t], seen[t]) : Reached(per[t], th)
        BY <1>0, <3>2, CalledForReached
      <3> QED
        BY <3>1, <3>2, <3>3, LooksAt
    <2>7. ASSUME NEW th \in Thresholds, MarkAlert(t, th) PROVE DueOK(t)'
      <3>1. /\ pc[t] = "alert" /\ pc'[t] = "sending"
            /\ per'[t] = per[t] /\ seen'[t] = seen[t] /\ due'[t] = due[t]
        BY <1>0, <2>7 DEF MarkAlert, TypeOK, HandlersOK
      <3> QED
        BY <1>0, <3>1, DueStays
    <2>8. ASSUME NEW th \in Thresholds, SkipAlert(t, th) \/ SendAlert(t, th) PROVE DueOK(t)'
      <3>1. /\ UNCHANGED pgCounter /\ pc[t] \in {"alert", "sending"}
            /\ Alerting(t, seen[t], due[t] \ {th})
        BY <2>8 DEF SkipAlert, SendAlert, stores
      <3>2. per[t] \in Periods /\ seen[t] \in Nat /\ seen[t] <= pgCounter[per[t]]
        BY <1>0, <3>1 DEF TypeOK, HandlersOK, DueOK
      <3>3. \A x \in due[t] \ {th} : Reached(per[t], x)
        BY <1>0, <3>1 DEF DueOK
      <3> QED
        BY <3>1, <3>2, <3>3, LooksAt
    <2> QED
      BY <1>3, <2>1, <2>2, <2>3, <2>4, <2>5, <2>6, <2>7, <2>8 DEF TurnStep
  <1>4. CASE TurnFails(t)
    BY <1>0, <1>4 DEF TurnFails, GoIdle, DueOK, TypeOK, HandlersOK
  <1>5. CASE RedisFault \/ FreeWindowRolls \/ UNCHANGED vars
    BY <1>1, <1>5 DEF RedisFault, RedisGoesDown, RedisComesBack, RedisLosesKeys, FreeWindowRolls, vars
  <1> QED
    BY <1>2, <1>3, <1>4, <1>5 DEF Next

(* Only the handler that marked an alert dispatches it. *)
LEMMA OnlySendAlerts ==
    ASSUME [Next]_vars
    PROVE  \/ UNCHANGED alertsSent
           \/ \E t \in Turns, th \in Thresholds : SendAlert(t, th)
  <1>1. ASSUME NEW t \in Turns, TurnStep(t),
               ~(\E th \in Thresholds : SendAlert(t, th))
        PROVE  UNCHANGED alertsSent
    BY <1>1 DEF TurnStep, PeekCache, PeekMiss, PeekStore, Acknowledge, IntakeEscalates,
                InsertSession, FindCounted, UpsertCounter, Commit, Mirror, MarkAlert, SkipAlert
  <1>2. ASSUME NEW t \in Turns, TurnFails(t) PROVE UNCHANGED alertsSent
    BY <1>2 DEF TurnFails
  <1>3. CASE RedisFault \/ FreeWindowRolls \/ UNCHANGED vars
    BY <1>3 DEF RedisFault, RedisGoesDown, RedisComesBack, RedisLosesKeys, FreeWindowRolls, vars
  <1> QED
    BY <1>1, <1>2, <1>3 DEF Next

(* AlertsJustified: an alert says no more than is true, then and later: its *)
(* share of the budget is used, whichever count it was decided on.          *)
THEOREM AlertsAreJustified == Spec => []AlertsJustified
  <1>1. Init => AlertsDueOK /\ AlertsJustified
    BY DEF Init, AlertsDueOK, DueOK, AlertsJustified
  <1>2. TxInv /\ AlertsDueOK /\ AlertsJustified /\ [Next]_vars => AlertsJustified'
    <2> SUFFICES ASSUME TxInv, AlertsDueOK, AlertsJustified, [Next]_vars,
                        NEW p \in Periods, NEW th \in Thresholds, alertsSent'[p][th] > 0
                 PROVE  (pgCounter'[p] * 100) \div Cap >= th
      BY DEF AlertsJustified
    <2>1. ASSUME alertsSent[p][th] > 0 PROVE (pgCounter'[p] * 100) \div Cap >= th
      BY <2>1, ReachedStays DEF AlertsJustified, Reached
    <2>2. ASSUME NEW t \in Turns, NEW x \in Thresholds, SendAlert(t, x), ~(p = per[t] /\ th = x)
          PROVE  alertsSent'[p][th] = alertsSent[p][th]
      BY <2>2 DEF SendAlert, TxInv, TypeOK, HandlersOK
    <2>3. ASSUME NEW t \in Turns, SendAlert(t, th), p = per[t]
          PROVE  (pgCounter'[p] * 100) \div Cap >= th
      <3>1. Reached(p, th)
        BY <2>3 DEF SendAlert, IsNextAlert, AlertsDueOK, DueOK
      <3> QED
        BY <3>1, ReachedStays
    <2> QED
      BY <2>1, <2>2, <2>3, OnlySendAlerts
  <1> QED
    BY <1>1, <1>2, InitTxInv, StepTxInv, StepAlertsDue, PTL DEF Spec

(***************************************************************************)
(* With no fault, Redis answers and keeps its markers.  A marked alert is  *)
(* dispatched or has the one handler that dispatches it; an alert that is  *)
(* called for and not marked has a handler that will look at it.           *)
(***************************************************************************)

Sends(t, p, th) == per[t] = p /\ pc[t] = "sending" /\ IsNextAlert(t, th)

Owes(t, p, th) ==
    /\ per[t] = p
    /\ \/ pc[t] = "committed" /\ th \in DueAlerts(per[t], seen[t])
       \/ pc[t] \in {"alert", "sending"} /\ th \in due[t]

Answered(p, th) ==
    /\ th \in alertMark[p] => alertsSent[p][th] = 1 \/ \E t \in Turns : Sends(t, p, th)
    /\ th \notin alertMark[p] => alertsSent[p][th] = 0 /\ \A t \in Turns : ~Sends(t, p, th)
    /\ \A t \in Turns : Sends(t, p, th) => alertsSent[p][th] = 0
    /\ \A t, u \in Turns : Sends(t, p, th) /\ Sends(u, p, th) => t = u
    /\ th \in DueAlerts(p, pgCounter[p]) => th \in alertMark[p] \/ \E t \in Turns : Owes(t, p, th)

AlertInv == faults = 0 => rUp /\ \A p \in Periods, th \in Thresholds : Answered(p, th)

(* A handler looks at one alert at a time. *)
LEMMA OneNextAlert ==
    ASSUME TypeOK, NEW t \in Turns, NEW x \in Thresholds, NEW y \in Thresholds,
           IsNextAlert(t, x), IsNextAlert(t, y)
    PROVE  x = y
  <1>1. x \in Nat /\ y \in Nat /\ x <= y /\ y <= x
    BY AlertAssumption DEF IsNextAlert
  <1> QED
    BY <1>1

(* A step at which no alert is marked or dispatched, no count commits and   *)
(* the handler gives up no alert that is not marked.                        *)
LEMMA AlertsKept ==
    ASSUME AlertInv, UNCHANGED <<pgCounter, alertMark, alertsSent>>,
           faults' = 0 => faults = 0 /\ rUp' = rUp,
           \A t \in Turns :
             \/ UNCHANGED <<pc[t], per[t], seen[t], due[t]>>
             \/ /\ pc[t] # "sending" /\ pc'[t] # "sending"
                /\ \A p \in Periods, th \in Thresholds :
                     Owes(t, p, th) => Owes(t, p, th)' \/ th \in alertMark[p]
    PROVE  AlertInv'
  <1> SUFFICES ASSUME faults' = 0 PROVE rUp' /\ \A p \in Periods, th \in Thresholds : Answered(p, th)'
    BY DEF AlertInv
  <1>1. rUp' /\ \A p \in Periods, th \in Thresholds : Answered(p, th)
    BY DEF AlertInv
  <1>2. ASSUME NEW p \in Periods, NEW th \in Thresholds PROVE Answered(p, th)'
    <2>1. \A t \in Turns : Sends(t, p, th)' <=> Sends(t, p, th)
      BY DEF Sends, IsNextAlert
    <2>2. \A t \in Turns : Owes(t, p, th) => Owes(t, p, th)' \/ th \in alertMark[p]
      BY DEF Owes
    <2>3. (th \in DueAlerts(p, pgCounter[p]))' <=> th \in DueAlerts(p, pgCounter[p])
      BY DEF DueAlerts
    <2> HIDE DEF Sends, Owes, DueAlerts
    <2> QED
      BY <1>1, <2>1, <2>2, <2>3 DEF Answered
  <1> QED
    BY <1>1, <1>2

LEMMA CommitAlerts ==
    ASSUME TxInv, AlertInv, NEW t \in Turns, Commit(t)
    PROVE  AlertInv'
  <1>0. UNCHANGED <<rUp, faults>>
    BY DEF Commit, cache
  <1> SUFFICES ASSUME faults' = 0, NEW p \in Periods, NEW th \in Thresholds
               PROVE  Answered(p, th)'
    BY <1>0 DEF AlertInv
  <1>1. /\ UNCHANGED <<rUp, alertMark, alertsSent, faults>>
        /\ pc[t] = "upserted" /\ pc'[t] = "committed" /\ pgCounter'[per[t]] = seen[t]
        /\ UNCHANGED <<sess, per, seen, due>> /\ per[t] \in Periods
        /\ \A u \in Turns \ {t} : pc'[u] = pc[u]
        /\ \A q \in Periods \ {per[t]} : pgCounter'[q] = pgCounter[q]
    BY DEF Commit, cache, TxInv, TypeOK, HandlersOK
  <1>2. rUp /\ Answered(p, th)
    BY <1>1 DEF AlertInv
  <1>3. \A u \in Turns : Sends(u, p, th)' <=> Sends(u, p, th)
    BY <1>1 DEF Sends, IsNextAlert
  <1>4. \A u \in Turns : Owes(u, p, th) => Owes(u, p, th)'
    BY <1>1 DEF Owes, DueAlerts
  <1>5. (th \in DueAlerts(p, pgCounter[p]))' => (th \in DueAlerts(p, pgCounter[p])) \/ Owes(t, p, th)'
    BY <1>1 DEF Owes, DueAlerts
  <1> HIDE DEF Sends, Owes, DueAlerts
  <1> QED
    BY <1>1, <1>2, <1>3, <1>4, <1>5 DEF Answered

LEMMA MarkAlerts ==
    ASSUME TxInv, AlertInv, NEW t \in Turns, NEW x \in Thresholds, MarkAlert(t, x)
    PROVE  AlertInv'
  <1>0. UNCHANGED <<rUp, faults>>
    BY DEF MarkAlert, cache
  <1> SUFFICES ASSUME faults' = 0, NEW p \in Periods, NEW th \in Thresholds
               PROVE  Answered(p, th)'
    BY <1>0 DEF AlertInv
  <1>1. /\ UNCHANGED <<rUp, pgCounter, alertsSent, faults, sess, per, seen, due>>
        /\ pc[t] = "alert" /\ pc'[t] = "sending" /\ per[t] \in Periods
        /\ IsNextAlert(t, x) /\ x \notin alertMark[per[t]]
        /\ \A u \in Turns \ {t} : pc'[u] = pc[u]
        /\ \A q \in Periods : alertMark'[q] = IF q = per[t] THEN alertMark[q] \union {x} ELSE alertMark[q]
    BY DEF MarkAlert, stores, TxInv, TypeOK, HandlersOK
  <1>2. rUp /\ Answered(p, th)
    BY <1>1 DEF AlertInv
  <1>3. \A u \in Turns \ {t} : Sends(u, p, th)' <=> Sends(u, p, th)
    BY <1>1 DEF Sends, IsNextAlert
  <1>4. Sends(t, p, th)' <=> p = per[t] /\ th = x
    BY <1>1, OneNextAlert DEF Sends, IsNextAlert, TxInv
  <1>5. ~Sends(t, p, th)
    BY <1>1 DEF Sends
  <1>6. \A u \in Turns : Owes(u, p, th) => Owes(u, p, th)'
    BY <1>1 DEF Owes
  <1>7. (th \in DueAlerts(p, pgCounter[p]))' <=> th \in DueAlerts(p, pgCounter[p])
    BY <1>1 DEF DueAlerts
  <1>8. th \in alertMark'[p] <=> th \in alertMark[p] \/ (p = per[t] /\ th = x)
    BY <1>1
  <1> QED
    BY <1>1, <1>2, <1>3, <1>4, <1>5, <1>6, <1>7, <1>8 DEF Answered

LEMMA SendAlerts ==
    ASSUME TxInv, AlertInv, NEW t \in Turns, NEW x \in Thresholds, SendAlert(t, x)
    PROVE  AlertInv'
  <1>0. UNCHANGED <<rUp, faults>>
    BY DEF SendAlert, cache
  <1> SUFFICES ASSUME faults' = 0, NEW p \in Periods, NEW th \in Thresholds
               PROVE  Answered(p, th)'
    BY <1>0 DEF AlertInv
  <1>1. /\ UNCHANGED <<rUp, pgCounter, alertMark, faults>>
        /\ pc[t] = "sending" /\ per[t] \in Periods /\ IsNextAlert(t, x)
        /\ Alerting(t, seen[t], due[t] \ {x})
    BY DEF SendAlert, stores, cache, TxInv, TypeOK, HandlersOK
  <1>2. alertsSent'[p][th] = IF p = per[t] /\ th = x THEN alertsSent[p][th] + 1 ELSE alertsSent[p][th]
    BY <1>1 DEF SendAlert, TxInv, TypeOK, HandlersOK
  <1>3. rUp /\ Answered(p, th)
    BY <1>1 DEF AlertInv
  <1>4. \A u \in Turns \ {t} : UNCHANGED <<pc[u], per[u], seen[u], due[u]>>
    BY <1>1 DEF Alerting, GoIdle, TxInv, TypeOK, HandlersOK
  <1>5. /\ pc'[t] \in {"idle", "alert"}
        /\ due[t] \ {x} # {} => pc'[t] = "alert" /\ per'[t] = per[t] /\ due'[t] = due[t] \ {x}
    BY <1>1 DEF Alerting, GoIdle, TxInv, TypeOK, HandlersOK
  <1>6. Sends(t, p, th) <=> p = per[t] /\ th = x
    BY <1>1, OneNextAlert DEF Sends, TxInv
  <1>7. ~Sends(t, p, th)' /\ \A u \in Turns \ {t} : Sends(u, p, th)' <=> Sends(u, p, th)
    BY <1>4, <1>5 DEF Sends, IsNextAlert
  <1>8. \A u \in Turns : Owes(u, p, th) => Owes(u, p, th)' \/ (u = t /\ th = x)
    BY <1>1, <1>4, <1>5 DEF Owes
  <1>9. (th \in DueAlerts(p, pgCounter[p]))' <=> th \in DueAlerts(p, pgCounter[p])
    BY <1>1 DEF DueAlerts
  <1>10. \A u \in Turns : Owes(u, p, th) => Owes(u, p, th)' \/ th \in alertMark[p]
    <2>1. ASSUME NEW u \in Turns, Owes(u, p, th), ~Owes(u, p, th)' PROVE th \in alertMark[p]
      <3>1. u = t /\ th = x /\ p = per[t]
        BY <2>1, <1>8 DEF Owes
      <3> QED
        BY <3>1, <1>3, <1>6 DEF Answered
    <2> QED
      BY <2>1
  <1> QED
    BY <1>1, <1>2, <1>3, <1>6, <1>7, <1>9, <1>10 DEF Answered

LEMMA StepAlertInv == TxInv /\ AlertInv /\ [Next]_vars => AlertInv'
  <1> SUFFICES ASSUME TxInv, AlertInv, [Next]_vars PROVE AlertInv'
    OBVIOUS
  <1> USE DEF stores, cache, handlers
  <1>0. TypeOK
    BY DEF TxInv
  <1>1. ASSUME NEW t \in Turns, TurnStep(t) PROVE AlertInv'
    <2>1. \A u \in Turns \ {t} : UNCHANGED <<pc[u], per[u], seen[u], due[u]>>
      BY <1>0, <1>1, OthersStay
    <2>2. ASSUME UNCHANGED <<pgCounter, alertMark, alertsSent, faults, rUp>>,
                 pc[t] \notin {"committed", "alert", "sending"}, pc'[t] # "sending"
          PROVE  AlertInv'
      BY <2>1, <2>2, AlertsKept DEF Owes
    <2>3. ASSUME NEW s \in Sessions, PeekCache(t, s) \/ PeekMiss(t, s) PROVE AlertInv'
      BY <1>0, <2>2, <2>3 DEF PeekCache, PeekMiss, GateOutcome, TypeOK, HandlersOK
    <2>4. CASE PeekStore(t) \/ InsertSession(t) \/ UpsertCounter(t)
      BY <1>0, <2>2, <2>4 DEF PeekStore, GateOutcome, InsertSession, UpsertCounter, TypeOK, HandlersOK
    <2>5. CASE Acknowledge(t) \/ IntakeEscalates(t)
      BY <1>0, <2>2, <2>5 DEF Acknowledge, IntakeEscalates, GoIdle, TypeOK, HandlersOK
    <2>6. CASE FindCounted(t)
      BY <1>0, <2>2, <2>6 DEF FindCounted, Alerting, GoIdle, TypeOK, HandlersOK
    <2>7. CASE Commit(t)
      BY <2>7, CommitAlerts
    <2>8. CASE Mirror(t)
      <3>1. /\ UNCHANGED <<pgCounter, alertMark, alertsSent, faults, rUp>> /\ pc[t] = "committed"
            /\ Alerting(t, seen[t], DueAlerts(per[t], seen[t]))
        BY <2>8 DEF Mirror
      <3>2. /\ pc'[t] \in {"idle", "alert"}
            /\ DueAlerts(per[t], seen[t]) # {} =>
                 pc'[t] = "alert" /\ per'[t] = per[t] /\ due'[t] = DueAlerts(per[t], seen[t])
        BY <1>0, <3>1 DEF Alerting, GoIdle, TypeOK, HandlersOK
      <3>3. \A p \in Periods, th \in Thresholds : Owes(t, p, th) => Owes(t, p, th)'
        BY <3>1, <3>2 DEF Owes
      <3> QED
        BY <2>1, <3>1, <3>2, <3>3, AlertsKept
    <2>9. ASSUME NEW th \in Thresholds, MarkAlert(t, th) PROVE AlertInv'
      BY <2>9, MarkAlerts
    <2>10. ASSUME NEW th \in Thresholds, SkipAlert(t, th) PROVE AlertInv'
      <3>1. /\ UNCHANGED <<pgCounter, alertMark, alertsSent, faults, rUp>> /\ pc[t] = "alert"
            /\ ~rUp \/ th \in alertMark[per[t]]
            /\ Alerting(t, seen[t], due[t] \ {th})
        BY <2>10 DEF SkipAlert
      <3>2. /\ pc'[t] \in {"idle", "alert"}
            /\ due[t] \ {th} # {} =>
                 pc'[t] = "alert" /\ per'[t] = per[t] /\ due'[t] = due[t] \ {th}
        BY <1>0, <3>1 DEF Alerting, GoIdle, TypeOK, HandlersOK
      <3>3. CASE faults = 0
        <4>1. th \in alertMark[per[t]]
          BY <3>1, <3>3 DEF AlertInv
        <4>2. \A p \in Periods, x \in Thresholds :
                Owes(t, p, x) => Owes(t, p, x)' \/ x \in alertMark[p]
          BY <3>1, <3>2, <4>1 DEF Owes
        <4> QED
          BY <2>1, <3>1, <3>2, <4>2, AlertsKept
      <3>4. CASE faults # 0
        BY <3>1, <3>4 DEF AlertInv
      <3> QED
        BY <3>3, <3>4
    <2>11. ASSUME NEW th \in Thresholds, SendAlert(t, th) PROVE AlertInv'
      BY <2>11, SendAlerts
    <2> QED
      BY <1>1, <2>3, <2>4, <2>5, <2>6, <2>7, <2>8, <2>9, <2>10, <2>11 DEF TurnStep
  <1>2. ASSUME Fault PROVE AlertInv'
    BY <1>0, <1>2 DEF Fault, AlertInv, TypeOK
  <1>3. CASE \E t \in Turns : TurnFails(t)
    BY <1>2, <1>3 DEF TurnFails
  <1>4. CASE RedisGoesDown \/ RedisLosesKeys
    BY <1>2, <1>4 DEF RedisGoesDown, RedisLosesKeys
  <1>5. CASE RedisComesBack
    BY <1>5 DEF RedisComesBack, AlertInv
  <1>6. CASE FreeWindowRolls \/ UNCHANGED vars
    BY <1>6, AlertsKept DEF FreeWindowRolls, vars
  <1> QED
    BY <1>1, <1>3, <1>4, <1>5, <1>6 DEF Next, RedisFault

LEMMA InitAlertInv == Init => AlertInv
  <1> SUFFICES ASSUME Init, NEW p \in Periods, NEW th \in Thresholds PROVE rUp /\ Answered(p, th)
    BY DEF AlertInv, Init
  <1>1. pgCounter[p] = 0 /\ alertMark[p] = {} /\ alertsSent[p][th] = 0 /\ rUp
    BY DEF Init
  <1>2. \A t \in Turns : pc[t] = "idle"
    BY DEF Init
  <1>3. th \notin DueAlerts(p, 0)
    <2>1. th \in Nat /\ th > 0 /\ (0 * 100) \div Cap = 0
      BY AlertAssumption, BudgetAssumption
    <2> QED
      BY <2>1 DEF DueAlerts
  <1> QED
    BY <1>1, <1>2, <1>3 DEF Answered, Sends

LEMMA AlertInvariant == Spec => [](TypeOK /\ AlertInv)
  BY InitTxInv, StepTxInv, InitAlertInv, StepAlertInv, TypeCorrect, PTL DEF Spec

(* AlertsOnce: with no fault an alert is dispatched at most once, however   *)
(* many handlers see its threshold crossed.                                 *)
THEOREM AlertsAtMostOnce == Spec => []AlertsOnce
  <1>1. TypeOK /\ AlertInv => AlertsOnce
    <2> SUFFICES ASSUME AlertInv, faults = 0, NEW p \in Periods, NEW th \in Thresholds
                 PROVE  alertsSent[p][th] <= 1
      BY DEF AlertsOnce
    <2>1. alertsSent[p][th] \in {0, 1}
      BY DEF AlertInv, Answered
    <2> QED
      BY <2>1
  <1> QED
    BY <1>1, AlertInvariant, PTL

(* AlertsComplete: with no fault, when no handler is in the metering code   *)
(* every alert that the count calls for has been dispatched.                *)
THEOREM AlertsAreComplete == Spec => []AlertsComplete
  <1>1. TypeOK /\ AlertInv => AlertsComplete
    <2> SUFFICES ASSUME TypeOK, AlertInv, faults = 0, \A t \in Turns : pc[t] = "idle",
                        NEW p \in Periods, NEW th \in DueAlerts(p, pgCounter[p])
                 PROVE  alertsSent[p][th] = 1
      BY DEF AlertsComplete
    <2>1. th \in Thresholds
      BY DueAlertsType
    <2>2. \A t \in Turns : ~Owes(t, p, th) /\ ~Sends(t, p, th)
      BY DEF Owes, Sends
    <2> QED
      BY <2>1, <2>2 DEF AlertInv, Answered
  <1> QED
    BY <1>1, AlertInvariant, PTL

-----------------------------------------------------------------------------
(* The webhook handlers *)

(* The meter, seen from a webhook: the invariants its proofs stand on. *)
MeterInv == TxInv /\ CacheInv

HooksOK ==
    /\ hpc     \in [Hooks -> {"idle", "read", "reported", "closed"}]
    /\ hevent  \in [Hooks -> {NoEvent} \union {Paid(n) : n \in Periods}]
    /\ closing \in [Hooks -> Periods \union {NoPeriod}]
    /\ used    \in [Hooks -> Nat]
    /\ \A h \in Hooks : hpc[h] # "idle" =>
            closing[h] \in Periods /\ hevent[h] \in {Paid(n) : n \in Periods}

BooksOK ==
    /\ cycle     \in Periods
    /\ lastEvent \in {NoEvent} \union {Paid(n) : n \in Periods} \union {Updated(n) : n \in Periods}
    /\ ledger    \in [Periods -> Nat \union {Absent}]
    /\ closedBy  \in [Periods -> {NoEvent} \union {Paid(n) : n \in Periods}]
    /\ reported  \subseteq [event : {Paid(n) : n \in Periods}, period : Periods, units : Nat]
    /\ rolledBack \subseteq reported

(* What a handler is about to bill was used. *)
ReadsCovered == \A h \in Hooks : hpc[h] # "idle" => used[h] <= pgCounter[closing[h]]

(* The audit row and the ledger row of a close are one commit. *)
BookedTogether == \A p \in Periods : ledger[p] = Absent => closedBy[p] = NoEvent

CInv ==
    /\ MeterInv /\ HooksOK /\ BooksOK /\ ReadsCovered /\ ClaimsAreCounted
    /\ BookedTogether /\ OneCloseStands

----------------------------------------------------------------------------
(* app/billing/overage.py *)

(* Any usage has its units, and more usage is never fewer units. *)
LEMMA UnitsMonotone ==
  ASSUME NEW m \in Nat, NEW n \in Nat, m <= n
  PROVE  OverageUnits(m) \in Nat /\ OverageUnits(m) <= OverageUnits(n)
<1>1. UnitSize - 1 \in Nat /\ UnitSize \in Nat /\ UnitSize > 0 /\ Cap \in Nat
  BY HookAssumption, BudgetAssumption
<1>2. /\ OverageCount(m) + UnitSize - 1 \in Nat /\ OverageCount(n) + UnitSize - 1 \in Nat
      /\ OverageCount(m) + UnitSize - 1 <= OverageCount(n) + UnitSize - 1
  BY <1>1 DEF OverageCount
<1> QED BY <1>1, <1>2, DivisionMonotone DEF OverageUnits

----------------------------------------------------------------------------
(* The steps of Stripe and of the handlers leave the turns and Postgres     *)
(* alone; the Redis counter they may only drop.                             *)
HookLeavesMeter ==
    /\ UNCHANGED <<stores, rUp, alertMark, handlers, alertsSent>>
    /\ \A p \in Periods : rCounter'[p] \in {rCounter[p], Absent}
    /\ rCounter' \in [Periods -> Nat \union {Absent}]
    /\ period' \in Periods
    /\ faults' \in 0..MaxFaults

LEMMA HookStepLeavesMeter ==
  ASSUME MeterInv, HooksOK, Renew \/ \E h \in Hooks : HookStep(h)
  PROVE  HookLeavesMeter
<1> USE DEF MeterInv, TxInv
<1>0. /\ rCounter \in [Periods -> Nat \union {Absent}] /\ period \in Periods
      /\ faults \in 0..MaxFaults
  BY DEF TypeOK
<1>1. CASE UNCHANGED vars
  BY <1>0, <1>1 DEF HookLeavesMeter, vars, cache
<1>2. ASSUME NEW h \in Hooks, NEW n \in Periods, SubscriptionUpdated(h, n)
      PROVE  HookLeavesMeter
  BY <1>0, <1>2 DEF SubscriptionUpdated, HookLeavesMeter, cache
<1>3. ASSUME NEW h \in Hooks, ReportFails(h) \/ HookFails(h) PROVE HookLeavesMeter
  <2>1. faults' \in 0..MaxFaults
    BY <1>0, <1>3, BoundAssumption DEF ReportFails, HookFails, Fault
  <2> QED BY <1>0, <1>3, <2>1 DEF ReportFails, HookFails, HookLeavesMeter, cache
<1>4. ASSUME NEW h \in Hooks, CommitClose(h) PROVE HookLeavesMeter
  <2>1. hevent[h].cycle \in Periods
    BY <1>4 DEF CommitClose, HooksOK, Paid
  <2> QED BY <1>0, <1>4, <2>1 DEF CommitClose, HookLeavesMeter, cache
<1>5. ASSUME NEW h \in Hooks, ResetCounter(h) PROVE HookLeavesMeter
  BY <1>0, <1>5 DEF ResetCounter, HookLeavesMeter
<1>6. ASSUME Renew \/ (\E h \in Hooks : \/ \E n \in Periods : ReadUsage(h, n)
                                        \/ ReportUsage(h) \/ CommitRefused(h))
      PROVE  UNCHANGED vars
  BY <1>6 DEF Renew, ReadUsage, ReportUsage, CommitRefused
<1> QED BY <1>1, <1>2, <1>3, <1>4, <1>5, <1>6 DEF HookStep

LEMMA HookKeepsMeter == ASSUME MeterInv, HookLeavesMeter PROVE MeterInv'
<1>1. TypeOK /\ LocksExclude /\ ReadsStillTrue /\ CacheInv
  BY DEF MeterInv, TxInv
<1>2. TypeOK'
  BY <1>1 DEF HookLeavesMeter, TypeOK, HandlersOK, stores, handlers
<1>3. LocksExclude' /\ ReadsStillTrue'
  BY <1>1, LocksKept DEF HookLeavesMeter, handlers
<1>4. CacheInv'
  BY <1>1, <1>2, CacheKept DEF HookLeavesMeter, handlers
<1> QED BY <1>2, <1>3, <1>4 DEF MeterInv, TxInv

(* A step of the composition is a step of the meter or leaves it alone. *)
LEMMA StepMeter ==
  ASSUME MeterInv, HooksOK, [CNext]_allVars
  PROVE  MeterInv' /\ \A p \in Periods : pgCounter[p] <= pgCounter'[p]
<1>0. TypeOK /\ pgCounter \in [Periods -> Nat]
  BY DEF MeterInv, TxInv, TypeOK
<1>1. CASE MeterStep \/ UNCHANGED allVars
  <2>1. [Next]_vars
    BY <1>1 DEF MeterStep, Next, allVars
  <2>2. MeterInv'
    BY <2>1, StepTxInv, StepCacheInv DEF MeterInv
  <2> QED BY <2>1, <2>2, CounterGrows DEF MeterInv
<1>2. CASE Renew \/ \E h \in Hooks : HookStep(h)
  <2>1. HookLeavesMeter
    BY <1>2, HookStepLeavesMeter
  <2> QED BY <1>0, <2>1, HookKeepsMeter DEF HookLeavesMeter, stores
<1> QED BY <1>1, <1>2 DEF CNext

----------------------------------------------------------------------------
(* What was read, billed and booked under a smaller counter stays covered. *)
LEMMA StaysCovered ==
  ASSUME CInv, \A p \in Periods : pgCounter[p] <= pgCounter'[p],
         pgCounter' \in [Periods -> Nat], UNCHANGED <<ledger, reported>>
  PROVE  ClaimsAreCounted'
<1>0. BooksOK /\ ClaimsAreCounted /\ pgCounter \in [Periods -> Nat]
  BY DEF CInv, MeterInv, TxInv, TypeOK
<1>1. ASSUME NEW p \in Periods PROVE ledger'[p] <= pgCounter'[p]
  <2>1. ledger[p] \in Int /\ pgCounter[p] \in Int /\ pgCounter'[p] \in Int
    BY <1>0 DEF BooksOK, Absent
  <2> QED BY <1>0, <2>1 DEF ClaimsAreCounted
<1>2. ASSUME NEW r \in reported' PROVE r.units <= OverageUnits(pgCounter[r.period])'
  <2>1. r \in reported /\ r.period \in Periods /\ r.units \in Nat
    BY <1>0, <1>2 DEF BooksOK
  <2>2. r.units <= OverageUnits(pgCounter[r.period])
    BY <1>0, <2>1 DEF ClaimsAreCounted
  <2>3. /\ OverageUnits(pgCounter[r.period]) \in Nat /\ OverageUnits(pgCounter'[r.period]) \in Nat
        /\ OverageUnits(pgCounter[r.period]) <= OverageUnits(pgCounter'[r.period])
    BY <1>0, <2>1, UnitsMonotone
  <2>4. OverageUnits(pgCounter[r.period])' = OverageUnits(pgCounter'[r.period])
    BY DEF OverageUnits, OverageCount
  <2> QED BY <2>1, <2>2, <2>3, <2>4
<1> QED BY <1>1, <1>2 DEF ClaimsAreCounted

LEMMA StaysRead ==
  ASSUME CInv, \A p \in Periods : pgCounter[p] <= pgCounter'[p],
         pgCounter' \in [Periods -> Nat],
         \A h \in Hooks : hpc'[h] # "idle" =>
            hpc[h] # "idle" /\ closing'[h] = closing[h] /\ used'[h] = used[h]
  PROVE  ReadsCovered'
<1> SUFFICES ASSUME NEW h \in Hooks, hpc'[h] # "idle" PROVE used'[h] <= pgCounter'[closing'[h]]
  BY DEF ReadsCovered
<1>1. closing[h] \in Periods /\ used[h] \in Nat /\ pgCounter \in [Periods -> Nat]
  BY DEF CInv, HooksOK, MeterInv, TxInv, TypeOK
<1>2. used[h] <= pgCounter[closing[h]]
  BY DEF CInv, ReadsCovered
<1>3. pgCounter[closing[h]] <= pgCounter'[closing[h]]
  BY <1>1
<1>4. pgCounter[closing[h]] \in Nat /\ pgCounter'[closing[h]] \in Nat
  BY <1>1
<1> QED BY <1>1, <1>2, <1>3, <1>4

(* A handler that is done forgets its event. *)
LEMMA IdleHooksOK ==
  ASSUME HooksOK, NEW h \in Hooks, HookIdle(h)
  PROVE  /\ HooksOK'
         /\ \A g \in Hooks : hpc'[g] # "idle" =>
              hpc[g] # "idle" /\ closing'[g] = closing[g] /\ used'[g] = used[g]
BY DEF HookIdle, HooksOK

(* What the cache answers for a period has been used. *)
LEMMA CachedIsUsed ==
  ASSUME MeterInv, NEW p \in Periods
  PROVE  CachedCount(p) \in Nat /\ CachedCount(p) <= pgCounter[p]
<1>1. /\ Cardinality(Unmirrored(p)) \in Nat /\ pgCounter[p] \in Nat
      /\ rCounter[p] \in Nat \union {Absent}
      /\ rCounter[p] + Cardinality(Unmirrored(p)) <= pgCounter[p]
  BY UnmirroredFinite DEF MeterInv, TxInv, TypeOK, CacheInv
<1>2. CASE rUp /\ rCounter[p] # Absent
  <2>1. CachedCount(p) = rCounter[p] /\ rCounter[p] \in Nat
    BY <1>1, <1>2 DEF CachedCount
  <2> QED BY <1>1, <2>1
<1>3. CASE ~(rUp /\ rCounter[p] # Absent)
  <2>1. CachedCount(p) = 0
    BY <1>3 DEF CachedCount
  <2> QED BY <1>1, <2>1
<1> QED BY <1>2, <1>3

(* A report stays accounted for while the books stand and no handler that   *)
(* has reported moves on.                                                   *)
LEMMA StaysAccounted ==
  ASSUME CInv, UNCHANGED <<closedBy, reported>>, rolledBack \subseteq rolledBack',
         \A h \in Hooks : hpc[h] = "reported" =>
            hpc'[h] = "reported" /\ hevent'[h] = hevent[h] /\ closing'[h] = closing[h]
  PROVE  OneCloseStands'
<1> SUFFICES ASSUME NEW r \in reported,
                    r.event # closedBy[r.period], r \notin rolledBack'
             PROVE  \E h \in Hooks : hpc'[h] = "reported" /\ r \in ReportsOf(Close(h))'
  BY DEF OneCloseStands
<1>1. PICK h \in Hooks : hpc[h] = "reported" /\ r \in ReportsOf(Close(h))
  BY DEF CInv, OneCloseStands
<1>2. hpc'[h] = "reported" /\ r \in ReportsOf(Close(h))'
  BY <1>1 DEF ReportsOf, Close
<1> QED BY <1>2

Kept == HooksOK' /\ BooksOK' /\ ReadsCovered' /\ ClaimsAreCounted' /\ BookedTogether' /\ OneCloseStands'

LEMMA StepCInv == CInv /\ [CNext]_allVars => CInv'
<1> SUFFICES ASSUME CInv, [CNext]_allVars PROVE CInv'
  OBVIOUS
<1>0. /\ MeterInv /\ HooksOK /\ BooksOK /\ ReadsCovered /\ ClaimsAreCounted
      /\ BookedTogether /\ OneCloseStands
  BY DEF CInv
<1>1. MeterInv' /\ \A p \in Periods : pgCounter[p] <= pgCounter'[p]
  BY <1>0, StepMeter
<1>2. pgCounter \in [Periods -> Nat] /\ pgCounter' \in [Periods -> Nat] /\ period \in Periods
  BY <1>0, <1>1 DEF MeterInv, TxInv, TypeOK
<1>3. ASSUME UNCHANGED <<ledger, closedBy, reported>>, HooksOK', BooksOK', OneCloseStands',
             \A h \in Hooks : hpc'[h] # "idle" =>
                hpc[h] # "idle" /\ closing'[h] = closing[h] /\ used'[h] = used[h]
      PROVE  Kept
  BY <1>0, <1>1, <1>2, <1>3, StaysCovered, StaysRead DEF Kept, BookedTogether
<1>4. ASSUME MeterStep \/ UNCHANGED allVars PROVE Kept
  <2>1. UNCHANGED cycleVars
    BY <1>4 DEF MeterStep, allVars
  <2>2. HooksOK' /\ BooksOK'
    BY <1>0, <2>1 DEF cycleVars, hooks, books, HooksOK, BooksOK
  <2>3. OneCloseStands'
    BY <2>1, StaysAccounted DEF cycleVars, hooks, books
  <2> QED BY <1>3, <2>1, <2>2, <2>3 DEF cycleVars, hooks, books
<1>5. ASSUME Renew PROVE Kept
  <2>1. /\ UNCHANGED <<lastEvent, ledger, closedBy, reported, hooks, rolledBack>>
        /\ cycle' = cycle + 1 /\ cycle < LastPeriod
    BY <1>5 DEF Renew, books
  <2>2. cycle' \in Periods
    BY <1>0, <2>1, BoundAssumption DEF BooksOK, Periods
  <2>3. HooksOK' /\ BooksOK'
    BY <1>0, <2>1, <2>2 DEF hooks, HooksOK, BooksOK
  <2>4. OneCloseStands'
    BY <2>1, StaysAccounted DEF hooks
  <2> QED BY <1>3, <2>1, <2>3, <2>4 DEF hooks
<1>6. ASSUME NEW h \in Hooks, NEW n \in Periods, SubscriptionUpdated(h, n) PROVE Kept
  <2>1. UNCHANGED <<cycle, ledger, closedBy, reported, hooks, rolledBack>> /\ lastEvent' = Updated(n)
    BY <1>6 DEF SubscriptionUpdated, books
  <2>2. HooksOK' /\ BooksOK'
    BY <1>0, <2>1 DEF hooks, HooksOK, BooksOK
  <2>3. OneCloseStands'
    BY <2>1, StaysAccounted DEF hooks
  <2> QED BY <1>3, <2>1, <2>2, <2>3 DEF hooks
<1>7. ASSUME NEW h \in Hooks, NEW n \in Periods, ReadUsage(h, n) PROVE Kept
  <2>1. CachedCount(period) \in Nat /\ CachedCount(period) <= pgCounter[period]
    BY <1>0, <1>2, CachedIsUsed
  <2>2. UNCHANGED <<cycle, lastEvent, ledger, closedBy, reported, rolledBack>> /\ pgCounter' = pgCounter
    BY <1>7 DEF ReadUsage, vars, stores, books
  <2>3. /\ hpc'     = [hpc     EXCEPT ![h] = "read"]
        /\ hevent'  = [hevent  EXCEPT ![h] = Paid(n)]
        /\ closing' = [closing EXCEPT ![h] = period]
        /\ used'    = [used    EXCEPT ![h] = CachedCount(period)]
    BY <1>7 DEF ReadUsage
  <2>4. HooksOK'
    BY <1>0, <1>2, <2>1, <2>3 DEF HooksOK
  <2>5. BooksOK'
    BY <1>0, <2>2 DEF BooksOK
  <2>6. ReadsCovered'
    <3> SUFFICES ASSUME NEW g \in Hooks, hpc'[g] # "idle"
                 PROVE  used'[g] <= pgCounter'[closing'[g]]
      BY DEF ReadsCovered
    <3>1. CASE g = h
      BY <1>0, <2>1, <2>2, <2>3, <3>1 DEF HooksOK
    <3>2. CASE g # h
      BY <1>0, <2>2, <2>3, <3>2 DEF HooksOK, ReadsCovered
    <3> QED BY <3>1, <3>2
  <2>7. ClaimsAreCounted'
    BY <1>1, <1>2, <2>2, StaysCovered
  <2>8. OneCloseStands'
    BY <1>0, <1>7, <2>2, <2>3, StaysAccounted DEF ReadUsage, HooksOK
  <2> QED BY <1>0, <2>2, <2>4, <2>5, <2>6, <2>7, <2>8 DEF Kept, BookedTogether
<1>8. ASSUME NEW h \in Hooks, ReportUsage(h) PROVE Kept
  <2>1. /\ hpc[h] = "read" /\ hpc' = [hpc EXCEPT ![h] = "reported"]
        /\ UNCHANGED <<vars, cycle, lastEvent, ledger, closedBy, hevent, closing, used, rolledBack>>
    BY <1>8 DEF ReportUsage, books
  <2>2. HooksOK'
    BY <1>0, <2>1 DEF HooksOK
  <2>3. ReadsCovered'
    BY <1>0, <1>1, <1>2, <2>1, StaysRead DEF HooksOK
  <2> DEFINE r == [event |-> hevent[h], period |-> closing[h], units |-> OverageUnits(used[h])]
  <2>4. reported \subseteq reported' /\ reported' \subseteq reported \union {r}
    BY <1>8 DEF ReportUsage
  <2>5. /\ closing[h] \in Periods /\ used[h] \in Nat
        /\ hevent[h] \in {Paid(n) : n \in Periods}
        /\ used[h] <= pgCounter[closing[h]]
    BY <1>0, <2>1 DEF HooksOK, ReadsCovered
  <2>6. OverageUnits(used[h]) \in Nat /\ OverageUnits(used[h]) <= OverageUnits(pgCounter[closing[h]])
    BY <1>2, <2>5, UnitsMonotone
  <2>7. r \in [event : {Paid(n) : n \in Periods}, period : Periods, units : Nat]
    BY <2>5, <2>6
  <2>8. BooksOK'
    BY <1>0, <2>1, <2>4, <2>7 DEF BooksOK
  <2>9. pgCounter' = pgCounter
    BY <2>1 DEF vars, stores
  <2>10. ClaimsAreCounted'
    <3>1. ASSUME NEW x \in reported' PROVE x.units <= OverageUnits(pgCounter'[x.period])
      BY <1>0, <2>4, <2>6, <2>9, <3>1 DEF ClaimsAreCounted
    <3>2. \A p \in Periods : ledger'[p] <= pgCounter'[p]
      BY <1>0, <2>1, <2>9 DEF ClaimsAreCounted
    <3>3. \A n : OverageUnits(n)' = OverageUnits(n')
      BY DEF OverageUnits, OverageCount
    <3> QED BY <3>1, <3>2, <3>3 DEF ClaimsAreCounted, OverageUnits, OverageCount
  <2>11. OneCloseStands'
    <3> SUFFICES ASSUME NEW x \in reported', x.event # closedBy[x.period], x \notin rolledBack
                 PROVE  \E g \in Hooks : hpc'[g] = "reported" /\ x \in ReportsOf(Close(g))'
      BY <2>1 DEF OneCloseStands
    <3>1. CASE x \in reported
      <4>1. PICK g \in Hooks : hpc[g] = "reported" /\ x \in ReportsOf(Close(g))
        BY <1>0, <3>1 DEF OneCloseStands
      <4>2. hpc'[g] = "reported" /\ x \in ReportsOf(Close(g))'
        BY <1>0, <2>1, <4>1 DEF ReportsOf, Close, HooksOK
      <4> QED BY <4>2
    <3>2. CASE x \notin reported
      <4>1. x = r /\ x.event = hevent'[h] /\ x.period = closing'[h]
        BY <2>1, <2>4, <3>2
      <4>2. hpc'[h] = "reported"
        BY <1>0, <2>1 DEF HooksOK
      <4>3. x \in ReportsOf(Close(h))'
        BY <4>1 DEF ReportsOf, Close
      <4> QED BY <4>2, <4>3
    <3> QED BY <3>1, <3>2
  <2> QED BY <1>0, <2>1, <2>2, <2>3, <2>8, <2>10, <2>11 DEF Kept, BookedTogether
<1>9. ASSUME NEW h \in Hooks, ReportFails(h) PROVE Kept
  <2>1. /\ hpc[h] = "read" /\ hpc' = [hpc EXCEPT ![h] = "reported"]
        /\ UNCHANGED <<cycle, lastEvent, ledger, closedBy, reported, hevent, closing, used, rolledBack>>
    BY <1>9 DEF ReportFails, books
  <2>2. HooksOK' /\ BooksOK'
    BY <1>0, <2>1 DEF HooksOK, BooksOK
  <2>3. OneCloseStands'
    BY <1>0, <2>1, StaysAccounted DEF HooksOK
  <2> QED BY <1>0, <1>3, <2>1, <2>2, <2>3 DEF HooksOK
<1>10. ASSUME NEW h \in Hooks, CommitClose(h) PROVE Kept
  <2>1. /\ hpc[h] = "reported" /\ hpc' = [hpc EXCEPT ![h] = "closed"]
        /\ ledger[closing[h]] = Absent
        /\ ledger' = [ledger EXCEPT ![closing[h]] = used[h]] /\ lastEvent' = hevent[h]
        /\ closedBy' = [closedBy EXCEPT ![closing[h]] = hevent[h]]
        /\ UNCHANGED <<stores, cycle, reported, hevent, closing, used, rolledBack>>
    BY <1>10 DEF CommitClose
  <2>2. /\ closing[h] \in Periods /\ used[h] \in Nat
        /\ hevent[h] \in {Paid(n) : n \in Periods}
        /\ used[h] <= pgCounter[closing[h]]
    BY <1>0, <2>1 DEF HooksOK, ReadsCovered
  <2>3. HooksOK' /\ BooksOK'
    BY <1>0, <2>1, <2>2 DEF HooksOK, BooksOK
  <2>4. ReadsCovered'
    BY <1>0, <1>1, <1>2, <2>1, StaysRead DEF HooksOK
  <2>5. pgCounter' = pgCounter
    BY <2>1 DEF stores
  <2>6. \A p \in Periods : ledger'[p] <= pgCounter'[p]
    BY <1>0, <2>1, <2>2, <2>5 DEF ClaimsAreCounted, BooksOK
  <2>7. ClaimsAreCounted'
    BY <1>0, <2>1, <2>5, <2>6 DEF ClaimsAreCounted, OverageUnits, OverageCount
  <2>8. BookedTogether'
    BY <1>0, <2>1, <2>2 DEF BookedTogether, BooksOK, Absent
  <2>9. OneCloseStands'
    <3> SUFFICES ASSUME NEW x \in reported, x.event # closedBy'[x.period], x \notin rolledBack
                 PROVE  \E g \in Hooks : hpc'[g] = "reported" /\ x \in ReportsOf(Close(g))'
      BY <2>1 DEF OneCloseStands
    <3>1. x.period \in Periods /\ x.event # NoEvent
      BY <1>0 DEF BooksOK, NoEvent, Paid
    <3>2. x.event # closedBy[x.period]
      BY <1>0, <2>1, <2>2, <3>1 DEF BookedTogether, BooksOK
    <3>3. PICK g \in Hooks : hpc[g] = "reported" /\ x \in ReportsOf(Close(g))
      BY <1>0, <3>2 DEF OneCloseStands
    <3>4. g # h
      BY <1>0, <2>1, <2>2, <3>3 DEF ReportsOf, Close, BooksOK
    <3>5. hpc'[g] = "reported" /\ x \in ReportsOf(Close(g))'
      BY <1>0, <2>1, <3>3, <3>4 DEF ReportsOf, Close, HooksOK
    <3> QED BY <3>5
  <2> QED BY <2>3, <2>4, <2>7, <2>8, <2>9 DEF Kept
<1>11. ASSUME NEW h \in Hooks, CommitRefused(h) \/ ResetCounter(h) \/ HookFails(h) PROVE Kept
  <2>1. /\ HookIdle(h) /\ UNCHANGED <<cycle, lastEvent, ledger, closedBy, reported>>
        /\ rolledBack \subseteq rolledBack' /\ rolledBack' \subseteq reported
        /\ hpc[h] = "reported" => ReportsOf(Close(h)) \subseteq rolledBack'
    BY <1>0, <1>11 DEF CommitRefused, ResetCounter, HookFails, books, ReportsOf, BooksOK
  <2>2. BooksOK'
    BY <1>0, <2>1 DEF BooksOK
  <2>3. OneCloseStands'
    <3> SUFFICES ASSUME NEW x \in reported, x.event # closedBy[x.period], x \notin rolledBack'
                 PROVE  \E g \in Hooks : hpc'[g] = "reported" /\ x \in ReportsOf(Close(g))'
      BY <2>1 DEF OneCloseStands
    <3>1. PICK g \in Hooks : hpc[g] = "reported" /\ x \in ReportsOf(Close(g))
      BY <1>0, <2>1 DEF OneCloseStands
    <3>2. g # h
      BY <2>1, <3>1
    <3>3. hpc'[g] = "reported" /\ x \in ReportsOf(Close(g))'
      BY <1>0, <2>1, <3>1, <3>2 DEF HookIdle, ReportsOf, Close, HooksOK
    <3> QED BY <3>3
  <2> QED BY <1>0, <1>3, <2>1, <2>2, <2>3, IdleHooksOK
<1>12. Kept
  BY <1>4, <1>5, <1>6, <1>7, <1>8, <1>9, <1>10, <1>11 DEF CNext, HookStep
<1> QED BY <1>1, <1>12 DEF CInv, Kept

LEMMA InitCInv == CInit => CInv
<1> SUFFICES ASSUME CInit PROVE CInv
  OBVIOUS
<1>1. MeterInv
  BY InitTxInv, InitCacheInv DEF CInit, MeterInv
<1>2. pgCounter = [p \in Periods |-> 0] /\ 1 \in Periods
  BY BoundAssumption DEF CInit, Init, Periods
<1>3. HooksOK /\ BooksOK
  BY <1>2 DEF CInit, HooksOK, BooksOK
<1>4. ReadsCovered /\ ClaimsAreCounted /\ BookedTogether /\ OneCloseStands
  BY <1>2 DEF CInit, ReadsCovered, ClaimsAreCounted, BookedTogether, OneCloseStands, Absent
<1> QED BY <1>1, <1>3, <1>4 DEF CInv

LEMMA CInvariant == CSpec => []CInv
BY InitCInv, StepCInv, PTL DEF CSpec

(* The books, the reports and the handlers' locals keep their types while   *)
(* turns, webhooks, Stripe and outages interleave.                          *)
THEOREM CycleTypeCorrect == CSpec => []CTypeOK
<1>1. CInv => CTypeOK
  BY DEF CInv, MeterInv, TxInv, HooksOK, BooksOK, CTypeOK
<1> QED BY CInvariant, <1>1, PTL

(* Taken one by one, neither a ledger row nor a report to Stripe claims     *)
(* more than the authoritative counter of the period holds.  It says        *)
(* nothing of the sum of a period's reports.                                *)
THEOREM EachClaimIsCounted == CSpec => []ClaimsAreCounted
<1>1. CInv => ClaimsAreCounted
  BY DEF CInv
<1> QED BY CInvariant, <1>1, PTL

(* One close of a period is booked, and any other report of the period is   *)
(* of a close that was rolled back or is not over: the ledger's unique key  *)
(* decides between two events, after both may have reached Stripe.          *)
THEOREM OneCloseIsBooked == CSpec => []OneCloseStands
<1>1. CInv => OneCloseStands
  BY DEF CInv
<1> QED BY CInvariant, <1>1, PTL
=============================================================================
