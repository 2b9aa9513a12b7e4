---------------------------- MODULE BudgetMeter ----------------------------
(***************************************************************************)
(* The per-instance conversation budget of one instance: the write-through *)
(* meter of app/billing/metering.py and the three places where             *)
(* app/runtime/orchestrator.py calls it in a turn (the read-only gate, the *)
(* count before the first model call, the 80% and 100% alerts).            *)
(*                                                                         *)
(* Turns are request handlers running concurrently; each runs one turn of  *)
(* one session at a time.  Postgres is modelled at the grain of SQL        *)
(* statements: the idempotency row and the counter row are written inside  *)
(* a transaction that other handlers do not see, and block on, until it    *)
(* commits.  Redis is a cache that can be unreachable or lose its keys.    *)
(***************************************************************************)
EXTENDS Integers, FiniteSets

CONSTANTS
    Turns,       \* request handlers
    Sessions,    \* conversations (session ids) of the instance
    NoSession,   \* not a session: the handler is idle
    Cap,         \* conversation_budget(tier, cadence)
    PaidPeriods, \* the periods of a paid tier; the others are Free: capped, never alerted
    Thresholds,  \* the alert thresholds, in percent of Cap: no alert is due at nought
    LastPeriod,  \* bound: billing periods
    MaxFaults    \* bound: outages, key losses and failed turns

ASSUME TurnsAssumption   == IsFiniteSet(Turns)
ASSUME SessionAssumption == IsFiniteSet(Sessions) /\ NoSession \notin Sessions
ASSUME BudgetAssumption  == Cap \in Nat /\ Cap > 0
ASSUME AlertAssumption   == IsFiniteSet(Thresholds) /\ Thresholds \subseteq Nat \ {0}
ASSUME BoundAssumption   == LastPeriod \in Nat /\ LastPeriod > 0 /\ MaxFaults \in Nat

Periods  == 1..LastPeriod
IsFree(p) == p \notin PaidPeriods
NoPeriod == 0
Absent   == -1      \* a Redis key that does not exist

VARIABLES
    \* Postgres, committed rows
    countedIn,  \* conversation_counted_sessions: the period a session was counted in
    pgCounter,  \* conversation_budget_counter
    \* Redis
    rUp,        \* reachable
    rCounter,   \* luciel:budget:count:<period>, or Absent
    alertMark,  \* luciel:budget:alert:<period>:<threshold>
    \* the billing anchor a turn resolves
    period,
    \* each handler
    pc, sess, per,
    seen,       \* the count the Postgres store returned to it
    due,        \* the thresholds it still has to look at
    \* the world
    alertsSent, \* how often each alert was dispatched
    faults      \* how many faults happened

stores   == <<countedIn, pgCounter>>
cache    == <<rUp, rCounter, alertMark>>
handlers == <<pc, sess, per, seen, due>>
vars     == <<stores, cache, period, handlers, alertsSent, faults>>

Init ==
    /\ countedIn  = [s \in Sessions |-> NoPeriod]
    /\ pgCounter  = [p \in Periods |-> 0]
    /\ rUp        = TRUE
    /\ rCounter   = [p \in Periods |-> Absent]
    /\ alertMark  = [p \in Periods |-> {}]
    /\ period     = 1
    /\ pc         = [t \in Turns |-> "idle"]
    /\ sess       = [t \in Turns |-> NoSession]
    /\ per        = [t \in Turns |-> NoPeriod]
    /\ seen       = [t \in Turns |-> 0]
    /\ due        = [t \in Turns |-> {}]
    /\ alertsSent = [p \in Periods |-> [th \in Thresholds |-> 0]]
    /\ faults     = 0

----------------------------------------------------------------------------
(* Helpers *)

(* The handler leaves the metering code; its locals are gone. *)
GoIdle(t) ==
    /\ pc'   = [pc   EXCEPT ![t] = "idle"]
    /\ sess' = [sess EXCEPT ![t] = NoSession]
    /\ per'  = [per  EXCEPT ![t] = NoPeriod]
    /\ seen' = [seen EXCEPT ![t] = 0]
    /\ due'  = [due  EXCEPT ![t] = {}]

(* Mutants of GateOutcome: the cap is reached one conversation early, late. *)
GateOutcome_early(p, n) == IF IsFree(p) /\ n + 1 >= Cap THEN "denied" ELSE "gated"
GateOutcome_late(p, n)  == IF IsFree(p) /\ n > Cap THEN "denied" ELSE "gated"

(* What the gate decides on a peeked count: only Free is ever denied. *)
GateOutcome(p, n) == IF IsFree(p) /\ n >= Cap THEN "denied" ELSE "gated"

(* Mutant of DueAlerts: the share is computed for the next conversation. *)
DueAlerts_ahead(p, n) ==
    IF IsFree(p) THEN {} ELSE {th \in Thresholds : ((n + 1) * 100) \div Cap >= th}

(* The alerts a count calls for: Free gets none on this path. *)
DueAlerts(p, n) ==
    IF IsFree(p) THEN {} ELSE {th \in Thresholds : (n * 100) \div Cap >= th}

(* The count n is known: go on to the alerts that are still to look at. *)
Alerting(t, n, left) ==
    IF left = {}
      THEN GoIdle(t)
      ELSE /\ pc'   = [pc   EXCEPT ![t] = "alert"]
           /\ seen' = [seen EXCEPT ![t] = n]
           /\ due'  = [due  EXCEPT ![t] = left]
           /\ UNCHANGED <<sess, per>>

(* 80% is looked at before 100%. *)
IsNextAlert(t, th) == th \in due[t] /\ \A other \in due[t] : th <= other

(* Row locks: a transaction that wrote a row holds it until it ends. *)
HoldsSessionRow(t) == pc[t] \in {"inserted", "upserted"}
HoldsCounterRow(t) == pc[t] = "upserted"

(* Mutants: no wait for the writer of the session row, of the counter row. *)
SessionRowFree_ignored(t) == t \in Turns
CounterRowFree_ignored(t) == t \in Turns

SessionRowFree(t) ==
    \A u \in Turns \ {t} : ~(HoldsSessionRow(u) /\ sess[u] = sess[t])
CounterRowFree(t) ==
    \A u \in Turns \ {t} : ~(HoldsCounterRow(u) /\ per[u] = per[t])

(* INCR creates a missing key at 1. *)
Incremented(n) == IF n = Absent THEN 1 ELSE n + 1

----------------------------------------------------------------------------
(* The budget gate: a read-only peek, Redis first *)

PeekCache(t, s) ==
    /\ pc[t] = "idle" /\ rUp /\ rCounter[period] # Absent
    /\ pc'   = [pc   EXCEPT ![t] = GateOutcome(period, rCounter[period])]
    /\ sess' = [sess EXCEPT ![t] = s]
    /\ per'  = [per  EXCEPT ![t] = period]
    /\ UNCHANGED <<stores, cache, period, seen, due, alertsSent, faults>>

PeekMiss(t, s) ==
    /\ pc[t] = "idle" /\ (~rUp \/ rCounter[period] = Absent)
    /\ pc'   = [pc   EXCEPT ![t] = "missed"]
    /\ sess' = [sess EXCEPT ![t] = s]
    /\ per'  = [per  EXCEPT ![t] = period]
    /\ UNCHANGED <<stores, cache, period, seen, due, alertsSent, faults>>

PeekStore(t) ==
    /\ pc[t] = "missed"
    /\ pc' = [pc EXCEPT ![t] = GateOutcome(per[t], pgCounter[per[t]])]
    /\ UNCHANGED <<stores, cache, period, sess, per, seen, due, alertsSent, faults>>

(* Mutant of Acknowledge: a denied turn asks the gate again. *)
Acknowledge_regates(t) ==
    /\ pc[t] = "denied"
    /\ pc' = [pc EXCEPT ![t] = "missed"]
    /\ UNCHANGED <<stores, cache, period, sess, per, seen, due, alertsSent, faults>>

(* A denied turn is answered with the canned handoff and counts nothing. *)
Acknowledge(t) ==
    /\ pc[t] = "denied"
    /\ GoIdle(t)
    /\ UNCHANGED <<stores, cache, period, alertsSent, faults>>

(* The intake gate escalates: the turn never reaches a model call. *)
IntakeEscalates(t) ==
    /\ pc[t] = "gated"
    /\ GoIdle(t)
    /\ UNCHANGED <<stores, cache, period, alertsSent, faults>>

----------------------------------------------------------------------------
(* PostgresCounterStore.count_session_once, one transaction *)

InsertSession(t) ==
    /\ pc[t] = "gated" /\ SessionRowFree(t)
    /\ countedIn[sess[t]] = NoPeriod
    /\ pc' = [pc EXCEPT ![t] = "inserted"]
    /\ UNCHANGED <<stores, cache, period, sess, per, seen, due, alertsSent, faults>>

(* Mutant of FindCounted: the re-fire is mirrored like a first count. *)
FindCounted_mirrors(t) ==
    /\ pc[t] = "gated" /\ SessionRowFree(t)
    /\ countedIn[sess[t]] # NoPeriod
    /\ pc'   = [pc   EXCEPT ![t] = "committed"]
    /\ seen' = [seen EXCEPT ![t] = pgCounter[per[t]]]
    /\ UNCHANGED <<stores, cache, period, sess, per, due, alertsSent, faults>>

(* ON CONFLICT DO NOTHING: not newly counted, only the count is read. *)
FindCounted(t) ==
    /\ pc[t] = "gated" /\ SessionRowFree(t)
    /\ countedIn[sess[t]] # NoPeriod
    /\ Alerting(t, pgCounter[per[t]], DueAlerts(per[t], pgCounter[per[t]]))
    /\ UNCHANGED <<stores, cache, period, alertsSent, faults>>

UpsertCounter(t) ==
    /\ pc[t] = "inserted" /\ CounterRowFree(t)
    /\ pc'   = [pc   EXCEPT ![t] = "upserted"]
    /\ seen' = [seen EXCEPT ![t] = pgCounter[per[t]] + 1]
    /\ UNCHANGED <<stores, cache, period, sess, per, due, alertsSent, faults>>

Commit(t) ==
    /\ pc[t] = "upserted"
    /\ countedIn' = [countedIn EXCEPT ![sess[t]] = per[t]]
    /\ pgCounter' = [pgCounter EXCEPT ![per[t]] = seen[t]]
    /\ pc' = [pc EXCEPT ![t] = "committed"]
    /\ UNCHANGED <<cache, period, sess, per, seen, due, alertsSent, faults>>

----------------------------------------------------------------------------
(* BudgetMeter.count_session_once after the store returned, and the alerts *)

(* Mutant of Mirror: the alerts are decided on the count before this one. *)
Mirror_stale(t) ==
    /\ pc[t] = "committed"
    /\ rCounter' = IF rUp
                     THEN [rCounter EXCEPT ![per[t]] = Incremented(@)]
                     ELSE rCounter
    /\ Alerting(t, seen[t], DueAlerts(per[t], seen[t] - 1))
    /\ UNCHANGED <<stores, rUp, alertMark, period, alertsSent, faults>>

(* Only a newly counted session is mirrored; an unreachable Redis is swallowed. *)
Mirror(t) ==
    /\ pc[t] = "committed"
    /\ rCounter' = IF rUp
                     THEN [rCounter EXCEPT ![per[t]] = Incremented(@)]
                     ELSE rCounter
    /\ Alerting(t, seen[t], DueAlerts(per[t], seen[t]))
    /\ UNCHANGED <<stores, rUp, alertMark, period, alertsSent, faults>>

(* Mutant of MarkAlert: SET without NX always wins. *)
MarkAlert_overwrites(t, th) ==
    /\ pc[t] = "alert" /\ IsNextAlert(t, th)
    /\ rUp
    /\ alertMark' = [alertMark EXCEPT ![per[t]] = @ \union {th}]
    /\ pc' = [pc EXCEPT ![t] = "sending"]
    /\ UNCHANGED <<stores, rUp, rCounter, period, sess, per, seen, due, alertsSent, faults>>

(* SET NX of the alert marker wins: the alert is this handler's to send. *)
MarkAlert(t, th) ==
    /\ pc[t] = "alert" /\ IsNextAlert(t, th)
    /\ rUp /\ th \notin alertMark[per[t]]
    /\ alertMark' = [alertMark EXCEPT ![per[t]] = @ \union {th}]
    /\ pc' = [pc EXCEPT ![t] = "sending"]
    /\ UNCHANGED <<stores, rUp, rCounter, period, sess, per, seen, due, alertsSent, faults>>

(* Already marked, or Redis unreachable, which reads as already marked. *)
SkipAlert(t, th) ==
    /\ pc[t] = "alert" /\ IsNextAlert(t, th)
    /\ ~rUp \/ th \in alertMark[per[t]]
    /\ Alerting(t, seen[t], due[t] \ {th})
    /\ UNCHANGED <<stores, cache, period, alertsSent, faults>>

SendAlert(t, th) ==
    /\ pc[t] = "sending" /\ IsNextAlert(t, th)
    /\ alertsSent' = [alertsSent EXCEPT ![per[t]][th] = @ + 1]
    /\ Alerting(t, seen[t], due[t] \ {th})
    /\ UNCHANGED <<stores, cache, period, faults>>

----------------------------------------------------------------------------
(* Faults and the clock *)

Fault == faults < MaxFaults /\ faults' = faults + 1

(* The process dies, or a statement raises: an open transaction rolls back *)
(* and whatever the turn had still to do is not done.                      *)
TurnFails(t) ==
    /\ Fault
    /\ pc[t] # "idle"
    /\ GoIdle(t)
    /\ UNCHANGED <<stores, cache, period, alertsSent>>

RedisGoesDown ==
    /\ Fault
    /\ rUp /\ rUp' = FALSE
    /\ UNCHANGED <<stores, rCounter, alertMark, period, handlers, alertsSent>>

RedisComesBack ==
    /\ ~rUp /\ rUp' = TRUE
    /\ UNCHANGED <<stores, rCounter, alertMark, period, handlers, alertsSent, faults>>

(* A restart without persistence, or an eviction of everything. *)
RedisLosesKeys ==
    /\ Fault
    /\ rCounter'  = [p \in Periods |-> Absent]
    /\ alertMark' = [p \in Periods |-> {}]
    /\ UNCHANGED <<stores, rUp, period, handlers, alertsSent>>

(* The Free window rolls by the calendar, or the customer buys a plan; a    *)
(* paid period only ends by a webhook.                                      *)
FreeWindowRolls ==
    /\ IsFree(period) /\ period < LastPeriod
    /\ period' = period + 1
    /\ UNCHANGED <<stores, cache, handlers, alertsSent, faults>>

----------------------------------------------------------------------------
TurnStep(t) ==
    \/ \E s \in Sessions : PeekCache(t, s) \/ PeekMiss(t, s)
    \/ PeekStore(t) \/ Acknowledge(t) \/ IntakeEscalates(t)
    \/ InsertSession(t) \/ FindCounted(t) \/ UpsertCounter(t) \/ Commit(t)
    \/ Mirror(t)
    \/ \E th \in Thresholds : MarkAlert(t, th) \/ SkipAlert(t, th) \/ SendAlert(t, th)

RedisFault == RedisGoesDown \/ RedisComesBack \/ RedisLosesKeys

Next ==
    \/ \E t \in Turns : TurnStep(t) \/ TurnFails(t)
    \/ RedisFault
    \/ FreeWindowRolls

Spec == Init /\ [][Next]_vars

(* A handler thread keeps running once a request has reached it; nothing   *)
(* obliges a request to arrive, or a fault to happen or to heal.           *)
Continue(t) == pc[t] # "idle" /\ TurnStep(t)

FairSpec == Spec /\ \A t \in Turns : WF_vars(Continue(t))

----------------------------------------------------------------------------
(* Properties *)

Places == {"idle", "missed", "denied", "gated", "inserted", "upserted",
           "committed", "alert", "sending"}

(* The locals of the handlers; a handler in the metering code has a session *)
(* and a billing anchor.                                                    *)
HandlersOK ==
    /\ pc   \in [Turns -> Places]
    /\ sess \in [Turns -> Sessions \union {NoSession}]
    /\ per  \in [Turns -> Periods \union {NoPeriod}]
    /\ seen \in [Turns -> Nat]
    /\ due  \in [Turns -> SUBSET Thresholds]
    /\ \A t \in Turns : pc[t] # "idle" => sess[t] \in Sessions /\ per[t] \in Periods

TypeOK ==
    /\ HandlersOK
    /\ countedIn  \in [Sessions -> Periods \union {NoPeriod}]
    /\ pgCounter  \in [Periods -> Nat]
    /\ rUp        \in BOOLEAN
    /\ rCounter   \in [Periods -> Nat \union {Absent}]
    /\ alertMark  \in [Periods -> SUBSET Thresholds]
    /\ period     \in Periods
    /\ alertsSent \in [Periods -> [Thresholds -> Nat]]
    /\ faults     \in 0..MaxFaults

(* A period's counter is the number of sessions that have their idempotency *)
(* row in it: a re-fired, concurrent or half-failed count never adds or     *)
(* loses one (PostgresCounterStore.count_session_once).                     *)
ExactlyOnce ==
    \A p \in Periods : pgCounter[p] = Cardinality({s \in Sessions : countedIn[s] = p})

(* The Redis counter is never ahead of the authoritative one, whatever      *)
(* outages, key losses and dead handlers came in between.                   *)
CacheNeverOvercounts == \A p \in Periods : rCounter[p] <= pgCounter[p]

(* A Free customer is turned away only if the period really is at its cap,  *)
(* although the gate may have read the cache.                               *)
NoEarlyDenial ==
    \A t \in Turns : pc[t] = "denied" => pgCounter[per[t]] >= Cap

(* The gate peeks and the count comes later, so Free can pass its cap; with *)
(* no fault it passes it by fewer conversations than there are handlers.    *)
OvershootBounded ==
    faults = 0 =>
        \A p \in Periods \ PaidPeriods : pgCounter[p] < Cap + Cardinality(Turns)

(* An alert is dispatched only for a share of the budget really used, and,  *)
(* unless Redis forgot its marker, once.                                    *)
AlertsJustified ==
    \A p \in Periods, th \in Thresholds :
        alertsSent[p][th] > 0 => (pgCounter[p] * 100) \div Cap >= th

AlertsOnce ==
    faults = 0 => \A p \in Periods, th \in Thresholds : alertsSent[p][th] <= 1

(* With no fault, once every handler is idle no threshold that was crossed  *)
(* is left without its alert.                                               *)
AlertsComplete ==
    (faults = 0 /\ \A t \in Turns : pc[t] = "idle") =>
        \A p \in Periods : \A th \in DueAlerts(p, pgCounter[p]) : alertsSent[p][th] = 1

(* The write-through meter implements the ledger it promises: the           *)
(* transaction's commit is the one step that charges a session.             *)
Ledger == INSTANCE ConversationLedger WITH charged <- countedIn, usage <- pgCounter
ImplementsLedger == Ledger!Spec

(* Every turn that entered the metering code leaves it: the row locks of    *)
(* the counting transactions never make handlers wait on each other.        *)
TurnsFinish == \A t \in Turns : pc[t] # "idle" ~> pc[t] = "idle"
=============================================================================
