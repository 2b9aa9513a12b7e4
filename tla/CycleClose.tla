----------------------------- MODULE CycleClose -----------------------------
(***************************************************************************)
(* A paying instance over several Stripe cycles: the meter of BudgetMeter, *)
(* run by its turns, together with the two webhook handlers of             *)
(* app/services/billing_webhook_service.py that move the billing anchor    *)
(* and close a cycle, _on_subscription_updated and _on_invoice_paid.       *)
(*                                                                         *)
(* Stripe delivers an event at least once and in any order, so an event    *)
(* that was emitted may be delivered at any later time, any number of      *)
(* times.  The anchor (period) is subscriptions.current_period_start.  The *)
(* handler's meter is built without a Postgres store: it reads, and        *)
(* resets, the Redis counter only.                                         *)
(***************************************************************************)
EXTENDS BudgetMeter

CONSTANTS
    Hooks,      \* webhook handlers
    UnitSize    \* OVERAGE_UNIT_SIZE, conversations to a billed unit

ASSUME HookAssumption == IsFiniteSet(Hooks) /\ UnitSize \in Nat /\ UnitSize > 0

NoEvent == [type |-> "none", cycle |-> NoPeriod]
Updated(n) == [type |-> "updated", cycle |-> n]
Paid(n)    == [type |-> "paid", cycle |-> n]

VARIABLES
    cycle,      \* the cycle Stripe is in
    lastEvent,  \* subscriptions.last_event_id
    ledger,     \* conversation_overage_ledger: conversations_used, or Absent
    closedBy,   \* the event an OVERAGE_REPORTED audit row names for a period
    reported,   \* meter events accepted by Stripe, by idempotency key
    hpc, hevent, closing, used,  \* each webhook handler
    rolledBack  \* history: the reports made for a close that was undone

hooks     == <<hpc, hevent, closing, used>>
books     == <<ledger, closedBy>>
cycleVars == <<cycle, lastEvent, books, reported, hooks, rolledBack>>
allVars   == <<vars, cycleVars>>

CInit ==
    /\ Init
    /\ cycle     = 1
    /\ lastEvent = NoEvent
    /\ ledger    = [p \in Periods |-> Absent]
    /\ closedBy  = [p \in Periods |-> NoEvent]
    /\ reported  = {}
    /\ hpc       = [h \in Hooks |-> "idle"]
    /\ hevent    = [h \in Hooks |-> NoEvent]
    /\ closing   = [h \in Hooks |-> NoPeriod]
    /\ used      = [h \in Hooks |-> 0]
    /\ rolledBack = {}

----------------------------------------------------------------------------
(* app/billing/overage.py *)

OverageCount(n) == IF n > Cap THEN n - Cap ELSE 0
OverageUnits(n) == (OverageCount(n) + UnitSize - 1) \div UnitSize

(* BudgetMeter.current_count without a counter store. *)
CachedCount(p) == IF rUp /\ rCounter[p] # Absent THEN rCounter[p] ELSE 0

(* The events Stripe has emitted: the first cycle has its creation invoice, *)
(* each renewal an update of the subscription and an invoice.               *)
Emitted == {Paid(n) : n \in 1..cycle} \union {Updated(n) : n \in 2..cycle}

(* The close a handler has under way: its event and its closing period. *)
Close(h) == [event |-> hevent[h], period |-> closing[h]]

(* A report's identifier at Stripe names the close it was made for. *)
ReportsOf(close) == {r \in reported : r.event = close.event /\ r.period = close.period}

HookIdle(h) ==
    /\ hpc'     = [hpc     EXCEPT ![h] = "idle"]
    /\ hevent'  = [hevent  EXCEPT ![h] = NoEvent]
    /\ closing' = [closing EXCEPT ![h] = NoPeriod]
    /\ used'    = [used    EXCEPT ![h] = 0]

----------------------------------------------------------------------------
(* Stripe renews the subscription. *)
Renew ==
    /\ cycle < LastPeriod
    /\ cycle' = cycle + 1
    /\ UNCHANGED <<vars, lastEvent, books, reported, hooks, rolledBack>>

(* _on_subscription_updated: the payload's period is taken as it comes. *)
SubscriptionUpdated(h, n) ==
    /\ hpc[h] = "idle" /\ Updated(n) \in Emitted
    /\ lastEvent # Updated(n)
    /\ period' = n
    /\ lastEvent' = Updated(n)
    /\ UNCHANGED <<stores, cache, handlers, alertsSent, faults,
                   cycle, books, reported, hooks, rolledBack>>

(* _on_invoice_paid, up to the read of the counter it will bill. *)
ReadUsage(h, n) ==
    /\ hpc[h] = "idle" /\ Paid(n) \in Emitted
    /\ lastEvent # Paid(n)
    /\ hpc'     = [hpc     EXCEPT ![h] = "read"]
    /\ hevent'  = [hevent  EXCEPT ![h] = Paid(n)]
    /\ closing' = [closing EXCEPT ![h] = period]
    /\ used'    = [used    EXCEPT ![h] = CachedCount(period)]
    /\ UNCHANGED <<vars, cycle, lastEvent, books, reported, rolledBack>>

(* Overage goes to Stripe before anything is committed here; Stripe keeps   *)
(* the first meter event of an identifier (event and closing period).       *)
ReportUsage(h) ==
    /\ hpc[h] = "read"
    /\ hpc' = [hpc EXCEPT ![h] = "reported"]
    /\ reported' =
         IF OverageUnits(used[h]) = 0 \/ ReportsOf(Close(h)) # {}
           THEN reported
           ELSE reported \union {[event  |-> hevent[h], period |-> closing[h],
                                  units  |-> OverageUnits(used[h])]}
    /\ UNCHANGED <<vars, cycle, lastEvent, books, hevent, closing, used, rolledBack>>

(* Stripe refuses the meter event: logged, and the close goes on. *)
ReportFails(h) ==
    /\ Fault
    /\ hpc[h] = "read" /\ OverageUnits(used[h]) > 0
    /\ hpc' = [hpc EXCEPT ![h] = "reported"]
    /\ UNCHANGED <<stores, cache, period, handlers, alertsSent,
                   cycle, lastEvent, books, reported, hevent, closing, used, rolledBack>>

(* Mutant of CommitClose: the row is written under the cycle that opens. *)
CommitClose_newCycle(h) ==
    /\ hpc[h] = "reported"
    /\ ledger[hevent[h].cycle] = Absent
    /\ ledger'   = [ledger   EXCEPT ![hevent[h].cycle] = used[h]]
    /\ closedBy' = [closedBy EXCEPT ![hevent[h].cycle] = hevent[h]]
    /\ period' = IF hevent[h].cycle # closing[h] THEN hevent[h].cycle ELSE period
    /\ lastEvent' = hevent[h]
    /\ hpc' = [hpc EXCEPT ![h] = "closed"]
    /\ UNCHANGED <<stores, cache, handlers, alertsSent, faults,
                   cycle, reported, hevent, closing, used, rolledBack>>

(* Mutant of CommitClose: a second close of a period overwrites the first. *)
CommitClose_upserts(h) ==
    /\ hpc[h] = "reported"
    /\ ledger'   = [ledger   EXCEPT ![closing[h]] = used[h]]
    /\ closedBy' = [closedBy EXCEPT ![closing[h]] = hevent[h]]
    /\ period' = IF hevent[h].cycle # closing[h] THEN hevent[h].cycle ELSE period
    /\ lastEvent' = hevent[h]
    /\ hpc' = [hpc EXCEPT ![h] = "closed"]
    /\ UNCHANGED <<stores, cache, handlers, alertsSent, faults,
                   cycle, reported, hevent, closing, used, rolledBack>>

(* The ledger row, its audit row, the new anchor and last_event_id in one   *)
(* commit.                                                                  *)
CommitClose(h) ==
    /\ hpc[h] = "reported"
    /\ ledger[closing[h]] = Absent
    /\ ledger'   = [ledger   EXCEPT ![closing[h]] = used[h]]
    /\ closedBy' = [closedBy EXCEPT ![closing[h]] = hevent[h]]
    /\ period' = IF hevent[h].cycle # closing[h] THEN hevent[h].cycle ELSE period
    /\ lastEvent' = hevent[h]
    /\ hpc' = [hpc EXCEPT ![h] = "closed"]
    /\ UNCHANGED <<stores, cache, handlers, alertsSent, faults,
                   cycle, reported, hevent, closing, used, rolledBack>>

(* The ledger's unique key refuses a second row: rollback and a 500. *)
CommitRefused(h) ==
    /\ hpc[h] = "reported"
    /\ ledger[closing[h]] # Absent
    /\ HookIdle(h)
    /\ rolledBack' = rolledBack \union ReportsOf(Close(h))
    /\ UNCHANGED <<vars, cycle, lastEvent, books, reported>>

ResetCounter(h) ==
    /\ hpc[h] = "closed"
    /\ rCounter' = IF rUp THEN [rCounter EXCEPT ![closing[h]] = Absent] ELSE rCounter
    /\ HookIdle(h)
    /\ UNCHANGED <<stores, rUp, alertMark, period, handlers, alertsSent, faults,
                   cycle, lastEvent, books, reported, rolledBack>>

(* The handler dies or raises: a transaction not yet committed is rolled    *)
(* back.                                                                    *)
HookFails(h) ==
    /\ Fault
    /\ hpc[h] # "idle"
    /\ HookIdle(h)
    /\ rolledBack' = IF hpc[h] = "closed" THEN rolledBack
                                          ELSE rolledBack \union ReportsOf(Close(h))
    /\ UNCHANGED <<stores, cache, period, handlers, alertsSent,
                   cycle, lastEvent, books, reported>>

----------------------------------------------------------------------------
MeterStep ==
    /\ \/ \E t \in Turns : TurnStep(t) \/ TurnFails(t)
       \/ RedisFault
    /\ UNCHANGED cycleVars

HookStep(h) ==
    \/ \E n \in Periods : SubscriptionUpdated(h, n) \/ ReadUsage(h, n)
    \/ ReportUsage(h) \/ ReportFails(h)
    \/ CommitClose(h) \/ CommitRefused(h) \/ ResetCounter(h) \/ HookFails(h)

CNext == MeterStep \/ Renew \/ \E h \in Hooks : HookStep(h)

CSpec == CInit /\ [][CNext]_allVars

----------------------------------------------------------------------------
(* Properties *)

CTypeOK ==
    /\ TypeOK
    /\ cycle     \in Periods
    /\ lastEvent \in {NoEvent} \union {Paid(n) : n \in Periods} \union {Updated(n) : n \in Periods}
    /\ ledger    \in [Periods -> Nat \union {Absent}]
    /\ closedBy  \in [Periods -> {NoEvent} \union {Paid(n) : n \in Periods}]
    /\ reported  \subseteq [event : {Paid(n) : n \in Periods}, period : Periods, units : Nat]
    /\ rolledBack \subseteq reported
    /\ hpc       \in [Hooks -> {"idle", "read", "reported", "closed"}]
    /\ hevent    \in [Hooks -> {NoEvent} \union {Paid(n) : n \in Periods}]
    /\ closing   \in [Hooks -> Periods \union {NoPeriod}]
    /\ used      \in [Hooks -> Nat]

(* Taken one by one, neither a ledger row nor a report to Stripe claims     *)
(* more conversations than the authoritative counter holds for the period,  *)
(* whatever order the events, turns, resets and outages took.  Two reports  *)
(* of one period may together: BilledOnce.                                  *)
ClaimsAreCounted ==
    /\ \A p \in Periods : ledger[p] <= pgCounter[p]
    /\ \A r \in reported : r.units <= OverageUnits(pgCounter[r.period])

(* The ledger's unique key lets one close of a period stand: whatever else  *)
(* Stripe was told of the period came from a close that was rolled back     *)
(* after it reported, or that is still under way.                           *)
OneCloseStands ==
    \A r \in reported :
        \/ r.event = closedBy[r.period]
        \/ r \in rolledBack
        \/ \E h \in Hooks : hpc[h] = "reported" /\ r \in ReportsOf(Close(h))

(* billing_webhook_service.py: "the ledger's unique (admin_id, instance_id, *)
(* period_start) is a second idempotency wall, and the Stripe usage record  *)
(* is reported [...] under an idempotency key so a race cannot              *)
(* double-bill": a period's overage is reported once.                       *)
BilledOnce == \A r, q \in reported : r.period = q.period => r = q

(* billing_webhook_service.py: "The CLOSING period anchor = the             *)
(* period_start the counter keyed on for the cycle that just billed         *)
(* (Stripe's prior current_period_start)."  The invoice of a renewal closes *)
(* a cycle before the one it opens.                                         *)
ClosesBilledCycle ==
    \A h \in Hooks :
        (hpc[h] = "closed" /\ hevent[h].cycle > 1) => closing[h] < hevent[h].cycle
=============================================================================
