----------------------- MODULE SubscriptionLifecycle -----------------------
(***************************************************************************)
(* One admin account moving between the Free and the Pro tier.             *)
(*                                                                         *)
(* Upgrade: the /billing/upgrade route opens a Stripe Checkout, and the    *)
(* checkout.session.completed handler attaches the paid subscription.      *)
(* Downgrade: the /billing/downgrade route asks Stripe to cancel at the    *)
(* end of the period and marks the row pending; the handler of             *)
(* customer.subscription.deleted applies it at the boundary.  Both         *)
(* handlers (app/services/billing_webhook_service.py) commit more than     *)
(* once; a handler here takes one step per commit.                         *)
(*                                                                         *)
(* Stripe delivers an event at least once, in any order, also to two       *)
(* workers at a time; an event that was emitted may come again later.  A   *)
(* delivery that changes nothing (a replay, an unknown subscription, an    *)
(* error that rolls back) is a stuttering step and has no action.          *)
(***************************************************************************)
EXTENDS Naturals, FiniteSets

CONSTANTS
    Subs,       \* Stripe subscriptions the account may buy
    Hooks,      \* webhook handlers that may run at a time
    NoSub,
    MaxFaults   \* bound: killed handlers and routes

ASSUME SubAssumption   == IsFiniteSet(Subs) /\ NoSub \notin Subs
ASSUME HookAssumption  == IsFiniteSet(Hooks)
ASSUME FaultAssumption == MaxFaults \in Nat

VARIABLES
    tier,       \* admins.tier
    dormant,    \* the account's connections have status dormant
    \* table subscriptions, one row per Stripe subscription
    created,    \* position of the row by created_at, 0 while there is no row
    active,
    pending,    \* pending_downgrade_target is set (to free)
    lastDeleted,\* last_event_id is the id of the subscription's deleted event
    stripe,     \* Stripe's side of each subscription
    asking, armed,   \* downgrade route between Stripe and its commit
    hpc, hsub,  \* each handler and the subscription it works on
    doubled,    \* history: a Checkout was opened beside another, or a subscription
    faults

rows  == <<created, active, pending, lastDeleted>>
route == <<asking, armed>>
hooks == <<hpc, hsub>>
vars  == <<tier, dormant, rows, stripe, route, hooks, doubled, faults>>

HasRow(s)   == created[s] > 0
Canceled(s) == HasRow(s) /\ ~active[s]
Running(s)  == stripe[s] \in {"live", "ending"}
Billed(s)   == stripe[s] \in {"open", "live", "ending"}
Idle(h)     == hpc[h] = "idle"
Quiet       == \A h \in Hooks : Idle(h)

Init ==
    /\ tier = "free" /\ dormant = FALSE
    /\ created     = [s \in Subs |-> 0]
    /\ active      = [s \in Subs |-> FALSE]
    /\ pending     = [s \in Subs |-> FALSE]
    /\ lastDeleted = [s \in Subs |-> FALSE]
    /\ stripe      = [s \in Subs |-> "none"]
    /\ asking = NoSub /\ armed = FALSE
    /\ hpc  = [h \in Hooks |-> "idle"]
    /\ hsub = [h \in Hooks |-> NoSub]
    /\ doubled = FALSE /\ faults = 0

Enter(h, pc, s) == hpc' = [hpc EXCEPT ![h] = pc] /\ hsub' = [hsub EXCEPT ![h] = s]
Leave(h)        == Enter(h, "idle", NoSub)

----------------------------------------------------------------------------
(* The customer and Stripe.  People and periods are slower than handlers:    *)
(* a handler that runs when a Checkout is opened is done before it is paid,  *)
(* and one that runs when a subscription ends is done before that is told.   *)

\* upgrade_tier asks for the tier only: a second tab may open a Checkout
\* while the first one's is not paid, or paid and not yet attached.
OpenCheckout(s) ==
    /\ stripe[s] = "none" /\ tier = "free" /\ Quiet
    /\ stripe' = [stripe EXCEPT ![s] = "open"]
    /\ doubled' = (doubled \/ \E t \in Subs : Billed(t))
    /\ UNCHANGED <<tier, dormant, rows, route, hooks, faults>>

Pay(s) ==
    /\ stripe[s] = "open"
    /\ stripe' = [stripe EXCEPT ![s] = "live"]
    /\ UNCHANGED <<tier, dormant, rows, route, hooks, doubled, faults>>

\* Canceled in the Stripe dashboard, by a refund or in the billing portal,
\* at once or at the end of the period.
CancelElsewhere(s) ==
    /\ Running(s) /\ Quiet
    /\ \E after \in {"ending", "ended"} \ {stripe[s]} :
        stripe' = [stripe EXCEPT ![s] = after]
    /\ UNCHANGED <<tier, dormant, rows, route, hooks, doubled, faults>>

PeriodEnds(s) ==
    /\ stripe[s] = "ending" /\ Quiet
    /\ stripe' = [stripe EXCEPT ![s] = "ended"]
    /\ UNCHANGED <<tier, dormant, rows, route, hooks, doubled, faults>>

----------------------------------------------------------------------------
(* checkout.session.completed of an upgrade, _on_checkout_completed_upgrade *)

\* Mutant of Attach: it looks for any row of the account, not the subscription's own.
Attach_firstOnly(h, s) ==
    /\ Idle(h) /\ stripe[s] \notin {"none", "open"}
    /\ \A t \in Subs : ~HasRow(t)
    /\ created'     = [created EXCEPT ![s] = 1]
    /\ active'      = [active EXCEPT ![s] = TRUE]
    /\ pending'     = [pending EXCEPT ![s] = FALSE]
    /\ lastDeleted' = [lastDeleted EXCEPT ![s] = FALSE]
    /\ Enter(h, "attached", s)
    /\ UNCHANGED <<tier, dormant, stripe, route, doubled, faults>>

\* The row is inserted, active and not pending; the insert is unique by
\* subscription, so of two deliveries one inserts and the other rolls back.
Attach(h, s) ==
    /\ Idle(h) /\ stripe[s] \notin {"none", "open"} /\ ~HasRow(s)
    /\ created'     = [created EXCEPT ![s] = 1 + Cardinality({t \in Subs : HasRow(t)})]
    /\ active'      = [active EXCEPT ![s] = TRUE]
    /\ pending'     = [pending EXCEPT ![s] = FALSE]
    /\ lastDeleted' = [lastDeleted EXCEPT ![s] = FALSE]
    /\ Enter(h, "attached", s)
    /\ UNCHANGED <<tier, dormant, stripe, route, doubled, faults>>

\* Mutant of Flip: the upgrade returns before it restores the connections.
Flip_returns(h) ==
    /\ hpc[h] = "attached"
    /\ tier' = "pro"
    /\ Leave(h)
    /\ UNCHANGED <<dormant, rows, stripe, route, doubled, faults>>

\* upgrade_admin_tier: TierUpgradeNoopError skips the restore too.
Flip(h) ==
    /\ hpc[h] = "attached"
    /\ tier' = "pro"
    /\ IF tier = "free" THEN Enter(h, "flipped", hsub[h]) ELSE Leave(h)
    /\ UNCHANGED <<dormant, rows, stripe, route, doubled, faults>>

\* restore_from_dormant_for_admin
Restore(h) ==
    /\ hpc[h] = "flipped"
    /\ dormant' = FALSE
    /\ Leave(h)
    /\ UNCHANGED <<tier, rows, stripe, route, doubled, faults>>

----------------------------------------------------------------------------
(* subscription.updated, invoice.payment_failed and invoice.paid all leave   *)
(* their own id in last_event_id; nothing else they write is kept here.      *)

OtherEvent(s) ==
    /\ HasRow(s)
    /\ lastDeleted' = [lastDeleted EXCEPT ![s] = FALSE]
    /\ UNCHANGED <<tier, dormant, created, active, pending, stripe, route, hooks, doubled, faults>>

----------------------------------------------------------------------------
(* The downgrade route: schedule_downgrade, Stripe first, then one commit.  *)

\* get_active_subscription_for_tenant: the active row created last.
IsCurrent(s) ==
    /\ HasRow(s) /\ active[s]
    /\ \A t \in Subs : HasRow(t) /\ active[t] => created[t] <= created[s]

\* Stripe refuses to modify a subscription that has ended.
AskDowngrade(s) ==
    /\ asking = NoSub /\ tier = "pro" /\ IsCurrent(s) /\ Running(s)
    /\ stripe' = [stripe EXCEPT ![s] = "ending"]
    /\ asking' = s
    /\ armed'  = pending[s]
    /\ UNCHANGED <<tier, dormant, rows, hooks, doubled, faults>>

\* A target that was already set when the row was read is not written again.
CommitDowngrade ==
    /\ asking # NoSub
    /\ pending' = [pending EXCEPT ![asking] = @ \/ ~armed]
    /\ asking' = NoSub /\ armed' = FALSE
    /\ UNCHANGED <<tier, dormant, created, active, lastDeleted, stripe, hooks, doubled, faults>>

----------------------------------------------------------------------------
(* customer.subscription.deleted, _on_subscription_deleted                  *)

\* The row is read: not a replay, and a downgrade is pending.  When none is,
\* _apply_v1_hard_cancel imports a repository module that no longer exists,
\* rolls back and raises, at every delivery.
ReceiveDeleted(h, s) ==
    /\ Idle(h) /\ stripe[s] = "ended"
    /\ HasRow(s) /\ ~lastDeleted[s] /\ pending[s]
    /\ Enter(h, "deleting", s)
    /\ UNCHANGED <<tier, dormant, rows, stripe, route, doubled, faults>>

CancelRow(s) ==
    /\ active'      = [active EXCEPT ![s] = FALSE]
    /\ lastDeleted' = [lastDeleted EXCEPT ![s] = TRUE]

\* Mutant of Lower: the row's flip is committed without the tier's.
Lower_rowOnly(h) ==
    /\ hpc[h] = "deleting" /\ tier = "pro"
    /\ CancelRow(hsub[h])
    /\ Enter(h, "lowered", hsub[h])
    /\ UNCHANGED <<tier, dormant, created, pending, stripe, route, doubled, faults>>

\* downgrade_admin_tier commits the session, and with it the canceled row.
Lower(h) ==
    /\ hpc[h] = "deleting" /\ tier = "pro"
    /\ tier' = "free"
    /\ CancelRow(hsub[h])
    /\ Enter(h, "lowered", hsub[h])
    /\ UNCHANGED <<dormant, created, pending, stripe, route, doubled, faults>>

\* TierDowngradeNoopError: nothing was committed, the final commit takes all.
LowerNoop(h) ==
    /\ hpc[h] = "deleting" /\ tier = "free"
    /\ dormant' = TRUE
    /\ CancelRow(hsub[h])
    /\ pending' = [pending EXCEPT ![hsub[h]] = FALSE]
    /\ Leave(h)
    /\ UNCHANGED <<tier, created, stripe, route, doubled, faults>>

\* Mutants of Archive: the pending mark stays; the connections are forgotten.
Archive_keepsPending(h) ==
    /\ hpc[h] = "lowered"
    /\ dormant' = TRUE
    /\ Leave(h)
    /\ UNCHANGED <<tier, rows, stripe, route, doubled, faults>>

Archive_keepsAwake(h) ==
    /\ hpc[h] = "lowered"
    /\ pending' = [pending EXCEPT ![hsub[h]] = FALSE]
    /\ Leave(h)
    /\ UNCHANGED <<tier, dormant, created, active, lastDeleted, stripe, route, doubled, faults>>

\* archive_overflow_for_admin, set_dormant_for_admin and the final commit.
Archive(h) ==
    /\ hpc[h] = "lowered"
    /\ dormant' = TRUE
    /\ pending' = [pending EXCEPT ![hsub[h]] = FALSE]
    /\ Leave(h)
    /\ UNCHANGED <<tier, created, active, lastDeleted, stripe, route, doubled, faults>>

----------------------------------------------------------------------------
(* The process dies, or a statement fails: what is committed stays. *)

HookDies(h) ==
    /\ ~Idle(h) /\ faults < MaxFaults
    /\ Leave(h)
    /\ faults' = faults + 1
    /\ UNCHANGED <<tier, dormant, rows, stripe, route, doubled>>

RouteDies ==
    /\ asking # NoSub /\ faults < MaxFaults
    /\ asking' = NoSub /\ armed' = FALSE
    /\ faults' = faults + 1
    /\ UNCHANGED <<tier, dormant, rows, stripe, hooks, doubled>>

HookStep(h) == Flip(h) \/ Restore(h) \/ Lower(h) \/ LowerNoop(h) \/ Archive(h)

Next ==
    \/ \E s \in Subs :
        \/ OpenCheckout(s) \/ Pay(s) \/ CancelElsewhere(s) \/ PeriodEnds(s)
        \/ OtherEvent(s) \/ AskDowngrade(s)
        \/ \E h \in Hooks : Attach(h, s) \/ ReceiveDeleted(h, s)
    \/ CommitDowngrade \/ RouteDies
    \/ \E h \in Hooks : HookStep(h) \/ HookDies(h)

Spec == Init /\ [][Next]_vars

\* A handler or route that runs goes on; Stripe repeats an event until a
\* worker has taken it, however busy the workers and the other events are.
FairSpec ==
    /\ Spec
    /\ WF_vars(CommitDowngrade)
    /\ \A h \in Hooks : WF_vars(HookStep(h))
    /\ \A s \in Subs :
        /\ SF_vars(\E h \in Hooks : Attach(h, s))
        /\ SF_vars(\E h \in Hooks : ReceiveDeleted(h, s))

----------------------------------------------------------------------------
(* The variables keep their types, and a row is there exactly once: its       *)
(* position never passes the number of subscriptions.  A pending downgrade, a *)
(* deleted event and an active flag belong to rows that exist.                *)
TypeOK ==
    /\ tier \in {"free", "pro"} /\ dormant \in BOOLEAN
    /\ created \in [Subs -> 0..Cardinality(Subs)]
    /\ {active, pending, lastDeleted} \subseteq [Subs -> BOOLEAN]
    /\ stripe \in [Subs -> {"none", "open", "live", "ending", "ended"}]
    /\ asking \in Subs \cup {NoSub} /\ armed \in BOOLEAN
    /\ hpc \in [Hooks -> {"idle", "attached", "flipped", "deleting", "lowered"}]
    /\ hsub \in [Hooks -> Subs \cup {NoSub}]
    /\ \A h \in Hooks : Idle(h) <=> hsub[h] = NoSub
    /\ doubled \in BOOLEAN /\ faults \in 0..MaxFaults
    /\ \A s \in Subs : active[s] \/ pending[s] \/ lastDeleted[s] => HasRow(s)

(* A Pro account has an active subscription row, between any two commits of  *)
(* any handlers and after a kill: the tier is never left above what was      *)
(* bought (upgrade_admin_tier and downgrade_admin_tier against the row).     *)
TierNeedsSub == tier = "pro" => \E s \in Subs : active[s]

(* Unless something was killed or two Checkouts were open at once, a         *)
(* customer whose attached subscription Stripe still bills is on Pro as soon *)
(* as no handler runs: no late or repeated event of an earlier subscription  *)
(* takes the tier away.  Of two that are billed together, the end of the one *)
(* takes it from the other: the upgrade route refuses a second Checkout only *)
(* once the first has raised the tier.                                       *)
PaidIsServed ==
    faults = 0 /\ ~doubled /\ Quiet =>
        \A s \in Subs : active[s] /\ Running(s) => tier = "pro"

(* Under the same conditions, while no active row has lost its Stripe        *)
(* subscription, the connections are dormant exactly when an applied         *)
(* downgrade has left the account on Free: a re-upgrade wakes them, and no   *)
(* stale archive puts them back to sleep.                                    *)
DormancyFollowsTier ==
    faults = 0 /\ ~doubled /\ Quiet /\ (\A s \in Subs : active[s] => Running(s))
        => (dormant <=> tier = "free" /\ \E s \in Subs : Canceled(s))

(* A paid Checkout makes the account Pro, also beside another one, unless a  *)
(* handler is killed: the acknowledged event is never repeated, and nothing  *)
(* else retries the flip.                                                    *)
UpgradeTakesEffect ==
    \A s \in Subs : (stripe[s] = "live" /\ ~HasRow(s)) ~> (tier = "pro" \/ faults > 0)

(* A downgrade whose period has ended comes to be applied in full, the row   *)
(* canceled, the connections dormant and the mark cleared at one moment,     *)
(* unless a handler is killed.                                               *)
DowngradeTakesEffect ==
    \A s \in Subs : (stripe[s] = "ended" /\ pending[s])
        ~> (faults > 0 \/ (Canceled(s) /\ dormant /\ ~pending[s]))
=============================================================================
