------------------------- MODULE ConversationLedger -------------------------
(***************************************************************************)
(* What the conversation budget promises its caller: a session is charged  *)
(* to one billing period, once, and the count a period shows is the number *)
(* of sessions charged to it.  There are no stores, no caches and no       *)
(* transactions here; BudgetMeter is shown to implement this module.       *)
(***************************************************************************)
EXTENDS Integers, FiniteSets

CONSTANTS
    Sessions,   \* conversations (session ids)
    LastPeriod  \* bound: how many billing periods are looked at

Periods  == 1..LastPeriod
NoPeriod == 0

VARIABLES
    charged,    \* the period each session was charged to, NoPeriod if none
    usage       \* the number of conversations charged to each period

ledgerVars == <<charged, usage>>

Init ==
    /\ charged = [s \in Sessions |-> NoPeriod]
    /\ usage   = [p \in Periods |-> 0]

(* Charging is one indivisible step, and no session is charged twice. *)
Charge(s, p) ==
    /\ charged[s] = NoPeriod
    /\ charged' = [charged EXCEPT ![s] = p]
    /\ usage'   = [usage EXCEPT ![p] = @ + 1]

Next == \E s \in Sessions, p \in Periods : Charge(s, p)

Spec == Init /\ [][Next]_ledgerVars
=============================================================================
