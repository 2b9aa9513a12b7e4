--------------------------- MODULE MCBudgetMeter ---------------------------
(* One instance: two handlers and three conversations.  The first period is *)
(* Free, the second is paid: a turn may straddle the upgrade.               *)
EXTENDS BudgetMeter

CONSTANTS t1, t2, s1, s2, s3

MCTurns       == {t1, t2}
MCSessions    == {s1, s2, s3}
MCPaidPeriods == {2}

(* With a cap of one the first conversation crosses one of these, the second *)
(* the other.                                                                *)
MCThresholds == {100, 200}
=============================================================================
