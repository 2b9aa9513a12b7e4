---------------------------- MODULE MCAuditTrail ----------------------------
(* Three rows of history, of two customers, that fall due at two times. *)
EXTENDS AuditTrail

CONSTANTS a1, a2, i1

MCWindow == [free |-> 0, pro |-> 0]
MCHistory == <<
    [of |-> [adm |-> a1, inst |-> NoInst], tier |-> "pro", at |-> -1],
    [of |-> [adm |-> a2, inst |-> i1], tier |-> "pro", at |-> -1],
    [of |-> [adm |-> a1, inst |-> NoInst], tier |-> "pro", at |-> 0] >>
=============================================================================
