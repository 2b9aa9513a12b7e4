---------------------------- MODULE MCCycleClose ----------------------------
(* A paying instance: turns one after another, two conversations, two Stripe *)
(* cycles, and one or two webhook handlers.                                 *)
EXTENDS CycleClose, TLC

CONSTANTS t1, s1, s2, h1, h2

MCTurns      == {t1}
MCSessions   == {s1, s2}
MCHooks      == {h1}
MCTwoHooks   == {h1, h2}

(* No property names a handler or a conversation, and none is a liveness one. *)
MCSymmetry == Permutations(MCSessions) \union Permutations(MCTwoHooks)
=============================================================================
