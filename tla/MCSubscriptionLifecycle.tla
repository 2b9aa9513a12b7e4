---------------------- MODULE MCSubscriptionLifecycle ----------------------
(* One account, a purchase and a re-purchase, two webhook workers. *)
EXTENDS SubscriptionLifecycle

CONSTANTS s1, s2, h1, h2

MCSubs  == {s1, s2}
MCHooks == {h1, h2}
=============================================================================
