-------------------------- MODULE MCCircuitBreaker --------------------------
(* One endpoint, and two dispatches of it at a time. *)
EXTENDS CircuitBreaker

CONSTANTS d1, d2

MCDispatchers == {d1, d2}
=============================================================================
