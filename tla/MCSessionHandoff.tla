------------------------- MODULE MCSessionHandoff -------------------------
(* Small instances of SessionHandoff for TLC. *)
EXTENDS SessionHandoff
=============================================================================
