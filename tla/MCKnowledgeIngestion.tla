----------------------- MODULE MCKnowledgeIngestion -----------------------
(* Small instances of KnowledgeIngestion for TLC. *)
EXTENDS KnowledgeIngestion
=============================================================================
