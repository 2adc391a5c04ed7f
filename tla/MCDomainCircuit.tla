--------------------------- MODULE MCDomainCircuit ---------------------------
(* DomainCircuit on a few page tasks and shortened thresholds, for TLC. *)
EXTENDS DomainCircuit
=============================================================================
