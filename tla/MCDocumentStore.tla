--------------------------- MODULE MCDocumentStore ---------------------------
(* DocumentStore on small sets of model values, for TLC. *)
EXTENDS DocumentStore, TLC
=============================================================================
