-------------------------- MODULE MC_DocumentStore ---------------------------
(* Instance of DocumentStore for TLC.                                      *)
EXTENDS DocumentStore

=============================================================================
