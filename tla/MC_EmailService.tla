--------------------------- MODULE MC_EmailService ---------------------------
(* Instances of EmailService for TLC.                                      *)
EXTENDS EmailService
=============================================================================
