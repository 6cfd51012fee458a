-------------------------- MODULE MC_InvitePipeline --------------------------
(* Instances of InvitePipeline, and so of EventPublisher, for TLC.          *)
EXTENDS InvitePipeline
=============================================================================
