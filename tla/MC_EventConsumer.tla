-------------------------- MODULE MC_EventConsumer --------------------------
(* Instances of EventConsumer for TLC.                                     *)
EXTENDS EventConsumer
=============================================================================
