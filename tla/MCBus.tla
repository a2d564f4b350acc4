------------------------------- MODULE MCBus -------------------------------
(* Instances of EventBus for TLC.                                            *)
EXTENDS EventBus
=============================================================================
