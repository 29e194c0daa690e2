---------------------------- MODULE MCHostSession ---------------------------
(* Values of the constants for model checking a device with its host. *)
EXTENDS HostRecovery

NoNode == {}
NoKind == [n \in {} |-> "led"]
BeginOnly == <<"begin">>

=============================================================================
