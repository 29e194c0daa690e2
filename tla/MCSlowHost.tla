------------------------------ MODULE MCSlowHost ------------------------------
(* Values of the constants for model checking a device with a slow host. *)
EXTENDS SlowHost

NoNode == {}
NoKind == [n \in {} |-> "led"]
BeginOnly == <<"begin">>

===============================================================================
