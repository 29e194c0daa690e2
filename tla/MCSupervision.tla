---------------------------- MODULE MCSupervision ---------------------------
(* Values of the constants for model checking the heartbeat's time bounds. *)
EXTENDS Supervision

Led == {"led1"}
LedKind == [n \in Led |-> "led"]
BeginThenAddLed == <<"begin", "led1">>
NoCommands == {}

=============================================================================
