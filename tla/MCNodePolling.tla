--------------------------- MODULE MCNodePolling ----------------------------
(* Values of the constants for model checking the polling of the Nodes. *)
EXTENDS NodePolling

Inputs == {"sensor1", "sensor2", "sensor3", "button1"}
InputKind == [n \in Inputs |-> IF n = "button1" THEN "button" ELSE "sensor"]

=============================================================================
