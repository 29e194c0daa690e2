--------------------------- MODULE MCStatusReport ---------------------------
(* Values of the constants for model checking the status line. *)
EXTENDS StatusReport

Ids == {"l", "b"}
ReportValues == {MakeBooleanValue(TRUE), MakeIntegerValue(-10), NoValue}

=============================================================================
