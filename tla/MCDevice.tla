------------------------------ MODULE MCDevice ------------------------------
(* Values of the constants for model checking the device on its own. *)
EXTENDS DeviceProperties

Led == {"led1"}
LedKind == [n \in Led |-> "led"]

\* One Node more than the device has room for.
ThreeNodes == {"led1", "button1", "led2"}
ThreeNodesKind == [n \in ThreeNodes |-> IF n = "button1" THEN "button" ELSE "led"]

\* src/main.cpp, examples/BasicLed/main.cpp: begin() comes first
BeginThenAddLed == <<"begin", "led1">>
\* README.md: begin() comes last
AddNodesThenBegin == <<"led1", "button1", "led2", "begin">>

Cmd(id, property, payload) == [nodeId |-> id, propertyId |-> property, payload |-> payload]
SetCommand == {Cmd("led", "s", "1")}
LedCommands == {Cmd("led", "s", "1"), Cmd("led", "s", "0"), Cmd("led", "s", "none")}
AllCommands ==
  LedCommands \cup
  {Cmd("led", "s", "other"), Cmd("led", "other", "none"), Cmd("led", "none", "none"),
   Cmd("unknown", "s", "none"), Cmd("button", "s", "1"), Cmd("button", "s", "none")}

=============================================================================
