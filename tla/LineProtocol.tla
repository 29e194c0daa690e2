---------------------------- MODULE LineProtocol ----------------------------
(***************************************************************************)
(* What Orquestrator relies on: ProtocolHandler takes whole lines, one at  *)
(* a time, and keeps the event or the command a line stands for until it   *)
(* is fetched.  There is no buffer, and a command has a payload of its     *)
(* own.                                                                    *)
(***************************************************************************)
EXTENDS ProtocolHandler

\* update() stops at the first line that stands for something.
TakeLine(l) ==
  /\ phEvent = "NONE" /\ phCommand = NoCommand
  /\ Receive(l)

GetEvent == phEvent # "NONE" /\ phEvent' = "NONE" /\ UNCHANGED phCommand

AnswerCommand == phCommand # NoCommand /\ ReleaseCommand /\ UNCHANGED phEvent

PowerCycle == phEvent' = "NONE" /\ phCommand' = NoCommand

Next ==
  \/ \E l \in HostLine : TakeLine(l)
  \/ GetEvent \/ AnswerCommand \/ PowerCycle

Spec == Init /\ [][Next]_<<phEvent, phCommand>>

=============================================================================
