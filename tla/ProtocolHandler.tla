--------------------------- MODULE ProtocolHandler --------------------------
(***************************************************************************)
(* ProtocolHandler at the granularity of lines: what one received line     *)
(* makes of the emitter and of the command slot, and which line each send  *)
(* function writes.                                                        *)
(***************************************************************************)
EXTENDS Events

CONSTANT
  HostCommand    \* the well-formed commands the host may send

VARIABLES
  phEvent,       \* m_eventEmitter
  phCommand      \* m_command, or NoCommand when m_hasCommand is false

NoCommand == [nodeId |-> "none", propertyId |-> "none", payload |-> "none"]

\* The events a line can raise.
ReceivedEvents ==
  {"UP_ACK", "CFG_ACK", "HB_ACK", "CMD_ACK", "RUN_RCV", "IDLE_RCV", "DIS_RCV",
   "REBOOT", "GET_STATE", "CMD_PARSE_ERROR"}

TypeOK ==
  /\ phEvent \in {"NONE"} \cup ReceivedEvents
  /\ phCommand \in HostCommand \cup {NoCommand}

-----------------------------------------------------------------------------
(* Received lines: the ProtocolMessage the text stands for, and the command   *)
(* of a CMD line that parses.  "OTHER" are the texts that stand for a message *)
(* the device ignores and those that stand for none.                          *)

HostMessage ==
  {"UP_ACK", "CFG_ACK", "HB_ACK", "CMD_ACK", "RUN", "IDLE", "DIS", "REBOOT",
   "GET_STATE", "CMD", "OTHER"}

HostLine ==
  [message : HostMessage, command : {NoCommand}]
    \cup [message : {"CMD"}, command : HostCommand]

EventOf(message) ==
  CASE message = "RUN"  -> "RUN_RCV"
    [] message = "IDLE" -> "IDLE_RCV"
    [] message = "DIS"  -> "DIS_RCV"
    [] message \in {"UP_ACK", "CFG_ACK", "HB_ACK", "CMD_ACK", "REBOOT", "GET_STATE"} -> message
    [] OTHER            -> "NONE"

EventOfLine(l) ==
  IF l.message = "CMD" /\ l.command = NoCommand THEN "CMD_PARSE_ERROR" ELSE EventOf(l.message)

-----------------------------------------------------------------------------
(* Lines written to the transport. *)

\* Of a command a reply repeats the path, not the payload.
Path(c) == [nodeId |-> c.nodeId, propertyId |-> c.propertyId]

Line(kind) == [kind |-> kind, path |-> Path(NoCommand), detail |-> "NONE"]
NoLine == Line("NONE")

StateKinds == {"UP", "CFG", "RUN", "IDLE", "DIS"}
ReplyKinds == {"CMD_ACK", "CMD_RESPONSE", "CMD_ERROR"}
LineKinds ==
  StateKinds \cup ReplyKinds \cup {"NONE", "CONFIG", "HB", "NODE_EVENT", "STATUS"}

\* sendState writes nothing for STATE_BOOT.
StateLine(s) ==
  CASE s = "BOOT"     -> NoLine
    [] s = "DISABLED" -> Line("DIS")
    [] OTHER          -> Line(s)

ReplyLine(c, result) ==
  [kind |-> CASE result.type = "ACK"      -> "CMD_ACK"
              [] result.type = "RESPONSE" -> "CMD_RESPONSE"
              [] result.type = "ERROR"    -> "CMD_ERROR",
   path |-> Path(c), detail |-> result.detail]

-----------------------------------------------------------------------------

Init == phEvent = "NONE" /\ phCommand = NoCommand

\* begin() clears the buffer and the emitter, and not the command.
Begin == phEvent' = "NONE" /\ UNCHANGED phCommand

\* receive() of the newline that ends line l, with processMessage() and parseCommand()
Receive(l) ==
  /\ phEvent' = EmitEvent(phEvent, EventOfLine(l))
  /\ phCommand' = IF l.message = "CMD" THEN l.command ELSE phCommand

ReleaseCommand == phCommand' = NoCommand

=============================================================================
