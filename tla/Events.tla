------------------------------- MODULE Events -------------------------------
(***************************************************************************)
(* EventType and EventEmitter of include/NodeControl/Events.h, and         *)
(* StartupMode.  An event is named by its EventType without the EVENT_     *)
(* prefix.  An EventEmitter is a single slot: the event it holds, or       *)
(* "NONE" when m_hasEvent is false.                                        *)
(***************************************************************************)

EventType ==
  {"NONE", "UP_ACK", "UP_REQUEST", "UP_TIMEOUT", "RUN_RCV", "IDLE_RCV",
   "CFG_ACK", "CFG_REQUEST", "CFG_TIMEOUT", "DIS_RCV", "CMD_ACK", "CMD_RCV",
   "CMD_TIMEOUT", "HB_ACK", "HB_REQUEST", "HB_TIMEOUT", "REBOOT", "GET_STATE",
   "CMD_ERROR", "CMD_PARSE_ERROR", "BUFFER_OVERFLOW", "STATUS_UPDATE"}

StartupModes == {"MANAGED", "STANDALONE"}

HasEvent(slot) == slot # "NONE"

\* A second event is dropped while the first has not been consumed.
EmitEvent(slot, e) == IF HasEvent(slot) THEN slot ELSE e

=============================================================================
