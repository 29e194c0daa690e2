------------------------------- MODULE Session ------------------------------
(***************************************************************************)
(* What the device promises its host, without monitors, timers, emitters   *)
(* or a loop: the phases of a session, and in each phase the lines that    *)
(* may appear on the transport.  A managed device is announced, then       *)
(* configured, then active in one of three modes; it goes back to the      *)
(* start and never skips a step.  A standalone device is always active.    *)
(***************************************************************************)
CONSTANT StartupMode

VARIABLES
  phase,     \* the state of the session
  line       \* the kind of the line on the transport, or "NONE"

Managed == StartupMode = "MANAGED"
Modes == {"RUN", "IDLE", "DISABLED"}
Entry == IF Managed THEN "UP" ELSE "RUN"

\* The lines that may be written in phase p.  The configuration goes out only while
\* the host is being asked to confirm it, the status and the Nodes' answers only to a
\* host that has confirmed it, and a standalone device asks for nothing.
Sayable(p) ==
  {"NONE", "CMD_ERROR"}
    \cup (IF Managed THEN {"HB"} ELSE {})
    \cup (CASE p = "BOOT"     -> {}
            [] p = "UP"       -> {"UP"}
            [] p = "CFG"      -> {"CFG", "CONFIG"}
            [] p = "RUN"      -> {"RUN", "CMD_ACK", "CMD_RESPONSE", "NODE_EVENT", "STATUS"}
            [] p = "IDLE"     -> {"IDLE", "CMD_ACK", "CMD_RESPONSE", "NODE_EVENT"}
            [] p = "DISABLED" -> {"DIS"})

-----------------------------------------------------------------------------

Init == phase = "BOOT" /\ line = "NONE"

Move(p, q) == phase = p /\ phase' = q /\ line' = "NONE"

Start == Move("BOOT", Entry)
Announced == Managed /\ Move("UP", "CFG")
Configured == Managed /\ Move("CFG", "RUN")
ChangeMode == \E p, q \in Modes : Move(p, q)
Restart == \E p \in {"UP", "CFG"} \cup Modes : Move(p, Entry)
PowerCycle == phase' = "BOOT" /\ line' = "NONE"
Say == phase' = phase /\ line' \in Sayable(phase)

Next == Start \/ Announced \/ Configured \/ ChangeMode \/ Restart \/ PowerCycle \/ Say

Spec == Init /\ [][Next]_<<phase, line>>

=============================================================================
