---------------------------- MODULE StateMachine ----------------------------
(***************************************************************************)
(* StateMachine: the state the device publishes.  Events other than those  *)
(* of the table leave it alone; the reset events win over the table.       *)
(***************************************************************************)
CONSTANT StartupMode

VARIABLE sm          \* m_state

States == {"BOOT", "UP", "CFG", "RUN", "IDLE", "DISABLED"}

\* The states in which a session with the host is established.
Active == {"RUN", "IDLE", "DISABLED"}

\* Where begin() and reset() go.
StartState == IF StartupMode = "STANDALONE" THEN "RUN" ELSE "UP"

ResetEvents == {"REBOOT", "HB_TIMEOUT", "UP_TIMEOUT", "CFG_TIMEOUT"}

\* Each phase of the handshake takes the acknowledgement of either.
Successor_AnyAck(s, e) ==
  CASE s = "UP" /\ e \in {"UP_ACK", "CFG_ACK"}         -> "CFG"
    [] s = "CFG" /\ e \in {"UP_ACK", "CFG_ACK"}        -> "RUN"
    [] s \in {"RUN", "DISABLED"} /\ e = "IDLE_RCV"    -> "IDLE"
    [] s \in {"RUN", "IDLE"} /\ e = "DIS_RCV"         -> "DISABLED"
    [] s \in {"IDLE", "DISABLED"} /\ e = "RUN_RCV"    -> "RUN"
    [] OTHER                                          -> s

Successor(s, e) ==
  CASE s = "UP" /\ e = "UP_ACK"                       -> "CFG"
    [] s = "CFG" /\ e = "CFG_ACK"                     -> "RUN"
    [] s \in {"RUN", "DISABLED"} /\ e = "IDLE_RCV"    -> "IDLE"
    [] s \in {"RUN", "IDLE"} /\ e = "DIS_RCV"         -> "DISABLED"
    [] s \in {"IDLE", "DISABLED"} /\ e = "RUN_RCV"    -> "RUN"
    [] OTHER                                          -> s

-----------------------------------------------------------------------------

Init == sm = "BOOT"

Begin == sm' = StartState

\* A handshake message that arrives late takes the device out of a session.
HandleEvent_LateAck(e) ==
  sm' = CASE e \in ResetEvents -> StartState
          [] e = "UP_ACK"      -> "CFG"
          [] OTHER             -> Successor(sm, e)

HandleEvent(e) ==
  sm' = IF e \in ResetEvents THEN StartState ELSE Successor(sm, e)

=============================================================================
