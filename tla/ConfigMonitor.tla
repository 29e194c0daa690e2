---------------------------- MODULE ConfigMonitor ---------------------------
(***************************************************************************)
(* ConfigMonitor: drives the handshake.  It keeps a copy of its own of the *)
(* handshake state (cm.state), and every CONFIG_INTERVAL it alternates     *)
(* between asking for an answer and giving up on it.                       *)
(***************************************************************************)
EXTENDS Events, Millis

CONSTANTS StartupMode, CONFIG_INTERVAL

VARIABLES
  cm,        \* [run, state, waiting, last] = m_run, m_state, m_waitingConfig, m_lastConfigTime
  cmEvent    \* m_eventEmitter

Monitor == [run : BOOLEAN, state : {"UP", "CFG"}, waiting : BOOLEAN, last : Instant]

Requests == {"UP_REQUEST", "CFG_REQUEST"}
Timeouts == {"UP_TIMEOUT", "CFG_TIMEOUT"}

TypeOK ==
  /\ cm \in Monitor
  /\ cmEvent \in {"NONE"} \cup Requests \cup Timeouts

Fresh(now) == [run |-> TRUE, state |-> "UP", waiting |-> FALSE, last |-> now]

-----------------------------------------------------------------------------

\* Member initialisers.
Unstarted == [run |-> FALSE, state |-> "UP", waiting |-> FALSE, last |-> 0]

Init == cm = Unstarted /\ cmEvent = "NONE"

Begin(now) ==
  /\ cm' = [Fresh(now) EXCEPT !.run = StartupMode = "MANAGED"]
  /\ cmEvent' = "NONE"

\* The startup mode is not looked at.
RestartHandshake_AnyMode(now) == cm' = Fresh(now)

\* The time is forgotten, as it is when the handshake stops.
RestartHandshake_FromZero(now) ==
  cm' = IF StartupMode = "MANAGED" THEN [Fresh(now) EXCEPT !.last = 0] ELSE cm

RestartHandshake(now) ==
  cm' = IF StartupMode = "MANAGED" THEN Fresh(now) ELSE cm

\* An unanswered request is never given up.
Update_NeverTimesOut(now) ==
  IF cm.run /\ Elapsed(now, cm.last) >= CONFIG_INTERVAL
  THEN /\ cm' = [cm EXCEPT !.waiting = TRUE, !.last = now]
       /\ cmEvent' = EmitEvent(cmEvent, IF cm.state = "UP" THEN "UP_REQUEST" ELSE "CFG_REQUEST")
  ELSE UNCHANGED <<cm, cmEvent>>

\* Asks once and then waits for ever.
Update_AsksOnce(now) ==
  IF cm.run /\ ~cm.waiting /\ Elapsed(now, cm.last) >= CONFIG_INTERVAL
  THEN /\ cm' = [cm EXCEPT !.waiting = TRUE, !.last = now]
       /\ cmEvent' = EmitEvent(cmEvent, IF cm.state = "UP" THEN "UP_REQUEST" ELSE "CFG_REQUEST")
  ELSE UNCHANGED <<cm, cmEvent>>

Update(now) ==
  IF cm.run /\ Elapsed(now, cm.last) >= CONFIG_INTERVAL
  THEN /\ cm' = [cm EXCEPT !.waiting = ~cm.waiting, !.last = now]
       /\ cmEvent' = EmitEvent(cmEvent,
            CASE cm.waiting /\ cm.state = "UP"   -> "UP_TIMEOUT"
              [] cm.waiting /\ cm.state = "CFG"  -> "CFG_TIMEOUT"
              [] ~cm.waiting /\ cm.state = "UP"  -> "UP_REQUEST"
              [] ~cm.waiting /\ cm.state = "CFG" -> "CFG_REQUEST")
  ELSE UNCHANGED <<cm, cmEvent>>

Stopped == [run |-> FALSE, state |-> "UP", waiting |-> FALSE, last |-> 0]

\* Touches m_state whether or not the handshake is running: only RestartHandshake
\* makes a stray UP_ACK harmless.
HandleEvent(e, now) ==
  \/ /\ e = "CFG_ACK" /\ cm.state = "CFG"
     /\ cm' = Stopped
  \/ /\ e = "UP_ACK" /\ cm.state = "UP"
     /\ cm' = [cm EXCEPT !.state = "CFG", !.waiting = FALSE, !.last = now]
  \/ /\ e \in {"REBOOT", "HB_TIMEOUT"}
     /\ RestartHandshake(now)
  \/ /\ ~(e = "CFG_ACK" /\ cm.state = "CFG")
     /\ ~(e = "UP_ACK" /\ cm.state = "UP")
     /\ e \notin {"REBOOT", "HB_TIMEOUT"}
     /\ UNCHANGED cm

=============================================================================
