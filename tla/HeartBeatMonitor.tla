-------------------------- MODULE HeartBeatMonitor --------------------------
(***************************************************************************)
(* HeartBeatMonitor: every HEARTBEAT_INTERVAL it asks for a heartbeat, or  *)
(* declares the host lost when the one it asked for has not been answered. *)
(* It runs during the handshake as well as in a session.                   *)
(***************************************************************************)
EXTENDS Events, Millis

CONSTANT HEARTBEAT_INTERVAL

VARIABLES
  hb,        \* [run, waiting, last] = m_run, m_waitingHeartbeat, m_lastHeartbeatTime
  hbEvent    \* m_eventEmitter

Monitor == [run : BOOLEAN, waiting : BOOLEAN, last : Instant]

TypeOK ==
  /\ hb \in Monitor
  /\ hbEvent \in {"NONE", "HB_REQUEST", "HB_TIMEOUT"}

-----------------------------------------------------------------------------

\* Member initialisers: the heartbeat is enabled until begin() decides.
Unstarted == [run |-> TRUE, waiting |-> FALSE, last |-> 0]

Init == hb = Unstarted /\ hbEvent = "NONE"

\* begin(), then enableHeartbeat() or disableHeartbeat()
Begin(now, enabled) ==
  /\ hb' = [run |-> enabled, waiting |-> FALSE, last |-> now]
  /\ hbEvent' = "NONE"

\* An unanswered heartbeat is asked for again.
Update_AsksAgain(now) ==
  IF hb.run /\ Elapsed(now, hb.last) >= HEARTBEAT_INTERVAL
  THEN /\ hb' = [hb EXCEPT !.waiting = TRUE, !.last = now]
       /\ hbEvent' = EmitEvent(hbEvent, "HB_REQUEST")
  ELSE UNCHANGED <<hb, hbEvent>>

Update(now) ==
  IF hb.run /\ Elapsed(now, hb.last) >= HEARTBEAT_INTERVAL
  THEN /\ hb' = [hb EXCEPT !.waiting = ~hb.waiting, !.last = now]
       /\ hbEvent' = EmitEvent(hbEvent, IF hb.waiting THEN "HB_TIMEOUT" ELSE "HB_REQUEST")
  ELSE UNCHANGED <<hb, hbEvent>>

\* The interval is restarted, the outstanding request is not forgotten.
HandleEvent_KeepsWaiting(e, now) ==
  hb' = IF e \in {"HB_ACK", "REBOOT"} THEN [hb EXCEPT !.last = now] ELSE hb

\* Any acknowledgement counts as a heartbeat.
HandleEvent_AnyAck(e, now) ==
  hb' = IF e \in {"HB_ACK", "UP_ACK", "CFG_ACK", "REBOOT"}
        THEN [hb EXCEPT !.waiting = FALSE, !.last = now] ELSE hb

HandleEvent(e, now) ==
  hb' = IF e \in {"HB_ACK", "REBOOT"}
        THEN [hb EXCEPT !.waiting = FALSE, !.last = now] ELSE hb

=============================================================================
