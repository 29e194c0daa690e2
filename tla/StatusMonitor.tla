---------------------------- MODULE StatusMonitor ---------------------------
(***************************************************************************)
(* StatusMonitor: raises STATUS_UPDATE every MAX_INTERVAL.                 *)
(***************************************************************************)
EXTENDS Events, Millis

CONSTANT MAX_INTERVAL

VARIABLES
  st,        \* m_lastUpdateTime
  stEvent    \* m_eventEmitter

TypeOK ==
  /\ st \in Instant
  /\ stEvent \in {"NONE", "STATUS_UPDATE"}

-----------------------------------------------------------------------------

Init == st = 0 /\ stEvent = "NONE"

\* begin() leaves the emitter alone, unlike the other monitors.
Begin(now) == st' = now /\ UNCHANGED stEvent

\* The time is taken before the interval is checked.
Update_RestartsInterval(now) ==
  /\ st' = now
  /\ stEvent' = IF Elapsed(now, st) >= MAX_INTERVAL
                THEN EmitEvent(stEvent, "STATUS_UPDATE") ELSE stEvent

Update(now) ==
  IF Elapsed(now, st) >= MAX_INTERVAL
  THEN st' = now /\ stEvent' = EmitEvent(stEvent, "STATUS_UPDATE")
  ELSE UNCHANGED <<st, stEvent>>

=============================================================================
