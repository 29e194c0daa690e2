------------------------------ MODULE HostRecovery -----------------------------
(***************************************************************************)
(* Why there is a session again in bounded time after a fault, and why it  *)
(* lasts: what is left of RecoveryTime, against what the handshake still   *)
(* takes, in each of its phases.                                           *)
(***************************************************************************)
EXTENDS HostTiming

\* An interval, and the two passes by which its end can be noticed late.
Patience(interval) == interval - 1 + 2 * MaxLag

\* A handshake from its start: two intervals, and two answers.
Handshake == 2 * (Patience(CONFIG_INTERVAL) + Answer)

\* Answers come before the interval they are awaited for is over, both intervals fit in a
\* turn of the clock, and RecoveryTime is enough to notice a loss and start over.
HostIsQuick ==
  /\ Answer < CONFIG_INTERVAL /\ Answer < HEARTBEAT_INTERVAL
  /\ CONFIG_INTERVAL + 2 * MaxLag <= Wrap /\ HEARTBEAT_INTERVAL + 2 * MaxLag <= Wrap
  /\ Patience(CONFIG_INTERVAL) + Handshake <= RecoveryTime
  /\ Patience(HEARTBEAT_INTERVAL) + Handshake <= RecoveryTime

\* The phases of a pass before a monitor is updated, and those of setup().
BeforeHeartbeat == pc \in {"setup", "protocol", "events", "commands", "heartbeat"}
BeforeConfig == BeforeHeartbeat \/ pc \in {"heartbeatEvents", "config"}

\* How late the end of an interval can have been missed, in this pass and the one before.
HeartbeatSlack == (IF BeforeHeartbeat THEN MaxLag ELSE 0) + lag
ConfigSlack == (IF BeforeConfig THEN MaxLag ELSE 0) + lag

\* No monitor misses the end of its interval by more than two passes.
MonitorsAreOnTime ==
  Started =>
    /\ hb.run
    /\ HeartbeatAge <= HEARTBEAT_INTERVAL - 1 + HeartbeatSlack
    /\ cm.run => HandshakeAge <= CONFIG_INTERVAL - 1 + ConfigSlack

\* There are d milliseconds left of RecoveryTime.
Left(d) == since + d <= RecoveryTime

\* When this pass is over, there is time left for a whole handshake.
StartsOver == Left(MaxLag - lag + Handshake)

\* When the i-th cell is handled, there are d milliseconds left.
Leaves(i, d) == DueIn(i, RecoveryTime - since - d)

\* In UP there is time for an interval, if need be, and the rest of a handshake.
UpInTime ==
  LET rest == Patience(CONFIG_INTERVAL) + Answer
  IN  \/ Left(Patience(CONFIG_INTERVAL) - HandshakeAge + Answer + rest)
      \/ Announcing /\ Left(Answer - HandshakeAge + rest)
      \/ \E i \in DOMAIN Unanswered :
           Announces(Unanswered[i]) /\ Leaves(i, rest)

\* In CFG the configuration is asked for and answered in time, or there is time left to
\* start over.
ConfigInTime ==
  \/ ~cm.waiting /\ Left(Patience(CONFIG_INTERVAL) - HandshakeAge + Answer)
  \/ cm.waiting /\ cmEvent = "CFG_REQUEST" /\ Left(Answer - HandshakeAge)
  \/ cm.waiting /\ \E i \in DOMAIN Unanswered :
       /\ Configures(Unanswered[i])
       /\ Leaves(i, 0) /\ DueIn(i, CONFIG_INTERVAL - 1 - HandshakeAge)
  \/ cm.waiting /\ Left(Patience(CONFIG_INTERVAL) - HandshakeAge + Handshake)

HandshakeInTime ==
  /\ sm = "BOOT" \/ cmEvent = "CFG_TIMEOUT" => StartsOver
  /\ sm = "UP" => UpInTime
  /\ sm = "CFG" /\ cmEvent # "CFG_TIMEOUT" => ConfigInTime

\* A heartbeat that is waited for is answered in time, or there is time left to notice
\* that it is not.
HeartbeatInTime ==
  /\ hbEvent = "HB_TIMEOUT" => StartsOver
  /\ Started /\ hb.waiting =>
       \/ Beating
       \/ \E i \in DOMAIN Unanswered :
            Beats(Unanswered[i]) /\ DueIn(i, HEARTBEAT_INTERVAL - 1 - HeartbeatAge)
       \/ Left(Patience(HEARTBEAT_INTERVAL) - HeartbeatAge + Handshake)

RebootInTime ==
  \A i \in DOMAIN Unanswered : Unanswered[i] = "REBOOT" => Leaves(i, Handshake)

\* The device starts when begin() is called, and not before.
BegunOnce == Started => \E i \in 1 .. called : SetupCalls[i] = "begin"

RecoveryInv ==
  /\ BegunOnce /\ MonitorsAreOnTime
  /\ HandshakeInTime /\ HeartbeatInTime /\ RebootInTime

=============================================================================
