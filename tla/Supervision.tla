----------------------------- MODULE Supervision ----------------------------
(***************************************************************************)
(* The time bounds of the heartbeat.  Two history variables measure, in    *)
(* milliseconds, what the device itself only sees through a clock that     *)
(* wraps and that it reads once a pass.                                    *)
(***************************************************************************)
EXTENDS DeviceProperties

VARIABLES
  silence,   \* since the host was last heard or given up
  asked      \* since a heartbeat was asked for in this silence, or Never

\* An interval and the two passes by which it can be noticed late are less than a turn of
\* the clock: 60 s against 49 days on the board.
ASSUME SupervisionAssumption == HEARTBEAT_INTERVAL + 2 * MaxLag <= Wrap

Cap == 2 * HEARTBEAT_INTERVAL + 4 * MaxLag + 1
Never == Cap + 1

\* An HB_ACK or a REBOOT is handled.
Heard == pc = "events" /\ phEvent \in {"HB_ACK", "REBOOT"} /\ phEvent' = "NONE"
GivenUp == hbEvent = "HB_TIMEOUT" /\ hbEvent' = "NONE"
SettingUp == pc = "setup" \/ pc' = "setup"

Older(age) == IF now' # now /\ age < Cap THEN age + 1 ELSE age

History ==
  IF Heard \/ GivenUp \/ SettingUp
  THEN silence' = 0 /\ asked' = Never
  ELSE /\ silence' = Older(silence)
       /\ asked' = IF out' # out /\ out'.kind = "HB" THEN 0 ELSE Older(asked)

SupervisionSpec ==
  /\ Init /\ silence = 0 /\ asked = Never
  /\ [][Next /\ History]_<<vars, silence, asked>>

-----------------------------------------------------------------------------

\* A lost host is noticed in time: with at most MaxLag a pass, a managed device is never
\* in any state but BOOT for two heartbeat intervals, plus the two passes by which each
\* of them can be noticed late, without having heard the host or given it up.
SilenceBounded ==
  Managed /\ Started => silence <= 2 * (HEARTBEAT_INTERVAL - 1) + 4 * MaxLag

\* The host is given up only for a heartbeat it was asked for on the wire, in this very
\* silence, and had HEARTBEAT_INTERVAL (less the pass in which the line went out) to
\* answer: neither a late pass, nor a handshake, nor an old request counts against it.
TimeoutDeserved ==
  hbEvent = "HB_TIMEOUT" => asked # Never /\ asked + MaxLag >= HEARTBEAT_INTERVAL

-----------------------------------------------------------------------------
(* The inductive invariant: the time since the monitor's last timestamp, as   *)
(* the monitor measures it, against the two histories.                        *)

Age == Elapsed(now, hb.last)

\* The phases of a pass before the monitor is updated, and those of setup().
BeforeUpdate == pc \in {"setup", "protocol", "events", "commands", "heartbeat"}

\* The monitor never misses its interval by more than two passes.
AgeBounded ==
  hb.run /\ Age <= HEARTBEAT_INTERVAL - 1 + (IF BeforeUpdate THEN MaxLag ELSE 0) + lag

\* What is raised and still to be handled was raised in this pass.
RequestIsCurrent == hbEvent = "HB_REQUEST" => hb.waiting /\ Age <= lag

\* A timeout that is raised and not yet handled comes after two intervals of silence, the
\* second of them after asking.
TimeoutIsDue ==
  hbEvent = "HB_TIMEOUT" =>
    /\ ~hb.waiting
    /\ silence <= 2 * (HEARTBEAT_INTERVAL - 1) + 3 * MaxLag + lag
    /\ asked # Never /\ asked + MaxLag >= HEARTBEAT_INTERVAL

\* The interval measures the silence: the second one when an answer is waited for.
SilenceMeasured ==
  /\ ~hb.waiting /\ hbEvent # "HB_TIMEOUT" => silence <= Age
  /\ hb.waiting => silence <= HEARTBEAT_INTERVAL - 1 + 2 * MaxLag + Age

\* An answer that is waited for has been asked for, on the wire, within a pass of the
\* timestamp.
RequestSent == hb.waiting /\ hbEvent # "HB_REQUEST" => asked <= Age /\ Age <= asked + MaxLag

\* setup() leaves nothing to be answered.
SetupIsQuiet == pc = "setup" => ~hb.waiting

Measured ==
  /\ AgeBounded /\ RequestIsCurrent /\ TimeoutIsDue
  /\ SilenceMeasured /\ RequestSent /\ SetupIsQuiet

\* Together: what the monitor measures is what the histories say, within a pass or two.
SupervisionInv ==
  /\ silence \in Nat /\ asked \in 0 .. Never
  /\ hbEvent # "NONE" => out = NoLine
  /\ Managed /\ Started => Measured

=============================================================================
