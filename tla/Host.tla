-------------------------------- MODULE Host --------------------------------
(***************************************************************************)
(* A host that keeps its side of the session, and the serial line between  *)
(* it and the device (external).  It answers each announcement, each       *)
(* configuration and each heartbeat, in order, MaxDelay milliseconds after *)
(* the answer before at the latest; what it does not answer it has read    *)
(* all the same.                                                           *)
(***************************************************************************)
EXTENDS Naturals, Sequences

CONSTANT MaxDelay

VARIABLES
  toHost,        \* the kinds of the lines on their way that will be answered
  toDevice,      \* the messages on their way
  delay,         \* milliseconds the host has had its first line to answer
  configured     \* whether the host has read a configuration since the last announcement

host == <<toHost, toDevice, delay, configured>>

Answer == [UP |-> "UP_ACK", CONFIG |-> "CFG_ACK", HB |-> "HB_ACK"]
Wishes == {"RUN", "IDLE", "DIS", "REBOOT"}

TypeOK ==
  /\ toHost \in Seq({"UP", "CONFIG", "HB"})
  /\ toDevice \in Seq({"UP_ACK", "CFG_ACK", "HB_ACK"} \cup Wishes)
  /\ delay \in 0 .. MaxDelay /\ configured \in BOOLEAN

-----------------------------------------------------------------------------

Init == toHost = << >> /\ toDevice = << >> /\ delay = 0 /\ configured = FALSE

\* The device has written a line.
Hear(kind) == toHost' = IF kind \in DOMAIN Answer THEN Append(toHost, kind) ELSE toHost

\* An announcement makes the host forget what it knew.
AnswerLine ==
  /\ toHost # << >>
  /\ toHost' = Tail(toHost) /\ delay' = 0
  /\ toDevice' = Append(toDevice, Answer[Head(toHost)])
  /\ configured' = IF Head(toHost) = "HB" THEN configured ELSE Head(toHost) = "CONFIG"

\* The host's user wants something of the device; nothing else is on its way to it.
Request(message) ==
  /\ toDevice = << >> /\ toDevice' = <<message>>
  /\ UNCHANGED <<toHost, delay, configured>>

\* A line is lost, in either direction.
Lose ==
  \/ toHost # << >> /\ toHost' = Tail(toHost) /\ delay' = 0 /\ UNCHANGED <<toDevice, configured>>
  \/ toDevice # << >> /\ toDevice' = Tail(toDevice) /\ UNCHANGED <<toHost, delay, configured>>

\* A millisecond passes; the host is not slower than it promises.
InTime == toHost # << >> => delay < MaxDelay
Wait == delay' = IF toHost = << >> THEN 0 ELSE delay + 1

=============================================================================
