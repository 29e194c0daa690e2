------------------------------ MODULE HostTiming ------------------------------
(***************************************************************************)
(* How long what is unanswered stays so: the delays of the host and of the *)
(* device's loop against the intervals of its monitors.  TimingInv is why  *)
(* answers keep up with the retries.                                       *)
(***************************************************************************)
EXTENDS HostSession

\* What one more line costs when others are ahead of it: the slower of the two sides.
Slower == IF MaxLag <= MaxDelay THEN MaxDelay ELSE MaxLag

\* The answer to a line that is alone on its way, from the pass in which it is asked for:
\* that pass, the host, and three more for a wish of the user, the answer, and its handling.
Response == MaxDelay + 4 * MaxLag

\* The answer to any line: one of the other monitor may be ahead of it.
Answer == Response + Slower

\* The host and the loop are prompt against the intervals: announcements of two intervals
\* ago have been answered.
HostIsPrompt ==
  /\ 2 * Slower <= CONFIG_INTERVAL /\ 2 * Slower <= HEARTBEAT_INTERVAL
  /\ Answer <= 2 * CONFIG_INTERVAL

-----------------------------------------------------------------------------
(* When what is unanswered is handled, if nothing of it is lost. *)

\* What the cells ahead of the i-th take the device, and the lines ahead of the n-th the host.
Passes(i) == MaxLag * (i - 1)
Turns(n) == Slower * (n - 1)

\* Milliseconds until the device is done with the i-th cell of Unanswered, if it has got
\* that far: it reads one message a pass, and handles it in that pass.
ByDevice(i) == Passes(i) + (IF pc = "protocol" THEN 0 ELSE MaxLag) - lag

\* Milliseconds until it is done with the n-th line the host has to answer, if nothing but
\* a wish of the user is ahead of the answer.
ByHost(n) == MaxDelay - delay + Turns(n) + 3 * MaxLag

\* The device is done with the i-th cell within d milliseconds.
DueIn(i, d) ==
  /\ ByDevice(i) <= d
  /\ i > Len(Answered) => ByHost(i - Len(Answered)) <= d

-----------------------------------------------------------------------------
(* Answers are prompt. *)

\* How long ago the monitors last asked, or started over; while the handshake is stopped
\* nothing is known of it.
HandshakeAge == IF cm.run THEN Elapsed(now, cm.last) ELSE 0
HeartbeatAge == Elapsed(now, hb.last)

Beats(x) == x \in {"HB", "HB_ACK"}
Awaited(x) == Announces(x) \/ Configures(x) \/ Beats(x)

\* What is asked for and not yet written.
Announcing == cmEvent \in {"UP_REQUEST", "UP_TIMEOUT"}
Asking == Announcing \/ cmEvent = "CFG_REQUEST"
Beating == hbEvent = "HB_REQUEST"

RequestsAreFresh ==
  /\ Asking => cm.run /\ HandshakeAge <= lag
  /\ cmEvent = "CFG_REQUEST" => cm.waiting
  /\ Beating => HeartbeatAge <= lag

\* The host's user waits for the line to be free, and nobody asks for the state.
WishesGoFirst ==
  /\ phEvent # "GET_STATE"
  /\ \A i \in DOMAIN toDevice : i > 1 => Awaited(toDevice[i])
  /\ toHost = << >> => delay = 0

\* The i-th cell is done with in time, when the monitors are a and b milliseconds on: one of
\* them asked when nothing else was on the way, or both did.
InTime(i, a, b) ==
  \/ DueIn(i, Response - a)
  \/ DueIn(i, Response - b)
  \/ DueIn(i, Answer - a) /\ DueIn(i, Answer - b)

\* What the line that is yet to be written costs those ahead of it.
Cost == IF Asking \/ Beating THEN Slower ELSE 0

AnswersArePrompt ==
  \A i \in DOMAIN Unanswered : Awaited(Unanswered[i]) =>
    InTime(i, HandshakeAge + Cost, HeartbeatAge + Cost)

\* In CFG an announcement that is still unanswered is older than what the monitor
\* measures, and by an interval when it has asked for the configuration.
AnnouncementsAge ==
  cm.run /\ cm.state = "CFG" =>
    \A i \in DOMAIN Unanswered : Announces(Unanswered[i]) =>
      DueIn(i, Answer - HandshakeAge - (IF cm.waiting THEN CONFIG_INTERVAL ELSE 0))

\* And so is an announcement that a configuration has followed, whatever has come since.
AttemptsAge ==
  \A i, j \in DOMAIN Unanswered :
    i < j /\ Announces(Unanswered[i]) /\ Configures(Unanswered[j]) =>
      DueIn(i, Answer - HandshakeAge - CONFIG_INTERVAL)

AttemptsEnd == Announcing => ~UpThenConfig(Unanswered)

TimingInv ==
  /\ RequestsAreFresh /\ WishesGoFirst
  /\ AnswersArePrompt /\ AnnouncementsAge /\ AttemptsAge /\ AttemptsEnd

===============================================================================
