-------------------------- MODULE SupervisionProofs --------------------------
(***************************************************************************)
(* Proofs about Supervision: the time bounds of the heartbeat, for every   *)
(* interval, every pass length and every clock that is wide enough.        *)
(***************************************************************************)
EXTENDS Supervision, DeviceProofs

-----------------------------------------------------------------------------
(* The clock *)

\* A millisecond makes what has elapsed one more, across the wrap as elsewhere, until
\* it is a whole turn.
LEMMA ElapsedTicks ==
  ASSUME now \in Instant, NEW t \in Instant, Elapsed(now, t) < Wrap - 1
  PROVE  Elapsed(NextInstant(now), t) = Elapsed(now, t) + 1
BY WrapAssumption DEF Instant, NextInstant, Elapsed

\* Nothing has elapsed since now, and what has elapsed is a number.
LEMMA ElapsedTyped ==
  ASSUME now \in Instant, NEW t \in Instant
  PROVE  Elapsed(now, t) \in Nat /\ Elapsed(now, now) = 0
BY WrapAssumption DEF Instant, Elapsed

\* The clock does not stand still, but for one that has a single value.
LEMMA ClockMoves ==
  ASSUME now \in Instant, Wrap > 1
  PROVE  NextInstant(now) # now
BY WrapAssumption DEF Instant, NextInstant

-----------------------------------------------------------------------------
(* What a step does to the heartbeat. *)

\* HB is written when the request for it is handled, and for no other event.
LEMMA OnlyRequestsAsk ==
  ASSUME NEW e, sm \in FSM!States, e # "HB_REQUEST", HandleEvent(e)
  PROVE  out'.kind # "HB"
<1>1. PH!StateLine(sm).kind # "HB" /\ NoLine.kind # "HB"
  BY DEF PH!StateLine, NoLine, PH!NoLine, PH!Line, FSM!States
<1>2. \A k \in {"CONFIG", "STATUS"} : PH!Line(k).kind # "HB"
  BY DEF PH!Line
<1> QED
  BY <1>1, <1>2
  DEF HandleEvent, OnConfigTimeout, OnHeartbeatTimeout, OnStatusUpdate, Quiet, Write

\* A message of the host that is not a sign of life, and an event of another monitor,
\* do not touch the heartbeat.
LEMMA OnlyAnswersCount ==
  ASSUME NEW e, e \notin {"HB_ACK", "REBOOT"}, HandleEvent(e)
  PROVE  UNCHANGED hb
BY DEF HandleEvent, OnConfigTimeout, OnHeartbeatTimeout, OnStatusUpdate, HB!HandleEvent

\* A step that is nothing to the heartbeat.
Uneventful ==
  /\ UNCHANGED <<hb, hbEvent, now, lag>>
  /\ ~(out' # out /\ out'.kind = "HB")
  /\ hbEvent # "NONE" => out' = out
  /\ ~Heard /\ ~GivenUp
  /\ pc' = "setup" => pc = "setup"
  /\ BeforeUpdate' <=> BeforeUpdate
  /\ Started' => Started

\* The host is heard in this step.
Answered ==
  /\ Heard
  /\ hb' = [hb EXCEPT !.waiting = FALSE, !.last = now]
  /\ hbEvent = "NONE" /\ hbEvent' = "NONE"
  /\ Started /\ pc = "events" /\ pc' = "events"
  /\ UNCHANGED <<now, lag>>

\* Whatever the device does is one of these to the heartbeat.
LEMMA HeartbeatSteps ==
  ASSUME DeviceInv, [Next]_vars
  PROVE  \/ Begin \/ PowerCycle \/ Tick \/ NextPass
         \/ HeartbeatUpdate \/ HeartbeatEvent
         \/ Answered \/ Uneventful
<1> USE DEF monitors, Step, Heard, GivenUp, BeforeUpdate
<1>0. /\ TypeOK /\ SetupFirst /\ NothingOverwritten
      /\ (pc # "setup" => Started)
      /\ sm \in FSM!States
  BY LoopIsStarted DEF DeviceInv, TypeOK
<1>a. NoLine.kind # "HB"
  BY DEF NoLine, PH!NoLine, PH!Line
<1>b. /\ hbEvent # "NONE" => pc = "heartbeatEvents"
      /\ phEvent # "NONE" => pc = "events"
  BY <1>0 DEF NothingOverwritten
<1>1. ASSUME NEW n \in Node, AddNode(n) PROVE Uneventful
  BY <1>1, <1>a, <1>b DEF AddNode, Calling, Uneventful, Started
<1>2. ASSUME NEW n \in Node, PinChange(n) PROVE Uneventful
  BY <1>2, <1>a, <1>b DEF PinChange, Uneventful, Started
<1>3. ASSUME NEW l \in PH!HostLine, ReadLine(l) PROVE Uneventful
  BY <1>3, <1>a, <1>b, <1>0 DEF ReadLine, Quiet, Uneventful, Started
<1>4. CASE ProtocolEvent
  <2>1. phEvent # "HB_REQUEST" /\ hbEvent = "NONE" /\ pc = "events" /\ Started
    BY <1>0, <1>4, <1>b DEF ProtocolEvent, TypeOK, PH!TypeOK, PH!ReceivedEvents
  <2>2. out'.kind # "HB"
    BY <1>0, <1>4, <2>1, OnlyRequestsAsk DEF ProtocolEvent
  <2>3. CASE phEvent \in {"HB_ACK", "REBOOT"}
    <3>1. HB!HandleEvent(phEvent, now)
      BY <1>4, <2>3
      DEF ProtocolEvent, HandleEvent, OnConfigTimeout, OnHeartbeatTimeout, OnStatusUpdate
    <3> QED BY <1>4, <2>1, <2>3, <3>1 DEF ProtocolEvent, HB!HandleEvent, Answered
  <2>4. CASE phEvent \notin {"HB_ACK", "REBOOT"}
    <3>1. UNCHANGED hb
      BY <1>4, <2>4, OnlyAnswersCount DEF ProtocolEvent
    <3> QED BY <1>4, <2>1, <2>2, <2>4, <3>1 DEF ProtocolEvent, Uneventful
  <2> QED BY <2>3, <2>4
<1>5. CASE ConfigEvent
  <2>1. /\ cmEvent \notin {"HB_REQUEST", "HB_ACK", "REBOOT"}
        /\ hbEvent = "NONE" /\ pc = "configEvents" /\ Started
    BY <1>0, <1>5, <1>b
    DEF ConfigEvent, TypeOK, CM!TypeOK, CM!Requests, CM!Timeouts
  <2>2. out'.kind # "HB" /\ UNCHANGED hb
    BY <1>0, <1>5, <2>1, OnlyRequestsAsk, OnlyAnswersCount DEF ConfigEvent
  <2> QED BY <1>5, <2>1, <2>2 DEF ConfigEvent, Uneventful
<1>6. CASE StatusEvent
  <2>1. /\ stEvent \notin {"HB_REQUEST", "HB_ACK", "REBOOT"}
        /\ hbEvent = "NONE" /\ pc = "statusEvents" /\ Started
    BY <1>0, <1>6, <1>b DEF StatusEvent, TypeOK, ST!TypeOK
  <2>2. out'.kind # "HB" /\ UNCHANGED hb
    BY <1>0, <1>6, <2>1, OnlyRequestsAsk, OnlyAnswersCount DEF StatusEvent
  <2> QED BY <1>6, <2>1, <2>2 DEF StatusEvent, Uneventful
<1>7. CASE PendingCommand
  <2>1. phCommand \in HostCommand
    BY <1>0, <1>7 DEF PendingCommand, TypeOK, PH!TypeOK, NoCommand
  <2>2. NC!ErrorResult("INVALID_STATE") \in NC!CommandResult
    BY DEF NC!CommandResult, NC!CommandErrors
  <2>3. out'.kind \in PH!ReplyKinds
    BY <1>7, <2>1, <2>2, ResultTyped, ReplyTyped DEF PendingCommand, HandleCommand, Write
  <2>4. out'.kind # "HB"
    BY <2>3 DEF PH!ReplyKinds
  <2> QED BY <1>7, <1>0, <1>b, <2>4 DEF PendingCommand, Uneventful
<1>8. CASE PollNodes
  <2>1. out'.kind # "HB"
    BY <1>8 DEF PollNodes, Write, PH!Line
  <2> QED BY <1>8, <1>0, <1>b, <2>1 DEF PollNodes, Uneventful
<1>9. CASE NoMoreInput \/ NoProtocolEvent \/ NoCommandPending \/ NoHeartbeatEvent
  BY <1>9, <1>0, <1>a, <1>b
  DEF NoMoreInput, NoProtocolEvent, NoCommandPending, NoHeartbeatEvent, Quiet, HasEvent,
      Uneventful
<1>10. CASE ConfigUpdate \/ NoConfigEvent \/ NodesUpdate \/ NothingPolled \/ StatusUpdate
  BY <1>10, <1>0, <1>a, <1>b
  DEF ConfigUpdate, NoConfigEvent, NodesUpdate, NothingPolled, StatusUpdate, Quiet,
      Uneventful
<1>11. CASE UNCHANGED vars
  BY <1>11, <1>b DEF vars, Uneventful, Started
<1> QED
  BY <1>1, <1>2, <1>3, <1>4, <1>5, <1>6, <1>7, <1>8, <1>9, <1>10, <1>11
  DEF Next, Setup, Loop

-----------------------------------------------------------------------------
(* Each kind of step preserves the invariant. *)

\* The constants and the measured times are numbers.
LEMMA Numbers ==
  ASSUME TypeOK
  PROVE  /\ HEARTBEAT_INTERVAL \in Nat \ {0} /\ MaxLag \in Nat /\ Wrap \in Nat
         /\ HEARTBEAT_INTERVAL + 2 * MaxLag <= Wrap
         /\ Cap \in Nat /\ Never = Cap + 1
         /\ Cap = 2 * HEARTBEAT_INTERVAL + 4 * MaxLag + 1
         /\ Age \in Nat /\ lag \in 0 .. MaxLag
         /\ hb.last \in Instant /\ now \in Instant
         /\ hb.waiting \in BOOLEAN /\ hb.run \in BOOLEAN
<1>1. now \in Instant /\ hb.last \in Instant /\ hb.waiting \in BOOLEAN /\ hb.run \in BOOLEAN
  BY DEF TypeOK, HB!TypeOK, HB!Monitor, HB!Instant, Instant
<1>2. Age \in Nat
  BY <1>1, ElapsedTyped DEF Age
<1> QED
  BY <1>1, <1>2, OrquestratorAssumption, SupervisionAssumption, WrapAssumption
  DEF TypeOK, Cap, Never

\* The histories stay within their types.
LEMMA HistoryTyped ==
  ASSUME TypeOK, silence \in Nat, asked \in 0 .. Never, History
  PROVE  silence' \in Nat /\ asked' \in 0 .. Never
<1>1. Cap \in Nat /\ Never = Cap + 1
  BY Numbers
<1> QED BY <1>1 DEF History, Older

\* A request waits with nothing on the wire: this makes HB, when it comes, a new line.
LEMMA QuietStep ==
  ASSUME DeviceInv, [Next]_vars, hbEvent # "NONE" => out = NoLine
  PROVE  hbEvent' # "NONE" => out' = NoLine
<1>1. hbEvent # "NONE" => pc = "heartbeatEvents"
  BY DEF DeviceInv, NothingOverwritten
<1>2. CASE Begin \/ PowerCycle \/ Tick \/ NextPass \/ HeartbeatUpdate
  BY <1>1, <1>2
  DEF Begin, HB!Begin, Calling, PowerCycle, Tick, NextPass, HeartbeatUpdate, Quiet, monitors
<1>3. CASE HeartbeatEvent \/ Answered \/ Uneventful
  BY <1>3 DEF HeartbeatEvent, Answered, Uneventful
<1> QED BY <1>2, <1>3, HeartbeatSteps

\* A step the heartbeat has no part in.
LEMMA UneventfulStep ==
  ASSUME TypeOK, NothingOverwritten, Started => Measured, Started',
         silence \in Nat, asked \in 0 .. Never, Uneventful, History
  PROVE  Measured'
<1>1. Measured /\ Age' = Age
  BY DEF Uneventful, Age
<1>2. CASE SettingUp
  <2>1. silence' = 0 /\ asked' = Never /\ pc = "setup" /\ ~hb.waiting /\ hbEvent = "NONE"
    BY <1>1, <1>2
    DEF History, SettingUp, Uneventful, Measured, SetupIsQuiet, NothingOverwritten
  <2> QED
    BY <1>1, <2>1, Numbers
    DEF Uneventful, Measured, AgeBounded, RequestIsCurrent, TimeoutIsDue, SilenceMeasured,
        RequestSent, SetupIsQuiet
<1>3. CASE ~SettingUp
  <2>1. silence' = silence /\ asked' = asked /\ pc' # "setup"
    BY <1>3 DEF History, SettingUp, Uneventful, Older
  <2> QED
    BY <1>1, <2>1
    DEF Uneventful, Measured, AgeBounded, RequestIsCurrent, TimeoutIsDue, SilenceMeasured,
        RequestSent, SetupIsQuiet
<1> QED BY <1>2, <1>3

\* A millisecond passes.
LEMMA TickStep ==
  ASSUME TypeOK, NothingOverwritten, Started => Measured, Started',
         silence \in Nat, asked \in 0 .. Never, Tick, History
  PROVE  Measured'
<1> USE Numbers
<1>0. /\ UNCHANGED <<hb, hbEvent, pc, out>> /\ Measured
      /\ now' = NextInstant(now) /\ lag' = lag + 1 /\ lag < MaxLag
  BY DEF Tick, monitors, Started
<1>1. Age < Wrap - 1
  BY <1>0 DEF Measured, AgeBounded
<1>2. Age' = Age + 1
  BY <1>0, <1>1, ElapsedTicks DEF Age
<1>3. hb.run /\ AgeBounded'
  BY <1>0, <1>2 DEF Measured, AgeBounded, BeforeUpdate
<1>4. CASE pc = "setup"
  <2>1. silence' = 0 /\ asked' = Never /\ ~hb.waiting /\ hbEvent = "NONE"
    BY <1>0, <1>4 DEF History, SettingUp, Measured, SetupIsQuiet, NothingOverwritten
  <2> QED
    BY <1>0, <1>2, <1>3, <2>1
    DEF Measured, RequestIsCurrent, TimeoutIsDue, SilenceMeasured, RequestSent, SetupIsQuiet
<1>5. CASE pc # "setup"
  <2>1. ~Heard /\ ~GivenUp /\ ~SettingUp
    BY <1>0, <1>5 DEF Tick, Heard, GivenUp, SettingUp
  <2>2. silence' = Older(silence) /\ asked' = Older(asked)
    BY <1>0, <2>1 DEF History
  <2>3. now' # now
    <3>1. Wrap > 1
      BY <1>0
    <3> QED BY <1>0, <3>1, ClockMoves
  <2>4. silence' <= silence + 1 /\ (asked < Cap => asked' = asked + 1)
        /\ (asked >= Cap => asked' = asked)
    BY <2>2, <2>3 DEF Older
  <2>5. silence' \in Nat /\ asked' \in 0 .. Never
    BY HistoryTyped
  <2>6. RequestIsCurrent'
    BY <1>0, <1>2 DEF Measured, RequestIsCurrent
  <2>7. TimeoutIsDue'
    BY <1>0, <2>4, <2>5 DEF Measured, TimeoutIsDue
  <2>8. SilenceMeasured'
    BY <1>0, <1>2, <2>4, <2>5 DEF Measured, SilenceMeasured
  <2>9. RequestSent'
    <3>1. Age < Cap
      BY <1>0 DEF Measured, AgeBounded
    <3> QED BY <1>0, <1>2, <2>4, <3>1 DEF Measured, RequestSent
  <2> QED BY <1>0, <1>3, <2>6, <2>7, <2>8, <2>9 DEF Measured, SetupIsQuiet
<1> QED BY <1>4, <1>5

\* The interval ends: a heartbeat is asked for, or the host is given up.
LEMMA UpdateStep ==
  ASSUME TypeOK, NothingOverwritten, Measured, silence \in Nat, asked \in 0 .. Never,
         HeartbeatUpdate, History
  PROVE  Measured'
<1> USE Numbers
<1>0. /\ pc = "heartbeat" /\ pc' = "heartbeatEvents" /\ hbEvent = "NONE"
      /\ now' = now /\ lag' = lag /\ HB!Update(now)
      /\ Age <= HEARTBEAT_INTERVAL - 1 + MaxLag + lag
  BY DEF HeartbeatUpdate, Step, NothingOverwritten, Measured, AgeBounded, BeforeUpdate
<1>1. silence' = silence /\ asked' = asked
  <2>1. out'.kind # "HB" /\ ~Heard /\ ~GivenUp /\ ~SettingUp
    BY <1>0 DEF HeartbeatUpdate, Heard, GivenUp, SettingUp, Quiet, NoLine, PH!NoLine, PH!Line
  <2> QED BY <1>0, <2>1 DEF History, Older
<1>2. HB!Elapsed(now, hb.last) = Age
  BY DEF HB!Elapsed, Elapsed, Age
<1>3. CASE Age < HEARTBEAT_INTERVAL
  <2>1. UNCHANGED <<hb, hbEvent>> /\ Age' = Age
    BY <1>0, <1>2, <1>3 DEF HB!Update, Age
  <2> QED
    BY <1>0, <1>1, <1>3, <2>1
    DEF Measured, AgeBounded, RequestIsCurrent, TimeoutIsDue, SilenceMeasured, RequestSent,
        SetupIsQuiet, BeforeUpdate
<1>4. CASE Age >= HEARTBEAT_INTERVAL
  <2>1. /\ hb' = [hb EXCEPT !.waiting = ~hb.waiting, !.last = now]
        /\ hbEvent' = IF hb.waiting THEN "HB_TIMEOUT" ELSE "HB_REQUEST"
    BY <1>0, <1>2, <1>4
    DEF HB!Update, HB!EmitEvent, HB!HasEvent, Measured, AgeBounded
  <2>2. hb'.run /\ (hb'.waiting <=> ~hb.waiting) /\ hb'.last = now
    BY <2>1 DEF TypeOK, HB!TypeOK, HB!Monitor, Measured, AgeBounded
  <2>3. Age' = 0
    BY <1>0, <2>2, ElapsedTyped DEF Age
  <2>4. silence <= HEARTBEAT_INTERVAL - 1 + 2 * MaxLag + (IF hb.waiting THEN Age ELSE 0)
    BY <1>0 DEF Measured, SilenceMeasured
  <2>5. hb.waiting => asked # Never /\ asked + MaxLag >= HEARTBEAT_INTERVAL
    BY <1>0, <1>4 DEF Measured, RequestSent
  <2>6. AgeBounded'
    BY <1>0, <2>2, <2>3 DEF AgeBounded, BeforeUpdate
  <2>7. RequestIsCurrent' /\ RequestSent' /\ SetupIsQuiet'
    <3>1. hbEvent' = "HB_REQUEST" <=> hb'.waiting
      BY <2>1, <2>2
    <3> QED BY <1>0, <2>3, <3>1 DEF RequestIsCurrent, RequestSent, SetupIsQuiet
  <2>8. TimeoutIsDue'
    BY <1>0, <1>1, <2>1, <2>2, <2>4, <2>5 DEF TimeoutIsDue
  <2>9. SilenceMeasured'
    BY <1>0, <1>1, <2>1, <2>2, <2>3, <2>4 DEF SilenceMeasured
  <2> QED BY <2>6, <2>7, <2>8, <2>9 DEF Measured
<1> QED BY <1>3, <1>4

\* The request goes out, or the timeout ends the silence.
LEMMA EventStep ==
  ASSUME TypeOK, NothingOverwritten, Measured, silence \in Nat, asked \in 0 .. Never,
         hbEvent # "NONE" => out = NoLine, HeartbeatEvent, History
  PROVE  Measured'
<1> USE Numbers
<1>0. /\ pc = "heartbeatEvents" /\ pc' = pc /\ hbEvent' = "NONE"
      /\ now' = now /\ lag' = lag /\ HandleEvent(hbEvent)
      /\ hbEvent \in {"HB_REQUEST", "HB_TIMEOUT"}
  BY DEF HeartbeatEvent, Step, HasEvent, TypeOK, HB!TypeOK
<1>1. UNCHANGED hb /\ Age' = Age
  BY <1>0, OnlyAnswersCount DEF Age
<1>2. ~Heard /\ ~SettingUp
  BY <1>0 DEF Heard, SettingUp
<1>3. CASE hbEvent = "HB_REQUEST"
  <2>1. out' = PH!Line("HB") /\ out = NoLine
    BY <1>0, <1>3 DEF HandleEvent, OnConfigTimeout, OnHeartbeatTimeout, OnStatusUpdate, Write
  <2>2. out'.kind = "HB" /\ out' # out
    BY <2>1 DEF NoLine, PH!NoLine, PH!Line
  <2>3. silence' = silence /\ asked' = 0
    BY <1>0, <1>2, <1>3, <2>2 DEF History, GivenUp, Older
  <2> QED
    BY <1>0, <1>1, <1>3, <2>3
    DEF Measured, AgeBounded, RequestIsCurrent, TimeoutIsDue, SilenceMeasured, RequestSent,
        SetupIsQuiet, BeforeUpdate
<1>4. CASE hbEvent = "HB_TIMEOUT"
  <2>1. silence' = 0
    BY <1>0, <1>4 DEF History, GivenUp
  <2> QED
    BY <1>0, <1>1, <1>4, <2>1
    DEF Measured, AgeBounded, RequestIsCurrent, TimeoutIsDue, SilenceMeasured, RequestSent,
        SetupIsQuiet, BeforeUpdate
<1> QED BY <1>0, <1>3, <1>4

\* The host is heard.
LEMMA AnsweredStep ==
  ASSUME TypeOK, Measured, Answered, History
  PROVE  Measured'
<1> USE Numbers
<1>1. silence' = 0 /\ pc' = "events"
  BY DEF Answered, History
<1>2. hb'.run /\ ~hb'.waiting /\ hb'.last = now
  BY DEF Answered, TypeOK, HB!TypeOK, HB!Monitor, Measured, AgeBounded
<1>3. Age' = 0
  BY <1>2, ElapsedTyped DEF Answered, Age
<1> QED
  BY <1>1, <1>2, <1>3
  DEF Answered, Measured, AgeBounded, RequestIsCurrent, TimeoutIsDue, SilenceMeasured,
      RequestSent, SetupIsQuiet, BeforeUpdate

\* begin() starts the interval.
LEMMA BeginStep ==
  ASSUME TypeOK, Managed, Begin, History
  PROVE  Measured'
<1> USE Numbers
<1>1. silence' = 0 /\ now' = now /\ lag' = lag /\ pc' \in {"setup", "protocol"}
  BY DEF Begin, Calling, History, SettingUp
<1>2. hb'.run /\ ~hb'.waiting /\ hb'.last = now /\ hbEvent' = "NONE"
  BY DEF Begin, HB!Begin, Managed
<1>3. Age' = 0
  BY <1>1, <1>2, ElapsedTyped DEF Age
<1> QED
  BY <1>1, <1>2, <1>3
  DEF Measured, AgeBounded, RequestIsCurrent, TimeoutIsDue, SilenceMeasured,
      RequestSent, SetupIsQuiet, BeforeUpdate

\* A pass ends, and with it the lateness the next one inherits.
LEMMA PassStep ==
  ASSUME TypeOK, NothingOverwritten, Measured, NextPass, History
  PROVE  Measured'
<1> USE Numbers
<1>1. /\ UNCHANGED <<hb, hbEvent, now>> /\ lag' = 0 /\ hbEvent = "NONE"
      /\ pc = "statusEvents" /\ pc' = "protocol" /\ Age' = Age
  BY DEF NextPass, monitors, NothingOverwritten, Age
<1>2. silence' = silence /\ asked' = asked
  <2>1. out'.kind # "HB" /\ ~Heard /\ ~GivenUp /\ ~SettingUp
    BY <1>1 DEF NextPass, Heard, GivenUp, SettingUp, Quiet, NoLine, PH!NoLine, PH!Line
  <2> QED BY <1>1, <2>1 DEF History, Older
<1> QED
  BY <1>1, <1>2
  DEF Measured, AgeBounded, RequestIsCurrent, TimeoutIsDue, SilenceMeasured,
      RequestSent, SetupIsQuiet, BeforeUpdate

-----------------------------------------------------------------------------
(* The theorems. *)

svars == <<vars, silence, asked>>

\* With the device invariant, the time bounds are inductive.
LEMMA SupervisionStep ==
  DeviceInv /\ SupervisionInv /\ [Next /\ History]_svars => SupervisionInv'
<1> SUFFICES ASSUME DeviceInv, SupervisionInv, Next, History PROVE SupervisionInv'
  <2>1. UNCHANGED svars /\ SupervisionInv => SupervisionInv'
    BY DEF svars, vars, monitors, SupervisionInv, Measured, AgeBounded, RequestIsCurrent,
           TimeoutIsDue, SilenceMeasured, RequestSent, SetupIsQuiet, BeforeUpdate, Age,
           Managed, Started
  <2> QED BY <2>1
<1>0. /\ TypeOK /\ SetupFirst /\ NothingOverwritten
      /\ silence \in Nat /\ asked \in 0 .. Never
      /\ (hbEvent # "NONE" => out = NoLine)
      /\ (pc # "setup" => Started)
  BY LoopIsStarted DEF DeviceInv, SupervisionInv
<1>1. silence' \in Nat /\ asked' \in 0 .. Never
  BY <1>0, HistoryTyped
<1>2. hbEvent' # "NONE" => out' = NoLine
  BY <1>0, QuietStep
<1>3. ASSUME Managed, Started' PROVE Measured'
  <2>0. Started => Measured
    BY <1>3 DEF SupervisionInv
  <2>1. CASE Begin
    BY <1>0, <1>3, <2>1, BeginStep
  <2>2. CASE PowerCycle
    BY <1>3, <2>2 DEF PowerCycle, Started
  <2>3. CASE Tick
    BY <1>0, <1>3, <2>0, <2>3, TickStep
  <2>4. CASE NextPass
    BY <1>0, <2>0, <2>4, PassStep DEF NextPass
  <2>5. CASE HeartbeatUpdate
    BY <1>0, <2>0, <2>5, UpdateStep DEF HeartbeatUpdate, Step
  <2>6. CASE HeartbeatEvent
    BY <1>0, <2>0, <2>6, EventStep DEF HeartbeatEvent, Step
  <2>7. CASE Answered
    BY <1>0, <2>0, <2>7, AnsweredStep DEF Answered
  <2>8. CASE Uneventful
    BY <1>0, <1>3, <2>0, <2>8, UneventfulStep
  <2> QED BY <2>1, <2>2, <2>3, <2>4, <2>5, <2>6, <2>7, <2>8, HeartbeatSteps
<1> QED BY <1>1, <1>2, <1>3 DEF SupervisionInv, Managed

\* The bounds hold of every reachable state, whatever the host does.
THEOREM SupervisionInvariant == SupervisionSpec => [](DeviceInv /\ SupervisionInv)
<1>1. Init /\ silence = 0 /\ asked = Never => SupervisionInv
  BY OrquestratorAssumption
  DEF Init, HB!Init, FSM!Init, Started, SupervisionInv, Never, Cap
<1>2. [Next /\ History]_svars => [Next]_vars
  BY DEF svars
<1>3. SupervisionSpec => Spec
  BY <1>2, PTL DEF SupervisionSpec, Spec, svars
<1> QED
  BY <1>1, <1>3, SupervisionStep, DeviceInvariant, PTL DEF SupervisionSpec, svars

\* A managed device is never silent for longer than the bound without giving the host up.
THEOREM SilenceIsBounded == SupervisionSpec => []SilenceBounded
<1>1. DeviceInv /\ SupervisionInv => SilenceBounded
  <2> SUFFICES ASSUME DeviceInv, SupervisionInv, Managed, Started
               PROVE  silence <= 2 * (HEARTBEAT_INTERVAL - 1) + 4 * MaxLag
    BY DEF SilenceBounded
  <2>1. TypeOK /\ Measured /\ silence \in Nat
    BY DEF DeviceInv, SupervisionInv
  <2>2. Age <= HEARTBEAT_INTERVAL - 1 + MaxLag + lag
    BY <2>1, Numbers DEF Measured, AgeBounded
  <2>3. CASE hbEvent = "HB_TIMEOUT"
    BY <2>1, <2>3, Numbers DEF Measured, TimeoutIsDue
  <2>4. CASE hbEvent # "HB_TIMEOUT"
    BY <2>1, <2>2, <2>4, Numbers DEF Measured, SilenceMeasured
  <2> QED BY <2>3, <2>4
<1> QED BY <1>1, SupervisionInvariant, PTL

\* The host is given up only when it had an interval to answer a line HB of this silence.
THEOREM TimeoutIsDeserved == SupervisionSpec => []TimeoutDeserved
<1>1. DeviceInv /\ SupervisionInv => TimeoutDeserved
  <2> SUFFICES ASSUME DeviceInv, SupervisionInv, hbEvent = "HB_TIMEOUT"
               PROVE  asked # Never /\ asked + MaxLag >= HEARTBEAT_INTERVAL
    BY DEF TimeoutDeserved
  <2>1. Started /\ Managed
    BY LoopIsStarted
    DEF DeviceInv, NothingOverwritten, StandaloneNeverSupervises
  <2> QED BY <2>1 DEF SupervisionInv, Measured, TimeoutIsDue
<1> QED BY <1>1, SupervisionInvariant, PTL

=============================================================================
