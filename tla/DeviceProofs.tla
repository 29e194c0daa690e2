---------------------------- MODULE DeviceProofs ----------------------------
(***************************************************************************)
(* Proofs about Orquestrator, for every value of its constants: the device *)
(* invariant, what follows from it, that the device implements Session,    *)
(* and what commands and setup() do to the Nodes.                          *)
(***************************************************************************)
EXTENDS DeviceProperties, TLAPS, FiniteSetTheorems, WellFoundedInduction

-----------------------------------------------------------------------------
(* Types, component by component.  Each lemma says that a call of a component *)
(* leaves its members within their types.                                     *)

\* A remainder is below the modulus, and not negative.
LEMMA Modulo == ASSUME NEW a \in Nat, NEW n \in Nat \ {0} PROVE a % n \in 0 .. n - 1
OBVIOUS

\* millis() stays in range when it wraps.
LEMMA ClockTyped == now \in Instant => NextInstant(now) \in Instant
BY WrapAssumption DEF Instant, NextInstant

\* 0 is an instant, however narrow the clock.
LEMMA ZeroTyped == 0 \in Instant
BY WrapAssumption DEF Instant

\* handleEvent moves the state machine to one of its states.
LEMMA FSMTyped ==
  ASSUME NEW e, sm \in FSM!States, FSM!HandleEvent(e)
  PROVE  sm' \in FSM!States
BY DEF FSM!States, FSM!HandleEvent, FSM!Successor, FSM!StartState

\* A restarted handshake, with the monitor running or not, is within its type.
LEMMA CMFreshTyped ==
  ASSUME NEW t \in Instant, NEW b \in BOOLEAN
  PROVE  CM!Fresh(t) \in CM!Monitor /\ [CM!Fresh(t) EXCEPT !.run = b] \in CM!Monitor
BY DEF CM!Monitor, CM!Fresh, Instant, CM!Instant

\* So are a stopped monitor and one that was never begun.
LEMMA CMStoppedTyped == CM!Stopped \in CM!Monitor /\ CM!Unstarted \in CM!Monitor
BY WrapAssumption DEF CM!Monitor, CM!Stopped, CM!Unstarted, CM!Instant

\* ConfigMonitor::update raises only requests and timeouts.
LEMMA CMUpdateTyped ==
  ASSUME CM!TypeOK, now \in Instant, CM!Update(now)
  PROVE  CM!TypeOK'
BY DEF CM!TypeOK, CM!Monitor, CM!Update, CM!Requests, CM!Timeouts, CM!EmitEvent,
       CM!HasEvent, CM!Instant, Instant

\* restartHandshake keeps the monitor's type in both startup modes.
LEMMA CMRestartTyped ==
  ASSUME cm \in CM!Monitor, now \in Instant, CM!RestartHandshake(now)
  PROVE  cm' \in CM!Monitor
BY CMFreshTyped DEF CM!RestartHandshake

\* So does each event the monitor handles, and each it ignores.
LEMMA CMHandleTyped ==
  ASSUME NEW e, cm \in CM!Monitor, now \in Instant, CM!HandleEvent(e, now)
  PROVE  cm' \in CM!Monitor
<1>1. CASE e = "CFG_ACK" /\ cm.state = "CFG" /\ cm' = CM!Stopped
  BY <1>1, CMStoppedTyped
<1>2. CASE e = "UP_ACK" /\ cm' = [cm EXCEPT !.state = "CFG", !.waiting = FALSE, !.last = now]
  BY <1>2 DEF CM!Monitor, CM!Instant, Instant
<1>3. CASE CM!RestartHandshake(now)
  BY <1>3, CMRestartTyped
<1>4. CASE UNCHANGED cm
  BY <1>4
<1> QED BY <1>1, <1>2, <1>3, <1>4 DEF CM!HandleEvent

\* begin and the member initialisers leave the heartbeat monitor within its type.
LEMMA HBStartTyped ==
  ASSUME NEW t \in Instant, NEW b \in BOOLEAN
  PROVE  [run |-> b, waiting |-> FALSE, last |-> t] \in HB!Monitor /\ HB!Unstarted \in HB!Monitor
<1>1. [run |-> b, waiting |-> FALSE, last |-> t] \in HB!Monitor
  BY DEF HB!Monitor, Instant, HB!Instant
<1>2. HB!Unstarted \in HB!Monitor
  BY WrapAssumption DEF HB!Monitor, HB!Unstarted, HB!Instant
<1> QED BY <1>1, <1>2

\* HeartBeatMonitor::update raises only its request and its timeout.
LEMMA HBUpdateTyped ==
  ASSUME HB!TypeOK, now \in Instant, HB!Update(now)
  PROVE  HB!TypeOK'
BY DEF HB!TypeOK, HB!Monitor, HB!Update, HB!EmitEvent, HB!HasEvent, HB!Instant, Instant

\* An acknowledged heartbeat leaves the monitor within its type.
LEMMA HBHandleTyped ==
  ASSUME NEW e, hb \in HB!Monitor, now \in Instant, HB!HandleEvent(e, now)
  PROVE  hb' \in HB!Monitor
BY DEF HB!Monitor, HB!HandleEvent, HB!Instant, Instant

\* StatusMonitor::update raises only STATUS_UPDATE.
LEMMA STUpdateTyped ==
  ASSUME ST!TypeOK, now \in Instant, ST!Update(now)
  PROVE  ST!TypeOK'
BY DEF ST!TypeOK, ST!Update, ST!EmitEvent, ST!HasEvent, ST!Instant, Instant

\* A line raises only events the protocol can receive: no timeout, no request.
LEMMA PHReceiveTyped ==
  ASSUME NEW l \in PH!HostLine, PH!TypeOK, PH!Receive(l)
  PROVE  PH!TypeOK'
<1>1. l.message \in PH!HostMessage /\ l.command \in HostCommand \cup {PH!NoCommand}
  BY DEF PH!HostLine, PH!HostMessage
<1>2. PH!EventOfLine(l) \in {"NONE"} \cup PH!ReceivedEvents
  BY <1>1 DEF PH!EventOfLine, PH!EventOf, PH!HostMessage, PH!ReceivedEvents
<1> QED BY <1>1, <1>2 DEF PH!TypeOK, PH!Receive, PH!EmitEvent, PH!HasEvent

\* addNode never exceeds the capacity of m_nodes.
LEMMA NCAddNodeTyped ==
  ASSUME NEW n \in Node, NC!TypeOK, NC!AddNode(n)
  PROVE  NC!TypeOK'
<1>1. registered' \in Seq(Node) /\ Len(registered') <= MAX_NODES
  BY OrquestratorAssumption DEF NC!TypeOK, NC!AddNode
<1> QED BY <1>1 DEF NC!TypeOK, NC!AddNode

\* begin keeps every Node within its type.
LEMMA NCBeginTyped ==
  ASSUME NC!TypeOK, NC!Begin
  PROVE  NC!TypeOK'
<1>1. \A n \in Node : node[n] \in NC!NodeState
  BY DEF NC!TypeOK
<1>2. \A n \in Node : [node[n] EXCEPT !.begun = TRUE, !.pending = FALSE,
                         !.status = IF Kind[n] = "led" THEN FALSE ELSE @] \in NC!NodeState
  BY <1>1 DEF NC!NodeState
<1> QED BY <1>1, <1>2 DEF NC!TypeOK, NC!Begin

\* update keeps every Node within its type, whatever its class.
LEMMA NCUpdateTyped ==
  ASSUME NC!TypeOK, NC!Update
  PROVE  NC!TypeOK'
<1>1. \A n \in Node : node[n] \in NC!NodeState
  BY DEF NC!TypeOK
<1>2. \A n \in Node : NC!Updated(n) \in NC!NodeState
  BY <1>1, OrquestratorAssumption DEF NC!Updated, NC!NodeState, NC!Kinds
<1> QED BY <1>1, <1>2 DEF NC!TypeOK, NC!Update

\* A command changes no more than the status of a Node.
LEMMA NCCommandTyped ==
  ASSUME NEW c, NC!TypeOK, NC!HandleCommand(c)
  PROVE  NC!TypeOK'
BY DEF NC!TypeOK, NC!HandleCommand, NC!NodeState

\* m_nextPollIndex stays an index of the array.
LEMMA NCPollTyped ==
  ASSUME NC!TypeOK, NC!PollEvent
  PROVE  NC!TypeOK'
<1>1. PICK o \in NC!Ready : NC!Poll(o) /\ nextPoll' = (NC!Position(o) + 1) % Len(registered)
  BY DEF NC!PollEvent
<1>2. Len(registered) \in Nat \ {0} /\ o \in Nat /\ nextPoll \in Nat
  BY DEF NC!TypeOK, NC!Ready
<1>3. NC!Position(o) \in Nat
  BY <1>2, Modulo DEF NC!Position
<1>4. nextPoll' \in 0 .. Len(registered) - 1
  <2>1. NC!Position(o) + 1 \in Nat
    BY <1>3
  <2>2. (NC!Position(o) + 1) % Len(registered) \in 0 .. Len(registered) - 1
    BY <2>1, <1>2, Modulo
  <2> QED BY <2>2, <1>1
<1>5. node' \in [Node -> NC!NodeState]
  BY <1>1 DEF NC!TypeOK, NC!Poll, NC!NodeState
<1> QED BY <1>1, <1>2, <1>4, <1>5, OrquestratorAssumption DEF NC!TypeOK, NC!Poll

\* An input that changes leaves the rest of its Node alone.
LEMMA NCPinTyped ==
  ASSUME NEW n \in Node, NC!TypeOK, NC!PinChange(n)
  PROVE  NC!TypeOK'
BY DEF NC!TypeOK, NC!PinChange, NC!NodeState

-----------------------------------------------------------------------------
(* Types of the composition. *)

\* A line without a command is one the device can write.
LEMMA LineTyped ==
  /\ PH!NoLine \in OutLine
  /\ \A k \in PH!LineKinds : PH!Line(k) \in OutLine
<1>1. \A k \in PH!LineKinds : PH!Line(k) \in OutLine
  BY DEF PH!Line, OutLine, NoCommand
<1> QED BY <1>1 DEF PH!NoLine, PH!LineKinds

\* sendState writes a line of the protocol, or none in BOOT.
LEMMA StateLineTyped ==
  ASSUME sm \in FSM!States
  PROVE  PH!StateLine(sm) \in OutLine
<1>1. CASE sm = "BOOT"
  BY <1>1, LineTyped DEF PH!StateLine
<1>2. CASE sm = "DISABLED"
  BY <1>2, LineTyped DEF PH!StateLine, PH!LineKinds, PH!StateKinds
<1>3. CASE sm \in {"UP", "CFG", "RUN", "IDLE"}
  BY <1>3, LineTyped DEF PH!StateLine, PH!LineKinds, PH!StateKinds
<1> QED BY <1>1, <1>2, <1>3 DEF FSM!States

\* Whatever the Nodes answer is one of the results the protocol can write.
LEMMA ResultTyped ==
  ASSUME NEW c
  PROVE  NC!ResultOf(c) \in NC!CommandResult
BY DEF NC!ResultOf, NC!NodeResult, NC!CommandResult, NC!CommandErrors, NC!Response,
       NC!ErrorResult

\* The reply to an accepted command, whatever its result, is a line of the protocol.
LEMMA ReplyTyped ==
  ASSUME NEW c \in HostCommand, NEW r \in NC!CommandResult
  PROVE  /\ PH!ReplyLine(c, r) \in OutLine
         /\ PH!ReplyLine(c, r).kind \in PH!ReplyKinds
         /\ PH!ReplyLine(c, r).path = PH!Path(c)
<1>1. /\ r.type \in {"ACK", "RESPONSE", "ERROR"}
      /\ r.detail \in {"NONE", "0", "1"} \cup NC!CommandErrors
  BY DEF NC!CommandResult, NC!Ack, NC!Response, NC!ErrorResult
<1> DEFINE k == CASE r.type = "ACK"      -> "CMD_ACK"
                  [] r.type = "RESPONSE" -> "CMD_RESPONSE"
                  [] r.type = "ERROR"    -> "CMD_ERROR"
<1>2. k \in PH!ReplyKinds
  BY <1>1 DEF PH!ReplyKinds
<1>3. PH!ReplyLine(c, r) = [kind |-> k, path |-> PH!Path(c), detail |-> r.detail]
  BY DEF PH!ReplyLine
<1> HIDE DEF k
<1> QED BY <1>1, <1>2, <1>3 DEF OutLine, PH!LineKinds

\* handleEvent leaves the state, the two monitors and the output within their types.
LEMMA HandleEventTyped ==
  ASSUME NEW e, TypeOK, HandleEvent(e)
  PROVE  /\ sm' \in FSM!States /\ cm' \in CM!Monitor /\ hb' \in HB!Monitor
         /\ out' \in OutLine
<1> USE DEF TypeOK, CM!TypeOK, HB!TypeOK, Quiet, Write, NoLine
<1>1. CASE e \in {"UP_ACK", "CFG_ACK", "REBOOT"} /\ FSM!HandleEvent(e)
           /\ CM!HandleEvent(e, now) /\ HB!HandleEvent(e, now) /\ Quiet
  BY <1>1, FSMTyped, CMHandleTyped, HBHandleTyped, LineTyped
<1>2. CASE FSM!HandleEvent(e) /\ Quiet /\ UNCHANGED <<cm, hb>>
  BY <1>2, FSMTyped, LineTyped
<1>3. CASE Write(PH!StateLine(sm)) /\ FSM!HandleEvent(e) /\ UNCHANGED <<cm, hb>>
  BY <1>3, FSMTyped, StateLineTyped
<1>4. CASE OnConfigTimeout(e)
  BY <1>4, FSMTyped, CMRestartTyped, LineTyped DEF OnConfigTimeout
<1>5. CASE HB!HandleEvent(e, now) /\ Quiet /\ UNCHANGED <<sm, cm>>
  BY <1>5, HBHandleTyped, LineTyped
<1>6. CASE Write(PH!StateLine(sm)) /\ UNCHANGED <<sm, cm, hb>>
  BY <1>6, StateLineTyped
<1>7. CASE (Write(PH!Line("CONFIG")) \/ Write(PH!Line("HB"))) /\ UNCHANGED <<sm, cm, hb>>
  BY <1>7, LineTyped DEF PH!LineKinds
<1>8. CASE OnHeartbeatTimeout(e)
  BY <1>8, FSMTyped, CMHandleTyped, LineTyped DEF OnHeartbeatTimeout
<1>9. CASE OnStatusUpdate(e)
  BY <1>9, LineTyped DEF OnStatusUpdate, PH!LineKinds
<1>10. CASE Quiet /\ UNCHANGED <<sm, cm, hb>>
  BY <1>10, LineTyped
<1> QED BY <1>1, <1>2, <1>3, <1>4, <1>5, <1>6, <1>7, <1>8, <1>9, <1>10 DEF HandleEvent

-----------------------------------------------------------------------------
(* Type correctness. *)

\* A component whose variables are unchanged keeps its type.
LEMMA Untouched ==
  /\ CM!TypeOK /\ UNCHANGED <<cm, cmEvent>> => CM!TypeOK'
  /\ HB!TypeOK /\ UNCHANGED <<hb, hbEvent>> => HB!TypeOK'
  /\ ST!TypeOK /\ UNCHANGED <<st, stEvent>> => ST!TypeOK'
  /\ PH!TypeOK /\ UNCHANGED <<phEvent, phCommand>> => PH!TypeOK'
  /\ NC!TypeOK /\ UNCHANGED <<registered, nextPoll, node>> => NC!TypeOK'
BY DEF CM!TypeOK, HB!TypeOK, ST!TypeOK, PH!TypeOK, NC!TypeOK

\* The member initialisers are within their types.
LEMMA TypeInit == Init => TypeOK
<1> SUFFICES ASSUME Init PROVE TypeOK
  OBVIOUS
<1> USE DEF Init
<1>1. sm \in FSM!States
  BY DEF FSM!Init, FSM!States
<1>2. CM!TypeOK /\ HB!TypeOK
  BY CMStoppedTyped, HBStartTyped, ZeroTyped DEF CM!Init, CM!TypeOK, HB!Init, HB!TypeOK
<1>3. ST!TypeOK /\ PH!TypeOK
  BY ZeroTyped DEF ST!Init, ST!TypeOK, PH!Init, PH!TypeOK, ST!Instant, Instant
<1>4. NC!TypeOK
  <2>1. registered \in Seq(Node) /\ Len(registered) = 0 /\ nextPoll = 0
    BY DEF NC!Init
  <2>2. node \in [Node -> NC!NodeState]
    BY DEF NC!Init, NC!NodeState
  <2> QED BY <2>1, <2>2, OrquestratorAssumption DEF NC!TypeOK
<1>5. called \in 0 .. Len(SetupCalls) /\ now \in Instant /\ lag \in 0 .. MaxLag
      /\ pc = "setup" /\ out \in OutLine
  BY OrquestratorAssumption, ZeroTyped, LineTyped DEF NoLine
<1> QED BY <1>1, <1>2, <1>3, <1>4, <1>5 DEF TypeOK

\* Each step of setup(), of the loop and of the environment preserves the types.
LEMMA TypeStep == TypeOK /\ [Next]_vars => TypeOK'
<1> SUFFICES ASSUME TypeOK, [Next]_vars PROVE TypeOK'
  OBVIOUS
<1> USE Untouched, LineTyped DEF TypeOK, Quiet, Write, NoLine, monitors, nodes
<1>0. ASSUME NEW c, Calling(c)
      PROVE  /\ called' \in 0 .. Len(SetupCalls) /\ now' \in Instant /\ lag' \in 0 .. MaxLag
             /\ pc' \in {"setup"} \cup LoopPhases /\ out' \in OutLine
  BY <1>0, OrquestratorAssumption DEF Calling, LoopPhases
<1>1. ASSUME Begin PROVE TypeOK'
  <2>1. sm' \in FSM!States
    BY <1>1 DEF Begin, FSM!Begin, FSM!StartState, FSM!States
  <2>2. CM!TypeOK'
    BY <1>1, CMFreshTyped DEF Begin, CM!Begin, CM!TypeOK
  <2>3. HB!TypeOK'
    BY <1>1, HBStartTyped DEF Begin, HB!Begin, HB!TypeOK
  <2>4. ST!TypeOK' /\ PH!TypeOK'
    BY <1>1 DEF Begin, ST!Begin, PH!Begin, ST!TypeOK, PH!TypeOK, ST!Instant, Instant
  <2>5. NC!TypeOK'
    BY <1>1, NCBeginTyped DEF Begin
  <2> QED
    BY <1>0, <1>1, <2>1, <2>2, <2>3, <2>4, <2>5 DEF Begin
<1>2. ASSUME NEW n \in Node, AddNode(n) PROVE TypeOK'
  BY <1>0, <1>2, NCAddNodeTyped DEF AddNode
<1>3. ASSUME NEW l \in PH!HostLine, ReadLine(l) PROVE TypeOK'
  BY <1>3, PHReceiveTyped DEF ReadLine, Step, LoopPhases
<1>4. CASE NoMoreInput \/ NoProtocolEvent \/ NoCommandPending \/ NoHeartbeatEvent
           \/ NoConfigEvent \/ NothingPolled
  BY <1>4 DEF NoMoreInput, NoProtocolEvent, NoCommandPending, NoHeartbeatEvent,
              NoConfigEvent, NothingPolled, Step, LoopPhases
<1>5. CASE NextPass
  BY <1>5, OrquestratorAssumption DEF NextPass, LoopPhases
<1>6. CASE ProtocolEvent
  BY <1>6, HandleEventTyped
  DEF ProtocolEvent, Step, LoopPhases, CM!TypeOK, HB!TypeOK, ST!TypeOK, PH!TypeOK
<1>7. CASE HeartbeatEvent
  BY <1>7, HandleEventTyped DEF HeartbeatEvent, Step, LoopPhases, CM!TypeOK, HB!TypeOK
<1>8. CASE ConfigEvent
  BY <1>8, HandleEventTyped DEF ConfigEvent, Step, LoopPhases, CM!TypeOK, HB!TypeOK
<1>9. CASE StatusEvent
  BY <1>9, HandleEventTyped
  DEF StatusEvent, Step, LoopPhases, CM!TypeOK, HB!TypeOK, ST!TypeOK
<1>10. CASE PendingCommand
  <2>1. phCommand \in HostCommand
    BY <1>10 DEF PendingCommand, PH!TypeOK, NoCommand
  <2>2. out' \in OutLine
    <3>1. NC!ErrorResult("INVALID_STATE") \in NC!CommandResult
      BY DEF NC!CommandResult, NC!CommandErrors
    <3> QED BY <1>10, <2>1, <3>1, ResultTyped, ReplyTyped DEF PendingCommand, HandleCommand
  <2>3. NC!TypeOK'
    BY <1>10, NCCommandTyped DEF PendingCommand, HandleCommand
  <2> QED BY <1>10, <2>2, <2>3 DEF PendingCommand, PH!ReleaseCommand, PH!TypeOK, Step,
                                  LoopPhases, NoCommand
<1>11. CASE HeartbeatUpdate
  BY <1>11, HBUpdateTyped DEF HeartbeatUpdate, Step, LoopPhases
<1>12. CASE ConfigUpdate
  BY <1>12, CMUpdateTyped DEF ConfigUpdate, Step, LoopPhases
<1>13. CASE NodesUpdate
  BY <1>13, NCUpdateTyped DEF NodesUpdate, Step, LoopPhases
<1>14. CASE PollNodes
  BY <1>14, NCPollTyped DEF PollNodes, Step, LoopPhases, PH!LineKinds
<1>15. CASE StatusUpdate
  BY <1>15, STUpdateTyped DEF StatusUpdate, Step, LoopPhases
<1>16. CASE Tick
  BY <1>16, ClockTyped, OrquestratorAssumption DEF Tick
<1>17. ASSUME NEW n \in Node, PinChange(n) PROVE TypeOK'
  BY <1>17, NCPinTyped DEF PinChange
<1>18. CASE PowerCycle
  <2>1. CM!TypeOK' /\ HB!TypeOK'
    BY <1>18, CMStoppedTyped, HBStartTyped, ZeroTyped DEF PowerCycle, CM!TypeOK, HB!TypeOK
  <2>2. ST!TypeOK' /\ PH!TypeOK'
    BY <1>18, ZeroTyped DEF PowerCycle, ST!TypeOK, PH!TypeOK, ST!Instant, Instant, NoCommand
  <2>3. NC!TypeOK'
    BY <1>18, OrquestratorAssumption DEF PowerCycle, NC!TypeOK, NC!NodeState
  <2> QED
    BY <1>18, <2>1, <2>2, <2>3, OrquestratorAssumption, ZeroTyped DEF PowerCycle, FSM!States
<1>19. CASE UNCHANGED vars
  BY <1>19 DEF vars
<1> QED
  BY <1>1, <1>2, <1>3, <1>4, <1>5, <1>6, <1>7, <1>8, <1>9, <1>10, <1>11, <1>12, <1>13,
     <1>14, <1>15, <1>16, <1>17, <1>18, <1>19
  DEF Next, Setup, Loop

\* Every variable of the device keeps its type, for any constants.
THEOREM TypeCorrect == Spec => []TypeOK
BY TypeInit, TypeStep, PTL DEF Spec

-----------------------------------------------------------------------------
(* setup() comes first. *)

\* No event returns the state machine to BOOT.
LEMMA StaysStarted ==
  ASSUME NEW e, Started, HandleEvent(e)
  PROVE  Started'
BY DEF Started, HandleEvent, OnConfigTimeout, OnHeartbeatTimeout, OnStatusUpdate,
       FSM!HandleEvent, FSM!Successor, FSM!StartState

\* begin() has been called by the time the loop runs.
LEMMA LoopIsStarted == SetupFirst /\ pc # "setup" => Started
BY OrquestratorAssumption DEF SetupFirst

\* Each step keeps setup() before the loop.
LEMMA SetupStep == TypeOK /\ SetupFirst /\ [Next]_vars => SetupFirst'
<1> SUFFICES ASSUME TypeOK, SetupFirst, [Next]_vars PROVE SetupFirst'
  OBVIOUS
<1> USE DEF SetupFirst, Started
<1>0. called \in Nat /\ Len(SetupCalls) \in Nat
  BY OrquestratorAssumption DEF TypeOK
<1>1. CASE Begin
  BY <1>0, <1>1 DEF Begin, Calling, FSM!Begin, FSM!StartState
<1>2. ASSUME NEW n \in Node, AddNode(n) PROVE SetupFirst'
  <2>1. n # "begin" /\ SetupCalls[called'] = n /\ called' = called + 1
    BY <1>0, <1>2, OrquestratorAssumption DEF AddNode, Calling
  <2>2. (\E i \in 1 .. called' : SetupCalls[i] = "begin")
          => \E i \in 1 .. called : SetupCalls[i] = "begin"
    BY <1>0, <2>1
  <2> QED BY <1>0, <1>2, <2>1, <2>2 DEF AddNode, Calling
<1>3. CASE ProtocolEvent
  BY <1>3, StaysStarted DEF ProtocolEvent, Step
<1>4. CASE HeartbeatEvent
  BY <1>4, StaysStarted DEF HeartbeatEvent, Step
<1>5. CASE ConfigEvent
  BY <1>5, StaysStarted DEF ConfigEvent, Step
<1>6. CASE StatusEvent
  BY <1>6, StaysStarted DEF StatusEvent, Step
<1>7. CASE NoMoreInput \/ NoProtocolEvent \/ NoCommandPending \/ NoHeartbeatEvent
           \/ NoConfigEvent \/ NothingPolled \/ NextPass
  BY <1>7 DEF NoMoreInput, NoProtocolEvent, NoCommandPending, NoHeartbeatEvent,
              NoConfigEvent, NothingPolled, NextPass, Step
<1>8. CASE PendingCommand \/ HeartbeatUpdate \/ ConfigUpdate \/ NodesUpdate
           \/ PollNodes \/ StatusUpdate
  BY <1>8 DEF PendingCommand, HeartbeatUpdate, ConfigUpdate, NodesUpdate, PollNodes,
              StatusUpdate, Step
<1>9. ASSUME NEW l \in PH!HostLine, ReadLine(l) PROVE SetupFirst'
  BY <1>9 DEF ReadLine, Step
<1>10. ASSUME NEW n \in Node, PinChange(n) PROVE SetupFirst'
  BY <1>10 DEF PinChange
<1>11. CASE Tick \/ UNCHANGED vars
  BY <1>11 DEF Tick, vars
<1>12. CASE PowerCycle
  BY <1>0, <1>12, OrquestratorAssumption DEF PowerCycle
<1> QED
  BY <1>1, <1>2, <1>3, <1>4, <1>5, <1>6, <1>7, <1>8, <1>9, <1>10, <1>11, <1>12
  DEF Next, Setup, Loop

-----------------------------------------------------------------------------
(* The emitters and the command slot. *)

\* Each step finds empty the slot it fills.
LEMMA EmitterStep ==
  NothingOverwritten /\ OneMessageAtATime /\ [Next]_vars
    => NothingOverwritten' /\ OneMessageAtATime'
<1> SUFFICES ASSUME NothingOverwritten, OneMessageAtATime, [Next]_vars
             PROVE  NothingOverwritten' /\ OneMessageAtATime'
  OBVIOUS
<1> USE DEF NothingOverwritten, OneMessageAtATime, monitors, Step
<1>1. ASSUME NEW c, Calling(c) PROVE pc = "setup"
  BY <1>1 DEF Calling
<1>2. CASE Begin
  BY <1>1, <1>2 DEF Begin, PH!Begin, HB!Begin, CM!Begin, ST!Begin
<1>3. ASSUME NEW n \in Node, AddNode(n) PROVE NothingOverwritten' /\ OneMessageAtATime'
  BY <1>1, <1>3 DEF AddNode
<1>4. ASSUME NEW l \in PH!HostLine, ReadLine(l)
      PROVE  NothingOverwritten' /\ OneMessageAtATime'
  <2>1. phEvent = "NONE" /\ phCommand = NoCommand
    BY <1>4 DEF ReadLine
  <2>2. l.message = "CMD" /\ l.command # NoCommand => PH!EventOfLine(l) = "NONE"
    BY DEF PH!EventOfLine, PH!EventOf, NoCommand
  <2> QED
    BY <1>4, <2>1, <2>2
    DEF ReadLine, PH!Receive, PH!EmitEvent, PH!HasEvent, HasEvent
<1>5. CASE ProtocolEvent \/ HeartbeatEvent \/ ConfigEvent \/ StatusEvent
  BY <1>5 DEF ProtocolEvent, HeartbeatEvent, ConfigEvent, StatusEvent
<1>6. CASE NoMoreInput \/ NoProtocolEvent \/ NoCommandPending \/ NoHeartbeatEvent
           \/ NoConfigEvent \/ NothingPolled \/ NextPass
  BY <1>6 DEF NoMoreInput, NoProtocolEvent, NoCommandPending, NoHeartbeatEvent,
              NoConfigEvent, NothingPolled, NextPass, HasEvent
<1>7. CASE PendingCommand
  BY <1>7 DEF PendingCommand, PH!ReleaseCommand, NoCommand
<1>8. CASE HeartbeatUpdate \/ ConfigUpdate \/ NodesUpdate \/ PollNodes \/ StatusUpdate
  BY <1>8 DEF HeartbeatUpdate, ConfigUpdate, NodesUpdate, PollNodes, StatusUpdate
<1>9. ASSUME NEW n \in Node, PinChange(n) PROVE NothingOverwritten' /\ OneMessageAtATime'
  BY <1>9 DEF PinChange
<1>10. CASE Tick \/ PowerCycle \/ UNCHANGED vars
  BY <1>10 DEF Tick, PowerCycle, vars
<1> QED
  BY <1>2, <1>3, <1>4, <1>5, <1>6, <1>7, <1>8, <1>9, <1>10 DEF Next, Setup, Loop

-----------------------------------------------------------------------------
(* The two copies of the handshake state. *)

\* Every event keeps the copies together; the UP timeout, of which the monitor is not
\* told, because the monitor that raised it is in UP already.
LEMMA AgreementKept ==
  ASSUME NEW e, TypeOK, Started, Managed, HandshakeAgreement, HandleEvent(e),
         e = "UP_TIMEOUT" => cm.run /\ cm.state = "UP"
  PROVE  HandshakeAgreement'
<1> USE DEF Managed, Started, HandshakeAgreement, TypeOK, CM!TypeOK, CM!Monitor,
            FSM!HandleEvent, FSM!ResetEvents, FSM!StartState
<1>1. CASE e = "UP_ACK"
  <2>1. FSM!HandleEvent(e) /\ CM!HandleEvent(e, now)
    BY <1>1 DEF HandleEvent, OnConfigTimeout, OnHeartbeatTimeout, OnStatusUpdate
  <2>2. sm' = IF sm = "UP" THEN "CFG" ELSE sm
    BY <1>1, <2>1 DEF FSM!Successor
  <2>3. cm'.run = cm.run /\ cm'.state = "CFG"
    BY <1>1, <2>1 DEF CM!HandleEvent
  <2> QED BY <2>2, <2>3 DEF FSM!States
<1>2. CASE e = "CFG_ACK"
  BY <1>2 DEF HandleEvent, OnConfigTimeout, OnHeartbeatTimeout, OnStatusUpdate,
              FSM!Successor, CM!HandleEvent, CM!Stopped
<1>3. CASE e \in {"REBOOT", "HB_TIMEOUT", "CFG_TIMEOUT"}
  BY <1>3 DEF HandleEvent, OnConfigTimeout, OnHeartbeatTimeout, OnStatusUpdate,
              CM!HandleEvent, CM!RestartHandshake, CM!Fresh
<1>4. CASE e \in {"RUN_RCV", "IDLE_RCV", "DIS_RCV"}
  BY <1>4 DEF HandleEvent, OnConfigTimeout, OnHeartbeatTimeout, OnStatusUpdate,
              FSM!Successor
<1>5. CASE e = "UP_TIMEOUT"
  BY <1>5 DEF HandleEvent, OnConfigTimeout, OnHeartbeatTimeout, OnStatusUpdate
<1>6. CASE UNCHANGED <<sm, cm>>
  BY <1>6
<1> QED
  BY <1>1, <1>2, <1>3, <1>4, <1>5, <1>6
  DEF HandleEvent, OnConfigTimeout, OnHeartbeatTimeout, OnStatusUpdate

\* Each step keeps the two copies of the handshake state together, and a request that
\* waits in the emitter current.
LEMMA HandshakeStep ==
  TypeOK /\ SetupFirst /\ NothingOverwritten /\ PendingRequestIsCurrent
  /\ HandshakeAgreement /\ [Next]_vars
    => PendingRequestIsCurrent' /\ HandshakeAgreement'
<1> SUFFICES ASSUME TypeOK, SetupFirst, NothingOverwritten, PendingRequestIsCurrent,
                    HandshakeAgreement, [Next]_vars
             PROVE  PendingRequestIsCurrent' /\ HandshakeAgreement'
  OBVIOUS
<1> USE DEF PendingRequestIsCurrent, monitors, Step
<1>1. CASE Begin
  <2>1. PendingRequestIsCurrent'
    BY <1>1 DEF Begin, CM!Begin
  <2>2. Managed => sm' = "UP" /\ cm'.run /\ cm'.state = "UP"
    BY <1>1 DEF Managed, Begin, CM!Begin, CM!Fresh, FSM!Begin, FSM!StartState
  <2> QED BY <2>1, <2>2 DEF HandshakeAgreement, Managed, Started
<1>2. CASE ProtocolEvent
  <2>1. phEvent # "UP_TIMEOUT" /\ cmEvent = "NONE" /\ Started
    BY <1>2, LoopIsStarted
    DEF ProtocolEvent, TypeOK, PH!TypeOK, PH!ReceivedEvents, NothingOverwritten
  <2> QED
    BY <1>2, <2>1, AgreementKept
    DEF ProtocolEvent, HandshakeAgreement, Managed
<1>3. CASE HeartbeatEvent
  <2>1. hbEvent # "UP_TIMEOUT" /\ cmEvent = "NONE" /\ Started
    BY <1>3, LoopIsStarted DEF HeartbeatEvent, TypeOK, HB!TypeOK, NothingOverwritten
  <2> QED BY <1>3, <2>1, AgreementKept DEF HeartbeatEvent, HandshakeAgreement, Managed
<1>4. CASE StatusEvent
  <2>1. stEvent # "UP_TIMEOUT" /\ cmEvent = "NONE" /\ Started
    BY <1>4, LoopIsStarted DEF StatusEvent, TypeOK, ST!TypeOK, NothingOverwritten
  <2> QED BY <1>4, <2>1, AgreementKept DEF StatusEvent, HandshakeAgreement, Managed
<1>5. CASE ConfigEvent
  <2>1. Started /\ cmEvent' = "NONE"
    BY <1>5, LoopIsStarted DEF ConfigEvent
  <2>2. cmEvent = "UP_TIMEOUT" => cm.run /\ cm.state = "UP"
    OBVIOUS
  <2> QED BY <1>5, <2>1, <2>2, AgreementKept DEF ConfigEvent, HandshakeAgreement, Managed
<1>6. CASE ConfigUpdate
  <2>1. cmEvent = "NONE"
    BY <1>6 DEF ConfigUpdate, NothingOverwritten
  <2>2. PendingRequestIsCurrent' /\ cm'.run = cm.run /\ cm'.state = cm.state
    BY <1>6, <2>1
    DEF ConfigUpdate, CM!Update, CM!EmitEvent, CM!HasEvent, TypeOK, CM!TypeOK, CM!Monitor
  <2> QED BY <1>6, <2>2 DEF ConfigUpdate, HandshakeAgreement, Managed, Started
<1>7. CASE PowerCycle
  BY <1>7 DEF PowerCycle, HandshakeAgreement, Started
<1>8. CASE UNCHANGED <<sm, cm, cmEvent>>
  BY <1>8 DEF HandshakeAgreement, Managed, Started
<1>9. ASSUME NEW n \in Node, AddNode(n) PROVE UNCHANGED <<sm, cm, cmEvent>>
  BY <1>9 DEF AddNode
<1>10. ASSUME NEW n \in Node, PinChange(n) PROVE UNCHANGED <<sm, cm, cmEvent>>
  BY <1>10 DEF PinChange
<1>11. ASSUME NEW l \in PH!HostLine, ReadLine(l) PROVE UNCHANGED <<sm, cm, cmEvent>>
  BY <1>11 DEF ReadLine
<1>12. ASSUME NoMoreInput \/ NoProtocolEvent \/ PendingCommand \/ NoCommandPending
              \/ HeartbeatUpdate \/ NoHeartbeatEvent \/ NoConfigEvent \/ NodesUpdate
              \/ PollNodes \/ NothingPolled \/ StatusUpdate \/ NextPass \/ Tick
              \/ UNCHANGED vars
       PROVE  UNCHANGED <<sm, cm, cmEvent>>
  BY <1>12 DEF NoMoreInput, NoProtocolEvent, PendingCommand, NoCommandPending,
               HeartbeatUpdate, NoHeartbeatEvent, NoConfigEvent, NodesUpdate, PollNodes,
               NothingPolled, StatusUpdate, NextPass, Tick, vars
<1> QED
  BY <1>1, <1>2, <1>3, <1>4, <1>5, <1>6, <1>7, <1>8, <1>9, <1>10, <1>11, <1>12
  DEF Next, Setup, Loop

-----------------------------------------------------------------------------
(* A standalone device. *)

\* Of all the events of the loop none starts a monitor of a standalone device.
LEMMA StandaloneKept ==
  ASSUME NEW e, TypeOK, ~Managed, sm \in FSM!Active, ~cm.run, ~hb.run, HandleEvent(e)
  PROVE  sm' \in FSM!Active /\ ~cm'.run /\ ~hb'.run
<1>0. StartupMode = "STANDALONE"
  BY OrquestratorAssumption DEF Managed, StartupModes
<1>1. FSM!HandleEvent(e) => sm' \in FSM!Active
  BY <1>0 DEF FSM!HandleEvent, FSM!Successor, FSM!StartState, FSM!Active
<1>2. CM!HandleEvent(e, now) \/ CM!RestartHandshake(now) => ~cm'.run
  <2>1. CM!RestartHandshake(now) => cm' = cm
    BY <1>0 DEF CM!RestartHandshake
  <2>2. cm' = CM!Stopped => ~cm'.run
    BY DEF CM!Stopped
  <2>3. cm' = [cm EXCEPT !.state = "CFG", !.waiting = FALSE, !.last = now] => ~cm'.run
    BY DEF TypeOK, CM!TypeOK, CM!Monitor
  <2> QED BY <2>1, <2>2, <2>3 DEF CM!HandleEvent
<1>3. HB!HandleEvent(e, now) => ~hb'.run
  BY DEF HB!HandleEvent, TypeOK, HB!TypeOK, HB!Monitor
<1> QED
  BY <1>1, <1>2, <1>3 DEF HandleEvent, OnConfigTimeout, OnHeartbeatTimeout, OnStatusUpdate

\* Each step leaves a standalone device active and unsupervised.
LEMMA StandaloneStep ==
  TypeOK /\ SetupFirst /\ NothingOverwritten /\ StandaloneNeverSupervises /\ [Next]_vars
    => StandaloneNeverSupervises'
<1> SUFFICES ASSUME TypeOK, SetupFirst, NothingOverwritten, StandaloneNeverSupervises,
                    [Next]_vars, ~Managed, Started'
             PROVE  /\ sm' \in FSM!Active
                    /\ ~cm'.run /\ cmEvent' = "NONE"
                    /\ ~hb'.run /\ hbEvent' = "NONE"
  BY DEF StandaloneNeverSupervises, Managed
<1> DEFINE Alone == sm \in FSM!Active /\ ~cm.run /\ cmEvent = "NONE"
                      /\ ~hb.run /\ hbEvent = "NONE"
<1>0. pc # "setup" \/ Started => Alone
  BY LoopIsStarted DEF StandaloneNeverSupervises
<1> USE DEF monitors, Step
<1>1. CASE Begin
  <2>1. StartupMode = "STANDALONE"
    BY OrquestratorAssumption DEF Managed, StartupModes
  <2>2. sm' = "RUN" /\ ~cm'.run
    BY <1>1, <2>1 DEF Begin, FSM!Begin, FSM!StartState, CM!Begin, CM!Fresh
  <2>3. ~hb'.run /\ cmEvent' = "NONE" /\ hbEvent' = "NONE"
    BY <1>1, <2>1 DEF Begin, CM!Begin, HB!Begin
  <2> QED BY <2>2, <2>3 DEF FSM!Active
<1>2. CASE ProtocolEvent
  BY <1>0, <1>2, StandaloneKept DEF ProtocolEvent
<1>3. CASE HeartbeatEvent
  BY <1>0, <1>3, StandaloneKept DEF HeartbeatEvent
<1>4. CASE ConfigEvent
  BY <1>0, <1>4, StandaloneKept DEF ConfigEvent
<1>5. CASE StatusEvent
  BY <1>0, <1>5, StandaloneKept DEF StatusEvent
<1>6. CASE HeartbeatUpdate
  BY <1>0, <1>6 DEF HeartbeatUpdate, HB!Update
<1>7. CASE ConfigUpdate
  BY <1>0, <1>7 DEF ConfigUpdate, CM!Update
<1>8. CASE PowerCycle
  BY <1>8 DEF PowerCycle, Started
<1>9. CASE UNCHANGED <<sm, cm, cmEvent, hb, hbEvent>>
  BY <1>0, <1>9 DEF Started
<1>10. ASSUME NEW n \in Node, AddNode(n) \/ PinChange(n)
       PROVE  UNCHANGED <<sm, cm, cmEvent, hb, hbEvent>>
  BY <1>10 DEF AddNode, PinChange
<1>11. ASSUME NEW l \in PH!HostLine, ReadLine(l)
       PROVE  UNCHANGED <<sm, cm, cmEvent, hb, hbEvent>>
  BY <1>11 DEF ReadLine
<1>12. ASSUME NoMoreInput \/ NoProtocolEvent \/ PendingCommand \/ NoCommandPending
              \/ NoHeartbeatEvent \/ NoConfigEvent \/ NodesUpdate
              \/ PollNodes \/ NothingPolled \/ StatusUpdate \/ NextPass \/ Tick
              \/ UNCHANGED vars
       PROVE  UNCHANGED <<sm, cm, cmEvent, hb, hbEvent>>
  BY <1>12 DEF NoMoreInput, NoProtocolEvent, PendingCommand, NoCommandPending,
               NoHeartbeatEvent, NoConfigEvent, NodesUpdate, PollNodes,
               NothingPolled, StatusUpdate, NextPass, Tick, vars
<1> QED
  BY <1>1, <1>2, <1>3, <1>4, <1>5, <1>6, <1>7, <1>8, <1>9, <1>10, <1>11, <1>12
  DEF Next, Setup, Loop

-----------------------------------------------------------------------------
(* The invariant. *)

\* The device invariant holds when power comes on.
LEMMA InvInit == Init => DeviceInv
<1> SUFFICES ASSUME Init PROVE DeviceInv
  OBVIOUS
<1>1. TypeOK
  BY TypeInit
<1>2. sm = "BOOT" /\ cmEvent = "NONE" /\ hbEvent = "NONE" /\ stEvent = "NONE"
      /\ phEvent = "NONE" /\ phCommand = NoCommand /\ pc = "setup" /\ called = 0
  BY DEF Init, FSM!Init, CM!Init, HB!Init, ST!Init, PH!Init, NoCommand
<1>3. SetupFirst
  BY <1>2, OrquestratorAssumption DEF SetupFirst
<1>4. NothingOverwritten /\ OneMessageAtATime /\ PendingRequestIsCurrent
  BY <1>2 DEF NothingOverwritten, OneMessageAtATime, PendingRequestIsCurrent
<1>5. HandshakeAgreement /\ StandaloneNeverSupervises
  BY <1>2 DEF HandshakeAgreement, StandaloneNeverSupervises, Started
<1> QED BY <1>1, <1>3, <1>4, <1>5 DEF DeviceInv

\* Every step keeps the device invariant.
LEMMA DeviceStep == DeviceInv /\ [Next]_vars => DeviceInv'
BY TypeStep, SetupStep, EmitterStep, HandshakeStep, StandaloneStep DEF DeviceInv

\* The device invariant holds in every reachable state.
THEOREM DeviceInvariant == Spec => []DeviceInv
BY InvInit, DeviceStep, PTL DEF Spec

\* The two copies of the handshake state always agree.
THEOREM HandshakeStateAgrees == Spec => []HandshakeAgreement
<1>1. DeviceInv => HandshakeAgreement
  BY DEF DeviceInv
<1> QED BY <1>1, DeviceInvariant, PTL

\* No event and no command is dropped because the one before is still unread.
THEOREM NothingDropped == Spec => []NothingOverwritten
<1>1. DeviceInv => NothingOverwritten
  BY DEF DeviceInv
<1> QED BY <1>1, DeviceInvariant, PTL

\* An event and a command are never pending together.
THEOREM OneMessagePerPass == Spec => []OneMessageAtATime
<1>1. DeviceInv => OneMessageAtATime
  BY DEF DeviceInv
<1> QED BY <1>1, DeviceInvariant, PTL

\* No host can make a standalone device supervise it.
THEOREM StandaloneStaysAlone == Spec => []StandaloneNeverSupervises
<1>1. DeviceInv => StandaloneNeverSupervises
  BY DEF DeviceInv
<1> QED BY <1>1, DeviceInvariant, PTL

-----------------------------------------------------------------------------
(* The device implements Session. *)

\* A line that belongs to the phase is a step of the session.
LEMMA Says ==
  ASSUME UNCHANGED sm, out'.kind \in Abstract!Sayable(sm)
  PROVE  Abstract!Next
BY DEF Abstract!Next, Abstract!Say

\* So is silence in any phase.
LEMMA SaysNothing ==
  ASSUME UNCHANGED sm, Quiet
  PROVE  Abstract!Next
<1>1. out'.kind = "NONE"
  BY DEF Quiet, NoLine, PH!NoLine, PH!Line
<1> QED BY <1>1, Says DEF Abstract!Sayable

\* The answer to GET_STATE and to an UP request names the phase the device is in.
LEMMA StateLineSayable ==
  ASSUME sm \in FSM!States
  PROVE  PH!StateLine(sm).kind \in Abstract!Sayable(sm)
<1>1. CASE sm = "BOOT"
  BY <1>1 DEF PH!StateLine, PH!NoLine, PH!Line, Abstract!Sayable
<1>2. CASE sm = "DISABLED"
  BY <1>2 DEF PH!StateLine, PH!Line, Abstract!Sayable
<1>3. CASE sm \in {"UP", "CFG"}
  BY <1>3 DEF PH!StateLine, PH!Line, Abstract!Sayable
<1>4. CASE sm \in {"RUN", "IDLE"}
  BY <1>4 DEF PH!StateLine, PH!Line, Abstract!Sayable
<1> QED BY <1>1, <1>2, <1>3, <1>4 DEF FSM!States

\* A quiet step of the state machine is a step of the session.
LEMMA TransitionImplements ==
  ASSUME NEW e, sm \in FSM!States, Started, ~Managed => sm \in FSM!Active,
         FSM!HandleEvent(e), Quiet
  PROVE  Abstract!Next
<1> USE DEF FSM!States, FSM!Active, Started
<1>0. out'.kind = "NONE"
  BY DEF Quiet, NoLine, PH!NoLine, PH!Line
<1>1. CASE e \in FSM!ResetEvents
  <2>1. sm' = Abstract!Entry
    BY <1>1, OrquestratorAssumption
    DEF FSM!HandleEvent, FSM!StartState, Abstract!Entry, Abstract!Managed, StartupModes
  <2>2. Abstract!Move(sm, Abstract!Entry)
    BY <2>1, <1>0 DEF Abstract!Move
  <2> QED BY <2>2 DEF Abstract!Next, Abstract!Restart, Abstract!Modes
<1>2. CASE e \notin FSM!ResetEvents
  <2>1. sm' = FSM!Successor(sm, e)
    BY <1>2 DEF FSM!HandleEvent
  <2>2. CASE sm = "UP" /\ e = "UP_ACK"
    <3>1. sm' = "CFG" /\ Managed
      BY <2>1, <2>2 DEF FSM!Successor
    <3> QED
      BY <1>0, <2>2, <3>1
      DEF Abstract!Next, Abstract!Announced, Abstract!Move, Abstract!Managed, Managed
  <2>3. CASE sm = "CFG" /\ e = "CFG_ACK"
    <3>1. sm' = "RUN" /\ Managed
      BY <2>1, <2>3 DEF FSM!Successor
    <3> QED
      BY <1>0, <2>3, <3>1
      DEF Abstract!Next, Abstract!Configured, Abstract!Move, Abstract!Managed, Managed
  <2>4. CASE sm \in FSM!Active /\ sm' \in FSM!Active
    <3>1. Abstract!Move(sm, sm')
      BY <1>0 DEF Abstract!Move
    <3> QED BY <2>4, <3>1 DEF Abstract!Next, Abstract!ChangeMode, Abstract!Modes
  <2>5. CASE sm' = sm
    BY <2>5, SaysNothing
  <2>6. sm' # sm => \/ sm = "UP" /\ e = "UP_ACK"
                    \/ sm = "CFG" /\ e = "CFG_ACK"
                    \/ sm \in FSM!Active /\ sm' \in FSM!Active
    BY <2>1 DEF FSM!Successor
  <2> QED BY <2>2, <2>3, <2>4, <2>5, <2>6
<1> QED BY <1>1, <1>2

\* Every event the loop handles is a step of the session, provided that the requests
\* and timeouts of the monitors are those of the phase the device is in.
LEMMA EventImplements ==
  ASSUME NEW e, TypeOK, Started, ~Managed => sm \in FSM!Active, HandleEvent(e),
         e = "UP_TIMEOUT" => sm = "UP" /\ Managed,
         e = "CFG_REQUEST" => sm = "CFG",
         e = "HB_REQUEST" => Managed
  PROVE  Abstract!Next
<1>0. sm \in FSM!States
  BY DEF TypeOK
<1>1. CASE FSM!HandleEvent(e) /\ Quiet
  BY <1>0, <1>1, TransitionImplements
<1>2. CASE e = "UP_TIMEOUT" /\ Write(PH!StateLine(sm)) /\ FSM!HandleEvent(e)
  <2>1. sm' = sm
    BY <1>2 DEF FSM!HandleEvent, FSM!ResetEvents, FSM!StartState, Managed
  <2>2. out'.kind \in Abstract!Sayable(sm)
    BY <1>0, <1>2, StateLineSayable DEF Write
  <2> QED BY <2>1, <2>2, Says
<1>3. CASE UNCHANGED sm /\ Quiet
  BY <1>3, SaysNothing
<1>4. CASE UNCHANGED sm /\ Write(PH!StateLine(sm))
  <2>1. out'.kind \in Abstract!Sayable(sm)
    BY <1>0, <1>4, StateLineSayable DEF Write
  <2> QED BY <1>4, <2>1, Says
<1>5. CASE UNCHANGED sm /\ e = "CFG_REQUEST" /\ Write(PH!Line("CONFIG"))
  <2>1. out'.kind \in Abstract!Sayable(sm)
    BY <1>5 DEF Write, PH!Line, Abstract!Sayable
  <2> QED BY <1>5, <2>1, Says
<1>6. CASE UNCHANGED sm /\ e = "HB_REQUEST" /\ Write(PH!Line("HB"))
  <2>1. out'.kind \in Abstract!Sayable(sm)
    BY <1>6 DEF Write, PH!Line, Abstract!Sayable, Managed, Abstract!Managed
  <2> QED BY <1>6, <2>1, Says
<1>7. CASE OnStatusUpdate(e)
  <2>1. out'.kind = IF sm = "RUN" THEN "STATUS" ELSE "NONE"
    BY <1>7 DEF OnStatusUpdate, Write, PH!Line, NoLine, PH!NoLine
  <2>2. out'.kind \in Abstract!Sayable(sm)
    BY <2>1 DEF Abstract!Sayable
  <2> QED BY <1>7, <2>2, Says DEF OnStatusUpdate
<1> QED
  BY <1>1, <1>2, <1>3, <1>4, <1>5, <1>6, <1>7
  DEF HandleEvent, OnConfigTimeout, OnHeartbeatTimeout

\* Whatever the processor does of its own accord is a step of the session.
LEMMA RunImplements == DeviceInv /\ (Setup \/ Loop) => Abstract!Next
<1> SUFFICES ASSUME DeviceInv, Setup \/ Loop PROVE Abstract!Next
  OBVIOUS
<1> USE DEF monitors, Step
<1>0. /\ TypeOK /\ SetupFirst /\ NothingOverwritten /\ PendingRequestIsCurrent
      /\ HandshakeAgreement /\ StandaloneNeverSupervises
  BY DEF DeviceInv
<1>1. pc # "setup" => Started /\ (~Managed => sm \in FSM!Active)
  BY <1>0, LoopIsStarted DEF StandaloneNeverSupervises
<1>2. CASE Begin
  <2>1. sm' = Abstract!Entry /\ out'.kind = "NONE"
    BY <1>2, OrquestratorAssumption
    DEF Begin, Calling, FSM!Begin, FSM!StartState, Abstract!Entry, Abstract!Managed,
        StartupModes, NoLine, PH!NoLine, PH!Line
  <2>2. Abstract!Move(sm, Abstract!Entry)
    BY <2>1 DEF Abstract!Move
  <2> QED
    BY <1>0, <2>2
    DEF TypeOK, FSM!States, Abstract!Next, Abstract!Start, Abstract!Restart, Abstract!Modes
<1>3. CASE ProtocolEvent
  <2>1. phEvent \notin {"UP_TIMEOUT", "CFG_REQUEST", "HB_REQUEST"}
    BY <1>0, <1>3 DEF ProtocolEvent, TypeOK, PH!TypeOK, PH!ReceivedEvents
  <2> QED BY <1>0, <1>1, <1>3, <2>1, EventImplements DEF ProtocolEvent
<1>4. CASE HeartbeatEvent
  <2>1. hbEvent \notin {"UP_TIMEOUT", "CFG_REQUEST"} /\ Managed
    BY <1>0, <1>1, <1>4
    DEF HeartbeatEvent, TypeOK, HB!TypeOK, StandaloneNeverSupervises, HasEvent
  <2> QED BY <1>0, <1>1, <1>4, <2>1, EventImplements DEF HeartbeatEvent
<1>5. CASE ConfigEvent
  <2>1. Managed /\ cm.run /\ cm.state = sm
    BY <1>0, <1>1, <1>5
    DEF ConfigEvent, StandaloneNeverSupervises, HasEvent, PendingRequestIsCurrent,
        HandshakeAgreement
  <2>2. /\ cmEvent = "UP_TIMEOUT" => sm = "UP"
        /\ cmEvent = "CFG_REQUEST" => sm = "CFG"
        /\ cmEvent # "HB_REQUEST"
    BY <1>0, <2>1
    DEF PendingRequestIsCurrent, TypeOK, CM!TypeOK, CM!Requests, CM!Timeouts
  <2> QED BY <1>0, <1>1, <1>5, <2>1, <2>2, EventImplements DEF ConfigEvent
<1>6. CASE StatusEvent
  <2>1. stEvent \notin {"UP_TIMEOUT", "CFG_REQUEST", "HB_REQUEST"}
    BY <1>0, <1>6 DEF StatusEvent, TypeOK, ST!TypeOK
  <2> QED BY <1>0, <1>1, <1>6, <2>1, EventImplements DEF StatusEvent
<1>7. CASE PendingCommand
  <2>1. phCommand \in HostCommand
    BY <1>0, <1>7 DEF PendingCommand, TypeOK, PH!TypeOK, NoCommand
  <2>2. CASE Serving
    <3>1. out'.kind \in PH!ReplyKinds
      BY <1>7, <2>1, <2>2, ResultTyped, ReplyTyped DEF PendingCommand, HandleCommand, Write
    <3>2. out'.kind \in Abstract!Sayable(sm)
      BY <3>1, <2>2 DEF PH!ReplyKinds, Serving, Abstract!Sayable
    <3> QED BY <1>7, <3>2, Says DEF PendingCommand
  <2>3. CASE ~Serving
    <3>1. out'.kind = "CMD_ERROR"
      BY <1>7, <2>3
      DEF PendingCommand, HandleCommand, Write, PH!ReplyLine, NC!ErrorResult
    <3>2. out'.kind \in Abstract!Sayable(sm)
      BY <3>1 DEF Abstract!Sayable
    <3> QED BY <1>7, <3>2, Says DEF PendingCommand
  <2> QED BY <2>2, <2>3
<1>8. CASE PollNodes
  <2>1. out'.kind = "NODE_EVENT" /\ sm \in {"RUN", "IDLE"} /\ UNCHANGED sm
    BY <1>8 DEF PollNodes, Write, PH!Line, Serving
  <2>2. out'.kind \in Abstract!Sayable(sm)
    BY <2>1 DEF Abstract!Sayable
  <2> QED BY <2>1, <2>2, Says
<1>9. CASE UNCHANGED sm /\ Quiet
  BY <1>9, SaysNothing
<1>10. ASSUME NEW n \in Node, AddNode(n) PROVE UNCHANGED sm /\ Quiet
  BY <1>10 DEF AddNode, Calling, Quiet
<1>11. ASSUME NoMoreInput \/ NoProtocolEvent \/ NoCommandPending \/ HeartbeatUpdate
              \/ NoHeartbeatEvent \/ ConfigUpdate \/ NoConfigEvent \/ NodesUpdate
              \/ NothingPolled \/ StatusUpdate \/ NextPass
       PROVE  UNCHANGED sm /\ Quiet
  BY <1>11 DEF NoMoreInput, NoProtocolEvent, NoCommandPending, HeartbeatUpdate,
               NoHeartbeatEvent, ConfigUpdate, NoConfigEvent, NodesUpdate, NothingPolled,
               StatusUpdate, NextPass
<1> QED
  BY <1>2, <1>3, <1>4, <1>5, <1>6, <1>7, <1>8, <1>9, <1>10, <1>11 DEF Setup, Loop

\* Each step of the device is a step of the session or leaves it as it is.
LEMMA StepImplements ==
  DeviceInv /\ [Next]_vars => [Abstract!Next]_<<sm, out.kind>>
<1> SUFFICES ASSUME DeviceInv, [Next]_vars
             PROVE  Abstract!Next \/ UNCHANGED <<sm, out.kind>>
  OBVIOUS
<1>1. CASE Setup \/ Loop
  BY <1>1, RunImplements
<1>2. CASE PowerCycle
  BY <1>2
  DEF PowerCycle, Quiet, NoLine, PH!NoLine, PH!Line, Abstract!Next, Abstract!PowerCycle
<1>3. ASSUME NEW l \in PH!HostLine, ReadLine(l) PROVE Abstract!Next
  BY <1>3, SaysNothing DEF ReadLine
<1>4. ASSUME NEW n \in Node, PinChange(n) PROVE UNCHANGED <<sm, out>>
  BY <1>4 DEF PinChange
<1>5. CASE Tick \/ UNCHANGED vars
  BY <1>5 DEF Tick, vars
<1> QED BY <1>1, <1>2, <1>3, <1>4, <1>5 DEF Next

\* The device implements the session: its phases follow one another as promised, and in
\* each it writes only the lines that belong to it, whatever the host sends.
THEOREM DeviceImplementsSession == Spec => ImplementsSession
<1>1. Init => Abstract!Init
  BY DEF Init, FSM!Init, Abstract!Init, NoLine, PH!NoLine, PH!Line
<1> QED
  BY <1>1, StepImplements, DeviceInvariant, PTL
  DEF Spec, ImplementsSession, Abstract!Spec


-----------------------------------------------------------------------------
(* Commands. *)

\* handleEvent never writes a reply to a command.
LEMMA EventsDoNotReply ==
  ASSUME NEW e, sm \in FSM!States, HandleEvent(e)
  PROVE  out'.kind \notin PH!ReplyKinds
<1>1. PH!StateLine(sm).kind \notin PH!ReplyKinds
  BY DEF PH!StateLine, PH!Line, PH!NoLine, FSM!States, PH!ReplyKinds
<1>2. NoLine.kind \notin PH!ReplyKinds
  BY DEF NoLine, PH!NoLine, PH!Line, PH!ReplyKinds
<1>3. \A k \in {"CONFIG", "HB", "STATUS"} : PH!Line(k).kind \notin PH!ReplyKinds
  BY DEF PH!Line, PH!ReplyKinds
<1> QED
  BY <1>1, <1>2, <1>3
  DEF HandleEvent, OnConfigTimeout, OnHeartbeatTimeout, OnStatusUpdate, Quiet, Write

\* Each accepted command is answered exactly once, with its own reply, at the moment it
\* is released; a reply answers a command.
THEOREM EachCommandAnsweredOnce == Spec => OneReplyPerCommand
<1> DEFINE Answered ==
      /\ phCommand # NoCommand /\ phCommand' # phCommand /\ pc' # "setup" =>
           out'.kind \in PH!ReplyKinds /\ out'.path = PH!Path(phCommand)
      /\ out'.kind \in PH!ReplyKinds /\ out' # out =>
           phCommand # NoCommand /\ phCommand' = NoCommand
<1>1. DeviceInv /\ [Next]_vars => [Answered]_vars
  <2> SUFFICES ASSUME DeviceInv, Next PROVE Answered
    BY DEF vars
  <2>0. TypeOK
    BY DEF DeviceInv
  <2>1. NoLine.kind \notin PH!ReplyKinds
    BY DEF NoLine, PH!NoLine, PH!Line, PH!ReplyKinds
  <2>2. CASE PendingCommand
    <3>1. phCommand \in HostCommand /\ phCommand' = NoCommand
      BY <2>0, <2>2 DEF PendingCommand, PH!ReleaseCommand, TypeOK, PH!TypeOK, NoCommand
    <3>2. NC!ErrorResult("INVALID_STATE") \in NC!CommandResult
      BY DEF NC!CommandResult, NC!CommandErrors
    <3> QED
      BY <2>2, <3>1, <3>2, ResultTyped, ReplyTyped DEF PendingCommand, HandleCommand, Write
  <2>3. CASE ProtocolEvent \/ HeartbeatEvent \/ ConfigEvent \/ StatusEvent
    <3>1. out'.kind \notin PH!ReplyKinds
      BY <2>0, <2>3, EventsDoNotReply
      DEF ProtocolEvent, HeartbeatEvent, ConfigEvent, StatusEvent, TypeOK
    <3> QED
      BY <2>3, <3>1 DEF ProtocolEvent, HeartbeatEvent, ConfigEvent, StatusEvent
  <2>4. CASE PollNodes
    BY <2>4 DEF PollNodes, Write, PH!Line, PH!ReplyKinds
  <2>5. CASE PowerCycle
    BY <2>1, <2>5 DEF PowerCycle, Quiet
  <2>6. CASE (phCommand = NoCommand \/ UNCHANGED phCommand) /\ (Quiet \/ UNCHANGED out)
    BY <2>1, <2>6 DEF Quiet
  <2>7. ASSUME NEW n \in Node, AddNode(n) \/ PinChange(n)
        PROVE  UNCHANGED phCommand /\ (Quiet \/ UNCHANGED out)
    BY <2>7 DEF AddNode, PinChange, Calling, Quiet
  <2>8. ASSUME NEW l \in PH!HostLine, ReadLine(l)
        PROVE  phCommand = NoCommand /\ Quiet
    BY <2>8 DEF ReadLine
  <2>9. ASSUME Begin \/ NoMoreInput \/ NoProtocolEvent \/ NoCommandPending
               \/ HeartbeatUpdate \/ NoHeartbeatEvent \/ ConfigUpdate \/ NoConfigEvent
               \/ NodesUpdate \/ NothingPolled \/ StatusUpdate \/ NextPass \/ Tick
        PROVE  UNCHANGED phCommand /\ (Quiet \/ UNCHANGED out)
    BY <2>9 DEF Begin, Calling, Quiet, PH!Begin, NoMoreInput, NoProtocolEvent,
                NoCommandPending, HeartbeatUpdate, NoHeartbeatEvent, ConfigUpdate,
                NoConfigEvent, NodesUpdate, NothingPolled, StatusUpdate, NextPass, Tick
  <2> QED
    BY <2>2, <2>3, <2>4, <2>5, <2>6, <2>7, <2>8, <2>9 DEF Next, Setup, Loop
<1> QED BY <1>1, DeviceInvariant, PTL DEF Spec, OneReplyPerCommand

-----------------------------------------------------------------------------
(* Commands *)

\* A set of positions has a first one: of the finite sets 0 .. i, one is minimal.
LEMMA FirstPosition ==
  ASSUME NEW S \in SUBSET Nat, S # {}
  PROVE  \E i \in S : \A j \in S : i <= j
<1> DEFINE T == {0 .. i : i \in S}
<1>1. IsWellFoundedOn(StrictSubsetOrdering(Nat), FiniteSubsetsOf(Nat))
  BY FS_StrictSubsetOrderingWellFounded
<1>2. T \subseteq FiniteSubsetsOf(Nat) /\ T # {}
  <2>1. \A i \in S : IsFiniteSet(0 .. i) /\ 0 .. i \subseteq Nat
    BY FS_Interval
  <2> QED BY <2>1 DEF FiniteSubsetsOf
<1>3. PICK x \in T : \A y \in T : <<y, x>> \notin StrictSubsetOrdering(Nat)
  <2> HIDE DEF T
  <2> QED BY <1>1, <1>2, WFMin
<1>4. PICK i \in S : x = 0 .. i
  BY <1>3
<1>5. ASSUME NEW j \in S, j < i PROVE FALSE
  <2>1. 0 .. j \subseteq 0 .. i /\ i \in 0 .. i /\ i \notin 0 .. j
    BY <1>5
  <2>2. 0 .. j # 0 .. i /\ 0 .. j \subseteq Nat /\ 0 .. i \subseteq Nat
    BY <2>1
  <2>3. <<0 .. j, 0 .. i>> \in StrictSubsetOrdering(Nat)
    BY <2>1, <2>2 DEF StrictSubsetOrdering
  <2> QED BY <1>3, <1>4, <2>3
<1> QED
  BY <1>5

\* The command goes to a Node with its id.
LEMMA AddresseeHasTheId ==
  ASSUME TypeOK, NEW c, NC!Addressed(c) # {}
  PROVE  /\ NC!Addressee(c) \in Node /\ NC!Registered(NC!Addressee(c))
         /\ Kind[NC!Addressee(c)] = c.nodeId
<1>1. registered \in Seq(Node)
  BY DEF TypeOK, NC!TypeOK
<1>2. NC!Addressed(c) \subseteq DOMAIN registered /\ DOMAIN registered \subseteq Nat
  BY <1>1 DEF NC!Addressed
<1>3. \E i \in NC!Addressed(c) : \A j \in NC!Addressed(c) : i <= j
  BY <1>2, FirstPosition
<1>4. PICK i \in NC!Addressed(c) : NC!Addressee(c) = registered[i]
  BY <1>3 DEF NC!Addressee
<1> QED
  BY <1>1, <1>2, <1>4 DEF NC!Addressed, NC!Registered

\* A command is acknowledged exactly when a Node has it set.
LEMMA AckIffSet ==
  ASSUME NEW c
  PROVE  PH!ReplyLine(c, NC!ResultOf(c)).kind = "CMD_ACK"
           <=> NC!Addressed(c) # {} /\ NC!Sets(NC!Addressee(c), c)
<1>1. CASE NC!Addressed(c) # {} /\ NC!Sets(NC!Addressee(c), c)
  <2>1. NC!NodeResult(NC!Addressee(c), c) = NC!Ack
    BY <1>1 DEF NC!Sets, NC!NodeResult
  <2>2. NC!ResultOf(c) = NC!Ack
    BY <1>1, <2>1 DEF NC!ResultOf, NC!Sets
  <2> QED BY <1>1, <2>2 DEF NC!Ack, PH!ReplyLine
<1>2. CASE ~(NC!Addressed(c) # {} /\ NC!Sets(NC!Addressee(c), c))
  <2> DEFINE r == NC!ResultOf(c)
  <2>1. r.type \in {"ERROR", "RESPONSE"}
    <3>1. CASE NC!Addressed(c) = {} \/ c.propertyId = "none"
      BY <3>1 DEF NC!ResultOf, NC!ErrorResult
    <3>2. CASE NC!Addressed(c) # {} /\ c.propertyId # "none"
      <4>1. r = NC!NodeResult(NC!Addressee(c), c)
        BY <3>2 DEF NC!ResultOf
      <4> QED
        BY <1>2, <3>2, <4>1 DEF NC!NodeResult, NC!Sets, NC!ErrorResult, NC!Response
    <3> QED BY <3>1, <3>2
  <2> QED BY <1>2, <2>1 DEF PH!ReplyLine
<1> QED BY <1>1, <1>2

\* What may become of the outputs in one step of the loop.
Obeyed ==
  pc # "setup" /\ pc' # "setup" =>
    /\ \A n \in Node : Kind[n] = "led" /\ node'[n].status # node[n].status =>
         /\ out'.kind = "CMD_ACK" /\ phCommand.nodeId = "led"
         /\ node'[n].status = (phCommand.payload = "1")
    /\ phCommand' # phCommand /\ out'.kind = "CMD_ACK" =>
         \E n \in Node :
           /\ NC!Registered(n) /\ Kind[n] = phCommand.nodeId
           /\ node'[n].status = (phCommand.payload = "1")

\* The outputs change when a command is answered, and at no other step.
LEMMA OutputsKept ==
  ASSUME TypeOK, Next, ~PendingCommand, pc # "setup", pc' # "setup"
  PROVE  /\ \A n \in Node : Kind[n] = "led" => node'[n].status = node[n].status
         /\ UNCHANGED phCommand \/ Quiet
<1>0. node \in [Node -> NC!NodeState]
  BY DEF TypeOK, NC!TypeOK
<1>1. CASE NodesUpdate
  <2>1. node' = [n \in Node |-> IF NC!Registered(n) THEN NC!Updated(n) ELSE node[n]]
    BY <1>1 DEF NodesUpdate, NC!Update
  <2>2. \A n \in Node : Kind[n] = "led" => NC!Updated(n).status = node[n].status
    BY <1>0 DEF NC!Updated, NC!NodeState
  <2> QED BY <1>1, <2>1, <2>2 DEF NodesUpdate
<1>2. CASE PollNodes
  <2>1. PICK o \in NC!Ready : NC!Poll(o)
    BY <1>2 DEF PollNodes, NC!PollEvent
  <2>2. \A n \in Node : node'[n].status = node[n].status
    BY <1>0, <2>1 DEF NC!Poll, NC!NodeState
  <2> QED BY <1>2, <2>2 DEF PollNodes
<1>3. ASSUME NEW n \in Node, PinChange(n)
      PROVE  UNCHANGED phCommand /\ \A m \in Node : node'[m].status = node[m].status
  BY <1>0, <1>3 DEF PinChange, NC!PinChange, NC!NodeState
<1>4. ASSUME NEW l \in PH!HostLine, ReadLine(l) PROVE Quiet /\ UNCHANGED node
  BY <1>4 DEF ReadLine, nodes
<1>5. ASSUME ProtocolEvent \/ HeartbeatEvent \/ ConfigEvent \/ StatusEvent
      PROVE  UNCHANGED <<node, phCommand>>
  BY <1>5 DEF ProtocolEvent, HeartbeatEvent, ConfigEvent, StatusEvent, nodes
<1>6. ASSUME NoMoreInput \/ NoProtocolEvent \/ NoCommandPending \/ HeartbeatUpdate
             \/ NoHeartbeatEvent \/ ConfigUpdate \/ NoConfigEvent \/ NothingPolled
             \/ StatusUpdate \/ NextPass \/ Tick
      PROVE  UNCHANGED <<node, phCommand>>
  BY <1>6 DEF NoMoreInput, NoProtocolEvent, NoCommandPending, HeartbeatUpdate,
              NoHeartbeatEvent, ConfigUpdate, NoConfigEvent, NothingPolled, StatusUpdate,
              NextPass, Tick, nodes
<1>7. ASSUME Begin \/ PowerCycle \/ \E n \in Node : AddNode(n) PROVE FALSE
  BY <1>7 DEF Begin, AddNode, Calling, PowerCycle
<1> QED
  BY <1>1, <1>2, <1>3, <1>4, <1>5, <1>6, <1>7 DEF Next, Setup, Loop

\* Answering a command sets the Node it is acknowledged for, and no other.
LEMMA CommandObeyed ==
  ASSUME TypeOK, PendingCommand
  PROVE  Obeyed
<1> DEFINE c == phCommand
           a == NC!Addressee(c)
           set == NC!Addressed(c) # {} /\ NC!Sets(a, c)
<1>0. node \in [Node -> NC!NodeState]
  BY DEF TypeOK, NC!TypeOK
<1>1. CASE Serving /\ set
  <2>1. out'.kind = "CMD_ACK"
    BY <1>1, AckIffSet DEF PendingCommand, HandleCommand, Write
  <2>2. a \in Node /\ NC!Registered(a) /\ Kind[a] = c.nodeId /\ Kind[a] = "led"
    BY <1>1, AddresseeHasTheId DEF NC!Sets
  <2>3. node' = [node EXCEPT ![a].status = (c.payload = "1")]
    BY <1>1 DEF PendingCommand, HandleCommand, NC!HandleCommand
  <2>4. node'[a].status = (c.payload = "1") /\ \A n \in Node \ {a} : node'[n] = node[n]
    <3> HIDE DEF a, c
    <3> QED BY <1>0, <2>2, <2>3 DEF NC!NodeState
  <2> QED BY <2>1, <2>2, <2>4 DEF Obeyed
<1>2. CASE Serving /\ ~set
  <2>1. out'.kind # "CMD_ACK"
    BY <1>2, AckIffSet DEF PendingCommand, HandleCommand, Write
  <2>2. UNCHANGED node
    BY <1>2 DEF PendingCommand, HandleCommand, NC!HandleCommand
  <2> QED BY <2>1, <2>2 DEF Obeyed
<1>3. CASE ~Serving
  BY <1>3 DEF PendingCommand, HandleCommand, Write, PH!ReplyLine, NC!ErrorResult, nodes, Obeyed
<1> QED
  BY <1>1, <1>2, <1>3

\* An output is set by an acknowledged command and by nothing else the host sends, to the
\* value the command carries; and an acknowledged command has set the Node it names.
THEOREM OnlyAcknowledgedCommandsSet == Spec => OnlyAckedCommandsSet
<1>1. DeviceInv /\ [Next]_vars => [Obeyed]_vars
  <2> SUFFICES ASSUME DeviceInv, Next PROVE Obeyed
    BY DEF vars
  <2>1. TypeOK
    BY DEF DeviceInv
  <2>2. CASE PendingCommand
    BY <2>1, <2>2, CommandObeyed
  <2>3. CASE ~PendingCommand
    BY <2>1, <2>3, OutputsKept DEF Obeyed, Quiet, NoLine, PH!NoLine, PH!Line
  <2> QED BY <2>2, <2>3
<1> QED
  BY <1>1, DeviceInvariant, PTL DEF Spec, OnlyAckedCommandsSet, Obeyed

-----------------------------------------------------------------------------
(* setup() *)

\* A Node is registered by its call, and begun by a begin() that follows it.
SetupInv ==
  \A n \in Node :
    /\ NC!Registered(n) => \E i \in 1 .. called : SetupCalls[i] = n
    /\ node[n].begun => BegunBy(n)
    /\ NC!Registered(n) /\ BegunBy(n) => node[n].begun

\* A step of the Nodes that begins none and registers none.
NoNodeBegun ==
  UNCHANGED <<registered, called>> /\ \A n \in Node : node'[n].begun = node[n].begun

\* Nodes are begun and registered by setup(), and forgotten when power is lost: no
\* command, no poll, no update and no input does any of it.
LEMMA OnlySetupBegins ==
  ASSUME TypeOK, [Next]_vars
  PROVE  Begin \/ (\E n \in Node : AddNode(n)) \/ PowerCycle \/ NoNodeBegun
<1> USE DEF monitors, nodes, Step, NoNodeBegun
<1>0. node \in [Node -> NC!NodeState] /\ \A n \in Node : Kind[n] \in NC!Kinds
  BY OrquestratorAssumption DEF TypeOK, NC!TypeOK
<1>1. CASE PendingCommand
  <2>1. CASE UNCHANGED nodes
    BY <1>1, <2>1 DEF PendingCommand
  <2>2. CASE NC!HandleCommand(phCommand)
    BY <1>0, <1>1, <2>2 DEF PendingCommand, NC!HandleCommand, NC!NodeState
  <2> QED BY <1>1, <2>1, <2>2 DEF PendingCommand, HandleCommand
<1>2. CASE NodesUpdate
  <2>1. \A n \in Node : NC!Updated(n).begun = node[n].begun
    BY <1>0 DEF NC!Updated, NC!Kinds, NC!NodeState
  <2> QED BY <1>0, <1>2, <2>1 DEF NodesUpdate, NC!Update
<1>3. CASE PollNodes
  BY <1>0, <1>3 DEF PollNodes, NC!PollEvent, NC!Poll, NC!NodeState
<1>4. ASSUME NEW n \in Node, PinChange(n) PROVE NoNodeBegun
  BY <1>0, <1>4 DEF PinChange, NC!PinChange, NC!NodeState
<1>5. ASSUME NEW l \in PH!HostLine, ReadLine(l) PROVE NoNodeBegun
  BY <1>5 DEF ReadLine
<1>6. CASE NoMoreInput \/ ProtocolEvent \/ NoProtocolEvent \/ NoCommandPending
           \/ HeartbeatUpdate \/ HeartbeatEvent \/ NoHeartbeatEvent
  BY <1>6 DEF NoMoreInput, ProtocolEvent, NoProtocolEvent, NoCommandPending,
              HeartbeatUpdate, HeartbeatEvent, NoHeartbeatEvent
<1>7. CASE ConfigUpdate \/ ConfigEvent \/ NoConfigEvent \/ NothingPolled \/ StatusUpdate
           \/ StatusEvent \/ NextPass \/ Tick \/ UNCHANGED vars
  BY <1>7 DEF ConfigUpdate, ConfigEvent, NoConfigEvent, NothingPolled, StatusUpdate,
              StatusEvent, NextPass, Tick, vars
<1> QED BY <1>1, <1>2, <1>3, <1>4, <1>5, <1>6, <1>7 DEF Next, Setup, Loop

\* Each step keeps what is begun in step with the calls that were made.
LEMMA SetupInvStep == TypeOK /\ SetupInv /\ [Next]_vars => SetupInv'
<1> SUFFICES ASSUME TypeOK, SetupInv, [Next]_vars, NEW n \in Node
             PROVE  /\ NC!Registered(n)' => \E i \in 1 .. called' : SetupCalls[i] = n
                    /\ node'[n].begun => BegunBy(n)'
                    /\ NC!Registered(n)' /\ BegunBy(n)' => node'[n].begun
  BY DEF SetupInv
<1>0. /\ called \in 0 .. Len(SetupCalls) /\ Len(SetupCalls) \in Nat
      /\ DOMAIN SetupCalls = 1 .. Len(SetupCalls)
      /\ registered \in Seq(Node) /\ node \in [Node -> NC!NodeState]
  BY OrquestratorAssumption DEF TypeOK, NC!TypeOK
<1>1. /\ NC!Registered(n) => \E i \in 1 .. called : SetupCalls[i] = n
      /\ node[n].begun => BegunBy(n)
      /\ NC!Registered(n) /\ BegunBy(n) => node[n].begun
  BY DEF SetupInv
<1>2. CASE Begin
  <2>1. /\ called' = called + 1 /\ SetupCalls[called + 1] = "begin"
        /\ UNCHANGED registered
    BY <1>2 DEF Begin, Calling, NC!Begin
  <2>2. NC!Registered(n)' <=> NC!Registered(n)
    BY <2>1 DEF NC!Registered
  <2>3. BegunBy(n) => BegunBy(n)'
    BY <1>0, <2>1 DEF BegunBy
  <2>4. CASE NC!Registered(n)
    <3>1. BegunBy(n)'
      BY <1>0, <1>1, <2>1, <2>4 DEF BegunBy
    <3>2. node'[n].begun
      BY <1>0, <1>2, <2>4 DEF Begin, NC!Begin, NC!NodeState
    <3> QED BY <1>0, <1>1, <2>1, <2>2, <3>1, <3>2
  <2>5. CASE ~NC!Registered(n)
    <3>1. node'[n] = node[n]
      BY <1>0, <1>2, <2>5 DEF Begin, NC!Begin
    <3> QED BY <1>1, <2>2, <2>3, <2>5, <3>1
  <2> QED BY <2>4, <2>5
<1>3. ASSUME NEW m \in Node, AddNode(m)
      PROVE  /\ NC!Registered(n)' => \E i \in 1 .. called' : SetupCalls[i] = n
             /\ node'[n].begun => BegunBy(n)'
             /\ NC!Registered(n)' /\ BegunBy(n)' => node'[n].begun
  <2>1. /\ called' = called + 1 /\ SetupCalls[called + 1] = m /\ m # "begin"
        /\ called + 1 \in DOMAIN SetupCalls /\ UNCHANGED node
    <3>1. m # "begin"
      BY OrquestratorAssumption
    <3>2. called < Len(SetupCalls) /\ SetupCalls[called + 1] = m /\ called' = called + 1
      BY <1>3 DEF AddNode, Calling
    <3>3. UNCHANGED node
      BY <1>3 DEF AddNode, NC!AddNode
    <3> QED BY <1>0, <3>1, <3>2, <3>3
  <2>2. NC!Registered(n)' => NC!Registered(n) \/ n = m
    BY <1>0, <1>3 DEF AddNode, NC!AddNode, NC!Registered
  <2>3. BegunBy(n)' <=> BegunBy(n)
    BY <1>0, <2>1 DEF BegunBy
  <2>4. n = m => ~BegunBy(n)
    <3> SUFFICES ASSUME n = m, BegunBy(n) PROVE FALSE
      OBVIOUS
    <3>1. PICK i \in 1 .. called : SetupCalls[i] = m
      BY DEF BegunBy
    <3>2. i = called + 1
      BY <1>0, <2>1, <3>1, OrquestratorAssumption
    <3> QED BY <1>0, <3>2
  <2>5. NC!Registered(n)' => \E i \in 1 .. called' : SetupCalls[i] = n
    BY <1>0, <1>1, <2>1, <2>2
  <2> QED BY <1>1, <2>1, <2>2, <2>3, <2>4, <2>5
<1>4. CASE PowerCycle
  <2>1. registered' = << >> /\ ~node'[n].begun
    BY <1>4 DEF PowerCycle
  <2>2. ~NC!Registered(n)'
    BY <2>1 DEF NC!Registered
  <2> QED BY <2>1, <2>2
<1>5. CASE NoNodeBegun
  BY <1>1, <1>5 DEF NoNodeBegun, NC!Registered, BegunBy
<1> QED BY <1>2, <1>3, <1>4, <1>5, OnlySetupBegins

\* What is begun is in step with the calls in every reachable state.
LEMMA SetupInvariant == Spec => []SetupInv
<1>1. Init => SetupInv
  <2> SUFFICES ASSUME Init, NEW n \in Node
               PROVE  ~NC!Registered(n) /\ ~node[n].begun
    BY DEF SetupInv
  <2>1. registered = << >> /\ ~node[n].begun
    BY DEF Init, NC!Init
  <2> QED BY <2>1 DEF NC!Registered
<1> QED BY <1>1, SetupInvStep, TypeCorrect, PTL DEF Spec

\* In whatever order a firmware makes its calls, of the Nodes in the table those are
\* begun that were registered before begin() was called.
THEOREM BegunIffBeforeBegin == Spec => []BegunInOrder
<1>1. SetupInv => BegunInOrder
  BY DEF SetupInv, BegunInOrder
<1> QED BY <1>1, SetupInvariant, PTL

\* The order of the README, registering first and beginning last, is enough: the loop
\* never updates a Node that was not begun.
THEOREM RegisterThenBegin ==
  ASSUME SetupCalls[Len(SetupCalls)] = "begin"
  PROVE  Spec => []NodesBegun
<1>1. DeviceInv /\ SetupInv => NodesBegun
  <2> SUFFICES ASSUME DeviceInv, SetupInv, pc # "setup", NEW n \in Node, NC!Registered(n)
               PROVE  node[n].begun
    BY DEF NodesBegun
  <2>1. called = Len(SetupCalls) /\ called \in Nat
    BY OrquestratorAssumption DEF DeviceInv, SetupFirst
  <2>2. PICK i \in 1 .. called : SetupCalls[i] = n
    BY DEF SetupInv
  <2>3. n # "begin"
    BY OrquestratorAssumption
  <2>4. BegunBy(n)
    BY <2>1, <2>2, <2>3 DEF BegunBy
  <2> QED BY <2>4 DEF SetupInv
<1> QED BY <1>1, SetupInvariant, DeviceInvariant, PTL

\* The order of the shipped main.cpp is not: a Node whose call follows that of begin() is
\* never begun, whatever happens.
THEOREM LateNodeNeverBegun ==
  ASSUME NEW i \in DOMAIN SetupCalls, NEW j \in DOMAIN SetupCalls,
         SetupCalls[i] = "begin", SetupCalls[j] \in Node, i < j
  PROVE  Spec => [](~node[SetupCalls[j]].begun)
<1>1. TypeOK /\ SetupInv => ~node[SetupCalls[j]].begun
  <2> SUFFICES ASSUME TypeOK, BegunBy(SetupCalls[j]) PROVE FALSE
    BY DEF SetupInv
  <2>1. PICK k, b \in 1 .. called :
          k < b /\ SetupCalls[k] = SetupCalls[j] /\ SetupCalls[b] = "begin"
    BY DEF BegunBy
  <2>2. k \in DOMAIN SetupCalls /\ b \in DOMAIN SetupCalls /\ i \in Nat /\ j \in Nat
    BY OrquestratorAssumption DEF TypeOK
  <2>3. k = j /\ b = i
    BY <2>1, <2>2, OrquestratorAssumption
  <2> QED BY <2>1, <2>2, <2>3
<1> QED BY <1>1, SetupInvariant, TypeCorrect, PTL

=============================================================================
