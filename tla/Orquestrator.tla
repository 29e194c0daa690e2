---------------------------- MODULE Orquestrator ----------------------------
(***************************************************************************)
(* Orquestrator: the firmware's setup() and its loop(), which calls        *)
(* Orquestrator::update() for ever.  update() is one pass through the      *)
(* phases of pc, in the order of the code; a while loop over an emitter is *)
(* a phase of its own.  Between two steps of the loop time may pass, an    *)
(* input pin may change, and the board may lose power.                     *)
(*                                                                         *)
(* The host is arbitrary: whenever the device reads a line it may be any   *)
(* line, so every order, loss, repetition and delay of messages is there.  *)
(***************************************************************************)
EXTENDS Events, Millis, Sequences

CONSTANTS
  StartupMode, HEARTBEAT_INTERVAL, CONFIG_INTERVAL, MAX_INTERVAL,
  Node, Kind, MAX_NODES, HostCommand,
  SetupCalls,    \* the calls of setup(), each made once: "begin" or the Node passed to addNode
  MaxLag         \* milliseconds one pass of update() takes at most

VARIABLES
  sm, cm, cmEvent, hb, hbEvent, st, stEvent, phEvent, phCommand,
  registered, nextPoll, node,
  pc,            \* the phase of update() the loop is in
  called,        \* number of SetupCalls made
  now,           \* millis()
  lag,           \* milliseconds since this pass of update() began
  out            \* the line the last step of the loop wrote, or NoLine

FSM == INSTANCE StateMachine
CM == INSTANCE ConfigMonitor
HB == INSTANCE HeartBeatMonitor
ST == INSTANCE StatusMonitor
PH == INSTANCE ProtocolHandler
NC == INSTANCE NodeController

NoCommand == PH!NoCommand
NoLine == PH!NoLine

ASSUME OrquestratorAssumption ==
  /\ StartupMode \in StartupModes
  /\ CONFIG_INTERVAL \in Nat \ {0} /\ HEARTBEAT_INTERVAL \in Nat \ {0}
  /\ MAX_INTERVAL \in Nat \ {0} /\ MaxLag \in Nat
  /\ MAX_NODES \in Nat \ {0} /\ Kind \in [Node -> NC!Kinds]
  /\ "begin" \notin Node
  /\ SetupCalls \in Seq(Node \cup {"begin"})
  /\ \E i \in DOMAIN SetupCalls : SetupCalls[i] = "begin"
  /\ \A i, j \in DOMAIN SetupCalls : SetupCalls[i] = SetupCalls[j] => i = j
  /\ HostCommand \subseteq NC!Command

LoopPhases ==
  {"protocol", "events", "commands", "heartbeat", "heartbeatEvents", "config",
   "configEvents", "nodes", "poll", "status", "statusEvents"}

monitors == <<cm, cmEvent, hb, hbEvent, st, stEvent>>
nodes == <<registered, nextPoll, node>>
vars == <<sm, monitors, phEvent, phCommand, nodes, pc, called, now, lag, out>>

OutLine ==
  [kind : PH!LineKinds, path : {PH!Path(c) : c \in HostCommand \cup {NoCommand}},
   detail : {"NONE", "0", "1"} \cup NC!CommandErrors]

TypeOK ==
  /\ sm \in FSM!States
  /\ CM!TypeOK /\ HB!TypeOK /\ ST!TypeOK /\ PH!TypeOK /\ NC!TypeOK
  /\ pc \in {"setup"} \cup LoopPhases
  /\ called \in 0 .. Len(SetupCalls)
  /\ now \in Instant
  /\ lag \in 0 .. MaxLag
  /\ out \in OutLine

-----------------------------------------------------------------------------
(* setup() *)

Init ==
  /\ FSM!Init /\ CM!Init /\ HB!Init /\ ST!Init /\ PH!Init /\ NC!Init
  /\ pc = "setup" /\ called = 0 /\ now = 0 /\ lag = 0 /\ out = NoLine

\* setup() makes its next call, and the loop starts after the last one.
Calling(call) ==
  /\ pc = "setup" /\ called < Len(SetupCalls)
  /\ SetupCalls[called + 1] = call
  /\ called' = called + 1
  /\ pc' = IF called + 1 = Len(SetupCalls) THEN "protocol" ELSE "setup"
  /\ out' = NoLine
  /\ UNCHANGED <<now, lag>>

Begin ==
  /\ Calling("begin")
  /\ PH!Begin /\ FSM!Begin /\ HB!Begin(now, StartupMode = "MANAGED")
  /\ CM!Begin(now) /\ ST!Begin(now) /\ NC!Begin

AddNode(n) ==
  /\ Calling(n)
  /\ NC!AddNode(n)
  /\ UNCHANGED <<sm, monitors, phEvent, phCommand>>

-----------------------------------------------------------------------------
(* handleEvent and handleCommand.  Each clause says what becomes of the state *)
(* machine, the two monitors an event can reach, and the output.              *)

Write(line) == out' = line
Quiet == out' = NoLine

\* The clauses of handleEvent that have a variant used to show that a property can fail.
OnConfigTimeout_KeepsHandshake(e) ==
  /\ e = "CFG_TIMEOUT"
  /\ FSM!HandleEvent(e) /\ Quiet /\ UNCHANGED <<cm, hb>>

OnConfigTimeout(e) ==
  /\ e = "CFG_TIMEOUT"
  /\ CM!RestartHandshake(now) /\ FSM!HandleEvent(e) /\ Quiet /\ UNCHANGED hb

OnHeartbeatTimeout_KeepsHandshake(e) ==
  /\ e = "HB_TIMEOUT"
  /\ FSM!HandleEvent(e) /\ Quiet /\ UNCHANGED <<cm, hb>>

OnHeartbeatTimeout(e) ==
  /\ e = "HB_TIMEOUT"
  /\ FSM!HandleEvent(e) /\ CM!HandleEvent(e, now) /\ Quiet /\ UNCHANGED hb

OnStatusUpdate_InAnyState(e) ==
  /\ e = "STATUS_UPDATE"
  /\ Write(PH!Line("STATUS"))
  /\ UNCHANGED <<sm, cm, hb>>

OnStatusUpdate(e) ==
  /\ e = "STATUS_UPDATE"
  /\ Write(IF sm = "RUN" THEN PH!Line("STATUS") ELSE NoLine)
  /\ UNCHANGED <<sm, cm, hb>>

HandleEvent(e) ==
  \/ /\ e \in {"UP_ACK", "CFG_ACK", "REBOOT"}
     /\ FSM!HandleEvent(e) /\ CM!HandleEvent(e, now) /\ HB!HandleEvent(e, now) /\ Quiet
  \/ /\ e \in {"RUN_RCV", "IDLE_RCV", "DIS_RCV"}
     /\ FSM!HandleEvent(e) /\ Quiet /\ UNCHANGED <<cm, hb>>
  \/ /\ e = "UP_TIMEOUT"
     /\ Write(PH!StateLine(sm)) /\ FSM!HandleEvent(e) /\ UNCHANGED <<cm, hb>>
  \/ OnConfigTimeout(e)
  \/ /\ e = "HB_ACK"
     /\ HB!HandleEvent(e, now) /\ Quiet /\ UNCHANGED <<sm, cm>>
  \/ /\ e \in {"UP_REQUEST", "GET_STATE"}
     /\ Write(PH!StateLine(sm)) /\ UNCHANGED <<sm, cm, hb>>
  \/ /\ e = "CFG_REQUEST"
     /\ Write(PH!Line("CONFIG")) /\ UNCHANGED <<sm, cm, hb>>
  \/ /\ e = "HB_REQUEST"
     /\ Write(PH!Line("HB")) /\ UNCHANGED <<sm, cm, hb>>
  \/ OnHeartbeatTimeout(e)
  \/ OnStatusUpdate(e)
  \/ /\ e \in {"CMD_ACK", "CMD_PARSE_ERROR"}
     /\ Quiet /\ UNCHANGED <<sm, cm, hb>>

Serving == sm \in {"RUN", "IDLE"}

\* An error is not reported to the host.
HandleCommand_SilentRefusal(c) ==
  /\ IF Serving THEN NC!HandleCommand(c) ELSE UNCHANGED nodes
  /\ Write(IF Serving THEN PH!ReplyLine(c, NC!ResultOf(c)) ELSE NoLine)

HandleCommand(c) ==
  /\ IF Serving THEN NC!HandleCommand(c) ELSE UNCHANGED nodes
  /\ Write(PH!ReplyLine(c, IF Serving THEN NC!ResultOf(c) ELSE NC!ErrorResult("INVALID_STATE")))

-----------------------------------------------------------------------------
(* update(), phase by phase. *)

\* The loop goes from phase p to phase q.
Step(p, q) == pc = p /\ pc' = q /\ UNCHANGED <<called, now, lag>>

\* ProtocolHandler::update keeps reading after a line that raised an event.
ReadLine_KeepsReading(l) ==
  /\ phCommand = NoCommand
  /\ PH!Receive(l)
  /\ Step("protocol", "protocol")
  /\ Quiet /\ UNCHANGED <<sm, monitors, nodes>>

\* ProtocolHandler::update reads a line, and returns if it left an event or a command.
ReadLine(l) ==
  /\ phCommand = NoCommand
  /\ PH!Receive(l)
  /\ Step("protocol", IF HasEvent(phEvent') \/ phCommand' # NoCommand THEN "events" ELSE "protocol")
  /\ Quiet /\ UNCHANGED <<sm, monitors, nodes>>

\* The transport has no complete line.
NoMoreInput ==
  /\ Step("protocol", "events")
  /\ Quiet /\ UNCHANGED <<sm, monitors, phEvent, phCommand, nodes>>

ProtocolEvent ==
  /\ Step("events", "events")
  /\ HasEvent(phEvent) /\ phEvent' = "NONE"
  /\ HandleEvent(phEvent)
  /\ UNCHANGED <<cmEvent, hbEvent, st, stEvent, phCommand, nodes>>

NoProtocolEvent ==
  /\ Step("events", "commands")
  /\ ~HasEvent(phEvent)
  /\ Quiet /\ UNCHANGED <<sm, monitors, phEvent, phCommand, nodes>>

PendingCommand ==
  /\ Step("commands", "commands")
  /\ phCommand # NoCommand
  /\ HandleCommand(phCommand) /\ PH!ReleaseCommand
  /\ UNCHANGED <<sm, monitors, phEvent>>

NoCommandPending ==
  /\ Step("commands", "heartbeat")
  /\ phCommand = NoCommand
  /\ Quiet /\ UNCHANGED <<sm, monitors, phEvent, phCommand, nodes>>

HeartbeatUpdate ==
  /\ Step("heartbeat", "heartbeatEvents")
  /\ HB!Update(now)
  /\ Quiet /\ UNCHANGED <<sm, cm, cmEvent, st, stEvent, phEvent, phCommand, nodes>>

HeartbeatEvent ==
  /\ Step("heartbeatEvents", "heartbeatEvents")
  /\ HasEvent(hbEvent) /\ hbEvent' = "NONE"
  /\ HandleEvent(hbEvent)
  /\ UNCHANGED <<cmEvent, st, stEvent, phEvent, phCommand, nodes>>

NoHeartbeatEvent ==
  /\ Step("heartbeatEvents", "config")
  /\ ~HasEvent(hbEvent)
  /\ Quiet /\ UNCHANGED <<sm, monitors, phEvent, phCommand, nodes>>

ConfigUpdate ==
  /\ Step("config", "configEvents")
  /\ CM!Update(now)
  /\ Quiet /\ UNCHANGED <<sm, hb, hbEvent, st, stEvent, phEvent, phCommand, nodes>>

ConfigEvent ==
  /\ Step("configEvents", "configEvents")
  /\ HasEvent(cmEvent) /\ cmEvent' = "NONE"
  /\ HandleEvent(cmEvent)
  /\ UNCHANGED <<hbEvent, st, stEvent, phEvent, phCommand, nodes>>

NoConfigEvent ==
  /\ Step("configEvents", "nodes")
  /\ ~HasEvent(cmEvent)
  /\ Quiet /\ UNCHANGED <<sm, monitors, phEvent, phCommand, nodes>>

\* NodeController's own emitter is never filled: its loop does nothing.
NodesUpdate ==
  /\ Step("nodes", "poll")
  /\ NC!Update
  /\ Quiet /\ UNCHANGED <<sm, monitors, phEvent, phCommand>>

PollNodes ==
  /\ Step("poll", "status")
  /\ Serving /\ NC!PollEvent
  /\ Write(PH!Line("NODE_EVENT"))
  /\ UNCHANGED <<sm, monitors, phEvent, phCommand>>

NothingPolled ==
  /\ Step("poll", "status")
  /\ ~Serving \/ NC!Ready = {}
  /\ Quiet /\ UNCHANGED <<sm, monitors, phEvent, phCommand, nodes>>

StatusUpdate ==
  /\ Step("status", "statusEvents")
  /\ ST!Update(now)
  /\ Quiet /\ UNCHANGED <<sm, cm, cmEvent, hb, hbEvent, phEvent, phCommand, nodes>>

StatusEvent ==
  /\ Step("statusEvents", "statusEvents")
  /\ HasEvent(stEvent) /\ stEvent' = "NONE"
  /\ HandleEvent(stEvent)
  /\ UNCHANGED <<cmEvent, hbEvent, st, phEvent, phCommand, nodes>>

\* update() returns and loop() calls it again.
NextPass ==
  /\ pc = "statusEvents" /\ pc' = "protocol"
  /\ ~HasEvent(stEvent)
  /\ lag' = 0
  /\ Quiet /\ UNCHANGED <<sm, monitors, phEvent, phCommand, nodes, called, now>>

-----------------------------------------------------------------------------
(* The environment *)

Tick ==
  /\ lag < MaxLag
  /\ now' = NextInstant(now) /\ lag' = lag + 1
  /\ UNCHANGED <<sm, monitors, phEvent, phCommand, nodes, pc, called, out>>

PinChange(n) ==
  /\ NC!PinChange(n)
  /\ UNCHANGED <<sm, monitors, phEvent, phCommand, pc, called, now, lag, out>>

\* Power is lost, and everything starts from its initialisers; the pins are
\* what they are.
PowerCycle ==
  /\ sm' = "BOOT"
  /\ cm' = CM!Unstarted /\ cmEvent' = "NONE"
  /\ hb' = HB!Unstarted /\ hbEvent' = "NONE"
  /\ st' = 0 /\ stEvent' = "NONE"
  /\ phEvent' = "NONE" /\ phCommand' = NoCommand
  /\ registered' = << >> /\ nextPoll' = 0
  /\ node' = [n \in Node |-> [status |-> FALSE, pending |-> FALSE, begun |-> FALSE,
                              pin |-> node[n].pin]]
  /\ pc' = "setup" /\ called' = 0 /\ now' = 0 /\ lag' = 0
  /\ Quiet

-----------------------------------------------------------------------------

\* What the processor does of its own accord; reading a line takes a host as well.
Setup == Begin \/ \E n \in Node : AddNode(n)

Loop ==
  \/ NoMoreInput \/ ProtocolEvent \/ NoProtocolEvent
  \/ PendingCommand \/ NoCommandPending
  \/ HeartbeatUpdate \/ HeartbeatEvent \/ NoHeartbeatEvent
  \/ ConfigUpdate \/ ConfigEvent \/ NoConfigEvent
  \/ NodesUpdate \/ PollNodes \/ NothingPolled
  \/ StatusUpdate \/ StatusEvent \/ NextPass

Next ==
  \/ Setup \/ Loop
  \/ \E l \in PH!HostLine : ReadLine(l)
  \/ Tick \/ PowerCycle
  \/ \E n \in Node : PinChange(n)

Spec == Init /\ [][Next]_vars

\* loop() is called for ever, and time passes.  Nothing is assumed of the host.
Fairness == WF_vars(Setup \/ Loop) /\ WF_vars(Tick)

FairSpec == Spec /\ Fairness

=============================================================================
