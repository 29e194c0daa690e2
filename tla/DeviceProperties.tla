-------------------------- MODULE DeviceProperties --------------------------
(***************************************************************************)
(* What is claimed of the device when the host is arbitrary.               *)
(***************************************************************************)
EXTENDS Orquestrator

Managed == StartupMode = "MANAGED"
Started == sm # "BOOT"

-----------------------------------------------------------------------------
(* Invariants *)

\* The handshake state is kept twice, in StateMachine::m_state and in
\* ConfigMonitor::m_state with m_run, and the two are moved by different calls of
\* handleEvent.  They never disagree: the monitor of a managed device runs exactly
\* while the device is in UP or CFG, and then in the same of the two.  (Once stopped,
\* its copy may say anything: a stray UP_ACK moves it.)
HandshakeAgreement ==
  Managed /\ Started =>
    /\ cm.run <=> sm \in {"UP", "CFG"}
    /\ cm.run => cm.state = sm

\* EventEmitter drops an event while the one before is unread.  Nothing is ever
\* dropped: a component that is about to emit finds its slot empty, and a command is
\* never parsed over one that is still to be answered.
NothingOverwritten ==
  /\ phEvent # "NONE" => pc = "events"
  /\ phCommand # NoCommand => pc \in {"events", "commands"}
  /\ hbEvent # "NONE" => pc = "heartbeatEvents"
  /\ cmEvent # "NONE" => pc = "configEvents"
  /\ stEvent # "NONE" => pc = "statusEvents"

\* At most one message a pass: an event and a command are never pending together, so
\* a command is judged in the state in which the host's last message left the device.
OneMessageAtATime == phEvent = "NONE" \/ phCommand = NoCommand

\* Whatever the host sends, a standalone device never starts to supervise it: no
\* handshake, no heartbeat, and no way out of the session.
StandaloneNeverSupervises ==
  ~Managed /\ Started =>
    /\ sm \in FSM!Active
    /\ ~cm.run /\ cmEvent = "NONE"
    /\ ~hb.run /\ hbEvent = "NONE"

\* What makes the above inductive.  The loop runs only after the last call of setup(),
\* and begin() is one of them; what the handshake monitor has raised and is still to be
\* read speaks of the state it is in.
SetupFirst ==
  /\ IF pc = "setup" THEN called < Len(SetupCalls) ELSE called = Len(SetupCalls)
  /\ (\E i \in 1 .. called : SetupCalls[i] = "begin") => Started

PendingRequestIsCurrent ==
  /\ cmEvent # "NONE" => cm.run
  /\ cmEvent \in {"UP_REQUEST", "UP_TIMEOUT"} => cm.state = "UP"
  /\ cmEvent \in {"CFG_REQUEST", "CFG_TIMEOUT"} => cm.state = "CFG"

\* The inductive invariant: the conditions above support each other.
DeviceInv ==
  /\ TypeOK /\ SetupFirst
  /\ NothingOverwritten /\ OneMessageAtATime
  /\ PendingRequestIsCurrent /\ HandshakeAgreement
  /\ StandaloneNeverSupervises

\* A Node the loop updates has been begun (its pin mode is set): what setup() must
\* have done, as the README has it, by registering Nodes before begin().
NodesBegun == pc # "setup" => \A n \in Node : NC!Registered(n) => node[n].begun

\* begin() begins what addNode() has registered before it, and addNode() begins nothing:
\* of the registered Nodes those are begun, for as long as the power is on, whose call
\* came before that of begin(), and no others.
BegunBy(n) ==
  \E i, j \in 1 .. called : i < j /\ SetupCalls[i] = n /\ SetupCalls[j] = "begin"

BegunInOrder == \A n \in Node : NC!Registered(n) => (node[n].begun <=> BegunBy(n))

-----------------------------------------------------------------------------
(* Action properties *)

\* A command is released only with one reply, to that command, and no reply is
\* written for anything else.
OneReplyPerCommand ==
  [][/\ phCommand # NoCommand /\ phCommand' # phCommand /\ pc' # "setup" =>
          out'.kind \in PH!ReplyKinds /\ out'.path = PH!Path(phCommand)
     /\ out'.kind \in PH!ReplyKinds /\ out' # out =>
          phCommand # NoCommand /\ phCommand' = NoCommand]_vars

\* A refused command leaves no trace, nor does anything else the host sends: only a
\* command answered CMD_ACK changes the status of an output Node, and then to the value
\* it carries; and a Node it names has that value when CMD_ACK goes out.
OnlyAckedCommandsSet ==
  [][pc # "setup" /\ pc' # "setup" =>
       /\ \A n \in Node : Kind[n] = "led" /\ node'[n].status # node[n].status =>
            /\ out'.kind = "CMD_ACK" /\ phCommand.nodeId = "led"
            /\ node'[n].status = (phCommand.payload = "1")
       /\ phCommand' # phCommand /\ out'.kind = "CMD_ACK" =>
            \E n \in Node :
              /\ NC!Registered(n) /\ Kind[n] = phCommand.nodeId
              /\ node'[n].status = (phCommand.payload = "1")]_vars

\* The device implements the session it promises the host: phases in order, and in
\* each phase only the lines that belong to it.
Abstract == INSTANCE Session WITH phase <- sm, line <- out.kind
ImplementsSession == Abstract!Spec

-----------------------------------------------------------------------------
(* Liveness, under FairSpec *)

\* A session does not outlive its host: a managed device that stops hearing
\* heartbeats goes back to announcing itself, again and again.
DeadHostDetected ==
  Managed => (<>[](phEvent # "HB_ACK") => []<>(sm = "UP"))

\* The handshake never stalls: the configuration phase ends, by the host's answer or
\* by a timeout, ...
ConfigPhaseEnds == sm = "CFG" ~> sm # "CFG"

\* ... and a device nobody answers keeps announcing itself, although heartbeat timeouts
\* restart its handshake over and over.  (A host that sent REBOOT more often than every
\* CONFIG_INTERVAL would keep it silent: each one restarts the interval.)
KeepsAnnouncing == <>[](sm = "UP" /\ phEvent # "REBOOT") => []<>(out.kind = "UP")

\* The status is published for as long as the device runs.
StatusPublished == <>[](sm = "RUN") => []<>(out.kind = "STATUS")

\* Every command that was accepted from the transport is answered.
CommandsAnswered == phCommand # NoCommand ~> (out.kind \in PH!ReplyKinds \/ sm = "BOOT")

=============================================================================
