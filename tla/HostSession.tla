----------------------------- MODULE HostSession ----------------------------
(***************************************************************************)
(* The device together with a host that keeps its side of the session:     *)
(* what the two achieve, for the device alone can promise no session.      *)
(* Lines are lost, the board loses power, the host asks for a reboot: each *)
(* a fault, of which there are at most MaxFaults.                          *)
(***************************************************************************)
EXTENDS DeviceProperties

CONSTANTS
  MaxDelay,      \* milliseconds the host takes to answer a line at most
  UserRequests,  \* the modes the host's user asks for
  MaxFaults,     \* bound
  RecoveryTime   \* milliseconds

VARIABLES
  toHost, toDevice, delay, configured,
  faults,        \* the number of faults so far
  since          \* milliseconds since the last one, RecoveryTime + 1 for longer

H == INSTANCE Host

all == <<vars, H!host, faults, since>>

ASSUME HostSessionAssumption ==
  /\ MaxDelay \in Nat /\ MaxFaults \in Nat /\ RecoveryTime \in Nat
  /\ UserRequests \subseteq {"RUN", "IDLE", "DIS"}

-----------------------------------------------------------------------------

InitSession == Init /\ H!Init /\ faults = 0 /\ since = 0

NoFault == UNCHANGED <<faults, since>>
Fault == faults < MaxFaults /\ faults' = faults + 1 /\ since' = 0

\* ProtocolHandler::update goes on while the transport has input.
Read ==
  /\ toDevice # << >> /\ toDevice' = Tail(toDevice)
  /\ ReadLine([message |-> Head(toDevice), command |-> NoCommand])
  /\ UNCHANGED <<toHost, delay, configured>> /\ NoFault

Run ==
  /\ Setup \/ Loop
  /\ pc = "protocol" => toDevice = << >>
  /\ H!Hear(out'.kind)
  /\ UNCHANGED <<toDevice, delay, configured>> /\ NoFault

HostAnswers == H!AnswerLine /\ UNCHANGED vars /\ NoFault

UserAsks == \E m \in UserRequests : H!Request(m) /\ UNCHANGED vars /\ NoFault

TimePasses ==
  /\ Tick /\ H!InTime /\ H!Wait
  /\ since' = IF since > RecoveryTime THEN since ELSE since + 1
  /\ UNCHANGED <<toHost, toDevice, configured, faults>>

LineLost == Fault /\ H!Lose /\ UNCHANGED vars

RebootAsked == Fault /\ H!Request("REBOOT") /\ UNCHANGED vars

\* A board without power receives nothing; the host may still be reading what it wrote.
PowerLost ==
  /\ Fault /\ PowerCycle
  /\ toDevice' = << >> /\ configured' = FALSE
  /\ UNCHANGED <<toHost, delay>>

NextSession ==
  \/ Read \/ Run \/ HostAnswers \/ UserAsks \/ TimePasses
  \/ LineLost \/ RebootAsked \/ PowerLost

SessionSpec ==
  /\ InitSession /\ [][NextSession]_all
  /\ WF_all(Read \/ Run) /\ WF_all(HostAnswers) /\ WF_all(TimePasses)

-----------------------------------------------------------------------------

InSession == sm \in FSM!Active

\* Within RecoveryTime of power-on, and of the last fault, there is a session, and from
\* then on it lasts: no heartbeat is given up that the host has answered, and no late
\* answer or retry takes the handshake round again.
RecoveryBounded == since > RecoveryTime => InSession

\* The two sides agree: while the device is in session, what the host has read last is
\* its configuration and not an announcement, although CFG_ACK is accepted whether or not
\* the configuration has been sent.
SidesAgree == InSession => configured

\* What the device has had no answer to, oldest first: the answer it is handling, those on
\* their way to it, and the lines the host has not answered.
Answered == <<phEvent>> \o toDevice
Unanswered == Answered \o toHost

Announces(x) == x \in {"UP", "UP_ACK"}
Configures(x) == x \in {"CONFIG", "CFG_ACK"}

HasUp(s) == \E i \in DOMAIN s : Announces(s[i])
HasConfig(s) == \E i \in DOMAIN s : Configures(s[i])

UpThenConfig(s) ==
  \E i, j \in DOMAIN s : i < j /\ Announces(s[i]) /\ Configures(s[j])

ConfigThenUp(s) ==
  \E i, j \in DOMAIN s : i < j /\ Configures(s[i]) /\ Announces(s[j])

\* An announcement, a configuration and an announcement again.
HasRound(s) ==
  \E i, j, k \in DOMAIN s :
    i < j /\ j < k /\ Announces(s[i]) /\ Configures(s[j]) /\ Announces(s[k])

\* When the device announces itself once more, an announcement and the configuration that
\* followed it are not both unanswered: the retries of ConfigMonitor, which numbers nothing,
\* are slower than the answers.
AnswersKeepUp == [][Run /\ out'.kind = "UP" => ~UpThenConfig(Unanswered)]_all

\* What is unanswered is never more than one attempt at the handshake.  No announcement
\* comes after a configuration while the device is in CFG, and none is left in session;
\* so an answer to an earlier attempt can start no session that the host, having answered
\* a later announcement, does not know of.
AgreementInv ==
  /\ H!TypeOK
  /\ ~HasRound(Unanswered)
  /\ sm = "CFG" => ~ConfigThenUp(Unanswered) /\ (HasConfig(Answered) => configured)
  /\ InSession => ~HasUp(Unanswered) /\ configured
  /\ UpThenConfig(Answered) => configured

\* In the end, there is a session, for ever.
SessionSettles == <>[]InSession

=============================================================================
