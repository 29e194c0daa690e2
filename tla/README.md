# NodeControl in TLA+

NodeControl is a framework for small Arduino-class devices. An application describes
its hardware as *Nodes*; the framework keeps a session with a *Host* over a serial line:
it announces the device, sends its configuration, asks for heartbeats, executes commands
on the Nodes, and publishes their events and the device's status. This directory holds a
TLA+ model of the framework, the TLC configurations that check it, and proofs about it.

Contents: the system, the modules and how they follow the code, what each run shows,
bounds and fairness, what is proved, time bounds, the session with a host, what disagrees
with the documentation, what is not modelled, and what comes next.

## 1. The system

Everything runs in one thread. `setup()` configures a `NodeDevice`; `loop()` calls its
`update()` for ever, which is `Orquestrator::update()`. Components never call each other:
each has an `EventEmitter`, a slot for **one** event, and the Orquestrator reads the slots
in a fixed order and calls the handlers that an event concerns.

| Component | State it keeps | Operations |
|---|---|---|
| `Orquestrator` (`src/application/Orquestrator.cpp`) | none of its own between passes | `begin`, `addNode`, `update`, `handleEvent`, `handleCommand` |
| `StateMachine` | `m_state`: BOOT, UP, CFG, RUN, IDLE, DISABLED | `begin`, `reset`, `handleEvent` (`update` is empty) |
| `ConfigMonitor` | `m_run`, its own copy of the handshake state, `m_waitingConfig`, `m_lastConfigTime` | `begin`, `update`, `handleEvent`, `restartHandshake`, `stopHandshake` |
| `HeartBeatMonitor` | `m_run`, `m_waitingHeartbeat`, `m_lastHeartbeatTime` | `begin`, enable/disable, `update`, `handleEvent` |
| `StatusMonitor` | `m_lastUpdateTime` | `begin`, `update` |
| `ProtocolHandler` | receive buffer, emitter, the one command that is pending | `begin`, `update` (`receive`, `processMessage`, `parseCommand`), `releaseCommand`, the `send...` functions |
| `NodeController` | `m_nodes`, `m_nodeCount`, `m_nextPollIndex` | `begin`, `addNode`, `update`, `handleCommand`, `pollEvent` |
| `LedNode`, `ButtonNode` | status, pin, pending event | `begin`, `update`, `handleCommand`, `pollEvent` |
| `JSONStatusWriter` | separators to be written | `begin...`/`end...`, `write...` |
| `NodeDevice` | none (a facade) | each method calls the Orquestrator's |
| `ITransport`, `SerialTransport` | the UART's buffers | `available`, `read`, `write` |

One pass of `update()`: read the transport until an event or a command is there; handle
the protocol's events; answer the command; update the heartbeat monitor and handle its
events; the same for the handshake monitor; update the Nodes; poll **one** Node for an
event, in RUN and IDLE only; update the status monitor and handle its events.

### What is hard about it

- **Two copies of the handshake state.** `StateMachine` and `ConfigMonitor` each have one,
  moved by different calls of `handleEvent`. An acknowledgement reaches both, `UP_TIMEOUT`
  only one, and `ConfigMonitor` takes acknowledgements even when it is stopped.
- **Slots of size one.** A second event is dropped silently. That this never happens rests
  on the order of the phases and on `ProtocolHandler::update` returning at the first event.
- **Two timers on one handshake.** The 2 s handshake timer and the 60 s heartbeat timer
  both restart it, and the second runs during the handshake as well.
- **A clock that wraps** (`millis()`, 32 bits), read once a pass, by code that subtracts.
- **An unreliable peer.** Nothing carries a sequence number. Lines are lost, repeated or
  late, and the host does not know when the board has lost power and started again.
- **Fixed sizes.** `MAX_NODES` Nodes, a 64-byte line, one pending command.
- **A command that lives in the receive buffer.** Its payload is a pointer into `m_buffer`,
  which the next byte would overwrite; the parser looks at bytes beyond the text's end.
- **Bytes that end a text.** A `\0` that arrives is stored like any byte, and then ends the
  string that `strcmp` and the parser see; `m_index` goes on behind it.
- **Text without escapes.** What the device writes repeats characters the host chose, and
  `DEVICE_CONFIG` has line breaks in it; the status and a Node's data both open with
  `DATA:`; separators of the status depend on two flags.
- **One event polled a pass**, from Nodes that may all be busy.
- **Order of setup.** `begin()` reaches only the Nodes registered before it.

`PROJECT.json` lists every such hazard at its line, with the properties that cover it.

### What makes it correct

- StateMachine with ConfigMonitor: the two agree on the phase; phases follow in order.
- Emitters: nothing raised is ever dropped; what is read is current.
- Handshake: it never stalls; an unanswered device goes on announcing itself.
- Heartbeat: a lost host is noticed, and in bounded time; no host is given up that was
  not asked and left its interval to answer.
- Startup mode: a standalone device is never supervised, whatever it receives.
- Commands: each accepted one is answered once; only one that is acknowledged sets a Node.
- Nodes: begun before use; never more than fit; none starves the others.
- Receiver: a line is understood by itself, whatever came before it and whatever bytes are
  in it, and a command keeps its payload until it is answered.
- Writers: what is written can be read back, message by message; the status is JSON.
- With a host that answers: there is a session in bounded time after a fault, it lasts, and
  both sides agree that there is one, as long as answers come before retries.

## 2. The modules

One module per component. A component module has the component's VARIABLES, its `Init`,
and one operator per method, and no `Next`: like the classes, the components do nothing
until the Orquestrator calls them. `Orquestrator` instantiates them all over its own
variables, and has the actions.

| Module | Models | Notes |
|---|---|---|
| `Events` | `Events.h`, `StartupMode.h` | an emitter is the name of its event, or `"NONE"` |
| `Millis` | the clock (external), unsigned subtraction | `Wrap` stands for 2^32 |
| `StateMachine` | `StateMachine` | reset events before the table, as in the code |
| `ConfigMonitor` | `ConfigMonitor` | record `cm` of the four members; emitter `cmEvent` |
| `HeartBeatMonitor` | `HeartBeatMonitor` | record `hb`; emitter `hbEvent` |
| `StatusMonitor` | `StatusMonitor` | time `st`; emitter `stEvent`, not cleared by `begin` |
| `ProtocolHandler` | `ProtocolHandler`, line by line | `phEvent`, `phCommand`; the lines in and out |
| `NodeController` | `NodeController`, `LedNode`, `ButtonNode` | plus `"sensor"`, an application's Node (external) |
| `Orquestrator` | setup, `update`, `handleEvent`, `handleCommand`; host, pins, power | the composition |
| `Session` | abstract: what the device promises its host | four lines of transitions and `Sayable` |
| `DeviceProperties` | the properties of the device | |
| `DeviceProofs` | theorems about `Orquestrator` | checked by TLAPS |
| `Supervision` | the device with two history variables | time bounds of the heartbeat |
| `NodePolling` | `NodeController` on its own, with more Nodes | fairness between Nodes |
| `LineProtocol` | abstract: what the device relies on `ProtocolHandler` for | whole lines, with the `Receive` of `ProtocolHandler` |
| `LineReceiver` | `ProtocolHandler` byte by byte: buffer, lines, `parseCommand` | implements `LineProtocol` |
| `Value` | `Value.h`, and the text of a value | used by the two writers |
| `StatusText` | the text of a status, as a JSON object of the Nodes | pure operators; used by the next three |
| `JSONStatusWriter` | `JSONStatusWriter`, method by method | no `Next`, like a component |
| `StatusReport` | `NodeController::writeStatus` and the Nodes, driving it | piece by piece, against `StatusText` |
| `LineWriter` | every line the device writes: the `send...` functions and the status | and a host that reads the stream back |
| `Host` | a host that answers, and the serial line (external) | no `Next` |
| `HostSession` | the device, that host and faults, together | composition of `Orquestrator` and `Host` |
| `SlowHost` | the same with a host slower than the intervals | one property |
| `HostTiming` | when what is unanswered is answered: `TimingInv` | operators over `HostSession` |
| `HostRecovery` | what a handshake still takes, against what is left of `RecoveryTime`: `RecoveryInv` | operators over `HostTiming` |
| `SupervisionProofs`, `NodePollingProofs`, `LineReceiverProofs`, `HostSessionProofs`, `HostTimingProofs`, `HostRecoveryProofs` | theorems about the module of that name | checked by TLAPS |
| `TextProofs` | theorems about `LineWriter` and `StatusReport` | checked by TLAPS |
| `MC...` | values of constants | |

How they fit together: `Orquestrator` is checked, and proved about, with the whole lines of
`ProtocolHandler`; `LineReceiver` implements those lines out of bytes. `HostSession` takes
the same `Orquestrator` and restricts the host. The writers look inside the lines that are
one record in `Orquestrator`.

### From the code to the model

- **Names.** Events lose the prefix `EVENT_`, states `STATE_`, messages `MSG_`; operators
  have their method's name. `DISABLED` is written to the line as `DIS`, as in the code.
- **`update()`** is a variable `pc` over its phases; a `while` loop over an emitter is one
  phase whose body is one action and whose exit is another. A step is what the code does
  between two points where something else could matter: one line read, one event or command
  handled, one monitor updated. A pass takes at most `MaxLag` milliseconds, which may pass
  between any two of its steps.
- **`handleEvent`** is one operator, with one disjunct per group of `case`s that act alike.
  `EVENT_CMD_RCV`, `EVENT_BUFFER_OVERFLOW` and the other types no component emits have none.
- **`out`** is the line the last step of the loop wrote. No step writes two.
- **Commands** are records of the fields the code distinguishes: an id known or not, a
  property known, unknown or missing, a payload `0`, `1`, something else or none.
- **The pin** of an input is its level after the inversion `m_pullDown` asks for.
- **`setup()`** is the sequence of calls `SetupCalls`, because the order differs between
  `src/main.cpp` and the README. The text `setup()` prints at its end is left out.
- **The host** is arbitrary: whenever the loop reads, it may read any line of the protocol
  or text that is none of it. This subsumes every loss, duplication, delay and reordering.
- **A reply** is a kind, the path of its command and a detail, in `Orquestrator`; the payload
  of a command is not repeated, as in `writeCommandPath`.
- **Bytes.** In `LineReceiver` the buffer is a function from its cells, a character is a
  member of `Char`, and a text ends at the first `NUL`. A pending command holds its two
  ids by value and its payload as the *cell it starts at*, as the code holds a pointer, so
  what the payload is depends on the buffer at the time it is read. `NodeOf` says which
  Node an id names. What is left of a line that overflows the buffer (once or more) is
  `Kept`: as it fills, all of it is discarded, and what follows is read as a line.
- **The byte `\0`** may arrive anywhere in a line (`Byte` is `Char` and `NUL`), and `receive`
  stores it. What is compared and parsed is a C string, which it ends: `RUN\0junk` is `RUN`
  (`Text`), `CMD:/l/s:1\0x` is `/l/s:1`, and `CMD\0/l/s:1` is the word `CMD` for the
  recognition and a command for the parser, which looks behind that byte (`AsCommand`).
- **A status line** is written piece by piece in `StatusReport`. The pieces follow each other
  within one step of the loop, so that `LineWriter` has it as one text; a complete report is
  that text (`ReportIsJSON`).
- **Marks.** The writers write sequences of marks: characters, or words that are written
  whole. Numbers are written digit by digit. A BOOLEAN is `true` in the status and `1` in a
  reply, and a value of no type `null` in the one and nothing in the other, as in the code.
- **The serial line** of `HostSession` keeps the order of lines and loses some; a board
  without power receives nothing, so what is on its way to it is gone.
- **Power** may fail between any two steps; all variables go back to their initialisers
  (where, as in the code, only the heartbeat monitor is enabled).

Operators such as `Update_AsksAgain`, with an underscore and a description, are faulty
variants of the operator that follows them. No specification uses them; they document, for
each property, a plausible mistake that the property would catch.

## 3. What is checked

| Run | Question | States |
|---|---|---|
| `managed` | A managed device, an arbitrary host, power cycles, a clock that wraps: do the copies of the handshake agree (`HandshakeAgreement`), is anything dropped (`NothingOverwritten`, `OneMessageAtATime`), is `DeviceInv` an invariant, is every command answered once (`OneReplyPerCommand`), does the device implement `Session`? | 0.39 M |
| `standalone` | Set up as the README says, with one Node more than fits, and every class of command: does the device stay unsupervised, are its Nodes begun and in step with the calls (`BegunInOrder`), does only an acknowledged command set an output, does it implement `Session`? | 2.0 M |
| `liveness` | With a loop that runs and a clock that counts: is a lost host noticed, does the handshake never stall, do status and replies go out? | 0.21 M |
| `supervision` | How long can a host be silent unnoticed, is any given up undeservedly, and is `SupervisionInv` an invariant? | 0.61 M |
| `polling` | Four inputs offered in any order, room for three: does any starve? | 0.20 M |
| `receiver` | Any bytes up to a bound, `\0` anywhere among them, lines that overflow the buffer, power cycles at any byte: is the buffer the line received and nothing else, is each line taken for what its text up to the first `\0` says, does a pending payload survive, does the receiver implement `LineProtocol`? | 53,606 |
| `status_line` | Three Nodes with two properties, every type and sign: is the status one JSON object with all of it, and is every text on the way a prefix of it? | 0.25 M |
| `lines` | Any two messages in a row, of every kind and with the status among them: does a host that reads the stream get these two and no others? | 54,057 |
| `recovery` | A host that is quick, and a fault at any moment (lost line, power cycle, reboot): is there a session that lasts within the time the theorem gives, and is `RecoveryInv` why? | 2.9 M |
| `agreement` | Two faults, a user who changes modes: does every answer come in time (`TimingInv`), do answers keep up with the retries (`AnswersKeepUp`), is more than one attempt at the handshake ever unanswered (`AgreementInv`), can the device be in session with a host that has not read its configuration since the last announcement (`SidesAgree`)? | 3.6 M |
| `settling` | A host that may answer when the handshake interval is over, for as long as it likes, and a fault: once its answers come in time, is there a session for ever, whatever late answers are still on their way? | 1.0 M |
| `setup_order` | Are the Nodes begun with the order of calls of `src/main.cpp`? (No: section 7.) | |

Every passing run finds no error; each of its properties fails when the definition named
in `PROJECT.json` is replaced by the faulty variant named there.

### Bounds, and why they are enough

- *Time.* The code compares times only through `currentTime - last >= interval`. One unit
  stands for any number of milliseconds; the intervals (60 s, 2 s, 5 s on the device) are 2
  to 4, 1 and 2 units. What is kept is their order (the handshake's is the shortest) and
  that they are small against the clock. `Wrap` is 4 to 8, so that the clock wraps many
  times within every behaviour, with timers that were started before.
- *Lag.* `MaxLag = 1`: a pass may see time move at any of its steps, or nowhere. An interval
  plus two passes must fit into `Wrap` where time is the question (`liveness`,
  `supervision`), or a late pass misses a whole turn of the clock; on the board the numbers
  are 60 s and 49 days. `supervision` has the shortest clock that this allows.
- *Nodes.* One output is enough for `managed`: its properties do not look into the Nodes.
  `standalone` has two classes and a third Node that does not fit; `polling` has four Nodes
  and room for three, so that the array fills, is wrapped around, and turns a Node away. A
  Node is added once: `update` of one that is registered twice would run twice a pass.
- *Commands.* One in `managed` and `liveness`, where only its being there matters; every
  class of outcome (all seven lines of `NodeResult` and `ResultOf`) in `standalone`.
- *Receiver.* The texts of the messages are those of the code; the buffer has 12 cells, so
  that every message fits and a command fits with payloads of all lengths up to the one that
  overflows. What arrives between two line ends is each message, two lines that fill the
  buffer and end in what is a message by itself, and after `CMD:` *every* text over `/`,
  `:`, a known id, a property and a digit of up to six characters, the length of the longest
  form the parser distinguishes, and its payload may be longer. A `\0` may be anywhere in
  such a text of up to five characters and in a payload, in the place of the `:` after
  `CMD`, and behind each message, with more behind it. Lines follow each other
  without limit, so every one is received after every other.
- *Writers.* Two messages, because the reading of the first decides where the second begins;
  the characters of a command's path are the separators of the protocol themselves. The
  status is there with none, one and two Nodes, without and with a property. In
  `status_line`, three Nodes and two properties reach every state of the two separator flags.
- *Faults.* One in `recovery`, since the time counts from the last one and the first may
  come in any state of a session; two in `agreement`, so that one falls into the recovery
  from the other; one in `settling`, where the host's own delays are what makes the attempts
  overlap. There is no REBOOT but as a fault; the user's requests in
  `agreement` are no faults and not limited in number.
- *Host.* It answers within `MaxDelay`, against a pass of 1. Every answer comes before an
  interval is over in `recovery` (`MaxDelay` 1, both intervals 7), and by the end of the
  second in `agreement` (`MaxDelay` 1, `CONFIG_INTERVAL` 3). In `settling` `MaxDelay` is 2
  and both intervals are 4: the monitor's `UP_TIMEOUT` and `CFG_TIMEOUT` are raised while the
  answer they waited for is still to come, and retries go out before it is read. `Prompt`
  is 1. With `MaxDelay` as long as an interval the line from the device would grow without
  bound. `Wrap` is the least that an interval and two passes fit into, and one more in
  `agreement`.
- *History.* `silence` and `asked` of `Supervision` stop counting at `Cap`, above anything
  the properties compare them with.

### Fairness

`FairSpec` assumes weak fairness of `Setup \/ Loop`, since `setup()` returns and the
Arduino core calls `loop()` for ever, and of `Tick`, since time passes. Nothing is assumed
of the host: reading a line is not among the fair actions, and the device must make its
way in spite of whatever it reads or does not. Fairness excludes one behaviour that the
text of the code allows: a host that sends ignored lines so fast that one call of
`ProtocolHandler::update` never drains the transport. At 9600 baud a line takes the time of
many passes. `MaxLag` bounds a pass for the same reason.

`KeepsAnnouncing` assumes that REBOOT messages stop: each restarts the handshake's interval,
so a host that keeps sending them does keep the device silent. `DeadHostDetected` assumes
that HB_ACK stops, and nothing of any other message, which is the point of it.

`SessionSpec` (run `settling`) assumes weak fairness of the device, as above, of `Host`'s
answers, and of time. Here reading *is* among the device's actions, and `Run` leaves phase
`protocol` only when there is nothing to read, which is what `while (available())` does; that
is harmless because this host sends no more than it is asked. That lines are lost finitely
often is in `MaxFaults`. `SettlesOncePrompt` assumes that from some time on the host's answers
take `Prompt` at most, and nothing of its answers before. `RecoveryBounded` and `SidesAgree` need no fairness: they count
milliseconds, and a host that is late stops the clock of the model.

`liveness` uses the shipped order of setup; it makes no difference to the properties, which
do not look at Nodes.

## 4. What is proved

The device (`DeviceProofs`), for **every** clock width,
interval, number and class of Nodes, capacity, set of commands, order of setup and, unless
said otherwise, both startup modes:

| Theorem | States |
|---|---|
| `TypeCorrect` | `Spec => []TypeOK`; among others, the Node table is never overrun and the poll index is one of its positions |
| `DeviceInvariant` | `Spec => []DeviceInv` |
| `HandshakeStateAgrees` | `Spec => []HandshakeAgreement` |
| `NothingDropped` | `Spec => []NothingOverwritten` |
| `OneMessagePerPass` | `Spec => []OneMessageAtATime` |
| `StandaloneStaysAlone` | `Spec => []StandaloneNeverSupervises` |
| `DeviceImplementsSession` | `Spec => Abstract!Spec`: the device implements `Session` |
| `EachCommandAnsweredOnce` | `Spec => OneReplyPerCommand` |
| `OnlyAcknowledgedCommandsSet` | `Spec => OnlyAckedCommandsSet` |
| `BegunIffBeforeBegin` | `Spec => []BegunInOrder`: of the registered Nodes those are begun that were added before `begin()` |
| `RegisterThenBegin` | `Spec => []NodesBegun`, for every `setup()` whose last call is `begin()` |
| `LateNodeNeverBegun` | a Node that `setup()` adds after `begin()` is not begun, ever |

The heartbeat (`SupervisionProofs`), where `L` is `MaxLag` and `H` is `HEARTBEAT_INTERVAL`:

| Theorem | States |
|---|---|
| `SupervisionInvariant` | `SupervisionSpec => []SupervisionInv` |
| `SilenceIsBounded` | `SupervisionSpec => []SilenceBounded`: a host silent for `2*(H-1) + 4*L` is given up |
| `TimeoutIsDeserved` | `SupervisionSpec => []TimeoutDeserved`: none is given up that had not `H - L` to answer |

The Nodes (`NodePollingProofs`), for any number of them and any capacity:

| Theorem | States |
|---|---|
| `PollingTypeCorrect` | `PollSpec => []NodePollingTypeOK` |
| `NoNodeStarves` | `PollSpec => []RoundRobin` |

The receiver (`LineReceiverProofs`), for any size of the buffer, any
texts and ids, and anything that may arrive:

| Theorem | States |
|---|---|
| `ReceiverTypeCorrect` | `Spec => []TypeOK`: no write outside the buffer, and room for the `\0` |
| `BufferHoldsTheLine` | `Spec => []LineInBuffer` |
| `ReceiverImplementsLines` | `Spec => Lines!Spec`: the receiver implements `LineProtocol` |
| `PendingIsTheLine` | `Spec => []CommandIsTheLine`: ids and payload are those of the line's text, until the answer |
| `LinesAreUnderstood` | `Spec => LinesUnderstood`: each line is taken for the message, command or nothing that its text is, up to its first `\0` |

The texts (`TextProofs`), for any number of messages and of Nodes and texts of any length:

| Theorem | States |
|---|---|
| `StreamIsUnderstood` | `Spec => []StreamUnderstood` of `LineWriter`: all that is written, status lines included, has one reading |
| `StatusIsJSON` | `ReportSpec => []ReportIsJSON` of `StatusReport`: the status is one JSON object, written from its start to its end |

The session (`HostSessionProofs`, `HostTimingProofs`, `HostRecoveryProofs`), for any number
of faults and anything the user asks; of the intervals, of `MaxLag` and of `MaxDelay` each
theorem assumes what it names:

| Theorem | States |
|---|---|
| `OneAttemptUnanswered` | a managed device: `SessionSpec /\ AnswersKeepUp => [](DeviceInv /\ AgreementInv)` |
| `SidesAgreeInSession` | a managed device: `SessionSpec /\ AnswersKeepUp => []SidesAgree` |
| `AnswersComeInTime` | a managed device, `HostIsPrompt`: `SessionSpec => []TimingInv` |
| `AnswersKeepUpWithRetries` | the same: `SessionSpec => AnswersKeepUp`: no new announcement while an announcement and a configuration after it are both unanswered |
| `SidesAgreeWithPromptHost` | the same: `SessionSpec => []SidesAgree` |
| `NothingIsLate` | a managed device, `HostIsQuick`: `SessionSpec => []RecoveryInv` |
| `SessionInBoundedTime` | the same: `SessionSpec => []RecoveryBounded` |

The assumptions, all of which TLC evaluates:

- `OrquestratorAssumption`: intervals and capacity are positive, `setup()` calls `begin()`
  and adds a Node at most once, each Node has a class. `WrapAssumption`: the clock has a
  value.
- `SupervisionAssumption`: the interval and two passes fit into a turn of the clock.
- `NodePollingAssumption`: there is room for a Node, and each has a class.
- `LineReceiverAssumption`: `Char` are the bytes that are neither a line end nor `\0` (which
  may arrive all the same), texts are texts, and the buffer has room for a command with a
  payload of a character.
  `MessageTextAssumption`: no two messages have the same text, none is empty or has a `:`.
- `HostSessionAssumption`: delay and bounds are numbers, the user asks for modes.
- `LineWriterAssumption`: values have a type, texts have no line end in them and paths no
  `:`, the path of an event does not start with `{` (it is a path: the examples write
  `/b/s`), and a configuration, which may have line ends, is a JSON object: no other one
  begins with it and a line end. `StatusTextAssumption`: values have a type, names have no
  line end in them, and there is a bound on Nodes and properties.
- `SlowHostAssumption`: a prompt answer is one the host may give.

and of the theorems that name them, with `D = MaxDelay`, `L = MaxLag`, `C` and `H` the
intervals:

- `AnswersKeepUp` is a property of the system and no assumption on a constant.
  `AnswersKeepUpWithRetries` gives a condition on the constants for it.
- `HostIsPrompt`: `2*max(D,L)` is at most `C` and at most `H`, and `Answer`, which is `D +
  4*L + max(D,L)`, is at most `2*C`. On the board `C` is 2 s and `H` 60 s. `L` is what the
  longest pass takes: at 9600 baud a byte takes a millisecond, and of the configuration of
  the firmware, some 230 bytes, all but the 64 of the UART's buffer are waited for, so that
  `L` is about 0.2 s. That makes this a host that answers within a second.
- `HostIsQuick`: `Answer < C` and `Answer < H`; an interval and two passes fit into a turn
  of the clock; and with `Patience(i) = i-1 + 2*L` and `Handshake = 2*(Patience(C) +
  Answer)`, `RecoveryTime` is at least `Patience(C) + Handshake` and `Patience(H) +
  Handshake`. On the board, with `L` of 0.2 s, it is a host that answers within half a
  second, and `RecoveryTime` is 69 s at most: an interval of the heartbeat to notice, and a
  handshake.

`agreement` has constants with `HostIsPrompt`, `recovery` with `HostIsQuick`.

**The argument.** `HandshakeAgreement` is not inductive. The monitor raises `UP_TIMEOUT`
and the loop handles it one step later; handling it resets the state machine to UP and tells
the monitor nothing, which is right only if the monitor is in UP *then*. So:

1. `PendingRequestIsCurrent`: what the handshake monitor has raised and is still unread
   names the state the monitor is in, and the monitor runs.
2. That holds only because nothing moves the monitor in between, which is a matter of the
   phases of `update()`: `NothingOverwritten` says in which phase each slot may be full.
   With it, an acknowledgement (phase `events`) and a heartbeat timeout (phase
   `heartbeatEvents`) meet an empty `cmEvent`.
3. `SetupFirst`: the loop does not run before `begin()`, where the monitors have not
   been told the startup mode, and the heartbeat monitor is enabled.

`DeviceInv` is the conjunction of these with the properties. One lemma per conjunct
(`TypeStep`, `SetupStep`, `EmitterStep`, `HandshakeStep`, `StandaloneStep`) has one
step per action. `EmitterStep` also serves `NothingDropped` and `OneMessagePerPass`.

**Refinement.** `phase` is the state machine's state and `line` the kind of the line
written. `StepImplements` maps each action to a step of `Session` or a stutter. It needs the
invariant: a CONFIG line may go out only in CFG, and what sends it is a request of the
monitor, so the two copies must agree at that moment; a STATUS line only in RUN.

**Setup.** `SetupInv` says that a registered Node is one that `setup()` has added by now,
and that it is begun exactly if `begin()` was called after that; `OnlySetupBegins` that
nothing in the loop registers or begins a Node. The last two theorems are what this means
for an order of calls.

**Supervision.** Neither bound is inductive. `SupervisionInv` relates the two histories
to `Age`, the time since the monitor's timestamp as the monitor computes it: never more than
the interval and the passes by which it can be late (`AgeBounded`), so that it fits in a
turn of the clock and one tick adds one to it, across a wrap or not. While no answer is
waited for the silence is at most `Age`, while one is, at most an interval and two passes
more (`SilenceMeasured`); the request went out within a pass of the timestamp
(`RequestSent`). What is raised and not yet handled (`RequestIsCurrent`, `TimeoutIsDue`) has
bounds of its own, since the monitor has moved on and the loop has not.

**Commands.** `AckIffSet` says that a reply is CMD_ACK exactly when the command sets its
Node, and `OutputsKept` that no step but answering a command touches a status. That the
Node has the command's id needs the search to find one: `FirstPosition`, from the
well-foundedness of inclusion on finite sets.

**Polling.** `RoundRobin` is not inductive: it does not say where in the round the Node is.
`Waiting` does: an event that waits is at some offset from `m_nextPollIndex`, and this
offset and the polls given to others are together less than the number of Nodes. A poll at an
earlier offset takes one step from the first and adds at most that to the second
(`OffsetAfterPoll`, arithmetic modulo the number of Nodes).

**The receiver.** `LineInBuffer` needs `Holding`: nothing arrives while a command is
pending, so that releasing it leaves the empty buffer of an empty line. The refinement maps
the record of cell numbers to the command those cells spell (`Held`); a step that changes
the buffer would change it, and none happens while a command is pending, because `update`
does not read then.

**The parser.** `parseCommand` looks at cells, past the end of the text as well, and
`CommandIsTheLine` is about the line. They meet at the end of a line, where `LineInBuffer`
says what the cells are and that they are followed by a `\0`. The text ends at the first one,
which may be a byte that arrived (`TextLength`; there is a first by the well-foundedness of
the natural numbers). `CommandTextIs` gives the text that a command spells, `FormParses` turns each of the parser's tests into one on the
line, and `ParsedIsTheText` the fields of the result. `CommandsRecognised`,
`MessagesRecognised` and `OthersRecognised` then cover the lines there are. From there to
the answer, nothing writes to the buffer (`BufferHolds`).

**The two sides.** `SidesAgree` says nothing of what is on the way. `AgreementInv` looks at
all that the device has had no answer to, as one row: the answer it is handling, those on
the way to it, and the lines the host has not answered. Reading, answering and losing a line
only *thin* the row, that is, replace a line by its answer or take it out (`Thinned`,
`ThinnedParts`); the device appends to it (`Pushed`), and moves from UP to CFG and from CFG
to RUN by handling its first cell (`FirstAnswer`, `Led`). So a row that is one attempt, an
announcement and a configuration after it, stays one, unless the device announces itself
again while both are in it, and that is what `AnswersKeepUp` excludes.

**Answers and retries.** Each cell of that row has a time in which it will have been handled
if it is not lost (`DueIn`): a pass for each cell ahead of it and a turn of the slower side
for each line. Time makes it shorter, and no step makes it longer than the bounds allow; a
line that the device is about to write needs a turn, which what is ahead of it must have
left (`Cost`). `TimingInv` bounds these times by the monitors' ages: what is awaited is done
within an `Answer` of the time the monitors last asked (`AnswersArePrompt`). While the
device is in CFG an announcement in the row is older than the monitor's time says, by an
interval once the configuration is asked for (`AnnouncementsAge`, `AttemptsAge`). When the
monitor asks again the interval is over, so what is that old would be due in less than
nothing: the row has no whole attempt (`AttemptsEnd`). An answer takes a pass more than it
would alone, because a wish of the user is read before it.

**Recovery.** `RecoveryBounded` speaks of the one moment at which the time is up.
`RecoveryInv` says for each phase of the handshake what is left of `RecoveryTime`: a whole
handshake from BOOT and after a timeout (`StartsOver`); in UP the rest of the interval until
it asks, or the answer to a request that is to be written, or the time in which an
announcement in the row is answered (`UpInTime`); in CFG the same, where the answer must
also come before the interval is over (`ConfigInTime`); in a session there is nothing to
come, unless a heartbeat is waited for that will not be answered, because it was lost, and
then there is the time to notice it and a handshake (`HeartbeatInTime`). A REBOOT that is on
its way has a handshake's time from when it arrives (`RebootInTime`). A fault sets `since`
to 0, and then there is time for all of that. The monitors' ages are bounded by
`MonitorsAreOnTime`, without which the end of an interval could be missed for as long as one
likes. When time is up, none of these has anything left but a session: `Answer < C` and
`Answer < H` is why the answers that are on time are never overtaken by a timeout.

**Texts.** What a stream says is defined by folds over sequences. The induction theorems of
the library take an operator, which the backends cannot instantiate; `InductionForSets`
states induction for a set, from the well-foundedness of the natural numbers, and the set is
that of the lengths for which a fact holds. From there `FlattenSeq` is a concatenation one
piece after the other (`FlattenIsFirst`), and `Decimal` a text of digits that determines its
number. `StreamInv` says that the stream is the texts of the messages sent in a row. A text
is an opening word, which tells the kind of the message, and a remainder, read mark by mark:
the path is three or four marks whatever they are, what follows it has no line end in it; of
two configurations of which one is the beginning of the other, both are the same. The one
opening that two kinds share is `DATA:`, and the mark behind it tells them apart: a status
goes on with `{`, a path does not. The JSON object that follows has no line end in it
(`PlainNodes`), so that the line ends where the object does. So two messages that the same
stream begins with are one in `Meaning`. `ReportInv` says in each
phase that the text is the opening, the Nodes before `position` and what is written of this
one, and that a flag is set exactly before the first Node or property (that of the
properties only within a Node, where `BeginNode` has set it). Each piece with its comma is
the next piece of the JSON object.

**Only model-checked**: the liveness properties, which are beyond this prover, as is
ENABLED, `SettlesOncePrompt` among them; and, for single constants (section 6), `SidesAgree`
where the host is slower than `HostIsPrompt` and `RecoveryBounded` where it is slower than
`HostIsQuick`.

## 5. Bounds on the heartbeat

`SilenceBounded` is exact: with `H = HEARTBEAT_INTERVAL` and passes of at most `L`
milliseconds, a managed device has, whenever it is looked at, heard its host or given it up
within the last `2*(H-1) + 4*L`. There is one interval until it asks and one until it gives
up; each can be noticed late by one pass, and each is measured from a time read in a pass
that may have gone on. `SilenceIsBounded` proves it for all `H` and `L`.

`TimeoutDeserved` says in return that a host that is given up had been asked, on the line,
since it was last heard, and had `H - L` to answer. It does not matter that a heartbeat
request may fall into a handshake, or that a new session inherits a request from before it.
This is `TimeoutIsDeserved`. For both it is enough that a turn of the clock is no shorter
than `H + 2*L`.

## 6. The session with a host

TLC finds how long recovery takes. With one pass of at most 1 ms, a host that answers
within `D`, and the intervals `C` (handshake) and `H` (heartbeat), the least `RecoveryTime`
that holds is:

| C | H | D | user asks | least `RecoveryTime` |
|---|---|---|---|---|
| 3 | 4 | 0 | nothing | 19 |
| 3 | 5 | 0 | nothing | 20 |
| 3 | 7 | 0 | nothing | 20 |
| 4 | 5 | 0 | nothing | 22 |
| 4 | 5 | 1 | nothing | 24 |
| 4 | 5 | 0 | IDLE | 24 |
| 7 | 7 | 1 | nothing | 31 to 33 (30 fails) |

It is several handshake intervals, because a request, its timeout and the retry are an
interval each and a fault can take the device back to the announcement after most of them.

`SessionInBoundedTime` proves `RecoveryBounded` for all hosts with `HostIsQuick`. Its bound
for the last line, 36, is the `RecoveryTime` of run `recovery`: it takes each answer to be
the latest that any can be, and these are not all late at once. For the other lines `Answer`
is no less than `C`: an answer can come after the monitor has given it up. That ends well
too, as TLC finds, but the times of one attempt do not say why.

`agreement`: the device accepts CFG_ACK at any time in CFG, whether or not the
configuration has been sent (`ConfigMonitor::handleEvent` looks at its state only). What
makes sessions right all the same is the order of the line: a CFG_ACK that arrives in CFG
answers a configuration the host has read after the last announcement it has read, as long
as answers keep up with the retries. It fails when they do not. Nothing is numbered: if the
device announces itself again while an UP_ACK and a CFG_ACK to an earlier attempt are on
their way, these two start a session, and the host then reads the announcement and takes
the device for one that has not sent its configuration. With passes of 1, TLC finds
`SidesAgree` to hold or fail as follows (one fault unless said otherwise):

| | (C, H, D) |
|---|---|
| holds | (2,4,0), (3,4,1) (the run, with two faults and a user), (3,6,2), (3,8,2), (4,6,2), (4,8,3), (4,10,2), (5,7,2) |
| fails | (1,4,0), (2,4,1), (2,6,1); (1,3,3) without any fault |

On the board passes are short against the 2 s of `C`, and a host has most of that to answer.
`AnswersKeepUp` is the condition: it held and failed in the same instances, and
`SidesAgreeInSession` proves that it is enough, whatever the constants and the faults.
`AnswersKeepUpWithRetries` proves it of every instance with `HostIsPrompt`, which is
sufficient and not necessary: of those that hold, (2,4,0), (3,6,2), (3,8,2) and (4,8,3) do
not have it, and none that fails does.

Agreement depends on the line, too: if messages on their way survived a loss of power, as
they would in a network that stores them, an UP_ACK and a CFG_ACK from before it would start
a session for which no configuration is sent. TLC finds that behaviour when `PowerLost`
leaves `toDevice` alone.

`settling`: a host can be so slow that an interval is over before its answer is read, every
time. With `C` and `H` of 4 and answers that take 2, TLC finds a behaviour without any fault
in which there is never a session that lasts: the answer to a heartbeat asked for during the
handshake is read in the pass after the one that gives it up, the device goes back to UP,
and so on. No text of the repository says which hosts the intervals are for. What the run
shows is that it ends with its cause. Once the answers come in time there is a session and it
lasts: the late answers that are still on their way, which nothing tells from those to the
last attempt, and the retries that have gone out meanwhile do not take the handshake round
for ever.

## 7. Where code and documentation disagree

`setup_order`: `src/main.cpp` and the two examples call `begin()` and then `addNode()`, the
README the other way round. `NodeController::begin` begins the Nodes registered so far, and
`addNode` begins none, so no Node of the shipped firmware is begun. `LedNode` never calls
`pinMode(m_pin, OUTPUT)`. Run `standalone` shows that the README's order is right.

A comment of `parseCommand` (`ProtocolHandler.cpp:190-194`, *"Esperamos pelo menos: /l/s"*)
asks for a property at least; the code takes `CMD:/l/` as well. The command has no property
then and is answered `INVALID_FORMAT`, if there is the Node. The model follows the code:
`CommandText`, and with it `LinesUnderstood`, has the form the code accepts, not that of the
comment.

## 8. What is not modelled, and why

- *What nothing calls*: `ProtocolHandler::receiveMessage` and `sendCommand`, `INode::reset`,
  and `NodeController`'s own emitter, which nothing fills.
- *FLOAT values*: no Node of the repository makes one; their text is the Arduino core's.
- *`NodeEvent`'s fixed arrays*: the one Node that makes events copies texts of at most 5
  characters; that a Node has an event, and the line written for it, are modelled.
- *Texts nobody reads back*: names of errors, and what `setup()` prints at its end. The
  content of `DEVICE_CONFIG` is one of two texts, with line breaks and without.
- *`SerialTransport`*: calls of the Arduino core. A UART whose own buffer overflows loses
  bytes, which is one more sequence of bytes for `LineReceiver`.
- *A host's commands in `HostSession`*: the handshake does not depend on them (`managed` has
  them with an arbitrary host).

## 9. Plan

Done: all components of section 1; the receiver and its refinement; the writers; the
session with a host; proofs of every safety property that a run checks.

Next, in this order:

1. `RecoveryBounded` where an answer takes longer than an interval: an invariant over two
   attempts at once, from `AttemptsAge`; and a bound on the time of `SettlesOncePrompt`.
2. Larger instances of `receiver` (bodies of seven characters), `recovery` and `settling`
   (two faults).

## 10. Running it

    tlc -config managed.cfg MCDevice        # standalone, liveness, setup_order likewise
    tlc -config supervision.cfg MCSupervision
    tlc -config polling.cfg MCNodePolling
    tlc -config receiver.cfg MCLineReceiver
    tlc -config status_line.cfg MCStatusReport
    tlc -config lines.cfg MCLineWriter
    tlc -config recovery.cfg MCHostSession  # agreement likewise
    tlc -config settling.cfg MCSlowHost
    tlapm DeviceProofs.tla                  # and each other module named ...Proofs

Each run takes between a few seconds and two minutes, each module of proofs up to a few
minutes.
