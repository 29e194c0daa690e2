---------------------------- MODULE LineReceiver ----------------------------
(***************************************************************************)
(* ProtocolHandler byte by byte: the receive buffer, the recognition of a  *)
(* line, the command parser, and a command whose payload stays in the      *)
(* buffer until it is released.  The host is an arbitrary source of bytes: *)
(* what is lost or garbled on the way makes another sequence of bytes.     *)
(***************************************************************************)
EXTENDS Events, Naturals, Sequences, SequencesExt

CONSTANTS
  BUFFER_SIZE,
  Char,          \* the bytes other than '\0', '\r' and '\n'
  MessageText,   \* [Messages -> Seq(Char)]: the texts of ProtocolMessage
  NodeOf,        \* [Char -> class of Node]: which Node an id names
  Arrivable(_)   \* bound: the bytes between two line ends; closed under prefixes

VARIABLES
  buffer,        \* m_buffer
  index,         \* m_index
  phEvent,       \* m_eventEmitter
  command,       \* m_command, or NotParsed when m_hasCommand is false
  arrived,       \* history: the bytes since the last line end
  line           \* history: those of the pending command

vars == <<buffer, index, phEvent, command, arrived, line>>

NUL == "NUL"
CR == "CR"
LF == "LF"

\* What receive() stores: a '\0' that arrives is a byte like any other.
Byte == Char \cup {NUL}

Messages ==
  {"UP_ACK", "CFG_ACK", "HB_ACK", "CMD_ACK", "RUN", "IDLE", "DIS", "REBOOT", "GET_STATE", "CMD"}

ASSUME LineReceiverAssumption ==
  /\ {NUL, CR, LF} \cap Char = {}
  /\ {":", "/", "s", "0", "1"} \subseteq Char
  /\ MessageText \in [Messages -> Seq(Char)]
  /\ DOMAIN NodeOf = Char /\ \A c \in Char : NodeOf[c] # "none"
  /\ BUFFER_SIZE \in Nat /\ BUFFER_SIZE > Len(MessageText["CMD"]) + 6

\* No two messages have the same text, none is empty, and none has a ':', which is what
\* tells a command from them.
ASSUME MessageTextAssumption ==
  /\ \A m, n \in Messages : MessageText[m] = MessageText[n] => m = n
  /\ \A m \in Messages : MessageText[m] # << >> /\ ":" \notin ToSet(MessageText[m])

-----------------------------------------------------------------------------
(* Texts in the buffer. *)

Cells == 0 .. BUFFER_SIZE - 1
Cleared == [i \in Cells |-> NUL]

\* The string that starts at cell i, up to the first '\0'.
StringAt(b, i) ==
  LET terminated(j) == j >= i /\ b[j] = NUL
      end == CHOOSE j \in Cells : terminated(j) /\ \A k \in Cells : terminated(k) => j <= k
  IN  [n \in 1 .. end - i |-> b[i + n - 1]]

CommandPrefix == MessageText["CMD"] \o <<":">>

\* stringToProtocolMessage; "OTHER" are also the texts of messages that are ignored.
MessageOf(text) ==
  CASE \E m \in Messages : MessageText[m] = text -> CHOOSE m \in Messages : MessageText[m] = text
    [] IsPrefix(CommandPrefix, text)             -> "CMD"
    [] OTHER                                     -> "OTHER"

-----------------------------------------------------------------------------
(* parseCommand *)

NotParsed == [nodeId |-> NUL, propertyId |-> NUL, payload |-> 0]

\* m_buffer + 4, for the command's text as for the bare word CMD
Body(b, i) == b[Len(CommandPrefix) + i]

HasPayload(b) == Body(b, 3) # NUL /\ Body(b, 4) # NUL

\* A text that is not one of the forms is taken for a GET.
Parses_Lenient(b) == Body(b, 0) = "/" /\ Body(b, 1) # NUL /\ Body(b, 2) = "/"

Parses(b) ==
  /\ Body(b, 0) = "/" /\ Body(b, 1) # NUL /\ Body(b, 2) = "/"
  /\ HasPayload(b) => Body(b, 4) = ":" /\ Body(b, 5) # NUL

\* payload: the cell the payload starts at, 0 for none
Parsed(b) ==
  [nodeId |-> Body(b, 1), propertyId |-> Body(b, 3),
   payload |-> IF HasPayload(b) THEN Len(CommandPrefix) + 5 ELSE 0]

-----------------------------------------------------------------------------
(* The level of lines.  The payload of the pending command is whatever the    *)
(* buffer holds where m_payload points.                                       *)

Payload(c) == IF c.payload = 0 THEN << >> ELSE StringAt(buffer, c.payload)

PendingCommand ==
  [nodeId |-> NodeOf[command.nodeId],
   propertyId |-> CASE command.propertyId = NUL -> "none"
                    [] command.propertyId = "s" -> "s"
                    [] OTHER                    -> "other",
   payload |-> CASE command.payload = 0              -> "none"
                 [] Payload(command) = <<"0">>       -> "0"
                 [] Payload(command) = <<"1">>       -> "1"
                 [] OTHER                            -> "other"]

AnyCommand ==
  [nodeId : {NodeOf[c] : c \in Char}, propertyId : {"s", "other", "none"},
   payload : {"none", "0", "1", "other"}]

Held ==
  IF command = NotParsed
  THEN [nodeId |-> "none", propertyId |-> "none", payload |-> "none"] ELSE PendingCommand

Lines == INSTANCE LineProtocol WITH HostCommand <- AnyCommand, phCommand <- Held

-----------------------------------------------------------------------------

TypeOK ==
  /\ buffer \in [Cells -> Byte]
  /\ index \in Cells
  /\ command = NotParsed \/
       command \in [nodeId : Char, propertyId : Byte, payload : Cells]
  /\ arrived \in Seq(Byte) /\ line \in Seq(Byte)

Init ==
  /\ buffer = Cleared /\ index = 0
  /\ phEvent = "NONE" /\ command = NotParsed
  /\ arrived = << >> /\ line = << >>

\* Only the index is reset.
ClearBuffer_KeepsBytes == index' = 0 /\ UNCHANGED buffer

ClearBuffer == buffer' = Cleared /\ index' = 0

\* update() does not look whether a command is pending.
Reading_WhilePending == phEvent = "NONE"

\* update() returns while a command is pending, and at the first event; the caller
\* fetches that event before it calls update() again.
Reading == command = NotParsed /\ phEvent = "NONE"

\* No cell is kept for the '\0'.
HasRoom_OffByOne == index < BUFFER_SIZE

HasRoom == index < BUFFER_SIZE - 1

-----------------------------------------------------------------------------
(* receive(byte) *)

CarriageReturn == Reading /\ UNCHANGED vars

\* '\n' when the buffer is empty
EmptyLine ==
  /\ Reading /\ index = 0
  /\ arrived' = << >>
  /\ UNCHANGED <<buffer, index, phEvent, command, line>>

\* '\n' with processMessage: a command stays in the buffer, anything else is cleared.
EndOfLine ==
  LET text == [buffer EXCEPT ![index] = NUL]
      message == MessageOf(StringAt(text, 0))
  IN
  /\ Reading /\ index > 0
  /\ arrived' = << >>
  /\ IF message = "CMD" /\ Parses(text)
     THEN /\ command' = Parsed(text) /\ line' = arrived
          /\ buffer' = text /\ UNCHANGED <<index, phEvent>>
     ELSE /\ phEvent' = EmitEvent(phEvent, Lines!EventOfLine(
                          [message |-> message, command |-> Lines!NoCommand]))
          /\ ClearBuffer /\ UNCHANGED <<command, line>>

Character(c) ==
  /\ Reading
  /\ arrived' = Append(arrived, c) /\ Arrivable(arrived')
  /\ UNCHANGED <<phEvent, command, line>>

Store(c) ==
  /\ Character(c) /\ HasRoom
  /\ buffer' = [buffer EXCEPT ![index] = c] /\ index' = index + 1

\* The byte that does not fit is dropped with all the others.
Overflow(c) == Character(c) /\ ~HasRoom /\ ClearBuffer

-----------------------------------------------------------------------------

GetEvent ==
  /\ phEvent # "NONE" /\ phEvent' = "NONE"
  /\ UNCHANGED <<buffer, index, command, arrived, line>>

ReleaseCommand ==
  /\ command # NotParsed /\ command' = NotParsed
  /\ ClearBuffer /\ line' = << >>
  /\ UNCHANGED <<phEvent, arrived>>

\* Static storage is zero, and begin() clears the buffer and the emitter.
PowerCycle ==
  /\ ClearBuffer /\ phEvent' = "NONE" /\ command' = NotParsed
  /\ arrived' = << >> /\ line' = << >>

Next ==
  \/ CarriageReturn \/ EmptyLine \/ EndOfLine
  \/ \E c \in Byte : Store(c) \/ Overflow(c)
  \/ GetEvent \/ ReleaseCommand \/ PowerCycle

Spec == Init /\ [][Next]_vars

-----------------------------------------------------------------------------
(* Properties *)

\* The text of a command, in the form the code accepts.  A comment of parseCommand asks for
\* a property as well ("at least /l/s", ProtocolHandler.cpp:190); its code does not.
CommandText(nodeId, propertyId, payload) ==
  CommandPrefix \o <<"/", nodeId, "/">>
    \o (IF propertyId = NUL THEN << >> ELSE <<propertyId>>)
    \o (IF payload = << >> THEN << >> ELSE <<":">> \o payload)

\* What is left of a line longer than the buffer: as it fills, all of it is discarded.
Kept(bytes) == SubSeq(bytes, Len(bytes) - (Len(bytes) % BUFFER_SIZE) + 1, Len(bytes))

\* The text of a line: what comes before its first '\0', which ends a string of C.
TextLength(bytes) ==
  CHOOSE n \in 0 .. Len(bytes) :
    /\ \A i \in 1 .. n : bytes[i] # NUL
    /\ n < Len(bytes) => bytes[n + 1] = NUL
Text(bytes) == SubSeq(bytes, 1, TextLength(bytes))

\* A '\0' behind the word CMD does for the ':': the word is a command's all the same, and
\* parseCommand looks at what is behind that byte.
WithColon(bytes) ==
  LET m == Len(CommandPrefix)
  IN  IF m <= Len(bytes) /\ bytes[m] = NUL THEN [bytes EXCEPT ![m] = ":"] ELSE bytes

\* The text of a line that may be a command.
AsCommand(bytes) == Text(WithColon(bytes))

\* The buffer holds the line received so far, or the end of it when it is too long, and
\* nothing of the lines before it: the cells beyond m_index, which the parser reads for a
\* short line such as CMD, are zero.
LineInBuffer ==
  command = NotParsed =>
    LET kept == Kept(arrived)
    IN  /\ index = Len(kept)
        /\ buffer = [i \in Cells |-> IF i < index THEN kept[i + 1] ELSE NUL]

\* For as long as a command is pending, writing it gives the text of the line it came from:
\* the payload, which is not copied, has not been overwritten.  Of a line with a '\0' in its
\* payload that is what comes before the '\0'.
CommandIsTheLine ==
  command # NotParsed =>
    CommandText(command.nodeId, command.propertyId, Payload(command)) = AsCommand(Kept(line))

IsCommand(text) ==
  \E n, p \in ToSet(text) :
    \/ text = CommandText(n, NUL, << >>)
    \/ text = CommandText(n, p, << >>)
    \/ \E k \in DOMAIN text : text = CommandText(n, p, SubSeq(text, k, Len(text)))

\* Of any bytes that arrive as a line, with or without a '\0' among them: those whose text
\* has the form of a command are taken for a command and no others are; those whose text is
\* that of another message raise its event; all others, and what is cut off, raise none.
LinesUnderstood ==
  [][arrived # << >> /\ arrived' = << >> /\ (EndOfLine \/ EmptyLine) =>
       LET bytes == Kept(arrived)
           named == {m \in Messages : MessageText[m] = Text(bytes)}
       IN  /\ command' # NotParsed <=> IsCommand(AsCommand(bytes))
           /\ \A m \in named \ {"CMD"} : phEvent' = Lines!EventOf(m)
           /\ named = {} => phEvent' \in {"NONE", "CMD_PARSE_ERROR"}]_vars

\* The receiver implements the protocol of lines that the rest of the device relies on.
ImplementsLines == Lines!Spec

=============================================================================
