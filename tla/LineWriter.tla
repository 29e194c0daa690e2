----------------------------- MODULE LineWriter -----------------------------
(***************************************************************************)
(* The lines the device writes on its transport, by ProtocolHandler's send *)
(* functions and by JSONStatusWriter, and a host that has to make sense of *)
(* them.  The text is a sequence of marks: a character, or a word of the   *)
(* protocol.  A reply repeats characters of the command, which may be any. *)
(* A status line is written within one step of the loop, so no other text  *)
(* comes between its pieces: here it is one text.                          *)
(***************************************************************************)
EXTENDS StatusText

CONSTANTS
  Char,          \* the characters of a received command; "NUL" for no property
  ReplyValues,   \* the values a Node may answer with
  NodePaths,     \* the paths of the Nodes' events
  Payloads,      \* and their payloads, << >> for none
  Configs,       \* the texts DEVICE_CONFIG may be: JSON objects, with line breaks or without
  MaxMessages    \* bound

VARIABLES
  sent,          \* history: the messages sent
  stream         \* what they made the transport carry

\* A JSON object ends with its last brace: no configuration starts with another one that
\* ends a line.  The path of an event is a path, not an object: both follow "DATA:".
ASSUME LineWriterAssumption ==
  /\ MaxMessages \in Nat
  /\ "\n" \notin Char
  /\ \A v \in ReplyValues :
       /\ v.type \in {"BOOLEAN", "INTEGER", "NONE"} /\ v.data \in Int
       /\ v.type = "BOOLEAN" => v.data \in {0, 1}
  /\ \A t \in NodePaths \cup Payloads \cup Configs : t \in Seq(ToSet(t))
  /\ \A t \in NodePaths \cup Payloads : "\n" \notin ToSet(t)
  /\ \A p \in NodePaths : ":" \notin ToSet(p) /\ (p # << >> => p[1] # "{")
  /\ \A c, d \in Configs : IsPrefix(Append(c, "\n"), Append(d, "\n")) => c = d

Errors ==
  {"INVALID_STATE", "INVALID_PAYLOAD", "INVALID_FORMAT", "NODE_NOT_FOUND",
   "PROPERTY_NOT_FOUND", "PROPERTY_NOT_SETTABLE", "INTERNAL_ERROR"}
NodeErrors == {"NONE", "READ_FAILED", "DEVICE_FAULT", "INVALID_DATA"}

-----------------------------------------------------------------------------
(* Messages: [kind, ...], what each send function is given. *)

Word == [kind : {"UP", "CFG", "RUN", "IDLE", "DIS", "HB"}]
Config == [kind : {"CONFIG"}, config : Configs]

Paths == [nodeId : Char, propertyId : Char \cup {"NUL"}]
Reply ==
  [kind : {"ACK"}, path : Paths]
    \cup [kind : {"RESPONSE"}, path : Paths, value : ReplyValues]
    \cup [kind : {"ERROR"}, path : Paths, error : Errors]

NodeEvent ==
  [kind : {"DATA", "TRIGGER"}, path : NodePaths, payload : Payloads]
    \cup [kind : {"NODE_ERROR"}, path : NodePaths, payload : Payloads, error : NodeErrors]

\* What NodeController::writeStatus hands to the JSONStatusWriter.
Status == [kind : {"STATUS"}, nodes : Registered]

Message == Word \cup Config \cup Reply \cup NodeEvent \cup Status

-----------------------------------------------------------------------------

\* ProtocolHandler::writeValue: unlike in the status, a BOOLEAN is a digit, and a value
\* of no type is no text.
ReplyValueText(v) ==
  CASE v.type = "BOOLEAN" -> <<Digit(v.data)>>
    [] v.type = "INTEGER" -> Signed(v.data)
    [] v.type = "NONE"    -> << >>

\* The path of the command, whether or not it names a property.
PathText(p) ==
  <<"/", p.nodeId, "/">> \o (IF p.propertyId = "NUL" THEN << >> ELSE <<p.propertyId>>)

\* The reply does not say which command it is for.
ReplyText_NoPath(m) ==
  CASE m.kind = "ACK"      -> <<"CMD_ACK">>
    [] m.kind = "RESPONSE" -> <<"CMD_RESPONSE:">> \o ReplyValueText(m.value)
    [] m.kind = "ERROR"    -> <<"CMD_ERROR:", m.error>>

ReplyText(m) ==
  CASE m.kind = "ACK"      -> <<"CMD_ACK:">> \o PathText(m.path)
    [] m.kind = "RESPONSE" -> <<"CMD_RESPONSE:">> \o PathText(m.path) \o <<":">>
                                \o ReplyValueText(m.value)
    [] m.kind = "ERROR"    -> <<"CMD_ERROR:", m.error, ":">> \o PathText(m.path)

NodeEventText(m) ==
  (CASE m.kind = "DATA"       -> <<"DATA:">>
     [] m.kind = "TRIGGER"    -> <<"TRIGGER:">>
     [] m.kind = "NODE_ERROR" -> <<"NODE_ERROR:", m.error, ":">>)
  \o m.path \o (IF m.payload = << >> THEN << >> ELSE <<":">> \o m.payload)

ConfigText(m) == <<"CFG:">> \o m.config

Text(m) ==
  CASE m \in Word      -> <<m.kind>>
    [] m \in Config    -> ConfigText(m)
    [] m \in Reply     -> ReplyText(m)
    [] m \in NodeEvent -> NodeEventText(m)
    [] m \in Status    -> StatusLine(m.nodes)

-----------------------------------------------------------------------------

Init == sent = << >> /\ stream = << >>

Send(m) ==
  /\ Len(sent) < MaxMessages
  /\ sent' = Append(sent, m)
  /\ stream' = stream \o Append(Text(m), "\n")

Next == \E m \in Message : Send(m)

Spec == Init /\ [][Next]_<<sent, stream>>

-----------------------------------------------------------------------------
(* The host *)

\* What a message says: of a response, the text of the value and not its type; of a status,
\* the JSON object.
Meaning(m) ==
  CASE m.kind = "RESPONSE" -> [m EXCEPT !.value = ReplyValueText(@)]
    [] m.kind = "STATUS"   -> [m EXCEPT !.nodes = NodesObject(@)]
    [] OTHER               -> m

Whole(m) == Append(Text(m), "\n")

\* The stream from the start of the i-th message on.
StreamFrom(i) ==
  SubSeq(stream, 1 + Len(FlattenSeq([j \in 1 .. i - 1 |-> Whole(sent[j])])), Len(stream))

\* A host that reads the stream from its start gets the messages that were sent: at each
\* point it can read one message and no other, whatever characters the commands were made
\* of, although a configuration may take several lines, and although the status and the
\* data of a Node both begin with "DATA:".
StreamUnderstood ==
  \A i \in DOMAIN sent :
    {Meaning(m) : m \in {x \in Message : IsPrefix(Whole(x), StreamFrom(i))}} = {Meaning(sent[i])}

=============================================================================
