--------------------------- MODULE MCLineReceiver ---------------------------
(* Values of the constants for model checking the receiver.  The texts are    *)
(* those of the code; the buffer has 12 cells instead of 64.                  *)
EXTENDS LineReceiver

Chars ==
  {"A", "B", "C", "D", "E", "F", "G", "H", "I", "K", "L", "M", "N", "O", "P", "R", "S",
   "T", "U", "_", ":", "/", "l", "b", "s", "0", "1"}

Texts ==
  [UP_ACK    |-> <<"U", "P", "_", "A", "C", "K">>,
   CFG_ACK   |-> <<"C", "F", "G", "_", "A", "C", "K">>,
   HB_ACK    |-> <<"H", "B", "_", "A", "C", "K">>,
   CMD_ACK   |-> <<"C", "M", "D", "_", "A", "C", "K">>,
   RUN       |-> <<"R", "U", "N">>,
   IDLE      |-> <<"I", "D", "L", "E">>,
   DIS       |-> <<"D", "I", "S">>,
   REBOOT    |-> <<"R", "E", "B", "O", "O", "T">>,
   GET_STATE |-> <<"G", "E", "T", "_", "S", "T", "A", "T", "E">>,
   CMD       |-> <<"C", "M", "D">>]

Nodes == [c \in Chars |-> CASE c = "l" -> "led" [] c = "b" -> "button" [] OTHER -> "unknown"]

\* Lines that fill the buffer once, and end in what would be a message of its own.
Filling == [i \in 1 .. 12 |-> "A"]
TooLong ==
  {Filling \o Texts["DIS"], Filling \o Texts["CMD"] \o <<":", "/", "l", "/", "s", ":", "0">>}

\* Messages, on their own and with a '\0' and more behind them.
Fixed ==
  UNION {Prefixes(t) : t \in TooLong \cup {Texts[m] \o <<NUL, "l">> : m \in DOMAIN Texts}}

\* After CMD: any text, of the characters the parser and the Nodes tell apart, up to a
\* payload; and after that a payload that may fill the buffer.
Bodies(body) ==
  /\ ToSet(body) \subseteq {"/", ":", "l", "s", "1", NUL}
  /\ \/ Len(body) <= 5
     \/ Len(body) = 6 /\ NUL \notin ToSet(body)
     \/ IsPrefix(<<"/", "l", "/", "s", ":">>, body) /\ Len(body) <= 9

Arrivals(text) ==
  \/ text \in Fixed
  \/ \E end \in {":", NUL} :
       /\ IsPrefix(Append(Texts["CMD"], end), text)
       /\ Bodies(SubSeq(text, Len(CommandPrefix) + 1, Len(text)))

=============================================================================
