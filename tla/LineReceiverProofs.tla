------------------------- MODULE LineReceiverProofs -------------------------
(***************************************************************************)
(* Proofs about LineReceiver, for any buffer size, any texts of the        *)
(* messages and anything that may arrive: what is in the buffer, that the  *)
(* receiver implements the protocol of lines, that a text is taken for a   *)
(* command exactly when it has the form of one, and that a pending command *)
(* stays what was received.                                                *)
(***************************************************************************)
EXTENDS LineReceiver, TLAPS, SequenceTheorems, WellFoundedInduction

\* The remainder is what is left of the multiples of the modulus.
LEMMA RemainderIs ==
  ASSUME NEW m \in Nat \ {0}, NEW n \in Nat, NEW k \in Nat, NEW j \in 0 .. m - 1, n = m * k + j
  PROVE  n % m = j
<1> DEFINE q == n \div m
           r == n % m
<1>1. q \in Nat /\ r \in 0 .. m - 1 /\ n = m * q + r
  OBVIOUS
<1>2. m * (q - k) = j - r
  <2> HIDE DEF q, r
  <2> QED BY <1>1
<1>3. q = k
  <2>1. CASE q > k
    <3>1. m * (q - k) >= m
      <4> HIDE DEF q, r
      <4>1. q - k >= 1 /\ q - k \in Int
        BY <1>1, <2>1
      <4> QED BY <4>1
    <3> HIDE DEF q, r
    <3> QED BY <1>1, <1>2, <3>1
  <2>2. CASE q < k
    <3>1. m * (q - k) <= -m
      <4> HIDE DEF q, r
      <4>1. q - k <= -1 /\ q - k \in Int
        BY <1>1, <2>2
      <4> QED BY <4>1
    <3> HIDE DEF q, r
    <3> QED BY <1>1, <1>2, <3>1
  <2> HIDE DEF q, r
  <2> QED BY <1>1, <2>1, <2>2
<1> QED
  <2> HIDE DEF q
  <2> QED BY <1>1, <1>3

\* The next number has the next remainder, or 0.
LEMMA NextRemainder ==
  ASSUME NEW m \in Nat \ {0}, NEW n \in Nat
  PROVE  (n + 1) % m = IF (n % m) = m - 1 THEN 0 ELSE (n % m) + 1
<1> DEFINE q == n \div m
           r == n % m
<1>1. q \in Nat /\ r \in 0 .. m - 1 /\ n = m * q + r
  OBVIOUS
<1>2. CASE r = m - 1
  <2>1. n + 1 = m * (q + 1) + 0 /\ n + 1 \in Nat /\ q + 1 \in Nat /\ 0 \in 0 .. m - 1
    <3> HIDE DEF q, r
    <3> QED BY <1>1, <1>2
  <2>2. (n + 1) % m = 0
    <3> HIDE DEF q
    <3> QED BY <2>1, RemainderIs, Zenon
  <2> QED BY <1>2, <2>2
<1>3. CASE r # m - 1
  <2>1. n + 1 = m * q + (r + 1) /\ n + 1 \in Nat /\ r + 1 \in 0 .. m - 1
    <3> HIDE DEF q, r
    <3> QED BY <1>1, <1>3
  <2>2. (n + 1) % m = r + 1
    <3> HIDE DEF q, r
    <3> QED BY <1>1, <2>1, RemainderIs, Zenon
  <2> QED BY <1>3, <2>2
<1> QED BY <1>2, <1>3

\* What the parser looks at is in the buffer.
LEMMA BodyInBuffer ==
  /\ Len(CommandPrefix) \in Nat /\ BUFFER_SIZE \in Nat \ {0}
  /\ Len(CommandPrefix) > 0
  /\ \A i \in 0 .. 5 : Len(CommandPrefix) + i \in Cells
<1>1. MessageText["CMD"] \in Seq(Char) /\ ":" \in Char
  BY LineReceiverAssumption DEF Messages
<1>2. Len(CommandPrefix) = Len(MessageText["CMD"]) + 1 /\ Len(MessageText["CMD"]) \in Nat
  BY <1>1 DEF CommandPrefix
<1> QED BY <1>2, LineReceiverAssumption DEF Cells

\* A cleared buffer is a buffer.
LEMMA ClearedTyped == Cleared \in [Cells -> Byte] /\ 0 \in Cells
BY BodyInBuffer DEF Cleared, Cells, Byte

\* A command that parses names a Node, and its payload is in the buffer.
LEMMA ParsedTyped ==
  ASSUME NEW b \in [Cells -> Byte], Parses(b)
  PROVE  /\ Parsed(b) \in [nodeId : Char, propertyId : Byte, payload : Cells]
         /\ Parsed(b) # NotParsed
<1>1. Body(b, 1) \in Char /\ Body(b, 3) \in Byte
  BY BodyInBuffer DEF Body, Parses, Byte
<1>2. Len(CommandPrefix) + 5 \in Cells /\ 0 \in Cells
  BY BodyInBuffer, ClearedTyped
<1>3. NUL \notin Char
  BY LineReceiverAssumption
<1> QED BY <1>1, <1>2, <1>3 DEF Parsed, NotParsed

-----------------------------------------------------------------------------
(* Types *)

\* The index stays in the buffer, with room for the '\0', and every pending command has
\* an id and a payload in the buffer.
LEMMA TypeStep == TypeOK /\ [Next]_vars => TypeOK'
<1> SUFFICES ASSUME TypeOK, [Next]_vars PROVE TypeOK'
  OBVIOUS
<1>0. /\ buffer \in [Cells -> Byte] /\ index \in Cells
      /\ command = NotParsed \/
           command \in [nodeId : Char, propertyId : Byte, payload : Cells]
      /\ arrived \in Seq(Byte) /\ line \in Seq(Byte) /\ << >> \in Seq(Byte)
  BY DEF TypeOK
<1>1. CASE CarriageReturn \/ EmptyLine \/ GetEvent \/ UNCHANGED vars
  BY <1>0, <1>1 DEF TypeOK, CarriageReturn, EmptyLine, GetEvent, vars
<1>2. CASE ReleaseCommand \/ PowerCycle
  BY <1>0, <1>2, ClearedTyped DEF TypeOK, ReleaseCommand, PowerCycle, ClearBuffer
<1>3. CASE EndOfLine
  <2> DEFINE text == [buffer EXCEPT ![index] = NUL]
  <2>1. text \in [Cells -> Byte]
    BY <1>0 DEF Byte
  <2>2. CASE command' = Parsed(text) /\ Parses(text)
    <3>1. /\ line' = arrived /\ buffer' = text /\ index' = index /\ arrived' = << >>
      BY <1>3, <2>2, <2>1, <1>0, ParsedTyped DEF EndOfLine, Reading
    <3> HIDE DEF text
    <3> QED BY <1>0, <2>1, <2>2, <3>1, ParsedTyped DEF TypeOK
  <2>3. CASE ClearBuffer /\ UNCHANGED <<command, line>> /\ arrived' = << >>
    BY <1>0, <2>3, ClearedTyped DEF ClearBuffer, TypeOK
  <2> QED BY <1>3, <2>2, <2>3 DEF EndOfLine
<1>4. ASSUME NEW c \in Byte, Store(c) PROVE TypeOK'
  <2>1. index' \in Cells /\ buffer' \in [Cells -> Byte]
    BY <1>0, <1>4, BodyInBuffer DEF Store, HasRoom, Cells
  <2>2. arrived' \in Seq(Byte)
    BY <1>0, <1>4 DEF Store, Character
  <2> QED BY <1>0, <1>4, <2>1, <2>2 DEF TypeOK, Store, Character
<1>5. ASSUME NEW c \in Byte, Overflow(c) PROVE TypeOK'
  <2>1. arrived' \in Seq(Byte)
    BY <1>0, <1>5 DEF Overflow, Character
  <2> QED
    BY <1>0, <1>5, <2>1, ClearedTyped DEF TypeOK, Overflow, Character, ClearBuffer
<1> QED
  BY <1>1, <1>2, <1>3, <1>4, <1>5 DEF Next

\* The receiver never writes outside its buffer, and a pending command points into it.
THEOREM ReceiverTypeCorrect == Spec => []TypeOK
<1>1. Init => TypeOK
  BY ClearedTyped DEF Init, TypeOK
<1> QED BY <1>1, TypeStep, PTL DEF Spec

-----------------------------------------------------------------------------
(* The buffer *)

\* While a command is pending nothing is read.
Holding == command # NotParsed => arrived = << >>

BufferInv == TypeOK /\ Holding /\ LineInBuffer

\* How long the kept end of a text is, and what is in it.
LEMMA KeptIs ==
  ASSUME NEW t \in Seq(Byte)
  PROVE  /\ Len(t) % BUFFER_SIZE \in 0 .. BUFFER_SIZE - 1
         /\ Len(Kept(t)) = Len(t) % BUFFER_SIZE
         /\ \A i \in 1 .. Len(t) % BUFFER_SIZE :
              Kept(t)[i] = t[Len(t) - (Len(t) % BUFFER_SIZE) + i]
<1> DEFINE n == Len(t)
           r == n % BUFFER_SIZE
<1>1. n \in Nat /\ BUFFER_SIZE \in Nat \ {0}
  BY BodyInBuffer
<1>2. r \in 0 .. BUFFER_SIZE - 1 /\ r <= n
  <2> HIDE DEF n
  <2> QED BY <1>1
<1>3. Kept(t) = SubSeq(t, n - r + 1, n)
  BY DEF Kept
<1> HIDE DEF r
<1>4. Len(Kept(t)) = r /\ \A i \in 1 .. r : Kept(t)[i] = t[n - r + i]
  BY <1>1, <1>2, <1>3
<1> QED BY <1>2, <1>4 DEF r

\* With no character kept, the buffer is clear.
LEMMA EmptyBuffer ==
  ASSUME ClearBuffer \/ (buffer = Cleared /\ index = 0 /\ UNCHANGED <<buffer, index>>),
         arrived' \in Seq(Byte), Len(arrived') % BUFFER_SIZE = 0
  PROVE  LineInBuffer'
<1>1. Len(Kept(arrived')) = 0
  BY KeptIs
<1> QED BY <1>1, ClearedTyped DEF LineInBuffer, ClearBuffer, Cleared, Cells

\* The empty text is kept empty.
LEMMA NothingArrived == << >> \in Seq(Byte) /\ Len(<< >>) % BUFFER_SIZE = 0
<1>1. 0 = BUFFER_SIZE * 0 + 0 /\ 0 \in 0 .. BUFFER_SIZE - 1 /\ Len(<< >>) = 0
  BY BodyInBuffer
<1> QED BY <1>1, BodyInBuffer, RemainderIs

\* A character that fits is stored behind the ones before it.
LEMMA StoreKeeps ==
  ASSUME BufferInv, NEW c \in Byte, Store(c)
  PROVE  LineInBuffer'
<1> DEFINE r == Len(arrived) % BUFFER_SIZE
<1>1. /\ command = NotParsed /\ arrived \in Seq(Byte) /\ arrived' = Append(arrived, c)
      /\ index' = index + 1 /\ buffer' = [buffer EXCEPT ![index] = c]
      /\ index \in Cells /\ index < BUFFER_SIZE - 1
  BY DEF BufferInv, TypeOK, Store, Character, Reading, HasRoom
<1>2. /\ index = r /\ r \in 0 .. BUFFER_SIZE - 1
      /\ buffer = [i \in Cells |-> IF i < index THEN Kept(arrived)[i + 1] ELSE NUL]
      /\ \A i \in 1 .. r : Kept(arrived)[i] = arrived[Len(arrived) - r + i]
  BY <1>1, KeptIs DEF BufferInv, LineInBuffer
<1>3. Len(arrived') = Len(arrived) + 1 /\ Len(arrived) \in Nat /\ arrived' \in Seq(Byte)
  BY <1>1
<1>4. Len(arrived') % BUFFER_SIZE = r + 1
  <2>1. r # BUFFER_SIZE - 1
    BY <1>1, <1>2
  <2> QED BY <1>3, <2>1, BodyInBuffer, NextRemainder
<1>5. /\ Len(Kept(arrived')) = r + 1
      /\ \A i \in 1 .. r + 1 : Kept(arrived')[i] = arrived'[Len(arrived) + 1 - (r + 1) + i]
  BY <1>3, <1>4, KeptIs
<1> HIDE DEF r
<1>6. ASSUME NEW i \in Cells
      PROVE  buffer'[i] = IF i < index' THEN Kept(arrived')[i + 1] ELSE NUL
  <2>1. CASE i = index
    <3>1. Kept(arrived')[r + 1] = arrived'[Len(arrived) + 1]
      BY <1>2, <1>3, <1>5
    <3> QED BY <1>1, <1>2, <1>3, <2>1, <3>1 DEF Cells
  <2>2. CASE i < index
    <3>1. i + 1 \in 1 .. r /\ r <= Len(arrived)
      <4>1. r <= Len(arrived)
        BY <1>3, BodyInBuffer DEF r
      <4> QED BY <1>2, <2>2, <4>1 DEF Cells
    <3>2. Kept(arrived')[i + 1] = arrived'[Len(arrived) - r + (i + 1)]
      BY <1>3, <1>5, <3>1, <1>2
    <3>3. arrived'[Len(arrived) - r + (i + 1)] = arrived[Len(arrived) - r + (i + 1)]
      BY <1>1, <1>2, <1>3, <3>1
    <3>4. Kept(arrived)[i + 1] = arrived[Len(arrived) - r + (i + 1)]
      BY <1>2, <3>1
    <3>5. buffer'[i] = Kept(arrived)[i + 1]
      BY <1>1, <1>2, <2>2 DEF Cells
    <3> QED BY <1>1, <2>2, <3>2, <3>3, <3>4, <3>5 DEF Cells
  <2>3. CASE i > index
    BY <1>1, <1>2, <2>3 DEF Cells
  <2> QED BY <1>1, <2>1, <2>2, <2>3 DEF Cells
<1>7. buffer' = [i \in Cells |-> IF i < index' THEN Kept(arrived')[i + 1] ELSE NUL]
  BY <1>1, <1>2, <1>6
<1> QED BY <1>1, <1>2, <1>5, <1>7 DEF LineInBuffer

\* Every step keeps the buffer what it should be.
LEMMA BufferStep == BufferInv /\ [Next]_vars => BufferInv'
<1> SUFFICES ASSUME BufferInv, [Next]_vars PROVE Holding' /\ LineInBuffer'
  BY TypeStep DEF BufferInv
<1>0. TypeOK /\ Holding /\ LineInBuffer /\ arrived \in Seq(Byte)
  BY DEF BufferInv, TypeOK
<1>1. CASE CarriageReturn \/ GetEvent \/ UNCHANGED vars
  BY <1>0, <1>1 DEF CarriageReturn, GetEvent, vars, Holding, LineInBuffer
<1>2. CASE EmptyLine
  <2>1. buffer = Cleared
    BY <1>0, <1>2 DEF EmptyLine, Reading, LineInBuffer, Cleared, Cells
  <2> QED
    BY <1>2, <2>1, EmptyBuffer, NothingArrived DEF EmptyLine, Holding
<1>3. CASE EndOfLine
  <2>1. CASE ClearBuffer
    BY <1>3, <2>1, EmptyBuffer, NothingArrived DEF EndOfLine, Holding
  <2>2. CASE ~ClearBuffer
    <3> DEFINE text == [buffer EXCEPT ![index] = NUL]
    <3>1. text \in [Cells -> Byte]
      BY <1>0 DEF TypeOK, Byte
    <3>2. Parses(text) /\ command' = Parsed(text) /\ arrived' = << >>
      BY <1>3, <2>2 DEF EndOfLine
    <3> HIDE DEF text
    <3>3. command' # NotParsed
      BY <3>1, <3>2, ParsedTyped
    <3> QED BY <3>2, <3>3 DEF Holding, LineInBuffer
  <2> QED BY <2>1, <2>2
<1>4. CASE ReleaseCommand
  <2>1. arrived' = << >>
    BY <1>0, <1>4 DEF ReleaseCommand, Holding
  <2> QED BY <1>4, <2>1, EmptyBuffer, NothingArrived DEF ReleaseCommand, Holding
<1>5. CASE PowerCycle
  BY <1>5, EmptyBuffer, NothingArrived DEF PowerCycle, Holding
<1>6. ASSUME NEW c \in Byte, Store(c) PROVE Holding' /\ LineInBuffer'
  BY <1>6, StoreKeeps DEF Store, Character, Reading, Holding
<1>7. ASSUME NEW c \in Byte, Overflow(c) PROVE Holding' /\ LineInBuffer'
  <2>1. /\ arrived' = Append(arrived, c) /\ ~(index < BUFFER_SIZE - 1) /\ index \in Cells
        /\ command = NotParsed /\ index = Len(Kept(arrived)) /\ ClearBuffer
        /\ UNCHANGED command
    BY <1>0, <1>7 DEF Overflow, Character, Reading, HasRoom, TypeOK, LineInBuffer
  <2>2. Len(arrived) % BUFFER_SIZE = BUFFER_SIZE - 1
    <3>1. Len(Kept(arrived)) = Len(arrived) % BUFFER_SIZE
      BY <1>0, KeptIs, Zenon
    <3>2. index = BUFFER_SIZE - 1
      BY <2>1, BodyInBuffer DEF Cells
    <3> QED BY <2>1, <3>1, <3>2
  <2>3. Len(arrived') = Len(arrived) + 1 /\ Len(arrived) \in Nat /\ arrived' \in Seq(Byte)
    BY <1>0, <2>1
  <2>4. Len(arrived') % BUFFER_SIZE = 0
    BY <2>2, <2>3, BodyInBuffer, NextRemainder
  <2> QED BY <2>1, <2>3, <2>4, EmptyBuffer DEF Holding
<1> QED
  BY <1>1, <1>2, <1>3, <1>4, <1>5, <1>6, <1>7 DEF Next

\* The buffer is clear at power up.
LEMMA InitialBuffer == Init => BufferInv
<1> SUFFICES ASSUME Init PROVE BufferInv
  OBVIOUS
<1>1. arrived = << >> /\ Len(Kept(<< >>)) = 0
  <2>1. PICK t \in Seq(Byte) : t = << >>
    BY NothingArrived
  <2>2. Len(Kept(t)) = Len(t) % BUFFER_SIZE
    BY KeptIs, Zenon
  <2> QED BY <2>1, <2>2, NothingArrived DEF Init
<1> QED
  BY <1>1, ClearedTyped DEF Init, BufferInv, TypeOK, Holding, LineInBuffer, Cleared, Cells

\* The buffer is what it should be for as long as the device runs.
LEMMA BufferInvariant == Spec => []BufferInv
BY InitialBuffer, BufferStep, PTL DEF Spec

\* What the parser reads is the line received and nothing of the lines before it, for any
\* size of the buffer and lines of any length.
THEOREM BufferHoldsTheLine == Spec => []LineInBuffer
<1>1. BufferInv => LineInBuffer
  BY DEF BufferInv
<1> QED BY <1>1, BufferInvariant, PTL

-----------------------------------------------------------------------------
(* The protocol of lines *)

\* What is held is a command as the rest of the device knows them.
LEMMA HeldTyped ==
  TypeOK => IF command = NotParsed THEN Held = Lines!NoCommand
            ELSE Held \in AnyCommand /\ Held # Lines!NoCommand
<1> SUFFICES ASSUME TypeOK, command # NotParsed
             PROVE  Held \in AnyCommand /\ Held # Lines!NoCommand
  BY DEF Held, Lines!NoCommand
<1>1. /\ PendingCommand.nodeId = NodeOf[command.nodeId] /\ command.nodeId \in Char
      /\ PendingCommand \in AnyCommand
  BY DEF PendingCommand, AnyCommand, TypeOK
<1> QED BY <1>1, LineReceiverAssumption DEF Held, Lines!NoCommand

\* A text stands for a message of the protocol.
LEMMA MessageTyped ==
  ASSUME NEW text
  PROVE  MessageOf(text) \in Lines!HostMessage
BY DEF MessageOf, Messages, Lines!HostMessage

\* The end of a line is the line taken as a whole; every other step is a step of the
\* protocol of lines, or none.
LEMMA StepImplementsLines ==
  ASSUME TypeOK, TypeOK', [Next]_vars
  PROVE  [Lines!Next]_<<phEvent, Held>>
<1>0. (TypeOK => IF command = NotParsed THEN Held = Lines!NoCommand
                 ELSE Held \in AnyCommand /\ Held # Lines!NoCommand)'
  BY HeldTyped, PTL
<1>1. /\ command = NotParsed => Held = Lines!NoCommand
      /\ command # NotParsed => Held # Lines!NoCommand
      /\ command' = NotParsed => Held' = Lines!NoCommand
      /\ command' # NotParsed => Held' \in AnyCommand
  BY <1>0, HeldTyped
<1>2. CASE EndOfLine
  <2> DEFINE text == [buffer EXCEPT ![index] = NUL]
             message == MessageOf(StringAt(text, 0))
  <2>1. /\ command = NotParsed /\ phEvent = "NONE" /\ Held = Lines!NoCommand
        /\ message \in Lines!HostMessage
    BY <1>1, <1>2, MessageTyped DEF EndOfLine, Reading
  <2>2. CASE message = "CMD" /\ Parses(text)
    <3> DEFINE l == [message |-> "CMD", command |-> Held']
    <3>1. command' = Parsed(text) /\ UNCHANGED phEvent
      BY <1>2, <2>2 DEF EndOfLine
    <3>2. command' # NotParsed
      <4>1. text \in [Cells -> Byte]
        BY DEF TypeOK, Byte
      <4> HIDE DEF text
      <4> QED BY <2>2, <3>1, <4>1, ParsedTyped
    <3> HIDE DEF text, message
    <3>3. l \in Lines!HostLine /\ l.command # Lines!NoCommand
      BY <1>0, <1>1, <3>2 DEF Lines!HostLine
    <3>4. Lines!EventOfLine(l) = "NONE"
      BY <3>3 DEF Lines!EventOfLine, Lines!EventOf
    <3>5. Lines!TakeLine(l)
      BY <2>1, <3>1, <3>4 DEF Lines!TakeLine, Lines!Receive, Lines!EmitEvent, Lines!HasEvent
    <3> QED BY <3>3, <3>5 DEF Lines!Next
  <2>3. CASE ~(message = "CMD" /\ Parses(text))
    <3> DEFINE l == [message |-> message, command |-> Lines!NoCommand]
    <3>1. /\ phEvent' = EmitEvent(phEvent, Lines!EventOfLine(l))
          /\ UNCHANGED command
      BY <1>2, <2>3 DEF EndOfLine
    <3> HIDE DEF text, message
    <3>2. l \in Lines!HostLine
      BY <2>1 DEF Lines!HostLine
    <3>3. Held' = Lines!NoCommand
      BY <1>1, <2>1, <3>1
    <3>4. Lines!TakeLine(l)
      BY <2>1, <3>1, <3>3
      DEF Lines!TakeLine, Lines!Receive, EmitEvent, HasEvent, Lines!EmitEvent, Lines!HasEvent
    <3> QED BY <3>2, <3>4 DEF Lines!Next
  <2> QED BY <2>2, <2>3
<1>3. CASE GetEvent
  <2>1. UNCHANGED Held
    BY <1>3 DEF GetEvent, Held, PendingCommand, Payload, StringAt
  <2> QED BY <1>3, <2>1 DEF GetEvent, Lines!GetEvent, Lines!Next
<1>4. CASE ReleaseCommand
  <2>1. Lines!AnswerCommand
    BY <1>1, <1>4 DEF ReleaseCommand, Lines!AnswerCommand, Lines!ReleaseCommand
  <2> QED BY <2>1 DEF Lines!Next
<1>5. CASE PowerCycle
  <2>1. Lines!PowerCycle
    BY <1>1, <1>5 DEF PowerCycle, Lines!PowerCycle
  <2> QED BY <2>1 DEF Lines!Next
<1>6. ASSUME \/ CarriageReturn \/ EmptyLine
             \/ \E c \in Byte : Store(c) \/ Overflow(c)
      PROVE  command = NotParsed /\ UNCHANGED <<phEvent, command>>
  BY <1>6 DEF CarriageReturn, EmptyLine, Store, Overflow, Character, Reading, vars
<1>7. CASE UNCHANGED vars
  BY <1>7 DEF vars, Held, PendingCommand, Payload, StringAt
<1>8. CASE \/ CarriageReturn \/ EmptyLine
           \/ \E c \in Byte : Store(c) \/ Overflow(c)
  BY <1>1, <1>6, <1>8
<1> QED
  BY <1>2, <1>3, <1>4, <1>5, <1>7, <1>8 DEF Next

\* The rest of the device may take ProtocolHandler for what LineProtocol says it is: whole
\* lines, one at a time, and a command with a payload of its own, although the payload stays
\* in the buffer the next line will be received into.
THEOREM ReceiverImplementsLines == Spec => ImplementsLines
<1>1. Init => Lines!Init
  BY DEF Init, Lines!Init, Held, Lines!NoCommand
<1> QED
  BY <1>1, StepImplementsLines, ReceiverTypeCorrect, PTL
  DEF Spec, ImplementsLines, Lines!Spec

-----------------------------------------------------------------------------
(* The text of a line *)

\* A set of numbers that is not empty has a least one.
LEMMA Least ==
  ASSUME NEW S \in SUBSET Nat, S # {}
  PROVE  \E x \in S : \A y \in S : x <= y
<1> DEFINE Less == OpToRel(<, Nat)
<1>1. IsWellFoundedOn(Less, Nat)
  BY NatLessThanWellFounded, Zenon
<1>2. \A x \in S : \A y \in S : y < x => <<y, x>> \in Less
  BY DEF OpToRel
<1> HIDE DEF Less
<1>3. PICK x \in S : \A y \in S : ~(<<y, x>> \in Less)
  BY <1>1, WFMin
<1>4. \A y \in S : ~(y < x)
  BY <1>2, <1>3
<1>5. \A y \in S : x <= y
  BY <1>4
<1> QED BY <1>5

\* An array of n characters is a text of length n.
LEMMA ArrayIsText ==
  ASSUME NEW n \in Nat, NEW s \in [1 .. n -> Char]
  PROVE  s \in Seq(Char) /\ Len(s) = n
<1>1. s \in Seq(Char)
  BY SeqDef
<1>2. Len(s) \in Nat /\ 1 .. Len(s) = 1 .. n
  BY <1>1, LenProperties
<1> QED BY <1>1, <1>2

\* The text of a line is its bytes up to a '\0', or all of them.
LEMMA TextIs ==
  ASSUME NEW u \in Seq(Byte)
  PROVE  /\ Text(u) \in Seq(Char) /\ Len(Text(u)) \in 0 .. Len(u)
         /\ \A i \in 1 .. Len(Text(u)) : Text(u)[i] = u[i]
         /\ Len(Text(u)) < Len(u) => u[Len(Text(u)) + 1] = NUL
<1> DEFINE Ends(n) == /\ \A i \in 1 .. n : u[i] # NUL
                      /\ n < Len(u) => u[n + 1] = NUL
           zeros == {i \in 1 .. Len(u) : u[i] = NUL}
           n == TextLength(u)
<1>1. Len(u) \in Nat /\ \A i \in 1 .. Len(u) : u[i] \in Byte
  OBVIOUS
<1>2. \E k \in 0 .. Len(u) : Ends(k)
  <2>1. CASE zeros = {}
    <3>1. Ends(Len(u)) /\ Len(u) \in 0 .. Len(u)
      BY <1>1, <2>1
    <3> QED BY <3>1
  <2>2. CASE zeros # {}
    <3>1. PICK x \in zeros : \A y \in zeros : x <= y
      <4>1. zeros \in SUBSET Nat
        BY <1>1
      <4> HIDE DEF zeros
      <4> QED BY <2>2, <4>1, Least
    <3>2. x - 1 \in 0 .. Len(u) /\ x - 1 + 1 = x /\ u[x] = NUL
      BY <1>1, <3>1
    <3>3. \A i \in 1 .. x - 1 : u[i] # NUL
      BY <1>1, <3>1, <3>2
    <3> QED BY <3>2, <3>3
  <2> QED BY <2>1, <2>2
<1>3. n \in 0 .. Len(u) /\ Ends(n)
  <2>1. n = CHOOSE k \in 0 .. Len(u) : Ends(k)
    BY DEF TextLength
  <2> HIDE DEF Ends, n
  <2> QED BY <1>2, <2>1
<1>4. Text(u) = SubSeq(u, 1, n)
  BY DEF Text
<1> HIDE DEF n
<1>5. Text(u) \in Seq(Byte) /\ Len(Text(u)) = n /\ \A i \in 1 .. n : Text(u)[i] = u[i]
  BY <1>1, <1>3, <1>4
<1>6. \A i \in 1 .. n : Text(u)[i] \in Char
  BY <1>1, <1>3, <1>5 DEF Byte
<1>7. Text(u) \in Seq(Char)
  <2>1. Text(u) \in [1 .. n -> Char]
    BY <1>5, <1>6
  <2> QED BY <1>3, <2>1, ArrayIsText
<1> QED BY <1>3, <1>5, <1>7

\* A text that a line starts with and that ends with it, or at a '\0', is the line's text.
LEMMA TextIsOnly ==
  ASSUME NEW u \in Seq(Byte), NEW t \in Seq(Char), Len(t) <= Len(u),
         \A i \in 1 .. Len(t) : u[i] = t[i],
         Len(t) < Len(u) => u[Len(t) + 1] = NUL
  PROVE  Text(u) = t
<1>1. /\ Text(u) \in Seq(Char) /\ Len(Text(u)) \in 0 .. Len(u)
      /\ \A i \in 1 .. Len(Text(u)) : Text(u)[i] = u[i]
      /\ Len(Text(u)) < Len(u) => u[Len(Text(u)) + 1] = NUL
  BY TextIs
<1>2. Len(t) \in Nat /\ Len(u) \in Nat /\ NUL \notin Char
  BY LineReceiverAssumption
<1>3. ~(Len(Text(u)) < Len(t))
  <2> SUFFICES ASSUME Len(Text(u)) < Len(t) PROVE FALSE
    OBVIOUS
  <2>1. t[Len(Text(u)) + 1] \in Char /\ u[Len(Text(u)) + 1] = t[Len(Text(u)) + 1]
    BY <1>1, <1>2
  <2> QED BY <1>1, <1>2, <2>1
<1>4. ~(Len(t) < Len(Text(u)))
  <2> SUFFICES ASSUME Len(t) < Len(Text(u)) PROVE FALSE
    OBVIOUS
  <2>1. Text(u)[Len(t) + 1] \in Char /\ Text(u)[Len(t) + 1] = u[Len(t) + 1]
    BY <1>1, <1>2
  <2> QED BY <1>1, <1>2, <2>1
<1>5. Len(Text(u)) = Len(t)
  BY <1>1, <1>2, <1>3, <1>4
<1> QED BY <1>1, <1>5, SeqEqual

-----------------------------------------------------------------------------
(* Texts in a buffer *)

\* Buffer b holds the bytes u, and zeros after them.
Holds(b, u) ==
  /\ u \in Seq(Byte) /\ Len(u) < BUFFER_SIZE
  /\ b = [i \in Cells |-> IF i < Len(u) THEN u[i + 1] ELSE NUL]

\* From cell k on, b holds what is left of text t, and a '\0'; behind that, anything.
HoldsFrom(k, b, t) ==
  /\ t \in Seq(Char) /\ Len(t) < BUFFER_SIZE /\ k \in 0 .. Len(t)
  /\ \A i \in Cells : k <= i /\ i < Len(t) => b[i] = t[i + 1]
  /\ b[Len(t)] = NUL

\* No cell of the text is zero, and the one behind it is.
LEMMA CellOf ==
  ASSUME NEW k, NEW b, NEW t, HoldsFrom(k, b, t), NEW i \in Cells, k <= i
  PROVE  /\ i < Len(t) => b[i] = t[i + 1] /\ b[i] \in Char /\ b[i] # NUL
         /\ i = Len(t) => b[i] = NUL
<1>1. i \in Nat /\ Len(t) \in Nat /\ t \in Seq(Char)
  BY BodyInBuffer DEF Cells, HoldsFrom
<1>2. i < Len(t) => b[i] = t[i + 1] /\ t[i + 1] \in Char
  BY <1>1 DEF HoldsFrom
<1> QED BY <1>2, LineReceiverAssumption DEF HoldsFrom

\* The buffer that holds a line holds its text.
LEMMA HoldsText ==
  ASSUME NEW b, NEW u, Holds(b, u)
  PROVE  HoldsFrom(0, b, Text(u))
<1> DEFINE t == Text(u)
<1>1. /\ t \in Seq(Char) /\ Len(t) \in 0 .. Len(u) /\ Len(u) \in Nat
      /\ \A i \in 1 .. Len(t) : t[i] = u[i]
      /\ Len(t) < Len(u) => u[Len(t) + 1] = NUL
  BY TextIs DEF Holds
<1> HIDE DEF t
<1>2. BUFFER_SIZE \in Nat /\ Len(u) < BUFFER_SIZE
      /\ b = [i \in Cells |-> IF i < Len(u) THEN u[i + 1] ELSE NUL]
  BY BodyInBuffer DEF Holds
<1>3. Len(t) \in Cells /\ b[Len(t)] = NUL
  BY <1>1, <1>2 DEF Cells
<1>4. ASSUME NEW i \in Cells, i < Len(t) PROVE b[i] = t[i + 1]
  BY <1>1, <1>2, <1>4 DEF Cells
<1>5. HoldsFrom(0, b, t)
  BY <1>1, <1>2, <1>3, <1>4 DEF HoldsFrom
<1> QED BY <1>5 DEF t

\* The string that starts at a cell is the rest of the text.
LEMMA StringOf ==
  ASSUME NEW k, NEW b, NEW t, HoldsFrom(k, b, t), NEW i \in k .. Len(t)
  PROVE  /\ StringAt(b, i) \in Seq(Char)
         /\ Len(StringAt(b, i)) = Len(t) - i
         /\ \A n \in 1 .. Len(t) - i : StringAt(b, i)[n] = t[i + n]
<1> DEFINE terminated(j) == j >= i /\ b[j] = NUL
           IsEnd(j) == terminated(j) /\ \A l \in Cells : terminated(l) => j <= l
           end == CHOOSE j \in Cells : IsEnd(j)
<1>1. /\ Len(t) \in Cells /\ Len(t) \in Nat /\ Cells \subseteq Nat /\ i \in Nat /\ k \in Nat
      /\ Len(t) < BUFFER_SIZE /\ BUFFER_SIZE \in Nat /\ k <= i
  BY BodyInBuffer DEF HoldsFrom, Cells
<1>2. IsEnd(Len(t))
  <2>1. terminated(Len(t))
    BY <1>1, CellOf
  <2>2. ASSUME NEW l \in Cells, terminated(l) PROVE Len(t) <= l
    BY <1>1, <2>2, CellOf
  <2> QED BY <2>1, <2>2
<1>3. end \in Cells /\ IsEnd(end)
  <2> HIDE DEF IsEnd
  <2> QED BY <1>1, <1>2
<1>4. end = Len(t)
  <2>1. end <= Len(t) /\ Len(t) <= end
    <3> HIDE DEF end
    <3> QED BY <1>1, <1>2, <1>3
  <2> HIDE DEF end
  <2> QED BY <1>1, <1>3, <2>1
<1>5. StringAt(b, i) = [n \in 1 .. end - i |-> b[i + n - 1]]
  BY DEF StringAt
<1> HIDE DEF end
<1>6. StringAt(b, i) = [n \in 1 .. Len(t) - i |-> b[i + n - 1]]
  BY <1>4, <1>5
<1>7. \A n \in 1 .. Len(t) - i : b[i + n - 1] = t[i + n] /\ b[i + n - 1] \in Char
  <2> TAKE n \in 1 .. Len(t) - i
  <2>1. i + n - 1 \in Cells /\ i + n - 1 < Len(t)
    BY <1>1 DEF Cells
  <2> QED BY <1>1, <2>1, CellOf
<1>8. Len(t) - i \in Nat
  BY <1>1
<1>9. StringAt(b, i) \in [1 .. Len(t) - i -> Char]
  BY <1>6, <1>7
<1>10. StringAt(b, i) \in Seq(Char) /\ Len(StringAt(b, i)) = Len(t) - i
  BY <1>8, <1>9, ArrayIsText, Zenon
<1> QED BY <1>6, <1>7, <1>10

\* The text the buffer holds is its string.
LEMMA WholeString ==
  ASSUME NEW b, NEW t, HoldsFrom(0, b, t)
  PROVE  StringAt(b, 0) = t
<1>1. t \in Seq(Char) /\ Len(t) \in Nat /\ 0 \in 0 .. Len(t)
  BY DEF HoldsFrom
<1>2. /\ StringAt(b, 0) \in Seq(Char) /\ Len(StringAt(b, 0)) = Len(t)
      /\ \A n \in 1 .. Len(t) : StringAt(b, 0)[n] = t[n]
  BY <1>1, StringOf
<1> QED BY <1>1, <1>2, SeqEqual

\* What the parser finds behind the prefix is the text, and zero where it ends.
LEMMA BodyOf ==
  ASSUME NEW b, NEW t, HoldsFrom(Len(CommandPrefix), b, t), NEW i \in 0 .. 5
  PROVE  /\ Len(CommandPrefix) + i < Len(t) =>
              /\ Body(b, i) = t[Len(CommandPrefix) + i + 1]
              /\ Body(b, i) \in Char /\ Body(b, i) # NUL
         /\ Len(CommandPrefix) + i = Len(t) => Body(b, i) = NUL
<1>1. /\ Len(CommandPrefix) + i \in Cells /\ Len(CommandPrefix) \in Nat
      /\ Len(CommandPrefix) <= Len(CommandPrefix) + i
  BY BodyInBuffer DEF Cells
<1> QED BY <1>1, CellOf DEF Body

-----------------------------------------------------------------------------
(* The form of a command *)

\* Two texts in a row.
LEMMA Joined ==
  ASSUME NEW a \in Seq(Char), NEW b \in Seq(Char)
  PROVE  /\ a \o b \in Seq(Char) /\ Len(a \o b) = Len(a) + Len(b)
         /\ Len(a) \in Nat /\ Len(b) \in Nat
         /\ \A i \in 1 .. Len(a) : (a \o b)[i] = a[i]
         /\ \A i \in 1 .. Len(b) : (a \o b)[Len(a) + i] = b[i]
<1>1. /\ a \o b \in Seq(Char) /\ Len(a \o b) = Len(a) + Len(b)
      /\ \A i \in 1 .. Len(a) + Len(b) :
           (a \o b)[i] = IF i <= Len(a) THEN a[i] ELSE b[i - Len(a)]
  BY ConcatProperties
<1>2. Len(a) \in Nat /\ Len(b) \in Nat
  OBVIOUS
<1>3. ASSUME NEW i \in 1 .. Len(a) PROVE (a \o b)[i] = a[i]
  BY <1>1, <1>2
<1>4. ASSUME NEW i \in 1 .. Len(b) PROVE (a \o b)[Len(a) + i] = b[i]
  <2>1. Len(a) + i \in 1 .. Len(a) + Len(b) /\ ~(Len(a) + i <= Len(a))
        /\ Len(a) + i - Len(a) = i
    BY <1>2
  <2> QED BY <1>1, <2>1
<1> QED BY <1>1, <1>2, <1>3, <1>4

\* Character by character, the text of a command to property p of Node n with payload v.
Spells(c, n, p, v) ==
  LET m == Len(CommandPrefix)
      q == IF p = NUL THEN 0 ELSE 1
  IN  /\ c \in Seq(Char)
      /\ Len(c) = m + 3 + q + (IF v = << >> THEN 0 ELSE 1 + Len(v))
      /\ \A i \in 1 .. m : c[i] = CommandPrefix[i]
      /\ c[m + 1] = "/" /\ c[m + 2] = n /\ c[m + 3] = "/"
      /\ p # NUL => c[m + 4] = p
      /\ v # << >> => c[m + 4 + q] = ":"
      /\ v # << >> => \A i \in 1 .. Len(v) : c[m + 4 + q + i] = v[i]

\* The text that stands for a command spells it.
LEMMA CommandTextIs ==
  ASSUME NEW n \in Char, NEW p \in Char \cup {NUL}, NEW v \in Seq(Char)
  PROVE  Spells(CommandText(n, p, v), n, p, v)
<1> DEFINE q == IF p = NUL THEN 0 ELSE 1
           c == CommandText(n, p, v)
           m == Len(CommandPrefix)
           path == <<"/", n, "/">>
           property == IF p = NUL THEN << >> ELSE <<p>>
           payload == IF v = << >> THEN << >> ELSE <<":">> \o v
<1>1. CommandPrefix \in Seq(Char) /\ m \in Nat
  BY LineReceiverAssumption DEF CommandPrefix, Messages
<1>2. path \in Seq(Char) /\ Len(path) = 3 /\ path[1] = "/" /\ path[2] = n /\ path[3] = "/"
  BY LineReceiverAssumption
<1>3. property \in Seq(Char) /\ Len(property) = q /\ (p # NUL => property[1] = p)
  OBVIOUS
<1>4. /\ payload \in Seq(Char) /\ Len(payload) = IF v = << >> THEN 0 ELSE 1 + Len(v)
      /\ v # << >> => payload[1] = ":" /\ \A i \in 1 .. Len(v) : payload[1 + i] = v[i]
  BY LineReceiverAssumption
<1>5. c = CommandPrefix \o path \o property \o payload
  BY DEF CommandText
<1>6. q \in {0, 1} /\ Len(v) \in Nat
  OBVIOUS
<1> HIDE DEF c, m, path, property, payload, q
<1> DEFINE c1 == CommandPrefix \o path
           c2 == c1 \o property
<1>7. /\ c1 \in Seq(Char) /\ Len(c1) = m + 3
      /\ \A i \in 1 .. m : c1[i] = CommandPrefix[i]
      /\ c1[m + 1] = "/" /\ c1[m + 2] = n /\ c1[m + 3] = "/"
  <2>1. /\ c1 \in Seq(Char) /\ Len(c1) = Len(CommandPrefix) + Len(path)
        /\ \A i \in 1 .. Len(CommandPrefix) : c1[i] = CommandPrefix[i]
        /\ \A i \in 1 .. Len(path) : c1[Len(CommandPrefix) + i] = path[i]
    BY <1>1, <1>2, Joined
  <2> QED BY <1>1, <1>2, <2>1 DEF m
<1> HIDE DEF c1
<1>8. /\ c2 \in Seq(Char) /\ Len(c2) = m + 3 + q
      /\ \A i \in 1 .. m + 3 : c2[i] = c1[i]
      /\ p # NUL => c2[m + 4] = p
  <2>1. /\ c2 \in Seq(Char) /\ Len(c2) = Len(c1) + q
        /\ \A i \in 1 .. Len(c1) : c2[i] = c1[i]
        /\ \A i \in 1 .. q : c2[Len(c1) + i] = property[i]
    BY <1>3, <1>7, Joined
  <2>2. p # NUL => q = 1 /\ c2[m + 3 + 1] = property[1] /\ m + 3 + 1 = m + 4
    BY <1>1, <1>7, <2>1 DEF q
  <2> QED BY <1>3, <1>7, <2>1, <2>2
<1>9. c = c2 \o payload
  BY <1>5 DEF c1
<1> HIDE DEF c2
<1>10. /\ c \in Seq(Char) /\ Len(c) = m + 3 + q + Len(payload)
       /\ \A i \in 1 .. m + 3 + q : c[i] = c2[i]
       /\ \A i \in 1 .. Len(payload) : c[m + 3 + q + i] = payload[i]
  <2>1. /\ c \in Seq(Char) /\ Len(c) = Len(c2) + Len(payload)
        /\ \A i \in 1 .. Len(c2) : c[i] = c2[i]
        /\ \A i \in 1 .. Len(payload) : c[Len(c2) + i] = payload[i]
    BY <1>4, <1>8, <1>9, Joined
  <2> QED BY <1>8, <2>1
<1>11. /\ \A i \in 1 .. m : c[i] = CommandPrefix[i]
       /\ c[m + 1] = "/" /\ c[m + 2] = n /\ c[m + 3] = "/"
  <2>1. \A i \in 1 .. m + 3 : c[i] = c1[i]
    BY <1>1, <1>6, <1>8, <1>10
  <2> QED BY <1>1, <1>7, <2>1
<1>12. p # NUL => c[m + 4] = p
  <2>1. p # NUL => m + 4 \in 1 .. m + 3 + q
    BY <1>1 DEF q
  <2> QED BY <1>8, <1>10, <2>1
<1>13. v # << >> => c[m + 4 + q] = ":" /\ \A i \in 1 .. Len(v) : c[m + 4 + q + i] = v[i]
  <2> SUFFICES ASSUME v # << >>
               PROVE  c[m + 4 + q] = ":" /\ \A i \in 1 .. Len(v) : c[m + 4 + q + i] = v[i]
    OBVIOUS
  <2>1. Len(payload) = 1 + Len(v)
    BY <1>4
  <2>2. c[m + 3 + q + 1] = ":"
    BY <1>4, <1>6, <1>10, <2>1
  <2>3. ASSUME NEW i \in 1 .. Len(v) PROVE c[m + 3 + q + (1 + i)] = v[i]
    BY <1>4, <1>6, <1>10, <2>1
  <2>4. m + 3 + q + 1 = m + 4 + q /\ \A i \in 1 .. Len(v) : m + 3 + q + (1 + i) = m + 4 + q + i
    BY <1>1, <1>6
  <2> QED BY <2>2, <2>3, <2>4
<1> QED BY <1>4, <1>10, <1>11, <1>12, <1>13 DEF c, m, q, Spells

\* A text with the prefix of a command starts with its characters.
LEMMA PrefixIs ==
  ASSUME NEW t \in Seq(Char)
  PROVE  IsPrefix(CommandPrefix, t)
           <=> /\ Len(CommandPrefix) <= Len(t)
               /\ \A i \in 1 .. Len(CommandPrefix) : t[i] = CommandPrefix[i]
<1> DEFINE c == CommandPrefix
           m == Len(c)
<1>1. c \in Seq(Char) /\ m \in Nat /\ Len(t) \in Nat
  BY LineReceiverAssumption DEF CommandPrefix, Messages
<1>2. /\ SubSeq(c, 1, m) \in Seq(Char) /\ Len(SubSeq(c, 1, m)) = m
      /\ \A i \in 1 .. m : SubSeq(c, 1, m)[i] = c[i]
  <2> HIDE DEF c
  <2> QED BY <1>1
<1> SUFFICES ASSUME m <= Len(t)
             PROVE  SubSeq(c, 1, m) = SubSeq(t, 1, m) <=> \A i \in 1 .. m : t[i] = c[i]
  BY DEF IsPrefix
<1> HIDE DEF c, m
<1>3. /\ SubSeq(t, 1, m) \in Seq(Char) /\ Len(SubSeq(t, 1, m)) = m
      /\ \A i \in 1 .. m : SubSeq(t, 1, m)[i] = t[i]
  BY <1>1
<1>4. ASSUME SubSeq(c, 1, m) = SubSeq(t, 1, m), NEW i \in 1 .. m PROVE t[i] = c[i]
  BY <1>2, <1>3, <1>4
<1>5. ASSUME \A i \in 1 .. m : t[i] = c[i] PROVE SubSeq(c, 1, m) = SubSeq(t, 1, m)
  <2>1. \A i \in 1 .. Len(SubSeq(c, 1, m)) : SubSeq(c, 1, m)[i] = SubSeq(t, 1, m)[i]
    BY <1>2, <1>3, <1>5
  <2> QED BY <1>2, <1>3, <2>1, SeqEqual
<1> QED BY <1>4, <1>5

\* A text with the prefix of a command has a ':', so it is the text of no message.
LEMMA PrefixHasColon ==
  ASSUME NEW t \in Seq(Char), IsPrefix(CommandPrefix, t)
  PROVE  ":" \in ToSet(t)
<1> DEFINE m == Len(CommandPrefix)
<1>1. m \in 1 .. m /\ m \in DOMAIN t /\ t[m] = CommandPrefix[m]
  <2>1. \A i \in 1 .. m : t[i] = CommandPrefix[i]
    BY PrefixIs
  <2>2. m <= Len(t) /\ m \in Nat /\ m > 0 /\ Len(t) \in Nat
    BY PrefixIs, BodyInBuffer
  <2> QED BY <2>1, <2>2
<1>2. CommandPrefix[m] = ":"
  BY LineReceiverAssumption DEF CommandPrefix, Messages
<1> QED BY <1>1, <1>2 DEF ToSet

\* The payload that the parser leaves in the buffer.
PayloadText(b) == IF HasPayload(b) THEN StringAt(b, Len(CommandPrefix) + 5) ELSE << >>

\* What parseCommand makes of a text, written as a command, is the text; the Node's id,
\* the property's and the payload are parts of it.
LEMMA ParsedIsTheText ==
  ASSUME NEW b, NEW t, HoldsFrom(Len(CommandPrefix), b, t),
         IsPrefix(CommandPrefix, t), Parses(b)
  PROVE  /\ t = CommandText(Body(b, 1), Body(b, 3), PayloadText(b))
         /\ Body(b, 1) \in ToSet(t)
         /\ Body(b, 3) # NUL => Body(b, 3) \in ToSet(t)
         /\ Body(b, 3) = NUL => PayloadText(b) = << >>
         /\ PayloadText(b) # << >> =>
              \E k \in DOMAIN t : PayloadText(b) = SubSeq(t, k, Len(t))
<1> DEFINE n == Body(b, 1)
           p == Body(b, 3)
           m == Len(CommandPrefix)
           v == PayloadText(b)
           q == IF p = NUL THEN 0 ELSE 1
           c == CommandText(n, p, v)
<1>1. t \in Seq(Char) /\ Len(t) \in Nat /\ m \in Nat
      /\ \A i \in 1 .. m : t[i] = CommandPrefix[i]
  BY BodyInBuffer, PrefixIs DEF HoldsFrom
<1>2. "/" # NUL /\ ":" # NUL
  BY DEF NUL
<1>3. /\ Len(t) >= m + 3 /\ t[m + 1] = "/" /\ t[m + 2] = n /\ t[m + 3] = "/"
      /\ n \in Char
  <2>1. Body(b, 0) = "/" /\ Body(b, 1) # NUL /\ Body(b, 2) = "/"
    BY DEF Parses
  <2>2. m <= Len(t)
    BY PrefixIs, <1>1
  <2>3. m < Len(t) /\ Body(b, 0) = t[m + 1]
    <3>1. m # Len(t)
      BY <1>1, <1>2, <2>1, BodyOf
    <3> QED BY <1>1, <2>2, <3>1, BodyOf
  <2>4. m + 1 < Len(t) /\ Body(b, 1) = t[m + 2]
    <3>1. m + 1 # Len(t)
      BY <1>1, <2>1, BodyOf
    <3> QED BY <1>1, <2>3, <3>1, BodyOf
  <2>5. m + 2 < Len(t) /\ Body(b, 2) = t[m + 3]
    <3>1. m + 2 # Len(t)
      BY <1>1, <1>2, <2>1, BodyOf
    <3> QED BY <1>1, <2>4, <3>1, BodyOf
  <2> QED BY <1>1, <2>1, <2>3, <2>4, <2>5
<1>4. /\ p # NUL <=> m + 3 < Len(t)
      /\ p # NUL => p = t[m + 4]
      /\ p \in Char \cup {NUL}
  <2>1. m + 3 < Len(t) \/ m + 3 = Len(t)
    BY <1>1, <1>3
  <2>2. CASE m + 3 < Len(t)
    BY <1>1, <2>2, BodyOf
  <2>3. CASE m + 3 = Len(t)
    <3>1. p = NUL
      BY <2>3, BodyOf
    <3> QED BY <1>1, <2>3, <3>1
  <2> QED BY <2>1, <2>2, <2>3
<1>5. /\ HasPayload(b) <=> m + 4 < Len(t)
      /\ HasPayload(b) => p # NUL /\ t[m + 5] = ":" /\ m + 5 < Len(t)
  <2>1. ASSUME m + 4 < Len(t) PROVE HasPayload(b)
    <3>1. Body(b, 3) # NUL /\ Body(b, 4) # NUL
      BY <1>1, <2>1, BodyOf
    <3> QED BY <3>1 DEF HasPayload
  <2>2. ASSUME HasPayload(b)
        PROVE  m + 4 < Len(t) /\ p # NUL /\ t[m + 5] = ":" /\ m + 5 < Len(t)
    <3>1. /\ p # NUL /\ Body(b, 4) # NUL
          /\ Body(b, 4) = ":" /\ Body(b, 5) # NUL
      BY <2>2 DEF HasPayload, Parses
    <3>2. m + 3 < Len(t) /\ m + 4 # Len(t)
      BY <1>4, <3>1, BodyOf
    <3>3. m + 4 < Len(t) /\ Body(b, 4) = t[m + 5]
      BY <1>1, <3>2, BodyOf
    <3>4. m + 5 # Len(t)
      BY <3>1, BodyOf
    <3> QED BY <1>1, <3>1, <3>3, <3>4
  <2> QED BY <2>1, <2>2
<1>6. /\ v \in Seq(Char)
      /\ HasPayload(b) => /\ v # << >> /\ Len(v) = Len(t) - (m + 5)
                           /\ \A i \in 1 .. Len(v) : v[i] = t[m + 5 + i]
  <2>1. CASE HasPayload(b)
    <3>1. m + 5 \in m .. Len(t)
      BY <1>1, <1>5, <2>1
    <3>2. /\ v \in Seq(Char) /\ Len(v) = Len(t) - (m + 5)
          /\ \A i \in 1 .. Len(t) - (m + 5) : v[i] = t[m + 5 + i]
      BY <2>1, <3>1, StringOf DEF PayloadText
    <3> HIDE DEF v
    <3>3. v # << >>
      <4>1. Len(v) > 0
        BY <1>1, <1>5, <2>1, <3>2
      <4> QED BY <4>1
    <3> QED BY <3>2, <3>3
  <2>2. CASE ~HasPayload(b)
    BY <2>2 DEF PayloadText
  <2> QED BY <2>1, <2>2
<1>7. ~HasPayload(b) => v = << >>
  BY DEF PayloadText
<1> HIDE DEF v, n, p
<1>8. /\ c \in Seq(Char)
      /\ Len(c) = m + 3 + q + (IF v = << >> THEN 0 ELSE 1 + Len(v))
      /\ \A i \in 1 .. m : c[i] = CommandPrefix[i]
      /\ c[m + 1] = "/" /\ c[m + 2] = n /\ c[m + 3] = "/"
      /\ p # NUL => c[m + 4] = p
      /\ v # << >> => c[m + 4 + q] = ":"
      /\ v # << >> => \A i \in 1 .. Len(v) : c[m + 4 + q + i] = v[i]
  <2>1. n \in Char /\ p \in Char \cup {NUL} /\ v \in Seq(Char)
    BY <1>3, <1>4, <1>6
  <2>2. Spells(CommandText(n, p, v), n, p, v)
    BY <2>1, CommandTextIs, Zenon
  <2> QED BY <2>2 DEF Spells
<1> HIDE DEF c, m
<1>9. Len(c) = Len(t)
  <2>1. CASE HasPayload(b)
    BY <1>1, <1>5, <1>6, <1>8, <2>1
  <2>2. CASE ~HasPayload(b)
    <3>1. v = << >> /\ ~(m + 4 < Len(t))
      BY <1>5, <1>7, <2>2
    <3>2. Len(c) = m + 3 + q
      BY <1>1, <1>8, <3>1
    <3>3. CASE p = NUL
      BY <1>1, <1>3, <1>4, <3>2, <3>3
    <3>4. CASE p # NUL
      BY <1>1, <1>3, <1>4, <3>1, <3>2, <3>4
    <3> QED BY <3>3, <3>4
  <2> QED BY <2>1, <2>2
<1>10. ASSUME NEW i \in 1 .. Len(c) PROVE c[i] = t[i]
  <2>1. CASE i <= m + 3
    <3>1. i \in 1 .. m \/ i = m + 1 \/ i = m + 2 \/ i = m + 3
      BY <1>1, <2>1
    <3> QED BY <1>1, <1>3, <1>8, <3>1
  <2>2. CASE i = m + 4
    <3>1. p # NUL
      BY <1>1, <1>4, <1>9, <2>2
    <3> QED BY <1>4, <1>8, <2>2, <3>1
  <2>3. CASE i = m + 5
    <3>1. HasPayload(b) /\ q = 1 /\ v # << >>
      BY <1>1, <1>5, <1>6, <1>9, <2>3
    <3> QED BY <1>1, <1>5, <1>8, <2>3, <3>1
  <2>4. CASE i > m + 5
    <3>1. HasPayload(b) /\ q = 1 /\ v # << >>
      BY <1>1, <1>5, <1>6, <1>9, <2>4
    <3>2. i - (m + 5) \in 1 .. Len(v) /\ m + 5 + (i - (m + 5)) = i
      BY <1>1, <1>6, <1>9, <2>4, <3>1
    <3>3. c[m + 4 + 1 + (i - (m + 5))] = v[i - (m + 5)]
      BY <1>8, <3>1, <3>2
    <3>4. v[i - (m + 5)] = t[i]
      BY <1>6, <3>1, <3>2
    <3>5. m + 4 + 1 + (i - (m + 5)) = i
      BY <1>1
    <3> QED BY <3>3, <3>4, <3>5
  <2> QED BY <1>1, <2>1, <2>2, <2>3, <2>4
<1>11. t = c
  BY <1>1, <1>8, <1>9, <1>10, SeqEqual
<1>12. n \in ToSet(t) /\ (p # NUL => p \in ToSet(t))
  <2>1. m + 2 \in DOMAIN t /\ (p # NUL => m + 4 \in DOMAIN t)
    BY <1>1, <1>3, <1>4
  <2> QED BY <1>3, <1>4, <2>1 DEF ToSet
<1>13. p = NUL => v = << >>
  BY <1>5, <1>7
<1>14. v # << >> => m + 6 \in DOMAIN t /\ v = SubSeq(t, m + 6, Len(t))
  <2> SUFFICES ASSUME v # << >> PROVE m + 6 \in DOMAIN t /\ v = SubSeq(t, m + 6, Len(t))
    OBVIOUS
  <2>1. HasPayload(b) /\ m + 5 < Len(t)
    BY <1>5, <1>7
  <2>2. /\ SubSeq(t, m + 6, Len(t)) \in Seq(Char)
        /\ Len(SubSeq(t, m + 6, Len(t))) = Len(t) - (m + 5)
        /\ \A i \in 1 .. Len(t) - (m + 5) : SubSeq(t, m + 6, Len(t))[i] = t[m + 5 + i]
    BY <1>1, <2>1
  <2>3. v = SubSeq(t, m + 6, Len(t))
    BY <1>6, <2>1, <2>2, SeqEqual
  <2> QED BY <1>1, <2>1, <2>3
<1>15. v # << >> => \E k \in DOMAIN t : v = SubSeq(t, k, Len(t))
  BY <1>14
<1> QED BY <1>11, <1>12, <1>13, <1>15 DEF c, n, p, v

\* A text in the form of a command has a command's prefix, and parseCommand finds no fault.
LEMMA FormParses ==
  ASSUME NEW t \in Seq(Char), IsCommand(t)
  PROVE  /\ IsPrefix(CommandPrefix, t) /\ ":" \in ToSet(t)
         /\ \A b : HoldsFrom(Len(CommandPrefix), b, t) => Parses(b)
<1> DEFINE m == Len(CommandPrefix)
<1>0. t \in Seq(Char) /\ Len(t) \in Nat /\ m \in Nat /\ m > 0 /\ NUL \notin Char
  BY BodyInBuffer, LineReceiverAssumption
<1>1. PICK n \in Char, p \in Char \cup {NUL}, v \in Seq(Char) :
        t = CommandText(n, p, v) /\ (p = NUL => v = << >>)
  <2>1. \A x \in ToSet(t) : x \in Char
    BY <1>0 DEF ToSet
  <2>2. \A k \in DOMAIN t : SubSeq(t, k, Len(t)) \in Seq(Char)
    BY <1>0
  <2>3. << >> \in Seq(Char)
    OBVIOUS
  <2>4. PICK n \in Char, p \in Char :
          \/ t = CommandText(n, NUL, << >>)
          \/ t = CommandText(n, p, << >>)
          \/ \E k \in DOMAIN t : t = CommandText(n, p, SubSeq(t, k, Len(t)))
    BY <2>1 DEF IsCommand
  <2> QED BY <1>0, <2>2, <2>3, <2>4
<1>2. Spells(t, n, p, v)
  BY <1>1, CommandTextIs
<1> DEFINE q == IF p = NUL THEN 0 ELSE 1
           rest == IF v = << >> THEN 0 ELSE 1 + Len(v)
<1>3. /\ Len(t) >= m + 3
      /\ v = << >> => Len(t) <= m + 4
      /\ \A i \in 1 .. m : t[i] = CommandPrefix[i]
      /\ t[m + 1] = "/" /\ t[m + 2] \in Char /\ t[m + 3] = "/"
  <2>1. rest \in Nat /\ q \in {0, 1} /\ (v = << >> => rest = 0)
    OBVIOUS
  <2>2. Len(t) = m + 3 + q + rest
    BY <1>2 DEF Spells
  <2>3. /\ \A i \in 1 .. m : t[i] = CommandPrefix[i]
        /\ t[m + 1] = "/" /\ t[m + 2] \in Char /\ t[m + 3] = "/"
    BY <1>2 DEF Spells
  <2>4. Len(t) >= m + 3 /\ (v = << >> => Len(t) <= m + 4)
    <3> HIDE DEF m, q, rest
    <3> QED BY <1>0, <2>1, <2>2
  <2> QED BY <2>3, <2>4
<1>4. IsPrefix(CommandPrefix, t)
  <2>1. m <= Len(t)
    BY <1>0, <1>3
  <2> QED BY <1>0, <1>3, <2>1, PrefixIs
<1>5. ASSUME NEW b, HoldsFrom(m, b, t) PROVE Parses(b)
  <2>1. Body(b, 0) = "/" /\ Body(b, 1) # NUL /\ Body(b, 2) = "/"
    <3>1. m + 0 < Len(t) /\ m + 1 < Len(t) /\ m + 2 < Len(t)
      BY <1>0, <1>3
    <3>2. Body(b, 0) = t[m + 1] /\ Body(b, 1) # NUL /\ Body(b, 2) = t[m + 3]
      BY <1>0, <1>5, <3>1, BodyOf
    <3> QED BY <1>3, <3>2
  <2>2. ASSUME HasPayload(b) PROVE Body(b, 4) = ":" /\ Body(b, 5) # NUL
    <3>1. m + 4 < Len(t) /\ Body(b, 4) = t[m + 5]
      <4>1. m + 3 # Len(t) /\ m + 4 # Len(t)
        BY <1>5, <2>2, BodyOf DEF HasPayload
      <4>2. m + 4 < Len(t)
        BY <1>0, <1>3, <4>1
      <4> QED BY <1>0, <1>5, <4>2, BodyOf
    <3>2. v # << >> /\ p # NUL
      <4>1. v # << >>
        BY <1>0, <1>3, <3>1
      <4> QED BY <1>1, <4>1
    <3>3. t[m + 4 + 1] = ":" /\ Len(t) = m + 3 + 1 + (1 + Len(v))
      BY <1>2, <3>2 DEF Spells
    <3>4. Len(v) \in Nat /\ Len(v) # 0
      BY <3>2
    <3>5. m + 5 < Len(t) /\ m + 4 + 1 = m + 5
      BY <1>0, <3>3, <3>4
    <3>6. Body(b, 5) # NUL
      BY <1>5, <3>5, BodyOf
    <3> QED BY <3>1, <3>3, <3>5, <3>6
  <2> QED BY <2>1, <2>2 DEF Parses
<1>6. ":" \in ToSet(t)
  BY <1>0, <1>4, PrefixHasColon
<1> QED BY <1>4, <1>5, <1>6

\* A message that is not a command is recognised by its text alone.
LEMMA MessagesRecognised ==
  ASSUME NEW m \in Messages, MessageText[m] \in Seq(Char)
  PROVE  MessageOf(MessageText[m]) = m
<1> DEFINE t == MessageText[m]
<1>1. ~IsPrefix(CommandPrefix, t)
  BY PrefixHasColon, MessageTextAssumption
<1>2. MessageOf(t) = CHOOSE n \in Messages : MessageText[n] = t
  BY <1>1, Zenon DEF MessageOf
<1>3. \A n \in Messages : MessageText[n] = t => n = m
  BY MessageTextAssumption
<1> QED BY <1>2, <1>3

\* A '\0' in the place of the ':' is taken for one, and nothing else changes.
LEMMA WithColonIs ==
  ASSUME NEW u \in Seq(Byte)
  PROVE  /\ WithColon(u) \in Seq(Byte) /\ Len(WithColon(u)) = Len(u)
         /\ \A i \in 1 .. Len(u) : i # Len(CommandPrefix) => WithColon(u)[i] = u[i]
         /\ IF Len(CommandPrefix) <= Len(u) /\ u[Len(CommandPrefix)] = NUL
            THEN WithColon(u)[Len(CommandPrefix)] = ":"
            ELSE WithColon(u) = u
<1>1. ":" \in Byte /\ Len(CommandPrefix) \in Nat /\ Len(CommandPrefix) > 0
  BY BodyInBuffer, LineReceiverAssumption DEF Byte
<1> QED BY <1>1 DEF WithColon

\* Behind the place of the ':' the buffer that holds a line holds its text as a command.
LEMMA HoldsCommand ==
  ASSUME NEW b, NEW u, Holds(b, u), Len(CommandPrefix) <= Len(AsCommand(u))
  PROVE  HoldsFrom(Len(CommandPrefix), b, AsCommand(u))
<1> DEFINE m == Len(CommandPrefix)
           w == WithColon(u)
           t == AsCommand(u)
<1>1. /\ u \in Seq(Byte) /\ Len(u) < BUFFER_SIZE /\ BUFFER_SIZE \in Nat /\ Len(u) \in Nat
      /\ b = [i \in Cells |-> IF i < Len(u) THEN u[i + 1] ELSE NUL]
  BY BodyInBuffer DEF Holds
<1>2. /\ w \in Seq(Byte) /\ Len(w) = Len(u)
      /\ \A i \in 1 .. Len(u) : i # m => w[i] = u[i]
  BY <1>1, WithColonIs
<1>3. /\ t \in Seq(Char) /\ Len(t) \in 0 .. Len(u)
      /\ \A i \in 1 .. Len(t) : t[i] = w[i]
      /\ Len(t) < Len(u) => w[Len(t) + 1] = NUL
  <2> HIDE DEF w
  <2> QED BY <1>2, TextIs DEF AsCommand, w
<1>4. m \in Nat /\ m > 0 /\ m <= Len(t)
  BY BodyInBuffer
<1> HIDE DEF m, w, t
<1>5. ASSUME NEW i \in Cells, m <= i, i < Len(t) PROVE b[i] = t[i + 1]
  <2>1. i + 1 \in 1 .. Len(t) /\ i + 1 \in 1 .. Len(u) /\ i + 1 # m /\ i < Len(u)
    BY <1>1, <1>3, <1>4, <1>5 DEF Cells
  <2> QED BY <1>1, <1>2, <1>3, <2>1
<1>6. b[Len(t)] = NUL
  <2>1. Len(t) \in Cells
    BY <1>1, <1>3 DEF Cells
  <2>2. CASE Len(t) < Len(u)
    <3>1. Len(t) + 1 \in 1 .. Len(u) /\ Len(t) + 1 # m
      BY <1>1, <1>3, <1>4, <2>2
    <3> QED BY <1>1, <1>2, <1>3, <2>1, <2>2, <3>1
  <2>3. CASE ~(Len(t) < Len(u))
    BY <1>1, <2>1, <2>3
  <2> QED BY <2>2, <2>3
<1>7. HoldsFrom(m, b, t)
  BY <1>1, <1>3, <1>4, <1>5, <1>6 DEF HoldsFrom
<1> QED BY <1>7 DEF m, t

\* The text of a line that has a command's prefix, as a command, is the word CMD or the same
\* as it is without the ':'.
LEMMA CommandsText ==
  ASSUME NEW u \in Seq(Byte)
  PROVE  /\ AsCommand(u) \in Seq(Char)
         /\ IsPrefix(CommandPrefix, AsCommand(u)) =>
              Text(u) = MessageText["CMD"] \/ IsPrefix(CommandPrefix, Text(u))
         /\ IsPrefix(CommandPrefix, Text(u)) => AsCommand(u) = Text(u)
         /\ Text(u) = MessageText["CMD"] /\ Len(CommandPrefix) <= Len(u) =>
              IsPrefix(CommandPrefix, AsCommand(u))
<1> DEFINE m == Len(CommandPrefix)
           w == WithColon(u)
           t == AsCommand(u)
           word == MessageText["CMD"]
<1>0. /\ m \in Nat /\ m > 0 /\ Len(u) \in Nat /\ NUL \notin Char
      /\ word \in Seq(Char) /\ m = Len(word) + 1 /\ CommandPrefix \in Seq(Char)
      /\ \A i \in 1 .. Len(word) : CommandPrefix[i] = word[i]
      /\ CommandPrefix[m] = ":"
  BY BodyInBuffer, LineReceiverAssumption DEF CommandPrefix, Messages
<1>1. /\ w \in Seq(Byte) /\ Len(w) = Len(u)
      /\ \A i \in 1 .. Len(u) : i # m => w[i] = u[i]
      /\ IF m <= Len(u) /\ u[m] = NUL THEN w[m] = ":" ELSE w = u
  BY WithColonIs
<1>2. t = Text(w)
  BY DEF AsCommand
<1> HIDE DEF w, t
<1>3. /\ t \in Seq(Char) /\ Len(t) \in 0 .. Len(u)
      /\ \A i \in 1 .. Len(t) : t[i] = w[i]
      /\ Len(t) < Len(u) => w[Len(t) + 1] = NUL
  BY <1>1, <1>2, TextIs
<1>4. /\ Text(u) \in Seq(Char) /\ Len(Text(u)) \in 0 .. Len(u)
      /\ \A i \in 1 .. Len(Text(u)) : Text(u)[i] = u[i]
      /\ Len(Text(u)) < Len(u) => u[Len(Text(u)) + 1] = NUL
  BY TextIs
<1>5. ASSUME IsPrefix(CommandPrefix, t)
      PROVE  Text(u) = word \/ IsPrefix(CommandPrefix, Text(u))
  <2>1. m <= Len(t) /\ \A i \in 1 .. m : t[i] = CommandPrefix[i]
    BY <1>3, <1>5, PrefixIs
  <2>2. CASE w = u
    BY <1>2, <1>5, <2>2
  <2>3. CASE m <= Len(u) /\ u[m] = NUL
    <3>1. \A i \in 1 .. Len(word) : u[i] = word[i]
      BY <1>0, <1>1, <1>3, <2>1
    <3>2. Len(word) < Len(u) /\ u[Len(word) + 1] = NUL
      BY <1>0, <2>3
    <3> QED BY <1>0, <3>1, <3>2, TextIsOnly
  <2> QED BY <1>1, <2>2, <2>3
<1>6. ASSUME IsPrefix(CommandPrefix, Text(u)) PROVE t = Text(u)
  <2>1. m <= Len(Text(u)) /\ \A i \in 1 .. m : Text(u)[i] = CommandPrefix[i]
    BY <1>4, <1>6, PrefixIs
  <2>2. u[m] \in Char
    BY <1>0, <1>4, <2>1
  <2> QED BY <1>0, <1>1, <1>2, <2>2
<1>7. ASSUME Text(u) = word, m <= Len(u) PROVE IsPrefix(CommandPrefix, t)
  <2>1. u[m] = NUL /\ \A i \in 1 .. Len(word) : u[i] = word[i]
    BY <1>0, <1>4, <1>7
  <2>2. \A i \in 1 .. m : w[i] = CommandPrefix[i] /\ w[i] \in Char
    <3> TAKE i \in 1 .. m
    <3>1. CASE i = m
      BY <1>0, <1>1, <1>7, <2>1, <3>1, LineReceiverAssumption
    <3>2. CASE i # m
      <4>1. i \in 1 .. Len(word) /\ i \in 1 .. Len(u)
        BY <1>0, <1>7, <3>2
      <4> QED BY <1>0, <1>1, <2>1, <3>2, <4>1
    <3> QED BY <3>1, <3>2
  <2>3. m <= Len(t)
    <3> SUFFICES ASSUME ~(m <= Len(t)) PROVE FALSE
      OBVIOUS
    <3>1. Len(t) + 1 \in 1 .. m /\ Len(t) < Len(u)
      BY <1>0, <1>3, <1>7
    <3> QED BY <1>0, <1>3, <2>2, <3>1
  <2>4. \A i \in 1 .. m : t[i] = CommandPrefix[i]
    BY <1>0, <1>3, <2>2, <2>3
  <2> QED BY <1>3, <2>3, <2>4, PrefixIs
<1> QED BY <1>3, <1>5, <1>6, <1>7 DEF m, t

\* What is taken for a command is the word CMD, or has its prefix.
LEMMA CommandsNamed ==
  ASSUME NEW text, MessageOf(text) = "CMD"
  PROVE  text = MessageText["CMD"] \/ IsPrefix(CommandPrefix, text)
<1> SUFFICES ASSUME ~IsPrefix(CommandPrefix, text) PROVE text = MessageText["CMD"]
  OBVIOUS
<1>1. CASE \E m \in Messages : MessageText[m] = text
  <2>1. MessageOf(text) = CHOOSE m \in Messages : MessageText[m] = text
    BY <1>1, Zenon DEF MessageOf
  <2> QED BY <1>1, <2>1
<1>2. CASE ~\E m \in Messages : MessageText[m] = text
  BY <1>2 DEF MessageOf
<1> QED BY <1>1, <1>2

\* The bare word CMD does not parse: behind it the buffer is zero.
LEMMA BareCommand ==
  ASSUME NEW b, NEW u, Holds(b, u), Len(u) < Len(CommandPrefix)
  PROVE  ~Parses(b)
<1>1. /\ Len(CommandPrefix) \in Cells /\ Len(CommandPrefix) \in Nat
      /\ Len(CommandPrefix) + 0 = Len(CommandPrefix) /\ Len(u) \in Nat
  BY BodyInBuffer DEF Holds
<1>2. b[Len(CommandPrefix)] = NUL
  BY <1>1 DEF Holds
<1> QED BY <1>1, <1>2 DEF Parses, Body, NUL

\* A command is what has the form of one.
LEMMA CommandsRecognised ==
  ASSUME NEW b, NEW u, Holds(b, u)
  PROVE  /\ MessageOf(Text(u)) = "CMD" /\ Parses(b) <=> IsCommand(AsCommand(u))
         /\ IsCommand(AsCommand(u)) =>
              /\ IsPrefix(CommandPrefix, AsCommand(u))
              /\ HoldsFrom(Len(CommandPrefix), b, AsCommand(u))
<1> DEFINE t == AsCommand(u)
           m == Len(CommandPrefix)
<1>0. u \in Seq(Byte) /\ t \in Seq(Char) /\ Text(u) \in Seq(Char) /\ Len(u) \in Nat /\ m \in Nat
  BY CommandsText, TextIs, BodyInBuffer DEF Holds
<1>1. ASSUME IsPrefix(CommandPrefix, t) PROVE HoldsFrom(m, b, t)
  <2>1. m <= Len(t)
    BY <1>0, <1>1, PrefixIs
  <2> QED BY <2>1, HoldsCommand
<1>2. ASSUME IsCommand(t) PROVE MessageOf(Text(u)) = "CMD" /\ Parses(b) /\ IsPrefix(CommandPrefix, t)
  <2>1. IsPrefix(CommandPrefix, t)
    BY <1>0, <1>2, FormParses
  <2>2. Parses(b)
    BY <1>0, <1>1, <1>2, <2>1, FormParses
  <2>3. MessageOf(Text(u)) = "CMD"
    <3>1. CASE Text(u) = MessageText["CMD"]
      BY <1>0, <3>1, MessagesRecognised DEF Messages
    <3>2. CASE IsPrefix(CommandPrefix, Text(u))
      <4>1. ":" \in ToSet(Text(u))
        BY <1>0, <3>2, PrefixHasColon
      <4>2. ~\E n \in Messages : MessageText[n] = Text(u)
        BY <4>1, MessageTextAssumption
      <4> QED BY <3>2, <4>2 DEF MessageOf
    <3> QED BY <1>0, <2>1, <3>1, <3>2, CommandsText
  <2> QED BY <2>1, <2>2, <2>3
<1>3. ASSUME MessageOf(Text(u)) = "CMD", Parses(b) PROVE IsCommand(t)
  <2>1. Text(u) = MessageText["CMD"] \/ IsPrefix(CommandPrefix, Text(u))
    BY <1>3, CommandsNamed
  <2>2. IsPrefix(CommandPrefix, t)
    <3>1. m <= Len(u)
      BY <1>0, <1>3, BareCommand
    <3> QED BY <1>0, <2>1, <3>1, CommandsText
  <2>3. /\ t = CommandText(Body(b, 1), Body(b, 3), PayloadText(b))
        /\ Body(b, 1) \in ToSet(t)
        /\ Body(b, 3) # NUL => Body(b, 3) \in ToSet(t)
        /\ Body(b, 3) = NUL => PayloadText(b) = << >>
        /\ PayloadText(b) # << >> =>
             \E k \in DOMAIN t : PayloadText(b) = SubSeq(t, k, Len(t))
    BY <1>1, <1>3, <2>2, ParsedIsTheText
  <2> HIDE DEF t
  <2>4. CASE Body(b, 3) = NUL
    BY <2>3, <2>4 DEF IsCommand
  <2>5. CASE Body(b, 3) # NUL /\ PayloadText(b) = << >>
    BY <2>3, <2>5 DEF IsCommand
  <2>6. CASE Body(b, 3) # NUL /\ PayloadText(b) # << >>
    BY <2>3, <2>6 DEF IsCommand
  <2> QED BY <2>4, <2>5, <2>6
<1> QED BY <1>1, <1>2, <1>3

\* Any other text is a command's, well-formed or not, or nothing's.
LEMMA OthersRecognised ==
  ASSUME NEW t, ~\E m \in Messages : MessageText[m] = t
  PROVE  MessageOf(t) \in {"CMD", "OTHER"}
BY DEF MessageOf

-----------------------------------------------------------------------------
(* The pending command *)

\* Before a line ends its text is in the buffer, and the '\0' that is written behind it was
\* already there.
LEMMA BufferHolds ==
  ASSUME BufferInv, command = NotParsed
  PROVE  /\ Holds(buffer, Kept(arrived))
         /\ [buffer EXCEPT ![index] = NUL] = buffer
         /\ index = Len(Kept(arrived))
<1>1. /\ arrived \in Seq(Byte) /\ index \in Cells /\ index = Len(Kept(arrived))
      /\ buffer = [i \in Cells |-> IF i < index THEN Kept(arrived)[i + 1] ELSE NUL]
  BY DEF BufferInv, TypeOK, LineInBuffer
<1>2. /\ Len(Kept(arrived)) = Len(arrived) % BUFFER_SIZE
      /\ Len(arrived) % BUFFER_SIZE \in 0 .. BUFFER_SIZE - 1
  BY <1>1, KeptIs
<1>3. Kept(arrived) \in Seq(Byte)
  <2> DEFINE n == Len(arrived)
             r == n % BUFFER_SIZE
  <2>1. n \in Nat /\ r \in Nat /\ r <= n
    <3>1. n \in Nat /\ BUFFER_SIZE \in Nat \ {0}
      BY <1>1, BodyInBuffer
    <3> HIDE DEF n
    <3> QED BY <3>1
  <2>2. Kept(arrived) = SubSeq(arrived, n - r + 1, n)
    BY DEF Kept
  <2> HIDE DEF r
  <2> QED BY <1>1, <2>1, <2>2
<1>4. [buffer EXCEPT ![index] = NUL] = buffer
  <2>1. index \in Nat /\ ~(index < index)
    BY <1>1 DEF Cells
  <2> QED BY <1>1, <2>1
<1> QED BY <1>1, <1>2, <1>3, <1>4, BodyInBuffer DEF Holds

\* The buffer of a line that ends, and what is made of it.
LEMMA LineEnds ==
  ASSUME BufferInv, EndOfLine
  PROVE  LET bytes == Kept(arrived)
         IN  /\ command = NotParsed /\ phEvent = "NONE"
             /\ Holds(buffer, bytes)
             /\ IsCommand(AsCommand(bytes)) =>
                  /\ command' = Parsed(buffer) /\ line' = arrived /\ buffer' = buffer
                  /\ Parses(buffer) /\ UNCHANGED phEvent
             /\ ~IsCommand(AsCommand(bytes)) =>
                  /\ phEvent' = EmitEvent(phEvent, Lines!EventOfLine(
                       [message |-> MessageOf(Text(bytes)), command |-> Lines!NoCommand]))
                  /\ UNCHANGED <<command, line>>
<1> DEFINE text == Text(Kept(arrived))
<1>1. command = NotParsed /\ phEvent = "NONE"
  BY DEF EndOfLine, Reading
<1>2. Holds(buffer, Kept(arrived)) /\ [buffer EXCEPT ![index] = NUL] = buffer
  BY <1>1, BufferHolds
<1>3. StringAt(buffer, 0) = text
  BY <1>2, HoldsText, WholeString
<1>4. MessageOf(text) = "CMD" /\ Parses(buffer) <=> IsCommand(AsCommand(Kept(arrived)))
  BY <1>2, CommandsRecognised
<1> HIDE DEF text
<1>5. IF MessageOf(text) = "CMD" /\ Parses(buffer)
      THEN /\ command' = Parsed(buffer) /\ line' = arrived
           /\ buffer' = buffer /\ UNCHANGED <<index, phEvent>>
      ELSE /\ phEvent' = EmitEvent(phEvent, Lines!EventOfLine(
                [message |-> MessageOf(text), command |-> Lines!NoCommand]))
           /\ ClearBuffer /\ UNCHANGED <<command, line>>
  BY <1>2, <1>3, Zenon DEF EndOfLine
<1> QED BY <1>1, <1>2, <1>4, <1>5 DEF text

\* A line that is taken for a command makes a command that stands for it.
LEMMA TakenIsTheLine ==
  ASSUME BufferInv, EndOfLine, command' # NotParsed
  PROVE  CommandIsTheLine'
<1> DEFINE bytes == Kept(arrived)
           text == AsCommand(bytes)
<1>1. /\ Holds(buffer, bytes) /\ IsCommand(text) /\ Parses(buffer)
      /\ command' = Parsed(buffer) /\ line' = arrived /\ buffer' = buffer
  BY LineEnds
<1>2. IsPrefix(CommandPrefix, text) /\ HoldsFrom(Len(CommandPrefix), buffer, text)
  BY <1>1, CommandsRecognised
<1>3. text = CommandText(Body(buffer, 1), Body(buffer, 3), PayloadText(buffer))
  <2> HIDE DEF text
  <2> QED BY <1>1, <1>2, ParsedIsTheText
<1>4. Payload(command)' = PayloadText(buffer)
  <2>1. Len(CommandPrefix) + 5 # 0
    BY BodyInBuffer
  <2> QED BY <1>1, <2>1 DEF Payload, PayloadText, Parsed
<1> QED BY <1>1, <1>3, <1>4 DEF CommandIsTheLine, Parsed

\* While a command is pending its payload, which lies in the receive buffer, stays what
\* was received: the command is the text of its line, up to the first '\0' that arrived in
\* it, until it is released.
THEOREM PendingIsTheLine == Spec => []CommandIsTheLine
<1>1. Init => BufferInv /\ CommandIsTheLine
  BY InitialBuffer DEF Init, CommandIsTheLine
<1>2. BufferInv /\ CommandIsTheLine /\ [Next]_vars => BufferInv' /\ CommandIsTheLine'
  <2> SUFFICES ASSUME BufferInv, CommandIsTheLine, [Next]_vars PROVE CommandIsTheLine'
    BY BufferStep
  <2>1. CASE UNCHANGED <<buffer, command, line>>
    BY <2>1 DEF CommandIsTheLine, Payload, StringAt
  <2>2. CASE command' = NotParsed
    BY <2>2 DEF CommandIsTheLine
  <2>3. CASE EndOfLine
    BY <2>2, <2>3, TakenIsTheLine
  <2>4. ASSUME NEW c \in Byte, Store(c) \/ Overflow(c) PROVE command' = NotParsed
    BY <2>4 DEF Store, Overflow, Character, Reading
  <2> QED
    BY <2>1, <2>2, <2>3, <2>4
    DEF Next, CarriageReturn, EmptyLine, GetEvent, ReleaseCommand, PowerCycle, vars
<1> QED BY <1>1, <1>2, PTL DEF Spec

\* Whatever bytes arrive, '\0' among them: the device takes for a command every line whose
\* text has the form of one and no other; the text of a message raises its own event; and a
\* line that is cut off or unknown raises none.
THEOREM LinesAreUnderstood == Spec => LinesUnderstood
<1> DEFINE bytes == Kept(arrived)
           text == Text(bytes)
           form == AsCommand(bytes)
           named == {m \in Messages : MessageText[m] = text}
           Understood ==
             arrived # << >> /\ arrived' = << >> /\ (EndOfLine \/ EmptyLine) =>
               /\ command' # NotParsed <=> IsCommand(form)
               /\ \A m \in named \ {"CMD"} : phEvent' = Lines!EventOf(m)
               /\ named = {} => phEvent' \in {"NONE", "CMD_PARSE_ERROR"}
<1>1. ASSUME BufferInv, EndOfLine
      PROVE  /\ command' # NotParsed <=> IsCommand(form)
             /\ \A m \in named \ {"CMD"} : phEvent' = Lines!EventOf(m)
             /\ named = {} => phEvent' \in {"NONE", "CMD_PARSE_ERROR"}
  <2>1. /\ command = NotParsed /\ phEvent = "NONE" /\ Holds(buffer, bytes)
        /\ IsCommand(form) =>
             /\ command' = Parsed(buffer) /\ Parses(buffer) /\ UNCHANGED phEvent
        /\ ~IsCommand(form) =>
             /\ phEvent' = EmitEvent(phEvent, Lines!EventOfLine(
                             [message |-> MessageOf(text), command |-> Lines!NoCommand]))
             /\ UNCHANGED <<command, line>>
    BY <1>1, LineEnds
  <2>2. buffer \in [Cells -> Byte] /\ text \in Seq(Char) /\ form \in Seq(Char)
    BY <1>1, <2>1, TextIs, CommandsText DEF BufferInv, TypeOK, Holds
  <2>7. IsCommand(form) => MessageOf(text) = "CMD"
    BY <2>1, CommandsRecognised
  <2> HIDE DEF bytes, text, form
  <2>3. command' # NotParsed <=> IsCommand(form)
    BY <2>1, <2>2, ParsedTyped
  <2>4. ~IsCommand(form) =>
          phEvent' = IF MessageOf(text) = "CMD" THEN "CMD_PARSE_ERROR"
                     ELSE Lines!EventOf(MessageOf(text))
    BY <2>1 DEF EmitEvent, HasEvent, Lines!EventOfLine
  <2>5. ASSUME NEW m \in named \ {"CMD"} PROVE phEvent' = Lines!EventOf(m)
    <3>1. m \in Messages /\ m # "CMD" /\ MessageText[m] = text
      OBVIOUS
    <3>2. MessageOf(text) = m
      BY <2>2, <3>1, MessagesRecognised
    <3>3. ~IsCommand(form)
      BY <2>7, <3>1, <3>2
    <3> QED BY <2>4, <3>1, <3>2, <3>3
  <2>6. ASSUME named = {} PROVE phEvent' \in {"NONE", "CMD_PARSE_ERROR"}
    <3>1. ~\E m \in Messages : MessageText[m] = text
      BY <2>6
    <3>2. MessageOf(text) \in {"CMD", "OTHER"}
      BY <3>1, OthersRecognised, Zenon
    <3>3. Lines!EventOf("OTHER") = "NONE"
      BY DEF Lines!EventOf
    <3> QED BY <2>1, <2>4, <3>2, <3>3
  <2> QED BY <2>3, <2>5, <2>6
<1>2. ASSUME BufferInv, EmptyLine
      PROVE  /\ command' # NotParsed <=> IsCommand(form)
             /\ \A m \in named \ {"CMD"} : phEvent' = Lines!EventOf(m)
             /\ named = {} => phEvent' \in {"NONE", "CMD_PARSE_ERROR"}
  <2>1. command = NotParsed /\ index = 0 /\ UNCHANGED <<command, phEvent>> /\ phEvent = "NONE"
    BY <1>2 DEF EmptyLine, Reading
  <2>2. Holds(buffer, bytes) /\ Len(bytes) = 0
    BY <1>2, <2>1, BufferHolds
  <2> HIDE DEF bytes
  <2>3. bytes \in Seq(Byte) /\ WithColon(bytes) = bytes /\ text = << >>
    <3>1. bytes \in Seq(Byte)
      BY <2>2 DEF Holds
    <3>2. ~(Len(CommandPrefix) <= Len(bytes))
      BY <2>2, BodyInBuffer
    <3>3. text \in Seq(Char) /\ Len(text) = 0
      <4>1. text \in Seq(Char) /\ Len(text) \in 0 .. Len(bytes)
        BY <3>1, TextIs
      <4> HIDE DEF text
      <4> QED BY <2>2, <4>1
    <3>4. WithColon(bytes) = bytes
      BY <3>2 DEF WithColon
    <3> HIDE DEF text
    <3> QED BY <3>1, <3>3, <3>4
  <2>4. ~IsCommand(form)
    <3>1. form = << >>
      BY <2>3 DEF AsCommand
    <3>2. << >> \in Seq(Char) /\ ":" \notin ToSet(<< >>)
      BY DEF ToSet
    <3> QED BY <3>1, <3>2, FormParses
  <2>5. named = {}
    BY <2>3, MessageTextAssumption
  <2> QED BY <2>1, <2>4, <2>5
<1>3. BufferInv /\ [Next]_vars => [Understood]_vars
  <2> HIDE DEF bytes, text, form, named
  <2> QED BY <1>1, <1>2
<1> QED BY <1>3, BufferInvariant, PTL DEF Spec, LinesUnderstood

===============================================================================
