--------------------------- MODULE NodeController ---------------------------
(***************************************************************************)
(* NodeController and the Nodes it owns: LedNode, the ButtonNode of        *)
(* examples/BasicButton, and "sensor", an application's INode that keeps   *)
(* an event until it is polled.  A Node is named by its instance; the      *)
(* class Kind[n] decides what it does and the id commands address.         *)
(***************************************************************************)
EXTENDS Naturals, Sequences

CONSTANTS
  Node,          \* the INode instances of the application
  Kind,          \* [Node -> Kinds]
  MAX_NODES      \* capacity of m_nodes

VARIABLES
  registered,    \* m_nodes[0 .. m_nodeCount - 1]
  nextPoll,      \* m_nextPollIndex
  node           \* the members of each Node, and its pin

Kinds == {"led", "button", "sensor"}

\* begun: begin() has run, so pinMode() has been called for the pin.  The pin of an input
\* is its level after the inversion that m_pullDown asks for.
NodeState == [status : BOOLEAN, pending : BOOLEAN, begun : BOOLEAN, pin : BOOLEAN]

TypeOK ==
  /\ registered \in Seq(Node)
  /\ Len(registered) <= MAX_NODES
  /\ nextPoll \in 0 .. MAX_NODES - 1
  /\ node \in [Node -> NodeState]

Registered(n) == \E i \in DOMAIN registered : registered[i] = n

-----------------------------------------------------------------------------
(* Commands: [nodeId, propertyId, payload] of include/NodeControl/Commands.h, *)
(* the characters reduced to those the Nodes tell apart.  propertyId "none"   *)
(* is '\0', payload "none" is hasPayload = false.                             *)

Command ==
  [nodeId : Kinds \cup {"unknown"}, propertyId : {"s", "other", "none"},
   payload : {"none", "0", "1", "other"}]

ErrorResult(error) == [type |-> "ERROR", detail |-> error]
Response(b) == [type |-> "RESPONSE", detail |-> IF b THEN "1" ELSE "0"]
Ack == [type |-> "ACK", detail |-> "NONE"]

CommandErrors ==
  {"INVALID_STATE", "INVALID_PAYLOAD", "INVALID_FORMAT", "NODE_NOT_FOUND",
   "PROPERTY_NOT_FOUND", "PROPERTY_NOT_SETTABLE", "INTERNAL_ERROR"}

CommandResult ==
  {Ack} \cup {Response(b) : b \in BOOLEAN} \cup {ErrorResult(e) : e \in CommandErrors}

\* LedNode::handleCommand, ButtonNode::handleCommand: the answer ...
NodeResult(n, c) ==
  CASE c.propertyId # "s"                              -> ErrorResult("PROPERTY_NOT_FOUND")
    [] c.propertyId = "s" /\ c.payload = "none"        -> Response(node[n].status)
    [] c.propertyId = "s" /\ c.payload \in {"0", "1"}
         /\ Kind[n] = "led"                            -> Ack
    [] OTHER                                           -> ErrorResult("INVALID_PAYLOAD")

\* ... and whether it sets the Node.
Sets(n, c) == Kind[n] = "led" /\ c.propertyId = "s" /\ c.payload \in {"0", "1"}

\* The positions of the Nodes with the id of the command; the first one gets it.
Addressed(c) == {i \in DOMAIN registered : Kind[registered[i]] = c.nodeId}

Addressee(c) ==
  registered[CHOOSE i \in Addressed(c) : \A j \in Addressed(c) : i <= j]

ResultOf(c) ==
  CASE Addressed(c) = {}                               -> ErrorResult("NODE_NOT_FOUND")
    [] Addressed(c) # {} /\ c.propertyId = "none"      -> ErrorResult("INVALID_FORMAT")
    [] OTHER                                           -> NodeResult(Addressee(c), c)

-----------------------------------------------------------------------------

Init ==
  /\ registered = << >>
  /\ nextPoll = 0
  /\ node \in [Node -> [status : {FALSE}, pending : {FALSE}, begun : {FALSE}, pin : BOOLEAN]]

\* The capacity is not looked at.
AddNode_Unchecked(n) ==
  /\ registered' = Append(registered, n)
  /\ UNCHANGED <<nextPoll, node>>

\* A Node beyond the capacity is dropped without a word.
AddNode(n) ==
  /\ registered' = IF Len(registered) < MAX_NODES THEN Append(registered, n) ELSE registered
  /\ UNCHANGED <<nextPoll, node>>

\* Only the first Node is begun.
Begin_First ==
  /\ node' = [n \in Node |->
       IF registered # << >> /\ registered[1] = n
       THEN [node[n] EXCEPT !.begun = TRUE, !.pending = FALSE] ELSE node[n]]
  /\ UNCHANGED <<registered, nextPoll>>

\* begin() reaches the Nodes registered so far.  LedNode::begin clears m_status,
\* ButtonNode::begin clears m_eventPending.
Begin ==
  /\ node' = [n \in Node |->
       IF Registered(n)
       THEN [node[n] EXCEPT !.begun = TRUE, !.pending = FALSE,
                            !.status = IF Kind[n] = "led" THEN FALSE ELSE @]
       ELSE node[n]]
  /\ UNCHANGED <<registered, nextPoll>>

\* update() of one Node.  A LedNode drives its pin; a ButtonNode samples it and
\* keeps an event only if this very sample differs from the one before; a sensor
\* has an event when its input is high, and keeps one it has.
Updated(n) ==
  CASE Kind[n] = "led"    -> [node[n] EXCEPT !.pin = node[n].status]
    [] Kind[n] = "button" -> [node[n] EXCEPT !.status = node[n].pin,
                                             !.pending = node[n].pin # node[n].status]
    [] Kind[n] = "sensor" -> [node[n] EXCEPT !.pending = node[n].pending \/ node[n].pin]

Update ==
  /\ node' = [n \in Node |-> IF Registered(n) THEN Updated(n) ELSE node[n]]
  /\ UNCHANGED <<registered, nextPoll>>

\* The Node is set also when the device only has to read it.
HandleCommand_GetClears(c) ==
  /\ node' = IF Addressed(c) # {} /\ Kind[Addressee(c)] = "led" /\ c.propertyId = "s"
             THEN [node EXCEPT ![Addressee(c)].status = (c.payload = "1")] ELSE node
  /\ UNCHANGED <<registered, nextPoll>>

HandleCommand(c) ==
  /\ node' = IF Addressed(c) # {} /\ Sets(Addressee(c), c)
             THEN [node EXCEPT ![Addressee(c)].status = (c.payload = "1")] ELSE node
  /\ UNCHANGED <<registered, nextPoll>>

\* pollEvent: the offsets from m_nextPollIndex at which a Node has an event.
Position(o) == (nextPoll + o) % Len(registered)
Ready == {o \in 0 .. Len(registered) - 1 : node[registered[Position(o) + 1]].pending}

\* The Node at offset o is the first to have an event, and gives it up.
Poll(o) ==
  /\ \A p \in Ready : o <= p
  /\ node' = [node EXCEPT ![registered[Position(o) + 1]].pending = FALSE]
  /\ UNCHANGED registered

\* The next round starts at the first Node again.
PollEvent_FromStart == \E o \in Ready : Poll(o) /\ nextPoll' = 0

\* One event per call; the next round starts after the Node that had it.
PollEvent ==
  \E o \in Ready : Poll(o) /\ nextPoll' = (Position(o) + 1) % Len(registered)

\* The input of a Node changes (external).
PinChange(n) ==
  /\ Kind[n] # "led"
  /\ node' = [node EXCEPT ![n].pin = ~@]
  /\ UNCHANGED <<registered, nextPoll>>

=============================================================================
