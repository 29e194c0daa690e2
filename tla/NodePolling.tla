----------------------------- MODULE NodePolling ----------------------------
(***************************************************************************)
(* NodeController under the calls the device makes of it: Nodes are added, *)
(* begun, and then updated and polled in turn, one event a pass.  This is  *)
(* the part of Orquestrator that touches the Nodes, without the rest, so   *)
(* that more Nodes than a device instance can afford are checked.          *)
(***************************************************************************)
EXTENDS NodeController

ASSUME NodePollingAssumption == MAX_NODES \in Nat \ {0} /\ Kind \in [Node -> Kinds]

VARIABLES
  turn,          \* "setup", or what the loop does next: "update", "poll"
  added,         \* the Nodes addNode has been called for
  bypassed       \* history: [Node -> polls given to others while an event waited]

pollVars == <<registered, nextPoll, node, turn, added, bypassed>>

NodePollingTypeOK ==
  /\ TypeOK
  /\ turn \in {"setup", "update", "poll"}
  /\ added \subseteq Node
  /\ bypassed \in [Node -> Nat]

PollInit ==
  /\ Init
  /\ turn = "setup" /\ added = {} /\ bypassed = [n \in Node |-> 0]

\* setup() adds Nodes in any order, each of them once.
Add(n) ==
  /\ turn = "setup" /\ n \notin added
  /\ AddNode(n)
  /\ added' = added \cup {n}
  /\ UNCHANGED <<turn, bypassed>>

StartLoop ==
  /\ turn = "setup" /\ turn' = "update"
  /\ Begin
  /\ UNCHANGED <<added, bypassed>>

UpdateNodes ==
  /\ turn = "update" /\ turn' = "poll"
  /\ Update
  /\ bypassed' = [n \in Node |-> IF node'[n].pending THEN bypassed[n] ELSE 0]
  /\ UNCHANGED added

PollNodes ==
  /\ turn = "poll" /\ turn' = "update"
  /\ PollEvent
  /\ bypassed' = [n \in Node |-> IF node'[n].pending THEN bypassed[n] + 1 ELSE 0]
  /\ UNCHANGED added

\* There is no event, or the device is in a state in which it does not poll.
NotPolled ==
  /\ turn = "poll" /\ turn' = "update"
  /\ UNCHANGED <<registered, nextPoll, node, added, bypassed>>

Input(n) == PinChange(n) /\ UNCHANGED <<turn, added, bypassed>>

PollNext ==
  \/ StartLoop \/ UpdateNodes \/ PollNodes \/ NotPolled
  \/ \E n \in Node : Add(n) \/ Input(n)

PollSpec == PollInit /\ [][PollNext]_pollVars

-----------------------------------------------------------------------------

\* No Node starves: while its event waits, at most the other registered Nodes get a
\* poll before it does, however busy they are and wherever the last round stopped.
RoundRobin == \A n \in Node : node[n].pending => bypassed[n] < Len(registered)

=============================================================================
