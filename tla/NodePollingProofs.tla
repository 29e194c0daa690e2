------------------------- MODULE NodePollingProofs --------------------------
(***************************************************************************)
(* Proofs about NodePolling, for any number and classes of Nodes and any   *)
(* capacity: the types, and that no Node starves.                          *)
(***************************************************************************)
EXTENDS NodePolling, TLAPS

\* Up to twice the modulus, a remainder is a subtraction.
LEMMA Remainder ==
  ASSUME NEW n \in Nat \ {0}, NEW a \in 0 .. n - 1, NEW b \in 0 .. n
  PROVE  (a + b) % n = IF a + b < n THEN a + b ELSE a + b - n
<1> DEFINE s == a + b
<1>1. CASE s < n
  BY <1>1
<1>2. CASE s >= n
  <2>1. s - n \in 0 .. n - 1 /\ s = n * 1 + (s - n)
    BY <1>2
  <2> QED BY <1>2, <2>1
<1> QED BY <1>1, <1>2

-----------------------------------------------------------------------------
(* The inductive invariant: an event that waits is at an offset of the round, *)
(* and that offset and the polls given to others stay below the number of     *)
(* Nodes together.                                                            *)

Index == nextPoll = 0 \/ nextPoll < Len(registered)

QuietSetup == turn = "setup" => \A n \in Node : ~node[n].pending

Waiting ==
  \A n \in Node :
    IF node[n].pending
    THEN \E o \in 0 .. Len(registered) - 1 :
           registered[Position(o) + 1] = n /\ bypassed[n] + o < Len(registered)
    ELSE bypassed[n] = 0

PollInv == NodePollingTypeOK /\ Index /\ QuietSetup /\ Waiting

\* Every position of the array is at some offset of the round.
LEMMA EveryPositionHasOffset ==
  ASSUME TypeOK, Index, NEW i \in DOMAIN registered
  PROVE  \E o \in 0 .. Len(registered) - 1 : Position(o) + 1 = i
<1>1. Len(registered) \in Nat \ {0} /\ i \in 1 .. Len(registered)
      /\ nextPoll \in 0 .. Len(registered) - 1
  BY DEF TypeOK, Index
<1>2. CASE i - 1 >= nextPoll
  <2> DEFINE o == i - 1 - nextPoll
  <2>1. o \in 0 .. Len(registered) - 1 /\ nextPoll + o = i - 1
    BY <1>1, <1>2
  <2>2. i - 1 \in 0 .. Len(registered) - 1
    BY <1>1
  <2>3. (i - 1) % Len(registered) = i - 1
    BY <1>1, <2>2
  <2>4. Position(o) = i - 1
    BY <2>1, <2>3 DEF Position
  <2> QED BY <1>1, <2>1, <2>4
<1>3. CASE i - 1 < nextPoll
  <2> DEFINE o == i - 1 - nextPoll + Len(registered)
  <2>1. o \in 0 .. Len(registered) - 1 /\ nextPoll + o = i - 1 + Len(registered)
    BY <1>1, <1>3
  <2>2. i - 1 \in 0 .. Len(registered) - 1 /\ Len(registered) \in 0 .. Len(registered)
    BY <1>1
  <2>3. ((i - 1) + Len(registered)) % Len(registered)
          = IF (i - 1) + Len(registered) < Len(registered) THEN (i - 1) + Len(registered)
            ELSE (i - 1) + Len(registered) - Len(registered)
    BY <1>1, <2>2, Remainder, Zenon
  <2>4. Position(o) = i - 1
    BY <1>1, <2>1, <2>3 DEF Position
  <2> HIDE DEF o
  <2> QED BY <1>1, <2>1, <2>4
<1> QED BY <1>1, <1>2, <1>3

\* What update leaves pending is at a position of the array.
LEMMA UpdateKeepsWaiting ==
  ASSUME PollInv, UpdateNodes
  PROVE  Waiting'
<1>0. /\ TypeOK /\ node \in [Node -> NodeState] /\ bypassed \in [Node -> Nat]
      /\ Len(registered) \in Nat
  BY DEF PollInv, NodePollingTypeOK, TypeOK
<1>1. /\ node' = [n \in Node |-> IF Registered(n) THEN Updated(n) ELSE node[n]]
      /\ bypassed' = [n \in Node |-> IF node'[n].pending THEN bypassed[n] ELSE 0]
      /\ UNCHANGED <<registered, nextPoll>>
  BY DEF UpdateNodes, Update
<1> SUFFICES ASSUME NEW n \in Node, node'[n].pending
    PROVE  \E o \in 0 .. Len(registered) - 1 :
             registered[Position(o) + 1] = n /\ bypassed[n] + o < Len(registered)
  BY <1>0, <1>1 DEF Waiting, Position
<1>2. CASE node[n].pending
  BY <1>2 DEF PollInv, Waiting
<1>3. CASE ~node[n].pending
  <2>1. Registered(n) /\ bypassed[n] = 0
    BY <1>1, <1>3 DEF PollInv, Waiting
  <2>2. PICK i \in DOMAIN registered : registered[i] = n
    BY <2>1 DEF Registered
  <2>3. PICK o \in 0 .. Len(registered) - 1 : Position(o) + 1 = i
    BY <1>0, <2>2, EveryPositionHasOffset DEF PollInv
  <2> QED BY <1>0, <2>1, <2>2, <2>3
<1> QED BY <1>2, <1>3

\* A poll at offset o begins the next round at the offset after it: an event that waits at
\* a later offset k waits at k - o - 1 from there.
LEMMA OffsetAfterPoll ==
  ASSUME NEW L \in Nat \ {0}, NEW p \in 0 .. L - 1, NEW o \in 0 .. L - 1,
         NEW k \in 0 .. L - 1, o < k
  PROVE  (((((p + o) % L) + 1) % L) + (k - o - 1)) % L = (p + k) % L
<1>0. o \in 0 .. L /\ k \in 0 .. L /\ 1 \in 0 .. L /\ k - o - 1 \in 0 .. L
  OBVIOUS
<1>1. (p + o) % L = IF p + o < L THEN p + o ELSE p + o - L
  BY <1>0, Remainder, Zenon
<1>2. (p + k) % L = IF p + k < L THEN p + k ELSE p + k - L
  BY <1>0, Remainder, Zenon
<1> DEFINE q == (p + o) % L
           r == (q + 1) % L
           d == k - o - 1
<1>3. q \in 0 .. L - 1
  BY <1>1
<1>4. r = IF q + 1 < L THEN q + 1 ELSE q + 1 - L
  <2> HIDE DEF q
  <2> QED BY <1>0, <1>3, Remainder, Zenon
<1>5. r \in 0 .. L - 1
  BY <1>3, <1>4
<1>6. d \in 0 .. L
  BY <1>0
<1>7. (r + d) % L = IF r + d < L THEN r + d ELSE r + d - L
  <2> HIDE DEF r, d
  <2> QED BY <1>5, <1>6, Remainder, Zenon
<1> HIDE DEF q, r
<1>8. (r + d) % L = (p + k) % L
  <2>1. q = IF p + o < L THEN p + o ELSE p + o - L
    BY <1>1 DEF q
  <2> QED BY <2>1, <1>2, <1>3, <1>4, <1>5, <1>7
<1> QED BY <1>8 DEF q, r, d

\* A poll that passes an event over brings its turn nearer.
LEMMA PollKeepsWaiting ==
  ASSUME PollInv, PollNodes
  PROVE  Waiting' /\ Index'
<1>1. PICK o \in Ready : Poll(o) /\ nextPoll' = (Position(o) + 1) % Len(registered)
  BY DEF PollNodes, PollEvent
<1> DEFINE L == Len(registered)
           chosen == registered[Position(o) + 1]
<1>2. /\ node \in [Node -> NodeState] /\ bypassed \in [Node -> Nat] /\ L \in Nat \ {0}
      /\ o \in 0 .. L - 1 /\ nextPoll \in 0 .. L - 1
  BY DEF PollInv, NodePollingTypeOK, TypeOK, Ready, Index
<1>3. /\ node' = [node EXCEPT ![chosen].pending = FALSE]
      /\ bypassed' = [n \in Node |-> IF node'[n].pending THEN bypassed[n] + 1 ELSE 0]
      /\ UNCHANGED registered
  BY <1>1 DEF Poll, PollNodes
<1>4. Position(o) \in Nat /\ nextPoll' \in 0 .. L - 1
  <2>1. Position(o) = IF nextPoll + o < L THEN nextPoll + o ELSE nextPoll + o - L
    <3>1. o \in 0 .. L
      BY <1>2
    <3> HIDE DEF L
    <3>2. (nextPoll + o) % L = IF nextPoll + o < L THEN nextPoll + o ELSE nextPoll + o - L
      BY <1>2, <3>1, Remainder, Zenon
    <3> QED BY <3>2 DEF Position, L
  <2>2. Position(o) \in 0 .. L - 1 /\ 1 \in 0 .. L
    BY <1>2, <2>1
  <2>3. nextPoll' = IF Position(o) + 1 < L THEN Position(o) + 1 ELSE Position(o) + 1 - L
    BY <1>1, <1>2, <2>2, Remainder, Zenon
  <2> QED BY <1>2, <2>2, <2>3
<1>5. Index'
  BY <1>3, <1>4 DEF Index
<1>6. ASSUME NEW n \in Node, node'[n].pending
      PROVE  \E k \in 0 .. L - 1 :
               registered[((nextPoll' + k) % L) + 1] = n /\ bypassed'[n] + k < L
  <2>1. node[n].pending /\ n # chosen
    BY <1>2, <1>3, <1>6 DEF NodeState
  <2>2. PICK k \in 0 .. L - 1 : registered[Position(k) + 1] = n /\ bypassed[n] + k < L
    BY <2>1 DEF PollInv, Waiting
  <2>3. o < k
    <3>1. k \in Ready
      BY <2>1, <2>2 DEF Ready
    <3>2. o <= k /\ o # k
      BY <1>1, <2>1, <2>2, <3>1 DEF Poll
    <3> QED BY <1>2, <3>2
  <2>4. (nextPoll' + (k - o - 1)) % L = Position(k)
    BY <1>1, <1>2, <2>3, OffsetAfterPoll DEF Position
  <2>5. k - o - 1 \in 0 .. L - 1 /\ bypassed'[n] + (k - o - 1) < L
    BY <1>2, <1>3, <1>6, <2>2, <2>3
  <2> QED BY <2>2, <2>4, <2>5
<1>7. Waiting'
  BY <1>2, <1>3, <1>6 DEF Waiting, Position
<1> QED BY <1>5, <1>7

-----------------------------------------------------------------------------
(* The invariant is inductive. *)

\* Every variable keeps its type.
LEMMA PollTypeStep == NodePollingTypeOK /\ [PollNext]_pollVars => NodePollingTypeOK'
<1> SUFFICES ASSUME NodePollingTypeOK, [PollNext]_pollVars PROVE NodePollingTypeOK'
  OBVIOUS
<1>0. /\ registered \in Seq(Node) /\ Len(registered) <= MAX_NODES
      /\ nextPoll \in 0 .. MAX_NODES - 1 /\ node \in [Node -> NodeState]
      /\ turn \in {"setup", "update", "poll"} /\ added \subseteq Node
      /\ bypassed \in [Node -> Nat]
  BY DEF NodePollingTypeOK, TypeOK
<1> USE DEF NodePollingTypeOK, TypeOK
<1>1. CASE StartLoop
  <2>1. \A n \in Node : [node[n] EXCEPT !.begun = TRUE, !.pending = FALSE,
                           !.status = IF Kind[n] = "led" THEN FALSE ELSE @] \in NodeState
    BY <1>0 DEF NodeState
  <2>2. node' \in [Node -> NodeState]
    BY <1>0, <1>1, <2>1 DEF StartLoop, Begin
  <2> QED BY <1>0, <1>1, <2>2 DEF StartLoop, Begin
<1>2. CASE UpdateNodes
  <2>1. \A n \in Node : Updated(n) \in NodeState
    BY <1>0, NodePollingAssumption DEF Updated, NodeState, Kinds
  <2>2. node' \in [Node -> NodeState] /\ UNCHANGED <<registered, nextPoll>>
    BY <1>0, <1>2, <2>1 DEF UpdateNodes, Update
  <2> QED BY <1>0, <1>2, <2>2 DEF UpdateNodes
<1>3. CASE PollNodes
  <2>1. PICK o \in Ready : Poll(o) /\ nextPoll' = (Position(o) + 1) % Len(registered)
    BY <1>3 DEF PollNodes, PollEvent
  <2>2. node' \in [Node -> NodeState] /\ UNCHANGED registered
    BY <1>0, <2>1 DEF Poll, NodeState
  <2>3. Len(registered) \in Nat \ {0} /\ o \in 0 .. Len(registered) - 1
    BY <1>0 DEF Ready
  <2>4. nextPoll' \in 0 .. Len(registered) - 1
    <3>1. Position(o) \in Nat /\ Position(o) + 1 \in Nat
      BY <1>0, <2>3 DEF Position
    <3> DEFINE a == Position(o) + 1
    <3>2. a % Len(registered) \in 0 .. Len(registered) - 1
      <4> HIDE DEF a
      <4>1. a \in Nat BY <3>1 DEF a
      <4> QED BY <2>3, <4>1
    <3> QED BY <2>1, <3>2
  <2>5. nextPoll' \in 0 .. MAX_NODES - 1
    BY <1>0, <2>3, <2>4, NodePollingAssumption
  <2> QED BY <1>0, <1>3, <2>2, <2>5 DEF PollNodes
<1>4. CASE NotPolled \/ UNCHANGED pollVars
  BY <1>0, <1>4 DEF NotPolled, pollVars
<1>5. ASSUME NEW n \in Node, Add(n) PROVE NodePollingTypeOK'
  <2>1. registered' \in Seq(Node) /\ Len(registered') <= MAX_NODES
    BY <1>0, <1>5, NodePollingAssumption DEF Add, AddNode
  <2> QED BY <1>0, <1>5, <2>1 DEF Add, AddNode
<1>6. ASSUME NEW n \in Node, Input(n) PROVE NodePollingTypeOK'
  BY <1>0, <1>6 DEF Input, PinChange, NodeState
<1> QED
  BY <1>1, <1>2, <1>3, <1>4, <1>5, <1>6 DEF PollNext

\* The poll index stays an index, no event waits before the loop starts, and each event
\* that waits keeps its bound.
LEMMA PollInvStep == PollInv /\ [PollNext]_pollVars => PollInv'
<1> SUFFICES ASSUME PollInv, [PollNext]_pollVars PROVE Index' /\ QuietSetup' /\ Waiting'
  BY PollTypeStep DEF PollInv
<1>0. /\ NodePollingTypeOK /\ Index /\ QuietSetup /\ Waiting
      /\ node \in [Node -> NodeState] /\ bypassed \in [Node -> Nat]
      /\ registered \in Seq(Node) /\ nextPoll \in Nat
  BY DEF PollInv, NodePollingTypeOK, TypeOK
<1>1. CASE StartLoop
  <2>1. \A n \in Node : ~node'[n].pending /\ bypassed'[n] = 0
    BY <1>0, <1>1 DEF StartLoop, Begin, NodeState, QuietSetup, Waiting
  <2> QED BY <1>0, <1>1, <2>1 DEF StartLoop, Begin, Index, QuietSetup, Waiting
<1>2. CASE UpdateNodes
  BY <1>0, <1>2, UpdateKeepsWaiting DEF UpdateNodes, Update, Index, QuietSetup
<1>3. CASE PollNodes
  BY <1>0, <1>3, PollKeepsWaiting DEF PollNodes, QuietSetup
<1>4. CASE NotPolled \/ UNCHANGED pollVars
  BY <1>0, <1>4 DEF NotPolled, pollVars, Index, QuietSetup, Waiting, Position
<1>5. ASSUME NEW n \in Node, Add(n) PROVE Index' /\ QuietSetup' /\ Waiting'
  <2>1. Len(registered) \in Nat /\ Len(registered') >= Len(registered)
    BY <1>0, <1>5 DEF Add, AddNode
  <2>2. Len(registered') \in Nat
    BY <1>0, <1>5 DEF Add, AddNode
  <2> QED
    BY <1>0, <1>5, <2>1, <2>2 DEF Add, AddNode, Index, QuietSetup, Waiting
<1>6. ASSUME NEW n \in Node, Input(n) PROVE Index' /\ QuietSetup' /\ Waiting'
  <2>1. \A m \in Node : node'[m].pending = node[m].pending
    BY <1>0, <1>6 DEF Input, PinChange, NodeState
  <2> QED
    BY <1>0, <1>6, <2>1 DEF Input, PinChange, Index, QuietSetup, Waiting, Position
<1> QED
  BY <1>1, <1>2, <1>3, <1>4, <1>5, <1>6 DEF PollNext

\* A device that has just been powered up satisfies the invariant.
LEMMA PollInvInit == PollInit => PollInv
<1> SUFFICES ASSUME PollInit PROVE PollInv
  OBVIOUS
<1>1. node \in [Node -> NodeState] /\ \A n \in Node : ~node[n].pending
  BY DEF PollInit, Init, NodeState
<1> QED
  BY <1>1, NodePollingAssumption
  DEF PollInit, Init, PollInv, NodePollingTypeOK, TypeOK, Index, QuietSetup, Waiting

\* The Node table stays within its capacity and the poll index within the table, for any
\* number of Nodes offered in any order.
THEOREM PollingTypeCorrect == PollSpec => []NodePollingTypeOK
<1>1. PollInv => NodePollingTypeOK
  BY DEF PollInv
<1> QED BY <1>1, PollInvInit, PollInvStep, PTL DEF PollSpec

\* No Node starves: however many Nodes there are and however busy they are, an event waits
\* for fewer polls of others than there are Nodes.
THEOREM NoNodeStarves == PollSpec => []RoundRobin
<1>1. PollInv => RoundRobin
  <2> SUFFICES ASSUME PollInv, NEW n \in Node, node[n].pending
               PROVE  bypassed[n] < Len(registered)
    BY DEF RoundRobin
  <2>1. PICK o \in 0 .. Len(registered) - 1 : bypassed[n] + o < Len(registered)
    BY DEF PollInv, Waiting
  <2>2. bypassed[n] \in Nat /\ Len(registered) \in Nat
    BY DEF PollInv, NodePollingTypeOK, TypeOK
  <2> QED BY <2>1, <2>2
<1> QED BY <1>1, PollInvInit, PollInvStep, PTL DEF PollSpec

=============================================================================
