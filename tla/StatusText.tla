----------------------------- MODULE StatusText -----------------------------
(***************************************************************************)
(* The text of a status line: the JSON object that JSONStatusWriter writes *)
(* of the Nodes.  StatusReport has it written piece by piece; LineWriter   *)
(* has it among the other lines the device sends.                          *)
(***************************************************************************)
EXTENDS Value, SequencesExt

CONSTANTS
  Id,            \* the characters getId() returns
  Property,      \* the characters that name a property
  Values,        \* the values a Node may write
  MAX_NODES, MaxProperties

\* The names are letters: none ends a line.
ASSUME StatusTextAssumption ==
  /\ MAX_NODES \in Nat /\ MaxProperties \in Nat
  /\ "\n" \notin Id \cup Property
  /\ \A v \in Values : v.type \in {"BOOLEAN", "INTEGER", "NONE"} /\ v.data \in Int

\* A Node as its writeStatus shows it: [id, properties], properties the pairs it writes.
Pairs == UNION {[1 .. k -> Property \X Values] : k \in 0 .. MaxProperties}
Nodes == [id : Id, properties : Pairs]
Registered == UNION {[1 .. k -> Nodes] : k \in 0 .. MAX_NODES}

\* JSONStatusWriter::writeValue
ValueText(v) ==
  CASE v.type = "BOOLEAN" -> IF v.data = 1 THEN <<"true">> ELSE <<"false">>
    [] v.type = "INTEGER" -> Signed(v.data)
    [] v.type = "NONE"    -> <<"null">>

\* A JSON object with these members, in the grammar of JSON: the commas stand between
\* the members and nowhere else.
Object(members) ==
  <<"{">> \o FlattenSeq([i \in DOMAIN members |->
                           IF i = 1 THEN members[i] ELSE <<",">> \o members[i]]) \o <<"}">>
Member(name, value) == <<name, ":">> \o value

NodeObject(n) ==
  Object([i \in DOMAIN n.properties |-> Member(n.properties[i][1], ValueText(n.properties[i][2]))])

\* The object of all Nodes, and the line without its end.
NodesObject(nodes) ==
  Object(<<Member("n", Object([i \in DOMAIN nodes |-> Member(nodes[i].id, NodeObject(nodes[i]))]))>>)
StatusLine(nodes) == <<"DATA:">> \o NodesObject(nodes)

=============================================================================
