-------------------------- MODULE JSONStatusWriter --------------------------
(***************************************************************************)
(* JSONStatusWriter: writes a JSON object piece by piece, with two flags   *)
(* to tell where a comma belongs.  The text is a sequence of marks: the    *)
(* brackets, commas and names of JSON, and a value as a whole.             *)
(***************************************************************************)
EXTENDS StatusText

VARIABLES
  firstNode,      \* m_firstNode
  firstProperty,  \* m_firstProperty
  text            \* what has been written to the transport

writer == <<firstNode, firstProperty, text>>

-----------------------------------------------------------------------------

\* The object starts a new transport line; m_firstProperty is left to beginNode.
Begin ==
  /\ text' = <<"DATA:", "{", "n", ":", "{">>
  /\ firstNode' = TRUE
  /\ UNCHANGED firstProperty

Comma(first) == IF first THEN << >> ELSE <<",">>

\* The properties of the Node before count as properties of this one.
BeginNode_KeepsFirst(id) ==
  /\ text' = text \o Comma(firstNode) \o <<id, ":", "{">>
  /\ firstNode' = FALSE
  /\ UNCHANGED firstProperty

BeginNode(id) ==
  /\ text' = text \o Comma(firstNode) \o <<id, ":", "{">>
  /\ firstNode' = FALSE /\ firstProperty' = TRUE

WriteProperty(id, value) ==
  /\ text' = text \o Comma(firstProperty) \o <<id, ":">> \o ValueText(value)
  /\ firstProperty' = FALSE
  /\ UNCHANGED firstNode

EndNode == text' = Append(text, "}") /\ UNCHANGED <<firstNode, firstProperty>>

End == text' = text \o <<"}", "}", "\n">> /\ UNCHANGED <<firstNode, firstProperty>>

=============================================================================
