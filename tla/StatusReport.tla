---------------------------- MODULE StatusReport ----------------------------
(***************************************************************************)
(* The status line: Orquestrator::handleEvent makes a JSONStatusWriter,    *)
(* and NodeController::writeStatus has it write every Node, which writes   *)
(* its properties.  LedNode and ButtonNode write one; an application's     *)
(* INode may write any number, of any type.                                *)
(***************************************************************************)
EXTENDS JSONStatusWriter

VARIABLES
  registered,    \* the Nodes in m_nodes
  position,      \* of the Node being written in m_nodes
  written,       \* number of its properties written
  phase          \* what is called next

vars == <<writer, registered, position, written, phase>>

Current == registered[position]

-----------------------------------------------------------------------------

ReportInit ==
  /\ registered \in Registered
  /\ firstNode = TRUE /\ firstProperty = TRUE /\ text = << >>
  /\ position = 1 /\ written = 0 /\ phase = "begin"

BeginReport ==
  /\ phase = "begin" /\ phase' = "nodes"
  /\ Begin
  /\ UNCHANGED <<registered, position, written>>

BeginNextNode ==
  /\ phase = "nodes" /\ position <= Len(registered)
  /\ phase' = "properties" /\ written' = 0
  /\ BeginNode(Current.id)
  /\ UNCHANGED <<registered, position>>

\* INode::writeStatus
WriteNextProperty ==
  /\ phase = "properties" /\ written < Len(Current.properties)
  /\ written' = written + 1
  /\ LET p == Current.properties[written + 1] IN WriteProperty(p[1], p[2])
  /\ UNCHANGED <<registered, position, phase>>

EndCurrentNode ==
  /\ phase = "properties" /\ written = Len(Current.properties)
  /\ phase' = "nodes" /\ position' = position + 1
  /\ EndNode
  /\ UNCHANGED <<registered, written>>

EndReport ==
  /\ phase = "nodes" /\ position > Len(registered)
  /\ phase' = "done"
  /\ End
  /\ UNCHANGED <<registered, position, written>>

ReportNext == BeginReport \/ BeginNextNode \/ WriteNextProperty \/ EndCurrentNode \/ EndReport

ReportSpec == ReportInit /\ [][ReportNext]_vars

-----------------------------------------------------------------------------
(* Properties *)

Report(nodes) == StatusLine(nodes) \o <<"\n">>

\* However many Nodes there are, and however many properties each of them writes (none
\* included), the line is one JSON object with all of them in order; and at no moment is
\* anything written that would have to be taken back.
ReportIsJSON ==
  /\ IsPrefix(text, Report(registered))
  /\ phase = "done" => text = Report(registered)

=============================================================================
