------------------------------ MODULE BomCatalog ------------------------------
(***************************************************************************)
(* What the stores together promise to a reader who looks between any two  *)
(* transactions: a property graph in three partitions and a table of       *)
(* component ids.  A relationship appears only between nodes that are      *)
(* there, a partition holds only its own labels, and a partition is        *)
(* cleared together with its relationships.  Module DomainIngest is shown  *)
(* to implement it, whatever scripts run, race and crash.                  *)
(***************************************************************************)
EXTENDS BomOntology

VARIABLES
  nodes,   \* pairs <<g, n>>: node key n has a copy in graph g
  edges,   \* the relationships
  master   \* the components with a master row

vars == <<nodes, edges, master>>

Init ==
  /\ nodes = {}
  /\ edges = {}
  /\ master = {}

PutNode(g, n) ==
  /\ NodeAllowed(g, n)
  /\ nodes' = nodes \cup {<<g, n>>}
  /\ UNCHANGED <<edges, master>>

PutEdge(e) ==
  /\ {<<GraphOf(e), e.source>>, <<GraphOf(e), e.target>>} \subseteq nodes
  /\ edges' = edges \cup {e}
  /\ UNCHANGED <<nodes, master>>

PutRow(c) ==
  /\ master' = master \cup {c}
  /\ UNCHANGED <<nodes, edges>>

ClearGraph(g) ==
  /\ nodes' = {gn \in nodes : gn[1] # g}
  /\ edges' = {e \in edges : GraphOf(e) # g}
  /\ UNCHANGED master

DropMaster ==
  /\ master' = {}
  /\ UNCHANGED <<nodes, edges>>

Next ==
  \/ \E g \in Graphs, n \in Node : PutNode(g, n)
  \/ \E e \in Edge : PutEdge(e)
  \/ \E c \in Components : PutRow(c)
  \/ \E g \in Graphs : ClearGraph(g)
  \/ DropMaster

Spec == Init /\ [][Next]_vars
==============================================================================
