----------------------------- MODULE BomOntology -----------------------------
(***************************************************************************)
(* The ontology of the BOM knowledge graph and its partition into three    *)
(* domain graphs: ontology/schema.py and domains/registry.py.  All domains *)
(* live in one Neo4j database and are told apart by the node property      *)
(* graph_id.                                                               *)
(***************************************************************************)
EXTENDS Sequences

CONSTANT Ids  \* Ids[l]: the id values a node with label l may carry

Labels    == {"Component", "Process", "Supplier", "Product"}
EdgeTypes == {"USED_IN", "PRODUCED_BY", "SUPPLIED_BY", "INPUT_OF"}
Graphs    == {"ebom", "routing", "sourcing"}

ASSUME IdsAssumption == DOMAIN Ids = Labels

\* The label pair each relationship type connects.
ALLOWED_EDGES ==
  [USED_IN     |-> [source |-> "Component", target |-> "Product"],
   PRODUCED_BY |-> [source |-> "Product",   target |-> "Process"],
   SUPPLIED_BY |-> [source |-> "Component", target |-> "Supplier"],
   INPUT_OF    |-> [source |-> "Component", target |-> "Process"]]

\* The node labels each domain graph owns a copy of.
DOMAIN_NODES ==
  [ebom     |-> {"Component", "Product"},
   routing  |-> {"Component", "Process", "Product"},
   sourcing |-> {"Component", "Supplier"}]

EDGE_TO_GRAPH ==
  [USED_IN     |-> "ebom",
   SUPPLIED_BY |-> "sourcing",
   INPUT_OF    |-> "routing",
   PRODUCED_BY |-> "routing"]

\* The order matters: the facade writes the copies of a node in this order,
\* each in a transaction of its own.
NODE_TO_GRAPHS ==
  [Component |-> <<"ebom", "routing", "sourcing">>,
   Product   |-> <<"ebom", "routing">>,
   Process   |-> <<"routing">>,
   Supplier  |-> <<"sourcing">>]

\* A node key: label and id.
Labelled(l) == [label : {l}, id : Ids[l]]
Node        == UNION {Labelled(l) : l \in Labels}
Components  == Labelled("Component")

Component(c) == [label |-> "Component", id |-> c]

NodeAllowed(g, n) == n.label \in DOMAIN_NODES[g]

\* RelationEdge after its validator: only the allowed label pair of each type.
Edge == UNION {[type   : {t},
                source : Labelled(ALLOWED_EDGES[t].source),
                target : Labelled(ALLOWED_EDGES[t].target)] : t \in EdgeTypes}

GraphOf(e) == EDGE_TO_GRAPH[e.type]
==============================================================================
