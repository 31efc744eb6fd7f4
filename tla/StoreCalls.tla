------------------------------ MODULE StoreCalls ------------------------------
(***************************************************************************)
(* The vocabulary of the write path.  A pipeline script is the sequence of *)
(* store calls it makes; each call below reaches one store once: a domain  *)
(* graph in Neo4j (app/storage/neo4j_domain_store.py), the component       *)
(* master table in DuckDB (app/component_master_store.py), or the DuckDB   *)
(* file itself.                                                            *)
(***************************************************************************)
EXTENDS BomOntology

\* apply_connector_ingest: set the batch metadata of one domain store.
ConfigureIngest(g) == [kind |-> "configure", graph |-> g]

\* Neo4jDomainStore.add_node / add_edge, one domain.
StoreNode(g, n) == [kind |-> "node", graph |-> g, node |-> n]
StoreEdge(e)    == [kind |-> "edge", edge |-> e]

\* One DETACH DELETE statement of reset_neo4j.
ResetGraph(g) == [kind |-> "reset", graph |-> g]

\* The INSERT of upsert_component.
MasterRow(n) == [kind |-> "row", node |-> n]

\* duckdb.connect, Path.unlink and close on the master file.
OpenMaster   == [kind |-> "open"]
UnlinkMaster == [kind |-> "unlink"]
CloseMaster  == [kind |-> "close"]

StoreCall ==
       [kind : {"configure", "reset"}, graph : Graphs]
  \cup [kind : {"node"}, graph : Graphs, node : Node]
  \cup [kind : {"edge"}, edge : Edge]
  \cup [kind : {"row"}, node : Components]
  \cup [kind : {"open", "unlink", "close"}]
==============================================================================
