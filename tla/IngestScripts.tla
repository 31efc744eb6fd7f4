----------------------------- MODULE IngestScripts -----------------------------
(***************************************************************************)
(* The pipeline scripts as sequences of store calls, over the dataset of   *)
(* pipeline/demo/sample_data.py.  The order of the calls is the order of   *)
(* the loops in the scripts; what happens between two calls is the subject *)
(* of module DomainIngest.                                                 *)
(***************************************************************************)
EXTENDS StoreCalls, SequencesExt

CONSTANTS
  SUPPLIERS, PRODUCTS, PROCESSES,  \* sequences of ids
  COMPONENT_BOM,      \* sequence of [component, supplier, products, processes]
  PRODUCT_PROCESSES   \* sequence of <<product, process>>

\* The rows of sample_data.py name suppliers, products and processes of it.
ASSUME DataAssumption ==
  /\ SUPPLIERS \in Seq(Ids["Supplier"])
  /\ PRODUCTS \in Seq(Ids["Product"])
  /\ PROCESSES \in Seq(Ids["Process"])
  /\ COMPONENT_BOM \in Seq([component : Ids["Component"],
                            supplier  : Range(SUPPLIERS),
                            products  : Seq(Range(PRODUCTS)),
                            processes : Seq(Range(PROCESSES))])
  /\ PRODUCT_PROCESSES \in Seq(Range(PRODUCTS) \X Range(PROCESSES))

\* The calls of a `for x in seq' loop with body Body(x).
ForEach(seq, Body(_)) == FlattenSeq([i \in DOMAIN seq |-> Body(seq[i])])

KeyOf(l, i) == [label |-> l, id |-> i]

------------------------------------------------------------------------------
(* GraphStore: the federated facade *)

\* add_node loops over the graphs of the label, one domain store after the other.
AddNode(n) ==
  ForEach(NODE_TO_GRAPHS[n.label], LAMBDA g : <<StoreNode(g, n)>>)

AddEdge(t, src, dst) ==
  <<StoreEdge([type   |-> t,
               source |-> KeyOf(ALLOWED_EDGES[t].source, src),
               target |-> KeyOf(ALLOWED_EDGES[t].target, dst)])>>

\* Mutant: the master row first.
UpsertRowFirst(c) == <<MasterRow(Component(c))>> \o AddNode(Component(c))

\* ComponentMasterStore.upsert_component: the graph first, then the master row.
UpsertComponent(c) == AddNode(Component(c)) \o <<MasterRow(Component(c))>>

AddComponents == ForEach(COMPONENT_BOM, LAMBDA r : AddNode(Component(r.component)))

------------------------------------------------------------------------------
(* The domain pipelines: domains/*/pipeline.py *)

SourcingSeedNodes == ForEach(SUPPLIERS, LAMBDA i : AddNode(KeyOf("Supplier", i)))
EbomSeedNodes     == ForEach(PRODUCTS,  LAMBDA i : AddNode(KeyOf("Product", i)))
RoutingSeedNodes  == ForEach(PROCESSES, LAMBDA i : AddNode(KeyOf("Process", i)))

SourcingSeedEdges ==
  ForEach(COMPONENT_BOM, LAMBDA r : AddEdge("SUPPLIED_BY", r.component, r.supplier))

EbomSeedEdges ==
  ForEach(COMPONENT_BOM, LAMBDA r :
    ForEach(r.products, LAMBDA p : AddEdge("USED_IN", r.component, p)))

RoutingSeedEdges ==
  ForEach(COMPONENT_BOM, LAMBDA r :
    ForEach(r.processes, LAMBDA p : AddEdge("INPUT_OF", r.component, p)))
  \o ForEach(PRODUCT_PROCESSES, LAMBDA pp : AddEdge("PRODUCED_BY", pp[1], pp[2]))

------------------------------------------------------------------------------
(* The scripts *)

ResetNeo4j ==
  <<ResetGraph("ebom"), ResetGraph("routing"), ResetGraph("sourcing")>>

\* Mutant: one store forgotten.
ConfigureTwo == <<ConfigureIngest("sourcing"), ConfigureIngest("ebom")>>

ConfigureAllDemo ==
  <<ConfigureIngest("sourcing"), ConfigureIngest("ebom"), ConfigureIngest("routing")>>

\* seed_complex_bom(graph, component_master)
SeedComplexBom ==
  ConfigureAllDemo
  \o SourcingSeedNodes \o EbomSeedNodes \o RoutingSeedNodes
  \o ForEach(COMPONENT_BOM, LAMBDA r : UpsertComponent(r.component))
  \o SourcingSeedEdges \o EbomSeedEdges \o RoutingSeedEdges

\* scripts/seed_complex_bom.py, without and with --reset
SeedScript == <<OpenMaster>> \o SeedComplexBom \o <<CloseMaster>>

\* Mutants: the file goes first; the connection is opened first.
SeedResetUnlinkFirst == <<UnlinkMaster>> \o ResetNeo4j \o SeedScript
SeedResetOpenFirst ==
  <<OpenMaster>> \o ResetNeo4j \o <<UnlinkMaster>> \o SeedComplexBom \o <<CloseMaster>>

SeedResetScript == ResetNeo4j \o <<UnlinkMaster>> \o SeedScript

\* skills/bom-graph-explorer/scripts/explore_graph.py --seed --reset
ExploreResetScript ==
  <<OpenMaster>> \o ResetNeo4j \o <<UnlinkMaster>> \o SeedComplexBom \o <<CloseMaster>>

\* scripts/ingest/*.py: one production connector each
EbomConnector ==
  <<ConfigureIngest("ebom")>> \o EbomSeedNodes \o AddComponents \o EbomSeedEdges

RoutingConnector ==
  <<ConfigureIngest("routing")>> \o RoutingSeedNodes \o EbomSeedNodes \o AddComponents
  \o RoutingSeedEdges

\* Mutant: relationships before the components they start from.
SourcingEdgesFirst ==
  <<ConfigureIngest("sourcing")>> \o SourcingSeedNodes \o SourcingSeedEdges
  \o AddComponents

SourcingConnector ==
  <<ConfigureIngest("sourcing")>> \o SourcingSeedNodes \o AddComponents
  \o SourcingSeedEdges

\* load_domain_dataset: the domain store directly, not the facade
LoadNodes(g, l, seq) == ForEach(seq, LAMBDA i : <<StoreNode(g, KeyOf(l, i))>>)
LoadComponents(g) ==
  ForEach(COMPONENT_BOM, LAMBDA r : <<StoreNode(g, Component(r.component))>>)

\* scripts/demo_federation.py --reset: load_all_domains_separately
LoadDomainsScript ==
  ResetNeo4j
  \o <<ConfigureIngest("sourcing")>>
     \o LoadNodes("sourcing", "Supplier", SUPPLIERS) \o LoadComponents("sourcing")
     \o SourcingSeedEdges
  \o <<ConfigureIngest("ebom")>>
     \o LoadNodes("ebom", "Product", PRODUCTS) \o LoadComponents("ebom")
     \o EbomSeedEdges
  \o <<ConfigureIngest("routing")>>
     \o LoadNodes("routing", "Process", PROCESSES)
     \o LoadNodes("routing", "Product", PRODUCTS) \o LoadComponents("routing")
     \o RoutingSeedEdges

\* The agent server: BomAgentContext.create at startup, close at shutdown.
ServerLifetime == <<OpenMaster, CloseMaster>>

\* A loader of one's own that hands a domain store a label the domain does
\* not own (docs/seeding.md names such loaders); the store must refuse it.
ForeignLoader == LoadNodes("sourcing", "Product", PRODUCTS)
==============================================================================
