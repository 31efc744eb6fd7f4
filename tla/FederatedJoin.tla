----------------------------- MODULE FederatedJoin -----------------------------
(***************************************************************************)
(* Supplier disruption analysis: the join of the sourcing and ebom graphs  *)
(* that federation/composer.py computes, the on_federate gates on it, the  *)
(* graph view of the answer and the two queries federation/analysis.py     *)
(* adds, while loaders change the stores underneath.                       *)
(*                                                                         *)
(* Every query is a session of its own, so an answer is put together from  *)
(* a dozen states of the stores.  What the loaders do is BomCatalog, which *)
(* DomainIngest implements, with an as_of on each node copy.               *)
(*                                                                         *)
(* The handlers of the agent server run on a thread pool and share its one *)
(* DuckDB connection; a connection keeps only its latest result set.       *)
(* Programs without a server (scripts/demo_federation.py) open the file    *)
(* read-only for each analysis.                                            *)
(*                                                                         *)
(* Left out: names, costs and lead times in the rows, the wording of the   *)
(* messages and the score; node keys are taken to be unique.               *)
(***************************************************************************)
EXTENDS BomOntology, Naturals, FiniteSets

CONSTANTS
  Requests,  \* analyses that can be under way
  Shared,    \* those of the agent server, which share its connection
  Loaded,    \* bound: the graphs that loaders write,
  Cleaned,   \* bound: and those they reset
  MaxTime,   \* bound: as_of values are 1..MaxTime
  MaxSkew    \* warn_if_as_of_skew_hours

ASSUME SharedAssumption == Shared \subseteq Requests
ASSUME LoadedAssumption == Cleaned \subseteq Loaded /\ Loaded \subseteq Graphs
ASSUME TimeAssumption   == MaxTime \in Nat /\ MaxSkew \in Nat

VARIABLES
  nodes, edges,  \* the domain graphs, as in BomCatalog
  master,        \* the rows of the file data/bom.duckdb names
  asOf,          \* asOf[g][n]: as_of of node n in graph g, 0 if not there
  masterFile,    \* the path names a file
  conn,          \* the server's connection: "closed", "live" or "unlinked"
  unlinkedRows,  \* the rows of its file, once that has lost its name
  result,        \* the rows of the connection's latest result set
  pc,            \* pc[r]: what request r does next
  supplier,      \* supplier[r]: the supplier it asks about
  sourcing,      \* sourcing[r]: components of the sourcing rows
  ebom,          \* ebom[r]: the USED_IN links of the ebom rows
  snapshot,      \* snapshot[r][g]: as_of reported for graph g, 0 for None
  passed,        \* passed[r]: the quality gates passed
  warned,        \* warned[r]: and warned of skew
  toRead,        \* toRead[r]: the graphs the graph view has yet to read
  viewNodes,     \* viewNodes[r]: all nodes, as the graph view read them
  viewEdges,     \* viewEdges[r]: all relationships, as it read them
  routing,       \* routing[r]: the INPUT_OF links of the routing rows
  single,        \* single[r]: components reported to have one supplier
  joinAtStart,   \* history: the join when r began
  since          \* history: what loaders did since r began

catalogVars == <<nodes, edges, master, asOf>>
fileVars    == <<masterFile, conn, unlinkedRows>>
answerVars  == <<supplier, sourcing, ebom, snapshot, passed, warned,
                 toRead, viewNodes, viewEdges, routing, single, joinAtStart>>
vars == <<catalogVars, fileVars, result, pc, answerVars, since>>

Catalog == INSTANCE BomCatalog

------------------------------------------------------------------------------
(* The queries *)

\* Mutant: the registry forgets a domain.
DomainOrderShort == <<"ebom", "routing">>

\* The order of DOMAIN_GRAPHS.
DomainOrder == <<"ebom", "routing", "sourcing">>

Suppliers == Labelled("Supplier")

Links(type) == {e \in edges : e.type = type}

\* Mutant: the query returns the wrong end of the relationship.
SuppliedWrongEnd(s) == {e.target : e \in {l \in Links("SUPPLIED_BY") : l.target = s}}

\* Mutant: the query is not anchored at the supplier.
SuppliedByAnyone(s) == {e.source : e \in {l \in Links("SUPPLIED_BY") : s \in Suppliers}}

\* components_by_supplier
SuppliedComponents(s) == {e.source : e \in {l \in Links("SUPPLIED_BY") : l.target = s}}

\* impact_products_by_components, processes_by_components
LinksFrom(type, cs) == {e \in Links(type) : e.source \in cs}

\* supplier_counts_by_components
SuppliersOf(c) == {e.target : e \in LinksFrom("SUPPLIED_BY", {c})}

\* read_domain_as_of: max(n.as_of) over one graph.
IsDomainAsOf(g, t) ==
  /\ \A n \in Node : asOf[g][n] <= t
  /\ t = 0 \/ \E n \in Node : asOf[g][n] = t

\* merge_supplier_to_products_rows
JoinRow ==
  [supplier : Suppliers, component : Components, product : Labelled("Product")]

MergeRows(s, links) ==
  {[supplier |-> s, component |-> e.source, product |-> e.target] : e \in links}

\* The join that one reading of both graphs would give.
JoinNow(s) == MergeRows(s, LinksFrom("USED_IN", SuppliedComponents(s)))

\* _check_as_of_skew; None takes part in no comparison.
Skewed(a, b) == a > 0 /\ b > 0 /\ (a > b + MaxSkew \/ b > a + MaxSkew)

\* The rows the server's connection sees.
ConnRows == IF conn = "live" THEN master ELSE unlinkedRows

------------------------------------------------------------------------------
(* The answer of request r *)

FederatedRows(r) == IF passed[r] THEN MergeRows(supplier[r], ebom[r]) ELSE {}

\* _graph_view_for_rows
Seeds(r) == UNION {{row.supplier, row.component, row.product} : row \in FederatedRows(r)}

\* build_graph_view: the seeds and their neighbours, as far as they were read.
Active(r) ==
  LET touched == {e \in viewEdges[r] : e.source \in Seeds(r) \/ e.target \in Seeds(r)}
  IN  Seeds(r) \cup {e.source : e \in touched} \cup {e.target : e \in touched}

ShownNodes(r) == Active(r) \cap viewNodes[r]
ShownEdges(r) == {e \in viewEdges[r] : {e.source, e.target} \subseteq ShownNodes(r)}

\* What the user is told to do and to fear.  It is made of the rows that were
\* queried, also when the gate rejected their join.  Left out: findings that
\* repeat a payload (risk level, lead time), and that engineering hears of the
\* two dearest components only and of one product each.
Products(r) == {e.target : e \in ebom[r]}

\* _build_problems, and the violations of the gate
Problems(r) ==
  {c \in {"no_supply"} : sourcing[r] = {}}
  \cup {c \in {"single_source"} : single[r] # {}}
  \cup {c \in {"product_spread"} : \E p, q \in Products(r) : p # q}
  \cup {c \in {"manufacturing"} : routing[r] # {}}
  \cup {c \in {"federate_quality"} : ~passed[r]}

\* _build_mitigations: which team is told of what
Mitigations(r) ==
       {[team |-> "procurement", about |-> {c}] : c \in single[r]}
  \cup {[team |-> "engineering", about |-> {e.source, e.target}] : e \in ebom[r]}
  \cup {[team |-> "manufacturing", about |-> {e.source, e.target}] : e \in routing[r]}
  \cup {[team |-> "program_management", about |-> ps] : ps \in {Products(r)} \ {{}}}

------------------------------------------------------------------------------
Steps == {"idle", "sourcing", "ebom", "as_of sourcing", "as_of ebom", "gate", "fetch",
          "nodes", "edges", "routing", "counts", "done"}

StoreTypeOK ==
  /\ nodes \subseteq Graphs \X Node
  /\ edges \subseteq Edge
  /\ master \subseteq Components
  /\ asOf \in [Graphs -> [Node -> 0..MaxTime]]
  /\ masterFile \in BOOLEAN
  /\ conn \in {"closed", "live", "unlinked"}
  /\ unlinkedRows \subseteq Components
  /\ result \subseteq Components

QueryTypeOK ==
  /\ pc \in [Requests -> Steps]
  /\ supplier \in [Requests -> Suppliers]
  /\ sourcing \in [Requests -> SUBSET Components]
  /\ ebom \in [Requests -> SUBSET Edge]
  /\ snapshot \in [Requests -> [{"sourcing", "ebom"} -> 0..MaxTime]]
  /\ passed \in [Requests -> BOOLEAN]
  /\ warned \in [Requests -> BOOLEAN]

ViewTypeOK ==
  /\ toRead \in [Requests -> Seq(Graphs)]
  /\ viewNodes \in [Requests -> SUBSET Node]
  /\ viewEdges \in [Requests -> SUBSET Edge]
  /\ routing \in [Requests -> SUBSET Edge]
  /\ single \in [Requests -> SUBSET Components]

HistoryTypeOK ==
  /\ joinAtStart \in [Requests -> SUBSET JoinRow]
  /\ since \in [Requests -> {"quiet", "disturbed", "cleared"}]

Init ==
  /\ Catalog!Init
  /\ asOf = [g \in Graphs |-> [n \in Node |-> 0]]
  /\ masterFile = FALSE
  /\ conn = "closed"
  /\ unlinkedRows = {}
  /\ result = {}
  /\ pc = [r \in Requests |-> "idle"]
  /\ supplier \in [Requests -> Suppliers]
  /\ sourcing = [r \in Requests |-> {}]
  /\ ebom = [r \in Requests |-> {}]
  /\ snapshot = [r \in Requests |-> [g \in {"sourcing", "ebom"} |-> 0]]
  /\ passed = [r \in Requests |-> FALSE]
  /\ warned = [r \in Requests |-> FALSE]
  /\ toRead = [r \in Requests |-> <<>>]
  /\ viewNodes = [r \in Requests |-> {}]
  /\ viewEdges = [r \in Requests |-> {}]
  /\ routing = [r \in Requests |-> {}]
  /\ single = [r \in Requests |-> {}]
  /\ joinAtStart = [r \in Requests |-> {}]
  /\ since = [r \in Requests |-> "quiet"]

------------------------------------------------------------------------------
(* The loaders *)

Disturbed ==
  since' = [r \in Requests |-> IF pc[r] # "idle" /\ since[r] = "quiet"
                              THEN "disturbed" ELSE since[r]]
Cleared ==
  since' = [r \in Requests |-> IF pc[r] # "idle" THEN "cleared" ELSE since[r]]

requestVars == <<result, pc, answerVars>>

\* A MERGE of add_node; as_of is the batch's or the wall clock.
WriteNode(g, n, t) ==
  /\ Catalog!PutNode(g, n)
  /\ asOf' = [asOf EXCEPT ![g][n] = t]
  /\ Disturbed
  /\ UNCHANGED <<fileVars, requestVars>>

WriteEdge(e) ==
  /\ Catalog!PutEdge(e)
  /\ Disturbed
  /\ UNCHANGED <<asOf, fileVars, requestVars>>

ResetDomain(g) ==
  /\ Catalog!ClearGraph(g)
  /\ asOf' = [asOf EXCEPT ![g] = [n \in Node |-> 0]]
  /\ Cleared
  /\ UNCHANGED <<fileVars, requestVars>>

\* Only while the server does not hold the file: DuckDB locks it.
WriteMasterRow(c) ==
  /\ conn # "live"
  /\ Catalog!PutRow(c)
  /\ masterFile' = TRUE
  /\ Disturbed
  /\ UNCHANGED <<asOf, conn, unlinkedRows, requestVars>>

\* seed --reset: the server's connection keeps the nameless file.
UnlinkMaster ==
  /\ masterFile
  /\ Catalog!DropMaster
  /\ masterFile' = FALSE
  /\ conn' = IF conn = "live" THEN "unlinked" ELSE conn
  /\ unlinkedRows' = ConnRows
  /\ Disturbed
  /\ UNCHANGED <<asOf, requestVars>>

------------------------------------------------------------------------------
(* The server process *)

\* Nothing has been read yet for the requests rs.
Blank(rs) ==
  LET Reset(f, value) == [r \in Requests |-> IF r \in rs THEN value ELSE f[r]] IN
  /\ sourcing' = Reset(sourcing, {})
  /\ ebom' = Reset(ebom, {})
  /\ snapshot' = Reset(snapshot, [g \in {"sourcing", "ebom"} |-> 0])
  /\ passed' = Reset(passed, FALSE)
  /\ warned' = Reset(warned, FALSE)
  /\ toRead' = Reset(toRead, <<>>)
  /\ viewNodes' = Reset(viewNodes, {})
  /\ viewEdges' = Reset(viewEdges, {})
  /\ routing' = Reset(routing, {})
  /\ single' = Reset(single, {})

\* Requests that end without an answer.
Abandon(rs) ==
  /\ pc' = [r \in Requests |-> IF r \in rs THEN "idle" ELSE pc[r]]
  /\ Blank(rs)
  /\ joinAtStart' = [r \in Requests |-> IF r \in rs THEN {} ELSE joinAtStart[r]]
  /\ since' = [r \in Requests |-> IF r \in rs THEN "quiet" ELSE since[r]]
  /\ UNCHANGED supplier

StartServer ==
  /\ conn = "closed" /\ Shared # {}
  /\ conn' = "live"
  /\ masterFile' = TRUE
  /\ UNCHANGED <<catalogVars, unlinkedRows, requestVars, since>>

\* Shutdown or crash: the requests of the server are gone with it.
StopServer ==
  /\ conn # "closed"
  /\ conn' = "closed"
  /\ unlinkedRows' = {}
  /\ result' = {}
  /\ Abandon(Shared)
  /\ UNCHANGED <<catalogVars, masterFile>>

------------------------------------------------------------------------------
(* compose_join *)

At(r, step) == pc[r] = step
Go(r, step) == pc' = [pc EXCEPT ![r] = step]

storeVars == <<catalogVars, fileVars, since>>

Begin(r, s) ==
  /\ pc[r] \in {"idle", "done"}
  /\ r \in Shared => conn # "closed"
  /\ Go(r, "sourcing")
  /\ supplier' = [supplier EXCEPT ![r] = s]
  /\ Blank({r})
  /\ joinAtStart' = [joinAtStart EXCEPT ![r] = JoinNow(s)]
  /\ since' = [since EXCEPT ![r] = "quiet"]
  /\ UNCHANGED <<catalogVars, fileVars, result>>

QuerySourcing(r) ==
  /\ At(r, "sourcing")
  /\ sourcing' = [sourcing EXCEPT ![r] = SuppliedComponents(supplier[r])]
  /\ Go(r, "ebom")
  /\ UNCHANGED <<storeVars, result, supplier, ebom, snapshot, passed, warned, toRead,
                 viewNodes, viewEdges, routing, single, joinAtStart>>

\* Mutant: the ebom query is not restricted to the components of the first.
QueryEbomUnfiltered(r) ==
  /\ At(r, "ebom")
  /\ ebom' = [ebom EXCEPT ![r] = Links("USED_IN")]
  /\ Go(r, "as_of sourcing")
  /\ UNCHANGED <<storeVars, result, supplier, sourcing, snapshot, passed, warned, toRead,
                 viewNodes, viewEdges, routing, single, joinAtStart>>

\* Skipped, with no rows, if there are no component ids.
QueryEbom(r) ==
  /\ At(r, "ebom")
  /\ ebom' = [ebom EXCEPT ![r] = LinksFrom("USED_IN", sourcing[r])]
  /\ Go(r, "as_of sourcing")
  /\ UNCHANGED <<storeVars, result, supplier, sourcing, snapshot, passed, warned, toRead,
                 viewNodes, viewEdges, routing, single, joinAtStart>>

\* _build_domain_snapshots, after the rows were read.
ReadAsOf(r, g, next) ==
  /\ \E t \in 0..MaxTime : /\ IsDomainAsOf(g, t)
                           /\ snapshot' = [snapshot EXCEPT ![r][g] = t]
  /\ Go(r, next)
  /\ UNCHANGED <<storeVars, result, supplier, sourcing, ebom, passed, warned, toRead,
                 viewNodes, viewEdges, routing, single, joinAtStart>>

SnapshotSourcing(r) == At(r, "as_of sourcing") /\ ReadAsOf(r, "sourcing", "as_of ebom")
SnapshotEbom(r)     == At(r, "as_of ebom") /\ ReadAsOf(r, "ebom", "gate")

\* The verdict of run_on_federate_quality_gates, given what the master query
\* returned; the rows are merged only if it is good.  An answer without rows
\* has an empty graph view, which reads nothing.
Judge(r, present) ==
  LET ok   == sourcing[r] \subseteq present
      view == ok /\ ebom[r] # {}
  IN
  /\ passed' = [passed EXCEPT ![r] = ok]
  /\ warned' = [warned EXCEPT ![r] = Skewed(snapshot[r].sourcing, snapshot[r].ebom)]
  /\ Go(r, IF view THEN "nodes" ELSE "routing")
  /\ toRead' = [toRead EXCEPT ![r] = IF view THEN DomainOrder ELSE <<>>]
  /\ UNCHANGED <<storeVars, supplier, sourcing, ebom, snapshot,
                 viewNodes, viewEdges, routing, single, joinAtStart>>

\* Mutant: the file is looked for before the connection is.
GateUncheckedByFile(r) ==
  /\ At(r, "gate")
  /\ sourcing[r] = {} \/ ~masterFile
  /\ Judge(r, sourcing[r])
  /\ UNCHANGED result

\* No component ids, or neither connection nor file: the master is not asked.
GateUnchecked(r) ==
  /\ At(r, "gate")
  /\ sourcing[r] = {} \/ (r \notin Shared /\ ~masterFile)
  /\ Judge(r, sourcing[r])
  /\ UNCHANGED result

\* conn.execute on the server's connection ...
GateExecute(r) ==
  /\ At(r, "gate")
  /\ sourcing[r] # {} /\ r \in Shared
  /\ result' = sourcing[r] \cap ConnRows
  /\ Go(r, "fetch")
  /\ UNCHANGED <<storeVars, answerVars>>

\* ... and fetchall, which takes what is left of the latest result set.
GateFetch(r) ==
  /\ At(r, "fetch")
  /\ Judge(r, result)
  /\ result' = {}

\* duckdb.connect(read_only=True), SELECT and close, in a program of its own.
GateReadOnly(r) ==
  /\ At(r, "gate")
  /\ sourcing[r] # {} /\ r \notin Shared /\ masterFile
  /\ conn # "live"
  /\ Judge(r, master)
  /\ UNCHANGED result

------------------------------------------------------------------------------
(* build_graph_view: _all_nodes, then _all_edges, one graph at a time *)

\* One graph after the other, then on to the next step.
NextRead(r, here, next) ==
  IF Len(toRead[r]) > 1
  THEN Go(r, here) /\ toRead' = [toRead EXCEPT ![r] = Tail(@)]
  ELSE /\ Go(r, next)
       /\ toRead' = [toRead EXCEPT ![r] =
                       IF next = "edges" THEN DomainOrder ELSE <<>>]

ViewNodes(r) ==
  /\ At(r, "nodes")
  /\ viewNodes' = [viewNodes EXCEPT ![r] =
                     @ \cup {n \in Node : <<Head(toRead[r]), n>> \in nodes}]
  /\ NextRead(r, "nodes", "edges")
  /\ UNCHANGED <<storeVars, result, supplier, sourcing, ebom, snapshot, passed, warned,
                 viewEdges, routing, single, joinAtStart>>

ViewEdges(r) ==
  /\ At(r, "edges")
  /\ viewEdges' = [viewEdges EXCEPT ![r] =
                     @ \cup {e \in edges : GraphOf(e) = Head(toRead[r])}]
  /\ NextRead(r, "edges", "routing")
  /\ UNCHANGED <<storeVars, result, supplier, sourcing, ebom, snapshot, passed, warned,
                 viewNodes, routing, single, joinAtStart>>

------------------------------------------------------------------------------
(* The rest of analyze_supplier_disruption *)

\* Mutant: the routing query is not restricted to the affected components.
QueryRoutingUnfiltered(r) ==
  /\ At(r, "routing")
  /\ routing' = [routing EXCEPT ![r] = Links("INPUT_OF")]
  /\ Go(r, "counts")
  /\ UNCHANGED <<storeVars, result, supplier, sourcing, ebom, snapshot, passed, warned,
                 toRead, viewNodes, viewEdges, single, joinAtStart>>

QueryRouting(r) ==
  /\ At(r, "routing")
  /\ routing' = [routing EXCEPT ![r] = LinksFrom("INPUT_OF", sourcing[r])]
  /\ Go(r, "counts")
  /\ UNCHANGED <<storeVars, result, supplier, sourcing, ebom, snapshot, passed, warned,
                 toRead, viewNodes, viewEdges, single, joinAtStart>>

CountSuppliers(r) ==
  /\ At(r, "counts")
  /\ single' = [single EXCEPT ![r] =
                  {c \in sourcing[r] : Cardinality(SuppliersOf(c)) = 1}]
  /\ Go(r, "done")
  /\ UNCHANGED <<storeVars, result, supplier, sourcing, ebom, snapshot, passed, warned,
                 toRead, viewNodes, viewEdges, routing, joinAtStart>>

\* A query raises, or the file cannot be opened because another process holds
\* it; the handler answers 500.
RequestFails(r) ==
  /\ pc[r] \notin {"idle", "done"}
  /\ Abandon({r})
  /\ UNCHANGED <<catalogVars, fileVars, result>>

------------------------------------------------------------------------------
RequestStep(r) ==
  \/ \E s \in Suppliers : Begin(r, s)
  \/ QuerySourcing(r) \/ QueryEbom(r)
  \/ SnapshotSourcing(r) \/ SnapshotEbom(r)
  \/ GateUnchecked(r) \/ GateExecute(r) \/ GateFetch(r) \/ GateReadOnly(r)
  \/ ViewNodes(r) \/ ViewEdges(r)
  \/ QueryRouting(r) \/ CountSuppliers(r)
  \/ RequestFails(r)

LoaderStep ==
  \/ \E g \in Loaded, n \in Node, t \in 1..MaxTime : WriteNode(g, n, t)
  \/ \E e \in Edge : WriteEdge(e)
  \/ \E g \in Cleaned : ResetDomain(g)
  \/ \E c \in Components : WriteMasterRow(c)
  \/ UnlinkMaster

Next ==
  \/ \E r \in Requests : RequestStep(r)
  \/ LoaderStep
  \/ StartServer \/ StopServer

Spec == Init /\ [][Next]_vars
------------------------------------------------------------------------------
(* Properties *)

\* Every variable, the history included, has its type.
TypeOK == StoreTypeOK /\ QueryTypeOK /\ ViewTypeOK /\ HistoryTypeOK

Answered(r) == pc[r] = "done"

\* The join is read in two queries at two moments.  As long as loaders only
\* add, an answer that passed the gates still holds every row that the join
\* had when the request came, and none that the join does not have now.
RowsBracketed ==
  \A r \in Requests : (Answered(r) /\ passed[r] /\ since[r] # "cleared") =>
    /\ joinAtStart[r] \subseteq FederatedRows(r)
    /\ FederatedRows(r) \subseteq JoinNow(supplier[r])

\* The view reads the stores seven times after the rows were read.  As long
\* as loaders only add, it shows each supplier, component and product of the
\* rows, and the relationships that make them rows.
ViewShowsRows ==
  \A r \in Requests : (Answered(r) /\ since[r] # "cleared") =>
    \A row \in FederatedRows(r) :
      /\ {row.supplier, row.component, row.product} \subseteq ShownNodes(r)
      /\ [type |-> "SUPPLIED_BY", source |-> row.component, target |-> row.supplier]
           \in ShownEdges(r)
      /\ [type |-> "USED_IN", source |-> row.component, target |-> row.product]
           \in ShownEdges(r)

\* "only S on record" (_build_mitigations) combines the sourcing rows with a
\* count of a later query.  As long as loaders only add, S is on record at
\* the moment of the count, and it alone.
SingleSourceTrue ==
  [][\A r \in Requests :
       (At(r, "counts") /\ Answered(r)' /\ since[r] # "cleared") =>
         \A c \in single'[r] : SuppliersOf(c) = {supplier[r]}]_vars

\* The recommendations rest on four queries of four moments, and are made even
\* if the gate rejects the join.  As long as loaders only add, no product that
\* the disruption reached when the request came is left out of the notice, no
\* team is sent after something that the disruption does not reach, and nobody
\* is told that nothing is supplied when something was.
Reached(s) ==
  LET cs == SuppliedComponents(s) IN
  cs \cup {e.target : e \in LinksFrom("USED_IN", cs) \cup LinksFrom("INPUT_OF", cs)}

ReportReaches ==
  \A r \in Requests : (Answered(r) /\ since[r] # "cleared") =>
    /\ {row.product : row \in joinAtStart[r]} \subseteq Products(r)
    /\ \A m \in Mitigations(r) : m.about \subseteq Reached(supplier[r])
    /\ "no_supply" \in Problems(r) => joinAtStart[r] = {}
    /\ "product_spread" \in Problems(r) =>
         \E a, b \in JoinNow(supplier[r]) : a.product # b.product

\* reject_join_if_master_missing: an answer of the server that passed the
\* gates joins only components that the master it has open knows, whatever
\* other requests do to the connection between execute and fetchall, and
\* whatever becomes of the file.
MasterGateSound ==
  \A r \in Shared : (Answered(r) /\ passed[r]) => sourcing[r] \subseteq ConnRows

\* ... and it rejects only if a component is missing from that master.
RejectsOnlyMissing ==
  \A r \in Shared : (Answered(r) /\ ~passed[r]) => ~(sourcing[r] \subseteq ConnRows)

\* docs/graph-contract.md: quality gates warn consumers when graphs are stale
\* relative to each other.  Even for a request that no loader disturbed: an
\* answer without a warning joins no supplier with a product whose as_of is
\* further away than the limit.
StaleJoinWarned ==
  \A r \in Requests : (Answered(r) /\ since[r] = "quiet" /\ ~warned[r]) =>
    \A row \in FederatedRows(r) :
      ~Skewed(asOf["sourcing"][row.supplier], asOf["ebom"][row.product])
==============================================================================
