------------------------------ MODULE IngestAudit ------------------------------
(***************************************************************************)
(* One audit of the loaded stores: the gate a loader runs after its load   *)
(* (pipeline_gate.py) or the steward's batch job                           *)
(* (ingest_audit_pipeline.py).  Each probe is an auto-commit statement of  *)
(* its own, so an audit is some forty reads at different moments, between  *)
(* which loaders and people with a Cypher shell change the stores.  The    *)
(* question is what its verdict says about a store that does not hold      *)
(* still.                                                                  *)
(*                                                                         *)
(* Nodes and relationships are whatever a Cypher writer may leave: foreign *)
(* labels, missing ids, no graph_id, two nodes of one key, relationships   *)
(* across graphs.  SET is a deletion and a creation.  Left out: the sample *)
(* rows and their limits (no verdict depends on them) and the SHACL shapes *)
(* of relationships.                                                       *)
(***************************************************************************)
EXTENDS BomOntology, Naturals, FiniteSets

CONSTANTS
  NodePool,     \* the nodes writers may create
  RelPool,      \* the relationships they may create
  Snapshots,    \* what the audit may find the stores in
  Rank,         \* Rank[i]: place of id i in the order of strings
  BridgeLimit,  \* LIMIT of the bridge query, 500 in the code
  MaxChanges    \* bound: changes to the stores during one audit

None == "none"  \* no graph_id, no id

\* elem is Neo4j's own identity of a node.  graph_id is any string or absent;
\* valid: the Pydantic model of the label accepts the payload; shaped: so do the
\* constraints of its SHACL shape that the model has a default or a conversion
\* for, such as the risk_level of a supplier; version: the stored
\* graph_contract_version; stamp: which ingest metadata is there.
StoredNode ==
  [elem : Nat, label : STRING, id : STRING, graph : STRING,
   valid : BOOLEAN, shaped : BOOLEAN,
   version : {"current", "stale", "absent"},
   stamp : {"full", "no_source", "no_as_of"}]

StoredRel == [type : STRING, source : NodePool, target : NodePool]

\* A path that names a file is locked while another process holds it open.
FileState == {"absent", "free", "locked"}

PoolIds == {n.id : n \in NodePool}

ASSUME PoolAssumption ==
  /\ NodePool \subseteq StoredNode
  /\ IsFiniteSet(PoolIds)
  /\ RelPool \subseteq StoredRel

ASSUME RankAssumption == Rank \in [PoolIds -> Nat]

ASSUME LimitAssumption == BridgeLimit \in Nat /\ MaxChanges \in Nat

ASSUME SnapshotsAssumption ==
  Snapshots \subseteq [nodes : SUBSET NodePool, rels : SUBSET RelPool,
                       file : FileState, master : SUBSET PoolIds]

VARIABLES
  nodes, rels,   \* the property graph
  file, master,  \* the DuckDB path and the ids in its components table
  changes,       \* how often writers changed the stores since the audit began
  audit,         \* the audit that runs: its kind and options
  phase, at,     \* the report being collected and the next probe of it
  found,         \* the probes that returned rows, each with its report
  ids,           \* the component ids the bridge check holds between its reads
  verdict,
  standing,      \* history: the defects there at every moment of the audit
  ever,          \* history: the defects there at some moment of it
  fileless       \* history: the master had no file at some moment of it

stores  == <<nodes, rels, file, master>>
report  == <<phase, at, found, ids, verdict>>
history == <<standing, ever, fileless>>
vars    == <<stores, changes, audit, report, history>>

------------------------------------------------------------------------------
(* What conformance means: the ontology with its shapes, the registry and  *)
(* the contract, on the stores as they are at one moment.                  *)

NodeConforms(n) ==
  /\ n.label \in Labels
  /\ n.id # None
  /\ n.valid
  /\ n.version # "stale"
  /\ n.graph \in Graphs => NodeAllowed(n.graph, n)

RelConforms(r) ==
  /\ r.type \in EdgeTypes
  /\ r.source.label = ALLOWED_EDGES[r.type].source
  /\ r.target.label = ALLOWED_EDGES[r.type].target
  /\ None \notin {r.source.id, r.target.id}
  /\ r.source.graph = EDGE_TO_GRAPH[r.type]
  /\ r.target.graph = EDGE_TO_GRAPH[r.type]

NodeDefect(n)  == [what |-> "node", node |-> n]
StampDefect(n) == [what |-> "stamp", node |-> n]
ShapeDefect(n) == [what |-> "shape", node |-> n]
KeyDefect(n)   == [what |-> "key", label |-> n.label, id |-> n.id, graph |-> n.graph]
RelDefect(r)   == [what |-> "rel", rel |-> r]
EndDefect(r)   == [what |-> "end", rel |-> r]
RowDefect(i)   == [what |-> "row", id |-> i]

Defects ==
       {NodeDefect(n) : n \in {n \in nodes : n.graph # None /\ ~NodeConforms(n)}}
  \cup {StampDefect(n) : n \in {n \in nodes :
          n.graph # None /\ (n.stamp # "full" \/ n.version = "absent")}}
  \cup {ShapeDefect(n) : n \in {n \in nodes :
          n.graph # None /\ n.label \in Labels /\ ~n.shaped}}
  \cup {KeyDefect(n) : n \in {n \in nodes : n.graph # None /\ n.id # None /\
          \E o \in nodes \ {n} : KeyDefect(o) = KeyDefect(n)}}
  \cup {RelDefect(r) : r \in {r \in rels :
          r.source.graph # None /\ r.target.graph # None /\ ~RelConforms(r)}}
  \cup {EndDefect(r) : r \in {r \in rels :
          r.source.graph # None /\ r.target.graph = None}}
  \cup {RowDefect(n.id) : n \in {n \in nodes :
          n.label = "Component" /\ n.graph # None /\ n.id # None /\ n.id \notin master}}

------------------------------------------------------------------------------
(* The probes, as the code has them *)

\* Mutant: the scope is forgotten.
ScopedNodesAll == nodes

ScopedNodes  == {n \in nodes : n.graph # None}
InGraph(r)   == r.source.graph # None /\ r.target.graph = r.source.graph
InGraphRels  == {r \in rels : InGraph(r)}
DOMAIN_EDGES == [g \in Graphs |-> {t \in EdgeTypes : EDGE_TO_GRAPH[t] = g}]

KeyOf(n) == [label |-> n.label, id |-> n.id, graph |-> n.graph]

EndpointsAllowed(r) ==
  \E t \in EdgeTypes : /\ r.type = t
                       /\ r.source.label = ALLOWED_EDGES[t].source
                       /\ r.target.label = ALLOWED_EDGES[t].target

\* RelationEdge accepts the row; then assert_edge_allowed_in_graph, which has
\* an answer only for a registered graph.
RelPayloadValid(r) ==
  r.type \in EdgeTypes /\ EndpointsAllowed(r) /\ None \notin {r.source.id, r.target.id}

RelPayloadRaises(r) ==
  InGraph(r) /\ RelPayloadValid(r) /\ r.source.graph \notin Graphs

\* The node shapes of bom-shapes.ttl target the four labels.  They ask for all
\* that the Pydantic models ask for, for metadata, and for more.
ShapeViolated(n) ==
  /\ n.label \in Labels
  /\ n.id = None \/ ~n.valid \/ ~n.shaped \/ n.stamp = "no_as_of" \/ n.version = "absent"

\* The rows each statement returns.
ForeignNodes(g) == {n \in nodes : n.graph = g /\ n.label \notin DOMAIN_NODES[g]}
LeakedEdges(g)  == {r \in InGraphRels : r.source.graph = g /\ r.type \notin DOMAIN_EDGES[g]}
StaleNodes      == {n \in ScopedNodes : n.version = "stale"}

NodePayloadErrors ==
  {n \in ScopedNodes : n.label \notin Labels \/ n.id = None \/ ~n.valid}

EdgePayloadErrors ==
  {r \in InGraphRels : ~RelPayloadValid(r) \/ r.type \notin DOMAIN_EDGES[r.source.graph]}

ShapeErrors == {n \in ScopedNodes : ShapeViolated(n)}

OrphanEdges == {r \in rels : r.source.graph # None /\ r.target.graph # r.source.graph}

UnstampedNodes == {n \in ScopedNodes : n.stamp # "full" \/ n.version = "absent"}

\* A probe is a check id with the graph it is about.
Everywhere == "all"

Violating(probe) ==
  CASE probe[1] = "unknown_node_label" ->
         {n \in ScopedNodes : n.label \notin Labels}
    [] probe[1] = "missing_node_id" ->
         {n \in ScopedNodes : n.id = None}
    [] probe[1] = "duplicate_node_key" ->
         {n \in ScopedNodes : n.id # None /\ \E o \in nodes \ {n} : KeyOf(o) = KeyOf(n)}
    [] probe[1] = "unknown_edge_type" ->
         {r \in InGraphRels : r.type \notin EdgeTypes}
    [] probe[1] = "invalid_edge_endpoints" ->
         {r \in InGraphRels : r.type \in EdgeTypes /\ ~EndpointsAllowed(r)}
    [] probe[1] = "cross_graph_edge" ->
         {r \in rels : /\ r.source.graph # None /\ r.target.graph # None
                       /\ r.source.graph # r.target.graph}
    [] probe[1] = "stale_graph_contract_version" -> StaleNodes
    [] probe[1] = "domain_node" -> ForeignNodes(probe[2])
    [] probe[1] \in {"domain_edge", "domain_edge_leakage"} -> LeakedEdges(probe[2])
    [] probe[1] = "node_payload" -> NodePayloadErrors
    [] probe[1] = "edge_payload" -> EdgePayloadErrors
    [] probe[1] = "shacl_validate" -> ShapeErrors
    [] probe[1] = "orphan_edge_endpoints" -> OrphanEdges
    [] probe[1] = "ingest_metadata_complete" -> UnstampedNodes
    [] OTHER -> {}

\* run_l3_audit: the Cypher checks of all_l3_checks, the payloads, SHACL.
L3Probes ==
  <<<<"unknown_node_label", Everywhere>>,
    <<"missing_node_id", Everywhere>>,
    <<"duplicate_node_key", Everywhere>>,
    <<"unknown_edge_type", Everywhere>>,
    <<"invalid_edge_endpoints", Everywhere>>,
    <<"cross_graph_edge", Everywhere>>,
    <<"stale_graph_contract_version", Everywhere>>,
    <<"domain_node", "ebom">>,     <<"domain_edge", "ebom">>,
    <<"domain_node", "routing">>,  <<"domain_edge", "routing">>,
    <<"domain_node", "sourcing">>, <<"domain_edge", "sourcing">>,
    <<"node_payload", Everywhere>>,
    <<"edge_payload", Everywhere>>,
    <<"shacl_available", Everywhere>>,
    <<"shacl_count", Everywhere>>,
    <<"shacl_validate", Everywhere>>>>

\* run_on_ingest_quality_gates and run_on_ingest_audit_checks; a check of the
\* former that only consults the L3 report reads nothing.
BridgeProbes == <<<<"bridge_ids", Everywhere>>, <<"bridge_master", Everywhere>>>>

StewardProbes ==
  <<<<"orphan_edge_endpoints", Everywhere>>,
    <<"ingest_metadata_complete", Everywhere>>,
    <<"bridge_ids", Everywhere>>,
    <<"bridge_master", Everywhere>>,
    <<"domain_edge_leakage", "ebom">>,
    <<"domain_edge_leakage", "routing">>,
    <<"domain_edge_leakage", "sourcing">>>>

\* The gate makes an L3 report of its own and another for the on_ingest
\* checks; the steward's job hands its report on.
Phases == {"l3", "l3_again", "on_ingest", "on_ingest_audit"}

ProbesOf == [l3 |-> L3Probes, l3_again |-> L3Probes, on_ingest |-> BridgeProbes,
             on_ingest_audit |-> StewardProbes]

\* Mutant: no bridge check at the gate.
NextPhaseUnbridged ==
  [gate    |-> [l3 |-> "l3_again", l3_again |-> "end"],
   steward |-> [l3 |-> "on_ingest", on_ingest |-> "on_ingest_audit",
                on_ingest_audit |-> "end"]]

\* The reports in the order of the two programs.
NextPhase ==
  [gate    |-> [l3 |-> "l3_again", l3_again |-> "on_ingest", on_ingest |-> "end"],
   steward |-> [l3 |-> "on_ingest", on_ingest |-> "on_ingest_audit",
                on_ingest_audit |-> "end"]]

ProbeIds ==
  {"unknown_node_label", "missing_node_id", "duplicate_node_key", "unknown_edge_type",
   "invalid_edge_endpoints", "cross_graph_edge", "stale_graph_contract_version",
   "domain_node", "domain_edge", "node_payload", "edge_payload", "shacl_validate",
   "bridge_master", "orphan_edge_endpoints", "ingest_metadata_complete",
   "domain_edge_leakage"}

TypeOK ==
  /\ nodes \in SUBSET NodePool
  /\ rels \in SUBSET RelPool
  /\ file \in FileState
  /\ master \in SUBSET PoolIds
  /\ changes \in 0..MaxChanges
  /\ audit \in [kind : {"gate", "steward"}, n10s : BOOLEAN, require_shacl : BOOLEAN]
  /\ phase \in DOMAIN NextPhase[audit.kind] \cup {"end"}
  /\ at \in Nat
  /\ phase # "end" => at \in 1..Len(ProbesOf[phase])
  /\ found \in SUBSET (Phases \X (ProbeIds \X (Graphs \cup {Everywhere})))
  /\ ids \in SUBSET PoolIds
  /\ verdict \in {"none", "pass", "fail", "error"}
  /\ fileless \in BOOLEAN

Init ==
  /\ \E s \in Snapshots : /\ nodes = s.nodes /\ rels = s.rels
                          /\ file = s.file   /\ master = s.master
  /\ changes = 0
  /\ audit \in [kind : {"gate", "steward"}, n10s : BOOLEAN, require_shacl : BOOLEAN]
  /\ audit.require_shacl => audit.kind = "gate"
  /\ phase = "l3"
  /\ at = 1
  /\ found = {}
  /\ ids = {}
  /\ verdict = "none"
  /\ standing = Defects
  /\ ever = Defects
  /\ fileless = (file = "absent")

------------------------------------------------------------------------------
(* Writers *)

Change ==
  /\ verdict = "none"
  /\ changes < MaxChanges
  /\ changes' = changes + 1
  /\ standing' = standing \cap Defects'
  /\ ever' = ever \cup Defects'
  /\ fileless' = (fileless \/ file' = "absent")
  /\ UNCHANGED <<audit, report>>

CreateNode(n) ==
  /\ n \notin nodes
  /\ nodes' = nodes \cup {n}
  /\ UNCHANGED <<rels, file, master>>
  /\ Change

\* DETACH DELETE
DeleteNode(n) ==
  /\ n \in nodes
  /\ nodes' = nodes \ {n}
  /\ rels' = {r \in rels : n \notin {r.source, r.target}}
  /\ UNCHANGED <<file, master>>
  /\ Change

CreateRel(r) ==
  /\ r \notin rels
  /\ {r.source, r.target} \subseteq nodes
  /\ rels' = rels \cup {r}
  /\ UNCHANGED <<nodes, file, master>>
  /\ Change

DeleteRel(r) ==
  /\ r \in rels
  /\ rels' = rels \ {r}
  /\ UNCHANGED <<nodes, file, master>>
  /\ Change

\* Another process opens the master, which creates file and table ...
OpenMaster ==
  /\ file # "locked"
  /\ file' = "locked"
  /\ UNCHANGED <<nodes, rels, master>>
  /\ Change

\* ... inserts, closes it, or unlinks it.
InsertRow(i) ==
  /\ file = "locked"
  /\ i \notin master
  /\ master' = master \cup {i}
  /\ UNCHANGED <<nodes, rels, file>>
  /\ Change

CloseMaster ==
  /\ file = "locked"
  /\ file' = "free"
  /\ UNCHANGED <<nodes, rels, master>>
  /\ Change

UnlinkMaster ==
  /\ file # "absent"
  /\ file' = "absent"
  /\ master' = {}
  /\ UNCHANGED <<nodes, rels>>
  /\ Change

Write ==
  \/ \E n \in NodePool : CreateNode(n) \/ DeleteNode(n)
  \/ \E r \in RelPool : CreateRel(r) \/ DeleteRel(r)
  \/ \E i \in PoolIds : InsertRow(i)
  \/ OpenMaster \/ CloseMaster \/ UnlinkMaster

------------------------------------------------------------------------------
(* The audit *)

Probe == ProbesOf[phase][at]

AtProbe(probeIds) == verdict = "none" /\ phase # "end" /\ Probe[1] \in probeIds

\* The k-th probe is next, or the next report when there is none.
Goto(k) ==
  IF k <= Len(ProbesOf[phase])
  THEN at' = k /\ UNCHANGED phase
  ELSE at' = 1 /\ phase' = NextPhase[audit.kind][phase]

Collect(rows) ==
  found' = IF rows # {} THEN found \cup {<<phase, Probe>>} ELSE found

Unaffected == UNCHANGED <<stores, changes, audit, history>>

Statements == ProbeIds \ {"bridge_master"}

\* One statement of _run_check, _validate_node_payloads and the like.
RunCheck ==
  /\ AtProbe(Statements)
  /\ ~(Probe[1] = "edge_payload" /\ \E r \in rels : RelPayloadRaises(r))
  /\ Collect(Violating(Probe))
  /\ Goto(at + 1)
  /\ UNCHANGED <<ids, verdict>>
  /\ Unaffected

\* assert_edge_allowed_in_graph has no entry for the graph_id: the KeyError is
\* no validation error, and the audit ends without a report.
PayloadRaises ==
  /\ AtProbe({"edge_payload"})
  /\ \E r \in rels : RelPayloadRaises(r)
  /\ verdict' = "error"
  /\ UNCHANGED <<phase, at, found, ids>>
  /\ Unaffected

\* neosemantics_shacl_available: without the plugin the SHACL report is
\* `skipped', which counts as passed.
FindPlugin ==
  /\ AtProbe({"shacl_available"})
  /\ Goto(IF audit.n10s THEN at + 1 ELSE at + 3)
  /\ UNCHANGED <<found, ids, verdict>>
  /\ Unaffected

\* _collect_scoped_nodes: nothing is validated when there is nothing.
CountScoped ==
  /\ AtProbe({"shacl_count"})
  /\ Goto(IF ScopedNodes # {} THEN at + 1 ELSE at + 2)
  /\ UNCHANGED <<found, ids, verdict>>
  /\ Unaffected

\* RETURN DISTINCT ... ORDER BY ... LIMIT: the first ids of those there.
FirstIds(S) == {i \in S : Cardinality({j \in S : Rank[j] < Rank[i]}) < BridgeLimit}

ComponentIds == {n.id : n \in {n \in ScopedNodes : n.label = "Component"}}

\* Mutant: an empty list of ids skips too much.
ReadBridgeIdsSkipping ==
  /\ AtProbe({"bridge_ids"})
  /\ ids' = FirstIds(ComponentIds) \ {None}
  /\ IF ids' # {} THEN Goto(at + 1) ELSE at' = at + 2 /\ UNCHANGED phase
  /\ UNCHANGED <<found, verdict>>
  /\ Unaffected

ReadBridgeIds ==
  /\ AtProbe({"bridge_ids"})
  /\ ids' = FirstIds(ComponentIds) \ {None}
  /\ Goto(IF ids' # {} THEN at + 1 ELSE at + 2)
  /\ UNCHANGED <<found, verdict>>
  /\ Unaffected

\* The ids just read against the file as it is now; no file, no check.
LookUpMaster ==
  /\ AtProbe({"bridge_master"})
  /\ file # "locked"
  /\ Collect(IF file = "free" THEN ids \ master ELSE {})
  /\ ids' = {}
  /\ Goto(at + 1)
  /\ UNCHANGED verdict
  /\ Unaffected

\* duckdb.connect raises while another process holds the file.
MasterLocked ==
  /\ AtProbe({"bridge_master"})
  /\ file = "locked"
  /\ verdict' = "error"
  /\ UNCHANGED <<phase, at, found, ids>>
  /\ Unaffected

\* A lost connection: the exception leaves the audit.
QueryFails ==
  /\ verdict = "none"
  /\ phase # "end"
  /\ verdict' = "error"
  /\ UNCHANGED <<phase, at, found, ids>>
  /\ Unaffected

Reported(ph) == {f[2][1] : f \in {f \in found : f[1] = ph}}

Payloads == {"node_payload", "edge_payload"}

\* L3AuditReport.passed
L3Passed(ph) == Reported(ph) = {}

\* The L3 report the on_ingest checks consult, and which of its findings each
\* of them names; any payload error stands in for a check without one.
QualityPhase == IF audit.kind = "gate" THEN "l3_again" ELSE "l3"

CheckMap ==
  [intra_graph_endpoints_exist |->
     {"invalid_edge_endpoints", "unknown_edge_type", "cross_graph_edge", "missing_node_id"},
   domain_edge_allowed |-> {"domain_edge", "invalid_edge_endpoints"}]

QualityViolations ==
  {c \in DOMAIN CheckMap : Reported(QualityPhase) \cap (CheckMap[c] \cup Payloads) # {}}
  \cup {c \in {"bridge_id_present_in_master"} : "bridge_master" \in Reported("on_ingest")}

QualityPassed == L3Passed(QualityPhase) /\ QualityViolations = {}

ShaclMissing == audit.require_shacl /\ ~audit.n10s

Passed ==
  /\ L3Passed("l3")
  /\ QualityPassed
  /\ IF audit.kind = "gate" THEN ~ShaclMissing ELSE Reported("on_ingest_audit") = {}

\* Mutant: the batch checks are not exported.
ListedQuality ==
  (Reported("l3") \ {"shacl_validate"}) \cup QualityViolations

\* export_violation_report, by check id.  SHACL violations are not exported.
Listed ==
  (Reported("l3") \ {"shacl_validate"}) \cup QualityViolations
  \cup Reported("on_ingest_audit")

\* require_l3_conformance returns or raises; the job exits with 0 or 1.
Deliver ==
  /\ verdict = "none"
  /\ phase = "end"
  /\ verdict' = IF Passed THEN "pass" ELSE "fail"
  /\ UNCHANGED <<phase, at, found, ids>>
  /\ Unaffected

Read ==
  \/ RunCheck \/ PayloadRaises
  \/ FindPlugin \/ CountScoped
  \/ ReadBridgeIds \/ LookUpMaster \/ MasterLocked
  \/ QueryFails
  \/ Deliver

Next == Write \/ Read

Spec == Init /\ [][Next]_vars

------------------------------------------------------------------------------
(* Safety *)

\* The bridge query reaches this id however many components there are.
Watched(i) == Cardinality({j \in PoolIds : Rank[j] < Rank[i]}) < BridgeLimit

\* What each audit undertakes to find.  Without a master file it asks nothing
\* about the master, without the SHACL plugin nothing about shapes.
Promised(d) ==
  \/ d.what \in {"node", "key", "rel"}
  \/ d.what = "shape" /\ audit.n10s
  \/ d.what = "row" /\ Watched(d.id) /\ ~fileless
  \/ d.what \in {"stamp", "end"} /\ audit.kind = "steward"

\* An audit never passes a store over a defect that was there all the time it
\* ran, although no single state was ever looked at as a whole: the probes
\* together cover the ontology, the registry and the contract, and what a
\* writer does meanwhile cannot hide an old defect from all of them.
NothingMissed ==
  verdict = "pass" => \A d \in standing : ~Promised(d)

\* A load is rejected, or a steward called, only for a defect that existed at
\* some moment of the audit, or for want of the SHACL plugin.  Only the bridge
\* check can be wrong: it reads the two stores one after the other, and where
\* the file is replaced in between, the new one may lack the row of a node that
\* is no longer there.
NoFalseAlarm ==
  verdict = "fail" =>
    ever # {} \/ ShaclMissing \/ (fileless /\ \A f \in found : f[2][1] = "bridge_master")

\* docs/graph-contract.md, 6.3: the output is a violation report.  What was
\* wrong throughout is in it, under a check that is about it.  Not so what only
\* SHACL finds, which the report leaves out.
About ==
  [node  |-> {"unknown_node_label", "missing_node_id", "stale_graph_contract_version",
              "domain_node", "node_payload"},
   key   |-> {"duplicate_node_key"},
   rel   |-> {"cross_graph_edge", "edge_payload"},
   row   |-> {"bridge_id_present_in_master"},
   stamp |-> {"ingest_metadata_complete"},
   end   |-> {"orphan_edge_endpoints"}]

StewardTold ==
  audit.kind = "steward" /\ verdict \in {"pass", "fail"} =>
    \A d \in standing : Promised(d) /\ d.what # "shape" => Listed \cap About[d.what] # {}
==============================================================================
