--------------------------- MODULE IngestAuditProof ---------------------------
(***************************************************************************)
(* What the verdict of an audit says, for any stores, any ids and any      *)
(* number of changes while it runs.                                        *)
(***************************************************************************)
EXTENDS IngestAudit, FiniteSetTheorems, TLAPS

------------------------------------------------------------------------------
(* The tables of probes *)

\* What run_l3_audit asks, in order.
LEMMA L3Table ==
  /\ Len(L3Probes) = 18
  /\ L3Probes[1] = <<"unknown_node_label", Everywhere>>
  /\ L3Probes[2] = <<"missing_node_id", Everywhere>>
  /\ L3Probes[3] = <<"duplicate_node_key", Everywhere>>
  /\ L3Probes[4] = <<"unknown_edge_type", Everywhere>>
  /\ L3Probes[5] = <<"invalid_edge_endpoints", Everywhere>>
  /\ L3Probes[6] = <<"cross_graph_edge", Everywhere>>
  /\ L3Probes[7] = <<"stale_graph_contract_version", Everywhere>>
  /\ L3Probes[8] = <<"domain_node", "ebom">>
  /\ L3Probes[9] = <<"domain_edge", "ebom">>
  /\ L3Probes[10] = <<"domain_node", "routing">>
  /\ L3Probes[11] = <<"domain_edge", "routing">>
  /\ L3Probes[12] = <<"domain_node", "sourcing">>
  /\ L3Probes[13] = <<"domain_edge", "sourcing">>
  /\ L3Probes[14] = <<"node_payload", Everywhere>>
  /\ L3Probes[15] = <<"edge_payload", Everywhere>>
  /\ L3Probes[16] = <<"shacl_available", Everywhere>>
  /\ L3Probes[17] = <<"shacl_count", Everywhere>>
  /\ L3Probes[18] = <<"shacl_validate", Everywhere>>
BY DEF L3Probes

\* What the contract's own checks ask.
LEMMA ContractTables ==
  /\ Len(BridgeProbes) = 2
  /\ BridgeProbes[1] = <<"bridge_ids", Everywhere>>
  /\ BridgeProbes[2] = <<"bridge_master", Everywhere>>
  /\ Len(StewardProbes) = 7
  /\ StewardProbes[1] = <<"orphan_edge_endpoints", Everywhere>>
  /\ StewardProbes[2] = <<"ingest_metadata_complete", Everywhere>>
  /\ StewardProbes[3] = <<"bridge_ids", Everywhere>>
  /\ StewardProbes[4] = <<"bridge_master", Everywhere>>
  /\ StewardProbes[5] = <<"domain_edge_leakage", "ebom">>
  /\ StewardProbes[6] = <<"domain_edge_leakage", "routing">>
  /\ StewardProbes[7] = <<"domain_edge_leakage", "sourcing">>
BY DEF BridgeProbes, StewardProbes

\* The table of each report.
LEMMA ReportTables ==
  /\ ProbesOf["l3"] = L3Probes
  /\ ProbesOf["l3_again"] = L3Probes
  /\ ProbesOf["on_ingest"] = BridgeProbes
  /\ ProbesOf["on_ingest_audit"] = StewardProbes
BY DEF ProbesOf

AnyProbe ==
  (ProbeIds \cup {"bridge_ids", "shacl_available", "shacl_count"})
    \X (Graphs \cup {Everywhere})

\* Each pair of the tables is a probe.
LEMMA Entries ==
  /\ <<"unknown_node_label", Everywhere>> \in AnyProbe
  /\ <<"missing_node_id", Everywhere>> \in AnyProbe
  /\ <<"duplicate_node_key", Everywhere>> \in AnyProbe
  /\ <<"unknown_edge_type", Everywhere>> \in AnyProbe
  /\ <<"invalid_edge_endpoints", Everywhere>> \in AnyProbe
  /\ <<"cross_graph_edge", Everywhere>> \in AnyProbe
  /\ <<"stale_graph_contract_version", Everywhere>> \in AnyProbe
  /\ <<"node_payload", Everywhere>> \in AnyProbe
  /\ <<"edge_payload", Everywhere>> \in AnyProbe
  /\ <<"shacl_available", Everywhere>> \in AnyProbe
  /\ <<"shacl_count", Everywhere>> \in AnyProbe
  /\ <<"shacl_validate", Everywhere>> \in AnyProbe
  /\ <<"bridge_ids", Everywhere>> \in AnyProbe
  /\ <<"bridge_master", Everywhere>> \in AnyProbe
  /\ <<"orphan_edge_endpoints", Everywhere>> \in AnyProbe
  /\ <<"ingest_metadata_complete", Everywhere>> \in AnyProbe
  /\ <<"domain_node", "ebom">> \in AnyProbe
  /\ <<"domain_node", "routing">> \in AnyProbe
  /\ <<"domain_node", "sourcing">> \in AnyProbe
  /\ <<"domain_edge", "ebom">> \in AnyProbe
  /\ <<"domain_edge", "routing">> \in AnyProbe
  /\ <<"domain_edge", "sourcing">> \in AnyProbe
  /\ <<"domain_edge_leakage", "ebom">> \in AnyProbe
  /\ <<"domain_edge_leakage", "routing">> \in AnyProbe
  /\ <<"domain_edge_leakage", "sourcing">> \in AnyProbe
BY DEF AnyProbe, ProbeIds, Graphs

\* Every entry of a table is a probe.
LEMMA TableEntries ==
  ASSUME NEW ph \in Phases, NEW k \in 1..Len(ProbesOf[ph])
  PROVE  ProbesOf[ph][k] \in AnyProbe
<1>1. ASSUME NEW i \in 1..18 PROVE L3Probes[i] \in AnyProbe
  <2>1. CASE i \in 1..6
    <3>1. i = 1 \/ i = 2 \/ i = 3 \/ i = 4 \/ i = 5 \/ i = 6 BY <2>1
    <3> QED BY <3>1, Entries, L3Table
  <2>2. CASE i \in 7..12
    <3>1. i = 7 \/ i = 8 \/ i = 9 \/ i = 10 \/ i = 11 \/ i = 12 BY <2>2
    <3> QED BY <3>1, Entries, L3Table
  <2>3. CASE i \in 13..18
    <3>1. i = 13 \/ i = 14 \/ i = 15 \/ i = 16 \/ i = 17 \/ i = 18 BY <2>3
    <3> QED BY <3>1, Entries, L3Table
  <2> QED BY <2>1, <2>2, <2>3
<1>2. ASSUME NEW i \in 1..2 PROVE BridgeProbes[i] \in AnyProbe
  <2>1. i = 1 \/ i = 2 BY <1>2
  <2> QED BY <2>1, Entries, ContractTables
<1>3. ASSUME NEW i \in 1..7 PROVE StewardProbes[i] \in AnyProbe
  <2>1. i = 1 \/ i = 2 \/ i = 3 \/ i = 4 \/ i = 5 \/ i = 6 \/ i = 7 BY <1>3
  <2> QED BY <2>1, Entries, ContractTables
<1>4. ph \in {"l3", "l3_again", "on_ingest", "on_ingest_audit"} BY DEF Phases
<1> QED BY <1>1, <1>2, <1>3, <1>4, L3Table, ContractTables, ReportTables

\* Where the probes are that do more than ask.
LEMMA SpecialPlaces ==
  ASSUME NEW ph \in Phases, NEW k \in 1..Len(ProbesOf[ph])
  PROVE  /\ ProbesOf[ph][k][1] = "shacl_available" =>
              ph \in {"l3", "l3_again"} /\ k = 16
         /\ ProbesOf[ph][k][1] = "shacl_count" => ph \in {"l3", "l3_again"} /\ k = 17
         /\ ProbesOf[ph][k][1] = "bridge_ids" =>
              \/ ph = "on_ingest" /\ k = 1
              \/ ph = "on_ingest_audit" /\ k = 3
         /\ ProbesOf[ph][k][1] = "bridge_master" =>
              \/ ph = "on_ingest" /\ k = 2
              \/ ph = "on_ingest_audit" /\ k = 4
<1>1. CASE ph \in {"l3", "l3_again"}
  <2>1. k \in 1..18 /\ ProbesOf[ph][k] = L3Probes[k] BY <1>1, L3Table, ReportTables
  <2>2. CASE k \in 1..9
    <3>1. k = 1 \/ k = 2 \/ k = 3 \/ k = 4 \/ k = 5 \/ k = 6 \/ k = 7 \/ k = 8 \/ k = 9
      BY <2>2
    <3> QED BY <3>1, <2>1, L3Table
  <2>3. CASE k \in 10..18
    <3>1. \/ k = 10 \/ k = 11 \/ k = 12 \/ k = 13 \/ k = 14 \/ k = 15
          \/ k = 16 \/ k = 17 \/ k = 18
      BY <2>3
    <3> QED BY <3>1, <2>1, <1>1, L3Table
  <2> QED BY <2>1, <2>2, <2>3
<1>2. CASE ph = "on_ingest"
  <2>1. k \in 1..2 BY <1>2, ContractTables, ReportTables
  <2>2. k = 1 \/ k = 2 BY <2>1
  <2> QED BY <1>2, <2>2, ContractTables, ReportTables
<1>3. CASE ph = "on_ingest_audit"
  <2>1. k \in 1..7 BY <1>3, ContractTables, ReportTables
  <2>2. k = 1 \/ k = 2 \/ k = 3 \/ k = 4 \/ k = 5 \/ k = 6 \/ k = 7 BY <2>1
  <2> QED BY <1>3, <2>2, ContractTables, ReportTables
<1> QED BY <1>1, <1>2, <1>3 DEF Phases

------------------------------------------------------------------------------
(* The order of the reports *)

Kinds == {"gate", "steward"}

PhaseNo ==
  [ph \in Phases \cup {"end"} |->
     CASE ph = "l3" -> 1 [] ph = "l3_again" -> 2 [] ph = "on_ingest" -> 3
       [] ph = "on_ingest_audit" -> 4 [] OTHER -> 5]

\* Each program makes its reports in the one order.
LEMMA PhaseOrder ==
  ASSUME NEW kind \in Kinds, NEW ph \in DOMAIN NextPhase[kind]
  PROVE  /\ ph \in Phases
         /\ NextPhase[kind][ph] \in DOMAIN NextPhase[kind] \cup {"end"}
         /\ PhaseNo[ph] < PhaseNo[NextPhase[kind][ph]]
         /\ \A q \in DOMAIN NextPhase[kind] :
              PhaseNo[q] < PhaseNo[NextPhase[kind][ph]] =>
                PhaseNo[q] < PhaseNo[ph] \/ q = ph
<1>1. CASE kind = "gate" BY <1>1 DEF NextPhase, PhaseNo, Phases
<1>2. CASE kind = "steward" BY <1>2 DEF NextPhase, PhaseNo, Phases
<1> QED BY <1>1, <1>2 DEF Kinds

\* Probe k of report ph has been passed.
Done(ph, k) == PhaseNo[ph] < PhaseNo[phase] \/ (ph = phase /\ k < at)

\* Every report has a first probe.
LEMMA FirstProbe == ASSUME NEW ph \in Phases PROVE 1 \in 1..Len(ProbesOf[ph])
<1>1. CASE ph \in {"l3", "l3_again"}
  <2>1. ProbesOf[ph] = L3Probes BY <1>1, ReportTables
  <2>2. 1 \in 1..18 OBVIOUS
  <2> QED BY <2>1, <2>2, L3Table
<1>2. CASE ph = "on_ingest"
  <2>1. 1 \in 1..2 OBVIOUS
  <2> QED BY <1>2, <2>1, ReportTables, ContractTables
<1>3. CASE ph = "on_ingest_audit"
  <2>1. 1 \in 1..7 OBVIOUS
  <2> QED BY <1>3, <2>1, ReportTables, ContractTables
<1> QED BY <1>1, <1>2, <1>3 DEF Phases

\* The options of an audit.
LEMMA KindTyped ==
  ASSUME TypeOK
  PROVE  audit.kind \in Kinds /\ audit.n10s \in BOOLEAN /\ audit.require_shacl \in BOOLEAN
BY DEF TypeOK, Kinds

\* Where Goto leads.
LEMMA GotoTyped ==
  ASSUME TypeOK, phase # "end", NEW k \in Nat \ {0}, Goto(k), audit' = audit
  PROVE  /\ phase' \in DOMAIN NextPhase[audit.kind] \cup {"end"}
         /\ at' \in Nat
         /\ phase' # "end" => at' \in 1..Len(ProbesOf[phase'])
<1>1. audit.kind \in Kinds /\ phase \in DOMAIN NextPhase[audit.kind]
  BY KindTyped DEF TypeOK
<1>2. phase \in Phases BY <1>1, PhaseOrder
<1>3. CASE k <= Len(ProbesOf[phase]) BY <1>1, <1>3 DEF Goto
<1>4. CASE ~(k <= Len(ProbesOf[phase]))
  <2>1. at' = 1 /\ phase' = NextPhase[audit.kind][phase] BY <1>4 DEF Goto
  <2>2. phase' \in DOMAIN NextPhase[audit.kind] \cup {"end"} BY <2>1, <1>1, PhaseOrder
  <2>3. phase' # "end" => phase' \in Phases BY <2>2, <1>1, PhaseOrder
  <2> QED BY <2>1, <2>2, <2>3, FirstProbe
<1> QED BY <1>3, <1>4

\* What Goto passes.
LEMMA GotoDone ==
  ASSUME TypeOK, phase # "end", NEW k \in Nat \ {0}, Goto(k),
         NEW q \in DOMAIN NextPhase[audit.kind], NEW i \in 1..Len(ProbesOf[q]),
         Done(q, i)'
  PROVE  Done(q, i) \/ (q = phase /\ at <= i /\ i < k)
<1>1. audit.kind \in Kinds /\ phase \in DOMAIN NextPhase[audit.kind] /\ at \in Nat
  BY KindTyped DEF TypeOK
<1>2. CASE k <= Len(ProbesOf[phase])
  BY <1>1, <1>2 DEF Goto, Done
<1>3. CASE ~(k <= Len(ProbesOf[phase]))
  <2>1. at' = 1 /\ phase' = NextPhase[audit.kind][phase] BY <1>3 DEF Goto
  <2>2. PhaseNo[q] < PhaseNo[phase'] BY <2>1 DEF Done
  <2>3. PhaseNo[q] < PhaseNo[phase] \/ q = phase BY <2>1, <2>2, <1>1, PhaseOrder
  <2>4. CASE q = phase
    <3>1. Len(ProbesOf[phase]) \in Nat
      BY <1>1, PhaseOrder, L3Table, ContractTables, ReportTables DEF Phases
    <3> QED BY <2>4, <1>3, <1>1, <3>1 DEF Done
  <2> QED BY <2>3, <2>4 DEF Done
<1> QED BY <1>2, <1>3

------------------------------------------------------------------------------
(* Type correctness *)

\* Types that a write keeps.
LEMMA WriteTyped == ASSUME TypeOK, Write PROVE TypeOK'
<1>0. Change
  BY DEF Write, CreateNode, DeleteNode, CreateRel, DeleteRel, InsertRow,
      OpenMaster, CloseMaster, UnlinkMaster
<1>1. changes' \in 0..MaxChanges /\ fileless' \in BOOLEAN /\ UNCHANGED <<audit, report>>
  <2>1. changes' = changes + 1 /\ changes < MaxChanges /\ changes \in 0..MaxChanges
    BY <1>0 DEF Change, TypeOK
  <2>2. changes' \in 0..MaxChanges BY <2>1, LimitAssumption
  <2>3. fileless' = (fileless \/ file' = "absent") BY <1>0 DEF Change
  <2>4. fileless' \in BOOLEAN BY <2>3
  <2> QED BY <1>0, <2>2, <2>4 DEF Change
<1>2. nodes' \in SUBSET NodePool /\ rels' \in SUBSET RelPool
  BY DEF TypeOK, Write, CreateNode, DeleteNode, CreateRel, DeleteRel, InsertRow,
      OpenMaster, CloseMaster, UnlinkMaster
<1>3. file' \in FileState /\ master' \in SUBSET PoolIds
  BY DEF TypeOK, Write, CreateNode, DeleteNode, CreateRel, DeleteRel, InsertRow,
      OpenMaster, CloseMaster, UnlinkMaster, FileState
<1> QED BY <1>1, <1>2, <1>3 DEF TypeOK, report

\* A probe that returns rows is collected as a probe.
LEMMA CollectTyped ==
  ASSUME TypeOK, phase # "end", Probe[1] \in ProbeIds, NEW rows, Collect(rows)
  PROVE  found' \in SUBSET (Phases \X (ProbeIds \X (Graphs \cup {Everywhere})))
<1>1. phase \in Phases /\ at \in 1..Len(ProbesOf[phase])
  BY KindTyped, PhaseOrder DEF TypeOK
<1>2. Probe \in AnyProbe BY <1>1, TableEntries DEF Probe
<1>3. Probe \in ProbeIds \X (Graphs \cup {Everywhere})
  <2>1. PICK a \in ProbeIds \cup {"bridge_ids", "shacl_available", "shacl_count"},
             g \in Graphs \cup {Everywhere} : Probe = <<a, g>>
    BY <1>2 DEF AnyProbe
  <2>2. Probe[1] = a BY <2>1
  <2> QED BY <2>1, <2>2
<1> QED BY <1>1, <1>3 DEF Collect, TypeOK

\* Types that a read keeps.
LEMMA ReadTyped == ASSUME TypeOK, Read PROVE TypeOK'
<1> USE DEF Unaffected, stores, history
<1>1. CASE RunCheck
  <2>1. found' \in SUBSET (Phases \X (ProbeIds \X (Graphs \cup {Everywhere})))
    BY <1>1, CollectTyped DEF RunCheck, AtProbe, Statements
  <2>2. phase # "end" /\ Goto(at + 1) /\ at + 1 \in Nat \ {0} /\ audit' = audit
    BY <1>1 DEF RunCheck, AtProbe, TypeOK
  <2> QED BY <1>1, <2>1, <2>2, GotoTyped DEF RunCheck, TypeOK
<1>2. CASE PayloadRaises BY <1>2 DEF PayloadRaises, TypeOK
<1>3. CASE FindPlugin
  <2>1. at + 1 \in Nat \ {0} /\ at + 3 \in Nat \ {0} /\ audit' = audit /\ phase # "end"
    BY <1>3 DEF FindPlugin, AtProbe, TypeOK
  <2>2. PICK k \in Nat \ {0} : Goto(k) BY <1>3, <2>1 DEF FindPlugin
  <2> QED BY <1>3, <2>1, <2>2, GotoTyped DEF FindPlugin, TypeOK
<1>4. CASE CountScoped
  <2>1. at + 1 \in Nat \ {0} /\ at + 2 \in Nat \ {0} /\ audit' = audit /\ phase # "end"
    BY <1>4 DEF CountScoped, AtProbe, TypeOK
  <2>2. PICK k \in Nat \ {0} : Goto(k) BY <1>4, <2>1 DEF CountScoped
  <2> QED BY <1>4, <2>1, <2>2, GotoTyped DEF CountScoped, TypeOK
<1>5. CASE ReadBridgeIds
  <2>1. at + 1 \in Nat \ {0} /\ at + 2 \in Nat \ {0} /\ audit' = audit /\ phase # "end"
    BY <1>5 DEF ReadBridgeIds, AtProbe, TypeOK
  <2>2. PICK k \in Nat \ {0} : Goto(k) BY <1>5, <2>1 DEF ReadBridgeIds
  <2>3. ids' \in SUBSET PoolIds
    BY <1>5 DEF ReadBridgeIds, FirstIds, ComponentIds, ScopedNodes, PoolIds, TypeOK
  <2> QED BY <1>5, <2>1, <2>2, <2>3, GotoTyped DEF ReadBridgeIds, TypeOK
<1>6. CASE LookUpMaster
  <2>1. found' \in SUBSET (Phases \X (ProbeIds \X (Graphs \cup {Everywhere})))
    BY <1>6, CollectTyped DEF LookUpMaster, AtProbe, ProbeIds
  <2>2. phase # "end" /\ Goto(at + 1) /\ at + 1 \in Nat \ {0} /\ audit' = audit
    BY <1>6 DEF LookUpMaster, AtProbe, TypeOK
  <2> QED BY <1>6, <2>1, <2>2, GotoTyped DEF LookUpMaster, TypeOK
<1>7. CASE MasterLocked BY <1>7 DEF MasterLocked, TypeOK
<1>8. CASE QueryFails BY <1>8 DEF QueryFails, TypeOK
<1>9. CASE Deliver BY <1>9 DEF Deliver, TypeOK
<1> QED BY <1>1, <1>2, <1>3, <1>4, <1>5, <1>6, <1>7, <1>8, <1>9 DEF Read

\* Every variable of an audit keeps its type, whatever writers leave.
THEOREM TypeCorrect == Spec => []TypeOK
<1>1. Init => TypeOK
  <2> SUFFICES ASSUME Init PROVE TypeOK OBVIOUS
  <2>1. /\ nodes \in SUBSET NodePool /\ rels \in SUBSET RelPool
        /\ file \in FileState /\ master \in SUBSET PoolIds
    BY SnapshotsAssumption DEF Init
  <2>2. phase = "l3" /\ at = 1 /\ "l3" \in DOMAIN NextPhase[audit.kind]
    BY DEF Init, NextPhase
  <2>3. at \in 1..Len(ProbesOf[phase]) BY <2>2, FirstProbe DEF Phases
  <2>4. changes \in 0..MaxChanges BY LimitAssumption DEF Init
  <2> QED BY <2>1, <2>2, <2>3, <2>4 DEF Init, TypeOK
<1>2. TypeOK /\ [Next]_vars => TypeOK'
  <2> SUFFICES ASSUME TypeOK, [Next]_vars PROVE TypeOK' OBVIOUS
  <2>1. CASE UNCHANGED vars BY <2>1 DEF TypeOK, vars, stores, report, history
  <2> QED BY <2>1, WriteTyped, ReadTyped DEF Next
<1> QED BY <1>1, <1>2, PTL DEF Spec

------------------------------------------------------------------------------
(* Which probe sees which defect *)

NodeSeen(p, n) ==
  \/ p[1] = "unknown_node_label" /\ n.label \notin Labels
  \/ p[1] = "missing_node_id" /\ n.id = None
  \/ p[1] = "node_payload" /\ ~n.valid
  \/ p[1] = "stale_graph_contract_version" /\ n.version = "stale"
  \/ p[1] = "domain_node" /\ p[2] = n.graph /\ n.graph \in Graphs /\ ~NodeAllowed(n.graph, n)

RelSeen(p, r) ==
  \/ p[1] = "cross_graph_edge" /\ r.source.graph # r.target.graph
  \/ p[1] = "edge_payload" /\ InGraph(r)

Sees(p, d) ==
  \/ d.what = "node" /\ NodeSeen(p, d.node)
  \/ d.what = "key" /\ p[1] = "duplicate_node_key"
  \/ d.what = "rel" /\ RelSeen(p, d.rel)
  \/ d.what = "end" /\ p[1] = "orphan_edge_endpoints"
  \/ d.what = "stamp" /\ p[1] = "ingest_metadata_complete"
  \/ d.what = "shape" /\ p[1] = "shacl_validate" /\ audit.n10s
  \/ d.what = "row" /\ p[1] = "bridge_master" /\ Watched(d.id) /\ ~fileless

\* A defect by its kind.
LEMMA DefectShape ==
  ASSUME NEW d \in Defects
  PROVE  /\ d.what \in {"node", "stamp", "shape", "key", "rel", "end", "row"}
         /\ d.what = "node" => \E n \in nodes :
              d = NodeDefect(n) /\ n.graph # None /\ ~NodeConforms(n)
         /\ d.what = "stamp" => \E n \in nodes :
              d = StampDefect(n) /\ n.graph # None /\ (n.stamp # "full" \/ n.version = "absent")
         /\ d.what = "shape" => \E n \in nodes :
              d = ShapeDefect(n) /\ n.graph # None /\ n.label \in Labels /\ ~n.shaped
         /\ d.what = "key" => \E n \in nodes :
              /\ d = KeyDefect(n) /\ n.graph # None /\ n.id # None
              /\ \E o \in nodes \ {n} : KeyDefect(o) = KeyDefect(n)
         /\ d.what = "rel" => \E r \in rels :
              d = RelDefect(r) /\ r.source.graph # None /\ r.target.graph # None /\ ~RelConforms(r)
         /\ d.what = "end" => \E r \in rels :
              d = EndDefect(r) /\ r.source.graph # None /\ r.target.graph = None
         /\ d.what = "row" => \E n \in nodes :
              /\ d = RowDefect(n.id) /\ n.label = "Component" /\ n.graph # None
              /\ n.id # None /\ n.id \notin master
<1> USE DEF NodeDefect, StampDefect, ShapeDefect, KeyDefect, RelDefect, EndDefect, RowDefect
<1>1. CASE \E n \in nodes : d = NodeDefect(n) /\ n.graph # None /\ ~NodeConforms(n)
  BY <1>1
<1>2. CASE \E n \in nodes :
        d = StampDefect(n) /\ n.graph # None /\ (n.stamp # "full" \/ n.version = "absent")
  BY <1>2
<1>3. CASE \E n \in nodes :
        /\ d = KeyDefect(n) /\ n.graph # None /\ n.id # None
        /\ \E o \in nodes \ {n} : KeyDefect(o) = KeyDefect(n)
  <2>1. d.what = "key" BY <1>3
  <2> QED BY <1>3, <2>1
<1>4. CASE \E r \in rels :
        d = RelDefect(r) /\ r.source.graph # None /\ r.target.graph # None /\ ~RelConforms(r)
  BY <1>4
<1>5. CASE \E r \in rels : d = EndDefect(r) /\ r.source.graph # None /\ r.target.graph = None
  BY <1>5
<1>6. CASE \E n \in nodes :
        /\ d = RowDefect(n.id) /\ n.label = "Component" /\ n.graph # None
        /\ n.id # None /\ n.id \notin master
  BY <1>6
<1>7. CASE \E n \in nodes :
        d = ShapeDefect(n) /\ n.graph # None /\ n.label \in Labels /\ ~n.shaped
  BY <1>7
<1> QED
  <2> HIDE DEF NodeDefect, StampDefect, ShapeDefect, KeyDefect, RelDefect, EndDefect, RowDefect
  <2> QED BY <1>1, <1>2, <1>3, <1>4, <1>5, <1>6, <1>7 DEF Defects

\* A statement that sees a defect returns a row for it, if it returns at all.
LEMMA SeenReturned ==
  ASSUME NEW d \in Defects, NEW p, p[1] \in Statements, Sees(p, d),
         ~(p[1] = "edge_payload" /\ \E r \in rels : RelPayloadRaises(r))
  PROVE  Violating(p) # {}
<1>1. CASE d.what = "node"
  <2>1. PICK n \in nodes : d = NodeDefect(n) /\ n.graph # None BY <1>1, DefectShape
  <2>2. NodeSeen(p, n) BY <1>1, <2>1 DEF Sees, NodeDefect
  <2>3. n \in ScopedNodes BY <2>1 DEF ScopedNodes
  <2>4. CASE p[1] = "unknown_node_label" /\ n.label \notin Labels
    BY <2>3, <2>4 DEF Violating
  <2>5. CASE p[1] = "missing_node_id" /\ n.id = None
    BY <2>3, <2>5 DEF Violating
  <2>6. CASE p[1] = "node_payload" /\ ~n.valid
    BY <2>3, <2>6 DEF Violating, NodePayloadErrors
  <2>7. CASE p[1] = "stale_graph_contract_version" /\ n.version = "stale"
    BY <2>3, <2>7 DEF Violating, StaleNodes
  <2>8. CASE p[1] = "domain_node" /\ p[2] = n.graph /\ n.graph \in Graphs
             /\ ~NodeAllowed(n.graph, n)
    BY <2>3, <2>8 DEF Violating, ForeignNodes, NodeAllowed
  <2> QED BY <2>2, <2>4, <2>5, <2>6, <2>7, <2>8 DEF NodeSeen
<1>2. CASE d.what = "key"
  <2>1. PICK n \in nodes : /\ d = KeyDefect(n) /\ n.graph # None /\ n.id # None
                           /\ \E o \in nodes \ {n} : KeyDefect(o) = KeyDefect(n)
    BY <1>2, DefectShape
  <2>2. \A o : KeyDefect(o) = KeyDefect(n) => KeyOf(o) = KeyOf(n)
    BY DEF KeyDefect, KeyOf
  <2>3. n \in ScopedNodes BY <2>1 DEF ScopedNodes
  <2>4. p[1] = "duplicate_node_key" BY <1>2 DEF Sees
  <2> QED BY <2>1, <2>2, <2>3, <2>4 DEF Violating
<1>3. CASE d.what = "rel"
  <2>1. PICK r \in rels : /\ d = RelDefect(r) /\ r.source.graph # None
                          /\ r.target.graph # None /\ ~RelConforms(r)
    BY <1>3, DefectShape
  <2>2. RelSeen(p, r) BY <1>3, <2>1 DEF Sees, RelDefect
  <2>3. CASE p[1] = "cross_graph_edge" /\ r.source.graph # r.target.graph
    BY <2>1, <2>3 DEF Violating
  <2>4. CASE p[1] = "edge_payload" /\ InGraph(r)
    <3>1. r \in InGraphRels BY <2>4 DEF InGraphRels
    <3>2. CASE ~RelPayloadValid(r) BY <2>4, <3>1, <3>2 DEF Violating, EdgePayloadErrors
    <3>3. CASE RelPayloadValid(r)
      <4>1. r.source.graph \in Graphs BY <2>4, <3>3 DEF RelPayloadRaises
      <4>2. EDGE_TO_GRAPH[r.type] # r.source.graph
        BY <2>1, <2>4, <3>3 DEF RelConforms, RelPayloadValid, EndpointsAllowed, InGraph
      <4>3. r.type \notin DOMAIN_EDGES[r.source.graph] BY <4>1, <4>2 DEF DOMAIN_EDGES
      <4> QED BY <2>4, <3>1, <4>3 DEF Violating, EdgePayloadErrors
    <3> QED BY <3>2, <3>3
  <2> QED BY <2>2, <2>3, <2>4 DEF RelSeen
<1>4. CASE d.what = "end"
  <2>1. PICK r \in rels : d = EndDefect(r) /\ r.source.graph # None /\ r.target.graph = None
    BY <1>4, DefectShape
  <2> QED BY <1>4, <2>1 DEF Violating, OrphanEdges, Sees
<1>5. CASE d.what = "stamp"
  <2>1. PICK n \in nodes : n.graph # None /\ (n.stamp # "full" \/ n.version = "absent")
    BY <1>5, DefectShape
  <2> QED BY <1>5, <2>1 DEF Violating, UnstampedNodes, Sees, ScopedNodes
<1>6. CASE d.what = "row" BY <1>6 DEF Sees, Statements
<1>7. CASE d.what = "shape"
  <2>1. PICK n \in nodes : n.graph # None /\ n.label \in Labels /\ ~n.shaped
    BY <1>7, DefectShape
  <2>2. n \in ScopedNodes /\ ShapeViolated(n) BY <2>1 DEF ScopedNodes, ShapeViolated
  <2> QED BY <1>7, <2>2 DEF Violating, ShapeErrors, Sees
<1> QED BY <1>1, <1>2, <1>3, <1>4, <1>5, <1>6, <1>7, DefectShape

\* The bridge query reaches a watched id whose node is there.
LEMMA WatchedRead ==
  ASSUME TypeOK, NEW d \in Defects, d.what = "row", Watched(d.id)
  PROVE  d.id \in FirstIds(ComponentIds) \ {None}
<1>1. PICK n \in nodes : /\ d = RowDefect(n.id) /\ n.label = "Component"
                         /\ n.graph # None /\ n.id # None
  BY DefectShape
<1>2. d.id = n.id BY <1>1 DEF RowDefect
<1>3. n.id \in ComponentIds BY <1>1 DEF ComponentIds, ScopedNodes
<1> DEFINE All == {j \in PoolIds : Rank[j] < Rank[n.id]}
           Here == {j \in ComponentIds : Rank[j] < Rank[n.id]}
<1>4. ComponentIds \subseteq PoolIds
  BY DEF ComponentIds, ScopedNodes, PoolIds, TypeOK
<1>5. Here \subseteq All BY <1>4
<1>6. IsFiniteSet(PoolIds) BY PoolAssumption
<1>7. IsFiniteSet(All)
  <2>1. All \subseteq PoolIds OBVIOUS
  <2> QED BY <1>6, <2>1, FS_Subset
<1>8. IsFiniteSet(Here) /\ Cardinality(Here) <= Cardinality(All)
  BY <1>5, <1>7, FS_Subset
<1>9. Cardinality(All) < BridgeLimit BY <1>2 DEF Watched
<1>10. Cardinality(Here) \in Nat /\ Cardinality(All) \in Nat
  BY <1>7, <1>8, FS_CardinalityType
<1>11. Cardinality(Here) < BridgeLimit BY <1>8, <1>9, <1>10, LimitAssumption
<1> QED BY <1>1, <1>2, <1>3, <1>11 DEF FirstIds

\* These probes return nothing about any defect, or are answered later.
LEMMA SilentProbes ==
  ASSUME NEW p, NEW d,
         p[1] \in {"shacl_available", "shacl_count", "bridge_ids"}
  PROVE  ~Sees(p, d)
BY DEF Sees, NodeSeen, RelSeen

\* Shapes are looked at with the plugin, and where there is a node.
LEMMA ShapesSeen ==
  ASSUME NEW p, NEW d \in Defects, p[1] = "shacl_validate", Sees(p, d)
  PROVE  audit.n10s /\ ScopedNodes # {}
<1>1. d.what = "shape" /\ audit.n10s BY DEF Sees, NodeSeen, RelSeen
<1>2. PICK n \in nodes : n.graph # None BY <1>1, DefectShape
<1> QED BY <1>1, <1>2 DEF ScopedNodes

\* The probes about a domain name a registered graph.
LEMMA DomainEntries ==
  ASSUME NEW ph \in Phases, NEW k \in 1..Len(ProbesOf[ph])
  PROVE  ProbesOf[ph][k][1] \in {"domain_node", "domain_edge", "domain_edge_leakage"} =>
           ProbesOf[ph][k][2] \in Graphs
<1>1. CASE ph \in {"l3", "l3_again"}
  <2>1. k \in 1..18 /\ ProbesOf[ph][k] = L3Probes[k] BY <1>1, L3Table, ReportTables
  <2>2. CASE k \in 1..7
    <3>1. k = 1 \/ k = 2 \/ k = 3 \/ k = 4 \/ k = 5 \/ k = 6 \/ k = 7 BY <2>2
    <3> QED BY <3>1, <2>1, L3Table
  <2>3. CASE k \in 8..13
    <3>1. k = 8 \/ k = 9 \/ k = 10 \/ k = 11 \/ k = 12 \/ k = 13 BY <2>3
    <3> QED BY <3>1, <2>1, L3Table DEF Graphs
  <2>4. CASE k \in 14..18
    <3>1. k = 14 \/ k = 15 \/ k = 16 \/ k = 17 \/ k = 18 BY <2>4
    <3> QED BY <3>1, <2>1, L3Table
  <2> QED BY <2>1, <2>2, <2>3, <2>4
<1>2. CASE ph = "on_ingest"
  <2>1. k \in 1..2 BY <1>2, ContractTables, ReportTables
  <2>2. k = 1 \/ k = 2 BY <2>1
  <2> QED BY <1>2, <2>2, ContractTables, ReportTables
<1>3. CASE ph = "on_ingest_audit"
  <2>1. k \in 1..7 BY <1>3, ContractTables, ReportTables
  <2>2. k = 1 \/ k = 2 \/ k = 3 \/ k = 4 \/ k = 5 \/ k = 6 \/ k = 7 BY <2>1
  <2> QED BY <1>3, <2>2, ContractTables, ReportTables DEF Graphs
<1> QED BY <1>1, <1>2, <1>3 DEF Phases

\* A relationship of a graph that conforms is allowed there.
LEMMA ConformingRel ==
  ASSUME NEW r, RelConforms(r)
  PROVE  /\ RelPayloadValid(r)
         /\ r.source.graph = r.target.graph
         /\ r.source.graph \in Graphs
         /\ r.type \in DOMAIN_EDGES[r.source.graph]
BY DEF RelConforms, RelPayloadValid, EndpointsAllowed, DOMAIN_EDGES, EDGE_TO_GRAPH,
    EdgeTypes, Graphs

\* A statement returns a row only for a defect of the store it reads.
LEMMA ReturnedReal ==
  ASSUME NEW p,
         p[1] \in {"domain_node", "domain_edge", "domain_edge_leakage"} => p[2] \in Graphs,
         Violating(p) # {}
  PROVE  Defects # {}
<1>1. ASSUME NEW n \in ScopedNodes, ~NodeConforms(n) PROVE Defects # {}
  <2>1. n \in nodes /\ n.graph # None BY <1>1 DEF ScopedNodes
  <2>2. NodeDefect(n) \in Defects BY <1>1, <2>1 DEF Defects
  <2> QED BY <2>2
<1>2. ASSUME NEW n \in ScopedNodes, n.stamp # "full" \/ n.version = "absent"
      PROVE  Defects # {}
  <2>1. n \in nodes /\ n.graph # None BY <1>2 DEF ScopedNodes
  <2>2. StampDefect(n) \in Defects BY <1>2, <2>1 DEF Defects
  <2> QED BY <2>2
<1>3. ASSUME NEW r \in rels, r.source.graph # None, r.target.graph # None, ~RelConforms(r)
      PROVE  Defects # {}
  <2>1. RelDefect(r) \in Defects BY <1>3 DEF Defects
  <2> QED BY <2>1
<1>4. ASSUME NEW r \in InGraphRels, ~RelConforms(r) PROVE Defects # {}
  <2>1. r \in rels /\ r.source.graph # None /\ r.target.graph # None
    BY <1>4 DEF InGraphRels, InGraph
  <2> QED BY <1>3, <1>4, <2>1
<1>5. CASE p[1] \in {"unknown_node_label", "missing_node_id", "node_payload",
                     "stale_graph_contract_version"}
  <2>1. PICK n \in ScopedNodes : n.label \notin Labels \/ n.id = None \/ ~n.valid
                                 \/ n.version = "stale"
    BY <1>5 DEF Violating, StaleNodes, NodePayloadErrors
  <2> QED BY <1>1, <2>1 DEF NodeConforms
<1>6. CASE p[1] = "domain_node"
  <2>1. PICK n \in nodes : n.graph = p[2] /\ n.label \notin DOMAIN_NODES[p[2]]
    BY <1>6 DEF Violating, ForeignNodes
  <2>2. n.graph \in Graphs /\ n.graph # None BY <1>6, <2>1 DEF Graphs, None
  <2> QED BY <1>1, <2>1, <2>2 DEF NodeConforms, NodeAllowed, ScopedNodes
<1>7. CASE p[1] = "duplicate_node_key"
  <2>1. PICK n \in ScopedNodes : n.id # None /\ \E o \in nodes \ {n} : KeyOf(o) = KeyOf(n)
    BY <1>7 DEF Violating
  <2>2. \A o : KeyOf(o) = KeyOf(n) => KeyDefect(o) = KeyDefect(n) BY DEF KeyOf, KeyDefect
  <2>3. n \in nodes /\ n.graph # None BY DEF ScopedNodes
  <2>4. KeyDefect(n) \in Defects BY <2>1, <2>2, <2>3 DEF Defects
  <2> QED BY <2>4
<1>8. CASE p[1] \in {"unknown_edge_type", "invalid_edge_endpoints", "edge_payload"}
  <2>1. PICK r \in InGraphRels : \/ r.type \notin EdgeTypes \/ ~EndpointsAllowed(r)
                                 \/ ~RelPayloadValid(r)
                                 \/ r.type \notin DOMAIN_EDGES[r.source.graph]
    BY <1>8 DEF Violating, EdgePayloadErrors
  <2>2. ~RelConforms(r) BY <2>1, ConformingRel DEF RelPayloadValid
  <2> QED BY <1>4, <2>2
<1>9. CASE p[1] \in {"domain_edge", "domain_edge_leakage"}
  <2>1. PICK r \in InGraphRels : r.source.graph = p[2] /\ r.type \notin DOMAIN_EDGES[p[2]]
    BY <1>9 DEF Violating, LeakedEdges
  <2>2. ~RelConforms(r) BY <2>1, ConformingRel
  <2> QED BY <1>4, <2>2
<1>10. CASE p[1] \in {"cross_graph_edge", "orphan_edge_endpoints"}
  <2>1. PICK r \in rels : r.source.graph # None /\ r.source.graph # r.target.graph
    BY <1>10 DEF Violating, OrphanEdges
  <2>2. ~RelConforms(r) BY <2>1, ConformingRel
  <2>3. CASE r.target.graph = None
    <3>1. EndDefect(r) \in Defects BY <2>1, <2>3 DEF Defects
    <3> QED BY <3>1
  <2> QED BY <1>3, <2>1, <2>2, <2>3
<1>11. CASE p[1] = "ingest_metadata_complete"
  <2>1. PICK n \in ScopedNodes : n.stamp # "full" \/ n.version = "absent"
    BY <1>11 DEF Violating, UnstampedNodes
  <2> QED BY <1>2, <2>1
<1>12. CASE p[1] = "shacl_validate"
  <2>1. PICK n \in ScopedNodes : ShapeViolated(n) BY <1>12 DEF Violating, ShapeErrors
  <2>2. CASE n.stamp = "no_as_of" \/ n.version = "absent" BY <1>2, <2>2
  <2>3. CASE n.id = None \/ ~n.valid BY <1>1, <2>3 DEF NodeConforms
  <2>4. CASE n.label \in Labels /\ ~n.shaped
    <3>1. ShapeDefect(n) \in Defects BY <2>4 DEF Defects, ScopedNodes
    <3> QED BY <3>1
  <2> QED BY <2>1, <2>2, <2>3, <2>4 DEF ShapeViolated
<1>13. p[1] \in {"unknown_node_label", "missing_node_id", "node_payload",
         "stale_graph_contract_version", "domain_node", "duplicate_node_key",
         "unknown_edge_type", "invalid_edge_endpoints", "edge_payload",
         "domain_edge", "domain_edge_leakage", "cross_graph_edge",
         "orphan_edge_endpoints", "ingest_metadata_complete", "shacl_validate"}
  BY DEF Violating
<1> QED BY <1>5, <1>6, <1>7, <1>8, <1>9, <1>10, <1>11, <1>12, <1>13

------------------------------------------------------------------------------
(* The inductive invariant: what was wrong throughout has been found by    *)
(* every probe that sees it and was passed, although no probe saw the      *)
(* store the others saw.                                                   *)

\* What has always been wrong is wrong now, and now counts.
StandingNow == standing \subseteq Defects
EverNow     == Defects \subseteq ever
FileThere   == ~fileless => file # "absent"

Verdicts ==
  /\ verdict = "pass" => phase = "end" /\ Passed
  /\ verdict = "fail" => phase = "end" /\ ~Passed

\* A probe that was passed found the standing defects it sees.
Asked ==
  \A q \in DOMAIN NextPhase[audit.kind] : \A i \in 1..Len(ProbesOf[q]) :
    Done(q, i) =>
      \A d \in standing : Sees(ProbesOf[q][i], d) => <<q, ProbesOf[q][i]>> \in found

\* Between its two reads the bridge check holds every id that may be missing
\* from the master, and only such as were nodes.
InHand ==
  phase # "end" /\ Probe[1] = "bridge_master" =>
    \A d \in standing : Sees(Probe, d) => d.id \in ids
IdsReal == ~fileless => \A i \in ids : i \in master \/ RowDefect(i) \in ever

OnlyBridge == fileless /\ \A f \in found : f[2][1] = "bridge_master"

FoundReal == found # {} => ever # {} \/ OnlyBridge

AuditInv ==
  StandingNow /\ EverNow /\ FileThere /\ Verdicts /\ Asked /\ InHand /\ IdsReal /\ FoundReal

\* What a step of the audit leaves to be shown when it reads on.
LEMMA AskedOn ==
  ASSUME TypeOK, Asked, phase # "end", NEW k \in Nat \ {0}, Goto(k), found \subseteq found',
         audit' = audit, standing' = standing, fileless' = fileless,
         \A i \in Nat : at <= i /\ i < k /\ i \in 1..Len(ProbesOf[phase]) =>
           \A d \in standing : Sees(ProbesOf[phase][i], d) =>
             <<phase, ProbesOf[phase][i]>> \in found'
  PROVE  Asked'
<1> SUFFICES ASSUME NEW q \in DOMAIN NextPhase[audit.kind], NEW i \in 1..Len(ProbesOf[q]),
                    Done(q, i)', NEW d \in standing, Sees(ProbesOf[q][i], d)
             PROVE  <<q, ProbesOf[q][i]>> \in found'
  <2>1. \A p, d : Sees(p, d)' <=> Sees(p, d) BY DEF Sees, NodeSeen, RelSeen
  <2> QED BY <2>1 DEF Asked
<1>1. Done(q, i) \/ (q = phase /\ at <= i /\ i < k) BY GotoDone
<1>2. CASE Done(q, i) BY <1>2 DEF Asked
<1>3. CASE q = phase /\ at <= i /\ i < k BY <1>3
<1> QED BY <1>1, <1>2, <1>3

\* Only the bridge check's first half is followed by its second.
LEMMA NextIsBridge ==
  ASSUME TypeOK, phase # "end", NEW k \in Nat \ {0}, Goto(k), k > at,
         k = at + 1 \/ Probe[1] \in {"shacl_available", "shacl_count", "bridge_ids"},
         audit' = audit, TypeOK', phase' # "end", Probe'[1] = "bridge_master"
  PROVE  Probe[1] = "bridge_ids" /\ k = at + 1 /\ phase' = phase
<1>1. /\ audit.kind \in Kinds /\ phase \in Phases /\ phase' \in Phases
      /\ at \in 1..Len(ProbesOf[phase]) /\ at' \in 1..Len(ProbesOf[phase'])
      /\ at \in Nat
  BY KindTyped, PhaseOrder DEF TypeOK
<1>2. \/ phase' = "on_ingest" /\ at' = 2
      \/ phase' = "on_ingest_audit" /\ at' = 4
  BY <1>1, SpecialPlaces DEF Probe
<1>3. phase' = phase /\ at' = k /\ k \in 1..Len(ProbesOf[phase]) BY <1>1, <1>2 DEF Goto
<1>4. CASE phase = "on_ingest"
  <2>1. at = 1 BY <1>1, <1>2, <1>3, <1>4
  <2> QED BY <2>1, <1>2, <1>3, <1>4, ReportTables, ContractTables DEF Probe
<1>5. CASE phase = "on_ingest_audit"
  <2>1. at' = 4 /\ k = 4 BY <1>2, <1>3, <1>5
  <2>2. CASE k = at + 1
    <3>1. at = 3 BY <2>1, <2>2, <1>1
    <3> QED BY <3>1, <2>2, <1>3, <1>5, ReportTables, ContractTables DEF Probe
  <2>3. CASE Probe[1] \in {"shacl_available", "shacl_count", "bridge_ids"}
    <3>1. at = 3 BY <2>3, <1>1, <1>5, SpecialPlaces DEF Probe
    <3> QED BY <3>1, <2>1, <1>3, <1>5, ReportTables, ContractTables DEF Probe
  <2> QED BY <2>2, <2>3
<1> QED BY <1>2, <1>3, <1>4, <1>5

\* Writers keep the invariant.
LEMMA WriteKeeps == ASSUME TypeOK, AuditInv, Write PROVE AuditInv'
<1> USE DEF AuditInv
<1>1. Change
  BY DEF Write, CreateNode, DeleteNode, CreateRel, DeleteRel, InsertRow,
      OpenMaster, CloseMaster, UnlinkMaster
<1>2. /\ standing' = standing \cap Defects' /\ ever' = ever \cup Defects'
      /\ fileless' = (fileless \/ file' = "absent")
      /\ verdict = "none" /\ verdict' = verdict
      /\ audit' = audit /\ phase' = phase /\ at' = at /\ found' = found /\ ids' = ids
  BY <1>1 DEF Change, report
<1>3. \A p, d : Sees(p, d)' => Sees(p, d) BY <1>2 DEF Sees, NodeSeen, RelSeen
<1>4. StandingNow' /\ EverNow' BY <1>2 DEF StandingNow, EverNow
<1>5. FileThere' BY <1>2 DEF FileThere
<1>6. Verdicts' BY <1>2 DEF Verdicts
<1>7. Asked' BY <1>2, <1>3 DEF Asked, Done
<1>8. InHand' BY <1>2, <1>3 DEF InHand, Probe
<1>9. IdsReal'
  <2> SUFFICES ASSUME ~fileless', NEW i \in ids
               PROVE  i \in master' \/ RowDefect(i) \in ever'
    BY <1>2 DEF IdsReal
  <2>1. ~fileless /\ file' # "absent" BY <1>2
  <2>2. i \in master \/ RowDefect(i) \in ever BY <2>1 DEF IdsReal
  <2>3. master \subseteq master'
    BY <2>1 DEF Write, CreateNode, DeleteNode, CreateRel, DeleteRel, InsertRow,
        OpenMaster, CloseMaster, UnlinkMaster
  <2> QED BY <2>2, <2>3, <1>2
<1>10. FoundReal' BY <1>2 DEF FoundReal, OnlyBridge
<1> QED BY <1>4, <1>5, <1>6, <1>7, <1>8, <1>9, <1>10

\* What is the same after a step of the audit.
LEMMA Unmoved ==
  ASSUME Unaffected, AuditInv
  PROVE  /\ audit' = audit /\ standing' = standing /\ ever' = ever /\ fileless' = fileless
         /\ StandingNow' /\ EverNow' /\ FileThere'
         /\ \A p, d : Sees(p, d)' <=> Sees(p, d)
<1>1. /\ audit' = audit /\ standing' = standing /\ ever' = ever /\ fileless' = fileless
      /\ nodes' = nodes /\ rels' = rels /\ file' = file /\ master' = master
  BY DEF Unaffected, stores, history
<1>2. Defects' = Defects BY <1>1 DEF Defects
<1>3. \A p, d : Sees(p, d)' <=> Sees(p, d) BY <1>1 DEF Sees, NodeSeen, RelSeen
<1> QED BY <1>1, <1>2, <1>3 DEF AuditInv, StandingNow, EverNow, FileThere

\* An exception or a verdict leaves the report as it is.
LEMMA EndKeeps ==
  ASSUME TypeOK, AuditInv, Unaffected, UNCHANGED <<phase, at, found, ids>>,
         \/ verdict' = "error"
         \/ phase = "end" /\ verdict' = IF Passed THEN "pass" ELSE "fail"
  PROVE  AuditInv'
<1>1. /\ audit' = audit /\ standing' = standing /\ ever' = ever /\ fileless' = fileless
      /\ phase' = phase /\ at' = at /\ found' = found /\ ids' = ids
      /\ master' = master
  BY Unmoved DEF Unaffected, stores
<1>2. Passed' = Passed
  BY <1>1 DEF Passed, QualityPassed, L3Passed, QualityPhase, QualityViolations, ShaclMissing,
      Reported
<1>3. Verdicts' BY <1>1, <1>2 DEF Verdicts
<1>4. Asked' BY <1>1, Unmoved DEF AuditInv, Asked, Done
<1>5. InHand' BY <1>1, Unmoved DEF AuditInv, InHand, Probe
<1>6. IdsReal' /\ FoundReal' BY <1>1 DEF AuditInv, IdsReal, FoundReal, OnlyBridge
<1> QED BY <1>3, <1>4, <1>5, <1>6, Unmoved DEF AuditInv

\* The end of a step that reads and goes on.
LEMMA ReadOn ==
  ASSUME TypeOK, TypeOK', AuditInv, Unaffected, verdict = "none", verdict' = "none",
         Asked', InHand', IdsReal', FoundReal'
  PROVE  AuditInv'
BY Unmoved DEF AuditInv, Verdicts

\* A statement keeps the invariant.
LEMMA CheckKeeps == ASSUME TypeOK, TypeOK', AuditInv, RunCheck PROVE AuditInv'
<1>1. /\ phase # "end" /\ verdict = "none" /\ verdict' = "none" /\ Probe[1] \in Statements
      /\ Collect(Violating(Probe)) /\ Goto(at + 1) /\ ids' = ids /\ Unaffected
      /\ ~(Probe[1] = "edge_payload" /\ \E r \in rels : RelPayloadRaises(r))
  BY DEF RunCheck, AtProbe
<1>2. /\ phase \in Phases /\ at \in 1..Len(ProbesOf[phase]) /\ at \in Nat
      /\ at + 1 \in Nat \ {0}
  BY <1>1, KindTyped, PhaseOrder DEF TypeOK
<1>3. found \subseteq found' BY <1>1 DEF Collect
<1>4. ASSUME NEW d \in standing, Sees(Probe, d) PROVE <<phase, Probe>> \in found'
  <2>1. d \in Defects BY DEF AuditInv, StandingNow
  <2>2. Violating(Probe) # {} BY <1>1, <1>4, <2>1, SeenReturned
  <2> QED BY <1>1, <2>2 DEF Collect
<1>5. Asked'
  <2>1. \A i \in Nat : at <= i /\ i < at + 1 => i = at BY <1>2
  <2>2. Asked BY DEF AuditInv
  <2> QED BY <1>1, <1>2, <1>3, <1>4, <2>1, <2>2, AskedOn, Unmoved DEF Probe
<1>6. InHand'
  <2>1. ~(phase' # "end" /\ Probe'[1] = "bridge_master")
    <3>1. Probe[1] # "bridge_ids" BY <1>1 DEF Statements, ProbeIds
    <3>2. audit' = audit /\ at + 1 > at BY <1>1, <1>2, Unmoved
    <3> QED BY <1>1, <1>2, <3>1, <3>2, NextIsBridge
  <2> QED BY <2>1 DEF InHand
<1>7. IdsReal'
  BY <1>1, Unmoved DEF AuditInv, IdsReal, Unaffected, stores
<1>8. FoundReal'
  <2>1. CASE Violating(Probe) = {} BY <1>1, <2>1, Unmoved DEF Collect, AuditInv, FoundReal, OnlyBridge
  <2>2. CASE Violating(Probe) # {}
    <3>1. Defects # {} BY <1>2, <2>2, DomainEntries, ReturnedReal DEF Probe
    <3> QED BY <1>1, <3>1, Unmoved DEF AuditInv, EverNow, FoundReal, OnlyBridge
  <2> QED BY <2>1, <2>2
<1> QED BY <1>1, <1>5, <1>6, <1>7, <1>8, ReadOn

\* A look at the plugin or at the number of nodes only moves the audit on.
LEMMA SkipKeeps ==
  ASSUME TypeOK, TypeOK', AuditInv, FindPlugin \/ CountScoped
  PROVE  AuditInv'
<1>1. /\ phase # "end" /\ verdict = "none" /\ verdict' = "none"
      /\ Probe[1] \in {"shacl_available", "shacl_count"}
      /\ found' = found /\ ids' = ids /\ Unaffected
  BY DEF FindPlugin, CountScoped, AtProbe
<1>2. phase \in Phases /\ at \in 1..Len(ProbesOf[phase]) /\ at \in Nat
  BY <1>1, KindTyped, PhaseOrder DEF TypeOK
<1>3. phase \in {"l3", "l3_again"} /\ at \in {16, 17}
  BY <1>1, <1>2, SpecialPlaces DEF Probe
<1>4. PICK k \in Nat \ {0} : /\ Goto(k) /\ k > at /\ k <= 19
                             /\ k = 19 => ~audit.n10s \/ ScopedNodes = {}
  <2>1. CASE FindPlugin
    <3>1. at = 16 BY <2>1, <1>2, SpecialPlaces DEF FindPlugin, AtProbe, Probe
    <3> QED BY <2>1, <3>1 DEF FindPlugin
  <2>2. CASE CountScoped
    <3>1. at = 17 BY <2>2, <1>2, SpecialPlaces DEF CountScoped, AtProbe, Probe
    <3> QED BY <2>2, <3>1 DEF CountScoped
  <2> QED BY <2>1, <2>2
<1>5. ASSUME NEW i \in Nat, at <= i, i < k, NEW d \in standing
      PROVE  ~Sees(ProbesOf[phase][i], d)
  <2>0. d \in Defects BY DEF AuditInv, StandingNow
  <2>1. i = 16 \/ i = 17 \/ (i = 18 /\ k = 19) BY <1>3, <1>4, <1>5
  <2>2. ProbesOf[phase] = L3Probes BY <1>3, ReportTables
  <2>3. CASE i = 16 \/ i = 17
    <3>1. ProbesOf[phase][i][1] \in {"shacl_available", "shacl_count"}
      BY <2>2, <2>3, L3Table
    <3> QED BY <3>1, SilentProbes
  <2>4. CASE i = 18 /\ k = 19
    <3>1. ProbesOf[phase][i][1] = "shacl_validate" BY <2>2, <2>4, L3Table
    <3> QED BY <1>4, <2>0, <2>4, <3>1, ShapesSeen
  <2> QED BY <2>1, <2>3, <2>4
<1>6. Asked'
  <2>1. Asked /\ audit' = audit /\ standing' = standing /\ fileless' = fileless
    BY <1>1, Unmoved DEF AuditInv
  <2> QED BY <1>1, <1>4, <1>5, <2>1, AskedOn
<1>7. InHand'
  <2>1. audit' = audit /\ Probe[1] # "bridge_ids" BY <1>1, Unmoved
  <2>2. ~(phase' # "end" /\ Probe'[1] = "bridge_master")
    BY <1>1, <1>4, <2>1, NextIsBridge
  <2> QED BY <2>2 DEF InHand
<1>8. IdsReal' /\ FoundReal'
  BY <1>1, Unmoved DEF AuditInv, IdsReal, FoundReal, OnlyBridge, Unaffected, stores
<1> QED BY <1>1, <1>6, <1>7, <1>8, ReadOn

\* The first half of the bridge check takes every id that may be missing.
LEMMA IdsKeep == ASSUME TypeOK, TypeOK', AuditInv, ReadBridgeIds PROVE AuditInv'
<1>1. /\ phase # "end" /\ verdict = "none" /\ verdict' = "none"
      /\ Probe[1] = "bridge_ids" /\ found' = found /\ Unaffected
      /\ ids' = FirstIds(ComponentIds) \ {None}
  BY DEF ReadBridgeIds, AtProbe
<1>2. phase \in Phases /\ at \in 1..Len(ProbesOf[phase]) /\ at \in Nat
  BY <1>1, KindTyped, PhaseOrder DEF TypeOK
<1>3. ASSUME NEW p, NEW d \in standing, p[1] = "bridge_master", Sees(p, d)
      PROVE  d.id \in ids'
  <2>1. d \in Defects BY DEF AuditInv, StandingNow
  <2>2. d.what = "row" /\ Watched(d.id) BY <1>3 DEF Sees, NodeSeen, RelSeen
  <2> QED BY <1>1, <2>1, <2>2, WatchedRead
<1>4. PICK k \in Nat \ {0} : /\ Goto(k) /\ k > at
                             /\ k = at + 1 \/ (k = at + 2 /\ ids' = {})
  BY <1>2 DEF ReadBridgeIds
<1>5. ASSUME NEW i \in Nat, at <= i, i < k, i \in 1..Len(ProbesOf[phase]), NEW d \in standing
      PROVE  ~Sees(ProbesOf[phase][i], d)
  <2>1. CASE i = at BY <1>1, <2>1, SilentProbes DEF Probe
  <2>2. CASE i # at
    <3>1. i = at + 1 /\ ids' = {} BY <1>2, <1>4, <1>5, <2>2
    <3>2. CASE phase = "on_ingest"
      <4>1. at = 1 BY <1>1, <1>2, <3>2, SpecialPlaces DEF Probe
      <4>2. ProbesOf[phase][i][1] = "bridge_master"
        BY <3>1, <3>2, <4>1, ReportTables, ContractTables
      <4> QED BY <1>3, <3>1, <4>2
    <3>3. CASE phase = "on_ingest_audit"
      <4>1. at = 3 BY <1>1, <1>2, <3>3, SpecialPlaces DEF Probe
      <4>2. ProbesOf[phase][i][1] = "bridge_master"
        BY <3>1, <3>3, <4>1, ReportTables, ContractTables
      <4> QED BY <1>3, <3>1, <4>2
    <3> QED BY <1>1, <1>2, <3>2, <3>3, SpecialPlaces DEF Probe
  <2> QED BY <2>1, <2>2
<1>6. Asked'
  <2>1. Asked /\ audit' = audit /\ standing' = standing /\ fileless' = fileless
    BY <1>1, Unmoved DEF AuditInv
  <2> QED BY <1>1, <1>4, <1>5, <2>1, AskedOn
<1>7. InHand' BY <1>1, <1>3, Unmoved DEF InHand
<1>8. IdsReal'
  <2> SUFFICES ASSUME NEW i \in ids' PROVE i \in master \/ RowDefect(i) \in ever
    BY <1>1, Unmoved DEF IdsReal, Unaffected, stores
  <2>1. i \in ComponentIds /\ i # None BY <1>1 DEF FirstIds
  <2>2. PICK n \in nodes : n.graph # None /\ n.label = "Component" /\ n.id = i
    BY <2>1 DEF ComponentIds, ScopedNodes
  <2>3. CASE i \notin master
    <3>1. RowDefect(n.id) \in Defects BY <2>1, <2>2, <2>3 DEF Defects
    <3> QED BY <2>2, <3>1 DEF AuditInv, EverNow
  <2> QED BY <2>3
<1>9. FoundReal' BY <1>1, Unmoved DEF AuditInv, FoundReal, OnlyBridge
<1> QED BY <1>1, <1>6, <1>7, <1>8, <1>9, ReadOn

\* The second half finds those still missing.
LEMMA MasterKeeps == ASSUME TypeOK, TypeOK', AuditInv, LookUpMaster PROVE AuditInv'
<1>1. /\ phase # "end" /\ verdict = "none" /\ verdict' = "none"
      /\ Probe[1] = "bridge_master" /\ Goto(at + 1) /\ ids' = {} /\ Unaffected
      /\ Collect(IF file = "free" THEN ids \ master ELSE {}) /\ file # "locked"
  BY DEF LookUpMaster, AtProbe
<1>2. /\ phase \in Phases /\ at \in 1..Len(ProbesOf[phase]) /\ at \in Nat
      /\ at + 1 \in Nat \ {0}
  BY <1>1, KindTyped, PhaseOrder DEF TypeOK
<1>3. found \subseteq found' BY <1>1 DEF Collect
<1>4. ASSUME NEW d \in standing, Sees(Probe, d) PROVE <<phase, Probe>> \in found'
  <2>1. d.id \in ids BY <1>1, <1>4 DEF AuditInv, InHand
  <2>2. d.what = "row" /\ ~fileless BY <1>1, <1>4 DEF Sees, NodeSeen, RelSeen
  <2>3. d \in Defects BY DEF AuditInv, StandingNow
  <2>4. d.id \notin master
    <3>1. PICK n \in nodes : d = RowDefect(n.id) /\ n.id \notin master
      BY <2>2, <2>3, DefectShape
    <3> QED BY <3>1 DEF RowDefect
  <2>5. file = "free" BY <1>1, <2>2 DEF AuditInv, FileThere, TypeOK, FileState
  <2> QED BY <1>1, <2>1, <2>4, <2>5 DEF Collect
<1>5. Asked'
  <2>1. \A i \in Nat : at <= i /\ i < at + 1 => i = at BY <1>2
  <2>2. Asked BY DEF AuditInv
  <2> QED BY <1>1, <1>2, <1>3, <1>4, <2>1, <2>2, AskedOn, Unmoved DEF Probe
<1>6. InHand'
  <2>1. audit' = audit /\ Probe[1] # "bridge_ids" /\ at + 1 > at BY <1>1, <1>2, Unmoved
  <2>2. ~(phase' # "end" /\ Probe'[1] = "bridge_master")
    BY <1>1, <1>2, <2>1, NextIsBridge
  <2> QED BY <2>2 DEF InHand
<1>7. IdsReal' BY <1>1 DEF IdsReal
<1>8. FoundReal'
  <2>1. CASE found' = found BY <2>1, <1>1, Unmoved DEF AuditInv, FoundReal, OnlyBridge
  <2>2. CASE found' # found
    <3>1. PICK i \in ids : i \notin master BY <1>1, <2>2 DEF Collect
    <3>2. fileless \/ RowDefect(i) \in ever BY <3>1 DEF AuditInv, IdsReal
    <3>3. CASE ever # {} BY <3>3, Unmoved, <1>1 DEF FoundReal
    <3>4. CASE ever = {}
      <4>0. RowDefect(i) \notin ever BY <3>4
      <4>1. fileless BY <3>2, <4>0
      <4>2. \A f \in found : f[2][1] = "bridge_master"
        BY <3>4 DEF AuditInv, FoundReal, OnlyBridge
      <4>3. found' \subseteq found \cup {<<phase, Probe>>} BY <1>1 DEF Collect
      <4>4. \A f \in found' : f[2][1] = "bridge_master" BY <1>1, <4>2, <4>3
      <4> QED BY <1>1, <4>1, <4>4, Unmoved DEF FoundReal, OnlyBridge
    <3> QED BY <3>3, <3>4
  <2> QED BY <2>1, <2>2
<1> QED BY <1>1, <1>5, <1>6, <1>7, <1>8, ReadOn

\* The inductive step.
LEMMA AuditInvStep == ASSUME TypeOK, AuditInv, [Next]_vars PROVE AuditInv'
<1>0. TypeOK'
  <2>1. CASE UNCHANGED vars BY <2>1 DEF TypeOK, vars, stores, report, history
  <2> QED BY <2>1, WriteTyped, ReadTyped DEF Next
<1>1. CASE Write BY <1>1, WriteKeeps
<1>2. CASE RunCheck BY <1>0, <1>2, CheckKeeps
<1>3. CASE FindPlugin \/ CountScoped BY <1>0, <1>3, SkipKeeps
<1>4. CASE ReadBridgeIds BY <1>0, <1>4, IdsKeep
<1>5. CASE LookUpMaster BY <1>0, <1>5, MasterKeeps
<1>6. CASE PayloadRaises \/ MasterLocked \/ QueryFails
  <2>1. Unaffected /\ UNCHANGED <<phase, at, found, ids>> /\ verdict' = "error"
    BY <1>6 DEF PayloadRaises, MasterLocked, QueryFails
  <2> QED BY <2>1, EndKeeps
<1>7. CASE Deliver BY <1>7, EndKeeps DEF Deliver
<1>8. CASE UNCHANGED vars
  <2>1. Defects' = Defects BY <1>8 DEF Defects, vars, stores
  <2>2. \A p, d : Sees(p, d)' <=> Sees(p, d)
    BY <1>8 DEF Sees, NodeSeen, RelSeen, vars, history
  <2>3. Passed' = Passed
    BY <1>8 DEF vars, report, Passed, QualityPassed, L3Passed, QualityPhase,
        QualityViolations, ShaclMissing, Reported
  <2>4. StandingNow' /\ EverNow' /\ FileThere' /\ Verdicts'
    BY <1>8, <2>1, <2>3 DEF AuditInv, StandingNow, EverNow, FileThere, Verdicts, vars,
        stores, report, history
  <2>5. Asked' /\ InHand'
    BY <1>8, <2>2 DEF AuditInv, Asked, Done, InHand, Probe, vars, report, history
  <2>6. IdsReal' /\ FoundReal'
    BY <1>8 DEF AuditInv, IdsReal, FoundReal, OnlyBridge, vars, stores, report, history
  <2> QED BY <2>4, <2>5, <2>6 DEF AuditInv
<1> QED BY <1>1, <1>2, <1>3, <1>4, <1>5, <1>6, <1>7, <1>8 DEF Next, Read

\* It holds when the audit begins.
LEMMA AuditInvInit == ASSUME Init, TypeOK PROVE AuditInv
<1>1. /\ phase = "l3" /\ at = 1 /\ found = {} /\ ids = {} /\ verdict = "none"
      /\ standing = Defects /\ ever = Defects /\ fileless = (file = "absent")
  BY DEF Init
<1>2. Asked
  <2> SUFFICES ASSUME NEW q \in DOMAIN NextPhase[audit.kind],
                      NEW i \in 1..Len(ProbesOf[q]), Done(q, i)
               PROVE  FALSE
    BY DEF Asked
  <2>1. audit.kind \in Kinds BY KindTyped
  <2>2. q \in Phases BY <2>1, PhaseOrder
  <2>3. ~(PhaseNo[q] < PhaseNo["l3"]) BY <2>2 DEF PhaseNo, Phases
  <2>4. i >= 1 OBVIOUS
  <2> QED BY <1>1, <2>3, <2>4 DEF Done
<1>3. InHand
  <2>1. 1 \in 1..18 OBVIOUS
  <2>2. Probe[1] = "unknown_node_label" BY <1>1, L3Table, ReportTables DEF Probe
  <2> QED BY <2>2 DEF InHand
<1> QED BY <1>1, <1>2, <1>3
  DEF AuditInv, StandingNow, EverNow, FileThere, Verdicts, IdsReal, FoundReal

\* The invariant holds throughout every audit.
LEMMA AuditInvHolds == Spec => []AuditInv
<1>1. Init /\ TypeOK => AuditInv BY AuditInvInit
<1>2. TypeOK /\ AuditInv /\ [Next]_vars => AuditInv' BY AuditInvStep
<1> QED BY <1>1, <1>2, TypeCorrect, PTL DEF Spec

------------------------------------------------------------------------------
(* What the verdict says *)

\* When all reports are made, each promised defect that stood throughout is in
\* the report that is to have it.
LEMMA AllFound ==
  ASSUME TypeOK, AuditInv, phase = "end", NEW d \in standing, Promised(d)
  PROVE  /\ d.what \in {"node", "key", "rel", "shape", "row", "stamp", "end"}
         /\ d.what = "shape" => "shacl_validate" \in Reported("l3")
         /\ d.what \in {"node", "key", "rel"} => Reported("l3") \cap About[d.what] # {}
         /\ d.what = "row" => "bridge_master" \in Reported("on_ingest")
         /\ d.what \in {"stamp", "end"} =>
              audit.kind = "steward" /\ Reported("on_ingest_audit") \cap About[d.what] # {}
<1>1. d \in Defects BY DEF AuditInv, StandingNow
<1>2. audit.kind \in Kinds BY KindTyped
<1>3. ASSUME NEW q \in DOMAIN NextPhase[audit.kind], NEW i \in 1..Len(ProbesOf[q]),
             Sees(ProbesOf[q][i], d)
      PROVE  ProbesOf[q][i][1] \in Reported(q)
  <2>1. q \in Phases BY <1>2, PhaseOrder
  <2>2. PhaseNo[q] < PhaseNo["end"] BY <2>1 DEF PhaseNo, Phases
  <2>3. <<q, ProbesOf[q][i]>> \in found BY <1>3, <2>2 DEF AuditInv, Asked, Done
  <2> QED BY <2>3 DEF Reported
<1>4. /\ "l3" \in DOMAIN NextPhase[audit.kind]
      /\ "on_ingest" \in DOMAIN NextPhase[audit.kind]
      /\ audit.kind = "steward" => "on_ingest_audit" \in DOMAIN NextPhase[audit.kind]
  BY <1>2 DEF NextPhase, Kinds
<1>5. ASSUME NEW i \in 1..18, Sees(L3Probes[i], d), L3Probes[i][1] \in About[d.what]
      PROVE  Reported("l3") \cap About[d.what] # {}
  BY <1>3, <1>4, <1>5, L3Table, ReportTables
<1>5b. ASSUME NEW i \in 1..2, Sees(BridgeProbes[i], d)
       PROVE  BridgeProbes[i][1] \in Reported("on_ingest")
  BY <1>3, <1>4, <1>5b, ReportTables, ContractTables
<1>5s. ASSUME audit.kind = "steward", NEW i \in 1..7, Sees(StewardProbes[i], d)
       PROVE  StewardProbes[i][1] \in Reported("on_ingest_audit")
  BY <1>3, <1>4, <1>5s, ReportTables, ContractTables
<1>6. /\ 1 \in 1..18 /\ 2 \in 1..18 /\ 3 \in 1..18 /\ 6 \in 1..18 /\ 7 \in 1..18
      /\ 8 \in 1..18 /\ 10 \in 1..18 /\ 12 \in 1..18 /\ 14 \in 1..18 /\ 15 \in 1..18
      /\ 18 \in 1..18
      /\ 2 \in 1..2 /\ 1 \in 1..7 /\ 2 \in 1..7
  OBVIOUS
<1>7. CASE d.what = "node"
  <2>1. PICK n \in nodes : d = NodeDefect(n) /\ n.graph # None /\ ~NodeConforms(n)
    BY <1>1, <1>7, DefectShape
  <2>2. d.node = n BY <2>1 DEF NodeDefect
  <2>3. ASSUME NEW p, NodeSeen(p, n) PROVE Sees(p, d) BY <1>7, <2>2, <2>3 DEF Sees
  <2>4. CASE n.label \notin Labels
    BY <1>5, <1>6, <1>7, <2>3, <2>4, L3Table DEF NodeSeen, About
  <2>5. CASE n.id = None
    BY <1>5, <1>6, <1>7, <2>3, <2>5, L3Table DEF NodeSeen, About
  <2>6. CASE ~n.valid
    BY <1>5, <1>6, <1>7, <2>3, <2>6, L3Table DEF NodeSeen, About
  <2>7. CASE n.version = "stale"
    BY <1>5, <1>6, <1>7, <2>3, <2>7, L3Table DEF NodeSeen, About
  <2>8. CASE n.graph \in Graphs /\ ~NodeAllowed(n.graph, n)
    <3>1. n.graph = "ebom" \/ n.graph = "routing" \/ n.graph = "sourcing"
      BY <2>8 DEF Graphs
    <3>2. \E i \in {8, 10, 12} : L3Probes[i] = <<"domain_node", n.graph>>
      BY <3>1, L3Table
    <3>3. PICK i \in 1..18 : L3Probes[i] = <<"domain_node", n.graph>> BY <3>2
    <3>4. Sees(L3Probes[i], d) BY <2>3, <2>8, <3>3 DEF NodeSeen
    <3>5. L3Probes[i][1] \in About[d.what] BY <1>7, <3>3 DEF About
    <3> QED BY <1>5, <1>7, <3>4, <3>5
  <2> QED BY <1>7, <2>1, <2>4, <2>5, <2>6, <2>7, <2>8 DEF NodeConforms
<1>8. CASE d.what = "key"
  BY <1>5, <1>6, <1>8, L3Table DEF Sees, About
<1>9. CASE d.what = "rel"
  <2>1. PICK r \in rels : d = RelDefect(r) /\ r.source.graph # None /\ r.target.graph # None
    BY <1>1, <1>9, DefectShape
  <2>2. d.rel = r BY <2>1 DEF RelDefect
  <2>3. CASE r.source.graph # r.target.graph
    BY <1>5, <1>6, <1>9, <2>2, <2>3, L3Table DEF Sees, RelSeen, About
  <2>4. CASE r.source.graph = r.target.graph
    BY <1>5, <1>6, <1>9, <2>1, <2>2, <2>4, L3Table DEF Sees, RelSeen, InGraph, About
  <2> QED BY <2>3, <2>4
<1>10. CASE d.what = "row"
  <2>1. Watched(d.id) /\ ~fileless BY <1>10 DEF Promised
  <2>2. Sees(BridgeProbes[2], d) BY <1>10, <2>1, ContractTables DEF Sees
  <2> QED BY <1>6, <1>10, <1>5b, <2>2, ContractTables
<1>11. CASE d.what = "end"
  <2>1. audit.kind = "steward" BY <1>11 DEF Promised
  <2>2. Sees(StewardProbes[1], d) BY <1>11, ContractTables DEF Sees
  <2>3. "orphan_edge_endpoints" \in Reported("on_ingest_audit")
    BY <1>6, <1>5s, <2>1, <2>2, ContractTables
  <2> QED BY <1>11, <2>1, <2>3 DEF About
<1>12. CASE d.what = "stamp"
  <2>1. audit.kind = "steward" BY <1>12 DEF Promised
  <2>2. Sees(StewardProbes[2], d) BY <1>12, ContractTables DEF Sees
  <2>3. "ingest_metadata_complete" \in Reported("on_ingest_audit")
    BY <1>6, <1>5s, <2>1, <2>2, ContractTables
  <2> QED BY <1>12, <2>1, <2>3 DEF About
<1>13. CASE d.what = "shape"
  <2>1. audit.n10s BY <1>13 DEF Promised
  <2>2. Sees(L3Probes[18], d) BY <1>13, <2>1, L3Table DEF Sees
  <2>3. Len(ProbesOf["l3"]) = 18 /\ ProbesOf["l3"][18] = L3Probes[18]
    BY L3Table, ReportTables
  <2>4. ProbesOf["l3"][18][1] \in Reported("l3") BY <1>3, <1>4, <1>6, <2>2, <2>3
  <2>5. "shacl_validate" \in Reported("l3") BY <2>3, <2>4, L3Table
  <2> QED BY <1>13, <2>5
<1> QED BY <1>1, <1>7, <1>8, <1>9, <1>10, <1>11, <1>12, <1>13, DefectShape

\* No audit passes a store over a promised defect that stood throughout.
THEOREM NeverMissed == Spec => []NothingMissed
<1>1. TypeOK /\ AuditInv => NothingMissed
  <2> SUFFICES ASSUME TypeOK, AuditInv, verdict = "pass", NEW d \in standing, Promised(d)
               PROVE  FALSE
    BY DEF NothingMissed
  <2>1. phase = "end" /\ Passed BY DEF AuditInv, Verdicts
  <2>2. /\ Reported("l3") = {} /\ Reported("on_ingest") \cap {"bridge_master"} = {}
        /\ audit.kind # "gate" => Reported("on_ingest_audit") = {}
    BY <2>1 DEF Passed, L3Passed, QualityPassed, QualityViolations
  <2> QED BY <2>1, <2>2, AllFound
<1> QED BY <1>1, TypeCorrect, AuditInvHolds, PTL

\* No audit fails a store that was never wrong, unless a bridge check straddled
\* an exchange of the file.
THEOREM NeverFalselyAlarmed == Spec => []NoFalseAlarm
<1>1. TypeOK /\ AuditInv => NoFalseAlarm
  <2> SUFFICES ASSUME TypeOK, AuditInv, verdict = "fail", ever = {}, ~ShaclMissing
               PROVE  OnlyBridge
    BY DEF NoFalseAlarm, OnlyBridge
  <2>1. CASE found # {} BY <2>1 DEF AuditInv, FoundReal
  <2>2. CASE found = {}
    <3>1. ~Passed BY DEF AuditInv, Verdicts
    <3>2. \A ph : Reported(ph) = {} BY <2>2 DEF Reported
    <3>3. QualityViolations = {} BY <3>2 DEF QualityViolations
    <3> QED BY <3>1, <3>2, <3>3 DEF Passed, L3Passed, QualityPassed
  <2> QED BY <2>1, <2>2
<1> QED BY <1>1, TypeCorrect, AuditInvHolds, PTL

\* The steward reads of every promised defect that stood throughout, but for
\* those of shapes.
THEOREM StewardAlwaysTold == Spec => []StewardTold
<1>1. TypeOK /\ AuditInv => StewardTold
  <2> SUFFICES ASSUME TypeOK, AuditInv, audit.kind = "steward", verdict \in {"pass", "fail"},
                      NEW d \in standing, Promised(d), d.what # "shape"
               PROVE  Listed \cap About[d.what] # {}
    BY DEF StewardTold
  <2>1. phase = "end" BY DEF AuditInv, Verdicts
  <2>2. CASE d.what \in {"node", "key", "rel"}
    <3>1. Reported("l3") \cap About[d.what] # {} BY <2>1, <2>2, AllFound
    <3>2. "shacl_validate" \notin About[d.what] BY <2>2 DEF About
    <3> QED BY <3>1, <3>2 DEF Listed
  <2>3. CASE d.what = "row"
    <3>1. "bridge_master" \in Reported("on_ingest") BY <2>1, <2>3, AllFound
    <3> QED BY <2>3, <3>1 DEF Listed, QualityViolations, About
  <2>4. CASE d.what \in {"stamp", "end"}
    BY <2>1, <2>4, AllFound DEF Listed
  <2> QED BY <2>1, <2>2, <2>3, <2>4, AllFound
<1> QED BY <1>1, TypeCorrect, AuditInvHolds, PTL
==============================================================================
