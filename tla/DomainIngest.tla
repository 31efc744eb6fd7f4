----------------------------- MODULE DomainIngest -----------------------------
(***************************************************************************)
(* The write path: scripts that fill the three domain graphs and the       *)
(* component master, each store call in the transactions it really uses.   *)
(*                                                                         *)
(* Neo4j calls are auto-commit statements (session.run outside any         *)
(* explicit transaction), so other scripts, and crashes, come between any  *)
(* two of them.  The database has no uniqueness constraint, so a MERGE     *)
(* looks for the node and creates it in two steps that do not exclude      *)
(* each other: two scripts that both found nothing both create.  DuckDB    *)
(* lets one process at a time open a file, commits each INSERT, and keeps  *)
(* writing to a file that was unlinked while it was open.                  *)
(*                                                                         *)
(* Left out: payload properties other than the ingest metadata, and calls  *)
(* whose payload the Pydantic models reject (they raise before any         *)
(* transaction).                                                           *)
(***************************************************************************)
EXTENDS StoreCalls, Naturals

CONSTANTS
  Scripts,   \* the script processes
  Program,   \* Program[s]: the store calls script s makes, in order
  Servers,   \* the scripts that stay until somebody ends them
  MaxRuns    \* bound: how often a script is started

ASSUME ProgramAssumption == Program \in [Scripts -> Seq(StoreCall)]
ASSUME ServersAssumption == Servers \subseteq Scripts
ASSUME MaxRunsAssumption == MaxRuns \in Nat

VARIABLES
  store,       \* store[g][n][s]: the copy of node n in graph g that s created
  edges,       \* the relationships, by key
  masterFile,  \* the path data/bom.duckdb names a file
  master,      \* the components with a row in that file
  status,      \* status[s]: where the process of script s is
  runs,        \* runs[s]: how often s was started
  pc,          \* pc[s]: index of the next store call of s
  seen,        \* seen[s]: the read half of the current call has run
  found,       \* found[s]: the node copies it found
  configured,  \* configured[s]: domain stores with batch metadata set
  handle       \* handle[s]: the DuckDB connection of s

procVars == <<status, runs, pc, seen, found, configured, handle>>
vars == <<store, edges, masterFile, master, procVars>>

------------------------------------------------------------------------------
(* Node copies and their metadata *)

\* as_of is the batch timestamp of configure_ingest or the wall clock of the
\* first write; source tells whether source_system is stored.
Stamp  == [asOf : {"batch", "wallclock"}, source : BOOLEAN]
NoCopy == [asOf |-> "none", source |-> FALSE]

Copies(g, n)  == {s \in Scripts : store[g][n][s] # NoCopy}
Present(g, n) == Copies(g, n) # {}

EndpointsPresent(e) == Present(GraphOf(e), e.source) /\ Present(GraphOf(e), e.target)

\* stamp_node_properties for a new node.
NewStamp(s, g) ==
  [asOf   |-> IF g \in configured[s] THEN "batch" ELSE "wallclock",
   source |-> g \in configured[s]]

\* SET n += props on an existing one: an absent source_system keeps the old.
Restamp(s, g, old) ==
  [asOf |-> NewStamp(s, g).asOf, source |-> old.source \/ g \in configured[s]]

------------------------------------------------------------------------------
(* Script processes *)

TypeOK ==
  /\ store \in [Graphs -> [Node -> [Scripts -> Stamp \cup {NoCopy}]]]
  /\ edges \in SUBSET Edge
  /\ masterFile \in BOOLEAN
  /\ master \in SUBSET Components
  /\ status \in [Scripts -> {"idle", "running", "done", "rejected", "failed"}]
  /\ runs \in [Scripts -> 0..MaxRuns]
  /\ pc \in [Scripts -> Nat]
  /\ \A s \in Scripts : pc[s] \in 1..(Len(Program[s]) + 1)
  /\ seen \in [Scripts -> BOOLEAN]
  /\ found \in [Scripts -> SUBSET Scripts]
  /\ configured \in [Scripts -> SUBSET Graphs]
  /\ handle \in [Scripts -> {"closed", "live", "unlinked"}]

Init ==
  /\ store = [g \in Graphs |-> [n \in Node |-> [s \in Scripts |-> NoCopy]]]
  /\ edges = {}
  /\ masterFile = FALSE
  /\ master = {}
  /\ status = [s \in Scripts |-> "idle"]
  /\ runs = [s \in Scripts |-> 0]
  /\ pc = [s \in Scripts |-> 1]
  /\ seen = [s \in Scripts |-> FALSE]
  /\ found = [s \in Scripts |-> {}]
  /\ configured = [s \in Scripts |-> {}]
  /\ handle = [s \in Scripts |-> "closed"]

Call(s) == Program[s][pc[s]]

\* Script s executes a call of this kind: from its start, or the write half of
\* one whose read half has run.
At(s, kind) ==
  /\ status[s] = "running"
  /\ pc[s] <= Len(Program[s])
  /\ Call(s).kind = kind

Starting(s, kind) == At(s, kind) /\ ~seen[s]
Writing(s, kind)  == At(s, kind) /\ seen[s]

\* The call returned.
Advance(s) ==
  /\ pc' = [pc EXCEPT ![s] = @ + 1]
  /\ seen' = [seen EXCEPT ![s] = FALSE]
  /\ found' = [found EXCEPT ![s] = {}]
  /\ UNCHANGED <<status, runs>>

\* The read half of the call returned.
HasRead(s, copies) ==
  /\ seen' = [seen EXCEPT ![s] = TRUE]
  /\ found' = [found EXCEPT ![s] = copies]
  /\ UNCHANGED <<status, runs, pc, configured, handle>>

\* The script ends, and with it its process: `finally' blocks close the DuckDB
\* connection, and the domain stores with their batch metadata are gone.
Stop(s, how) ==
  /\ status' = [status EXCEPT ![s] = how]
  /\ pc' = [pc EXCEPT ![s] = 1]
  /\ seen' = [seen EXCEPT ![s] = FALSE]
  /\ found' = [found EXCEPT ![s] = {}]
  /\ configured' = [configured EXCEPT ![s] = {}]
  /\ handle' = [handle EXCEPT ![s] = "closed"]
  /\ UNCHANGED runs

\* A new process, with domain stores that nothing has configured.
Start(s) ==
  /\ status[s] # "running"
  /\ runs[s] < MaxRuns
  /\ status' = [status EXCEPT ![s] = "running"]
  /\ runs' = [runs EXCEPT ![s] = @ + 1]
  /\ UNCHANGED <<store, edges, masterFile, master, pc, seen, found, configured, handle>>

Finish(s) ==
  /\ status[s] = "running"
  /\ pc[s] = Len(Program[s]) + 1
  /\ Stop(s, "done")
  /\ UNCHANGED <<store, edges, masterFile, master>>

\* A driver error or a crash, before or after any transaction.
Fail(s) ==
  /\ status[s] = "running"
  /\ Stop(s, "failed")
  /\ UNCHANGED <<store, edges, masterFile, master>>

------------------------------------------------------------------------------
(* Neo4jDomainStore *)

Configure(s) ==
  /\ Starting(s, "configure")
  /\ configured' = [configured EXCEPT ![s] = @ \cup {Call(s).graph}]
  /\ Advance(s)
  /\ UNCHANGED <<store, edges, masterFile, master, handle>>

\* add_node raises for a label the domain does not own ...
RejectNode(s) ==
  /\ Starting(s, "node")
  /\ ~NodeAllowed(Call(s).graph, Call(s).node)
  /\ Stop(s, "rejected")
  /\ UNCHANGED <<store, edges, masterFile, master>>

\* ... and otherwise runs one MERGE, whose read ...
MatchNode(s) ==
  /\ Starting(s, "node")
  /\ NodeAllowed(Call(s).graph, Call(s).node)
  /\ HasRead(s, Copies(Call(s).graph, Call(s).node))
  /\ UNCHANGED <<store, edges, masterFile, master>>

\* ... is followed by the creation of a node,
CreateNode(s) ==
  LET g == Call(s).graph IN
  /\ Writing(s, "node")
  /\ found[s] = {}
  /\ store' = [store EXCEPT ![g][Call(s).node][s] = NewStamp(s, g)]
  /\ Advance(s)
  /\ UNCHANGED <<edges, masterFile, master, configured, handle>>

\* or by SET n += props on every copy found.
UpdateNode(s) ==
  LET g == Call(s).graph
      n == Call(s).node
  IN
  /\ Writing(s, "node")
  /\ found[s] # {}
  /\ found[s] \subseteq Copies(g, n)
  /\ store' = [store EXCEPT ![g][n] =
                 [t \in Scripts |-> IF t \in found[s] THEN Restamp(s, g, @[t]) ELSE @[t]]]
  /\ Advance(s)
  /\ UNCHANGED <<edges, masterFile, master, configured, handle>>

\* A copy found was deleted in between: the statement fails.
UpdateNodeGone(s) ==
  /\ Writing(s, "node")
  /\ ~(found[s] \subseteq Copies(Call(s).graph, Call(s).node))
  /\ Stop(s, "failed")
  /\ UNCHANGED <<store, edges, masterFile, master>>

\* add_edge reads all nodes of the domain in one session and raises when an
\* endpoint is missing ...
RejectEdge(s) ==
  /\ Starting(s, "edge")
  /\ ~EndpointsPresent(Call(s).edge)
  /\ Stop(s, "rejected")
  /\ UNCHANGED <<store, edges, masterFile, master>>

CheckEdge(s) ==
  /\ Starting(s, "edge")
  /\ EndpointsPresent(Call(s).edge)
  /\ HasRead(s, {})
  /\ UNCHANGED <<store, edges, masterFile, master>>

\* Mutant: the relationship is written on the strength of the earlier check.
MergeEdgeUnmatched(s) ==
  /\ Writing(s, "edge")
  /\ edges' = edges \cup {Call(s).edge}
  /\ Advance(s)
  /\ UNCHANGED <<store, masterFile, master, configured, handle>>

\* Mutant: the MATCH clauses carry the graph_id of another domain.
MergeEdgeInEbom(s) ==
  LET e == Call(s).edge IN
  /\ Writing(s, "edge")
  /\ edges' = IF Present("ebom", e.source) /\ Present("ebom", e.target)
              THEN edges \cup {e} ELSE edges
  /\ Advance(s)
  /\ UNCHANGED <<store, masterFile, master, configured, handle>>

\* Mutant: the relationship is merged from the target to the source.
MergeEdgeSwapped(s) ==
  LET e == Call(s).edge IN
  /\ Writing(s, "edge")
  /\ edges' = IF EndpointsPresent(e)
              THEN edges \cup {[e EXCEPT !.source = e.target, !.target = e.source]}
              ELSE edges
  /\ Advance(s)
  /\ UNCHANGED <<store, masterFile, master, configured, handle>>

\* ... and writes in another: MATCH MATCH MERGE, which matches nothing, and
\* says nothing, when an endpoint has gone since.
MergeEdge(s) ==
  /\ Writing(s, "edge")
  /\ edges' = IF EndpointsPresent(Call(s).edge) THEN edges \cup {Call(s).edge} ELSE edges
  /\ Advance(s)
  /\ UNCHANGED <<store, masterFile, master, configured, handle>>

\* Mutant: the nodes go, their relationships stay.
ResetWithoutDetach(s) ==
  /\ Starting(s, "reset")
  /\ store' = [store EXCEPT ![Call(s).graph] = [n \in Node |-> [t \in Scripts |-> NoCopy]]]
  /\ Advance(s)
  /\ UNCHANGED <<edges, masterFile, master, configured, handle>>

\* reset_neo4j: DETACH DELETE of one graph_id.
Reset(s) ==
  LET g == Call(s).graph IN
  /\ Starting(s, "reset")
  /\ store' = [store EXCEPT ![g] = [n \in Node |-> [t \in Scripts |-> NoCopy]]]
  /\ edges' = {e \in edges : GraphOf(e) # g}
  /\ Advance(s)
  /\ UNCHANGED <<masterFile, master, configured, handle>>

------------------------------------------------------------------------------
(* ComponentMasterStore and its file *)

\* duckdb.connect and CREATE TABLE IF NOT EXISTS; raises when another process
\* has this file open.
Open(s) ==
  /\ Starting(s, "open")
  /\ \A t \in Scripts : handle[t] # "live"
  /\ masterFile' = TRUE
  /\ handle' = [handle EXCEPT ![s] = "live"]
  /\ Advance(s)
  /\ UNCHANGED <<store, edges, master, configured>>

\* Mutant: connect waits for the lock instead of raising.
OpenLockedWaits(s) ==
  /\ Starting(s, "open")
  /\ \E t \in Scripts : handle[t] = "live"
  /\ UNCHANGED vars

OpenLocked(s) ==
  /\ Starting(s, "open")
  /\ \E t \in Scripts : handle[t] = "live"
  /\ Stop(s, "failed")
  /\ UNCHANGED <<store, edges, masterFile, master>>

\* The INSERT of upsert_component, on whatever file the connection is open.
InsertRow(s) ==
  /\ Starting(s, "row")
  /\ master' = IF handle[s] = "live" THEN master \cup {Call(s).node} ELSE master
  /\ Advance(s)
  /\ UNCHANGED <<store, edges, masterFile, configured, handle>>

\* Path.unlink, if the path exists: open connections keep the nameless file.
Unlink(s) ==
  /\ Starting(s, "unlink")
  /\ masterFile' = FALSE
  /\ master' = {}
  /\ handle' = [t \in Scripts |-> IF handle[t] = "live" THEN "unlinked" ELSE handle[t]]
  /\ Advance(s)
  /\ UNCHANGED <<store, edges, configured>>

Close(s) ==
  /\ Starting(s, "close")
  /\ handle' = [handle EXCEPT ![s] = "closed"]
  /\ Advance(s)
  /\ UNCHANGED <<store, edges, masterFile, master, configured>>

------------------------------------------------------------------------------
Step(s) ==
  \/ Configure(s)
  \/ RejectNode(s) \/ MatchNode(s) \/ CreateNode(s) \/ UpdateNode(s) \/ UpdateNodeGone(s)
  \/ RejectEdge(s) \/ CheckEdge(s) \/ MergeEdge(s)
  \/ Reset(s)
  \/ Open(s) \/ OpenLocked(s) \/ InsertRow(s) \/ Unlink(s) \/ Close(s)
  \/ Finish(s)

Next == \E s \in Scripts : Start(s) \/ Fail(s) \/ Step(s)

\* A script that runs keeps running: every call returns or raises.  Nothing
\* makes a server shut down.
Fairness == \A s \in Scripts \ Servers : WF_vars(Step(s))

Spec == Init /\ [][Next]_vars /\ Fairness
------------------------------------------------------------------------------
(* Safety *)

\* At every moment, between any two transactions, after any crash, a
\* relationship stands between nodes of its own domain graph.  add_edge's
\* check and write are two transactions and reset_neo4j one per graph; what
\* keeps the graph sound is MATCH before MERGE and DETACH before DELETE.
EdgeEndpointsPresent == \A e \in edges : EndpointsPresent(e)

\* A script that ended normally has left nothing undone: each node, each
\* relationship and each master row of its program is there.  The writes of
\* GraphStore.add_node, add_edge and upsert_component report success to their
\* callers and nobody re-reads them.  (Where nobody else resets.)
Effective(c) ==
  CASE c.kind = "node" -> Present(c.graph, c.node)
    [] c.kind = "edge" -> c.edge \in edges
    [] c.kind = "row"  -> c.node \in master
    [] OTHER           -> TRUE

CompletedRunComplete ==
  \A s \in Scripts : status[s] = "done" =>
    \A i \in 1..Len(Program[s]) : Effective(Program[s][i])

\* No script of the repository runs into add_edge's "node does not exist":
\* each writes the endpoints of its own edges first, in the right domain, so
\* the scripts may run in any order or at once.  (Where nobody resets.)
NoRejection == \A s \in Scripts : status[s] # "rejected"

\* docs/graph-contract.md, 6.2: before a SUPPLIED_BY for a component exists,
\* the component exists in the component master.
SuppliedByInMaster ==
  \A e \in edges : e.type = "SUPPLIED_BY" => e.source \in master

\* scripts/ingest/README.md: as_of and source_system of the connector are
\* stamped on every node.
MetadataComplete ==
  \A g \in Graphs, n \in Node : \A s \in Copies(g, n) :
    store[g][n][s] = [asOf |-> "batch", source |-> TRUE]

------------------------------------------------------------------------------
(* Refinement *)

Catalog == INSTANCE BomCatalog WITH
  nodes <- {gn \in Graphs \X Node : Present(gn[1], gn[2])}

\* Whatever the scripts do, a reader sees a BomCatalog.
CatalogSpec == Catalog!Spec

Places(c) ==
  {g \in Graphs : Present(g, c)} \cup {m \in {"master"} : c \in master}

Replication == INSTANCE ComponentReplication WITH
  Parts <- Components,
  places <- [c \in Components |-> Places(c)]

\* Where nobody resets and all writers use the facade, each component is
\* registered in the fixed order ebom, routing, sourcing, master: after any
\* crash and under any interleaving of scripts, its places are a prefix.
ReplicationSpec == Replication!Spec

------------------------------------------------------------------------------
(* Liveness *)

\* A script never hangs, not even while a server keeps the DuckDB file open
\* forever: contention for the file, or a node deleted under it, ends it with
\* an exception.
ScriptsEnd ==
  \A s \in Scripts \ Servers : status[s] = "running" ~> status[s] # "running"
==============================================================================
