# A specification of the supply-chain impact analysis agent

TLA+ models of the repository's behaviour, checked with TLC on small instances
and, where it matters most, proved with TLAPS for every instance.
`PROJECT.json` maps each definition to the lines it models and lists runs,
mutants, findings, hazards and theorems.

## The system

Three domain graphs (`ebom`, `routing`, `sourcing`) live in one Neo4j database
and are told apart by a node property. A DuckDB file holds the component
master, the table of component ids that bridges the domains. Scripts load both;
an agent server joins the domains to say which products a supplier disruption
reaches.

| part | state it keeps | operations | hard parts | correct when |
|---|---|---|---|---|
| ontology, registry | none | allowed labels, relationship types, owning graphs | – | the partition is respected |
| domain stores, facade (`app/storage`, `graph_store.py`) | nodes and relationships per graph; batch metadata per store | `configure_ingest`, `add_node`, `add_edge`, `reset_neo4j`, reads | auto-commit statements, MERGE without constraint, check and write in two sessions, fan-out to several graphs | nothing dangles, nothing is half written after success, metadata is on each node |
| component master | DuckDB file, one writer process | open, upsert, close; scripts unlink the file | file lock, unlink under an open connection, two databases without a common transaction | it knows each component the graph links to a supplier |
| load scripts, connectors, demo loader | none | fixed sequences of store calls | crash, restart, interleaving, order of endpoints | any order and any interleaving works |
| federation composer, analysis, gates | none | queries, as_of snapshots, master gate, merge, view, counts | an answer is made of a dozen reads of changing stores; a shared connection | rows are real, gates judge what they claim to |
| exploration, graph view | none | path search, neighbourhood of an answer | two reads | the path is shortest; the view shows the answer |
| ingest audits and gates (`app/validation`, `ontology/l3_audit.py`) | none | the gate of a loader, the steward's job: some forty queries and a look into the master | the queries read different moments of changing stores; one exception ends all | a pass means that nothing was wrong throughout, a failure that something was |
| agent run | planned calls, results, summary | planning, tool calls, retry, grounding gate, fallback | adversarial language model, partial failure | answers cite tool results; errors are mapped |
| agent server | context, DuckDB connection | start, stop, handlers on a thread pool | shared connection, restart | each request is answered from one context |
| telemetry | observations of a run, in the client until they are flushed | record a generation, a plan, the run; flush | a run leaves by one of four ways; a replan exchanges what is traced | the operator can see what an answer came from |
| web client | page state | one request per panel at a time | a failed request | the page shows the answer to its question |
| contract, code generation, formatting, shell scripts | none or immutable | text | – | not modelled, see below |

Loaders and the server do not talk to each other: they meet in the stores. A
script calls the facade or a domain store, these issue Neo4j statements; the
server's handlers call the composer, which queries the domain stores one session
at a time and the DuckDB connection the context opened at start-up.

## Modules

| module | models | checked by | proved |
|---|---|---|---|
| `BomOntology` | `ontology/schema.py`, `domains/registry.py`: labels, types, ownership | all | – |
| `StoreCalls` | the calls a script makes on a store | ingest runs | – |
| `IngestScripts` | each loading script as its sequence of calls | ingest runs | `IngestScriptsProof` |
| `DomainIngest` | how the calls execute: one action per statement, for any number of processes | ingest runs | `DomainIngestProof` |
| `BomCatalog` | what the stores promise a reader; abstract | `rebuild` | `ImplementsCatalog` |
| `ComponentReplication` | what the facade promises about one component; abstract | `connectors` | `ImplementsReplication` |
| `IngestOrder` | no code: what the order of a script's calls must be for each guarantee | `rebuild` evaluates it on the scripts | `IngestOrderProof` |
| `IngestAudit` | the gate after a load and the steward's job, query by query, over stores that change meanwhile | `audit` | `IngestAuditProof` |
| `FederatedJoin` | `compose_join` and `analyze_supplier_disruption`, read by read, over `BomCatalog` | join runs | `FederatedJoinProof` |
| `AgentTrace` | `telemetry.py` over `AgentRun`: what each step of a run reports | `agent` | `AgentTraceProof` |
| `AgentRun` | one `POST /v1/agent/run`: planner, tools, replan, grounding gate, fallbacks, error mapping, with an arbitrary language model | `agent`, `formed_ids`, `evidence` | `AgentRunProof` |
| `MCIngest`, `MCRebuild`, `MCAudit`, `MCFederation`, `MCAgent` | small instances | – | – |

### The write path

`DomainIngest` has a process per script, with a program counter over its
`Program` (built by `IngestScripts` in the order of the loops in the code). Its
state follows the code's: `store[g][n][s]` is the copy of node `n` in graph `g`
that process `s` created, with its ingest metadata; `edges`, the relationships;
`masterFile` and `master`, the DuckDB file; `configured`, the batch metadata of
a process's domain stores; `handle`, its DuckDB connection, `unlinked` when the
file lost its name while open.

- `add_node` is `RejectNode`, or `MatchNode` followed by `CreateNode` or
  `UpdateNode` (or `UpdateNodeGone`, when a reset came between). MERGE is two
  steps because Neo4j takes no lock on what does not exist yet and the
  repository creates no uniqueness constraint. The write falls back on the wall
  clock when the store was not configured, as `stamp_node_properties` does.
- `add_edge` is `RejectEdge`, or `CheckEdge` (the read session) followed by
  `MergeEdge` (the write session), which silently does nothing when an endpoint
  has gone.
- `Reset` is one DETACH DELETE, for one graph. `Open` raises while another
  process holds the file (`OpenLocked`). `Unlink` leaves open connections on the
  nameless file. `Fail` is a crash or driver error between any two statements;
  `Start` runs a script again.

What a script may rely on depends on the order of its own calls only.
`IngestOrder` says it per guarantee: `ConfiguresFirst` (a domain is configured
before it gets nodes), `AddsInOrder` (endpoints before relationships, master
opened before its rows, nothing reset or unlinked), `PartsInOrder` (the facade's
order of copies), `OpensForRows` and `MasterFirst` (rows before SUPPLIED_BY,
and the sourcing graph cleared before the file is unlinked), `Rebuilds` (a script
clears only what it has not written yet) and `Bystands` (one that clears nothing
and whose writes, if any, are refused). `MCRebuild` evaluates them on the
programs of `IngestScripts`, and `IngestScriptsProof` proves them of the programs
over any dataset. Some conditions
fail for a script, which `MCRebuild` evaluates too. The production connectors do
not meet `ConfiguresFirst` (`UnstampedScripts`): each configures its own domain
store, but the facade writes components to all three, so the copies in the other
two have no `source_system` and the wall clock as `as_of`, where
scripts/ingest/README.md:3-5 has metadata "stamped on every node".
`explore_graph.py` does not meet `OpensForRows`, and so not `Rebuilds`, which the
run `master_lost` shows. And the sourcing connector does not meet `MasterFirst`: it writes no master rows and relies on others for them, so only
the bridge check of a gate tells whether they are there. `BridgeKept` assumes
one script that writes suppliers and meets it.

Bounds: `MaxRuns` starts of each script, one or two components, one product,
process and supplier. Two runs of a script are what a crash and a retry need;
two components are what an order between components needs. What is not bound
to the size is proved, see below.

Fairness: a running script takes its next step (`WF_vars(Step(s))`), since every
call returns or raises. A server in `Servers` never has to end, and nothing is
assumed about starts and crashes.

### The ingest audit

`IngestAudit` has one audit: the gate that a loader runs after its load
(`pipeline_gate.py`: an L3 report, a second one, the `on_ingest` checks) or the
steward's job (`ingest_audit_pipeline.py`: L3, `on_ingest`,
`on_ingest_audit`). Each report is a table of probes (`L3Probes`,
`BridgeProbes`, `StewardProbes`), each probe one auto-commit statement and one
action: `RunCheck` collects `Violating(Probe)` of the stores as they are at that
moment. `FindPlugin` and `CountScoped` are the two ways around SHACL,
`ReadBridgeIds` and `LookUpMaster` the two halves of the bridge check,
`PayloadRaises`, `MasterLocked` and `QueryFails` the exceptions. Between any
two of them anybody may write: nodes and relationships of any kind a Cypher
writer can leave behind, and a process that fills, closes or unlinks the master.

`Defects` says what is wrong with the stores at one moment, independently of the
probes. `standing` holds the defects that were there at each moment of the audit,
`ever` those of some moment. What is required: an audit that passes had no
standing defect among those it is meant to see (`NothingMissed`), one that fails
had one at some moment (`NoFalseAlarm`), and a failed report of the steward names
each one that stood (`StewardTold`). The properties leave out what the code does
not look at, and it is worth knowing what that is: nodes of an unregistered
graph_id pass; a relationship from an unscoped node to a scoped one is seen by no
check; components beyond the first 500 ids are not looked up; without a master
file the bridge check passes; without the plugin shapes are not looked at. When
the file is exchanged between reading ids and looking them up, ids are reported
that were never missing. `NoFalseAlarm` excepts that and no more: the file was
gone for a while (`fileless`) and the bridge check is all that failed.

A node has two verdicts of its own, since the two validators do not agree:
`valid` is Pydantic's, `shaped` is SHACL's. A supplier without `risk_level` is
valid (schema.py:30 fills in Medium) and violates its shape
(bom-shapes.ttl:126-131); `ShapeDefect` is that. The exported steward report
leaves SHACL's findings out, so it can fail with an empty list, and `StewardTold`
says nothing of these defects.

Bounds: one change during the audit (`MaxChanges` = 1), any of them between any
two probes, starting from a store with one thing wrong of each kind, or none;
`BridgeLimit` = 2 of three component ids. One change is what it takes to create
or remove a defect behind a probe; the theorems hold for any number.

### The federated join

`FederatedJoin` has requests that go through the steps of the code: sourcing
query, ebom query, as_of snapshot of each, master gate, graph view (nodes of
three graphs, then relationships of three graphs), routing query, supplier
counts. Each is one session, so each is one action, and loaders act between
any two. The loaders' actions are those of `BomCatalog` with an `as_of` on each node copy: `DomainIngest` is proved to
implement `BomCatalog`, so whatever scripts do to the stores is among them.

Requests in `Shared` belong to the server. Their gate is two actions,
`GateExecute` and `GateFetch`, on one connection: DuckDB's Python connection
keeps the result of its latest `execute`, and a `fetchall` takes what is left of
it. This is the library's behaviour and not in this repository. Other requests
belong to a program like `scripts/demo_federation.py`, which opens the file
read-only (`GateReadOnly`), or passes the gate unchecked when there is no file.
`StopServer` is a shutdown or crash and takes the server's requests with it.

What the report recommends is built from the same reads: `Products`, `Problems`
and `Mitigations` hold what findings and mitigations name. They are given even
when the gate rejected the join, so `ReportReaches` compares them with what the
disruption reaches and not with the rows.

`joinAtStart` and `since` are history: the join when the request came, and
whether loaders have since done nothing, something, or a reset.

Bounds: `Loaded` and `Cleaned` say which graphs loaders write and reset in a
run, `MaxTime` how many as_of values there are. `MCJoin` has one request and two
suppliers, which is what a wrong single-source claim needs; all three graphs are
loaded and only the sourcing graph is reset, since the properties say nothing
once a reset came in between. `MCSharedConnection` has two requests and two
components, so that result sets can differ, and no resets. Deadlock is not
checked in any run: scripts, requests, audits and agent runs end.

### The agent run

`AgentRun` follows `BomAutonomousAgent.run` and the handler around it. `pc` is
the step: `plan`, `planner` (a request to the gateway is under way), `invoke`,
`replan`, `summarize`, `view`, `done`; `planned`, `results` and `summary` are the
local variables of `run`, `status` the HTTP status.

- Planning: `PlanExplicit` (the client sent calls), `PlanHeuristic`,
  `PlanByModel`, then `PlannerAnswers` with any plan of at most `MaxCalls` calls,
  valid, invented or malformed, put through `Reconcile`, or `PlannerFails`.
- `Invoke` and `InvokeFails` run one tool. What it returns is any set of rows of
  the tool's shape (`Returned`), since loaders change the stores as it reads them.
- `Invoked` decides on the replan; `Replan` exchanges calls and results.
- `SummarizeHeuristic`, `SummarizerAnswers` (any text and evidence that the gate
  `Grounded` accepts), `SummarizerRejected` (one it does not: the heuristic
  summary), `SummarizerFails`. Only `RuntimeError` falls back.
- `Raise` is an exception that leaves `run`; `StatusOf` is the handler's mapping.

A text is the set of the entity ids in it, which is all that the gate looks at in
explanations and claims. `GroundPrefixes` is the part of the vocabulary that
comes from `findall` on a pattern with a group. An explanation has two such
sets: the response shows it without its bold marks, which are removed after the
gate (user_response.py:37), so `SUP-**999**` has no id for the gate and one for
the user. `Formed` are such ids; `AnswerGrounded` excepts them and nothing else,
and the run `formed_ids` refutes it without the exception.

`Failures` is what a tool may raise. An impact analysis puts the component ids
it found into further queries, and `cypher_executor.py` refuses ids with other
characters than `[A-Za-z0-9_-]` and queries with a word like SET in them: a
`ValueError`, hence 400, though the client sent nothing wrong. So `NoKeyNeeded`
allows 400 without a gateway, where an impact analysis was planned.

`AgentTrace` superposes the tracer: each of its actions is one of `AgentRun` with
what it records. `ended` holds observations that wait in the client, `sent` those
that the operator can see; `Reply` is the `finally` block with its flush.
`Tracing` says whether Langfuse is configured (a `NullRunTracer` otherwise). A
run that fails never ends its root observation, although docs/observability.md:106
has each run create a trace; its planning and generations do arrive, which is
what `PlanReachesOperator` says.

Fairness: the run takes its next step (`WF` of the whole next-state relation),
since it is straight-line code on one thread: each call returns or raises, and
requests to the gateway have a timeout (`timeout_sec`, llm_client.py).

Bounds: plans of `MaxCalls` = 2 calls (the replan applies to plans of one call
only), texts of the language model with one id, marks removed or not, and one
citation at most, of one entity: an ungrounded id in a larger text is rejected by
the same test. One supplier is
mentioned by no goal, for the language model to invent.

## Runs

| run | asks | result |
|---|---|---|
| `seed` | `seed_complex_bom.py --reset`, crashed and run again beside an agent server and a loader with a foreign label | master before SUPPLIED_BY, metadata on every node, a completed run is complete, no script hangs |
| `connectors` | seed and sourcing connector at once, crashes, no resets | no `add_edge` is refused, completed runs are complete, components are replicated in a fixed order (refinement of `ComponentReplication`) |
| `rebuild` | two scripts that both reset and reload; the conditions of `IngestOrder` on all scripts | relationships never dangle; refinement of `BomCatalog` |
| `join` | one analysis while loaders add, reset and reload | rows lie between the join at the start and the join now; the view shows the rows; recommendations leave no product out and name only what the disruption reaches; "only S on record" is true at the count (all while loaders only add) |
| `audit` | the gate or the steward's job while somebody writes | what stood throughout is found and, but for shapes, reported; a failure has a reason, unless the bridge check straddled an exchange of the file |
| `shared_connection` | two requests on the server's connection, unlink, reload, restart | the master gate never passes an unknown component |
| `agent` | one agent run, any language model, any failure | entities in an answer come from its calls, but for ids formed after the gate; results pair with calls; rows found are cited and never given up; invented names reach the stores only without a heuristic plan; without a gateway only `mode=llm` is refused, and only an impact analysis ends with 400; each run ends; the trace has the calls, rows and words behind an answer, and the plan of each run that reached a tool |
| `master_lost` | `explore_graph.py --seed --reset` | **violated**: it opens the file it then unlinks |
| `spurious_reject` | two requests on the server's connection | **violated**: a join is rejected although all ids are in the master |
| `stale_join` | one undisturbed analysis of domains of different age | **violated**: max(as_of) hides a stale supplier; no warning |
| `formed_ids` | the explanation of one agent run | **violated**: "SUP-\*\*999\*\*" passes the gate, and is shown as SUP-999 |
| `evidence` | the gate of one agent run | **violated**: a cited value "SUP-999" that no tool returned is accepted, because "SUP" is in the vocabulary |

Each property of a passing run has a mutant of the code that breaks it, defined
beside the definition it replaces.

## Theorems

All hold for any ids, any number of processes and requests, and any bounds.

`DomainIngestProof`
- `TypeCorrect`: `Spec => []TypeOK`.
- `NoDanglingEdge`: `Spec => []EdgeEndpointsPresent`. Inductive as it stands,
  with the type invariant: a relationship is written only where both ends match
  at that moment, updates keep nodes, and a reset takes the relationships of its
  graph along. The check that `add_edge` made before plays no part.
- `ImplementsCatalog`: `Spec => CatalogSpec`. Needs one more invariant,
  `MatchedAllowed`: a process past the read half of `add_node` holds a label that
  its graph owns. Each action maps to one catalogue action or a stutter.

`IngestOrderProof`, for programs that meet the conditions of `IngestOrder`. Each
invariant says what the calls that the present run of a script has made have
left in the stores, so that the condition on the program gives what the next
call needs:
- `Stamped`: `MetadataComplete`, from `ConfiguredInv`.
- `NeverRejected`: `NoRejection`, and `NothingUndone`: `CompletedRunComplete`,
  from `AddInv`, for scripts that only add. `NothingUndone` matters because the
  MERGE of `add_edge` may match nothing without a word.
- `ImplementsReplication`: `ReplicationSpec`, for such scripts with copies in
  the facade's order.
- `BridgeKept`: `SuppliedByInMaster`, from `MasterInv`: the connection is on the
  named file when rows are inserted, rows outlive the links to suppliers, and no
  link is left when the file is unlinked.
- `RebuildComplete`: `CompletedRunComplete` where one script (`SoleBuilder`)
  clears before it builds. `PerformedBy` says that the effects of the calls made
  so far are still there, though the script resets and unlinks: nothing that it
  clears has been written by the present run, and nobody beside it writes.
- `RunsBounded`: a run of a script of n calls takes at most 2n+2 steps, and no
  step of anybody else raises that number. This is the part of `ScriptsEnd` that
  is not about fairness: no call is tried again.

`IngestScriptsProof`, for any dataset whose rows name suppliers, products and
processes of it (`DataAssumption`, as those of `sample_data.py` do), and any
number of processes:
- `RepositoryStamped`, `RepositoryNeverRejected`, `RepositoryNothingUndone`,
  `RepositoryReplicates`, `RepositoryBridgeKept`, `RepositoryRebuilt`: the
  guarantees above, of the scripts that the repository has. The hypotheses list
  the scripts that may run side by side, and leave out those that fail a
  condition: the connectors for metadata, and the one of `master_lost`.
- A script is a concatenation of groups of calls, one for each element of its
  data, so what it does is found by induction on the data. `LeastElement` and
  `Induction` get it from the library's `NatLessThanWellFounded`, with the
  predicate as a set; `FlattenRange` and `FlattenClosed` carry it to
  `FlattenSeq`. The order conditions follow from the order of the groups: all
  nodes of a domain before its relationships, the master opened before the rows.

`IngestAuditProof`
- `TypeCorrect`: `Spec => []TypeOK`.
- `NeverMissed`, `NeverFalselyAlarmed`, `StewardAlwaysTold`: the three properties
  of `IngestAudit`. `AuditInv` says that each probe already passed has found
  every standing defect that it sees, with the ids in hand as the half of the
  bridge check that is done; a table lemma per kind of defect shows that some
  probe sees it, in each report that has to. Conversely `FoundReal` says that
  whatever was found points to a defect that existed, SHACL's findings
  (`ShapesSeen`) included, or comes from the bridge check alone.

`FederatedJoinProof`
- `TypeCorrect`: `Spec => []TypeOK`.
- `GateSound`: `Spec => []MasterGateSound`. `MasterGateSound` speaks of answered
  requests only and is not inductive; `GateInv` adds that the result set holds
  only rows of the file the connection has open, whoever asked for them, and
  `ConnRowsStable` that nobody else writes to that file. So a stolen result set
  can make the gate reject, never pass.
- `JoinBracketed`: `Spec => []RowsBracketed`. `BracketInv` says for each stage
  what the queries so far have secured; `GrowsUnlessCleared` that relationships
  go only by a reset, which the request's history records.
- `ViewComplete`, `ReportSound`, `SingleSourcesTrue`: `ViewShowsRows`,
  `ReportReaches` and `SingleSourceTrue`, from longer staged invariants of the
  same kind.
- `LoneRequestJudgedRightly`: `[]RejectsOnlyMissing` if the server has one
  analysis under way at a time. So the false rejection that `spurious_reject`
  finds has one cause, the shared connection: neither restarts nor what becomes
  of the file can make the gate contradict the master that the server has open.
- `EvenGraphsWarned`: `[](Even => StaleJoinWarned)`, where `Even` says that the
  nodes of each graph come from one batch. So comparing the newest `as_of` of
  the graphs is sound as long as a graph is reloaded as a whole, and
  `stale_join` needs the facade's partial restamping.

`AgentRunProof`
- `TypeCorrect`: `Spec => []TypeOK`.
- `Paired`: `Spec => []ResultsPaired`. `PairInv` says it while results are being
  collected, and that the replan is reached only with a heuristic plan.
- `AnswersGrounded`: `Spec => []AnswerGrounded`, for any length of plans and any
  ids. `SummaryInv` says of a summary that it either begins with "Goal:", so
  that the user is shown the report instead, or names only ids of the calls
  before its marks are removed.
- `RowsAreCited`, `InventionsHeldBack`, `KeylessRuns`, `RowsNeverGivenUp`:
  `RowsCited`, `InventedOnlyUnplanned`, `NoKeyNeeded` and the action property
  `RowsKept`. `KeyInv` has the plan of a run without a gateway be the
  heuristic's, whose path queries hold no stored ids.
- `RunBounded`: a run takes at most `MaxCalls` + 7 steps. `StepsLeft` is a number
  that each step lowers: one retry, one fallback, and no way back.

`AgentTraceProof`
- `TracedRunIsRun`: `TracedSpec => Spec`, so all of `AgentRunProof` holds of
  traced runs.
- `AnswersTraced`, `PlansTraced`: `TraceTellsAnswer` and `PlanReachesOperator`.
  `TraceInv` says what has ended by each step, sent or not: the plan while the
  tools run, no tool before the answer, the model's words once a summary has them.

They assume the named assumptions of the constants, and of Neo4j and DuckDB
what the modules say they do: a statement is atomic but for MERGE, the file lock
excludes other processes.

Only model-checked: `ScriptsEnd` and `RunEnds`. Liveness under fairness is out of
the prover's reach; `RunsBounded` and `RunBounded` prove that the steps are
finitely many, and what TLC adds is that a next one is always possible. The
runs that expect a violation are counterexamples and need no proof; of two of
them the theorems say under which condition the property does hold.

## Abstractions

In `AgentRun`, citations have no pointer; a value is the ids in it, so that one
without ids counts as grounded, while the code also accepts a value that shares
any other word of three characters with the results (grounding.py:117-119); and what the language model may write is larger than its prompt asks for.

Payloads are reduced to label, id and ingest metadata; Pydantic validation
happens before any statement and is left out, but for the `valid` of a node in
`IngestAudit`. as_of is a number in `FederatedJoin` and "batch or wall clock" in
`DomainIngest`. Node keys are unique in `FederatedJoin`; two loaders at once can
create one twice (`MatchNode`, `CreateNode`), which the audit's
`duplicate_node_key` finds. The impact score, costs and the samples that a
report shows, with their limits, are left out: nothing is decided by them.

## Not modelled

- The search of `shortest_supply_path` (graph_store.py:95). No relationship the
  ontology allows leaves a process, and none enters a component, so a path from
  a component to a product has one hop, where
  skills/bom-graph-explorer/references/workflows.md:27 speaks of
  component, process, product. `AgentRun` lets the tool return any path.
- Browsing handlers of the server: single reads without state.
- Connector lookups and bundles, contract and playbooks: immutable
  configuration, which appears as constants where it is applied.
- Code generation, exports, serialisation and the wording of reports and
  prompts: text, in which the properties have no interest.
- SHACL's shapes of relationships, and what exactly a shape asks of a node:
  `shaped` says whether it passes, `ShapeViolated` counts it.
- The web client (one request per panel, its button disabled meanwhile), the
  interactive demo scripts and the shell scripts around docker compose: no
  state of the program beyond what the components above keep.

## Plan

Done: write path, its abstractions and the order of calls; federated join and
report; ingest audit; agent run and its trace; theorems for every safety
property of a passing run, and for the repository's scripts over any dataset.
What could follow:

1. `FederatedJoin` over node keys that exist twice, to say what rows look like
   before an audit has found them.
2. The audit composed with `DomainIngest` instead of arbitrary writers: which
   defects the repository's own scripts can leave, and for how long.
3. Paths with more relationships, should the ontology gain one that leaves a
   process.
