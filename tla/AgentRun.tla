------------------------------- MODULE AgentRun -------------------------------
(***************************************************************************)
(* One POST /v1/agent/run: BomAutonomousAgent.run in agent/runner.py, with *)
(* the planner and summarizer of llm_client.py, the grounding gate, the    *)
(* heuristic fallbacks and the error mapping of server.py.                 *)
(*                                                                         *)
(* The language model may answer anything.  The tools read stores that     *)
(* change (FederatedJoin), so each invocation may find rows or none.       *)
(*                                                                         *)
(* A text is the set of the entity ids that ENTITY_ID finds in it, and ids *)
(* are node keys: the prefix of an id is its label.                        *)
(***************************************************************************)
EXTENDS BomOntology, Naturals, FiniteSets

CONSTANTS
  Goals,    \* goals: the ids in the text, and what plan_tools_from_goal plans
  MaxCalls  \* bound: calls in a plan of the client or the language model

SUPPLIER_IMPACT == "bom_supplier_impact"
SUPPLY_PATH     == "bom_supply_path"
Tools           == {SUPPLIER_IMPACT, SUPPLY_PATH}

\* Ids that _valid_tool_call accepts, of entities that need not exist.
ImpactCalls == [tool : {SUPPLIER_IMPACT}, form : {"valid"},
                about : {{s} : s \in Labelled("Supplier")}]
PathCalls   == [tool : {SUPPLY_PATH}, form : {"valid"},
                about : {{c, p} : c \in Components, p \in Labelled("Product")}]

\* Names that are no ids ("SUP-DE-01"), missing arguments, an unknown tool.
OddCalls == [tool : Tools, form : {"invented", "bare"}, about : {{}}]
              \cup [tool : {"unknown"}, form : {"valid"}, about : {{}}]

Calls == ImpactCalls \cup PathCalls \cup OddCalls

Plans == UNION {[1..n -> Calls] : n \in 0..MaxCalls}

\* plan_tools_from_goal finds one call or none, for ids in the text or for those
\* it knows of a demo scenario.
Goal == [ids : SUBSET Node, plan : {<<>>} \cup {<<c>> : c \in ImpactCalls \cup PathCalls}]

ASSUME GoalsAssumption == Goals \subseteq Goal
ASSUME MaxCallsAssumption == MaxCalls \in Nat

VARIABLES
  body,       \* the request: goal, mode, tool_calls, summarize
  configured, \* a language model gateway is configured
  pc,         \* the next step
  planned,    \* the tool calls
  results,    \* the calls that were executed, with the entities in their rows
  summary,    \* explanation and evidence
  status      \* the HTTP status, 0 while the run is under way

vars == <<body, configured, pc, planned, results, summary, status>>

------------------------------------------------------------------------------
(* Planning *)

\* _valid_tool_call
Valid(call) == call.tool \in Tools => call.form = "valid"

\* Mutant: one valid call is enough.
ReconcileAny(goal, raw) ==
  IF (\E i \in 1..Len(raw) : Valid(raw[i])) \/ (raw # <<>> /\ goal.plan = <<>>)
  THEN raw ELSE goal.plan

\* reconcile_planned_tools
Reconcile(goal, raw) ==
  IF raw # <<>> /\ ((\A i \in 1..Len(raw) : Valid(raw[i])) \/ goal.plan = <<>>)
  THEN raw ELSE goal.plan

------------------------------------------------------------------------------
(* Tools *)

Result == [call : Calls, data : SUBSET Node]

\* The ids in the rows that a call may return.
Returned(call) ==
  {{}} \cup {d \in SUBSET Node :
               /\ call.about # {} /\ call.about \subseteq d
               /\ call.tool = SUPPLIER_IMPACT =>
                    /\ d \ call.about \subseteq Components \cup Labelled("Product")
                    /\ d \cap Components # {} /\ d \cap Labelled("Product") # {}
               /\ call.tool = SUPPLY_PATH => d \cap Labelled("Supplier") = {}}

HasData(rs) == \E i \in 1..Len(rs) : rs[i].data # {}

\* Mutant: whatever the first plan found.
NeedsReplanAlways ==
  /\ Len(planned) = 1 /\ planned[1].tool = SUPPLIER_IMPACT
  /\ body.goal.plan \notin {<<>>, planned}

\* _retry_empty_supplier_impact
NeedsReplan ==
  /\ Len(planned) = 1 /\ planned[1].tool = SUPPLIER_IMPACT
  /\ ~HasData(results)
  /\ body.goal.plan \notin {<<>>, planned}

------------------------------------------------------------------------------
(* Grounding *)

\* An explanation, whether it begins with "Goal:", and its citations.  A text has
\* ids of its own and those it has once **bold** marks are removed: the marks may
\* keep an id apart, as in SUP-**999**, or a word from an id.
Row == [tool : Tools \cup {"unknown", ""}, claim : SUBSET Node, value : SUBSET Node]

Summary == [text : SUBSET Node, stripped : SUBSET Node, goalFirst : BOOLEAN,
            evidence : SUBSET Row]
None    == [text |-> {}, stripped |-> {}, goalFirst |-> TRUE, evidence |-> {}]

\* collect_ground_tokens: the ids among arguments and results ...
GroundIds ==
  (UNION {planned[i].about : i \in 1..Len(planned)})
    \cup (UNION {results[i].data : i \in 1..Len(results)})

\* ... and what ENTITY_ID.findall adds for the other texts: it returns the
\* group of the pattern, which is the prefix alone.
GroundPrefixes == {e.label : e \in GroundIds}

ToolNames == {planned[i].tool : i \in 1..Len(planned)}

\* _value_is_grounded: one token within the value is enough.  A value here is
\* its ids; the code also takes one that shares any other word of the results.
ValueGrounded(value) ==
  value # {} => \E e \in value : e \in GroundIds \/ e.label \in GroundPrefixes

\* Mutant: claims are not checked.
RowGroundedClaimless(row) ==
  /\ row.tool \in {""} \cup ToolNames
  /\ ValueGrounded(row.value)

RowGrounded(row) ==
  /\ row.tool \in {""} \cup ToolNames
  /\ ValueGrounded(row.value)
  /\ row.claim \subseteq GroundIds

\* Mutant: an answer without citations is fine.
GroundedUncited(s) ==
  /\ planned # <<>> => HasData(results)
  /\ \A row \in s.evidence : RowGrounded(row)
  /\ s.text \subseteq GroundIds

\* evaluate_grounding
Grounded(s) ==
  /\ planned # <<>> => HasData(results)
  /\ HasData(results) => s.evidence # {}
  /\ \A row \in s.evidence : RowGrounded(row)
  /\ s.text \subseteq GroundIds

\* Mutant: cites the operation instead of the tool.
CitedOperation(r) ==
  [tool  |-> IF r.call.tool = SUPPLY_PATH THEN "supply_path" ELSE "supplier_impact",
   claim |-> r.data,
   value |-> IF r.call.tool = SUPPLY_PATH THEN r.data ELSE r.data \cap Components]

\* explain_results_heuristic: begins with the goal, then cites rows of each
\* result.  A path is cited as a whole, an impact by its component.
Cited(r) ==
  [tool  |-> r.call.tool, claim |-> r.data,
   value |-> IF r.call.tool = SUPPLY_PATH THEN r.data ELSE r.data \cap Components]

HeuristicSummary ==
  LET found == {i \in 1..Len(results) : results[i].data # {}} IN
  [text      |-> body.goal.ids \cup GroundIds,
   stripped  |-> {},  \* never shown
   goalFirst |-> TRUE,
   evidence  |-> {Cited(results[i]) : i \in found}]

------------------------------------------------------------------------------
(* What the user sees: build_run_report, build_user_response *)

\* Rows of each result, or its summary, which names the arguments.
Report ==
  UNION {IF results[i].data # {} THEN results[i].data ELSE results[i].call.about :
           i \in 1..Len(results)}

\* _strip_markdown_bold comes after the gate: the user reads the stripped text.
UserExplanation ==
  IF summary.goalFirst \/ results = <<>> THEN Report ELSE summary.stripped

UserClaims == UNION {row.claim : row \in summary.evidence}
Shown      == UserExplanation \cup Report \cup UserClaims

------------------------------------------------------------------------------
Body == [goal : Goals, mode : {"tools", "auto", "llm"}, tool_calls : Plans,
         summarize : BOOLEAN]

Steps == {"plan", "planner", "invoke", "replan", "summarize", "view", "done"}

Init ==
  /\ body \in Body
  /\ configured \in BOOLEAN
  /\ pc = "plan"
  /\ planned = <<>>
  /\ results = <<>>
  /\ summary = None
  /\ status = 0

\* run_agent: ValueError is the client's fault, RuntimeError the gateway's,
\* and anything else is not caught.
StatusOf(exception) ==
  CASE exception = "ValueError"   -> 400
    [] exception = "RuntimeError" -> 502
    [] exception = "other"        -> 500

Raise(exception) ==
  /\ pc' = "done"
  /\ status' = StatusOf(exception)
  /\ UNCHANGED <<body, configured, planned, results, summary>>

Exceptions == {"ValueError", "RuntimeError", "other"}

Planned(calls) ==
  /\ planned' = calls
  /\ pc' = "invoke"
  /\ UNCHANGED <<body, configured, results, summary, status>>

\* Mutant: auto does not look for a gateway first.
UsesModelUnconfigured == body.mode \in {"llm", "auto"}

UsesModel == body.mode = "llm" \/ (body.mode = "auto" /\ configured)

PlanExplicit ==
  /\ pc = "plan" /\ body.tool_calls # <<>>
  /\ Planned(body.tool_calls)

PlanHeuristic ==
  /\ pc = "plan" /\ body.tool_calls = <<>> /\ ~UsesModel
  /\ Planned(body.goal.plan)

PlanByModel ==
  /\ pc = "plan" /\ body.tool_calls = <<>> /\ UsesModel
  /\ IF configured
     THEN /\ pc' = "planner"
          /\ UNCHANGED <<body, configured, planned, results, summary, status>>
     ELSE Raise("ValueError")

\* plan_tool_calls_openai_compat and reconcile_planned_tools
PlannerAnswers ==
  /\ pc = "planner"
  /\ \E raw \in Plans :
       LET calls == Reconcile(body.goal, raw) IN
       IF calls = <<>> THEN Raise("RuntimeError") ELSE Planned(calls)

\* No connection, no JSON, JSON of another shape.
PlannerFails ==
  /\ pc = "planner"
  /\ \E exception \in Exceptions : Raise(exception)

\* registry.invoke, one call after the other.
Invoke ==
  LET call == planned[Len(results) + 1] IN
  /\ pc = "invoke" /\ Len(results) < Len(planned)
  /\ call.tool \in Tools /\ call.form # "bare"
  /\ \E data \in Returned(call) :
       results' = Append(results, [call |-> call, data |-> data])
  /\ UNCHANGED <<body, configured, pc, planned, summary, status>>

\* registry.invoke does not know the tool, the arguments lack one, a store cannot
\* be reached, or a query may not have an id.  An impact analysis builds queries
\* from the component ids it found, and execute_domain_cypher accepts neither an
\* id with other characters nor one with a word like SET in it; a path has only
\* the ids of the call.
Failures(call) ==
  IF call.tool \notin Tools THEN {"ValueError"}
  ELSE IF call.form = "bare" \/ (call.tool = SUPPLY_PATH /\ call.form = "valid")
  THEN {"other"}
  ELSE {"ValueError", "other"}

InvokeFails ==
  LET call == planned[Len(results) + 1] IN
  /\ pc = "invoke" /\ Len(results) < Len(planned)
  /\ \E exception \in Failures(call) : Raise(exception)

Invoked ==
  /\ pc = "invoke" /\ Len(results) = Len(planned)
  /\ pc' = IF NeedsReplan THEN "replan"
           ELSE IF body.summarize /\ planned # <<>> THEN "summarize" ELSE "view"
  /\ UNCHANGED <<body, configured, planned, results, summary, status>>

\* Mutant: the results are exchanged, the calls are not.
ReplanKeepingCalls ==
  /\ pc = "replan"
  /\ \E data \in Returned(body.goal.plan[1]) :
       results' = <<[call |-> body.goal.plan[1], data |-> data]>>
  /\ pc' = IF body.summarize THEN "summarize" ELSE "view"
  /\ UNCHANGED <<body, configured, planned, summary, status>>

\* Mutant: the same call again, until it finds something.
ReplanUntilFound ==
  /\ pc = "replan"
  /\ results' = <<>>
  /\ pc' = "invoke"
  /\ UNCHANGED <<body, configured, planned, summary, status>>

\* The heuristic plan has one call.
Replan ==
  /\ pc = "replan"
  /\ planned' = body.goal.plan
  /\ \E data \in Returned(body.goal.plan[1]) :
       results' = <<[call |-> body.goal.plan[1], data |-> data]>>
  /\ pc' = IF body.summarize THEN "summarize" ELSE "view"
  /\ UNCHANGED <<body, configured, summary, status>>

ReplanFails ==
  /\ pc = "replan"
  /\ \E exception \in Failures(body.goal.plan[1]) : Raise(exception)

------------------------------------------------------------------------------
(* Summary *)

Summarized(s) ==
  /\ summary' = s
  /\ pc' = "view"
  /\ UNCHANGED <<body, configured, planned, results, status>>

SummarizeHeuristic ==
  /\ pc = "summarize" /\ ~configured
  /\ Summarized(HeuristicSummary)

\* summarize_run_openai_compat, the gate and its fallback.  A text names at most
\* one entity, with the marks and without them, and so does its citation, of which
\* there is at most one.
Few        == {{}} \cup {{e} : e \in Node}
ModelRows  == {row \in [tool : {"", SUPPLIER_IMPACT}, claim : Few, value : Few] :
                 row.claim \cup row.value \in Few}
ModelTexts ==
  {s \in [text : Few, stripped : Few, goalFirst : BOOLEAN,
          evidence : {{}} \cup {{row} : row \in ModelRows}] :
     /\ s.text \cup s.stripped \in Few
     /\ s.goalFirst => s.stripped = {}}

SummarizerAnswers ==
  /\ pc = "summarize" /\ configured
  /\ \E s \in ModelTexts : Summarized(s) /\ Grounded(s)

SummarizerRejected ==
  /\ pc = "summarize" /\ configured
  /\ \E s \in ModelTexts : ~Grounded(s)
  /\ Summarized(HeuristicSummary)

\* Only a RuntimeError falls back: no connection, no JSON in the answer, no
\* explanation.  An answer of another shape, citations that are no objects or
\* a read that times out end the run.
SummarizerFails ==
  /\ pc = "summarize" /\ configured
  /\ \E exception \in Exceptions :
       IF exception = "RuntimeError"
       THEN Summarized(HeuristicSummary)
       ELSE Raise(exception)

\* graph_view_for_run reads the stores once more.
View ==
  /\ pc = "view"
  /\ pc' = "done"
  /\ status' = 200
  /\ UNCHANGED <<body, configured, planned, results, summary>>

ViewFails ==
  /\ pc = "view"
  /\ Raise("other")

Next ==
  \/ PlanExplicit \/ PlanHeuristic \/ PlanByModel
  \/ PlannerAnswers \/ PlannerFails
  \/ Invoke \/ InvokeFails \/ Invoked
  \/ Replan \/ ReplanFails
  \/ SummarizeHeuristic \/ SummarizerAnswers \/ SummarizerRejected \/ SummarizerFails
  \/ View \/ ViewFails

Spec == Init /\ [][Next]_vars

\* Each call of the handler returns or raises; requests to the gateway time out.
FairSpec == Spec /\ WF_vars(Next)
------------------------------------------------------------------------------
(* Properties *)

TypeOK ==
  /\ body \in Body
  /\ configured \in BOOLEAN
  /\ pc \in Steps
  /\ planned \in Seq(Calls)
  /\ results \in Seq(Result)
  /\ summary \in Summary
  /\ status \in {0, 200, 400, 500, 502}

Answered == status = 200

\* Ids that the explanation has only since it was stripped of its marks.
Formed ==
  IF summary.goalFirst \/ results = <<>> THEN {} ELSE summary.stripped \ summary.text

\* G*, "answers must cite tool JSON only": whatever the language model writes,
\* every entity that the user reads of in the explanation, the findings or the
\* evidence is in the arguments or rows of the calls that the answer reports.
\* The one way past the gate is an id that bold marks kept apart there.
AnswerGrounded == Answered => Shown \ Formed \subseteq GroundIds

\* G* without that exception, as evaluate_agent_run understands it, which looks
\* at the response itself and which no run calls: refuted, since the marks are
\* removed after the gate.
ShownIdsGrounded == Answered => Shown \subseteq GroundIds

\* The report, the evidence and the graph view zip calls with results: the
\* n-th result is that of the n-th call, also after a replan.
ResultsPaired ==
  Answered => [i \in 1..Len(results) |-> results[i].call] = planned

\* An answer with an explanation never hides its evidence: if a tool found
\* rows, something is cited (of which the response shows what has a claim).
RowsCited ==
  (Answered /\ body.summarize /\ HasData(results)) => summary.evidence # {}

\* _retry_empty_supplier_impact is for empty answers: rows once found are
\* never given up for those of another call.
RowsKept ==
  [][\A i \in 1..Len(results) :
       results[i].data # {} => i <= Len(results') /\ results'[i] = results[i]]_vars

\* reconcile_planned_tools: names that the language model invents reach the
\* stores only if the heuristic has no plan.
InventedOnlyUnplanned ==
  \A i \in 1..Len(results) :
    (body.tool_calls = <<>> /\ results[i].call.form = "invented") => body.goal.plan = <<>>

ImpactPlanned == \E i \in 1..Len(planned) : planned[i].tool = SUPPLIER_IMPACT

\* docs/agent-runtime.md, "heuristic planner (no API key)": without a gateway,
\* only mode llm is refused for want of one.  The heuristic's calls are no fault
\* of the client either, and the one 400 they can end with comes of ids in the
\* stores that an impact analysis may not put into a query.
NoKeyNeeded ==
  (~configured /\ body.mode # "llm" /\ body.tool_calls = <<>>) =>
    status # 502 /\ (status = 400 => ImpactPlanned)

\* One retry, one fallback: whatever model, gateway and tools do, the run comes
\* to an answer or an error.
RunEnds == <>(pc = "done")

\* "Verify narrative and evidence are supported by executed tool JSON"
\* (evaluate_grounding): a cited value names an entity of that JSON.
EvidenceSupported ==
  Answered => \A row \in summary.evidence :
    row.value # {} => row.value \cap GroundIds # {}
==============================================================================
