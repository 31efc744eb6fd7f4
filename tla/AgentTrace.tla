------------------------------ MODULE AgentTrace ------------------------------
(***************************************************************************)
(* The operator's view of an agent run: telemetry.py over AgentRun.  The   *)
(* user interface hides calls, planner and raw rows; where Langfuse is     *)
(* configured, a trace of observations shows them.  An observation reaches *)
(* the operator when it has ended and the client has flushed.              *)
(*                                                                         *)
(* Each step of the run is taken together with what it reports, since the  *)
(* tracer's calls stand in the same straight line of code.                 *)
(***************************************************************************)
EXTENDS AgentRun

CONSTANT Tracing  \* the environment has the keys and the library of Langfuse

ASSUME TracingAssumption == Tracing \in BOOLEAN

VARIABLES
  ended,    \* observations that ended and wait in the client
  sent,     \* observations the operator can see
  replied   \* the handler has returned

telemetry  == <<ended, sent, replied>>
tracedVars == <<vars, telemetry>>

Generation(name) == [name |-> name]
Planning(calls)  == [name |-> "planning", calls |-> calls]
ToolSpan(i)      == [name |-> "tool", index |-> i, call |-> planned[i], data |-> results[i].data]
RootSpan         == [name |-> "bom-agent-run", summary |-> summary]

\* start_run_tracer returns a NullRunTracer otherwise, which forgets everything.
Record(observations) ==
  /\ ended' = IF Tracing THEN ended \cup observations ELSE ended
  /\ UNCHANGED <<sent, replied>>

TracedInit ==
  /\ Init
  /\ ended = {}
  /\ sent = {}
  /\ replied = FALSE

------------------------------------------------------------------------------
(* The run and what it reports *)

\* record_planning: once the plan is settled, before any tool runs.
PlanReports ==
  \/ (PlanExplicit \/ PlanHeuristic) /\ Record({Planning(planned')})
  \/ PlanByModel /\ Record({})

\* chat_completions records a generation before anybody parses it.
PlannerReports ==
  PlannerAnswers /\ Record({Generation("planner")}
                             \cup {o \in {Planning(planned')} : pc' = "invoke"})

\* A request without an answer, or an answer of no use.
Failed(name) == Record({}) \/ Record({Generation(name)})

FailureReports ==
  \/ PlannerFails /\ Failed("planner")
  \/ SummarizerFails /\ Failed("summarize")

\* Mutant: the summarizer is called without the tracer.
SummaryReportsUntraced ==
  (SummarizerAnswers \/ SummarizerRejected) /\ Record({})

SummaryReports ==
  (SummarizerAnswers \/ SummarizerRejected) /\ Record({Generation("summarize")})

ToolsReport ==
  /\ \/ Invoke \/ InvokeFails \/ Invoked \/ Replan \/ ReplanFails
     \/ SummarizeHeuristic \/ ViewFails
  /\ Record({})

\* emit_run, the last call of a run that succeeds: the tools, then the root.
EmitRun ==
  View /\ Record({ToolSpan(i) : i \in {i \in 1..Len(planned) : i <= Len(results)}}
                   \cup {RootSpan})

\* Mutant: flush is not in the finally block.
ReplyUnflushed ==
  /\ pc = "done" /\ ~replied
  /\ sent' = IF status = 200 THEN sent \cup ended ELSE sent
  /\ ended' = IF status = 200 THEN {} ELSE ended
  /\ replied' = TRUE
  /\ UNCHANGED vars

\* The finally block of run_agent, then the response.
Reply ==
  /\ pc = "done" /\ ~replied
  /\ sent' = sent \cup ended
  /\ ended' = {}
  /\ replied' = TRUE
  /\ UNCHANGED vars

TracedNext ==
  PlanReports \/ PlannerReports \/ FailureReports \/ SummaryReports \/ ToolsReport
  \/ EmitRun \/ Reply

TracedSpec == TracedInit /\ [][TracedNext]_tracedVars /\ WF_tracedVars(TracedNext)

------------------------------------------------------------------------------
(* Safety *)

\* docs/observability.md, "what appears in Langfuse": with an answer, the
\* operator has the calls and raw rows behind it, in order, also when a replan
\* exchanged them; and whatever the user reads that is not a template's is a
\* generation the operator can read too.
TraceTellsAnswer ==
  (replied /\ Tracing /\ Answered) =>
    /\ {o \in sent : o.name = "tool"} = {ToolSpan(i) : i \in 1..Len(planned)}
    /\ RootSpan \in sent
    /\ summary \notin {None, HeuristicSummary} => Generation("summarize") \in sent

\* Tools that ran are on the operator's side in any case, also when the run
\* failed and its root never ended: a planning observation has all calls but
\* those of a replan, and where a model planned them, the model's words.
PlanReachesOperator ==
  (replied /\ Tracing /\ results # <<>>) =>
    /\ \E o \in sent : /\ o.name = "planning"
                       /\ \A i \in 1..Len(results) :
                            \/ i <= Len(o.calls) /\ o.calls[i] = results[i].call
                            \/ <<results[i].call>> = body.goal.plan
    /\ (body.tool_calls = <<>> /\ UsesModel) => Generation("planner") \in sent
==============================================================================
