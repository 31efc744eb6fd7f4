----------------------------- MODULE AgentRunProof -----------------------------
(***************************************************************************)
(* Proofs about one run of the agent, for any goals, ids and length of     *)
(* plans, and whatever the language model answers.                         *)
(***************************************************************************)
EXTENDS AgentRun, TLAPS

\* Plans are sequences of calls; a heuristic plan has at most one.
LEMMA PlanTypes ==
  /\ Plans \subseteq Seq(Calls)
  /\ \A g \in Goals : /\ g.ids \subseteq Node
                      /\ g.plan \in Seq(Calls)
                      /\ g.plan # <<>> => Len(g.plan) = 1
<1>1. Plans \subseteq Seq(Calls)
  BY MaxCallsAssumption DEF Plans
<1>2. ImpactCalls \subseteq Calls /\ PathCalls \subseteq Calls
  BY DEF Calls
<1>3. ASSUME NEW g \in Goals
      PROVE  /\ g.ids \subseteq Node
             /\ g.plan \in Seq(Calls)
             /\ g.plan # <<>> => Len(g.plan) = 1
  <2>1. g \in Goal
    BY GoalsAssumption
  <2>2. g.ids \subseteq Node
    BY <2>1 DEF Goal
  <2>3. g.plan = <<>> \/ \E c \in Calls : g.plan = <<c>>
    BY <1>2, <2>1 DEF Goal
  <2>4. CASE g.plan = <<>>
    BY <2>2, <2>4
  <2>5. CASE g.plan # <<>>
    <3>1. PICK c \in Calls : g.plan = <<c>>
      BY <2>3, <2>5
    <3>2. <<c>> \in Seq(Calls) /\ Len(<<c>>) = 1
      OBVIOUS
    <3>. QED  BY <2>2, <3>1, <3>2
  <2>. QED  BY <2>4, <2>5
<1>. QED  BY <1>1, <1>3

\* What a call is about are entities, and so is what it returns.
LEMMA CallTypes ==
  ASSUME NEW c \in Calls
  PROVE  /\ c.tool \in Tools \cup {"unknown"}
         /\ c.about \subseteq Node
         /\ Returned(c) \subseteq SUBSET Node
<1>1. Labelled("Supplier") \subseteq Node /\ Components \subseteq Node
        /\ Labelled("Product") \subseteq Node
  BY DEF Node, Labels, Components
<1>2. c.about \subseteq Node
  BY <1>1 DEF Calls, ImpactCalls, PathCalls, OddCalls
<1>3. c.tool \in Tools \cup {"unknown"}
  BY DEF Calls, ImpactCalls, PathCalls, OddCalls, Tools
<1>4. Returned(c) \subseteq SUBSET Node
  BY DEF Returned
<1>. QED  BY <1>2, <1>3, <1>4

\* The grounding vocabulary consists of entities.
LEMMA GroundTypes ==
  ASSUME planned \in Seq(Calls), results \in Seq(Result)
  PROVE  GroundIds \subseteq Node
<1>1. \A i \in 1..Len(planned) : planned[i].about \subseteq Node
  BY CallTypes
<1>2. ASSUME NEW i \in 1..Len(results)
      PROVE  results[i].data \subseteq Node
  <2>1. results[i] \in Result
    OBVIOUS
  <2>. QED  BY <2>1 DEF Result
<1>. QED  BY <1>1, <1>2 DEF GroundIds

\* The heuristic explanation cites what the results hold.
LEMMA HeuristicTypes ==
  ASSUME TypeOK
  PROVE  /\ HeuristicSummary \in Summary
         /\ HeuristicSummary.goalFirst
         /\ \A row \in HeuristicSummary.evidence : row.claim \subseteq GroundIds
<1>1. body.goal.ids \cup GroundIds \subseteq Node
  BY PlanTypes, GroundTypes DEF TypeOK, Body
<1>2. ASSUME NEW i \in 1..Len(results)
      PROVE  Cited(results[i]) \in Row /\ Cited(results[i]).claim \subseteq GroundIds
  <2>1. results[i] \in Result
    BY DEF TypeOK
  <2>2. results[i].call \in Calls /\ results[i].data \subseteq Node
    BY <2>1 DEF Result
  <2>3. results[i].call.tool \in Tools \cup {"unknown"}
    BY <2>2, CallTypes
  <2>4. results[i].data \subseteq GroundIds
    BY DEF GroundIds
  <2>. QED  BY <2>2, <2>3, <2>4 DEF Cited, Row
<1>3. HeuristicSummary.evidence \subseteq Row
        /\ \A row \in HeuristicSummary.evidence : row.claim \subseteq GroundIds
  BY <1>2 DEF HeuristicSummary
<1>. QED  BY <1>1, <1>3 DEF HeuristicSummary, Summary

\* Texts of the language model are summaries.
LEMMA ModelTypes == ModelTexts \subseteq Summary
<1>1. Few \subseteq SUBSET Node
  BY DEF Few
<1>2. ModelRows \subseteq Row
  BY <1>1 DEF ModelRows, Row, Tools
<1>. QED  BY <1>1, <1>2 DEF ModelTexts, Summary

------------------------------------------------------------------------------
\* Results belong to the calls they are reported with.
PairInv ==
  /\ pc \in {"plan", "planner"} => planned = <<>> /\ results = <<>>
  /\ Len(results) <= Len(planned)
  /\ \A i \in 1..Len(results) : results[i].call = planned[i]
  /\ pc \in {"summarize", "view"} \/ Answered => Len(results) = Len(planned)
  /\ pc = "replan" => body.goal.plan # <<>>
  /\ pc # "done" => status = 0

\* Once there is a summary, it says nothing that the calls do not.
SummaryInv ==
  /\ pc \notin {"view", "done"} => summary = None
  /\ pc = "view" \/ Answered =>
       /\ summary.goalFirst \/ summary.text \subseteq GroundIds
       /\ \A row \in summary.evidence : row.claim \subseteq GroundIds

IInv == TypeOK /\ PairInv /\ SummaryInv

LEMMA InitInv == Init => IInv
<1>. SUFFICES ASSUME Init PROVE IInv
  OBVIOUS
<1>. USE DEF Init
<1>1. TypeOK
  BY DEF TypeOK, Steps, Summary, None
<1>2. PairInv
  BY DEF PairInv, Answered
<1>3. SummaryInv
  BY DEF SummaryInv, Answered
<1>. QED  BY <1>1, <1>2, <1>3 DEF IInv

\* A tool that fails raises, and no tool is the gateway.
LEMMA FailureTypes == ASSUME NEW call PROVE Failures(call) \subseteq {"ValueError", "other"}
BY DEF Failures

\* A run that ends with an exception reports no answer.
LEMMA RaiseInv ==
  ASSUME IInv, NEW exception \in Exceptions, Raise(exception)
  PROVE  IInv'
<1>1. status' \in {400, 502, 500}
  BY DEF Raise, StatusOf, Exceptions
<1>2. TypeOK'
  BY <1>1 DEF IInv, TypeOK, Raise, Steps
<1>3. PairInv'
  BY <1>1 DEF IInv, PairInv, Raise, Answered
<1>4. SummaryInv'
  BY <1>1 DEF SummaryInv, Raise, Answered
<1>. QED  BY <1>2, <1>3, <1>4 DEF IInv

\* Adopting a plan before anything was invoked.
LEMMA PlannedInv ==
  ASSUME IInv, pc \in {"plan", "planner"}, NEW calls \in Seq(Calls), Planned(calls)
  PROVE  IInv'
<1>0. results = <<>> /\ status = 0 /\ summary = None
  BY DEF IInv, PairInv, SummaryInv
<1>1. TypeOK'
  BY DEF IInv, TypeOK, Planned, Steps
<1>2. PairInv'
  BY <1>0 DEF PairInv, Planned, Answered
<1>3. SummaryInv'
  BY <1>0 DEF SummaryInv, Planned, Answered
<1>. QED  BY <1>1, <1>2, <1>3 DEF IInv

\* Going on to the summary or, without one, to the graph view.
LEMMA SummarizedInv ==
  ASSUME IInv, pc = "summarize", NEW s \in Summary, Summarized(s),
         s.goalFirst \/ s.text \subseteq GroundIds,
         \A row \in s.evidence : row.claim \subseteq GroundIds
  PROVE  IInv'
<1>1. TypeOK'
  BY DEF IInv, TypeOK, Summarized, Steps
<1>2. PairInv'
  BY DEF IInv, PairInv, Summarized, Answered
<1>3. GroundIds' = GroundIds
  BY DEF Summarized, GroundIds
<1>4. SummaryInv'
  BY <1>3 DEF SummaryInv, Summarized
<1>. QED  BY <1>1, <1>2, <1>4 DEF IInv

------------------------------------------------------------------------------
LEMMA InvokeInv == IInv /\ Invoke => IInv'
<1>. SUFFICES ASSUME IInv, Invoke PROVE IInv'
  OBVIOUS
<1>. DEFINE n    == Len(results) + 1
            call == planned[n]
<1>0. PICK data \in Returned(call) :
         results' = Append(results, [call |-> call, data |-> data])
  BY DEF Invoke
<1>1. results \in Seq(Result) /\ planned \in Seq(Calls) /\ n \in 1..Len(planned)
  BY DEF IInv, TypeOK, Invoke
<1>2. call \in Calls
  BY <1>1
<1>3. [call |-> call, data |-> data] \in Result
  BY <1>2, CallTypes DEF Result
<1>4. results' \in Seq(Result)
  BY <1>0, <1>1, <1>3
<1>5. TypeOK'
  BY <1>4 DEF IInv, TypeOK, Invoke
<1>6. \A i \in 1..Len(results') : results'[i].call = planned[i]
  BY <1>0, <1>1 DEF IInv, PairInv
<1>7. Len(results') <= Len(planned)
  BY <1>0, <1>1
<1>8. PairInv'
  BY <1>6, <1>7 DEF IInv, PairInv, Invoke, Answered
<1>9. SummaryInv'
  BY DEF IInv, PairInv, SummaryInv, Invoke, Answered
<1>. QED  BY <1>5, <1>8, <1>9 DEF IInv

LEMMA InvokedInv == IInv /\ Invoked => IInv'
<1>. SUFFICES ASSUME IInv, Invoked PROVE IInv'
  OBVIOUS
<1>0. pc' \in {"replan", "summarize", "view"} /\ status = 0 /\ summary = None
  BY DEF Invoked, IInv, PairInv, SummaryInv
<1>1. TypeOK'
  BY <1>0 DEF IInv, TypeOK, Invoked, Steps
<1>2. pc' = "replan" => body.goal.plan # <<>>
  BY DEF Invoked, NeedsReplan
<1>3. PairInv'
  BY <1>0, <1>2 DEF IInv, PairInv, Invoked, Answered
<1>4. SummaryInv'
  BY <1>0 DEF SummaryInv, Invoked, None, Answered
<1>. QED  BY <1>1, <1>3, <1>4 DEF IInv

LEMMA ReplanInv == IInv /\ Replan => IInv'
<1>. SUFFICES ASSUME IInv, Replan PROVE IInv'
  OBVIOUS
<1>. DEFINE plan == body.goal.plan
<1>0. PICK data \in Returned(plan[1]) :
         results' = <<[call |-> plan[1], data |-> data]>>
  BY DEF Replan
<1>1. plan \in Seq(Calls) /\ Len(plan) = 1
  BY PlanTypes DEF IInv, PairInv, TypeOK, Body, Replan
<1>2. plan[1] \in Calls
  BY <1>1
<1>3. [call |-> plan[1], data |-> data] \in Result
  BY <1>2, CallTypes DEF Result
<1>4. results' \in Seq(Result)
  BY <1>0, <1>3
<1>5. pc' \in {"summarize", "view"} /\ status = 0 /\ summary = None
  BY DEF Replan, IInv, PairInv, SummaryInv
<1>6. TypeOK'
  BY <1>1, <1>4, <1>5 DEF IInv, TypeOK, Replan, Steps
<1>7. PairInv'
  BY <1>0, <1>1, <1>5 DEF PairInv, Replan, Answered
<1>8. SummaryInv'
  BY <1>5 DEF SummaryInv, Replan, None, Answered
<1>. QED  BY <1>6, <1>7, <1>8 DEF IInv

LEMMA ViewInv == IInv /\ View => IInv'
<1>. SUFFICES ASSUME IInv, View PROVE IInv'
  OBVIOUS
<1>1. TypeOK'
  BY DEF IInv, TypeOK, View, Steps
<1>2. PairInv'
  BY DEF IInv, PairInv, View, Answered
<1>3. GroundIds' = GroundIds
  BY DEF View, GroundIds
<1>4. SummaryInv'
  BY <1>3 DEF IInv, SummaryInv, View
<1>. QED  BY <1>1, <1>2, <1>4 DEF IInv

\* The gate lets a text of the model pass only if it is grounded.
LEMMA SummaryStepInv ==
  IInv /\ (SummarizeHeuristic \/ SummarizerAnswers \/ SummarizerRejected \/ SummarizerFails)
    => IInv'
<1>. SUFFICES ASSUME IInv, SummarizeHeuristic \/ SummarizerAnswers
                             \/ SummarizerRejected \/ SummarizerFails
              PROVE  IInv'
  OBVIOUS
<1>0. pc = "summarize"
  BY DEF SummarizeHeuristic, SummarizerAnswers, SummarizerRejected, SummarizerFails
<1>1. ASSUME Summarized(HeuristicSummary) PROVE IInv'
  <2>1. HeuristicSummary \in Summary /\ HeuristicSummary.goalFirst
          /\ \A row \in HeuristicSummary.evidence : row.claim \subseteq GroundIds
    BY HeuristicTypes DEF IInv
  <2>. QED  BY <1>0, <1>1, <2>1, SummarizedInv
<1>2. CASE SummarizeHeuristic
  BY <1>1, <1>2 DEF SummarizeHeuristic
<1>3. CASE SummarizerAnswers
  <2>1. PICK s \in ModelTexts : Summarized(s) /\ Grounded(s)
    BY <1>3 DEF SummarizerAnswers
  <2>2. s \in Summary
    BY ModelTypes
  <2>3. s.text \subseteq GroundIds /\ \A row \in s.evidence : row.claim \subseteq GroundIds
    BY <2>1 DEF Grounded, RowGrounded
  <2>. QED  BY <1>0, <2>1, <2>2, <2>3, SummarizedInv
<1>4. CASE SummarizerFails
  <2>1. PICK exception \in Exceptions :
           IF exception = "RuntimeError" THEN Summarized(HeuristicSummary)
                                         ELSE Raise(exception)
    BY <1>4 DEF SummarizerFails
  <2>. QED  BY <1>1, <2>1, RaiseInv
<1>5. CASE SummarizerRejected
  BY <1>1, <1>5 DEF SummarizerRejected
<1>. QED  BY <1>2, <1>3, <1>4, <1>5

LEMMA NextInv == IInv /\ [Next]_vars => IInv'
<1>. SUFFICES ASSUME IInv, [Next]_vars PROVE IInv'
  OBVIOUS
<1>1. body.tool_calls \in Seq(Calls) /\ body.goal.plan \in Seq(Calls)
  BY PlanTypes DEF IInv, TypeOK, Body
<1>2. CASE PlanExplicit
  BY <1>1, <1>2, PlannedInv DEF PlanExplicit
<1>3. CASE PlanHeuristic
  BY <1>1, <1>3, PlannedInv DEF PlanHeuristic
<1>4. CASE PlanByModel
  <2>1. CASE configured
    <3>1. TypeOK'
      BY <1>4, <2>1 DEF IInv, TypeOK, PlanByModel, Steps
    <3>2. PairInv'
      BY <1>4, <2>1 DEF IInv, PairInv, PlanByModel, Answered
    <3>3. SummaryInv'
      BY <1>4, <2>1 DEF IInv, PairInv, SummaryInv, PlanByModel, Answered
    <3>. QED  BY <3>1, <3>2, <3>3 DEF IInv
  <2>2. CASE ~configured
    BY <1>4, <2>2, RaiseInv DEF PlanByModel, Exceptions
  <2>. QED  BY <2>1, <2>2
<1>5. CASE PlannerAnswers
  <2>1. PICK raw \in Plans : LET calls == Reconcile(body.goal, raw) IN
                               IF calls = <<>> THEN Raise("RuntimeError") ELSE Planned(calls)
    BY <1>5 DEF PlannerAnswers
  <2>2. Reconcile(body.goal, raw) \in Seq(Calls)
    BY <1>1, PlanTypes DEF Reconcile
  <2>3. pc = "planner"
    BY <1>5 DEF PlannerAnswers
  <2>. QED  BY <2>1, <2>2, <2>3, RaiseInv, PlannedInv DEF Exceptions
<1>6. CASE PlannerFails
  BY <1>6, RaiseInv DEF PlannerFails
<1>7. CASE InvokeFails \/ ReplanFails
  <2>1. \E call : \E exception \in Failures(call) : Raise(exception)
    BY <1>7 DEF InvokeFails, ReplanFails
  <2>2. PICK exception \in {"ValueError", "other"} : Raise(exception)
    BY <2>1, FailureTypes
  <2>. QED  BY <2>2, RaiseInv DEF Exceptions
<1>8. CASE ViewFails
  BY <1>8, RaiseInv DEF ViewFails, Exceptions
<1>9. CASE UNCHANGED vars
  <2>. USE <1>9 DEF vars
  <2>1. TypeOK' /\ PairInv'
    BY DEF IInv, TypeOK, PairInv, Answered
  <2>2. SummaryInv'
    BY DEF IInv, SummaryInv, Answered, GroundIds
  <2>. QED  BY <2>1, <2>2 DEF IInv
<1>. QED  BY <1>2, <1>3, <1>4, <1>5, <1>6, <1>7, <1>8, <1>9,
             InvokeInv, InvokedInv, ReplanInv, ViewInv, SummaryStepInv DEF Next

------------------------------------------------------------------------------
(* Citations, invented names, gateways *)

\* Before the summary nothing is promised; afterwards rows are cited.
CitedInv ==
  pc = "view" \/ Answered =>
    (body.summarize /\ HasData(results) => summary.evidence # {})

\* A plan that the client did not send has invented names only if the
\* heuristic has no plan.
FormInv ==
  body.tool_calls = <<>> /\ body.goal.plan # <<>> =>
    \A i \in 1..Len(planned) : planned[i].form # "invented"

\* Without a gateway the plan is the heuristic's, and only an impact analysis
\* ends as an error of the client.
KeyInv ==
  ~configured /\ body.mode # "llm" /\ body.tool_calls = <<>> =>
    /\ pc # "planner"
    /\ planned \in {<<>>, body.goal.plan}
    /\ status # 502
    /\ status = 400 => ImpactPlanned

\* A second call is made only when the first, an impact analysis, found nothing.
RetryInv == pc = "replan" => ~HasData(results) /\ ImpactPlanned

RunInv == CitedInv /\ FormInv /\ KeyInv /\ RetryInv

\* The heuristic knows only ids, of tools there are.
LEMMA HeuristicPlans ==
  ASSUME NEW g \in Goals
  PROVE  \A i \in 1..Len(g.plan) :
           g.plan[i].tool \in Tools /\ g.plan[i].form = "valid"
<1>1. g \in Goal
  BY GoalsAssumption
<1>2. g.plan = <<>> \/ \E c \in ImpactCalls \cup PathCalls : g.plan = <<c>>
  BY <1>1 DEF Goal
<1>3. \A c \in ImpactCalls \cup PathCalls : c.tool \in Tools /\ c.form = "valid"
  BY DEF ImpactCalls, PathCalls, Tools
<1>4. CASE g.plan = <<>>
  BY <1>4
<1>5. CASE g.plan # <<>>
  <2>1. PICK c \in ImpactCalls \cup PathCalls : g.plan = <<c>>
    BY <1>2, <1>5
  <2>. QED  BY <1>3, <2>1
<1>. QED  BY <1>4, <1>5

\* What is adopted of a plan of the model is valid as a whole, or there was
\* nothing better.
LEMMA ReconciledForms ==
  ASSUME NEW g \in Goals, NEW raw \in Plans, g.plan # <<>>
  PROVE  \A i \in 1..Len(Reconcile(g, raw)) : Reconcile(g, raw)[i].form # "invented"
<1>1. raw \in Seq(Calls)
  BY PlanTypes
<1>2. \A c \in Calls : Valid(c) => c.form # "invented"
  BY DEF Valid, Calls, ImpactCalls, PathCalls, OddCalls
<1>3. CASE raw # <<>> /\ \A i \in 1..Len(raw) : Valid(raw[i])
  <2>1. Reconcile(g, raw) = raw
    BY <1>3 DEF Reconcile
  <2>2. \A i \in 1..Len(raw) : raw[i] \in Calls
    BY <1>1
  <2>. QED  BY <1>2, <1>3, <2>1, <2>2
<1>4. CASE ~(raw # <<>> /\ \A i \in 1..Len(raw) : Valid(raw[i]))
  <2>1. Reconcile(g, raw) = g.plan
    BY <1>4 DEF Reconcile
  <2>. QED  BY <2>1, HeuristicPlans
<1>. QED  BY <1>3, <1>4

\* The heuristic summary cites something of each result with rows.
LEMMA HeuristicCites == HasData(results) => HeuristicSummary.evidence # {}
BY DEF HasData, HeuristicSummary

LEMMA InitRun == Init => RunInv
BY DEF Init, RunInv, CitedInv, FormInv, KeyInv, RetryInv, Answered

\* An error is no answer; which ones there may be depends on the step.
LEMMA RaiseRun ==
  ASSUME IInv, RunInv, NEW exception \in Exceptions, Raise(exception),
         ~configured /\ body.mode # "llm" /\ body.tool_calls = <<>> =>
           exception = "other" \/ (exception = "ValueError" /\ ImpactPlanned)
  PROVE  RunInv'
<1>1. status' \in {400, 502, 500} /\ pc' = "done"
  BY DEF Raise, StatusOf, Exceptions
<1>2. /\ exception = "other" => status' = 500
      /\ exception = "ValueError" => status' = 400
      /\ ImpactPlanned' = ImpactPlanned
  BY DEF Raise, StatusOf, ImpactPlanned
<1>3. CitedInv' /\ RetryInv'
  BY <1>1 DEF CitedInv, RetryInv, Answered
<1>4. FormInv'
  BY DEF RunInv, FormInv, Raise
<1>5. KeyInv'
  BY <1>1, <1>2 DEF RunInv, KeyInv, Raise
<1>. QED  BY <1>3, <1>4, <1>5 DEF RunInv

\* Adopting a plan.
LEMMA PlannedRun ==
  ASSUME IInv, RunInv, NEW calls, Planned(calls),
         body.tool_calls = <<>> /\ body.goal.plan # <<>> =>
           \A i \in 1..Len(calls) : calls[i].form # "invented",
         ~configured /\ body.mode # "llm" /\ body.tool_calls = <<>> => calls = body.goal.plan,
         pc # "done"
  PROVE  RunInv'
<1>1. pc' = "invoke" /\ planned' = calls /\ status' = 0
  BY DEF Planned, IInv, PairInv
<1>2. CitedInv' /\ RetryInv'
  BY <1>1 DEF CitedInv, RetryInv, Answered
<1>3. FormInv'
  BY <1>1 DEF FormInv, Planned
<1>4. KeyInv'
  BY <1>1 DEF KeyInv, Planned
<1>. QED  BY <1>2, <1>3, <1>4 DEF RunInv

\* Going on to the graph view with a summary that cites what was found.
LEMMA SummarizedRun ==
  ASSUME IInv, RunInv, NEW s, Summarized(s), HasData(results) => s.evidence # {}
  PROVE  RunInv'
<1>1. CitedInv' /\ RetryInv'
  BY DEF Summarized, CitedInv, RetryInv, HasData
<1>2. FormInv' /\ KeyInv'
  BY DEF RunInv, FormInv, KeyInv, Summarized, ImpactPlanned
<1>. QED  BY <1>1, <1>2 DEF RunInv

LEMMA PlanningRun ==
  ASSUME IInv, RunInv, PlanExplicit \/ PlanHeuristic \/ PlanByModel
                         \/ PlannerAnswers \/ PlannerFails
  PROVE  RunInv'
<1>0. body.goal \in Goals
  BY DEF IInv, TypeOK, Body
<1>1. CASE PlanExplicit
  BY <1>1, PlannedRun DEF PlanExplicit
<1>2. CASE PlanHeuristic
  <2>1. \A i \in 1..Len(body.goal.plan) : body.goal.plan[i].form # "invented"
    BY <1>0, HeuristicPlans
  <2>. QED  BY <1>2, <2>1, PlannedRun DEF PlanHeuristic
<1>3. CASE PlanByModel
  <2>1. CASE configured
    <3>1. pc' = "planner" /\ UNCHANGED <<body, configured, planned, results, summary, status>>
      BY <1>3, <2>1 DEF PlanByModel
    <3>2. status' = 0
      BY <1>3, <3>1 DEF PlanByModel, IInv, PairInv
    <3>. QED  BY <2>1, <3>1, <3>2 DEF RunInv, CitedInv, FormInv, KeyInv, RetryInv, Answered
  <2>2. CASE ~configured
    <3>1. Raise("ValueError") /\ body.mode = "llm"
      BY <1>3, <2>2 DEF PlanByModel, UsesModel
    <3>. QED  BY <3>1, RaiseRun DEF Exceptions
  <2>. QED  BY <2>1, <2>2
<1>4. ASSUME pc = "planner"
      PROVE  ~(~configured /\ body.mode # "llm" /\ body.tool_calls = <<>>)
  BY <1>4 DEF RunInv, KeyInv
<1>5. CASE PlannerAnswers
  <2>1. PICK raw \in Plans : LET calls == Reconcile(body.goal, raw) IN
                               IF calls = <<>> THEN Raise("RuntimeError") ELSE Planned(calls)
    BY <1>5 DEF PlannerAnswers
  <2>2. pc = "planner"
    BY <1>5 DEF PlannerAnswers
  <2>3. body.goal.plan # <<>> =>
          \A i \in 1..Len(Reconcile(body.goal, raw)) :
            Reconcile(body.goal, raw)[i].form # "invented"
    BY <1>0, ReconciledForms
  <2>4. CASE Reconcile(body.goal, raw) = <<>>
    <3>1. Raise("RuntimeError")
      BY <2>1, <2>4
    <3>. QED  BY <1>4, <2>2, <3>1, RaiseRun DEF Exceptions
  <2>5. CASE Reconcile(body.goal, raw) # <<>>
    <3>1. Planned(Reconcile(body.goal, raw))
      BY <2>1, <2>5
    <3>. QED  BY <1>4, <2>2, <2>3, <3>1, PlannedRun
  <2>. QED  BY <2>4, <2>5
<1>6. CASE PlannerFails
  BY <1>4, <1>6, RaiseRun DEF PlannerFails
<1>. QED  BY <1>1, <1>2, <1>3, <1>5, <1>6

LEMMA CallingRun ==
  ASSUME IInv, RunInv, Invoke \/ InvokeFails \/ Invoked \/ Replan \/ ReplanFails
  PROVE  RunInv'
<1>0. body.goal \in Goals
  BY DEF IInv, TypeOK, Body
<1>1. CASE Invoke
  <2>1. UNCHANGED <<body, configured, pc, planned, summary, status>> /\ pc = "invoke"
    BY <1>1 DEF Invoke
  <2>2. status = 0
    BY <2>1 DEF IInv, PairInv
  <2>. QED  BY <2>1, <2>2
       DEF RunInv, CitedInv, FormInv, KeyInv, RetryInv, Answered, ImpactPlanned
<1>2. CASE InvokeFails
  <2>1. PICK exception \in Failures(planned[Len(results) + 1]) : Raise(exception)
    BY <1>2 DEF InvokeFails
  <2>2. exception \in {"ValueError", "other"}
    BY <2>1, FailureTypes
  <2>3. ASSUME ~configured, body.mode # "llm", body.tool_calls = <<>>
        PROVE  exception = "other" \/ (exception = "ValueError" /\ ImpactPlanned)
    <3>1. planned \in {<<>>, body.goal.plan}
      BY <2>3 DEF RunInv, KeyInv
    <3>2. Len(results) + 1 \in 1..Len(planned)
      BY <1>2 DEF InvokeFails, IInv, TypeOK
    <3>3. planned = body.goal.plan
      BY <3>1, <3>2
    <3>4. /\ planned[Len(results) + 1].tool \in Tools
          /\ planned[Len(results) + 1].form = "valid"
      BY <1>0, <3>2, <3>3, HeuristicPlans
    <3>5. CASE planned[Len(results) + 1].tool = SUPPLIER_IMPACT
      <4>1. ImpactPlanned
        BY <3>2, <3>5 DEF ImpactPlanned
      <4>. QED  BY <2>2, <4>1
    <3>6. CASE planned[Len(results) + 1].tool = SUPPLY_PATH
      BY <2>1, <3>4, <3>6 DEF Failures
    <3>. QED  BY <3>4, <3>5, <3>6 DEF Tools
  <2>. QED  BY <2>1, <2>2, <2>3, RaiseRun DEF Exceptions
<1>3. CASE Invoked
  <2>1. /\ pc' \in {"replan", "summarize", "view"}
        /\ pc' = "replan" => ~HasData(results) /\ ImpactPlanned
        /\ pc' = "view" => ~body.summarize \/ planned = <<>>
        /\ UNCHANGED <<body, configured, planned, results, summary, status>>
    BY <1>3 DEF Invoked, NeedsReplan, ImpactPlanned
  <2>2. status = 0
    BY <1>3 DEF Invoked, IInv, PairInv
  <2>3. planned = <<>> => ~HasData(results)
    BY DEF IInv, PairInv, TypeOK, HasData
  <2>4. HasData(results)' = HasData(results) /\ ImpactPlanned' = ImpactPlanned
    BY <2>1 DEF HasData, ImpactPlanned
  <2>5. CitedInv' /\ RetryInv'
    BY <2>1, <2>2, <2>3, <2>4 DEF CitedInv, RetryInv, Answered
  <2>6. FormInv' /\ KeyInv'
    BY <2>1, <2>4 DEF RunInv, FormInv, KeyInv
  <2>. QED  BY <2>5, <2>6 DEF RunInv
<1>4. CASE Replan
  <2>1. /\ pc' = IF body.summarize THEN "summarize" ELSE "view"
        /\ planned' = body.goal.plan
        /\ UNCHANGED <<body, configured, summary, status>>
    BY <1>4 DEF Replan
  <2>2. status = 0
    BY <1>4 DEF Replan, IInv, PairInv
  <2>3. CitedInv' /\ RetryInv'
    BY <2>1, <2>2 DEF CitedInv, RetryInv, Answered
  <2>4. \A i \in 1..Len(body.goal.plan) : body.goal.plan[i].form # "invented"
    BY <1>0, HeuristicPlans
  <2>5. FormInv' /\ KeyInv'
    BY <2>1, <2>2, <2>4 DEF FormInv, KeyInv
  <2>. QED  BY <2>3, <2>5 DEF RunInv
<1>5. CASE ReplanFails
  <2>1. PICK exception \in Failures(body.goal.plan[1]) : Raise(exception)
    BY <1>5 DEF ReplanFails
  <2>2. exception \in {"ValueError", "other"}
    BY <2>1, FailureTypes
  <2>3. ImpactPlanned
    BY <1>5 DEF ReplanFails, RunInv, RetryInv
  <2>. QED  BY <2>1, <2>2, <2>3, RaiseRun DEF Exceptions
<1>. QED  BY <1>1, <1>2, <1>3, <1>4, <1>5

LEMMA AnsweringRun ==
  ASSUME IInv, RunInv, SummarizeHeuristic \/ SummarizerAnswers \/ SummarizerRejected
                         \/ SummarizerFails \/ View \/ ViewFails
  PROVE  RunInv'
<1>1. CASE SummarizeHeuristic
  BY <1>1, HeuristicCites, SummarizedRun DEF SummarizeHeuristic
<1>2. CASE SummarizerAnswers
  <2>1. PICK s \in ModelTexts : Summarized(s) /\ Grounded(s)
    BY <1>2 DEF SummarizerAnswers
  <2>. QED  BY <2>1, SummarizedRun DEF Grounded
<1>3. CASE SummarizerFails
  <2>1. PICK exception \in Exceptions :
           IF exception = "RuntimeError" THEN Summarized(HeuristicSummary)
                                         ELSE Raise(exception)
    BY <1>3 DEF SummarizerFails
  <2>2. configured
    BY <1>3 DEF SummarizerFails
  <2>. QED  BY <2>1, <2>2, HeuristicCites, SummarizedRun, RaiseRun
<1>4. CASE View
  <2>1. /\ pc = "view" /\ pc' = "done" /\ status' = 200
        /\ UNCHANGED <<body, configured, planned, results, summary>>
    BY <1>4 DEF View
  <2>2. CitedInv'
    BY <2>1 DEF RunInv, CitedInv, HasData
  <2>. QED  BY <2>1, <2>2 DEF RunInv, FormInv, KeyInv, RetryInv, ImpactPlanned
<1>5. CASE ViewFails
  BY <1>5, RaiseRun DEF ViewFails, Exceptions
<1>6. CASE SummarizerRejected
  BY <1>6, HeuristicCites, SummarizedRun DEF SummarizerRejected
<1>. QED  BY <1>1, <1>2, <1>3, <1>4, <1>5, <1>6

LEMMA NextRun == IInv /\ RunInv /\ [Next]_vars => RunInv'
<1>. SUFFICES ASSUME IInv, RunInv, [Next]_vars PROVE RunInv'
  OBVIOUS
<1>1. CASE UNCHANGED vars
  BY <1>1 DEF vars, RunInv, CitedInv, FormInv, KeyInv, RetryInv, Answered, HasData,
     ImpactPlanned
<1>. QED  BY <1>1, PlanningRun, CallingRun, AnsweringRun DEF Next

------------------------------------------------------------------------------
(* The theorems *)

\* Every variable of a run keeps its type.
THEOREM TypeCorrect == Spec => []TypeOK
<1>1. IInv => TypeOK
  BY DEF IInv
<1>. QED  BY <1>1, InitInv, NextInv, PTL DEF Spec

\* In an answer, the n-th result is that of the n-th call.
THEOREM Paired == Spec => []ResultsPaired
<1>1. IInv => ResultsPaired
  <2>. SUFFICES ASSUME IInv, Answered
                PROVE  [i \in 1..Len(results) |-> results[i].call] = planned
    BY DEF ResultsPaired
  <2>1. planned \in Seq(Calls) /\ Len(results) = Len(planned)
    BY DEF IInv, TypeOK, PairInv
  <2>2. \A i \in 1..Len(results) : results[i].call = planned[i]
    BY DEF IInv, PairInv
  <2>. QED  BY <2>1, <2>2
<1>. QED  BY <1>1, InitInv, NextInv, PTL DEF Spec

\* Whatever the language model writes and whichever way the answer was made, the
\* user reads only of entities in the arguments and rows of its calls, but for
\* ids that came about when the explanation was stripped after the gate.
THEOREM AnswersGrounded == Spec => []AnswerGrounded
<1>1. IInv => AnswerGrounded
  <2>. SUFFICES ASSUME IInv, Answered PROVE Shown \ Formed \subseteq GroundIds
    BY DEF AnswerGrounded
  <2>1. \A i \in 1..Len(results) : /\ results[i].call = planned[i]
                                   /\ i \in 1..Len(planned)
    BY DEF IInv, PairInv, TypeOK
  <2>2. Report \subseteq GroundIds
    BY <2>1 DEF Report, GroundIds
  <2>3. UserExplanation \ Formed \subseteq GroundIds
    BY <2>2 DEF IInv, SummaryInv, UserExplanation, Formed
  <2>4. UserClaims \subseteq GroundIds
    BY DEF IInv, SummaryInv, UserClaims
  <2>. QED  BY <2>2, <2>3, <2>4 DEF Shown
<1>. QED  BY <1>1, InitInv, NextInv, PTL DEF Spec

LEMMA RunInvariant == Spec => [](IInv /\ RunInv)
BY InitInv, InitRun, NextInv, NextRun, PTL DEF Spec

\* An answer with an explanation cites something whenever a tool found rows,
\* on each of the paths to the answer.
THEOREM RowsAreCited == Spec => []RowsCited
<1>1. IInv /\ RunInv => RowsCited
  BY DEF RunInv, CitedInv, RowsCited
<1>. QED  BY <1>1, RunInvariant, PTL

\* An invented name reaches the stores only if the heuristic has no plan.
THEOREM InventionsHeldBack == Spec => []InventedOnlyUnplanned
<1>1. IInv /\ RunInv => InventedOnlyUnplanned
  <2>. SUFFICES ASSUME IInv, RunInv, NEW i \in 1..Len(results), body.tool_calls = <<>>,
                       results[i].call.form = "invented", body.goal.plan # <<>>
                PROVE  FALSE
    BY DEF InventedOnlyUnplanned
  <2>1. results[i].call = planned[i] /\ i \in 1..Len(planned)
    BY DEF IInv, PairInv, TypeOK
  <2>. QED  BY <2>1 DEF RunInv, FormInv
<1>. QED  BY <1>1, RunInvariant, PTL

\* Without a gateway, only mode llm is refused for want of one, and only a
\* planned impact analysis ends as an error of the client.
THEOREM KeylessRuns == Spec => []NoKeyNeeded
<1>1. IInv /\ RunInv => NoKeyNeeded
  BY DEF RunInv, KeyInv, NoKeyNeeded
<1>. QED  BY <1>1, RunInvariant, PTL

\* No step of a run gives up rows that a tool found.
THEOREM RowsNeverGivenUp == Spec => RowsKept
<1>. DEFINE Kept == \A i \in 1..Len(results) :
                      results[i].data # {} => i <= Len(results') /\ results'[i] = results[i]
<1>1. IInv /\ RunInv /\ [Next]_vars => [Kept]_vars
  <2>. SUFFICES ASSUME IInv, RunInv, [Next]_vars PROVE Kept
    OBVIOUS
  <2>0. results \in Seq(Result)
    BY DEF IInv, TypeOK
  <2>1. CASE results' = results
    BY <2>0, <2>1
  <2>2. CASE Invoke
    <3>1. PICK x : results' = Append(results, x)
      BY <2>2 DEF Invoke
    <3>. QED  BY <2>0, <3>1
  <2>3. CASE Replan
    BY <2>3 DEF Replan, RunInv, RetryInv, HasData
  <2>4. Invoke \/ Replan \/ results' = results
    BY DEF Next, PlanExplicit, PlanHeuristic, PlanByModel, PlannerAnswers, PlannerFails,
           InvokeFails, Invoked, ReplanFails, SummarizeHeuristic, SummarizerAnswers,
           SummarizerRejected, SummarizerFails, View, ViewFails, Planned, Raise, Summarized, vars
  <2>. QED  BY <2>1, <2>2, <2>3, <2>4
<1>. QED  BY <1>1, RunInvariant, PTL DEF Spec, RowsKept

------------------------------------------------------------------------------
(* The length of a run *)

\* How many steps are left at most: one for each call not yet executed, and one
\* for each stage that can follow.
StepsLeft ==
  CASE pc = "plan"      -> MaxCalls + 7
    [] pc = "planner"   -> MaxCalls + 6
    [] pc = "invoke"    -> (Len(planned) - Len(results)) + 4
    [] pc = "replan"    -> 3
    [] pc = "summarize" -> 2
    [] pc = "view"      -> 1
    [] OTHER            -> 0

\* Raising is the last step.
LEMMA RaiseDescends ==
  ASSUME TypeOK, pc # "done", StepsLeft \in Nat \ {0}, NEW exception, Raise(exception)
  PROVE  StepsLeft' < StepsLeft
<1>1. StepsLeft' = 0
  BY DEF Raise, StepsLeft
<1>. QED  BY <1>1

\* A plan has at most MaxCalls calls, or the one of the heuristic.
LEMMA PlannedDescends ==
  ASSUME IInv, pc \in {"plan", "planner"}, NEW calls \in Seq(Calls),
         calls \in Plans \/ Len(calls) <= 1, Planned(calls)
  PROVE  StepsLeft' < StepsLeft
<1>1. results = <<>> /\ results' = results /\ planned' = calls /\ pc' = "invoke"
  BY DEF IInv, PairInv, Planned
<1>2. Len(calls) \in Nat /\ Len(calls) <= MaxCalls + 1
  BY MaxCallsAssumption DEF Plans
<1>3. StepsLeft' = Len(calls) + 4
  BY <1>1, <1>2 DEF StepsLeft
<1>4. StepsLeft >= MaxCalls + 6
  BY MaxCallsAssumption DEF StepsLeft
<1>. QED  BY <1>2, <1>3, <1>4, MaxCallsAssumption DEF StepsLeft

LEMMA StepsLeftNat == IInv => StepsLeft \in Nat /\ (pc # "done" => StepsLeft # 0)
<1>. SUFFICES ASSUME IInv PROVE StepsLeft \in Nat /\ (pc # "done" => StepsLeft # 0)
  OBVIOUS
<1>1. Len(planned) \in Nat /\ Len(results) \in Nat /\ Len(results) <= Len(planned)
  BY DEF IInv, TypeOK, PairInv
<1>2. pc \in Steps
  BY DEF IInv, TypeOK
<1>. QED  BY <1>1, <1>2, MaxCallsAssumption DEF StepsLeft, Steps

LEMMA NextDescends == IInv /\ Next => StepsLeft' < StepsLeft
<1>. SUFFICES ASSUME IInv, Next PROVE StepsLeft' < StepsLeft
  OBVIOUS
<1>0. /\ StepsLeft \in Nat /\ (pc # "done" => StepsLeft # 0)
      /\ TypeOK /\ MaxCalls \in Nat
      /\ Len(planned) \in Nat /\ Len(results) \in Nat /\ Len(results) <= Len(planned)
  BY StepsLeftNat, MaxCallsAssumption DEF IInv, TypeOK, PairInv
<1>1. body.tool_calls \in Plans /\ body.tool_calls \in Seq(Calls) /\ body.goal \in Goals
  BY PlanTypes DEF IInv, TypeOK, Body
<1>2. body.goal.plan \in Seq(Calls) /\ Len(body.goal.plan) <= 1
  <2>1. /\ body.goal.plan \in Seq(Calls)
        /\ body.goal.plan # <<>> => Len(body.goal.plan) = 1
    BY <1>1, PlanTypes
  <2>2. ASSUME NEW calls \in Seq(Calls), calls # <<>> => Len(calls) = 1
        PROVE  Len(calls) <= 1
    <3>1. CASE calls = <<>>
      <4>1. Len(calls) = 0
        BY <3>1
      <4>. QED  BY <4>1
    <3>2. CASE calls # <<>>
      <4>1. Len(calls) = 1
        BY <2>2, <3>2
      <4>. QED  BY <4>1
    <3>. QED  BY <3>1, <3>2
  <2>. QED  BY <2>1, <2>2
<1>3. CASE PlanExplicit
  BY <1>1, <1>3, PlannedDescends DEF PlanExplicit
<1>4. CASE PlanHeuristic
  BY <1>2, <1>4, PlannedDescends DEF PlanHeuristic
<1>5. CASE PlanByModel
  <2>1. CASE configured
    <3>1. pc = "plan" /\ pc' = "planner"
      BY <1>5, <2>1 DEF PlanByModel
    <3>. QED  BY <1>0, <3>1 DEF StepsLeft
  <2>2. CASE ~configured
    BY <1>0, <1>5, <2>2, RaiseDescends DEF PlanByModel
  <2>. QED  BY <2>1, <2>2
<1>6. CASE PlannerAnswers
  <2>1. PICK raw \in Plans : LET calls == Reconcile(body.goal, raw) IN
                               IF calls = <<>> THEN Raise("RuntimeError") ELSE Planned(calls)
    BY <1>6 DEF PlannerAnswers
  <2>2. pc = "planner"
    BY <1>6 DEF PlannerAnswers
  <2>3. /\ Reconcile(body.goal, raw) \in Seq(Calls)
        /\ Reconcile(body.goal, raw) \in Plans \/ Len(Reconcile(body.goal, raw)) <= 1
    BY <1>2, PlanTypes DEF Reconcile
  <2>4. CASE Reconcile(body.goal, raw) = <<>>
    BY <1>0, <2>1, <2>2, <2>4, RaiseDescends
  <2>5. CASE Reconcile(body.goal, raw) # <<>>
    BY <2>1, <2>2, <2>3, <2>5, PlannedDescends
  <2>. QED  BY <2>4, <2>5
<1>7. CASE Invoke
  <2>1. PICK x : results' = Append(results, x)
    BY <1>7 DEF Invoke
  <2>2. Len(results') = Len(results) + 1
    BY <2>1 DEF IInv, TypeOK
  <2>3. pc = "invoke" /\ pc' = "invoke" /\ planned' = planned
    BY <1>7 DEF Invoke
  <2>. QED  BY <1>0, <2>2, <2>3 DEF StepsLeft
<1>8. CASE Invoked
  <2>1. pc = "invoke" /\ pc' \in {"replan", "summarize", "view"}
    BY <1>8 DEF Invoked
  <2>. QED  BY <1>0, <2>1 DEF StepsLeft
<1>9. CASE Replan
  <2>1. pc = "replan" /\ pc' \in {"summarize", "view"}
    BY <1>9 DEF Replan
  <2>. QED  BY <2>1 DEF StepsLeft
<1>10. ASSUME NEW s, pc = "summarize", Summarized(s)
       PROVE  StepsLeft' < StepsLeft
  <2>1. pc' = "view"
    BY <1>10 DEF Summarized
  <2>. QED  BY <1>10, <2>1 DEF StepsLeft
<1>11. CASE SummarizeHeuristic \/ SummarizerAnswers \/ SummarizerRejected
  BY <1>10, <1>11 DEF SummarizeHeuristic, SummarizerAnswers, SummarizerRejected
<1>12. CASE SummarizerFails
  BY <1>0, <1>10, <1>12, RaiseDescends DEF SummarizerFails
<1>13. CASE View
  <2>1. pc = "view" /\ pc' = "done"
    BY <1>13 DEF View
  <2>. QED  BY <2>1 DEF StepsLeft
<1>14. CASE PlannerFails \/ InvokeFails \/ ReplanFails \/ ViewFails
  BY <1>0, <1>14, RaiseDescends DEF PlannerFails, InvokeFails, ReplanFails, ViewFails
<1>. QED  BY <1>3, <1>4, <1>5, <1>6, <1>7, <1>8, <1>9, <1>11, <1>12, <1>13, <1>14 DEF Next

\* Whatever model, gateway and tools do, a run has at most MaxCalls + 7 steps:
\* one retry, one fallback, and no way back.  (That it makes its steps is the
\* fairness of RunEnds.)
THEOREM RunBounded ==
  Spec => [](StepsLeft \in 0..(MaxCalls + 7)) /\ [][StepsLeft' < StepsLeft]_vars
<1>. DEFINE Bounded == StepsLeft \in 0..(MaxCalls + 7)
            Less    == StepsLeft' < StepsLeft
<1>1. Init => StepsLeft = MaxCalls + 7
  BY DEF Init, StepsLeft
<1>2. Init => Bounded
  BY <1>1, MaxCallsAssumption
<1>3. IInv /\ [Next]_vars => [Less]_vars
  BY NextDescends
<1>4. (IInv => StepsLeft \in Nat)'
  BY StepsLeftNat, PTL
<1>5. IInv /\ Bounded /\ [Next]_vars => Bounded'
  <2>. SUFFICES ASSUME IInv, Bounded, [Next]_vars PROVE Bounded'
    OBVIOUS
  <2>1. CASE UNCHANGED vars
    <3>1. StepsLeft' = StepsLeft
      BY <2>1 DEF vars, StepsLeft
    <3>. QED  BY <3>1
  <2>2. CASE Next
    <3>1. IInv'
      BY NextInv
    <3>2. StepsLeft' \in Nat
      BY <1>4, <3>1
    <3>. QED  BY <2>2, <3>2, NextDescends, MaxCallsAssumption
  <2>. QED  BY <2>1, <2>2
<1>. QED  BY <1>2, <1>3, <1>5, InitInv, NextInv, PTL DEF Spec
==============================================================================
