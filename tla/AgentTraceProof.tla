---------------------------- MODULE AgentTraceProof ----------------------------
(***************************************************************************)
(* Proofs about the trace of a run, for any goals, ids and length of plans *)
(* and whatever the language model answers.  A traced run is a run of      *)
(* AgentRun, so the invariants of AgentRunProof hold of it as well.        *)
(***************************************************************************)
EXTENDS AgentTrace, AgentRunProof

LEMMA TracedStep == [TracedNext]_tracedVars => [Next]_vars
<1>. SUFFICES ASSUME [TracedNext]_tracedVars PROVE [Next]_vars
  OBVIOUS
<1>1. ASSUME PlanReports \/ PlannerReports \/ FailureReports \/ SummaryReports
               \/ ToolsReport \/ EmitRun
      PROVE  Next
  BY <1>1 DEF PlanReports, PlannerReports, FailureReports, SummaryReports, ToolsReport,
     EmitRun, Next
<1>2. CASE Reply
  BY <1>2 DEF Reply
<1>3. CASE UNCHANGED tracedVars
  BY <1>3 DEF tracedVars
<1>. QED  BY <1>1, <1>2, <1>3 DEF TracedNext

\* Watching a run does not change it: what AgentRun guarantees holds of it.
THEOREM TracedRunIsRun == TracedSpec => Spec
<1>1. TracedInit => Init
  BY DEF TracedInit
<1>. QED  BY <1>1, TracedStep, PTL DEF TracedSpec, Spec

LEMMA TracedIInv == TracedSpec => []IInv
<1>. QED  BY TracedRunIsRun, InitInv, NextInv, PTL DEF Spec

------------------------------------------------------------------------------
\* What ended, whether it was sent or not.
Seen      == ended \cup sent
ToolsSeen == {o \in Seen : o.name = "tool"}

\* A planning observation has the calls of the results.
PlanTold ==
  \E o \in Seen : /\ o.name = "planning"
                  /\ \A i \in 1..Len(results) :
                       \/ i <= Len(o.calls) /\ o.calls[i] = results[i].call
                       \/ <<results[i].call>> = body.goal.plan

\* While the tools are invoked the trace has the plan itself.
PlanInv ==
  /\ pc \in {"invoke", "replan"} => Planning(planned) \in Seen
  /\ results # <<>> => PlanTold
  /\ body.tool_calls = <<>> /\ UsesModel /\ pc \notin {"plan", "planner", "done"}
       => Generation("planner") \in Seen
  /\ body.tool_calls = <<>> /\ UsesModel /\ results # <<>>
       => Generation("planner") \in Seen

\* Tools are told of at the end, all at once.
ToolsInv ==
  /\ ~Answered => ToolsSeen = {}
  /\ Answered => /\ ToolsSeen = {ToolSpan(i) : i \in 1..Len(planned)}
                 /\ RootSpan \in Seen

\* The model's words are on record as soon as a summary has them.
WordsInv ==
  pc \in {"view", "done"} /\ summary \notin {None, HeuristicSummary}
    => Generation("summarize") \in Seen

ReplyInv == replied => pc = "done" /\ ended = {}

TraceInv == ReplyInv /\ (Tracing => PlanInv /\ ToolsInv /\ WordsInv)

------------------------------------------------------------------------------
LEMMA InitTrace == TracedInit => TraceInv
<1>. SUFFICES ASSUME TracedInit PROVE TraceInv
  OBVIOUS
<1>. USE DEF TracedInit, Init
<1>1. ReplyInv
  BY DEF ReplyInv
<1>2. PlanInv
  BY DEF PlanInv
<1>3. ToolsInv
  BY DEF ToolsInv, ToolsSeen, Seen, Answered
<1>4. WordsInv
  BY DEF WordsInv
<1>. QED  BY <1>1, <1>2, <1>3, <1>4 DEF TraceInv

LEMMA Recorded ==
  ASSUME Tracing, NEW observations, Record(observations)
  PROVE  Seen' = Seen \cup observations
<1>. QED  BY DEF Record, Seen

\* No tool is told of before the end.
LEMMA RecordedTools ==
  ASSUME Tracing, NEW observations, Record(observations),
         \A o \in observations : o.name # "tool"
  PROVE  ToolsSeen' = ToolsSeen
<1>. QED  BY Recorded DEF ToolsSeen

\* Nobody replies while the run is under way.
LEMMA RecordedReply ==
  ASSUME ReplyInv, pc # "done", NEW observations, Record(observations)
  PROVE  ReplyInv'
<1>. QED  BY DEF ReplyInv, Record

\* An exception adds nothing to what the trace has to tell.
LEMMA RaiseTrace ==
  ASSUME IInv, TraceInv, pc # "done", NEW exception \in Exceptions, Raise(exception),
         NEW observations, Record(observations),
         \A o \in observations : o.name # "tool"
  PROVE  TraceInv'
<1>1. ReplyInv'
  BY RecordedReply DEF TraceInv
<1>2. ASSUME Tracing PROVE PlanInv' /\ ToolsInv' /\ WordsInv'
  <2>0. PlanInv /\ ToolsInv /\ WordsInv /\ Seen \subseteq Seen' /\ ToolsSeen' = ToolsSeen
    BY <1>2, Recorded, RecordedTools DEF TraceInv
  <2>1. PlanInv'
    <3>1. UsesModel' = UsesModel /\ pc' = "done" /\ results' = results /\ body' = body
      BY DEF Raise, UsesModel
    <3>2. PlanTold => PlanTold'
      BY <2>0, <3>1 DEF PlanTold
    <3>. QED  BY <2>0, <3>1, <3>2 DEF PlanInv, Generation
  <2>2. ~Answered /\ ~Answered'
    BY DEF IInv, PairInv, Answered, Raise, StatusOf, Exceptions
  <2>3. ToolsInv'
    BY <2>0, <2>2 DEF ToolsInv
  <2>4. WordsInv'
    <3>1. HeuristicSummary' = HeuristicSummary /\ summary' = summary
      BY DEF Raise, HeuristicSummary, GroundIds
    <3>2. pc # "view" => summary = None
      BY DEF IInv, SummaryInv
    <3>3. None' = None
      BY DEF None
    <3>. QED  BY <2>0, <3>1, <3>2, <3>3 DEF WordsInv, Generation
  <2>. QED  BY <2>1, <2>3, <2>4
<1>. QED  BY <1>1, <1>2 DEF TraceInv

\* The plan is on record when the tools begin.
LEMMA PlannedTrace ==
  ASSUME IInv, TraceInv, pc \in {"plan", "planner"}, NEW calls, Planned(calls),
         NEW observations, Record(observations),
         \A o \in observations : o.name # "tool",
         Planning(calls) \in observations,
         body.tool_calls = <<>> /\ UsesModel => Generation("planner") \in observations
  PROVE  TraceInv'
<1>0. results = <<>> /\ status = 0 /\ results' = <<>> /\ planned' = calls /\ pc' = "invoke"
        /\ body' = body /\ status' = status
  BY DEF IInv, PairInv, Planned
<1>1. ReplyInv'
  BY RecordedReply DEF TraceInv
<1>2. ASSUME Tracing PROVE PlanInv' /\ ToolsInv' /\ WordsInv'
  <2>0. ToolsInv /\ Seen' = Seen \cup observations /\ ToolsSeen' = ToolsSeen
    BY <1>2, Recorded, RecordedTools DEF TraceInv
  <2>1. UsesModel' = UsesModel
    BY DEF Planned, UsesModel
  <2>2. PlanInv'
    BY <1>0, <2>0, <2>1 DEF PlanInv, Planning, Generation
  <2>3. ToolsInv'
    BY <1>0, <2>0 DEF ToolsInv, Answered
  <2>4. WordsInv'
    BY <1>0 DEF WordsInv
  <2>. QED  BY <2>2, <2>3, <2>4
<1>. QED  BY <1>1, <1>2 DEF TraceInv

LEMMA SummarizedTrace ==
  ASSUME IInv, TraceInv, pc = "summarize", NEW s, Summarized(s),
         NEW observations, Record(observations),
         \A o \in observations : o.name # "tool",
         s = HeuristicSummary \/ Generation("summarize") \in observations
  PROVE  TraceInv'
<1>0. pc' = "view" /\ results' = results /\ body' = body /\ planned' = planned
        /\ status' = status /\ status = 0 /\ summary' = s
  BY DEF IInv, PairInv, Summarized
<1>1. ReplyInv'
  BY RecordedReply DEF TraceInv
<1>2. ASSUME Tracing PROVE PlanInv' /\ ToolsInv' /\ WordsInv'
  <2>0. PlanInv /\ ToolsInv /\ Seen' = Seen \cup observations /\ ToolsSeen' = ToolsSeen
    BY <1>2, Recorded, RecordedTools DEF TraceInv
  <2>1. UsesModel' = UsesModel
    BY DEF Summarized, UsesModel
  <2>2. PlanTold => PlanTold'
    BY <1>0, <2>0 DEF PlanTold
  <2>3. PlanInv'
    BY <1>0, <2>0, <2>1, <2>2 DEF PlanInv, Generation
  <2>4. ToolsInv'
    BY <1>0, <2>0 DEF ToolsInv, Answered
  <2>5. HeuristicSummary' = HeuristicSummary
    BY <1>0 DEF HeuristicSummary, GroundIds
  <2>6. WordsInv'
    BY <1>0, <2>0, <2>5 DEF WordsInv, Generation
  <2>. QED  BY <2>3, <2>4, <2>6
<1>. QED  BY <1>1, <1>2 DEF TraceInv

------------------------------------------------------------------------------
\* The actions

LEMMA PlanReportsTrace == IInv /\ TraceInv /\ PlanReports => TraceInv'
<1>. SUFFICES ASSUME IInv, TraceInv, PlanReports PROVE TraceInv'
  OBVIOUS
<1>1. ASSUME NEW calls, Planned(calls), pc = "plan", Record({Planning(planned')}),
             ~(body.tool_calls = <<>> /\ UsesModel)
      PROVE  TraceInv'
  <2>1. planned' = calls
    BY <1>1 DEF Planned
  <2>2. Record({Planning(calls)}) /\ \A o \in {Planning(calls)} : o.name # "tool"
    BY <1>1, <2>1 DEF Planning
  <2>3. Planning(calls) \in {Planning(calls)} /\ pc \in {"plan", "planner"}
    BY <1>1
  <2>. QED  BY <1>1, <2>2, <2>3, PlannedTrace
<1>2. CASE PlanExplicit /\ Record({Planning(planned')})
  BY <1>1, <1>2 DEF PlanExplicit
<1>3. CASE PlanHeuristic /\ Record({Planning(planned')})
  BY <1>1, <1>3 DEF PlanHeuristic
<1>4. CASE PlanByModel /\ Record({})
  <2>1. CASE configured
    <3>1. UNCHANGED <<body, configured, planned, results, summary, status>>
            /\ pc = "plan" /\ pc' = "planner"
      BY <1>4, <2>1 DEF PlanByModel
    <3>2. ReplyInv'
      BY <1>4, <3>1, RecordedReply DEF TraceInv
    <3>3. ASSUME Tracing PROVE PlanInv' /\ ToolsInv' /\ WordsInv'
      <4>0. ToolsInv /\ ToolsSeen' = ToolsSeen
        BY <1>4, <3>3, RecordedTools DEF TraceInv
      <4>1. results = <<>> /\ status = 0
        BY <3>1 DEF IInv, PairInv
      <4>. QED  BY <3>1, <4>0, <4>1 DEF PlanInv, ToolsInv, WordsInv, Answered
    <3>. QED  BY <3>2, <3>3 DEF TraceInv
  <2>2. CASE ~configured
    BY <1>4, <2>2, RaiseTrace DEF PlanByModel, Exceptions
  <2>. QED  BY <2>1, <2>2
<1>. QED  BY <1>2, <1>3, <1>4 DEF PlanReports

LEMMA PlannerReportsTrace == IInv /\ TraceInv /\ PlannerReports => TraceInv'
<1>. SUFFICES ASSUME IInv, TraceInv, PlannerReports PROVE TraceInv'
  OBVIOUS
<1>. DEFINE observations == {Generation("planner")}
                              \cup {o \in {Planning(planned')} : pc' = "invoke"}
<1>1. Record(observations) /\ pc = "planner"
  BY DEF PlannerReports, PlannerAnswers
<1>2. \A o \in observations : o.name # "tool"
  BY DEF Generation, Planning
<1>3. PICK raw \in Plans : LET calls == Reconcile(body.goal, raw) IN
                             IF calls = <<>> THEN Raise("RuntimeError") ELSE Planned(calls)
  BY DEF PlannerReports, PlannerAnswers
<1>. DEFINE calls == Reconcile(body.goal, raw)
<1>4. CASE calls = <<>>
  BY <1>1, <1>2, <1>3, <1>4, RaiseTrace DEF Exceptions
<1>5. CASE calls # <<>>
  <2>1. Planned(calls)
    BY <1>3, <1>5
  <2>2. planned' = calls /\ pc' = "invoke"
    BY <2>1 DEF Planned
  <2>3. Planning(calls) \in observations /\ Generation("planner") \in observations
    BY <2>2 DEF Planning
  <2>. HIDE DEF observations, calls
  <2>. QED  BY <1>1, <1>2, <2>1, <2>3, PlannedTrace
<1>. QED  BY <1>4, <1>5

LEMMA FailureReportsTrace == IInv /\ TraceInv /\ FailureReports => TraceInv'
<1>. SUFFICES ASSUME IInv, TraceInv, FailureReports PROVE TraceInv'
  OBVIOUS
<1>1. ASSUME NEW name, Failed(name)
      PROVE  \E observations : Record(observations) /\ \A o \in observations : o.name # "tool"
                                 \/ name = "tool"
  BY <1>1 DEF Failed, Generation
<1>2. CASE PlannerFails /\ Failed("planner")
  <2>1. PICK exception \in Exceptions : Raise(exception)
    BY <1>2 DEF PlannerFails
  <2>2. PICK observations : Record(observations) /\ \A o \in observations : o.name # "tool"
    BY <1>1, <1>2
  <2>. QED  BY <1>2, <2>1, <2>2, RaiseTrace DEF PlannerFails
<1>3. CASE SummarizerFails /\ Failed("summarize")
  <2>1. PICK exception \in Exceptions :
           IF exception = "RuntimeError" THEN Summarized(HeuristicSummary)
                                         ELSE Raise(exception)
    BY <1>3 DEF SummarizerFails
  <2>2. PICK observations : Record(observations) /\ \A o \in observations : o.name # "tool"
    BY <1>1, <1>3
  <2>. QED  BY <1>3, <2>1, <2>2, RaiseTrace, SummarizedTrace DEF SummarizerFails
<1>. QED  BY <1>2, <1>3 DEF FailureReports

LEMMA SummaryReportsTrace == IInv /\ TraceInv /\ SummaryReports => TraceInv'
<1>. SUFFICES ASSUME IInv, TraceInv, SummaryReports PROVE TraceInv'
  OBVIOUS
<1>1. pc = "summarize" /\ \E s : Summarized(s)
  BY DEF SummaryReports, SummarizerAnswers, SummarizerRejected
<1>2. Record({Generation("summarize")}) /\ Generation("summarize").name # "tool"
  BY DEF SummaryReports, Generation
<1>. QED  BY <1>1, <1>2, SummarizedTrace

\* The tools run without a word to the trace, which has their plan already.
LEMMA ToolsReportTrace == IInv /\ TraceInv /\ ToolsReport => TraceInv'
<1>. SUFFICES ASSUME IInv, TraceInv, ToolsReport PROVE TraceInv'
  OBVIOUS
<1>0. Record({})
  BY DEF ToolsReport
<1>1. CASE InvokeFails
  <2>1. PICK exception \in Failures(planned[Len(results) + 1]) : Raise(exception)
    BY <1>1 DEF InvokeFails
  <2>2. exception \in Exceptions
    BY DEF Failures, Exceptions
  <2>. QED  BY <1>0, <1>1, <2>1, <2>2, RaiseTrace DEF InvokeFails
<1>2. CASE ReplanFails
  <2>1. PICK exception \in Failures(body.goal.plan[1]) : Raise(exception)
    BY <1>2 DEF ReplanFails
  <2>2. exception \in Exceptions
    BY <2>1, FailureTypes DEF Exceptions
  <2>. QED  BY <1>0, <1>2, <2>1, <2>2, RaiseTrace DEF ReplanFails
<1>3. CASE ViewFails
  BY <1>0, <1>3, RaiseTrace DEF ViewFails, Exceptions
<1>4. CASE SummarizeHeuristic
  BY <1>0, <1>4, SummarizedTrace DEF SummarizeHeuristic
<1>5. CASE Invoke \/ Invoked \/ Replan
  <2>0. pc \in {"invoke", "replan"} /\ UNCHANGED <<body, configured, summary, status>>
          /\ pc' \in {"invoke", "replan", "summarize", "view"}
    BY <1>5 DEF Invoke, Invoked, Replan
  <2>1. status = 0 /\ summary = None /\ summary' = None
    BY <2>0 DEF IInv, PairInv, SummaryInv, None
  <2>2. ReplyInv'
    BY <1>0, <2>0, RecordedReply DEF TraceInv
  <2>3. ASSUME Tracing PROVE PlanInv' /\ ToolsInv' /\ WordsInv'
    <3>0. PlanInv /\ ToolsInv /\ Seen' = Seen /\ ToolsSeen' = ToolsSeen
      BY <1>0, <2>3, Recorded, RecordedTools DEF TraceInv
    <3>1. UsesModel' = UsesModel
      BY <2>0 DEF UsesModel
    <3>2. Planning(planned) \in Seen
      BY <2>0, <3>0 DEF PlanInv
    <3>3. pc' \in {"invoke", "replan"} => planned' = planned
      BY <1>5, <2>0 DEF Invoke, Invoked, Replan
    <3>4. PlanTold'
      <4>1. CASE Invoke \/ Invoked
        <5>1. IInv'
          BY <4>1, InvokeInv, InvokedInv
        <5>2. planned' = planned
          BY <4>1 DEF Invoke, Invoked
        <5>3. \A i \in 1..Len(results') : i <= Len(planned) /\ planned[i] = results'[i].call
          BY <5>1, <5>2 DEF IInv, PairInv, TypeOK
        <5>4. Planning(planned).name = "planning" /\ Planning(planned).calls = planned
          BY DEF Planning
        <5>. QED  BY <3>0, <3>2, <5>3, <5>4 DEF PlanTold
      <4>2. CASE Replan
        <5>1. IInv'
          BY <4>2, ReplanInv
        <5>2. planned' = body.goal.plan /\ Len(results') = 1 /\ planned' \in Seq(Calls)
                /\ Len(planned') = 1 /\ results'[1].call = planned'[1]
          BY <4>2, <5>1, PlanTypes DEF Replan, IInv, PairInv, TypeOK, Body
        <5>3. <<results'[1].call>> = body'.goal.plan
          BY <2>0, <5>2
        <5>4. Planning(planned).name = "planning"
          BY DEF Planning
        <5>. QED  BY <3>0, <3>2, <5>2, <5>3, <5>4 DEF PlanTold
      <4>. QED  BY <1>5, <4>1, <4>2
    <3>5. PlanInv'
      BY <2>0, <3>0, <3>1, <3>2, <3>3, <3>4 DEF PlanInv, Planning, Generation
    <3>6. ToolsInv'
      BY <2>0, <2>1, <3>0 DEF ToolsInv, Answered
    <3>7. WordsInv'
      BY <2>1 DEF WordsInv, None
    <3>. QED  BY <3>5, <3>6, <3>7
  <2>. QED  BY <2>2, <2>3 DEF TraceInv
<1>. QED  BY <1>1, <1>2, <1>3, <1>4, <1>5 DEF ToolsReport

\* Every call of the answer has a result, so each has its observation.
LEMMA EmitRunTrace == IInv /\ TraceInv /\ EmitRun => TraceInv'
<1>. SUFFICES ASSUME IInv, TraceInv, EmitRun PROVE TraceInv'
  OBVIOUS
<1>. DEFINE spans == {ToolSpan(i) : i \in {i \in 1..Len(planned) : i <= Len(results)}}
            obs   == spans \cup {RootSpan}
<1>0. pc = "view" /\ pc' = "done" /\ status' = 200
        /\ UNCHANGED <<body, configured, planned, results, summary>> /\ Record(obs)
  BY DEF EmitRun, View
<1>1. ReplyInv'
  BY <1>0, RecordedReply DEF TraceInv
<1>2. ASSUME Tracing PROVE PlanInv' /\ ToolsInv' /\ WordsInv'
  <2>0. PlanInv /\ ToolsInv /\ WordsInv /\ Seen' = Seen \cup obs
    BY <1>0, <1>2, Recorded DEF TraceInv
  <2>1. UsesModel' = UsesModel
    BY <1>0 DEF UsesModel
  <2>2. PlanTold => PlanTold'
    BY <1>0, <2>0 DEF PlanTold
  <2>3. PlanInv'
    BY <1>0, <2>0, <2>1, <2>2 DEF PlanInv, Generation
  <2>4. Len(results) = Len(planned) /\ Len(planned) \in Nat
    BY <1>0 DEF IInv, PairInv, TypeOK
  <2>5. spans = {ToolSpan(i) : i \in 1..Len(planned)}
    BY <2>4
  <2>6. ToolsSeen = {}
    BY <1>0, <2>0 DEF ToolsInv, Answered, IInv, PairInv
  <2>7. ToolsSeen' = spans
    BY <2>0, <2>6 DEF ToolsSeen, ToolSpan, RootSpan
  <2>8. (\A i : ToolSpan(i)' = ToolSpan(i)) /\ RootSpan' = RootSpan
    BY <1>0 DEF ToolSpan, RootSpan
  <2>9. ToolsInv'
    BY <1>0, <2>0, <2>5, <2>7, <2>8 DEF ToolsInv, Answered, ToolSpan, RootSpan
  <2>10. HeuristicSummary' = HeuristicSummary
    BY <1>0 DEF HeuristicSummary, GroundIds
  <2>11. WordsInv'
    BY <1>0, <2>0, <2>10 DEF WordsInv, Generation, None
  <2>. QED  BY <2>3, <2>9, <2>11
<1>. QED  BY <1>1, <1>2 DEF TraceInv

\* A reply sends what ended, and nothing follows it.
LEMMA StillTrace ==
  ASSUME IInv, TraceInv, UNCHANGED vars, Seen' = Seen, ReplyInv'
  PROVE  TraceInv'
<1>0. UNCHANGED <<body, configured, pc, planned, results, summary, status>>
  BY DEF vars
<1>1. ASSUME Tracing PROVE PlanInv' /\ ToolsInv' /\ WordsInv'
  <2>0. PlanInv /\ ToolsInv /\ WordsInv
    BY <1>1 DEF TraceInv
  <2>1. PlanInv'
    BY <1>0, <2>0 DEF PlanInv, PlanTold, UsesModel, Planning, Generation
  <2>2. ToolsInv'
    BY <1>0, <2>0 DEF ToolsInv, ToolsSeen, Answered, ToolSpan, RootSpan
  <2>3. WordsInv'
    BY <1>0, <2>0 DEF WordsInv, HeuristicSummary, GroundIds, Generation, None
  <2>. QED  BY <2>1, <2>2, <2>3
<1>. QED  BY <1>1 DEF TraceInv

LEMMA NextTrace == IInv /\ TraceInv /\ [TracedNext]_tracedVars => TraceInv'
<1>. SUFFICES ASSUME IInv, TraceInv, [TracedNext]_tracedVars PROVE TraceInv'
  OBVIOUS
<1>1. CASE Reply
  <2>1. Seen' = Seen /\ ReplyInv' /\ UNCHANGED vars
    BY <1>1 DEF Reply, Seen, ReplyInv, vars
  <2>. QED  BY <2>1, StillTrace
<1>2. CASE UNCHANGED tracedVars
  <2>1. Seen' = Seen /\ ReplyInv' /\ UNCHANGED vars
    BY <1>2 DEF tracedVars, telemetry, Seen, TraceInv, ReplyInv, vars
  <2>. QED  BY <2>1, StillTrace
<1>. QED
  BY <1>1, <1>2, PlanReportsTrace, PlannerReportsTrace, FailureReportsTrace,
     SummaryReportsTrace, ToolsReportTrace, EmitRunTrace DEF TracedNext

LEMMA TraceInvariant == TracedSpec => [](IInv /\ TraceInv)
<1>1. TracedSpec => [](IInv /\ TraceInv)
  BY TracedIInv, InitTrace, NextTrace, PTL DEF TracedSpec
<1>. QED  BY <1>1

\* With every answer the operator has exactly the calls and raw rows it came
\* from, the answer itself, and the model's words that are in it.
THEOREM AnswersTraced == TracedSpec => []TraceTellsAnswer
<1>1. IInv /\ TraceInv => TraceTellsAnswer
  <2>. SUFFICES ASSUME IInv, TraceInv, replied, Tracing, Answered
                PROVE  /\ {o \in sent : o.name = "tool"} = {ToolSpan(i) : i \in 1..Len(planned)}
                       /\ RootSpan \in sent
                       /\ summary \notin {None, HeuristicSummary}
                            => Generation("summarize") \in sent
    BY DEF TraceTellsAnswer
  <2>1. pc = "done" /\ Seen = sent
    BY DEF TraceInv, ReplyInv, Seen
  <2>. QED  BY <2>1 DEF TraceInv, ToolsInv, ToolsSeen, WordsInv
<1>. QED  BY <1>1, TraceInvariant, PTL

\* Tools that ran are on record even when the run failed before its end.
THEOREM PlansTraced == TracedSpec => []PlanReachesOperator
<1>1. IInv /\ TraceInv => PlanReachesOperator
  BY DEF TraceInv, ReplyInv, Seen, PlanInv, PlanTold, PlanReachesOperator
<1>. QED  BY <1>1, TraceInvariant, PTL
==============================================================================
