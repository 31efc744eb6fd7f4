--------------------------- MODULE IngestOrderProof ---------------------------
(***************************************************************************)
(* The guarantees that rest on the order of calls in a script, for any     *)
(* scripts that meet the conditions of IngestOrder, any ids and any number *)
(* of runs, crashes and interleavings.                                     *)
(*                                                                         *)
(* All invariants have one form: what the calls of the current run have    *)
(* done so far.  They are vacuous when a script stops, since the next run  *)
(* starts with the first call.  For scripts that reset, what has been done *)
(* must also outlast the resets: nobody but one script writes, and no call *)
(* of that script undoes an earlier one.                                   *)
(***************************************************************************)
EXTENDS IngestOrder, DomainIngestProof

------------------------------------------------------------------------------
(* What a step does to the run of a script *)

\* Starts or finishes the read half of a call; ends the run; returns from a call.
Waits(s) == Start(s) \/ MatchNode(s) \/ CheckEdge(s)

Ends(s) ==
  Fail(s) \/ RejectNode(s) \/ UpdateNodeGone(s) \/ RejectEdge(s) \/ OpenLocked(s) \/ Finish(s)

Returns(s) ==
  \/ Configure(s) \/ CreateNode(s) \/ UpdateNode(s) \/ MergeEdge(s) \/ Reset(s)
  \/ Open(s) \/ InsertRow(s) \/ Unlink(s) \/ Close(s)

LEMMA StepKinds ==
  ASSUME NEW s, Start(s) \/ Fail(s) \/ Step(s)
  PROVE  Waits(s) \/ Ends(s) \/ Returns(s)
  BY DEF Step, Waits, Ends, Returns

LEMMA WaitsKeeps ==
  ASSUME NEW s, Waits(s)
  PROVE  UNCHANGED <<store, edges, master, pc, configured, handle>>
  BY DEF Waits, Start, MatchNode, CheckEdge, HasRead

LEMMA EndsKeeps ==
  ASSUME TypeOK, NEW s \in Scripts, Ends(s)
  PROVE  /\ UNCHANGED <<store, edges, master>>
         /\ pc'[s] = 1
         /\ \A t \in Scripts \ {s} :
              pc'[t] = pc[t] /\ configured'[t] = configured[t] /\ handle'[t] = handle[t]
  <1>1. PICK how : Stop(s, how)
    BY DEF Ends, Fail, RejectNode, UpdateNodeGone, RejectEdge, OpenLocked, Finish
  <1>2. UNCHANGED <<store, edges, master>>
    BY DEF Ends, Fail, RejectNode, UpdateNodeGone, RejectEdge, OpenLocked, Finish
  <1> QED
    BY <1>1, <1>2 DEF Stop, TypeOK

LEMMA ReturnsOn ==
  ASSUME TypeOK, NEW s \in Scripts, Returns(s)
  PROVE  /\ pc[s] \in 1..Len(Program[s])
         /\ pc'[s] = pc[s] + 1
         /\ \A t \in Scripts \ {s} : pc'[t] = pc[t]
         /\ UNCHANGED status
         /\ Call(s) \in StoreCall
  <1>1. PICK kind : At(s, kind) /\ Advance(s)
    BY DEF Returns, Configure, CreateNode, UpdateNode, MergeEdge, Reset, Open, InsertRow, Unlink,
           Close, Starting, Writing
  <1>2. Call(s) \in StoreCall
    BY <1>1, CallType
  <1>3. Len(Program[s]) \in Nat
    BY ProgramAssumption
  <1> QED
    BY <1>1, <1>2, <1>3 DEF At, Advance, TypeOK

\* A call that has run at the end of a step had run before, or is the one the
\* step returned from.
LEMMA RanBefore ==
  ASSUME TypeOK, NEW s \in Scripts, Start(s) \/ Fail(s) \/ Step(s),
         NEW t \in Scripts, NEW j \in 1..(pc'[t] - 1)
  PROVE  /\ ~(Ends(s) /\ t = s)
         /\ pc[t] \in Nat /\ pc'[t] \in Nat
         /\ \/ /\ pc'[t] = pc[t]
               /\ j \in 1..(pc[t] - 1)
               /\ Returns(s) => t # s
            \/ /\ Returns(s) /\ t = s
               /\ pc'[s] = pc[s] + 1
               /\ j \in 1..(pc[s] - 1) \/ j = pc[s]
  <1>1. pc[t] \in Nat
    BY DEF TypeOK
  <1>2. CASE Waits(s) /\ ~Returns(s) /\ ~Ends(s)
    BY <1>1, <1>2, WaitsKeeps
  <1>3. CASE Ends(s) /\ ~Returns(s)
    BY <1>1, <1>3, EndsKeeps
  <1>4. CASE Returns(s)
    <2>1. ~Ends(s)
      <3>1. pc'[s] = pc[s] + 1 /\ pc[s] \in 1..Len(Program[s])
        BY <1>4, ReturnsOn
      <3>2. Ends(s) => pc'[s] = 1
        BY EndsKeeps
      <3>3. pc[s] >= 1 /\ pc[s] \in Nat
        BY <3>1 DEF TypeOK
      <3> QED
        BY <3>1, <3>2, <3>3
    <2> QED
      BY <1>1, <1>4, <2>1, ReturnsOn
  <1> QED
    BY <1>2, <1>3, <1>4, StepKinds

------------------------------------------------------------------------------
(* Metadata *)

ConfiguredInv ==
  \A s \in Scripts : \A j \in 1..(pc[s] - 1) :
    Program[s][j].kind = "configure" => Program[s][j].graph \in configured[s]

LEMMA NextConfigured == TypeOK /\ ConfiguredInv /\ [Next]_vars => ConfiguredInv'
  <1> SUFFICES ASSUME TypeOK, ConfiguredInv, [Next]_vars,
                      NEW t \in Scripts, NEW j \in 1..(pc'[t] - 1),
                      Program[t][j].kind = "configure"
               PROVE  Program[t][j].graph \in configured'[t]
    BY DEF ConfiguredInv
  <1>1. CASE UNCHANGED vars
    BY <1>1 DEF ConfiguredInv, vars, procVars
  <1>2. ASSUME NEW s \in Scripts, Start(s) \/ Fail(s) \/ Step(s)
        PROVE  Program[t][j].graph \in configured'[t]
    <2>1. Returns(s) => configured' = configured \/ Configure(s)
      BY DEF Returns, CreateNode, UpdateNode, MergeEdge, Reset, Open, InsertRow, Unlink, Close
    <2>2. ~(Ends(s) /\ t = s) => configured[t] \subseteq configured'[t]
      <3>1. CASE Waits(s)
        BY <3>1, WaitsKeeps
      <3>2. CASE Ends(s)
        BY <3>2, EndsKeeps
      <3>3. CASE Configure(s)
        BY <3>3 DEF Configure, TypeOK
      <3> QED
        BY <1>2, <2>1, <3>1, <3>2, <3>3, StepKinds
    <2>3. CASE j \in 1..(pc[t] - 1)
      BY <1>2, <2>2, <2>3, RanBefore DEF ConfiguredInv
    <2>4. CASE Returns(s) /\ t = s /\ j = pc[s]
      <3>1. CASE Configure(s)
        BY <2>4, <3>1 DEF Configure, Call, TypeOK
      <3>2. CASE ~Configure(s)
        <4>1. Call(s).kind # "configure"
          BY <2>4, <3>2 DEF Returns, CreateNode, UpdateNode, MergeEdge, Reset, Open, InsertRow, Unlink,
                Close, Starting, Writing, At
        <4> QED
          BY <2>4, <4>1 DEF Call
      <3> QED
        BY <3>1, <3>2
    <2> QED
      BY <1>2, <2>3, <2>4, RanBefore
  <1> QED
    BY <1>1, <1>2 DEF Next

Full == [asOf |-> "batch", source |-> TRUE]

\* The stamp a call writes is the full one, whatever was there.
LEMMA FullStamp ==
  ASSUME NEW s, NEW g, g \in configured[s]
  PROVE  NewStamp(s, g) = Full /\ \A old : Restamp(s, g, old) = Full
  BY DEF NewStamp, Restamp, Full

LEMMA NextMetadata ==
  ASSUME \A s \in Scripts : ConfiguresFirst(Program[s])
  PROVE  TypeOK /\ ConfiguredInv /\ MetadataComplete /\ [Next]_vars => MetadataComplete'
  <1> SUFFICES ASSUME TypeOK, ConfiguredInv, MetadataComplete, [Next]_vars,
                      NEW g \in Graphs, NEW n \in Node, NEW t \in Scripts,
                      store'[g][n][t] # NoCopy
               PROVE  store'[g][n][t] = Full
    BY DEF MetadataComplete, Copies, Full
  <1>1. store[g][n][t] # NoCopy => store[g][n][t] = Full
    BY DEF MetadataComplete, Copies, Full
  <1>2. CASE UNCHANGED store
    BY <1>1, <1>2
  <1>3. ASSUME NEW s \in Scripts, CreateNode(s) \/ UpdateNode(s)
        PROVE  /\ Call(s).graph \in Graphs /\ Call(s).node \in Node
               /\ Call(s).graph \in configured[s]
    <2>1. At(s, "node")
      BY <1>3 DEF CreateNode, UpdateNode, Writing
    <2>2. pc[s] \in 1..Len(Program[s])
      BY <1>3, ReturnsOn DEF Returns
    <2>3. PICK j \in 1..(pc[s] - 1) : Program[s][j] = ConfigureIngest(Call(s).graph)
      BY <2>1, <2>2 DEF ConfiguresFirst, At, Call
    <2> QED
      BY <2>1, <2>3, CallType, CallFields DEF ConfiguredInv, ConfigureIngest
  <1>4. ASSUME NEW s \in Scripts, CreateNode(s) PROVE store'[g][n][t] = Full
    <2> DEFINE h == Call(s).graph
               m == Call(s).node
    <2>1. store' = [store EXCEPT ![h][m][s] = Full]
      BY <1>3, <1>4, FullStamp DEF CreateNode
    <2>2. h \in Graphs /\ m \in Node
      BY <1>3, <1>4
    <2> HIDE DEF h, m
    <2>3. CASE g = h /\ n = m /\ t = s
      BY <2>1, <2>2, <2>3 DEF TypeOK
    <2>4. CASE ~(g = h /\ n = m /\ t = s)
      <3>1. store'[g][n][t] = store[g][n][t]
        BY <2>1, <2>2, <2>4 DEF TypeOK
      <3> QED
        BY <1>1, <3>1
    <2> QED
      BY <2>3, <2>4
  <1>5. ASSUME NEW s \in Scripts, UpdateNode(s) PROVE store'[g][n][t] = Full
    <2> DEFINE h == Call(s).graph
               m == Call(s).node
               new == [u \in Scripts |-> IF u \in found[s] THEN Restamp(s, h, store[h][m][u])
                                                           ELSE store[h][m][u]]
    <2>1. h \in Graphs /\ m \in Node /\ h \in configured[s]
      BY <1>3, <1>5
    <2>2. store' = [store EXCEPT ![h][m] = new]
      BY <1>5, <2>1 DEF UpdateNode, TypeOK
    <2>3. new[t] = store[h][m][t] \/ new[t] = Full
      BY <2>1, FullStamp
    <2> HIDE DEF h, m, new
    <2>4. store'[g][n] = store[g][n] \/ (g = h /\ n = m /\ store'[g][n] = new)
      BY <2>1, <2>2 DEF TypeOK
    <2> QED
      BY <1>1, <2>3, <2>4
  <1>6. ASSUME NEW s \in Scripts, Reset(s) PROVE store'[g][n][t] = Full
    <2>1. store'[g][n] = store[g][n] \/ store'[g][n] = [u \in Scripts |-> NoCopy]
      BY <1>6 DEF Reset, TypeOK
    <2> QED
      BY <1>1, <2>1
  <1>7. ASSUME NEW s \in Scripts, Start(s) \/ Fail(s) \/ Step(s),
               ~CreateNode(s), ~UpdateNode(s), ~Reset(s)
        PROVE  UNCHANGED store
    BY <1>7 DEF Start, Fail, Step, Configure, RejectNode, MatchNode, UpdateNodeGone, RejectEdge,
       CheckEdge, MergeEdge, Open, OpenLocked, InsertRow, Unlink, Close, Finish
  <1> QED
    BY <1>2, <1>4, <1>5, <1>6, <1>7 DEF Next, vars

\* Scripts that configure each domain before they write to it leave no node
\* without the batch metadata, however they interleave and crash: a restarted
\* script never writes with the metadata of its former process.
THEOREM Stamped ==
  ASSUME \A s \in Scripts : ConfiguresFirst(Program[s])
  PROVE  Spec => []MetadataComplete
  <1>1. Init => ConfiguredInv /\ MetadataComplete
    BY DEF Init, ConfiguredInv, MetadataComplete, Copies
  <1>2. Spec => []ConfiguredInv
    BY <1>1, NextConfigured, TypeCorrect, PTL DEF Spec
  <1>3. TypeOK /\ ConfiguredInv /\ MetadataComplete /\ [Next]_vars => MetadataComplete'
    BY NextMetadata
  <1> QED
    BY <1>1, <1>2, <1>3, TypeCorrect, PTL DEF Spec

------------------------------------------------------------------------------
(* The connection to the master *)

\* Nobody else takes the file away from the connection of s.
OthersKeepFile(s) ==
  \A t \in Scripts \ {s} : \A i \in 1..Len(Program[t]) : Program[t][i].kind # "unlink"

HandleInv(s) ==
  \A j \in 1..(pc[s] - 1) :
    /\ Program[s][j].kind = "open"
    /\ NoneBetween(Program[s], j, pc[s] - 1, {"close", "unlink"})
    => handle[s] = "live"

\* The call a step returns from is of the kind of the action.
LEMMA ReturnKind ==
  ASSUME NEW s, Returns(s)
  PROVE  /\ Open(s) <=> Call(s).kind = "open"
         /\ Close(s) <=> Call(s).kind = "close"
         /\ Unlink(s) <=> Call(s).kind = "unlink"
         /\ Reset(s) <=> Call(s).kind = "reset"
         /\ MergeEdge(s) <=> Call(s).kind = "edge"
         /\ InsertRow(s) <=> Call(s).kind = "row"
         /\ CreateNode(s) \/ UpdateNode(s) <=> Call(s).kind = "node"
         /\ Configure(s) <=> Call(s).kind = "configure"
  <1>1. /\ Open(s) => Call(s).kind = "open"
        /\ Close(s) => Call(s).kind = "close"
        /\ Unlink(s) => Call(s).kind = "unlink"
        /\ Reset(s) => Call(s).kind = "reset"
        /\ MergeEdge(s) => Call(s).kind = "edge"
        /\ InsertRow(s) => Call(s).kind = "row"
        /\ CreateNode(s) \/ UpdateNode(s) => Call(s).kind = "node"
        /\ Configure(s) => Call(s).kind = "configure"
    BY DEF Configure, CreateNode, UpdateNode, MergeEdge, Reset, Open, InsertRow, Unlink, Close,
           Starting, Writing, At
  <1> QED
    BY <1>1 DEF Returns

LEMMA NextHandle ==
  ASSUME NEW t \in Scripts, OthersKeepFile(t)
  PROVE  TypeOK /\ HandleInv(t) /\ [Next]_vars => HandleInv(t)'
  <1> SUFFICES ASSUME TypeOK, HandleInv(t), [Next]_vars,
                      NEW j \in 1..(pc'[t] - 1),
                      Program[t][j].kind = "open",
                      NoneBetween(Program[t], j, pc'[t] - 1, {"close", "unlink"})
               PROVE  handle'[t] = "live"
    BY DEF HandleInv, NoneBetween
  <1>1. CASE UNCHANGED vars
    BY <1>1 DEF HandleInv, vars, procVars
  <1>2. ASSUME NEW s \in Scripts, Start(s) \/ Fail(s) \/ Step(s)
        PROVE  handle'[t] = "live"
    <2>1. CASE ~Returns(s)
      <3>1. j \in 1..(pc[t] - 1) /\ pc'[t] = pc[t] /\ ~(Ends(s) /\ t = s)
        BY <1>2, <2>1, RanBefore
      <3>2. handle'[t] = handle[t]
        BY <1>2, <2>1, <3>1, StepKinds, WaitsKeeps, EndsKeeps
      <3> QED
        BY <3>1, <3>2 DEF HandleInv
    <2>2. CASE Returns(s) /\ t # s
      <3>1. j \in 1..(pc[t] - 1) /\ pc'[t] = pc[t]
        BY <1>2, <2>2, RanBefore
      <3>2. ~Unlink(s)
        BY <2>2, ReturnsOn, ReturnKind DEF OthersKeepFile, Call
      <3>3. handle'[t] = handle[t]
        BY <2>2, <3>2 DEF Returns, Configure, CreateNode, UpdateNode, MergeEdge, Reset, Open, InsertRow,
              Close, TypeOK
      <3> QED
        BY <3>1, <3>3 DEF HandleInv
    <2>3. CASE Returns(s) /\ t = s
      <3>1. pc[s] \in Nat /\ pc'[s] = pc[s] + 1 /\ pc[s] \in j..(pc'[s] - 1)
        BY <1>2, <2>3, RanBefore
      <3>2. Call(s).kind \notin {"close", "unlink"}
        BY <2>3, <3>1 DEF NoneBetween, Call
      <3>3. CASE Open(s)
        BY <2>3, <3>3 DEF Open, TypeOK
      <3>4. CASE ~Open(s)
        <4>1. handle' = handle
          BY <2>3, <3>2, <3>4, ReturnKind DEF Returns, Configure, CreateNode, UpdateNode, MergeEdge,
                Reset, InsertRow
        <4>2. j # pc[s]
          BY <2>3, <3>4, ReturnKind DEF Call
        <4>3. j \in 1..(pc[s] - 1) /\ NoneBetween(Program[s], j, pc[s] - 1, {"close", "unlink"})
          BY <2>3, <3>1, <4>2 DEF NoneBetween
        <4> QED
          BY <2>3, <4>1, <4>3 DEF HandleInv
      <3> QED
        BY <3>3, <3>4
    <2> QED
      BY <2>1, <2>2, <2>3
  <1> QED
    BY <1>1, <1>2 DEF Next

\* A row is inserted into the file that has the name.
LEMMA RowGoesToMaster ==
  ASSUME TypeOK, NEW s \in Scripts, HandleInv(s), OpensForRows(Program[s]), InsertRow(s)
  PROVE  master' = master \cup {Call(s).node}
  <1>1. pc[s] \in 1..Len(Program[s]) /\ pc[s] \in Nat /\ Call(s).kind = "row"
    BY ReturnsOn, ReturnKind DEF Returns, TypeOK
  <1>2. PICK j \in 1..(pc[s] - 1) :
          Program[s][j].kind = "open" /\ NoneBetween(Program[s], j, pc[s], {"close", "unlink"})
    BY <1>1 DEF OpensForRows, Call
  <1>3. NoneBetween(Program[s], j, pc[s] - 1, {"close", "unlink"})
    BY <1>1, <1>2 DEF NoneBetween
  <1> QED
    BY <1>2, <1>3 DEF HandleInv, InsertRow

------------------------------------------------------------------------------
(* Scripts that only add *)

PerformedBy(s) == \A j \in 1..(pc[s] - 1) : Effective(Program[s][j])
Performed == \A s \in Scripts : PerformedBy(s)

\* What is there stays, but for resets and unlinks.
LEMMA Lasts ==
  ASSUME TypeOK, NEW s \in Scripts, Start(s) \/ Fail(s) \/ Step(s), ~Reset(s), ~Unlink(s),
         NEW c \in StoreCall, Effective(c)
  PROVE  Effective(c)'
  <1>1. ASSUME NEW g \in Graphs, NEW n \in Node, Present(g, n) PROVE Present(g, n)'
    BY <1>1, CreateNodeAdds, UpdateNodeKeeps, StoreUnchanged, QuietSteps DEF MergeEdge
  <1>2. edges \subseteq edges'
    <2>1. CASE CreateNode(s) \/ UpdateNode(s) \/ MergeEdge(s)
      BY <2>1 DEF CreateNode, UpdateNode, MergeEdge
    <2> QED
      BY <2>1, QuietSteps
  <1>3. master \subseteq master'
    BY DEF Start, Fail, Step, Configure, RejectNode, MatchNode, CreateNode, UpdateNode, UpdateNodeGone,
       RejectEdge, CheckEdge, MergeEdge, Open, OpenLocked, InsertRow, Close, Finish
  <1>4. c.kind = "node" => c.graph \in Graphs /\ c.node \in Node
    BY CallFields
  <1> QED
    BY <1>1, <1>2, <1>3, <1>4 DEF Effective

\* A script that only adds neither resets nor unlinks.
LEMMA OnlyAdds ==
  ASSUME TypeOK, NEW s \in Scripts, AddsInOrder(Program[s])
  PROVE  ~Reset(s) /\ ~Unlink(s)
  <1>1. ASSUME Reset(s) \/ Unlink(s) PROVE FALSE
    <2>1. Returns(s)
      BY <1>1 DEF Returns
    <2>2. Call(s).kind \in {"reset", "unlink"} /\ pc[s] \in 1..Len(Program[s])
      BY <1>1, <2>1, ReturnKind, ReturnsOn
    <2> QED
      BY <2>2 DEF AddsInOrder, Keeps, NoneBetween, Call
  <1> QED
    BY <1>1

\* A node the script wrote earlier is there.
LEMMA WrittenIsThere ==
  ASSUME TypeOK, NEW s \in Scripts, PerformedBy(s), NEW g, NEW n,
         NodeBefore(Program[s], pc[s], g, n)
  PROVE  Present(g, n)
  <1>1. PICK j \in 1..(pc[s] - 1) : Program[s][j] = StoreNode(g, n)
    BY DEF NodeBefore
  <1>2. Effective(StoreNode(g, n))
    BY <1>1 DEF PerformedBy
  <1> QED
    BY <1>2 DEF Effective, StoreNode

\* The call a step returns from has taken effect.
LEMMA TakesEffect ==
  ASSUME TypeOK, NEW s \in Scripts, PerformedBy(s), HandleInv(s), Returns(s),
         EndpointsFirst(Program[s]), OpensForRows(Program[s]),
         NEW c \in StoreCall, c = Call(s)
  PROVE  Effective(c)'
  <1>1. pc[s] \in 1..Len(Program[s])
    BY ReturnsOn
  <1>2. CASE CreateNode(s)
    <2>1. c.graph \in Graphs /\ c.node \in Node /\ c.kind = "node"
      BY <1>2, CreateNodeAdds, ReturnKind
    <2>2. Present(c.graph, c.node)'
      BY <1>2, <2>1, CreateNodeAdds
    <2> QED
      BY <2>1, <2>2 DEF Effective
  <1>3. CASE UpdateNode(s)
    <2>1. c.graph \in Graphs /\ c.node \in Node /\ c.kind = "node"
      BY <1>3, ReturnKind, CallFields
    <2>2. Present(c.graph, c.node)
      BY <1>3 DEF UpdateNode, Present
    <2>3. Present(c.graph, c.node)'
      BY <1>3, <2>1, <2>2, UpdateNodeKeeps
    <2> QED
      BY <2>1, <2>3 DEF Effective
  <1>4. CASE MergeEdge(s)
    <2>1. c.kind = "edge"
      BY <1>4, ReturnKind
    <2>2. EndpointsPresent(c.edge)
      <3>1. /\ NodeBefore(Program[s], pc[s], GraphOf(c.edge), c.edge.source)
            /\ NodeBefore(Program[s], pc[s], GraphOf(c.edge), c.edge.target)
        BY <1>1, <2>1 DEF EndpointsFirst, Call
      <3> QED
        BY <3>1, WrittenIsThere DEF EndpointsPresent
    <2>3. c.edge \in edges'
      BY <1>4, <2>2 DEF MergeEdge
    <2> QED
      BY <2>1, <2>3 DEF Effective
  <1>5. CASE InsertRow(s)
    <2>1. c.kind = "row" /\ c.node \in master'
      BY <1>5, ReturnKind, RowGoesToMaster
    <2> QED
      BY <2>1 DEF Effective
  <1>6. CASE Configure(s) \/ Reset(s) \/ Open(s) \/ Unlink(s) \/ Close(s)
    <2>1. c.kind \in {"configure", "reset", "open", "unlink", "close"}
      BY <1>6, ReturnKind
    <2> QED
      BY <2>1 DEF Effective
  <1> QED
    BY <1>2, <1>3, <1>4, <1>5, <1>6 DEF Returns

\* The runs so far have performed their calls; of a finished one, all.
AddInv ==
  /\ Performed
  /\ CompletedRunComplete
  /\ NoRejection
  /\ \A s \in Scripts : HandleInv(s)

LEMMA NextPerformed ==
  ASSUME \A s \in Scripts : AddsInOrder(Program[s])
  PROVE  TypeOK /\ AddInv /\ [Next]_vars => Performed'
  <1> SUFFICES ASSUME TypeOK, AddInv, [Next]_vars,
                      NEW t \in Scripts, NEW j \in 1..(pc'[t] - 1)
               PROVE  Effective(Program[t][j])'
    BY DEF Performed, PerformedBy
  <1>1. CASE UNCHANGED vars
    <2>1. Effective(Program[t][j])
      BY <1>1 DEF AddInv, Performed, PerformedBy, vars, procVars
    <2> QED
      BY <1>1, <2>1 DEF Effective, Present, Copies, vars
  <1>2. ASSUME NEW s \in Scripts, Start(s) \/ Fail(s) \/ Step(s)
        PROVE  Effective(Program[t][j])'
    <2>1. CASE j \in 1..(pc[t] - 1)
      <3>1. Effective(Program[t][j])
        BY <2>1 DEF AddInv, Performed, PerformedBy
      <3>2. Program[t][j] \in StoreCall
        <4>1. Program[t] \in Seq(StoreCall) /\ pc[t] \in Nat /\ Len(Program[t]) \in Nat
              /\ pc[t] \in 1..(Len(Program[t]) + 1)
          BY ProgramAssumption DEF TypeOK
        <4> QED
          BY <2>1, <4>1
      <3> QED
        BY <1>2, <3>1, <3>2, Lasts, OnlyAdds
    <2>2. CASE Returns(s) /\ t = s /\ j = pc[s]
      <3>1. Program[t][j] = Call(s) /\ Call(s) \in StoreCall
        BY <2>2, ReturnsOn DEF Call
      <3> QED
        BY <2>2, <3>1, TakesEffect DEF AddInv, AddsInOrder, Performed
    <2> QED
      BY <1>2, <2>1, <2>2, RanBefore
  <1> QED
    BY <1>1, <1>2 DEF Next

LEMMA NextCompleted ==
  ASSUME \A s \in Scripts : AddsInOrder(Program[s])
  PROVE  TypeOK /\ AddInv /\ [Next]_vars => CompletedRunComplete'
  <1> SUFFICES ASSUME TypeOK, AddInv, [Next]_vars,
                      NEW t \in Scripts, status'[t] = "done",
                      NEW i \in 1..Len(Program[t])
               PROVE  Effective(Program[t][i])'
    BY DEF CompletedRunComplete
  <1>1. Program[t][i] \in StoreCall
    BY ProgramAssumption
  <1>2. CASE UNCHANGED vars
    <2>1. Effective(Program[t][i])
      BY <1>2 DEF AddInv, CompletedRunComplete, vars, procVars
    <2> QED
      BY <1>2, <2>1 DEF Effective, Present, Copies, vars
  <1>3. ASSUME NEW s \in Scripts, Start(s) \/ Fail(s) \/ Step(s)
        PROVE  Effective(Program[t][i])'
    <2>1. Effective(Program[t][i])
      <3>1. CASE status[t] = "done"
        BY <3>1 DEF AddInv, CompletedRunComplete
      <3>2. CASE status[t] # "done"
        <4>1. t = s /\ Finish(s)
          <5>1. CASE Waits(s)
            BY <3>2, <5>1 DEF Waits, Start, MatchNode, CheckEdge, HasRead, TypeOK
          <5>2. CASE Returns(s)
            BY <3>2, <5>2, ReturnsOn
          <5>3. CASE Ends(s)
            BY <3>2, <5>3 DEF Ends, Fail, RejectNode, UpdateNodeGone, RejectEdge, OpenLocked, Finish,
                  Stop, TypeOK
          <5> QED
            BY <1>3, <5>1, <5>2, <5>3, StepKinds
        <4>2. i \in 1..(pc[t] - 1)
          <5>1. pc[t] = Len(Program[t]) + 1 /\ Len(Program[t]) \in Nat
            BY <4>1, ProgramAssumption DEF Finish
          <5> QED
            BY <5>1
        <4> QED
          BY <4>2 DEF AddInv, Performed, PerformedBy
      <3> QED
        BY <3>1, <3>2
    <2> QED
      BY <1>1, <1>3, <2>1, Lasts, OnlyAdds
  <1> QED
    BY <1>2, <1>3 DEF Next

LEMMA NextNoRejection ==
  ASSUME \A s \in Scripts : AddsInOrder(Program[s])
  PROVE  TypeOK /\ AddInv /\ [Next]_vars => NoRejection'
  <1> SUFFICES ASSUME TypeOK, AddInv, [Next]_vars, NEW t \in Scripts, status'[t] = "rejected"
               PROVE  FALSE
    BY DEF NoRejection
  <1>1. status[t] # "rejected"
    BY DEF AddInv, NoRejection
  <1>2. CASE UNCHANGED vars
    BY <1>1, <1>2 DEF vars, procVars
  <1>3. ASSUME NEW s \in Scripts, Start(s) \/ Fail(s) \/ Step(s)
        PROVE  FALSE
    <2>1. CASE Waits(s)
      BY <1>1, <2>1 DEF Waits, Start, MatchNode, CheckEdge, HasRead, TypeOK
    <2>2. CASE Returns(s)
      BY <1>1, <2>2, ReturnsOn
    <2>3. CASE Fail(s) \/ UpdateNodeGone(s) \/ OpenLocked(s) \/ Finish(s)
      BY <1>1, <2>3 DEF Fail, UpdateNodeGone, OpenLocked, Finish, Stop, TypeOK
    <2>4. Len(Program[s]) \in Nat /\ (RejectNode(s) \/ RejectEdge(s) => pc[s] \in 1..Len(Program[s]))
      <3>1. Len(Program[s]) \in Nat
        BY ProgramAssumption
      <3> QED
        BY <3>1 DEF RejectNode, RejectEdge, Starting, At, TypeOK
    <2>5. CASE RejectNode(s)
      BY <2>4, <2>5 DEF RejectNode, Starting, At, Call, AddsInOrder, EndpointsFirst
    <2>6. CASE RejectEdge(s)
      <3>1. /\ NodeBefore(Program[s], pc[s], GraphOf(Call(s).edge), Call(s).edge.source)
            /\ NodeBefore(Program[s], pc[s], GraphOf(Call(s).edge), Call(s).edge.target)
        BY <2>4, <2>6 DEF RejectEdge, Starting, At, Call, AddsInOrder, EndpointsFirst
      <3>2. EndpointsPresent(Call(s).edge)
        BY <3>1, WrittenIsThere DEF AddInv, Performed, EndpointsPresent
      <3> QED
        BY <2>6, <3>2 DEF RejectEdge
    <2> QED
      BY <1>3, <2>1, <2>2, <2>3, <2>5, <2>6, StepKinds DEF Ends
  <1> QED
    BY <1>2, <1>3 DEF Next

LEMMA AddInvariant ==
  ASSUME \A s \in Scripts : AddsInOrder(Program[s])
  PROVE  Spec => []AddInv
  <1>1. Init => AddInv
    BY DEF Init, AddInv, Performed, PerformedBy, CompletedRunComplete, NoRejection, HandleInv
  <1>2. \A s \in Scripts : OthersKeepFile(s)
    BY DEF AddsInOrder, Keeps, NoneBetween, OthersKeepFile
  <1>3. TypeOK /\ AddInv /\ [Next]_vars => AddInv'
    <2> SUFFICES ASSUME TypeOK, AddInv, [Next]_vars PROVE AddInv'
      OBVIOUS
    <2>1. Performed' /\ CompletedRunComplete' /\ NoRejection'
      BY NextPerformed, NextCompleted, NextNoRejection
    <2>2. ASSUME NEW s \in Scripts PROVE HandleInv(s)'
      BY <1>2, NextHandle DEF AddInv
    <2> QED
      BY <2>1, <2>2 DEF AddInv
  <1> QED
    BY <1>1, <1>3, TypeCorrect, PTL DEF Spec

\* Any number of such scripts may run in any order or at once, crash and run
\* again: add_edge never finds an endpoint missing.
THEOREM NeverRejected ==
  ASSUME \A s \in Scripts : AddsInOrder(Program[s])
  PROVE  Spec => []NoRejection
  <1>1. AddInv => NoRejection
    BY DEF AddInv
  <1> QED
    BY <1>1, AddInvariant, PTL

\* ... and what a script that ended normally was asked to write is there,
\* although each MERGE may match nothing without a word.
THEOREM NothingUndone ==
  ASSUME \A s \in Scripts : AddsInOrder(Program[s])
  PROVE  Spec => []CompletedRunComplete
  <1>1. AddInv => CompletedRunComplete
    BY DEF AddInv
  <1> QED
    BY <1>1, AddInvariant, PTL

------------------------------------------------------------------------------
(* Component replication *)

ShownPlaces == [c \in Components |-> Places(c)]

\* A step that registers a component at its place of the order, or nowhere new.
LEMMA RegisterAt ==
  ASSUME NEW c \in Components, NEW i \in 1..4,
         \A j \in 1..(i - 1) : Replication!Order[j] \in Places(c),
         Places(c)' = Places(c) \cup {Replication!Order[i]},
         \A d \in Components \ {c} : Places(d)' = Places(d)
  PROVE  Replication!Next
  <1>1. ShownPlaces' = [ShownPlaces EXCEPT ![c] = @ \cup {Replication!Order[i]}]
    BY DEF ShownPlaces
  <1>2. Replication!Register(c, i)
    BY <1>1 DEF Replication!Register, ShownPlaces
  <1> QED
    BY <1>2 DEF Replication!Next

LEMMA NextReplication ==
  ASSUME \A s \in Scripts : AddsInOrder(Program[s]) /\ PartsInOrder(Program[s])
  PROVE  TypeOK /\ AddInv /\ [Next]_vars => [Replication!Next]_ShownPlaces
  <1> SUFFICES ASSUME TypeOK, AddInv, [Next]_vars
               PROVE  Replication!Next \/ UNCHANGED ShownPlaces
    OBVIOUS
  <1>1. ASSUME UNCHANGED <<store, master>> PROVE UNCHANGED ShownPlaces
    BY <1>1 DEF ShownPlaces, Places, Present, Copies
  <1>2. Components \subseteq Node
    BY DEF Components, Node, Labels
  <1>3. ASSUME NEW s \in Scripts, CreateNode(s)
        PROVE  Replication!Next \/ UNCHANGED ShownPlaces
    <2>1. PICK h, m : h = Call(s).graph /\ m = Call(s).node
      OBVIOUS
    <2>2. /\ h \in Graphs /\ m \in Node
          /\ \A g \in Graphs, n \in Node : Present(g, n)' <=> Present(g, n) \/ (g = h /\ n = m)
          /\ UNCHANGED master
      BY <1>3, <2>1, CreateNodeAdds DEF CreateNode
    <2>3. \A d \in Components \ {m} : Places(d)' = Places(d)
      BY <1>2, <2>2 DEF Places
    <2>4. CASE m \notin Components
      BY <2>3, <2>4 DEF ShownPlaces
    <2>5. CASE m \in Components
      <3>1. Places(m)' = Places(m) \cup {h}
        BY <2>2 DEF Places
      <3>2. ASSUME NEW g \in Graphs, h \in {"routing", "sourcing"},
                   g = "ebom" \/ (g = "routing" /\ h = "sourcing")
            PROVE  g \in Places(m)
        <4>1. pc[s] \in 1..Len(Program[s]) /\ Call(s).kind = "node"
          BY <1>3, ReturnsOn, ReturnKind DEF Returns
        <4>2. NodeBefore(Program[s], pc[s], g, m)
          BY <2>1, <2>5, <3>2, <4>1 DEF PartsInOrder, Call
        <4> QED
          BY <4>2, WrittenIsThere DEF AddInv, Performed, Places
      <3>3. PICK i \in 1..3 : /\ Replication!Order[i] = h
                              /\ \A j \in 1..(i - 1) : Replication!Order[j] \in Places(m)
        <4>1. CASE h = "ebom"
          BY <4>1 DEF Replication!Order
        <4>2. CASE h = "routing"
          <5>1. "ebom" \in Places(m)
            BY <3>2, <4>2 DEF Graphs
          <5>2. Replication!Order[1] = "ebom" /\ Replication!Order[2] = "routing"
            BY DEF Replication!Order
          <5>3. \A j \in 1..(2 - 1) : j = 1
            OBVIOUS
          <5> QED
            BY <4>2, <5>1, <5>2, <5>3
        <4>3. CASE h = "sourcing"
          <5>1. "ebom" \in Places(m) /\ "routing" \in Places(m)
            BY <3>2, <4>3 DEF Graphs
          <5>2. /\ Replication!Order[1] = "ebom" /\ Replication!Order[2] = "routing"
                /\ Replication!Order[3] = "sourcing"
            BY DEF Replication!Order
          <5>3. \A j \in 1..(3 - 1) : j = 1 \/ j = 2
            OBVIOUS
          <5> QED
            BY <4>3, <5>1, <5>2, <5>3
        <4> QED
          BY <2>2, <4>1, <4>2, <4>3 DEF Graphs
      <3> QED
        BY <2>3, <2>5, <3>1, <3>3, RegisterAt
    <2> QED
      BY <2>4, <2>5
  <1>4. ASSUME NEW s \in Scripts, UpdateNode(s) PROVE UNCHANGED ShownPlaces
    <2>1. \A g \in Graphs, n \in Node : Present(g, n)' <=> Present(g, n)
      BY <1>4, UpdateNodeKeeps
    <2>2. UNCHANGED master
      BY <1>4 DEF UpdateNode
    <2> QED
      BY <1>2, <2>1, <2>2 DEF ShownPlaces, Places
  <1>5. ASSUME NEW s \in Scripts, InsertRow(s)
        PROVE  Replication!Next \/ UNCHANGED ShownPlaces
    <2>1. pc[s] \in 1..Len(Program[s]) /\ Call(s).kind = "row" /\ Call(s) \in StoreCall
      BY <1>5, ReturnsOn, ReturnKind DEF Returns
    <2>2. PICK m : m = Call(s).node
      OBVIOUS
    <2>3. m \in Components
      BY <2>1, <2>2, CallFields
    <2>4. master' = master \cup {m} /\ UNCHANGED store
      BY <1>5, <2>2, RowGoesToMaster DEF AddInv, AddsInOrder, InsertRow
    <2>5. /\ Places(m)' = Places(m) \cup {"master"}
          /\ \A d \in Components \ {m} : Places(d)' = Places(d)
      BY <2>4 DEF Places, Present, Copies
    <2>6. Graphs \subseteq Places(m)
      <3>1. \A g \in Graphs : NodeBefore(Program[s], pc[s], g, m)
        BY <2>1, <2>2 DEF PartsInOrder, Call
      <3> QED
        BY <3>1, WrittenIsThere DEF AddInv, Performed, Places
    <2>7. /\ Replication!Order[4] = "master"
          /\ \A j \in 1..(4 - 1) : Replication!Order[j] \in Graphs
      BY DEF Replication!Order, Graphs
    <2> QED
      BY <2>3, <2>5, <2>6, <2>7, RegisterAt
  <1>6. ASSUME NEW s \in Scripts, Start(s) \/ Fail(s) \/ Step(s),
               ~CreateNode(s), ~UpdateNode(s), ~InsertRow(s), ~Reset(s), ~Unlink(s)
        PROVE  UNCHANGED <<store, master>>
    BY <1>6 DEF Start, Fail, Step, Configure, RejectNode, MatchNode, UpdateNodeGone, RejectEdge,
       CheckEdge, MergeEdge, Open, OpenLocked, Close, Finish
  <1>7. \A s \in Scripts : ~Reset(s) /\ ~Unlink(s)
    BY OnlyAdds
  <1> QED
    BY <1>1, <1>3, <1>4, <1>5, <1>6, <1>7 DEF Next, vars

\* Scripts that use the facade in order register each component in the fixed
\* order of ComponentReplication: what a crash leaves is a prefix of it.
THEOREM ImplementsReplication ==
  ASSUME \A s \in Scripts : AddsInOrder(Program[s]) /\ PartsInOrder(Program[s])
  PROVE  Spec => ReplicationSpec
  <1>1. Init => Replication!Init
    <2> SUFFICES ASSUME Init, NEW c \in Components PROVE Places(c) = {}
      BY DEF Replication!Init
    <2>1. c \in Node
      BY DEF Components, Node, Labels
    <2>2. \A g \in Graphs : ~Present(g, c)
      BY <2>1 DEF Init, Present, Copies
    <2> QED
      BY <2>2 DEF Init, Places
  <1>2. TypeOK /\ AddInv /\ [Next]_vars => [Replication!Next]_ShownPlaces
    BY NextReplication
  <1>3. Spec => []AddInv
    BY AddInvariant
  <1>4. [Replication!Next]_ShownPlaces => [Replication!Next]_([c \in Components |-> Places(c)])
    BY DEF ShownPlaces
  <1> QED
    BY <1>1, <1>2, <1>3, <1>4, TypeCorrect, PTL DEF Spec, ReplicationSpec, Replication!Spec

------------------------------------------------------------------------------
(* The identity bridge *)

\* What the rows, resets and unlinks of the master's writer have secured.
RowInv(w) ==
  \A j \in 1..(pc[w] - 1) :
    /\ Program[w][j].kind = "row"
    /\ NoneBetween(Program[w], j, pc[w] - 1, {"unlink"})
    => Program[w][j].node \in master

ClearedInv(w) ==
  \A j \in 1..(pc[w] - 1) :
    /\ Program[w][j] = ResetGraph("sourcing")
    /\ \A k \in j..(pc[w] - 1) : ~IsSupply(Program[w][k])
    => \A e \in edges : e.type # "SUPPLIED_BY"

MasterInv(w) == HandleInv(w) /\ RowInv(w) /\ ClearedInv(w) /\ SuppliedByInMaster

\* All but w leave suppliers and the master's file alone.
SoleWriter(w) ==
  /\ OpensForRows(Program[w]) /\ MasterFirst(Program[w])
  /\ \A s \in Scripts \ {w} : LeavesMaster(Program[s])

\* Only w unlinks the file and only w writes supplier relationships.
LEMMA MasterSteps ==
  ASSUME TypeOK, NEW w \in Scripts, SoleWriter(w),
         NEW s \in Scripts, Start(s) \/ Fail(s) \/ Step(s)
  PROVE  /\ master \subseteq master' \/ (s = w /\ Unlink(w))
         /\ \A e \in edges' : \/ e \in edges
                              \/ e.type # "SUPPLIED_BY"
                              \/ s = w /\ MergeEdge(w) /\ e = Call(w).edge /\ IsSupply(Call(w))
  <1>1. ASSUME s # w, Returns(s) PROVE ~Unlink(s) /\ ~IsSupply(Call(s))
    BY <1>1, ReturnsOn, ReturnKind DEF SoleWriter, LeavesMaster, Call
  <1>2. master \subseteq master' \/ Unlink(s)
    BY DEF Start, Fail, Step, Configure, RejectNode, MatchNode, CreateNode, UpdateNode, UpdateNodeGone,
       RejectEdge, CheckEdge, MergeEdge, Reset, Open, OpenLocked, InsertRow, Close, Finish
  <1>3. edges' \subseteq edges \/ MergeEdge(s)
    BY DEF Start, Fail, Step, Configure, RejectNode, MatchNode, CreateNode, UpdateNode, UpdateNodeGone,
       RejectEdge, CheckEdge, Reset, Open, OpenLocked, InsertRow, Unlink, Close, Finish
  <1>4. ASSUME MergeEdge(s)
        PROVE  Call(s).kind = "edge" /\ edges' \subseteq edges \cup {Call(s).edge}
    BY <1>4, ReturnKind DEF Returns, MergeEdge
  <1>5. Unlink(s) \/ MergeEdge(s) => Returns(s)
    BY DEF Returns
  <1>6. CASE s = w
    BY <1>2, <1>3, <1>4, <1>6 DEF IsSupply
  <1>7. CASE s # w
    BY <1>1, <1>2, <1>3, <1>4, <1>5, <1>7 DEF IsSupply
  <1> QED
    BY <1>6, <1>7

LEMMA NextRow ==
  ASSUME NEW w \in Scripts, SoleWriter(w)
  PROVE  TypeOK /\ MasterInv(w) /\ [Next]_vars => RowInv(w)'
  <1> SUFFICES ASSUME TypeOK, MasterInv(w), [Next]_vars,
                      NEW j \in 1..(pc'[w] - 1),
                      Program[w][j].kind = "row",
                      NoneBetween(Program[w], j, pc'[w] - 1, {"unlink"})
               PROVE  Program[w][j].node \in master'
    BY DEF RowInv, NoneBetween
  <1>1. CASE UNCHANGED vars
    BY <1>1 DEF MasterInv, RowInv, vars, procVars
  <1>2. ASSUME NEW s \in Scripts, Start(s) \/ Fail(s) \/ Step(s)
        PROVE  Program[w][j].node \in master'
    <2>1. ~(s = w /\ Unlink(w))
      <3>1. ASSUME s = w, Unlink(w) PROVE FALSE
        <4>1. Returns(s)
          BY <3>1 DEF Returns
        <4>2. pc[w] \in j..(pc'[w] - 1) /\ Call(w).kind = "unlink"
          BY <1>2, <3>1, <4>1, RanBefore, ReturnKind
        <4> QED
          BY <4>2 DEF NoneBetween, Call
      <3> QED
        BY <3>1
    <2>2. master \subseteq master'
      BY <1>2, <2>1, MasterSteps
    <2>3. CASE j \in 1..(pc[w] - 1)
      <3>1. NoneBetween(Program[w], j, pc[w] - 1, {"unlink"})
        <4>1. pc'[w] \in Nat /\ pc[w] \in Nat /\ pc[w] <= pc'[w]
          BY <1>2, RanBefore
        <4> QED
          BY <4>1 DEF NoneBetween
      <3> QED
        BY <2>2, <2>3, <3>1 DEF MasterInv, RowInv
    <2>4. CASE Returns(s) /\ w = s /\ j = pc[s]
      <3>1. InsertRow(w)
        BY <2>4, ReturnKind DEF Call
      <3> QED
        BY <2>4, <3>1, RowGoesToMaster DEF MasterInv, SoleWriter, Call
    <2> QED
      BY <1>2, <2>3, <2>4, RanBefore
  <1> QED
    BY <1>1, <1>2 DEF Next

LEMMA NextCleared ==
  ASSUME NEW w \in Scripts, SoleWriter(w)
  PROVE  TypeOK /\ MasterInv(w) /\ [Next]_vars => ClearedInv(w)'
  <1> SUFFICES ASSUME TypeOK, MasterInv(w), [Next]_vars,
                      NEW j \in 1..(pc'[w] - 1),
                      Program[w][j] = ResetGraph("sourcing"),
                      \A k \in j..(pc'[w] - 1) : ~IsSupply(Program[w][k]),
                      NEW e \in edges'
               PROVE  e.type # "SUPPLIED_BY"
    BY DEF ClearedInv
  <1>1. CASE UNCHANGED vars
    BY <1>1 DEF MasterInv, ClearedInv, vars, procVars
  <1>2. ASSUME NEW s \in Scripts, Start(s) \/ Fail(s) \/ Step(s)
        PROVE  e.type # "SUPPLIED_BY"
    <2>1. e \in edges \/ e.type # "SUPPLIED_BY"
      <3>1. ASSUME s = w, MergeEdge(w), IsSupply(Call(w)) PROVE FALSE
        <4>1. Returns(s)
          BY <3>1 DEF Returns
        <4>2. pc[w] \in j..(pc'[w] - 1)
          BY <1>2, <3>1, <4>1, RanBefore
        <4> QED
          BY <3>1, <4>2 DEF Call
      <3> QED
        BY <1>2, <3>1, MasterSteps
    <2>2. CASE j \in 1..(pc[w] - 1)
      <3>1. \A k \in j..(pc[w] - 1) : ~IsSupply(Program[w][k])
        <4>1. pc'[w] \in Nat /\ pc[w] \in Nat /\ pc[w] <= pc'[w]
          BY <1>2, RanBefore
        <4> QED
          BY <4>1
      <3> QED
        BY <2>1, <2>2, <3>1 DEF MasterInv, ClearedInv
    <2>3. CASE Returns(s) /\ w = s /\ j = pc[s]
      <3>1. Call(w) = ResetGraph("sourcing")
        BY <2>3 DEF Call
      <3>2. Reset(w)
        BY <2>3, <3>1, ReturnKind DEF ResetGraph
      <3>3. GraphOf(e) # "sourcing"
        BY <3>1, <3>2 DEF Reset, ResetGraph
      <3> QED
        BY <3>3 DEF GraphOf, EDGE_TO_GRAPH
    <2> QED
      BY <1>2, <2>2, <2>3, RanBefore
  <1> QED
    BY <1>1, <1>2 DEF Next

LEMMA NextSupplied ==
  ASSUME NEW w \in Scripts, SoleWriter(w)
  PROVE  TypeOK /\ MasterInv(w) /\ [Next]_vars => SuppliedByInMaster'
  <1> SUFFICES ASSUME TypeOK, MasterInv(w), [Next]_vars,
                      NEW e \in edges', e.type = "SUPPLIED_BY"
               PROVE  e.source \in master'
    BY DEF SuppliedByInMaster
  <1>1. CASE UNCHANGED vars
    BY <1>1 DEF MasterInv, SuppliedByInMaster, vars
  <1>2. ASSUME NEW s \in Scripts, Start(s) \/ Fail(s) \/ Step(s)
        PROVE  e.source \in master'
    <2>1. CASE s = w /\ Unlink(w)
      <3>1. pc[w] \in 1..Len(Program[w]) /\ pc[w] \in Nat /\ Call(w).kind = "unlink"
        BY <2>1, ReturnsOn, ReturnKind DEF Returns, TypeOK
      <3>2. PICK j \in 1..(pc[w] - 1) : /\ Program[w][j] = ResetGraph("sourcing")
                                        /\ \A k \in j..pc[w] : ~IsSupply(Program[w][k])
        BY <3>1 DEF SoleWriter, MasterFirst, Call
      <3>3. \A k \in j..(pc[w] - 1) : ~IsSupply(Program[w][k])
        BY <3>1, <3>2
      <3>4. e \in edges
        BY <2>1 DEF Unlink
      <3> QED
        BY <3>2, <3>3, <3>4 DEF MasterInv, ClearedInv
    <2>2. CASE ~(s = w /\ Unlink(w))
      <3>1. master \subseteq master'
        BY <1>2, <2>2, MasterSteps
      <3>2. CASE e \in edges
        BY <3>1, <3>2 DEF MasterInv, SuppliedByInMaster
      <3>3. CASE s = w /\ MergeEdge(w) /\ e = Call(w).edge /\ IsSupply(Call(w))
        <4>1. pc[w] \in 1..Len(Program[w]) /\ pc[w] \in Nat
          BY <3>3, ReturnsOn DEF Returns, TypeOK
        <4>2. PICK j \in 1..(pc[w] - 1) : /\ Program[w][j] = MasterRow(e.source)
                                          /\ NoneBetween(Program[w], j, pc[w], {"unlink"})
          BY <3>3, <4>1 DEF SoleWriter, MasterFirst, Call
        <4>3. NoneBetween(Program[w], j, pc[w] - 1, {"unlink"})
          BY <4>1, <4>2 DEF NoneBetween
        <4> QED
          BY <3>1, <4>2, <4>3 DEF MasterInv, RowInv, MasterRow
      <3> QED
        BY <1>2, <3>2, <3>3, MasterSteps
    <2> QED
      BY <2>1, <2>2
  <1> QED
    BY <1>1, <1>2 DEF Next

\* A script that opens the master, inserts each component before it links it to
\* a supplier, and clears the sourcing graph before it unlinks the file keeps
\* the bridge between graph and master whole at every moment, through crashes
\* and new runs, whatever the others do that leave both alone.
THEOREM BridgeKept ==
  ASSUME NEW w \in Scripts, SoleWriter(w)
  PROVE  Spec => []SuppliedByInMaster
  <1>1. Init => MasterInv(w)
    BY DEF Init, MasterInv, HandleInv, RowInv, ClearedInv, SuppliedByInMaster
  <1>2. OthersKeepFile(w)
    BY DEF SoleWriter, LeavesMaster, OthersKeepFile
  <1>3. TypeOK /\ MasterInv(w) /\ [Next]_vars => MasterInv(w)'
    <2> SUFFICES ASSUME TypeOK, MasterInv(w), [Next]_vars PROVE MasterInv(w)'
      OBVIOUS
    <2>1. HandleInv(w)'
      BY <1>2, NextHandle DEF MasterInv
    <2> QED
      BY <2>1, NextRow, NextCleared, NextSupplied DEF MasterInv
  <1>4. MasterInv(w) => SuppliedByInMaster
    BY DEF MasterInv
  <1> QED
    BY <1>1, <1>3, <1>4, TypeCorrect, PTL DEF Spec

------------------------------------------------------------------------------
(* A script that resets and rebuilds *)

SoleBuilder(w) == Rebuilds(Program[w]) /\ \A s \in Scripts \ {w} : Bystands(Program[s])

CompletedBy(s) == status[s] = "done" => \A i \in 1..Len(Program[s]) : Effective(Program[s][i])

\* A bystander gets past no call that writes, so it ends normally only if it has none.
IdleInv(s) ==
  /\ ~seen[s]
  /\ \A j \in 1..(pc[s] - 1) : Program[s][j].kind # "node"
  /\ status[s] = "done" => \A i \in 1..Len(Program[s]) : Program[s][i].kind # "node"

BuildInv(w) ==
  /\ PerformedBy(w)
  /\ CompletedBy(w)
  /\ HandleInv(w)
  /\ \A s \in Scripts \ {w} : IdleInv(s)

LEMMA CallInProgram ==
  ASSUME TypeOK, NEW s \in Scripts
  PROVE  /\ Program[s] \in Seq(StoreCall)
         /\ Len(Program[s]) \in Nat
         /\ pc[s] \in Nat /\ pc[s] \in 1..(Len(Program[s]) + 1)
         /\ \A i \in 1..Len(Program[s]) : Program[s][i] \in StoreCall
         /\ \A j \in 1..(pc[s] - 1) : j \in 1..Len(Program[s])
  <1>1. Program[s] \in Seq(StoreCall)
    BY ProgramAssumption
  <1>2. Len(Program[s]) \in Nat
    BY <1>1
  <1>3. \A i \in 1..Len(Program[s]) : Program[s][i] \in StoreCall
    BY <1>1
  <1> QED
    BY <1>1, <1>2, <1>3 DEF TypeOK

\* What is there stays, but for the calls that take it away.
LEMMA LastsUnlessUndone ==
  ASSUME TypeOK, NEW s \in Scripts, Start(s) \/ Fail(s) \/ Step(s),
         NEW c \in StoreCall, Effective(c),
         Reset(s) \/ Unlink(s) => ~Undoes(Call(s), c)
  PROVE  Effective(c)'
  <1>1. CASE Reset(s)
    <2>1. Call(s).kind = "reset" /\ Returns(s)
      BY <1>1, ReturnKind DEF Returns
    <2>2. ASSUME NEW g \in Graphs, NEW n \in Node, g # Call(s).graph, Present(g, n)
          PROVE  Present(g, n)'
      BY <1>1, <2>2 DEF Reset, Present, Copies, TypeOK
    <2>3. c.kind = "node" => Effective(c)'
      BY <1>1, <2>1, <2>2, CallFields DEF Effective, Undoes
    <2>4. c.kind = "edge" => Effective(c)'
      BY <1>1, <2>1 DEF Effective, Undoes, Reset
    <2>5. master' = master
      BY <1>1 DEF Reset
    <2> QED
      BY <2>3, <2>4, <2>5 DEF Effective
  <1>2. CASE Unlink(s)
    <2>1. Call(s).kind = "unlink" /\ Returns(s)
      BY <1>2, ReturnKind DEF Returns
    <2>2. UNCHANGED <<store, edges>>
      BY <1>2 DEF Unlink
    <2>3. c.kind # "row"
      BY <1>2, <2>1 DEF Undoes
    <2>4. c.kind = "node" => Effective(c)'
      BY <2>2, StoreUnchanged DEF Effective
    <2> QED
      BY <2>2, <2>3, <2>4 DEF Effective
  <1> QED
    BY <1>1, <1>2, Lasts

LEMMA BystanderTakesNothing ==
  ASSUME TypeOK, NEW s \in Scripts, Bystands(Program[s])
  PROVE  ~Reset(s) /\ ~Unlink(s)
  <1>1. ASSUME Reset(s) \/ Unlink(s) PROVE FALSE
    <2>1. Returns(s) /\ Call(s).kind \in {"reset", "unlink"} /\ pc[s] \in 1..Len(Program[s])
      BY <1>1, ReturnKind, ReturnsOn DEF Returns
    <2> QED
      BY <2>1 DEF Bystands, Call
  <1> QED
    BY <1>1

\* Nothing the builder has written in its run is taken away: by itself it is not
\* yet due, and the bystanders take nothing.
LEMMA BuilderKeeps ==
  ASSUME TypeOK, NEW w \in Scripts, SoleBuilder(w), NEW s \in Scripts,
         Start(s) \/ Fail(s) \/ Step(s), NEW j \in 1..(pc[w] - 1), Effective(Program[w][j])
  PROVE  Effective(Program[w][j])'
  <1>1. Program[w][j] \in StoreCall
    BY CallInProgram
  <1>2. ASSUME Reset(s) \/ Unlink(s) PROVE ~Undoes(Call(s), Program[w][j])
    <2>1. pc[s] \in 1..Len(Program[s])
      BY <1>2, ReturnsOn DEF Returns
    <2>2. s = w
      BY <1>2, BystanderTakesNothing DEF SoleBuilder
    <2> QED
      BY <2>1, <2>2 DEF SoleBuilder, Rebuilds, Call
  <1> QED
    BY <1>1, <1>2, LastsUnlessUndone

LEMMA NextPerformedBy ==
  ASSUME NEW w \in Scripts, SoleBuilder(w)
  PROVE  TypeOK /\ BuildInv(w) /\ [Next]_vars => PerformedBy(w)'
  <1> SUFFICES ASSUME TypeOK, BuildInv(w), [Next]_vars, NEW j \in 1..(pc'[w] - 1)
               PROVE  Effective(Program[w][j])'
    BY DEF PerformedBy
  <1>1. CASE UNCHANGED vars
    <2>1. Effective(Program[w][j])
      BY <1>1 DEF BuildInv, PerformedBy, vars, procVars
    <2> QED
      BY <1>1, <2>1 DEF Effective, Present, Copies, vars
  <1>2. ASSUME NEW s \in Scripts, Start(s) \/ Fail(s) \/ Step(s)
        PROVE  Effective(Program[w][j])'
    <2>1. CASE j \in 1..(pc[w] - 1)
      BY <1>2, <2>1, BuilderKeeps DEF BuildInv, PerformedBy
    <2>2. CASE Returns(s) /\ w = s /\ j = pc[s]
      <3>1. Program[w][j] = Call(s) /\ Call(s) \in StoreCall
        BY <2>2, ReturnsOn DEF Call
      <3> QED
        BY <2>2, <3>1, TakesEffect DEF BuildInv, SoleBuilder, Rebuilds
    <2> QED
      BY <1>2, <2>1, <2>2, RanBefore
  <1> QED
    BY <1>1, <1>2 DEF Next

\* A script that is done was done before, or finishes now.
LEMMA DoneBefore ==
  ASSUME TypeOK, NEW s \in Scripts, Start(s) \/ Fail(s) \/ Step(s),
         NEW t \in Scripts, status'[t] = "done"
  PROVE  \/ status[t] = "done" /\ t # s
         \/ t = s /\ Finish(s)
  <1>1. CASE Waits(s)
    BY <1>1 DEF Waits, Start, MatchNode, CheckEdge, HasRead, Starting, At, TypeOK
  <1>2. CASE Returns(s)
    <2>1. status[s] = "running" /\ UNCHANGED status
      BY <1>2 DEF Returns, Configure, CreateNode, UpdateNode, MergeEdge, Reset, Open, InsertRow,
            Unlink, Close, Starting, Writing, At, Advance
    <2> QED
      BY <2>1
  <1>3. CASE Ends(s) /\ ~Finish(s)
    BY <1>3 DEF Ends, Fail, RejectNode, UpdateNodeGone, RejectEdge, OpenLocked, Stop, TypeOK
  <1>4. CASE Finish(s)
    BY <1>4 DEF Finish, Stop, TypeOK
  <1> QED
    BY <1>1, <1>2, <1>3, <1>4, StepKinds

LEMMA NextCompletedBy ==
  ASSUME NEW w \in Scripts, SoleBuilder(w)
  PROVE  TypeOK /\ BuildInv(w) /\ [Next]_vars => CompletedBy(w)'
  <1> SUFFICES ASSUME TypeOK, BuildInv(w), [Next]_vars, status'[w] = "done",
                      NEW i \in 1..Len(Program[w])
               PROVE  Effective(Program[w][i])'
    BY DEF CompletedBy
  <1>1. CASE UNCHANGED vars
    <2>1. Effective(Program[w][i])
      BY <1>1 DEF BuildInv, CompletedBy, vars, procVars
    <2> QED
      BY <1>1, <2>1 DEF Effective, Present, Copies, vars
  <1>2. ASSUME NEW s \in Scripts, Start(s) \/ Fail(s) \/ Step(s)
        PROVE  Effective(Program[w][i])'
    <2>1. CASE status[w] = "done" /\ w # s
      <3>1. Effective(Program[w][i])
        BY <2>1 DEF BuildInv, CompletedBy
      <3>2. ~Reset(s) /\ ~Unlink(s)
        BY <2>1, BystanderTakesNothing DEF SoleBuilder
      <3> QED
        BY <1>2, <3>1, <3>2, Lasts, CallInProgram
    <2>2. CASE w = s /\ Finish(s)
      <3>1. i \in 1..(pc[w] - 1)
        BY <2>2, CallInProgram DEF Finish
      <3> QED
        BY <1>2, <3>1, BuilderKeeps DEF BuildInv, PerformedBy
    <2> QED
      BY <1>2, <2>1, <2>2, DoneBefore
  <1> QED
    BY <1>1, <1>2 DEF Next

LEMMA NextIdle ==
  ASSUME NEW t \in Scripts, Bystands(Program[t])
  PROVE  TypeOK /\ IdleInv(t) /\ [Next]_vars => IdleInv(t)'
  <1> SUFFICES ASSUME TypeOK, IdleInv(t), [Next]_vars PROVE IdleInv(t)'
    OBVIOUS
  <1>1. CASE UNCHANGED vars
    BY <1>1 DEF IdleInv, vars, procVars
  <1>2. ASSUME NEW s \in Scripts, Start(s) \/ Fail(s) \/ Step(s)
        PROVE  IdleInv(t)'
    <2>1. ASSUME NEW j \in 1..(pc'[t] - 1) PROVE Program[t][j].kind # "node"
      <3>1. CASE j \in 1..(pc[t] - 1)
        BY <3>1 DEF IdleInv
      <3>2. CASE Returns(s) /\ t = s /\ j = pc[s]
        <4>1. ASSUME CreateNode(s) \/ UpdateNode(s) PROVE FALSE
          BY <3>2, <4>1 DEF IdleInv, CreateNode, UpdateNode, Writing
        <4> QED
          BY <3>2, <4>1, ReturnKind DEF Call
      <3> QED
        BY <1>2, <3>1, <3>2, RanBefore
    <2>2. ASSUME status'[t] = "done", NEW i \in 1..Len(Program[t])
          PROVE  Program[t][i].kind # "node"
      <3>1. CASE status[t] = "done"
        BY <3>1 DEF IdleInv
      <3>2. CASE t = s /\ Finish(s)
        <4>1. i \in 1..(pc[t] - 1)
          BY <3>2, CallInProgram DEF Finish
        <4> QED
          BY <4>1 DEF IdleInv
      <3> QED
        BY <1>2, <2>2, <3>1, <3>2, DoneBefore
    <2>3. ~seen'[t]
      <3>1. CASE MatchNode(s) \/ CheckEdge(s)
        <4>1. Call(s).kind \in {"node", "edge"} /\ pc[s] \in 1..Len(Program[s])
          BY <3>1, CallInProgram DEF MatchNode, CheckEdge, Starting, At
        <4>2. s # t
          <5>1. CASE MatchNode(s)
            BY <4>1, <5>1 DEF MatchNode, Starting, At, Bystands, Call
          <5>2. CASE CheckEdge(s)
            BY <4>1, <5>2 DEF CheckEdge, Starting, At, Bystands, Call
          <5> QED
            BY <3>1, <5>1, <5>2
        <4> QED
          BY <3>1, <4>2 DEF IdleInv, MatchNode, CheckEdge, HasRead, TypeOK
      <3>2. CASE Start(s)
        BY <3>2 DEF Start, IdleInv
      <3>3. CASE Ends(s)
        <4>1. PICK how : Stop(s, how)
          BY <3>3 DEF Ends, Fail, RejectNode, UpdateNodeGone, RejectEdge, OpenLocked, Finish
        <4> QED
          BY <4>1 DEF Stop, IdleInv, TypeOK
      <3>4. CASE Returns(s)
        <4>1. Advance(s)
          BY <3>4 DEF Returns, Configure, CreateNode, UpdateNode, MergeEdge, Reset, Open, InsertRow,
                Unlink, Close
        <4> QED
          BY <4>1 DEF Advance, IdleInv, TypeOK
      <3> QED
        BY <1>2, <3>1, <3>2, <3>3, <3>4, StepKinds DEF Waits
    <2> QED
      BY <2>1, <2>2, <2>3 DEF IdleInv
  <1> QED
    BY <1>1, <1>2 DEF Next

\* One script builds, and may clear before it builds; those beside it are
\* servers, which write nothing, or foreign loaders, which are refused: what it
\* was asked to write is there whenever it has ended normally, however often it
\* was interrupted and run again.
THEOREM RebuildComplete ==
  ASSUME NEW w \in Scripts, SoleBuilder(w)
  PROVE  Spec => []CompletedRunComplete
  <1>1. Init => BuildInv(w)
    BY DEF Init, BuildInv, PerformedBy, CompletedBy, HandleInv, IdleInv
  <1>2. OthersKeepFile(w)
    BY DEF SoleBuilder, Bystands, OthersKeepFile
  <1>3. TypeOK /\ BuildInv(w) /\ [Next]_vars => BuildInv(w)'
    <2> SUFFICES ASSUME TypeOK, BuildInv(w), [Next]_vars PROVE BuildInv(w)'
      OBVIOUS
    <2>1. PerformedBy(w)' /\ CompletedBy(w)'
      BY NextPerformedBy, NextCompletedBy
    <2>2. HandleInv(w)'
      BY <1>2, NextHandle DEF BuildInv
    <2>3. ASSUME NEW s \in Scripts \ {w} PROVE IdleInv(s)'
      BY NextIdle DEF BuildInv, SoleBuilder
    <2> QED
      BY <2>1, <2>2, <2>3 DEF BuildInv
  <1>4. BuildInv(w) => CompletedRunComplete
    <2> SUFFICES ASSUME BuildInv(w), NEW s \in Scripts, status[s] = "done",
                        NEW i \in 1..Len(Program[s])
                 PROVE  Effective(Program[s][i])
      BY DEF CompletedRunComplete
    <2>1. CASE s = w
      BY <2>1 DEF BuildInv, CompletedBy
    <2>2. CASE s # w
      <3>1. Program[s][i].kind \notin {"node", "edge", "row"}
        BY <2>2 DEF BuildInv, IdleInv, SoleBuilder, Bystands
      <3> QED
        BY <3>1 DEF Effective
    <2> QED
      BY <2>1, <2>2
  <1> QED
    BY <1>1, <1>3, <1>4, TypeCorrect, PTL DEF Spec
------------------------------------------------------------------------------
(* The length of the run of a script *)

\* How many steps the run of s has left at most: two for each call, and its end.
StepsLeft(s) ==
  IF status[s] = "running"
  THEN 2 * (Len(Program[s]) + 1 - pc[s]) + (IF seen[s] THEN 1 ELSE 2)
  ELSE 0

LEMMA StepsLeftNat ==
  ASSUME TypeOK, NEW s \in Scripts
  PROVE  /\ StepsLeft(s) \in 0..(2 * Len(Program[s]) + 2)
         /\ status[s] = "running" => StepsLeft(s) # 0
  <1>1. Len(Program[s]) \in Nat
    BY ProgramAssumption
  <1>2. pc[s] \in 1..(Len(Program[s]) + 1)
    BY DEF TypeOK
  <1> QED
    BY <1>1, <1>2 DEF StepsLeft

\* The steps of a script bring its run closer to its end ...
LEMMA OwnStep ==
  ASSUME TypeOK, NEW s \in Scripts, Fail(s) \/ Step(s)
  PROVE  StepsLeft(s)' < StepsLeft(s)
  <1>0. /\ status[s] = "running"
        /\ Len(Program[s]) \in Nat /\ pc[s] \in Nat
        /\ StepsLeft(s) \in Nat \ {0}
    <2>1. status[s] = "running"
      BY DEF Fail, Step, Configure, RejectNode, MatchNode, CreateNode, UpdateNode, UpdateNodeGone,
             RejectEdge, CheckEdge, MergeEdge, Reset, Open, OpenLocked, InsertRow, Unlink, Close,
             Finish, Starting, Writing, At
    <2> QED
      BY <2>1, StepsLeftNat, ProgramAssumption DEF TypeOK
  <1>1. CASE Ends(s)
    <2>1. PICK how \in {"done", "rejected", "failed"} : Stop(s, how)
      BY <1>1 DEF Ends, Fail, RejectNode, UpdateNodeGone, RejectEdge, OpenLocked, Finish
    <2>2. status'[s] # "running"
      BY <2>1 DEF Stop, TypeOK
    <2>3. StepsLeft(s)' = 0
      BY <2>2 DEF StepsLeft
    <2> QED
      BY <1>0, <2>3
  <1>2. CASE Returns(s)
    <2>1. PICK kind : At(s, kind) /\ Advance(s)
      BY <1>2 DEF Returns, Configure, CreateNode, UpdateNode, MergeEdge, Reset, Open, InsertRow,
                  Unlink, Close, Starting, Writing
    <2>2. status'[s] = "running" /\ pc'[s] = pc[s] + 1 /\ ~seen'[s]
      BY <1>0, <2>1 DEF Advance, TypeOK
    <2>3. StepsLeft(s)' = 2 * (Len(Program[s]) + 1 - (pc[s] + 1)) + 2
      BY <2>2 DEF StepsLeft
    <2>4. StepsLeft(s) >= 2 * (Len(Program[s]) + 1 - pc[s]) + 1
      BY <1>0 DEF StepsLeft
    <2> QED
      BY <1>0, <2>3, <2>4
  <1>3. CASE MatchNode(s) \/ CheckEdge(s)
    <2>1. ~seen[s] /\ \E copies : HasRead(s, copies)
      BY <1>3 DEF MatchNode, CheckEdge, Starting
    <2>2. status'[s] = "running" /\ pc'[s] = pc[s] /\ seen'[s]
      BY <1>0, <2>1 DEF HasRead, TypeOK
    <2>3. StepsLeft(s)' = 2 * (Len(Program[s]) + 1 - pc[s]) + 1
      BY <2>2 DEF StepsLeft
    <2>4. StepsLeft(s) = 2 * (Len(Program[s]) + 1 - pc[s]) + 2
      BY <1>0, <2>1 DEF StepsLeft
    <2> QED
      BY <1>0, <2>3, <2>4
  <1> QED
    BY <1>1, <1>2, <1>3 DEF Step, Ends, Returns

\* ... and those of the others leave it where it is.
LEMMA OtherStep ==
  ASSUME TypeOK, NEW s \in Scripts, NEW t \in Scripts \ {s}, Start(s) \/ Fail(s) \/ Step(s)
  PROVE  StepsLeft(t)' = StepsLeft(t)
  <1>1. status'[t] = status[t] /\ pc'[t] = pc[t] /\ seen'[t] = seen[t]
    <2>1. CASE Start(s)
      BY <2>1 DEF Start, TypeOK
    <2>2. CASE Ends(s)
      <3>1. PICK how : Stop(s, how)
        BY <2>2 DEF Ends, Fail, RejectNode, UpdateNodeGone, RejectEdge, OpenLocked, Finish
      <3> QED
        BY <3>1 DEF Stop, TypeOK
    <2>3. CASE Returns(s)
      <3>1. Advance(s)
        BY <2>3 DEF Returns, Configure, CreateNode, UpdateNode, MergeEdge, Reset, Open, InsertRow,
                    Unlink, Close
      <3> QED
        BY <3>1 DEF Advance, TypeOK
    <2>4. CASE MatchNode(s) \/ CheckEdge(s)
      <3>1. \E copies : HasRead(s, copies)
        BY <2>4 DEF MatchNode, CheckEdge
      <3> QED
        BY <3>1 DEF HasRead, TypeOK
    <2> QED
      BY <2>1, <2>2, <2>3, <2>4 DEF Step, Ends, Returns
  <1> QED
    BY <1>1 DEF StepsLeft

\* The run of a script of n calls has at most 2 * n + 2 steps: no call is tried
\* again, and nothing that others do adds to it.  (That a script can always make
\* its next step, and does, is what ScriptsEnd adds.)
THEOREM RunsBounded ==
  Spec => /\ [](\A s \in Scripts : StepsLeft(s) \in 0..(2 * Len(Program[s]) + 2))
          /\ [][\A s \in Scripts : status[s] = "running" =>
                  /\ StepsLeft(s)' <= StepsLeft(s)
                  /\ Fail(s) \/ Step(s) => StepsLeft(s)' < StepsLeft(s)]_vars
  <1> DEFINE Bounded  == \A s \in Scripts : StepsLeft(s) \in 0..(2 * Len(Program[s]) + 2)
             Descends == \A s \in Scripts : status[s] = "running" =>
                           /\ StepsLeft(s)' <= StepsLeft(s)
                           /\ Fail(s) \/ Step(s) => StepsLeft(s)' < StepsLeft(s)
  <1>1. TypeOK => Bounded
    BY StepsLeftNat
  <1>2. (TypeOK => Bounded)'
    BY <1>1, PTL
  <1>3. TypeOK /\ [Next]_vars => [Descends]_vars
    <2> SUFFICES ASSUME TypeOK, Next, NEW s \in Scripts, status[s] = "running"
                 PROVE  /\ StepsLeft(s)' <= StepsLeft(s)
                        /\ Fail(s) \/ Step(s) => StepsLeft(s)' < StepsLeft(s)
      OBVIOUS
    <2>1. PICK u \in Scripts : Start(u) \/ Fail(u) \/ Step(u)
      BY DEF Next
    <2>2. Fail(s) \/ Step(s) => StepsLeft(s)' < StepsLeft(s)
      BY OwnStep
    <2>3. StepsLeft(s) \in Nat
      BY StepsLeftNat
    <2>4. CASE u = s
      <3>1. Fail(s) \/ Step(s)
        BY <2>1, <2>4 DEF Start
      <3>2. StepsLeft(s)' < StepsLeft(s)
        BY <2>2, <3>1
      <3>3. StepsLeft(s)' \in Nat
        <4>1. TypeOK'
          BY NextTypeOK
        <4> QED
          BY <1>2, <4>1
      <3> QED
        BY <2>2, <2>3, <3>2, <3>3
    <2>5. CASE u # s
      <3>1. StepsLeft(s)' = StepsLeft(s)
        BY <2>1, <2>5, OtherStep
      <3> QED
        BY <2>2, <2>3, <3>1
    <2> QED
      BY <2>4, <2>5
  <1> QED
    BY <1>1, <1>3, TypeCorrect, PTL DEF Spec
==============================================================================
