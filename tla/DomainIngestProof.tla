--------------------------- MODULE DomainIngestProof ---------------------------
(***************************************************************************)
(* Theorems about the write path for any set of scripts, any programs, any *)
(* ids and any number of runs.                                             *)
(***************************************************************************)
EXTENDS DomainIngest, TLAPS

------------------------------------------------------------------------------
(* The current call *)

\* A script that is at a call is at one of the calls of its program.
LEMMA CallType ==
  ASSUME TypeOK, NEW s \in Scripts, NEW kind, At(s, kind)
  PROVE  Call(s) \in StoreCall /\ Call(s).kind = kind /\ pc[s] + 1 \in 1..(Len(Program[s]) + 1)
  <1>1. Program[s] \in Seq(StoreCall)
    BY ProgramAssumption
  <1>2. pc[s] \in 1..(Len(Program[s]) + 1) /\ pc[s] <= Len(Program[s]) /\ Call(s).kind = kind
    BY DEF TypeOK, At
  <1>3. Len(Program[s]) \in Nat
    BY <1>1
  <1>4. pc[s] \in 1..Len(Program[s])
    BY <1>2, <1>3
  <1> QED
    BY <1>1, <1>2, <1>3, <1>4 DEF Call

\* What a call carries follows from its kind.
LEMMA CallFields ==
  ASSUME NEW c \in StoreCall
  PROVE  /\ c.kind \in {"configure", "reset", "node"} => c.graph \in Graphs
         /\ c.kind = "node" => c.node \in Node
         /\ c.kind = "edge" => c.edge \in Edge
         /\ c.kind = "row"  => c.node \in Components
  BY DEF StoreCall

\* A relationship belongs to one domain graph and connects node keys.
LEMMA EdgeFields ==
  ASSUME NEW e \in Edge
  PROVE  GraphOf(e) \in Graphs /\ e.source \in Node /\ e.target \in Node
  <1>1. PICK t \in EdgeTypes :
          e \in [type   : {t},
                 source : Labelled(ALLOWED_EDGES[t].source),
                 target : Labelled(ALLOWED_EDGES[t].target)]
    BY DEF Edge
  <1>2. EDGE_TO_GRAPH[t] \in Graphs
    BY DEF EdgeTypes, EDGE_TO_GRAPH, Graphs
  <1>3. ALLOWED_EDGES[t].source \in Labels /\ ALLOWED_EDGES[t].target \in Labels
    BY DEF EdgeTypes, ALLOWED_EDGES, Labels
  <1> QED
    BY <1>1, <1>2, <1>3 DEF GraphOf, Node

------------------------------------------------------------------------------
(* Type correctness *)

LEMMA InitTypeOK == Init => TypeOK
  <1> SUFFICES ASSUME Init PROVE TypeOK
    OBVIOUS
  <1>1. \A s \in Scripts : Len(Program[s]) \in Nat
    BY ProgramAssumption
  <1>2. \A s \in Scripts : pc[s] \in 1..(Len(Program[s]) + 1)
    BY <1>1 DEF Init
  <1>3. store \in [Graphs -> [Node -> [Scripts -> Stamp \cup {NoCopy}]]]
    BY DEF Init
  <1>4. runs \in [Scripts -> 0..MaxRuns]
    BY MaxRunsAssumption DEF Init
  <1> QED
    BY <1>2, <1>3, <1>4 DEF Init, TypeOK

\* Advance, HasRead and Stop keep the process variables they write in type.
LEMMA AdvanceType ==
  ASSUME TypeOK, NEW s \in Scripts, NEW kind, At(s, kind), Advance(s)
  PROVE  /\ status' \in [Scripts -> {"idle", "running", "done", "rejected", "failed"}]
         /\ runs' \in [Scripts -> 0..MaxRuns]
         /\ pc' \in [Scripts -> Nat]
         /\ \A t \in Scripts : pc'[t] \in 1..(Len(Program[t]) + 1)
         /\ seen' \in [Scripts -> BOOLEAN]
         /\ found' \in [Scripts -> SUBSET Scripts]
  <1>1. pc[s] + 1 \in 1..(Len(Program[s]) + 1)
    BY CallType
  <1> QED
    BY <1>1 DEF TypeOK, Advance

LEMMA StopType ==
  ASSUME TypeOK, NEW s \in Scripts, NEW how \in {"done", "rejected", "failed"}, Stop(s, how)
  PROVE  /\ status' \in [Scripts -> {"idle", "running", "done", "rejected", "failed"}]
         /\ runs' \in [Scripts -> 0..MaxRuns]
         /\ pc' \in [Scripts -> Nat]
         /\ \A t \in Scripts : pc'[t] \in 1..(Len(Program[t]) + 1)
         /\ seen' \in [Scripts -> BOOLEAN]
         /\ found' \in [Scripts -> SUBSET Scripts]
         /\ configured' \in [Scripts -> SUBSET Graphs]
         /\ handle' \in [Scripts -> {"closed", "live", "unlinked"}]
  <1>1. Len(Program[s]) \in Nat
    BY ProgramAssumption
  <1> QED
    BY <1>1 DEF TypeOK, Stop

\* What the write half of a node call stores is metadata, never an empty slot.
LEMMA StampType ==
  ASSUME NEW s, NEW g
  PROVE  /\ NewStamp(s, g) \in Stamp
         /\ \A old \in Stamp \cup {NoCopy} : Restamp(s, g, old) \in Stamp
         /\ NoCopy \notin Stamp
  BY Zenon, SMT DEF NewStamp, Restamp, Stamp, NoCopy

LEMMA NextTypeOK == TypeOK /\ [Next]_vars => TypeOK'
  <1> SUFFICES ASSUME TypeOK, [Next]_vars PROVE TypeOK'
    OBVIOUS
  <1>1. CASE UNCHANGED vars
    BY <1>1 DEF TypeOK, vars, procVars
  <1>2. ASSUME NEW s \in Scripts, Start(s) PROVE TypeOK'
    BY <1>2, MaxRunsAssumption DEF TypeOK, Start
  <1>3. ASSUME NEW s \in Scripts, Fail(s) PROVE TypeOK'
    BY <1>3, StopType DEF TypeOK, Fail
  <1>4. ASSUME NEW s \in Scripts, Step(s) PROVE TypeOK'
    <2>1. CASE Configure(s)
      <3>1. At(s, "configure") /\ Advance(s)
        BY <2>1 DEF Configure, Starting
      <3>2. Call(s).graph \in Graphs
        BY <3>1, CallType, CallFields
      <3> QED
        BY <2>1, <3>1, <3>2, AdvanceType DEF TypeOK, Configure
    <2>2. CASE RejectNode(s)
      BY <2>2, StopType DEF TypeOK, RejectNode
    <2>3. CASE MatchNode(s)
      BY <2>3 DEF TypeOK, MatchNode, HasRead, Copies
    <2>4. CASE CreateNode(s)
      <3>1. At(s, "node") /\ Advance(s)
        BY <2>4 DEF CreateNode, Writing
      <3>2. NewStamp(s, Call(s).graph) \in Stamp
        BY StampType
      <3>3. store' \in [Graphs -> [Node -> [Scripts -> Stamp \cup {NoCopy}]]]
        <4> DEFINE g == Call(s).graph
                   n == Call(s).node
        <4>1. g \in Graphs /\ n \in Node
          BY <3>1, CallType, CallFields
        <4>2. store' = [store EXCEPT ![g][n][s] = NewStamp(s, g)]
          BY <2>4 DEF CreateNode
        <4>3. store[g] \in [Node -> [Scripts -> Stamp \cup {NoCopy}]]
              /\ store[g][n] \in [Scripts -> Stamp \cup {NoCopy}]
          BY <4>1 DEF TypeOK
        <4> HIDE DEF g, n
        <4>4. [store[g][n] EXCEPT ![s] = NewStamp(s, g)] \in [Scripts -> Stamp \cup {NoCopy}]
          BY <4>3, StampType
        <4> QED
          BY <4>1, <4>2, <4>3, <4>4 DEF TypeOK
      <3> QED
        BY <2>4, <3>1, <3>3, AdvanceType DEF TypeOK, CreateNode
    <2>5. CASE UpdateNode(s)
      <3>1. At(s, "node") /\ Advance(s)
        BY <2>5 DEF UpdateNode, Writing
      <3> DEFINE g == Call(s).graph
                 n == Call(s).node
                 new == [t \in Scripts |-> IF t \in found[s] THEN Restamp(s, g, store[g][n][t])
                                                             ELSE store[g][n][t]]
      <3>2. g \in Graphs /\ n \in Node
        BY <3>1, CallType, CallFields
      <3>3. new \in [Scripts -> Stamp \cup {NoCopy}]
        <4>1. store[g][n] \in [Scripts -> Stamp \cup {NoCopy}]
          BY <3>2 DEF TypeOK
        <4>2. \A t \in Scripts : Restamp(s, g, store[g][n][t]) \in Stamp
          BY <4>1, StampType
        <4> HIDE DEF g, n
        <4> QED
          BY <4>1, <4>2
      <3>4. store' = [store EXCEPT ![g][n] = new]
        BY <2>5, <3>2 DEF UpdateNode, TypeOK
      <3>5. store' \in [Graphs -> [Node -> [Scripts -> Stamp \cup {NoCopy}]]]
        <4> HIDE DEF new
        <4> QED
          BY <3>2, <3>3, <3>4 DEF TypeOK
      <3> QED
        BY <2>5, <3>1, <3>5, AdvanceType DEF TypeOK, UpdateNode
    <2>6. CASE UpdateNodeGone(s)
      BY <2>6, StopType DEF TypeOK, UpdateNodeGone
    <2>7. CASE RejectEdge(s)
      BY <2>7, StopType DEF TypeOK, RejectEdge
    <2>8. CASE CheckEdge(s)
      BY <2>8 DEF TypeOK, CheckEdge, HasRead
    <2>9. CASE MergeEdge(s)
      <3>1. At(s, "edge") /\ Advance(s)
        BY <2>9 DEF MergeEdge, Writing
      <3>2. Call(s).edge \in Edge
        BY <3>1, CallType, CallFields
      <3> QED
        BY <2>9, <3>1, <3>2, AdvanceType DEF TypeOK, MergeEdge
    <2>10. CASE Reset(s)
      <3>1. At(s, "reset") /\ Advance(s)
        BY <2>10 DEF Reset, Starting
      <3>2. store' \in [Graphs -> [Node -> [Scripts -> Stamp \cup {NoCopy}]]]
        BY <2>10 DEF TypeOK, Reset
      <3>3. edges' \in SUBSET Edge
        BY <2>10 DEF TypeOK, Reset
      <3> QED
        BY <2>10, <3>1, <3>2, <3>3, AdvanceType DEF TypeOK, Reset
    <2>11. CASE Open(s)
      <3>1. At(s, "open") /\ Advance(s)
        BY <2>11 DEF Open, Starting
      <3> QED
        BY <2>11, <3>1, AdvanceType DEF TypeOK, Open
    <2>12. CASE OpenLocked(s)
      BY <2>12, StopType DEF TypeOK, OpenLocked
    <2>13. CASE InsertRow(s)
      <3>1. At(s, "row") /\ Advance(s)
        BY <2>13 DEF InsertRow, Starting
      <3>2. Call(s).node \in Components
        BY <3>1, CallType, CallFields
      <3> QED
        BY <2>13, <3>1, <3>2, AdvanceType DEF TypeOK, InsertRow
    <2>14. CASE Unlink(s)
      <3>1. At(s, "unlink") /\ Advance(s)
        BY <2>14 DEF Unlink, Starting
      <3> QED
        BY <2>14, <3>1, AdvanceType DEF TypeOK, Unlink
    <2>15. CASE Close(s)
      <3>1. At(s, "close") /\ Advance(s)
        BY <2>15 DEF Close, Starting
      <3> QED
        BY <2>15, <3>1, AdvanceType DEF TypeOK, Close
    <2>16. CASE Finish(s)
      BY <2>16, StopType DEF TypeOK, Finish
    <2> QED
      BY <1>4, <2>1, <2>2, <2>3, <2>4, <2>5, <2>6, <2>7, <2>8, <2>9, <2>10, <2>11, <2>12,
         <2>13, <2>14, <2>15, <2>16 DEF Step
  <1> QED
    BY <1>1, <1>2, <1>3, <1>4 DEF Next

\* Every state the scripts reach is a state of the stores the model declares.
THEOREM TypeCorrect == Spec => []TypeOK
  BY InitTypeOK, NextTypeOK, PTL DEF Spec

------------------------------------------------------------------------------
(* What a step does to the nodes a reader sees *)

\* The write half of a MERGE that found nothing adds exactly its node.
LEMMA CreateNodeAdds ==
  ASSUME TypeOK, NEW s \in Scripts, CreateNode(s)
  PROVE  /\ Call(s).graph \in Graphs /\ Call(s).node \in Node
         /\ \A g \in Graphs, n \in Node :
              Present(g, n)' <=> Present(g, n) \/ (g = Call(s).graph /\ n = Call(s).node)
  <1> DEFINE h == Call(s).graph
             m == Call(s).node
             x == NewStamp(s, h)
  <1>1. h \in Graphs /\ m \in Node
    <2>1. At(s, "node")
      BY DEF CreateNode, Writing
    <2> QED
      BY <2>1, CallType, CallFields
  <1>2. store' = [store EXCEPT ![h][m][s] = x] /\ x # NoCopy
    BY StampType DEF CreateNode
  <1> HIDE DEF h, m, x
  <1>3. ASSUME NEW g \in Graphs, NEW n \in Node
        PROVE  Present(g, n)' <=> Present(g, n) \/ (g = h /\ n = m)
    <2>1. store[g][n] \in [Scripts -> Stamp \cup {NoCopy}] /\ store[g] \in [Node -> [Scripts -> Stamp \cup {NoCopy}]]
      BY <1>3 DEF TypeOK
    <2>2. CASE g = h /\ n = m
      <3>1. store'[g][n][s] = x
        BY <1>1, <1>2, <2>1, <2>2 DEF TypeOK
      <3> QED
        BY <1>2, <2>2, <3>1 DEF Present, Copies
    <2>3. CASE ~(g = h /\ n = m)
      <3>1. store'[g][n] = store[g][n]
        BY <1>1, <1>2, <2>1, <2>3 DEF TypeOK
      <3> QED
        BY <2>3, <3>1 DEF Present, Copies
    <2> QED
      BY <2>2, <2>3
  <1> QED
    BY <1>1, <1>3 DEF h, m

\* SET n += props neither adds nor removes a node.
LEMMA UpdateNodeKeeps ==
  ASSUME TypeOK, NEW s \in Scripts, UpdateNode(s), NEW g \in Graphs, NEW n \in Node
  PROVE  Present(g, n)' <=> Present(g, n)
  <1> DEFINE h == Call(s).graph
             m == Call(s).node
             new == [t \in Scripts |-> IF t \in found[s] THEN Restamp(s, h, store[h][m][t])
                                                         ELSE store[h][m][t]]
  <1>1. h \in Graphs /\ m \in Node
    <2>1. At(s, "node")
      BY DEF UpdateNode, Writing
    <2> QED
      BY <2>1, CallType, CallFields
  <1>2. store' = [store EXCEPT ![h][m] = new] /\ found[s] \subseteq Copies(h, m)
    BY <1>1 DEF UpdateNode, TypeOK
  <1>3. store[h][m] \in [Scripts -> Stamp \cup {NoCopy}]
    BY <1>1 DEF TypeOK
  <1>4. ASSUME NEW t \in Scripts PROVE new[t] # NoCopy <=> store[h][m][t] # NoCopy
    <2>1. CASE t \in found[s]
      <3>1. store[h][m][t] # NoCopy
        BY <1>2, <2>1 DEF Copies
      <3>2. Restamp(s, h, store[h][m][t]) # NoCopy
        BY <1>3, StampType
      <3> QED
        BY <2>1, <3>1, <3>2
    <2>2. CASE t \notin found[s]
      BY <2>2
    <2> QED
      BY <2>1, <2>2
  <1> HIDE DEF h, m, new
  <1>5. CASE g = h /\ n = m
    <2>1. store'[g][n] = new
      BY <1>1, <1>2, <1>5 DEF TypeOK
    <2> QED
      BY <1>4, <1>5, <2>1 DEF Present, Copies
  <1>6. CASE ~(g = h /\ n = m)
    <2>1. store'[g][n] = store[g][n]
      BY <1>1, <1>2, <1>6 DEF TypeOK
    <2> QED
      BY <2>1 DEF Present, Copies
  <1> QED
    BY <1>5, <1>6

\* DETACH DELETE removes the nodes of one graph and no other.
LEMMA ResetClears ==
  ASSUME TypeOK, NEW s \in Scripts, Reset(s), NEW g \in Graphs, NEW n \in Node
  PROVE  Present(g, n)' <=> Present(g, n) /\ g # Call(s).graph
  <1>1. CASE g = Call(s).graph
    <2>1. store'[g][n] = [t \in Scripts |-> NoCopy]
      BY <1>1 DEF Reset, TypeOK
    <2> QED
      BY <1>1, <2>1 DEF Present, Copies
  <1>2. CASE g # Call(s).graph
    <2>1. store'[g][n] = store[g][n]
      BY <1>2 DEF Reset, TypeOK
    <2> QED
      BY <1>2, <2>1 DEF Present, Copies
  <1> QED
    BY <1>1, <1>2

\* No other step writes nodes.
LEMMA StoreUnchanged ==
  ASSUME UNCHANGED store, NEW g, NEW n
  PROVE  Present(g, n)' <=> Present(g, n)
  BY DEF Present, Copies

\* Every step but the five named here leaves both nodes and relationships.
LEMMA QuietSteps ==
  ASSUME NEW s \in Scripts, Start(s) \/ Fail(s) \/ Step(s),
         ~CreateNode(s), ~UpdateNode(s), ~MergeEdge(s), ~Reset(s)
  PROVE  UNCHANGED <<store, edges>>
  BY DEF Start, Fail, Step, Configure, RejectNode, MatchNode, UpdateNodeGone, RejectEdge, CheckEdge,
         Open, OpenLocked, InsertRow, Unlink, Close, Finish

------------------------------------------------------------------------------
(* Relationships never dangle *)

LEMMA NextEndpoints == TypeOK /\ EdgeEndpointsPresent /\ [Next]_vars => EdgeEndpointsPresent'
  <1> SUFFICES ASSUME TypeOK, EdgeEndpointsPresent, [Next]_vars,
                      NEW e \in edges'
               PROVE  EndpointsPresent(e)'
    BY DEF EdgeEndpointsPresent
  <1>1. \A f \in edges : /\ f \in Edge /\ GraphOf(f) \in Graphs
                         /\ f.source \in Node /\ f.target \in Node
                         /\ Present(GraphOf(f), f.source) /\ Present(GraphOf(f), f.target)
    BY EdgeFields DEF TypeOK, EdgeEndpointsPresent, EndpointsPresent
  <1>2. CASE UNCHANGED vars
    BY <1>1, <1>2, StoreUnchanged DEF vars, EndpointsPresent
  <1>3. ASSUME NEW s \in Scripts, Start(s) \/ Fail(s) \/ Step(s)
        PROVE  EndpointsPresent(e)'
    <2>1. CASE CreateNode(s)
      <3>1. e \in edges
        BY <2>1 DEF CreateNode
      <3> QED
        BY <1>1, <2>1, <3>1, CreateNodeAdds DEF EndpointsPresent
    <2>2. CASE UpdateNode(s)
      <3>1. e \in edges
        BY <2>2 DEF UpdateNode
      <3> QED
        BY <1>1, <2>2, <3>1, UpdateNodeKeeps DEF EndpointsPresent
    <2>3. CASE MergeEdge(s)
      <3>1. UNCHANGED store /\ (e \in edges \/ EndpointsPresent(e))
        BY <2>3 DEF MergeEdge
      <3> QED
        BY <1>1, <3>1, StoreUnchanged DEF EndpointsPresent
    <2>4. CASE Reset(s)
      <3>1. e \in edges /\ GraphOf(e) # Call(s).graph
        BY <2>4 DEF Reset
      <3> QED
        BY <1>1, <2>4, <3>1, ResetClears DEF EndpointsPresent
    <2>5. CASE ~CreateNode(s) /\ ~UpdateNode(s) /\ ~MergeEdge(s) /\ ~Reset(s)
      <3>1. UNCHANGED <<store, edges>>
        BY <1>3, <2>5, QuietSteps
      <3> QED
        BY <1>1, <3>1, StoreUnchanged DEF EndpointsPresent
    <2> QED
      BY <2>1, <2>2, <2>3, <2>4, <2>5
  <1> QED
    BY <1>2, <1>3 DEF Next

\* Whatever scripts run, race, crash and reset, a reader who looks between two
\* transactions never sees a relationship without both of its end nodes.
THEOREM NoDanglingEdge == Spec => []EdgeEndpointsPresent
  <1>1. Init => EdgeEndpointsPresent
    BY DEF Init, EdgeEndpointsPresent
  <1> QED
    BY <1>1, NextEndpoints, TypeCorrect, PTL DEF Spec

------------------------------------------------------------------------------
(* The stores implement BomCatalog *)

\* The write half of add_node no longer checks the label: its read half did.
MatchedAllowed ==
  \A s \in Scripts :
    seen[s] /\ Call(s).kind = "node" => NodeAllowed(Call(s).graph, Call(s).node)

LEMMA NextMatchedAllowed == TypeOK /\ MatchedAllowed /\ [Next]_vars => MatchedAllowed'
  <1> SUFFICES ASSUME TypeOK, MatchedAllowed, [Next]_vars,
                      NEW t \in Scripts, seen'[t], Call(t)'.kind = "node"
               PROVE  NodeAllowed(Call(t)'.graph, Call(t)'.node)
    BY DEF MatchedAllowed
  <1>1. CASE UNCHANGED vars
    BY <1>1 DEF MatchedAllowed, vars, procVars, Call
  <1>2. ASSUME NEW s \in Scripts, Start(s) PROVE NodeAllowed(Call(t)'.graph, Call(t)'.node)
    BY <1>2 DEF MatchedAllowed, Start, Call
  <1>3. ASSUME NEW s \in Scripts, NEW how, Stop(s, how)
        PROVE  NodeAllowed(Call(t)'.graph, Call(t)'.node)
    <2>1. t # s
      BY <1>3 DEF Stop, TypeOK
    <2>2. seen[t] /\ pc'[t] = pc[t]
      BY <1>3, <2>1 DEF Stop, TypeOK
    <2> QED
      BY <2>2 DEF MatchedAllowed, Call
  <1>4. ASSUME NEW s \in Scripts, Advance(s)
        PROVE  NodeAllowed(Call(t)'.graph, Call(t)'.node)
    <2>1. t # s
      BY <1>4 DEF Advance, TypeOK
    <2>2. seen[t] /\ pc'[t] = pc[t]
      BY <1>4, <2>1 DEF Advance, TypeOK
    <2> QED
      BY <2>2 DEF MatchedAllowed, Call
  <1>5. ASSUME NEW s \in Scripts, MatchNode(s) \/ CheckEdge(s)
        PROVE  NodeAllowed(Call(t)'.graph, Call(t)'.node)
    <2>1. pc' = pc /\ (t # s => seen[t])
      BY <1>5 DEF MatchNode, CheckEdge, HasRead, TypeOK
    <2>2. CASE t = s
      BY <1>5, <2>1, <2>2 DEF MatchNode, CheckEdge, Starting, At, Call
    <2>3. CASE t # s
      BY <2>1, <2>3 DEF MatchedAllowed, Call
    <2> QED
      BY <2>2, <2>3
  <1>6. ASSUME NEW s \in Scripts, Fail(s) \/ Step(s)
        PROVE  (\E how : Stop(s, how)) \/ Advance(s) \/ MatchNode(s) \/ CheckEdge(s)
    BY <1>6 DEF Fail, Step, Configure, RejectNode, CreateNode, UpdateNode, UpdateNodeGone, RejectEdge,
                MergeEdge, Reset, Open, OpenLocked, InsertRow, Unlink, Close, Finish
  <1> QED
    BY <1>1, <1>2, <1>3, <1>4, <1>5, <1>6 DEF Next

\* What a reader sees of the nodes.
Shown == {gn \in Graphs \X Node : Present(gn[1], gn[2])}

\* The catalogue is a catalogue of the same ontology.
LEMMA SameOntology ==
  /\ Catalog!Graphs = Graphs
  /\ Catalog!Node = Node
  /\ Catalog!Edge = Edge
  /\ Catalog!Components = Components
  /\ \A g, n : Catalog!NodeAllowed(g, n) <=> NodeAllowed(g, n)
  /\ \A e : Catalog!GraphOf(e) = GraphOf(e)
  <1>1. Catalog!Graphs = Graphs /\ Catalog!Labels = Labels /\ Catalog!EdgeTypes = EdgeTypes
    BY DEF Catalog!Graphs, Graphs, Catalog!Labels, Labels, Catalog!EdgeTypes, EdgeTypes
  <1>2. \A l : Catalog!Labelled(l) = Labelled(l)
    BY DEF Catalog!Labelled, Labelled
  <1>3. Catalog!Node = Node /\ Catalog!Components = Components
    BY <1>1, <1>2 DEF Catalog!Node, Node, Catalog!Components, Components
  <1>4. Catalog!ALLOWED_EDGES = ALLOWED_EDGES
    BY DEF Catalog!ALLOWED_EDGES, ALLOWED_EDGES
  <1>5. Catalog!Edge = Edge
    BY <1>1, <1>2, <1>4 DEF Catalog!Edge, Edge
  <1>6. \A g, n : Catalog!NodeAllowed(g, n) <=> NodeAllowed(g, n)
    BY DEF Catalog!NodeAllowed, NodeAllowed, Catalog!DOMAIN_NODES, DOMAIN_NODES
  <1>7. \A e : Catalog!GraphOf(e) = GraphOf(e)
    BY DEF Catalog!GraphOf, GraphOf, Catalog!EDGE_TO_GRAPH, EDGE_TO_GRAPH
  <1> QED
    BY <1>1, <1>3, <1>5, <1>6, <1>7

\* Each step of a script is a step of the catalogue, or changes nothing in it.
LEMMA NextCatalog ==
  TypeOK /\ MatchedAllowed /\ [Next]_vars => [Catalog!Next]_(Catalog!vars)
  <1> SUFFICES ASSUME TypeOK, MatchedAllowed, [Next]_vars
               PROVE  \/ Catalog!Next
                      \/ UNCHANGED <<Shown, edges, master>>
    BY DEF Catalog!vars, Shown
  <1>1. ASSUME UNCHANGED store PROVE UNCHANGED Shown
    BY <1>1 DEF Shown, Present, Copies
  <1>2. CASE UNCHANGED vars
    BY <1>1, <1>2 DEF vars
  <1>3. ASSUME NEW s \in Scripts, Start(s) \/ Fail(s) \/ Step(s)
        PROVE  Catalog!Next \/ UNCHANGED <<Shown, edges, master>>
    <2> DEFINE h == Call(s).graph
               m == Call(s).node
    <2>1. CASE CreateNode(s)
      <3>1. h \in Graphs /\ m \in Node /\ NodeAllowed(h, m)
        BY <2>1, CreateNodeAdds DEF MatchedAllowed, CreateNode, Writing, At
      <3>2. Shown' = Shown \cup {<<h, m>>}
        <4>1. ASSUME NEW g \in Graphs, NEW n \in Node
              PROVE  Present(g, n)' <=> Present(g, n) \/ (g = h /\ n = m)
          BY <2>1, CreateNodeAdds
        <4> HIDE DEF h, m
        <4> QED
          BY <3>1, <4>1 DEF Shown
      <3>3. Catalog!PutNode(h, m)
        BY <2>1, <3>1, <3>2, SameOntology DEF Catalog!PutNode, Shown, CreateNode
      <3> QED
        BY <3>1, <3>3, SameOntology DEF Catalog!Next
    <2>2. CASE UpdateNode(s)
      <3>1. UNCHANGED Shown
        BY <2>2, UpdateNodeKeeps DEF Shown
      <3> QED
        BY <2>2, <3>1 DEF UpdateNode
    <2>3. CASE MergeEdge(s)
      <3> DEFINE e == Call(s).edge
      <3>1. e \in Edge
        BY <2>3, CallType, CallFields DEF MergeEdge, Writing
      <3>2. UNCHANGED <<Shown, master>>
        BY <1>1, <2>3 DEF MergeEdge
      <3>3. CASE EndpointsPresent(e)
        <4>1. {<<GraphOf(e), e.source>>, <<GraphOf(e), e.target>>} \subseteq Shown
          BY <3>1, <3>3, EdgeFields DEF EndpointsPresent, Shown
        <4>2. edges' = edges \cup {e}
          BY <2>3, <3>3 DEF MergeEdge
        <4>3. Catalog!PutEdge(e)
          BY <3>2, <4>1, <4>2, SameOntology DEF Catalog!PutEdge, Shown
        <4> QED
          BY <3>1, <4>3, SameOntology DEF Catalog!Next
      <3>4. CASE ~EndpointsPresent(e)
        BY <2>3, <3>2, <3>4 DEF MergeEdge
      <3> QED
        BY <3>3, <3>4
    <2>4. CASE Reset(s)
      <3>1. h \in Graphs
        BY <2>4, CallType, CallFields DEF Reset, Starting
      <3>2. Shown' = {gn \in Shown : gn[1] # h}
        BY <2>4, ResetClears DEF Shown
      <3>3. Catalog!ClearGraph(h)
        BY <2>4, <3>2, SameOntology DEF Catalog!ClearGraph, Shown, Reset
      <3> QED
        BY <3>1, <3>3, SameOntology DEF Catalog!Next
    <2>5. CASE InsertRow(s)
      <3>1. m \in Components
        BY <2>5, CallType, CallFields DEF InsertRow, Starting
      <3>2. UNCHANGED <<Shown, edges>> /\ (UNCHANGED master \/ master' = master \cup {m})
        BY <1>1, <2>5 DEF InsertRow
      <3>3. master' = master \cup {m} => Catalog!PutRow(m)
        BY <3>2 DEF Catalog!PutRow, Shown
      <3> QED
        BY <3>1, <3>2, <3>3, SameOntology DEF Catalog!Next
    <2>6. CASE Unlink(s)
      <3>1. Catalog!DropMaster
        BY <1>1, <2>6 DEF Unlink, Catalog!DropMaster, Shown
      <3> QED
        BY <3>1 DEF Catalog!Next
    <2>7. CASE /\ ~CreateNode(s) /\ ~UpdateNode(s) /\ ~MergeEdge(s) /\ ~Reset(s)
               /\ ~InsertRow(s) /\ ~Unlink(s)
      <3>1. UNCHANGED <<store, edges>>
        BY <1>3, <2>7, QuietSteps
      <3>2. UNCHANGED master
        BY <1>3, <2>7 DEF Start, Fail, Step, Configure, RejectNode, MatchNode, UpdateNodeGone,
           RejectEdge, CheckEdge, Open, OpenLocked, Close, Finish
      <3> QED
        BY <1>1, <3>1, <3>2
    <2> QED
      BY <2>1, <2>2, <2>3, <2>4, <2>5, <2>6, <2>7
  <1> QED
    BY <1>2, <1>3, <1>1 DEF Next, vars

\* A reader of the stores sees a catalogue: relationships appear between nodes
\* that are there, a domain graph holds only labels it owns, and reset clears a
\* graph together with its relationships, under any interleaving and any crash.
THEOREM ImplementsCatalog == Spec => CatalogSpec
  <1>1. Init => MatchedAllowed
    BY DEF Init, MatchedAllowed
  <1>2. Init => Catalog!Init
    BY DEF Init, Catalog!Init, Present, Copies
  <1>3. Spec => []MatchedAllowed
    BY <1>1, NextMatchedAllowed, TypeCorrect, PTL DEF Spec
  <1> QED
    BY <1>2, <1>3, NextCatalog, TypeCorrect, PTL DEF Spec, CatalogSpec, Catalog!Spec
==============================================================================
