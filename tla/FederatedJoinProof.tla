-------------------------- MODULE FederatedJoinProof --------------------------
(***************************************************************************)
(* What holds of the federated join for any ids, requests and bounds: its  *)
(* type invariant, the master gate on a connection that requests share and *)
(* its rejections where no connection is shared, the skew warning where    *)
(* both graphs are of one batch and, while loaders only add, the           *)
(* bracketing of the joined rows, what the recommendations reach,          *)
(* single-source claims and the graph view.                                *)
(***************************************************************************)
EXTENDS FederatedJoin, FiniteSetTheorems, TLAPS

------------------------------------------------------------------------------
(* Types *)

\* A relationship connects node keys of the labels its type allows.
LEMMA EdgeEnds ==
  ASSUME NEW e \in Edge
  PROVE  /\ e.source \in Node /\ e.target \in Node
         /\ e.type = "SUPPLIED_BY" => e.source \in Components /\ e.target \in Suppliers
         /\ e.type = "USED_IN" => e.source \in Components /\ e.target \in Labelled("Product")
  <1>1. PICK t \in EdgeTypes :
          e \in [type   : {t},
                 source : Labelled(ALLOWED_EDGES[t].source),
                 target : Labelled(ALLOWED_EDGES[t].target)]
    BY DEF Edge
  <1>2. ALLOWED_EDGES[t].source \in Labels /\ ALLOWED_EDGES[t].target \in Labels
    BY DEF EdgeTypes, ALLOWED_EDGES, Labels
  <1>3. e.source \in Node /\ e.target \in Node
    BY <1>1, <1>2 DEF Node
  <1>4. e.type = t
    BY <1>1
  <1>5. e.type = "SUPPLIED_BY" => e.source \in Components /\ e.target \in Suppliers
    BY <1>1, <1>4 DEF ALLOWED_EDGES, Components, Suppliers
  <1>6. e.type = "USED_IN" => e.source \in Components /\ e.target \in Labelled("Product")
    BY <1>1, <1>4 DEF ALLOWED_EDGES, Components
  <1> QED
    BY <1>3, <1>5, <1>6

\* The queries return what their rows are declared to be.
LEMMA QueryTypes ==
  ASSUME StoreTypeOK, NEW s \in Suppliers
  PROVE  /\ SuppliedComponents(s) \subseteq Components
         /\ \A type, cs : LinksFrom(type, cs) \subseteq Edge
         /\ JoinNow(s) \subseteq JoinRow
  <1>1. edges \subseteq Edge
    BY DEF StoreTypeOK
  <1>2. SuppliedComponents(s) \subseteq Components
    BY <1>1, EdgeEnds DEF SuppliedComponents, Links
  <1>3. \A type, cs : LinksFrom(type, cs) \subseteq Edge
    BY <1>1 DEF LinksFrom, Links
  <1>4. \A e \in LinksFrom("USED_IN", SuppliedComponents(s)) :
          e.source \in Components /\ e.target \in Labelled("Product")
    BY <1>1, EdgeEnds DEF LinksFrom, Links
  <1>5. JoinNow(s) \subseteq JoinRow
    BY <1>4 DEF JoinNow, MergeRows, JoinRow
  <1> QED
    BY <1>2, <1>3, <1>5

LEMMA InitType == Init => TypeOK
  <1> SUFFICES ASSUME Init PROVE TypeOK
    OBVIOUS
  <1>1. 0 \in 0..MaxTime
    BY TimeAssumption
  <1>2. StoreTypeOK
    BY <1>1 DEF Init, Catalog!Init, StoreTypeOK
  <1>3. QueryTypeOK
    BY <1>1 DEF Init, QueryTypeOK, Steps
  <1>4. ViewTypeOK
    BY DEF Init, ViewTypeOK
  <1>5. HistoryTypeOK
    BY DEF Init, HistoryTypeOK
  <1> QED
    BY <1>2, <1>3, <1>4, <1>5 DEF TypeOK

\* The steps of a request change none of the stores, and of the connection
\* only its result set.
LEMMA RequestsOnlyRead ==
  ASSUME NEW r \in Requests, RequestStep(r)
  PROVE  UNCHANGED <<nodes, edges, master, asOf, masterFile, conn, unlinkedRows>>
  BY DEF RequestStep, Begin, QuerySourcing, QueryEbom, SnapshotSourcing, SnapshotEbom,
         ReadAsOf, Judge, GateUnchecked, GateExecute, GateFetch, GateReadOnly,
         ViewNodes, ViewEdges, QueryRouting, CountSuppliers, RequestFails,
         storeVars, catalogVars, fileVars

\* Loaders change nothing of a request but its history.
LEMMA LoadersOnlyLoad ==
  ASSUME LoaderStep
  PROVE  UNCHANGED <<result, pc, answerVars>>
  BY DEF LoaderStep, WriteNode, WriteEdge, ResetDomain, WriteMasterRow, UnlinkMaster,
         requestVars

LEMMA StoreType ==
  ASSUME TypeOK, [Next]_vars
  PROVE  StoreTypeOK'
  <1> USE DEF TypeOK, StoreTypeOK
  <1>1. ASSUME NEW r \in Requests, RequestStep(r) PROVE StoreTypeOK'
    <2>1. UNCHANGED <<nodes, edges, master, asOf, masterFile, conn, unlinkedRows>>
      BY <1>1, RequestsOnlyRead
    <2>2. result' = result \/ result' = {} \/ result' = sourcing[r] \cap ConnRows
      BY <1>1 DEF RequestStep, Begin, QuerySourcing, QueryEbom, SnapshotSourcing,
         SnapshotEbom, ReadAsOf, GateUnchecked, GateExecute, GateFetch, GateReadOnly,
         ViewNodes, ViewEdges, QueryRouting, CountSuppliers, RequestFails
    <2>3. ConnRows \subseteq Components
      BY DEF ConnRows
    <2>4. result' \subseteq Components
      BY <2>2, <2>3
    <2> QED
      BY <2>1, <2>4
  <1>2. ASSUME NEW g \in Graphs, NEW n \in Node, NEW t \in 1..MaxTime, WriteNode(g, n, t)
        PROVE  StoreTypeOK'
    <2>1. t \in 0..MaxTime
      BY TimeAssumption
    <2>2. asOf' \in [Graphs -> [Node -> 0..MaxTime]]
      BY <1>2, <2>1 DEF WriteNode
    <2> QED
      BY <1>2, <2>2 DEF WriteNode, Catalog!PutNode, fileVars, requestVars
  <1>3. ASSUME NEW e \in Edge, WriteEdge(e) PROVE StoreTypeOK'
    BY <1>3 DEF WriteEdge, Catalog!PutEdge, fileVars, requestVars
  <1>4. ASSUME NEW g \in Graphs, ResetDomain(g) PROVE StoreTypeOK'
    <2>1. asOf' \in [Graphs -> [Node -> 0..MaxTime]]
      BY <1>4, TimeAssumption DEF ResetDomain
    <2> QED
      BY <1>4, <2>1 DEF ResetDomain, Catalog!ClearGraph, fileVars, requestVars
  <1>5. ASSUME NEW c \in Components, WriteMasterRow(c) PROVE StoreTypeOK'
    BY <1>5 DEF WriteMasterRow, Catalog!PutRow, requestVars
  <1>6. CASE UnlinkMaster
    BY <1>6 DEF UnlinkMaster, Catalog!DropMaster, ConnRows, requestVars
  <1>7. CASE StartServer
    BY <1>7 DEF StartServer, catalogVars, requestVars
  <1>8. CASE StopServer
    BY <1>8 DEF StopServer, catalogVars
  <1>9. CASE UNCHANGED vars
    BY <1>9 DEF vars, catalogVars, fileVars
  <1>10. CASE LoaderStep
    BY <1>10, <1>2, <1>3, <1>4, <1>5, <1>6, LoadedAssumption DEF LoaderStep
  <1> QED
    BY <1>1, <1>7, <1>8, <1>9, <1>10 DEF Next

\* Steps that are no request's leave the answers alone, or blank some.
LEMMA OtherSteps ==
  ASSUME [Next]_vars, ~(\E r \in Requests : RequestStep(r))
  PROVE  UNCHANGED <<pc, answerVars>> \/ Abandon(Shared)
  <1>1. CASE LoaderStep
    BY <1>1, LoadersOnlyLoad
  <1>2. CASE StartServer
    BY <1>2 DEF StartServer, requestVars
  <1>3. CASE StopServer
    BY <1>3 DEF StopServer
  <1>4. CASE UNCHANGED vars
    BY <1>4 DEF vars
  <1> QED
    BY <1>1, <1>2, <1>3, <1>4 DEF Next

LEMMA QueryType ==
  ASSUME TypeOK, [Next]_vars
  PROVE  QueryTypeOK'
  <1> USE DEF TypeOK, QueryTypeOK
  <1>1. ASSUME NEW r \in Requests, RequestStep(r) PROVE QueryTypeOK'
    <2> DEFINE none == [g \in {"sourcing", "ebom"} |-> 0]
    <2>0. none \in [{"sourcing", "ebom"} -> 0..MaxTime]
      BY TimeAssumption
    <2>1. ASSUME NEW s \in Suppliers, Begin(r, s) PROVE QueryTypeOK'
      BY <2>1, <2>0 DEF Begin, Blank, Go, Steps
    <2>2. CASE QuerySourcing(r)
      <3>1. SuppliedComponents(supplier[r]) \subseteq Components
        BY QueryTypes
      <3> QED
        BY <2>2, <3>1 DEF QuerySourcing, Go, Steps
    <2>3. CASE QueryEbom(r)
      <3>1. PICK s : s \in Suppliers
        BY DEF QueryTypeOK
      <3>2. LinksFrom("USED_IN", sourcing[r]) \subseteq Edge
        BY <3>1, QueryTypes
      <3> QED
        BY <2>3, <3>2 DEF QueryEbom, Go, Steps
    <2>4. CASE SnapshotSourcing(r)
      <3>1. PICK t \in 0..MaxTime : snapshot' = [snapshot EXCEPT ![r]["sourcing"] = t]
        BY <2>4 DEF SnapshotSourcing, ReadAsOf
      <3>2. snapshot' \in [Requests -> [{"sourcing", "ebom"} -> 0..MaxTime]]
        BY <3>1
      <3> QED
        BY <2>4, <3>2 DEF SnapshotSourcing, ReadAsOf, Go, Steps
    <2>5. CASE SnapshotEbom(r)
      <3>1. PICK t \in 0..MaxTime : snapshot' = [snapshot EXCEPT ![r]["ebom"] = t]
        BY <2>5 DEF SnapshotEbom, ReadAsOf
      <3>2. snapshot' \in [Requests -> [{"sourcing", "ebom"} -> 0..MaxTime]]
        BY <3>1
      <3> QED
        BY <2>5, <3>2 DEF SnapshotEbom, ReadAsOf, Go, Steps
    <2>6. ASSUME NEW present, Judge(r, present) PROVE QueryTypeOK'
      <3>1. passed' \in [Requests -> BOOLEAN]
        BY <2>6 DEF Judge
      <3>2. Skewed(snapshot[r].sourcing, snapshot[r].ebom) \in BOOLEAN
        BY DEF Skewed
      <3>3. warned' \in [Requests -> BOOLEAN]
        BY <2>6, <3>2 DEF Judge
      <3> QED
        BY <2>6, <3>1, <3>3 DEF Judge, Go, Steps
    <2>7. CASE GateExecute(r)
      BY <2>7 DEF GateExecute, answerVars, Go, Steps
    <2>8. CASE ViewNodes(r)
      BY <2>8 DEF ViewNodes, NextRead, Go, Steps
    <2>9. CASE ViewEdges(r)
      BY <2>9 DEF ViewEdges, NextRead, Go, Steps
    <2>10. CASE QueryRouting(r)
      BY <2>10 DEF QueryRouting, Go, Steps
    <2>11. CASE CountSuppliers(r)
      BY <2>11 DEF CountSuppliers, Go, Steps
    <2>12. CASE RequestFails(r)
      BY <2>12, <2>0 DEF RequestFails, Abandon, Blank, Steps
    <2>13. GateUnchecked(r) \/ GateFetch(r) \/ GateReadOnly(r) => QueryTypeOK'
      BY <2>6 DEF GateUnchecked, GateFetch, GateReadOnly
    <2> QED
      BY <1>1, <2>1, <2>2, <2>3, <2>4, <2>5, <2>7, <2>8, <2>9, <2>10, <2>11, <2>12, <2>13
         DEF RequestStep
  <1>2. CASE Abandon(Shared)
    <2>1. [g \in {"sourcing", "ebom"} |-> 0] \in [{"sourcing", "ebom"} -> 0..MaxTime]
      BY TimeAssumption
    <2> QED
      BY <1>2, <2>1 DEF Abandon, Blank, Steps
  <1>3. CASE UNCHANGED <<pc, answerVars>>
    BY <1>3 DEF answerVars
  <1> QED
    BY <1>1, <1>2, <1>3, OtherSteps

LEMMA ViewType ==
  ASSUME TypeOK, [Next]_vars
  PROVE  ViewTypeOK'
  <1> USE DEF TypeOK, ViewTypeOK
  <1>0. DomainOrder \in Seq(Graphs) /\ <<>> \in Seq(Graphs)
    BY DEF DomainOrder, Graphs
  <1>1. ASSUME NEW r \in Requests, RequestStep(r) PROVE ViewTypeOK'
    <2>1. ASSUME NEW s \in Suppliers, Begin(r, s) PROVE ViewTypeOK'
      BY <2>1, <1>0 DEF Begin, Blank
    <2>2. CASE QuerySourcing(r)
      BY <2>2 DEF QuerySourcing
    <2>3. CASE QueryEbom(r)
      BY <2>3 DEF QueryEbom
    <2>4. CASE SnapshotSourcing(r)
      BY <2>4 DEF SnapshotSourcing, ReadAsOf
    <2>5. CASE SnapshotEbom(r)
      BY <2>5 DEF SnapshotEbom, ReadAsOf
    <2>6. ASSUME NEW present, Judge(r, present) PROVE ViewTypeOK'
      BY <2>6, <1>0 DEF Judge
    <2>7. CASE GateExecute(r)
      BY <2>7 DEF GateExecute, answerVars
    <2>8. ASSUME NEW here, NEW next, NextRead(r, here, next)
          PROVE  toRead' \in [Requests -> Seq(Graphs)]
      <3>1. CASE Len(toRead[r]) > 1
        <4>1. toRead[r] \in Seq(Graphs) /\ toRead[r] # <<>>
          BY <3>1
        <4>2. Tail(toRead[r]) \in Seq(Graphs)
          BY <4>1
        <4> QED
          BY <2>8, <3>1, <4>2 DEF NextRead
      <3>2. CASE ~(Len(toRead[r]) > 1)
        BY <2>8, <3>2, <1>0 DEF NextRead
      <3> QED
        BY <3>1, <3>2
    <2>9. CASE ViewNodes(r)
      BY <2>9, <2>8 DEF ViewNodes
    <2>10. CASE ViewEdges(r)
      BY <2>10, <2>8 DEF ViewEdges, StoreTypeOK
    <2>11. CASE QueryRouting(r)
      <3>1. PICK s : s \in Suppliers
        BY DEF QueryTypeOK
      <3>2. LinksFrom("INPUT_OF", sourcing[r]) \subseteq Edge
        BY <3>1, QueryTypes
      <3> QED
        BY <2>11, <3>2 DEF QueryRouting
    <2>12. CASE CountSuppliers(r)
      BY <2>12 DEF CountSuppliers, QueryTypeOK
    <2>13. CASE RequestFails(r)
      BY <2>13, <1>0 DEF RequestFails, Abandon, Blank
    <2>14. GateUnchecked(r) \/ GateFetch(r) \/ GateReadOnly(r) => ViewTypeOK'
      BY <2>6 DEF GateUnchecked, GateFetch, GateReadOnly
    <2> QED
      BY <1>1, <2>1, <2>2, <2>3, <2>4, <2>5, <2>7, <2>9, <2>10, <2>11, <2>12, <2>13, <2>14
         DEF RequestStep
  <1>2. CASE Abandon(Shared)
    BY <1>2, <1>0 DEF Abandon, Blank
  <1>3. CASE UNCHANGED <<pc, answerVars>>
    BY <1>3 DEF answerVars
  <1> QED
    BY <1>1, <1>2, <1>3, OtherSteps

LEMMA HistoryType ==
  ASSUME TypeOK, [Next]_vars
  PROVE  HistoryTypeOK'
  <1> USE DEF TypeOK, HistoryTypeOK
  <1>1. ASSUME NEW r \in Requests, RequestStep(r) PROVE HistoryTypeOK'
    <2>1. ASSUME NEW s \in Suppliers, Begin(r, s) PROVE HistoryTypeOK'
      <3>1. JoinNow(s) \subseteq JoinRow
        BY QueryTypes
      <3> QED
        BY <2>1, <3>1 DEF Begin
    <2>2. CASE RequestFails(r)
      BY <2>2 DEF RequestFails, Abandon
    <2>3. ~(\E s \in Suppliers : Begin(r, s)) /\ ~RequestFails(r)
            => UNCHANGED <<joinAtStart, since>>
      BY <1>1 DEF RequestStep, QuerySourcing, QueryEbom, SnapshotSourcing, SnapshotEbom,
         ReadAsOf, GateUnchecked, GateExecute, GateFetch, GateReadOnly, Judge,
         ViewNodes, ViewEdges, QueryRouting, CountSuppliers, storeVars, answerVars
    <2> QED
      BY <2>1, <2>2, <2>3
  <1>2. CASE LoaderStep
    <2>1. Disturbed \/ Cleared
      BY <1>2 DEF LoaderStep, WriteNode, WriteEdge, ResetDomain, WriteMasterRow, UnlinkMaster
    <2>2. UNCHANGED joinAtStart
      BY <1>2, LoadersOnlyLoad DEF answerVars
    <2> QED
      BY <2>1, <2>2 DEF Disturbed, Cleared
  <1>3. CASE StartServer
    BY <1>3 DEF StartServer, requestVars, answerVars
  <1>4. CASE StopServer
    BY <1>4 DEF StopServer, Abandon
  <1>5. CASE UNCHANGED vars
    BY <1>5 DEF vars, answerVars
  <1> QED
    BY <1>1, <1>2, <1>3, <1>4, <1>5 DEF Next

\* In every reachable state each variable of the join holds what its code
\* declares: rows are rows, steps are steps, whatever loaders do.
THEOREM TypeCorrect == Spec => []TypeOK
  <1>1. TypeOK /\ [Next]_vars => TypeOK'
    BY StoreType, QueryType, ViewType, HistoryType DEF TypeOK
  <1> QED
    BY <1>1, InitType, PTL DEF Spec

------------------------------------------------------------------------------
(* The master gate *)

\* What MasterGateSound rests on: whatever is in the result set was read from
\* the file the connection has open, whose rows do not change while it is
\* open, and a request has passed only if its components were found there.
GateInv ==
  /\ result \subseteq ConnRows
  /\ conn = "closed" => result = {}
  /\ \A r \in Shared :
       /\ conn = "closed" => pc[r] = "idle"
       /\ passed[r] => pc[r] # "idle" /\ sourcing[r] \subseteq ConnRows
       /\ pc[r] = "sourcing" => ~passed[r]

\* Nobody writes to the file of an open connection, named or not.
LEMMA ConnRowsStable ==
  ASSUME TypeOK, [Next]_vars, ~StartServer, ~StopServer
  PROVE  UNCHANGED <<ConnRows>> /\ (conn = "closed") = (conn' = "closed")
  <1>1. ASSUME NEW r \in Requests, RequestStep(r)
        PROVE  UNCHANGED <<ConnRows>> /\ (conn = "closed") = (conn' = "closed")
    BY <1>1, RequestsOnlyRead DEF ConnRows
  <1>2. CASE LoaderStep
    BY <1>2 DEF LoaderStep, WriteNode, WriteEdge, ResetDomain, WriteMasterRow, UnlinkMaster,
         Catalog!PutNode, Catalog!PutEdge, Catalog!ClearGraph, Catalog!PutRow,
         Catalog!DropMaster, fileVars, ConnRows
  <1>3. CASE UNCHANGED vars
    BY <1>3 DEF vars, catalogVars, fileVars, ConnRows
  <1> QED
    BY <1>1, <1>2, <1>3 DEF Next

LEMMA NextGate ==
  ASSUME TypeOK, GateInv, [Next]_vars
  PROVE  GateInv'
  <1> USE SharedAssumption DEF TypeOK, QueryTypeOK
  <1>1. ASSUME NEW r \in Requests, RequestStep(r) PROVE GateInv'
    <2>1. UNCHANGED <<conn, master, unlinkedRows>> /\ ConnRows' = ConnRows
      BY <1>1, RequestsOnlyRead DEF ConnRows
    <2>2. ASSUME NEW s \in Suppliers, Begin(r, s) PROVE GateInv'
      BY <2>1, <2>2 DEF GateInv, Begin, Blank, Go
    <2>3. CASE QuerySourcing(r)
      BY <2>1, <2>3 DEF GateInv, QuerySourcing, At, Go
    <2>4. CASE QueryEbom(r) \/ SnapshotSourcing(r) \/ SnapshotEbom(r)
      BY <2>1, <2>4 DEF GateInv, QueryEbom, SnapshotSourcing, SnapshotEbom, ReadAsOf, At, Go
    <2>5. CASE GateUnchecked(r)
      BY <2>1, <2>5 DEF GateInv, GateUnchecked, Judge, At, Go
    <2>6. CASE GateExecute(r)
      BY <2>1, <2>6 DEF GateInv, GateExecute, answerVars, At, Go
    <2>7. CASE GateFetch(r)
      BY <2>1, <2>7 DEF GateInv, GateFetch, Judge, At, Go
    <2>8. CASE GateReadOnly(r)
      BY <2>1, <2>8 DEF GateInv, GateReadOnly, Judge, At, Go
    <2>9. CASE ViewNodes(r) \/ ViewEdges(r)
      BY <2>1, <2>9 DEF GateInv, ViewNodes, ViewEdges, NextRead, At, Go
    <2>10. CASE QueryRouting(r) \/ CountSuppliers(r)
      BY <2>1, <2>10 DEF GateInv, QueryRouting, CountSuppliers, At, Go
    <2>11. CASE RequestFails(r)
      BY <2>1, <2>11 DEF GateInv, RequestFails, Abandon, Blank
    <2> QED
      BY <1>1, <2>2, <2>3, <2>4, <2>5, <2>6, <2>7, <2>8, <2>9, <2>10, <2>11 DEF RequestStep
  <1>3. CASE StartServer
    BY <1>3 DEF GateInv, StartServer, requestVars, answerVars
  <1>4. CASE StopServer
    BY <1>4 DEF GateInv, StopServer, Abandon, Blank
  <1>2. CASE LoaderStep
    <2>1. UNCHANGED <<result, pc, passed, sourcing>>
      BY <1>2, LoadersOnlyLoad DEF answerVars
    <2> QED
      BY <2>1, <1>3, <1>4, ConnRowsStable DEF GateInv
  <1>5. CASE UNCHANGED vars
    BY <1>5, <1>3, <1>4, ConnRowsStable DEF GateInv, vars, answerVars
  <1> QED
    BY <1>1, <1>2, <1>3, <1>4, <1>5 DEF Next

\* No interleaving of requests on the server's connection, no unlinking and no
\* restart lets the gate pass a component that the open master does not know.
THEOREM GateSound == Spec => []MasterGateSound
  <1>1. Init => GateInv
    BY SharedAssumption DEF Init, GateInv
  <1>2. GateInv => MasterGateSound
    BY DEF GateInv, MasterGateSound
  <1> QED
    BY <1>1, <1>2, NextGate, TypeCorrect, PTL DEF Spec

------------------------------------------------------------------------------
(* The joined rows *)

\* What RowsBracketed rests on, at each stage of request r: what the queries
\* returned is still so, and the rows of the first join have not been missed.
BracketedAt(r) ==
  /\ joinAtStart[r] \subseteq JoinNow(supplier[r])
  /\ pc[r] # "sourcing" =>
       /\ sourcing[r] \subseteq SuppliedComponents(supplier[r])
       /\ \A row \in joinAtStart[r] : row.component \in sourcing[r]
  /\ pc[r] \notin {"sourcing", "ebom"} =>
       /\ ebom[r] \subseteq LinksFrom("USED_IN", sourcing[r])
       /\ joinAtStart[r] \subseteq MergeRows(supplier[r], ebom[r])

BracketInv ==
  \A r \in Requests : (pc[r] # "idle" /\ since[r] # "cleared") => BracketedAt(r)

\* Relationships go only by a reset, and every request notices.
LEMMA GrowsUnlessCleared ==
  ASSUME TypeOK, [Next]_vars, NEW r \in Requests, pc'[r] # "idle", since'[r] # "cleared"
  PROVE  edges \subseteq edges'
  <1>1. ASSUME NEW q \in Requests, RequestStep(q) PROVE edges \subseteq edges'
    BY <1>1, RequestsOnlyRead
  <1>2. CASE LoaderStep
    <2>1. pc' = pc
      BY <1>2, LoadersOnlyLoad
    <2>2. ~(\E g \in Cleaned : ResetDomain(g))
      BY <2>1 DEF ResetDomain, Cleared, TypeOK, HistoryTypeOK
    <2> QED
      BY <1>2, <2>2 DEF LoaderStep, WriteNode, WriteEdge, WriteMasterRow, UnlinkMaster,
         Catalog!PutNode, Catalog!PutEdge, Catalog!PutRow, Catalog!DropMaster
  <1>3. CASE StartServer \/ StopServer \/ UNCHANGED vars
    BY <1>3 DEF StartServer, StopServer, vars, catalogVars
  <1> QED
    BY <1>1, <1>2, <1>3 DEF Next

\* A step that leaves request r alone leaves it bracketed.
LEMMA BracketKept ==
  ASSUME TypeOK, BracketInv, [Next]_vars, NEW r \in Requests,
         pc'[r] = pc[r], supplier'[r] = supplier[r], sourcing'[r] = sourcing[r],
         ebom'[r] = ebom[r], joinAtStart'[r] = joinAtStart[r],
         since'[r] = since[r] \/ since'[r] \in {"disturbed", "cleared"},
         since[r] = "cleared" => since'[r] = "cleared",
         pc'[r] # "idle", since'[r] # "cleared"
  PROVE  BracketedAt(r)'
  <1>1. edges \subseteq edges'
    BY GrowsUnlessCleared
  <1>2. BracketedAt(r)
    BY DEF BracketInv
  <1>3. SuppliedComponents(supplier[r]) \subseteq SuppliedComponents(supplier[r])'
    BY <1>1 DEF SuppliedComponents, Links
  <1>4. LinksFrom("USED_IN", sourcing[r]) \subseteq LinksFrom("USED_IN", sourcing[r])'
    BY <1>1 DEF LinksFrom, Links
  <1>5. JoinNow(supplier[r]) \subseteq JoinNow(supplier[r])'
    <2>1. LinksFrom("USED_IN", SuppliedComponents(supplier[r]))
            \subseteq LinksFrom("USED_IN", SuppliedComponents(supplier[r]))'
      BY <1>1, <1>3 DEF LinksFrom, Links
    <2> QED
      BY <2>1 DEF JoinNow, MergeRows
  <1>6. MergeRows(supplier[r], ebom[r])' = MergeRows(supplier[r], ebom[r])
    BY DEF MergeRows
  <1>7. (joinAtStart[r] \subseteq JoinNow(supplier[r]))'
    BY <1>2, <1>5 DEF BracketedAt
  <1>8. (pc[r] # "sourcing" =>
           /\ sourcing[r] \subseteq SuppliedComponents(supplier[r])
           /\ \A row \in joinAtStart[r] : row.component \in sourcing[r])'
    BY <1>2, <1>3 DEF BracketedAt
  <1>9. (pc[r] \notin {"sourcing", "ebom"} => ebom[r] \subseteq LinksFrom("USED_IN", sourcing[r]))'
    BY <1>2, <1>4 DEF BracketedAt
  <1>10. (pc[r] \notin {"sourcing", "ebom"} =>
            joinAtStart[r] \subseteq MergeRows(supplier[r], ebom[r]))'
    BY <1>2, <1>6 DEF BracketedAt
  <1> QED
    BY <1>7, <1>8, <1>9, <1>10 DEF BracketedAt

\* A request touches its own answer only.
LEMMA OthersAlone ==
  ASSUME TypeOK, NEW q \in Requests, RequestStep(q), NEW r \in Requests \ {q}
  PROVE  /\ pc'[r] = pc[r] /\ supplier'[r] = supplier[r] /\ sourcing'[r] = sourcing[r]
         /\ ebom'[r] = ebom[r] /\ joinAtStart'[r] = joinAtStart[r] /\ since'[r] = since[r]
         /\ snapshot'[r] = snapshot[r] /\ warned'[r] = warned[r]
  <1> USE DEF TypeOK, QueryTypeOK, HistoryTypeOK, Go, storeVars, answerVars
  <1> DEFINE Alone ==
        /\ pc'[r] = pc[r] /\ supplier'[r] = supplier[r] /\ sourcing'[r] = sourcing[r]
        /\ ebom'[r] = ebom[r] /\ joinAtStart'[r] = joinAtStart[r] /\ since'[r] = since[r]
        /\ snapshot'[r] = snapshot[r] /\ warned'[r] = warned[r]
  <1>1. ASSUME NEW s \in Suppliers, Begin(q, s) PROVE Alone
    BY <1>1 DEF Begin, Blank
  <1>2. CASE QuerySourcing(q) \/ QueryEbom(q) \/ SnapshotSourcing(q) \/ SnapshotEbom(q)
    BY <1>2 DEF QuerySourcing, QueryEbom, SnapshotSourcing, SnapshotEbom, ReadAsOf
  <1>3. CASE GateUnchecked(q) \/ GateExecute(q) \/ GateFetch(q) \/ GateReadOnly(q)
    BY <1>3 DEF GateUnchecked, GateExecute, GateFetch, GateReadOnly, Judge
  <1>4. CASE ViewNodes(q) \/ ViewEdges(q) \/ QueryRouting(q) \/ CountSuppliers(q)
    BY <1>4 DEF ViewNodes, ViewEdges, NextRead, QueryRouting, CountSuppliers
  <1>5. CASE RequestFails(q)
    BY <1>5 DEF RequestFails, Abandon, Blank
  <1> QED
    BY <1>1, <1>2, <1>3, <1>4, <1>5 DEF RequestStep

\* The two queries of the join bracket it, each at its own moment.
LEMMA NextBracket ==
  ASSUME TypeOK, BracketInv, [Next]_vars
  PROVE  BracketInv'
  <1> USE DEF TypeOK, QueryTypeOK, HistoryTypeOK
  <1> SUFFICES ASSUME NEW r \in Requests, pc'[r] # "idle", since'[r] # "cleared"
               PROVE  BracketedAt(r)'
    BY DEF BracketInv
  <1>1. CASE RequestStep(r)
    <2>0. edges' = edges
      BY <1>1, RequestsOnlyRead
    <2>1. ASSUME NEW s \in Suppliers, Begin(r, s) PROVE BracketedAt(r)'
      <3>1. pc'[r] = "sourcing" /\ supplier'[r] = s /\ joinAtStart'[r] = JoinNow(s)
        BY <2>1 DEF Begin, Go
      <3>2. JoinNow(supplier[r])' = JoinNow(s)
        BY <2>0, <3>1 DEF JoinNow, MergeRows, LinksFrom, SuppliedComponents, Links
      <3> QED
        BY <3>1, <3>2 DEF BracketedAt
    <2>2. CASE QuerySourcing(r)
      <3>1. /\ pc[r] = "sourcing" /\ pc'[r] = "ebom" /\ UNCHANGED <<supplier, joinAtStart, since>>
            /\ sourcing'[r] = SuppliedComponents(supplier[r])
        BY <2>2 DEF QuerySourcing, At, Go, storeVars
      <3>2. joinAtStart[r] \subseteq JoinNow(supplier[r])
        BY <3>1 DEF BracketInv, BracketedAt
      <3>3. \A row \in JoinNow(supplier[r]) : row.component \in SuppliedComponents(supplier[r])
        BY DEF JoinNow, MergeRows, LinksFrom
      <3>4. /\ SuppliedComponents(supplier[r])' = SuppliedComponents(supplier[r])
            /\ JoinNow(supplier[r])' = JoinNow(supplier[r])
        BY <2>0, <3>1 DEF JoinNow, MergeRows, LinksFrom, SuppliedComponents, Links
      <3> QED
        BY <3>1, <3>2, <3>3, <3>4 DEF BracketedAt
    <2>3. CASE QueryEbom(r)
      <3>1. /\ pc[r] = "ebom" /\ UNCHANGED <<supplier, joinAtStart, since, sourcing>>
            /\ ebom'[r] = LinksFrom("USED_IN", sourcing[r])
        BY <2>3 DEF QueryEbom, At, storeVars
      <3>2. BracketedAt(r)
        BY <3>1 DEF BracketInv
      <3>3. joinAtStart[r] \subseteq MergeRows(supplier[r], LinksFrom("USED_IN", sourcing[r]))
        <4> SUFFICES ASSUME NEW row \in joinAtStart[r]
                     PROVE  row \in MergeRows(supplier[r], LinksFrom("USED_IN", sourcing[r]))
          OBVIOUS
        <4>1. row \in JoinNow(supplier[r]) /\ row.component \in sourcing[r]
          BY <3>1, <3>2 DEF BracketedAt
        <4>2. PICK e \in LinksFrom("USED_IN", SuppliedComponents(supplier[r])) :
                row = [supplier |-> supplier[r], component |-> e.source, product |-> e.target]
          BY <4>1 DEF JoinNow, MergeRows
        <4>3. e.source \in sourcing[r]
          BY <4>1, <4>2
        <4> QED
          BY <4>2, <4>3 DEF MergeRows, LinksFrom
      <3>4. /\ SuppliedComponents(supplier[r])' = SuppliedComponents(supplier[r])
            /\ JoinNow(supplier[r])' = JoinNow(supplier[r])
            /\ LinksFrom("USED_IN", sourcing[r])' = LinksFrom("USED_IN", sourcing[r])
        BY <2>0, <3>1 DEF JoinNow, MergeRows, LinksFrom, SuppliedComponents, Links
      <3>5. MergeRows(supplier[r], ebom[r])'
              = MergeRows(supplier[r], LinksFrom("USED_IN", sourcing[r]))
        BY <3>1 DEF MergeRows
      <3> QED
        BY <3>1, <3>2, <3>3, <3>4, <3>5 DEF BracketedAt
    <2>4. CASE RequestFails(r)
      BY <2>4 DEF RequestFails, Abandon
    <2>5. ASSUME ~(\E s \in Suppliers : Begin(r, s)), ~QuerySourcing(r), ~QueryEbom(r),
                 ~RequestFails(r)
          PROVE  BracketedAt(r)'
      <3>1. /\ pc[r] \notin {"idle", "sourcing", "ebom"}
            /\ UNCHANGED <<supplier, sourcing, ebom, joinAtStart, since>>
        BY <1>1, <2>5 DEF RequestStep, SnapshotSourcing, SnapshotEbom, ReadAsOf,
           GateUnchecked, GateExecute, GateFetch, GateReadOnly, Judge, ViewNodes, ViewEdges,
           QueryRouting, CountSuppliers, At, storeVars, answerVars
      <3>2. BracketedAt(r)
        BY <3>1 DEF BracketInv
      <3>3. /\ SuppliedComponents(supplier[r])' = SuppliedComponents(supplier[r])
            /\ JoinNow(supplier[r])' = JoinNow(supplier[r])
            /\ LinksFrom("USED_IN", sourcing[r])' = LinksFrom("USED_IN", sourcing[r])
            /\ MergeRows(supplier[r], ebom[r])' = MergeRows(supplier[r], ebom[r])
        BY <2>0, <3>1 DEF JoinNow, MergeRows, LinksFrom, SuppliedComponents, Links
      <3> QED
        BY <3>1, <3>2, <3>3 DEF BracketedAt
    <2> QED
      BY <1>1, <2>1, <2>2, <2>3, <2>4, <2>5
  <1>2. ASSUME NEW q \in Requests \ {r}, RequestStep(q) PROVE BracketedAt(r)'
    BY <1>2, OthersAlone, BracketKept
  <1>3. CASE LoaderStep
    <2>1. UNCHANGED <<pc, supplier, sourcing, ebom, joinAtStart>>
      BY <1>3, LoadersOnlyLoad DEF answerVars
    <2>2. /\ since'[r] = since[r] \/ since'[r] \in {"disturbed", "cleared"}
          /\ since[r] = "cleared" => since'[r] = "cleared"
      BY <1>3 DEF LoaderStep, WriteNode, WriteEdge, ResetDomain, WriteMasterRow,
         UnlinkMaster, Disturbed, Cleared
    <2> QED
      BY <2>1, <2>2, BracketKept
  <1>4. CASE StartServer \/ UNCHANGED vars
    BY <1>4, BracketKept DEF StartServer, vars, requestVars, answerVars
  <1>5. CASE StopServer
    <2>1. r \notin Shared
      BY <1>5 DEF StopServer, Abandon
    <2> QED
      BY <1>5, <2>1, BracketKept DEF StopServer, Abandon, Blank
  <1> QED
    BY <1>1, <1>2, <1>3, <1>4, <1>5 DEF Next

\* The answer to a request lies between the join when it came and the join
\* now, for any number of requests and any data, as long as loaders only add.
THEOREM JoinBracketed == Spec => []RowsBracketed
  <1>1. Init => BracketInv
    BY DEF Init, BracketInv
  <1>2. BracketInv => RowsBracketed
    <2> SUFFICES ASSUME BracketInv, NEW r \in Requests,
                        Answered(r), passed[r], since[r] # "cleared"
                 PROVE  /\ joinAtStart[r] \subseteq FederatedRows(r)
                        /\ FederatedRows(r) \subseteq JoinNow(supplier[r])
      BY DEF RowsBracketed
    <2>1. BracketedAt(r) /\ pc[r] \notin {"sourcing", "ebom"}
      BY DEF BracketInv, Answered
    <2>2. LinksFrom("USED_IN", sourcing[r])
            \subseteq LinksFrom("USED_IN", SuppliedComponents(supplier[r]))
      BY <2>1 DEF BracketedAt, LinksFrom
    <2>3. MergeRows(supplier[r], ebom[r]) \subseteq JoinNow(supplier[r])
      BY <2>1, <2>2 DEF BracketedAt, JoinNow, MergeRows
    <2> QED
      BY <2>1, <2>3 DEF BracketedAt, FederatedRows
  <1> QED
    BY <1>1, <1>2, NextBracket, TypeCorrect, PTL DEF Spec

------------------------------------------------------------------------------
(* The stores *)

\* The stores are finite, and what a relationship connects is there.
CatalogInv ==
  /\ IsFiniteSet(edges)
  /\ \A e \in edges : {<<GraphOf(e), e.source>>, <<GraphOf(e), e.target>>} \subseteq nodes

LEMMA NextCatalog ==
  ASSUME TypeOK, CatalogInv, [Next]_vars
  PROVE  CatalogInv'
  <1>1. ASSUME UNCHANGED <<nodes, edges>> PROVE CatalogInv'
    BY <1>1 DEF CatalogInv
  <1>2. ASSUME NEW g \in Graphs, NEW n \in Node, NEW t \in 1..MaxTime, WriteNode(g, n, t)
        PROVE  CatalogInv'
    BY <1>2 DEF CatalogInv, WriteNode, Catalog!PutNode
  <1>3. ASSUME NEW e \in Edge, WriteEdge(e) PROVE CatalogInv'
    <2>1. edges' = edges \cup {e} /\ nodes' = nodes
          /\ {<<GraphOf(e), e.source>>, <<GraphOf(e), e.target>>} \subseteq nodes
      BY <1>3 DEF WriteEdge, Catalog!PutEdge, Catalog!GraphOf, GraphOf, Catalog!EDGE_TO_GRAPH,
         EDGE_TO_GRAPH
    <2>2. IsFiniteSet(edges')
      BY <2>1, FS_AddElement DEF CatalogInv
    <2> QED
      BY <2>1, <2>2 DEF CatalogInv
  <1>4. ASSUME NEW g \in Graphs, ResetDomain(g) PROVE CatalogInv'
    <2>1. /\ nodes' = {gn \in nodes : gn[1] # g}
          /\ edges' = {e \in edges : GraphOf(e) # g}
      BY <1>4 DEF ResetDomain, Catalog!ClearGraph, Catalog!GraphOf, GraphOf,
         Catalog!EDGE_TO_GRAPH, EDGE_TO_GRAPH
    <2>2. IsFiniteSet(edges')
      <3>1. edges' \in SUBSET edges
        BY <2>1
      <3> QED
        BY <3>1, FS_Subset DEF CatalogInv
    <2> QED
      BY <2>1, <2>2 DEF CatalogInv
  <1>5. ASSUME NEW c \in Components, WriteMasterRow(c) PROVE CatalogInv'
    BY <1>1, <1>5 DEF WriteMasterRow, Catalog!PutRow
  <1>6. CASE UnlinkMaster
    BY <1>1, <1>6 DEF UnlinkMaster, Catalog!DropMaster
  <1>7. CASE LoaderStep
    BY <1>2, <1>3, <1>4, <1>5, <1>6, <1>7, LoadedAssumption DEF LoaderStep
  <1>8. CASE StartServer \/ StopServer \/ UNCHANGED vars
    BY <1>1, <1>8 DEF StartServer, StopServer, vars, catalogVars
  <1>9. ASSUME NEW r \in Requests, RequestStep(r) PROVE CatalogInv'
    BY <1>1, <1>9, RequestsOnlyRead
  <1> QED
    BY <1>7, <1>8, <1>9 DEF Next

------------------------------------------------------------------------------
(* The rest of the answer *)

\* The links behind the rows: what the ebom query returned, and that the
\* supplier supplies their components.
SupplyLink(r, c) == [type |-> "SUPPLIED_BY", source |-> c, target |-> supplier[r]]
RowLinks(r) == ebom[r] \cup {SupplyLink(r, e.source) : e \in ebom[r]}

\* The graphs that the view has yet to read.
Unread(todo) ==
  IF todo = <<"sourcing">> THEN {"sourcing"}
  ELSE IF todo = <<"routing", "sourcing">> THEN {"routing", "sourcing"} ELSE Graphs

Todos == {<<"sourcing">>, <<"routing", "sourcing">>, DomainOrder}

NodesRead(r, g) == pc[r] = "nodes" => g \notin Unread(toRead[r])
EdgesRead(r, g) == pc[r] = "edges" => g \notin Unread(toRead[r])

\* As far as the view has read, it has the links of the rows and their ends.
ViewAt(r) ==
  /\ pc[r] \in {"nodes", "edges"} => toRead[r] \in Todos
  /\ pc[r] \in {"nodes", "edges", "routing", "counts", "done"} =>
       \A e \in RowLinks(r) :
         NodesRead(r, GraphOf(e)) => {e.source, e.target} \subseteq viewNodes[r]
  /\ pc[r] \in {"edges", "routing", "counts", "done"} =>
       \A e \in RowLinks(r) : EdgesRead(r, GraphOf(e)) => e \in viewEdges[r]

\* What the last two queries returned.
ReportAt(r) ==
  /\ pc[r] \in {"counts", "done"} => routing[r] \subseteq LinksFrom("INPUT_OF", sourcing[r])
  /\ single[r] \subseteq sourcing[r]

AnswerInv ==
  \A r \in Requests :
    /\ pc[r] # "done" => single[r] = {}
    /\ (pc[r] # "idle" /\ since[r] # "cleared") =>
         /\ ReportAt(r)
         /\ passed[r] /\ ebom[r] # {} => ViewAt(r)

\* The links behind the rows stand, and so do their ends.
LEMMA RowLinksStand ==
  ASSUME TypeOK, CatalogInv, BracketInv, NEW r \in Requests,
         pc[r] \notin {"idle", "sourcing", "ebom"}, since[r] # "cleared"
  PROVE  \A e \in RowLinks(r) :
           /\ e \in edges /\ GraphOf(e) \in Graphs
           /\ e.source \in Node /\ <<GraphOf(e), e.source>> \in nodes
           /\ e.target \in Node /\ <<GraphOf(e), e.target>> \in nodes
  <1>1. BracketedAt(r)
    BY DEF BracketInv
  <1>2. edges \subseteq Edge
    BY DEF TypeOK, StoreTypeOK
  <1>3. ebom[r] \subseteq edges
    BY <1>1 DEF BracketedAt, LinksFrom, Links
  <1>4. ASSUME NEW e \in ebom[r] PROVE SupplyLink(r, e.source) \in edges
    <2>1. e.source \in SuppliedComponents(supplier[r])
      BY <1>1 DEF BracketedAt, LinksFrom
    <2>2. PICK l \in edges : l.type = "SUPPLIED_BY" /\ l.target = supplier[r] /\ l.source = e.source
      BY <2>1 DEF SuppliedComponents, Links
    <2>3. l = [type |-> l.type, source |-> l.source, target |-> l.target]
      BY <1>2, <2>2 DEF Edge
    <2> QED
      BY <2>2, <2>3 DEF SupplyLink
  <1>5. RowLinks(r) \subseteq edges
    BY <1>3, <1>4 DEF RowLinks
  <1>6. \A e \in edges : GraphOf(e) \in Graphs
    <2> SUFFICES ASSUME NEW e \in edges PROVE GraphOf(e) \in Graphs
      OBVIOUS
    <2>1. e.type \in EdgeTypes
      BY <1>2 DEF Edge
    <2> QED
      BY <2>1 DEF EdgeTypes, GraphOf, EDGE_TO_GRAPH, Graphs
  <1>7. \A e \in edges : e.source \in Node /\ e.target \in Node
    BY <1>2, EdgeEnds
  <1> QED
    BY <1>5, <1>6, <1>7 DEF CatalogInv

\* What another's step leaves alone in the answer to request r.
AnswerAlone(r) ==
  /\ pc'[r] = pc[r] /\ supplier'[r] = supplier[r] /\ sourcing'[r] = sourcing[r]
  /\ ebom'[r] = ebom[r] /\ passed'[r] = passed[r] /\ toRead'[r] = toRead[r]
  /\ viewNodes'[r] = viewNodes[r] /\ viewEdges'[r] = viewEdges[r]
  /\ routing'[r] = routing[r] /\ single'[r] = single[r]
  /\ since[r] = "cleared" => since'[r] = "cleared"

LEMMA OthersAnswerAlone ==
  ASSUME TypeOK, NEW q \in Requests, RequestStep(q), NEW r \in Requests \ {q}
  PROVE  AnswerAlone(r)
  <1> USE DEF TypeOK, QueryTypeOK, ViewTypeOK, HistoryTypeOK, Go, storeVars, answerVars,
              AnswerAlone
  <1>1. ASSUME NEW s \in Suppliers, Begin(q, s) PROVE AnswerAlone(r)
    BY <1>1 DEF Begin, Blank
  <1>2. CASE QuerySourcing(q) \/ QueryEbom(q) \/ SnapshotSourcing(q) \/ SnapshotEbom(q)
    BY <1>2 DEF QuerySourcing, QueryEbom, SnapshotSourcing, SnapshotEbom, ReadAsOf
  <1>3. CASE GateUnchecked(q) \/ GateExecute(q) \/ GateFetch(q) \/ GateReadOnly(q)
    BY <1>3 DEF GateUnchecked, GateExecute, GateFetch, GateReadOnly, Judge
  <1>4. CASE ViewNodes(q) \/ ViewEdges(q)
    BY <1>4 DEF ViewNodes, ViewEdges, NextRead
  <1>5. CASE QueryRouting(q) \/ CountSuppliers(q)
    BY <1>5 DEF QueryRouting, CountSuppliers
  <1>6. CASE RequestFails(q)
    BY <1>6 DEF RequestFails, Abandon, Blank
  <1> QED
    BY <1>1, <1>2, <1>3, <1>4, <1>5, <1>6 DEF RequestStep

\* An answer that is left alone stays as good as it was.
LEMMA AnswerKept ==
  ASSUME TypeOK, AnswerInv, [Next]_vars, NEW r \in Requests, AnswerAlone(r)
  PROVE  /\ pc'[r] # "done" => single'[r] = {}
         /\ (pc'[r] # "idle" /\ since'[r] # "cleared") =>
              ReportAt(r)' /\ (passed'[r] /\ ebom'[r] # {} => ViewAt(r)')
  <1>1. pc'[r] # "done" => single'[r] = {}
    BY DEF AnswerInv, AnswerAlone
  <1>2. ASSUME pc'[r] # "idle", since'[r] # "cleared"
        PROVE  ReportAt(r)' /\ (passed'[r] /\ ebom'[r] # {} => ViewAt(r)')
    <2>1. edges \subseteq edges'
      BY <1>2, GrowsUnlessCleared
    <2>2. ReportAt(r) /\ (passed[r] /\ ebom[r] # {} => ViewAt(r))
      BY <1>2 DEF AnswerInv, AnswerAlone
    <2>3. ReportAt(r)'
      BY <2>1, <2>2 DEF ReportAt, AnswerAlone, LinksFrom, Links
    <2>4. RowLinks(r)' = RowLinks(r)
      BY DEF RowLinks, SupplyLink, AnswerAlone
    <2>5. ASSUME passed'[r], ebom'[r] # {} PROVE ViewAt(r)'
      BY <2>2, <2>4, <2>5 DEF ViewAt, AnswerAlone, NodesRead, EdgesRead
    <2> QED
      BY <2>3, <2>5
  <1> QED
    BY <1>1, <1>2

LEMMA AllUnread == Unread(DomainOrder) = Graphs
  <1>1. Len(DomainOrder) = 3 /\ Len(<<"sourcing">>) = 1 /\ Len(<<"routing", "sourcing">>) = 2
    BY DEF DomainOrder
  <1>2. DomainOrder # <<"sourcing">> /\ DomainOrder # <<"routing", "sourcing">>
    BY <1>1
  <1> QED
    BY <1>2 DEF Unread

\* The graphs come in their order; nothing is left after the last.
LEMMA Readings ==
  ASSUME TypeOK, NEW r \in Requests, NEW here, NEW next, toRead[r] \in Todos,
         NextRead(r, here, next)
  PROVE  /\ Unread(toRead[r]) \subseteq Graphs
         /\ \/ /\ pc'[r] = here /\ toRead'[r] \in Todos
               /\ Unread(toRead[r]) = Unread(toRead'[r]) \cup {Head(toRead[r])}
            \/ /\ pc'[r] = next /\ Unread(toRead[r]) = {Head(toRead[r])}
               /\ next = "edges" => toRead'[r] = DomainOrder
  <1> USE DEF TypeOK, QueryTypeOK, ViewTypeOK, Go, NextRead
  <1>1. CASE toRead[r] = <<"sourcing">>
    <2>1. Len(toRead[r]) = 1 /\ Head(toRead[r]) = "sourcing"
      BY <1>1
    <2>2. Unread(toRead[r]) = {"sourcing"}
      BY <1>1 DEF Unread
    <2> QED
      BY <2>1, <2>2 DEF Graphs
  <1>2. CASE toRead[r] = <<"routing", "sourcing">>
    <2>1. Len(toRead[r]) = 2 /\ Head(toRead[r]) = "routing" /\ Tail(toRead[r]) = <<"sourcing">>
      BY <1>2
    <2>2. pc'[r] = here /\ toRead'[r] = <<"sourcing">>
      <3>1. Len(toRead[r]) > 1
        BY <2>1
      <3>2. pc'[r] = here /\ toRead'[r] = Tail(toRead[r])
        BY <3>1
      <3> QED
        BY <2>1, <3>2
    <2>3. toRead[r] # <<"sourcing">>
      BY <2>1
    <2>4. Unread(toRead[r]) = {"routing", "sourcing"} /\ Unread(toRead'[r]) = {"sourcing"}
      BY <1>2, <2>2, <2>3 DEF Unread
    <2> QED
      BY <2>1, <2>2, <2>4 DEF Graphs, Todos
  <1>3. CASE toRead[r] = DomainOrder
    <2>1. Len(toRead[r]) = 3 /\ Head(toRead[r]) = "ebom"
            /\ Tail(toRead[r]) = <<"routing", "sourcing">>
      BY <1>3 DEF DomainOrder
    <2>2. pc'[r] = here /\ toRead'[r] = <<"routing", "sourcing">>
      <3>1. Len(toRead[r]) > 1
        BY <2>1
      <3>2. pc'[r] = here /\ toRead'[r] = Tail(toRead[r])
        BY <3>1
      <3> QED
        BY <2>1, <3>2
    <2>3. Len(<<"sourcing">>) = 1 /\ Len(<<"routing", "sourcing">>) = 2
      OBVIOUS
    <2>4. Unread(toRead[r]) = Graphs
      BY <1>3, AllUnread
    <2>5. <<"routing", "sourcing">> # <<"sourcing">>
      BY <2>3
    <2>6. Unread(toRead'[r]) = {"routing", "sourcing"}
      BY <2>2, <2>5 DEF Unread
    <2> QED
      BY <2>1, <2>2, <2>4, <2>6 DEF Graphs, Todos
  <1> QED
    BY <1>1, <1>2, <1>3 DEF Todos

\* Nothing has been read when the gate has let the rows pass.
LEMMA JudgeAnswer ==
  ASSUME TypeOK, AnswerInv, NEW r \in Requests, NEW present, Judge(r, present),
         pc[r] \in {"gate", "fetch"}
  PROVE  /\ pc'[r] # "done" /\ single'[r] = {}
         /\ ReportAt(r)'
         /\ since'[r] # "cleared" /\ passed'[r] /\ ebom'[r] # {} => ViewAt(r)'
  <1> USE DEF TypeOK, QueryTypeOK, ViewTypeOK, Go
  <1>1. single'[r] = {} /\ pc'[r] \in {"nodes", "routing"}
    BY DEF Judge, AnswerInv
  <1>2. ReportAt(r)'
    BY <1>1 DEF ReportAt
  <1>3. ASSUME passed'[r], ebom'[r] # {} PROVE ViewAt(r)'
    <2>1. sourcing[r] \subseteq present /\ ebom[r] # {}
      BY <1>3 DEF Judge
    <2>2. pc'[r] = "nodes" /\ toRead'[r] = DomainOrder
      BY <2>1 DEF Judge
    <2>4. Unread(DomainOrder) = Graphs
      BY AllUnread
    <2>5. \A e \in RowLinks(r)' : GraphOf(e) \in Graphs
      <3>1. \A e \in ebom[r] : e.type \in EdgeTypes
        BY DEF Edge
      <3>2. \A e \in RowLinks(r)' : e.type \in EdgeTypes
        BY <3>1 DEF RowLinks, SupplyLink, Judge, EdgeTypes
      <3> QED
        BY <3>2 DEF GraphOf, EDGE_TO_GRAPH, Graphs, EdgeTypes
    <2> QED
      BY <2>2, <2>4, <2>5 DEF ViewAt, NodesRead, Todos
  <1> QED
    BY <1>1, <1>2, <1>3

\* The view reads the nodes of one more graph.
LEMMA ViewNodesAnswer ==
  ASSUME TypeOK, CatalogInv, BracketInv, AnswerInv, NEW r \in Requests, ViewNodes(r),
         since[r] # "cleared", passed[r], ebom[r] # {}
  PROVE  ViewAt(r)'
  <1> USE DEF TypeOK, QueryTypeOK, ViewTypeOK
  <1>1. pc[r] = "nodes" /\ ViewAt(r) /\ toRead[r] \in Todos
    BY DEF ViewNodes, At, AnswerInv, ViewAt
  <1>2. RowLinks(r)' = RowLinks(r)
    BY DEF ViewNodes, RowLinks, SupplyLink
  <1>3. viewNodes'[r] = viewNodes[r] \cup {n \in Node : <<Head(toRead[r]), n>> \in nodes}
    BY DEF ViewNodes
  <1>4. ASSUME NEW e \in RowLinks(r),
               GraphOf(e) \notin Unread(toRead[r]) \/ GraphOf(e) = Head(toRead[r])
        PROVE  {e.source, e.target} \subseteq viewNodes'[r]
    <2>1. CASE GraphOf(e) = Head(toRead[r])
      BY <1>1, <1>3, <2>1, RowLinksStand
    <2>2. CASE GraphOf(e) \notin Unread(toRead[r])
      BY <1>1, <1>3, <2>2 DEF ViewAt, NodesRead
    <2> QED
      BY <1>4, <2>1, <2>2
  <1>5. NextRead(r, "nodes", "edges")
    BY DEF ViewNodes
  <1>6. CASE /\ pc'[r] = "nodes" /\ toRead'[r] \in Todos
             /\ Unread(toRead[r]) = Unread(toRead'[r]) \cup {Head(toRead[r])}
    BY <1>2, <1>4, <1>6 DEF ViewAt, NodesRead
  <1>7. CASE /\ pc'[r] = "edges" /\ Unread(toRead[r]) = {Head(toRead[r])}
             /\ toRead'[r] = DomainOrder
    <2>1. \A e \in RowLinks(r) : {e.source, e.target} \subseteq viewNodes'[r]
      BY <1>4, <1>7
    <2>2. \A e \in RowLinks(r) : GraphOf(e) \in Graphs
      BY <1>1, RowLinksStand
    <2>4. Unread(DomainOrder) = Graphs
      BY AllUnread
    <2> QED
      BY <1>2, <1>7, <2>1, <2>2, <2>4 DEF ViewAt, NodesRead, EdgesRead, Todos
  <1> QED
    BY <1>1, <1>5, <1>6, <1>7, Readings

\* The view reads the relationships of one more graph.
LEMMA ViewEdgesAnswer ==
  ASSUME TypeOK, CatalogInv, BracketInv, AnswerInv, NEW r \in Requests, ViewEdges(r),
         since[r] # "cleared", passed[r], ebom[r] # {}
  PROVE  ViewAt(r)'
  <1> USE DEF TypeOK, QueryTypeOK, ViewTypeOK
  <1>1. pc[r] = "edges" /\ ViewAt(r) /\ toRead[r] \in Todos
    BY DEF ViewEdges, At, AnswerInv, ViewAt
  <1>2. RowLinks(r)' = RowLinks(r) /\ viewNodes' = viewNodes
    BY DEF ViewEdges, RowLinks, SupplyLink
  <1>3. viewEdges'[r] = viewEdges[r] \cup {e \in edges : GraphOf(e) = Head(toRead[r])}
    BY DEF ViewEdges
  <1>4. \A e \in RowLinks(r) : {e.source, e.target} \subseteq viewNodes'[r]
    BY <1>1, <1>2 DEF ViewAt, NodesRead
  <1>5. ASSUME NEW e \in RowLinks(r),
               GraphOf(e) \notin Unread(toRead[r]) \/ GraphOf(e) = Head(toRead[r])
        PROVE  e \in viewEdges'[r]
    <2>1. CASE GraphOf(e) = Head(toRead[r])
      BY <1>1, <1>3, <2>1, RowLinksStand
    <2>2. CASE GraphOf(e) \notin Unread(toRead[r])
      BY <1>1, <1>3, <2>2 DEF ViewAt, EdgesRead
    <2> QED
      BY <1>5, <2>1, <2>2
  <1>6. NextRead(r, "edges", "routing")
    BY DEF ViewEdges
  <1>7. CASE /\ pc'[r] = "edges" /\ toRead'[r] \in Todos
             /\ Unread(toRead[r]) = Unread(toRead'[r]) \cup {Head(toRead[r])}
    BY <1>2, <1>4, <1>5, <1>7 DEF ViewAt, EdgesRead
  <1>8. CASE pc'[r] = "routing" /\ Unread(toRead[r]) = {Head(toRead[r])}
    <2>1. \A e \in RowLinks(r) : e \in viewEdges'[r]
      BY <1>5, <1>8
    <2> QED
      BY <1>2, <1>4, <1>8, <2>1 DEF ViewAt
  <1> QED
    BY <1>1, <1>6, <1>7, <1>8, Readings

LEMMA NextAnswer ==
  ASSUME TypeOK, CatalogInv, BracketInv, AnswerInv, [Next]_vars
  PROVE  AnswerInv'
  <1> USE DEF TypeOK, QueryTypeOK, ViewTypeOK, HistoryTypeOK
  <1> DEFINE Good(r) ==
        /\ pc'[r] # "done" => single'[r] = {}
        /\ (pc'[r] # "idle" /\ since'[r] # "cleared") =>
             ReportAt(r)' /\ (passed'[r] /\ ebom'[r] # {} => ViewAt(r)')
  <1> SUFFICES ASSUME NEW r \in Requests PROVE Good(r)
    BY DEF AnswerInv
  <1>1. CASE RequestStep(r)
    <2>0. edges' = edges
      BY <1>1, RequestsOnlyRead
    <2>1. ASSUME NEW s \in Suppliers, Begin(r, s) PROVE Good(r)
      BY <2>1 DEF Begin, Blank, Go, ReportAt
    <2>2. CASE QuerySourcing(r) \/ QueryEbom(r) \/ SnapshotSourcing(r) \/ SnapshotEbom(r)
                 \/ GateExecute(r)
      <3>1. /\ pc[r] # "done" /\ pc'[r] \in {"ebom", "as_of sourcing", "as_of ebom", "gate", "fetch"}
            /\ single' = single
        BY <2>2 DEF QuerySourcing, QueryEbom, SnapshotSourcing, SnapshotEbom, ReadAsOf,
           GateExecute, answerVars, At, Go
      <3>2. single'[r] = {}
        BY <3>1 DEF AnswerInv
      <3> QED
        BY <3>1, <3>2 DEF ReportAt, ViewAt
    <2>3. CASE GateUnchecked(r) \/ GateFetch(r) \/ GateReadOnly(r)
      BY <2>3, JudgeAnswer DEF GateUnchecked, GateFetch, GateReadOnly, At
    <2>4. CASE ViewNodes(r)
      <3>1. /\ pc[r] = "nodes" /\ pc'[r] \in {"nodes", "edges"}
            /\ UNCHANGED <<single, since, passed, ebom>>
        BY <2>4 DEF ViewNodes, NextRead, At, Go, storeVars
      <3>2. single'[r] = {} /\ ReportAt(r)'
        BY <3>1 DEF AnswerInv, ReportAt
      <3> QED
        BY <2>4, <3>1, <3>2, ViewNodesAnswer
    <2>5. CASE ViewEdges(r)
      <3>1. /\ pc[r] = "edges" /\ pc'[r] \in {"edges", "routing"}
            /\ UNCHANGED <<single, since, passed, ebom>>
        BY <2>5 DEF ViewEdges, NextRead, At, Go, storeVars
      <3>2. single'[r] = {} /\ ReportAt(r)'
        BY <3>1 DEF AnswerInv, ReportAt
      <3> QED
        BY <2>5, <3>1, <3>2, ViewEdgesAnswer
    <2>6. CASE QueryRouting(r)
      <3>1. /\ pc[r] = "routing" /\ pc'[r] = "counts"
            /\ UNCHANGED <<single, since, passed, ebom, sourcing, supplier, viewNodes, viewEdges>>
            /\ routing'[r] = LinksFrom("INPUT_OF", sourcing[r])
        BY <2>6 DEF QueryRouting, At, Go, storeVars
      <3>2. single'[r] = {}
        BY <3>1 DEF AnswerInv
      <3>3. ReportAt(r)'
        BY <2>0, <3>1, <3>2 DEF ReportAt, LinksFrom, Links
      <3>4. RowLinks(r)' = RowLinks(r)
        BY <3>1 DEF RowLinks, SupplyLink
      <3>5. ASSUME since[r] # "cleared", passed[r], ebom[r] # {} PROVE ViewAt(r)'
        <4>1. ViewAt(r)
          BY <3>1, <3>5 DEF AnswerInv
        <4> QED
          BY <3>1, <3>4, <4>1 DEF ViewAt, NodesRead, EdgesRead
      <3> QED
        BY <3>1, <3>2, <3>3, <3>5
    <2>7. CASE CountSuppliers(r)
      <3>1. /\ pc[r] = "counts" /\ pc'[r] = "done"
            /\ UNCHANGED <<since, passed, ebom, sourcing, supplier, viewNodes, viewEdges, routing>>
            /\ single'[r] \subseteq sourcing[r]
        BY <2>7 DEF CountSuppliers, At, Go, storeVars
      <3>2. ASSUME since[r] # "cleared" PROVE ReportAt(r)'
        <4>1. ReportAt(r)
          BY <3>1, <3>2 DEF AnswerInv
        <4> QED
          BY <2>0, <3>1, <4>1 DEF ReportAt, LinksFrom, Links
      <3>4. RowLinks(r)' = RowLinks(r)
        BY <3>1 DEF RowLinks, SupplyLink
      <3>5. ASSUME since[r] # "cleared", passed[r], ebom[r] # {} PROVE ViewAt(r)'
        <4>1. ViewAt(r)
          BY <3>1, <3>5 DEF AnswerInv
        <4> QED
          BY <3>1, <3>4, <4>1 DEF ViewAt, NodesRead, EdgesRead
      <3> QED
        BY <3>1, <3>2, <3>5
    <2>8. CASE RequestFails(r)
      BY <2>8 DEF RequestFails, Abandon, Blank
    <2> QED
      BY <1>1, <2>1, <2>2, <2>3, <2>4, <2>5, <2>6, <2>7, <2>8 DEF RequestStep
  <1>2. ASSUME NEW q \in Requests \ {r}, RequestStep(q) PROVE Good(r)
    BY <1>2, OthersAnswerAlone, AnswerKept
  <1>3. CASE LoaderStep
    <2>1. UNCHANGED <<pc, answerVars>>
      BY <1>3, LoadersOnlyLoad
    <2>2. since[r] = "cleared" => since'[r] = "cleared"
      BY <1>3 DEF LoaderStep, WriteNode, WriteEdge, ResetDomain, WriteMasterRow,
         UnlinkMaster, Disturbed, Cleared
    <2>3. AnswerAlone(r)
      BY <2>1, <2>2 DEF answerVars, AnswerAlone
    <2> QED
      BY <2>3, AnswerKept
  <1>4. CASE StartServer \/ UNCHANGED vars
    <2>1. AnswerAlone(r)
      BY <1>4 DEF StartServer, vars, requestVars, answerVars, AnswerAlone
    <2> QED
      BY <2>1, AnswerKept
  <1>5. CASE StopServer
    <2>1. CASE r \in Shared
      BY <1>5, <2>1 DEF StopServer, Abandon, Blank
    <2>2. CASE r \notin Shared
      <3>1. AnswerAlone(r)
        BY <1>5, <2>2 DEF StopServer, Abandon, Blank, AnswerAlone
      <3> QED
        BY <3>1, AnswerKept
    <2> QED
      BY <2>1, <2>2
  <1> QED
    BY <1>1, <1>2, <1>3, <1>4, <1>5 DEF Next

LEMMA AnswerInvariant == Spec => [](TypeOK /\ CatalogInv /\ BracketInv /\ AnswerInv)
  <1>1. Init => CatalogInv
    BY FS_EmptySet DEF Init, Catalog!Init, CatalogInv
  <1>2. Init => BracketInv /\ AnswerInv
    BY DEF Init, BracketInv, AnswerInv
  <1> QED
    BY <1>1, <1>2, NextCatalog, NextBracket, NextAnswer, TypeCorrect, PTL DEF Spec

\* As long as loaders only add, the graph view that comes with an answer shows
\* every row of it, in seven more reads than the rows took.
THEOREM ViewComplete == Spec => []ViewShowsRows
  <1>1. TypeOK /\ CatalogInv /\ BracketInv /\ AnswerInv => ViewShowsRows
    <2> SUFFICES ASSUME TypeOK, CatalogInv, BracketInv, AnswerInv, NEW r \in Requests,
                        Answered(r), since[r] # "cleared", NEW row \in FederatedRows(r)
                 PROVE  /\ {row.supplier, row.component, row.product} \subseteq ShownNodes(r)
                        /\ [type |-> "SUPPLIED_BY", source |-> row.component,
                            target |-> row.supplier] \in ShownEdges(r)
                        /\ [type |-> "USED_IN", source |-> row.component,
                            target |-> row.product] \in ShownEdges(r)
      BY DEF ViewShowsRows
    <2>1. pc[r] = "done" /\ passed[r] /\ ebom[r] # {}
      BY DEF Answered, FederatedRows, MergeRows
    <2>2. ViewAt(r) /\ BracketedAt(r)
      BY <2>1 DEF AnswerInv, BracketInv
    <2>3. PICK e \in ebom[r] :
            row = [supplier |-> supplier[r], component |-> e.source, product |-> e.target]
      BY <2>1 DEF FederatedRows, MergeRows
    <2>4. e \in RowLinks(r) /\ SupplyLink(r, e.source) \in RowLinks(r)
      BY DEF RowLinks
    <2>5. /\ {e.source, e.target, supplier[r]} \subseteq viewNodes[r]
          /\ {e, SupplyLink(r, e.source)} \subseteq viewEdges[r]
      BY <2>1, <2>2, <2>4 DEF ViewAt, NodesRead, EdgesRead, SupplyLink
    <2>6. {e.source, e.target, supplier[r]} \subseteq Seeds(r)
      BY <2>3 DEF Seeds
    <2>7. {e.source, e.target, supplier[r]} \subseteq ShownNodes(r)
      BY <2>5, <2>6 DEF ShownNodes, Active
    <2>8. e.type = "USED_IN" /\ e \in Edge
      <3>1. e \in LinksFrom("USED_IN", sourcing[r])
        BY <2>1, <2>2 DEF BracketedAt
      <3> QED
        BY <3>1 DEF LinksFrom, Links, TypeOK, StoreTypeOK
    <2>9. e = [type |-> "USED_IN", source |-> e.source, target |-> e.target]
      BY <2>8 DEF Edge
    <2> QED
      BY <2>3, <2>5, <2>7, <2>9 DEF ShownEdges, SupplyLink
  <1> QED
    BY <1>1, AnswerInvariant, PTL

\* As long as loaders only add, the recommendations leave out no product the
\* disruption reached when the request came, and name only what it reaches now.
THEOREM ReportSound == Spec => []ReportReaches
  <1>1. TypeOK /\ CatalogInv /\ BracketInv /\ AnswerInv => ReportReaches
    <2> SUFFICES ASSUME TypeOK, BracketInv, AnswerInv, NEW r \in Requests,
                        Answered(r), since[r] # "cleared"
                 PROVE  /\ {row.product : row \in joinAtStart[r]} \subseteq Products(r)
                        /\ \A m \in Mitigations(r) : m.about \subseteq Reached(supplier[r])
                        /\ "no_supply" \in Problems(r) => joinAtStart[r] = {}
                        /\ "product_spread" \in Problems(r) =>
                             \E a, b \in JoinNow(supplier[r]) : a.product # b.product
      BY DEF ReportReaches
    <2>1. pc[r] = "done"
      BY DEF Answered
    <2>2. BracketedAt(r) /\ ReportAt(r)
      BY <2>1 DEF AnswerInv, BracketInv
    <2>3. {row.product : row \in joinAtStart[r]} \subseteq Products(r)
      <3>1. joinAtStart[r] \subseteq MergeRows(supplier[r], ebom[r])
        BY <2>1, <2>2 DEF BracketedAt
      <3> QED
        BY <3>1 DEF MergeRows, Products
    <2>4. sourcing[r] \subseteq SuppliedComponents(supplier[r])
      BY <2>1, <2>2 DEF BracketedAt
    <2>5. \A e \in ebom[r] : /\ e \in LinksFrom("USED_IN", SuppliedComponents(supplier[r]))
                             /\ e.source \in Reached(supplier[r])
                             /\ e.target \in Reached(supplier[r])
      BY <2>1, <2>2, <2>4 DEF BracketedAt, LinksFrom, Reached
    <2>6. \A e \in routing[r] : e.source \in Reached(supplier[r]) /\ e.target \in Reached(supplier[r])
      BY <2>1, <2>2, <2>4 DEF ReportAt, LinksFrom, Reached
    <2>7. single[r] \subseteq Reached(supplier[r])
      BY <2>2, <2>4 DEF ReportAt, Reached
    <2>8. ASSUME NEW m \in Mitigations(r) PROVE m.about \subseteq Reached(supplier[r])
      BY <2>5, <2>6, <2>7 DEF Mitigations, Products
    <2>9. ASSUME "no_supply" \in Problems(r) PROVE joinAtStart[r] = {}
      <3>1. sourcing[r] = {}
        BY <2>9 DEF Problems
      <3> QED
        BY <2>1, <2>2, <3>1 DEF BracketedAt
    <2>10. ASSUME "product_spread" \in Problems(r)
           PROVE  \E a, b \in JoinNow(supplier[r]) : a.product # b.product
      <3>1. PICK d, e \in ebom[r] : d.target # e.target
        BY <2>10 DEF Problems, Products
      <3> DEFINE RowOf(l) == [supplier |-> supplier[r], component |-> l.source, product |-> l.target]
      <3>2. RowOf(d) \in JoinNow(supplier[r]) /\ RowOf(e) \in JoinNow(supplier[r])
        BY <2>5 DEF JoinNow, MergeRows
      <3>3. RowOf(d).product # RowOf(e).product
        BY <3>1
      <3> QED
        BY <3>2, <3>3
    <2> QED
      BY <2>3, <2>8, <2>9, <2>10
  <1> QED
    BY <1>1, AnswerInvariant, PTL

\* As long as loaders only add, "only S on record" is true when it is counted,
\* although the components come from an earlier query.
THEOREM SingleSourcesTrue == Spec => SingleSourceTrue
  <1> DEFINE Counted ==
        \A r \in Requests :
          (At(r, "counts") /\ Answered(r)' /\ since[r] # "cleared") =>
            \A c \in single'[r] : SuppliersOf(c) = {supplier[r]}
  <1>1. TypeOK /\ CatalogInv /\ BracketInv /\ [Next]_vars => [Counted]_vars
    <2> SUFFICES ASSUME TypeOK, CatalogInv, BracketInv, [Next]_vars, NEW r \in Requests,
                        At(r, "counts"), Answered(r)', since[r] # "cleared",
                        NEW c \in single'[r]
                 PROVE  SuppliersOf(c) = {supplier[r]}
      OBVIOUS
    <2> USE DEF TypeOK, QueryTypeOK, ViewTypeOK
    <2>0. pc[r] = "counts" /\ pc'[r] = "done"
      BY DEF At, Answered
    <2>1. CountSuppliers(r)
      <3>1. ASSUME NEW q \in Requests \ {r}, RequestStep(q) PROVE FALSE
        BY <2>0, <3>1, OthersAlone
      <3>2. CASE RequestStep(r)
        BY <2>0, <3>2 DEF RequestStep, Begin, QuerySourcing, QueryEbom, SnapshotSourcing,
           SnapshotEbom, ReadAsOf, GateUnchecked, GateExecute, GateFetch, GateReadOnly,
           ViewNodes, ViewEdges, QueryRouting, RequestFails, Abandon, At, Go
      <3>3. ASSUME ~(\E q \in Requests : RequestStep(q)) PROVE FALSE
        BY <2>0, <3>3, OtherSteps DEF Abandon
      <3> QED
        BY <3>1, <3>2, <3>3
    <2>2. c \in sourcing[r] /\ Cardinality(SuppliersOf(c)) = 1
      BY <2>1 DEF CountSuppliers
    <2>3. IsFiniteSet(SuppliersOf(c))
      <3> DEFINE L == LinksFrom("SUPPLIED_BY", {c})
                 f == [e \in L |-> e.target]
      <3>1. L \in SUBSET edges
        BY DEF LinksFrom, Links
      <3>2. IsFiniteSet(L)
        BY <3>1, FS_Subset DEF CatalogInv
      <3>3. f \in Surjection(L, SuppliersOf(c))
        BY DEF Surjection, SuppliersOf
      <3> QED
        BY <3>2, <3>3, FS_Surjection
    <2>4. PICK x : SuppliersOf(c) = {x}
      BY <2>2, <2>3, FS_Singleton
    <2>5. supplier[r] \in SuppliersOf(c)
      <3>1. c \in SuppliedComponents(supplier[r])
        BY <2>0, <2>2 DEF BracketInv, BracketedAt
      <3> QED
        BY <3>1 DEF SuppliedComponents, SuppliersOf, LinksFrom, Links
    <2> QED
      BY <2>4, <2>5
  <1> QED
    BY <1>1, AnswerInvariant, PTL DEF Spec, SingleSourceTrue

------------------------------------------------------------------------------
(* Rejections *)

Judged == {"nodes", "edges", "routing", "counts", "done"}

\* While the only request of the server waits to fetch, the result set is its own.
RejectAt(r) ==
  /\ pc[r] = "fetch" => r \in Shared
  /\ r \in Shared =>
       /\ conn = "closed" => pc[r] = "idle"
       /\ pc[r] = "fetch" => result = sourcing[r] \cap ConnRows
       /\ pc[r] \in Judged /\ ~passed[r] => ~(sourcing[r] \subseteq ConnRows)

RejectInv == \A r \in Requests : RejectAt(r)

LEMMA NextRejectOwn ==
  ASSUME TypeOK, RejectInv, NEW r \in Requests, RequestStep(r)
  PROVE  RejectAt(r)'
  <1> USE SharedAssumption DEF TypeOK, QueryTypeOK, Judged
  <1>1. UNCHANGED conn /\ ConnRows' = ConnRows
    BY RequestsOnlyRead DEF ConnRows
  <1>2. RejectAt(r)
    BY DEF RejectInv
  <1>3. ASSUME NEW s \in Suppliers, Begin(r, s) PROVE RejectAt(r)'
    BY <1>1, <1>3 DEF RejectAt, Begin, Go
  <1>4. CASE QuerySourcing(r)
    BY <1>1, <1>2, <1>4 DEF RejectAt, QuerySourcing, At, Go
  <1>5. CASE QueryEbom(r)
    BY <1>1, <1>2, <1>5 DEF RejectAt, QueryEbom, At, Go
  <1>6. CASE SnapshotSourcing(r) \/ SnapshotEbom(r)
    BY <1>1, <1>2, <1>6 DEF RejectAt, SnapshotSourcing, SnapshotEbom, ReadAsOf, At, Go
  <1>7. CASE GateUnchecked(r)
    <2>1. /\ pc[r] = "gate" /\ pc'[r] \in {"nodes", "routing"} /\ passed'[r] = TRUE
      BY <1>7 DEF GateUnchecked, Judge, At, Go
    <2> QED
      BY <1>1, <1>2, <2>1 DEF RejectAt
  <1>8. CASE GateExecute(r)
    BY <1>1, <1>2, <1>8 DEF RejectAt, GateExecute, answerVars, At, Go
  <1>9. CASE GateFetch(r)
    <2>1. /\ pc[r] = "fetch" /\ pc'[r] \in {"nodes", "routing"} /\ sourcing'[r] = sourcing[r]
          /\ passed'[r] = (sourcing[r] \subseteq result)
      BY <1>9 DEF GateFetch, Judge, At, Go
    <2>2. r \in Shared /\ conn # "closed" /\ result = sourcing[r] \cap ConnRows
      BY <1>2, <2>1 DEF RejectAt
    <2> QED
      BY <1>1, <2>1, <2>2 DEF RejectAt
  <1>10. CASE GateReadOnly(r)
    <2>1. r \notin Shared /\ pc'[r] \in {"nodes", "routing"}
      BY <1>10 DEF GateReadOnly, Judge, Go
    <2> QED
      BY <2>1 DEF RejectAt
  <1>11. CASE ViewNodes(r) \/ ViewEdges(r)
    BY <1>1, <1>2, <1>11 DEF RejectAt, ViewNodes, ViewEdges, NextRead, At, Go
  <1>12. CASE QueryRouting(r) \/ CountSuppliers(r)
    BY <1>1, <1>2, <1>12 DEF RejectAt, QueryRouting, CountSuppliers, At, Go
  <1>13. CASE RequestFails(r)
    BY <1>1, <1>13 DEF RejectAt, RequestFails, Abandon
  <1> QED
    BY <1>3, <1>4, <1>5, <1>6, <1>7, <1>8, <1>9, <1>10, <1>11, <1>12, <1>13 DEF RequestStep

\* A step of another request leaves the result set to the server's only one.
LEMMA NextRejectOther ==
  ASSUME \A a, b \in Shared : a = b,
         TypeOK, RejectInv, NEW q \in Requests, RequestStep(q), NEW r \in Requests \ {q}
  PROVE  RejectAt(r)'
  <1>1. UNCHANGED conn /\ ConnRows' = ConnRows
    BY RequestsOnlyRead DEF ConnRows
  <1>2. pc'[r] = pc[r] /\ sourcing'[r] = sourcing[r] /\ passed'[r] = passed[r]
    BY OthersAnswerAlone, OthersAlone DEF AnswerAlone
  <1>3. RejectAt(r) /\ RejectAt(q)
    BY DEF RejectInv
  <1>4. CASE result' = result
    BY <1>1, <1>2, <1>3, <1>4 DEF RejectAt
  <1>5. CASE GateExecute(q) \/ GateFetch(q)
    <2>1. q \in Shared
      BY <1>3, <1>5 DEF GateExecute, GateFetch, At, RejectAt
    <2>2. r \notin Shared
      BY <2>1
    <2> QED
      BY <1>2, <1>3, <2>2 DEF RejectAt
  <1>6. result' = result \/ GateExecute(q) \/ GateFetch(q)
    BY DEF RequestStep, Begin, QuerySourcing, QueryEbom, SnapshotSourcing, SnapshotEbom, ReadAsOf,
       GateUnchecked, GateReadOnly, ViewNodes, ViewEdges, QueryRouting, CountSuppliers, RequestFails
  <1> QED
    BY <1>4, <1>5, <1>6

LEMMA NextReject ==
  ASSUME \A q, r \in Shared : q = r
  PROVE  TypeOK /\ RejectInv /\ [Next]_vars => RejectInv'
  <1> SUFFICES ASSUME TypeOK, RejectInv, [Next]_vars, NEW r \in Requests PROVE RejectAt(r)'
    BY DEF RejectInv
  <1>1. RejectAt(r)
    BY DEF RejectInv
  <1>2. ASSUME NEW q \in Requests, RequestStep(q) PROVE RejectAt(r)'
    BY <1>2, NextRejectOwn, NextRejectOther
  <1>3. CASE StartServer
    BY <1>1, <1>3, SharedAssumption DEF RejectAt, StartServer, requestVars, answerVars, Judged
  <1>4. CASE StopServer
    BY <1>1, <1>4 DEF RejectAt, StopServer, Abandon, TypeOK, QueryTypeOK, Judged
  <1>5. CASE LoaderStep \/ UNCHANGED vars
    <2>1. UNCHANGED <<result, pc, passed, sourcing>>
      BY <1>5, LoadersOnlyLoad DEF answerVars, vars
    <2>2. CASE ~StartServer /\ ~StopServer
      BY <1>1, <2>1, <2>2, ConnRowsStable DEF RejectAt
    <2> QED
      BY <1>3, <1>4, <2>2
  <1> QED
    BY <1>2, <1>3, <1>4, <1>5 DEF Next

\* A server that has one analysis under way at a time rejects a join only for
\* a component that the master it has open does not know; what MCSpuriousReject
\* shows of two comes from nothing but the connection they share.
THEOREM LoneRequestJudgedRightly ==
  ASSUME \A q, r \in Shared : q = r
  PROVE  Spec => []RejectsOnlyMissing
  <1>1. Init => RejectInv
    BY DEF Init, RejectInv, RejectAt, Judged
  <1>2. RejectInv => RejectsOnlyMissing
    BY SharedAssumption DEF RejectInv, RejectAt, Judged, RejectsOnlyMissing, Answered
  <1> QED
    BY <1>1, <1>2, NextReject, TypeCorrect, PTL DEF Spec

------------------------------------------------------------------------------
(* The skew warning *)

BeforeSourcing == {"sourcing", "ebom", "as_of sourcing"}

\* While nothing disturbs request r: what it has read of the graphs' as_of is
\* still the newest, and the warning is about these two.
SkewAt(r) ==
  pc[r] # "idle" /\ since[r] = "quiet" =>
    /\ pc[r] \notin BeforeSourcing => IsDomainAsOf("sourcing", snapshot[r].sourcing)
    /\ pc[r] \notin BeforeSourcing \cup {"as_of ebom"} => IsDomainAsOf("ebom", snapshot[r].ebom)
    /\ pc[r] \in Judged => warned[r] = Skewed(snapshot[r].sourcing, snapshot[r].ebom)

SkewInv == \A r \in Requests : SkewAt(r)

\* What SkewAt speaks of stays as it is.
LEMMA SkewKept ==
  ASSUME NEW r, SkewAt(r), asOf' = asOf, pc'[r] = pc[r], since'[r] = since[r],
         snapshot'[r] = snapshot[r], warned'[r] = warned[r]
  PROVE  SkewAt(r)'
  BY DEF SkewAt, IsDomainAsOf

LEMMA NextSkewOwn ==
  ASSUME TypeOK, SkewInv, NEW r \in Requests, RequestStep(r)
  PROVE  SkewAt(r)'
  <1> USE DEF TypeOK, QueryTypeOK, HistoryTypeOK, Judged, BeforeSourcing
  <1>1. asOf' = asOf
    BY RequestsOnlyRead
  <1>2. SkewAt(r)
    BY DEF SkewInv
  <1>3. \A g, t : IsDomainAsOf(g, t)' <=> IsDomainAsOf(g, t)
    BY <1>1 DEF IsDomainAsOf
  <1>4. ASSUME NEW s \in Suppliers, Begin(r, s) PROVE SkewAt(r)'
    BY <1>4 DEF SkewAt, Begin, Go
  <1>5. CASE QuerySourcing(r) \/ QueryEbom(r)
    BY <1>5 DEF SkewAt, QuerySourcing, QueryEbom, At, Go
  <1>6. CASE SnapshotSourcing(r)
    <2>1. PICK t \in 0..MaxTime : /\ IsDomainAsOf("sourcing", t)
                                  /\ snapshot' = [snapshot EXCEPT ![r]["sourcing"] = t]
      BY <1>6 DEF SnapshotSourcing, ReadAsOf
    <2>2. snapshot'[r].sourcing = t /\ pc'[r] = "as_of ebom"
      <3>1. pc'[r] = "as_of ebom"
        BY <1>6 DEF SnapshotSourcing, ReadAsOf, Go
      <3>2. snapshot[r] \in [{"sourcing", "ebom"} -> 0..MaxTime]
        OBVIOUS
      <3>3. snapshot'[r] = [snapshot[r] EXCEPT !["sourcing"] = t]
        BY <2>1
      <3> QED
        BY <3>1, <3>2, <3>3
    <2> QED
      BY <1>3, <2>1, <2>2 DEF SkewAt
  <1>7. CASE SnapshotEbom(r)
    <2>1. PICK t \in 0..MaxTime : /\ IsDomainAsOf("ebom", t)
                                  /\ snapshot' = [snapshot EXCEPT ![r]["ebom"] = t]
      BY <1>7 DEF SnapshotEbom, ReadAsOf
    <2>2. /\ snapshot'[r].ebom = t /\ snapshot'[r].sourcing = snapshot[r].sourcing
          /\ pc[r] = "as_of ebom" /\ pc'[r] = "gate" /\ since' = since
      <3>1. pc[r] = "as_of ebom" /\ pc'[r] = "gate" /\ since' = since
        BY <1>7 DEF SnapshotEbom, ReadAsOf, At, Go, storeVars
      <3>2. snapshot[r] \in [{"sourcing", "ebom"} -> 0..MaxTime]
        OBVIOUS
      <3>3. snapshot'[r] = [snapshot[r] EXCEPT !["ebom"] = t]
        BY <2>1
      <3> QED
        BY <3>1, <3>2, <3>3
    <2> QED
      BY <1>2, <1>3, <2>1, <2>2 DEF SkewAt
  <1>8. ASSUME NEW present, Judge(r, present), pc[r] \in {"gate", "fetch"} PROVE SkewAt(r)'
    <2>1. /\ pc'[r] \in {"nodes", "routing"} /\ since' = since /\ snapshot' = snapshot
          /\ warned'[r] = Skewed(snapshot[r].sourcing, snapshot[r].ebom)
      BY <1>8 DEF Judge, Go, storeVars
    <2> QED
      BY <1>2, <1>3, <1>8, <2>1 DEF SkewAt
  <1>9. CASE GateUnchecked(r) \/ GateFetch(r) \/ GateReadOnly(r)
    BY <1>8, <1>9 DEF GateUnchecked, GateFetch, GateReadOnly, At
  <1>10. ASSUME pc[r] \notin BeforeSourcing \cup {"as_of ebom"}, pc[r] # "idle",
                pc[r] \in Judged \/ pc'[r] \notin Judged,
                since' = since, snapshot' = snapshot, warned' = warned
         PROVE  SkewAt(r)'
    BY <1>2, <1>3, <1>10 DEF SkewAt
  <1>11. CASE GateExecute(r)
    <2>1. pc[r] = "gate" /\ pc'[r] = "fetch" /\ UNCHANGED <<since, snapshot, warned>>
      BY <1>11 DEF GateExecute, At, Go, storeVars, answerVars
    <2> QED
      BY <1>10, <2>1
  <1>12. CASE ViewNodes(r) \/ ViewEdges(r) \/ QueryRouting(r) \/ CountSuppliers(r)
    <2>1. pc[r] \in {"nodes", "edges", "routing", "counts"} /\ UNCHANGED <<since, snapshot, warned>>
      BY <1>12 DEF ViewNodes, ViewEdges, QueryRouting, CountSuppliers, At, storeVars
    <2> QED
      BY <1>10, <2>1
  <1>13. CASE RequestFails(r)
    BY <1>13 DEF SkewAt, RequestFails, Abandon
  <1> QED
    BY <1>4, <1>5, <1>6, <1>7, <1>9, <1>11, <1>12, <1>13 DEF RequestStep

LEMMA NextSkew == TypeOK /\ SkewInv /\ [Next]_vars => SkewInv'
  <1> SUFFICES ASSUME TypeOK, SkewInv, [Next]_vars, NEW r \in Requests PROVE SkewAt(r)'
    BY DEF SkewInv
  <1>1. SkewAt(r)
    BY DEF SkewInv
  <1>2. CASE RequestStep(r)
    BY <1>2, NextSkewOwn
  <1>3. ASSUME NEW q \in Requests \ {r}, RequestStep(q) PROVE SkewAt(r)'
    <2>1. asOf' = asOf
      BY <1>3, RequestsOnlyRead
    <2>2. pc'[r] = pc[r] /\ since'[r] = since[r]
      BY <1>3, OthersAlone
    <2>3. snapshot'[r] = snapshot[r] /\ warned'[r] = warned[r]
      BY <1>3, OthersAlone
    <2> QED
      BY <1>1, <2>1, <2>2, <2>3, SkewKept
  <1>4. CASE LoaderStep
    <2>1. UNCHANGED pc
      BY <1>4, LoadersOnlyLoad
    <2>2. pc[r] # "idle" => since'[r] # "quiet"
      BY <1>4 DEF LoaderStep, WriteNode, WriteEdge, ResetDomain, WriteMasterRow, UnlinkMaster,
         Disturbed, Cleared, TypeOK, HistoryTypeOK
    <2> QED
      BY <2>1, <2>2 DEF SkewAt
  <1>5. CASE StartServer \/ UNCHANGED vars
    BY <1>1, <1>5, SkewKept DEF StartServer, vars, catalogVars, requestVars, answerVars
  <1>6. CASE StopServer
    <2>1. CASE r \in Shared
      BY <1>6, <2>1 DEF StopServer, Abandon, SkewAt
    <2>2. CASE r \notin Shared
      <3>1. /\ asOf' = asOf /\ pc'[r] = pc[r] /\ since'[r] = since[r]
            /\ snapshot'[r] = snapshot[r] /\ warned'[r] = warned[r]
        BY <1>6, <2>2 DEF StopServer, Abandon, Blank, catalogVars
      <3> QED
        BY <1>1, <3>1, SkewKept
    <2> QED
      BY <2>1, <2>2
  <1> QED
    BY <1>2, <1>3, <1>4, <1>5, <1>6 DEF Next

\* The nodes of each graph come from one batch.
Even ==
  \A g \in {"sourcing", "ebom"}, m, n \in Node :
    asOf[g][m] > 0 /\ asOf[g][n] > 0 => asOf[g][m] = asOf[g][n]

\* The gate compares the newest as_of of the graphs.  That is enough where each
\* graph was written by one batch; that it is not enough otherwise is what
\* MCStaleJoin shows.
THEOREM EvenGraphsWarned == Spec => [](Even => StaleJoinWarned)
  <1>1. Init => SkewInv
    BY DEF Init, SkewInv, SkewAt
  <1>2. TypeOK /\ SkewInv /\ Even => StaleJoinWarned
    <2> SUFFICES ASSUME TypeOK, SkewInv, Even, NEW r \in Requests, Answered(r),
                        since[r] = "quiet", ~warned[r], NEW row \in FederatedRows(r)
                 PROVE  ~Skewed(asOf["sourcing"][row.supplier], asOf["ebom"][row.product])
      BY DEF StaleJoinWarned
    <2> DEFINE a == asOf["sourcing"][row.supplier]
               b == asOf["ebom"][row.product]
    <2>1. /\ IsDomainAsOf("sourcing", snapshot[r].sourcing)
          /\ IsDomainAsOf("ebom", snapshot[r].ebom)
          /\ ~Skewed(snapshot[r].sourcing, snapshot[r].ebom)
      BY DEF SkewInv, SkewAt, Answered, Judged, BeforeSourcing
    <2>2. row.supplier \in Node /\ row.product \in Node
      <3>1. PICK e \in ebom[r] : row = [supplier |-> supplier[r], component |-> e.source,
                                        product |-> e.target]
        BY DEF FederatedRows, MergeRows
      <3>2. e \in Edge /\ supplier[r] \in Labelled("Supplier")
        BY DEF TypeOK, QueryTypeOK, Suppliers
      <3>3. supplier[r] \in Node
        BY <3>2 DEF Node, Labels
      <3> QED
        BY <3>1, <3>2, <3>3, EdgeEnds
    <2>3. a \in Nat /\ b \in Nat /\ snapshot[r].sourcing \in Nat /\ snapshot[r].ebom \in Nat
      BY <2>2, TimeAssumption DEF TypeOK, StoreTypeOK, QueryTypeOK, Graphs
    <2>4. a > 0 => a = snapshot[r].sourcing
      <3> SUFFICES ASSUME a > 0 PROVE a = snapshot[r].sourcing
        OBVIOUS
      <3>1. PICK n \in Node : asOf["sourcing"][n] = snapshot[r].sourcing
        BY <2>1, <2>2, <2>3 DEF IsDomainAsOf
      <3> QED
        BY <2>1, <2>2, <2>3, <3>1 DEF IsDomainAsOf, Even
    <2>5. b > 0 => b = snapshot[r].ebom
      <3> SUFFICES ASSUME b > 0 PROVE b = snapshot[r].ebom
        OBVIOUS
      <3>1. PICK n \in Node : asOf["ebom"][n] = snapshot[r].ebom
        BY <2>1, <2>2, <2>3 DEF IsDomainAsOf
      <3> QED
        BY <2>1, <2>2, <2>3, <3>1 DEF IsDomainAsOf, Even
    <2> QED
      BY <2>1, <2>3, <2>4, <2>5 DEF Skewed
  <1> QED
    BY <1>1, <1>2, NextSkew, TypeCorrect, PTL DEF Spec
==============================================================================
