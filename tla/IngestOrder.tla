----------------------------- MODULE IngestOrder -----------------------------
(***************************************************************************)
(* What the order of a script's calls must be for the guarantees of        *)
(* DomainIngest, one condition per guarantee.  Each speaks of one script   *)
(* alone; IngestOrderProof shows that it is enough whatever the scripts    *)
(* beside it do, and MCRebuild evaluates the conditions on the             *)
(* repository's scripts.                                                   *)
(***************************************************************************)
EXTENDS DomainIngest

\* Calls i to j contain none of these kinds.
NoneBetween(calls, i, j, kinds) == \A k \in i..j : calls[k].kind \notin kinds

NodeBefore(calls, i, g, n) == \E j \in 1..(i - 1) : calls[j] = StoreNode(g, n)

\* apply_connector_ingest of a domain precedes the first node written to it.
ConfiguresFirst(calls) ==
  \A i \in 1..Len(calls) : calls[i].kind = "node" =>
    \E j \in 1..(i - 1) : calls[j] = ConfigureIngest(calls[i].graph)

\* Only labels the domain owns, and both ends of a relationship before it.
EndpointsFirst(calls) ==
  \A i \in 1..Len(calls) :
    /\ calls[i].kind = "node" => NodeAllowed(calls[i].graph, calls[i].node)
    /\ calls[i].kind = "edge" =>
         /\ NodeBefore(calls, i, GraphOf(calls[i].edge), calls[i].edge.source)
         /\ NodeBefore(calls, i, GraphOf(calls[i].edge), calls[i].edge.target)

\* Master rows are inserted while the connection is open on the named file.
OpensForRows(calls) ==
  \A i \in 1..Len(calls) : calls[i].kind = "row" =>
    \E j \in 1..(i - 1) :
      calls[j].kind = "open" /\ NoneBetween(calls, j, i, {"close", "unlink"})

Keeps(calls) == NoneBetween(calls, 1, Len(calls), {"reset", "unlink"})

\* A script that only adds, each thing after what it needs.
AddsInOrder(calls) == Keeps(calls) /\ EndpointsFirst(calls) /\ OpensForRows(calls)

\* The copies of a component in the order of Replication!Order, its row last.
PartsInOrder(calls) ==
  \A i \in 1..Len(calls) :
    /\ calls[i].kind = "node" =>
         \A g \in Graphs, h \in {"routing", "sourcing"} :
           /\ calls[i].node \in Components
           /\ calls[i].graph = h
           /\ g = "ebom" \/ (g = "routing" /\ h = "sourcing")
           => NodeBefore(calls, i, g, calls[i].node)
    /\ calls[i].kind = "row" => \A g \in Graphs : NodeBefore(calls, i, g, calls[i].node)

IsSupply(call) == call.kind = "edge" /\ call.edge.type = "SUPPLIED_BY"

\* The row of a component before its suppliers, with no unlink in between; and
\* the sourcing graph is cleared before the file goes, with none written in
\* between.
MasterFirst(calls) ==
  \A i \in 1..Len(calls) :
    /\ IsSupply(calls[i]) =>
         \E j \in 1..(i - 1) : /\ calls[j] = MasterRow(calls[i].edge.source)
                               /\ NoneBetween(calls, j, i, {"unlink"})
    /\ calls[i].kind = "unlink" =>
         \E j \in 1..(i - 1) : /\ calls[j] = ResetGraph("sourcing")
                               /\ \A k \in j..i : ~IsSupply(calls[k])

\* A script that has nothing to do with suppliers or with the master's file.
LeavesMaster(calls) ==
  \A i \in 1..Len(calls) : ~IsSupply(calls[i]) /\ calls[i].kind # "unlink"

\* Call d takes away what call c has written.
Undoes(d, c) ==
  \/ d.kind = "reset" /\ c.kind = "node" /\ c.graph = d.graph
  \/ d.kind = "reset" /\ c.kind = "edge" /\ GraphOf(c.edge) = d.graph
  \/ d.kind = "unlink" /\ c.kind = "row"

\* A script that clears, if anything, only what it has not written yet.
Rebuilds(calls) ==
  /\ \A i \in 1..Len(calls) : \A j \in 1..(i - 1) : ~Undoes(calls[i], calls[j])
  /\ EndpointsFirst(calls)
  /\ OpensForRows(calls)

\* A script that clears nothing and whose writes, if any, are refused.
Bystands(calls) ==
  \A i \in 1..Len(calls) :
    /\ calls[i].kind \notin {"edge", "row", "reset", "unlink"}
    /\ calls[i].kind = "node" => ~NodeAllowed(calls[i].graph, calls[i].node)
==============================================================================
