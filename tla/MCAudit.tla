-------------------------------- MODULE MCAudit --------------------------------
(***************************************************************************)
(* A part and its product in two graphs, and one of each thing that can be *)
(* wrong with a store.                                                     *)
(***************************************************************************)
EXTENDS IngestAudit

OnePartIds == [l \in Labels |-> CASE l = "Component" -> {"C1"} [] l = "Product" -> {"P1"}
                                  [] OTHER -> {}]

At1(l, i, g) == [elem |-> 1, label |-> l, id |-> i, graph |-> g, valid |-> TRUE,
                 shaped |-> TRUE, version |-> "current", stamp |-> "full"]

Part    == At1("Component", "C1", "ebom")
Prod    == At1("Product", "P1", "ebom")
PartR   == At1("Component", "C1", "routing")
ProdR   == At1("Product", "P1", "routing")

Twin      == [Part EXCEPT !.elem = 2]
Foreign   == At1("Widget", "W1", "ebom")
Nameless  == [Prod EXCEPT !.id = None]
Negative  == [At1("Component", "C2", "ebom") EXCEPT !.valid = FALSE]
Stale     == [PartR EXCEPT !.version = "stale"]
Misplaced == At1("Supplier", "S1", "ebom")
Riskless  == [At1("Supplier", "S1", "sourcing") EXCEPT !.shaped = FALSE]
Sourceless == [ProdR EXCEPT !.stamp = "no_source"]
Undated   == [PartR EXCEPT !.stamp = "no_as_of", !.version = "absent"]
Unscoped  == [At1("Product", "P1", None) EXCEPT !.valid = FALSE]
Pilot     == At1("Component", "C1", "pilot")
PilotProd == At1("Product", "P1", "pilot")
Late      == At1("Component", "C3", "ebom")

Rel(t, s, d) == [type |-> t, source |-> s, target |-> d]
Uses     == Rel("USED_IN", Part, Prod)
Leaked   == Rel("USED_IN", PartR, ProdR)
Crossing == Rel("USED_IN", Part, ProdR)
Hanging  == Rel("USED_IN", Part, Unscoped)
Unknown  == Rel("LIKES", Part, Prod)
Reversed == Rel("PRODUCED_BY", Part, Prod)
InPilot  == Rel("USED_IN", Pilot, PilotProd)

MCNodes == {Part, Prod, PartR, ProdR, Twin, Foreign, Nameless, Negative, Stale,
            Misplaced, Riskless, Sourceless, Undated, Unscoped, Pilot, PilotProd, Late}
MCRels  == {Uses, Leaked, Crossing, Hanging, Unknown, Reversed, InPilot}
MCRank  == [i \in {n.id : n \in MCNodes} |->
              CASE i = None -> 0 [] i = "C1" -> 1 [] i = "C2" -> 2 [] i = "C3" -> 3
                [] OTHER -> 4]

Base == [nodes |-> {Part, Prod}, rels |-> {Uses}, file |-> "free", master |-> {"C1"}]

WithNode(n) == [Base EXCEPT !.nodes = @ \cup {n}]
WithRel(r)  == [Base EXCEPT !.nodes = @ \cup {r.source, r.target}, !.rels = @ \cup {r}]

MCSnapshots ==
       {Base, [Base EXCEPT !.file = "absent", !.master = {}], [Base EXCEPT !.master = {}],
        [nodes |-> {}, rels |-> {}, file |-> "locked", master |-> {}]}
  \cup {WithNode(n) : n \in {Twin, Foreign, Nameless, Negative, Stale, Misplaced,
                             Riskless, Sourceless, Undated, Late}}
  \cup {WithRel(r) : r \in MCRels \ {Uses}}
==============================================================================
