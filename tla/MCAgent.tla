-------------------------------- MODULE MCAgent --------------------------------
(***************************************************************************)
(* Small instances of the agent run.                                       *)
(***************************************************************************)
EXTENDS AgentTrace

\* Two suppliers: one the goal means, one that the model may make up.
SmallIds ==
  [Component |-> {"COMP-101"}, Product |-> {"PROD-900"}, Process |-> {},
   Supplier |-> {"SUP-002", "SUP-999"}]

Impact(s)  == [tool |-> SUPPLIER_IMPACT, form |-> "valid",
               about |-> {[label |-> "Supplier", id |-> s]}]
Path(c, p) == [tool |-> SUPPLY_PATH, form |-> "valid",
               about |-> {Component(c), [label |-> "Product", id |-> p]}]

\* A description of SUP-002, one that the heuristic does not understand, and a
\* question for a path with the id of somebody else in it.
SmallGoals ==
  {[ids |-> {}, plan |-> <<Impact("SUP-002")>>],
   [ids |-> {}, plan |-> <<>>],
   [ids |-> Node \ Labelled("Component"), plan |-> <<Path("COMP-101", "PROD-900")>>]}
==============================================================================
