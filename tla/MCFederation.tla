----------------------------- MODULE MCFederation -----------------------------
(***************************************************************************)
(* Small instances of the federated join.                                  *)
(***************************************************************************)
EXTENDS FederatedJoin, TLC

\* One part with two possible suppliers: enough for single-source claims.
TwoSuppliers ==
  [Component |-> {"COMP-100"}, Product |-> {"PROD-900"}, Process |-> {"PROC-10"},
   Supplier |-> {"SUP-001", "SUP-002"}]

\* A single part, supplier and product.
OneLink ==
  [Component |-> {"COMP-100"}, Product |-> {"PROD-900"}, Process |-> {},
   Supplier |-> {"SUP-001"}]

\* Two requests of the server are alike.
AnyOrder == Permutations(Requests)

\* Two parts of one supplier: requests that read different sets of parts.
TwoParts ==
  [Component |-> {"COMP-100", "COMP-101"}, Product |-> {}, Process |-> {},
   Supplier |-> {"SUP-001"}]
==============================================================================
