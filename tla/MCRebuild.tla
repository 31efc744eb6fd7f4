------------------------------- MODULE MCRebuild -------------------------------
(***************************************************************************)
(* Two scripts that reset and reload, and the order of the calls of all    *)
(* scripts: which of them meet the conditions of the theorems.             *)
(***************************************************************************)
EXTENDS MCIngest, IngestOrder

Calls(names) == {AllPrograms[s] : s \in names}

ASSUME StampingScripts ==
  \A p \in Calls({"seed", "seed_reset", "explore", "federation", "server"}) : ConfiguresFirst(p)

\* The connectors write components into domains they have not configured.
ASSUME UnstampedScripts ==
  \A p \in Calls({"ebom", "routing", "sourcing"}) : ~ConfiguresFirst(p)

ASSUME AddingScripts ==
  \A p \in Calls({"seed", "ebom", "routing", "sourcing", "server"}) :
    AddsInOrder(p) /\ PartsInOrder(p)

\* --seed opens the connection before --reset unlinks the file.
ASSUME RebuildingScripts ==
  /\ \A p \in Calls({"seed", "seed_reset"}) : Rebuilds(p)
  /\ \A p \in Calls({"server", "loader"}) : Bystands(p)
  /\ ~Rebuilds(AllPrograms["explore"])

ASSUME MasterScripts ==
  /\ \A p \in Calls({"seed", "seed_reset"}) : OpensForRows(p) /\ MasterFirst(p)
  /\ \A p \in Calls({"ebom", "routing", "server", "loader"}) : LeavesMaster(p)
  /\ ~OpensForRows(AllPrograms["explore"]) /\ ~MasterFirst(AllPrograms["sourcing"])
==============================================================================
