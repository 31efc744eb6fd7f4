------------------------------- MODULE MCIngest -------------------------------
(***************************************************************************)
(* Small instances of the write path: one or two components, one product,  *)
(* process and supplier each, and the repository's scripts over them.      *)
(***************************************************************************)
EXTENDS DomainIngest, IngestScripts

\* The keys the dataset writes.
MCIds ==
  [Component |-> {COMPONENT_BOM[i].component : i \in DOMAIN COMPONENT_BOM},
   Product   |-> {PRODUCTS[i] : i \in DOMAIN PRODUCTS},
   Process   |-> {PROCESSES[i] : i \in DOMAIN PROCESSES},
   Supplier  |-> {SUPPLIERS[i] : i \in DOMAIN SUPPLIERS}]

MCSuppliers == <<"SUP-001">>
MCProducts  == <<"PROD-900">>
MCProcesses == <<"PROC-10">>
MCProductProcesses == <<<<"PROD-900", "PROC-10">>>>

BomRow(c) == [component |-> c, supplier |-> "SUP-001",
              products |-> <<"PROD-900">>, processes |-> <<"PROC-10">>]
OnePart  == <<BomRow("COMP-100")>>
TwoParts == <<BomRow("COMP-100"), BomRow("COMP-101")>>

\* Every script by name; a run picks its subset with Scripts.
AllPrograms ==
  [seed       |-> SeedScript,
   seed_reset |-> SeedResetScript,
   explore    |-> ExploreResetScript,
   ebom       |-> EbomConnector,
   routing    |-> RoutingConnector,
   sourcing   |-> SourcingConnector,
   federation |-> LoadDomainsScript,
   server     |-> ServerLifetime,
   loader     |-> ForeignLoader]

MCProgram == [s \in Scripts |-> AllPrograms[s]]
==============================================================================
