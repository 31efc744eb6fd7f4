------------------------- MODULE ComponentReplication -------------------------
(***************************************************************************)
(* What the facade promises about one component while nobody resets: its   *)
(* copies appear one at a time and in a fixed order, ebom, routing,        *)
(* sourcing, and the master row comes last.  A failure between two         *)
(* transactions therefore leaves a prefix of that order, never a sourcing  *)
(* copy without the ebom one or a master row without the graph.            *)
(***************************************************************************)
EXTENDS Naturals, Sequences

CONSTANT Parts  \* the components

Order == <<"ebom", "routing", "sourcing", "master">>

VARIABLE places  \* places[c]: where component c is registered

Init == places = [c \in Parts |-> {}]

Register(c, i) ==
  /\ \A j \in 1..(i - 1) : Order[j] \in places[c]
  /\ places' = [places EXCEPT ![c] = @ \cup {Order[i]}]

Next == \E c \in Parts, i \in 1..4 : Register(c, i)

Spec == Init /\ [][Next]_places
==============================================================================
