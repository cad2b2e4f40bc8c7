--------------------------- MODULE MCCoordinator ----------------------------
EXTENDS Coordinator

Planned(topo, vms) == [topo |-> topo, outcome |-> "planned", vms |-> vms]
Ends(topo, outcome) == [topo |-> topo, outcome |-> outcome, vms |-> <<1, 1>>]

(* The same topology twice in a run and in two runs with other numbers of    *)
(* VMs; tests that are skipped and that raise an exception.                  *)
MCBatch == << <<Planned("a", <<2, 1>>), Ends("b", "skipped"), Planned("a", <<2, 1>>)>>,
              <<Planned("a", <<1, 2>>), Ends("b", "raised"), Planned("a", <<1, 2>>)>>,
              <<Planned("a", <<2, 1>>)>> >>
=============================================================================
