--------------------------- MODULE VirtualNetwork ---------------------------
(***************************************************************************)
(* What `agent -o setup` promises: it builds every link of the             *)
(* sub-topology once, each inside one of the backbone namespaces, never    *)
(* touches a link again, and reports success only when all are built.      *)
(***************************************************************************)
CONSTANTS Links,      \* the links of the sub-topology
          Backbones,  \* the backbone namespaces that can exist
          Nowhere     \* the place of a link that is not built

VARIABLES place,      \* place[l]: the backbone namespace link l is built in
          status

Init == /\ place = [l \in Links |-> Nowhere]
        /\ status = "building"

Build(l, b) == /\ status = "building"
               /\ place[l] = Nowhere
               /\ place' = [place EXCEPT ![l] = b]
               /\ UNCHANGED status

Succeed == /\ status = "building"
           /\ \A l \in Links : place[l] # Nowhere
           /\ status' = "ready"
           /\ UNCHANGED place

Fail == /\ status = "building"
        /\ status' = "failed"
        /\ UNCHANGED place

Next == (\E l \in Links, b \in Backbones : Build(l, b)) \/ Succeed \/ Fail

Safety == Init /\ [][Next]_<<place, status>>
=============================================================================
