--------------------------- MODULE MCContainerRun ---------------------------
(* Instances of ContainerRun for TLC: MaxKills is set in the cfg. *)
EXTENDS ContainerRun
=============================================================================
