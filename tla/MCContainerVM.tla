--------------------------- MODULE MCContainerVM ---------------------------
(* Small instances of ContainerVM. *)
EXTENDS ContainerVM

CONSTANTS br1, br2
============================================================================
