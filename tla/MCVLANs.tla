------------------------------ MODULE MCVLANs ------------------------------
(* VLANs for TLC: namespaces are interchangeable. *)
EXTENDS VLANs, TLC

Symmetry == Permutations(Namespaces)
============================================================================
