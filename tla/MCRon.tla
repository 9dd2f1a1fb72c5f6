------------------------------- MODULE MCRon -------------------------------
(* Ron with small sets of VMs, connections and commands. *)
EXTENDS Ron
=============================================================================
