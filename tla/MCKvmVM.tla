------------------------------ MODULE MCKvmVM ------------------------------
(* Instances of KvmVM for TLC. *)
EXTENDS KvmVM
============================================================================
