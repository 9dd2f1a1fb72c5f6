---------------------------- MODULE MCIOMeshage ----------------------------
(* Instances of IOMeshage for TLC: the nodes s, a and b are linked in this *)
(* order, so that a relays what s and b send each other.  The files have  *)
(* two parts or one, or none.                                              *)
EXTENDS IOMeshage
CONSTANTS s, a, b, f1, f2, empty
Line == [p \in Nodes \X Nodes |-> IF p \in {<<s, b>>, <<b, s>>} THEN {a} ELSE {}]
Sizes == [x \in Files |-> IF x = empty THEN 0 ELSE 2]
Call(n, x, i) == [node |-> n, file |-> x, n |-> i]
EveryoneOnce == {Call(a, f1, 1), Call(b, f1, 1)}
Small == [x \in Files |-> IF x = empty THEN 0 ELSE 1]
Repeatedly == {Call(a, f1, 1), Call(a, f1, 2), Call(a, empty, 1), Call(a, f2, 1)}
============================================================================
