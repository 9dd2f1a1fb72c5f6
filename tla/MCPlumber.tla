----------------------------- MODULE MCPlumber -----------------------------
(* Instances of Plumber for TLC: nodes a and b, pipes p1 and p2. *)
EXTENDS Plumber
CONSTANTS a, b, p1, p2, u, v, l
Write(n, x) == [op |-> "write", node |-> n, pipe |-> p1, arg |-> x]
Mode(n, m) == [op |-> "mode", node |-> n, pipe |-> p1, arg |-> m]
SetVia(n, on) == [op |-> "via", node |-> n, pipe |-> p1, arg |-> on]
Delete(n) == [op |-> "delete", node |-> n, pipe |-> p1, arg |-> None]
(* Readers 1 and 2 of p1 on a and b, and 3, which l reads, on b; l writes to p2 *)
Places == [x \in Readers \cup Pipelines |-> IF x = 1 THEN a ELSE b]
Names == [x \in Readers \cup Pipelines |-> IF x = l \/ x = 4 THEN p2 ELSE p1]
Sources == [x \in Pipelines |-> 3]
Open(r) == [op |-> "open", reader |-> r]
Close(r) == [op |-> "close", reader |-> r]
Plumbed == [op |-> "plumb", pipeline |-> l]
Unplumbed == [op |-> "unplumb", pipeline |-> l]
Scenarios ==
    { \* two writers that query each other's node
      {Open(1), Open(2), Mode(a, "rr"), Mode(b, "rr"), Write(a, u), Write(b, v)},
      \* readers come and go while all of them are written to
      {Open(1), Open(2), Close(2), Write(a, u), Write(b, v), Delete(b)},
      \* vias that cross, in random mode
      {Open(1), SetVia(a, TRUE), SetVia(b, TRUE), Mode(b, "rnd"), Write(a, u)},
      {Open(1), Open(2), SetVia(a, TRUE), SetVia(a, FALSE), Mode(a, "rr"), Write(b, v)},
      \* a pipeline that is deleted, or loses its pipe
      {Plumbed, Unplumbed, Open(4), Write(a, u), Delete(b)},
      {Plumbed, Open(4), Write(a, u), Write(b, v)} }
(* What DeliverySound takes for granted, of the scenarios and of the pipeline *)
ASSUME DeliveryAssumption == WrittenOnce /\ OnePath
(* A via and two readers on the other node *)
Shared == {{Open(2), Open(5), SetVia(a, TRUE), Mode(a, "rr"), Write(a, u)}}
(* Two values for a pipeline while its pipe is deleted *)
Stuck == {{Plumbed, Write(b, u), Write(b, v), Delete(b)}}
============================================================================
