---------------------------- MODULE MCScheduler ----------------------------
(* Instances of Scheduler for TLC: four hosts, one of them twice as large. *)
EXTENDS Scheduler
CONSTANTS h1, h2, h3, h4
Symmetry == Permutations({h2, h3, h4})
Sizes == [h \in HostNames |-> IF h = h1 THEN 2 ELSE 1]
Config(names, schedule, colocate, coschedule, load) ==
    [names |-> names, schedule |-> schedule, colocate |-> colocate,
     coschedule |-> coschedule, load |-> load]
(* A pair without demands, a VM that is pinned and takes one peer, and a chain *)
(* of VMs that are colocated with one of the pair                              *)
Various ==
    {Config(<<"a", "b">>, Unset, Unset, -1, 1), Config(<<"c">>, Localhost, Unset, 1, 2),
     Config(<<"d">>, Unset, "b", -1, 1), Config(<<"e">>, Unset, "d", 2, 0)}
(* x, and y which is colocated with it *)
Couple == {Config(<<"x">>, Unset, Unset, -1, 1), Config(<<"y">>, Unset, "x", -1, 1)}
============================================================================
