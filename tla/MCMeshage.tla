----------------------------- MODULE MCMeshage -----------------------------
(* Instances of Meshage for TLC: two nodes that dial each other, and three *)
(* nodes that have formed the line left - mid - right.                     *)
EXTENDS Meshage

CONSTANTS left, mid, right

Pair == {<<left, mid>>, <<mid, left>>}

Line == {<<mid, left>>, <<mid, right>>}
FromEnd == {<<left, {mid, right}>>}

(* Link 1 joins left and mid, link 2 joins mid and right. *)
Joined == [l \in Links |-> IF l = 1 THEN {left, mid} ELSE {mid, right}]

(* Both handshakes are over and all four handlers read; every node has     *)
(* applied the announcements of mid and right.  That of left was held back *)
(* by the rate limit: its periodicMSA had run just before the connection.  *)
LineInit ==
    /\ nlinks = 2
    /\ dialer = [l \in Links |-> mid]
    /\ acceptor = [l \in Links |-> IF l = 1 THEN left ELSE right]
    /\ open = Joined /\ phase = [l \in Links |-> "named"]
    /\ listener = [n \in Nodes |-> NoLink]
    /\ clients = [n \in Nodes |-> [m \in Nodes |->
         IF {n, m} = Joined[1] THEN 1 ELSE IF {n, m} = Joined[2] THEN 2 ELSE NoLink]]
    /\ hand = [n \in Nodes |-> [l \in Links |-> IF n \in Joined[l] THEN "reading" ELSE "none"]]
    /\ serves = [n \in Nodes |-> [l \in Links |-> IF n \in Joined[l] THEN l ELSE NoLink]]
    /\ sequences = [n \in Nodes |-> [m \in Nodes |-> IF m = left THEN 0 ELSE 1]]
    /\ network = [n \in Nodes |-> [m \in Nodes |->
         IF m = left THEN {} ELSE IF m = mid THEN {left, right} ELSE {mid}]]
    /\ updateNetwork = [n \in Nodes |-> TRUE]
    /\ routes = [n \in Nodes |-> [m \in Nodes |-> None]]
    /\ outbox = {} /\ pump = [n \in Nodes |-> <<>>] /\ msas = {} /\ forwards = {}
    /\ calls = [i \in Sends |-> [st |-> "none", err |-> FALSE, to |-> {}]]
    /\ received = [i \in Sends |-> [n \in Nodes |-> 0]]

LineSpec == LineInit /\ [][Next]_vars /\ Fairness

============================================================================
