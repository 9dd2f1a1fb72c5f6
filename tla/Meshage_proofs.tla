--------------------------- MODULE Meshage_proofs ---------------------------
(***************************************************************************)
(* Proofs about Meshage, for any number of nodes, connections, messages    *)
(* and faults.  Announcements and messages are irrelevant to the first     *)
(* part, that every client of a node has a handler: its invariant is about *)
(* the map of clients, the handlers and the ends of connections only.  The *)
(* second part is about messages, and needs nothing but the types of the   *)
(* first.  The third is about routes: that they are never stale, and that  *)
(* the breadth-first search that computes them finds shortest paths.       *)
(***************************************************************************)
EXTENDS Meshage, FiniteSetTheorems, WellFoundedInduction, TLAPS

(* The types of the variables that matter here. *)
LinkType ==
    /\ nlinks \in 0 .. MaxLinks
    /\ dialer \in [Links -> Nodes \cup {None}] /\ acceptor \in [Links -> Nodes \cup {None}]
    /\ phase \in [Links -> {"none", "backlog", "greeted", "named", "refused"}]
    /\ clients \in [Nodes -> [Nodes -> Links \cup {NoLink}]]
    /\ hand \in [Nodes -> [Links -> {"none", "spawned", "reading", "done"}]]
    /\ serves \in [Nodes -> [Links -> Links \cup {NoLink}]]

(* Connections beyond nlinks are untouched; the others join two nodes. *)
Dialed == \A l \in Links :
    /\ nlinks < l => phase[l] = "none"
    /\ phase[l] # "none" =>
         dialer[l] \in Nodes /\ acceptor[l] \in Nodes /\ dialer[l] # acceptor[l]

(* A handler was started at the end of a connection. *)
HandlerAtEnd == \A n \in Nodes : \A l \in Links :
    hand[n][l] # "none" => phase[l] = "named" /\ n \in {dialer[l], acceptor[l]}

(* A client is listed under the name of its peer, and had a handler. *)
ClientNamed == \A n, m \in Nodes : \A l \in Links :
    clients[n][m] = l => hand[n][l] # "none" /\ Peer(n, l) = m

(* A handler reads from a connection to the peer it was started for. *)
ServesPeer == \A n \in Nodes : \A l \in Links :
    hand[n][l] = "reading" =>
        /\ serves[n][l] \in Links
        /\ hand[n][serves[n][l]] # "none"
        /\ Peer(n, serves[n][l]) = Peer(n, l)

IInv == LinkType /\ Dialed /\ HandlerAtEnd /\ ClientNamed /\ ServesPeer /\ ClientHasHandler

invVars == <<nlinks, dialer, acceptor, phase, clients, hand, serves>>

(* The invariant holds when nothing is connected. *)
LEMMA InitIInv == Init => IInv
  BY BoundsAssumption
  DEF Init, IInv, LinkType, Dialed, HandlerAtEnd, ClientNamed, ServesPeer, ClientHasHandler,
      Links, NoLink

(* No other variable matters. *)
LEMMA StutterIInv == IInv /\ UNCHANGED invVars => IInv'
  BY DEF invVars, IInv, LinkType, Dialed, HandlerAtEnd, ClientNamed, ServesPeer,
         ClientHasHandler, Peer

(* A new connection has no handlers and is in no map of clients. *)
LEMMA DialIInv == ASSUME NEW d \in Dials, IInv, Dial(d) PROVE IInv'
<1> DEFINE k == nlinks + 1
<1>1. k \in Links /\ d[1] \in Nodes /\ d[2] \in Nodes /\ d[1] # d[2]
  BY DialsAssumption, BoundsAssumption DEF Dial, IInv, LinkType, Links
<1>2. /\ nlinks' = k
      /\ dialer' = [dialer EXCEPT ![k] = d[1]]
      /\ acceptor' = [acceptor EXCEPT ![k] = d[2]]
      /\ phase' = [phase EXCEPT ![k] = "backlog"]
      /\ UNCHANGED <<clients, hand, serves>>
  BY DEF Dial, clientVars
<1>3. phase[k] = "none" /\ \A n \in Nodes : hand[n][k] = "none"
  BY <1>1 DEF IInv, LinkType, Dialed, HandlerAtEnd, Links
<1>4. \A l \in Links \ {k} : dialer'[l] = dialer[l] /\ acceptor'[l] = acceptor[l]
                            /\ phase'[l] = phase[l]
  BY <1>2 DEF IInv, LinkType
<1>5. \A n \in Nodes : \A l \in Links \ {k} : Peer(n, l)' = Peer(n, l)
  BY <1>4 DEF Peer
<1>6. LinkType'
  BY <1>1, <1>2 DEF IInv, LinkType, Links, Dial
<1>7. Dialed'
  BY <1>1, <1>2, <1>4 DEF IInv, LinkType, Dialed, Links
<1>8. HandlerAtEnd'
  BY <1>2, <1>3, <1>4 DEF IInv, LinkType, HandlerAtEnd
<1>9. ClientNamed'
  BY <1>2, <1>3, <1>5 DEF IInv, LinkType, ClientNamed
<1>10. ServesPeer'
  BY <1>2, <1>3, <1>5 DEF IInv, LinkType, ServesPeer
<1>11. ClientHasHandler'
  BY <1>2 DEF IInv, ClientHasHandler
<1> QED BY <1>6, <1>7, <1>8, <1>9, <1>10, <1>11 DEF IInv

(* The handshake moves on before anybody has a handler for it. *)
LEMMA HandshakeIInv ==
  ASSUME NEW l \in Links, IInv,
         phase[l] \in {"backlog", "greeted"},
         NEW p \in {"greeted", "named", "refused"},
         phase' = [phase EXCEPT ![l] = p],
         UNCHANGED <<nlinks, dialer, acceptor, clientVars>>
  PROVE  IInv'
<1>1. \A n \in Nodes : hand[n][l] = "none"
  BY DEF IInv, HandlerAtEnd
<1>2. \A n \in Nodes : \A j \in Links : Peer(n, j)' = Peer(n, j)
  BY DEF Peer
<1>3. \A j \in Links \ {l} : phase'[j] = phase[j]
  BY DEF IInv, LinkType
<1>4. LinkType' /\ Dialed'
  BY <1>3 DEF IInv, LinkType, Dialed, clientVars
<1>5. HandlerAtEnd'
  BY <1>1, <1>3 DEF IInv, HandlerAtEnd, clientVars
<1>6. ClientNamed' /\ ServesPeer' /\ ClientHasHandler'
  BY <1>2 DEF IInv, LinkType, ClientNamed, ServesPeer, ClientHasHandler, clientVars
<1> QED BY <1>4, <1>5, <1>6 DEF IInv

(* A client replaces whatever was there under its peer's name, and brings  *)
(* a handler of its own; its link was in no map before.                    *)
LEMMA InsertIInv ==
  ASSUME NEW l \in Links, NEW n \in {dialer[l], acceptor[l]}, IInv, Insert(n, l)
  PROVE  IInv'
<1> DEFINE q == Peer(n, l)
<1>1. n \in Nodes /\ q \in Nodes /\ phase[l] = "named" /\ hand[n][l] = "none"
  BY DEF Insert, IInv, Dialed, Peer
<1>2. /\ UNCHANGED <<serves, nlinks, dialer, acceptor, phase>>
      /\ clients' = [clients EXCEPT ![n][q] = l]
      /\ hand' = [hand EXCEPT ![n][l] = "spawned"]
  BY DEF Insert
<1>3. \A k \in Nodes : \A j \in Links : Peer(k, j)' = Peer(k, j)
  BY <1>2 DEF Peer
<1>4. LinkType'
  BY <1>1, <1>2 DEF IInv, LinkType
<1>5. Dialed' /\ HandlerAtEnd'
  BY <1>1, <1>2, <1>4 DEF IInv, LinkType, Dialed, HandlerAtEnd
<1>6. \A k, m \in Nodes : clients'[k][m] = IF k = n /\ m = q THEN l ELSE clients[k][m]
  BY <1>1, <1>2 DEF IInv, LinkType
<1>7. \A k \in Nodes : \A j \in Links :
        hand'[k][j] = IF k = n /\ j = l THEN "spawned" ELSE hand[k][j]
  BY <1>1, <1>2 DEF IInv, LinkType
<1>8. ClientNamed'
  <2> SUFFICES ASSUME NEW k \in Nodes, NEW m \in Nodes, NEW j \in Links, clients'[k][m] = j
               PROVE  hand'[k][j] # "none" /\ Peer(k, j) = m
    BY <1>3 DEF ClientNamed
  <2>1. CASE k = n /\ m = q
    BY <2>1, <1>6, <1>7
  <2>2. CASE ~ (k = n /\ m = q)
    BY <2>2, <1>6, <1>7 DEF IInv, ClientNamed
  <2> QED BY <2>1, <2>2
<1>9. ServesPeer'
  BY <1>1, <1>2, <1>3 DEF IInv, LinkType, ServesPeer
<1>10. ClientHasHandler'
  <2> SUFFICES ASSUME NEW k \in Nodes, NEW m \in Nodes, NEW j \in Links, clients'[k][m] = j
               PROVE  \/ hand'[k][j] = "spawned"
                      \/ hand'[k][j] = "reading" /\ serves'[k][j] = j
    BY DEF ClientHasHandler
  <2>1. CASE k = n /\ m = q
    BY <2>1, <1>6, <1>7
  <2>2. CASE ~ (k = n /\ m = q)
    BY <2>2, <1>1, <1>2, <1>6, <1>7 DEF IInv, ClientNamed, ClientHasHandler
  <2> QED BY <2>1, <2>2
<1> QED BY <1>4, <1>5, <1>8, <1>9, <1>10 DEF IInv

(* The handler for a link that is still a client's gets just this link. *)
LEMMA StartIInv ==
  ASSUME NEW n \in Nodes, NEW l \in Links, IInv, HandlerStart(n, l) PROVE IInv'
<1> DEFINE q == Peer(n, l)
           k == clients[n][q]
<1>1. q \in Nodes /\ hand[n][l] = "spawned" /\ k \in Links \cup {NoLink}
  BY DEF HandlerStart, IInv, LinkType, Dialed, HandlerAtEnd, Peer
<1>2. /\ UNCHANGED <<clients, nlinks, dialer, acceptor, phase>>
      /\ hand' = [hand EXCEPT ![n][l] = IF k = NoLink THEN "done" ELSE "reading"]
      /\ serves' = [serves EXCEPT ![n][l] = k]
  BY DEF HandlerStart, linkVars
<1>3. \A m \in Nodes : \A j \in Links : Peer(m, j)' = Peer(m, j)
  BY <1>2 DEF Peer
<1>4. LinkType'
  BY <1>1, <1>2 DEF IInv, LinkType
<1>5. Dialed' /\ HandlerAtEnd'
  BY <1>1, <1>2 DEF IInv, LinkType, Dialed, HandlerAtEnd
<1>6. ClientNamed'
  <2>1. \A m \in Nodes : \A j \in Links :
          hand'[m][j] = "none" <=> hand[m][j] = "none"
    BY <1>1, <1>2 DEF IInv, LinkType
  <2> QED BY <2>1, <1>2, <1>3 DEF IInv, ClientNamed
<1>7. ServesPeer'
  BY <1>1, <1>2, <1>3 DEF IInv, LinkType, ClientNamed, ServesPeer, NoLink, Links
<1>8. ClientHasHandler'
  BY <1>1, <1>2 DEF IInv, LinkType, ClientNamed, ClientHasHandler, NoLink, Links
<1> QED BY <1>4, <1>5, <1>6, <1>7, <1>8 DEF IInv

(* A handler that ends takes along what is listed under its peer's name,   *)
(* its own link included.                                                  *)
LEMMA ExitIInv ==
  ASSUME NEW n \in Nodes, NEW l \in Links, IInv, HandlerExit(n, l) PROVE IInv'
<1> DEFINE q == Peer(n, l)
<1>1. q \in Nodes /\ hand[n][l] = "reading" /\ Peer(n, serves[n][l]) = q
  BY DEF HandlerExit, IInv, LinkType, Dialed, HandlerAtEnd, ServesPeer, Peer
<1>2. /\ UNCHANGED <<serves, nlinks, dialer, acceptor, phase>>
      /\ clients' = [clients EXCEPT ![n][q] = NoLink]
      /\ hand' = [hand EXCEPT ![n][l] = "done"]
  BY <1>1 DEF HandlerExit
<1>3. \A m \in Nodes : \A j \in Links : Peer(m, j)' = Peer(m, j)
  BY <1>2 DEF Peer
<1>4. LinkType'
  BY <1>1, <1>2 DEF IInv, LinkType
<1>5. Dialed' /\ HandlerAtEnd'
  BY <1>1, <1>2 DEF IInv, LinkType, Dialed, HandlerAtEnd
<1>6. ClientNamed'
  BY <1>1, <1>2, <1>3 DEF IInv, LinkType, ClientNamed, NoLink, Links
<1>7. ServesPeer'
  BY <1>1, <1>2, <1>3 DEF IInv, LinkType, ServesPeer
<1>8. ClientHasHandler'
  BY <1>1, <1>2 DEF IInv, LinkType, ClientNamed, ClientHasHandler, NoLink, Links
<1> QED BY <1>4, <1>5, <1>6, <1>7, <1>8 DEF IInv

(* Every step of every goroutine preserves the invariant. *)
LEMMA NextIInv == IInv /\ [Next]_vars => IInv'
<1> SUFFICES ASSUME IInv, [Next]_vars PROVE IInv'
  OBVIOUS
<1>1. ASSUME NEW d \in Dials, Dial(d) PROVE IInv'
  BY <1>1, DialIInv
<1>2. ASSUME NEW l \in Links, DialStep(l) PROVE IInv'
  <2>1. CASE DialRefused(l)
    BY <2>1, HandshakeIInv DEF DialRefused
  <2>2. CASE DialNamed(l)
    BY <2>2, HandshakeIInv DEF DialNamed
  <2>3. CASE DialDone(l)
    BY <2>3, InsertIInv DEF DialDone
  <2> QED BY <1>2, <2>1, <2>2, <2>3 DEF DialStep
<1>3. ASSUME NEW n \in Nodes, ListenerStep(n) PROVE IInv'
  <2>1. PICK l \in Links : Accept(l) \/ AcceptDone(l) \/ AcceptFails(l)
    BY <1>3 DEF ListenerStep
  <2>2. CASE Accept(l)
    BY <2>2, HandshakeIInv DEF Accept
  <2>3. CASE AcceptDone(l)
    BY <2>3, InsertIInv DEF AcceptDone
  <2>4. CASE AcceptFails(l)
    BY <2>4, StutterIInv DEF AcceptFails, invVars, clientVars
  <2> QED BY <2>1, <2>2, <2>3, <2>4
<1>4. ASSUME NEW n \in Nodes, NEW l \in Links, HandlerStep(n, l) PROVE IInv'
  BY <1>4, StartIInv, ExitIInv DEF HandlerStep
<1>5. ASSUME NEW n \in Nodes, PeriodicMSA(n) \/ Update(n) \/ MessageHandler(n) PROVE IInv'
  BY <1>5, StutterIInv
  DEF PeriodicMSA, Update, MessageHandler, PumpMSA, PumpMessage, invVars, clientVars, linkVars
<1>6. ASSUME NEW n \in Nodes, NEW j \in Nodes, SendStep(n, j) \/ Hangup(n, j) PROVE IInv'
  BY <1>6, StutterIInv
  DEF SendStep, GetClient, SendOK, SendUnacked, SendFails, Hangup, invVars, clientVars, linkVars
<1>7. ASSUME \/ \E x \in msas : HandleMSA(x)
             \/ \E x \in forwards : Forward(x)
             \/ \E i \in Sends :
                  Return(i) \/ \E t \in Targets : Set(t[1], t[2], i) \/ Broadcast(t[1], i)
      PROVE  IInv'
  BY <1>7, StutterIInv
  DEF HandleMSA, Forward, Return, Set, Broadcast, invVars, clientVars, linkVars
<1>8. CASE UNCHANGED vars
  BY <1>8, StutterIInv DEF vars, invVars, clientVars, linkVars
<1> QED BY <1>1, <1>2, <1>3, <1>4, <1>5, <1>6, <1>7, <1>8 DEF Next

(* The strengthened invariant holds of every execution. *)
THEOREM IInvCorrect == Spec => []IInv
  BY InitIInv, NextIInv, PTL DEF Spec

(* Every client in the map of a node has a handler that reads from its     *)
(* connection or is about to (newConnection, dial, clientHandler).         *)
THEOREM ClientHasHandlerCorrect == Spec => []ClientHasHandler
<1>1. IInv => ClientHasHandler
  BY DEF IInv
<1> QED BY <1>1, IInvCorrect, PTL

----------------------------------------------------------------------------
(* The types of the other variables.  An announcement has a number of its  *)
(* source, and a message that of its call.                                 *)
Msgs == {m \in Message : IF m.cmd = "MSA" THEN m.id \in 0 .. MaxMSA ELSE m.id \in Sends}

Outgoing == [at : Nodes, to : Nodes, link : Links \cup {NoLink}, msg : Msgs]

EndType == open \in [Links -> SUBSET Nodes] /\ listener \in [Nodes -> Links \cup {NoLink}]

MeshType ==
    /\ sequences \in [Nodes -> [Nodes -> 0 .. MaxMSA]]
    /\ network \in [Nodes -> [Nodes -> SUBSET Nodes]]
    /\ updateNetwork \in [Nodes -> BOOLEAN]
    /\ routes \in [Nodes -> [Nodes -> Nodes \cup {None}]]

QueueType ==
    /\ outbox \subseteq Outgoing /\ pump \in [Nodes -> Seq(Msgs)]
    /\ msas \subseteq [at : Nodes, msg : Msgs] /\ forwards \subseteq [at : Nodes, msg : Msgs]

CallType ==
    /\ calls \in [Sends -> [st : {"none", "busy", "done"}, err : BOOLEAN, to : SUBSET Nodes]]
    /\ received \in [Sends -> [Nodes -> Nat]]

TypeInv == EndType /\ MeshType /\ QueueType /\ CallType

(* Nothing is connected, announced or sent. *)
LEMMA TypeInit == Init => TypeInv
  BY BoundsAssumption
  DEF Init, TypeInv, EndType, MeshType, QueueType, CallType, Links, NoLink

(* updateRoute leaves networks and routes of nodes. *)
LEMMA RouteChoicesType ==
    ASSUME NEW n \in Nodes, NEW E \in SUBSET (Nodes \X Nodes)
    PROVE  RouteChoices(n, E) \subseteq [Nodes -> Nodes \cup {None}]
<1> DEFINE first == {e[2] : e \in {d \in E : d[1] = n}}
           Total(r) == [h \in Nodes |-> IF h \in DOMAIN r THEN r[h]
                                       ELSE IF h = n /\ E # {} THEN n ELSE None]
<1>1. first \subseteq Nodes
  OBVIOUS
<1>2. ASSUME NEW r \in [Routable(n, E) \ {n} -> first]
      PROVE  Total(r) \in [Nodes -> Nodes \cup {None}]
  BY <1>1, <1>2
<1>3. ASSUME NEW q \in RouteChoices(n, E)
      PROVE  \E r \in [Routable(n, E) \ {n} -> first] : q = Total(r)
  BY Zenon DEF RouteChoices
<1>4. QED
  BY <1>2, <1>3

LEMMA CheckUpdateType ==
    ASSUME MeshType, NEW n \in Nodes, CheckUpdateNetwork(n), UNCHANGED sequences
    PROVE  MeshType'
<1>1. CASE ~ updateNetwork[n]
  BY <1>1 DEF CheckUpdateNetwork, MeshType, meshVars
<1>2. CASE updateNetwork[n]
  <2> DEFINE net == Prune(n, network[n])
             E == Effective(net)
  <2>1. net \in [Nodes -> SUBSET Nodes]
    BY DEF Prune, MeshType
  <2>2. E \subseteq Nodes \X Nodes
    BY DEF Effective
  <2>3. RouteChoices(n, E) \subseteq [Nodes -> Nodes \cup {None}]
    BY <2>2, RouteChoicesType
  <2>4. PICK r \in RouteChoices(n, E) :
           /\ routes' = [routes EXCEPT ![n] = r] /\ network' = [network EXCEPT ![n] = net]
           /\ updateNetwork' = [updateNetwork EXCEPT ![n] = FALSE]
    BY <1>2 DEF CheckUpdateNetwork
  <2>5. QED
    BY <2>1, <2>3, <2>4 DEF MeshType
<1>3. QED
  BY <1>1, <1>2

(* What is flooded, announced and routed are messages to nodes. *)
LEMMA FloodType ==
    ASSUME NEW n \in Nodes, NEW m \in Msgs, NEW cs
    PROVE  Flood(n, m, cs) \subseteq Outgoing
  BY DEF Flood, Outgoing

LEMMA MSAType ==
    ASSUME MeshType, QueueType, NEW n \in Nodes, NEW cs,
           LimitedMSA(n, cs)
    PROVE  MeshType' /\ QueueType'
<1>1. CASE UNCHANGED <<sequences, meshVars, messageVars>>
  BY <1>1 DEF MeshType, QueueType, meshVars, messageVars
<1>2. CASE MSA(n, cs)
  <2> DEFINE C == {k \in Nodes : cs[k] # NoLink}
             id == sequences[n][n] + 1
             m == [cmd |-> "MSA", src |-> n, id |-> id, body |-> C, rec |-> {}, route |-> {n}]
  <2>1. /\ network' = [network EXCEPT ![n][n] = C]
        /\ updateNetwork' = [updateNetwork EXCEPT ![n] = @ \/ network[n][n] # C]
        /\ UNCHANGED <<routes, pump, msas, forwards>>
        /\ \/ UNCHANGED <<sequences, outbox>>
           \/ /\ id <= MaxMSA /\ sequences' = [sequences EXCEPT ![n][n] = id]
              /\ outbox' = outbox \cup Flood(n, m, cs)
    BY <1>2 DEF MSA
  <2>2. sequences[n][n] \in 0 .. MaxMSA
    BY DEF MeshType
  <2>3. id <= MaxMSA => id \in 0 .. MaxMSA /\ m \in Msgs
    <3>1. id <= MaxMSA => id \in 0 .. MaxMSA /\ id \in Nat
      BY <2>2, BoundsAssumption
    <3>2. QED
      BY <3>1 DEF Msgs, Message
  <2>4. updateNetwork' \in [Nodes -> BOOLEAN]
    BY <2>1 DEF MeshType
  <2>5. network' \in [Nodes -> [Nodes -> SUBSET Nodes]]
    BY <2>1 DEF MeshType
  <2>6. sequences' \in [Nodes -> [Nodes -> 0 .. MaxMSA]]
    <3>1. CASE UNCHANGED sequences
      BY <3>1 DEF MeshType
    <3>2. CASE id <= MaxMSA /\ sequences' = [sequences EXCEPT ![n][n] = id]
      <4>1. id \in 0 .. MaxMSA
        BY <2>3, <3>2
      <4> HIDE DEF id
      <4>2. QED
        BY <3>2, <4>1 DEF MeshType
    <3>3. QED
      BY <2>1, <3>1, <3>2
  <2>7. outbox' \subseteq Outgoing
    BY <2>1, <2>3, FloodType DEF QueueType
  <2>8. QED
    BY <2>1, <2>4, <2>5, <2>6, <2>7 DEF MeshType, QueueType
<1>3. QED
  BY <1>1, <1>2 DEF LimitedMSA

LEMMA CopiesType ==
    ASSUME NEW n \in Nodes, NEW m \in Msgs, NEW r \in [Nodes -> Nodes \cup {None}]
    PROVE  Copies(n, m, r) \subseteq Outgoing
<1>1. m \in Message /\ m.rec \subseteq Nodes
  BY DEF Msgs, Message
<1>2. ASSUME NEW h \in {r[v] : v \in Routed(n, m.rec, r)}
      PROVE  [at |-> n, to |-> h, link |-> NoLink,
              msg |-> [m EXCEPT !.rec = {v \in Routed(n, m.rec, r) : r[v] = h}]] \in Outgoing
  <2> DEFINE R == {v \in Routed(n, m.rec, r) : r[v] = h}
  <2>1. h \in Nodes /\ R \in SUBSET Nodes
    BY <1>1 DEF Routed
  <2>2. [m EXCEPT !.rec = R] \in Msgs
    BY <1>1, <2>1 DEF Msgs, Message
  <2>3. QED
    BY <2>1, <2>2 DEF Outgoing
<1>3. QED
  BY <1>2 DEF Copies

(* A goroutine in clientSend that fails tells its caller. *)
LEMMA SendErrType ==
    ASSUME QueueType, CallType, NEW x \in outbox, SendErr(x), UNCHANGED received
    PROVE  outbox' \subseteq Outgoing /\ CallType'
<1>1. OfCaller(x) => x.msg.id \in Sends
  BY DEF OfCaller, QueueType, Outgoing, Msgs
<1>2. calls' \in [Sends -> [st : {"none", "busy", "done"}, err : BOOLEAN, to : SUBSET Nodes]]
  <2>1. CASE OfCaller(x)
    <3> DEFINE i == x.msg.id
    <3>1. /\ calls[i] \in [st : {"none", "busy", "done"}, err : BOOLEAN, to : SUBSET Nodes]
          /\ calls' = [calls EXCEPT ![i] = [calls[i] EXCEPT !.err = TRUE]]
      BY <1>1, <2>1 DEF SendErr, CallType
    <3>2. [calls[i] EXCEPT !.err = TRUE]
             \in [st : {"none", "busy", "done"}, err : BOOLEAN, to : SUBSET Nodes]
      BY <3>1
    <3>3. QED
      BY <3>1, <3>2 DEF CallType
  <2>2. CASE ~ OfCaller(x)
    BY <2>2 DEF SendErr, CallType
  <2>3. QED
    BY <2>1, <2>2
<1>3. QED
  BY <1>2 DEF SendErr, QueueType, CallType

(* Set, Broadcast and Forward. *)
LEMMA SendToType ==
    ASSUME QueueType, CallType, routes' \in [Nodes -> [Nodes -> Nodes \cup {None}]],
           NEW n \in Nodes, NEW R \in SUBSET Nodes, NEW i \in Sends, SendTo(n, R, i),
           UNCHANGED received
    PROVE  outbox' \subseteq Outgoing /\ CallType'
<1> DEFINE m == [cmd |-> "MESSAGE", src |-> n, id |-> i, body |-> {}, rec |-> R, route |-> {n}]
           c == [st |-> "busy", err |-> R = {n}, to |-> Routed(n, R, routes'[n])]
<1>1. outbox' = outbox \cup Copies(n, m, routes'[n]) /\ calls' = [calls EXCEPT ![i] = c]
  BY DEF SendTo
<1>2. m \in Msgs
  BY DEF Msgs, Message, Sends
<1>3. Copies(n, m, routes'[n]) \subseteq Outgoing
  <2> HIDE DEF m
  <2>1. QED
    BY <1>2, CopiesType
<1>4. c \in [st : {"none", "busy", "done"}, err : BOOLEAN, to : SUBSET Nodes]
  BY DEF Routed
<1>5. QED
  <2> HIDE DEF c, m
  <2>1. QED
    BY <1>1, <1>3, <1>4 DEF QueueType, CallType

(* Every step keeps the types. *)
LEMMA TypeStep ==
    ASSUME IInv, TypeInv, [Next]_vars
    PROVE  TypeInv'
<1> USE DEF TypeInv
<1>e. ASSUME UNCHANGED <<open, listener>> PROVE EndType'
  BY <1>e DEF EndType
<1>m. ASSUME UNCHANGED <<sequences, meshVars>> PROVE MeshType'
  BY <1>m DEF MeshType, meshVars
<1>q. ASSUME UNCHANGED messageVars PROVE QueueType'
  BY <1>q DEF QueueType, messageVars
<1>c. ASSUME UNCHANGED <<calls, received>> PROVE CallType'
  BY <1>c DEF CallType
<1>1. ASSUME NEW d \in Dials, Dial(d) PROVE TypeInv'
  <2>1. d[1] \in Nodes /\ d[2] \in Nodes
    BY DialsAssumption
  <2>2. EndType'
    BY <1>1, <2>1 DEF Dial, EndType
  <2>3. QED
    BY <1>1, <1>m, <1>q, <1>c, <2>2 DEF Dial
<1>2. ASSUME NEW l \in Links, DialStep(l) PROVE TypeInv'
  <2>1. EndType'
    BY <1>2 DEF DialStep, DialRefused, DialNamed, DialDone, Insert, EndType
  <2>2. QED
    BY <1>2, <1>m, <1>q, <1>c, <2>1 DEF DialStep, DialRefused, DialNamed, DialDone, Insert
<1>3. ASSUME NEW n \in Nodes, ListenerStep(n) PROVE TypeInv'
  <2>1. PICK l \in Links : Accept(l) \/ AcceptDone(l) \/ AcceptFails(l)
    BY <1>3 DEF ListenerStep
  <2>2. EndType'
    BY <2>1 DEF Accept, AcceptDone, AcceptFails, Insert, EndType
  <2>3. QED
    BY <2>1, <1>m, <1>q, <1>c, <2>2 DEF Accept, AcceptDone, AcceptFails, Insert
<1>4. ASSUME NEW n \in Nodes, NEW l \in Links, HandlerStart(n, l) PROVE TypeInv'
  <2>1. EndType' /\ CallType'
    BY <1>4, <1>e, <1>c DEF HandlerStart, linkVars
  <2>2. MeshType' /\ QueueType'
    BY <1>4, <1>m, <1>q, MSAType DEF HandlerStart
  <2>3. QED
    BY <2>1, <2>2
<1>5. ASSUME NEW n \in Nodes, NEW l \in Links, HandlerExit(n, l) PROVE TypeInv'
  <2>1. EndType'
    BY <1>5 DEF HandlerExit, EndType
  <2>2. MeshType' /\ QueueType'
    BY <1>5, MSAType DEF HandlerExit
  <2>3. QED
    BY <1>5, <1>c, <2>1, <2>2 DEF HandlerExit
<1>6. ASSUME NEW n \in Nodes, PeriodicMSA(n) PROVE TypeInv'
  BY <1>6, <1>e, <1>c, MSAType DEF PeriodicMSA, LimitedMSA, linkVars
<1>7. ASSUME NEW n \in Nodes, Update(n) PROVE TypeInv'
  BY <1>7, <1>e, <1>c, <1>q, CheckUpdateType DEF Update, linkVars
<1>8. ASSUME NEW n \in Nodes, NEW k \in Nodes, Hangup(n, k) PROVE TypeInv'
  <2>1. EndType'
    BY <1>8 DEF Hangup, EndType
  <2>2. QED
    BY <1>8, <1>m, <1>q, <1>c, <2>1 DEF Hangup
<1>9. ASSUME NEW x \in outbox, GetClient(x) PROVE TypeInv'
  <2> DEFINE l == clients[x.at][x.to]
  <2>1. x \in Outgoing /\ l \in Links \cup {NoLink}
    BY DEF QueueType, Outgoing, IInv, LinkType
  <2>2. UNCHANGED <<open, listener, sequences, meshVars, pump, msas, forwards, received>>
    BY <1>9 DEF GetClient, linkVars
  <2>3. outbox' \subseteq Outgoing /\ CallType'
    <3>1. CASE l = NoLink
      BY <1>9, <2>2, <3>1, SendErrType DEF GetClient
    <3>2. CASE l # NoLink
      <4>1. outbox' = (outbox \ {x}) \cup {[x EXCEPT !.link = l]} /\ UNCHANGED calls
        BY <1>9, <3>2 DEF GetClient
      <4>2. [x EXCEPT !.link = l] \in Outgoing
        BY <2>1 DEF Outgoing
      <4>3. QED
        BY <1>c, <2>2, <4>1, <4>2 DEF QueueType
    <3>3. QED
      BY <3>1, <3>2
  <2>4. QED
    BY <1>e, <1>m, <2>2, <2>3 DEF QueueType
<1>10. ASSUME NEW x \in outbox, SendOK(x) \/ SendUnacked(x) \/ SendFails(x) PROVE TypeInv'
  <2>1. x.to \in Nodes /\ x.msg \in Msgs /\ pump \in [Nodes -> Seq(Msgs)]
    BY DEF QueueType, Outgoing
  <2>2. UNCHANGED <<sequences, meshVars, msas, forwards, received, listener>>
    BY <1>10 DEF SendOK, SendUnacked, SendFails, linkVars
  <2>3. EndType'
    BY <1>10 DEF SendOK, SendUnacked, SendFails, linkVars, EndType
  <2>4. outbox' \subseteq Outgoing /\ CallType'
    BY <1>10, <1>c, <2>2, SendErrType DEF SendOK, SendUnacked, SendFails, QueueType
  <2>5. pump' \in [Nodes -> Seq(Msgs)]
    <3>1. Append(pump[x.to], x.msg) \in Seq(Msgs)
      BY <2>1
    <3>2. pump' = pump \/ pump' = [pump EXCEPT ![x.to] = Append(pump[x.to], x.msg)]
      BY <1>10 DEF SendOK, SendUnacked, SendFails
    <3>3. QED
      BY <2>1, <3>1, <3>2
  <2>6. QED
    BY <1>m, <2>2, <2>3, <2>4, <2>5 DEF QueueType
<1>11. ASSUME NEW j \in Nodes, PumpMSA(j) PROVE TypeInv'
  <2> DEFINE m == Head(pump[j])
             passed == [m EXCEPT !.route = @ \cup {j}]
  <2>1. /\ m \in Msgs /\ m.cmd = "MSA" /\ Tail(pump[j]) \in Seq(Msgs)
        /\ pump' = [pump EXCEPT ![j] = Tail(@)]
    BY <1>11 DEF PumpMSA, QueueType
  <2>2. m \in Message /\ m.src \in Nodes /\ m.id \in 0 .. MaxMSA
    BY <2>1 DEF Msgs, Message
  <2>3. passed \in Msgs
    BY <2>1, <2>2 DEF Msgs, Message
  <2>4. /\ UNCHANGED <<open, listener, meshVars, forwards, calls, received>>
        /\ \/ UNCHANGED <<sequences, msas, outbox>>
           \/ /\ sequences' = [sequences EXCEPT ![j][m.src] = m.id]
              /\ msas' = msas \cup {[at |-> j, msg |-> passed]}
              /\ outbox' = outbox \cup Flood(j, passed, clients[j])
    BY <1>11 DEF PumpMSA, linkVars
  <2> HIDE DEF m, passed
  <2>5. MeshType'
    <3>1. sequences' \in [Nodes -> [Nodes -> 0 .. MaxMSA]]
      <4>1. CASE UNCHANGED sequences
        BY <4>1 DEF MeshType
      <4>2. CASE sequences' = [sequences EXCEPT ![j][m.src] = m.id]
        BY <2>2, <4>2 DEF MeshType
      <4>3. QED
        BY <2>4, <4>1, <4>2
    <3>2. QED
      BY <2>4, <3>1 DEF MeshType, meshVars
  <2>6. QueueType'
    BY <2>1, <2>3, <2>4, FloodType DEF QueueType
  <2>7. QED
    BY <1>e, <1>c, <2>4, <2>5, <2>6
<1>12. ASSUME NEW j \in Nodes, PumpMessage(j) PROVE TypeInv'
  <2> DEFINE m == Head(pump[j])
             f == [m EXCEPT !.route = @ \cup {j}, !.rec = @ \ {j}]
  <2>1. /\ m \in Msgs /\ m.cmd = "MESSAGE" /\ Tail(pump[j]) \in Seq(Msgs)
        /\ pump' = [pump EXCEPT ![j] = Tail(@)]
    BY <1>12 DEF PumpMessage, QueueType
  <2>2. m \in Message /\ m.id \in Sends
    BY <2>1 DEF Msgs
  <2>3. f \in Msgs
    BY <2>1, <2>2 DEF Msgs, Message
  <2>4. /\ UNCHANGED <<open, listener, sequences, meshVars, outbox, msas, calls>>
        /\ received' = IF j \in m.rec THEN [received EXCEPT ![m.id][j] = @ + 1] ELSE received
        /\ forwards' = forwards \cup {[at |-> j, msg |-> f]}
    BY <1>12 DEF PumpMessage, linkVars
  <2> HIDE DEF m, f
  <2>5. CallType'
    BY <2>2, <2>4 DEF CallType
  <2>6. QueueType'
    BY <2>1, <2>3, <2>4 DEF QueueType
  <2>7. QED
    BY <1>e, <1>m, <2>4, <2>5, <2>6
<1>13. ASSUME NEW x \in msas, HandleMSA(x) PROVE TypeInv'
  <2>1. x.at \in Nodes /\ x.msg.src \in Nodes /\ x.msg.body \in SUBSET Nodes
    BY DEF QueueType, Msgs, Message
  <2>2. /\ network' \in [Nodes -> [Nodes -> SUBSET Nodes]]
        /\ updateNetwork' \in [Nodes -> BOOLEAN]
    BY <1>13, <2>1 DEF HandleMSA, MeshType
  <2>3. MeshType' /\ QueueType'
    BY <1>13, <2>2 DEF HandleMSA, MeshType, QueueType
  <2>4. QED
    BY <1>13, <1>e, <1>c, <2>3 DEF HandleMSA, linkVars
<1>14. ASSUME NEW x \in forwards, Forward(x) PROVE TypeInv'
  <2>1. x.at \in Nodes /\ x.msg \in Msgs
    BY DEF QueueType
  <2>2. MeshType'
    BY <1>14, <2>1, CheckUpdateType DEF Forward
  <2>3. Copies(x.at, x.msg, routes'[x.at]) \subseteq Outgoing
    BY <2>1, <2>2, CopiesType DEF MeshType
  <2>4. QueueType'
    BY <1>14, <2>3 DEF Forward, QueueType
  <2>5. QED
    BY <1>14, <1>e, <1>c, <2>2, <2>4 DEF Forward, linkVars
<1>15. ASSUME NEW i \in Sends, Return(i) PROVE TypeInv'
  <2>1. CallType'
    BY <1>15 DEF Return, CallType
  <2>2. QED
    BY <1>15, <1>e, <1>m, <1>q, <2>1 DEF Return, linkVars
<1>16. ASSUME NEW i \in Sends, NEW t \in Targets, Set(t[1], t[2], i) \/ Broadcast(t[1], i)
       PROVE  TypeInv'
  <2>1. t[1] \in Nodes /\ t[2] \in SUBSET Nodes
    BY TargetsAssumption
  <2>2. /\ UNCHANGED <<open, listener, sequences, pump, msas, forwards, received>>
        /\ CheckUpdateNetwork(t[1])
    BY <1>16 DEF Set, Broadcast, linkVars
  <2>3. MeshType'
    BY <2>1, <2>2, CheckUpdateType
  <2>4. PICK R \in SUBSET Nodes : SendTo(t[1], R, i)
    <3>1. Hosts(Effective(network'[t[1]])) \ {t[1]} \in SUBSET Nodes
      BY DEF Hosts, Effective
    <3>2. QED
      BY <1>16, <2>1, <3>1 DEF Set, Broadcast
  <2>5. outbox' \subseteq Outgoing /\ CallType'
    BY <2>1, <2>2, <2>3, <2>4, SendToType DEF MeshType
  <2>6. QED
    BY <1>e, <2>2, <2>3, <2>5 DEF QueueType
<1>17. CASE UNCHANGED vars
  BY <1>17, <1>e, <1>m, <1>q, <1>c DEF vars, linkVars
<1>18. QED
  BY <1>1, <1>2, <1>3, <1>4, <1>5, <1>6, <1>7, <1>8, <1>9, <1>10, <1>11, <1>12, <1>13, <1>14,
     <1>15, <1>16, <1>17 DEF Next, HandlerStep, SendStep, MessageHandler

LEMMA TypeInvCorrect == Spec => []TypeInv
<1>1. IInv /\ TypeInv /\ [Next]_vars => TypeInv'
  BY TypeStep
<1>2. QED
  BY TypeInit, <1>1, IInvCorrect, PTL DEF Spec

(* The fields of every Node keep their types, and clientSend is only ever  *)
(* asked to send to a node (getRoutes).                                    *)
THEOREM TypeCorrect == Spec => []TypeOK
<1>1. IInv /\ TypeInv => TypeOK
  <2> SUFFICES ASSUME IInv, TypeInv PROVE TypeOK
    OBVIOUS
  <2>1. Msgs \subseteq Message
    BY DEF Msgs
  <2>2. pump \in [Nodes -> Seq(Message)]
    BY <2>1 DEF TypeInv, QueueType
  <2>3. QED
    BY <2>1, <2>2 DEF TypeOK, IInv, LinkType, TypeInv, EndType, MeshType, QueueType, CallType, Outgoing
<1>2. QED
  BY <1>1, IInvCorrect, TypeInvCorrect, PTL

----------------------------------------------------------------------------
(* A message is delivered at most once to a node: the copies of it are     *)
(* split so that at any time at most one of them, wherever it is, names    *)
(* the node, and none does when it has been delivered.                     *)
Carries(m, i, v) == m.cmd = "MESSAGE" /\ m.id = i /\ v \in m.rec

OutNone(i, v) == \A x \in outbox : ~ Carries(x.msg, i, v)
OutOne(i, v) == \A x, y \in outbox : Carries(x.msg, i, v) /\ Carries(y.msg, i, v) => x = y

FwdNone(i, v) == \A x \in forwards : ~ Carries(x.msg, i, v)
FwdOne(i, v) == \A x, y \in forwards : Carries(x.msg, i, v) /\ Carries(y.msg, i, v) => x = y

PumpNone(i, v) == \A n \in Nodes : \A k \in DOMAIN pump[n] : ~ Carries(pump[n][k], i, v)
PumpOne(i, v) ==
    \A n, m \in Nodes : \A k \in DOMAIN pump[n], h \in DOMAIN pump[m] :
        Carries(pump[n][k], i, v) /\ Carries(pump[m][h], i, v) => n = m /\ k = h

Nowhere(i, v) == OutNone(i, v) /\ FwdNone(i, v) /\ PumpNone(i, v)

Unique(i, v) ==
    /\ OutOne(i, v) /\ FwdOne(i, v) /\ PumpOne(i, v)
    /\ OutNone(i, v) \/ FwdNone(i, v)
    /\ OutNone(i, v) \/ PumpNone(i, v)
    /\ FwdNone(i, v) \/ PumpNone(i, v)
    /\ received[i][v] <= 1
    /\ received[i][v] = 1 \/ calls[i].st = "none" => Nowhere(i, v)
    /\ calls[i].st = "none" => received[i][v] = 0

UniqueInv == \A i \in Sends : \A v \in Nodes : Unique(i, v)

LEMMA UniqueInit == Init => UniqueInv
  BY DEF Init, UniqueInv, Unique, Nowhere, OutNone, OutOne, FwdNone, FwdOne, PumpNone, PumpOne

(* A step that brings no copy to any of the three places. *)
OutKept(i, v) == (OutNone(i, v) => OutNone(i, v)') /\ (OutOne(i, v) => OutOne(i, v)')
FwdKept(i, v) == (FwdNone(i, v) => FwdNone(i, v)') /\ (FwdOne(i, v) => FwdOne(i, v)')
PumpKept(i, v) == (PumpNone(i, v) => PumpNone(i, v)') /\ (PumpOne(i, v) => PumpOne(i, v)')

LEMMA KeptUnique ==
    ASSUME NEW i \in Sends, NEW v \in Nodes, Unique(i, v),
           OutKept(i, v), FwdKept(i, v), PumpKept(i, v),
           received'[i][v] = received[i][v], calls'[i].st = "none" => calls[i].st = "none"
    PROVE  Unique(i, v)'
  BY DEF Unique, Nowhere, OutKept, FwdKept, PumpKept

(* Places that lose messages, or get some that do not name the node. *)
LEMMA OutKeeps ==
    ASSUME NEW i, NEW v, \A x \in outbox' : x \in outbox \/ ~ Carries(x.msg, i, v)
    PROVE  OutKept(i, v)
  BY DEF OutKept, OutNone, OutOne

LEMMA FwdKeeps ==
    ASSUME NEW i, NEW v, \A x \in forwards' : x \in forwards \/ ~ Carries(x.msg, i, v)
    PROVE  FwdKept(i, v)
  BY DEF FwdKept, FwdNone, FwdOne

LEMMA PumpKeeps ==
    ASSUME NEW i, NEW v, UNCHANGED pump
    PROVE  PumpKept(i, v)
  BY DEF PumpKept, PumpNone, PumpOne

(* messageHandler takes a message off its queue: the others move up. *)
LEMMA TailKeeps ==
    ASSUME QueueType, NEW i, NEW v, NEW j \in Nodes, pump[j] # <<>>,
           pump' = [pump EXCEPT ![j] = Tail(@)]
    PROVE  /\ PumpKept(i, v)
           /\ Carries(Head(pump[j]), i, v) /\ PumpOne(i, v) => PumpNone(i, v)'
<1> DEFINE s == pump[j]
<1>1. s \in Seq(Msgs) /\ DOMAIN s = 1 .. Len(s) /\ Len(s) \in Nat /\ Len(s) # 0
  BY DEF QueueType
<1>2. /\ DOMAIN Tail(s) = 1 .. Len(s) - 1
      /\ \A k \in 1 .. Len(s) - 1 : Tail(s)[k] = s[k + 1]
      /\ Head(s) = s[1]
  BY <1>1
<1>3. pump'[j] = Tail(s) /\ \A n \in Nodes \ {j} : pump'[n] = pump[n]
  BY DEF QueueType
<1> DEFINE old(n, k) == IF n = j THEN k + 1 ELSE k
<1>4. ASSUME NEW n \in Nodes, NEW k \in DOMAIN pump'[n]
      PROVE  /\ k \in Nat /\ old(n, k) \in DOMAIN pump[n] /\ pump'[n][k] = pump[n][old(n, k)]
             /\ n = j => old(n, k) = k + 1 /\ old(n, k) # 1
             /\ n # j => old(n, k) = k
  <2>1. CASE n = j
    <3>1. k \in 1 .. Len(s) - 1 /\ old(n, k) = k + 1
      BY <1>2, <1>3, <1>4, <2>1
    <3>2. k \in Nat /\ k + 1 \in 1 .. Len(s) /\ k + 1 # 1
      BY <1>1, <3>1
    <3>3. pump'[n][k] = s[k + 1]
      BY <1>2, <1>3, <2>1, <3>1
    <3>4. QED
      BY <1>1, <2>1, <3>1, <3>2, <3>3
  <2>2. CASE n # j
    <3>1. pump[n] \in Seq(Msgs) /\ DOMAIN pump[n] = 1 .. Len(pump[n])
      BY DEF QueueType
    <3>2. QED
      BY <1>3, <1>4, <2>2, <3>1
  <2>3. QED
    BY <2>1, <2>2
<1> HIDE DEF old
<1>5. PumpNone(i, v) => PumpNone(i, v)'
  BY <1>4 DEF PumpNone
<1>6. PumpOne(i, v) => PumpOne(i, v)'
  <2> SUFFICES ASSUME PumpOne(i, v), NEW n \in Nodes, NEW m \in Nodes,
                      NEW k \in DOMAIN pump'[n], NEW h \in DOMAIN pump'[m],
                      Carries(pump'[n][k], i, v), Carries(pump'[m][h], i, v)
               PROVE  n = m /\ k = h
    BY DEF PumpOne
  <2>1. n = m /\ old(n, k) = old(m, h)
    BY <1>4 DEF PumpOne
  <2>2. QED
    BY <1>4, <2>1
<1>7. Carries(Head(pump[j]), i, v) /\ PumpOne(i, v) => PumpNone(i, v)'
  <2> SUFFICES ASSUME Carries(s[1], i, v), PumpOne(i, v), NEW n \in Nodes, NEW k \in DOMAIN pump'[n],
                      Carries(pump'[n][k], i, v)
               PROVE  FALSE
    BY <1>2 DEF PumpNone
  <2>1. 1 \in DOMAIN pump[j]
    BY <1>1
  <2>2. n = j /\ old(n, k) = 1
    BY <1>4, <2>1 DEF PumpOne
  <2>3. QED
    BY <1>4, <2>2
<1>8. QED
  BY <1>5, <1>6, <1>7 DEF PumpKept

(* clientSend's peer queues a message. *)
LEMMA AppendKeeps ==
    ASSUME QueueType, NEW i, NEW v, NEW j \in Nodes, NEW m \in Msgs,
           pump' = [pump EXCEPT ![j] = Append(@, m)]
    PROVE  /\ ~ Carries(m, i, v) => PumpKept(i, v)
           /\ PumpNone(i, v) => PumpOne(i, v)'
<1> DEFINE s == pump[j]
           last == Len(s) + 1
<1>1. s \in Seq(Msgs) /\ DOMAIN s = 1 .. Len(s) /\ Len(s) \in Nat
  BY DEF QueueType
<1>2. /\ DOMAIN Append(s, m) = 1 .. last
      /\ \A k \in 1 .. Len(s) : Append(s, m)[k] = s[k]
      /\ Append(s, m)[last] = m
  BY <1>1
<1>3. pump'[j] = Append(s, m) /\ \A n \in Nodes \ {j} : pump'[n] = pump[n]
  BY DEF QueueType
<1>4. ASSUME NEW n \in Nodes, NEW k \in DOMAIN pump'[n]
      PROVE  \/ k \in DOMAIN pump[n] /\ pump'[n][k] = pump[n][k]
             \/ n = j /\ k = last /\ pump'[n][k] = m
  <2>1. CASE n = j
    BY <1>1, <1>2, <1>3, <1>4, <2>1
  <2>2. CASE n # j
    BY <1>3, <1>4, <2>2
  <2>3. QED
    BY <2>1, <2>2
<1> HIDE DEF last
<1>5. ~ Carries(m, i, v) => PumpKept(i, v)
  BY <1>4 DEF PumpKept, PumpNone, PumpOne
<1>6. PumpNone(i, v) => PumpOne(i, v)'
  BY <1>4 DEF PumpNone, PumpOne
<1>7. QED
  BY <1>5, <1>6

(* getRoutes: of the copies for the next hops, one names a recipient. *)
LEMMA CopiesSplit ==
    ASSUME NEW n, NEW m \in Msgs, NEW r, NEW i, NEW v
    PROVE  /\ \A x \in Copies(n, m, r) : Carries(x.msg, i, v) => Carries(m, i, v)
           /\ \A x, y \in Copies(n, m, r) : Carries(x.msg, i, v) /\ Carries(y.msg, i, v) => x = y
<1> DEFINE S(h) == {w \in Routed(n, m.rec, r) : r[w] = h}
           Copy(h) == [at |-> n, to |-> h, link |-> NoLink, msg |-> [m EXCEPT !.rec = S(h)]]
<1>1. m \in Message
  BY DEF Msgs
<1>2. ASSUME NEW h
      PROVE  /\ Copy(h).msg.cmd = m.cmd /\ Copy(h).msg.id = m.id /\ Copy(h).msg.rec = S(h)
  BY <1>1 DEF Message
<1>3. ASSUME NEW x \in Copies(n, m, r), Carries(x.msg, i, v)
      PROVE  x = Copy(r[v]) /\ Carries(m, i, v)
  <2>1. PICK h : x = Copy(h)
    BY DEF Copies
  <2>2. m.cmd = "MESSAGE" /\ m.id = i /\ v \in S(h)
    BY ZenonT(40), <1>2, <1>3, <2>1 DEF Carries
  <2>3. r[v] = h /\ v \in m.rec
    BY <2>2 DEF Routed
  <2>4. QED
    BY <2>1, <2>2, <2>3 DEF Carries
<1>4. QED
  BY <1>3

(* Announcements carry nothing for anybody. *)
LEMMA MSAKeeps ==
    ASSUME QueueType, NEW n \in Nodes, NEW cs, LimitedMSA(n, cs), NEW i, NEW v
    PROVE  OutKept(i, v) /\ FwdKept(i, v) /\ PumpKept(i, v)
<1>1. UNCHANGED <<pump, forwards>>
  BY DEF LimitedMSA, MSA, messageVars
<1>2. ASSUME NEW x \in outbox', x \notin outbox PROVE ~ Carries(x.msg, i, v)
  BY <1>2 DEF LimitedMSA, MSA, messageVars, Flood, Carries
<1>3. QED
  BY <1>1, <1>2, OutKeeps, FwdKeeps, PumpKeeps

(* A call of Send leaves copies that were nowhere before. *)
LEMMA SendToUnique ==
    ASSUME UniqueInv, CallType, NEW n \in Nodes, NEW R \in SUBSET Nodes, NEW j \in Sends,
           calls[j].st = "none", SendTo(n, R, j), UNCHANGED <<pump, forwards, received>>,
           NEW i \in Sends, NEW v \in Nodes
    PROVE  Unique(i, v)'
<1> DEFINE m == [cmd |-> "MESSAGE", src |-> n, id |-> j, body |-> {}, rec |-> R, route |-> {n}]
           c == [st |-> "busy", err |-> R = {n}, to |-> Routed(n, R, routes'[n])]
           C == Copies(n, m, routes'[n])
<1>1. outbox' = outbox \cup C /\ calls' = [calls EXCEPT ![j] = c]
  BY DEF SendTo
<1>2. m \in Msgs /\ m.id = j /\ m.cmd = "MESSAGE"
  BY DEF Msgs, Message, Sends
<1>3. calls'[j].st = "busy" /\ (i # j => calls'[i] = calls[i])
  BY <1>1 DEF CallType
<1> HIDE DEF m, c
<1>4. /\ \A x \in C : Carries(x.msg, i, v) => Carries(m, i, v)
      /\ \A x, y \in C : Carries(x.msg, i, v) /\ Carries(y.msg, i, v) => x = y
  BY <1>2, CopiesSplit
<1> HIDE DEF C
<1>5. FwdKept(i, v) /\ PumpKept(i, v)
  BY FwdKeeps, PumpKeeps
<1>6. CASE i # j
  <2>1. OutKept(i, v)
    BY <1>1, <1>2, <1>4, <1>6, OutKeeps DEF Carries
  <2>2. QED
    BY <1>3, <1>5, <1>6, <2>1, KeptUnique DEF UniqueInv
<1>7. CASE i = j
  <2>1. Unique(i, v) /\ Nowhere(i, v) /\ received[i][v] = 0
    BY <1>7 DEF UniqueInv, Unique
  <2>2. OutOne(i, v)'
    BY <1>1, <1>4, <2>1 DEF Nowhere, OutNone, OutOne
  <2>3. FwdNone(i, v)' /\ PumpNone(i, v)' /\ FwdOne(i, v)' /\ PumpOne(i, v)'
    BY <1>5, <2>1 DEF Nowhere, FwdKept, PumpKept, Unique
  <2>4. QED
    BY <1>3, <1>7, <2>1, <2>2, <2>3 DEF Unique
<1>8. QED
  BY <1>6, <1>7

(* Every step moves a copy, splits it, loses it or delivers it. *)
LEMMA UniqueStep ==
    ASSUME TypeInv, TypeInv', UniqueInv, [Next]_vars
    PROVE  UniqueInv'
<1> SUFFICES ASSUME NEW i \in Sends, NEW v \in Nodes PROVE Unique(i, v)'
  BY DEF UniqueInv
<1> USE DEF TypeInv
<1>u. Unique(i, v)
  BY DEF UniqueInv
<1>q. ASSUME UNCHANGED messageVars PROVE OutKept(i, v) /\ FwdKept(i, v) /\ PumpKept(i, v)
  BY <1>q, OutKeeps, FwdKeeps, PumpKeeps DEF messageVars
<1>k. ASSUME OutKept(i, v), FwdKept(i, v), PumpKept(i, v), UNCHANGED <<calls, received>>
      PROVE  Unique(i, v)'
  BY <1>u, <1>k, KeptUnique
<1>1. ASSUME NEW d \in Dials, Dial(d) PROVE Unique(i, v)'
  BY <1>1, <1>q, <1>k DEF Dial
<1>2. ASSUME NEW l \in Links, DialStep(l) PROVE Unique(i, v)'
  BY <1>2, <1>q, <1>k DEF DialStep, DialRefused, DialNamed, DialDone, Insert
<1>3. ASSUME NEW n \in Nodes, ListenerStep(n) PROVE Unique(i, v)'
  BY <1>3, <1>q, <1>k DEF ListenerStep, Accept, AcceptDone, AcceptFails, Insert
<1>4. ASSUME NEW n \in Nodes, NEW l \in Links, HandlerStep(n, l) PROVE Unique(i, v)'
  BY <1>4, <1>q, <1>k, MSAKeeps DEF HandlerStep, HandlerStart, HandlerExit
<1>5. ASSUME NEW n \in Nodes, PeriodicMSA(n) PROVE Unique(i, v)'
  BY <1>5, <1>k, MSAKeeps DEF PeriodicMSA, LimitedMSA
<1>6. ASSUME NEW n \in Nodes, Update(n) PROVE Unique(i, v)'
  BY <1>6, <1>q, <1>k DEF Update
<1>7. ASSUME NEW n \in Nodes, NEW k \in Nodes, Hangup(n, k) PROVE Unique(i, v)'
  BY <1>7, <1>q, <1>k DEF Hangup
<1>s. ASSUME NEW x \in outbox
      PROVE  /\ x.to \in Nodes /\ x.msg \in Msgs
             /\ SendErr(x) => outbox' = outbox \ {x} /\ calls'[i].st = calls[i].st
  <2>1. x \in Outgoing /\ x.to \in Nodes /\ x.msg \in Msgs
    BY DEF QueueType, Outgoing
  <2>2. OfCaller(x) => x.msg.id \in Sends
    BY <2>1 DEF OfCaller, Msgs
  <2>3. SendErr(x) => calls'[i].st = calls[i].st
    BY <2>2 DEF SendErr, CallType
  <2>4. QED
    BY <2>1, <2>3 DEF SendErr
<1>8. ASSUME NEW x \in outbox, GetClient(x) PROVE Unique(i, v)'
  <2> DEFINE l == clients[x.at][x.to]
             y == [x EXCEPT !.link = l]
  <2>1. y.msg = x.msg
    BY DEF QueueType, Outgoing
  <2>2. /\ UNCHANGED <<pump, forwards, received>> /\ calls'[i].st = calls[i].st
        /\ outbox' = outbox \ {x} \/ outbox' = (outbox \ {x}) \cup {y}
    BY <1>8, <1>s DEF GetClient
  <2> HIDE DEF y
  <2>3. OutKept(i, v)
    BY <2>1, <2>2 DEF OutKept, OutNone, OutOne
  <2>4. QED
    BY <1>u, <2>2, <2>3, FwdKeeps, PumpKeeps, KeptUnique
<1>9. ASSUME NEW x \in outbox, SendOK(x) \/ SendUnacked(x) PROVE Unique(i, v)'
  <2>1. /\ outbox' = outbox \ {x} /\ UNCHANGED <<forwards, received>>
        /\ calls'[i].st = calls[i].st
        /\ pump' = [pump EXCEPT ![x.to] = Append(@, x.msg)]
    BY <1>9, <1>s DEF SendOK, SendUnacked
  <2>2. OutKept(i, v) /\ FwdKept(i, v)
    BY <2>1, OutKeeps, FwdKeeps
  <2>3. CASE ~ Carries(x.msg, i, v)
    BY <1>u, <1>s, <2>1, <2>2, <2>3, AppendKeeps, KeptUnique
  <2>4. CASE Carries(x.msg, i, v)
    <3>1. ~ OutNone(i, v)
      BY <2>4 DEF OutNone
    <3>2. FwdNone(i, v) /\ PumpNone(i, v) /\ OutOne(i, v)
      BY <1>u, <3>1 DEF Unique
    <3>3. OutNone(i, v)' /\ OutOne(i, v)'
      BY <2>1, <2>4, <3>2 DEF OutNone, OutOne
    <3>4. FwdNone(i, v)' /\ FwdOne(i, v)' /\ PumpOne(i, v)'
      BY <1>u, <1>s, <2>1, <2>2, <3>2, AppendKeeps DEF FwdKept, Unique
    <3>5. received'[i][v] # 1 /\ calls'[i].st # "none" /\ received'[i][v] <= 1
      BY <1>u, <2>1, <3>1 DEF Unique, Nowhere
    <3>6. QED
      BY <3>3, <3>4, <3>5 DEF Unique
  <2>5. QED
    BY <2>3, <2>4
<1>10. ASSUME NEW x \in outbox, SendFails(x) PROVE Unique(i, v)'
  <2>1. outbox' = outbox \ {x} /\ UNCHANGED <<pump, forwards, received>>
        /\ calls'[i].st = calls[i].st
    BY <1>10, <1>s DEF SendFails
  <2>2. QED
    BY <1>u, <2>1, OutKeeps, FwdKeeps, PumpKeeps, KeptUnique
<1>11. ASSUME NEW j \in Nodes, PumpMSA(j) PROVE Unique(i, v)'
  <2> DEFINE m == Head(pump[j])
             passed == [m EXCEPT !.route = @ \cup {j}]
  <2>1. m \in Msgs /\ m.cmd = "MSA" /\ pump[j] # <<>>
    BY <1>11 DEF PumpMSA, QueueType
  <2>2. passed.cmd = "MSA"
    BY <2>1 DEF Msgs, Message
  <2>3. /\ UNCHANGED <<forwards, calls, received>> /\ pump' = [pump EXCEPT ![j] = Tail(@)]
        /\ outbox' = outbox \/ outbox' = outbox \cup Flood(j, passed, clients[j])
    BY <1>11 DEF PumpMSA
  <2> HIDE DEF passed
  <2>4. \A x \in outbox' : x \in outbox \/ ~ Carries(x.msg, i, v)
    BY <2>2, <2>3 DEF Flood, Carries
  <2>5. QED
    BY <1>k, <2>1, <2>3, <2>4, OutKeeps, FwdKeeps, TailKeeps
<1>12. ASSUME NEW j \in Nodes, PumpMessage(j) PROVE Unique(i, v)'
  <2> DEFINE m == Head(pump[j])
             f == [m EXCEPT !.route = @ \cup {j}, !.rec = @ \ {j}]
  <2>1. m \in Msgs /\ m.cmd = "MESSAGE" /\ pump[j] # <<>> /\ m.id \in Sends
    BY <1>12 DEF PumpMessage, QueueType, Msgs
  <2>2. f.cmd = m.cmd /\ f.id = m.id /\ f.rec = m.rec \ {j}
    BY <2>1 DEF Msgs, Message
  <2>3. /\ UNCHANGED <<outbox, calls>> /\ pump' = [pump EXCEPT ![j] = Tail(@)]
        /\ received' = IF j \in m.rec THEN [received EXCEPT ![m.id][j] = @ + 1] ELSE received
        /\ forwards' = forwards \cup {[at |-> j, msg |-> f]}
    BY <1>12 DEF PumpMessage
  <2>4. OutKept(i, v)
    BY <2>3, OutKeeps
  <2>5. [at |-> j, msg |-> f].msg = f
    OBVIOUS
  <2>6. /\ PumpKept(i, v)
        /\ Carries(m, i, v) /\ PumpOne(i, v) => PumpNone(i, v)'
    BY <2>1, <2>3, TailKeeps
  <2> HIDE DEF f
  <2>7. CASE ~ Carries(m, i, v)
    <3>1. FwdKept(i, v)
      BY <2>2, <2>3, <2>5, <2>7, FwdKeeps DEF Carries
    <3>2. received'[i][v] = received[i][v]
      BY <2>1, <2>3, <2>7 DEF CallType, Carries
    <3>3. QED
      BY <1>u, <2>3, <2>4, <2>6, <3>1, <3>2, KeptUnique
  <2>8. CASE Carries(m, i, v)
    <3>1. ~ PumpNone(i, v)
      <4>1. pump[j] \in Seq(Msgs) /\ pump[j] # <<>>
        BY <2>1 DEF QueueType
      <4>2. 1 \in DOMAIN pump[j] /\ m = pump[j][1]
        BY <4>1
      <4>3. QED
        BY <2>8, <4>2 DEF PumpNone
    <3>2. /\ OutNone(i, v) /\ FwdNone(i, v) /\ OutOne(i, v) /\ FwdOne(i, v) /\ PumpOne(i, v)
          /\ received[i][v] <= 1 /\ received[i][v] # 1 /\ calls[i].st # "none"
      BY <1>u, <3>1 DEF Unique, Nowhere
    <3>3. OutNone(i, v)' /\ OutOne(i, v)' /\ PumpNone(i, v)' /\ PumpOne(i, v)'
      BY <2>4, <2>6, <2>8, <3>2 DEF OutKept, PumpKept
    <3>4. received[i][v] \in Nat /\ received[i][v] = 0
      <4>1. received[i][v] \in Nat
        BY DEF CallType
      <4>2. QED
        BY <3>2, <4>1
    <3>5. CASE v = j
      <4>1. FwdNone(i, v)' /\ FwdOne(i, v)'
        BY <2>2, <2>3, <2>5, <3>2, <3>5 DEF FwdNone, FwdOne, Carries
      <4>2. received'[i][v] = 1
        BY <2>3, <2>8, <3>4, <3>5 DEF Carries, CallType
      <4>3. QED
        BY <2>3, <3>2, <3>3, <4>1, <4>2 DEF Unique, Nowhere
    <3>6. CASE v # j
      <4>1. FwdOne(i, v)'
        BY <2>3, <3>2 DEF FwdNone, FwdOne
      <4>2. received'[i][v] = 0
        BY <2>1, <2>3, <3>4, <3>6 DEF CallType
      <4>3. QED
        BY <2>3, <3>2, <3>3, <4>1, <4>2 DEF Unique
    <3>7. QED
      BY <3>5, <3>6
  <2>9. QED
    BY <2>7, <2>8
<1>13. ASSUME NEW x \in msas, HandleMSA(x) PROVE Unique(i, v)'
  BY <1>13, <1>k, OutKeeps, FwdKeeps, PumpKeeps DEF HandleMSA
<1>14. ASSUME NEW x \in forwards, Forward(x) PROVE Unique(i, v)'
  <2> DEFINE C == Copies(x.at, x.msg, routes'[x.at])
  <2>1. /\ outbox' = outbox \cup C /\ forwards' = forwards \ {x}
        /\ UNCHANGED <<pump, calls, received>>
    BY <1>14 DEF Forward
  <2>2. /\ \A y \in C : Carries(y.msg, i, v) => Carries(x.msg, i, v)
        /\ \A y, z \in C : Carries(y.msg, i, v) /\ Carries(z.msg, i, v) => y = z
    <3>1. x.msg \in Msgs
      BY DEF QueueType
    <3>2. QED
      BY <3>1, CopiesSplit
  <2> HIDE DEF C
  <2>3. FwdKept(i, v) /\ PumpKept(i, v)
    BY <2>1, FwdKeeps, PumpKeeps
  <2>4. CASE ~ Carries(x.msg, i, v)
    BY <1>k, <2>1, <2>2, <2>3, <2>4, OutKeeps
  <2>5. CASE Carries(x.msg, i, v)
    <3>1. ~ FwdNone(i, v)
      BY <2>5 DEF FwdNone
    <3>2. OutNone(i, v) /\ PumpNone(i, v) /\ FwdOne(i, v)
      BY <1>u, <3>1 DEF Unique
    <3>3. FwdNone(i, v)' /\ FwdOne(i, v)'
      BY <2>1, <2>5, <3>2 DEF FwdNone, FwdOne
    <3>4. OutOne(i, v)' /\ PumpNone(i, v)' /\ PumpOne(i, v)'
      BY <1>u, <2>1, <2>2, <2>3, <3>2 DEF OutNone, OutOne, PumpKept, Unique
    <3>5. QED
      BY <1>u, <2>1, <3>1, <3>3, <3>4 DEF Unique, Nowhere
  <2>6. QED
    BY <2>4, <2>5
<1>15. ASSUME NEW k \in Sends, Return(k) PROVE Unique(i, v)'
  <2>1. calls'[i].st = "none" => calls[i].st = "none"
    BY <1>15 DEF Return, CallType
  <2>2. QED
    BY <1>15, <1>u, <1>q, <2>1, KeptUnique DEF Return
<1>16. ASSUME NEW k \in Sends, NEW t \in Targets, Set(t[1], t[2], k) \/ Broadcast(t[1], k)
       PROVE  Unique(i, v)'
  <2>1. t[1] \in Nodes /\ t[2] \in SUBSET Nodes
    BY TargetsAssumption
  <2>2. UNCHANGED <<pump, forwards, received>> /\ calls[k].st = "none"
    BY <1>16 DEF Set, Broadcast, NextSend
  <2>3. PICK R \in SUBSET Nodes : SendTo(t[1], R, k)
    <3>1. Hosts(Effective(network'[t[1]])) \ {t[1]} \in SUBSET Nodes
      BY DEF Hosts, Effective
    <3>2. QED
      BY <1>16, <2>1, <3>1 DEF Set, Broadcast
  <2>4. QED
    BY <2>1, <2>2, <2>3, SendToUnique
<1>17. CASE UNCHANGED vars
  BY <1>17, <1>q, <1>k DEF vars
<1>18. QED
  BY <1>1, <1>2, <1>3, <1>4, <1>5, <1>6, <1>7, <1>8, <1>9, <1>10, <1>11, <1>12, <1>13, <1>14,
     <1>15, <1>16, <1>17 DEF Next, SendStep, MessageHandler

(* A message is delivered at most once to a node, however its copies are   *)
(* split, forwarded along routes that disagree, or reported as failed      *)
(* after they have arrived (clientSend, getRoutes, messageHandler).  The   *)
(* routes play no part in it.                                              *)
THEOREM DeliveredAtMostOnce == Spec => []AtMostOnce
<1>1. TypeInv /\ TypeInv' /\ UniqueInv /\ [Next]_vars => UniqueInv'
  BY UniqueStep
<1>2. UniqueInv => AtMostOnce
  BY DEF UniqueInv, Unique, AtMostOnce
<1>3. QED
  BY UniqueInit, TypeInvCorrect, <1>1, <1>2, PTL DEF Spec

----------------------------------------------------------------------------
(* Routes: they are never stale, and the search that computes them is      *)
(* right.                                                                  *)

(* Unless updateNetwork says that they are out of date, the routes of a    *)
(* node are what updateRoute's search finds in the network as the node     *)
(* knows it now, or it has heard of no connection yet.                     *)
Unheard(n) ==
    network[n] = [m \in Nodes |-> {}] /\ routes[n] = [m \in Nodes |-> None]

RoutesSearched == \A n \in Nodes : ~ updateNetwork[n] =>
    Unheard(n) \/ routes[n] \in RouteChoices(n, Effective(network[n]))

(* A list of neighbours that changes is noted. *)
LEMMA NotedSearched ==
    ASSUME MeshType, RoutesSearched, NEW n \in Nodes, NEW k \in Nodes, NEW C \in SUBSET Nodes,
           network' = [network EXCEPT ![n][k] = C],
           updateNetwork' = [updateNetwork EXCEPT ![n] = @ \/ network[n][k] # C],
           UNCHANGED routes
    PROVE  RoutesSearched'
<1> SUFFICES ASSUME NEW j \in Nodes, ~ updateNetwork'[j]
             PROVE  Unheard(j)' \/ routes'[j] \in RouteChoices(j, Effective(network'[j]))
  BY DEF RoutesSearched, RouteChoices, Effective, Visited, Routable
<1>1. ~ updateNetwork[j] /\ (j = n => network[n][k] = C)
  BY DEF MeshType
<1>2. network'[j] = network[j]
  BY <1>1 DEF MeshType
<1>3. Unheard(j) \/ routes[j] \in RouteChoices(j, Effective(network[j]))
  BY <1>1 DEF RoutesSearched
<1>4. QED
  BY <1>2, <1>3 DEF Unheard

(* checkUpdateNetwork searches the network that it leaves. *)
LEMMA CheckedSearched ==
    ASSUME MeshType, RoutesSearched, NEW n \in Nodes, CheckUpdateNetwork(n)
    PROVE  RoutesSearched'
<1> SUFFICES ASSUME NEW j \in Nodes, ~ updateNetwork'[j]
             PROVE  Unheard(j)' \/ routes'[j] \in RouteChoices(j, Effective(network'[j]))
  BY DEF RoutesSearched, RouteChoices, Effective, Visited, Routable
<1>1. CASE j = n /\ updateNetwork[n]
  <2> DEFINE net == Prune(n, network[n])
  <2>1. PICK r \in RouteChoices(n, Effective(net)) :
           routes' = [routes EXCEPT ![n] = r] /\ network' = [network EXCEPT ![n] = net]
    BY <1>1 DEF CheckUpdateNetwork
  <2> HIDE DEF net
  <2>2. routes'[n] = r /\ network'[n] = net
    BY <2>1 DEF MeshType
  <2>3. QED
    BY <1>1, <2>1, <2>2
<1>2. CASE ~ (j = n /\ updateNetwork[n])
  <2>1. network'[j] = network[j] /\ routes'[j] = routes[j] /\ updateNetwork'[j] = updateNetwork[j]
    BY <1>2 DEF CheckUpdateNetwork, MeshType, meshVars
  <2>2. Unheard(j) \/ routes[j] \in RouteChoices(j, Effective(network[j]))
    BY <2>1 DEF RoutesSearched
  <2>3. QED
    BY <2>1, <2>2 DEF Unheard
<1>3. QED
  BY <1>1, <1>2

(* Nobody else writes n.network, n.updateNetwork or n.routes. *)
LEMMA SearchedStep == TypeInv /\ RoutesSearched /\ [Next]_vars => RoutesSearched'
<1> SUFFICES ASSUME TypeInv, RoutesSearched, [Next]_vars PROVE RoutesSearched'
  OBVIOUS
<1> USE DEF TypeInv
<1>u. UNCHANGED meshVars => RoutesSearched'
  BY DEF RoutesSearched, meshVars, Unheard
<1>m. ASSUME NEW n \in Nodes, NEW cs, MSA(n, cs) PROVE RoutesSearched'
  <2> DEFINE C == {k \in Nodes : cs[k] # NoLink}
  <2>1. /\ network' = [network EXCEPT ![n][n] = C]
        /\ updateNetwork' = [updateNetwork EXCEPT ![n] = @ \/ network[n][n] # C]
        /\ UNCHANGED routes
    BY <1>m DEF MSA
  <2>2. C \in SUBSET Nodes
    OBVIOUS
  <2> HIDE DEF C
  <2>3. QED
    BY <2>1, <2>2, NotedSearched
<1>l. ASSUME NEW n \in Nodes, NEW cs, LimitedMSA(n, cs) PROVE RoutesSearched'
  BY <1>l, <1>m, <1>u DEF LimitedMSA
<1>1. ASSUME NEW d \in Dials, Dial(d) PROVE RoutesSearched'
  BY <1>1, <1>u DEF Dial
<1>2. ASSUME NEW l \in Links, DialStep(l) PROVE RoutesSearched'
  BY <1>2, <1>u DEF DialStep, DialRefused, DialNamed, DialDone, Insert
<1>3. ASSUME NEW n \in Nodes, ListenerStep(n) PROVE RoutesSearched'
  BY <1>3, <1>u DEF ListenerStep, Accept, AcceptDone, AcceptFails, Insert
<1>4. ASSUME NEW n \in Nodes, PeriodicMSA(n) PROVE RoutesSearched'
  BY <1>4, <1>m DEF PeriodicMSA
<1>5. ASSUME NEW n \in Nodes, Update(n) PROVE RoutesSearched'
  BY <1>5, CheckedSearched DEF Update
<1>6. ASSUME NEW n \in Nodes, MessageHandler(n) PROVE RoutesSearched'
  BY <1>6, <1>u DEF MessageHandler, PumpMSA, PumpMessage
<1>7. ASSUME NEW n \in Nodes, NEW l \in Links, HandlerStep(n, l) PROVE RoutesSearched'
  <2>1. CASE HandlerStart(n, l)
    BY <2>1, <1>l, <1>u DEF HandlerStart
  <2>2. CASE HandlerExit(n, l)
    BY <2>2, <1>l DEF HandlerExit
  <2>3. QED
    BY <1>7, <2>1, <2>2 DEF HandlerStep
<1>8. ASSUME NEW n \in Nodes, NEW j \in Nodes, SendStep(n, j) \/ Hangup(n, j)
      PROVE  RoutesSearched'
  BY <1>8, <1>u DEF SendStep, GetClient, SendOK, SendUnacked, SendFails, Hangup
<1>9. ASSUME NEW x \in msas, HandleMSA(x) PROVE RoutesSearched'
  <2>1. x.at \in Nodes /\ x.msg.src \in Nodes /\ x.msg.body \in SUBSET Nodes
    BY DEF QueueType, Msgs, Message
  <2>2. QED
    BY <1>9, <2>1, NotedSearched DEF HandleMSA
<1>10. ASSUME NEW x \in forwards, Forward(x) PROVE RoutesSearched'
  <2>1. x.at \in Nodes
    BY DEF QueueType
  <2>2. QED
    BY <1>10, <2>1, CheckedSearched DEF Forward
<1>11. ASSUME NEW i \in Sends, Return(i) PROVE RoutesSearched'
  BY <1>11, <1>u DEF Return
<1>12. ASSUME NEW i \in Sends, NEW t \in Targets, Set(t[1], t[2], i) \/ Broadcast(t[1], i)
       PROVE  RoutesSearched'
  <2>1. t[1] \in Nodes
    BY TargetsAssumption
  <2>2. QED
    BY <1>12, <2>1, CheckedSearched DEF Set, Broadcast
<1>13. CASE UNCHANGED vars
  BY <1>13, <1>u DEF vars
<1>14. QED
  BY <1>1, <1>2, <1>3, <1>4, <1>5, <1>6, <1>7, <1>8, <1>9, <1>10, <1>11, <1>12, <1>13 DEF Next

(* The routes of a node are never stale: whatever changes the known        *)
(* network (handleMSA, MSA, the deletion of hosts in updateRoute) sets     *)
(* updateNetwork or searches again.                                        *)
THEOREM RoutesNeverStale == Spec => []RoutesSearched
<1>1. Init => RoutesSearched
  BY DEF Init, RoutesSearched, Unheard
<1>2. QED
  BY <1>1, TypeInvCorrect, SearchedStep, PTL DEF Spec

----------------------------------------------------------------------------
(* Induction.  The library's principles take an operator as a parameter;   *)
(* for a set of numbers the same follows from the fact that < is well-     *)
(* founded, which it states for relations.                                 *)

Less == {p \in Nat \X Nat : p[1] < p[2]}

(* Nat has no infinite descent. *)
LEMMA LessWF == IsWellFoundedOn(Less, Nat)
  BY NatLessThanWellFounded, Zenon DEF OpToRel, Less

(* A set of numbers has a least one. *)
LEMMA Least ==
    ASSUME NEW T \in SUBSET Nat, T # {}
    PROVE  \E x \in T : \A y \in T : x <= y
<1>1. PICK x \in T : \A y \in T : ~ (<<y, x>> \in Less)
  BY LessWF, WFMin
<1>2. ASSUME NEW y \in T PROVE x <= y
  <2>1. ~ (<<y, x>> \in Less)
    BY <1>1
  <2>2. y \in Nat /\ x \in Nat
    OBVIOUS
  <2>3. y < x => <<y, x>> \in Less
    BY <2>2 DEF Less
  <2>4. QED
    BY <2>1, <2>2, <2>3
<1>3. QED
  BY <1>2

(* A set that has 0, and the successor of each of its numbers, has them    *)
(* all.                                                                    *)
LEMMA Induction ==
    ASSUME NEW T, 0 \in T, \A k \in Nat : k \in T => k + 1 \in T
    PROVE  \A k \in Nat : k \in T
<1>1. SUFFICES ASSUME Nat \ T # {} PROVE FALSE
  OBVIOUS
<1>2. PICK x \in Nat \ T : \A y \in Nat \ T : x <= y
  BY <1>1, Least
<1>3. x # 0 /\ x - 1 \in Nat /\ x - 1 \in T
  BY <1>2
<1>4. x - 1 + 1 \in T
  BY <1>3
<1>5. QED
  BY <1>2, <1>4

----------------------------------------------------------------------------
(* updateRoute's search. *)

(* One more hop. *)
Reach(B, E) == B \cup {e[2] : e \in {d \in E : d[1] \in B}}

(* f is what the search visits within 0, 1, ..., N hops. *)
Ball(n, E, f, N) ==
    /\ f \in [0 .. N -> SUBSET Nodes]
    /\ f[0] = {n}
    /\ \A k \in 1 .. N : f[k] = Reach(f[k - 1], E)

(* There is such a function. *)
LEMMA BallExists ==
    ASSUME NEW n \in Nodes, NEW E \in SUBSET (Nodes \X Nodes), NEW N \in Nat
    PROVE  \E f : Ball(n, E, f, N)
<1> DEFINE T == {m \in Nat : \E f : Ball(n, E, f, m)}
<1>1. 0 \in T
  <2>1. Ball(n, E, [k \in 0 .. 0 |-> {n}], 0)
    BY DEF Ball
  <2>2. QED
    BY <2>1
<1>2. ASSUME NEW m \in Nat, m \in T PROVE m + 1 \in T
  <2>1. PICK f : Ball(n, E, f, m)
    BY <1>2
  <2> DEFINE g == [k \in 0 .. m + 1 |-> IF k = m + 1 THEN Reach(f[m], E) ELSE f[k]]
  <2>2. f[m] \in SUBSET Nodes /\ Reach(f[m], E) \in SUBSET Nodes
    BY <2>1 DEF Ball, Reach
  <2>3. g \in [0 .. m + 1 -> SUBSET Nodes]
    BY <2>1, <2>2 DEF Ball
  <2>4. g[0] = {n}
    BY <2>1 DEF Ball
  <2>5. ASSUME NEW k \in 1 .. m + 1 PROVE g[k] = Reach(g[k - 1], E)
    <3>0. k - 1 \in 0 .. m /\ g[k - 1] = f[k - 1]
      OBVIOUS
    <3>1. CASE k = m + 1
      <4>1. g[k] = Reach(f[m], E) /\ k - 1 = m
        BY <3>1
      <4>2. QED
        BY <4>1, <3>0
    <3>2. CASE k # m + 1
      <4>1. k \in 1 .. m /\ g[k] = f[k]
        BY <3>2
      <4>2. QED
        BY <4>1, <3>0, <2>1 DEF Ball
    <3>3. QED
      BY <3>1, <3>2
  <2>6. Ball(n, E, g, m + 1)
    BY <2>3, <2>4, <2>5 DEF Ball
  <2>7. QED
    BY <2>6
<1>3. \A k \in Nat : k \in T
  <2> HIDE DEF T
  <2>1. QED
    BY <1>1, <1>2, Induction
<1>4. QED
  BY <1>3

(* The recursive definition defines it. *)
LEMMA VisitedBall ==
    ASSUME NEW n \in Nodes, NEW E \in SUBSET (Nodes \X Nodes)
    PROVE  Ball(n, E, Visited(n, E), Cardinality(Nodes))
<1> DEFINE N == Cardinality(Nodes)
           Is(f) == f = [k \in 0 .. N |-> IF k = 0 THEN {n} ELSE Reach(f[k - 1], E)]
<1>1. N \in Nat
  BY NodesAssumption, FS_CardinalityType
<1>2. PICK f : Ball(n, E, f, N)
  BY <1>1, BallExists
<1>3. Is(f)
  BY <1>1, <1>2 DEF Ball
<1>4. Visited(n, E) = CHOOSE g : Is(g)
  BY DEF Visited, Reach
<1>5. Is(Visited(n, E))
  BY <1>3, <1>4
<1> DEFINE V == Visited(n, E)
           T == {k \in Nat : k \in 0 .. N => V[k] \in SUBSET Nodes}
<1> HIDE DEF V, N
<1>6. V[0] = {n} /\ \A k \in 1 .. N : V[k] = Reach(V[k - 1], E)
  <2>1. V = [k \in 0 .. N |-> IF k = 0 THEN {n} ELSE Reach(V[k - 1], E)]
    BY <1>5 DEF V
  <2> HIDE DEF Is
  <2>2. \A k \in 0 .. N : V[k] = IF k = 0 THEN {n} ELSE Reach(V[k - 1], E)
    BY <2>1, Zenon
  <2>3. QED
    BY <1>1, <2>2
<1>7. \A k \in Nat : k \in T
  <2>1. 0 \in T
    BY <1>6
  <2>2. ASSUME NEW k \in Nat, k \in T PROVE k + 1 \in T
    <3>1. CASE k + 1 \in 0 .. N
      <4>1. k \in 0 .. N /\ V[k + 1] = Reach(V[k], E)
        BY <1>1, <1>6, <3>1
      <4>2. V[k] \in SUBSET Nodes
        BY <2>2, <4>1
      <4>3. QED
        BY <4>1, <4>2 DEF Reach
    <3>2. QED
      BY <3>1
  <2> HIDE DEF T
  <2>3. QED
    BY <2>1, <2>2, Induction
<1>8. V \in [0 .. N -> SUBSET Nodes]
  <2>1. \A k \in 0 .. N : V[k] \in SUBSET Nodes
    BY <1>1, <1>7
  <2>2. V = [k \in 0 .. N |-> IF k = 0 THEN {n} ELSE Reach(V[k - 1], E)]
    BY <1>5 DEF V
  <2>3. DOMAIN V = 0 .. N /\ V = [k \in 0 .. N |-> V[k]]
    BY <2>2
  <2>4. QED
    BY <2>1, <2>3
<1>9. Ball(n, E, V, N)
  BY <1>6, <1>8 DEF Ball
<1>10. QED
  BY <1>9 DEF V, N

(* A path of no connection, and of one more or one less. *)
LEMMA PathStart ==
    ASSUME NEW E, NEW h \in Nodes
    PROVE  Path(E, h, h, 0)
<1> DEFINE p == [k \in 0 .. 0 |-> h]
<1>1. p \in [0 .. 0 -> Nodes] /\ p[0] = h /\ \A i \in 1 .. 0 : <<p[i - 1], p[i]>> \in E
  OBVIOUS
<1> HIDE DEF p
<1>2. QED
  BY <1>1 DEF Path

LEMMA PathNone ==
    ASSUME NEW E, NEW n, NEW h, Path(E, n, h, 0)
    PROVE  n = h
  BY DEF Path

LEMMA PathLonger ==
    ASSUME NEW E, NEW n, NEW j, NEW h \in Nodes, NEW k \in Nat, Path(E, n, j, k), <<j, h>> \in E
    PROVE  Path(E, n, h, k + 1)
<1>1. PICK p \in [0 .. k -> Nodes] :
         p[0] = n /\ p[k] = j /\ \A i \in 1 .. k : <<p[i - 1], p[i]>> \in E
  BY DEF Path
<1> DEFINE q == [i \in 0 .. k + 1 |-> IF i = k + 1 THEN h ELSE p[i]]
<1>2. q \in [0 .. k + 1 -> Nodes] /\ q[0] = n /\ q[k + 1] = h
  BY <1>1
<1>3. ASSUME NEW i \in 1 .. k + 1 PROVE <<q[i - 1], q[i]>> \in E
  <2>1. q[i - 1] = p[i - 1]
    OBVIOUS
  <2>2. CASE i = k + 1
    BY <1>1, <2>1, <2>2
  <2>3. CASE i # k + 1
    <3>1. i \in 1 .. k /\ q[i] = p[i]
      BY <2>3
    <3>2. QED
      BY <1>1, <2>1, <3>1
  <2>4. QED
    BY <2>2, <2>3
<1> HIDE DEF q
<1>4. QED
  BY <1>2, <1>3 DEF Path

LEMMA PathShorter ==
    ASSUME NEW E, NEW n, NEW h, NEW k \in Nat, Path(E, n, h, k + 1)
    PROVE  \E j \in Nodes : Path(E, n, j, k) /\ <<j, h>> \in E
<1>1. PICK p \in [0 .. k + 1 -> Nodes] :
         p[0] = n /\ p[k + 1] = h /\ \A i \in 1 .. k + 1 : <<p[i - 1], p[i]>> \in E
  BY DEF Path
<1> DEFINE q == [i \in 0 .. k |-> p[i]]
<1>2. q \in [0 .. k -> Nodes] /\ q[0] = n /\ q[k] = p[k] /\ p[k] \in Nodes
  BY <1>1
<1>3. \A i \in 1 .. k : <<q[i - 1], q[i]>> \in E
  BY <1>1
<1>4. <<p[k], h>> \in E
  BY <1>1
<1> HIDE DEF q
<1>5. Path(E, n, p[k], k)
  BY <1>2, <1>3 DEF Path
<1>6. QED
  BY <1>2, <1>4, <1>5

(* The search visits a node within k hops iff a path of at most k          *)
(* connections leads to it.                                                *)
LEMMA BallPaths ==
    ASSUME NEW n \in Nodes, NEW E \in SUBSET (Nodes \X Nodes), NEW N \in Nat, NEW V,
           Ball(n, E, V, N)
    PROVE  \A k \in 0 .. N : \A h \in Nodes : h \in V[k] <=> \E i \in 0 .. k : Path(E, n, h, i)
<1> DEFINE T == {k \in Nat : k \in 0 .. N =>
                   \A h \in Nodes : h \in V[k] <=> \E i \in 0 .. k : Path(E, n, h, i)}
<1>1. 0 \in T
  BY PathStart, PathNone DEF Ball
<1>2. ASSUME NEW k \in Nat, k \in T PROVE k + 1 \in T
  <2> SUFFICES ASSUME k + 1 \in 0 .. N, NEW h \in Nodes
               PROVE  h \in V[k + 1] <=> \E i \in 0 .. k + 1 : Path(E, n, h, i)
    OBVIOUS
  <2>1. \A j \in Nodes : j \in V[k] <=> \E i \in 0 .. k : Path(E, n, j, i)
    BY <1>2
  <2>2. V[k + 1] = Reach(V[k], E)
    BY DEF Ball
  <2>3. ASSUME h \in V[k + 1] PROVE \E i \in 0 .. k + 1 : Path(E, n, h, i)
    <3>1. CASE h \in V[k]
      BY <2>1, <3>1
    <3>2. CASE h \notin V[k]
      <4>1. PICK j \in Nodes : j \in V[k] /\ <<j, h>> \in E
        BY <2>2, <2>3, <3>2 DEF Reach
      <4>2. PICK i \in 0 .. k : Path(E, n, j, i)
        BY <2>1, <4>1
      <4>3. Path(E, n, h, i + 1)
        BY <4>1, <4>2, PathLonger
      <4>4. QED
        BY <4>3
    <3>3. QED
      BY <3>1, <3>2
  <2>4. ASSUME NEW i \in 0 .. k + 1, Path(E, n, h, i) PROVE h \in V[k + 1]
    <3>1. CASE i \in 0 .. k
      BY <2>1, <2>2, <2>4, <3>1 DEF Reach
    <3>2. CASE i = k + 1
      <4>1. PICK j \in Nodes : Path(E, n, j, k) /\ <<j, h>> \in E
        BY <2>4, <3>2, PathShorter
      <4>2. j \in V[k]
        BY <2>1, <4>1
      <4>3. QED
        BY <2>2, <4>1, <4>2 DEF Reach
    <3>3. QED
      BY <3>1, <3>2
  <2>5. QED
    BY <2>3, <2>4
<1>3. \A k \in Nat : k \in T
  <2> HIDE DEF T
  <2>1. QED
    BY <1>1, <1>2, Induction
<1>4. QED
  BY <1>3

(* The search ends before it has made as many hops as there are nodes. *)
LEMMA BallEnds ==
    ASSUME NEW n \in Nodes, NEW E \in SUBSET (Nodes \X Nodes), NEW V,
           Ball(n, E, V, Cardinality(Nodes))
    PROVE  Cardinality(Nodes) \in Nat \ {0} /\ V[Cardinality(Nodes)] = V[Cardinality(Nodes) - 1]
<1> DEFINE N == Cardinality(Nodes)
<1>1. N \in Nat /\ N # 0
  BY NodesAssumption, FS_CardinalityType, FS_EmptySet
<1> HIDE DEF N
<1>b. Ball(n, E, V, N)
  BY DEF N
<1>2. SUFFICES ASSUME V[N] # V[N - 1] PROVE FALSE
  BY <1>1 DEF N
<1>3. \A k \in 0 .. N : V[k] \in SUBSET Nodes
  BY <1>b DEF Ball
<1>4. \A k \in 0 .. N : IsFiniteSet(V[k]) /\ Cardinality(V[k]) \in Nat /\ Cardinality(V[k]) <= N
  BY <1>3, NodesAssumption, FS_Subset, FS_CardinalityType DEF N
<1> DEFINE S == {k \in Nat : k \in 0 .. N - 1 => V[N - k] # V[N - k - 1]}
<1>5. \A k \in Nat : k \in S
  <2>1. 0 \in S
    BY <1>1, <1>2
  <2>2. ASSUME NEW k \in Nat, k \in S PROVE k + 1 \in S
    <3> SUFFICES ASSUME k + 1 \in 0 .. N - 1, V[N - k - 1] = V[N - k - 2] PROVE FALSE
      BY <1>1
    <3>1. V[N - k] # V[N - k - 1]
      BY <1>1, <2>2
    <3>2. N - k \in 1 .. N /\ N - k - 1 \in 1 .. N /\ N - k - 1 - 1 = N - k - 2
      BY <1>1
    <3>3. V[N - k] = Reach(V[N - k - 1], E) /\ V[N - k - 1] = Reach(V[N - k - 2], E)
      BY <1>b, <3>2 DEF Ball
    <3>4. QED
      BY <3>1, <3>3
  <2> HIDE DEF S
  <2>3. QED
    BY <2>1, <2>2, Induction
<1>6. ASSUME NEW k \in 1 .. N PROVE V[k] # V[k - 1]
  <2>1. N - k \in Nat /\ N - k \in 0 .. N - 1 /\ N - (N - k) = k
    BY <1>1
  <2>2. N - k \in S
    BY <1>5, <2>1
  <2>3. QED
    BY <2>1, <2>2
<1> DEFINE T == {k \in Nat : k \in 0 .. N => k < Cardinality(V[k])}
<1>7. \A k \in Nat : k \in T
  <2>1. 0 \in T
    <3>1. V[0] = {n}
      BY <1>b DEF Ball
    <3>2. Cardinality(V[0]) = 1
      BY <3>1, FS_Singleton
    <3>3. QED
      BY <3>2
  <2>2. ASSUME NEW k \in Nat, k \in T PROVE k + 1 \in T
    <3> SUFFICES ASSUME k + 1 \in 0 .. N PROVE k + 1 < Cardinality(V[k + 1])
      OBVIOUS
    <3>1. k \in 0 .. N /\ k + 1 \in 1 .. N /\ k < Cardinality(V[k])
      BY <1>1, <2>2
    <3>2. V[k] \subseteq V[k + 1] /\ V[k] # V[k + 1]
      BY <1>b, <1>6, <3>1 DEF Ball, Reach
    <3>3. Cardinality(V[k]) < Cardinality(V[k + 1])
      BY <1>4, <3>1, <3>2, FS_Subset
    <3>4. QED
      BY <1>4, <3>1, <3>3
  <2> HIDE DEF T
  <2>3. QED
    BY <2>1, <2>2, Induction
<1>8. N < Cardinality(V[N])
  BY <1>1, <1>7
<1>9. QED
  BY <1>1, <1>4, <1>8

(* The hops of the search. *)
LEMMA BallHop ==
    ASSUME NEW n \in Nodes, NEW E \in SUBSET (Nodes \X Nodes), NEW N \in Nat, NEW V,
           Ball(n, E, V, N), NEW k \in Nat, NEW j \in 1 .. N, j = k + 1
    PROVE  V[j] = Reach(V[k], E) /\ V[j] \subseteq Nodes
<1>1. j - 1 = k /\ j \in 0 .. N
  OBVIOUS
<1>2. V[j] = Reach(V[j - 1], E) /\ V[j] \subseteq Nodes
  BY <1>1 DEF Ball
<1>3. QED
  BY <1>1, <1>2

LEMMA BallStart ==
    ASSUME NEW n \in Nodes, NEW E \in SUBSET (Nodes \X Nodes), NEW N \in Nat, N # 0, NEW V,
           Ball(n, E, V, N)
    PROVE  V[0] = {n} /\ V[1] = Reach({n}, E) /\ V[1] \subseteq Nodes
<1>1. V[0] = {n}
  BY DEF Ball
<1>2. 1 \in 1 .. N /\ 1 \in 0 .. N /\ 1 - 1 = 0
  OBVIOUS
<1>3. V[1] = Reach(V[1 - 1], E) /\ V[1] \subseteq Nodes
  BY <1>2 DEF Ball
<1>4. QED
  BY <1>1, <1>2, <1>3

(* What is visited stays visited. *)
LEMMA BallGrows ==
    ASSUME NEW n \in Nodes, NEW E \in SUBSET (Nodes \X Nodes), NEW N \in Nat, NEW V,
           Ball(n, E, V, N), NEW k \in 0 .. N, NEW j \in 0 .. k
    PROVE  V[j] \subseteq V[k] /\ V[k] \subseteq Nodes /\ n \in V[k]
<1>1. V[j] \subseteq Nodes /\ V[k] \subseteq Nodes /\ V[0] = {n} /\ j \in 0 .. N /\ 0 \in 0 .. N
  BY DEF Ball
<1>p. \A m \in 0 .. N : \A h \in Nodes : h \in V[m] <=> \E i \in 0 .. m : Path(E, n, h, i)
  BY BallPaths
<1>2. ASSUME NEW h \in V[j] PROVE h \in V[k]
  <2>1. PICK i \in 0 .. j : Path(E, n, h, i)
    BY <1>1, <1>p
  <2>2. i \in 0 .. k
    OBVIOUS
  <2>3. QED
    BY <1>1, <1>p, <2>1, <2>2
<1>3. n \in V[k]
  <2>1. Path(E, n, n, 0) /\ 0 \in 0 .. k
    BY PathStart
  <2>2. QED
    BY <1>p, <2>1
<1>4. QED
  BY <1>1, <1>2, <1>3

(* What updateRoute leaves in n.routes: a neighbour goes by itself, any    *)
(* other host by the next hop of one that was visited before it.           *)
IsTree(n, E, V, r) ==
    /\ \A h \in Nodes \ {n} : <<n, h>> \in E => r[h] = h
    /\ \A k \in 2 .. Cardinality(Nodes) : \A h \in V[k] \ V[k - 1] :
         \E p \in V[k - 1] \ {n} : <<p, h>> \in E /\ r[h] = r[p]
    /\ \A h \in Nodes \ {n} : h \notin V[Cardinality(Nodes)] => r[h] = None

LEMMA ChoicesAreTrees ==
    ASSUME NEW n \in Nodes, NEW E \in SUBSET (Nodes \X Nodes), NEW r \in RouteChoices(n, E)
    PROVE  IsTree(n, E, Visited(n, E), r)
<1> DEFINE V == Visited(n, E)
           N == Cardinality(Nodes)
           first == {e[2] : e \in {d \in E : d[1] = n}}
           isTree(f) ==
              /\ \A h \in first : f[h] = h
              /\ \A k \in 2 .. N : \A h \in V[k] \ V[k - 1] :
                   \E p \in V[k - 1] : <<p, h>> \in E /\ f[h] = f[p]
<1>1. PICK f \in [V[N] \ {n} -> first] :
        /\ isTree(f)
        /\ r = [h \in Nodes |-> IF h \in DOMAIN f THEN f[h]
                                ELSE IF h = n /\ E # {} THEN n ELSE None]
  BY DEF RouteChoices, Routable
<1>2. Ball(n, E, V, N)
  BY VisitedBall
<1>3. N \in Nat /\ N # 0
  BY NodesAssumption, FS_CardinalityType, FS_EmptySet
<1> HIDE DEF V, N
<1>s. V[1] = Reach({n}, E)
  BY <1>2, <1>3, BallStart
<1>g. \A k \in 0 .. N : \A j \in 0 .. k : V[j] \subseteq V[k] /\ V[k] \subseteq Nodes /\ n \in V[k]
  BY <1>2, <1>3, BallGrows
<1>4. \A h \in Nodes \ {n} : h \in V[N] => r[h] = f[h]
  BY <1>1
<1>5. \A h \in Nodes \ {n} : h \notin V[N] => r[h] = None
  BY <1>1
<1>6. ASSUME NEW h \in Nodes \ {n}, <<n, h>> \in E PROVE r[h] = h
  <2>2. h \in V[1]
    BY <1>6, <1>s DEF Reach
  <2>3. 1 \in 0 .. N /\ N \in 0 .. N
    BY <1>3
  <2>4. h \in V[N]
    BY <1>3, <1>g, <2>2, <2>3
  <2>5. h \in first
    BY <1>6
  <2>6. QED
    BY <1>1, <1>4, <2>4, <2>5
<1>7. ASSUME NEW k \in 2 .. N, NEW h \in V[k] \ V[k - 1]
      PROVE  \E p \in V[k - 1] \ {n} : <<p, h>> \in E /\ r[h] = r[p]
  <2>1. PICK p \in V[k - 1] : <<p, h>> \in E /\ f[h] = f[p]
    BY <1>1
  <2>2. k \in 0 .. N /\ k - 1 \in 0 .. N /\ 1 \in 0 .. k - 1 /\ N \in 0 .. N
        /\ k \in 0 .. N /\ 0 \in 0 .. N
    BY <1>3
  <2>3. V[k] \subseteq V[N] /\ V[k - 1] \subseteq V[N] /\ V[N] \subseteq Nodes
    BY <1>3, <1>g, <2>2
  <2>g. V[1] \subseteq V[k - 1] /\ n \in V[k - 1]
    BY <1>g, <2>2
  <2>5. h # n /\ p # n
    BY <1>s, <2>1, <2>g DEF Reach
  <2>6. r[h] = f[h] /\ r[p] = f[p]
    BY <1>4, <2>3, <2>5
  <2>7. QED
    BY <2>1, <2>5, <2>6
<1>8. QED
  BY <1>5, <1>6, <1>7 DEF IsTree, V, N

(* The next hop is a neighbour, and one hop nearer.  By induction on the   *)
(* hops of the search.                                                     *)
LEMMA TreesLead ==
    ASSUME NEW n \in Nodes, NEW E \in SUBSET (Nodes \X Nodes), NEW V, NEW r,
           Ball(n, E, V, Cardinality(Nodes)), IsTree(n, E, V, r)
    PROVE  \A k \in 1 .. Cardinality(Nodes) : \A h \in V[k] \ V[k - 1] :
             <<n, r[h]>> \in E /\ Path(E, r[h], h, k - 1)
<1> DEFINE N == Cardinality(Nodes)
<1>1. N \in Nat /\ N # 0
  BY NodesAssumption, FS_CardinalityType, FS_EmptySet
<1> HIDE DEF N
<1>2. Ball(n, E, V, N)
  BY DEF N
<1>3. /\ \A h \in Nodes \ {n} : <<n, h>> \in E => r[h] = h
      /\ \A k \in 2 .. N : \A h \in V[k] \ V[k - 1] :
           \E p \in V[k - 1] \ {n} : <<p, h>> \in E /\ r[h] = r[p]
  BY DEF IsTree, N
<1>s. V[0] = {n} /\ V[1] = Reach({n}, E) /\ V[1] \subseteq Nodes
  BY <1>1, <1>2, BallStart
<1>h. \A k \in Nat : \A j \in 1 .. N : j = k + 1 => V[j] = Reach(V[k], E) /\ V[j] \subseteq Nodes
  BY <1>1, <1>2, BallHop
<1> DEFINE Leads(k) == \A h \in V[k] \ V[k - 1] : <<n, r[h]>> \in E /\ Path(E, r[h], h, k - 1)
           T == {k \in Nat : k + 1 \in 1 .. N => Leads(k + 1)}
<1>4. 0 \in T
  <2> SUFFICES ASSUME 1 \in 1 .. N, NEW h \in V[1] \ V[0]
               PROVE  <<n, r[h]>> \in E /\ Path(E, r[h], h, 0)
    OBVIOUS
  <2>2. <<n, h>> \in E /\ h \in Nodes \ {n}
    BY <1>s DEF Reach
  <2>3. QED
    BY <1>3, <2>2, PathStart
<1>5. ASSUME NEW k \in Nat, k \in T PROVE k + 1 \in T
  <2> SUFFICES ASSUME k + 2 \in 1 .. N, NEW h \in V[k + 2] \ V[k + 1]
               PROVE  <<n, r[h]>> \in E /\ Path(E, r[h], h, k + 1)
    <3>1. k + 1 + 1 = k + 2 /\ k + 1 + 1 - 1 = k + 1
      OBVIOUS
    <3>2. QED
      BY <3>1
  <2>1. k + 2 \in 2 .. N /\ k + 2 - 1 = k + 1 /\ k + 1 \in 1 .. N /\ k + 1 - 1 = k
    BY <1>1
  <2>2. PICK p \in V[k + 1] \ {n} : <<p, h>> \in E /\ r[h] = r[p]
    <3>1. \A j \in V[k + 2] \ V[k + 2 - 1] :
            \E p \in V[k + 2 - 1] \ {n} : <<p, j>> \in E /\ r[j] = r[p]
      BY <1>3, <2>1
    <3>2. QED
      BY <2>1, <3>1
  <2>3. V[k + 2] = Reach(V[k + 1], E) /\ V[k + 1] = Reach(V[k], E) /\ V[k + 2] \subseteq Nodes
    <3>1. k + 2 = (k + 1) + 1 /\ k + 2 \in 1 .. N /\ k + 1 \in 1 .. N /\ k + 1 \in Nat
      BY <1>1
    <3>2. QED
      BY <1>h, <3>1
  <2>4. p \notin V[k]
    BY <2>2, <2>3 DEF Reach
  <2>5. Leads(k + 1)
    BY <1>5, <2>1
  <2>6. <<n, r[p]>> \in E /\ Path(E, r[p], p, k)
    BY <2>1, <2>2, <2>4, <2>5
  <2>7. h \in Nodes
    BY <2>3
  <2>8. QED
    BY <2>2, <2>6, <2>7, PathLonger
<1>6. \A k \in Nat : k \in T
  <2> HIDE DEF T
  <2>1. QED
    BY <1>4, <1>5, Induction
<1>7. ASSUME NEW k \in 1 .. N PROVE Leads(k)
  <2>1. k - 1 \in Nat /\ k - 1 + 1 = k
    BY <1>1
  <2>2. k - 1 \in T
    BY <1>6, <2>1
  <2>3. QED
    BY <2>1, <2>2
<1>8. QED
  BY <1>7 DEF N

(* What updateRoute's search leaves are the first hops of shortest paths. *)
LEMMA ChoicesAreShortest ==
    ASSUME NEW n \in Nodes, NEW E \in SUBSET (Nodes \X Nodes), NEW r \in RouteChoices(n, E),
           NEW h \in Nodes \ {n}
    PROVE  LET D == {k \in 1 .. Cardinality(Nodes) - 1 : Path(E, n, h, k)} IN
           IF D = {} THEN r[h] = None
           ELSE \E k \in D : /\ \A d \in D : k <= d
                             /\ <<n, r[h]>> \in E
                             /\ Path(E, r[h], h, k - 1)
<1> DEFINE N == Cardinality(Nodes)
           V == Visited(n, E)
           D == {k \in 1 .. N - 1 : Path(E, n, h, k)}
<1>1. Ball(n, E, V, N) /\ IsTree(n, E, V, r)
  BY VisitedBall, ChoicesAreTrees
<1>2. N \in Nat \ {0} /\ V[N] = V[N - 1]
  BY <1>1, BallEnds
<1>3. \A k \in 1 .. N : \A j \in V[k] \ V[k - 1] : <<n, r[j]>> \in E /\ Path(E, r[j], j, k - 1)
  BY <1>1, TreesLead
<1>4. h \notin V[N] => r[h] = None
  BY <1>1 DEF IsTree
<1> HIDE DEF N, V
<1>5. \A k \in 0 .. N : h \in V[k] <=> \E i \in 0 .. k : Path(E, n, h, i)
  BY <1>1, <1>2, BallPaths
<1>6. ~ Path(E, n, h, 0)
  BY PathNone
<1>7. CASE D = {}
  <2>1. h \notin V[N - 1]
    <3>1. N - 1 \in 0 .. N
      BY <1>2
    <3>2. SUFFICES ASSUME NEW i \in 0 .. N - 1, Path(E, n, h, i) PROVE FALSE
      BY <1>5, <3>1
    <3>3. i # 0
      BY <1>6, <3>2
    <3>4. i \in D
      BY <1>2, <3>2, <3>3
    <3>5. QED
      BY <1>7, <3>4
  <2>2. r[h] = None
    BY <1>2, <1>4, <2>1
  <2>3. QED
    BY <1>7, <2>2 DEF N
<1>8. CASE D # {}
  <2>1. D \in SUBSET Nat
    BY <1>2
  <2> HIDE DEF D
  <2>2. PICK k \in D : \A d \in D : k <= d
    BY <1>8, <2>1, Least
  <2>3. k \in 1 .. N - 1 /\ Path(E, n, h, k)
    BY DEF D
  <2>4. h \in V[k]
    BY <1>2, <1>5, <2>3
  <2>5. h \notin V[k - 1]
    <3>1. k - 1 \in 0 .. N
      BY <1>2, <2>3
    <3>2. SUFFICES ASSUME NEW i \in 0 .. k - 1, Path(E, n, h, i) PROVE FALSE
      BY <1>5, <3>1
    <3>3. i # 0
      BY <1>6, <3>2
    <3>4. i \in D
      BY <1>2, <2>3, <3>2, <3>3 DEF D
    <3>5. QED
      BY <2>1, <2>2, <2>3, <3>4
  <2>6. k \in 1 .. N
    BY <1>2, <2>3
  <2>7. <<n, r[h]>> \in E /\ Path(E, r[h], h, k - 1)
    BY <1>3, <2>4, <2>5, <2>6
  <2>8. \E d \in D : (\A c \in D : d <= c) /\ <<n, r[h]>> \in E /\ Path(E, r[h], h, d - 1)
    BY <2>2, <2>7
  <2>9. QED
    BY <1>8, <2>8 DEF D, N
<1>9. QED
  BY <1>7, <1>8

(* Routes that are not stale are right. *)
LEMMA SearchedIsCurrent == RoutesSearched => RoutesCurrent
<1> SUFFICES ASSUME RoutesSearched, NEW n \in Nodes, ~ updateNetwork[n], NEW h \in Nodes \ {n}
             PROVE  LET E == Effective(network[n])
                        D == {k \in 1 .. Cardinality(Nodes) - 1 : Path(E, n, h, k)} IN
                    IF D = {} THEN routes[n][h] = None
                    ELSE \E k \in D : /\ \A d \in D : k <= d
                                      /\ <<n, routes[n][h]>> \in E
                                      /\ Path(E, routes[n][h], h, k - 1)
  BY DEF RoutesCurrent
<1> DEFINE E == Effective(network[n])
           D == {k \in 1 .. Cardinality(Nodes) - 1 : Path(E, n, h, k)}
<1>1. CASE Unheard(n)
  <2>1. E = {} /\ routes[n][h] = None
    BY <1>1 DEF Unheard, Effective
  <2>2. Cardinality(Nodes) \in Nat
    BY NodesAssumption, FS_CardinalityType
  <2>3. ASSUME NEW k \in D PROVE FALSE
    <3> HIDE DEF E
    <3>1. k \in 1 .. k /\ Path(E, n, h, k)
      BY <2>2
    <3>2. QED
      BY <2>1, <3>1 DEF Path
  <2>4. QED
    BY <2>1, <2>3
<1>2. CASE routes[n] \in RouteChoices(n, E)
  <2>1. E \in SUBSET (Nodes \X Nodes)
    BY DEF Effective
  <2> HIDE DEF E
  <2>2. QED
    BY <1>2, <2>1, ChoicesAreShortest DEF E
<1>3. QED
  BY <1>1, <1>2 DEF RoutesSearched

(* Unless updateNetwork says that they are out of date, the routes lead to *)
(* exactly the nodes that the known network connects with this one, each   *)
(* by a neighbour on a shortest path, whatever order the search takes its  *)
(* maps in (handleMSA, MSA, checkUpdateNetwork, updateRoute).              *)
THEOREM RoutesAreCurrent == Spec => []RoutesCurrent
  BY RoutesNeverStale, SearchedIsCurrent, PTL

=============================================================================
