------------------------------ MODULE Meshage ------------------------------
(***************************************************************************)
(* The mesh of minimega nodes (meshage): the handshakes of connections,    *)
(* the map of clients and the goroutine that reads from each, the          *)
(* announcements of neighbours (MSA) that are flooded through the mesh,    *)
(* the routes that every node computes from them, and messages to sets of  *)
(* nodes that are split by next hop and forwarded.                         *)
(*                                                                         *)
(* A node is its name.  Each send runs in a goroutine of its own, and so   *)
(* do handleMSA and the forwarding of a message; only messagePump keeps an *)
(* order.  A critical section of clientLock, meshLock or sequenceLock is   *)
(* one step.                                                               *)
(***************************************************************************)
EXTENDS Naturals, Sequences, FiniteSets

CONSTANTS
    Nodes,     \* the names of the nodes
    None,      \* no node
    Dials,     \* who may dial whom
    Targets,   \* who sends messages to which nodes
    MaxLinks,  \* bound on the connections ever made
    MaxMSA,    \* bound on the announcements of each node
    MaxSends,  \* bound on the messages ever sent
    Faults     \* what may go wrong

Links == 1 .. MaxLinks
NoLink == 0
Sends == 1 .. MaxSends
LOLLIPOP_LENGTH == 16

(* A user hangs up, an answer takes longer than the timeout, a node that   *)
(* solicited connections has enough of them by now.                        *)
AllFaults == {"hangup", "timeout", "full"}

ASSUME NodesAssumption == None \notin Nodes /\ IsFiniteSet(Nodes)
ASSUME DialsAssumption == Dials \subseteq {d \in Nodes \X Nodes : d[1] # d[2]}
ASSUME TargetsAssumption == Targets \subseteq Nodes \X SUBSET Nodes
ASSUME BoundsAssumption == MaxLinks \in Nat /\ MaxMSA \in Nat /\ MaxSends \in Nat
ASSUME FaultsAssumption == Faults \subseteq AllFaults

(* A Message: an announcement of src's neighbours, numbered by src, or one *)
(* of a user for the nodes in rec.  route is its CurrentRoute.             *)
Message == [cmd : {"MSA", "MESSAGE"}, src : Nodes, id : Nat, body : SUBSET Nodes,
            rec : SUBSET Nodes, route : SUBSET Nodes]

VARIABLES
    nlinks,         \* connections dialed so far
    dialer, acceptor,
    open,           \* the ends of each connection that are open
    phase,          \* how far its handshake is
    listener,       \* the connection that connectionListener works on
    clients,        \* n.clients
    hand,           \* the clientHandler goroutines, by node and the link they were made for
    serves,         \* the link such a goroutine got from getClient
    sequences,      \* n.sequences; its own entry is that of n.instance
    network,        \* n.network; no list is an empty list
    updateNetwork,  \* n.updateNetwork
    routes,         \* n.routes
    outbox,         \* the goroutines in clientSend
    pump,           \* n.messagePump
    msas,           \* the goroutines in handleMSA
    forwards,       \* the goroutines in Send that forward a message
    calls,          \* the callers of Set and Broadcast
    received        \* how often n.receive got each message

linkVars == <<nlinks, dialer, acceptor, open, phase, listener>>
clientVars == <<clients, hand, serves>>
meshVars == <<network, updateNetwork, routes>>
messageVars == <<outbox, pump, msas, forwards>>
vars == <<linkVars, clientVars, sequences, meshVars, messageVars, calls, received>>

(* The types of the fields of every Node, and that clientSend is only ever *)
(* asked to send to a node, since getRoutes skips hosts without a route.   *)
TypeOK ==
    /\ nlinks \in 0 .. MaxLinks
    /\ dialer \in [Links -> Nodes \cup {None}] /\ acceptor \in [Links -> Nodes \cup {None}]
    /\ open \in [Links -> SUBSET Nodes]
    /\ phase \in [Links -> {"none", "backlog", "greeted", "named", "refused"}]
    /\ listener \in [Nodes -> Links \cup {NoLink}]
    /\ clients \in [Nodes -> [Nodes -> Links \cup {NoLink}]]
    /\ hand \in [Nodes -> [Links -> {"none", "spawned", "reading", "done"}]]
    /\ serves \in [Nodes -> [Links -> Links \cup {NoLink}]]
    /\ sequences \in [Nodes -> [Nodes -> 0 .. MaxMSA]]
    /\ network \in [Nodes -> [Nodes -> SUBSET Nodes]]
    /\ updateNetwork \in [Nodes -> BOOLEAN]
    /\ routes \in [Nodes -> [Nodes -> Nodes \cup {None}]]
    /\ outbox \subseteq [at : Nodes, to : Nodes, link : Links \cup {NoLink}, msg : Message]
    /\ pump \in [Nodes -> Seq(Message)]
    /\ msas \subseteq [at : Nodes, msg : Message]
    /\ forwards \subseteq [at : Nodes, msg : Message]
    /\ calls \in [Sends -> [st : {"none", "busy", "done"}, err : BOOLEAN, to : SUBSET Nodes]]
    /\ received \in [Sends -> [Nodes -> Nat]]

(* NewNode, for every node. *)
Init ==
    /\ nlinks = 0
    /\ dialer = [l \in Links |-> None] /\ acceptor = [l \in Links |-> None]
    /\ open = [l \in Links |-> {}] /\ phase = [l \in Links |-> "none"]
    /\ listener = [n \in Nodes |-> NoLink]
    /\ clients = [n \in Nodes |-> [m \in Nodes |-> NoLink]]
    /\ hand = [n \in Nodes |-> [l \in Links |-> "none"]]
    /\ serves = [n \in Nodes |-> [l \in Links |-> NoLink]]
    /\ sequences = [n \in Nodes |-> [m \in Nodes |-> 0]]
    /\ network = [n \in Nodes |-> [m \in Nodes |-> {}]]
    /\ updateNetwork = [n \in Nodes |-> FALSE]
    /\ routes = [n \in Nodes |-> [m \in Nodes |-> None]]
    /\ outbox = {} /\ pump = [n \in Nodes |-> <<>>] /\ msas = {} /\ forwards = {}
    /\ calls = [i \in Sends |-> [st |-> "none", err |-> FALSE, to |-> {}]]
    /\ received = [i \in Sends |-> [n \in Nodes |-> 0]]

Peer(n, l) == IF dialer[l] = n THEN acceptor[l] ELSE dialer[l]

----------------------------------------------------------------------------
(* The topology and the routes. *)

(* generateEffectiveNetwork: the connections that both ends report. *)
Effective(net) == {e \in Nodes \X Nodes : e[2] \in net[e[1]] /\ e[1] \in net[e[2]]}

Hosts(E) == {e[1] : e \in E}

(* updateRoute's breadth-first search from n: the nodes visited within k   *)
(* hops.                                                                   *)
Visited(n, E) ==
    LET ball[k \in 0 .. Cardinality(Nodes)] ==
            IF k = 0 THEN {n}
            ELSE LET near == ball[k - 1]
                 IN  near \cup {e[2] : e \in {d \in E : d[1] \in near}}
    IN  ball

Routable(n, E) == Visited(n, E)[Cardinality(Nodes)]

(* A host of the effective network that the search does not reach is       *)
(* deleted from n.network.  What is left is connected to n, so that the    *)
(* loop ends after the next round.                                         *)
Prune(n, net) ==
    LET E == Effective(net)
        unroutable == Hosts(E) \ Routable(n, E)
    IN  [h \in Nodes |-> IF h \in unroutable THEN {} ELSE net[h]]

(* What updateRoute may put in n.routes: a host goes by the next hop of    *)
(* the host that the search came from.  Which of the neighbours that are   *)
(* one hop nearer that is depends on the order of a Go map.                *)
RouteChoices(n, E) ==
    LET N == Cardinality(Nodes)
        V == Visited(n, E)
        first == {e[2] : e \in {d \in E : d[1] = n}}
        isTree(r) ==
            /\ \A h \in first : r[h] = h
            /\ \A k \in 2 .. N : \A h \in V[k] \ V[k - 1] :
                 \E p \in V[k - 1] : <<p, h>> \in E /\ r[h] = r[p]
    IN  {[h \in Nodes |-> IF h \in DOMAIN r THEN r[h]
                          ELSE IF h = n /\ E # {} THEN n ELSE None] :
            r \in {f \in [Routable(n, E) \ {n} -> first] : isTree(f)}}

CheckUpdateNetwork(n) ==
    IF ~ updateNetwork[n]
    THEN UNCHANGED meshVars
    ELSE LET net == Prune(n, network[n]) IN
         /\ network' = [network EXCEPT ![n] = net]
         /\ \E r \in RouteChoices(n, Effective(net)) : routes' = [routes EXCEPT ![n] = r]
         /\ updateNetwork' = [updateNetwork EXCEPT ![n] = FALSE]

(* periodicEffectiveNetwork. *)
Update(n) ==
    /\ updateNetwork[n] /\ CheckUpdateNetwork(n)
    /\ UNCHANGED <<linkVars, clientVars, sequences, messageVars, calls, received>>

(* flood: a goroutine in clientSend for every client that the message has  *)
(* not passed, where cs is the map of clients of n.                        *)
Flood(n, m, cs) ==
    {[at |-> n, to |-> j, link |-> NoLink, msg |-> m] :
        j \in {k \in Nodes : cs[k] # NoLink} \ m.route}

(* MSA: a node reports its clients; with none it only corrects its own     *)
(* list.                                                                   *)
MSA(n, cs) ==
    LET C == {k \in Nodes : cs[k] # NoLink}
        id == sequences[n][n] + 1
        m == [cmd |-> "MSA", src |-> n, id |-> id, body |-> C, rec |-> {}, route |-> {n}]
    IN  /\ network' = [network EXCEPT ![n][n] = C]
        /\ updateNetwork' = [updateNetwork EXCEPT ![n] = @ \/ network[n][n] # C]
        /\ UNCHANGED <<routes, pump, msas, forwards>>
        /\ IF C = {} THEN UNCHANGED <<sequences, outbox>>
           ELSE /\ id <= MaxMSA
                /\ sequences' = [sequences EXCEPT ![n][n] = id]
                /\ outbox' = outbox \cup Flood(n, m, cs)

(* MSA is limited to one in half an msaTimeout: a caller may or may not    *)
(* get its announcement.                                                   *)
LimitedMSA(n, cs) == MSA(n, cs) \/ UNCHANGED <<sequences, meshVars, messageVars>>

PeriodicMSA(n) ==
    /\ MSA(n, clients[n])
    /\ UNCHANGED <<linkVars, clientVars, calls, received>>

----------------------------------------------------------------------------
(* Connections. *)

(* dial() has connected; connectionListener works on one at a time. *)
Dial(d) ==
    /\ nlinks < MaxLinks
    /\ nlinks' = nlinks + 1
    /\ dialer' = [dialer EXCEPT ![nlinks + 1] = d[1]]
    /\ acceptor' = [acceptor EXCEPT ![nlinks + 1] = d[2]]
    /\ open' = [open EXCEPT ![nlinks + 1] = {d[1], d[2]}]
    /\ phase' = [phase EXCEPT ![nlinks + 1] = "backlog"]
    /\ UNCHANGED <<listener, clientVars, sequences, meshVars, messageVars, calls, received>>

(* newConnection sends its name and whether it solicits connections. *)
Accept(l) ==
    /\ phase[l] = "backlog" /\ listener[acceptor[l]] = NoLink
    /\ phase' = [phase EXCEPT ![l] = "greeted"]
    /\ listener' = [listener EXCEPT ![acceptor[l]] = l]
    /\ UNCHANGED <<nlinks, dialer, acceptor, open, clientVars, sequences, meshVars,
                   messageVars, calls, received>>

(* A mutant of DialRefused that returns without conn.Close. *)
DialRefusedKeepsConn(l) ==
    /\ phase[l] = "greeted"
    /\ clients[dialer[l]][acceptor[l]] # NoLink \/ "full" \in Faults
    /\ phase' = [phase EXCEPT ![l] = "refused"]
    /\ UNCHANGED <<nlinks, dialer, acceptor, open, listener, clientVars, sequences, meshVars,
                   messageVars, calls, received>>

(* dial() hangs up: it is connected to this node already, or was solicited *)
(* by a node that wants no more connections.                               *)
DialRefused(l) ==
    /\ phase[l] = "greeted"
    /\ clients[dialer[l]][acceptor[l]] # NoLink \/ "full" \in Faults
    /\ phase' = [phase EXCEPT ![l] = "refused"]
    /\ open' = [open EXCEPT ![l] = @ \ {dialer[l]}]
    /\ UNCHANGED <<nlinks, dialer, acceptor, listener, clientVars, sequences, meshVars,
                   messageVars, calls, received>>

(* dial() sends its name; hasClient was asked before, without keeping the  *)
(* lock.                                                                   *)
DialNamed(l) ==
    /\ phase[l] = "greeted" /\ clients[dialer[l]][acceptor[l]] = NoLink
    /\ phase' = [phase EXCEPT ![l] = "named"]
    /\ UNCHANGED <<nlinks, dialer, acceptor, open, listener, clientVars, sequences,
                   meshVars, messageVars, calls, received>>

(* A mutant of Insert that starts a handler for a new name only. *)
InsertReusesHandler(n, l) ==
    /\ phase[l] = "named" /\ hand[n][l] = "none"
    /\ clients' = [clients EXCEPT ![n][Peer(n, l)] = l]
    /\ hand' = [hand EXCEPT ![n][l] =
         IF clients[n][Peer(n, l)] = NoLink THEN "spawned" ELSE "done"]
    /\ UNCHANGED <<serves, nlinks, dialer, acceptor, open, phase, sequences, meshVars,
                   messageVars, calls, received>>

(* Each end adds the client to its map, over whatever is there, and starts *)
(* a handler.                                                              *)
Insert(n, l) ==
    /\ phase[l] = "named" /\ hand[n][l] = "none"
    /\ clients' = [clients EXCEPT ![n][Peer(n, l)] = l]
    /\ hand' = [hand EXCEPT ![n][l] = "spawned"]
    /\ UNCHANGED <<serves, nlinks, dialer, acceptor, open, phase, sequences, meshVars,
                   messageVars, calls, received>>

DialDone(l) == Insert(dialer[l], l) /\ UNCHANGED listener

AcceptDone(l) ==
    /\ listener[acceptor[l]] = l
    /\ Insert(acceptor[l], l)
    /\ listener' = [listener EXCEPT ![acceptor[l]] = NoLink]

(* newConnection fails to decode the name. *)
AcceptFails(l) ==
    /\ phase[l] = "refused" /\ dialer[l] \notin open[l] /\ listener[acceptor[l]] = l
    /\ listener' = [listener EXCEPT ![acceptor[l]] = NoLink]
    /\ open' = [open EXCEPT ![l] = {}]
    /\ UNCHANGED <<nlinks, dialer, acceptor, phase, clientVars, sequences, meshVars,
                   messageVars, calls, received>>

(* clientHandler looks its client up by name: it may get another link than *)
(* the one it was started for, or none.                                    *)
HandlerStart(n, l) ==
    LET c == clients[n][Peer(n, l)] IN
    /\ hand[n][l] = "spawned"
    /\ hand' = [hand EXCEPT ![n][l] = IF c = NoLink THEN "done" ELSE "reading"]
    /\ serves' = [serves EXCEPT ![n][l] = c]
    /\ IF c = NoLink THEN UNCHANGED <<sequences, meshVars, messageVars>>
       ELSE LimitedMSA(n, clients[n])
    /\ UNCHANGED <<clients, linkVars, calls, received>>

(* A mutant of HandlerExit that keeps reading at the end of the file. *)
HandlerExitIgnoresEOF(n, l) ==
    LET c == serves[n][l] IN
    /\ hand[n][l] = "reading" /\ n \notin open[c]
    /\ open' = [open EXCEPT ![c] = @ \ {n}]
    /\ clients' = [clients EXCEPT ![n][Peer(n, c)] = NoLink]
    /\ hand' = [hand EXCEPT ![n][l] = "done"]
    /\ LimitedMSA(n, clients'[n])
    /\ UNCHANGED <<serves, nlinks, dialer, acceptor, phase, listener, calls, received>>

(* Decode fails because either end has closed the connection.  The client  *)
(* is deleted by name.                                                     *)
HandlerExit(n, l) ==
    LET c == serves[n][l] IN
    /\ hand[n][l] = "reading" /\ open[c] # {n, Peer(n, c)}
    /\ open' = [open EXCEPT ![c] = @ \ {n}]
    /\ clients' = [clients EXCEPT ![n][Peer(n, c)] = NoLink]
    /\ hand' = [hand EXCEPT ![n][l] = "done"]
    /\ LimitedMSA(n, clients'[n])
    /\ UNCHANGED <<serves, nlinks, dialer, acceptor, phase, listener, calls, received>>

Hangup(n, m) ==
    LET l == clients[n][m] IN
    /\ "hangup" \in Faults /\ l # NoLink /\ n \in open[l]
    /\ open' = [open EXCEPT ![l] = @ \ {n}]
    /\ UNCHANGED <<nlinks, dialer, acceptor, phase, listener, clientVars, sequences,
                   meshVars, messageVars, calls, received>>

----------------------------------------------------------------------------
(* clientSend. *)

(* Some handler of n decodes what arrives on l: messages and their ACKs. *)
Reads(n, l) == \E k \in Links : hand[n][k] = "reading" /\ serves[n][k] = l

(* A handler of n may yet come to read from l. *)
MayRead(n, l) == hand[n][l] \in {"none", "spawned"} \/ Reads(n, l)

Connected(x) == open[x.link] = {x.at, x.to}

(* This is a goroutine of the Send that its caller waits for. *)
OfCaller(x) == x.msg.cmd = "MESSAGE" /\ x.msg.route = {x.msg.src}

(* The goroutine x ends with an error. *)
SendErr(x) ==
    /\ outbox' = outbox \ {x}
    /\ calls' = IF OfCaller(x) THEN [calls EXCEPT ![x.msg.id].err = TRUE] ELSE calls

GetClient(x) ==
    LET l == clients[x.at][x.to] IN
    /\ x.link = NoLink
    /\ IF l = NoLink THEN SendErr(x)
       ELSE outbox' = (outbox \ {x}) \cup {[x EXCEPT !.link = l]} /\ UNCHANGED calls
    /\ UNCHANGED <<linkVars, clientVars, sequences, meshVars, pump, msas, forwards, received>>

(* The peer's handler answers with an ACK and queues the message; this     *)
(* end's handler passes the ACK on.                                        *)
SendOK(x) ==
    /\ x.link # NoLink /\ Connected(x)
    /\ Reads(x.at, x.link) /\ Reads(x.to, x.link)
    /\ outbox' = outbox \ {x}
    /\ pump' = [pump EXCEPT ![x.to] = Append(@, x.msg)]
    /\ UNCHANGED <<linkVars, clientVars, sequences, meshVars, msas, forwards, calls, received>>

(* A mutant of SendUnacked that encodes the message again. *)
SendUnackedResends(x) ==
    /\ x.link # NoLink /\ Connected(x) /\ Reads(x.to, x.link)
    /\ "timeout" \in Faults \/ ~ MayRead(x.at, x.link)
    /\ pump' = [pump EXCEPT ![x.to] = Append(@, x.msg)]
    /\ UNCHANGED <<linkVars, clientVars, sequences, meshVars, outbox, msas, forwards, calls,
                   received>>

(* The message is queued, but no ACK comes in time, or nobody reads it. *)
SendUnacked(x) ==
    /\ x.link # NoLink /\ Connected(x) /\ Reads(x.to, x.link)
    /\ "timeout" \in Faults \/ ~ MayRead(x.at, x.link)
    /\ open' = [open EXCEPT ![x.link] = @ \ {x.at}]
    /\ pump' = [pump EXCEPT ![x.to] = Append(@, x.msg)]
    /\ SendErr(x)
    /\ UNCHANGED <<nlinks, dialer, acceptor, phase, listener, clientVars, sequences, meshVars,
                   msas, forwards, received>>

(* Encode fails, or the message stays unread until the timeout. *)
SendFails(x) ==
    /\ x.link # NoLink
    /\ ~ Connected(x) \/ ~ MayRead(x.to, x.link) \/ "timeout" \in Faults
    /\ open' = [open EXCEPT ![x.link] = @ \ {x.at}]
    /\ SendErr(x)
    /\ UNCHANGED <<nlinks, dialer, acceptor, phase, listener, clientVars, sequences, meshVars,
                   pump, msas, forwards, received>>

----------------------------------------------------------------------------
(* messageHandler and what it starts. *)

(* The last announcement seen, after the reset of the lollipop. *)
LastSeen(j, m) ==
    IF m.id = 1 /\ sequences[j][m.src] > LOLLIPOP_LENGTH THEN 0 ELSE sequences[j][m.src]

PumpMSA(j) ==
    LET m == Head(pump[j])
        passed == [m EXCEPT !.route = @ \cup {j}]
    IN  /\ pump[j] # <<>> /\ m.cmd = "MSA"
        /\ pump' = [pump EXCEPT ![j] = Tail(@)]
        /\ IF m.id > LastSeen(j, m)
           THEN /\ sequences' = [sequences EXCEPT ![j][m.src] = m.id]
                /\ msas' = msas \cup {[at |-> j, msg |-> passed]}
                /\ outbox' = outbox \cup Flood(j, passed, clients[j])
           ELSE UNCHANGED <<sequences, msas, outbox>>
        /\ UNCHANGED <<linkVars, clientVars, meshVars, forwards, calls, received>>

(* The message is for n.receive, for others, or both. *)
PumpMessage(j) ==
    LET m == Head(pump[j]) IN
    /\ pump[j] # <<>> /\ m.cmd = "MESSAGE"
    /\ pump' = [pump EXCEPT ![j] = Tail(@)]
    /\ received' = IF j \in m.rec THEN [received EXCEPT ![m.id][j] = @ + 1] ELSE received
    /\ forwards' = forwards \cup
         {[at |-> j, msg |-> [m EXCEPT !.route = @ \cup {j}, !.rec = @ \ {j}]]}
    /\ UNCHANGED <<linkVars, clientVars, sequences, meshVars, outbox, msas, calls>>

MessageHandler(j) == PumpMSA(j) \/ PumpMessage(j)

(* A mutant of HandleMSA that forgets to set updateNetwork. *)
HandleMSAKeepsRoutes(x) ==
    /\ x \in msas /\ msas' = msas \ {x}
    /\ network' = [network EXCEPT ![x.at][x.msg.src] = x.msg.body]
    /\ UNCHANGED <<linkVars, clientVars, sequences, routes, updateNetwork, outbox, pump,
                   forwards, calls, received>>

HandleMSA(x) ==
    /\ x \in msas /\ msas' = msas \ {x}
    /\ network' = [network EXCEPT ![x.at][x.msg.src] = x.msg.body]
    /\ updateNetwork' = [updateNetwork EXCEPT
         ![x.at] = @ \/ network[x.at][x.msg.src] # x.msg.body]
    /\ UNCHANGED <<linkVars, clientVars, sequences, routes, outbox, pump, forwards, calls,
                   received>>

----------------------------------------------------------------------------
(* Send. *)

(* A mutant of Routed that does not look whether there is a route. *)
RoutedAll(n, R, r) == R \ {n}

(* The recipients that n has a route to. *)
Routed(n, R, r) == {v \in R \ {n} : r[v] # None}

(* getRoutes: the recipients are split by next hop. *)
Copies(n, m, r) ==
    {[at |-> n, to |-> h, link |-> NoLink,
      msg |-> [m EXCEPT !.rec = {v \in Routed(n, m.rec, r) : r[v] = h}]] :
        h \in {r[v] : v \in Routed(n, m.rec, r)}}

(* A user's Send to R, the i-th message. *)
SendTo(n, R, i) ==
    LET m == [cmd |-> "MESSAGE", src |-> n, id |-> i, body |-> {}, rec |-> R, route |-> {n}] IN
    /\ outbox' = outbox \cup Copies(n, m, routes'[n])
    /\ calls' = [calls EXCEPT ![i] = [st |-> "busy", err |-> R = {n},
                                      to |-> Routed(n, R, routes'[n])]]

NextSend(i) == calls[i].st = "none" /\ \A k \in 1 .. i - 1 : calls[k].st # "none"

Set(n, R, i) ==
    /\ NextSend(i)
    /\ CheckUpdateNetwork(n)
    /\ SendTo(n, R, i)
    /\ UNCHANGED <<linkVars, clientVars, sequences, pump, msas, forwards, received>>

(* The recipients are the effective network, which is looked at before     *)
(* Send looks at the routes.                                               *)
Broadcast(n, i) ==
    /\ NextSend(i)
    /\ CheckUpdateNetwork(n)
    /\ SendTo(n, Hosts(Effective(network'[n])) \ {n}, i)
    /\ UNCHANGED <<linkVars, clientVars, sequences, pump, msas, forwards, received>>

Forward(x) ==
    /\ x \in forwards /\ forwards' = forwards \ {x}
    /\ CheckUpdateNetwork(x.at)
    /\ outbox' = outbox \cup Copies(x.at, x.msg, routes'[x.at])
    /\ UNCHANGED <<linkVars, clientVars, sequences, pump, msas, calls, received>>

(* A mutant of Return where a goroutine that fails does not write to       *)
(* errChan.                                                                *)
ReturnOnSuccess(i) ==
    /\ calls[i].st = "busy" /\ ~ calls[i].err
    /\ \A x \in outbox : ~ (OfCaller(x) /\ x.msg.id = i)
    /\ calls' = [calls EXCEPT ![i].st = "done"]
    /\ UNCHANGED <<linkVars, clientVars, sequences, meshVars, messageVars, received>>

(* Send has heard of all its goroutines. *)
Return(i) ==
    /\ calls[i].st = "busy"
    /\ \A x \in outbox : ~ (OfCaller(x) /\ x.msg.id = i)
    /\ calls' = [calls EXCEPT ![i].st = "done"]
    /\ UNCHANGED <<linkVars, clientVars, sequences, meshVars, messageVars, received>>

----------------------------------------------------------------------------
ListenerStep(n) == \E l \in Links :
    acceptor[l] = n /\ (Accept(l) \/ AcceptDone(l) \/ AcceptFails(l))

DialStep(l) == DialRefused(l) \/ DialNamed(l) \/ DialDone(l)

HandlerStep(n, l) == HandlerStart(n, l) \/ HandlerExit(n, l)

SendStep(n, j) == \E x \in outbox :
    x.at = n /\ x.to = j /\ (GetClient(x) \/ SendOK(x) \/ SendUnacked(x) \/ SendFails(x))

Next ==
    \/ \E d \in Dials : Dial(d)
    \/ \E l \in Links : DialStep(l)
    \/ \E n \in Nodes :
        \/ ListenerStep(n) \/ PeriodicMSA(n) \/ Update(n) \/ MessageHandler(n)
        \/ \E l \in Links : HandlerStep(n, l)
        \/ \E j \in Nodes : SendStep(n, j) \/ Hangup(n, j)
    \/ \E x \in msas : HandleMSA(x)
    \/ \E x \in forwards : Forward(x)
    \/ \E i \in Sends : Return(i) \/ \E t \in Targets : Set(t[1], t[2], i) \/ Broadcast(t[1], i)

Spec == Init /\ [][Next]_vars

(* Every goroutine that can go on does so; nobody has to dial or to hang   *)
(* up, and faults need not happen.                                         *)
Fairness ==
    /\ \A l \in Links : WF_vars(DialStep(l))
    /\ \A n \in Nodes :
        /\ WF_vars(ListenerStep(n)) /\ WF_vars(MessageHandler(n))
        /\ \A l \in Links : WF_vars(HandlerStep(n, l))
        /\ \A j \in Nodes : WF_vars(SendStep(n, j))
    /\ \A i \in Sends : WF_vars(Return(i))

FairSpec == Spec /\ Fairness

----------------------------------------------------------------------------
(* What is checked. *)

(* Every client in the map has a handler that reads from its connection,   *)
(* or is about to: clientHandler's exit is the only place that ever        *)
(* deletes a client, so one without a handler would stay for good.         *)
ClientHasHandler == \A n, m \in Nodes : \A l \in Links :
    clients[n][m] = l => hand[n][l] = "spawned" \/ (hand[n][l] = "reading" /\ serves[n][l] = l)

(* A message is delivered at most once to a node, however the copies are   *)
(* split, forwarded along routes that disagree, or reported as failed      *)
(* after they have arrived (clientSend, getRoutes, messageHandler).        *)
AtMostOnce == \A i \in Sends : \A n \in Nodes : received[i][n] <= 1

(* E has a path of k connections from n to h. *)
Path(E, n, h, k) == \E p \in [0 .. k -> Nodes] :
    p[0] = n /\ p[k] = h /\ \A i \in 1 .. k : <<p[i - 1], p[i]>> \in E

(* Unless updateNetwork says that they are out of date, the routes lead to *)
(* exactly the nodes that the known network connects with this one, each   *)
(* by a neighbour on a shortest path (handleMSA, MSA, updateRoute).        *)
RoutesCurrent == \A n \in Nodes : ~ updateNetwork[n] =>
    LET E == Effective(network[n]) IN
    \A h \in Nodes \ {n} :
        LET D == {k \in 1 .. Cardinality(Nodes) - 1 : Path(E, n, h, k)} IN
        IF D = {} THEN routes[n][h] = None
        ELSE \E k \in D : /\ \A d \in D : k <= d
                          /\ <<n, routes[n][h]>> \in E
                          /\ Path(E, routes[n][h], h, k - 1)

(* connectionListener comes back from every handshake, however the dialing *)
(* node decides (newConnection, dial).                                     *)
HandshakeEnds == \A n \in Nodes : listener[n] # NoLink ~> listener[n] = NoLink

(* A connection that is closed at either end does not stay in the map      *)
(* (clientHandler).                                                        *)
ClosedIsRemoved == \A n, m \in Nodes : \A l \in Links :
    clients[n][m] = l /\ open[l] # {n, m} ~> clients[n][m] # l

(* Set and Broadcast return, whatever becomes of the connections. *)
SendReturns == \A i \in Sends : calls[i].st = "busy" ~> calls[i].st = "done"

----------------------------------------------------------------------------
(* What does not hold. *)

(* message.go: "Set blocks until an ACK is received from all recipient     *)
(* nodes, or until the timeout is reached".                                *)
SetIsAcknowledged == \A i \in Sends : calls[i].st = "done" /\ ~ calls[i].err =>
    \A v \in calls[i].to :
        \/ received[i][v] > 0
        \/ \E k \in DOMAIN pump[v] :
             pump[v][k].cmd = "MESSAGE" /\ pump[v][k].id = i /\ v \in pump[v][k].rec

(* "list of clients to this node" (node.go): a node with an open connection *)
(* that it reads from has its peer in the map.  A handler deletes its       *)
(* client by name, and may delete a newer one.                              *)
ServedIsClient == \A n \in Nodes : \A l \in Links :
    hand[n][l] = "reading" /\ serves[n][l] = l /\ open[l] = {n, Peer(n, l)}
        => clients[n][Peer(n, l)] # NoLink

(* The sequence numbers of announcements keep an old one from replacing a  *)
(* new one (messageHandler); but handleMSA runs in goroutines of their own. *)
AppliedInOrder == [][\A x \in msas \ msas' :
    LET last == sequences[x.at][x.msg.src] IN
    x.msg.id = last \/ \E y \in msas' : y.at = x.at /\ y.msg.src = x.msg.src /\ y.msg.id = last
    ]_vars

============================================================================
