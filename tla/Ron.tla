--------------------------------- MODULE Ron ---------------------------------
(***************************************************************************)
(* Command and control: the ron server of a namespace (ron/server.go) and  *)
(* the miniccc clients in its VMs (miniccc), over TCP connections.         *)
(*                                                                         *)
(* The server keeps a map of clients by UUID with one handler goroutine    *)
(* per connection, a map of active commands, which a goroutine of its own  *)
(* pushes to the clients after every change, a channel of responses that   *)
(* one goroutine writes to disk, a reaper of clients that were silent for  *)
(* too long, and Destroy.  A client dials, sends a heartbeat as handshake, *)
(* runs the commands it gets and queues the responses for the next         *)
(* heartbeat; it dials again when the server hangs up.                     *)
(*                                                                         *)
(* A critical section of clientLock or commandLock is one step, except for *)
(* ClearResponses, which holds clientLock while it removes the files.      *)
(***************************************************************************)
EXTENDS Integers, Sequences, FiniteSets

CONSTANTS
    UUIDs,        \* the VMs that run miniccc, all registered
    MaxConns,     \* bound on the connections ever dialed
    MaxCommands,  \* bound on the commands ever posted
    MaxLoad,      \* bound on both together, see Load
    MaxBoots,     \* bound on the boots of each VM
    MaxInFlight,  \* messages that fit into one direction of a connection
    MaxQueue,     \* capacity of s.responses, 1024 in the code
    Ops           \* what happens besides clients connecting and NewCommand

AllOps == {"delete", "clear", "clearResponses", "pipe", "expire", "fail", "destroy"}

Conns == 1 .. MaxConns
NoConn == 0
All == 0    \* the uuid "" of sendCommands

ASSUME BoundsAssumption ==
    /\ MaxConns \in Nat /\ MaxCommands \in Nat /\ MaxLoad \in Nat /\ MaxBoots \in Nat \ {0}
    /\ MaxInFlight \in Nat \ {0} /\ MaxQueue \in Nat \ {0}
ASSUME UUIDsAssumption == All \notin UUIDs
ASSUME OpsAssumption == Ops \subseteq AllOps

(* A command: the ID of the server's counter, which ClearCommands resets,  *)
(* the order of its creation, and the clients that match its filter.       *)
Command == [id : 1 .. MaxCommands, n : 1 .. MaxCommands, to : SUBSET UUIDs]

(* What clients send: heartbeats (MESSAGE_CLIENT) and new pipes. *)
Message == [type : {"client", "pipe"}, resp : SUBSET Command]

(* What the server sends: the handshake's answer, and commands. *)
Answer == [type : {"ack", "command"}, cmds : SUBSET Command]

VARIABLES
    commands,   \* s.commands
    counter,    \* s.commandCounter
    born,       \* commands created so far
    sends,      \* goroutines in sendCommands, by target
    clients,    \* s.clients: the connection registered for a UUID
    maxID,      \* maxCommandID of each connection's client
    sent,       \* the commands sent on each connection
    pipes,      \* the connections whose client has pipes open at the plumber
    hand,       \* where the goroutine that serves a connection is
    inbox,      \* the heartbeat that goroutine is handing on
    serving,    \* the connection in the handshake of serve()
    listener,   \* the listener and the goroutine in serve()
    responses,  \* s.responses
    closed,     \* s.responses is closed
    reply,      \* the heartbeat responseHandler works on, if any
    stored,     \* the responses on disk
    checkedIn,  \* CheckedIn of each command, as a count
    clearing,   \* ClearResponses has clientLock
    reaper,     \* the goroutine in clientReaper
    destroy,    \* where Destroy is
    panic,      \* a send on the closed channel has ended minimega
    nconn,      \* connections dialed so far
    owner,      \* the client that dialed each connection
    ends,       \* the ends of each connection that are open
    toServer, toClient,
    boots,      \* boots of each VM
    mux,        \* the goroutine in mux() of each miniccc
    cconn,      \* client.conn
    hello,      \* main() has still to send the first heartbeat
    handlers,   \* the commandHandler goroutines, by the connection that began them
    chan,       \* client.commandChan
    work,       \* the commands each commandHandler has left of its message
    queue,      \* client.Responses
    ran         \* the commands run since boot

cmdVars == <<commands, counter, born>>
connVars == <<clients, maxID, sent, pipes, hand, inbox>>
respVars == <<responses, reply, stored, checkedIn, clearing>>
endVars == <<listener, serving, reaper, destroy, closed, panic>>
netVars == <<nconn, owner, ends, toServer, toClient>>
cccVars == <<boots, mux, cconn, hello, handlers, chan, work, queue, ran>>
vars == <<cmdVars, sends, connVars, respVars, endVars, netVars, cccVars>>

HandStates == {"none", "backlog", "handshake", "open", "sending", "exit", "done"}

(* The maps of the server hold clients, connections and commands of this   *)
(* instance, and the IDs that NewCommand gives out stay within its bound.  *)
TypeOK ==
    /\ commands \subseteq Command
    /\ counter \in 0 .. MaxCommands /\ born \in 0 .. MaxCommands
    /\ sends \in [UUIDs \cup {All} -> Nat]
    /\ clients \in [UUIDs -> Conns \cup {NoConn}]
    /\ maxID \in [Conns -> 0 .. MaxCommands]
    /\ sent \in [Conns -> SUBSET Command]
    /\ pipes \subseteq Conns
    /\ hand \in [Conns -> HandStates]
    /\ inbox \in [Conns -> SUBSET Command]
    /\ serving \in Conns \cup {NoConn}
    /\ listener \in {"open", "closing", "gone"}
    /\ responses \in Seq([uuid : UUIDs, resp : SUBSET Command]) /\ Len(responses) <= MaxQueue
    /\ reply \in Seq([uuid : UUIDs, resp : SUBSET Command]) /\ Len(reply) <= 1
    /\ stored \subseteq UUIDs \X Command
    /\ checkedIn \in [1 .. MaxCommands -> Nat]
    /\ clearing \in BOOLEAN /\ closed \in BOOLEAN /\ panic \in BOOLEAN
    /\ reaper \in {"asleep", "gone"}
    /\ destroy \in {"no", "listeners", "clients", "done"}
    /\ nconn \in 0 .. MaxConns
    /\ owner \in [Conns -> UUIDs \cup {All}]
    /\ ends \in [Conns -> SUBSET {"server", "client"}]
    /\ toServer \in [Conns -> Seq(Message)] /\ toClient \in [Conns -> Seq(Answer)]
    /\ boots \in [UUIDs -> 1 .. MaxBoots]
    /\ mux \in [UUIDs -> {"idle", "dialing", "run", "dead"}]
    /\ cconn \in [UUIDs -> Conns \cup {NoConn}]
    /\ hello \in [UUIDs -> BOOLEAN]
    /\ handlers \in [UUIDs -> SUBSET Conns]
    /\ chan \in [UUIDs -> Seq(SUBSET Command)]
    /\ work \in [UUIDs -> [Conns -> SUBSET Command]]
    /\ queue \in [UUIDs -> SUBSET Command]
    /\ ran \in [UUIDs -> SUBSET (1 .. MaxCommands)]

(* NewServer and Listen, and VMs that have just booted. *)
Init ==
    /\ commands = {} /\ counter = 0 /\ born = 0
    /\ sends = [t \in UUIDs \cup {All} |-> 0]
    /\ clients = [u \in UUIDs |-> NoConn]
    /\ maxID = [c \in Conns |-> 0]
    /\ sent = [c \in Conns |-> {}]
    /\ pipes = {}
    /\ hand = [c \in Conns |-> "none"]
    /\ inbox = [c \in Conns |-> {}]
    /\ serving = NoConn /\ listener = "open"
    /\ responses = <<>> /\ closed = FALSE /\ reply = <<>> /\ stored = {}
    /\ checkedIn = [n \in 1 .. MaxCommands |-> 0]
    /\ clearing = FALSE /\ reaper = "asleep" /\ destroy = "no" /\ panic = FALSE
    /\ nconn = 0 /\ owner = [c \in Conns |-> All]
    /\ ends = [c \in Conns |-> {}]
    /\ toServer = [c \in Conns |-> <<>>] /\ toClient = [c \in Conns |-> <<>>]
    /\ boots = [u \in UUIDs |-> 1]
    /\ mux = [u \in UUIDs |-> "idle"]
    /\ cconn = [u \in UUIDs |-> NoConn]
    /\ hello = [u \in UUIDs |-> TRUE]
    /\ handlers = [u \in UUIDs |-> {}]
    /\ chan = [u \in UUIDs |-> <<>>]
    /\ work = [u \in UUIDs |-> [c \in Conns |-> {}]]
    /\ queue = [u \in UUIDs |-> {}]
    /\ ran = [u \in UUIDs |-> {}]

(* Connections and commands, where a connection counts as two commands. *)
Load == 2 * nconn + born

Up == ~panic                       \* minimega has not crashed
ClientLock == Up /\ ~clearing      \* clientLock can be taken
destroyed == destroy # "no"        \* s.destroyed()

(* A command can be given: Destroy runs with cmdLock held, and nobody can  *)
(* name the server's namespace after it.                                   *)
CLI == Up /\ ~destroyed

----------------------------------------------------------------------------
(* miniccc. *)

(* dial() connects; the server's half of it, the exchange of magic bytes,  *)
(* is Accept.                                                              *)
Dial(u) ==
    /\ mux[u] = "idle" /\ listener = "open" /\ nconn < MaxConns /\ Load + 2 <= MaxLoad
    /\ nconn' = nconn + 1
    /\ owner' = [owner EXCEPT ![nconn + 1] = u]
    /\ ends' = [ends EXCEPT ![nconn + 1] = {"server", "client"}]
    /\ hand' = [hand EXCEPT ![nconn + 1] = "backlog"]
    /\ cconn' = [cconn EXCEPT ![u] = nconn + 1]
    /\ mux' = [mux EXCEPT ![u] = "dialing"]
    /\ UNCHANGED <<cmdVars, sends, clients, maxID, sent, pipes, inbox, respVars, endVars,
                   toServer, toClient, boots, hello, handlers, chan, work, queue, ran>>

Transmit(c, m) ==
    toServer' = IF "server" \in ends[c] THEN [toServer EXCEPT ![c] = Append(@, m)]
                ELSE toServer

(* heartbeat(), first by main() and then by the periodic() that the answer *)
(* to a handshake has started.  The responses are gone from the queue also *)
(* when the send fails.                                                    *)
Heartbeat(u) ==
    LET c == cconn[u] IN
    /\ mux[u] = "run"
    /\ hello[u] \/ handlers[u] # {}
    /\ Len(toServer[c]) < MaxInFlight
    /\ Transmit(c, [type |-> "client", resp |-> queue[u]])
    /\ queue' = [queue EXCEPT ![u] = {}]
    /\ hello' = [hello EXCEPT ![u] = FALSE]
    /\ UNCHANGED <<cmdVars, sends, connVars, respVars, endVars, nconn, owner, ends,
                   toClient, boots, mux, cconn, handlers, chan, work, ran>>

(* A command with a pipe, or `miniccc -pipe', opens one at the server. *)
OpenPipe(u) ==
    LET c == cconn[u] IN
    /\ "pipe" \in Ops /\ mux[u] = "run" /\ handlers[u] # {}
    /\ Len(toServer[c]) < MaxInFlight
    /\ Transmit(c, [type |-> "pipe", resp |-> {}])
    /\ UNCHANGED <<cmdVars, sends, connVars, respVars, endVars, nconn, owner, ends,
                   toClient, cccVars>>

(* mux() receives: the answer to the handshake starts periodic() and       *)
(* commandHandler(), at every handshake; commands are passed on.           *)
Mux(u) ==
    LET c == cconn[u]
        m == Head(toClient[c]) IN
    /\ mux[u] = "run" /\ "client" \in ends[c] /\ toClient[c] # <<>>
    /\ toClient' = [toClient EXCEPT ![c] = Tail(@)]
    /\ \/ /\ m.type = "ack"
          /\ handlers' = [handlers EXCEPT ![u] = @ \cup {c}]
          /\ UNCHANGED chan
       \/ /\ m.type = "command"
          /\ chan' = [chan EXCEPT ![u] = Append(@, m.cmds)]
          /\ UNCHANGED handlers
    /\ UNCHANGED <<cmdVars, sends, connVars, respVars, endVars, nconn, owner, ends,
                   toServer, boots, mux, cconn, hello, work, queue, ran>>

(* At EOF mux() dials again; any other error ends it. *)
MuxError(u) ==
    LET c == cconn[u] IN
    /\ mux[u] \in {"dialing", "run"} /\ "server" \notin ends[c]
    /\ mux[u] = "run" /\ "client" \in ends[c] => toClient[c] = <<>>
    /\ \E next \in {"idle"} \cup {m \in {"dead"} : "client" \notin ends[c]} :
          mux' = [mux EXCEPT ![u] = next]
    /\ UNCHANGED <<cmdVars, sends, connVars, respVars, endVars, netVars, boots, cconn,
                   hello, handlers, chan, work, queue, ran>>

(* commandHandler() takes the next message and works on it in the order of *)
(* the IDs; each commandHandler does.                                      *)
TakeCommands(u, h) ==
    /\ h \in handlers[u] /\ work[u][h] = {} /\ chan[u] # <<>>
    /\ work' = [work EXCEPT ![u][h] = Head(chan[u])]
    /\ chan' = [chan EXCEPT ![u] = Tail(@)]
    /\ UNCHANGED <<cmdVars, sends, connVars, respVars, endVars, netVars, boots, mux,
                   cconn, hello, handlers, queue, ran>>

ProcessCommand(u, h) ==
    \E cmd \in work[u][h] :
        /\ \A other \in work[u][h] : cmd.id <= other.id
        /\ work' = [work EXCEPT ![u][h] = @ \ {cmd}]
        /\ ran' = [ran EXCEPT ![u] = @ \cup {cmd.n}]
        /\ queue' = [queue EXCEPT ![u] = @ \cup {cmd}]
        /\ UNCHANGED <<cmdVars, sends, connVars, respVars, endVars, netVars, boots, mux,
                       cconn, hello, handlers, chan>>

(* The VM is reset and starts miniccc again; nobody hangs up for it. *)
Reset(u) ==
    /\ boots[u] < MaxBoots
    /\ boots' = [boots EXCEPT ![u] = @ + 1]
    /\ mux' = [mux EXCEPT ![u] = "idle"]
    /\ cconn' = [cconn EXCEPT ![u] = NoConn]
    /\ hello' = [hello EXCEPT ![u] = TRUE]
    /\ handlers' = [handlers EXCEPT ![u] = {}]
    /\ chan' = [chan EXCEPT ![u] = <<>>]
    /\ work' = [work EXCEPT ![u] = [c \in Conns |-> {}]]
    /\ queue' = [queue EXCEPT ![u] = {}]
    /\ ran' = [ran EXCEPT ![u] = {}]
    /\ UNCHANGED <<cmdVars, sends, connVars, respVars, endVars, netVars>>

----------------------------------------------------------------------------
(* The network. *)

(* TCP finds out that the client of a connection is gone. *)
PeerLost(c) ==
    /\ "client" \in ends[c] /\ cconn[owner[c]] # c
    /\ ends' = [ends EXCEPT ![c] = @ \ {"client"}]
    /\ UNCHANGED <<cmdVars, sends, connVars, respVars, endVars, nconn, owner, toServer,
                   toClient, cccVars>>

(* A connection breaks. *)
LinkFails(c) ==
    /\ "fail" \in Ops /\ ends[c] # {}
    /\ ends' = [ends EXCEPT ![c] = {}]
    /\ UNCHANGED <<cmdVars, sends, connVars, respVars, endVars, nconn, owner, toServer,
                   toClient, cccVars>>

----------------------------------------------------------------------------
(* The server: connections. *)

(* serve() accepts a connection and answers its magic bytes; dial() of the *)
(* client, if it is still there, returns.                                  *)
Accept(c) ==
    LET u == owner[c] IN
    /\ Up /\ listener = "open" /\ serving = NoConn /\ hand[c] = "backlog"
    /\ serving' = c
    /\ hand' = [hand EXCEPT ![c] = "handshake"]
    /\ mux' = IF cconn[u] = c /\ mux[u] = "dialing" THEN [mux EXCEPT ![u] = "run"] ELSE mux
    /\ UNCHANGED <<cmdVars, sends, clients, maxID, sent, pipes, inbox, respVars, listener,
                   reaper, destroy, closed, panic, netVars, boots, cconn, hello, handlers,
                   chan, work, queue, ran>>

(* A mutant of Loop that does not look. *)
LoopForever == "open"

(* After each message, and before the first, clientHandler looks whether   *)
(* the server was destroyed.                                               *)
Loop == IF destroyed THEN "exit" ELSE "open"

(* handshake(), in the goroutine of serve(), with the first message of the *)
(* client; then the goroutine of clientHandler starts, which has the       *)
(* commands sent.  A UUID that is registered already is refused.           *)
HandshakeAccepted(c) ==
    LET u == owner[c] IN
    /\ ClientLock /\ hand[c] = "handshake" /\ toServer[c] # <<>> /\ "server" \in ends[c]
    /\ clients[u] = NoConn
    /\ serving' = NoConn
    /\ toServer' = [toServer EXCEPT ![c] = Tail(@)]
    /\ toClient' = [toClient EXCEPT ![c] = Append(@, [type |-> "ack", cmds |-> {}])]
    /\ clients' = [clients EXCEPT ![u] = c]
    /\ hand' = [hand EXCEPT ![c] = Loop]
    /\ sends' = [sends EXCEPT ![u] = @ + 1]
    /\ UNCHANGED <<cmdVars, maxID, sent, pipes, inbox, respVars, listener, reaper, destroy,
                   closed, panic, nconn, owner, ends, cccVars>>

HandshakeFailed(c) ==
    /\ Up /\ hand[c] = "handshake"
    /\ \/ toServer[c] # <<>> /\ ~clearing /\ clients[owner[c]] # NoConn
       \/ {"server", "client"} \ ends[c] # {}
    /\ serving' = NoConn
    /\ ends' = [ends EXCEPT ![c] = @ \ {"server"}]
    /\ hand' = [hand EXCEPT ![c] = "done"]
    /\ UNCHANGED <<cmdVars, sends, clients, maxID, sent, pipes, inbox, respVars, listener,
                   reaper, destroy, closed, panic, nconn, owner, toServer, toClient, cccVars>>

(* clientHandler decodes a message: a heartbeat goes to s.responses, a new *)
(* pipe to the plumber.                                                    *)
Receive(c) ==
    LET m == Head(toServer[c]) IN
    /\ Up /\ hand[c] = "open" /\ "server" \in ends[c] /\ toServer[c] # <<>>
    /\ toServer' = [toServer EXCEPT ![c] = Tail(@)]
    /\ \/ /\ m.type = "client"
          /\ inbox' = [inbox EXCEPT ![c] = m.resp]
          /\ hand' = [hand EXCEPT ![c] = "sending"]
          /\ UNCHANGED pipes
       \/ /\ m.type = "pipe"
          /\ pipes' = pipes \cup {c}
          /\ hand' = [hand EXCEPT ![c] = Loop]
          /\ UNCHANGED inbox
    /\ UNCHANGED <<cmdVars, sends, clients, maxID, sent, respVars, endVars, nconn, owner,
                   ends, toClient, cccVars>>

(* s.responses <- m.Client blocks while the channel is full and panics     *)
(* when it is closed.                                                      *)
PassOn(c) ==
    /\ Up /\ hand[c] = "sending"
    /\ \/ /\ ~closed /\ Len(responses) < MaxQueue
          /\ responses' = Append(responses, [uuid |-> owner[c], resp |-> inbox[c]])
          /\ hand' = [hand EXCEPT ![c] = Loop]
          /\ inbox' = [inbox EXCEPT ![c] = {}]
          /\ UNCHANGED panic
       \/ /\ closed
          /\ panic' = TRUE
          /\ UNCHANGED <<responses, hand, inbox>>
    /\ UNCHANGED <<cmdVars, sends, clients, maxID, sent, pipes, reply, stored, checkedIn,
                   clearing, listener, serving, reaper, destroy, closed, netVars, cccVars>>

(* Decode fails: the client or the server has hung up. *)
ReceiveError(c) ==
    /\ Up /\ hand[c] = "open" /\ {"server", "client"} \ ends[c] # {}
    /\ hand' = [hand EXCEPT ![c] = "exit"]
    /\ UNCHANGED <<cmdVars, sends, clients, maxID, sent, pipes, inbox, respVars, endVars,
                   netVars, cccVars>>

(* The deferred removeClient(c.UUID), which closes whatever connection is  *)
(* registered for the UUID and its pipes, and c.conn.Close.                *)
Exit(c) ==
    LET u == owner[c]
        gone == {c, clients[u]} IN
    /\ ClientLock /\ hand[c] = "exit"
    /\ clients' = [clients EXCEPT ![u] = NoConn]
    /\ pipes' = pipes \ {clients[u]}
    /\ ends' = [d \in Conns |-> IF d \in gone THEN ends[d] \ {"server"} ELSE ends[d]]
    /\ hand' = [hand EXCEPT ![c] = "done"]
    /\ UNCHANGED <<cmdVars, sends, maxID, sent, inbox, respVars, endVars, nconn, owner,
                   toServer, toClient, cccVars>>

(* A mutant of Reap that forgets v.conn.Close. *)
ReapKeepsConn(S) ==
    /\ ClientLock /\ reaper = "asleep"
    /\ S \subseteq {u \in UUIDs : clients[u] # NoConn} /\ ("expire" \in Ops \/ S = {})
    /\ clients' = [u \in UUIDs |-> IF u \in S THEN NoConn ELSE clients[u]]
    /\ reaper' = IF destroyed THEN "gone" ELSE "asleep"
    /\ UNCHANGED <<cmdVars, sends, maxID, sent, pipes, hand, inbox, respVars, listener,
                   serving, destroy, closed, panic, netVars, cccVars>>

(* A round of clientReaper: the clients in S have not checked in for       *)
(* CLIENT_EXPIRED seconds.  It ends after the round that follows Destroy.  *)
Reap(S) ==
    /\ ClientLock /\ reaper = "asleep"
    /\ S \subseteq {u \in UUIDs : clients[u] # NoConn} /\ ("expire" \in Ops \/ S = {})
    /\ clients' = [u \in UUIDs |-> IF u \in S THEN NoConn ELSE clients[u]]
    /\ ends' = [c \in Conns |-> IF \E u \in S : clients[u] = c THEN ends[c] \ {"server"}
                                ELSE ends[c]]
    /\ reaper' = IF destroyed THEN "gone" ELSE "asleep"
    /\ UNCHANGED <<cmdVars, sends, maxID, sent, pipes, hand, inbox, respVars, listener,
                   serving, destroy, closed, panic, nconn, owner, toServer, toClient, cccVars>>

----------------------------------------------------------------------------
(* The server: commands and responses. *)

(* A mutant of NewCommand that uses the counter before it increments it. *)
NewCommandPostIncrement(to) ==
    /\ CLI /\ born < MaxCommands /\ Load < MaxLoad
    /\ born' = born + 1
    /\ counter' = counter + 1
    /\ commands' = commands \cup {[id |-> counter, n |-> born + 1, to |-> to]}
    /\ sends' = [sends EXCEPT ![All] = @ + 1]
    /\ UNCHANGED <<connVars, respVars, endVars, netVars, cccVars>>

NewCommand(to) ==
    /\ CLI /\ born < MaxCommands /\ Load < MaxLoad
    /\ born' = born + 1
    /\ counter' = counter + 1
    /\ commands' = commands \cup {[id |-> counter + 1, n |-> born + 1, to |-> to]}
    /\ sends' = [sends EXCEPT ![All] = @ + 1]
    /\ UNCHANGED <<connVars, respVars, endVars, netVars, cccVars>>

(* DeleteCommand, and DeleteCommands of a prefix. *)
DeleteCommands(S) ==
    /\ CLI /\ "delete" \in Ops /\ S # {}
    /\ commands' = commands \ S
    /\ UNCHANGED <<counter, born, sends, connVars, respVars, endVars, netVars, cccVars>>

Registered(c) == \E u \in UUIDs : clients[u] = c

(* A mutant of ClearCommands that resets only the counter. *)
ClearCommandsKeepsMax ==
    /\ CLI /\ ClientLock /\ "clear" \in Ops
    /\ commands' = {} /\ counter' = 0
    /\ UNCHANGED <<born, sends, connVars, respVars, endVars, netVars, cccVars>>

ClearCommands ==
    /\ CLI /\ ClientLock /\ "clear" \in Ops
    /\ commands' = {} /\ counter' = 0
    /\ maxID' = [c \in Conns |-> IF Registered(c) THEN 0 ELSE maxID[c]]
    /\ UNCHANGED <<born, sends, clients, sent, pipes, hand, inbox, respVars, endVars,
                   netVars, cccVars>>

(* A mutant of Fresh that is off by one. *)
FreshFromMax(c) == {cmd \in commands : owner[c] \in cmd.to /\ cmd.id >= maxID[c]}

(* The commands that route() picks for the client of connection c. *)
Fresh(c) == {cmd \in commands : owner[c] \in cmd.to /\ cmd.id > maxID[c]}

(* The largest ID in route()'s message, 0 if there are no commands. *)
MaxCommandID(max) ==
    /\ \A cmd \in commands : cmd.id <= max
    /\ max = 0 \/ \E cmd \in commands : cmd.id = max

(* The clients that route() handles: a client whose maxCommandID is that   *)
(* of the newest command is left out.                                      *)
Routed(t, max) == {c \in Conns : Registered(c) /\ t \in {All, owner[c]} /\ maxID[c] # max}

(* sendCommands and route(), under both locks. *)
SendTo(t, max) ==
    LET to == Routed(t, max)
        got == {c \in to : Fresh(c) # {}} IN
    /\ sends' = [sends EXCEPT ![t] = @ - 1]
    /\ maxID' = [c \in Conns |-> IF c \in to THEN max ELSE maxID[c]]
    /\ sent' = [c \in Conns |-> IF c \in got THEN sent[c] \cup Fresh(c) ELSE sent[c]]
    /\ toClient' = [c \in Conns |->
                       IF c \in got /\ ends[c] = {"server", "client"}
                       THEN Append(toClient[c], [type |-> "command", cmds |-> Fresh(c)])
                       ELSE toClient[c]]
    /\ UNCHANGED <<cmdVars, clients, pipes, hand, inbox, respVars, endVars, nconn, owner,
                   ends, toServer, cccVars>>

SendCommands(t) ==
    /\ ClientLock /\ sends[t] > 0
    /\ \E max \in 0 .. MaxCommands : MaxCommandID(max) /\ SendTo(t, max)

(* responseHandler takes a heartbeat and updates the client ... *)
UpdateClient ==
    /\ ClientLock /\ responses # <<>> /\ reply = <<>>
    /\ reply' = <<Head(responses)>>
    /\ responses' = Tail(responses)
    /\ UNCHANGED <<cmdVars, sends, connVars, stored, checkedIn, clearing, endVars, netVars,
                   cccVars>>

(* A mutant of WriteResponses that drops the responses of unknown clients. *)
WriteOfKnownClients ==
    /\ Up /\ reply # <<>>
    /\ stored' = IF clients[reply[1].uuid] = NoConn THEN stored
                 ELSE stored \cup ({reply[1].uuid} \X reply[1].resp)
    /\ reply' = <<>>
    /\ UNCHANGED <<cmdVars, sends, connVars, responses, checkedIn, clearing, endVars,
                   netVars, cccVars>>

(* ... checks its responses in and writes them, without clientLock. *)
WriteResponses ==
    /\ Up /\ reply # <<>>
    /\ stored' = stored \cup ({reply[1].uuid} \X reply[1].resp)
    /\ checkedIn' = [n \in 1 .. MaxCommands |->
                        IF \E cmd \in commands : cmd.n = n /\ \E r \in reply[1].resp : r.id = cmd.id
                        THEN checkedIn[n] + 1 ELSE checkedIn[n]]
    /\ reply' = <<>>
    /\ UNCHANGED <<cmdVars, sends, connVars, responses, clearing, endVars, netVars, cccVars>>

(* ClearResponses takes clientLock, and removes the files. *)
ClearResponses ==
    /\ CLI /\ ClientLock /\ "clearResponses" \in Ops /\ stored # {}
    /\ clearing' = TRUE
    /\ UNCHANGED <<cmdVars, sends, connVars, responses, reply, stored, checkedIn, endVars,
                   netVars, cccVars>>

ResponsesCleared ==
    /\ Up /\ clearing
    /\ clearing' = FALSE /\ stored' = {}
    /\ UNCHANGED <<cmdVars, sends, connVars, responses, reply, checkedIn, endVars, netVars,
                   cccVars>>

----------------------------------------------------------------------------
(* The server: Destroy. *)

(* Destroy closes the listener: the connections in its backlog are reset   *)
(* and serve() ends once it is back in Accept ...                          *)
Destroy ==
    /\ Up /\ "destroy" \in Ops /\ destroy = "no"
    /\ destroy' = "listeners" /\ listener' = "closing"
    /\ ends' = [c \in Conns |-> IF hand[c] = "backlog" THEN ends[c] \ {"server"} ELSE ends[c]]
    /\ UNCHANGED <<cmdVars, sends, connVars, respVars, serving, reaper, closed, panic,
                   nconn, owner, toServer, toClient, cccVars>>

ServeExit ==
    /\ Up /\ listener = "closing" /\ serving = NoConn
    /\ listener' = "gone"
    /\ UNCHANGED <<cmdVars, sends, connVars, respVars, serving, reaper, destroy, closed,
                   panic, netVars, cccVars>>

(* ... it waits for that, ...  *)
DestroyListeners ==
    /\ Up /\ destroy = "listeners" /\ listener = "gone"
    /\ destroy' = "clients"
    /\ UNCHANGED <<cmdVars, sends, connVars, respVars, listener, serving, reaper, closed,
                   panic, netVars, cccVars>>

(* A mutant of DestroyClients that does not wait for the clients. *)
DestroyAtOnce ==
    /\ ClientLock /\ destroy = "clients"
    /\ destroy' = "done" /\ closed' = TRUE
    /\ UNCHANGED <<cmdVars, sends, connVars, respVars, listener, serving, reaper, panic,
                   netVars, cccVars>>

(* ... and for all clients to leave, and closes s.responses. *)
DestroyClients ==
    /\ ClientLock /\ destroy = "clients" /\ \A u \in UUIDs : clients[u] = NoConn
    /\ destroy' = "done" /\ closed' = TRUE
    /\ UNCHANGED <<cmdVars, sends, connVars, respVars, listener, serving, reaper, panic,
                   netVars, cccVars>>

----------------------------------------------------------------------------
Miniccc(u) ==
    \/ Dial(u) \/ Heartbeat(u) \/ OpenPipe(u) \/ Mux(u) \/ MuxError(u)
    \/ \E h \in Conns : TakeCommands(u, h) \/ ProcessCommand(u, h)

Handler(c) == Receive(c) \/ PassOn(c) \/ ReceiveError(c) \/ Exit(c)

Serve == ServeExit \/ \E c \in Conns : Accept(c) \/ HandshakeAccepted(c) \/ HandshakeFailed(c)

ResponseHandler == UpdateClient \/ WriteResponses

User ==
    \/ \E to \in SUBSET UUIDs : NewCommand(to)
    \/ \E S \in SUBSET commands : DeleteCommands(S)
    \/ ClearCommands \/ ClearResponses \/ Destroy

Next ==
    \/ User \/ Serve \/ ResponseHandler
    \/ ResponsesCleared \/ DestroyListeners \/ DestroyClients
    \/ \E S \in SUBSET UUIDs : Reap(S)
    \/ \E t \in UUIDs \cup {All} : SendCommands(t)
    \/ \E c \in Conns : Handler(c) \/ PeerLost(c) \/ LinkFails(c)
    \/ \E u \in UUIDs : Miniccc(u) \/ Reset(u)

(* Goroutines are scheduled, here and in miniccc, whose heartbeat is       *)
(* periodic, and TCP notices in the end that a peer is gone.  Nothing      *)
(* obliges the user, the reaper, a VM that resets or a failing link.       *)
Fairness ==
    /\ WF_vars(Serve) /\ WF_vars(ResponseHandler) /\ WF_vars(ResponsesCleared)
    /\ WF_vars(DestroyListeners \/ DestroyClients)
    /\ \A t \in UUIDs \cup {All} : WF_vars(SendCommands(t))
    /\ \A c \in Conns : WF_vars(Handler(c)) /\ WF_vars(PeerLost(c))
    /\ \A u \in UUIDs :
          /\ WF_vars(Heartbeat(u)) /\ WF_vars(Dial(u) \/ Mux(u) \/ MuxError(u))
          /\ \A h \in Conns : WF_vars(TakeCommands(u, h) \/ ProcessCommand(u, h))

Spec == Init /\ [][Next]_vars /\ Fairness

----------------------------------------------------------------------------
(* What holds of the clients and their connections. *)

(* "map of active clients, each of which have a running handler"           *)
(* (Server.clients): though a handler removes clients by UUID, and may     *)
(* remove the one of a newer connection, no registered client is left      *)
(* without its own handler.                                                *)
RegisteredHasHandler ==
    \A u \in UUIDs : clients[u] # NoConn =>
        owner[clients[u]] = u /\ hand[clients[u]] \in {"open", "sending", "exit"}

(* No zombies: a connection that clientHandler serves and that the server  *)
(* has not hung up on is registered, so that commands reach it and Destroy *)
(* waits for it, though the reaper and the handlers of older connections   *)
(* remove clients too.                                                     *)
ServedIsRegistered ==
    \A c \in Conns :
        hand[c] \in {"open", "sending"} /\ "server" \in ends[c] => Registered(c)

(* Server.clients is the set of connections that are served: the two       *)
(* above together.                                                         *)
ClientsServed == RegisteredHasHandler /\ ServedIsRegistered

(* What holds of commands and responses. *)

(* maxCommandID keeps route() from sending a command to a client a second  *)
(* time on one connection, whatever commands are deleted or cleared in     *)
(* between and whichever sendCommands goroutines are late.                 *)
NoResendStep ==
    \A c \in Conns :
        Len(toClient'[c]) > Len(toClient[c]) =>
            toClient'[c][Len(toClient'[c])].cmds \cap sent[c] = {}

NoResend == [][NoResendStep]_vars

(* "commands that are still active and will be pushed to matching clients" *)
(* (Server.commands): a command is sent to every client that matches and   *)
(* stays, also after ClearCommands has started the IDs over.               *)
Active(n, u) == \E cmd \in commands : cmd.n = n /\ u \in cmd.to

Delivered ==
    \A n \in 1 .. MaxCommands, u \in UUIDs, c \in Conns :
        (Active(n, u) /\ clients[u] = c)
            ~> ((\E cmd \in sent[c] : cmd.n = n) \/ ~Active(n, u) \/ clients[u] # c)

(* "We'll still process any command responses" (updateClient): a response  *)
(* that the handler of a connection has received is written, also if the   *)
(* client disconnects before responseHandler gets to it.                   *)
ReceivedIsLogged ==
    \A n \in 1 .. MaxCommands, c \in Conns :
        (hand[c] = "sending" /\ \E r \in inbox[c] : r.n = n)
            ~> (\E s \in stored : s[2].n = n)

(* What holds of Destroy. *)

(* "otherwise we could try to send on a closed channel" (Destroy): no      *)
(* handler sends on s.responses once Destroy has closed it.                *)
NoPanic == ~panic

(* A client whose connection failed between its first heartbeat and the    *)
(* answer dials again and then sends nothing: the handshake, which has no  *)
(* deadline, waits for ever in the goroutine of the listener.              *)
Stranded ==
    /\ serving # NoConn
    /\ LET u == owner[serving] IN cconn[u] = serving /\ ~hello[u] /\ handlers[u] = {}

(* Destroy returns: the handlers find the server destroyed at their next   *)
(* message, which every client that got an answer sends in time.           *)
DestroyReturns == destroyed ~> (destroy = "done" \/ Stranded)

(* "close any lingering plumbing" (removeClient): the pipes of a client    *)
(* are closed when its handler has ended.                                  *)
PipesClosed == \A c \in pipes : hand[c] # "done"

(* Nobody is left behind when clients and the server end (Destroy,         *)
(* removeClient): no handler that sends, no pipe that is open.             *)
DestroySound == NoPanic /\ PipesClosed

----------------------------------------------------------------------------
(* What the repository says and the code does not do. *)

(* "Commands will be executed in command creation order" (cc_cli.go): when *)
(* a client runs a command for the first time, it has run none created     *)
(* later.                                                                  *)
CreationOrder ==
    [][\A u \in UUIDs : \A n \in ran'[u] \ ran[u] : \A m \in ran[u] : m < n]_vars

(* "When a client responds to a command, the response is logged" (cc       *)
(* tutorial): the server does not drop the responses in a handshake.       *)
HandshakeKeepsResponses ==
    [][\A c \in Conns : HandshakeAccepted(c) => Head(toServer[c]).resp = {}]_vars

(* "how many clients have responded" (cc tutorial): CheckedIn counts       *)
(* clients, not responses.                                                 *)
CheckedInCounts == \A n \in 1 .. MaxCommands : checkedIn[n] <= Cardinality(UUIDs)

(* "grab the client lock so that no more responses can be processed until  *)
(* we're finished" (ClearResponses): nothing is written in the meantime.   *)
ClearExcludesWrites == [][clearing /\ clearing' => stored' = stored]_vars

(* "if you were to reset a VM or start new VMs, they would all see and     *)
(* execute this command" (cc tutorial).                                    *)
ResetSeesCommands ==
    \A u \in UUIDs, n \in 1 .. MaxCommands :
        (boots[u] = MaxBoots /\ Active(n, u))
            ~> (n \in ran[u] \/ ~Active(n, u) \/ nconn = MaxConns)
============================================================================
