----------------------------- MODULE Ron_proofs -----------------------------
(***************************************************************************)
(* Proofs about Ron, for any number of VMs, connections, commands and      *)
(* boots, and whichever of the operations in Ops happen.                   *)
(***************************************************************************)
EXTENDS Ron, TLAPS

(* Connections that a clientHandler goroutine serves. *)
Served(c) == hand[c] \in {"open", "sending", "exit"}

(* The types behind the proofs, and how far a connection has come: it has  *)
(* an owner once it is dialed, and serve() works on one handshake at a     *)
(* time.                                                                   *)
ConnTypes ==
    /\ nconn \in 0 .. MaxConns
    /\ clients \in [UUIDs -> Conns \cup {NoConn}]
    /\ hand \in [Conns -> HandStates]
    /\ owner \in [Conns -> UUIDs \cup {All}]
    /\ ends \in [Conns -> SUBSET {"server", "client"}]
    /\ \A c \in Conns : /\ c > nconn => hand[c] = "none"
                        /\ hand[c] # "none" => owner[c] \in UUIDs
                        /\ hand[c] = "handshake" => serving = c

(* The inductive invariant behind the two about the map of clients. *)
ConnInv == RegisteredHasHandler /\ ServedIsRegistered

(* The inductive invariant behind NoPanic and PipesClosed when the reaper  *)
(* expires nobody: only registered connections are served, so that Destroy *)
(* closes the channel when nobody is, and nobody will be.                  *)
DestroyInv ==
    /\ \A c \in Conns : Served(c) => clients[owner[c]] = c
    /\ \A c \in pipes : c \in Conns /\ Served(c)
    /\ listener = "gone" => serving = NoConn
    /\ destroy \in {"clients", "done"} => listener = "gone"
    /\ closed => destroy = "done"
    /\ destroy = "done" => \A u \in UUIDs : clients[u] = NoConn
    /\ ~panic

(* The inductive invariant behind NoResend: maxCommandID is an upper bound *)
(* of the commands a client was sent, as far as they are still active.     *)
CommandTypes ==
    /\ born \in 0 .. MaxCommands /\ counter \in 0 .. MaxCommands /\ counter <= born
    /\ commands \subseteq Command
    /\ maxID \in [Conns -> 0 .. MaxCommands]
    /\ sent \in [Conns -> SUBSET Command]
    /\ toClient \in [Conns -> Seq(Answer)]

Early(c) == hand[c] \in {"none", "backlog", "handshake"}

CommandInv ==
    /\ \A cmd \in commands : cmd.n <= born
    /\ \A c \in Conns : \A cmd \in sent[c] : cmd.n <= born
    /\ \A c \in Conns : Early(c) => sent[c] = {}
    /\ \A c \in Conns : Registered(c) => \A cmd \in sent[c] \cap commands : cmd.id <= maxID[c]

(* A step that neither creates, sends nor removes commands, nor registers  *)
(* a client or takes a connection back to where it has no handler.         *)
Quiet ==
    /\ UNCHANGED <<commands, born, maxID, sent>>
    /\ \A c \in Conns : (Early(c)' => Early(c)) /\ (Registered(c)' => Registered(c))

----------------------------------------------------------------------------
(* Nothing is dialed at first. *)
LEMMA ConnTypesInit == Init => ConnTypes
  BY BoundsAssumption DEF Init, ConnTypes, Conns, HandStates, NoConn

(* A connection goes from the backlog through serve() to its handler.      *)
LEMMA ConnTypesStep ==
    ASSUME ConnTypes, [Next]_vars
    PROVE  ConnTypes'
<1> USE BoundsAssumption, UUIDsAssumption
<1>1. ASSUME NEW to \in SUBSET UUIDs, NewCommand(to)
         PROVE  ConnTypes'
  BY <1>1 DEF ConnTypes, HandStates, Conns, NoConn, NewCommand, cmdVars,
      connVars, respVars, endVars, netVars, cccVars
<1>2. ASSUME NEW S \in SUBSET commands, DeleteCommands(S)
         PROVE  ConnTypes'
  BY <1>2 DEF ConnTypes, HandStates, Conns, NoConn, DeleteCommands,
      cmdVars, connVars, respVars, endVars, netVars, cccVars
<1>3. CASE ClearCommands
  BY <1>3 DEF ConnTypes, HandStates, Conns, NoConn, ClearCommands,
      Registered, cmdVars, connVars, respVars, endVars, netVars, cccVars
<1>4. CASE ClearResponses
  BY <1>4 DEF ConnTypes, HandStates, Conns, NoConn, ClearResponses,
      cmdVars, connVars, respVars, endVars, netVars, cccVars
<1>5. CASE Destroy
  BY <1>5 DEF ConnTypes, HandStates, Conns, NoConn, Destroy, cmdVars,
      connVars, respVars, endVars, netVars, cccVars
<1>6. CASE ServeExit
  BY <1>6 DEF ConnTypes, HandStates, Conns, NoConn, ServeExit, cmdVars,
      connVars, respVars, endVars, netVars, cccVars
<1>7. ASSUME NEW c \in Conns, Accept(c)
         PROVE  ConnTypes'
  BY <1>7 DEF ConnTypes, HandStates, Conns, NoConn, Accept, cmdVars,
      connVars, respVars, endVars, netVars, cccVars
<1>8. ASSUME NEW c \in Conns, HandshakeAccepted(c)
         PROVE  ConnTypes'
  BY <1>8 DEF ConnTypes, HandStates, Conns, NoConn, HandshakeAccepted,
      Loop, cmdVars, connVars, respVars, endVars, netVars, cccVars
<1>9. ASSUME NEW c \in Conns, HandshakeFailed(c)
         PROVE  ConnTypes'
  BY <1>9 DEF ConnTypes, HandStates, Conns, NoConn, HandshakeFailed,
      cmdVars, connVars, respVars, endVars, netVars, cccVars
<1>10. CASE UpdateClient
  BY <1>10 DEF ConnTypes, HandStates, Conns, NoConn, UpdateClient,
      cmdVars, connVars, respVars, endVars, netVars, cccVars
<1>11. CASE WriteResponses
  BY <1>11 DEF ConnTypes, HandStates, Conns, NoConn, WriteResponses,
      cmdVars, connVars, respVars, endVars, netVars, cccVars
<1>12. CASE ResponsesCleared
  BY <1>12 DEF ConnTypes, HandStates, Conns, NoConn, ResponsesCleared,
      cmdVars, connVars, respVars, endVars, netVars, cccVars
<1>13. CASE DestroyListeners
  BY <1>13 DEF ConnTypes, HandStates, Conns, NoConn, DestroyListeners,
      cmdVars, connVars, respVars, endVars, netVars, cccVars
<1>14. CASE DestroyClients
  BY <1>14 DEF ConnTypes, HandStates, Conns, NoConn, DestroyClients,
      cmdVars, connVars, respVars, endVars, netVars, cccVars
<1>15. ASSUME NEW S \in SUBSET UUIDs, Reap(S)
         PROVE  ConnTypes'
  BY <1>15 DEF ConnTypes, HandStates, Conns, NoConn, Reap, cmdVars,
      connVars, respVars, endVars, netVars, cccVars
<1>16. ASSUME NEW t \in UUIDs \cup {All}, NEW max \in 0 .. MaxCommands, SendCommands(t),
                MaxCommandID(max), SendTo(t, max)
         PROVE  ConnTypes'
  BY <1>16 DEF ConnTypes, HandStates, Conns, NoConn, SendCommands, SendTo,
      Routed, cmdVars, connVars, respVars, endVars, netVars, cccVars
<1>17. ASSUME NEW c \in Conns, Receive(c)
         PROVE  ConnTypes'
  BY <1>17 DEF ConnTypes, HandStates, Conns, NoConn, Receive, Loop,
      cmdVars, connVars, respVars, endVars, netVars, cccVars
<1>18. ASSUME NEW c \in Conns, PassOn(c)
         PROVE  ConnTypes'
  BY <1>18 DEF ConnTypes, HandStates, Conns, NoConn, PassOn, Loop,
      cmdVars, connVars, respVars, endVars, netVars, cccVars
<1>19. ASSUME NEW c \in Conns, ReceiveError(c)
         PROVE  ConnTypes'
  BY <1>19 DEF ConnTypes, HandStates, Conns, NoConn, ReceiveError,
      cmdVars, connVars, respVars, endVars, netVars, cccVars
<1>20. ASSUME NEW c \in Conns, Exit(c)
         PROVE  ConnTypes'
  BY <1>20 DEF ConnTypes, HandStates, Conns, NoConn, Exit, cmdVars,
      connVars, respVars, endVars, netVars, cccVars
<1>21. ASSUME NEW c \in Conns, PeerLost(c)
         PROVE  ConnTypes'
  BY <1>21 DEF ConnTypes, HandStates, Conns, NoConn, PeerLost, cmdVars,
      connVars, respVars, endVars, netVars, cccVars
<1>22. ASSUME NEW c \in Conns, LinkFails(c)
         PROVE  ConnTypes'
  BY <1>22 DEF ConnTypes, HandStates, Conns, NoConn, LinkFails, cmdVars,
      connVars, respVars, endVars, netVars, cccVars
<1>23. ASSUME NEW u \in UUIDs, Dial(u)
         PROVE  ConnTypes'
  BY <1>23 DEF ConnTypes, HandStates, Conns, NoConn, Dial, cmdVars,
      connVars, respVars, endVars, netVars, cccVars
<1>24. ASSUME NEW u \in UUIDs, Heartbeat(u)
         PROVE  ConnTypes'
  BY <1>24 DEF ConnTypes, HandStates, Conns, NoConn, Heartbeat, Transmit,
      cmdVars, connVars, respVars, endVars, netVars, cccVars
<1>25. ASSUME NEW u \in UUIDs, OpenPipe(u)
         PROVE  ConnTypes'
  BY <1>25 DEF ConnTypes, HandStates, Conns, NoConn, OpenPipe, Transmit,
      cmdVars, connVars, respVars, endVars, netVars, cccVars
<1>26. ASSUME NEW u \in UUIDs, Mux(u)
         PROVE  ConnTypes'
  BY <1>26 DEF ConnTypes, HandStates, Conns, NoConn, Mux, cmdVars,
      connVars, respVars, endVars, netVars, cccVars
<1>27. ASSUME NEW u \in UUIDs, MuxError(u)
         PROVE  ConnTypes'
  BY <1>27 DEF ConnTypes, HandStates, Conns, NoConn, MuxError, cmdVars,
      connVars, respVars, endVars, netVars, cccVars
<1>28. ASSUME NEW u \in UUIDs, NEW h \in Conns, TakeCommands(u, h)
         PROVE  ConnTypes'
  BY <1>28 DEF ConnTypes, HandStates, Conns, NoConn, TakeCommands,
      cmdVars, connVars, respVars, endVars, netVars, cccVars
<1>29. ASSUME NEW u \in UUIDs, NEW h \in Conns, ProcessCommand(u, h)
         PROVE  ConnTypes'
  BY <1>29 DEF ConnTypes, HandStates, Conns, NoConn, ProcessCommand,
      cmdVars, connVars, respVars, endVars, netVars, cccVars
<1>30. ASSUME NEW u \in UUIDs, Reset(u)
         PROVE  ConnTypes'
  BY <1>30 DEF ConnTypes, HandStates, Conns, NoConn, Reset, cmdVars,
      connVars, respVars, endVars, netVars, cccVars
<1>31. CASE UNCHANGED vars
  BY <1>31 DEF ConnTypes, HandStates, Conns, NoConn, vars, cmdVars,
      connVars, respVars, endVars, netVars, cccVars
<1>32. QED
  BY <1>1, <1>2, <1>3, <1>4, <1>5, <1>6, <1>7, <1>8, <1>9, <1>10, <1>11,
      <1>12, <1>13, <1>14, <1>15, <1>16, <1>17, <1>18, <1>19, <1>20, <1>21,
      <1>22, <1>23, <1>24, <1>25, <1>26, <1>27, <1>28, <1>29, <1>30, <1>31 DEF
      Next, User, Serve, ResponseHandler, Handler, Miniccc, SendCommands

(* No step takes a registered client's handler away, or leaves a client    *)
(* that is served, and not hung up on, unregistered.                       *)
LEMMA ConnInvStep ==
    ASSUME ConnTypes, ConnInv, [Next]_vars
    PROVE  ConnInv'
<1> USE BoundsAssumption, UUIDsAssumption
<1>1. ASSUME NEW to \in SUBSET UUIDs, NewCommand(to)
         PROVE  ConnInv'
  BY <1>1 DEF ConnTypes, ConnInv, RegisteredHasHandler,
      ServedIsRegistered, Registered, HandStates, Conns, NoConn, NewCommand,
      cmdVars, connVars, respVars, endVars, netVars, cccVars
<1>2. ASSUME NEW S \in SUBSET commands, DeleteCommands(S)
         PROVE  ConnInv'
  BY <1>2 DEF ConnTypes, ConnInv, RegisteredHasHandler,
      ServedIsRegistered, Registered, HandStates, Conns, NoConn,
      DeleteCommands, cmdVars, connVars, respVars, endVars, netVars, cccVars
<1>3. CASE ClearCommands
  BY <1>3 DEF ConnTypes, ConnInv, RegisteredHasHandler,
      ServedIsRegistered, Registered, HandStates, Conns, NoConn,
      ClearCommands, Registered, cmdVars, connVars, respVars, endVars,
      netVars, cccVars
<1>4. CASE ClearResponses
  BY <1>4 DEF ConnTypes, ConnInv, RegisteredHasHandler,
      ServedIsRegistered, Registered, HandStates, Conns, NoConn,
      ClearResponses, cmdVars, connVars, respVars, endVars, netVars, cccVars
<1>5. CASE Destroy
  BY <1>5 DEF ConnTypes, ConnInv, RegisteredHasHandler,
      ServedIsRegistered, Registered, HandStates, Conns, NoConn, Destroy,
      cmdVars, connVars, respVars, endVars, netVars, cccVars
<1>6. CASE ServeExit
  BY <1>6 DEF ConnTypes, ConnInv, RegisteredHasHandler,
      ServedIsRegistered, Registered, HandStates, Conns, NoConn, ServeExit,
      cmdVars, connVars, respVars, endVars, netVars, cccVars
<1>7. ASSUME NEW c \in Conns, Accept(c)
         PROVE  ConnInv'
  BY <1>7 DEF ConnTypes, ConnInv, RegisteredHasHandler,
      ServedIsRegistered, Registered, HandStates, Conns, NoConn, Accept,
      cmdVars, connVars, respVars, endVars, netVars, cccVars
<1>8. ASSUME NEW c \in Conns, HandshakeAccepted(c)
         PROVE  ConnInv'
  BY <1>8 DEF ConnTypes, ConnInv, RegisteredHasHandler,
      ServedIsRegistered, Registered, HandStates, Conns, NoConn,
      HandshakeAccepted, Loop, cmdVars, connVars, respVars, endVars, netVars,
      cccVars
<1>9. ASSUME NEW c \in Conns, HandshakeFailed(c)
         PROVE  ConnInv'
  BY <1>9 DEF ConnTypes, ConnInv, RegisteredHasHandler,
      ServedIsRegistered, Registered, HandStates, Conns, NoConn,
      HandshakeFailed, cmdVars, connVars, respVars, endVars, netVars, cccVars
<1>10. CASE UpdateClient
  BY <1>10 DEF ConnTypes, ConnInv, RegisteredHasHandler,
      ServedIsRegistered, Registered, HandStates, Conns, NoConn, UpdateClient,
      cmdVars, connVars, respVars, endVars, netVars, cccVars
<1>11. CASE WriteResponses
  BY <1>11 DEF ConnTypes, ConnInv, RegisteredHasHandler,
      ServedIsRegistered, Registered, HandStates, Conns, NoConn,
      WriteResponses, cmdVars, connVars, respVars, endVars, netVars, cccVars
<1>12. CASE ResponsesCleared
  BY <1>12 DEF ConnTypes, ConnInv, RegisteredHasHandler,
      ServedIsRegistered, Registered, HandStates, Conns, NoConn,
      ResponsesCleared, cmdVars, connVars, respVars, endVars, netVars, cccVars
<1>13. CASE DestroyListeners
  BY <1>13 DEF ConnTypes, ConnInv, RegisteredHasHandler,
      ServedIsRegistered, Registered, HandStates, Conns, NoConn,
      DestroyListeners, cmdVars, connVars, respVars, endVars, netVars, cccVars
<1>14. CASE DestroyClients
  BY <1>14 DEF ConnTypes, ConnInv, RegisteredHasHandler,
      ServedIsRegistered, Registered, HandStates, Conns, NoConn,
      DestroyClients, cmdVars, connVars, respVars, endVars, netVars, cccVars
<1>15. ASSUME NEW S \in SUBSET UUIDs, Reap(S)
         PROVE  ConnInv'
  BY <1>15 DEF ConnTypes, ConnInv, RegisteredHasHandler,
      ServedIsRegistered, Registered, HandStates, Conns, NoConn, Reap,
      cmdVars, connVars, respVars, endVars, netVars, cccVars
<1>16. ASSUME NEW t \in UUIDs \cup {All}, NEW max \in 0 .. MaxCommands, SendCommands(t),
                MaxCommandID(max), SendTo(t, max)
         PROVE  ConnInv'
  BY <1>16 DEF ConnTypes, ConnInv, RegisteredHasHandler,
      ServedIsRegistered, Registered, HandStates, Conns, NoConn, SendCommands,
      SendTo, Routed, cmdVars, connVars, respVars, endVars, netVars, cccVars
<1>17. ASSUME NEW c \in Conns, Receive(c)
         PROVE  ConnInv'
  BY SMTT(40), <1>17 DEF ConnTypes, ConnInv, RegisteredHasHandler,
      ServedIsRegistered, Registered, HandStates, Conns, NoConn, Receive,
      Loop, cmdVars, connVars, respVars, endVars, netVars, cccVars
<1>18. ASSUME NEW c \in Conns, PassOn(c)
         PROVE  ConnInv'
  <2>1. UNCHANGED <<clients, owner, ends>>
    BY <1>18 DEF PassOn, netVars
  <2>2. \A d \in Conns : hand'[d] = hand[d] \/ 
          (hand[d] = "sending" /\ hand'[d] \in {"open", "exit"})
    BY <1>18 DEF PassOn, Loop, destroyed, ConnTypes
  <2>3. QED
    BY <2>1, <2>2 DEF ConnTypes, ConnInv, RegisteredHasHandler, ServedIsRegistered,
       Registered, NoConn, Conns
<1>19. ASSUME NEW c \in Conns, ReceiveError(c)
         PROVE  ConnInv'
  BY <1>19 DEF ConnTypes, ConnInv, RegisteredHasHandler,
      ServedIsRegistered, Registered, HandStates, Conns, NoConn, ReceiveError,
      cmdVars, connVars, respVars, endVars, netVars, cccVars
<1>20. ASSUME NEW c \in Conns, Exit(c)
         PROVE  ConnInv'
  BY <1>20 DEF ConnTypes, ConnInv, RegisteredHasHandler,
      ServedIsRegistered, Registered, HandStates, Conns, NoConn, Exit,
      cmdVars, connVars, respVars, endVars, netVars, cccVars
<1>21. ASSUME NEW c \in Conns, PeerLost(c)
         PROVE  ConnInv'
  BY <1>21 DEF ConnTypes, ConnInv, RegisteredHasHandler,
      ServedIsRegistered, Registered, HandStates, Conns, NoConn, PeerLost,
      cmdVars, connVars, respVars, endVars, netVars, cccVars
<1>22. ASSUME NEW c \in Conns, LinkFails(c)
         PROVE  ConnInv'
  BY <1>22 DEF ConnTypes, ConnInv, RegisteredHasHandler,
      ServedIsRegistered, Registered, HandStates, Conns, NoConn, LinkFails,
      cmdVars, connVars, respVars, endVars, netVars, cccVars
<1>23. ASSUME NEW u \in UUIDs, Dial(u)
         PROVE  ConnInv'
  BY <1>23 DEF ConnTypes, ConnInv, RegisteredHasHandler,
      ServedIsRegistered, Registered, HandStates, Conns, NoConn, Dial,
      cmdVars, connVars, respVars, endVars, netVars, cccVars
<1>24. ASSUME NEW u \in UUIDs, Heartbeat(u)
         PROVE  ConnInv'
  BY <1>24 DEF ConnTypes, ConnInv, RegisteredHasHandler,
      ServedIsRegistered, Registered, HandStates, Conns, NoConn, Heartbeat,
      Transmit, cmdVars, connVars, respVars, endVars, netVars, cccVars
<1>25. ASSUME NEW u \in UUIDs, OpenPipe(u)
         PROVE  ConnInv'
  BY <1>25 DEF ConnTypes, ConnInv, RegisteredHasHandler,
      ServedIsRegistered, Registered, HandStates, Conns, NoConn, OpenPipe,
      Transmit, cmdVars, connVars, respVars, endVars, netVars, cccVars
<1>26. ASSUME NEW u \in UUIDs, Mux(u)
         PROVE  ConnInv'
  BY <1>26 DEF ConnTypes, ConnInv, RegisteredHasHandler,
      ServedIsRegistered, Registered, HandStates, Conns, NoConn, Mux, cmdVars,
      connVars, respVars, endVars, netVars, cccVars
<1>27. ASSUME NEW u \in UUIDs, MuxError(u)
         PROVE  ConnInv'
  BY <1>27 DEF ConnTypes, ConnInv, RegisteredHasHandler,
      ServedIsRegistered, Registered, HandStates, Conns, NoConn, MuxError,
      cmdVars, connVars, respVars, endVars, netVars, cccVars
<1>28. ASSUME NEW u \in UUIDs, NEW h \in Conns, TakeCommands(u, h)
         PROVE  ConnInv'
  BY <1>28 DEF ConnTypes, ConnInv, RegisteredHasHandler,
      ServedIsRegistered, Registered, HandStates, Conns, NoConn, TakeCommands,
      cmdVars, connVars, respVars, endVars, netVars, cccVars
<1>29. ASSUME NEW u \in UUIDs, NEW h \in Conns, ProcessCommand(u, h)
         PROVE  ConnInv'
  BY <1>29 DEF ConnTypes, ConnInv, RegisteredHasHandler,
      ServedIsRegistered, Registered, HandStates, Conns, NoConn,
      ProcessCommand, cmdVars, connVars, respVars, endVars, netVars, cccVars
<1>30. ASSUME NEW u \in UUIDs, Reset(u)
         PROVE  ConnInv'
  BY <1>30 DEF ConnTypes, ConnInv, RegisteredHasHandler,
      ServedIsRegistered, Registered, HandStates, Conns, NoConn, Reset,
      cmdVars, connVars, respVars, endVars, netVars, cccVars
<1>31. CASE UNCHANGED vars
  BY <1>31 DEF ConnTypes, ConnInv, RegisteredHasHandler,
      ServedIsRegistered, Registered, HandStates, Conns, NoConn, vars,
      cmdVars, connVars, respVars, endVars, netVars, cccVars
<1>32. QED
  BY <1>1, <1>2, <1>3, <1>4, <1>5, <1>6, <1>7, <1>8, <1>9, <1>10, <1>11,
      <1>12, <1>13, <1>14, <1>15, <1>16, <1>17, <1>18, <1>19, <1>20, <1>21,
      <1>22, <1>23, <1>24, <1>25, <1>26, <1>27, <1>28, <1>29, <1>30, <1>31 DEF
      Next, User, Serve, ResponseHandler, Handler, Miniccc, SendCommands

(* Every registered client has a handler, whichever handler, reaper or     *)
(* handshake comes first: "map of active clients, each of which have a     *)
(* running handler".                                                       *)
THEOREM ClientsHaveHandlers == Spec => []RegisteredHasHandler
<1>1. Init => ConnInv
  BY BoundsAssumption DEF Init, ConnInv, RegisteredHasHandler, ServedIsRegistered
<1>2. ConnTypes /\ ConnInv /\ [Next]_vars => ConnTypes' /\ ConnInv'
  BY ConnTypesStep, ConnInvStep
<1>3. ConnInv => RegisteredHasHandler
  BY DEF ConnInv
<1>4. QED
  BY ConnTypesInit, <1>1, <1>2, <1>3, PTL DEF Spec

(* No connection that is served is lost from the map of clients, whoever   *)
(* removes clients from it by their UUID.                                  *)
THEOREM NoZombies == Spec => []ServedIsRegistered
<1>1. Init => ConnInv
  BY BoundsAssumption DEF Init, ConnInv, RegisteredHasHandler, ServedIsRegistered
<1>2. ConnTypes /\ ConnInv /\ [Next]_vars => ConnTypes' /\ ConnInv'
  BY ConnTypesStep, ConnInvStep
<1>3. ConnInv => ServedIsRegistered
  BY DEF ConnInv
<1>4. QED
  BY ConnTypesInit, <1>1, <1>2, <1>3, PTL DEF Spec

(* The map of clients is the set of connections that are served.           *)
THEOREM ClientsAreServed == Spec => []ClientsServed
  BY ClientsHaveHandlers, NoZombies, PTL DEF ClientsServed

----------------------------------------------------------------------------
(* When the reaper expires nobody, a handler leaves only together with its *)
(* client, and Destroy closes the channel when none is left.               *)
LEMMA DestroyInvStep ==
    ASSUME "expire" \notin Ops, ConnTypes, DestroyInv, [Next]_vars
    PROVE  DestroyInv'
<1> USE BoundsAssumption, UUIDsAssumption
<1>1. ASSUME NEW to \in SUBSET UUIDs, NewCommand(to)
         PROVE  DestroyInv'
  BY <1>1 DEF ConnTypes, DestroyInv, Served, HandStates, Conns, NoConn,
      NewCommand, cmdVars, connVars, respVars, endVars, netVars, cccVars
<1>2. ASSUME NEW S \in SUBSET commands, DeleteCommands(S)
         PROVE  DestroyInv'
  BY <1>2 DEF ConnTypes, DestroyInv, Served, HandStates, Conns, NoConn,
      DeleteCommands, cmdVars, connVars, respVars, endVars, netVars, cccVars
<1>3. CASE ClearCommands
  BY <1>3 DEF ConnTypes, DestroyInv, Served, HandStates, Conns, NoConn,
      ClearCommands, Registered, cmdVars, connVars, respVars, endVars,
      netVars, cccVars
<1>4. CASE ClearResponses
  BY <1>4 DEF ConnTypes, DestroyInv, Served, HandStates, Conns, NoConn,
      ClearResponses, cmdVars, connVars, respVars, endVars, netVars, cccVars
<1>5. CASE Destroy
  BY <1>5 DEF ConnTypes, DestroyInv, Served, HandStates, Conns, NoConn,
      Destroy, cmdVars, connVars, respVars, endVars, netVars, cccVars
<1>6. CASE ServeExit
  BY <1>6 DEF ConnTypes, DestroyInv, Served, HandStates, Conns, NoConn,
      ServeExit, cmdVars, connVars, respVars, endVars, netVars, cccVars
<1>7. ASSUME NEW c \in Conns, Accept(c)
         PROVE  DestroyInv'
  BY <1>7 DEF ConnTypes, DestroyInv, Served, HandStates, Conns, NoConn,
      Accept, cmdVars, connVars, respVars, endVars, netVars, cccVars
<1>8. ASSUME NEW c \in Conns, HandshakeAccepted(c)
         PROVE  DestroyInv'
  BY <1>8 DEF ConnTypes, DestroyInv, Served, HandStates, Conns, NoConn,
      HandshakeAccepted, Loop, cmdVars, connVars, respVars, endVars, netVars,
      cccVars
<1>9. ASSUME NEW c \in Conns, HandshakeFailed(c)
         PROVE  DestroyInv'
  BY <1>9 DEF ConnTypes, DestroyInv, Served, HandStates, Conns, NoConn,
      HandshakeFailed, cmdVars, connVars, respVars, endVars, netVars, cccVars
<1>10. CASE UpdateClient
  BY <1>10 DEF ConnTypes, DestroyInv, Served, HandStates, Conns, NoConn,
      UpdateClient, cmdVars, connVars, respVars, endVars, netVars, cccVars
<1>11. CASE WriteResponses
  BY <1>11 DEF ConnTypes, DestroyInv, Served, HandStates, Conns, NoConn,
      WriteResponses, cmdVars, connVars, respVars, endVars, netVars, cccVars
<1>12. CASE ResponsesCleared
  BY <1>12 DEF ConnTypes, DestroyInv, Served, HandStates, Conns, NoConn,
      ResponsesCleared, cmdVars, connVars, respVars, endVars, netVars, cccVars
<1>13. CASE DestroyListeners
  BY <1>13 DEF ConnTypes, DestroyInv, Served, HandStates, Conns, NoConn,
      DestroyListeners, cmdVars, connVars, respVars, endVars, netVars, cccVars
<1>14. CASE DestroyClients
  BY <1>14 DEF ConnTypes, DestroyInv, Served, HandStates, Conns, NoConn,
      DestroyClients, cmdVars, connVars, respVars, endVars, netVars, cccVars
<1>15. ASSUME NEW S \in SUBSET UUIDs, Reap(S)
         PROVE  DestroyInv'
  BY <1>15 DEF ConnTypes, DestroyInv, Served, HandStates, Conns, NoConn,
      Reap, cmdVars, connVars, respVars, endVars, netVars, cccVars
<1>16. ASSUME NEW t \in UUIDs \cup {All}, NEW max \in 0 .. MaxCommands, SendCommands(t),
                MaxCommandID(max), SendTo(t, max)
         PROVE  DestroyInv'
  BY <1>16 DEF ConnTypes, DestroyInv, Served, HandStates, Conns, NoConn,
      SendCommands, SendTo, Routed, cmdVars, connVars, respVars, endVars,
      netVars, cccVars
<1>17. ASSUME NEW c \in Conns, Receive(c)
         PROVE  DestroyInv'
  <2>1. /\ \A d \in Conns : Served(d)' <=> Served(d)
        /\ pipes' = pipes \/ pipes' = pipes \cup {c}
        /\ Served(c)
    BY <1>17 DEF ConnTypes, Served, Receive, Loop
  <2>2. /\ clients' = clients /\ owner' = owner /\ listener' = listener /\ serving' = serving
        /\ destroy' = destroy /\ closed' = closed /\ panic' = panic
    BY <1>17 DEF Receive, endVars
  <2>3. QED
    BY <2>1, <2>2 DEF DestroyInv
<1>18. ASSUME NEW c \in Conns, PassOn(c)
         PROVE  DestroyInv'
  BY <1>18 DEF ConnTypes, DestroyInv, Served, HandStates, Conns, NoConn,
      PassOn, Loop, cmdVars, connVars, respVars, endVars, netVars, cccVars
<1>19. ASSUME NEW c \in Conns, ReceiveError(c)
         PROVE  DestroyInv'
  BY <1>19 DEF ConnTypes, DestroyInv, Served, HandStates, Conns, NoConn,
      ReceiveError, cmdVars, connVars, respVars, endVars, netVars, cccVars
<1>20. ASSUME NEW c \in Conns, Exit(c)
         PROVE  DestroyInv'
  BY <1>20 DEF ConnTypes, DestroyInv, Served, HandStates, Conns, NoConn,
      Exit, cmdVars, connVars, respVars, endVars, netVars, cccVars
<1>21. ASSUME NEW c \in Conns, PeerLost(c)
         PROVE  DestroyInv'
  BY <1>21 DEF ConnTypes, DestroyInv, Served, HandStates, Conns, NoConn,
      PeerLost, cmdVars, connVars, respVars, endVars, netVars, cccVars
<1>22. ASSUME NEW c \in Conns, LinkFails(c)
         PROVE  DestroyInv'
  BY <1>22 DEF ConnTypes, DestroyInv, Served, HandStates, Conns, NoConn,
      LinkFails, cmdVars, connVars, respVars, endVars, netVars, cccVars
<1>23. ASSUME NEW u \in UUIDs, Dial(u)
         PROVE  DestroyInv'
  BY <1>23 DEF ConnTypes, DestroyInv, Served, HandStates, Conns, NoConn,
      Dial, cmdVars, connVars, respVars, endVars, netVars, cccVars
<1>24. ASSUME NEW u \in UUIDs, Heartbeat(u)
         PROVE  DestroyInv'
  BY <1>24 DEF ConnTypes, DestroyInv, Served, HandStates, Conns, NoConn,
      Heartbeat, Transmit, cmdVars, connVars, respVars, endVars, netVars,
      cccVars
<1>25. ASSUME NEW u \in UUIDs, OpenPipe(u)
         PROVE  DestroyInv'
  BY <1>25 DEF ConnTypes, DestroyInv, Served, HandStates, Conns, NoConn,
      OpenPipe, Transmit, cmdVars, connVars, respVars, endVars, netVars,
      cccVars
<1>26. ASSUME NEW u \in UUIDs, Mux(u)
         PROVE  DestroyInv'
  BY <1>26 DEF ConnTypes, DestroyInv, Served, HandStates, Conns, NoConn,
      Mux, cmdVars, connVars, respVars, endVars, netVars, cccVars
<1>27. ASSUME NEW u \in UUIDs, MuxError(u)
         PROVE  DestroyInv'
  BY <1>27 DEF ConnTypes, DestroyInv, Served, HandStates, Conns, NoConn,
      MuxError, cmdVars, connVars, respVars, endVars, netVars, cccVars
<1>28. ASSUME NEW u \in UUIDs, NEW h \in Conns, TakeCommands(u, h)
         PROVE  DestroyInv'
  BY <1>28 DEF ConnTypes, DestroyInv, Served, HandStates, Conns, NoConn,
      TakeCommands, cmdVars, connVars, respVars, endVars, netVars, cccVars
<1>29. ASSUME NEW u \in UUIDs, NEW h \in Conns, ProcessCommand(u, h)
         PROVE  DestroyInv'
  BY <1>29 DEF ConnTypes, DestroyInv, Served, HandStates, Conns, NoConn,
      ProcessCommand, cmdVars, connVars, respVars, endVars, netVars, cccVars
<1>30. ASSUME NEW u \in UUIDs, Reset(u)
         PROVE  DestroyInv'
  BY <1>30 DEF ConnTypes, DestroyInv, Served, HandStates, Conns, NoConn,
      Reset, cmdVars, connVars, respVars, endVars, netVars, cccVars
<1>31. CASE UNCHANGED vars
  BY <1>31 DEF ConnTypes, DestroyInv, Served, HandStates, Conns, NoConn,
      vars, cmdVars, connVars, respVars, endVars, netVars, cccVars
<1>32. QED
  BY <1>1, <1>2, <1>3, <1>4, <1>5, <1>6, <1>7, <1>8, <1>9, <1>10, <1>11,
      <1>12, <1>13, <1>14, <1>15, <1>16, <1>17, <1>18, <1>19, <1>20, <1>21,
      <1>22, <1>23, <1>24, <1>25, <1>26, <1>27, <1>28, <1>29, <1>30, <1>31 DEF
      Next, User, Serve, ResponseHandler, Handler, Miniccc, SendCommands

(* Destroy never makes a handler send on the channel that it has closed,   *)
(* as long as the reaper expires nobody.                                   *)
THEOREM DestroyIsSafe ==
    ASSUME "expire" \notin Ops
    PROVE  Spec => []NoPanic
<1>1. Init => DestroyInv
  BY BoundsAssumption DEF Init, DestroyInv, Served
<1>2. ConnTypes /\ DestroyInv /\ [Next]_vars => ConnTypes' /\ DestroyInv'
  BY ConnTypesStep, DestroyInvStep
<1>3. DestroyInv => NoPanic
  BY DEF DestroyInv, NoPanic
<1>4. QED
  BY ConnTypesInit, <1>1, <1>2, <1>3, PTL DEF Spec

(* The pipes of a client do not outlive its handler, as long as the reaper *)
(* expires nobody.                                                         *)
THEOREM PlumbingIsClosed ==
    ASSUME "expire" \notin Ops
    PROVE  Spec => []PipesClosed
<1>1. Init => DestroyInv
  BY BoundsAssumption DEF Init, DestroyInv, Served
<1>2. ConnTypes /\ DestroyInv /\ [Next]_vars => ConnTypes' /\ DestroyInv'
  BY ConnTypesStep, DestroyInvStep
<1>3. DestroyInv => PipesClosed
  BY DEF DestroyInv, PipesClosed, Served
<1>4. QED
  BY ConnTypesInit, <1>1, <1>2, <1>3, PTL DEF Spec

(* Destroy and removeClient leave nobody behind, as long as the reaper     *)
(* expires nobody.                                                         *)
THEOREM DestroyIsSound ==
    ASSUME "expire" \notin Ops
    PROVE  Spec => []DestroySound
  BY DestroyIsSafe, PlumbingIsClosed, PTL DEF DestroySound

----------------------------------------------------------------------------
(* Commands keep their types, and the counter never passes the number of   *)
(* commands created.                                                       *)
LEMMA CommandTypesStep ==
    ASSUME CommandTypes, [Next]_vars
    PROVE  CommandTypes'
<1> USE BoundsAssumption
<1>1. ASSUME NEW to \in SUBSET UUIDs, NewCommand(to)
         PROVE  CommandTypes'
  <2>1. [id |-> counter + 1, n |-> born + 1, to |-> to] \in Command
    BY <1>1 DEF NewCommand, CommandTypes, Command
  <2>2. QED
    BY <1>1, <2>1 DEF CommandTypes, NewCommand, connVars, netVars
<1>2. ASSUME NEW S \in SUBSET commands, DeleteCommands(S)
         PROVE  CommandTypes'
  BY <1>2 DEF CommandTypes, DeleteCommands, cmdVars, connVars, respVars,
      endVars, netVars, cccVars
<1>3. CASE ClearCommands
  BY <1>3 DEF CommandTypes, ClearCommands, Registered, cmdVars, connVars,
      respVars, endVars, netVars, cccVars
<1>4. CASE ClearResponses
  BY <1>4 DEF CommandTypes, ClearResponses, cmdVars, connVars, respVars,
      endVars, netVars, cccVars
<1>5. CASE Destroy
  BY <1>5 DEF CommandTypes, Destroy, cmdVars, connVars, respVars, endVars,
      netVars, cccVars
<1>6. CASE ServeExit
  BY <1>6 DEF CommandTypes, ServeExit, cmdVars, connVars, respVars,
      endVars, netVars, cccVars
<1>7. ASSUME NEW c \in Conns, Accept(c)
         PROVE  CommandTypes'
  BY <1>7 DEF CommandTypes, Accept, cmdVars, connVars, respVars, endVars,
      netVars, cccVars
<1>8. ASSUME NEW c \in Conns, HandshakeAccepted(c)
         PROVE  CommandTypes'
  <2>1. [type |-> "ack", cmds |-> {}] \in Answer
    BY DEF Answer
  <2>2. QED
    BY <1>8, <2>1 DEF CommandTypes, HandshakeAccepted, cmdVars
<1>9. ASSUME NEW c \in Conns, HandshakeFailed(c)
         PROVE  CommandTypes'
  BY <1>9 DEF CommandTypes, HandshakeFailed, cmdVars, connVars, respVars,
      endVars, netVars, cccVars
<1>10. CASE UpdateClient
  BY <1>10 DEF CommandTypes, UpdateClient, cmdVars, connVars, respVars,
      endVars, netVars, cccVars
<1>11. CASE WriteResponses
  BY <1>11 DEF CommandTypes, WriteResponses, cmdVars, connVars, respVars,
      endVars, netVars, cccVars
<1>12. CASE ResponsesCleared
  BY <1>12 DEF CommandTypes, ResponsesCleared, cmdVars, connVars,
      respVars, endVars, netVars, cccVars
<1>13. CASE DestroyListeners
  BY <1>13 DEF CommandTypes, DestroyListeners, cmdVars, connVars,
      respVars, endVars, netVars, cccVars
<1>14. CASE DestroyClients
  BY <1>14 DEF CommandTypes, DestroyClients, cmdVars, connVars, respVars,
      endVars, netVars, cccVars
<1>15. ASSUME NEW S \in SUBSET UUIDs, Reap(S)
         PROVE  CommandTypes'
  BY <1>15 DEF CommandTypes, Reap, cmdVars, connVars, respVars, endVars,
      netVars, cccVars
<1>16. ASSUME NEW t \in UUIDs \cup {All}, NEW max \in 0 .. MaxCommands, SendCommands(t),
                MaxCommandID(max), SendTo(t, max)
         PROVE  CommandTypes'
  <2>1. \A c \in Conns : Fresh(c) \in SUBSET Command
    BY DEF Fresh, CommandTypes
  <2>2. \A c \in Conns : [type |-> "command", cmds |-> Fresh(c)] \in Answer
    BY <2>1 DEF Answer
  <2>3. toClient' \in [Conns -> Seq(Answer)]
    BY <1>16, <2>2 DEF CommandTypes, SendTo
  <2>4. sent' \in [Conns -> SUBSET Command]
    BY <1>16, <2>1 DEF CommandTypes, SendTo
  <2>5. maxID' \in [Conns -> 0 .. MaxCommands]
    BY <1>16 DEF CommandTypes, SendTo
  <2>6. QED
    BY <1>16, <2>3, <2>4, <2>5 DEF CommandTypes, SendTo, cmdVars
<1>17. ASSUME NEW c \in Conns, Receive(c)
         PROVE  CommandTypes'
  BY <1>17 DEF CommandTypes, Receive, Loop, cmdVars, connVars, respVars,
      endVars, netVars, cccVars
<1>18. ASSUME NEW c \in Conns, PassOn(c)
         PROVE  CommandTypes'
  BY <1>18 DEF CommandTypes, PassOn, Loop, cmdVars, connVars, respVars,
      endVars, netVars, cccVars
<1>19. ASSUME NEW c \in Conns, ReceiveError(c)
         PROVE  CommandTypes'
  BY <1>19 DEF CommandTypes, ReceiveError, cmdVars, connVars, respVars,
      endVars, netVars, cccVars
<1>20. ASSUME NEW c \in Conns, Exit(c)
         PROVE  CommandTypes'
  BY <1>20 DEF CommandTypes, Exit, cmdVars, connVars, respVars, endVars,
      netVars, cccVars
<1>21. ASSUME NEW c \in Conns, PeerLost(c)
         PROVE  CommandTypes'
  BY <1>21 DEF CommandTypes, PeerLost, cmdVars, connVars, respVars,
      endVars, netVars, cccVars
<1>22. ASSUME NEW c \in Conns, LinkFails(c)
         PROVE  CommandTypes'
  BY <1>22 DEF CommandTypes, LinkFails, cmdVars, connVars, respVars,
      endVars, netVars, cccVars
<1>23. ASSUME NEW u \in UUIDs, Dial(u)
         PROVE  CommandTypes'
  BY <1>23 DEF CommandTypes, Dial, cmdVars, connVars, respVars, endVars,
      netVars, cccVars
<1>24. ASSUME NEW u \in UUIDs, Heartbeat(u)
         PROVE  CommandTypes'
  BY <1>24 DEF CommandTypes, Heartbeat, Transmit, cmdVars, connVars,
      respVars, endVars, netVars, cccVars
<1>25. ASSUME NEW u \in UUIDs, OpenPipe(u)
         PROVE  CommandTypes'
  BY <1>25 DEF CommandTypes, OpenPipe, Transmit, cmdVars, connVars,
      respVars, endVars, netVars, cccVars
<1>26. ASSUME NEW u \in UUIDs, Mux(u)
         PROVE  CommandTypes'
  <2>1. \A q \in Seq(Answer) : q # <<>> => Tail(q) \in Seq(Answer)
    OBVIOUS
  <2>2. toClient' \in [Conns -> Seq(Answer)]
    BY <1>26, <2>1 DEF CommandTypes, Mux
  <2>3. QED
    BY <1>26, <2>2 DEF CommandTypes, Mux, cmdVars, connVars
<1>27. ASSUME NEW u \in UUIDs, MuxError(u)
         PROVE  CommandTypes'
  BY <1>27 DEF CommandTypes, MuxError, cmdVars, connVars, respVars,
      endVars, netVars, cccVars
<1>28. ASSUME NEW u \in UUIDs, NEW h \in Conns, TakeCommands(u, h)
         PROVE  CommandTypes'
  BY <1>28 DEF CommandTypes, TakeCommands, cmdVars, connVars, respVars,
      endVars, netVars, cccVars
<1>29. ASSUME NEW u \in UUIDs, NEW h \in Conns, ProcessCommand(u, h)
         PROVE  CommandTypes'
  BY <1>29 DEF CommandTypes, ProcessCommand, cmdVars, connVars, respVars,
      endVars, netVars, cccVars
<1>30. ASSUME NEW u \in UUIDs, Reset(u)
         PROVE  CommandTypes'
  BY <1>30 DEF CommandTypes, Reset, cmdVars, connVars, respVars, endVars,
      netVars, cccVars
<1>31. CASE UNCHANGED vars
  BY <1>31 DEF CommandTypes, vars, cmdVars, connVars, respVars, endVars,
      netVars, cccVars
<1>32. QED
  BY <1>1, <1>2, <1>3, <1>4, <1>5, <1>6, <1>7, <1>8, <1>9, <1>10, <1>11,
      <1>12, <1>13, <1>14, <1>15, <1>16, <1>17, <1>18, <1>19, <1>20, <1>21,
      <1>22, <1>23, <1>24, <1>25, <1>26, <1>27, <1>28, <1>29, <1>30, <1>31 DEF
      Next, User, Serve, ResponseHandler, Handler, Miniccc, SendCommands

(* Quiet steps keep the invariant. *)
LEMMA QuietSteps ==
    ASSUME CommandInv, Quiet
    PROVE  CommandInv'
  BY DEF CommandInv, Quiet

(* A command is new to every connection when it is created, a connection   *)
(* has been sent nothing when it is registered, and sendCommands raises    *)
(* maxCommandID over what it sends.                                        *)
LEMMA CommandInvStep ==
    ASSUME ConnTypes, ConnInv, CommandTypes, CommandInv, [Next]_vars
    PROVE  CommandInv'
<1> USE BoundsAssumption, UUIDsAssumption, QuietSteps
<1>1. ASSUME NEW to \in SUBSET UUIDs, NewCommand(to)
         PROVE  CommandInv'
  <2>1. UNCHANGED <<clients, hand, sent, maxID>> /\ born' = born + 1
    BY <1>1 DEF NewCommand, connVars
  <2>2. \A cmd \in commands' : cmd \in commands \/ cmd.n = born + 1
    BY <1>1 DEF NewCommand
  <2>3. \A c \in Conns : sent[c] \subseteq Command
    BY DEF CommandTypes
  <2>4. \A c \in Conns : sent[c] \cap commands' \subseteq commands
    BY <2>2, <2>3 DEF CommandInv, CommandTypes, Command
  <2>5. \A cmd \in Command : cmd.n \in Nat
    BY DEF Command
  <2>6. \A cmd \in commands' : cmd.n <= born'
    BY <2>1, <2>2, <2>5 DEF CommandInv, CommandTypes
  <2>7. \A c \in Conns : \A cmd \in sent'[c] : cmd.n <= born'
    BY <2>1, <2>3, <2>5 DEF CommandInv, CommandTypes
  <2>8. \A c \in Conns : (Registered(c)' <=> Registered(c)) /\ (Early(c)' <=> Early(c))
    BY <2>1 DEF Registered, Early
  <2>9. QED
    BY <2>1, <2>4, <2>6, <2>7, <2>8 DEF CommandInv
<1>2. ASSUME NEW S \in SUBSET commands, DeleteCommands(S)
         PROVE  CommandInv'
  BY <1>2 DEF CommandInv, Early, Registered, DeleteCommands, connVars
<1>3. CASE ClearCommands
  BY <1>3 DEF CommandInv, Early, ClearCommands
<1>4. CASE ClearResponses
  BY <1>4 DEF ConnTypes, Quiet, Early, Registered, HandStates,
      ClearResponses, cmdVars, connVars, respVars, endVars, netVars, cccVars
<1>5. CASE Destroy
  BY <1>5 DEF ConnTypes, Quiet, Early, Registered, HandStates, Destroy,
      cmdVars, connVars, respVars, endVars, netVars, cccVars
<1>6. CASE ServeExit
  BY <1>6 DEF ConnTypes, Quiet, Early, Registered, HandStates, ServeExit,
      cmdVars, connVars, respVars, endVars, netVars, cccVars
<1>7. ASSUME NEW c \in Conns, Accept(c)
         PROVE  CommandInv'
  BY <1>7 DEF ConnTypes, Quiet, Early, Registered, HandStates, Accept,
      cmdVars, connVars, respVars, endVars, netVars, cccVars
<1>8. ASSUME NEW c \in Conns, HandshakeAccepted(c)
         PROVE  CommandInv'
  <2>1. UNCHANGED <<commands, born, maxID, sent>>
    BY <1>8 DEF HandshakeAccepted, cmdVars
  <2>2. sent[c] = {}
    BY <1>8 DEF HandshakeAccepted, CommandInv, Early
  <2>3. \A d \in Conns : (Early(d)' => Early(d)) /\ (Registered(d)' => Registered(d) \/ d = c)
    BY <1>8 DEF HandshakeAccepted, ConnTypes, Early, Registered
  <2>4. QED
    BY <2>1, <2>2, <2>3 DEF CommandInv
<1>9. ASSUME NEW c \in Conns, HandshakeFailed(c)
         PROVE  CommandInv'
  BY <1>9 DEF ConnTypes, Quiet, Early, Registered, HandStates,
      HandshakeFailed, cmdVars, connVars, respVars, endVars, netVars, cccVars
<1>10. CASE UpdateClient
  BY <1>10 DEF ConnTypes, Quiet, Early, Registered, HandStates,
      UpdateClient, cmdVars, connVars, respVars, endVars, netVars, cccVars
<1>11. CASE WriteResponses
  BY <1>11 DEF ConnTypes, Quiet, Early, Registered, HandStates,
      WriteResponses, cmdVars, connVars, respVars, endVars, netVars, cccVars
<1>12. CASE ResponsesCleared
  BY <1>12 DEF ConnTypes, Quiet, Early, Registered, HandStates,
      ResponsesCleared, cmdVars, connVars, respVars, endVars, netVars, cccVars
<1>13. CASE DestroyListeners
  BY <1>13 DEF ConnTypes, Quiet, Early, Registered, HandStates,
      DestroyListeners, cmdVars, connVars, respVars, endVars, netVars, cccVars
<1>14. CASE DestroyClients
  BY <1>14 DEF ConnTypes, Quiet, Early, Registered, HandStates,
      DestroyClients, cmdVars, connVars, respVars, endVars, netVars, cccVars
<1>15. ASSUME NEW S \in SUBSET UUIDs, Reap(S)
         PROVE  CommandInv'
  <2>1. UNCHANGED <<commands, born, maxID, sent>>
    BY <1>15 DEF Reap, cmdVars
  <2>2. \A d \in Conns : Early(d)' => Early(d)
    BY <1>15 DEF Reap, ConnTypes, Early
  <2>3. \A d \in Conns : Registered(d)' => Registered(d)
    BY <1>15 DEF Reap, Registered, ConnTypes, Conns, NoConn
  <2>4. QED
    BY <2>1, <2>2, <2>3, QuietSteps DEF Quiet
<1>16. ASSUME NEW t \in UUIDs \cup {All}, NEW max \in 0 .. MaxCommands, SendCommands(t),
                MaxCommandID(max), SendTo(t, max)
         PROVE  CommandInv'
  <2>1. UNCHANGED <<commands, born, hand, clients>>
    BY <1>16 DEF SendTo, cmdVars
  <2>2. \A c \in Conns : sent'[c] \subseteq sent[c] \cup commands
    BY <1>16 DEF SendTo, Fresh
  <2>3. \A c \in Conns : c \in Routed(t, max) => maxID'[c] = max
    BY <1>16 DEF SendTo
  <2>4. \A c \in Conns : c \notin Routed(t, max) => maxID'[c] = maxID[c] /\ sent'[c] = sent[c]
    BY <1>16 DEF SendTo
  <2>5. \A c \in Conns : ~Registered(c) => c \notin Routed(t, max)
    BY DEF Routed
  <2>6. \A cmd \in commands : cmd.id <= max
    BY <1>16 DEF MaxCommandID
  <2>7. \A c \in Conns : Early(c) => ~Registered(c)
    BY DEF Early, ConnInv, RegisteredHasHandler, Registered, ConnTypes, NoConn, Conns
  <2>8. \A c \in Conns : (Registered(c)' <=> Registered(c)) /\ (Early(c)' <=> Early(c))
    BY <2>1 DEF Registered, Early
  <2>9. QED
    BY <2>1, <2>2, <2>3, <2>4, <2>5, <2>6, <2>7, <2>8 DEF CommandInv
<1>17. ASSUME NEW c \in Conns, Receive(c)
         PROVE  CommandInv'
  BY <1>17 DEF ConnTypes, Quiet, Early, Registered, HandStates, Receive,
      Loop, cmdVars, connVars, respVars, endVars, netVars, cccVars
<1>18. ASSUME NEW c \in Conns, PassOn(c)
         PROVE  CommandInv'
  <2>1. UNCHANGED <<commands, born, maxID, sent>>
    BY <1>18 DEF PassOn, cmdVars
  <2>2. \A d \in Conns : Early(d)' => Early(d)
    BY <1>18 DEF PassOn, ConnTypes, Early, Loop, destroyed
  <2>3. \A d \in Conns : Registered(d)' => Registered(d)
    BY <1>18 DEF PassOn, Registered
  <2>4. QED
    BY <2>1, <2>2, <2>3, QuietSteps DEF Quiet
<1>19. ASSUME NEW c \in Conns, ReceiveError(c)
         PROVE  CommandInv'
  BY <1>19 DEF ConnTypes, Quiet, Early, Registered, HandStates,
      ReceiveError, cmdVars, connVars, respVars, endVars, netVars, cccVars
<1>20. ASSUME NEW c \in Conns, Exit(c)
         PROVE  CommandInv'
  <2>1. UNCHANGED <<commands, born, maxID, sent>>
    BY <1>20 DEF Exit, cmdVars
  <2>2. \A d \in Conns : Early(d)' => Early(d)
    BY <1>20 DEF Exit, ConnTypes, Early
  <2>3. \A d \in Conns : Registered(d)' => Registered(d)
    BY <1>20 DEF Exit, Registered, ConnTypes, Conns, NoConn
  <2>4. QED
    BY <2>1, <2>2, <2>3, QuietSteps DEF Quiet
<1>21. ASSUME NEW c \in Conns, PeerLost(c)
         PROVE  CommandInv'
  BY <1>21 DEF ConnTypes, Quiet, Early, Registered, HandStates, PeerLost,
      cmdVars, connVars, respVars, endVars, netVars, cccVars
<1>22. ASSUME NEW c \in Conns, LinkFails(c)
         PROVE  CommandInv'
  BY <1>22 DEF ConnTypes, Quiet, Early, Registered, HandStates, LinkFails,
      cmdVars, connVars, respVars, endVars, netVars, cccVars
<1>23. ASSUME NEW u \in UUIDs, Dial(u)
         PROVE  CommandInv'
  BY <1>23 DEF ConnTypes, Quiet, Early, Registered, HandStates, Dial,
      cmdVars, connVars, respVars, endVars, netVars, cccVars
<1>24. ASSUME NEW u \in UUIDs, Heartbeat(u)
         PROVE  CommandInv'
  BY <1>24 DEF ConnTypes, Quiet, Early, Registered, HandStates, Heartbeat,
      Transmit, cmdVars, connVars, respVars, endVars, netVars, cccVars
<1>25. ASSUME NEW u \in UUIDs, OpenPipe(u)
         PROVE  CommandInv'
  BY <1>25 DEF ConnTypes, Quiet, Early, Registered, HandStates, OpenPipe,
      Transmit, cmdVars, connVars, respVars, endVars, netVars, cccVars
<1>26. ASSUME NEW u \in UUIDs, Mux(u)
         PROVE  CommandInv'
  BY <1>26 DEF ConnTypes, Quiet, Early, Registered, HandStates, Mux,
      cmdVars, connVars, respVars, endVars, netVars, cccVars
<1>27. ASSUME NEW u \in UUIDs, MuxError(u)
         PROVE  CommandInv'
  BY <1>27 DEF ConnTypes, Quiet, Early, Registered, HandStates, MuxError,
      cmdVars, connVars, respVars, endVars, netVars, cccVars
<1>28. ASSUME NEW u \in UUIDs, NEW h \in Conns, TakeCommands(u, h)
         PROVE  CommandInv'
  BY <1>28 DEF ConnTypes, Quiet, Early, Registered, HandStates,
      TakeCommands, cmdVars, connVars, respVars, endVars, netVars, cccVars
<1>29. ASSUME NEW u \in UUIDs, NEW h \in Conns, ProcessCommand(u, h)
         PROVE  CommandInv'
  BY <1>29 DEF ConnTypes, Quiet, Early, Registered, HandStates,
      ProcessCommand, cmdVars, connVars, respVars, endVars, netVars, cccVars
<1>30. ASSUME NEW u \in UUIDs, Reset(u)
         PROVE  CommandInv'
  BY <1>30 DEF ConnTypes, Quiet, Early, Registered, HandStates, Reset,
      cmdVars, connVars, respVars, endVars, netVars, cccVars
<1>31. CASE UNCHANGED vars
  BY <1>31 DEF ConnTypes, Quiet, Early, Registered, HandStates, vars,
      cmdVars, connVars, respVars, endVars, netVars, cccVars
<1>32. QED
  BY <1>1, <1>2, <1>3, <1>4, <1>5, <1>6, <1>7, <1>8, <1>9, <1>10, <1>11,
      <1>12, <1>13, <1>14, <1>15, <1>16, <1>17, <1>18, <1>19, <1>20, <1>21,
      <1>22, <1>23, <1>24, <1>25, <1>26, <1>27, <1>28, <1>29, <1>30, <1>31 DEF
      Next, User, Serve, ResponseHandler, Handler, Miniccc, SendCommands

(* What sendCommands picks for a client is above its maxCommandID, and so  *)
(* is nothing that it was sent before.                                     *)
LEMMA NoResendOfSteps ==
    ASSUME ConnTypes, ConnInv, CommandTypes, CommandInv, [Next]_vars
    PROVE  NoResendStep
<1>1. ASSUME NEW to \in SUBSET UUIDs, NewCommand(to)
         PROVE  NoResendStep
  BY <1>1 DEF CommandTypes, NoResendStep, NewCommand, cmdVars, connVars,
      respVars, endVars, netVars, cccVars
<1>2. ASSUME NEW S \in SUBSET commands, DeleteCommands(S)
         PROVE  NoResendStep
  BY <1>2 DEF CommandTypes, NoResendStep, DeleteCommands, cmdVars,
      connVars, respVars, endVars, netVars, cccVars
<1>3. CASE ClearCommands
  BY <1>3 DEF CommandTypes, NoResendStep, ClearCommands, Registered,
      cmdVars, connVars, respVars, endVars, netVars, cccVars
<1>4. CASE ClearResponses
  BY <1>4 DEF CommandTypes, NoResendStep, ClearResponses, cmdVars,
      connVars, respVars, endVars, netVars, cccVars
<1>5. CASE Destroy
  BY <1>5 DEF CommandTypes, NoResendStep, Destroy, cmdVars, connVars,
      respVars, endVars, netVars, cccVars
<1>6. CASE ServeExit
  BY <1>6 DEF CommandTypes, NoResendStep, ServeExit, cmdVars, connVars,
      respVars, endVars, netVars, cccVars
<1>7. ASSUME NEW c \in Conns, Accept(c)
         PROVE  NoResendStep
  BY <1>7 DEF CommandTypes, NoResendStep, Accept, cmdVars, connVars,
      respVars, endVars, netVars, cccVars
<1>8. ASSUME NEW c \in Conns, HandshakeAccepted(c)
         PROVE  NoResendStep
  <2> SUFFICES ASSUME NEW d \in Conns, Len(toClient'[d]) > Len(toClient[d])
               PROVE  toClient'[d][Len(toClient'[d])].cmds \cap sent[d] = {}
    BY DEF NoResendStep
  <2>1. toClient[d] \in Seq(Answer)
    BY DEF CommandTypes
  <2>2. toClient'[d] = Append(toClient[d], [type |-> "ack", cmds |-> {}])
    BY <1>8, <2>1 DEF HandshakeAccepted, CommandTypes
  <2>3. toClient'[d][Len(toClient'[d])] = [type |-> "ack", cmds |-> {}]
    BY <2>1, <2>2
  <2>4. QED
    BY <2>3
<1>9. ASSUME NEW c \in Conns, HandshakeFailed(c)
         PROVE  NoResendStep
  BY <1>9 DEF CommandTypes, NoResendStep, HandshakeFailed, cmdVars,
      connVars, respVars, endVars, netVars, cccVars
<1>10. CASE UpdateClient
  BY <1>10 DEF CommandTypes, NoResendStep, UpdateClient, cmdVars,
      connVars, respVars, endVars, netVars, cccVars
<1>11. CASE WriteResponses
  BY <1>11 DEF CommandTypes, NoResendStep, WriteResponses, cmdVars,
      connVars, respVars, endVars, netVars, cccVars
<1>12. CASE ResponsesCleared
  BY <1>12 DEF CommandTypes, NoResendStep, ResponsesCleared, cmdVars,
      connVars, respVars, endVars, netVars, cccVars
<1>13. CASE DestroyListeners
  BY <1>13 DEF CommandTypes, NoResendStep, DestroyListeners, cmdVars,
      connVars, respVars, endVars, netVars, cccVars
<1>14. CASE DestroyClients
  BY <1>14 DEF CommandTypes, NoResendStep, DestroyClients, cmdVars,
      connVars, respVars, endVars, netVars, cccVars
<1>15. ASSUME NEW S \in SUBSET UUIDs, Reap(S)
         PROVE  NoResendStep
  BY <1>15 DEF CommandTypes, NoResendStep, Reap, cmdVars, connVars,
      respVars, endVars, netVars, cccVars
<1>16. ASSUME NEW t \in UUIDs \cup {All}, NEW max \in 0 .. MaxCommands, SendCommands(t),
                MaxCommandID(max), SendTo(t, max)
         PROVE  NoResendStep
  <2>1. \A c \in Conns : Registered(c) => Fresh(c) \cap sent[c] = {}
    <3>1. \A cmd \in commands : cmd.id \in Int
      BY DEF CommandTypes, Command
    <3>2. \A c \in Conns : maxID[c] \in Int
      BY DEF CommandTypes
    <3>3. QED
      BY <3>1, <3>2 DEF Fresh, CommandInv
  <2> SUFFICES ASSUME NEW c \in Conns, Len(toClient'[c]) > Len(toClient[c])
               PROVE  toClient'[c][Len(toClient'[c])].cmds \cap sent[c] = {}
    BY DEF NoResendStep
  <2>2. c \in Routed(t, max)
    BY <1>16 DEF SendTo, CommandTypes
  <2>3. toClient'[c] = Append(toClient[c], [type |-> "command", cmds |-> Fresh(c)])
    BY <1>16 DEF SendTo, CommandTypes
  <2>4. toClient[c] \in Seq(Answer)
    BY DEF CommandTypes
  <2>5. toClient'[c][Len(toClient'[c])] = [type |-> "command", cmds |-> Fresh(c)]
    BY <2>3, <2>4
  <2>6. QED
    BY <2>1, <2>2, <2>5 DEF Routed
<1>17. ASSUME NEW c \in Conns, Receive(c)
         PROVE  NoResendStep
  BY <1>17 DEF CommandTypes, NoResendStep, Receive, Loop, cmdVars,
      connVars, respVars, endVars, netVars, cccVars
<1>18. ASSUME NEW c \in Conns, PassOn(c)
         PROVE  NoResendStep
  BY <1>18 DEF CommandTypes, NoResendStep, PassOn, Loop, cmdVars,
      connVars, respVars, endVars, netVars, cccVars
<1>19. ASSUME NEW c \in Conns, ReceiveError(c)
         PROVE  NoResendStep
  BY <1>19 DEF CommandTypes, NoResendStep, ReceiveError, cmdVars,
      connVars, respVars, endVars, netVars, cccVars
<1>20. ASSUME NEW c \in Conns, Exit(c)
         PROVE  NoResendStep
  BY <1>20 DEF CommandTypes, NoResendStep, Exit, cmdVars, connVars,
      respVars, endVars, netVars, cccVars
<1>21. ASSUME NEW c \in Conns, PeerLost(c)
         PROVE  NoResendStep
  BY <1>21 DEF CommandTypes, NoResendStep, PeerLost, cmdVars, connVars,
      respVars, endVars, netVars, cccVars
<1>22. ASSUME NEW c \in Conns, LinkFails(c)
         PROVE  NoResendStep
  BY <1>22 DEF CommandTypes, NoResendStep, LinkFails, cmdVars, connVars,
      respVars, endVars, netVars, cccVars
<1>23. ASSUME NEW u \in UUIDs, Dial(u)
         PROVE  NoResendStep
  BY <1>23 DEF CommandTypes, NoResendStep, Dial, cmdVars, connVars,
      respVars, endVars, netVars, cccVars
<1>24. ASSUME NEW u \in UUIDs, Heartbeat(u)
         PROVE  NoResendStep
  BY <1>24 DEF CommandTypes, NoResendStep, Heartbeat, Transmit, cmdVars,
      connVars, respVars, endVars, netVars, cccVars
<1>25. ASSUME NEW u \in UUIDs, OpenPipe(u)
         PROVE  NoResendStep
  BY <1>25 DEF CommandTypes, NoResendStep, OpenPipe, Transmit, cmdVars,
      connVars, respVars, endVars, netVars, cccVars
<1>26. ASSUME NEW u \in UUIDs, Mux(u)
         PROVE  NoResendStep
  BY <1>26 DEF CommandTypes, NoResendStep, Mux, cmdVars, connVars,
      respVars, endVars, netVars, cccVars
<1>27. ASSUME NEW u \in UUIDs, MuxError(u)
         PROVE  NoResendStep
  BY <1>27 DEF CommandTypes, NoResendStep, MuxError, cmdVars, connVars,
      respVars, endVars, netVars, cccVars
<1>28. ASSUME NEW u \in UUIDs, NEW h \in Conns, TakeCommands(u, h)
         PROVE  NoResendStep
  BY <1>28 DEF CommandTypes, NoResendStep, TakeCommands, cmdVars,
      connVars, respVars, endVars, netVars, cccVars
<1>29. ASSUME NEW u \in UUIDs, NEW h \in Conns, ProcessCommand(u, h)
         PROVE  NoResendStep
  BY <1>29 DEF CommandTypes, NoResendStep, ProcessCommand, cmdVars,
      connVars, respVars, endVars, netVars, cccVars
<1>30. ASSUME NEW u \in UUIDs, Reset(u)
         PROVE  NoResendStep
  BY <1>30 DEF CommandTypes, NoResendStep, Reset, cmdVars, connVars,
      respVars, endVars, netVars, cccVars
<1>31. CASE UNCHANGED vars
  BY <1>31 DEF CommandTypes, NoResendStep, vars, cmdVars, connVars,
      respVars, endVars, netVars, cccVars
<1>32. QED
  BY <1>1, <1>2, <1>3, <1>4, <1>5, <1>6, <1>7, <1>8, <1>9, <1>10, <1>11,
      <1>12, <1>13, <1>14, <1>15, <1>16, <1>17, <1>18, <1>19, <1>20, <1>21,
      <1>22, <1>23, <1>24, <1>25, <1>26, <1>27, <1>28, <1>29, <1>30, <1>31 DEF
      Next, User, Serve, ResponseHandler, Handler, Miniccc, SendCommands

(* A client is never sent a command twice on one connection, whatever is   *)
(* deleted or cleared meanwhile and whichever goroutines are late.         *)
THEOREM SentOnce == Spec => NoResend
<1>1. Init => ConnInv /\ CommandTypes /\ CommandInv
  BY BoundsAssumption DEF Init, ConnInv, RegisteredHasHandler, ServedIsRegistered,
     CommandTypes, CommandInv, Registered, NoConn, Conns
<1>2. ConnTypes /\ ConnInv /\ CommandTypes /\ CommandInv /\ [Next]_vars
        => ConnTypes' /\ ConnInv' /\ CommandTypes' /\ CommandInv'
  BY ConnTypesStep, ConnInvStep, CommandTypesStep, CommandInvStep
<1>3. ConnTypes /\ ConnInv /\ CommandTypes /\ CommandInv /\ [Next]_vars => [NoResendStep]_vars
  BY NoResendOfSteps
<1>4. QED
  BY ConnTypesInit, <1>1, <1>2, <1>3, PTL DEF Spec, NoResend

----------------------------------------------------------------------------
(* The rest of the types.  A miniccc that dials or runs has a connection,  *)
(* and a goroutine in sendCommands was counted when it was started.        *)
Beat == [uuid : UUIDs, resp : SUBSET Command]

ServerTypes ==
    /\ sends \in [UUIDs \cup {All} -> Nat]
    /\ pipes \subseteq Conns
    /\ serving \in Conns \cup {NoConn}
    /\ listener \in {"open", "closing", "gone"}
    /\ clearing \in BOOLEAN /\ closed \in BOOLEAN /\ panic \in BOOLEAN
    /\ reaper \in {"asleep", "gone"}
    /\ destroy \in {"no", "listeners", "clients", "done"}

ReplyTypes ==
    /\ inbox \in [Conns -> SUBSET Command]
    /\ toServer \in [Conns -> Seq(Message)]
    /\ responses \in Seq(Beat) /\ Len(responses) <= MaxQueue
    /\ reply \in Seq(Beat) /\ Len(reply) <= 1
    /\ stored \subseteq UUIDs \X Command
    /\ checkedIn \in [1 .. MaxCommands -> Nat]

ClientTypes ==
    /\ boots \in [UUIDs -> 1 .. MaxBoots]
    /\ mux \in [UUIDs -> {"idle", "dialing", "run", "dead"}]
    /\ cconn \in [UUIDs -> Conns \cup {NoConn}]
    /\ \A u \in UUIDs : mux[u] \in {"dialing", "run"} => cconn[u] \in Conns
    /\ hello \in [UUIDs -> BOOLEAN]
    /\ handlers \in [UUIDs -> SUBSET Conns]

(* What miniccc has to do, and has done. *)
WorkTypes ==
    /\ chan \in [UUIDs -> Seq(SUBSET Command)]
    /\ work \in [UUIDs -> [Conns -> SUBSET Command]]
    /\ queue \in [UUIDs -> SUBSET Command]
    /\ ran \in [UUIDs -> SUBSET (1 .. MaxCommands)]

(* Goroutines, channels and locks of the server. *)
LEMMA ServerTypesStep ==
    ASSUME ConnTypes, ServerTypes, [Next]_vars
    PROVE  ServerTypes'
<1> USE BoundsAssumption, UUIDsAssumption
<1>1. ASSUME NEW to \in SUBSET UUIDs, NewCommand(to) PROVE ServerTypes'
  BY <1>1 DEF ServerTypes, NewCommand, cmdVars, connVars, respVars, endVars, netVars,
     cccVars
<1>2. CASE ClearResponses
  BY <1>2 DEF ServerTypes, ClearResponses, cmdVars, connVars, respVars, endVars,
     netVars, cccVars
<1>3. CASE Destroy
  BY <1>3 DEF ServerTypes, Destroy, cmdVars, connVars, respVars, endVars, netVars,
     cccVars
<1>4. CASE ServeExit
  BY <1>4 DEF ServerTypes, ServeExit, cmdVars, connVars, respVars, endVars, netVars,
     cccVars
<1>5. ASSUME NEW c \in Conns, Accept(c) PROVE ServerTypes'
  BY <1>5 DEF ServerTypes, Accept, cmdVars, connVars, respVars, endVars, netVars,
     cccVars
<1>6. ASSUME NEW c \in Conns, HandshakeAccepted(c) PROVE ServerTypes'
  <2>1. sends[owner[c]] + 1 \in Nat /\ owner[c] \in UUIDs
    BY <1>6 DEF ConnTypes, ServerTypes, HandshakeAccepted
  <2>2. sends' \in [UUIDs \cup {All} -> Nat]
    BY <1>6, <2>1 DEF ServerTypes, HandshakeAccepted
  <2>3. QED
    BY <1>6, <2>2 DEF ServerTypes, HandshakeAccepted, respVars
<1>7. ASSUME NEW c \in Conns, HandshakeFailed(c) PROVE ServerTypes'
  BY <1>7 DEF ServerTypes, HandshakeFailed, cmdVars, connVars, respVars, endVars,
     netVars, cccVars
<1>8. CASE ResponsesCleared
  BY <1>8 DEF ServerTypes, ResponsesCleared, cmdVars, connVars, respVars, endVars,
     netVars, cccVars
<1>9. CASE DestroyListeners
  BY <1>9 DEF ServerTypes, DestroyListeners, cmdVars, connVars, respVars, endVars,
     netVars, cccVars
<1>10. CASE DestroyClients
  BY <1>10 DEF ServerTypes, DestroyClients, cmdVars, connVars, respVars, endVars,
     netVars, cccVars
<1>11. ASSUME NEW S \in SUBSET UUIDs, Reap(S) PROVE ServerTypes'
  BY <1>11 DEF ServerTypes, Reap, cmdVars, connVars, respVars, endVars, netVars,
     cccVars
<1>12. ASSUME NEW t \in UUIDs \cup {All}, SendCommands(t) PROVE ServerTypes'
  <2>1. sends[t] \in Nat /\ sends[t] > 0
    BY <1>12 DEF ServerTypes, SendCommands
  <2>2. sends[t] - 1 \in Nat
    BY <2>1
  <2>3. PICK max \in 0 .. MaxCommands : SendTo(t, max)
    BY <1>12 DEF SendCommands
  <2>4. sends' \in [UUIDs \cup {All} -> Nat]
    BY <2>2, <2>3 DEF ServerTypes, SendTo
  <2>5. QED
    BY <2>3, <2>4 DEF ServerTypes, SendTo, respVars, endVars
<1>13. ASSUME NEW c \in Conns, Receive(c) PROVE ServerTypes'
  BY <1>13 DEF ServerTypes, Receive, cmdVars, connVars, respVars, endVars, netVars,
     cccVars
<1>14. ASSUME NEW c \in Conns, PassOn(c) PROVE ServerTypes'
  BY <1>14 DEF ServerTypes, PassOn, cmdVars, connVars, respVars, endVars, netVars,
     cccVars
<1>15. ASSUME NEW c \in Conns, Exit(c) PROVE ServerTypes'
  BY <1>15 DEF ServerTypes, Exit, cmdVars, connVars, respVars, endVars, netVars,
     cccVars
<1>16. CASE \/ ClearCommands \/ UpdateClient \/ WriteResponses
           \/ \E S \in SUBSET commands : DeleteCommands(S)
           \/ \E c \in Conns : ReceiveError(c) \/ PeerLost(c) \/ LinkFails(c)
  <2>1. UNCHANGED <<sends, pipes, clearing, endVars>>
    BY <1>16 DEF DeleteCommands, ClearCommands, UpdateClient, WriteResponses,
       ReceiveError, PeerLost, LinkFails, cmdVars, connVars, respVars, endVars, netVars,
       cccVars
  <2>2. QED
    BY <2>1 DEF ServerTypes, endVars
<1>17. CASE \E u \in UUIDs : Miniccc(u) \/ Reset(u)
  <2>1. PICK u \in UUIDs : Miniccc(u) \/ Reset(u)
    BY <1>17
  <2>2. CASE OpenPipe(u)
    BY <2>2 DEF ServerTypes, OpenPipe, cmdVars, connVars, respVars, endVars, netVars,
       cccVars
  <2>3. CASE Dial(u) \/ Heartbeat(u) \/ Mux(u) \/ MuxError(u) \/ Reset(u)
    <3>1. UNCHANGED <<sends, pipes, clearing, endVars>>
      BY <2>3 DEF Dial, Heartbeat, Transmit, Mux, MuxError, Reset, cmdVars, connVars,
         respVars, endVars, netVars, cccVars
    <3>2. QED
      BY <3>1 DEF ServerTypes, endVars
  <2>4. ASSUME NEW h \in Conns, TakeCommands(u, h) \/ ProcessCommand(u, h)
        PROVE  ServerTypes'
    <3>1. UNCHANGED <<sends, pipes, clearing, endVars>>
      BY <2>4 DEF TakeCommands, ProcessCommand, Transmit, cmdVars, connVars, respVars,
         endVars, netVars, cccVars
    <3>2. QED
      BY <3>1 DEF ServerTypes, endVars
  <2>5. QED
    BY <2>1, <2>2, <2>3, <2>4 DEF Miniccc
<1>18. CASE User
  BY <1>1, <1>2, <1>3, <1>4, <1>5, <1>6, <1>7, <1>8, <1>9, <1>10, <1>11, <1>12, <1>13,
     <1>14, <1>15, <1>16, <1>18 DEF User
<1>19. CASE \E c \in Conns : Handler(c) \/ PeerLost(c) \/ LinkFails(c)
  BY <1>1, <1>2, <1>3, <1>4, <1>5, <1>6, <1>7, <1>8, <1>9, <1>10, <1>11, <1>12, <1>13,
     <1>14, <1>15, <1>16, <1>19 DEF Handler
<1>20. CASE Serve \/ ResponseHandler
  BY <1>1, <1>2, <1>3, <1>4, <1>5, <1>6, <1>7, <1>8, <1>9, <1>10, <1>11, <1>12, <1>13,
     <1>14, <1>15, <1>16, <1>20 DEF Serve, ResponseHandler
<1>21. CASE Next
  BY <1>8, <1>9, <1>10, <1>11, <1>12, <1>17, <1>18, <1>19, <1>20, <1>21 DEF Next
<1>22. CASE UNCHANGED vars
  BY <1>22 DEF ServerTypes, vars, cmdVars, connVars, respVars, endVars, netVars, cccVars
<1>23. QED
  BY <1>21, <1>22

(* The goroutines of miniccc. *)
LEMMA ClientTypesStep ==
    ASSUME ConnTypes, ClientTypes, [Next]_vars
    PROVE  ClientTypes'
<1> USE BoundsAssumption, UUIDsAssumption
<1>1. ASSUME NEW c \in Conns, Accept(c) PROVE ClientTypes'
  <2>1. mux' = mux \/ (cconn[owner[c]] = c /\ mux' = [mux EXCEPT ![owner[c]] = "run"])
    BY <1>1 DEF Accept
  <2>2. owner[c] \in UUIDs
    BY <1>1 DEF Accept, ConnTypes
  <2>3. mux' \in [UUIDs -> {"idle", "dialing", "run", "dead"}]
        /\ \A u \in UUIDs : mux'[u] \in {"dialing", "run"} => cconn[u] \in Conns
    BY <2>1, <2>2 DEF ClientTypes
  <2>4. QED
    BY <1>1, <2>3 DEF Accept, ClientTypes
<1>2. ASSUME NEW u \in UUIDs, Dial(u) PROVE ClientTypes'
  <2>1. nconn + 1 \in Conns
    BY <1>2 DEF Dial, ConnTypes, Conns
  <2>2. QED
    BY <1>2, <2>1 DEF Dial, ClientTypes
<1>3. ASSUME NEW u \in UUIDs, Heartbeat(u) PROVE ClientTypes'
  BY <1>3 DEF ClientTypes, Heartbeat, Transmit, cmdVars, connVars, respVars, endVars,
     netVars, cccVars
<1>4. ASSUME NEW u \in UUIDs, Mux(u) PROVE ClientTypes'
  <2>1. cconn[u] \in Conns
    BY <1>4 DEF Mux, ClientTypes
  <2>2. handlers[u] \cup {cconn[u]} \in SUBSET Conns
    BY <2>1 DEF ClientTypes
  <2>3. handlers' = handlers \/ handlers' = [handlers EXCEPT ![u] = handlers[u] \cup {cconn[u]}]
    BY <1>4 DEF Mux
  <2>4. handlers' \in [UUIDs -> SUBSET Conns]
    BY <2>2, <2>3 DEF ClientTypes
  <2>5. QED
    BY <1>4, <2>4 DEF Mux, ClientTypes
<1>5. ASSUME NEW u \in UUIDs, MuxError(u) PROVE ClientTypes'
  BY <1>5 DEF ClientTypes, MuxError, cmdVars, connVars, respVars, endVars, netVars,
     cccVars
<1>6. ASSUME NEW u \in UUIDs, Reset(u) PROVE ClientTypes'
  <2>1. boots[u] + 1 \in 1 .. MaxBoots
    BY <1>6 DEF Reset, ClientTypes
  <2>2. QED
    BY <1>6, <2>1 DEF Reset, ClientTypes
<1>7. CASE \/ ClearCommands \/ ClearResponses \/ Destroy \/ ServeExit \/ UpdateClient \/
              WriteResponses \/ ResponsesCleared \/ DestroyListeners \/
              DestroyClients
           \/ \E to \in SUBSET UUIDs : NewCommand(to)
           \/ \E S \in SUBSET commands : DeleteCommands(S)
           \/ \E c \in Conns : HandshakeAccepted(c) \/ HandshakeFailed(c) \/ Receive(c) \/
              PassOn(c) \/ ReceiveError(c) \/ Exit(c) \/ PeerLost(c) \/ LinkFails(c)
           \/ \E S \in SUBSET UUIDs : Reap(S)
           \/ \E u \in UUIDs : OpenPipe(u)
           \/ \E u \in UUIDs, h \in Conns : TakeCommands(u, h) \/ ProcessCommand(u, h)
           \/ \E t \in UUIDs \cup {All} : SendCommands(t)
           \/ UNCHANGED vars
  <2>1. UNCHANGED <<boots, mux, cconn, hello, handlers>>
    BY ZenonT(40), <1>7 DEF NewCommand, DeleteCommands, ClearCommands, ClearResponses, Destroy,
       ServeExit, HandshakeAccepted, HandshakeFailed, UpdateClient, WriteResponses,
       ResponsesCleared, DestroyListeners, DestroyClients, Reap, SendTo, SendCommands,
       Receive, PassOn, ReceiveError, Exit, PeerLost, LinkFails, OpenPipe, Transmit,
       TakeCommands, ProcessCommand, vars, cmdVars, connVars, respVars, endVars,
       netVars, cccVars
  <2>2. QED
    BY <2>1 DEF ClientTypes
<1>8. CASE \E u \in UUIDs : Miniccc(u) \/ Reset(u)
  BY <1>1, <1>2, <1>3, <1>4, <1>5, <1>6, <1>7, <1>8 DEF Miniccc
<1>9. CASE User
  BY <1>1, <1>2, <1>3, <1>4, <1>5, <1>6, <1>7, <1>9 DEF User
<1>10. CASE \E c \in Conns : Handler(c) \/ PeerLost(c) \/ LinkFails(c)
  BY <1>1, <1>2, <1>3, <1>4, <1>5, <1>6, <1>7, <1>10 DEF Handler
<1>11. CASE Serve \/ ResponseHandler
  BY <1>1, <1>2, <1>3, <1>4, <1>5, <1>6, <1>7, <1>11 DEF Serve, ResponseHandler
<1>12. QED
  BY <1>1, <1>2, <1>3, <1>4, <1>5, <1>6, <1>7, <1>8, <1>9, <1>10, <1>11 DEF Next

(* Commands on their way through miniccc. *)
LEMMA WorkTypesStep ==
    ASSUME CommandTypes, ClientTypes, WorkTypes, [Next]_vars
    PROVE  WorkTypes'
<1> USE BoundsAssumption, UUIDsAssumption
<1>1. ASSUME NEW u \in UUIDs, Heartbeat(u) PROVE WorkTypes'
  BY <1>1 DEF WorkTypes, Heartbeat, Transmit, cmdVars, connVars, respVars, endVars,
     netVars, cccVars
<1>2. ASSUME NEW u \in UUIDs, Mux(u) PROVE WorkTypes'
  <2> DEFINE d == cconn[u]
  <2> DEFINE m == Head(toClient[d])
  <2>1. d \in Conns
    BY <1>2 DEF Mux, ClientTypes
  <2>2. toClient[d] \in Seq(Answer) /\ toClient[d] # <<>>
    BY <1>2, <2>1 DEF Mux, CommandTypes
  <2>3. m \in Answer
    BY <2>2
  <2>4. chan' = chan \/ chan' = [chan EXCEPT ![u] = Append(@, m.cmds)]
    BY <1>2 DEF Mux
  <2>5. m.cmds \in SUBSET Command
    BY <2>3 DEF Answer
  <2>6. Append(chan[u], m.cmds) \in Seq(SUBSET Command)
    <3> HIDE DEF m
    <3>1. QED
      BY <2>5 DEF WorkTypes
  <2>7. chan' \in [UUIDs -> Seq(SUBSET Command)]
    BY <2>4, <2>6 DEF WorkTypes
  <2>8. QED
    BY <1>2, <2>7 DEF Mux, WorkTypes
<1>3. ASSUME NEW u \in UUIDs, NEW h \in Conns, TakeCommands(u, h) PROVE WorkTypes'
  <2>1. chan[u] \in Seq(SUBSET Command) /\ chan[u] # <<>>
    BY <1>3 DEF TakeCommands, WorkTypes
  <2>2. Head(chan[u]) \in SUBSET Command /\ Tail(chan[u]) \in Seq(SUBSET Command)
    BY <2>1
  <2>3. chan' \in [UUIDs -> Seq(SUBSET Command)]
    BY <1>3, <2>2 DEF TakeCommands, WorkTypes
  <2>4. work' \in [UUIDs -> [Conns -> SUBSET Command]]
    BY <1>3, <2>2 DEF TakeCommands, WorkTypes
  <2>5. QED
    BY <1>3, <2>3, <2>4 DEF TakeCommands, WorkTypes
<1>4. ASSUME NEW u \in UUIDs, NEW h \in Conns, ProcessCommand(u, h) PROVE WorkTypes'
  <2>1. PICK cmd \in work[u][h] : ProcessCommand(u, h)!(cmd)
    BY <1>4 DEF ProcessCommand
  <2>2. cmd \in Command /\ cmd.n \in 1 .. MaxCommands
    BY DEF WorkTypes, Command
  <2>3. work' \in [UUIDs -> [Conns -> SUBSET Command]]
    BY <2>1 DEF WorkTypes
  <2>4. queue' \in [UUIDs -> SUBSET Command] /\ ran' \in [UUIDs -> SUBSET (1 .. MaxCommands)]
    BY <2>1, <2>2 DEF WorkTypes
  <2>5. QED
    BY <2>1, <2>3, <2>4 DEF WorkTypes
<1>5. ASSUME NEW u \in UUIDs, Reset(u) PROVE WorkTypes'
  BY <1>5 DEF WorkTypes, Reset, cmdVars, connVars, respVars, endVars, netVars, cccVars
<1>6. CASE \/ ClearCommands \/ ClearResponses \/ Destroy \/ ServeExit \/ UpdateClient \/
              WriteResponses \/ ResponsesCleared \/ DestroyListeners \/
              DestroyClients
           \/ \E to \in SUBSET UUIDs : NewCommand(to)
           \/ \E S \in SUBSET commands : DeleteCommands(S)
           \/ \E c \in Conns : Accept(c) \/ HandshakeAccepted(c) \/ HandshakeFailed(c) \/
              Receive(c) \/ PassOn(c) \/ ReceiveError(c) \/ Exit(c) \/ PeerLost(c)
              \/ LinkFails(c)
           \/ \E S \in SUBSET UUIDs : Reap(S)
           \/ \E u \in UUIDs : Dial(u) \/ OpenPipe(u) \/ MuxError(u)
           \/ \E t \in UUIDs \cup {All} : SendCommands(t)
           \/ UNCHANGED vars
  <2>1. UNCHANGED <<chan, work, queue, ran>>
    BY ZenonT(40), <1>6 DEF NewCommand, DeleteCommands, ClearCommands, ClearResponses, Destroy,
       ServeExit, Accept, HandshakeAccepted, HandshakeFailed, UpdateClient,
       WriteResponses, ResponsesCleared, DestroyListeners, DestroyClients, Reap,
       SendTo, SendCommands, Receive, PassOn, ReceiveError, Exit, PeerLost, LinkFails,
       Dial, OpenPipe, Transmit, MuxError, vars, cmdVars, connVars, respVars, endVars,
       netVars, cccVars
  <2>2. QED
    BY <2>1 DEF WorkTypes
<1>7. CASE \E u \in UUIDs : Miniccc(u) \/ Reset(u)
  BY <1>1, <1>2, <1>3, <1>4, <1>5, <1>6, <1>7 DEF Miniccc
<1>8. CASE User
  BY <1>1, <1>2, <1>3, <1>4, <1>5, <1>6, <1>8 DEF User
<1>9. CASE \E c \in Conns : Handler(c) \/ PeerLost(c) \/ LinkFails(c)
  BY <1>1, <1>2, <1>3, <1>4, <1>5, <1>6, <1>9 DEF Handler
<1>10. CASE Serve \/ ResponseHandler
  BY <1>1, <1>2, <1>3, <1>4, <1>5, <1>6, <1>10 DEF Serve, ResponseHandler
<1>11. QED
  BY <1>1, <1>2, <1>3, <1>4, <1>5, <1>6, <1>7, <1>8, <1>9, <1>10 DEF Next

(* Responses on their way to the disk of the server. *)
LEMMA ReplyTypesStep ==
    ASSUME ConnTypes, WorkTypes, ClientTypes, ReplyTypes, [Next]_vars
    PROVE  ReplyTypes'
<1> USE BoundsAssumption, UUIDsAssumption
<1>1. ASSUME NEW c \in Conns, HandshakeAccepted(c) PROVE ReplyTypes'
  <2>1. Tail(toServer[c]) \in Seq(Message)
    BY <1>1 DEF HandshakeAccepted, ReplyTypes
  <2>2. QED
    BY <1>1, <2>1 DEF HandshakeAccepted, ReplyTypes, respVars
<1>2. CASE UpdateClient
  <2>1. /\ Head(responses) \in Beat /\ Tail(responses) \in Seq(Beat)
        /\ Len(Tail(responses)) <= MaxQueue
    BY <1>2 DEF UpdateClient, ReplyTypes
  <2>2. <<Head(responses)>> \in Seq(Beat) /\ Len(<<Head(responses)>>) <= 1
    BY <2>1
  <2>3. QED
    BY <1>2, <2>1, <2>2 DEF UpdateClient, ReplyTypes, connVars, netVars
<1>3. CASE WriteResponses
  <2>1. reply[1] \in Beat
    BY <1>3 DEF WriteResponses, ReplyTypes
  <2>2. stored' \subseteq UUIDs \X Command
    BY <1>3, <2>1 DEF WriteResponses, ReplyTypes, Beat
  <2>3. checkedIn' \in [1 .. MaxCommands -> Nat]
    BY <1>3 DEF WriteResponses, ReplyTypes
  <2>4. <<>> \in Seq(Beat) /\ Len(<<>>) <= 1
    OBVIOUS
  <2>5. QED
    BY <1>3, <2>2, <2>3, <2>4 DEF WriteResponses, ReplyTypes, connVars, netVars
<1>4. CASE ResponsesCleared
  BY <1>4 DEF ReplyTypes, ResponsesCleared, cmdVars, connVars, respVars, endVars,
     netVars, cccVars
<1>5. ASSUME NEW c \in Conns, Receive(c) PROVE ReplyTypes'
  <2>1. Head(toServer[c]) \in Message /\ Tail(toServer[c]) \in Seq(Message)
    BY <1>5 DEF Receive, ReplyTypes
  <2>2. inbox' \in [Conns -> SUBSET Command]
    BY <1>5, <2>1 DEF Receive, ReplyTypes, Message
  <2>3. toServer' \in [Conns -> Seq(Message)]
    BY <1>5, <2>1 DEF Receive, ReplyTypes
  <2>4. QED
    BY <1>5, <2>2, <2>3 DEF Receive, ReplyTypes, respVars
<1>6. ASSUME NEW c \in Conns, PassOn(c) PROVE ReplyTypes'
  <2>1. CASE closed
    BY <1>6, <2>1 DEF PassOn, ReplyTypes, netVars
  <2>2. CASE ~closed
    <3> DEFINE b == [uuid |-> owner[c], resp |-> inbox[c]]
    <3>1. b \in Beat
      BY <1>6 DEF PassOn, ReplyTypes, ConnTypes, Beat
    <3>2. responses' = Append(responses, b) /\ Len(responses) < MaxQueue
      BY <1>6, <2>2 DEF PassOn
    <3>3. responses' \in Seq(Beat) /\ Len(responses') <= MaxQueue
      <4> HIDE DEF b
      <4>1. QED
        BY <3>1, <3>2 DEF ReplyTypes
    <3>4. inbox' \in [Conns -> SUBSET Command]
      BY <1>6 DEF PassOn, ReplyTypes
    <3>5. QED
      BY <1>6, <3>3, <3>4 DEF PassOn, ReplyTypes, netVars
  <2>3. QED
    BY <2>1, <2>2
<1>7. ASSUME NEW u \in UUIDs, Heartbeat(u) PROVE ReplyTypes'
  <2> DEFINE m == [type |-> "client", resp |-> queue[u]]
  <2>1. cconn[u] \in Conns /\ m \in Message
    BY <1>7 DEF Heartbeat, ClientTypes, WorkTypes, Message
  <2>2. Append(toServer[cconn[u]], m) \in Seq(Message)
    <3> HIDE DEF m
    <3>1. QED
      BY <2>1 DEF ReplyTypes
  <2>3. toServer' \in [Conns -> Seq(Message)]
    BY <1>7, <2>1, <2>2 DEF Heartbeat, Transmit, ReplyTypes
  <2>4. QED
    BY <1>7, <2>3 DEF Heartbeat, ReplyTypes, connVars, respVars
<1>8. ASSUME NEW u \in UUIDs, OpenPipe(u) PROVE ReplyTypes'
  <2> DEFINE m == [type |-> "pipe", resp |-> {}]
  <2>1. cconn[u] \in Conns /\ m \in Message
    BY <1>8 DEF OpenPipe, ClientTypes, Message
  <2>2. Append(toServer[cconn[u]], m) \in Seq(Message)
    <3> HIDE DEF m
    <3>1. QED
      BY <2>1 DEF ReplyTypes
  <2>3. toServer' \in [Conns -> Seq(Message)]
    BY <1>8, <2>1, <2>2 DEF OpenPipe, Transmit, ReplyTypes
  <2>4. QED
    BY <1>8, <2>3 DEF OpenPipe, ReplyTypes, connVars, respVars
<1>9. CASE \/ ClearCommands \/ ClearResponses \/ Destroy \/ ServeExit \/ DestroyListeners \/
              DestroyClients
           \/ \E to \in SUBSET UUIDs : NewCommand(to)
           \/ \E S \in SUBSET commands : DeleteCommands(S)
           \/ \E c \in Conns : Accept(c) \/ HandshakeFailed(c) \/ ReceiveError(c) \/ Exit(c) \/
              PeerLost(c) \/ LinkFails(c)
           \/ \E S \in SUBSET UUIDs : Reap(S)
           \/ \E u \in UUIDs : Dial(u) \/ Mux(u) \/ MuxError(u) \/ Reset(u)
           \/ \E u \in UUIDs, h \in Conns : TakeCommands(u, h) \/ ProcessCommand(u, h)
           \/ \E t \in UUIDs \cup {All} : SendCommands(t)
           \/ UNCHANGED vars
  <2>1. UNCHANGED <<inbox, toServer, responses, reply, stored, checkedIn>>
    BY ZenonT(40), <1>9 DEF NewCommand, DeleteCommands, ClearCommands, ClearResponses, Destroy,
       ServeExit, Accept, HandshakeFailed, DestroyListeners, DestroyClients, Reap,
       SendTo, SendCommands, ReceiveError, Exit, PeerLost, LinkFails, Dial, Mux,
       MuxError, TakeCommands, ProcessCommand, Reset, vars, cmdVars, connVars,
       respVars, endVars, netVars, cccVars
  <2>2. QED
    BY <2>1 DEF ReplyTypes
<1>10. CASE \E u \in UUIDs : Miniccc(u) \/ Reset(u)
  BY <1>1, <1>2, <1>3, <1>4, <1>5, <1>6, <1>7, <1>8, <1>9, <1>10 DEF Miniccc
<1>11. CASE User
  BY <1>1, <1>2, <1>3, <1>4, <1>5, <1>6, <1>7, <1>8, <1>9, <1>11 DEF User
<1>12. CASE \E c \in Conns : Handler(c) \/ PeerLost(c) \/ LinkFails(c)
  BY <1>1, <1>2, <1>3, <1>4, <1>5, <1>6, <1>7, <1>8, <1>9, <1>12 DEF Handler
<1>13. CASE Serve \/ ResponseHandler
  BY <1>1, <1>2, <1>3, <1>4, <1>5, <1>6, <1>7, <1>8, <1>9, <1>13 DEF Serve,
     ResponseHandler
<1>14. QED
  BY <1>1, <1>2, <1>3, <1>4, <1>5, <1>6, <1>7, <1>8, <1>9, <1>10, <1>11, <1>12, <1>13
     DEF Next

LEMMA TypesInit == Init => ServerTypes /\ ClientTypes /\ WorkTypes /\ ReplyTypes /\ CommandTypes
<1> SUFFICES ASSUME Init PROVE ServerTypes /\ ClientTypes /\ WorkTypes /\ ReplyTypes /\ CommandTypes
  OBVIOUS
<1>1. ServerTypes
  BY DEF Init, ServerTypes
<1>2. ClientTypes /\ WorkTypes
  BY BoundsAssumption DEF Init, ClientTypes, WorkTypes
<1>3. ReplyTypes /\ CommandTypes
  BY BoundsAssumption DEF Init, ReplyTypes, CommandTypes
<1>4. QED
  BY <1>1, <1>2, <1>3

(* The maps, channels and counters of the server and of miniccc keep their *)
(* types, and s.responses never holds more than it has room for, for any   *)
(* number of VMs, connections, commands and resets.                        *)
THEOREM TypeCorrect == Spec => []TypeOK
<1> DEFINE Types == /\ ConnTypes /\ CommandTypes /\ ServerTypes
                   /\ ClientTypes /\ WorkTypes /\ ReplyTypes
<1>1. Init => Types
  BY ConnTypesInit, TypesInit
<1>2. Types /\ [Next]_vars => Types'
  BY ConnTypesStep, CommandTypesStep, ServerTypesStep, ClientTypesStep, WorkTypesStep,
     ReplyTypesStep
<1>3. Types => TypeOK
  BY DEF ConnTypes, CommandTypes, ServerTypes, ClientTypes, WorkTypes, ReplyTypes, TypeOK, Beat
<1>4. QED
  BY <1>1, <1>2, <1>3, PTL DEF Spec
=============================================================================
